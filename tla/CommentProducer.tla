-------------------------- MODULE CommentProducer --------------------------
(***************************************************************************)
(* The GitHub comment producer against the operator's schedule admission.    *)
(* One poller process visits the configured repositories in order, lists the *)
(* comments updated since the repository's stored cursor and handles each:   *)
(* a help request is answered by a comment carrying a persisted marker, any   *)
(* other command is submitted to schedule admission.  The cursor advances     *)
(* only when nothing was deferred.  The process may die between any two       *)
(* steps; the cursors and the help records are in SQLite and survive.         *)
(*                                                                         *)
(* Time is in seconds, the precision of GitHub's updated_at and of the since  *)
(* parameter the cursor is truncated to.  GitHub's since is inclusive.        *)
(***************************************************************************)
EXTENDS ScheduleAdmission, Sequences

CONSTANTS
  Comments,       \* comments people post, ids in the order of posting
  Existing,       \* the ones that are there when the producer is first started
  Repositories,   \* Config.Repositories, in order
  RepoOf,         \* [Comments -> repository]
  IssueOf,        \* [Comments -> issue or pull request]
  PullRequests,   \* the issues that are pull requests
  Intent,         \* [Comments -> what ParseCommand finds, "none" if nothing]
  AuthorOf,       \* [Comments -> Principals]
  AllowedAuthors, \* Config.AllowedAuthors
  InitialSince,   \* Config.InitialSince, Never when it is not set
  RetryDelay,     \* helpResponseRetryDelay
  MaxTime,        \* bound: the clock stops here; no faults and no new comments
                  \*   in the last second, so that polling can settle
  MaxFaults       \* bound: failures, crashes and suspensions

Never == -1
Time == 0 .. MaxTime
Repos == {Repositories[i] : i \in DOMAIN Repositories}
NoComment == "no comment"

ASSUME ProducerConfiguration ==
  /\ RepoOf \in [Comments -> Repos] /\ AuthorOf \in [Comments -> Principals]
  /\ Intent \in [Comments -> {"none", "help", "pr create", "pr continue", "review", "run"}]
  /\ InitialSince \in Time \cup {Never}
  /\ {RetryDelay, MaxTime, MaxFaults} \subseteq Nat
  /\ Jobs = Comments /\ NoComment \notin Comments

VARIABLES
  clock,       \* seconds
  updatedAt,   \* GitHub: [Comments -> Time], Never before the comment exists
  replies,     \* GitHub: [Comments -> the markers of the help responses to it]
  outstanding, \* help POSTs whose connection broke and that may still land
  cursors,     \* SQLite repo_cursors
  help,        \* SQLite help_comment_responses: [Comments -> record]
  poller,      \* the process: its step and the locals of pollRepo
  startedAt,   \* Poller.startedAt
  lastPoll,    \* when the last poll of this process began
  outcome,     \* the last answer the poller got for a command; the reaction on
               \*   the comment follows from it
  faults       \* faults so far

storeVars == <<cursors, help>>
githubVars == <<updatedAt, replies, outstanding>>
vars == <<admissionVars, clock, githubVars, storeVars, poller, startedAt, lastPoll, outcome, faults>>

(* poller.at: "begin" a repository, "list" its comments, "loop" over them;     *)
(* "reconcile", "attempt", "post", "record" a help response; "await" the       *)
(* answer of admission; "clean" the delivered help records.                   *)
Begin(i) == [at |-> "begin", repo |-> i, started |-> 0, next |-> 0, todo |-> {},
             current |-> NoComment, now |-> 0, deferred |-> FALSE]

NoRecord == [status |-> "none", marker |-> 0, attempted |-> Never]

Init ==
  /\ AdmissionInit
  /\ clock = 0
  /\ updatedAt = [c \in Comments |-> IF c \in Existing THEN 0 ELSE Never]
  /\ replies = [c \in Comments |-> <<>>]
  /\ outstanding = {}
  /\ cursors = [r \in Repos |-> Never]
  /\ help = [c \in Comments |-> NoRecord]
  /\ poller = Begin(1)
  /\ startedAt = 0 /\ lastPoll = Never
  /\ outcome = [c \in Comments |-> "none"]
  /\ faults = 0
-----------------------------------------------------------------------------
(* What pollRepo decides about a comment.                                     *)
IsCommand(c) == Intent[c] # "none" /\ AuthorOf[c] \in AllowedAuthors

validCommandPlacement(c) ==
  CASE Intent[c] = "pr create" -> IssueOf[c] \notin PullRequests
    [] Intent[c] \in {"review", "pr continue"} -> IssueOf[c] \in PullRequests
    [] Intent[c] = "run" -> TRUE
    [] OTHER -> FALSE

IsHelp(c) == IsCommand(c) /\ Intent[c] = "help"
IsSubmitted(c) == IsCommand(c) /\ validCommandPlacement(c)

(* The idempotency key: `pr create` is keyed by its issue, the cooperative     *)
(* commands by their comment.                                                 *)
agentRunIdentityForCommand(c) ==
  IF Intent[c] = "pr create" THEN <<"issue", IssueOf[c]>> ELSE <<"comment", c>>
workGroupForCommand(c) ==
  IF Intent[c] = "pr continue" THEN <<"group", IssueOf[c]>> ELSE NoGroup

Since(r) ==
  IF cursors[r] # Never THEN cursors[r]
  ELSE IF InitialSince # Never THEN InitialSince ELSE startedAt

ListUpdatedIssueComments(r) ==
  {c \in Comments : /\ RepoOf[c] = r
                    /\ updatedAt[c] # Never
                    /\ updatedAt[c] >= Since(r)}

Latest(S) == CHOOSE t \in S : \A u \in S : u <= t
NextCursor(started, listed) == Latest({started} \cup {updatedAt[c] : c \in listed})

helpResponseMarkerExists(c) == \E i \in DOMAIN replies[c] : replies[c][i] = help[c].marker

TryBegin_Once(c, now) == help[c].status = "pending" /\ help[c].attempted = Never
TryBegin(c, now) ==
  /\ help[c].status = "pending"
  /\ help[c].attempted = Never \/ help[c].attempted <= now - RetryDelay

Repo == Repositories[poller.repo]
Faulty == faults < MaxFaults /\ clock < MaxTime
Fault == Faulty /\ faults' = faults + 1

(* Leaving the handling of the current comment.                               *)
Continue(p) == [p EXCEPT !.at = "loop", !.current = NoComment, !.now = 0]
Defer(p) == [Continue(p) EXCEPT !.deferred = TRUE]
(* pollRepo returns without an error, or with one: PollOnce then visits no      *)
(* further repository.                                                        *)
Return == Begin(IF poller.repo = Len(Repositories) THEN 1 ELSE poller.repo + 1)
ReturnError == Begin(1)
-----------------------------------------------------------------------------
(* GitHub and its users.                                                      *)
Tick ==
  /\ clock < MaxTime
  /\ clock' = clock + 1
  /\ UNCHANGED <<admissionVars, githubVars, storeVars, poller, startedAt, lastPoll, outcome, faults>>

PostComment(c) ==
  /\ updatedAt[c] = Never /\ clock < MaxTime
  /\ updatedAt' = [updatedAt EXCEPT ![c] = clock]
  /\ UNCHANGED <<admissionVars, clock, replies, outstanding, storeVars,
                 poller, startedAt, lastPoll, outcome, faults>>

Land(o) ==
  /\ o \in outstanding /\ clock < o.until
  /\ replies' = [replies EXCEPT ![o.comment] = Append(@, o.marker)]
  /\ outstanding' = outstanding \ {o}
  /\ UNCHANGED <<admissionVars, clock, updatedAt, storeVars, poller,
                 startedAt, lastPoll, outcome, faults>>

Expire(o) ==
  /\ o \in outstanding /\ clock >= o.until
  /\ outstanding' = outstanding \ {o}
  /\ UNCHANGED <<admissionVars, clock, updatedAt, replies, storeVars, poller,
                 startedAt, lastPoll, outcome, faults>>
-----------------------------------------------------------------------------
(* pollRepo.                                                                  *)
PollerOnly == UNCHANGED <<admissionVars, clock, githubVars, storeVars, startedAt, lastPoll, outcome>>

(* The ticker fires at most once a second: PollInterval is far longer.          *)
PollDue == clock > lastPoll \/ clock = MaxTime

StartRepo ==
  /\ poller.at = "begin"
  /\ poller.repo = 1 => PollDue
  /\ lastPoll' = IF poller.repo = 1 THEN clock ELSE lastPoll
  /\ poller' = [poller EXCEPT !.at = "list", !.started = clock]
  /\ UNCHANGED <<admissionVars, clock, githubVars, storeVars, startedAt, outcome, faults>>

ListRepo ==
  /\ poller.at = "list"
  /\ LET listed == ListUpdatedIssueComments(Repo)
     IN  poller' = [poller EXCEPT !.at = "loop", !.todo = listed, !.started = 0,
                                  !.next = NextCursor(poller.started, listed)]
  /\ PollerOnly /\ UNCHANGED faults

(* The comments come in the order of their update times.                       *)
Oldest(c) ==
  /\ poller.at = "loop" /\ c \in poller.todo
  /\ \A d \in poller.todo : updatedAt[c] <= updatedAt[d]
Taken(c) == [poller EXCEPT !.todo = @ \ {c}]

SkipComment(c) ==
  /\ Oldest(c) /\ ~IsHelp(c) /\ ~IsSubmitted(c)
  /\ poller' = Taken(c)
  /\ PollerOnly /\ UNCHANGED faults

(* GetOrCreateHelpResponse: a new record starts an attempt at once, a pending   *)
(* one is reconciled with the thread first, a delivered one ends the matter.    *)
HelpLookup(c) ==
  /\ Oldest(c) /\ IsHelp(c)
  /\ LET taken == [Taken(c) EXCEPT !.current = c, !.now = clock]
     IN  \/ /\ help[c].status = "none"
            /\ help' = [help EXCEPT ![c] = [status |-> "pending",
                          marker |-> Len(replies[c]) + 1, attempted |-> Never]]
            /\ poller' = [taken EXCEPT !.at = "attempt"]
         \/ /\ help[c].status = "pending"
            /\ poller' = [taken EXCEPT !.at = "reconcile"]
            /\ UNCHANGED help
         \/ /\ help[c].status = "delivered"
            /\ poller' = Continue(taken)
            /\ UNCHANGED help
  /\ UNCHANGED <<admissionVars, clock, githubVars, cursors, startedAt, lastPoll, outcome, faults>>

HelpReconcile_NotRead ==
  /\ poller.at = "reconcile"
  /\ poller' = [poller EXCEPT !.at = "attempt"]
  /\ PollerOnly /\ UNCHANGED faults
HelpReconcile ==
  /\ poller.at = "reconcile"
  /\ IF helpResponseMarkerExists(poller.current)
     THEN /\ help' = [help EXCEPT ![poller.current].status = "delivered"]
          /\ poller' = Continue(poller)
     ELSE /\ poller' = [poller EXCEPT !.at = "attempt"]
          /\ UNCHANGED help
  /\ UNCHANGED <<admissionVars, clock, githubVars, cursors, startedAt, lastPoll, outcome, faults>>

TryBeginHelpResponseAttempt ==
  /\ poller.at = "attempt"
  /\ IF TryBegin(poller.current, poller.now)
     THEN /\ help' = [help EXCEPT ![poller.current].attempted = poller.now]
          /\ poller' = [poller EXCEPT !.at = "post"]
     ELSE /\ poller' = Defer(poller)
          /\ UNCHANGED help
  /\ UNCHANGED <<admissionVars, clock, githubVars, cursors, startedAt, lastPoll, outcome, faults>>

CreateIssueComment ==
  /\ poller.at = "post"
  /\ replies' = [replies EXCEPT ![poller.current] = Append(@, help[poller.current].marker)]
  /\ poller' = [poller EXCEPT !.at = "record"]
  /\ UNCHANGED <<admissionVars, clock, updatedAt, outstanding, storeVars,
                 startedAt, lastPoll, outcome, faults>>

(* The outcome is uncertain: the response may be there already, may still       *)
(* appear, or may never (Expire).                                             *)
CreateIssueCommentFails ==
  /\ poller.at = "post" /\ Fault
  /\ poller' = Defer(poller)
  /\ outstanding' = outstanding \cup
       {[comment |-> poller.current, marker |-> help[poller.current].marker,
         until |-> poller.now + RetryDelay]}
  /\ UNCHANGED <<admissionVars, clock, updatedAt, replies, storeVars,
                 startedAt, lastPoll, outcome>>

SetHelpResponseDelivered ==
  /\ poller.at = "record"
  /\ help' = [help EXCEPT ![poller.current].status = "delivered"]
  /\ poller' = Continue(poller)
  /\ UNCHANGED <<admissionVars, clock, githubVars, cursors, startedAt, lastPoll, outcome, faults>>

(* submitScheduleAdmission posts the command and waits.                        *)
Submit(c) ==
  /\ Oldest(c) /\ IsSubmitted(c)
  /\ requests' = requests \cup
       {Request(c, agentRunIdentityForCommand(c), workGroupForCommand(c), AuthorOf[c])}
  /\ poller' = [Taken(c) EXCEPT !.at = "await", !.current = c]
  /\ UNCHANGED <<runs, admitted, suspended, handling, reply, collects, clock, githubVars,
                 storeVars, startedAt, lastPoll, outcome, faults>>

(* What the answer means: accepted and duplicate work is done, and so is a       *)
(* definitive rejection.                                                       *)
Settle(p, answer) ==
  CASE answer \in {"scheduled", "duplicate", "rejected"} -> Continue(p)
    [] answer = "deferred" -> Defer(p)
    [] answer = "error" -> ReturnError

Receive_ErrorsAccepted ==
  /\ poller.at = "await" /\ reply # NoReply
  /\ poller' = Settle(poller, IF reply = "error" THEN "duplicate" ELSE reply)
  /\ outcome' = [outcome EXCEPT ![poller.current] = IF reply = "error" THEN "duplicate" ELSE reply]
  /\ reply' = NoReply
  /\ UNCHANGED <<runs, admitted, suspended, requests, handling, collects, clock,
                 githubVars, storeVars, startedAt, lastPoll, faults>>
Receive_KeepsReply ==
  /\ poller.at = "await" /\ reply # NoReply
  /\ poller' = Settle(poller, reply)
  /\ outcome' = [outcome EXCEPT ![poller.current] = IF reply = "error" THEN @ ELSE reply]
  /\ UNCHANGED <<admissionVars, clock, githubVars, storeVars, startedAt, lastPoll, faults>>
Receive ==
  /\ poller.at = "await" /\ reply # NoReply
  /\ poller' = Settle(poller, reply)
  /\ outcome' = [outcome EXCEPT ![poller.current] = IF reply = "error" THEN @ ELSE reply]
  /\ reply' = NoReply
  /\ UNCHANGED <<runs, admitted, suspended, requests, handling, collects, clock,
                 githubVars, storeVars, startedAt, lastPoll, faults>>

ConnectionLost ==
  /\ poller.at = "await" /\ Fault
  /\ Detach
  /\ poller' = ReturnError
  /\ UNCHANGED <<runs, admitted, suspended, collects, clock, githubVars, storeVars,
                 startedAt, lastPoll, outcome>>

(* The comments are done: with a deferral pollRepo returns, else it stores the  *)
(* cursor and then deletes the delivered help records.                         *)
RepoDeferred ==
  /\ poller.at = "loop" /\ poller.todo = {} /\ poller.deferred
  /\ poller' = Return
  /\ PollerOnly /\ UNCHANGED faults

SetRepoCursor_AtEnd ==
  /\ poller.at = "loop" /\ poller.todo = {} /\ ~poller.deferred
  /\ cursors' = [cursors EXCEPT ![Repo] = clock]
  /\ poller' = [poller EXCEPT !.at = "clean"]
  /\ UNCHANGED <<admissionVars, clock, githubVars, help, startedAt, lastPoll, outcome, faults>>
SetRepoCursor ==
  /\ poller.at = "loop" /\ poller.todo = {} /\ ~poller.deferred
  /\ cursors' = [cursors EXCEPT ![Repo] = poller.next]
  /\ poller' = [poller EXCEPT !.at = "clean"]
  /\ UNCHANGED <<admissionVars, clock, githubVars, help, startedAt, lastPoll, outcome, faults>>

DeleteDeliveredHelpResponses ==
  /\ poller.at = "clean"
  /\ help' = [c \in Comments |->
                IF RepoOf[c] = Repo /\ help[c].status = "delivered" THEN NoRecord ELSE help[c]]
  /\ poller' = Return
  /\ UNCHANGED <<admissionVars, clock, githubVars, cursors, startedAt, lastPoll, outcome, faults>>

(* A GitHub or SQLite call fails: pollRepo returns the error.                   *)
CallFails ==
  /\ Fault
  /\ \/ poller.at \in {"list", "reconcile", "attempt", "record", "clean"}
     \/ poller.at = "loop" /\ (poller.todo # {} \/ ~poller.deferred)
  /\ poller' = ReturnError
  /\ PollerOnly

(* The process dies and is started again.                                      *)
Crash ==
  /\ Fault
  /\ poller # Begin(1)
  /\ Detach
  /\ poller' = Begin(1)
  /\ startedAt' = clock /\ lastPoll' = Never
  /\ UNCHANGED <<runs, admitted, suspended, collects, clock, githubVars, storeVars, outcome>>
-----------------------------------------------------------------------------
(* The operator's steps.                                                      *)
ProducerUnchanged ==
  UNCHANGED <<clock, githubVars, storeVars, poller, startedAt, lastPoll, outcome>>

OperatorStep ==
  \/ \E q \in requests : Acquire(q)
  \/ \E h \in handling : Serve(h) \/ Abandon(h)

OperatorFault ==
  \/ \E h \in handling : ServeFails(h)
  \/ OperatorRestart

PollerStep ==
  \/ StartRepo \/ ListRepo \/ RepoDeferred \/ SetRepoCursor
  \/ DeleteDeliveredHelpResponses \/ Receive
  \/ HelpReconcile \/ TryBeginHelpResponseAttempt \/ CreateIssueComment
  \/ SetHelpResponseDelivered
  \/ \E c \in Comments : SkipComment(c) \/ HelpLookup(c) \/ Submit(c)

Next ==
  \/ PollerStep \/ CreateIssueCommentFails \/ ConnectionLost \/ CallFails \/ Crash
  \/ Tick
  \/ \E c \in Comments : PostComment(c)
  \/ \E o \in outstanding : Land(o) \/ Expire(o)
  \/ (OperatorStep \/ Resume) /\ ProducerUnchanged /\ UNCHANGED faults
  \/ OperatorFault /\ ProducerUnchanged /\ Fault
  \/ \E r \in runs : (Finish(r) \/ Collect(r)) /\ ProducerUnchanged /\ UNCHANGED faults

(* The poller's ticker and its calls return, the operator serves requests,      *)
(* AgentRuns end (their active deadline), and time passes.                      *)
Fairness ==
  /\ WF_vars(PollerStep)
  /\ WF_vars(OperatorStep /\ ProducerUnchanged /\ UNCHANGED faults)
  /\ WF_vars(\E r \in runs : Finish(r) /\ ProducerUnchanged /\ UNCHANGED faults)
  /\ WF_vars(Tick)

Spec == Init /\ [][Next]_vars /\ Fairness
-----------------------------------------------------------------------------
TypeOK ==
  /\ clock \in Time /\ startedAt \in Time /\ faults \in 0 .. MaxFaults
  /\ updatedAt \in [Comments -> Time \cup {Never}]
  /\ cursors \in [Repos -> Time \cup {Never}]
  /\ \A c \in Comments : help[c].status \in {"none", "pending", "delivered"}
  /\ \A r \in runs : r.job \in Comments /\ r.nth \in 1 .. admitted[r.job]
  /\ reply \in Replies \cup {NoReply}
  /\ Cardinality({q \in requests \cup handling : q.live}) <= 1
  /\ poller.at = "await" <=> (reply # NoReply \/ \E q \in requests \cup handling : q.live)

Done(c) ==
  IF IsHelp(c) THEN replies[c] # <<>>
  ELSE IsSubmitted(c) => outcome[c] \in {"scheduled", "duplicate", "rejected"}

(* The stored cursor never passes a command that still has to be answered:      *)
(* whatever was deferred, failed or cut short by a crash is listed again.       *)
NothingSkipped ==
  \A c \in Comments :
    updatedAt[c] # Never /\ updatedAt[c] < cursors[RepoOf[c]] => Done(c)

(* A help response that is reconciled, retried and re-recorded across failures  *)
(* and restarts appears once under its marker.                                 *)
OneReplyPerMarker ==
  \A c \in Comments : \A i, j \in DOMAIN replies[c] :
    replies[c][i] = replies[c][j] => i = j

(* The poller's state stays consistent and no marker is posted twice.            *)
HelpAnsweredOnce == TypeOK /\ OneReplyPerMarker

(* The reactions the outcomes stand for are honest: the accepted one is only on  *)
(* commands whose work (or whose pull request's group) has got an AgentRun, the   *)
(* rejected one only where none was created.                                    *)
OutcomesHonest ==
  \A c \in Comments :
    /\ outcome[c] \in {"scheduled", "duplicate"} =>
         \E d \in Comments :
           /\ admitted[d] > 0
           /\ \/ agentRunIdentityForCommand(d) = agentRunIdentityForCommand(c)
              \/ /\ workGroupForCommand(c) # NoGroup
                 /\ workGroupForCommand(c) = workGroupForCommand(d)
    /\ outcome[c] = "rejected" => admitted[c] = 0

(* Every command that somebody posts is answered in the end, by an AgentRun, a   *)
(* help response or a rejection, unless the schedule stays suspended.           *)
CommandsAnswered ==
  <>[]~suspended => \A c \in Comments : updatedAt[c] # Never ~> Done(c)
=============================================================================
