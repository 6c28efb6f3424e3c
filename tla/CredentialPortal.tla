--------------------------- MODULE CredentialPortal ---------------------------
(* The credential portal (credentialportal/internal/portal): logins and the   *)
(* eligibility lease they renew at the broker (auth.go), the requests of a    *)
(* signed-in principal (server.go), the goroutine of each enrolment           *)
(* (enrollment.go), the credential runner it drives over HTTP                 *)
(* (runner_protocol.go) and the three places a credential is stored in        *)
(* (broker_client.go, patcher.go).  The portal and the runner are containers  *)
(* of one Pod that restart on their own; a request its client gives up on may *)
(* still be executed later.  Templates and their switch are the subject of    *)
(* PrincipalAccounts; one template is modelled here.                          *)
EXTENDS Naturals, FiniteSets

CONSTANTS
  PtlModes,       \* where credentials go: "broker", "secret" or "file"
  PtlUsers,       \* principals
  PtlWebIDs,      \* web sessions, as many as the 4096 the portal keeps
  PtlIDs,         \* enrolment identifiers; each is drawn at random and used once
  PtlConcurrent,  \* maxConcurrent, of the portal and of the runner
  PtlMaxSessions, \* maxSessions
  PtlTimeout,     \* timeoutSeconds
  PtlAge,         \* session.maxAgeSeconds
  PtlLeaseTerm,   \* eligibilityLeaseSeconds
  PtlHorizon      \* bound on the clock

ASSUME PortalBounds ==
  /\ PtlModes \subseteq {"broker", "secret", "file"}
  /\ {PtlConcurrent, PtlMaxSessions, PtlTimeout, PtlAge, PtlLeaseTerm} \subseteq Nat \ {0}
  /\ PtlConcurrent <= PtlMaxSessions
  /\ PtlHorizon \in Nat

VARIABLES
  pMode,      \* the configured store
  pClock,
  pWeb,       \* Authenticator.sessions
  pLogin,     \* a login between its evaluation and its session
  pAsk,       \* a request between its session check and its effect
  pEnr,       \* the enrolments and where their goroutines are
  pRun,       \* RunnerServer.sessions
  pLate,      \* starts and writes given up by their client and not executed yet
  pAccount,   \* broker: state of the principal's account
  pLease,     \* broker: eligibility_expires_at
  pEval,      \* history: the latest expiry an eligible evaluation granted
  pStored,    \* history: enrolments whose credential was stored
  pGaveUp     \* history: enrolments that gave up on a runner request

authVars == <<pWeb, pLogin>>
brokerVars == <<pAccount, pLease>>
portalVars == <<pMode, pClock, pWeb, pLogin, pAsk, pEnr, pRun, pLate, pAccount, pLease, pEval, pStored, pGaveUp>>

Nobody == [who |-> "none"]
Earlier(a, b) == IF a < b THEN a ELSE b
Later(a, b) == IF a < b THEN b ELSE a
FreshEnrolment == [at |-> "new", who |-> "none", op |-> "none", deadline |-> 0, elig |-> 0, document |-> FALSE,
                   status |-> "starting", action |-> "none", cancel |-> "none", code |-> "unused", ended |-> 0]
FreshRun == [state |-> "none", cancelled |-> FALSE, expires |-> 0, action |-> "none", coded |-> FALSE]

PortalInit ==
  /\ pMode \in PtlModes
  /\ pClock = 0
  /\ pWeb = [w \in PtlWebIDs |-> Nobody] /\ pLogin = [p \in PtlUsers |-> Nobody] /\ pAsk = [p \in PtlUsers |-> Nobody]
  /\ pEnr = [e \in PtlIDs |-> FreshEnrolment] /\ pRun = [e \in PtlIDs |-> FreshRun]
  /\ pLate = {}
  /\ pAccount = [p \in PtlUsers |-> "none"] /\ pLease = [p \in PtlUsers |-> 0] /\ pEval = [p \in PtlUsers |-> 0]
  /\ pStored = {} /\ pGaveUp = {}

-----------------------------------------------------------------------------
(* Logins.                                                                    *)

Live(w) ==
  /\ pWeb[w] # Nobody
  /\ pWeb[w].expires > pClock
  /\ pMode = "broker" => pWeb[w].elig > pClock

\* The expiry of the evaluation: the lease or the session, whichever is shorter.
EvaluationExpiry == IF pMode = "broker" THEN pClock + Earlier(PtlAge, PtlLeaseTerm) ELSE pClock + PtlAge

\* The identity provider answered for p and the policy was evaluated.
Callback(p) ==
  /\ pMode # "file" /\ pLogin[p] = Nobody
  /\ \E admitted \in BOOLEAN :
       /\ pLogin' = [pLogin EXCEPT ![p] =
            [who |-> p, admitted |-> admitted, expires |-> pClock + PtlAge, elig |-> EvaluationExpiry, leased |-> FALSE]]
       /\ pEval' = IF admitted THEN [pEval EXCEPT ![p] = Later(@, EvaluationExpiry)] ELSE pEval
  /\ UNCHANGED <<pMode, pClock, pWeb, pAsk, pEnr, pRun, pLate, brokerVars, pStored, pGaveUp>>

invalidatePrincipalSessions(p) == [w \in PtlWebIDs |-> IF pWeb[w].who = p THEN Nobody ELSE pWeb[w]]

\* The broker renews the lease of an account it has; it never shortens one.
RenewEligibility(p, expiry) ==
  pLease' = IF pAccount[p] # "none" /\ expiry > pClock THEN [pLease EXCEPT ![p] = Later(@, expiry)] ELSE pLease

\* A denied login ends the sessions of the principal and asks for its lease to
\* be revoked; an admitted one goes on only once the broker has confirmed the
\* renewal.  Either request may be lost, or be executed and not be answered.
updateEligibilityLease(p) ==
  LET login == pLogin[p] IN
  /\ login # Nobody /\ ~login.leased
  /\ \/ /\ pMode # "broker" /\ login.admitted
        /\ pLogin' = [pLogin EXCEPT ![p].leased = TRUE]
        /\ UNCHANGED <<pWeb, pLease>>
     \/ /\ pMode # "broker" /\ ~login.admitted
        /\ pLogin' = [pLogin EXCEPT ![p] = Nobody]
        /\ UNCHANGED <<pWeb, pLease>>
     \/ /\ pMode = "broker" /\ ~login.admitted
        /\ pWeb' = invalidatePrincipalSessions(p)
        /\ \/ pLease' = [pLease EXCEPT ![p] = 0]
           \/ UNCHANGED pLease
        /\ pLogin' = [pLogin EXCEPT ![p] = Nobody]
     \/ /\ pMode = "broker" /\ login.admitted
        /\ \/ /\ login.elig > pClock
              /\ RenewEligibility(p, login.elig)
              /\ pLogin' = [pLogin EXCEPT ![p].leased = TRUE]
           \/ /\ RenewEligibility(p, login.elig)
              /\ pLogin' = [pLogin EXCEPT ![p] = Nobody]
           \/ /\ UNCHANGED pLease
              /\ pLogin' = [pLogin EXCEPT ![p] = Nobody]
        /\ UNCHANGED pWeb
  /\ UNCHANGED <<pMode, pClock, pAsk, pEnr, pRun, pLate, pAccount, pEval, pStored, pGaveUp>>

PrunedWeb == [w \in PtlWebIDs |-> IF pWeb[w] # Nobody /\ pWeb[w].expires <= pClock THEN Nobody ELSE pWeb[w]]

\* A session is opened unless as many as the portal keeps are open.
OpenSession(p, expires, elig) ==
  LET free == {w \in PtlWebIDs : PrunedWeb[w] = Nobody} IN
  pWeb' = IF free = {} THEN PrunedWeb
          ELSE [PrunedWeb EXCEPT ![CHOOSE w \in free : TRUE] = [who |-> p, expires |-> expires, elig |-> elig]]

LoginCompletes(p) ==
  /\ pLogin[p] # Nobody /\ pLogin[p].leased
  /\ OpenSession(p, pLogin[p].expires, pLogin[p].elig)
  /\ pLogin' = [pLogin EXCEPT ![p] = Nobody]
  /\ UNCHANGED <<pMode, pClock, pAsk, pEnr, pRun, pLate, brokerVars, pEval, pStored, pGaveUp>>

localLogin(p) ==
  /\ pMode = "file"
  /\ OpenSession(p, pClock + PtlAge, pClock + PtlAge)
  /\ pEval' = [pEval EXCEPT ![p] = Later(@, pClock + PtlAge)]
  /\ UNCHANGED <<pMode, pClock, pLogin, pAsk, pEnr, pRun, pLate, brokerVars, pStored, pGaveUp>>

-----------------------------------------------------------------------------
(* Requests of a signed-in principal.                                         *)

Over(e) == pEnr[e].status \in {"success", "failure", "cancelled"}
BeforeCheck == {"start", "poll", "delete", "deleting", "check"}
AfterCheck == {"write", "sent", "resent", "ack", "discard", "discarding", "release"}
InSemaphore(e) == pEnr[e].at \in BeforeCheck \cup AfterCheck
Kept(e) == pEnr[e].at \in BeforeCheck \cup AfterCheck \cup {"finish", "done"}
CtxDone(e) == pEnr[e].cancel # "none" \/ pEnr[e].deadline <= pClock

\* cancelLocked: the reason is set, the action withdrawn, the context cancelled.
cancelLocked(e) ==
  [pEnr[e] EXCEPT !.cancel = IF pEnr[e].at \in BeforeCheck THEN "early" ELSE "late", !.action = "none"]
Cancellable(e) == Kept(e) /\ ~Over(e) /\ pEnr[e].cancel = "none"
CancelPrincipal(p) ==
  pEnr' = [e \in PtlIDs |-> IF pEnr[e].who = p /\ Cancellable(e) THEN cancelLocked(e) ELSE pEnr[e]]

Logout(w) ==
  /\ Live(w)
  /\ CancelPrincipal(pWeb[w].who)
  /\ pWeb' = [pWeb EXCEPT ![w] = Nobody]
  /\ UNCHANGED <<pMode, pClock, pLogin, pAsk, pRun, pLate, brokerVars, pEval, pStored, pGaveUp>>

\* What a connect or an upload asks of the broker, by the state the account is in.
dynamicAction(p) == IF pAccount[p] = "active" THEN "reconnect" ELSE "enroll"

\* BUG: the expiry of the session is used in both modes.
Evidence_Session(w) == pWeb[w].expires

\* How long what was evaluated at the login may be used.
Evidence(w) == IF pMode = "broker" THEN pWeb[w].elig ELSE pWeb[w].expires

\* A request is let in with the expiry of its session; the session may end
\* before the request goes on.
LetIn(w, kind, op) ==
  LET who == pWeb[w].who IN
  /\ Live(w) /\ pAsk[who] = Nobody
  /\ pAsk' = [pAsk EXCEPT ![who] = [who |-> who, kind |-> kind, op |-> op, elig |-> Evidence(w)]]
  /\ UNCHANGED <<pMode, pClock, authVars, pEnr, pRun, pLate, brokerVars, pEval, pStored, pGaveUp>>

\* In the broker's mode it learns first what to ask for.
dynamicConnect(w) == pMode = "broker" /\ pWeb[w] # Nobody /\ LetIn(w, "connect", dynamicAction(pWeb[w].who))
dynamicRecovery(w) == pMode = "broker" /\ pWeb[w] # Nobody /\ LetIn(w, "upload", dynamicAction(pWeb[w].who))
connect(w) == pMode # "broker" /\ pWeb[w] # Nobody /\ LetIn(w, "connect", "patch")
enroll(w) == pMode # "broker" /\ pWeb[w] # Nobody /\ LetIn(w, "upload", "patch")

\* Sessions that ended more than a minute (one tick) ago are dropped first.
Pruned(e) == IF pEnr[e].at = "done" /\ pClock > pEnr[e].ended THEN [pEnr[e] EXCEPT !.at = "pruned", !.ended = 0] ELSE pEnr[e]
Remembered == {e \in PtlIDs : Pruned(e).at \in BeforeCheck \cup AfterCheck \cup {"finish", "done"}}

\* A slot of the semaphore and of the session table, and time left to use them.
Startable(deadline) ==
  /\ Cardinality({e \in PtlIDs : InSemaphore(e)}) < PtlConcurrent
  /\ deadline > pClock
  /\ Cardinality(Remembered) < PtlMaxSessions

StartEnrolment(p) ==
  LET ask == pAsk[p]
      deadline == Earlier(pClock + PtlTimeout, ask.elig)
  IN /\ ask # Nobody /\ ask.kind = "connect"
     /\ pAsk' = [pAsk EXCEPT ![p] = Nobody]
     /\ \/ \E e \in PtlIDs :
             /\ Startable(deadline) /\ pEnr[e].at = "new"
             /\ pEnr' = [f \in PtlIDs |->
                  IF f = e THEN [FreshEnrolment EXCEPT !.at = "start", !.who = p, !.op = ask.op,
                                                       !.deadline = deadline, !.elig = ask.elig]
                  ELSE Pruned(f)]
        \/ ~Startable(deadline) /\ UNCHANGED pEnr
     /\ UNCHANGED <<pMode, pClock, authVars, pRun, pLate, brokerVars, pEval, pStored, pGaveUp>>

CancelEnrolment(e) ==
  /\ \E w \in PtlWebIDs : Live(w) /\ pWeb[w].who = pEnr[e].who
  /\ Cancellable(e)
  /\ pEnr' = [pEnr EXCEPT ![e] = cancelLocked(e)]
  /\ UNCHANGED <<pMode, pClock, authVars, pAsk, pRun, pLate, brokerVars, pEval, pStored, pGaveUp>>

ProvideCode(e) ==
  /\ \E w \in PtlWebIDs : Live(w) /\ pWeb[w].who = pEnr[e].who
  /\ Kept(e) /\ pEnr[e].status = "action-required" /\ pEnr[e].action = "paste" /\ pEnr[e].code = "unused"
  /\ pEnr' = [pEnr EXCEPT ![e].code = "given"]
  /\ UNCHANGED <<pMode, pClock, authVars, pAsk, pRun, pLate, brokerVars, pEval, pStored, pGaveUp>>

-----------------------------------------------------------------------------
(* Stores.                                                                    *)

\* The broker commits a credential with the lease asserted for it.  It refuses
\* expired evidence, and an operation that no longer fits the account.
Accepts(p, op, elig) ==
  \/ pMode # "broker"
  \/ /\ elig > pClock
     /\ op = "enroll" <=> pAccount[p] # "active"
CommitCredential(p, elig) ==
  IF pMode = "broker"
  THEN pAccount' = [pAccount EXCEPT ![p] = "active"] /\ pLease' = [pLease EXCEPT ![p] = elig]
  ELSE UNCHANGED brokerVars

\* An enrolment's write is executed once: its operation identifier is recorded.
Execute(e, call) ==
  IF e \notin pStored /\ Accepts(call.who, call.op, call.elig)
  THEN CommitCredential(call.who, call.elig) /\ pStored' = pStored \cup {e}
  ELSE UNCHANGED <<brokerVars, pStored>>

\* An uploaded credential is stored with the lease of the session that sent it.
Upload(p) ==
  LET ask == pAsk[p] IN
  /\ ask # Nobody /\ ask.kind = "upload"
  /\ pAsk' = [pAsk EXCEPT ![p] = Nobody]
  /\ \/ Accepts(p, ask.op, ask.elig) /\ CommitCredential(p, ask.elig)
     \/ UNCHANGED brokerVars
  /\ UNCHANGED <<pMode, pClock, authVars, pEnr, pRun, pLate, pEval, pStored, pGaveUp>>

\* Enrolments are cancelled once the broker has confirmed the revocation; they
\* are left alone when the answer is lost.
dynamicRevoke(w) ==
  LET who == pWeb[w].who IN
  /\ pMode = "broker" /\ Live(w) /\ pAccount[who] = "active"
  /\ pAccount' = [pAccount EXCEPT ![who] = "revoked"] /\ pLease' = [pLease EXCEPT ![who] = 0]
  /\ CancelPrincipal(who) \/ UNCHANGED pEnr
  /\ UNCHANGED <<pMode, pClock, authVars, pAsk, pRun, pLate, pEval, pStored, pGaveUp>>

-----------------------------------------------------------------------------
(* The runner.                                                                *)

Present(e) == pRun[e].state \in {"running", "success", "failure"}
\* A session that has ended keeps its deadline, a removed one nothing.
Ended(e, state) == pRun' = [pRun EXCEPT ![e] = [FreshRun EXCEPT !.state = state, !.expires = pRun[e].expires, !.cancelled = pRun[e].cancelled]]
Removed(e, state) == pRun' = [pRun EXCEPT ![e] = [FreshRun EXCEPT !.state = state]]

\* A session starts once per identifier, before its deadline and within both limits.
RunnerAdmits(e, call) ==
  /\ call.deadline > pClock
  /\ Cardinality({f \in PtlIDs : pRun[f].state = "running"}) < PtlConcurrent
  /\ pRun[e].state = "none"
  /\ Cardinality({f \in PtlIDs : Present(f)}) < PtlMaxSessions
RunnerStarts(e, call) == pRun' = [pRun EXCEPT ![e].state = "running", ![e].expires = call.deadline]
RunCtxDone(e) == pRun[e].cancelled \/ pRun[e].expires <= pClock

\* The CLI prints where to sign in, and ends with or without a credential file.
CLIPublishes(e) ==
  /\ pRun[e].state = "running" /\ ~RunCtxDone(e) /\ pRun[e].action = "none"
  /\ \E action \in {"device", "paste"} : pRun' = [pRun EXCEPT ![e].action = action]
  /\ UNCHANGED <<pMode, pClock, authVars, pAsk, pEnr, pLate, brokerVars, pEval, pStored, pGaveUp>>
CLIEnds(e) ==
  /\ pRun[e].state = "running"
  /\ \/ ~RunCtxDone(e) /\ pRun[e].action # "none" /\ (pRun[e].action = "paste" => pRun[e].coded) /\ Ended(e, "success")
     \/ Ended(e, "failure")
  /\ UNCHANGED <<pMode, pClock, authVars, pAsk, pEnr, pLate, brokerVars, pEval, pStored, pGaveUp>>

\* The timer of a session, or the handler of a cancellation, removes it once its
\* process has ended.
expire(e) ==
  /\ Present(e) /\ pRun[e].state # "running" /\ RunCtxDone(e)
  /\ Removed(e, "gone")
  /\ UNCHANGED <<pMode, pClock, authVars, pAsk, pEnr, pLate, brokerVars, pEval, pStored, pGaveUp>>

\* The container of the runner restarts: its processes and sessions are gone.
RunnerRestarts ==
  /\ \E e \in PtlIDs : Present(e)
  /\ pRun' = [e \in PtlIDs |-> IF Present(e) THEN [FreshRun EXCEPT !.state = "gone"] ELSE pRun[e]]
  /\ UNCHANGED <<pMode, pClock, authVars, pAsk, pEnr, pLate, brokerVars, pEval, pStored, pGaveUp>>

-----------------------------------------------------------------------------
(* The goroutine of an enrolment.                                             *)

To(e, at) == pEnr' = [pEnr EXCEPT ![e].at = at]
Fail(e) == pEnr' = [pEnr EXCEPT ![e].at = "discard", ![e].document = FALSE]
OnItsWay(e, what) ==
  [what |-> what, id |-> e, who |-> pEnr[e].who, op |-> pEnr[e].op, elig |-> pEnr[e].elig, deadline |-> pEnr[e].deadline]
LeavesStores == UNCHANGED <<brokerVars, pStored>>
LeavesRequests == UNCHANGED <<pMode, pClock, authVars, pAsk, pEval>>

\* The start is answered, or given up (cancelled, timed out) and perhaps executed later.
StartAnswered(e) ==
  /\ pEnr[e].at = "start"
  /\ IF RunnerAdmits(e, pEnr[e]) THEN RunnerStarts(e, pEnr[e]) /\ To(e, "poll") ELSE To(e, "delete") /\ UNCHANGED pRun
  /\ LeavesStores /\ LeavesRequests /\ UNCHANGED <<pLate, pGaveUp>>
StartGivenUp(e) ==
  /\ pEnr[e].at = "start"
  /\ To(e, "delete")
  /\ pLate' \in {pLate, pLate \cup {OnItsWay(e, "start")}}
  /\ pGaveUp' = pGaveUp \cup {e}
  /\ LeavesStores /\ LeavesRequests /\ UNCHANGED pRun
LateStart(call) ==
  /\ call \in pLate /\ call.what = "start"
  /\ pLate' = pLate \ {call}
  /\ IF RunnerAdmits(call.id, call) THEN RunnerStarts(call.id, call) ELSE UNCHANGED pRun
  /\ LeavesStores /\ LeavesRequests /\ UNCHANGED <<pEnr, pGaveUp>>

\* One round of the loop: publish the action once, forward the code, take the
\* document, or leave to cancel the remote session: the context is done, the
\* session has failed or is gone, or a request was not answered.
publishAction(e) ==
  /\ pEnr[e].at = "poll" /\ ~CtxDone(e)
  /\ pRun[e].state = "running" /\ pRun[e].action # "none" /\ pEnr[e].status = "starting"
  /\ pEnr' = [pEnr EXCEPT ![e].status = "action-required", ![e].action = pRun[e].action]
  /\ LeavesStores /\ LeavesRequests /\ UNCHANGED <<pRun, pLate, pGaveUp>>
ForwardCode(e) ==
  /\ pEnr[e].at = "poll" /\ ~CtxDone(e) /\ pEnr[e].code = "given"
  /\ IF pRun[e].state = "running" /\ pRun[e].action = "paste" /\ ~pRun[e].coded
     THEN pEnr' = [pEnr EXCEPT ![e].code = "sent"] /\ pRun' = [pRun EXCEPT ![e].coded = TRUE]
     ELSE pEnr' = [pEnr EXCEPT ![e].at = "delete", ![e].code = "sent"] /\ UNCHANGED pRun
  /\ LeavesStores /\ LeavesRequests /\ UNCHANGED <<pLate, pGaveUp>>
TakeDocument(e) ==
  /\ pEnr[e].at = "poll" /\ pRun[e].state = "success" /\ pRun[e].expires > pClock
  /\ pEnr' = [pEnr EXCEPT ![e].at = "check", ![e].document = TRUE]
  /\ LeavesStores /\ LeavesRequests /\ UNCHANGED <<pRun, pLate, pGaveUp>>
PollEnds(e) ==
  /\ pEnr[e].at = "poll"
  /\ To(e, "delete")
  /\ LeavesStores /\ LeavesRequests /\ UNCHANGED <<pRun, pLate, pGaveUp>>

\* DELETE cancels the session and is answered when its process has ended.  It is
\* sent by the client when it leaves the loop and again when the enrolment has
\* not succeeded.
AfterDelete(at) == IF at \in {"delete", "deleting"} THEN "check" ELSE "release"
DeleteArrives(e) ==
  /\ pEnr[e].at \in {"delete", "discard"}
  /\ IF Present(e)
     THEN /\ pRun' = [pRun EXCEPT ![e].cancelled = TRUE]
          /\ To(e, IF pEnr[e].at = "delete" THEN "deleting" ELSE "discarding")
     ELSE To(e, AfterDelete(pEnr[e].at)) /\ UNCHANGED pRun
  /\ LeavesStores /\ LeavesRequests /\ UNCHANGED <<pLate, pGaveUp>>

\* BUG: the handler answers without waiting for the process.
DeleteAnswered_AtOnce(e) ==
  /\ pEnr[e].at \in {"deleting", "discarding"}
  /\ To(e, AfterDelete(pEnr[e].at))
  /\ LeavesStores /\ LeavesRequests /\ UNCHANGED <<pRun, pLate, pGaveUp>>

\* The handler waits for the channel that is closed when the process has ended.
DeleteAnswered(e) ==
  /\ pEnr[e].at \in {"deleting", "discarding"}
  /\ pRun[e].state # "running"
  /\ Removed(e, "gone")
  /\ To(e, AfterDelete(pEnr[e].at))
  /\ LeavesStores /\ LeavesRequests /\ UNCHANGED <<pLate, pGaveUp>>
DeleteGivenUp(e) ==
  /\ pEnr[e].at \in {"delete", "discard", "deleting", "discarding"} /\ Present(e)
  /\ To(e, AfterDelete(pEnr[e].at))
  /\ pGaveUp' = pGaveUp \cup {e}
  /\ LeavesStores /\ LeavesRequests /\ UNCHANGED <<pRun, pLate>>

\* BUG: only the runner's result decides whether the credential is stored.
Proceeds_Cancelled(e) == pEnr[e].document

\* A cancellation recorded before the lock is taken prevails over a document.
Proceeds(e) == pEnr[e].document /\ pEnr[e].cancel = "none"

\* The document may turn out to be invalid.
CheckResult(e) ==
  /\ pEnr[e].at = "check"
  /\ \/ Proceeds(e) /\ To(e, "write")
     \/ Fail(e)
  /\ LeavesStores /\ LeavesRequests /\ UNCHANGED <<pRun, pLate, pGaveUp>>

\* A file is replaced whatever has become of the context, and may be in place
\* although the directory could not be synced; a request is not sent once the
\* context is done.
WriteFile(e) ==
  /\ pEnr[e].at = "write" /\ pMode = "file"
  /\ \/ pStored' = pStored \cup {e} /\ (To(e, "ack") \/ Fail(e))
     \/ UNCHANGED pStored /\ Fail(e)
  /\ LeavesRequests /\ UNCHANGED <<pRun, pLate, brokerVars, pGaveUp>>
SendWrite(e) ==
  /\ pEnr[e].at = "write" /\ pMode # "file"
  /\ IF CtxDone(e) THEN Fail(e) ELSE To(e, "sent")
  /\ LeavesStores /\ LeavesRequests /\ UNCHANGED <<pRun, pLate, pGaveUp>>
WriteAnswered(e) ==
  /\ pEnr[e].at \in {"sent", "resent"}
  /\ Execute(e, pEnr[e])
  /\ IF e \in pStored' THEN To(e, "ack") ELSE Fail(e)
  /\ LeavesRequests /\ UNCHANGED <<pRun, pLate, pGaveUp>>

\* Without an answer the broker client asks once more, unless its context is done.
WriteUnanswered(e) ==
  /\ pEnr[e].at \in {"sent", "resent"}
  /\ IF pMode = "broker" /\ pEnr[e].at = "sent" /\ ~CtxDone(e) THEN To(e, "resent") ELSE Fail(e)
  /\ \/ Execute(e, pEnr[e]) /\ UNCHANGED pLate
     \/ LeavesStores /\ pLate' \in {pLate, pLate \cup {OnItsWay(e, "write")}}
  /\ LeavesRequests /\ UNCHANGED <<pRun, pGaveUp>>
LateWrite(call) ==
  /\ call \in pLate /\ call.what = "write"
  /\ pLate' = pLate \ {call}
  /\ Execute(call.id, call)
  /\ LeavesRequests /\ UNCHANGED <<pEnr, pRun, pGaveUp>>

\* BUG: the outcome of the acknowledgement is ignored.
AckFails_Ignored(e) == [pEnr[e] EXCEPT !.at = "release"]

AckFails(e) == [pEnr[e] EXCEPT !.at = "discard", !.document = FALSE]

\* The runner forgets a session it was told is stored, and repeats its answer;
\* it refuses one that has expired.
Acknowledged(e) == pRun[e].state = "success" /\ pRun[e].expires > pClock
AckAnswered(e) ==
  /\ pEnr[e].at = "ack"
  /\ \/ Acknowledged(e) /\ Removed(e, "acked") /\ To(e, "release")
     \/ pRun[e].state = "acked" /\ UNCHANGED pRun /\ To(e, "release")
     \/ /\ ~Acknowledged(e) /\ pRun[e].state # "acked"
        /\ pEnr' = [pEnr EXCEPT ![e] = AckFails(e)] /\ UNCHANGED pRun
  /\ LeavesStores /\ LeavesRequests /\ UNCHANGED <<pLate, pGaveUp>>
\* Without an answer it is sent again, three times within two seconds.
AckUnanswered(e) ==
  /\ pEnr[e].at = "ack"
  /\ IF Acknowledged(e) THEN Removed(e, "acked") \/ UNCHANGED pRun ELSE UNCHANGED pRun
  /\ pEnr' \in {pEnr, [pEnr EXCEPT ![e] = AckFails(e)]}
  /\ LeavesStores /\ LeavesRequests /\ UNCHANGED <<pLate, pGaveUp>>

\* The slot of the semaphore is returned before the outcome can be read.
Release(e) ==
  /\ pEnr[e].at = "release"
  /\ To(e, "finish")
  /\ LeavesStores /\ LeavesRequests /\ UNCHANGED <<pRun, pLate, pGaveUp>>
\* What nothing reads of a session that has ended is left out of it.
finish(e) ==
  /\ pEnr[e].at = "finish"
  /\ pEnr' = [pEnr EXCEPT ![e] = [FreshEnrolment EXCEPT !.at = "done", !.cancel = pEnr[e].cancel, !.ended = pClock,
       !.status = IF pEnr[e].document THEN "success" ELSE IF pEnr[e].cancel = "early" THEN "cancelled" ELSE "failure"]]
  /\ LeavesStores /\ LeavesRequests /\ UNCHANGED <<pRun, pLate, pGaveUp>>

\* The container of the portal restarts: sessions, logins and enrolments are
\* gone, requests that were on their way may still be executed.
PortalRestarts ==
  /\ \E w \in PtlWebIDs : pWeb[w] # Nobody
  /\ pWeb' = [w \in PtlWebIDs |-> Nobody] /\ pLogin' = [p \in PtlUsers |-> Nobody] /\ pAsk' = [p \in PtlUsers |-> Nobody]
  /\ LET lost == {e \in PtlIDs : Kept(e) /\ ~Over(e)}
         onTheirWay == {OnItsWay(e, "start") : e \in {x \in lost : pEnr[x].at = "start"}}
                         \cup {OnItsWay(e, "write") : e \in {x \in lost : pEnr[x].at \in {"sent", "resent"}}}
     IN /\ pEnr' = [e \in PtlIDs |-> IF Kept(e) THEN [FreshEnrolment EXCEPT !.at = "lost", !.cancel = pEnr[e].cancel] ELSE pEnr[e]]
        /\ pGaveUp' = pGaveUp \cup lost
        /\ \E late \in SUBSET onTheirWay : pLate' = pLate \cup late
  /\ UNCHANGED <<pMode, pClock, pRun, brokerVars, pEval, pStored>>

PortalTick ==
  /\ pClock < PtlHorizon
  /\ pClock' = pClock + 1
  /\ UNCHANGED <<pMode, authVars, pAsk, pEnr, pRun, pLate, brokerVars, pEval, pStored, pGaveUp>>

EnrolmentStep(e) ==
  \/ StartAnswered(e) \/ StartGivenUp(e) \/ publishAction(e) \/ ForwardCode(e) \/ TakeDocument(e) \/ PollEnds(e)
  \/ DeleteArrives(e) \/ DeleteAnswered(e) \/ DeleteGivenUp(e)
  \/ CheckResult(e) \/ WriteFile(e) \/ SendWrite(e) \/ WriteAnswered(e) \/ WriteUnanswered(e)
  \/ AckAnswered(e) \/ AckUnanswered(e) \/ Release(e) \/ finish(e)
RunnerStep(e) == CLIPublishes(e) \/ CLIEnds(e) \/ expire(e)
UserStep(p) ==
  Callback(p) \/ updateEligibilityLease(p) \/ LoginCompletes(p) \/ localLogin(p) \/ StartEnrolment(p) \/ Upload(p)
SessionStep(w) == Logout(w) \/ dynamicConnect(w) \/ dynamicRecovery(w) \/ connect(w) \/ enroll(w) \/ dynamicRevoke(w)

PortalNext ==
  \/ PortalTick \/ PortalRestarts \/ RunnerRestarts
  \/ \E call \in pLate : LateStart(call) \/ LateWrite(call)
  \/ \E p \in PtlUsers : UserStep(p)
  \/ \E w \in PtlWebIDs : SessionStep(w)
  \/ \E e \in PtlIDs : EnrolmentStep(e) \/ RunnerStep(e) \/ CancelEnrolment(e) \/ ProvideCode(e)

PortalSpec == PortalInit /\ [][PortalNext]_portalVars

-----------------------------------------------------------------------------
(* Properties.                                                                *)

\* Capacity and teardown: a credential CLI is running only for an enrolment that
\* still holds its slot, so that neither a free slot nor a terminal status is
\* seen while its process lives (the comment in EnrollmentManager.run).  The
\* exceptions are enrolments that gave up on a request to the runner.
TornDownBeforeRelease ==
  \A e \in PtlIDs : pRun[e].state = "running" /\ e \notin pGaveUp => InSemaphore(e)

\* An enrolment reported as successful has stored its credential, and the runner
\* no longer keeps a copy of it.
SuccessIsStored ==
  \A e \in PtlIDs : pEnr[e].status = "success" => e \in pStored /\ pRun[e].state \in {"acked", "gone"}

\* An enrolment cancelled (by its owner, a logout or a revocation) before its
\* result was looked at stores nothing, at any later time.
CancelledStoresNothing == \A e \in pStored : pEnr[e].cancel # "early"

\* The broker never holds a lease that reaches beyond what an eligible evaluation
\* granted, whatever logins, enrolments, uploads and late writes it executes, in
\* whichever order (docs: enrolment and reconnect commit the expiry "without
\* extending it").
LeaseFromEvaluation == \A p \in PtlUsers : pLease[p] <= pEval[p]

\* An enrolment settles once: what is running, what is reported and what is stored
\* agree, however cancellation, time-outs and lost calls cross its completion.
EnrolmentsSettle == TornDownBeforeRelease /\ SuccessIsStored /\ CancelledStoresNothing
===============================================================================
