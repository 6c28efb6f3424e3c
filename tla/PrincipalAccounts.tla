------------------------- MODULE PrincipalAccounts -------------------------
(***************************************************************************)
(* The broker's dynamic principal accounts and the two operator handlers     *)
(* that reserve them: schedule admission, which resolves the account and     *)
(* creates an AgentRun with its template, and the template switch, which     *)
(* authorises another template when no AgentRun of the principal is active.  *)
(*                                                                         *)
(* The broker executes one operation at a time under its lock.  A mutation   *)
(* of the credential takes several steps on disk, between which the process  *)
(* or the machine may stop; every other operation is one metadata write.     *)
(* Callers send a request, may lose patience and send it once more; a        *)
(* request nobody waits for any longer may still be executed.                *)
(***************************************************************************)
EXTENDS Integers, Sequences, FiniteSets

CONSTANTS
  None,
  Principals, Templates,
  Mutations,       \* operations frontends submit, by their operation ID
  Action,          \* [Mutations -> what is asked]
  Target,          \* [Mutations -> the template of an enrolment]
  Admissions,      \* admission handlers, by their coordination operation ID
  Handlers,        \* template switch handlers
  Owner,           \* [Mutations \cup Admissions -> Principals]
  SwitchRequests,  \* the IDs the broker may draw for switch requests
  MaxAccounts,     \* max_accounts
  MaxOperations,   \* MAX_OPERATIONS, the length of the log of operations
  MaxFaults        \* bound: lost requests, storage errors, crashes

Replacements == {"enroll", "reconnect"}
Actions == Replacements \cup {"revoke", "request", "renew", "deny"}

ASSUME AccountConstants ==
  /\ Action \in [Mutations -> Actions] /\ Target \in [Mutations -> Templates]
  /\ Owner \in [Mutations \cup Admissions -> Principals]
  /\ MaxOperations \in Nat \ {0} /\ {MaxAccounts, MaxFaults} \subseteq Nat
  /\ None \notin Principals \cup Templates \cup Mutations \cup Admissions \cup SwitchRequests
  /\ None \notin Nat
  /\ Mutations \cap Admissions = {} /\ Mutations \cap Handlers = {} /\ Admissions \cap Handlers = {}

VARIABLES
  accounts,  \* broker memory: [Principals -> metadata or None]
  handles,   \* broker memory: the credential that each published provider serves
  healthy,   \* broker memory
  busy,      \* the enrolment, reconnect or revocation under way, or None
  disk,      \* [Principals -> the account directory]
  issued,    \* switch request IDs drawn so far
  late,      \* requests on their way that nobody waits for
  caller,    \* what each frontend call and operator handler is at
  runs,      \* active AgentRuns with a principal credential
  faults     \* faults so far

brokerVars == <<accounts, handles, healthy, busy>>
vars == <<brokerVars, disk, issued, late, caller, runs, faults>>

Callers == Mutations \cup Admissions \cup Handlers

(* A credential file is known by the generation it was written for, and a      *)
(* provider instance by the generation that enrolled it.                      *)
NoHold == [kind |-> None, op |-> None, due |-> FALSE]
Generations == Nat \ {0}
Authorizations == [op : SwitchRequests, request : SwitchRequests]
Metadata ==
  [state : {"active", "revoked"}, template : Templates, generation : Generations,
   file : Generations \cup {None}, instance : Generations,
   log : Seq([op : Mutations, action : Actions, instance : Generations]),
   eligible : BOOLEAN,
   request : SwitchRequests \cup {None}, requestDue : BOOLEAN,
   hold : [kind : {None, "admission", "switch"},
           op : Admissions \cup SwitchRequests \cup {None}, due : BOOLEAN],
   authorized : Authorizations \cup {None}]

(* A request as it reaches the broker, and a credential operation it executes.    *)
Asking == {"call", "begin", "end", "commit", "abort"}
RequestType ==
  [caller : Callers, kind : Asking, principal : Principals \cup {None},
   op : Callers \cup SwitchRequests, live : BOOLEAN]
Operations ==
  [request : RequestType, metadata : Metadata, stage : {"prepared", "renamed"}]

ASSUME NoneIsApart ==
  None \notin Metadata /\ None \notin Operations /\ None \notin Authorizations

(* metadata.json as the file system shows it and as a machine crash may leave   *)
(* it, the credential files, and whether the directory exists.                *)
EmptyDirectory == [exists |-> FALSE, visible |-> None, durable |-> None, files |-> {}]

Idle ==
  [pc |-> "idle", attempt |-> 0, sent |-> FALSE,
   principal |-> None, request |-> None, template |-> None]

Init ==
  /\ accounts = [p \in Principals |-> None]
  /\ handles = [p \in Principals |-> None]
  /\ healthy = TRUE /\ busy = None
  /\ disk = [p \in Principals |-> EmptyDirectory]
  /\ issued = {} /\ late = {} /\ runs = {} /\ faults = 0
  /\ caller = [c \in Callers |-> Idle]

Fault == faults < MaxFaults /\ faults' = faults + 1
-----------------------------------------------------------------------------
(* _validate_metadata: what a start of the broker accepts.                     *)
ValidMetadata(m) ==
  /\ m.state = "active" <=> m.file # None
  /\ m.request # None => m.state = "revoked"
  /\ m.hold.kind = "switch" => m.state = "revoked" /\ m.request # None
  /\ m.authorized # None => m.state = "revoked" /\ m.request = None

Logged(m, o) == \E i \in DOMAIN m.log : m.log[i].op = o

(* _record_operation                                                          *)
Recorded(log, entry) ==
  LET longer == Append(log, entry)
      drop == IF Len(longer) > MaxOperations THEN Len(longer) - MaxOperations ELSE 0
  IN  SubSeq(longer, drop + 1, Len(longer))

(* _idempotent: the operation is in the log, for the same purpose.             *)
idempotent(m, o) ==
  \E i \in DOMAIN m.log :
    m.log[i] = [op |-> o, action |-> Action[o], instance |-> m.instance]

Enrolled(p) == accounts[p] # None
Active(p) == Enrolled(p) /\ accounts[p].state = "active"

NextGeneration_FromZero(p) == IF Enrolled(p) THEN accounts[p].generation + 1 ELSE 0
NextGeneration(p) == IF Enrolled(p) THEN accounts[p].generation + 1 ELSE 1

(* The metadata that _replace writes.  A reservation survives the replacement;   *)
(* the switch request and its authorisation do not.                           *)
Replaced(o, p, template, instance) ==
  LET m == accounts[p]
      next == NextGeneration(p)
  IN
  [state |-> "active", template |-> template,
   generation |-> next, file |-> next, instance |-> instance,
   log |-> Recorded(IF m = None THEN <<>> ELSE m.log,
                    [op |-> o, action |-> Action[o], instance |-> instance]),
   eligible |-> TRUE, request |-> None, requestDue |-> FALSE,
   hold |-> IF m = None THEN NoHold ELSE m.hold, authorized |-> None]

Revocation(o, p) ==
  LET m == accounts[p] IN
  [m EXCEPT !.state = "revoked", !.file = None, !.eligible = FALSE,
            !.log = Recorded(@, [op |-> o, action |-> "revoke", instance |-> m.instance])]

MayEnroll_Replayed(o, p) ==
  /\ ~Active(p)
  /\ Enrolled(p) => accounts[p].template = Target[o] \/ accounts[p].authorized # None
  /\ ~Enrolled(p) => Cardinality({q \in Principals : Enrolled(q)}) < MaxAccounts
MayEnroll(o, p) ==
  /\ ~Active(p)
  /\ Enrolled(p) => ~Logged(accounts[p], o)
  /\ Enrolled(p) => accounts[p].template = Target[o] \/ accounts[p].authorized # None
  /\ ~Enrolled(p) => Cardinality({q \in Principals : Enrolled(q)}) < MaxAccounts

(* What an accepted enrolment, reconnect or revocation leads to.               *)
Accepted(o, p) ==
  CASE Action[o] = "enroll" -> MayEnroll(o, p)
    [] Action[o] \in {"reconnect", "revoke"} -> Active(p) /\ ~Logged(accounts[p], o)
    [] OTHER -> FALSE
Changed(o, p) ==
  CASE Action[o] = "enroll" -> Replaced(o, p, Target[o], NextGeneration(p))
    [] Action[o] = "reconnect" ->
         Replaced(o, p, accounts[p].template, accounts[p].instance)
    [] Action[o] = "revoke" -> Revocation(o, p)

(* Answered from the log.  A revoked account repeats a revocation only.          *)
Repeated(o, p) ==
  /\ Enrolled(p) /\ idempotent(accounts[p], o)
  /\ Action[o] \in Replacements => Active(p)
-----------------------------------------------------------------------------
(* Reservations.  Each operator sets out what a granted request makes of the    *)
(* account, and is the empty set when the broker refuses it.                  *)
Holds(m, kind, op) == m.hold.kind = kind /\ m.hold.op = op /\ ~m.hold.due

(* _begin_coordination: an expired reservation gives way.                       *)
Reserve_Takeover(m, kind, op) ==
  {[m EXCEPT !.hold = [kind |-> kind, op |-> op, due |-> FALSE]]}
Reserve(m, kind, op) ==
  IF m.hold = NoHold \/ m.hold.due
  THEN {[m EXCEPT !.hold = [kind |-> kind, op |-> op, due |-> FALSE]]}
  ELSE IF Holds(m, kind, op) THEN {m} ELSE {}

(* _end_coordination                                                          *)
Release(m, kind, op) ==
  IF m.hold = NoHold \/ Holds(m, kind, op) THEN {[m EXCEPT !.hold = NoHold]} ELSE {}

begin_admission(m, a) ==
  IF m.state = "active" /\ m.eligible THEN Reserve(m, "admission", a) ELSE {}

begin_template_switch(m, r) ==
  IF m.state # "revoked" THEN {}
  ELSE IF m.authorized = [op |-> r, request |-> r] THEN {m}
  ELSE IF m.request = r /\ ~m.requestDue THEN Reserve(m, "switch", r)
  ELSE {}

commit_template_switch_KeepsRequest(m, r) ==
  IF m.authorized # None /\ m.authorized.op = r THEN {m}
  ELSE IF Holds(m, "switch", r) /\ m.state = "revoked" /\ m.request # None
  THEN {[m EXCEPT !.authorized = [op |-> r, request |-> m.request], !.hold = NoHold]}
  ELSE {}
commit_template_switch(m, r) ==
  IF m.authorized # None /\ m.authorized.op = r THEN {m}
  ELSE IF Holds(m, "switch", r) /\ m.state = "revoked" /\ m.request # None
  THEN {[m EXCEPT !.authorized = [op |-> r, request |-> m.request],
                  !.request = None, !.requestDue = FALSE, !.hold = NoHold]}
  ELSE {}

request_template_switch(m) ==
  IF m.state # "revoked" THEN {}
  ELSE IF m.authorized # None \/ (m.request # None /\ ~m.requestDue) THEN {m}
  ELSE {[m EXCEPT !.request = r, !.requestDue = FALSE] : r \in SwitchRequests \ issued}

(* renew_eligibility, revoke_eligibility: an unknown principal is not told so.   *)
SetEligibility(m, eligible) ==
  {IF m = None THEN None ELSE [m EXCEPT !.eligible = eligible]}
-----------------------------------------------------------------------------
(* Requests.  A caller waits for the one it sent; its "pc" is what it asks for.   *)
Waiting(c) == caller[c].pc \in Asking /\ caller[c].sent

PrincipalOf(c) == IF c \in Handlers THEN caller[c].principal ELSE Owner[c]
RequestOf(c, live) ==
  [caller |-> c, kind |-> caller[c].pc, principal |-> PrincipalOf(c),
   op |-> IF c \in Handlers THEN caller[c].request ELSE c, live |-> live]
Requests == {RequestOf(c, TRUE) : c \in {c \in Callers : Waiting(c)}} \cup late

Sending(c, pc) == [caller[c] EXCEPT !.pc = pc, !.attempt = 1, !.sent = TRUE]
Finished(c, pc) == [caller[c] EXCEPT !.pc = pc, !.attempt = 0, !.sent = FALSE]
Ended == [Idle EXCEPT !.pc = "ended"]

(* How a caller goes on: p is the principal that a granted switch names.         *)
Granted(c, p) ==
  CASE caller[c].pc = "call" -> Finished(c, "ok")
    [] caller[c].pc = "begin" /\ c \in Admissions -> Finished(c, "resolve")
    [] caller[c].pc = "begin" /\ c \in Handlers ->
         [Finished(c, "list") EXCEPT !.principal = p]
    [] caller[c].pc \in {"end", "commit", "abort"} -> Ended
Failed(c) ==
  CASE caller[c].pc = "call" -> Finished(c, "error")
    [] caller[c].pc \in {"begin", "end", "abort"} -> Ended
    [] caller[c].pc \in {"resolve", "create"} -> Sending(c, "end")
    [] caller[c].pc \in {"list", "commit"} -> Sending(c, "abort")

Reply(q, state) ==
  /\ caller' = IF q.live THEN [caller EXCEPT ![q.caller] = state] ELSE caller
  /\ late' = late \ {q}

(* What the broker may make of the account p at a request; the empty set when    *)
(* it refuses.  A credential operation that must be executed is not among them.  *)
Outcomes(q, p) ==
  LET m == accounts[p] IN
  IF q.kind = "call" /\ Action[q.op] \in {"renew", "deny"}
  THEN SetEligibility(m, Action[q.op] = "renew")
  ELSE IF ~Enrolled(p) THEN {}
  ELSE
  CASE q.kind = "call" /\ Action[q.op] = "request" -> request_template_switch(m)
    [] q.kind = "call" /\ Action[q.op] \in Replacements \cup {"revoke"} ->
         IF Repeated(q.op, p) THEN {m} ELSE {}
    [] q.kind = "begin" /\ q.caller \in Admissions -> begin_admission(m, q.op)
    [] q.kind = "begin" /\ q.caller \in Handlers -> begin_template_switch(m, q.op)
    [] q.kind = "end" -> Release(m, "admission", q.op)
    [] q.kind = "abort" -> Release(m, "switch", q.op)
    [] q.kind = "commit" -> commit_template_switch(m, q.op)

(* A switch is begun by the request ID alone; the broker looks up its account.    *)
Subjects(q) == IF q.principal = None THEN Principals ELSE {q.principal}
MustExecute(q) == q.kind = "call" /\ Accepted(q.op, q.principal)

Arrives(q) == q \in Requests /\ busy = None

Write(p, m) ==
  /\ accounts' = [accounts EXCEPT ![p] = m]
  /\ disk' = [disk EXCEPT ![p].visible = m, ![p].durable = m]

Drawn(m) == IF m = None THEN issued ELSE issued \cup ({m.request} \ {None})

(* One metadata write, or none when the account is as asked already.             *)
Grant(q) ==
  /\ Arrives(q) /\ healthy
  /\ \E p \in Subjects(q) : \E m \in Outcomes(q, p) :
       /\ IF m = accounts[p] THEN UNCHANGED <<accounts, disk>> ELSE Write(p, m)
       /\ issued' = Drawn(m)
       /\ Reply(q, Granted(q.caller, p))
  /\ UNCHANGED <<handles, healthy, busy, runs, faults>>

Refuse(q) ==
  /\ Arrives(q)
  /\ \/ ~healthy
     \/ ~MustExecute(q) /\ \A p \in Subjects(q) : Outcomes(q, p) = {}
  /\ Reply(q, Failed(q.caller))
  /\ UNCHANGED <<brokerVars, disk, issued, runs, faults>>

(* _latch_unhealthy                                                           *)
Latch_GoesOn == UNCHANGED <<healthy, handles>>
Latch ==
  /\ healthy' = FALSE
  /\ handles' = [p \in Principals |-> None]

(* The metadata write fails: before the rename, with nothing changed, or after it,  *)
(* with the new metadata visible but perhaps not durable.  An expired reservation  *)
(* is removed by a write of its own, which may be the one that succeeds.           *)
StoreFails(q) ==
  /\ Arrives(q) /\ healthy /\ Fault
  /\ \E p \in Subjects(q) : \E m \in Outcomes(q, p) :
       /\ m # accounts[p]
       /\ issued' = Drawn(m)
       /\ \/ UNCHANGED <<accounts, handles, healthy, disk>>
          \/ /\ disk' = [disk EXCEPT ![p].visible = m]
             /\ Latch /\ UNCHANGED accounts
          \/ /\ q.kind = "begin" /\ accounts[p].hold.due
             /\ Write(p, [accounts[p] EXCEPT !.hold = NoHold])
             /\ UNCHANGED <<handles, healthy>>
  /\ Reply(q, Failed(q.caller))
  /\ UNCHANGED <<busy, runs>>
-----------------------------------------------------------------------------
(* Enrolment, reconnect and revocation.  The credential file is written and its   *)
(* provider is started before the metadata names them; the file of the previous   *)
(* generation goes when the metadata is durable.                               *)
Prepare(q) ==
  /\ Arrives(q) /\ healthy /\ MustExecute(q)
  /\ LET m == Changed(q.op, q.principal) IN
     /\ busy' = [request |-> q, metadata |-> m, stage |-> "prepared"]
     /\ disk' = [disk EXCEPT ![q.principal].exists = TRUE,
                             ![q.principal].files = @ \cup ({m.file} \ {None})]
  /\ late' = late \ {q}
  /\ UNCHANGED <<accounts, handles, healthy, issued, caller, runs, faults>>

Executing(stage) == busy # None /\ busy.stage = stage

Rename_EarlyUnlink(p, m) ==
  disk' = [disk EXCEPT ![p].visible = m, ![p].files = {m.file} \ {None}]
Rename(p, m) == disk' = [disk EXCEPT ![p].visible = m]

Replace ==
  /\ Executing("prepared")
  /\ Rename(busy.request.principal, busy.metadata)
  /\ busy' = [busy EXCEPT !.stage = "renamed"]
  /\ UNCHANGED <<accounts, handles, healthy, issued, late, caller, runs, faults>>

Synced_NotFlushed(p, m) == disk' = [disk EXCEPT ![p].files = {m.file} \ {None}]
Synced(p, m) ==
  disk' = [disk EXCEPT ![p].durable = m, ![p].files = {m.file} \ {None}]

Sync ==
  /\ Executing("renamed")
  /\ LET p == busy.request.principal
         m == busy.metadata
     IN
     /\ Synced(p, m)
     /\ accounts' = [accounts EXCEPT ![p] = m]
     /\ handles' = [handles EXCEPT ![p] = m.file]
     /\ Reply(busy.request, Granted(busy.request.caller, p))
  /\ busy' = None
  /\ UNCHANGED <<healthy, issued, runs, faults>>

(* The provider does not start, or the write of the file or of the metadata fails   *)
(* before the rename.  The new file goes; the directory stays.                  *)
PrepareFails ==
  /\ Executing("prepared") /\ Fault
  /\ disk' = [disk EXCEPT ![busy.request.principal].files = @ \ {busy.metadata.file}]
  /\ Reply(busy.request, Failed(busy.request.caller))
  /\ busy' = None
  /\ UNCHANGED <<accounts, handles, healthy, issued, runs>>

SyncFails ==
  /\ Executing("renamed") /\ Fault /\ Latch
  /\ Reply(busy.request, Failed(busy.request.caller))
  /\ busy' = None
  /\ UNCHANGED <<accounts, disk, issued, runs>>
-----------------------------------------------------------------------------
(* The broker stops and starts: on what the file system shows when its process    *)
(* stopped, on that or the last durable metadata when the machine did.  A start    *)
(* is refused as a whole, and the registry stays unhealthy, when one account does   *)
(* not load or there are more directories than accounts allowed.  What a start      *)
(* reads is taken to be durable from then on.                                  *)
Directories == {p \in Principals : disk[p].exists}
Loads(m) == m = None \/ ValidMetadata(m)

(* _cleanup_orphans, _recover_uncommitted_directory                             *)
Recovered(p, m) ==
  IF m = None THEN EmptyDirectory
  ELSE [exists |-> TRUE, visible |-> m, durable |-> m,
        files |-> disk[p].files \cap {m.file}]

Left(p, m) == [disk[p] EXCEPT !.visible = m, !.durable = m]

Load(found) ==
  LET loaded == /\ Cardinality(Directories) <= MaxAccounts
                /\ \A p \in Principals : Loads(found[p])
  IN
  /\ healthy' = loaded
  /\ accounts' = [p \in Principals |-> IF loaded THEN found[p] ELSE None]
  /\ \E cleaned \in SUBSET {p \in Directories : Loads(found[p])} :
       /\ loaded => cleaned = Directories
       /\ Cardinality(Directories) > MaxAccounts => cleaned = {}
       /\ disk' = [p \in Principals |->
                     IF p \in cleaned THEN Recovered(p, found[p]) ELSE Left(p, found[p])]
  /\ \E broken \in SUBSET Principals :   \* providers that do not start
       handles' = [p \in Principals |->
                     IF ~loaded \/ found[p] = None \/ p \in broken THEN None
                     ELSE found[p].file]

Restart ==
  /\ IF healthy THEN Fault ELSE UNCHANGED faults
  /\ \E found \in [Principals -> UNION {{disk[p].visible, disk[p].durable} : p \in Principals}] :
       /\ \A p \in Principals : found[p] \in {disk[p].visible, disk[p].durable}
       /\ Load(found)
  /\ busy' = None /\ late' = {}
  /\ caller' = [c \in Callers |-> [caller[c] EXCEPT !.sent = FALSE]]
  /\ UNCHANGED <<issued, runs>>
-----------------------------------------------------------------------------
(* Callers.  Every call is sent at most twice: again when its connection breaks    *)
(* or no answer comes in time.  A request that nobody waits for may be executed     *)
(* much later, or never.                                                      *)
Orphaned(c) == IF Waiting(c) THEN late \cup {RequestOf(c, FALSE)} ELSE late
ServedAlone(c) == busy # None /\ busy.request = RequestOf(c, TRUE)
Abandon(c) ==
  IF ServedAlone(c)
  THEN busy' = [busy EXCEPT !.request.live = FALSE] /\ UNCHANGED late
  ELSE late' = Orphaned(c) /\ UNCHANGED busy
NextAttempt(c) ==
  caller' = [caller EXCEPT ![c] =
    IF @.attempt = 1 THEN [@ EXCEPT !.attempt = 2, !.sent = TRUE] ELSE Failed(c)]

TimedOut(c) ==
  /\ Waiting(c) /\ Fault
  /\ Abandon(c) /\ NextAttempt(c)
  /\ UNCHANGED <<accounts, handles, healthy, disk, issued, runs>>

ConnectionLost(c) ==
  /\ caller[c].pc \in Asking /\ ~caller[c].sent
  /\ \/ NextAttempt(c)
     \/ caller' = [caller EXCEPT ![c] = Failed(c)]
  /\ UNCHANGED <<brokerVars, disk, issued, late, runs, faults>>

Submit(c) ==
  /\ caller[c] = Idle /\ c \notin Handlers
  /\ caller' = [caller EXCEPT ![c] = Sending(c, IF c \in Mutations THEN "call" ELSE "begin")]
  /\ UNCHANGED <<brokerVars, disk, issued, late, runs, faults>>

(* The operator is asked to authorise a switch, by the request ID alone.          *)
AuthorizeSwitch(h) ==
  /\ caller[h] = Idle /\ h \in Handlers
  /\ \E r \in issued :
       caller' = [caller EXCEPT ![h] = [Sending(h, "begin") EXCEPT !.request = r]]
  /\ UNCHANGED <<brokerVars, disk, issued, late, runs, faults>>

(* resolvePrincipalCredentialProfile                                           *)
Resolve(a) ==
  /\ caller[a].pc = "resolve" /\ busy = None
  /\ LET p == Owner[a] IN
     caller' = [caller EXCEPT ![a] =
       IF healthy /\ Active(p) /\ accounts[p].eligible /\ handles[p] # None
       THEN [Finished(a, "create") EXCEPT !.template = accounts[p].template]
       ELSE Failed(a)]
  /\ UNCHANGED <<brokerVars, disk, issued, late, runs, faults>>

(* The AgentRun is created within the deadline of the reservation, which is        *)
(* released on the way out.                                                   *)
CreateRun(a) ==
  /\ caller[a].pc = "create"
  /\ runs' = runs \cup {[principal |-> Owner[a], template |-> caller[a].template, by |-> a]}
  /\ caller' = [caller EXCEPT ![a] = [Sending(a, "end") EXCEPT !.template = None]]
  /\ UNCHANGED <<brokerVars, disk, issued, late, faults>>

(* activeRunOwnedBy over an uncached list of AgentRuns.                          *)
ListRuns(h) ==
  /\ caller[h].pc = "list"
  /\ caller' = [caller EXCEPT ![h] =
       IF \E r \in runs : r.principal = caller[h].principal THEN Failed(h)
       ELSE Sending(h, "commit")]
  /\ UNCHANGED <<brokerVars, disk, issued, late, runs, faults>>

(* The handler's client is gone, its reservation is about to expire, or a call to   *)
(* Kubernetes failed.                                                         *)
Cancelled(c) ==
  /\ c \in Admissions \cup Handlers
  /\ caller[c].pc \in Asking \cup {"resolve", "create", "list"}
  /\ late' = Orphaned(c)
  /\ caller' = [caller EXCEPT ![c] = Failed(c)]
  /\ UNCHANGED <<brokerVars, disk, issued, runs, faults>>

OperatorRestart ==
  /\ Fault
  /\ late' = UNION {Orphaned(c) : c \in Admissions \cup Handlers}
  /\ caller' = [c \in Callers |->
                  IF c \in Mutations \/ caller[c] = Idle THEN caller[c]
                  ELSE Ended]
  /\ UNCHANGED <<brokerVars, disk, issued, runs>>

RunEnds(r) ==
  /\ r \in runs
  /\ runs' = runs \ {r}
  /\ UNCHANGED <<brokerVars, disk, issued, late, caller, faults>>
-----------------------------------------------------------------------------
(* Time.  A handler's context ends a second before its reservation does.          *)
Dated(p, Change(_)) ==
  LET Dates(m) == IF m = None THEN None ELSE Change(m) IN
  /\ accounts' = [accounts EXCEPT ![p] = Dates(@)]
  /\ disk' = [disk EXCEPT ![p].visible = Dates(@), ![p].durable = Dates(@)]
  /\ busy' = IF busy = None \/ busy.request.principal # p THEN busy
             ELSE [busy EXCEPT !.metadata = Dates(@)]
  /\ UNCHANGED <<handles, healthy, issued, late, caller, runs, faults>>

InReservation(op) ==
  \E c \in Admissions \cup Handlers :
    /\ op = (IF c \in Handlers THEN caller[c].request ELSE c)
    /\ caller[c].pc \in {"resolve", "create", "list", "commit"}

ReservationExpires(p) ==
  /\ Enrolled(p) /\ accounts[p].hold # NoHold /\ ~accounts[p].hold.due
  /\ LET op == accounts[p].hold.op
         Expired(m) == IF m.hold.op = op THEN [m EXCEPT !.hold.due = TRUE] ELSE m
     IN  ~InReservation(op) /\ Dated(p, Expired)

RequestExpires(p) ==
  /\ Enrolled(p) /\ accounts[p].request # None /\ ~accounts[p].requestDue
  /\ LET r == accounts[p].request
         Expired(m) == IF m.request = r THEN [m EXCEPT !.requestDue = TRUE] ELSE m
     IN  Dated(p, Expired)

EligibilityLapses(p) ==
  /\ Active(p) /\ accounts[p].eligible
  /\ LET Lapsed(m) == [m EXCEPT !.eligible = FALSE] IN Dated(p, Lapsed)
-----------------------------------------------------------------------------
BrokerStep ==
  \/ \E q \in Requests : Grant(q) \/ Refuse(q) \/ StoreFails(q) \/ Prepare(q)
  \/ Replace \/ Sync \/ PrepareFails \/ SyncFails \/ Restart

CallerStep ==
  \/ \E c \in Callers : Submit(c) \/ TimedOut(c) \/ ConnectionLost(c) \/ Cancelled(c)
  \/ \E h \in Handlers : AuthorizeSwitch(h) \/ ListRuns(h)
  \/ \E a \in Admissions : Resolve(a) \/ CreateRun(a)
  \/ OperatorRestart
  \/ \E r \in runs : RunEnds(r)

Clock == \E p \in Principals :
  ReservationExpires(p) \/ RequestExpires(p) \/ EligibilityLapses(p)

Next == BrokerStep \/ CallerStep \/ Clock

Spec == Init /\ [][Next]_vars
-----------------------------------------------------------------------------
(* Every variable stays in the set it is meant for.                              *)
AccountsTypeOK ==
  /\ accounts \in [Principals -> Metadata \cup {None}]
  /\ handles \in [Principals -> Generations \cup {None}]
  /\ healthy \in BOOLEAN /\ faults \in 0..MaxFaults
  /\ busy \in Operations \cup {None}
  /\ \A p \in Principals :
       /\ {disk[p].visible, disk[p].durable} \subseteq Metadata \cup {None}
       /\ disk[p].files \subseteq Generations
  /\ issued \subseteq SwitchRequests
  /\ \A q \in late : q.caller \in Callers /\ q.kind \in Asking /\ ~q.live
  /\ \A r \in runs : r.principal \in Principals /\ r.template \in Templates

(* While an AgentRun of a principal is active, the account keeps the template the   *)
(* run was created with: the reservation that admission holds while it resolves    *)
(* and creates excludes the one under which a switch looks for active runs         *)
(* (_begin_coordination; principal_template_switch.go ServeHTTP).                *)
OneTemplate ==
  \A r \in runs : disk[r.principal].visible # None /\
    r.template = disk[r.principal].visible.template

(* Metadata that a start may find names a credential file that is still there: the  *)
(* old generation goes only when nothing can bring its metadata back (_replace,     *)
(* revoke).                                                                   *)
NamedCredentialSurvives ==
  \A p \in Principals : \A m \in {disk[p].visible, disk[p].durable} :
    m # None /\ m.file # None => m.file \in disk[p].files

(* A frontend that was told its credential operation succeeded finds it in the log  *)
(* whatever the broker crashes into (_write_metadata before the answer).           *)
AcknowledgedIsDurable ==
  \A o \in Mutations :
    caller[o].pc = "ok" /\ Action[o] \in Replacements \cup {"revoke"} =>
      /\ disk[Owner[o]].durable # None
      /\ Logged(disk[Owner[o]].durable, o)
      /\ Logged(disk[Owner[o]].visible, o)

(* However often a request is repeated or delayed, its operation is executed once   *)
(* (_idempotent, _ensure_new_operation).                                       *)
OperationsOnce ==
  \A p \in Principals : disk[p].visible # None =>
    \A i, j \in DOMAIN disk[p].visible.log :
      disk[p].visible.log[i].op = disk[p].visible.log[j].op => i = j

(* A healthy broker between operations decides on what a restart would read, and    *)
(* serves no credential but the committed one (_latch_unhealthy).                 *)
MemoryIsDisk ==
  healthy /\ busy = None =>
    \A p \in Principals :
      /\ accounts[p] = disk[p].visible
      /\ handles[p] # None => Active(p) /\ handles[p] = accounts[p].file

(* Memory, disk and answers agree: what a crash may leave can be loaded and names     *)
(* an existing credential, holds all that was acknowledged, and is what a healthy    *)
(* broker serves.                                                             *)
StorageIsHonest ==
  AccountsTypeOK /\ NamedCredentialSurvives /\ AcknowledgedIsDurable /\ MemoryIsDisk

(* The one thing that makes stored metadata unloadable is a switch reservation that  *)
(* lost its request: nothing else a sequence of operations leaves is refused by     *)
(* _validate_metadata.                                                        *)
OnlyReservedSwitchUnloadable ==
  \A p \in Principals : \A m \in {disk[p].visible, disk[p].durable} :
    m # None /\ ~ValidMetadata(m) => m.hold.kind = "switch" /\ m.request = None
=============================================================================
