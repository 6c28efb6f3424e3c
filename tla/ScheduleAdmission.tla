------------------------- MODULE ScheduleAdmission -------------------------
(***************************************************************************)
(* The operator's schedule admission endpoint.  A caller posts a job with a  *)
(* work ID and, for some commands, a work group; the handler takes the       *)
(* schedule's lock, reads the schedule and its AgentRuns from the API        *)
(* server, and answers duplicate, deferred, rejected or scheduled, creating  *)
(* the AgentRun in the last case.  The connection may break while a handler  *)
(* is at work: the handler goes on and its answer is lost.  AgentRuns finish *)
(* (or exceed their deadline) and are deleted when their retention ends,     *)
(* at any moment, a handler's read included.                                 *)
(***************************************************************************)
EXTENDS Integers, FiniteSets

CONSTANTS
  Jobs,             \* what callers ask to be run
  Denied,           \* jobs whose principal or workflow the schedule refuses
  NoGroup,          \* the group of a job that names none
  Principals,       \* on whose behalf jobs run
  PrincipalLimit,   \* spec.principalParallelism of each, 0 when it is not set
  MaxParallelism,   \* AgentSchedule.spec.maxParallelism (1 when unset)
  MaxCollects       \* bound: retained AgentRuns that are deleted

ASSUME ScheduleLimits ==
  /\ MaxParallelism \in Nat \ {0} /\ MaxCollects \in Nat
  /\ PrincipalLimit \in [Principals -> Nat]

VARIABLES
  runs,        \* the AgentRuns of the schedule: [job, nth, work, group,
               \*   principal, active]
  admitted,    \* history: how many AgentRuns each job has got
  suspended,   \* AgentSchedule.spec.suspend
  requests,    \* posted, not yet holding the lock: [job, work,
               \*   group, principal, live]
  handling,    \* the lock's holder: a request with what it has read
  reply,       \* the answer on the caller's open connection
  collects     \* retained AgentRuns deleted so far

admissionVars == <<runs, admitted, suspended, requests, handling, reply, collects>>

NoReply == "none"
Replies == {"scheduled", "duplicate", "deferred", "rejected", "error"}

Request(j, work, group, principal) ==
  [job |-> j, work |-> work, group |-> group, principal |-> principal, live |-> TRUE]

AdmissionInit ==
  /\ runs = {} /\ requests = {} /\ handling = {}
  /\ admitted = [j \in Jobs |-> 0]
  /\ suspended \in BOOLEAN
  /\ reply = NoReply
  /\ collects = 0
-----------------------------------------------------------------------------
IsActiveScheduledRun(r) == r.active
countActiveScheduledRuns(seen) == Cardinality({r \in seen : IsActiveScheduledRun(r)})
countActiveScheduledRunsForPrincipal(seen, p) ==
  Cardinality({r \in seen : IsActiveScheduledRun(r) /\ r.principal = p})
retainedWorkExists(seen, work) == \E r \in seen : r.work = work
activeWorkGroupExists_ByWork(seen, group) ==
  \E r \in seen : IsActiveScheduledRun(r) /\ group = r.work
activeWorkGroupExists(seen, group) ==
  group # NoGroup /\ \E r \in seen : IsActiveScheduledRun(r) /\ group \in {r.group, r.work}

AtCapacity_OffByOne(h) == countActiveScheduledRuns(h.seen) > MaxParallelism
AtCapacity_NoPrincipal(h) == countActiveScheduledRuns(h.seen) >= MaxParallelism
AtCapacity(h) ==
  \/ countActiveScheduledRuns(h.seen) >= MaxParallelism
  \/ /\ PrincipalLimit[h.principal] > 0
     /\ countActiveScheduledRunsForPrincipal(h.seen, h.principal) >= PrincipalLimit[h.principal]

(* The handler's checks, in their order.                                     *)
Verdict(h) ==
  IF h.job \in Denied THEN "rejected"
  ELSE IF retainedWorkExists(h.seen, h.work) \/ activeWorkGroupExists(h.seen, h.group)
  THEN "duplicate"
  ELSE IF h.suspend \/ AtCapacity(h) THEN "deferred" ELSE "scheduled"

Created(h) == [job |-> h.job, nth |-> admitted[h.job] + 1, work |-> h.work,
               group |-> h.group, principal |-> h.principal, active |-> TRUE]

(* lockScheduleAdmission: one handler per schedule, while the others wait.    *)
ScheduleUnlocked_NoLock == TRUE
ScheduleUnlocked == handling = {}

(* Taking the lock, reading the schedule, listing its AgentRuns.              *)
Acquire(q) ==
  /\ q \in requests /\ ScheduleUnlocked
  /\ requests' = requests \ {q}
  /\ handling' = handling \cup
       {[job |-> q.job, work |-> q.work, group |-> q.group, principal |-> q.principal,
         live |-> q.live, suspend |-> suspended, seen |-> runs]}
  /\ UNCHANGED <<runs, admitted, suspended, reply, collects>>

Respond(h, answer) ==
  /\ handling' = handling \ {h}
  /\ reply' = IF h.live THEN answer ELSE reply
  /\ UNCHANGED <<suspended, requests, collects>>

Create(h) ==
  /\ runs' = runs \cup {Created(h)}
  /\ admitted' = [admitted EXCEPT ![h.job] = @ + 1]

(* ServeHTTP after its reads: the AgentRun is created last, then the answer.  *)
Serve(h) ==
  /\ h \in handling
  /\ IF Verdict(h) = "scheduled" THEN Create(h) ELSE UNCHANGED <<runs, admitted>>
  /\ Respond(h, Verdict(h))

(* A failing read, credential lookup or Create answers 5xx; the API server may *)
(* have stored the AgentRun all the same.                                     *)
ServeFails(h) ==
  /\ h \in handling
  /\ \/ UNCHANGED <<runs, admitted>>
     \/ Verdict(h) = "scheduled" /\ Create(h)
  /\ Respond(h, "error")

(* Every call of a handler carries the context of its request: once the caller  *)
(* is gone the next call may fail, and the handler ends without an AgentRun.     *)
Abandon(h) ==
  /\ h \in handling /\ ~h.live
  /\ Respond(h, "error")
  /\ UNCHANGED <<runs, admitted>>

(* The caller is gone: the handlers of its requests go on unheard.            *)
Orphan(S) == {[q EXCEPT !.live = FALSE] : q \in S}
Detach ==
  /\ requests' = Orphan(requests)
  /\ handling' = Orphan(handling)
  /\ reply' = NoReply

OperatorRestart ==
  /\ requests # {} \/ handling # {}
  /\ requests' = {} /\ handling' = {}
  /\ reply' = IF \E q \in requests \cup handling : q.live THEN "error" ELSE reply
  /\ UNCHANGED <<runs, admitted, suspended, collects>>

(* The administrator resumes a schedule that was suspended from the start.      *)
Resume ==
  /\ suspended
  /\ suspended' = FALSE
  /\ UNCHANGED <<runs, admitted, requests, handling, reply, collects>>

Finish(r) ==
  /\ r \in runs /\ r.active
  /\ runs' = (runs \ {r}) \cup {[r EXCEPT !.active = FALSE]}
  /\ UNCHANGED <<admitted, suspended, requests, handling, reply, collects>>

Collect(r) ==
  /\ r \in runs /\ ~r.active /\ collects < MaxCollects
  /\ runs' = runs \ {r}
  /\ collects' = collects + 1
  /\ UNCHANGED <<admitted, suspended, requests, handling, reply>>
-----------------------------------------------------------------------------
(* However requests for it are repeated, orphaned and interleaved, a work ID  *)
(* has at most one AgentRun at a time: the read that found none is still      *)
(* current when the AgentRun is created.                                     *)
OneRunPerWork == \A r, s \in runs : r.work = s.work => r = s

(* The AgentRuns of a schedule that have not ended never exceed its           *)
(* maxParallelism, although they are counted before the creation.             *)
WithinParallelism == countActiveScheduledRuns(runs) <= MaxParallelism

(* Nor do those of one principal exceed its own limit.                         *)
PrincipalWithinLimit ==
  \A p \in Principals : PrincipalLimit[p] > 0 =>
    countActiveScheduledRunsForPrincipal(runs, p) <= PrincipalLimit[p]

(* Two AgentRuns of one work group (two `pr continue` commands on one pull     *)
(* request) are never active together.                                        *)
GroupExclusive ==
  \A r, s \in runs : r.active /\ s.active /\ r.group = s.group /\ r.group # NoGroup => r = s

(* The limits of a schedule hold together: on its AgentRuns, on those of a       *)
(* principal and on those of a work group, all counted before a creation.     *)
WithinLimits == WithinParallelism /\ PrincipalWithinLimit /\ GroupExclusive
=============================================================================
