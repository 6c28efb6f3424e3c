------------------------ MODULE CommentProducerProofs ------------------------
(* What the comment producer and schedule admission guarantee for every set of *)
(* comments, repositories, authors and limits, and every number of faults.     *)
(* The invariants are proved one after the other, each from the ones before:   *)
(* admission by itself, the times, the conversation between the two, the help  *)
(* responses, and the cursors.                                                *)
EXTENDS CommentProducer, FiniteSetTheorems, WellFoundedInduction, TLAPS

(* The producer without its fairness, which no safety property needs.          *)
SafeSpec == Init /\ [][Next]_vars
-----------------------------------------------------------------------------
(* Admission: what the lock's holder has read is still good enough to decide   *)
(* on, because only it may add an AgentRun.                                   *)
RunFields == {"job", "nth", "work", "group", "principal", "active"}
RequestFields == {"job", "work", "group", "principal", "live"}
HandlingFields == RequestFields \cup {"suspend", "seen"}

(* Every AgentRun has its work in the list, and every active one is listed.     *)
StillCurrent(seen, rs) ==
  \A r \in rs : /\ \E s \in seen : s.work = r.work
                /\ r.active => r \in seen

HandlingInv(hs, rs) ==
  /\ \A h, k \in hs : h = k
  /\ \A h \in hs : /\ DOMAIN h = HandlingFields
                   /\ IsFiniteSet(h.seen) /\ StillCurrent(h.seen, rs)

RunsInv(rs) == IsFiniteSet(rs) /\ \A r \in rs : DOMAIN r = RunFields

AdmissionInv ==
  /\ RunsInv(runs) /\ HandlingInv(handling, runs)
  /\ OneRunPerWork /\ WithinLimits

(* Adding one AgentRun adds at most one to what is counted; what is counted of  *)
(* a part is no more.                                                          *)
LEMMA CountSubset ==
  ASSUME NEW S, IsFiniteSet(S), NEW T, T \subseteq S
  PROVE  IsFiniteSet(T) /\ Cardinality(T) \in Nat /\ Cardinality(S) \in Nat /\ Cardinality(T) <= Cardinality(S)
<1>1. T \in SUBSET S
  OBVIOUS
<1> QED BY <1>1, FS_Subset, FS_CardinalityType

LEMMA CountCreated ==
  ASSUME NEW S, IsFiniteSet(S), NEW x, NEW T, T \subseteq S \cup {x}
  PROVE  IsFiniteSet(T) /\ Cardinality(T) \in Nat /\ Cardinality(S) \in Nat /\ Cardinality(T) <= Cardinality(S) + 1
<1>1. IsFiniteSet(S \cup {x}) /\ Cardinality(S) \in Nat /\ Cardinality(S \cup {x}) <= Cardinality(S) + 1
  <2>1. Cardinality(S) \in Nat
    BY FS_CardinalityType
  <2>2. IsFiniteSet(S \cup {x}) /\ Cardinality(S \cup {x}) = IF x \in S THEN Cardinality(S) ELSE Cardinality(S) + 1
    BY FS_AddElement
  <2> QED BY <2>1, <2>2
<1>2. IsFiniteSet(T) /\ Cardinality(T) \in Nat /\ Cardinality(S \cup {x}) \in Nat
      /\ Cardinality(T) <= Cardinality(S \cup {x})
  <2> DEFINE U == S \cup {x}
  <2>1. IsFiniteSet(U) /\ T \subseteq U
    BY <1>1
  <2> HIDE DEF U
  <2>2. IsFiniteSet(T) /\ Cardinality(T) \in Nat /\ Cardinality(U) \in Nat /\ Cardinality(T) <= Cardinality(U)
    BY <2>1, CountSubset
  <2> QED BY <2>2 DEF U
<1> QED BY <1>1, <1>2

(* Fewer active AgentRuns (one ended, one was collected) stay within the limits. *)
LEMMA LimitsKeptByFewer ==
  ASSUME AdmissionInv, RunsInv(runs'),
         \A r \in runs' : r.active => r \in runs
  PROVE  WithinLimits'
<1>1. WithinParallelism'
  <2> DEFINE S == {r \in runs : r.active}
             T == {r \in runs' : r.active}
  <2>1. IsFiniteSet(S) /\ T \subseteq S
    BY CountSubset DEF AdmissionInv, RunsInv
  <2>2. Cardinality(T) <= Cardinality(S) /\ Cardinality(T) \in Nat /\ Cardinality(S) \in Nat
    BY <2>1, CountSubset
  <2>3. Cardinality(S) <= MaxParallelism
    BY DEF AdmissionInv, WithinLimits, WithinParallelism, countActiveScheduledRuns, IsActiveScheduledRun
  <2>4. Cardinality(T) <= MaxParallelism
    BY <2>2, <2>3, ScheduleLimits
  <2> QED BY <2>4 DEF WithinParallelism, countActiveScheduledRuns, IsActiveScheduledRun
<1>2. PrincipalWithinLimit'
  <2> SUFFICES ASSUME NEW p \in Principals, PrincipalLimit[p] > 0
               PROVE  countActiveScheduledRunsForPrincipal(runs', p) <= PrincipalLimit[p]
    BY DEF PrincipalWithinLimit, countActiveScheduledRunsForPrincipal, IsActiveScheduledRun
  <2> DEFINE S == {r \in runs : r.active /\ r.principal = p}
             T == {r \in runs' : r.active /\ r.principal = p}
  <2>1. IsFiniteSet(S) /\ T \subseteq S
    BY CountSubset DEF AdmissionInv, RunsInv
  <2>2. Cardinality(T) <= Cardinality(S) /\ Cardinality(T) \in Nat /\ Cardinality(S) \in Nat
    BY <2>1, CountSubset
  <2>3. Cardinality(S) <= PrincipalLimit[p]
    BY DEF AdmissionInv, WithinLimits, PrincipalWithinLimit, countActiveScheduledRunsForPrincipal, IsActiveScheduledRun
  <2>4. Cardinality(T) <= PrincipalLimit[p]
    BY <2>2, <2>3, ScheduleLimits
  <2> QED BY <2>4 DEF countActiveScheduledRunsForPrincipal, IsActiveScheduledRun
<1>3. GroupExclusive'
  BY DEF AdmissionInv, WithinLimits, GroupExclusive
<1> QED BY <1>1, <1>2, <1>3 DEF WithinLimits

(* An AgentRun the lock's holder creates stays within the limits, although they  *)
(* were checked against what it had read.                                      *)
LEMMA LimitsKeptByCreate ==
  ASSUME AdmissionInv, NEW h \in handling, Verdict(h) = "scheduled", runs' = runs \cup {Created(h)}
  PROVE  RunsInv(runs') /\ OneRunPerWork' /\ WithinLimits'
<1> DEFINE new == Created(h)
<1>n. /\ DOMAIN new = RunFields /\ new.work = h.work /\ new.group = h.group
      /\ new.principal = h.principal /\ new.active
  BY DEF Created, RunFields
<1>v. /\ ~retainedWorkExists(h.seen, h.work) /\ ~activeWorkGroupExists(h.seen, h.group)
      /\ ~AtCapacity(h)
  BY DEF Verdict
<1>s. IsFiniteSet(h.seen) /\ StillCurrent(h.seen, runs)
  BY DEF AdmissionInv, HandlingInv
<1>r. runs' = runs \cup {new}
  OBVIOUS
<1> HIDE DEF new
<1>1. RunsInv(runs')
  BY <1>n, <1>r, FS_AddElement DEF AdmissionInv, RunsInv
<1>2. OneRunPerWork'
  BY <1>n, <1>v, <1>s, <1>r DEF AdmissionInv, OneRunPerWork, retainedWorkExists, StillCurrent
<1>3. WithinParallelism'
  <2> DEFINE S == {r \in h.seen : r.active}
             T == {r \in runs' : r.active}
  <2>1. IsFiniteSet(S) /\ T \subseteq S \cup {new}
    BY <1>s, <1>r, CountSubset DEF StillCurrent
  <2>2. Cardinality(T) <= Cardinality(S) + 1 /\ Cardinality(T) \in Nat /\ Cardinality(S) \in Nat
    BY <2>1, CountCreated
  <2>3. ~(Cardinality(S) >= MaxParallelism)
    BY <1>v DEF AtCapacity, countActiveScheduledRuns, IsActiveScheduledRun
  <2>4. Cardinality(T) <= MaxParallelism
    BY <2>2, <2>3, ScheduleLimits
  <2> QED BY <2>4 DEF WithinParallelism, countActiveScheduledRuns, IsActiveScheduledRun
<1>4. PrincipalWithinLimit'
  <2> SUFFICES ASSUME NEW p \in Principals, PrincipalLimit[p] > 0
               PROVE  countActiveScheduledRunsForPrincipal(runs', p) <= PrincipalLimit[p]
    BY DEF PrincipalWithinLimit, countActiveScheduledRunsForPrincipal, IsActiveScheduledRun
  <2> DEFINE T == {r \in runs' : r.active /\ r.principal = p}
  <2>l. PrincipalLimit[p] \in Nat
    BY ScheduleLimits
  <2>1. CASE p = h.principal
    <3> DEFINE S == {r \in h.seen : r.active /\ r.principal = p}
    <3>1. IsFiniteSet(S) /\ T \subseteq S \cup {new}
      BY <1>s, <1>r, CountSubset DEF StillCurrent
    <3>2. Cardinality(T) <= Cardinality(S) + 1 /\ Cardinality(T) \in Nat /\ Cardinality(S) \in Nat
      BY <3>1, CountCreated
    <3>3. ~(Cardinality(S) >= PrincipalLimit[p])
      BY <1>v, <2>1 DEF AtCapacity, countActiveScheduledRunsForPrincipal, IsActiveScheduledRun
    <3>4. Cardinality(T) <= PrincipalLimit[p]
      BY <3>2, <3>3, <2>l
    <3> QED BY <3>4 DEF countActiveScheduledRunsForPrincipal, IsActiveScheduledRun
  <2>2. CASE p # h.principal
    <3>1. T = {r \in runs : r.active /\ r.principal = p}
      BY <1>n, <1>r, <2>2
    <3> QED BY <3>1 DEF AdmissionInv, WithinLimits, PrincipalWithinLimit, countActiveScheduledRunsForPrincipal, IsActiveScheduledRun
  <2> QED BY <2>1, <2>2
<1>5. GroupExclusive'
  BY <1>n, <1>v, <1>s, <1>r
     DEF AdmissionInv, WithinLimits, GroupExclusive, activeWorkGroupExists, IsActiveScheduledRun, StillCurrent
<1> QED BY <1>1, <1>2, <1>3, <1>4, <1>5 DEF WithinLimits

(* What the steps do to the AgentRuns and to the lock's holder.                  *)
LEMMA AdmissionSteps ==
  ASSUME Next
  PROVE  \/ runs' = runs /\ handling' \subseteq handling
         \/ runs' = runs /\ handling' = Orphan(handling)
         \/ \E q \in requests : Acquire(q)
         \/ \E h \in handling : Verdict(h) = "scheduled" /\ Create(h) /\ handling' = handling \ {h}
         \/ \E r \in runs : Finish(r) \/ Collect(r)
<1>1. CASE PollerStep
  BY <1>1 DEF PollerStep, StartRepo, ListRepo, RepoDeferred, SetRepoCursor, DeleteDeliveredHelpResponses, Receive,
     HelpReconcile, TryBeginHelpResponseAttempt, CreateIssueComment, SetHelpResponseDelivered, SkipComment,
     HelpLookup, Submit, PollerOnly, admissionVars
<1>2. CASE CreateIssueCommentFails \/ CallFails \/ Tick
  BY <1>2 DEF CreateIssueCommentFails, CallFails, Tick, PollerOnly, admissionVars
<1>3. CASE ConnectionLost \/ Crash
  BY <1>3 DEF ConnectionLost, Crash, Detach
<1>4. CASE \/ \E c \in Comments : PostComment(c)
           \/ \E o \in outstanding : Land(o) \/ Expire(o)
  BY <1>4 DEF PostComment, Land, Expire, admissionVars
<1>5. CASE OperatorStep \/ Resume
  BY <1>5 DEF OperatorStep, Resume, Serve, Abandon, Respond
<1>6. CASE OperatorFault
  BY <1>6 DEF OperatorFault, ServeFails, Respond, OperatorRestart
<1>7. CASE \E r \in runs : Finish(r) \/ Collect(r)
  BY <1>7
<1> QED BY <1>1, <1>2, <1>3, <1>4, <1>5, <1>6, <1>7 DEF Next

LEMMA AdmissionPreserved == AdmissionInv /\ [Next]_vars => AdmissionInv'
<1> SUFFICES ASSUME AdmissionInv, [Next]_vars PROVE AdmissionInv'
  OBVIOUS
<1>1. ASSUME runs' = runs, handling' \subseteq handling PROVE AdmissionInv'
  BY <1>1 DEF AdmissionInv, HandlingInv, OneRunPerWork, WithinLimits, WithinParallelism, PrincipalWithinLimit,
     GroupExclusive, countActiveScheduledRuns, countActiveScheduledRunsForPrincipal, IsActiveScheduledRun
<1>2. ASSUME runs' = runs, HandlingInv(handling', runs') PROVE AdmissionInv'
  BY <1>2 DEF AdmissionInv, OneRunPerWork, WithinLimits, WithinParallelism, PrincipalWithinLimit,
     GroupExclusive, countActiveScheduledRuns, countActiveScheduledRunsForPrincipal, IsActiveScheduledRun
<1>3. ASSUME runs' = runs, handling' = Orphan(handling) PROVE AdmissionInv'
  <2>1. \A h \in handling : LET o == [h EXCEPT !.live = FALSE] IN DOMAIN o = HandlingFields /\ o.seen = h.seen
    BY DEF AdmissionInv, HandlingInv, HandlingFields, RequestFields
  <2>2. HandlingInv(handling', runs')
    BY <1>3, <2>1 DEF AdmissionInv, HandlingInv, Orphan
  <2> QED BY <1>2, <1>3, <2>2
<1>4. ASSUME NEW q \in requests, Acquire(q) PROVE AdmissionInv'
  <2> DEFINE h == [job |-> q.job, work |-> q.work, group |-> q.group, principal |-> q.principal,
                   live |-> q.live, suspend |-> suspended, seen |-> runs]
  <2>1. handling' = {h} /\ runs' = runs
    BY <1>4 DEF Acquire, ScheduleUnlocked
  <2>2. DOMAIN h = HandlingFields /\ h.seen = runs
    BY DEF HandlingFields, RequestFields
  <2> HIDE DEF h
  <2>3. HandlingInv(handling', runs')
    BY <2>1, <2>2 DEF HandlingInv, StillCurrent, AdmissionInv, RunsInv
  <2> QED BY <1>2, <2>1, <2>3
<1>5. ASSUME NEW h \in handling, Verdict(h) = "scheduled", Create(h), handling' = handling \ {h} PROVE AdmissionInv'
  <2>1. handling' = {}
    BY <1>5 DEF AdmissionInv, HandlingInv
  <2>2. RunsInv(runs') /\ OneRunPerWork' /\ WithinLimits'
    BY <1>5, LimitsKeptByCreate DEF Create
  <2> QED BY <2>1, <2>2 DEF AdmissionInv, HandlingInv
<1>6. ASSUME NEW r \in runs, Finish(r) PROVE AdmissionInv'
  <2> DEFINE ended == [r EXCEPT !.active = FALSE]
  <2>1. DOMAIN ended = RunFields /\ ended.work = r.work /\ ~ended.active
    BY DEF AdmissionInv, RunsInv, RunFields
  <2>2. runs' = (runs \ {r}) \cup {ended} /\ handling' = handling
    BY <1>6 DEF Finish
  <2> HIDE DEF ended
  <2>3. RunsInv(runs')
    BY <2>1, <2>2, FS_AddElement, FS_RemoveElement DEF AdmissionInv, RunsInv
  <2>4. OneRunPerWork'
    BY <2>1, <2>2 DEF AdmissionInv, OneRunPerWork
  <2>5. WithinLimits'
    BY <2>1, <2>2, <2>3, LimitsKeptByFewer
  <2>6. HandlingInv(handling', runs')
    BY <2>1, <2>2 DEF AdmissionInv, HandlingInv, StillCurrent
  <2> QED BY <2>3, <2>4, <2>5, <2>6 DEF AdmissionInv
<1>7. ASSUME NEW r \in runs, Collect(r) PROVE AdmissionInv'
  <2>1. runs' = runs \ {r} /\ handling' = handling
    BY <1>7 DEF Collect
  <2>2. RunsInv(runs')
    BY <2>1, FS_RemoveElement DEF AdmissionInv, RunsInv
  <2>3. WithinLimits'
    BY <2>1, <2>2, LimitsKeptByFewer
  <2>4. OneRunPerWork' /\ HandlingInv(handling', runs')
    BY <2>1 DEF AdmissionInv, OneRunPerWork, HandlingInv, StillCurrent
  <2> QED BY <2>2, <2>3, <2>4 DEF AdmissionInv
<1>8. CASE UNCHANGED vars
  BY <1>1, <1>8 DEF vars, admissionVars
<1>9. CASE Next
  BY <1>1, <1>3, <1>4, <1>5, <1>6, <1>7, <1>9, AdmissionSteps
<1> QED BY <1>8, <1>9

LEMMA AdmissionInitially == Init => AdmissionInv
<1> SUFFICES ASSUME Init PROVE AdmissionInv
  OBVIOUS
<1>1. runs = {} /\ handling = {}
  BY DEF Init, AdmissionInit
<1>2. \A p : {r \in runs : r.active} = {} /\ {r \in runs : r.active /\ r.principal = p} = {}
  BY <1>1
<1>3. WithinLimits
  BY <1>1, <1>2, FS_EmptySet, ScheduleLimits
     DEF WithinLimits, WithinParallelism, PrincipalWithinLimit, GroupExclusive, countActiveScheduledRuns,
         countActiveScheduledRunsForPrincipal, IsActiveScheduledRun
<1> QED BY <1>1, <1>3, FS_EmptySet DEF AdmissionInv, RunsInv, HandlingInv, OneRunPerWork

LEMMA AdmissionInvariance == SafeSpec => []AdmissionInv
BY AdmissionInitially, AdmissionPreserved, PTL DEF SafeSpec

(* For every number of requests, repeated, orphaned and interleaved in any way, *)
(* restarts and failures included: a work ID has at most one AgentRun           *)
(* (retainedWorkExists under lockScheduleAdmission).                           *)
THEOREM OneRunEach == Spec => []OneRunPerWork
<1>1. AdmissionInv => OneRunPerWork
  BY DEF AdmissionInv
<1> QED BY <1>1, AdmissionInvariance, PTL DEF Spec, SafeSpec

(* And the limits on a schedule, on each principal and on each work group hold  *)
(* together, for every value of theirs (ServeHTTP's counts before Create).     *)
THEOREM LimitsHold == Spec => []WithinLimits
<1>1. AdmissionInv => WithinLimits
  BY DEF AdmissionInv
<1> QED BY <1>1, AdmissionInvariance, PTL DEF Spec, SafeSpec
-----------------------------------------------------------------------------
(* The poller's record.                                                        *)
PollerFields == {"at", "repo", "started", "next", "todo", "current", "now", "deferred"}
IsPoller(p) == DOMAIN p = PollerFields

(* What leaving a comment, and what going back to the first repository, mean.    *)
LEMMA ContinueFields ==
  ASSUME NEW p, IsPoller(p)
  PROVE  LET q == Continue(p)
         IN  /\ IsPoller(q) /\ q.at = "loop" /\ q.current = NoComment /\ q.now = 0
             /\ q.repo = p.repo /\ q.started = p.started /\ q.next = p.next
             /\ q.todo = p.todo /\ q.deferred = p.deferred
BY DEF IsPoller, PollerFields, Continue

LEMMA DeferFields ==
  ASSUME NEW p, IsPoller(p)
  PROVE  LET q == Defer(p)
         IN  /\ IsPoller(q) /\ q.at = "loop" /\ q.current = NoComment /\ q.now = 0
             /\ q.repo = p.repo /\ q.started = p.started /\ q.next = p.next
             /\ q.todo = p.todo /\ q.deferred = TRUE
<1> DEFINE c == Continue(p)
<1>1. /\ IsPoller(c) /\ c.at = "loop" /\ c.current = NoComment /\ c.now = 0
      /\ c.repo = p.repo /\ c.started = p.started /\ c.next = p.next /\ c.todo = p.todo
  BY ContinueFields
<1>2. Defer(p) = [c EXCEPT !.deferred = TRUE]
  BY DEF Defer
<1> HIDE DEF c
<1> QED BY <1>1, <1>2 DEF IsPoller, PollerFields

LEMMA BeginFields ==
  ASSUME NEW i
  PROVE  LET q == Begin(i)
         IN  /\ IsPoller(q) /\ q.at = "begin" /\ q.current = NoComment /\ q.now = 0
             /\ q.repo = i /\ q.started = 0 /\ q.next = 0 /\ q.todo = {} /\ q.deferred = FALSE
BY DEF IsPoller, PollerFields, Begin

(* A step of the poller that changes its place only, and taking a comment.       *)
LEMMA AtFields ==
  ASSUME NEW p, IsPoller(p), NEW at
  PROVE  LET q == [p EXCEPT !.at = at]
         IN  /\ IsPoller(q) /\ q.at = at /\ q.current = p.current /\ q.now = p.now
             /\ q.repo = p.repo /\ q.started = p.started /\ q.next = p.next
             /\ q.todo = p.todo /\ q.deferred = p.deferred
BY DEF IsPoller, PollerFields

LEMMA TakenFields ==
  ASSUME NEW c, IsPoller(poller)
  PROVE  LET q == Taken(c)
         IN  /\ IsPoller(q) /\ q.at = poller.at /\ q.current = poller.current /\ q.now = poller.now
             /\ q.repo = poller.repo /\ q.started = poller.started /\ q.next = poller.next
             /\ q.todo = poller.todo \ {c} /\ q.deferred = poller.deferred
BY DEF IsPoller, PollerFields, Taken
-----------------------------------------------------------------------------
(* Times: nothing the producer or GitHub has recorded lies in the future.        *)
PollerTimes(p, t) ==
  IsPoller(p) /\ p.started \in 0 .. t /\ p.next \in 0 .. t /\ p.now \in 0 .. t /\ p.todo \subseteq Comments

TimesInv ==
  /\ clock \in Time /\ startedAt \in Time /\ faults \in 0 .. MaxFaults
  /\ updatedAt \in [Comments -> Time \cup {Never}] /\ \A c \in Comments : updatedAt[c] <= clock
  /\ cursors \in [Repos -> Time \cup {Never}] /\ \A r \in Repos : cursors[r] <= clock
  /\ PollerTimes(poller, clock)
  /\ reply \in Replies \cup {NoReply}

(* The latest of some times exists.                                            *)
LEMMA LatestExists ==
  ASSUME NEW t \in Nat, NEW S, S \subseteq 0 .. t, S # {}
  PROVE  Latest(S) \in S /\ \A u \in S : u <= Latest(S)
<1> DEFINE Above(u) == {v \in S : v > u}
           T == {Above(u) : u \in S}
           R == StrictSubsetOrdering(Nat)
<1>0. S \subseteq Nat
  OBVIOUS
<1>1. T \subseteq FiniteSubsetsOf(Nat) /\ T # {}
  <2>1. IsFiniteSet(S)
    <3>1. IsFiniteSet(0 .. t)
      BY FS_Interval
    <3> QED BY <3>1, CountSubset
  <2>2. ASSUME NEW u \in S PROVE Above(u) \subseteq Nat /\ IsFiniteSet(Above(u))
    <3>1. Above(u) \subseteq S
      BY Zenon
    <3> HIDE DEF Above
    <3> QED BY <1>0, <2>1, <3>1, CountSubset
  <2> QED BY <2>2 DEF FiniteSubsetsOf
<1>2. PICK x \in T : \A y \in T : ~(<<y, x>> \in R)
  <2>1. IsWellFoundedOn(R, FiniteSubsetsOf(Nat))
    BY FS_StrictSubsetOrderingWellFounded
  <2> HIDE DEF T, R
  <2> QED BY <1>1, <2>1, WFMin
<1>3. PICK m \in S : x = Above(m)
  OBVIOUS
<1>4. \A u \in S : u <= m
  <2> SUFFICES ASSUME NEW u \in S, ~(u <= m) PROVE FALSE
    OBVIOUS
  <2>1. u \in 0 .. t /\ m \in 0 .. t /\ u > m
    OBVIOUS
  <2>2. Above(u) \subseteq Above(m) /\ u \in Above(m) /\ u \notin Above(u) /\ Above(m) \subseteq Nat
    <3>1. \A v \in S : v > u => v > m
      BY <2>1, <1>0
    <3>2. ~(u > u)
      BY <1>0
    <3> QED BY <1>0, <2>1, <3>1, <3>2, Zenon
  <2>3. <<Above(u), Above(m)>> \in R
    <3>1. Above(u) # Above(m)
      BY <2>2
    <3> HIDE DEF Above
    <3> QED BY <2>2, <3>1 DEF StrictSubsetOrdering
  <2> QED BY <1>2, <1>3, <2>3
<1> QED BY <1>4 DEF Latest

LEMMA Bounds == RetryDelay \in Nat /\ MaxTime \in Nat /\ MaxFaults \in Nat
<1>1. {RetryDelay, MaxTime, MaxFaults} \subseteq Nat
  BY ProducerConfiguration
<1> QED BY <1>1

(* The new cursor: not before the poll began, not before any listed comment, and *)
(* not after now.                                                             *)
LEMMA NextCursorBounds ==
  ASSUME TimesInv, NEW started \in 0 .. clock, NEW r
  PROVE  LET listed == ListUpdatedIssueComments(r)
         IN  NextCursor(started, listed) \in 0 .. clock
<1> DEFINE listed == ListUpdatedIssueComments(r)
           S == {started} \cup {updatedAt[c] : c \in listed}
<1>1. \A c \in listed : updatedAt[c] \in 0 .. clock
  BY DEF ListUpdatedIssueComments, TimesInv, Time, Never
<1>2. clock \in Nat
  BY Bounds DEF TimesInv, Time
<1>3. S \subseteq 0 .. clock /\ S # {}
  BY <1>1
<1> HIDE DEF S
<1>4. Latest(S) \in S
  BY <1>2, <1>3, LatestExists
<1>5. NextCursor(started, listed) = Latest(S)
  BY DEF NextCursor, S
<1> QED BY <1>3, <1>4, <1>5

(* What a step leaves alone.                                                   *)
TimesUnchanged == UNCHANGED <<clock, updatedAt, cursors, startedAt>>

(* Steps of the poller keep its times.                                          *)
LEMMA PollerTimesKept ==
  ASSUME TimesInv,
         PollerStep \/ CreateIssueCommentFails \/ ConnectionLost \/ CallFails \/ Crash
  PROVE  PollerTimes(poller', clock)
<1>0. clock \in Nat /\ PollerTimes(poller, clock) /\ IsPoller(poller)
  BY Bounds DEF TimesInv, Time, PollerTimes
<1>b. ASSUME NEW i PROVE PollerTimes(Begin(i), clock)
  <2>1. LET q == Begin(i) IN IsPoller(q) /\ q.started = 0 /\ q.next = 0 /\ q.now = 0 /\ q.todo = {}
    BY BeginFields
  <2> QED BY <1>0, <2>1 DEF PollerTimes
<1>c. ASSUME NEW p, PollerTimes(p, clock) PROVE PollerTimes(Continue(p), clock) /\ PollerTimes(Defer(p), clock)
  <2>1. \A q \in {Continue(p), Defer(p)} :
          IsPoller(q) /\ q.started = p.started /\ q.next = p.next /\ q.now = 0 /\ q.todo = p.todo
    BY <1>c, ContinueFields, DeferFields DEF PollerTimes
  <2> QED BY <1>0, <1>c, <2>1 DEF PollerTimes
<1>a. ASSUME NEW p, PollerTimes(p, clock), NEW at PROVE PollerTimes([p EXCEPT !.at = at], clock)
  BY <1>a, AtFields DEF PollerTimes
<1>t. \A c : PollerTimes(Taken(c), clock)
  BY <1>0, TakenFields DEF PollerTimes
<1>1. CASE StartRepo
  BY <1>0, <1>1 DEF StartRepo, PollerTimes, IsPoller, PollerFields
<1>2. CASE ListRepo
  <2> DEFINE listed == ListUpdatedIssueComments(Repo)
             next == NextCursor(poller.started, listed)
  <2>1. next \in 0 .. clock /\ listed \subseteq Comments
    BY <1>0, NextCursorBounds DEF PollerTimes, ListUpdatedIssueComments
  <2>2. poller' = [poller EXCEPT !.at = "loop", !.todo = listed, !.started = 0, !.next = next]
    BY <1>2, Zenon DEF ListRepo
  <2> HIDE DEF listed, next
  <2> QED BY <1>0, <2>1, <2>2 DEF PollerTimes, IsPoller, PollerFields
<1>3. CASE RepoDeferred \/ DeleteDeliveredHelpResponses \/ ConnectionLost \/ CallFails \/ Crash
  BY <1>b, <1>3 DEF RepoDeferred, DeleteDeliveredHelpResponses, ConnectionLost, CallFails, Crash, Return, ReturnError
<1>4. CASE SetRepoCursor \/ CreateIssueComment
  <2>1. PICK at : poller' = [poller EXCEPT !.at = at]
    BY <1>4 DEF SetRepoCursor, CreateIssueComment
  <2> QED BY <1>0, <1>a, <2>1, Zenon
<1>5. CASE Receive
  <2>1. poller' \in {Continue(poller), Defer(poller), ReturnError}
    BY <1>5 DEF Receive, Settle, TimesInv, Replies
  <2> QED BY <1>0, <1>b, <1>c, <2>1 DEF ReturnError
<1>6. CASE HelpReconcile
  BY <1>0, <1>a, <1>c, <1>6 DEF HelpReconcile
<1>7. CASE TryBeginHelpResponseAttempt
  BY <1>0, <1>a, <1>c, <1>7 DEF TryBeginHelpResponseAttempt
<1>8. CASE SetHelpResponseDelivered \/ CreateIssueCommentFails
  BY <1>0, <1>c, <1>8 DEF SetHelpResponseDelivered, CreateIssueCommentFails
<1>9. ASSUME NEW c \in Comments, SkipComment(c) PROVE PollerTimes(poller', clock)
  BY <1>t, <1>9 DEF SkipComment
<1>10. ASSUME NEW c \in Comments, HelpLookup(c) PROVE PollerTimes(poller', clock)
  <2> DEFINE taken == [Taken(c) EXCEPT !.current = c, !.now = clock]
  <2>1. PollerTimes(taken, clock)
    <3> HIDE DEF Taken
    <3>1. PollerTimes(Taken(c), clock)
      BY <1>t
    <3> QED BY <1>0, <3>1 DEF PollerTimes, IsPoller, PollerFields
  <2>2. poller' \in {[taken EXCEPT !.at = "attempt"], [taken EXCEPT !.at = "reconcile"], Continue(taken)}
    BY <1>10 DEF HelpLookup
  <2> HIDE DEF taken
  <2> QED BY <1>a, <1>c, <2>1, <2>2
<1>11. ASSUME NEW c \in Comments, Submit(c) PROVE PollerTimes(poller', clock)
  <2>1. PollerTimes(Taken(c), clock) /\ poller' = [Taken(c) EXCEPT !.at = "await", !.current = c]
    BY <1>t, <1>11 DEF Submit
  <2> QED BY <2>1 DEF PollerTimes, IsPoller, PollerFields
<1> QED BY <1>1, <1>2, <1>3, <1>4, <1>5, <1>6, <1>7, <1>8, <1>9, <1>10, <1>11 DEF PollerStep

LEMMA VerdictReplies == \A h : Verdict(h) \in Replies
BY DEF Verdict, Replies

LEMMA ReplyTyped ==
  ASSUME reply \in Replies \cup {NoReply}, Next
  PROVE  reply' \in Replies \cup {NoReply}
<1>1. CASE PollerStep
  BY <1>1 DEF PollerStep, StartRepo, ListRepo, RepoDeferred, SetRepoCursor, DeleteDeliveredHelpResponses, Receive,
     HelpReconcile, TryBeginHelpResponseAttempt, CreateIssueComment, SetHelpResponseDelivered, SkipComment,
     HelpLookup, Submit, PollerOnly, admissionVars
<1>2. CASE CreateIssueCommentFails \/ CallFails \/ Tick
  BY <1>2 DEF CreateIssueCommentFails, CallFails, Tick, PollerOnly, admissionVars
<1>3. CASE ConnectionLost \/ Crash
  BY <1>3 DEF ConnectionLost, Crash, Detach
<1>4. CASE \/ \E c \in Comments : PostComment(c)
           \/ \E o \in outstanding : Land(o) \/ Expire(o)
  BY <1>4 DEF PostComment, Land, Expire, admissionVars
<1>5. CASE OperatorStep \/ Resume
  BY <1>5, VerdictReplies DEF OperatorStep, Resume, Acquire, Serve, Abandon, Respond, Replies
<1>6. CASE OperatorFault
  BY <1>6 DEF OperatorFault, ServeFails, Respond, OperatorRestart, Replies
<1>7. CASE \E r \in runs : Finish(r) \/ Collect(r)
  BY <1>7 DEF Finish, Collect
<1> QED BY <1>1, <1>2, <1>3, <1>4, <1>5, <1>6, <1>7 DEF Next

LEMMA TimesPreserved == TimesInv /\ [Next]_vars => TimesInv'
<1> SUFFICES ASSUME TimesInv, [Next]_vars PROVE TimesInv'
  OBVIOUS
<1>0. clock \in Nat /\ clock \in Time /\ MaxTime \in Nat /\ MaxFaults \in Nat /\ faults \in 0 .. MaxFaults
  BY Bounds DEF TimesInv, Time
<1>r. reply' \in Replies \cup {NoReply}
  <2>1. CASE Next
    BY <2>1, ReplyTyped DEF TimesInv
  <2>2. CASE UNCHANGED vars
    BY <2>2 DEF vars, admissionVars, TimesInv
  <2> QED BY <2>1, <2>2
<1>f. ASSUME Fault \/ faults' = faults PROVE faults' \in 0 .. MaxFaults
  BY <1>0, <1>f DEF Fault, Faulty
<1>1. ASSUME TimesUnchanged, faults' \in 0 .. MaxFaults, PollerTimes(poller', clock) PROVE TimesInv'
  BY <1>1, <1>r DEF TimesInv, TimesUnchanged
<1>2. ASSUME TimesUnchanged, Fault \/ faults' = faults, poller' = poller PROVE TimesInv'
  BY <1>1, <1>2, <1>f DEF TimesInv
<1>3. CASE StartRepo \/ ListRepo \/ RepoDeferred \/ DeleteDeliveredHelpResponses \/ Receive
  <2>1. TimesUnchanged /\ faults' = faults
    BY <1>3 DEF StartRepo, ListRepo, RepoDeferred, DeleteDeliveredHelpResponses, Receive, TimesUnchanged,
       PollerOnly, githubVars, storeVars
  <2> QED BY <1>1, <1>f, <1>3, <2>1, PollerTimesKept DEF PollerStep
<1>4. CASE HelpReconcile \/ TryBeginHelpResponseAttempt \/ CreateIssueComment \/ SetHelpResponseDelivered
  <2>1. TimesUnchanged /\ faults' = faults
    BY <1>4 DEF HelpReconcile, TryBeginHelpResponseAttempt, CreateIssueComment, SetHelpResponseDelivered,
       TimesUnchanged, githubVars, storeVars
  <2> QED BY <1>1, <1>f, <1>4, <2>1, PollerTimesKept DEF PollerStep
<1>5. ASSUME NEW c \in Comments, SkipComment(c) \/ HelpLookup(c) \/ Submit(c) PROVE TimesInv'
  <2>1. TimesUnchanged /\ faults' = faults
    BY <1>5 DEF SkipComment, HelpLookup, Submit, TimesUnchanged, PollerOnly, githubVars, storeVars
  <2> QED BY <1>1, <1>f, <1>5, <2>1, PollerTimesKept DEF PollerStep
<1>6. CASE SetRepoCursor
  <2>1. PollerTimes(poller', clock) /\ poller.next \in 0 .. clock
    BY <1>6, PollerTimesKept DEF PollerStep, TimesInv, PollerTimes
  <2>2. /\ cursors' = [cursors EXCEPT ![Repo] = poller.next]
        /\ UNCHANGED <<clock, updatedAt, startedAt, faults>>
    BY <1>6 DEF SetRepoCursor, githubVars
  <2>3. cursors' \in [Repos -> Time \cup {Never}] /\ \A r \in Repos : cursors'[r] <= clock
    <3>1. poller.next \in Time /\ poller.next <= clock
      BY <1>0, <2>1 DEF Time
    <3>2. cursors \in [Repos -> Time \cup {Never}] /\ \A r \in Repos : cursors[r] <= clock
      BY DEF TimesInv
    <3> QED BY <2>2, <3>1, <3>2
  <2> QED BY <1>r, <2>1, <2>2, <2>3 DEF TimesInv
<1>7. CASE CreateIssueCommentFails \/ ConnectionLost \/ CallFails
  <2>1. TimesUnchanged /\ Fault
    BY <1>7 DEF CreateIssueCommentFails, ConnectionLost, CallFails, TimesUnchanged, PollerOnly, githubVars, storeVars
  <2> QED BY <1>1, <1>f, <1>7, <2>1, PollerTimesKept
<1>8. CASE Crash
  <2>1. UNCHANGED <<clock, updatedAt, cursors>> /\ Fault /\ startedAt' = clock
    BY <1>8 DEF Crash, githubVars, storeVars
  <2>2. PollerTimes(poller', clock)
    BY <1>8, PollerTimesKept
  <2> QED BY <1>0, <1>f, <1>r, <2>1, <2>2 DEF TimesInv
<1>9. CASE Tick
  <2>1. clock' = clock + 1 /\ clock < MaxTime /\ UNCHANGED <<updatedAt, cursors, startedAt, faults, poller>>
    BY <1>9 DEF Tick, githubVars, storeVars
  <2>2. PollerTimes(poller', clock')
    BY <1>0, <2>1 DEF TimesInv, PollerTimes
  <2>3. (\A c \in Comments : updatedAt[c] <= clock') /\ (\A r \in Repos : cursors[r] <= clock') /\ clock' \in Time
    BY <1>0, <2>1 DEF TimesInv, Time, Never
  <2> QED BY <1>r, <2>1, <2>2, <2>3 DEF TimesInv
<1>10. ASSUME NEW c \in Comments, PostComment(c) PROVE TimesInv'
  <2>1. updatedAt' = [updatedAt EXCEPT ![c] = clock] /\ UNCHANGED <<clock, cursors, startedAt, faults, poller>>
    BY <1>10 DEF PostComment, storeVars
  <2>2. updatedAt' \in [Comments -> Time \cup {Never}] /\ \A d \in Comments : updatedAt'[d] <= clock
    BY <1>0, <2>1 DEF TimesInv
  <2> QED BY <1>r, <2>1, <2>2 DEF TimesInv
<1>11. ASSUME NEW o \in outstanding, Land(o) \/ Expire(o) PROVE TimesInv'
  BY <1>2, <1>11 DEF Land, Expire, TimesUnchanged, storeVars
<1>12. ASSUME ProducerUnchanged, Fault \/ faults' = faults PROVE TimesInv'
  BY <1>2, <1>12 DEF ProducerUnchanged, TimesUnchanged, githubVars, storeVars
<1>13. CASE UNCHANGED vars
  BY <1>2, <1>13 DEF vars, TimesUnchanged, githubVars, storeVars
<1>14. CASE Next
  <2>1. CASE PollerStep
    BY <1>3, <1>4, <1>5, <1>6, <2>1 DEF PollerStep
  <2> QED BY <1>7, <1>8, <1>9, <1>10, <1>11, <1>12, <1>14, <2>1 DEF Next
<1> QED BY <1>13, <1>14

LEMMA TimesInitially == Init => TimesInv
<1> SUFFICES ASSUME Init PROVE TimesInv
  OBVIOUS
<1>1. PollerTimes(poller, clock)
  <2>1. clock = 0 /\ poller = Begin(1)
    BY DEF Init
  <2>2. LET q == Begin(1) IN IsPoller(q) /\ q.started = 0 /\ q.next = 0 /\ q.now = 0 /\ q.todo = {}
    BY BeginFields
  <2> QED BY <2>1, <2>2 DEF PollerTimes
<1>2. 0 \in Time /\ 0 \in 0 .. MaxFaults
  BY Bounds DEF Time
<1> QED BY <1>1, <1>2 DEF Init, AdmissionInit, TimesInv, Never

LEMMA TimesInvariance == SafeSpec => []TimesInv
BY TimesInitially, TimesPreserved, PTL DEF SafeSpec
-----------------------------------------------------------------------------
(* The conversation: the poller waits exactly while one of its requests is being *)
(* handled or has been answered, and an answer is about the comment it waits     *)
(* for and true of what admission has done.                                    *)
Live(reqs, hs) == {q \in reqs \cup hs : q.live}

(* The work of c, or of another command in its group, has got an AgentRun.       *)
WorkAdmitted(c, adm) ==
  \E d \in Comments :
    /\ adm[d] > 0
    /\ \/ agentRunIdentityForCommand(d) = agentRunIdentityForCommand(c)
       \/ workGroupForCommand(c) # NoGroup /\ workGroupForCommand(c) = workGroupForCommand(d)

Honest(c, answer, adm) ==
  /\ answer \in {"scheduled", "duplicate"} => WorkAdmitted(c, adm)
  /\ answer = "rejected" => c \in Denied

(* A request, a handler and an AgentRun carry the keys of their comment.         *)
OfJob(x) ==
  x.job \in Comments /\ x.work = agentRunIdentityForCommand(x.job) /\ x.group = workGroupForCommand(x.job)
RunOfJob(r, adm) == DOMAIN r = RunFields /\ OfJob(r) /\ r.nth \in 1 .. adm[r.job]
RequestOfJob(q) == DOMAIN q = RequestFields /\ OfJob(q) /\ q.live \in BOOLEAN
HandlerOfJob(h, adm) ==
  DOMAIN h = HandlingFields /\ OfJob(h) /\ h.live \in BOOLEAN /\ \A r \in h.seen : RunOfJob(r, adm)

AdmittedInv(adm, rs) ==
  /\ adm \in [Comments -> Nat] /\ \A c \in Comments : c \in Denied => adm[c] = 0
  /\ \A r \in rs : RunOfJob(r, adm)
RecordsInv(reqs, hs, adm) ==
  (\A q \in reqs : RequestOfJob(q)) /\ (\A h \in hs : HandlerOfJob(h, adm))

ConversationInv(reqs, hs, rep, p, adm) ==
  /\ \A q, k \in Live(reqs, hs) : q = k
  /\ \A q \in Live(reqs, hs) : q.job = p.current
  /\ rep # NoReply => Live(reqs, hs) = {} /\ Honest(p.current, rep, adm)
  /\ p.at = "await" <=> (rep # NoReply \/ Live(reqs, hs) # {})
  /\ p.at = "await" => p.current \in Comments

OutcomeInv(out, adm) ==
  out \in [Comments -> Replies \cup {"none"}] /\ \A c \in Comments : Honest(c, out[c], adm)

TalkInv ==
  /\ AdmittedInv(admitted, runs) /\ RecordsInv(requests, handling, admitted)
  /\ ConversationInv(requests, handling, reply, poller, admitted)
  /\ OutcomeInv(outcome, admitted)

(* A step of the poller away from admission.                                    *)
LEMMA TalkElsewhere ==
  ASSUME TalkInv, UNCHANGED <<runs, admitted, requests, handling, reply, outcome>>,
         poller' = poller \/ (poller.at # "await" /\ poller'.at # "await")
  PROVE  TalkInv'
<1>1. CASE poller' = poller
  BY <1>1 DEF TalkInv
<1>2. CASE poller.at # "await" /\ poller'.at # "await"
  <2>1. reply = NoReply /\ Live(requests, handling) = {}
    BY <1>2 DEF TalkInv, ConversationInv
  <2>2. ConversationInv(requests, handling, reply, poller', admitted)
    BY <1>2, <2>1 DEF ConversationInv
  <2> QED BY <2>2 DEF TalkInv
<1> QED BY <1>1, <1>2

(* What was honest stays honest when more is admitted.                          *)
LEMMA HonestGrows ==
  ASSUME NEW adm \in [Comments -> Nat], NEW new \in [Comments -> Nat], \A d \in Comments : adm[d] <= new[d],
         NEW c, NEW answer, Honest(c, answer, adm)
  PROVE  Honest(c, answer, new)
<1>1. \A d \in Comments : adm[d] > 0 => new[d] > 0
  OBVIOUS
<1> QED BY <1>1 DEF Honest, WorkAdmitted

LEMMA RunOfJobGrows ==
  ASSUME NEW adm \in [Comments -> Nat], NEW new \in [Comments -> Nat], \A d \in Comments : adm[d] <= new[d],
         NEW r, RunOfJob(r, adm)
  PROVE  RunOfJob(r, new)
<1>1. r.job \in Comments /\ adm[r.job] \in Nat /\ new[r.job] \in Nat /\ adm[r.job] <= new[r.job]
  BY DEF RunOfJob, OfJob
<1>2. r.nth \in 1 .. adm[r.job]
  BY DEF RunOfJob
<1>3. r.nth \in 1 .. new[r.job]
  BY <1>1, <1>2
<1> QED BY <1>3 DEF RunOfJob

(* A group is never a work ID.                                                  *)
LEMMA GroupIsNoWork ==
  ASSUME NEW c, NEW d, workGroupForCommand(c) # NoGroup
  PROVE  workGroupForCommand(c) # agentRunIdentityForCommand(d)
<1>1. workGroupForCommand(c) = <<"group", IssueOf[c]>>
  BY DEF workGroupForCommand
<1>2. workGroupForCommand(c)[1] = "group"
  BY <1>1
<1>3. agentRunIdentityForCommand(d)[1] \in {"issue", "comment"}
  BY DEF agentRunIdentityForCommand
<1> QED BY <1>2, <1>3

(* The verdict on what a handler has read is true of what has been admitted.     *)
LEMMA VerdictHonest ==
  ASSUME AdmittedInv(admitted, runs), NEW h, HandlerOfJob(h, admitted), Verdict(h) # "scheduled"
  PROVE  Honest(h.job, Verdict(h), admitted)
<1>1. CASE Verdict(h) = "rejected"
  BY <1>1 DEF Verdict, Honest
<1>2. CASE Verdict(h) = "duplicate"
  <2>1. \A r \in h.seen : r.job \in Comments /\ admitted[r.job] > 0 /\ r.work = agentRunIdentityForCommand(r.job)
                          /\ r.group = workGroupForCommand(r.job)
    BY DEF HandlerOfJob, RunOfJob, OfJob, AdmittedInv
  <2>2. h.work = agentRunIdentityForCommand(h.job) /\ h.group = workGroupForCommand(h.job)
    BY DEF HandlerOfJob, OfJob
  <2>3. CASE retainedWorkExists(h.seen, h.work)
    BY <1>2, <2>1, <2>2, <2>3 DEF retainedWorkExists, Honest, WorkAdmitted
  <2>4. CASE activeWorkGroupExists(h.seen, h.group)
    <3>1. PICK r \in h.seen : h.group # NoGroup /\ h.group \in {r.group, r.work}
      BY <2>4 DEF activeWorkGroupExists
    <3>2. h.group = r.group
      BY <2>1, <2>2, <3>1, GroupIsNoWork
    <3> QED BY <1>2, <2>1, <2>2, <3>1, <3>2 DEF Honest, WorkAdmitted
  <2> QED BY <1>2, <2>3, <2>4 DEF Verdict
<1>3. CASE Verdict(h) \notin {"scheduled", "duplicate", "rejected"}
  BY <1>3 DEF Honest
<1> QED BY <1>1, <1>2, <1>3

(* Creating the AgentRun of a handler.                                          *)
LEMMA CreateAdmits ==
  ASSUME TalkInv, NEW h \in handling, Verdict(h) = "scheduled", Create(h)
  PROVE  /\ AdmittedInv(admitted', runs') /\ \A c \in Comments : admitted[c] <= admitted'[c]
         /\ WorkAdmitted(h.job, admitted')
<1>1. HandlerOfJob(h, admitted) /\ AdmittedInv(admitted, runs) /\ h.job \in Comments
  BY DEF TalkInv, RecordsInv, HandlerOfJob, OfJob
<1>2. h.job \notin Denied
  BY DEF Verdict
<1>3. /\ admitted' \in [Comments -> Nat] /\ \A c \in Comments : admitted[c] <= admitted'[c]
      /\ admitted'[h.job] = admitted[h.job] + 1 /\ admitted[h.job] \in Nat
      /\ \A c \in Comments : c \in Denied => admitted'[c] = 0
  BY <1>1, <1>2 DEF Create, AdmittedInv
<1>4. RunOfJob(Created(h), admitted')
  <2> DEFINE new == Created(h)
  <2>1. /\ DOMAIN new = RunFields /\ new.job = h.job /\ new.work = h.work /\ new.group = h.group
        /\ new.nth = admitted[h.job] + 1
    BY DEF Created, RunFields
  <2> HIDE DEF new
  <2>2. new.nth \in 1 .. admitted'[new.job]
    BY <1>3, <2>1
  <2>3. RunOfJob(new, admitted')
    BY <1>1, <2>1, <2>2 DEF RunOfJob, HandlerOfJob, OfJob
  <2> QED BY <2>3 DEF new
<1>5. \A r \in runs : RunOfJob(r, admitted')
  BY <1>1, <1>3, RunOfJobGrows DEF AdmittedInv
<1>6. WorkAdmitted(h.job, admitted')
  BY <1>1, <1>3 DEF WorkAdmitted
<1> QED BY <1>3, <1>4, <1>5, <1>6 DEF AdmittedInv, Create

(* A handler answers: on an open connection the answer reaches the poller.        *)
LEMMA AnswerKeepsTalk ==
  ASSUME TalkInv, NEW h \in handling, NEW answer \in Replies,
         handling' = handling \ {h}, requests' = requests, poller' = poller, outcome' = outcome,
         reply' = (IF h.live THEN answer ELSE reply),
         AdmittedInv(admitted', runs'), \A c \in Comments : admitted[c] <= admitted'[c],
         Honest(h.job, answer, admitted')
  PROVE  TalkInv'
<1>0. admitted \in [Comments -> Nat] /\ admitted' \in [Comments -> Nat]
  BY DEF TalkInv, AdmittedInv
<1>1. RecordsInv(requests', handling', admitted')
  <2>1. ASSUME NEW k \in handling PROVE HandlerOfJob(k, admitted')
    BY <1>0, RunOfJobGrows DEF TalkInv, RecordsInv, HandlerOfJob
  <2> QED BY <2>1 DEF TalkInv, RecordsInv
<1>2. OutcomeInv(outcome', admitted')
  BY <1>0, HonestGrows DEF TalkInv, OutcomeInv
<1>3. ConversationInv(requests', handling', reply', poller', admitted')
  <2>1. Live(requests', handling') \subseteq Live(requests, handling)
    BY DEF Live
  <2>2. CASE h.live
    <3>1. h \in Live(requests, handling) /\ h.job = poller.current
      BY <2>2 DEF Live, TalkInv, ConversationInv
    <3>2. \A q \in requests : q # h
      BY DEF TalkInv, RecordsInv, RequestOfJob, HandlerOfJob, HandlingFields, RequestFields
    <3>3. Live(requests', handling') = {}
      BY <2>1, <3>1, <3>2 DEF Live, TalkInv, ConversationInv
    <3>4. reply' = answer /\ answer # NoReply /\ poller.at = "await" /\ poller.current \in Comments
      BY <2>2, <3>1 DEF TalkInv, ConversationInv, NoReply, Replies
    <3> QED BY <3>1, <3>3, <3>4 DEF ConversationInv
  <2>3. CASE ~h.live
    <3>1. Live(requests', handling') = Live(requests, handling)
      BY <2>3 DEF Live
    <3>2. reply' = reply
      BY <2>3
    <3>3. reply # NoReply => Honest(poller.current, reply, admitted')
      BY <1>0, HonestGrows DEF TalkInv, ConversationInv
    <3> QED BY <3>1, <3>2, <3>3 DEF TalkInv, ConversationInv
  <2> QED BY <2>2, <2>3
<1> QED BY <1>1, <1>2, <1>3 DEF TalkInv

LEMMA HandlersKeepTalk ==
  ASSUME TalkInv, NEW h \in handling, Serve(h) \/ ServeFails(h) \/ Abandon(h), ProducerUnchanged
  PROVE  TalkInv'
<1>0. handling' = handling \ {h} /\ requests' = requests /\ poller' = poller /\ outcome' = outcome
  BY DEF Serve, ServeFails, Abandon, Respond, ProducerUnchanged
<1>1. AdmittedInv(admitted, runs) /\ HandlerOfJob(h, admitted) /\ \A c \in Comments : admitted[c] <= admitted[c]
  BY DEF TalkInv, RecordsInv, AdmittedInv
<1>2. CASE Serve(h)
  <2>0. reply' = (IF h.live THEN Verdict(h) ELSE reply) /\ Verdict(h) \in Replies
    BY <1>2, VerdictReplies DEF Serve, Respond
  <2>1. CASE Verdict(h) = "scheduled"
    <3>1. Create(h)
      BY <1>2, <2>1 DEF Serve
    <3>2. Honest(h.job, Verdict(h), admitted')
      BY <2>1, <3>1, CreateAdmits DEF Honest
    <3> QED BY <1>0, <2>0, <2>1, <3>1, <3>2, CreateAdmits, AnswerKeepsTalk
  <2>2. CASE Verdict(h) # "scheduled"
    <3>1. runs' = runs /\ admitted' = admitted
      BY <1>2, <2>2 DEF Serve
    <3> QED BY <1>0, <1>1, <2>0, <2>2, <3>1, VerdictHonest, AnswerKeepsTalk
  <2> QED BY <2>1, <2>2
<1>3. CASE ServeFails(h) \/ Abandon(h)
  <2>0. reply' = (IF h.live THEN "error" ELSE reply) /\ "error" \in Replies /\ \A adm : Honest(h.job, "error", adm)
    BY <1>3 DEF ServeFails, Abandon, Respond, Replies, Honest
  <2>1. CASE runs' = runs /\ admitted' = admitted
    BY <1>0, <1>1, <2>0, <2>1, AnswerKeepsTalk
  <2>2. CASE Verdict(h) = "scheduled" /\ Create(h)
    BY <1>0, <2>0, <2>2, CreateAdmits, AnswerKeepsTalk
  <2> QED BY <1>3, <2>1, <2>2 DEF ServeFails, Abandon
<1> QED BY <1>2, <1>3

(* The lock passes to a request.                                               *)
LEMMA AcquireKeepsTalk ==
  ASSUME TalkInv, NEW q \in requests, Acquire(q), ProducerUnchanged
  PROVE  TalkInv'
<1> DEFINE h == [job |-> q.job, work |-> q.work, group |-> q.group, principal |-> q.principal,
                 live |-> q.live, suspend |-> suspended, seen |-> runs]
<1>1. /\ handling = {} /\ handling' = {h} /\ requests' = requests \ {q}
      /\ UNCHANGED <<runs, admitted, reply, poller, outcome>>
  BY DEF Acquire, ScheduleUnlocked, ProducerUnchanged
<1>2. /\ DOMAIN h = HandlingFields /\ h.seen = runs /\ h.job = q.job /\ h.work = q.work /\ h.group = q.group
      /\ h.live = q.live
  BY DEF HandlingFields, RequestFields
<1> HIDE DEF h
<1>3. RequestOfJob(q)
  BY DEF TalkInv, RecordsInv
<1>4. RecordsInv(requests', handling', admitted')
  BY <1>1, <1>2, <1>3 DEF TalkInv, RecordsInv, AdmittedInv, HandlerOfJob, RequestOfJob, OfJob
<1>5. ConversationInv(requests', handling', reply', poller', admitted')
  <2>1. CASE q.live
    <3>1. Live(requests', handling') = {h} /\ Live(requests, handling) # {} /\ q.job = poller.current
      BY <1>1, <1>2, <2>1 DEF Live, TalkInv, ConversationInv
    <3> QED BY <1>1, <1>2, <3>1 DEF TalkInv, ConversationInv
  <2>2. CASE ~q.live
    <3>1. Live(requests', handling') = Live(requests, handling)
      BY <1>1, <1>2, <2>2 DEF Live
    <3> QED BY <1>1, <3>1 DEF TalkInv, ConversationInv
  <2> QED BY <2>1, <2>2
<1> QED BY <1>1, <1>4, <1>5 DEF TalkInv

(* The poller is gone, and nothing it asked for is heard.                        *)
LEMMA DetachKeepsTalk ==
  ASSUME TalkInv, Detach, poller'.at # "await", UNCHANGED <<runs, admitted, outcome>>
  PROVE  TalkInv'
<1>1. \A q \in requests : RequestOfJob([q EXCEPT !.live = FALSE]) /\ ~[q EXCEPT !.live = FALSE].live
  BY DEF TalkInv, RecordsInv, RequestOfJob, RequestFields, OfJob
<1>2. \A h \in handling : HandlerOfJob([h EXCEPT !.live = FALSE], admitted) /\ ~[h EXCEPT !.live = FALSE].live
  BY DEF TalkInv, RecordsInv, HandlerOfJob, HandlingFields, RequestFields, OfJob
<1>3. RecordsInv(requests', handling', admitted') /\ Live(requests', handling') = {}
  BY <1>1, <1>2 DEF Detach, Orphan, RecordsInv, Live
<1>4. ConversationInv(requests', handling', reply', poller', admitted')
  BY <1>3 DEF Detach, ConversationInv
<1> QED BY <1>3, <1>4 DEF TalkInv

LEMMA RestartKeepsTalk ==
  ASSUME TalkInv, OperatorRestart, ProducerUnchanged
  PROVE  TalkInv'
<1>1. requests' = {} /\ handling' = {} /\ UNCHANGED <<runs, admitted, poller, outcome>>
  BY DEF OperatorRestart, ProducerUnchanged
<1>2. Live(requests', handling') = {} /\ RecordsInv(requests', handling', admitted')
  BY <1>1 DEF Live, RecordsInv
<1>3. reply' = IF Live(requests, handling) # {} THEN "error" ELSE reply
  BY DEF OperatorRestart, Live
<1>4. Honest(poller.current, "error", admitted) /\ "error" # NoReply
  BY DEF Honest, NoReply
<1>5. ConversationInv(requests', handling', reply', poller', admitted')
  BY <1>1, <1>2, <1>3, <1>4 DEF TalkInv, ConversationInv
<1> QED BY <1>1, <1>2, <1>5 DEF TalkInv

LEMMA SubmitKeepsTalk ==
  ASSUME TalkInv, IsPoller(poller), NEW c \in Comments, Submit(c)
  PROVE  TalkInv'
<1> DEFINE q == Request(c, agentRunIdentityForCommand(c), workGroupForCommand(c), AuthorOf[c])
<1>1. requests' = requests \cup {q} /\ UNCHANGED <<runs, admitted, handling, reply, outcome>>
  BY DEF Submit
<1>2. RequestOfJob(q) /\ q.live /\ q.job = c
  BY DEF Request, RequestOfJob, RequestFields, OfJob
<1>3. poller.at = "loop" /\ poller'.at = "await" /\ poller'.current = c
  <2>1. IsPoller(Taken(c)) /\ poller' = [Taken(c) EXCEPT !.at = "await", !.current = c]
    BY TakenFields DEF Submit
  <2> QED BY <2>1 DEF Submit, Oldest, IsPoller, PollerFields
<1> HIDE DEF q
<1>4. Live(requests, handling) = {} /\ reply = NoReply
  BY <1>3 DEF TalkInv, ConversationInv
<1>5. Live(requests', handling') = {q}
  BY <1>1, <1>2, <1>4 DEF Live
<1>6. RecordsInv(requests', handling', admitted')
  BY <1>1, <1>2 DEF TalkInv, RecordsInv
<1>7. ConversationInv(requests', handling', reply', poller', admitted')
  BY <1>1, <1>2, <1>3, <1>4, <1>5 DEF ConversationInv
<1> QED BY <1>1, <1>6, <1>7 DEF TalkInv

LEMMA ReceiveKeepsTalk ==
  ASSUME TalkInv, TimesInv, Receive
  PROVE  TalkInv'
<1>1. /\ reply \in Replies /\ poller.current \in Comments /\ Live(requests, handling) = {}
      /\ Honest(poller.current, reply, admitted)
  BY DEF Receive, TalkInv, ConversationInv, TimesInv
<1>2. poller'.at # "await"
  <2>1. poller' \in {Continue(poller), Defer(poller), Begin(1)}
    BY <1>1 DEF Receive, Settle, ReturnError, Replies
  <2> QED BY <2>1, ContinueFields, DeferFields, BeginFields DEF TimesInv, PollerTimes
<1>3. reply' = NoReply /\ UNCHANGED <<runs, admitted, requests, handling>>
  BY DEF Receive
<1>4. ConversationInv(requests', handling', reply', poller', admitted')
  BY <1>1, <1>2, <1>3 DEF ConversationInv
<1>5. OutcomeInv(outcome', admitted')
  <2>1. outcome' = [outcome EXCEPT ![poller.current] = IF reply = "error" THEN @ ELSE reply]
    BY DEF Receive
  <2>2. OutcomeInv(outcome, admitted)
    BY DEF TalkInv
  <2> QED BY <1>1, <1>3, <2>1, <2>2 DEF OutcomeInv
<1> QED BY <1>3, <1>4, <1>5 DEF TalkInv

(* The poller's other steps neither begin nor end a wait.                        *)
PollerElsewhere ==
  \/ StartRepo \/ ListRepo \/ RepoDeferred \/ SetRepoCursor \/ DeleteDeliveredHelpResponses
  \/ HelpReconcile \/ TryBeginHelpResponseAttempt \/ CreateIssueComment \/ SetHelpResponseDelivered
  \/ CreateIssueCommentFails \/ CallFails
  \/ \E c \in Comments : SkipComment(c) \/ HelpLookup(c)

LEMMA ElsewhereNoWait ==
  ASSUME IsPoller(poller), PollerElsewhere
  PROVE  poller.at # "await" /\ poller'.at # "await" /\ UNCHANGED <<admissionVars, outcome>>
<1>c. ASSUME NEW p, IsPoller(p) PROVE Continue(p).at = "loop" /\ Defer(p).at = "loop"
  BY <1>c, ContinueFields, DeferFields
<1>b. \A i : Begin(i).at = "begin"
  BY DEF Begin
<1>a. ASSUME NEW p, IsPoller(p), NEW at PROVE [p EXCEPT !.at = at].at = at
  BY <1>a DEF IsPoller, PollerFields
<1>1. CASE StartRepo \/ ListRepo
  BY <1>1 DEF StartRepo, ListRepo, PollerOnly, IsPoller, PollerFields
<1>2. CASE RepoDeferred \/ DeleteDeliveredHelpResponses \/ CallFails
  BY <1>b, <1>2 DEF RepoDeferred, DeleteDeliveredHelpResponses, CallFails, PollerOnly, Return, ReturnError
<1>3. CASE SetRepoCursor \/ CreateIssueComment
  BY <1>3 DEF SetRepoCursor, CreateIssueComment, IsPoller, PollerFields
<1>4. CASE HelpReconcile
  BY <1>c, <1>4 DEF HelpReconcile, IsPoller, PollerFields
<1>5. CASE TryBeginHelpResponseAttempt
  BY <1>c, <1>5 DEF TryBeginHelpResponseAttempt, IsPoller, PollerFields
<1>6. CASE SetHelpResponseDelivered \/ CreateIssueCommentFails
  BY <1>c, <1>6 DEF SetHelpResponseDelivered, CreateIssueCommentFails
<1>7. ASSUME NEW c \in Comments, SkipComment(c)
      PROVE  poller.at # "await" /\ poller'.at # "await" /\ UNCHANGED <<admissionVars, outcome>>
  BY <1>7, TakenFields DEF SkipComment, Oldest, PollerOnly
<1>8. ASSUME NEW c \in Comments, HelpLookup(c)
      PROVE  poller.at # "await" /\ poller'.at # "await" /\ UNCHANGED <<admissionVars, outcome>>
  <2> DEFINE taken == [Taken(c) EXCEPT !.current = c, !.now = clock]
  <2>1. IsPoller(taken)
    BY TakenFields DEF IsPoller, PollerFields
  <2>2. poller' \in {[taken EXCEPT !.at = "attempt"], [taken EXCEPT !.at = "reconcile"], Continue(taken)}
    BY <1>8 DEF HelpLookup
  <2> HIDE DEF taken
  <2>3. poller'.at \in {"attempt", "reconcile", "loop"}
    BY <1>c, <2>1, <2>2 DEF IsPoller, PollerFields
  <2> QED BY <1>8, <2>3 DEF HelpLookup, Oldest
<1> QED BY <1>1, <1>2, <1>3, <1>4, <1>5, <1>6, <1>7, <1>8 DEF PollerElsewhere

LEMMA TalkPreserved == TimesInv /\ TalkInv /\ [Next]_vars => TalkInv'
<1> SUFFICES ASSUME TimesInv, TalkInv, [Next]_vars PROVE TalkInv'
  OBVIOUS
<1>0. IsPoller(poller)
  BY DEF TimesInv, PollerTimes
<1>1. CASE PollerElsewhere
  BY <1>0, <1>1, ElsewhereNoWait, TalkElsewhere DEF admissionVars
<1>2. ASSUME NEW c \in Comments, Submit(c) PROVE TalkInv'
  BY <1>0, <1>2, SubmitKeepsTalk
<1>3. CASE Receive
  BY <1>3, ReceiveKeepsTalk
<1>4. CASE ConnectionLost \/ Crash
  <2>1. Detach /\ poller' = Begin(1) /\ UNCHANGED <<runs, admitted, outcome>>
    BY <1>4 DEF ConnectionLost, Crash, ReturnError
  <2> QED BY <2>1, BeginFields, DetachKeepsTalk
<1>5. CASE Tick \/ (\E c \in Comments : PostComment(c)) \/ (\E o \in outstanding : Land(o) \/ Expire(o))
  <2>1. UNCHANGED <<runs, admitted, requests, handling, reply, outcome, poller>>
    BY <1>5 DEF Tick, PostComment, Land, Expire, admissionVars
  <2> QED BY <2>1, TalkElsewhere
<1>6. ASSUME OperatorStep \/ Resume \/ OperatorFault, ProducerUnchanged PROVE TalkInv'
  <2>1. CASE Resume
    BY <1>6, <2>1, TalkElsewhere DEF Resume, ProducerUnchanged
  <2>2. CASE OperatorStep
    BY <1>6, <2>2, AcquireKeepsTalk, HandlersKeepTalk DEF OperatorStep
  <2>3. CASE OperatorFault
    BY <1>6, <2>3, RestartKeepsTalk, HandlersKeepTalk DEF OperatorFault
  <2> QED BY <1>6, <2>1, <2>2, <2>3
<1>7. ASSUME NEW r \in runs, Finish(r) \/ Collect(r), ProducerUnchanged PROVE TalkInv'
  <2>1. UNCHANGED <<admitted, requests, handling, reply, poller, outcome>>
    BY <1>7 DEF Finish, Collect, ProducerUnchanged
  <2>2. RunOfJob([r EXCEPT !.active = FALSE], admitted)
    <3> DEFINE ended == [r EXCEPT !.active = FALSE]
    <3>1. /\ DOMAIN ended = RunFields /\ ended.job = r.job /\ ended.work = r.work /\ ended.group = r.group
          /\ ended.nth = r.nth
      BY DEF TalkInv, AdmittedInv, RunOfJob, RunFields
    <3> HIDE DEF ended
    <3>2. RunOfJob(ended, admitted)
      BY <3>1 DEF TalkInv, AdmittedInv, RunOfJob, OfJob
    <3> QED BY <3>2 DEF ended
  <2>3. AdmittedInv(admitted', runs')
    BY <1>7, <2>1, <2>2 DEF TalkInv, AdmittedInv, Finish, Collect
  <2> QED BY <2>1, <2>3 DEF TalkInv
<1>8. CASE UNCHANGED vars
  BY <1>8, TalkElsewhere DEF vars, admissionVars
<1>9. CASE Next
  <2>1. CASE PollerStep
    BY <1>1, <1>2, <1>3, <2>1 DEF PollerStep, PollerElsewhere
  <2>2. CASE CreateIssueCommentFails \/ CallFails
    BY <1>1, <2>2 DEF PollerElsewhere
  <2> QED BY <1>4, <1>5, <1>6, <1>7, <1>9, <2>1, <2>2 DEF Next
<1> QED BY <1>8, <1>9

LEMMA TalkInitially == Init => TalkInv
<1> SUFFICES ASSUME Init PROVE TalkInv
  OBVIOUS
<1>1. /\ runs = {} /\ requests = {} /\ handling = {} /\ reply = NoReply /\ poller = Begin(1)
      /\ admitted = [c \in Comments |-> 0] /\ outcome = [c \in Comments |-> "none"]
  BY ProducerConfiguration DEF Init, AdmissionInit
<1>2. Live(requests, handling) = {}
  BY <1>1 DEF Live
<1>3. ConversationInv(requests, handling, reply, poller, admitted)
  BY <1>1, <1>2, BeginFields DEF ConversationInv
<1>4. OutcomeInv(outcome, admitted)
  BY <1>1 DEF OutcomeInv, Honest
<1> QED BY <1>1, <1>3, <1>4 DEF TalkInv, AdmittedInv, RecordsInv

LEMMA TalkInvariance == SafeSpec => []TalkInv
BY TimesInvariance, TalkInitially, TalkPreserved, PTL DEF SafeSpec

(* Whatever is repeated, orphaned, lost or restarted: the reaction on a command   *)
(* is never about another one, "accepted" is only shown where its work, or its   *)
(* group's, has an AgentRun, and "rejected" only where there is none              *)
(* (submitScheduleAdmission, ServeHTTP's verdicts).                             *)
THEOREM ReactionsHonest == Spec => []OutcomesHonest
<1>1. TalkInv => OutcomesHonest
  BY DEF TalkInv, OutcomeInv, AdmittedInv, Honest, WorkAdmitted, OutcomesHonest
<1> QED BY <1>1, TalkInvariance, PTL DEF Spec, SafeSpec
-----------------------------------------------------------------------------
(* Help responses: the markers under a comment are 1, 2, 3 ... in the order of   *)
(* posting, a pending record's marker is the last or the next one, and a POST    *)
(* that may still land is the one its record stands for.                        *)
HelpRecords == [status : {"none", "pending", "delivered"}, marker : Nat, attempted : Time \cup {Never}]
Posts == [comment : Comments, marker : Nat, until : Nat]
HelpPlaces == {"reconcile", "attempt", "post", "record"}

MayLand(o, t) == t < o.until

CommentInv(c, rec, ms, os, t) ==
  /\ \A i \in 1 .. Len(ms) : ms[i] = i
  /\ rec.status = "pending" => rec.marker >= 1 /\ rec.marker \in {Len(ms), Len(ms) + 1}
  /\ rec.status = "delivered" => Len(ms) >= 1
  /\ \A o \in os : o.comment = c /\ MayLand(o, t) =>
       /\ rec.status = "pending" /\ rec.attempted # Never
       /\ o.marker = rec.marker /\ rec.marker = Len(ms) + 1
       /\ o.until = rec.attempted + RetryDelay

(* What the poller knows of the comment it is answering.  A retry is begun only   *)
(* when no earlier POST can land any more.                                      *)
AnsweringInv(p, rec, ms, os, t) ==
  /\ p.current \in Comments /\ rec.status = "pending"
  /\ p.at = "attempt" /\ (rec.attempted = Never \/ rec.attempted <= p.now - RetryDelay) => rec.marker = Len(ms) + 1
  /\ p.at = "post" => /\ rec.marker = Len(ms) + 1 /\ rec.attempted = p.now
                      /\ \A o \in os : o.comment = p.current => ~MayLand(o, t)
  /\ p.at = "record" => rec.marker = Len(ms)

HelpInv ==
  /\ replies \in [Comments -> Seq(Nat)] /\ help \in [Comments -> HelpRecords] /\ outstanding \subseteq Posts
  /\ \A c \in Comments : CommentInv(c, help[c], replies[c], outstanding, clock)
  /\ poller.at \in HelpPlaces => AnsweringInv(poller, help[poller.current], replies[poller.current], outstanding, clock)

(* Steps that post and record nothing.                                          *)
LEMMA HelpElsewhere ==
  ASSUME TimesInv, HelpInv, replies' = replies, help' = help, outstanding' \subseteq outstanding,
         clock' \in Nat, clock <= clock', poller' = poller \/ poller'.at \notin HelpPlaces
  PROVE  HelpInv'
<1>0. clock \in Nat
  BY Bounds DEF TimesInv, Time
<1>1. \A o \in outstanding' : o.until \in Nat /\ (MayLand(o, clock') => MayLand(o, clock))
  BY <1>0 DEF HelpInv, Posts, MayLand
<1>2. ASSUME NEW c \in Comments PROVE CommentInv(c, help'[c], replies'[c], outstanding', clock')
  BY <1>1 DEF HelpInv, CommentInv
<1>3. poller'.at \in HelpPlaces =>
        AnsweringInv(poller', help'[poller'.current], replies'[poller'.current], outstanding', clock')
  BY <1>1 DEF HelpInv, AnsweringInv
<1> QED BY <1>2, <1>3 DEF HelpInv

(* Steps that change the record or the thread of one comment.                    *)
LEMMA HelpStep ==
  ASSUME HelpInv, NEW c \in Comments, NEW rec \in HelpRecords, NEW ms \in Seq(Nat),
         help' = [help EXCEPT ![c] = rec], replies' = [replies EXCEPT ![c] = ms], clock' = clock,
         outstanding' \subseteq Posts, \A o \in outstanding' : o.comment # c => o \in outstanding,
         CommentInv(c, rec, ms, outstanding', clock),
         poller'.at \in HelpPlaces =>
           /\ poller'.current = c \/ (poller' = poller /\ poller.current # c)
           /\ poller'.current = c => AnsweringInv(poller', rec, ms, outstanding', clock)
  PROVE  HelpInv'
<1>1. replies' \in [Comments -> Seq(Nat)] /\ help' \in [Comments -> HelpRecords]
  BY DEF HelpInv
<1>2. \A d \in Comments : help'[d] = (IF d = c THEN rec ELSE help[d]) /\ replies'[d] = (IF d = c THEN ms ELSE replies[d])
  BY DEF HelpInv
<1>3. ASSUME NEW d \in Comments PROVE CommentInv(d, help'[d], replies'[d], outstanding', clock')
  <2>1. CASE d = c
    BY <1>2, <2>1
  <2>2. CASE d # c
    BY <1>2, <2>2 DEF HelpInv, CommentInv
  <2> QED BY <2>1, <2>2
<1>4. poller'.at \in HelpPlaces =>
        AnsweringInv(poller', help'[poller'.current], replies'[poller'.current], outstanding', clock')
  <2> SUFFICES ASSUME poller'.at \in HelpPlaces
               PROVE  AnsweringInv(poller', help'[poller'.current], replies'[poller'.current], outstanding', clock')
    OBVIOUS
  <2>1. CASE poller'.current = c
    BY <1>2, <2>1
  <2>2. CASE poller' = poller /\ poller.current # c
    <3>1. AnsweringInv(poller, help[poller.current], replies[poller.current], outstanding, clock)
      BY <2>2 DEF HelpInv
    <3>2. poller.current \in Comments
      BY <3>1 DEF AnsweringInv
    <3> QED BY <1>2, <2>2, <3>1, <3>2 DEF AnsweringInv
  <2> QED BY <2>1, <2>2
<1> QED BY <1>1, <1>3, <1>4 DEF HelpInv

(* The next marker goes to the end of the thread.                               *)
LEMMA PostMarker ==
  ASSUME NEW ms \in Seq(Nat), \A i \in 1 .. Len(ms) : ms[i] = i, NEW m, m = Len(ms) + 1
  PROVE  LET new == Append(ms, m)
         IN  new \in Seq(Nat) /\ Len(new) = Len(ms) + 1 /\ \A i \in 1 .. Len(new) : new[i] = i
<1>1. Len(ms) \in Nat /\ m \in Nat
  OBVIOUS
<1>2. Append(ms, m) \in Seq(Nat) /\ Len(Append(ms, m)) = Len(ms) + 1
  BY <1>1
<1>3. \A i \in 1 .. Len(ms) + 1 : Append(ms, m)[i] = IF i = Len(ms) + 1 THEN m ELSE ms[i]
  BY <1>1
<1> QED BY <1>1, <1>2, <1>3

LEMMA HelpLookupKeeps ==
  ASSUME TimesInv, HelpInv, NEW c \in Comments, HelpLookup(c)
  PROVE  HelpInv'
<1> DEFINE taken == [Taken(c) EXCEPT !.current = c, !.now = clock]
<1>1. IsPoller(taken) /\ taken.current = c /\ taken.now = clock
  BY TakenFields DEF IsPoller, PollerFields, TimesInv, PollerTimes
<1>2. UNCHANGED <<clock, replies, outstanding>> /\ clock \in Nat
  BY Bounds DEF HelpLookup, githubVars, TimesInv, Time
<1>3. /\ CommentInv(c, help[c], replies[c], outstanding, clock) /\ replies[c] \in Seq(Nat) /\ help[c] \in HelpRecords
      /\ outstanding \subseteq Posts /\ replies' = [replies EXCEPT ![c] = replies[c]]
  BY <1>2 DEF HelpInv
<1>4. ASSUME help[c].status = "none",
             help' = [help EXCEPT ![c] = [status |-> "pending", marker |-> Len(replies[c]) + 1, attempted |-> Never]],
             poller' = [taken EXCEPT !.at = "attempt"]
      PROVE  HelpInv'
  <2> DEFINE rec == [status |-> "pending", marker |-> Len(replies[c]) + 1, attempted |-> Never]
  <2>1. rec \in HelpRecords /\ rec.status = "pending" /\ rec.marker = Len(replies[c]) + 1 /\ rec.attempted = Never
    BY <1>3 DEF HelpRecords
  <2>2. help' = [help EXCEPT ![c] = rec]
    BY <1>4
  <2>3. poller'.at = "attempt" /\ poller'.current = c
    BY <1>1, <1>4 DEF IsPoller, PollerFields
  <2> HIDE DEF rec, taken
  <2>4. CommentInv(c, rec, replies[c], outstanding, clock)
    <3>1. \A o \in outstanding : o.comment = c => ~MayLand(o, clock)
      BY <1>3, <1>4 DEF CommentInv
    <3>2. \A i \in 1 .. Len(replies[c]) : replies[c][i] = i
      BY <1>3 DEF CommentInv
    <3> QED BY <1>3, <2>1, <3>1, <3>2 DEF CommentInv
  <2>5. AnsweringInv(poller', rec, replies[c], outstanding, clock)
    BY <2>1, <2>3 DEF AnsweringInv
  <2> QED BY <1>2, <1>3, <2>1, <2>2, <2>3, <2>4, <2>5, HelpStep
<1>5. ASSUME help[c].status = "pending", help' = help, poller' = [taken EXCEPT !.at = "reconcile"] PROVE HelpInv'
  <2>1. poller'.at = "reconcile" /\ poller'.current = c
    BY <1>1, <1>5 DEF IsPoller, PollerFields
  <2>2. AnsweringInv(poller', help[c], replies[c], outstanding, clock)
    BY <1>5, <2>1 DEF AnsweringInv
  <2>3. help' = [help EXCEPT ![c] = help[c]]
    BY <1>5 DEF HelpInv
  <2> QED BY <1>2, <1>3, <2>1, <2>2, <2>3, HelpStep
<1>6. ASSUME help' = help, poller' = Continue(taken) PROVE HelpInv'
  <2>1. poller'.at \notin HelpPlaces
    BY <1>1, <1>6, ContinueFields DEF HelpPlaces
  <2> QED BY <1>2, <1>6, <2>1, HelpElsewhere
<1> QED BY <1>4, <1>5, <1>6 DEF HelpLookup

(* The comment being answered.                                                  *)
LEMMA Answering ==
  ASSUME TimesInv, HelpInv, poller.at \in HelpPlaces
  PROVE  LET c == poller.current
         IN  /\ c \in Comments /\ replies[c] \in Seq(Nat) /\ help[c] \in HelpRecords /\ outstanding \subseteq Posts
             /\ help[c].status = "pending" /\ clock \in Nat /\ IsPoller(poller) /\ poller.now \in 0 .. clock
             /\ CommentInv(c, help[c], replies[c], outstanding, clock)
             /\ AnsweringInv(poller, help[c], replies[c], outstanding, clock)
             /\ help = [help EXCEPT ![c] = help[c]] /\ replies = [replies EXCEPT ![c] = replies[c]]
<1>1. AnsweringInv(poller, help[poller.current], replies[poller.current], outstanding, clock)
  BY DEF HelpInv
<1>2. poller.current \in Comments /\ help[poller.current].status = "pending"
  BY <1>1 DEF AnsweringInv
<1>3. clock \in Nat /\ IsPoller(poller) /\ poller.now \in 0 .. clock
  BY Bounds DEF TimesInv, Time, PollerTimes
<1> QED BY <1>1, <1>2, <1>3 DEF HelpInv

(* A record that becomes delivered: its marker is in the thread, so no POST of    *)
(* it is still to land.                                                         *)
LEMMA DeliveredKeeps ==
  ASSUME TimesInv, HelpInv, poller.at \in HelpPlaces,
         help[poller.current].marker = Len(replies[poller.current]),
         help' = [help EXCEPT ![poller.current].status = "delivered"],
         UNCHANGED <<clock, replies, outstanding>>, poller'.at \notin HelpPlaces
  PROVE  HelpInv'
<1> DEFINE c == poller.current
           rec == [help[c] EXCEPT !.status = "delivered"]
<1>1. /\ c \in Comments /\ replies[c] \in Seq(Nat) /\ help[c] \in HelpRecords /\ outstanding \subseteq Posts
      /\ help[c].status = "pending" /\ CommentInv(c, help[c], replies[c], outstanding, clock)
      /\ replies = [replies EXCEPT ![c] = replies[c]]
  BY Answering
<1>2. rec \in HelpRecords /\ rec.status = "delivered"
  BY <1>1 DEF HelpRecords
<1>3. help' = [help EXCEPT ![c] = rec]
  BY <1>1 DEF HelpInv
<1>4. CommentInv(c, rec, replies[c], outstanding, clock)
  <2> HIDE DEF rec, c
  <2>1. Len(replies[c]) \in Nat /\ help[c].marker = Len(replies[c])
    BY <1>1 DEF c
  <2> QED BY <1>1, <1>2, <2>1 DEF CommentInv
<1> HIDE DEF rec, c
<1> QED BY <1>1, <1>2, <1>3, <1>4, HelpStep

LEMMA HelpReconcileKeeps ==
  ASSUME TimesInv, HelpInv, HelpReconcile
  PROVE  HelpInv'
<1> DEFINE c == poller.current
<1>0. poller.at = "reconcile" /\ poller.at \in HelpPlaces /\ UNCHANGED <<clock, replies, outstanding>>
  BY DEF HelpReconcile, HelpPlaces, githubVars
<1>1. /\ c \in Comments /\ replies[c] \in Seq(Nat) /\ help[c] \in HelpRecords /\ outstanding \subseteq Posts
      /\ help[c].status = "pending" /\ CommentInv(c, help[c], replies[c], outstanding, clock)
      /\ help = [help EXCEPT ![c] = help[c]] /\ replies = [replies EXCEPT ![c] = replies[c]] /\ IsPoller(poller)
  BY <1>0, Answering
<1>2. help[c].marker \in {Len(replies[c]), Len(replies[c]) + 1} /\ help[c].marker >= 1 /\ Len(replies[c]) \in Nat
      /\ \A i \in 1 .. Len(replies[c]) : replies[c][i] = i
  BY <1>1 DEF CommentInv
<1>3. helpResponseMarkerExists(c) <=> help[c].marker = Len(replies[c])
  <2>1. DOMAIN replies[c] = 1 .. Len(replies[c])
    BY <1>1
  <2> QED BY <1>2, <2>1 DEF helpResponseMarkerExists
<1>4. CASE helpResponseMarkerExists(c)
  <2>1. help' = [help EXCEPT ![c].status = "delivered"] /\ poller' = Continue(poller)
    BY <1>4 DEF HelpReconcile
  <2>2. poller'.at \notin HelpPlaces
    BY <1>1, <2>1, ContinueFields DEF HelpPlaces
  <2> QED BY <1>0, <1>3, <1>4, <2>1, <2>2, DeliveredKeeps
<1>5. CASE ~helpResponseMarkerExists(c)
  <2>1. help' = help /\ poller' = [poller EXCEPT !.at = "attempt"]
    BY <1>5 DEF HelpReconcile
  <2>2. poller'.at = "attempt" /\ poller'.current = c
    BY <1>1, <2>1 DEF IsPoller, PollerFields
  <2> HIDE DEF c
  <2>3. AnsweringInv(poller', help[c], replies[c], outstanding, clock)
    BY <1>1, <1>2, <1>3, <1>5, <2>2 DEF AnsweringInv
  <2> QED BY <1>0, <1>1, <2>1, <2>2, <2>3, HelpStep
<1> QED BY <1>4, <1>5

LEMMA TryBeginKeeps ==
  ASSUME TimesInv, HelpInv, TryBeginHelpResponseAttempt
  PROVE  HelpInv'
<1> DEFINE c == poller.current
<1>0. poller.at = "attempt" /\ poller.at \in HelpPlaces /\ UNCHANGED <<clock, replies, outstanding>>
  BY DEF TryBeginHelpResponseAttempt, HelpPlaces, githubVars
<1>1. /\ c \in Comments /\ replies[c] \in Seq(Nat) /\ help[c] \in HelpRecords /\ outstanding \subseteq Posts
      /\ help[c].status = "pending" /\ CommentInv(c, help[c], replies[c], outstanding, clock)
      /\ AnsweringInv(poller, help[c], replies[c], outstanding, clock)
      /\ replies = [replies EXCEPT ![c] = replies[c]] /\ IsPoller(poller)
      /\ clock \in Nat /\ poller.now \in 0 .. clock
  BY <1>0, Answering
<1>2. CASE TryBegin(c, poller.now)
  <2> DEFINE rec == [help[c] EXCEPT !.attempted = poller.now]
  <2>1. help' = [help EXCEPT ![c] = rec] /\ poller' = [poller EXCEPT !.at = "post"]
    BY <1>1, <1>2 DEF TryBeginHelpResponseAttempt, HelpInv
  <2>2. poller'.at = "post" /\ poller'.current = c /\ poller'.now = poller.now
    BY <1>1, <2>1 DEF IsPoller, PollerFields
  <2>3. poller.now \in Time
    BY <1>1, Bounds DEF TimesInv, Time
  <2>4. rec \in HelpRecords /\ rec.status = "pending" /\ rec.marker = help[c].marker /\ rec.attempted = poller.now
    BY <1>1, <2>3 DEF HelpRecords
  <2>5. help[c].attempted = Never \/ help[c].attempted <= poller.now - RetryDelay
    BY <1>2 DEF TryBegin
  <2>6. rec.marker = Len(replies[c]) + 1
    BY <1>0, <1>1, <2>4, <2>5 DEF AnsweringInv
  <2> HIDE DEF rec, c
  <2>7. \A o \in outstanding : o.comment = c => ~MayLand(o, clock)
    <3> SUFFICES ASSUME NEW o \in outstanding, o.comment = c, MayLand(o, clock) PROVE FALSE
      OBVIOUS
    <3>1. help[c].attempted # Never /\ o.until = help[c].attempted + RetryDelay
      BY <1>1 DEF CommentInv
    <3>2. help[c].attempted \in Nat
      BY <1>1, <3>1, Bounds DEF HelpRecords, Time
    <3>3. clock < o.until
      BY DEF MayLand
    <3> QED BY <1>1, <2>5, <3>1, <3>2, <3>3, Bounds
  <2>8. CommentInv(c, rec, replies[c], outstanding, clock)
    BY <1>1, <2>4, <2>7 DEF CommentInv
  <2>9. AnsweringInv(poller', rec, replies[c], outstanding, clock)
    BY <1>1, <2>2, <2>4, <2>6, <2>7 DEF AnsweringInv
  <2>10. c \in Comments /\ replies[c] \in Seq(Nat) /\ outstanding' \subseteq Posts /\ clock' = clock
         /\ outstanding' = outstanding
    BY <1>0, <1>1
  <2>11. PICK ms \in Seq(Nat) : ms = replies[c]
    BY <2>10
  <2>12. replies' = [replies EXCEPT ![c] = ms] /\ CommentInv(c, rec, ms, outstanding', clock)
         /\ AnsweringInv(poller', rec, ms, outstanding', clock)
    BY <1>0, <1>1, <2>8, <2>9, <2>11
  <2>13. rec \in HelpRecords /\ help' = [help EXCEPT ![c] = rec] /\ poller'.current = c
    BY <2>1, <2>2, <2>4
  <2> QED BY <2>10, <2>11, <2>12, <2>13, HelpStep
<1>3. CASE ~TryBegin(c, poller.now)
  <2>1. help' = help /\ poller' = Defer(poller)
    BY <1>3 DEF TryBeginHelpResponseAttempt
  <2>2. poller'.at \notin HelpPlaces
    BY <1>1, <2>1, DeferFields DEF HelpPlaces
  <2> QED BY <1>0, <1>1, <2>1, <2>2, HelpElsewhere
<1> QED BY <1>2, <1>3

LEMMA CreateIssueCommentKeeps ==
  ASSUME TimesInv, HelpInv, CreateIssueComment
  PROVE  HelpInv'
<1> DEFINE c == poller.current
           ms == Append(replies[c], help[c].marker)
<1>0. poller.at = "post" /\ poller.at \in HelpPlaces /\ UNCHANGED <<clock, outstanding, help>>
  BY DEF CreateIssueComment, HelpPlaces, storeVars
<1>1. /\ c \in Comments /\ replies[c] \in Seq(Nat) /\ help[c] \in HelpRecords /\ outstanding \subseteq Posts
      /\ help[c].status = "pending" /\ CommentInv(c, help[c], replies[c], outstanding, clock)
      /\ AnsweringInv(poller, help[c], replies[c], outstanding, clock)
      /\ help = [help EXCEPT ![c] = help[c]] /\ IsPoller(poller)
  BY <1>0, Answering
<1>2. /\ help[c].marker = Len(replies[c]) + 1 /\ \A o \in outstanding : o.comment = c => ~MayLand(o, clock)
      /\ \A i \in 1 .. Len(replies[c]) : replies[c][i] = i
  BY <1>0, <1>1 DEF AnsweringInv, CommentInv
<1>3. ms \in Seq(Nat) /\ Len(ms) = Len(replies[c]) + 1 /\ \A i \in 1 .. Len(ms) : ms[i] = i
  BY <1>1, <1>2, PostMarker
<1>4. replies' = [replies EXCEPT ![c] = ms] /\ poller' = [poller EXCEPT !.at = "record"]
  BY <1>1 DEF CreateIssueComment, HelpInv
<1>5. poller'.at = "record" /\ poller'.current = c
  BY <1>1, <1>4 DEF IsPoller, PollerFields
<1>6. Len(replies[c]) \in Nat
  BY <1>1
<1> HIDE DEF ms, c
<1>7. CommentInv(c, help[c], ms, outstanding, clock)
  BY <1>1, <1>2, <1>3, <1>6 DEF CommentInv
<1>8. AnsweringInv(poller', help[c], ms, outstanding, clock)
  BY <1>1, <1>2, <1>3, <1>5 DEF AnsweringInv
<1>9. help' = [help EXCEPT ![c] = help[c]] /\ outstanding' = outstanding /\ clock' = clock
  BY <1>0, <1>1
<1>10. c \in Comments /\ help[c] \in HelpRecords /\ outstanding' \subseteq Posts
  BY <1>1, <1>9
<1>11. PICK rec \in HelpRecords : rec = help[c]
  BY <1>10
<1>12. help' = [help EXCEPT ![c] = rec] /\ CommentInv(c, rec, ms, outstanding', clock)
       /\ AnsweringInv(poller', rec, ms, outstanding', clock)
  BY <1>7, <1>8, <1>9, <1>11
<1>13. ms \in Seq(Nat) /\ replies' = [replies EXCEPT ![c] = ms] /\ poller'.current = c
  BY <1>3, <1>4, <1>5
<1> QED BY <1>9, <1>10, <1>11, <1>12, <1>13, HelpStep

LEMMA CreateIssueCommentFailsKeeps ==
  ASSUME TimesInv, HelpInv, CreateIssueCommentFails
  PROVE  HelpInv'
<1> DEFINE c == poller.current
           o == [comment |-> c, marker |-> help[c].marker, until |-> poller.now + RetryDelay]
<1>0. poller.at = "post" /\ poller.at \in HelpPlaces /\ UNCHANGED <<clock, replies, help>>
  BY DEF CreateIssueCommentFails, HelpPlaces, storeVars
<1>1. /\ c \in Comments /\ replies[c] \in Seq(Nat) /\ help[c] \in HelpRecords /\ outstanding \subseteq Posts
      /\ help[c].status = "pending" /\ CommentInv(c, help[c], replies[c], outstanding, clock)
      /\ AnsweringInv(poller, help[c], replies[c], outstanding, clock) /\ poller.now \in 0 .. clock /\ clock \in Nat
      /\ help = [help EXCEPT ![c] = help[c]] /\ replies = [replies EXCEPT ![c] = replies[c]] /\ IsPoller(poller)
  BY <1>0, Answering
<1>2. /\ help[c].marker = Len(replies[c]) + 1 /\ \A x \in outstanding : x.comment = c => ~MayLand(x, clock)
      /\ help[c].attempted = poller.now
  BY <1>0, <1>1 DEF AnsweringInv
<1>3. o \in Posts /\ o.comment = c /\ o.marker = help[c].marker /\ o.until = poller.now + RetryDelay
  BY <1>1, Bounds DEF Posts, HelpRecords
<1>4. outstanding' = outstanding \cup {o} /\ poller' = Defer(poller)
  BY DEF CreateIssueCommentFails
<1>5. poller'.at \notin HelpPlaces
  BY <1>1, <1>4, DeferFields DEF HelpPlaces
<1> HIDE DEF o, c
<1>6. help[c].attempted # Never
  BY <1>1, <1>2 DEF Never
<1>7. CommentInv(c, help[c], replies[c], outstanding', clock)
  BY <1>1, <1>2, <1>3, <1>4, <1>6 DEF CommentInv
<1> QED BY <1>0, <1>1, <1>3, <1>4, <1>5, <1>7, HelpStep

LEMMA SetDeliveredKeeps ==
  ASSUME TimesInv, HelpInv, SetHelpResponseDelivered
  PROVE  HelpInv'
<1>1. poller.at = "record" /\ poller.at \in HelpPlaces /\ UNCHANGED <<clock, replies, outstanding>>
  BY DEF SetHelpResponseDelivered, HelpPlaces, githubVars
<1>2. help[poller.current].marker = Len(replies[poller.current]) /\ IsPoller(poller)
  BY <1>1, Answering DEF AnsweringInv
<1>3. poller'.at \notin HelpPlaces
  BY <1>2, ContinueFields DEF SetHelpResponseDelivered, HelpPlaces
<1> QED BY <1>1, <1>2, <1>3, DeliveredKeeps DEF SetHelpResponseDelivered

LEMMA DeleteDeliveredKeeps ==
  ASSUME TimesInv, HelpInv, DeleteDeliveredHelpResponses
  PROVE  HelpInv'
<1>1. UNCHANGED <<clock, replies, outstanding>> /\ poller'.at \notin HelpPlaces
  BY BeginFields DEF DeleteDeliveredHelpResponses, Return, HelpPlaces, githubVars
<1>2. NoRecord \in HelpRecords /\ NoRecord.status = "none"
  BY DEF NoRecord, HelpRecords
<1>3. \A c \in Comments : help'[c] = help[c] \/ (help[c].status = "delivered" /\ help'[c] = NoRecord)
  BY DEF DeleteDeliveredHelpResponses
<1>4. help' \in [Comments -> HelpRecords]
  BY <1>2 DEF DeleteDeliveredHelpResponses, HelpInv
<1>5. ASSUME NEW c \in Comments PROVE CommentInv(c, help'[c], replies[c], outstanding, clock)
  BY <1>2, <1>3 DEF HelpInv, CommentInv
<1> QED BY <1>1, <1>4, <1>5 DEF HelpInv

LEMMA LandKeeps ==
  ASSUME TimesInv, HelpInv, NEW o \in outstanding, Land(o)
  PROVE  HelpInv'
<1> DEFINE c == o.comment
           ms == Append(replies[c], o.marker)
<1>0. UNCHANGED <<clock, help, poller>> /\ outstanding' = outstanding \ {o} /\ MayLand(o, clock)
  BY DEF Land, MayLand, storeVars
<1>1. /\ o \in Posts /\ c \in Comments /\ replies[c] \in Seq(Nat) /\ help[c] \in HelpRecords
      /\ outstanding \subseteq Posts /\ CommentInv(c, help[c], replies[c], outstanding, clock)
      /\ help = [help EXCEPT ![c] = help[c]]
  BY DEF HelpInv, Posts
<1>2. /\ help[c].status = "pending" /\ help[c].attempted # Never /\ o.marker = help[c].marker
      /\ help[c].marker = Len(replies[c]) + 1 /\ o.until = help[c].attempted + RetryDelay
      /\ \A i \in 1 .. Len(replies[c]) : replies[c][i] = i
  BY <1>0, <1>1 DEF CommentInv
<1>3. ms \in Seq(Nat) /\ Len(ms) = Len(replies[c]) + 1 /\ \A i \in 1 .. Len(ms) : ms[i] = i
  BY <1>1, <1>2, PostMarker
<1>4. replies' = [replies EXCEPT ![c] = ms]
  BY <1>1 DEF Land, HelpInv
<1>5. Len(replies[c]) \in Nat
  BY <1>1
<1>6. \A x \in outstanding' : x.comment = c => ~MayLand(x, clock)
  <2> SUFFICES ASSUME NEW x \in outstanding, x # o, x.comment = c, MayLand(x, clock) PROVE FALSE
    BY <1>0
  <2>1. x \in Posts /\ x.marker = o.marker /\ x.until = o.until /\ x.comment = o.comment
    BY <1>1, <1>2 DEF CommentInv
  <2>2. x = o
    BY <1>1, <2>1 DEF Posts
  <2> QED BY <2>2
<1> HIDE DEF ms, c
<1>7. CommentInv(c, help[c], ms, outstanding', clock)
  BY <1>2, <1>3, <1>5, <1>6 DEF CommentInv
<1>8. poller.at \in HelpPlaces /\ poller.current = c => AnsweringInv(poller, help[c], ms, outstanding', clock)
  <2> SUFFICES ASSUME poller.at \in HelpPlaces, poller.current = c
               PROVE  AnsweringInv(poller, help[c], ms, outstanding', clock)
    OBVIOUS
  <2>1. /\ AnsweringInv(poller, help[c], replies[c], outstanding, clock) /\ c \in Comments
        /\ clock \in Nat /\ poller.now \in 0 .. clock
    BY Answering
  <2>2. poller.at # "post"
    BY <1>0, <2>1 DEF AnsweringInv, c
  <2>3. poller.at # "record"
    BY <1>2, <1>5, <2>1 DEF AnsweringInv
  <2>4. help[c].attempted \in Nat /\ clock < help[c].attempted + RetryDelay
    BY <1>0, <1>1, <1>2, Bounds DEF HelpRecords, MayLand, Time
  <2>5. ~(help[c].attempted = Never \/ help[c].attempted <= poller.now - RetryDelay)
    BY <1>2, <2>1, <2>4, Bounds
  <2> QED BY <1>2, <2>1, <2>2, <2>3, <2>5 DEF AnsweringInv
<1> QED BY <1>0, <1>1, <1>3, <1>4, <1>7, <1>8, HelpStep

(* Steps outside the handling of a help request end outside it.                  *)
LEMMA OutsideHelp ==
  ASSUME TimesInv,
         \/ StartRepo \/ ListRepo \/ RepoDeferred \/ SetRepoCursor \/ Receive \/ ConnectionLost \/ CallFails \/ Crash
         \/ \E c \in Comments : SkipComment(c) \/ Submit(c)
  PROVE  /\ poller'.at \in {"begin", "list", "loop", "await", "clean"}
         /\ UNCHANGED <<clock, replies, help, outstanding>>
<1>0. IsPoller(poller)
  BY DEF TimesInv, PollerTimes
<1>1. CASE StartRepo
  BY <1>0, <1>1 DEF StartRepo, IsPoller, PollerFields, githubVars, storeVars
<1>2. CASE ListRepo
  BY <1>0, <1>2 DEF ListRepo, IsPoller, PollerFields, PollerOnly, githubVars, storeVars
<1>3. CASE RepoDeferred \/ ConnectionLost \/ CallFails \/ Crash
  <2>1. \A i : Begin(i).at = "begin"
    BY DEF Begin
  <2>2. (\E i : poller' = Begin(i)) /\ UNCHANGED <<clock, replies, help, outstanding>>
    BY <1>3 DEF RepoDeferred, ConnectionLost, CallFails, Crash, Return, ReturnError, PollerOnly, githubVars, storeVars
  <2> QED BY <2>1, <2>2
<1>4. CASE SetRepoCursor
  BY <1>0, <1>4 DEF SetRepoCursor, IsPoller, PollerFields, githubVars
<1>5. CASE Receive
  <2>1. poller' \in {Continue(poller), Defer(poller), Begin(1)}
    BY <1>5 DEF Receive, Settle, ReturnError, Replies, TimesInv
  <2>2. poller'.at \in {"begin", "loop"}
    <3>1. Continue(poller).at = "loop" /\ Defer(poller).at = "loop" /\ Begin(1).at = "begin"
      BY <1>0, ContinueFields, DeferFields, BeginFields
    <3> QED BY <2>1, <3>1
  <2> QED BY <1>5, <2>2 DEF Receive, githubVars, storeVars
<1>6. ASSUME NEW c \in Comments, SkipComment(c)
      PROVE  poller'.at \in {"begin", "list", "loop", "await", "clean"} /\ UNCHANGED <<clock, replies, help, outstanding>>
  BY <1>0, <1>6, TakenFields DEF SkipComment, Oldest, PollerOnly, githubVars, storeVars
<1>7. ASSUME NEW c \in Comments, Submit(c)
      PROVE  poller'.at \in {"begin", "list", "loop", "await", "clean"} /\ UNCHANGED <<clock, replies, help, outstanding>>
  <2>1. IsPoller(Taken(c)) /\ poller' = [Taken(c) EXCEPT !.at = "await", !.current = c]
    BY <1>0, <1>7, TakenFields DEF Submit
  <2>2. poller'.at = "await"
    BY <2>1 DEF IsPoller, PollerFields
  <2> QED BY <1>7, <2>2 DEF Submit, githubVars, storeVars
<1> QED BY <1>1, <1>2, <1>3, <1>4, <1>5, <1>6, <1>7

LEMMA HelpPreserved == TimesInv /\ HelpInv /\ [Next]_vars => HelpInv'
<1> SUFFICES ASSUME TimesInv, HelpInv, [Next]_vars PROVE HelpInv'
  OBVIOUS
<1>0. clock \in Nat
  BY Bounds DEF TimesInv, Time
<1>1. ASSUME \/ StartRepo \/ ListRepo \/ RepoDeferred \/ SetRepoCursor \/ Receive \/ ConnectionLost \/ CallFails \/ Crash
             \/ \E c \in Comments : SkipComment(c) \/ Submit(c)
      PROVE  HelpInv'
  <2>1. poller'.at \notin HelpPlaces /\ UNCHANGED <<clock, replies, help, outstanding>>
    BY <1>1, OutsideHelp DEF HelpPlaces
  <2> QED BY <1>0, <2>1, HelpElsewhere
<1>2. ASSUME UNCHANGED <<poller, replies, help>>, outstanding' \subseteq outstanding,
             clock' = clock \/ clock' = clock + 1
      PROVE  HelpInv'
  BY <1>0, <1>2, HelpElsewhere
<1>3. CASE Tick
  BY <1>2, <1>3 DEF Tick, githubVars, storeVars
<1>4. ASSUME NEW c \in Comments, PostComment(c) PROVE HelpInv'
  BY <1>2, <1>4 DEF PostComment, storeVars
<1>5. ASSUME NEW o \in outstanding, Land(o) \/ Expire(o) PROVE HelpInv'
  <2>1. CASE Land(o)
    BY <2>1, LandKeeps
  <2>2. CASE Expire(o)
    BY <1>2, <2>2 DEF Expire, storeVars
  <2> QED BY <1>5, <2>1, <2>2
<1>6. ASSUME ProducerUnchanged PROVE HelpInv'
  BY <1>2, <1>6 DEF ProducerUnchanged, githubVars, storeVars
<1>7. CASE UNCHANGED vars
  BY <1>2, <1>7 DEF vars, githubVars, storeVars
<1>8. CASE Next
  <2>1. CASE PollerStep
    BY <1>1, <2>1, HelpLookupKeeps, HelpReconcileKeeps, TryBeginKeeps, CreateIssueCommentKeeps,
       SetDeliveredKeeps, DeleteDeliveredKeeps DEF PollerStep
  <2>2. CASE CreateIssueCommentFails
    BY <2>2, CreateIssueCommentFailsKeeps
  <2> QED BY <1>1, <1>3, <1>4, <1>5, <1>6, <1>8, <2>1, <2>2 DEF Next
<1> QED BY <1>7, <1>8

LEMMA HelpInitially == Init => HelpInv
<1> SUFFICES ASSUME Init PROVE HelpInv
  OBVIOUS
<1>1. /\ replies = [c \in Comments |-> <<>>] /\ help = [c \in Comments |-> NoRecord] /\ outstanding = {}
      /\ poller.at = "begin"
  BY BeginFields DEF Init
<1>2. NoRecord \in HelpRecords /\ NoRecord.status = "none"
  BY DEF NoRecord, HelpRecords
<1>3. <<>> \in Seq(Nat) /\ Len(<<>>) = 0
  OBVIOUS
<1>4. ASSUME NEW c \in Comments PROVE CommentInv(c, help[c], replies[c], outstanding, clock)
  <2>1. help[c] = NoRecord /\ replies[c] = <<>>
    BY <1>1
  <2> QED BY <1>1, <1>2, <1>3, <2>1 DEF CommentInv
<1> QED BY <1>1, <1>2, <1>3, <1>4 DEF HelpInv, HelpPlaces

LEMMA HelpInvariance == SafeSpec => []HelpInv
BY TimesInvariance, HelpInitially, HelpPreserved, PTL DEF SafeSpec

LEMMA TypesFromInvariants == TimesInv /\ TalkInv /\ HelpInv => TypeOK
<1> SUFFICES ASSUME TimesInv, TalkInv, HelpInv PROVE TypeOK
  OBVIOUS
<1>1. \A c \in Comments : help[c].status \in {"none", "pending", "delivered"}
  BY DEF HelpInv, HelpRecords
<1>2. \A r \in runs : r.job \in Comments /\ r.nth \in 1 .. admitted[r.job]
  BY DEF TalkInv, AdmittedInv, RunOfJob, OfJob
<1>3. Cardinality({q \in requests \cup handling : q.live}) <= 1
  <2> DEFINE L == {q \in requests \cup handling : q.live}
  <2>1. \A q, k \in L : q = k
    BY DEF TalkInv, ConversationInv, Live
  <2> HIDE DEF L
  <2>2. ASSUME L = {} PROVE Cardinality(L) <= 1
    <3>1. Cardinality(L) = 0
      BY <2>2, FS_EmptySet
    <3> QED BY <3>1
  <2>3. ASSUME NEW q \in L PROVE Cardinality(L) <= 1
    <3>1. L = {q}
      BY <2>1, <2>3
    <3>2. Cardinality(L) = 1
      BY <3>1, FS_Singleton
    <3> QED BY <3>2
  <2>4. Cardinality(L) <= 1
    BY <2>2, <2>3
  <2> QED BY <2>4 DEF L
<1>4. poller.at = "await" <=> (reply # NoReply \/ \E q \in requests \cup handling : q.live)
  <2>1. Live(requests, handling) # {} <=> \E q \in requests \cup handling : q.live
    BY DEF Live
  <2> QED BY <2>1 DEF TalkInv, ConversationInv
<1> QED BY <1>1, <1>2, <1>3, <1>4 DEF TypeOK, TimesInv

(* However often a help request is reconciled, retried, re-recorded and cut short *)
(* by failures, lost connections and restarts, no marker is posted twice, and the *)
(* poller's state stays consistent (GetOrCreateHelpResponse,                     *)
(* TryBeginHelpResponseAttempt, helpResponseMarkerExists).                       *)
THEOREM HelpPostedOnce == Spec => []HelpAnsweredOnce
<1>1. HelpInv => OneReplyPerMarker
  <2> SUFFICES ASSUME HelpInv, NEW c \in Comments, NEW i \in DOMAIN replies[c], NEW j \in DOMAIN replies[c],
                      replies[c][i] = replies[c][j]
               PROVE  i = j
    BY DEF OneReplyPerMarker
  <2>1. DOMAIN replies[c] = 1 .. Len(replies[c])
    BY DEF HelpInv
  <2> QED BY <2>1 DEF HelpInv, CommentInv
<1>2. TimesInv /\ TalkInv /\ HelpInv => HelpAnsweredOnce
  BY <1>1, TypesFromInvariants DEF HelpAnsweredOnce
<1> QED BY <1>2, TimesInvariance, TalkInvariance, HelpInvariance, PTL DEF Spec, SafeSpec
-----------------------------------------------------------------------------
(* Cursors: while a repository is polled, every comment of it that the next      *)
(* cursor would leave behind has been answered, is still in hand, or has set     *)
(* the flag that keeps the cursor where it is.  With an initial since, only what *)
(* was posted from then on is due.                                              *)
PollPlaces == HelpPlaces \cup {"loop", "await"}
InHand(p, c) == c \in p.todo \/ c = p.current
Due(c) == updatedAt[c] # Never /\ updatedAt[c] >= InitialSince

PollInv ==
  /\ \A c \in Comments : InHand(poller, c) => updatedAt[c] # Never /\ cursors[RepoOf[c]] <= updatedAt[c]
  /\ \A c \in Comments : RepoOf[c] = Repo /\ Due(c) /\ updatedAt[c] < poller.next =>
       Done(c) \/ InHand(poller, c) \/ poller.deferred = TRUE
  /\ poller.at \in HelpPlaces => IsHelp(poller.current)
  /\ poller.at = "await" => IsSubmitted(poller.current)

NothingDueSkipped == \A c \in Comments : Due(c) /\ updatedAt[c] < cursors[RepoOf[c]] => Done(c)

CursorInv ==
  /\ NothingDueSkipped
  /\ poller.at \in {"begin", "list", "loop"} => poller.current = NoComment
  /\ poller.at \in PollPlaces => PollInv

LEMMA CommentTimes ==
  ASSUME TimesInv, NEW c \in Comments
  PROVE  /\ RepoOf[c] \in Repos /\ c # NoComment
         /\ updatedAt[c] \in Int /\ (updatedAt[c] = Never \/ updatedAt[c] >= 0)
         /\ cursors[RepoOf[c]] \in Int /\ (cursors[RepoOf[c]] = Never \/ cursors[RepoOf[c]] >= 0)
<1>1. RepoOf[c] \in Repos /\ c # NoComment
  BY ProducerConfiguration
<1>2. updatedAt[c] \in Time \cup {Never} /\ cursors[RepoOf[c]] \in Time \cup {Never}
  BY <1>1 DEF TimesInv
<1>3. Never \in Int /\ \A t \in Time : t \in Int /\ t >= 0
  BY Bounds DEF Time, Never
<1> QED BY <1>1, <1>2, <1>3

(* Steps outside a poll, and steps of others: nothing that was answered is        *)
(* forgotten.                                                                  *)
LEMMA CursorElsewhere ==
  ASSUME CursorInv, UNCHANGED <<updatedAt, cursors>>, \A c \in Comments : Done(c) => Done(c)',
         \/ poller' = poller
         \/ /\ poller'.at \notin PollPlaces
            /\ poller'.at \in {"begin", "list"} => poller'.current = NoComment
  PROVE  CursorInv'
<1>0. \A c : Due(c)' <=> Due(c)
  BY DEF Due
<1>1. NothingDueSkipped'
  BY <1>0 DEF CursorInv, NothingDueSkipped
<1>2. CASE poller' = poller
  <2>1. poller.at \in PollPlaces => PollInv'
    BY <1>0, <1>2 DEF CursorInv, PollInv, Repo, InHand
  <2> QED BY <1>1, <1>2, <2>1 DEF CursorInv
<1>3. CASE /\ poller'.at \notin PollPlaces
           /\ poller'.at \in {"begin", "list"} => poller'.current = NoComment
  BY <1>1, <1>3 DEF CursorInv, PollPlaces
<1> QED BY <1>2, <1>3

(* Steps within a poll: a comment leaves the poller's hands answered or deferred, *)
(* and an answer is only revoked by a deferral of a comment in hand, which the   *)
(* cursor has not passed.                                                      *)
LEMMA CursorWithin ==
  ASSUME TimesInv, CursorInv, poller.at \in PollPlaces, poller'.at \in PollPlaces,
         UNCHANGED <<updatedAt, cursors>>, poller'.repo = poller.repo, poller'.next = poller.next,
         poller.deferred = TRUE => poller'.deferred = TRUE,
         \A c \in Comments : InHand(poller', c) => InHand(poller, c),
         \A c \in Comments : InHand(poller, c) => InHand(poller', c) \/ Done(c)' \/ poller'.deferred = TRUE,
         \A c \in Comments : Done(c) => Done(c)' \/ (InHand(poller, c) /\ poller'.deferred = TRUE),
         poller'.at = "loop" => poller'.current = NoComment,
         poller'.at \in HelpPlaces => IsHelp(poller'.current),
         poller'.at = "await" => IsSubmitted(poller'.current)
  PROVE  CursorInv'
<1>0. (\A c : Due(c)' <=> Due(c)) /\ Repo' = Repo
  BY DEF Due, Repo
<1>1. PollInv
  BY DEF CursorInv
<1>2. NothingDueSkipped'
  <2> SUFFICES ASSUME NEW c \in Comments, Due(c), updatedAt[c] < cursors[RepoOf[c]] PROVE Done(c)'
    BY <1>0 DEF NothingDueSkipped
  <2>1. updatedAt[c] \in Int /\ cursors[RepoOf[c]] \in Int
    BY CommentTimes
  <2>2. ~InHand(poller, c)
    BY <1>1, <2>1 DEF PollInv
  <2>3. Done(c)
    BY DEF CursorInv, NothingDueSkipped
  <2> QED BY <2>2, <2>3
<1>3. PollInv'
  <2>1. \A c \in Comments : InHand(poller', c) => updatedAt'[c] # Never /\ cursors'[RepoOf[c]] <= updatedAt'[c]
    BY <1>1 DEF PollInv
  <2>2. ASSUME NEW c \in Comments, RepoOf[c] = Repo, Due(c), updatedAt[c] < poller.next
        PROVE  Done(c)' \/ InHand(poller', c) \/ poller'.deferred = TRUE
    BY <1>1, <2>2 DEF PollInv
  <2>3. \A c \in Comments : RepoOf[c] = Repo' /\ Due(c)' /\ updatedAt'[c] < poller'.next =>
           Done(c)' \/ InHand(poller', c) \/ poller'.deferred = TRUE
    BY <1>0, <2>2
  <2> QED BY <2>1, <2>3 DEF PollInv, InHand
<1>4. poller'.at \in {"begin", "list", "loop"} => poller'.current = NoComment
  BY DEF PollPlaces, HelpPlaces
<1> QED BY <1>2, <1>3, <1>4 DEF CursorInv

(* The listing begins a poll.  What it does not list the stored cursor has passed, *)
(* and so is answered, or is before the initial since.                          *)
LEMMA ListRepoKeeps ==
  ASSUME InitialSince # Never, TimesInv, CursorInv, ListRepo
  PROVE  CursorInv'
<1> DEFINE listed == ListUpdatedIssueComments(Repo)
           next == NextCursor(poller.started, listed)
<1>0. IsPoller(poller) /\ poller.at = "list" /\ poller.current = NoComment
  BY DEF ListRepo, TimesInv, PollerTimes, CursorInv
<1>1. poller' = [poller EXCEPT !.at = "loop", !.todo = listed, !.started = 0, !.next = next]
  BY Zenon DEF ListRepo
<1>2. UNCHANGED <<updatedAt, cursors, replies, outcome>>
  BY DEF ListRepo, PollerOnly, githubVars, storeVars
<1>l. \A c \in Comments : c \in listed <=> RepoOf[c] = Repo /\ updatedAt[c] # Never /\ updatedAt[c] >= Since(Repo)
  BY DEF ListUpdatedIssueComments
<1> HIDE DEF listed, next
<1>3. /\ poller'.at = "loop" /\ poller'.todo = listed /\ poller'.current = NoComment /\ poller'.repo = poller.repo
  BY <1>0, <1>1 DEF IsPoller, PollerFields
<1>4. (\A c : (Done(c)' <=> Done(c)) /\ (Due(c)' <=> Due(c))) /\ Repo' = Repo
  BY <1>2, <1>3 DEF Done, Due, Repo
<1>5. NothingDueSkipped'
  BY <1>2, <1>4 DEF CursorInv, NothingDueSkipped
<1>6. \A c \in Comments : /\ updatedAt[c] \in Int /\ (updatedAt[c] = Never \/ updatedAt[c] >= 0)
                          /\ cursors[RepoOf[c]] \in Int /\ c # NoComment
  BY CommentTimes
<1>7. InitialSince \in Nat
  <2>1. InitialSince \in Time
    BY ProducerConfiguration
  <2> QED BY <2>1, Bounds DEF Time
<1>8. ASSUME NEW c \in Comments, InHand(poller', c)
      PROVE  updatedAt[c] # Never /\ cursors[RepoOf[c]] <= updatedAt[c]
  <2>1. c \in listed
    BY <1>3, <1>6, <1>8 DEF InHand
  <2>2. RepoOf[c] = Repo /\ updatedAt[c] # Never /\ updatedAt[c] >= Since(Repo)
    BY <1>l, <2>1
  <2>3. CASE cursors[Repo] # Never
    BY <1>6, <2>2, <2>3 DEF Since
  <2>4. CASE cursors[Repo] = Never
    BY <1>6, <1>7, <2>2, <2>4 DEF Since, Never
  <2> QED BY <2>3, <2>4
<1>9. ASSUME NEW c \in Comments, RepoOf[c] = Repo, Due(c)
      PROVE  Done(c) \/ InHand(poller', c)
  <2>1. CASE c \in listed
    BY <1>3, <2>1 DEF InHand
  <2>2. CASE c \notin listed
    <3>1. ~(updatedAt[c] >= Since(Repo))
      BY <1>9, <1>l, <2>2 DEF Due
    <3>2. cursors[Repo] # Never
      BY <1>9, <3>1 DEF Due, Since
    <3>3. updatedAt[c] < cursors[RepoOf[c]]
      BY <1>6, <1>9, <3>1, <3>2 DEF Since
    <3> QED BY <1>9, <3>3 DEF CursorInv, NothingDueSkipped
  <2> QED BY <2>1, <2>2
<1>10. PollInv'
  <2>1. (\A c \in Comments : InHand(poller, c) => updatedAt[c] # Never /\ cursors[RepoOf[c]] <= updatedAt[c])'
    BY <1>2, <1>8 DEF InHand
  <2>2. (\A c \in Comments : RepoOf[c] = Repo /\ Due(c) /\ updatedAt[c] < poller.next =>
          Done(c) \/ InHand(poller, c) \/ poller.deferred = TRUE)'
    BY <1>4, <1>9 DEF InHand
  <2> QED BY <1>3, <2>1, <2>2 DEF PollInv, HelpPlaces
<1> QED BY <1>3, <1>5, <1>10 DEF CursorInv

(* Storing the cursor: nothing is in hand and nothing was deferred.               *)
LEMMA SetRepoCursorKeeps ==
  ASSUME TimesInv, CursorInv, SetRepoCursor
  PROVE  CursorInv'
<1>0. IsPoller(poller) /\ poller.at = "loop" /\ poller.todo = {} /\ ~poller.deferred /\ poller.current = NoComment
  BY DEF SetRepoCursor, TimesInv, PollerTimes, CursorInv
<1>1. cursors' = [cursors EXCEPT ![Repo] = poller.next] /\ UNCHANGED <<updatedAt, replies, outcome>>
  BY DEF SetRepoCursor, githubVars
<1>2. poller'.at = "clean"
  BY <1>0 DEF SetRepoCursor, IsPoller, PollerFields
<1>3. \A c : (Done(c)' <=> Done(c)) /\ (Due(c)' <=> Due(c))
  BY <1>1 DEF Done, Due
<1>4. ASSUME NEW c \in Comments, RepoOf[c] = Repo, Due(c), updatedAt[c] < poller.next PROVE Done(c)
  <2>1. PollInv
    BY <1>0 DEF CursorInv, PollPlaces
  <2>2. ~InHand(poller, c)
    BY <1>0, ProducerConfiguration DEF InHand
  <2> QED BY <1>0, <1>4, <2>1, <2>2 DEF PollInv
<1>5. \A c \in Comments : RepoOf[c] \in Repos /\ cursors'[RepoOf[c]] = IF RepoOf[c] = Repo THEN poller.next ELSE cursors[RepoOf[c]]
  BY <1>1, ProducerConfiguration DEF TimesInv
<1>6. NothingDueSkipped'
  BY <1>1, <1>3, <1>4, <1>5 DEF CursorInv, NothingDueSkipped
<1> QED BY <1>2, <1>6 DEF CursorInv, PollPlaces, HelpPlaces

(* A comment that is posted now is not before any cursor.                        *)
LEMMA PostCommentKeeps ==
  ASSUME TimesInv, CursorInv, NEW c \in Comments, PostComment(c)
  PROVE  CursorInv'
<1>1. /\ updatedAt[c] = Never /\ updatedAt' = [updatedAt EXCEPT ![c] = clock]
      /\ UNCHANGED <<cursors, replies, outcome, poller>>
  BY DEF PostComment, storeVars
<1>2. clock \in Nat /\ poller.next \in 0 .. clock /\ \A d \in Comments : cursors[RepoOf[d]] <= clock /\ cursors[RepoOf[d]] \in Int
  BY Bounds, CommentTimes DEF TimesInv, Time, PollerTimes
<1>3. \A d \in Comments : updatedAt'[d] = IF d = c THEN clock ELSE updatedAt[d]
  BY <1>1 DEF TimesInv
<1>4. (\A d : Done(d)' <=> Done(d)) /\ Repo' = Repo
  BY <1>1 DEF Done, Repo
<1>5. NothingDueSkipped'
  <2> SUFFICES ASSUME NEW d \in Comments, Due(d)', updatedAt'[d] < cursors[RepoOf[d]] PROVE Done(d)
    BY <1>1, <1>4 DEF NothingDueSkipped
  <2>1. d # c
    BY <1>2, <1>3
  <2> QED BY <1>3, <2>1 DEF CursorInv, NothingDueSkipped, Due
<1>6. ASSUME poller.at \in PollPlaces PROVE PollInv'
  <2>1. PollInv
    BY <1>6 DEF CursorInv
  <2>2. ~InHand(poller, c)
    BY <1>1, <2>1 DEF PollInv
  <2>3. ASSUME NEW d \in Comments, InHand(poller, d) PROVE updatedAt'[d] # Never /\ cursors[RepoOf[d]] <= updatedAt'[d]
    BY <1>3, <2>1, <2>2, <2>3 DEF PollInv
  <2>4. ASSUME NEW d \in Comments, RepoOf[d] = Repo, Due(d)', updatedAt'[d] < poller.next
        PROVE  Done(d) \/ InHand(poller, d) \/ poller.deferred = TRUE
    <3>1. d # c
      BY <1>2, <1>3, <2>4
    <3> QED BY <1>3, <2>1, <2>4, <3>1 DEF PollInv, Due
  <2> QED BY <1>1, <1>4, <2>1, <2>3, <2>4 DEF PollInv, InHand
<1> QED BY <1>1, <1>5, <1>6 DEF CursorInv

(* A response that lands, late or not, only adds to what is answered.             *)
LEMMA RepliesGrow ==
  ASSUME HelpInv, NEW c \in Comments, NEW m \in Nat, replies' = [replies EXCEPT ![c] = Append(@, m)], outcome' = outcome
  PROVE  \A d \in Comments : Done(d) => Done(d)'
<1>1. \A d \in Comments : replies'[d] = (IF d = c THEN Append(replies[d], m) ELSE replies[d]) /\ replies[d] \in Seq(Nat)
  BY DEF HelpInv
<1>2. \A ms \in Seq(Nat) : Append(ms, m) # <<>>
  OBVIOUS
<1>3. \A d \in Comments : replies[d] # <<>> => replies'[d] # <<>>
  BY <1>1, <1>2
<1> QED BY <1>3 DEF Done

(* The poller's steps with a comment.                                            *)
LEMMA CommentStepsKeepCursors ==
  ASSUME TimesInv, HelpInv, CursorInv, NEW c \in Comments, SkipComment(c) \/ HelpLookup(c) \/ Submit(c)
  PROVE  CursorInv'
<1>0. /\ IsPoller(poller) /\ poller.at = "loop" /\ poller.current = NoComment /\ c \in poller.todo
      /\ UNCHANGED <<updatedAt, cursors, replies, outcome>>
  BY DEF TimesInv, PollerTimes, CursorInv, SkipComment, HelpLookup, Submit, Oldest, PollerOnly, githubVars, storeVars
<1>t. LET q == Taken(c)
      IN  /\ IsPoller(q) /\ q.at = "loop" /\ q.current = NoComment /\ q.todo = poller.todo \ {c}
          /\ q.repo = poller.repo /\ q.next = poller.next /\ q.deferred = poller.deferred
  BY <1>0, TakenFields
<1>d. \A d : Done(d)' <=> Done(d)
  BY <1>0 DEF Done
<1>n. \A d \in Comments : d # NoComment
  BY ProducerConfiguration
<1>p. poller.at \in PollPlaces
  BY <1>0 DEF PollPlaces
<1>1. CASE SkipComment(c)
  <2>1. poller' = Taken(c) /\ Done(c)
    BY <1>1 DEF SkipComment, Done
  <2>2. poller'.at \in PollPlaces /\ poller'.at \notin HelpPlaces /\ poller'.at # "await"
    BY <1>t, <2>1 DEF PollPlaces, HelpPlaces
  <2> QED BY <1>0, <1>t, <1>d, <1>n, <1>p, <2>1, <2>2, CursorWithin DEF InHand
<1>2. CASE Submit(c)
  <2>1. /\ poller'.at = "await" /\ poller'.current = c /\ poller'.todo = poller.todo \ {c}
        /\ poller'.repo = poller.repo /\ poller'.next = poller.next /\ poller'.deferred = poller.deferred
    <3>1. poller' = [Taken(c) EXCEPT !.at = "await", !.current = c]
      BY <1>2 DEF Submit
    <3> QED BY <1>t, <3>1 DEF IsPoller, PollerFields
  <2>2. poller'.at \in PollPlaces /\ poller'.at \notin HelpPlaces /\ IsSubmitted(c)
    BY <1>2, <2>1 DEF PollPlaces, HelpPlaces, Submit
  <2> QED BY <1>0, <1>d, <1>n, <1>p, <2>1, <2>2, CursorWithin DEF InHand
<1>3. CASE HelpLookup(c)
  <2> DEFINE taken == [Taken(c) EXCEPT !.current = c, !.now = clock]
  <2>1. /\ IsPoller(taken) /\ taken.current = c /\ taken.todo = poller.todo \ {c} /\ taken.repo = poller.repo
        /\ taken.next = poller.next /\ taken.deferred = poller.deferred
    BY <1>t DEF IsPoller, PollerFields
  <2>2. IsHelp(c)
    BY <1>3 DEF HelpLookup
  <2>3. ASSUME poller' = [taken EXCEPT !.at = "attempt"] \/ poller' = [taken EXCEPT !.at = "reconcile"] PROVE CursorInv'
    <3> HIDE DEF taken
    <3>1. /\ poller'.at \in {"attempt", "reconcile"} /\ poller'.current = c /\ poller'.todo = poller.todo \ {c}
          /\ poller'.repo = poller.repo /\ poller'.next = poller.next /\ poller'.deferred = poller.deferred
      BY <2>1, <2>3 DEF IsPoller, PollerFields
    <3>2. poller'.at \in PollPlaces /\ poller'.at # "loop" /\ poller'.at # "await"
      BY <3>1 DEF PollPlaces, HelpPlaces
    <3> QED BY <1>0, <1>d, <1>n, <1>p, <2>2, <3>1, <3>2, CursorWithin DEF InHand
  <2>4. ASSUME help[c].status = "delivered", poller' = Continue(taken) PROVE CursorInv'
    <3> HIDE DEF taken
    <3>1. /\ poller'.at = "loop" /\ poller'.current = NoComment /\ poller'.todo = poller.todo \ {c}
          /\ poller'.repo = poller.repo /\ poller'.next = poller.next /\ poller'.deferred = poller.deferred
      BY <2>1, <2>4, ContinueFields
    <3>2. poller'.at \in PollPlaces /\ poller'.at \notin HelpPlaces /\ poller'.at # "await"
      BY <3>1 DEF PollPlaces, HelpPlaces
    <3>3. replies[c] \in Seq(Nat) /\ Len(replies[c]) >= 1
      BY <2>4 DEF HelpInv, CommentInv
    <3>4. Done(c)
      BY <2>2, <3>3 DEF Done
    <3> QED BY <1>0, <1>d, <1>n, <1>p, <3>1, <3>2, <3>4, CursorWithin DEF InHand
  <2> QED BY <1>3, <2>3, <2>4 DEF HelpLookup
<1> QED BY <1>1, <1>2, <1>3

(* The poller's steps in answering a help request.                               *)
LEMMA HelpStepsKeepCursors ==
  ASSUME TimesInv, HelpInv, CursorInv,
         \/ HelpReconcile \/ TryBeginHelpResponseAttempt \/ CreateIssueComment \/ SetHelpResponseDelivered
         \/ CreateIssueCommentFails
  PROVE  CursorInv'
<1>0. poller.at \in HelpPlaces /\ UNCHANGED <<updatedAt, cursors, outcome>>
  BY DEF HelpReconcile, TryBeginHelpResponseAttempt, CreateIssueComment, SetHelpResponseDelivered,
         CreateIssueCommentFails, HelpPlaces, githubVars, storeVars
<1>c. PICK c \in Comments : c = poller.current
  BY <1>0, Answering
<1>1. /\ c \in Comments /\ IsPoller(poller) /\ replies[c] \in Seq(Nat) /\ help[c] \in HelpRecords
      /\ CommentInv(c, help[c], replies[c], outstanding, clock)
      /\ AnsweringInv(poller, help[c], replies[c], outstanding, clock)
      /\ help[c].status = "pending"
  BY <1>0, <1>c, Answering
<1>2. poller.at \in PollPlaces /\ IsHelp(c)
  BY <1>0, <1>c DEF PollPlaces, CursorInv, PollInv
<1>m. help[c].marker >= 1 /\ help[c].marker \in Nat /\ Len(replies[c]) \in Nat
  BY <1>1 DEF CommentInv, HelpRecords
<1>n. \A d \in Comments : d # NoComment
  BY ProducerConfiguration
(* Going on with the same comment.                                              *)
<1>a. ASSUME NEW at \in {"attempt", "post", "record"}, poller' = [poller EXCEPT !.at = at],
             \A d \in Comments : Done(d) => Done(d)'
      PROVE  CursorInv'
  <2>1. /\ poller'.at = at /\ poller'.current = c /\ poller'.todo = poller.todo /\ poller'.repo = poller.repo
        /\ poller'.next = poller.next /\ poller'.deferred = poller.deferred
    BY <1>1, <1>a, <1>c DEF IsPoller, PollerFields
  <2>2. poller'.at \in PollPlaces /\ poller'.at # "loop" /\ poller'.at # "await"
    BY <2>1 DEF PollPlaces, HelpPlaces
  <2> QED BY <1>0, <1>2, <1>a, <1>c, <2>1, <2>2, CursorWithin DEF InHand
(* Leaving it, answered or deferred.                                            *)
<1>b. ASSUME \/ poller' = Continue(poller) /\ Done(c)'
             \/ poller' = Defer(poller),
             \A d \in Comments : Done(d) => Done(d)'
      PROVE  CursorInv'
  <2>1. /\ poller'.at = "loop" /\ poller'.current = NoComment /\ poller'.todo = poller.todo /\ poller'.repo = poller.repo
        /\ poller'.next = poller.next /\ (poller.deferred = TRUE => poller'.deferred = TRUE)
        /\ Done(c)' \/ poller'.deferred = TRUE
    <3>1. CASE poller' = Continue(poller) /\ Done(c)'
      BY <1>1, <3>1, ContinueFields
    <3>2. CASE poller' = Defer(poller)
      BY <1>1, <3>2, DeferFields
    <3> QED BY <1>b, <3>1, <3>2
  <2>2. poller'.at \in PollPlaces /\ poller'.at \notin HelpPlaces /\ poller'.at # "await"
    BY <2>1 DEF PollPlaces, HelpPlaces
  <2> QED BY <1>0, <1>2, <1>b, <1>c, <1>n, <2>1, <2>2, CursorWithin DEF InHand
<1>d. ASSUME replies' = replies PROVE \A d \in Comments : Done(d) => Done(d)'
  BY <1>0, <1>d DEF Done
<1>3. CASE HelpReconcile
  <2>0. replies' = replies
    BY <1>3 DEF HelpReconcile, githubVars
  <2>1. CASE helpResponseMarkerExists(c)
    <3>1. replies[c] # <<>>
      BY <1>1, <2>1 DEF helpResponseMarkerExists
    <3>2. Done(c)'
      BY <1>2, <2>0, <3>1 DEF Done
    <3>3. poller' = Continue(poller)
      BY <1>3, <1>c, <2>1 DEF HelpReconcile
    <3> QED BY <1>b, <1>d, <2>0, <3>2, <3>3
  <2>2. CASE ~helpResponseMarkerExists(c)
    <3>1. poller' = [poller EXCEPT !.at = "attempt"]
      BY <1>3, <1>c, <2>2 DEF HelpReconcile
    <3> QED BY <1>a, <1>d, <2>0, <3>1
  <2> QED BY <2>1, <2>2
<1>4. CASE TryBeginHelpResponseAttempt
  <2>0. replies' = replies /\ (poller' = [poller EXCEPT !.at = "post"] \/ poller' = Defer(poller))
    BY <1>4 DEF TryBeginHelpResponseAttempt, githubVars
  <2> QED BY <1>a, <1>b, <1>d, <2>0
<1>5. CASE CreateIssueComment
  <2>1. /\ replies' = [replies EXCEPT ![c] = Append(@, help[c].marker)] /\ poller' = [poller EXCEPT !.at = "record"]
    BY <1>5, <1>c DEF CreateIssueComment
  <2>2. \A d \in Comments : Done(d) => Done(d)'
    BY <1>0, <1>1, <1>m, <2>1, RepliesGrow
  <2> QED BY <1>a, <2>1, <2>2
<1>6. CASE SetHelpResponseDelivered
  <2>1. replies' = replies /\ poller' = Continue(poller) /\ poller.at = "record"
    BY <1>6 DEF SetHelpResponseDelivered, githubVars
  <2>2. Len(replies[c]) >= 1
    BY <1>1, <1>m, <2>1 DEF AnsweringInv
  <2>3. Done(c)'
    BY <1>1, <1>2, <2>1, <2>2 DEF Done
  <2> QED BY <1>b, <1>d, <2>1, <2>3
<1>7. CASE CreateIssueCommentFails
  BY <1>b, <1>d, <1>7 DEF CreateIssueCommentFails
<1> QED BY <1>3, <1>4, <1>5, <1>6, <1>7

(* The answer of admission.                                                      *)
LEMMA ReceiveKeepsCursors ==
  ASSUME TimesInv, TalkInv, CursorInv, Receive
  PROVE  CursorInv'
<1>c. PICK c \in Comments : c = poller.current
  BY DEF Receive, TalkInv, ConversationInv
<1>0. /\ poller.at = "await" /\ IsPoller(poller) /\ c \in Comments /\ reply \in Replies
      /\ UNCHANGED <<updatedAt, cursors, replies>> /\ poller' = Settle(poller, reply)
  BY DEF Receive, TimesInv, PollerTimes, TalkInv, ConversationInv, githubVars, storeVars
<1>1. poller.at \in PollPlaces /\ IsSubmitted(c)
  BY <1>0, <1>c DEF PollPlaces, CursorInv, PollInv
<1>2. ~IsHelp(c)
  BY <1>1 DEF IsHelp, IsSubmitted, validCommandPlacement
<1>n. \A d \in Comments : d # NoComment
  BY ProducerConfiguration
<1>3. \A d \in Comments : outcome'[d] = IF d = c /\ reply # "error" THEN reply ELSE outcome[d]
  <2>1. outcome' = [outcome EXCEPT ![c] = IF reply = "error" THEN @ ELSE reply] /\ outcome \in [Comments -> Replies \cup {"none"}]
    BY <1>c DEF Receive, TalkInv, OutcomeInv
  <2> QED BY <1>0, <2>1
<1>4. CASE reply = "error"
  <2>1. \A d \in Comments : Done(d) => Done(d)'
    BY <1>0, <1>3, <1>4 DEF Done
  <2>2. poller' = Begin(1)
    BY <1>0, <1>4 DEF Settle, ReturnError
  <2>3. poller'.at \notin PollPlaces /\ poller'.current = NoComment
    BY <2>2, BeginFields DEF PollPlaces, HelpPlaces
  <2> QED BY <1>0, <2>1, <2>3, CursorElsewhere
<1>5. CASE reply = "deferred"
  <2>1. \A d \in Comments : d # c => (Done(d) => Done(d)')
    BY <1>0, <1>3 DEF Done
  <2>2. poller' = Defer(poller)
    BY <1>0, <1>5 DEF Settle
  <2>3. /\ poller'.at = "loop" /\ poller'.current = NoComment /\ poller'.todo = poller.todo /\ poller'.repo = poller.repo
        /\ poller'.next = poller.next /\ poller'.deferred = TRUE
    BY <1>0, <2>2, DeferFields
  <2>4. poller'.at \in PollPlaces /\ poller'.at \notin HelpPlaces /\ poller'.at # "await"
    BY <2>3 DEF PollPlaces, HelpPlaces
  <2> QED BY <1>0, <1>1, <1>c, <1>n, <2>1, <2>3, <2>4, CursorWithin DEF InHand
<1>6. CASE reply \in {"scheduled", "duplicate", "rejected"}
  <2>1. \A d \in Comments : Done(d) => Done(d)'
    BY <1>0, <1>3, <1>6 DEF Done
  <2>2. Done(c)'
    BY <1>0, <1>2, <1>3, <1>6 DEF Done
  <2>3. poller' = Continue(poller)
    BY <1>0, <1>6 DEF Settle
  <2>4. /\ poller'.at = "loop" /\ poller'.current = NoComment /\ poller'.todo = poller.todo /\ poller'.repo = poller.repo
        /\ poller'.next = poller.next /\ poller'.deferred = poller.deferred
    BY <1>0, <2>3, ContinueFields
  <2>5. poller'.at \in PollPlaces /\ poller'.at \notin HelpPlaces /\ poller'.at # "await"
    BY <2>4 DEF PollPlaces, HelpPlaces
  <2> QED BY <1>0, <1>1, <1>c, <1>n, <2>1, <2>2, <2>4, <2>5, CursorWithin DEF InHand
<1> QED BY <1>0, <1>4, <1>5, <1>6 DEF Replies

LEMMA CursorPreserved ==
  ASSUME InitialSince # Never, TimesInv, TalkInv, HelpInv, CursorInv, [Next]_vars
  PROVE  CursorInv'
<1>0. IsPoller(poller)
  BY DEF TimesInv, PollerTimes
<1>s. ASSUME UNCHANGED <<replies, outcome>> PROVE \A c \in Comments : Done(c) => Done(c)'
  BY <1>s DEF Done
<1>1. CASE StartRepo
  <2>1. /\ poller'.at = "list" /\ poller'.current = NoComment
        /\ UNCHANGED <<updatedAt, cursors, replies, outcome>>
    BY <1>0, <1>1 DEF StartRepo, IsPoller, PollerFields, githubVars, storeVars, CursorInv
  <2> QED BY <1>s, <2>1, CursorElsewhere DEF PollPlaces, HelpPlaces
<1>2. CASE RepoDeferred \/ DeleteDeliveredHelpResponses \/ ConnectionLost \/ CallFails \/ Crash
  <2>1. (\E i : poller' = Begin(i)) /\ UNCHANGED <<updatedAt, cursors, replies, outcome>>
    BY <1>2 DEF RepoDeferred, DeleteDeliveredHelpResponses, ConnectionLost, CallFails, Crash, Return, ReturnError,
       PollerOnly, githubVars, storeVars
  <2>2. poller'.at = "begin" /\ poller'.current = NoComment
    BY <2>1 DEF Begin
  <2> QED BY <1>s, <2>1, <2>2, CursorElsewhere DEF PollPlaces, HelpPlaces
<1>3. ASSUME NEW o \in outstanding, Land(o) \/ Expire(o) PROVE CursorInv'
  <2>0. UNCHANGED <<updatedAt, cursors, outcome, poller>>
    BY <1>3 DEF Land, Expire, storeVars
  <2>1. \A c \in Comments : Done(c) => Done(c)'
    <3>1. o.comment \in Comments /\ o.marker \in Nat
      BY DEF HelpInv, Posts
    <3>2. CASE Land(o)
      BY <2>0, <3>1, <3>2, RepliesGrow DEF Land
    <3>3. CASE Expire(o)
      BY <1>s, <2>0, <3>3 DEF Expire
    <3> QED BY <1>3, <3>2, <3>3
  <2> QED BY <2>0, <2>1, CursorElsewhere
<1>4. ASSUME UNCHANGED <<updatedAt, cursors, replies, outcome, poller>> PROVE CursorInv'
  BY <1>s, <1>4, CursorElsewhere
<1>5. CASE Tick
  BY <1>4, <1>5 DEF Tick, githubVars, storeVars
<1>6. ASSUME ProducerUnchanged PROVE CursorInv'
  BY <1>4, <1>6 DEF ProducerUnchanged, githubVars, storeVars
<1>7. CASE UNCHANGED vars
  BY <1>4, <1>7 DEF vars, githubVars, storeVars
<1>8. CASE Next
  <2>1. CASE PollerStep
    BY <1>1, <1>2, <2>1, ListRepoKeeps, SetRepoCursorKeeps, CommentStepsKeepCursors, HelpStepsKeepCursors,
       ReceiveKeepsCursors DEF PollerStep
  <2>2. CASE CreateIssueCommentFails
    BY <2>2, HelpStepsKeepCursors
  <2> QED BY <1>2, <1>3, <1>5, <1>6, <1>8, <2>1, <2>2, PostCommentKeeps DEF Next
<1> QED BY <1>7, <1>8

LEMMA CursorInitially == Init => CursorInv
<1> SUFFICES ASSUME Init PROVE CursorInv
  OBVIOUS
<1>1. poller.at = "begin" /\ poller.current = NoComment
  BY BeginFields DEF Init
<1>2. \A c \in Comments : cursors[RepoOf[c]] = Never /\ updatedAt[c] \in {0, Never}
  BY ProducerConfiguration DEF Init
<1>3. NothingDueSkipped
  BY <1>2 DEF NothingDueSkipped, Due, Never
<1> QED BY <1>1, <1>3 DEF CursorInv, PollPlaces, HelpPlaces

LEMMA CursorInvariance == InitialSince # Never => (SafeSpec => []CursorInv)
<1> SUFFICES ASSUME InitialSince # Never PROVE SafeSpec => []CursorInv
  OBVIOUS
<1>1. TimesInv /\ TalkInv /\ HelpInv /\ CursorInv /\ [Next]_vars => CursorInv'
  BY CursorPreserved
<1> QED BY <1>1, CursorInitially, TimesInvariance, TalkInvariance, HelpInvariance, PTL DEF SafeSpec

(* With an initial since, a repository's cursor never passes a command posted     *)
(* from then on that is not answered, whatever is deferred, fails or is cut       *)
(* short by a restart (pollRepo, SetRepoCursor).                                *)
THEOREM NothingDueIsSkipped == InitialSince # Never => (Spec => []NothingDueSkipped)
<1>1. CursorInv => NothingDueSkipped
  BY DEF CursorInv
<1> QED BY <1>1, CursorInvariance, PTL DEF Spec, SafeSpec

(* In particular, with an initial since before every comment nothing at all is    *)
(* skipped.  (Without one, a comment posted while the producer is down before    *)
(* its first cursor is passed over: Since falls back to startedAt.)              *)
THEOREM CursorSkipsNothing == InitialSince = 0 => (Spec => []NothingSkipped)
<1> SUFFICES ASSUME InitialSince = 0 PROVE Spec => []NothingSkipped
  OBVIOUS
<1>1. TimesInv /\ NothingDueSkipped => NothingSkipped
  BY CommentTimes DEF NothingDueSkipped, Due, NothingSkipped
<1>2. InitialSince # Never
  BY DEF Never
<1> QED BY <1>1, <1>2, NothingDueIsSkipped, TimesInvariance, PTL DEF Spec, SafeSpec
=============================================================================
