---------------------- MODULE AgentRunReconcilerProofs ----------------------
(***************************************************************************)
(* What the AgentRun reconciler guarantees for every set of runs, every spec *)
(* and any amount of trouble, whether the operator's cache is current or     *)
(* not: access follows the run, and the reconciler implements RunLifecycle.  *)
(* Where the cache is current: a Pod keeps what it was made from and what it *)
(* depends on.                                                               *)
(* A step concerns one run, except for a restart of the operator, so the     *)
(* proof shows of each action that it has a lawful effect on its run.        *)
(***************************************************************************)
EXTENDS AgentRunReconciler, TLAPS

RunFields == {"alive", "phase", "started", "finalizer", "deleting", "spec", "policyReady", "caPublished"}
PassFields == {"pc", "base", "run", "pod", "copy", "job", "failed"}
PodFields == {"state", "event", "deleting", "own", "generation", "config", "spec", "docker"}

IsRun(a) == DOMAIN a = RunFields
Names(r) == {<<r, "agent">>, <<r, "egress">>}
Needed(r, s) == {<<r, "agent">>} \cup (IF s.mediated THEN {<<r, "egress">>} ELSE {})
StageOf(a) == IF ~a.alive THEN "gone"
              ELSE IF IsTerminalAgentRunPhase(a.phase) \/ a.deleting THEN "finished" ELSE "active"

(* A stored run: its finalizer keeps it, without one the broker does not know it,   *)
(* and while it is active with a Pod the broker admits it.                          *)
RunOK(r, s, a, p, agents) ==
  /\ IsRun(a) /\ DOMAIN p = PodFields
  /\ a.finalizer => a.alive
  /\ ~a.finalizer => agents \cap Names(r) = {}
  /\ Exists(p) /\ StageOf(a) = "active" => Needed(r, s) \subseteq agents

(* The two versions a pass holds, against the stored one: the base is an earlier     *)
(* version, and nothing that a finished run is finished by has been taken back since. *)
VersionsOK(base, now, a) ==
  /\ IsRun(base) /\ IsRun(now) /\ base.alive
  /\ now.alive = base.alive /\ now.deleting = base.deleting /\ now.finalizer = base.finalizer
  /\ IsTerminalAgentRunPhase(now.phase) <=> IsTerminalAgentRunPhase(base.phase)
  /\ base.finalizer => a.finalizer
  /\ IsTerminalAgentRunPhase(base.phase) => IsTerminalAgentRunPhase(a.phase)
  /\ base.deleting => a.deleting

(* Where a pass is says what it has established.  Only these places come before the   *)
(* finalizer or after it is gone.                                                  *)
Unprotected == {"idle", "finalizer", "fail", "dropPods", "finalize", "legacyFinalize"}
Admitting == {"prepare", "gates", "create"}

PlaceOK(r, s, w, agents) ==
  /\ w.pc \notin Unprotected => w.base.finalizer
  /\ w.job = "drift" => w.pc \in {"fail", "dropPods"}
  /\ w.job = "cleanup" \/ w.pc = "cleanup" => IsTerminalAgentRunPhase(w.base.phase)
  /\ w.job \in {"finalize", "legacy"} \/ w.pc \in {"finalize", "legacyFinalize"} => w.base.deleting
  /\ w.pc \in Admitting => Needed(r, s) \subseteq agents
  /\ w.pc = "writePolicy" => w.copy \cap Names(r) = agents \cap Names(r)
  /\ w.pc = "removeFinalizer" => agents \cap Names(r) = {}

PassOK(r, s, w, a, agents) ==
  /\ DOMAIN w = PassFields /\ w.job \in {"", "drift", "cleanup", "finalize", "legacy"}
  /\ VersionsOK(w.base, w.run, a) /\ PlaceOK(r, s, w, agents)

AccessInv ==
  /\ DOMAIN run = Runs /\ DOMAIN work = Runs /\ DOMAIN pod = Runs
  /\ \A r \in Runs : /\ RunOK(r, spec[r], run[r], pod[r], policy)
                     /\ PassOK(r, spec[r], work[r], run[r], policy)
-----------------------------------------------------------------------------
(* How a step may move its run: the moves of RunLifecycle, or none.                  *)
Move(old, new, admittedBefore, admittedAfter, before, after) ==
  LET sameStage == StageOf(new) = StageOf(old)
      sameAccess == admittedAfter <=> admittedBefore
      samePod == after <=> before
  IN  \/ sameStage /\ sameAccess /\ samePod
      \/ sameStage /\ StageOf(old) # "gone" /\ admittedAfter /\ samePod
      \/ sameStage /\ sameAccess /\ admittedBefore /\ after
      \/ sameStage /\ sameAccess /\ ~after
      \/ StageOf(old) = "active" /\ StageOf(new) = "finished" /\ sameAccess /\ samePod
      \/ sameStage /\ StageOf(old) = "finished" /\ ~admittedAfter /\ samePod
      \/ StageOf(old) # "gone" /\ ~admittedBefore /\ StageOf(new) = "gone" /\ sameAccess /\ samePod

(* A lawful step of one run leaves the others alone, in the shared policy as well.     *)
Lawful(r) ==
  /\ spec' = spec
  /\ DOMAIN run' = Runs /\ DOMAIN work' = Runs /\ DOMAIN pod' = Runs
  /\ \A x \in Runs : x # r => /\ run'[x] = run[x] /\ work'[x] = work[x] /\ pod'[x] = pod[x]
                              /\ policy' \cap Names(x) = policy \cap Names(x)
  /\ RunOK(r, spec[r], run'[r], pod'[r], policy')
  /\ PassOK(r, spec[r], work'[r], run'[r], policy')
  /\ Move(run[r], run'[r], AgentOf(r) \in policy, AgentOf(r) \in policy', Exists(pod[r]), Exists(pod'[r]))

(* The policy matters to a run only in the names of its own identities.                *)
LEMMA OwnNames ==
  ASSUME NEW x, NEW s, NEW P, NEW Q, P \cap Names(x) = Q \cap Names(x)
  PROVE  /\ Needed(x, s) \subseteq P => Needed(x, s) \subseteq Q
         /\ AgentOf(x) \in P <=> AgentOf(x) \in Q
BY DEF Names, Needed, AgentOf

LEMMA OthersKept ==
  ASSUME NEW x, NEW s, NEW w, NEW a, NEW p, NEW P, NEW Q, P \cap Names(x) = Q \cap Names(x),
         RunOK(x, s, a, p, P), PassOK(x, s, w, a, P)
  PROVE  RunOK(x, s, a, p, Q) /\ PassOK(x, s, w, a, Q)
<1>1. Needed(x, s) \subseteq P => Needed(x, s) \subseteq Q
  BY OwnNames
<1>2. RunOK(x, s, a, p, Q)
  BY <1>1 DEF RunOK
<1>3. PlaceOK(x, s, w, Q)
  BY <1>1 DEF PassOK, PlaceOK
<1> QED BY <1>2, <1>3 DEF PassOK

LEMMA LawfulKeepsInv ==
  ASSUME AccessInv, NEW r \in Runs, Lawful(r)
  PROVE  AccessInv'
<1>1. ASSUME NEW x \in Runs
      PROVE  RunOK(x, spec[x], run'[x], pod'[x], policy') /\ PassOK(x, spec[x], work'[x], run'[x], policy')
  <2>1. CASE x = r
    BY <2>1 DEF Lawful
  <2>2. CASE x # r
    <3>1. /\ run'[x] = run[x] /\ work'[x] = work[x] /\ pod'[x] = pod[x]
          /\ policy \cap Names(x) = policy' \cap Names(x)
      BY <2>2 DEF Lawful
    <3>2. RunOK(x, spec[x], run[x], pod[x], policy) /\ PassOK(x, spec[x], work[x], run[x], policy)
      BY DEF AccessInv
    <3>3. RunOK(x, spec[x], run[x], pod[x], policy') /\ PassOK(x, spec[x], work[x], run[x], policy')
      BY <3>1, <3>2, OthersKept
    <3> QED BY <3>1, <3>3
  <2> QED BY <2>1, <2>2
<1>2. spec' = spec /\ DOMAIN run' = Runs /\ DOMAIN work' = Runs /\ DOMAIN pod' = Runs
  BY DEF Lawful
<1> QED BY <1>1, <1>2 DEF AccessInv

(* What RunLifecycle sees of a state.                                                 *)
StageMap == [r \in Runs |-> Stage(r)]
AdmittedMap == {r \in Runs : AgentOf(r) \in policy}
WorkingMap == {r \in Runs : Exists(pod[r])}

LEMMA LawfulRefines ==
  ASSUME AccessInv, NEW r \in Runs, Lawful(r)
  PROVE  [Lifecycle!LifecycleNext]_(Lifecycle!lifecycleVars)
<1>1. \A x \in Runs : StageMap[x] = StageOf(run[x]) /\ StageMap'[x] = StageOf(run'[x])
  BY DEF StageMap, Stage, StageOf
<1>2. \A x \in Runs : /\ x \in AdmittedMap <=> AgentOf(x) \in policy
                      /\ x \in AdmittedMap' <=> AgentOf(x) \in policy'
                      /\ x \in WorkingMap <=> Exists(pod[x])
                      /\ x \in WorkingMap' <=> Exists(pod'[x])
  BY DEF AdmittedMap, WorkingMap, AgentOf, Exists
<1>3. /\ AdmittedMap \subseteq Runs /\ AdmittedMap' \subseteq Runs
      /\ WorkingMap \subseteq Runs /\ WorkingMap' \subseteq Runs
  BY DEF AdmittedMap, WorkingMap
<1>4. DOMAIN StageMap = Runs /\ DOMAIN StageMap' = Runs
      /\ StageMap = [x \in Runs |-> StageMap[x]] /\ StageMap' = [x \in Runs |-> StageMap'[x]]
  BY DEF StageMap
<1>5. \A x \in Runs : x # r => /\ StageMap'[x] = StageMap[x]
                               /\ x \in AdmittedMap' <=> x \in AdmittedMap
                               /\ x \in WorkingMap' <=> x \in WorkingMap
  BY <1>1, <1>2, OwnNames DEF Lawful
<1> DEFINE sameStage == StageMap' = StageMap
           sameAccess == AdmittedMap' = AdmittedMap
           samePods == WorkingMap' = WorkingMap
<1> HIDE DEF StageMap, AdmittedMap, WorkingMap
<1>6. /\ StageMap'[r] = StageMap[r] => sameStage
      /\ (r \in AdmittedMap' <=> r \in AdmittedMap) => sameAccess
      /\ (r \in WorkingMap' <=> r \in WorkingMap) => samePods
      /\ r \in AdmittedMap' => AdmittedMap' = AdmittedMap \cup {r}
      /\ r \notin AdmittedMap' => AdmittedMap' = AdmittedMap \ {r}
      /\ r \in WorkingMap' => WorkingMap' = WorkingMap \cup {r}
      /\ r \notin WorkingMap' => WorkingMap' = WorkingMap \ {r}
      /\ \A v : StageMap'[r] = v => StageMap' = [StageMap EXCEPT ![r] = v]
  BY <1>3, <1>4, <1>5
<1>7. \/ sameStage /\ sameAccess /\ samePods
      \/ sameStage /\ StageMap[r] # "gone" /\ AdmittedMap' = AdmittedMap \cup {r} /\ samePods
      \/ sameStage /\ sameAccess /\ r \in AdmittedMap /\ WorkingMap' = WorkingMap \cup {r}
      \/ sameStage /\ sameAccess /\ WorkingMap' = WorkingMap \ {r}
      \/ StageMap[r] = "active" /\ StageMap' = [StageMap EXCEPT ![r] = "finished"] /\ sameAccess /\ samePods
      \/ sameStage /\ StageMap[r] = "finished" /\ AdmittedMap' = AdmittedMap \ {r} /\ samePods
      \/ /\ StageMap[r] # "gone" /\ r \notin AdmittedMap /\ StageMap' = [StageMap EXCEPT ![r] = "gone"]
         /\ sameAccess /\ samePods
  BY <1>1, <1>2, <1>6 DEF Lawful, Move
<1> QED BY <1>7
        DEF Lifecycle!LifecycleNext, Lifecycle!lifecycleVars, Lifecycle!Admit, Lifecycle!Start,
            Lifecycle!Stop, Lifecycle!Finish, Lifecycle!Withdraw, Lifecycle!Forget,
            StageMap, AdmittedMap, WorkingMap
-----------------------------------------------------------------------------
(* Steps that store no run and write no policy.                                       *)
LEMMA RestingOK ==
  ASSUME NEW r, NEW s, NEW a, NEW agents
  PROVE  PassOK(r, s, Resting, a, agents)
<1>1. /\ DOMAIN Resting = PassFields /\ Resting.pc = "idle" /\ Resting.job = ""
      /\ Resting.base = NewRun /\ Resting.run = NewRun
  BY DEF Resting, Pass, PassFields
<1>2. /\ DOMAIN NewRun = RunFields /\ NewRun.alive /\ ~NewRun.finalizer /\ ~NewRun.deleting /\ NewRun.phase = ""
  BY DEF NewRun, RunFields
<1>4. VersionsOK(NewRun, NewRun, a)
  BY <1>2 DEF VersionsOK, IsRun, IsTerminalAgentRunPhase, Terminal
<1>5. PlaceOK(r, s, Resting, agents)
  BY <1>1, <1>2 DEF PlaceOK, Unprotected, Admitting
<1> QED BY <1>1, <1>4, <1>5 DEF PassOK

LEMMA QuietLawful ==
  ASSUME AccessInv, NEW r \in Runs, spec' = spec, run' = run, policy' = policy,
         DOMAIN work' = Runs, \A x \in Runs : x # r => work'[x] = work[x],
         PassOK(r, spec[r], work'[r], run[r], policy),
         DOMAIN pod' = Runs, \A x \in Runs : x # r => pod'[x] = pod[x],
         DOMAIN pod'[r] = PodFields, Exists(pod'[r]) => Exists(pod[r])
  PROVE  Lawful(r)
<1>1. RunOK(r, spec[r], run[r], pod[r], policy) /\ DOMAIN run = Runs
  BY DEF AccessInv
<1>2. RunOK(r, spec[r], run[r], pod'[r], policy)
  BY <1>1 DEF RunOK
<1>3. Move(run[r], run[r], AgentOf(r) \in policy, AgentOf(r) \in policy, Exists(pod[r]), Exists(pod'[r]))
  BY DEF Move
<1> QED BY <1>1, <1>2, <1>3 DEF Lawful

LEMMA Unmoved ==
  ASSUME AccessInv, NEW r \in Runs, UNCHANGED <<spec, run, policy, pod, work>>
  PROVE  Lawful(r)
<1>1. /\ DOMAIN work = Runs /\ DOMAIN pod = Runs /\ PassOK(r, spec[r], work[r], run[r], policy)
      /\ DOMAIN pod[r] = PodFields
  BY DEF AccessInv, RunOK
<1> QED BY <1>1, QuietLawful

(* The pass goes on as w, or ends, and its run's Pod may be asked to go.                  *)
LEMMA PassGoes ==
  ASSUME AccessInv, NEW r \in Runs, NEW w, PassOK(r, spec[r], w, run[r], policy),
         work' = [work EXCEPT ![r] = w], UNCHANGED <<spec, run, policy, pod>>
  PROVE  Lawful(r)
<1>1. /\ DOMAIN work = Runs /\ DOMAIN pod = Runs /\ DOMAIN pod[r] = PodFields
  BY DEF AccessInv, RunOK
<1> QED BY <1>1, QuietLawful

LEMMA ReturnLawful ==
  ASSUME AccessInv, NEW r \in Runs, Return(r), UNCHANGED <<spec, run, policy, pod>>
  PROVE  Lawful(r)
BY RestingOK, PassGoes DEF Return

LEMMA DeletedPod ==
  ASSUME NEW p, DOMAIN p = PodFields
  PROVE  DOMAIN Deleted(p) = PodFields /\ (Exists(Deleted(p)) <=> Exists(p))
BY DEF Deleted, Exists, PodFields

LEMMA PassGoesPodToo ==
  ASSUME AccessInv, NEW r \in Runs, NEW w, PassOK(r, spec[r], w, run[r], policy),
         work' = [work EXCEPT ![r] = w], UNCHANGED <<spec, run, policy>>,
         pod' = pod \/ pod' = [pod EXCEPT ![r] = Deleted(pod[r])]
  PROVE  Lawful(r)
<1>1. /\ DOMAIN work = Runs /\ DOMAIN pod = Runs /\ DOMAIN pod[r] = PodFields
  BY DEF AccessInv, RunOK
<1>2. /\ DOMAIN pod' = Runs /\ (\A x \in Runs : x # r => pod'[x] = pod[x])
      /\ pod'[r] = pod[r] \/ pod'[r] = Deleted(pod[r])
  BY <1>1
<1>3. DOMAIN pod'[r] = PodFields /\ (Exists(pod'[r]) => Exists(pod[r]))
  BY <1>1, <1>2, DeletedPod
<1>4. DOMAIN work' = Runs /\ work'[r] = w /\ \A x \in Runs : x # r => work'[x] = work[x]
  BY <1>1
<1> QED BY <1>2, <1>3, <1>4, QuietLawful

(* Going to another place: what each place asks for.                                   *)
LEMMA PcMoves ==
  ASSUME NEW r, NEW s, NEW w, NEW a, NEW agents, PassOK(r, s, w, a, agents), NEW pc,
         w.job = "drift" => pc \in {"fail", "dropPods"},
         pc \notin Unprotected => w.base.finalizer,
         pc = "cleanup" => IsTerminalAgentRunPhase(w.base.phase),
         pc \notin {"finalize", "legacyFinalize", "writePolicy", "removeFinalizer"},
         pc \in Admitting => Needed(r, s) \subseteq agents
  PROVE  PassOK(r, s, [w EXCEPT !.pc = pc], a, agents)
<1> DEFINE new == [w EXCEPT !.pc = pc]
<1>1. /\ DOMAIN new = PassFields /\ new.pc = pc /\ new.job = w.job
      /\ new.base = w.base /\ new.run = w.run /\ new.copy = w.copy
  BY DEF PassOK, PassFields
<1> HIDE DEF new
<1>2. PlaceOK(r, s, new, agents)
  BY <1>1 DEF PassOK, PlaceOK
<1>3. PassOK(r, s, new, a, agents)
  BY <1>1, <1>2 DEF PassOK
<1> QED BY <1>3 DEF new

Plain == {"deadline", "workspace", "docker", "migration", "secrets", "egressdConfig", "ca", "fence",
          "egressd", "service", "readPolicy", "status", "lastDeadline", "retention", "cleanupRest",
          "fail"}

LEMMA GotoLawful ==
  ASSUME AccessInv, NEW r \in Runs, work[r].pc \notin Unprotected, NEW pc \in Plain, Goto(r, pc),
         UNCHANGED <<spec, run, policy>>,
         pod' = pod \/ pod' = [pod EXCEPT ![r] = Deleted(pod[r])]
  PROVE  Lawful(r)
<1>1. PassOK(r, spec[r], work[r], run[r], policy)
  BY DEF AccessInv
<1>2. work[r].base.finalizer /\ work[r].job # "drift"
  BY <1>1 DEF PassOK, PlaceOK, Unprotected
<1>3. PassOK(r, spec[r], [work[r] EXCEPT !.pc = pc], run[r], policy)
  BY <1>1, <1>2, PcMoves DEF Plain, Admitting
<1>4. work' = [work EXCEPT ![r] = [work[r] EXCEPT !.pc = pc]]
  BY DEF Goto
<1> QED BY <1>3, <1>4, PassGoesPodToo

(* The passes' steps that only make objects and go on, or end.                          *)
LEMMA ObjectSteps ==
  ASSUME AccessInv, NEW r \in Runs,
         \/ reconcileWorkspacePVC(r) \/ reconcileDockerPVC(r) \/ reconcileLegacyDockerStorageMigration(r)
         \/ reconcileTokenSecrets(r) \/ reconcileEgressdConfigMap(r) \/ createEgressCASecret(r)
         \/ keepEgressCASecret(r) \/ rotateEgressCASecret(r) \/ reconcileNetworkPolicies(r)
         \/ reconcileEgressdPod(r) \/ reconcileEgressdService(r) \/ deleteTerminalResources(r)
         \/ Refused(r)
  PROVE  Lawful(r)
<1>1. UNCHANGED <<spec, run, policy, pod>>
  BY DEF reconcileWorkspacePVC, reconcileDockerPVC, reconcileLegacyDockerStorageMigration,
         reconcileTokenSecrets, reconcileEgressdConfigMap, createEgressCASecret, keepEgressCASecret,
         rotateEgressCASecret, reconcileNetworkPolicies, reconcileEgressdPod, reconcileEgressdService,
         deleteTerminalResources, Refused, objects, broker, outside
<1>2. \/ Return(r) \/ work' = work
      \/ work[r].pc \notin Unprotected /\ \E pc \in Plain : Goto(r, pc)
  <2>1. CASE reconcileWorkspacePVC(r) \/ reconcileDockerPVC(r) \/ reconcileLegacyDockerStorageMigration(r)
    BY <2>1 DEF reconcileWorkspacePVC, reconcileDockerPVC, reconcileLegacyDockerStorageMigration,
                At, Unprotected, Plain
  <2>2. CASE reconcileTokenSecrets(r) \/ reconcileEgressdConfigMap(r) \/ createEgressCASecret(r)
    BY <2>2 DEF reconcileTokenSecrets, reconcileEgressdConfigMap, createEgressCASecret,
                At, Unprotected, Plain
  <2>3. CASE keepEgressCASecret(r) \/ rotateEgressCASecret(r) \/ reconcileNetworkPolicies(r)
    BY <2>3 DEF keepEgressCASecret, rotateEgressCASecret, reconcileNetworkPolicies, At, Unprotected, Plain
  <2>4. CASE reconcileEgressdPod(r) \/ reconcileEgressdService(r) \/ deleteTerminalResources(r) \/ Refused(r)
    BY <2>4 DEF reconcileEgressdPod, reconcileEgressdService, deleteTerminalResources, Refused,
                At, Unprotected, Plain
  <2> QED BY <2>1, <2>2, <2>3, <2>4
<1>3. ASSUME work[r].pc \notin Unprotected, NEW pc \in Plain, Goto(r, pc) PROVE Lawful(r)
  BY <1>1, <1>3, GotoLawful
<1> QED BY <1>1, <1>2, <1>3, ReturnLawful, Unmoved

(* The steps that ask the run's Pod to go.                                             *)
LEMMA DeletingSteps ==
  ASSUME AccessInv, NEW r \in Runs,
         dropDriftedPods(r) \/ deleteCAConsumer(r) \/ deleteTerminalPods(r)
  PROVE  Lawful(r)
<1>0. DOMAIN pod = Runs /\ PassOK(r, spec[r], Resting, run[r], policy)
  BY RestingOK DEF AccessInv
<1>1. UNCHANGED <<spec, run, policy>>
  BY DEF dropDriftedPods, deleteCAConsumer, deleteTerminalPods, broker, outside
<1>2. CASE dropDriftedPods(r)
  <2>1. Return(r) /\ pod' = [pod EXCEPT ![r] = Deleted(pod[r])]
    BY <1>2 DEF dropDriftedPods
  <2> QED BY <1>0, <1>1, <2>1, PassGoesPodToo DEF Return
<1>3. CASE deleteCAConsumer(r)
  <2>1. Return(r) /\ (pod' = pod \/ pod' = [pod EXCEPT ![r] = Deleted(pod[r])])
    BY <1>3 DEF deleteCAConsumer
  <2> QED BY <1>0, <1>1, <2>1, PassGoesPodToo DEF Return
<1>4. CASE deleteTerminalPods(r)
  <2>1. CASE Return(r) /\ pod' = pod
    BY <1>1, <2>1, ReturnLawful
  <2>2. CASE Goto(r, "cleanupRest") /\ pod' = [pod EXCEPT ![r] = IF Exists(SeenPod(r)) THEN Deleted(@) ELSE @]
    <3> DEFINE w == [work[r] EXCEPT !.pc = "cleanupRest"]
    <3>1. work[r].pc \notin Unprotected /\ "cleanupRest" \in Plain
      BY <1>4 DEF deleteTerminalPods, At, Unprotected, Plain
    <3>2. PassOK(r, spec[r], work[r], run[r], policy) /\ DOMAIN work = Runs /\ DOMAIN pod[r] = PodFields
      BY DEF AccessInv, RunOK
    <3>3. work[r].base.finalizer /\ work[r].job # "drift"
      BY <3>1, <3>2 DEF PassOK, PlaceOK, Unprotected
    <3>4. PassOK(r, spec[r], w, run[r], policy)
      BY <3>2, <3>3, PcMoves DEF Plain, Admitting
    <3>5. DOMAIN work' = Runs /\ work'[r] = w /\ \A x \in Runs : x # r => work'[x] = work[x]
      BY <2>2, <3>2 DEF Goto
    <3>6. /\ DOMAIN pod' = Runs /\ (\A x \in Runs : x # r => pod'[x] = pod[x])
          /\ pod'[r] = pod[r] \/ pod'[r] = Deleted(pod[r])
      BY <1>0, <2>2
    <3>7. DOMAIN pod'[r] = PodFields /\ (Exists(pod'[r]) => Exists(pod[r]))
      BY <3>2, <3>6, DeletedPod
    <3> HIDE DEF w
    <3> QED BY <1>1, <3>4, <3>5, <3>6, <3>7, QuietLawful
  <2> QED BY <1>4, <2>1, <2>2 DEF deleteTerminalPods
<1> QED BY <1>2, <1>3, <1>4

(* A pass begins from the run as it is stored.                                         *)
LEMMA ReconcileLawful ==
  ASSUME AccessInv, NEW r \in Runs, Reconcile(r)
  PROVE  Lawful(r)
<1> DEFINE a == run[r]
           pc == IF spec[r].legacy THEN IF a.deleting THEN "legacyFinalize" ELSE "fail"
                 ELSE IF a.deleting THEN "finalize"
                 ELSE IF ~a.finalizer THEN "finalizer"
                 ELSE IF IsTerminalAgentRunPhase(a.phase) THEN "cleanup" ELSE "pod"
           w == Pass(pc, a)
<1>1. a.alive /\ work' = [work EXCEPT ![r] = w] /\ UNCHANGED <<spec, run, policy, pod>>
  BY DEF Reconcile, objects, broker
<1>2. IsRun(a)
  BY DEF AccessInv, RunOK
<1>3. /\ DOMAIN w = PassFields /\ w.pc = pc /\ w.job = "" /\ w.base = a /\ w.run = a
  BY DEF Pass, PassFields
<1>5. /\ pc \in {"legacyFinalize", "fail", "finalize", "finalizer", "cleanup", "pod"}
      /\ pc \in {"legacyFinalize", "finalize"} => a.deleting
      /\ pc \in {"cleanup", "pod"} => a.finalizer
      /\ pc = "cleanup" => IsTerminalAgentRunPhase(a.phase)
  OBVIOUS
<1> HIDE DEF pc, w, a
<1>6. VersionsOK(a, a, a)
  BY <1>1, <1>2 DEF VersionsOK
<1>7. PlaceOK(r, spec[r], w, policy)
  BY <1>3, <1>5 DEF PlaceOK, Unprotected, Admitting
<1>8. PassOK(r, spec[r], w, a, policy)
  BY <1>3, <1>6, <1>7 DEF PassOK
<1> QED BY <1>1, <1>8, PassGoes DEF a
-----------------------------------------------------------------------------
(* Steps that store the run.  Optimistic concurrency makes the base the stored run, so    *)
(* what the pass keeps of its base is what it keeps of the run.                          *)
LEMMA StoreLawful ==
  ASSUME AccessInv, NEW r \in Runs, NEW a, NEW w, Current(r),
         run' = [run EXCEPT ![r] = a], work' = [work EXCEPT ![r] = w], UNCHANGED <<spec, policy, pod>>,
         PassOK(r, spec[r], w, a, policy), IsRun(a), a.finalizer => a.alive,
         ~a.finalizer => policy \cap Names(r) = {},
         a.deleting = work[r].base.deleting,
         IsTerminalAgentRunPhase(work[r].base.phase) => IsTerminalAgentRunPhase(a.phase)
  PROVE  Lawful(r)
<1> DEFINE old == run[r]
<1>1. /\ DOMAIN run = Runs /\ DOMAIN work = Runs /\ DOMAIN pod = Runs
      /\ RunOK(r, spec[r], old, pod[r], policy)
  BY DEF AccessInv
<1>2. /\ old.alive /\ a.deleting = old.deleting
      /\ IsTerminalAgentRunPhase(old.phase) => IsTerminalAgentRunPhase(a.phase)
  BY DEF AccessInv, PassOK, VersionsOK, Current
<1>3. /\ DOMAIN run' = Runs /\ DOMAIN work' = Runs /\ run'[r] = a /\ work'[r] = w
      /\ \A x \in Runs : x # r => run'[x] = run[x] /\ work'[x] = work[x]
  BY <1>1
<1> HIDE DEF old
<1>4. ~a.alive => AgentOf(r) \notin policy
  BY DEF AgentOf, Names
<1>5. a.alive => \/ StageOf(a) = StageOf(old)
                 \/ StageOf(old) = "active" /\ StageOf(a) = "finished"
  BY <1>2 DEF StageOf
<1>6. ~a.alive => StageOf(old) # "gone" /\ StageOf(a) = "gone"
  BY <1>2 DEF StageOf
<1>7. Move(old, a, AgentOf(r) \in policy, AgentOf(r) \in policy, Exists(pod[r]), Exists(pod[r]))
  BY <1>4, <1>5, <1>6 DEF Move
<1>8. StageOf(a) = "active" => StageOf(old) = "active"
  BY <1>2 DEF StageOf
<1>9. RunOK(r, spec[r], a, pod[r], policy)
  BY <1>1, <1>8 DEF RunOK
<1> QED BY <1>1, <1>3, <1>7, <1>9 DEF Lawful, old

LEMMA StoredPass ==
  ASSUME NEW r, NEW s, NEW w, NEW b, NEW agents, PassOK(r, s, w, b, agents), NEW a, NEW pc,
         IsRun(a), a.alive, a.deleting = w.base.deleting,
         IsTerminalAgentRunPhase(w.base.phase) => IsTerminalAgentRunPhase(a.phase),
         w.job # "drift", pc \in {"cleanup", "pod", "lastDeadline", "fail"},
         pc # "fail" => a.finalizer, pc = "cleanup" => IsTerminalAgentRunPhase(a.phase)
  PROVE  PassOK(r, s, [w EXCEPT !.base = a, !.run = a, !.pc = pc], a, agents)
<1> DEFINE new == [w EXCEPT !.base = a, !.run = a, !.pc = pc]
<1>1. /\ DOMAIN new = PassFields /\ new.pc = pc /\ new.job = w.job
      /\ new.base = a /\ new.run = a /\ new.copy = w.copy
  BY DEF PassOK, PassFields
<1> HIDE DEF new
<1>2. VersionsOK(a, a, a)
  BY DEF VersionsOK
<1>3. PlaceOK(r, s, new, agents)
  BY <1>1 DEF PassOK, PlaceOK, Unprotected, Admitting
<1>4. PassOK(r, s, new, a, agents)
  BY <1>1, <1>2, <1>3 DEF PassOK
<1> QED BY <1>4 DEF new

(* A version of the run the pass may store: the pass's own, with a status that does not     *)
(* take a terminal phase back.                                                         *)
Storable(r, a) ==
  /\ IsRun(a) /\ a.alive /\ a.deleting = work[r].run.deleting /\ a.finalizer = work[r].run.finalizer
  /\ IsTerminalAgentRunPhase(work[r].run.phase) => IsTerminalAgentRunPhase(a.phase)

LEMMA StoredLawful ==
  ASSUME AccessInv, NEW r \in Runs, work[r].pc \notin Unprotected, NEW a, Storable(r, a),
         UNCHANGED <<spec, policy, pod>>,
         \/ StoredAndReturned(r, a)
         \/ \E pc \in {"cleanup", "lastDeadline"} :
              Stored(r, a, pc) /\ (pc = "cleanup" => IsTerminalAgentRunPhase(a.phase))
  PROVE  Lawful(r)
<1>1. PassOK(r, spec[r], work[r], run[r], policy)
  BY DEF AccessInv
<1>2. /\ a.deleting = work[r].base.deleting /\ a.finalizer /\ work[r].job # "drift"
      /\ IsTerminalAgentRunPhase(work[r].base.phase) => IsTerminalAgentRunPhase(a.phase)
  BY <1>1 DEF Storable, PassOK, VersionsOK, PlaceOK, Unprotected
<1>3. IsRun(a) /\ a.alive
  BY DEF Storable
<1>4. ASSUME StoredAndReturned(r, a) PROVE Lawful(r)
  <2>1. PassOK(r, spec[r], Resting, a, policy)
    BY RestingOK
  <2> QED BY <1>2, <1>3, <1>4, <2>1, StoreLawful DEF StoredAndReturned, Return
<1>5. ASSUME NEW pc \in {"cleanup", "lastDeadline"}, Stored(r, a, pc),
             pc = "cleanup" => IsTerminalAgentRunPhase(a.phase)
      PROVE  Lawful(r)
  <2> DEFINE w == [work[r] EXCEPT !.base = a, !.run = a, !.pc = pc]
  <2>1. PassOK(r, spec[r], w, a, policy)
    BY <1>1, <1>2, <1>3, <1>5, StoredPass
  <2>2. Current(r) /\ run' = [run EXCEPT ![r] = a] /\ work' = [work EXCEPT ![r] = w]
    BY <1>5 DEF Stored
  <2> HIDE DEF w
  <2> QED BY <1>2, <1>3, <2>1, <2>2, StoreLawful
<1> QED BY <1>4, <1>5

(* What the status functions do to a run.                                               *)
KeepsRun(a, b) ==
  /\ IsRun(b) /\ b.alive = a.alive /\ b.deleting = a.deleting /\ b.finalizer = a.finalizer
  /\ IsTerminalAgentRunPhase(a.phase) => IsTerminalAgentRunPhase(b.phase)

LEMMA PhaseKeeps ==
  ASSUME NEW a, IsRun(a), NEW phase, IsTerminalAgentRunPhase(a.phase) => IsTerminalAgentRunPhase(phase)
  PROVE  KeepsRun(a, [a EXCEPT !.phase = phase]) /\ [a EXCEPT !.phase = phase].phase = phase
BY DEF KeepsRun, IsRun, RunFields

LEMMA InitializeKeeps ==
  ASSUME NEW a, IsRun(a)
  PROVE  /\ KeepsRun(a, InitializeAgentRunStatus(a))
         /\ IsTerminalAgentRunPhase(InitializeAgentRunStatus(a).phase) <=> IsTerminalAgentRunPhase(a.phase)
<1>1. CASE a.phase = ""
  <2>1. /\ KeepsRun(a, [a EXCEPT !.phase = "Pending"]) /\ [a EXCEPT !.phase = "Pending"].phase = "Pending"
    BY <1>1, PhaseKeeps DEF IsTerminalAgentRunPhase, Terminal
  <2> QED BY <1>1, <2>1 DEF InitializeAgentRunStatus, IsTerminalAgentRunPhase, Terminal
<1>2. CASE a.phase # ""
  BY <1>2 DEF InitializeAgentRunStatus, KeepsRun
<1> QED BY <1>1, <1>2

LEMMA TerminationKeeps ==
  ASSUME NEW r, NEW a, IsRun(a), NEW p
  PROVE  KeepsRun(a, SyncAgentRunLifecycleFromPodTermination(r, a, p))
<1>1. \A event : ~IsTerminalAgentRunPhase(a.phase) => KeepsRun(a, AgentRunLifecycleTransition(a, event))
  BY PhaseKeeps DEF AgentRunLifecycleTransition
<1>2. KeepsRun(a, a)
  BY DEF KeepsRun
<1> QED BY <1>1, <1>2 DEF SyncAgentRunLifecycleFromPodTermination

LEMMA SyncKeeps ==
  ASSUME NEW a, IsRun(a), NEW p
  PROVE  KeepsRun(a, SyncAgentRunStatusFromPod(a, p))
<1>1. KeepsRun(a, a)
  BY DEF KeepsRun
<1>2. ~IsTerminalAgentRunPhase(a.phase) => /\ KeepsRun(a, [a EXCEPT !.phase = "Failed"])
                                           /\ KeepsRun(a, [a EXCEPT !.phase = "Running", !.started = TRUE])
  BY DEF KeepsRun, IsRun, RunFields
<1> QED BY <1>1, <1>2 DEF SyncAgentRunStatusFromPod

LEMMA ObservedKeeps ==
  ASSUME NEW r, NEW a, IsRun(a), NEW p
  PROVE  KeepsRun(a, Observed(r, a, p))
<1> DEFINE b == SyncAgentRunLifecycleFromPodTermination(r, a, p)
<1>1. KeepsRun(a, b) /\ IsRun(b)
  BY TerminationKeeps DEF KeepsRun
<1> HIDE DEF b
<1>2. KeepsRun(b, SyncAgentRunStatusFromPod(b, p))
  BY <1>1, SyncKeeps
<1>3. KeepsRun(a, SyncAgentRunStatusFromPod(b, p))
  BY <1>1, <1>2 DEF KeepsRun
<1> QED BY <1>3 DEF Observed, b

LEMMA KeptStorable ==
  ASSUME AccessInv, NEW r \in Runs, NEW b, KeepsRun(work[r].run, b)
  PROVE  Storable(r, b)
<1>1. work[r].run.alive = TRUE \/ work[r].run.alive
  BY DEF AccessInv, PassOK, VersionsOK
<1> QED BY <1>1 DEF KeepsRun, Storable

(* The pass goes on with another place, job or version of the run in hand.                  *)
LEMMA PassFacts ==
  ASSUME AccessInv, NEW r \in Runs
  PROVE  /\ PassOK(r, spec[r], work[r], run[r], policy) /\ IsRun(work[r].run) /\ IsRun(run[r])
         /\ DOMAIN work[r] = PassFields
         /\ work[r].pc \notin Unprotected => work[r].base.finalizer /\ work[r].job # "drift" /\ run[r].finalizer
                                             /\ run[r].alive
BY DEF AccessInv, PassOK, VersionsOK, PlaceOK, RunOK, Unprotected

LEMMA StoringSteps ==
  ASSUME AccessInv, NEW r \in Runs,
         persistRotationIntent(r) \/ waitForEgressd(r) \/ reconcileActiveDeadline(r) \/ SyncStatus(r)
         \/ ReadPod(r) \/ publishEgressCAConfigMap(r)
  PROVE  Lawful(r)
<1> DEFINE a == work[r].run
<1>0. /\ PassOK(r, spec[r], work[r], run[r], policy) /\ IsRun(a) /\ DOMAIN work[r] = PassFields
      /\ UNCHANGED <<spec, policy, pod>>
  BY PassFacts DEF persistRotationIntent, waitForEgressd, reconcileActiveDeadline, SyncStatus, ReadPod,
                   publishEgressCAConfigMap, objects, broker, outside
<1>p. work[r].pc \notin Unprotected
  BY DEF persistRotationIntent, Rotating, waitForEgressd, reconcileActiveDeadline, SyncStatus, ReadPod,
         publishEgressCAConfigMap, At, Unprotected
<1>f. work[r].base.finalizer /\ work[r].job # "drift"
  BY <1>p, PassFacts
<1>k. KeepsRun(a, a) /\ \A c : KeepsRun(a, [a EXCEPT !.caPublished = c])
  BY <1>0 DEF KeepsRun, IsRun, RunFields
<1>1. CASE persistRotationIntent(r)
  <2>1. Storable(r, [a EXCEPT !.caPublished = "rotating"])
    BY <1>k, KeptStorable
  <2> QED BY <1>0, <1>p, <1>1, <2>1, StoredLawful DEF persistRotationIntent
<1>2. CASE waitForEgressd(r)
  <2>1. Storable(r, a)
    BY <1>k, KeptStorable
  <2> QED BY <1>0, <1>p, <1>2, <2>1, StoredLawful DEF waitForEgressd
<1>3. CASE reconcileActiveDeadline(r)
  <2>1. CASE Stored(r, [a EXCEPT !.phase = "DeadlineExceeded"], "cleanup")
    <3> DEFINE b == [a EXCEPT !.phase = "DeadlineExceeded"]
    <3>1. KeepsRun(a, b) /\ IsTerminalAgentRunPhase(b.phase)
      BY <1>0, PhaseKeeps DEF IsTerminalAgentRunPhase, Terminal
    <3>2. Storable(r, b)
      BY <3>1, KeptStorable
    <3> HIDE DEF b
    <3>3. \E pc \in {"cleanup", "lastDeadline"} :
            Stored(r, b, pc) /\ (pc = "cleanup" => IsTerminalAgentRunPhase(b.phase))
      BY <2>1, <3>1 DEF b
    <3> QED BY <1>0, <1>p, <3>2, <3>3, StoredLawful
  <2>2. CASE Return(r) /\ UNCHANGED run
    BY <1>0, <2>2, ReturnLawful
  <2>3. CASE /\ work' = [work EXCEPT ![r].pc = IF spec[r].persistent THEN "workspace" ELSE "secrets",
                                     ![r].run = InitializeAgentRunStatus(@)]
             /\ UNCHANGED run
    <3> DEFINE b == InitializeAgentRunStatus(a)
               to == IF spec[r].persistent THEN "workspace" ELSE "secrets"
               w == [work[r] EXCEPT !.pc = to, !.run = b]
    <3>1. KeepsRun(a, b) /\ (IsTerminalAgentRunPhase(b.phase) <=> IsTerminalAgentRunPhase(a.phase))
      BY <1>0, InitializeKeeps
    <3>2. work' = [work EXCEPT ![r] = w]
      BY <2>3
    <3>3. to \in {"workspace", "secrets"}
      OBVIOUS
    <3> HIDE DEF b, to
    <3>4. /\ DOMAIN w = PassFields /\ w.pc = to /\ w.job = work[r].job
          /\ w.base = work[r].base /\ w.run = b /\ w.copy = work[r].copy
      BY <1>0 DEF PassFields
    <3> HIDE DEF w
    <3>5. VersionsOK(w.base, b, run[r])
      BY <1>0, <3>1, <3>4 DEF PassOK, VersionsOK, KeepsRun
    <3>6. PlaceOK(r, spec[r], w, policy)
      BY <1>0, <1>f, <3>3, <3>4 DEF PassOK, PlaceOK, Admitting
    <3>7. PassOK(r, spec[r], w, run[r], policy)
      BY <1>0, <3>4, <3>5, <3>6 DEF PassOK
    <3> QED BY <1>0, <2>3, <3>2, <3>7, PassGoes
  <2> QED BY <1>3, <2>1, <2>2, <2>3 DEF reconcileActiveDeadline
<1>4. CASE SyncStatus(r)
  <2> DEFINE b == Observed(r, InitializeAgentRunStatus(a), work[r].pod)
             pc == IF IsTerminalAgentRunPhase(b.phase) THEN "cleanup" ELSE "lastDeadline"
  <2>1. KeepsRun(a, b)
    <3>1. KeepsRun(a, InitializeAgentRunStatus(a)) /\ IsRun(InitializeAgentRunStatus(a))
      BY <1>0, InitializeKeeps DEF KeepsRun
    <3>2. KeepsRun(InitializeAgentRunStatus(a), b)
      BY <3>1, ObservedKeeps
    <3> QED BY <3>1, <3>2 DEF KeepsRun
  <2>2. Storable(r, b)
    BY <2>1, KeptStorable
  <2>3. pc \in {"cleanup", "lastDeadline"} /\ (pc = "cleanup" => IsTerminalAgentRunPhase(b.phase))
    OBVIOUS
  <2>4. \/ Stored(r, b, pc)
        \/ b = work[r].base /\ Goto(r, pc) /\ UNCHANGED run
    BY <1>4 DEF SyncStatus
  <2> HIDE DEF b, pc
  <2>5. ASSUME Stored(r, b, pc) PROVE Lawful(r)
    <3>1. \E x \in {"cleanup", "lastDeadline"} :
            Stored(r, b, x) /\ (x = "cleanup" => IsTerminalAgentRunPhase(b.phase))
      BY <2>3, <2>5
    <3> QED BY <1>0, <1>p, <2>2, <3>1, StoredLawful
  <2>6. ASSUME b = work[r].base, Goto(r, pc), UNCHANGED run PROVE Lawful(r)
    <3>1. PassOK(r, spec[r], [work[r] EXCEPT !.pc = pc], run[r], policy)
      BY <1>0, <1>f, <2>3, <2>6, PcMoves DEF Admitting
    <3> QED BY <1>0, <2>6, <3>1, PassGoes DEF Goto
  <2> QED BY <2>4, <2>5, <2>6
<1>5. CASE publishEgressCAConfigMap(r)
  <2>1. CASE StoredAndReturned(r, [a EXCEPT !.caPublished = "failed"])
    <3>1. Storable(r, [a EXCEPT !.caPublished = "failed"])
      BY <1>k, KeptStorable
    <3> QED BY <1>0, <1>p, <2>1, <3>1, StoredLawful
  <2>2. CASE UNCHANGED run /\ work' = [work EXCEPT ![r].pc = "create", ![r].run.caPublished = "published"]
    <3> DEFINE b == [a EXCEPT !.caPublished = "published"]
               w == [work[r] EXCEPT !.pc = "create", !.run = b]
    <3>1. KeepsRun(a, b) /\ b.phase = a.phase
      BY <1>0, <1>k DEF IsRun, RunFields
    <3>2. work' = [work EXCEPT ![r] = w]
      BY <2>2
    <3> HIDE DEF b
    <3>4. /\ DOMAIN w = PassFields /\ w.pc = "create" /\ w.job = work[r].job
          /\ w.base = work[r].base /\ w.run = b /\ w.copy = work[r].copy
      BY <1>0 DEF PassFields
    <3> HIDE DEF w
    <3>5. VersionsOK(w.base, b, run[r])
      BY <1>0, <3>1, <3>4 DEF PassOK, VersionsOK, KeepsRun
    <3>6. work[r].pc = "gates"
      BY <1>5 DEF publishEgressCAConfigMap, At
    <3>7. PlaceOK(r, spec[r], w, policy)
      BY <1>0, <1>f, <3>4, <3>6 DEF PassOK, PlaceOK, Admitting
    <3>8. PassOK(r, spec[r], w, run[r], policy)
      BY <1>0, <3>4, <3>5, <3>7 DEF PassOK
    <3> QED BY <1>0, <2>2, <3>2, <3>8, PassGoes
  <2> QED BY <1>5, <2>1, <2>2 DEF publishEgressCAConfigMap
<1>6. CASE ReadPod(r)
  <2> DEFINE p == SeenPod(r)
             b == Observed(r, a, p)
  <2>1. CASE UNCHANGED run /\ work' = [work EXCEPT ![r].pc = "fail", ![r].job = "drift"]
    <3> DEFINE w == [work[r] EXCEPT !.pc = "fail", !.job = "drift"]
    <3>1. work' = [work EXCEPT ![r] = w]
      BY <2>1
    <3>2. /\ DOMAIN w = PassFields /\ w.pc = "fail" /\ w.job = "drift"
          /\ w.base = work[r].base /\ w.run = work[r].run /\ w.copy = work[r].copy
      BY <1>0 DEF PassFields
    <3> HIDE DEF w
    <3>3. PassOK(r, spec[r], w, run[r], policy)
      BY <1>0, <3>2 DEF PassOK, PlaceOK, Unprotected, Admitting
    <3> QED BY <1>0, <2>1, <3>1, <3>3, PassGoes
  <2>2. CASE IsTerminalAgentRunPhase(b.phase) /\ Stored(r, b, "cleanup")
    <3>1. Storable(r, b)
      BY <1>0, ObservedKeeps, KeptStorable
    <3> HIDE DEF b
    <3>2. \E x \in {"cleanup", "lastDeadline"} :
            Stored(r, b, x) /\ (x = "cleanup" => IsTerminalAgentRunPhase(b.phase))
      BY <2>2
    <3> QED BY <1>0, <1>p, <3>1, <3>2, StoredLawful
  <2>3. CASE UNCHANGED run /\ work' = [work EXCEPT ![r].pc = "deadline", ![r].pod = p]
    <3> DEFINE w == [work[r] EXCEPT !.pc = "deadline", !.pod = p]
    <3>1. work' = [work EXCEPT ![r] = w]
      BY <2>3
    <3> HIDE DEF p
    <3>2. /\ DOMAIN w = PassFields /\ w.pc = "deadline" /\ w.job = work[r].job
          /\ w.base = work[r].base /\ w.run = work[r].run /\ w.copy = work[r].copy
      BY <1>0 DEF PassFields
    <3> HIDE DEF w
    <3>3. PassOK(r, spec[r], w, run[r], policy)
      BY <1>0, <1>f, <3>2 DEF PassOK, PlaceOK, Unprotected, Admitting
    <3> QED BY <1>0, <2>3, <3>1, <3>3, PassGoes
  <2>4. CASE UNCHANGED run /\ Goto(r, IF spec[r].mediated /\ env \in RefusedIn THEN "fail" ELSE "deadline")
    BY <1>0, <1>p, <2>4, GotoLawful DEF Plain
  <2> QED BY <1>6, <2>1, <2>2, <2>3, <2>4 DEF ReadPod
<1> QED BY <1>1, <1>2, <1>3, <1>4, <1>5, <1>6

LEMMA AddFinalizerLawful ==
  ASSUME AccessInv, NEW r \in Runs, AddFinalizer(r)
  PROVE  Lawful(r)
<1> DEFINE a == [work[r].run EXCEPT !.finalizer = TRUE]
           pc == IF IsTerminalAgentRunPhase(work[r].run.phase) THEN "cleanup" ELSE "pod"
           w == [work[r] EXCEPT !.base = a, !.run = a, !.pc = pc]
<1>1. /\ work[r].pc = "finalizer" /\ Stored(r, a, pc) /\ UNCHANGED <<spec, policy, pod>>
  BY DEF AddFinalizer, At, objects, broker, outside
<1>2. PassOK(r, spec[r], work[r], run[r], policy) /\ IsRun(work[r].run)
  BY PassFacts
<1>3. /\ IsRun(a) /\ a.finalizer /\ a.alive = work[r].run.alive /\ a.deleting = work[r].run.deleting
      /\ a.phase = work[r].run.phase
  BY <1>2 DEF IsRun, RunFields
<1>4. pc \in {"cleanup", "pod"} /\ (pc = "cleanup" => IsTerminalAgentRunPhase(a.phase))
  BY <1>3
<1>5. Current(r) /\ run' = [run EXCEPT ![r] = a] /\ work' = [work EXCEPT ![r] = w]
  BY <1>1 DEF Stored
<1> HIDE DEF a, pc
<1>6. /\ a.alive /\ a.deleting = work[r].base.deleting /\ work[r].job # "drift"
      /\ IsTerminalAgentRunPhase(work[r].base.phase) => IsTerminalAgentRunPhase(a.phase)
  BY <1>1, <1>2, <1>3 DEF PassOK, VersionsOK, PlaceOK
<1>7. PassOK(r, spec[r], w, a, policy)
  BY <1>2, <1>3, <1>4, <1>6, StoredPass
<1> HIDE DEF w
<1> QED BY <1>1, <1>3, <1>5, <1>6, <1>7, StoreLawful

(* A change of the stored run outside the version check, which only finishes it.             *)
LEMMA FinishLawful ==
  ASSUME AccessInv, NEW r \in Runs, NEW a, NEW w,
         run' = [run EXCEPT ![r] = a], UNCHANGED <<spec, policy, pod>>,
         work' = work \/ work' = [work EXCEPT ![r] = Resting] \/ work' = [work EXCEPT ![r] = w],
         PassOK(r, spec[r], w, run[r], policy),
         IsRun(a), a.alive <=> run[r].alive, a.finalizer = run[r].finalizer,
         run[r].deleting => a.deleting,
         IsTerminalAgentRunPhase(run[r].phase) => IsTerminalAgentRunPhase(a.phase)
  PROVE  Lawful(r)
<1> DEFINE old == run[r]
<1>1. /\ DOMAIN run = Runs /\ DOMAIN work = Runs /\ DOMAIN pod = Runs
      /\ RunOK(r, spec[r], old, pod[r], policy) /\ PassOK(r, spec[r], work[r], old, policy)
  BY DEF AccessInv
<1>2. /\ DOMAIN run' = Runs /\ DOMAIN work' = Runs /\ run'[r] = a
      /\ \A x \in Runs : x # r => run'[x] = run[x] /\ work'[x] = work[x]
      /\ work'[r] \in {work[r], Resting, w}
  BY <1>1
<1>3. PassOK(r, spec[r], work[r], a, policy) /\ PassOK(r, spec[r], w, a, policy)
  BY <1>1 DEF PassOK, VersionsOK
<1>4. PassOK(r, spec[r], Resting, a, policy)
  BY RestingOK
<1>5. PassOK(r, spec[r], work'[r], a, policy)
  BY <1>2, <1>3, <1>4
<1> HIDE DEF old
<1>6. /\ StageOf(a) = StageOf(old) \/ (StageOf(old) = "active" /\ StageOf(a) = "finished")
      /\ StageOf(a) = "active" => StageOf(old) = "active"
  BY DEF StageOf, old
<1>7. Move(old, a, AgentOf(r) \in policy, AgentOf(r) \in policy, Exists(pod[r]), Exists(pod[r]))
  BY <1>6 DEF Move
<1>8. RunOK(r, spec[r], a, pod[r], policy)
  BY <1>1, <1>6 DEF RunOK, old
<1> QED BY <1>1, <1>2, <1>5, <1>7, <1>8 DEF Lawful, old

LEMMA FinishingSteps ==
  ASSUME AccessInv, NEW r \in Runs,
         setAgentRunFailed(r) \/ reconcileTerminalAgentRunRetention(r) \/ applyLifecycleEvent(r)
         \/ SpecChanges(r)
  PROVE  Lawful(r)
<1>0. /\ PassOK(r, spec[r], work[r], run[r], policy) /\ IsRun(run[r]) /\ DOMAIN run = Runs
      /\ DOMAIN work[r] = PassFields /\ UNCHANGED <<spec, policy, pod>>
  BY PassFacts DEF AccessInv, setAgentRunFailed, reconcileTerminalAgentRunRetention, applyLifecycleEvent,
                   SpecChanges, objects, broker, outside
<1>1. CASE setAgentRunFailed(r)
  <2> DEFINE a == [run[r] EXCEPT !.phase = "Failed"]
             w == [work[r] EXCEPT !.pc = "dropPods"]
  <2>1. /\ run' = [run EXCEPT ![r] = a] /\ work[r].pc = "fail"
        /\ \/ work' = [work EXCEPT ![r] = Resting]
           \/ work' = [work EXCEPT ![r] = w]
    BY <1>1 DEF setAgentRunFailed, Goto, Return, At
  <2>2. PassOK(r, spec[r], w, run[r], policy)
    BY <1>0, <2>1, PcMoves DEF Unprotected, Admitting
  <2>3. /\ IsRun(a) /\ a.alive = run[r].alive /\ a.finalizer = run[r].finalizer /\ a.deleting = run[r].deleting
        /\ IsTerminalAgentRunPhase(a.phase)
    BY <1>0 DEF IsRun, RunFields, IsTerminalAgentRunPhase, Terminal
  <2> HIDE DEF a, w
  <2> QED BY <1>0, <2>1, <2>2, <2>3, FinishLawful
<1>2. CASE reconcileTerminalAgentRunRetention(r)
  <2> DEFINE a == [run[r] EXCEPT !.deleting = TRUE]
  <2>1. CASE UNCHANGED run
    BY <1>0, <1>2, <2>1, ReturnLawful DEF reconcileTerminalAgentRunRetention
  <2>2. CASE run' = [run EXCEPT ![r].deleting = TRUE]
    <3>1. run' = [run EXCEPT ![r] = a] /\ work' = [work EXCEPT ![r] = Resting]
      BY <1>2, <2>2 DEF reconcileTerminalAgentRunRetention, Return
    <3>2. /\ IsRun(a) /\ a.alive = run[r].alive /\ a.finalizer = run[r].finalizer /\ a.deleting
          /\ a.phase = run[r].phase
      BY <1>0 DEF IsRun, RunFields
    <3> HIDE DEF a
    <3> QED BY <1>0, <3>1, <3>2, FinishLawful
  <2> QED BY <1>2, <2>1, <2>2 DEF reconcileTerminalAgentRunRetention
<1>3. CASE applyLifecycleEvent(r)
  <2>1. PICK event \in mail[r] : run' = [run EXCEPT ![r] = AgentRunLifecycleTransition(run[r], event)]
    BY <1>3 DEF applyLifecycleEvent
  <2> DEFINE a == AgentRunLifecycleTransition(run[r], event)
  <2>2. ~IsTerminalAgentRunPhase(run[r].phase) /\ work' = work
    BY <1>3 DEF applyLifecycleEvent
  <2>3. KeepsRun(run[r], a)
    BY <1>0, <2>2, PhaseKeeps DEF AgentRunLifecycleTransition
  <2> HIDE DEF a
  <2>4. run' = [run EXCEPT ![r] = a]
    BY <2>1 DEF a
  <2> QED BY <1>0, <2>2, <2>3, <2>4, FinishLawful DEF KeepsRun
<1>4. CASE SpecChanges(r)
  <2> DEFINE a == [run[r] EXCEPT !.spec = 2]
  <2>1. run' = [run EXCEPT ![r] = a] /\ work' = work
    BY <1>4 DEF SpecChanges
  <2>2. /\ IsRun(a) /\ a.alive = run[r].alive /\ a.finalizer = run[r].finalizer /\ a.deleting = run[r].deleting
        /\ a.phase = run[r].phase
    BY <1>0 DEF IsRun, RunFields
  <2> HIDE DEF a
  <2> QED BY <1>0, <2>1, <2>2, FinishLawful
<1> QED BY <1>1, <1>2, <1>3, <1>4

(* A user deletes the run: at once when no finalizer holds it, and then the broker does not  *)
(* know it.                                                                             *)
LEMMA UserDeletesLawful ==
  ASSUME AccessInv, NEW r \in Runs, UserDeletes(r)
  PROVE  Lawful(r)
<1> DEFINE keep == run[r].finalizer \/ spec[r].legacy
           a == [run[r] EXCEPT !.deleting = TRUE, !.alive = keep]
<1>0. /\ PassOK(r, spec[r], work[r], run[r], policy) /\ IsRun(run[r]) /\ RunOK(r, spec[r], run[r], pod[r], policy)
      /\ DOMAIN run = Runs /\ DOMAIN work = Runs /\ DOMAIN pod = Runs
  BY PassFacts DEF AccessInv
<1>1. /\ run[r].alive /\ run' = [run EXCEPT ![r] = a] /\ UNCHANGED <<spec, policy, pod, work>>
  BY DEF UserDeletes, objects, broker
<1>2. keep = TRUE \/ keep = FALSE
  OBVIOUS
<1>3. run[r].finalizer => keep
  OBVIOUS
<1> HIDE DEF keep
<1>4. /\ IsRun(a) /\ a.alive = keep /\ a.finalizer = run[r].finalizer /\ a.deleting = TRUE
      /\ a.phase = run[r].phase
  BY <1>0 DEF IsRun, RunFields
<1> HIDE DEF a
<1>5. CASE keep
  BY <1>0, <1>1, <1>4, <1>5, FinishLawful
<1>6. ASSUME ~keep PROVE Lawful(r)
  <2>1. ~run[r].finalizer /\ policy \cap Names(r) = {}
    BY <1>0, <1>3, <1>6 DEF RunOK
  <2>2. AgentOf(r) \notin policy
    BY <2>1 DEF AgentOf, Names
  <2>3. StageOf(run[r]) # "gone" /\ StageOf(a) = "gone"
    BY <1>1, <1>2, <1>4, <1>6 DEF StageOf
  <2>4. RunOK(r, spec[r], a, pod[r], policy)
    BY <1>0, <1>4, <2>1, <2>3 DEF RunOK
  <2>5. PassOK(r, spec[r], work[r], a, policy)
    BY <1>0, <1>4 DEF PassOK, VersionsOK
  <2>6. Move(run[r], a, AgentOf(r) \in policy, AgentOf(r) \in policy, Exists(pod[r]), Exists(pod[r]))
    BY <2>2, <2>3 DEF Move
  <2> QED BY <1>0, <1>1, <2>4, <2>5, <2>6 DEF Lawful
<1> QED BY <1>5, <1>6

LEMMA RemoveFinalizerLawful ==
  ASSUME AccessInv, NEW r \in Runs, removeFinalizer(r)
  PROVE  Lawful(r)
<1>0. /\ PassOK(r, spec[r], work[r], run[r], policy) /\ IsRun(work[r].run) /\ work[r].job # "drift"
      /\ work[r].pc = "removeFinalizer" /\ policy \cap Names(r) = {} /\ UNCHANGED <<spec, policy, pod>>
  BY PassFacts DEF removeFinalizer, At, PassOK, PlaceOK, Unprotected, objects, broker, outside
<1>v. /\ work[r].run.alive = work[r].base.alive /\ work[r].base.alive
      /\ work[r].run.deleting = work[r].base.deleting
      /\ IsTerminalAgentRunPhase(work[r].run.phase) <=> IsTerminalAgentRunPhase(work[r].base.phase)
  BY <1>0 DEF PassOK, VersionsOK
<1>1. CASE spec[r].legacy
  <2> DEFINE a == [work[r].run EXCEPT !.finalizer = FALSE]
             w == [work[r] EXCEPT !.base = a, !.run = a, !.pc = "fail"]
  <2>1. Current(r) /\ run' = [run EXCEPT ![r] = a] /\ work' = [work EXCEPT ![r] = w]
    BY <1>1 DEF removeFinalizer, Stored
  <2>2. /\ IsRun(a) /\ ~a.finalizer /\ a.alive = work[r].run.alive /\ a.deleting = work[r].run.deleting
        /\ a.phase = work[r].run.phase
    BY <1>0 DEF IsRun, RunFields
  <2> HIDE DEF a
  <2>3. PassOK(r, spec[r], w, a, policy)
    BY <1>0, <1>v, <2>2, StoredPass
  <2> HIDE DEF w
  <2> QED BY <1>0, <1>v, <2>1, <2>2, <2>3, StoreLawful
<1>2. CASE ~spec[r].legacy
  <2> DEFINE a == [work[r].run EXCEPT !.finalizer = FALSE, !.alive = FALSE]
  <2>1. Current(r) /\ run' = [run EXCEPT ![r] = a] /\ work' = [work EXCEPT ![r] = Resting]
    BY <1>2 DEF removeFinalizer, StoredAndReturned, Return
  <2>2. /\ IsRun(a) /\ ~a.finalizer /\ ~a.alive /\ a.deleting = work[r].run.deleting
        /\ a.phase = work[r].run.phase
    BY <1>0 DEF IsRun, RunFields
  <2> HIDE DEF a
  <2>3. PassOK(r, spec[r], Resting, a, policy)
    BY RestingOK
  <2> QED BY <1>0, <1>v, <2>1, <2>2, <2>3, StoreLawful
<1> QED BY <1>1, <1>2

(* The steps that turn a pass to revocation.                                              *)
LEMMA RevokingSteps ==
  ASSUME AccessInv, NEW r \in Runs,
         reconcileTerminalResourceCleanup(r) \/ revocationFails(r) \/ finalize(r)
  PROVE  Lawful(r)
<1>0. /\ PassOK(r, spec[r], work[r], run[r], policy) /\ DOMAIN work[r] = PassFields
      /\ UNCHANGED <<spec, run, policy, pod>>
  BY PassFacts DEF reconcileTerminalResourceCleanup, revocationFails, finalize, objects, broker, outside
<1>1. CASE reconcileTerminalResourceCleanup(r)
  <2>1. work[r].pc = "cleanup" /\ work[r].pc \notin Unprotected
    BY <1>1 DEF reconcileTerminalResourceCleanup, At, Unprotected
  <2>2. CASE work' = [work EXCEPT ![r].pc = "readPolicy", ![r].job = "cleanup"]
    <3> DEFINE w == [work[r] EXCEPT !.pc = "readPolicy", !.job = "cleanup"]
    <3>1. work' = [work EXCEPT ![r] = w]
      BY <2>2
    <3>2. /\ DOMAIN w = PassFields /\ w.pc = "readPolicy" /\ w.job = "cleanup"
          /\ w.base = work[r].base /\ w.run = work[r].run /\ w.copy = work[r].copy
      BY <1>0 DEF PassFields
    <3> HIDE DEF w
    <3>3. PassOK(r, spec[r], w, run[r], policy)
      BY <1>0, <2>1, <3>2 DEF PassOK, PlaceOK, Unprotected, Admitting
    <3> QED BY <1>0, <3>1, <3>3, PassGoes
  <2>3. CASE Return(r)
    BY <1>0, <2>3, ReturnLawful
  <2>4. CASE Goto(r, "retention")
    BY <1>0, <2>1, <2>4, GotoLawful DEF Plain
  <2>5. \/ work' = [work EXCEPT ![r].pc = "readPolicy", ![r].job = "cleanup"]
        \/ Return(r) \/ Goto(r, "retention")
    <3> DEFINE delay == IF work[r].run.phase = "DeadlineExceeded" THEN "now" ELSE TerminalPodCleanupDelay(r)
    <3>1. delay \in {"now", "later", "never"}
      BY DEF TerminalPodCleanupDelay
    <3>2. (CASE delay = "now"   -> work' = [work EXCEPT ![r].pc = "readPolicy", ![r].job = "cleanup"]
             [] delay = "later" -> Return(r)
             [] delay = "never" -> Goto(r, "retention"))
      BY <1>1 DEF reconcileTerminalResourceCleanup
    <3> HIDE DEF delay
    <3> QED BY <3>1, <3>2
  <2> QED BY <2>2, <2>3, <2>4, <2>5
<1>2. CASE revocationFails(r)
  <2> DEFINE w == [work[r] EXCEPT !.pc = "cleanupPods", !.failed = TRUE]
  <2>1. work' = [work EXCEPT ![r] = w] /\ work[r].pc = "readPolicy"
    BY <1>2 DEF revocationFails, At
  <2>2. /\ DOMAIN w = PassFields /\ w.pc = "cleanupPods" /\ w.job = work[r].job
        /\ w.base = work[r].base /\ w.run = work[r].run /\ w.copy = work[r].copy
    BY <1>0 DEF PassFields
  <2> HIDE DEF w
  <2>3. PassOK(r, spec[r], w, run[r], policy)
    BY <1>0, <2>1, <2>2 DEF PassOK, PlaceOK, Unprotected, Admitting
  <2> QED BY <1>0, <2>1, <2>3, PassGoes
<1>3. CASE finalize(r)
  <2>1. ASSUME NEW job \in {"finalize", "legacy"}, work[r].pc \in {"finalize", "legacyFinalize"},
               work[r].run.finalizer, work' = [work EXCEPT ![r].pc = "readPolicy", ![r].job = job]
        PROVE  Lawful(r)
    <3> DEFINE w == [work[r] EXCEPT !.pc = "readPolicy", !.job = job]
    <3>1. work' = [work EXCEPT ![r] = w]
      BY <2>1
    <3>2. /\ DOMAIN w = PassFields /\ w.pc = "readPolicy" /\ w.job = job
          /\ w.base = work[r].base /\ w.run = work[r].run /\ w.copy = work[r].copy
      BY <1>0 DEF PassFields
    <3> HIDE DEF w
    <3>3. work[r].base.finalizer /\ work[r].base.deleting
      BY <1>0, <2>1 DEF PassOK, VersionsOK, PlaceOK
    <3>4. PlaceOK(r, spec[r], w, policy)
      BY <2>1, <3>2, <3>3 DEF PlaceOK, Unprotected, Admitting
    <3>5. PassOK(r, spec[r], w, run[r], policy)
      BY <1>0, <2>1, <3>2, <3>4 DEF PassOK
    <3> QED BY <1>0, <3>1, <3>5, PassGoes
  <2>2. ASSUME work[r].pc = "legacyFinalize", Goto(r, "fail") PROVE Lawful(r)
    <3>1. PassOK(r, spec[r], [work[r] EXCEPT !.pc = "fail"], run[r], policy)
      BY <1>0, PcMoves DEF Unprotected, Admitting
    <3> QED BY <1>0, <2>2, <3>1, PassGoes DEF Goto
  <2> QED BY <1>3, <2>1, <2>2 DEF finalize, At
<1> QED BY <1>1, <1>2, <1>3
-----------------------------------------------------------------------------
(* The policy steps.                                                                     *)
LEMMA PrepareLawful ==
  ASSUME AccessInv, NEW r \in Runs, Prepare(r)
  PROVE  Lawful(r)
<1>0. /\ PassOK(r, spec[r], work[r], run[r], policy) /\ DOMAIN work[r] = PassFields /\ IsRun(work[r].run)
      /\ work[r].pc = "prepare" /\ UNCHANGED <<spec, run, policy, pod>>
  BY PassFacts DEF Prepare, At, broker, outside
<1>1. /\ work[r].base.finalizer /\ work[r].job # "drift" /\ Needed(r, spec[r]) \subseteq policy
  BY <1>0 DEF PassOK, PlaceOK, Unprotected, Admitting
<1> DEFINE ready == work[r].run.policyReady \/ spec[r].enforced
           a == [work[r].run EXCEPT !.policyReady = ready]
           pc == IF Exists(work[r].pod) THEN "status" ELSE IF spec[r].enforced THEN "gates" ELSE "create"
           w == [work[r] EXCEPT !.run = a, !.pc = pc]
<1>2. work' = [work EXCEPT ![r] = w]
  BY DEF Prepare
<1>3. pc \in {"status", "gates", "create"}
  OBVIOUS
<1> HIDE DEF ready, pc
<1>4. /\ IsRun(a) /\ a.alive = work[r].run.alive /\ a.finalizer = work[r].run.finalizer
      /\ a.deleting = work[r].run.deleting /\ a.phase = work[r].run.phase
  BY <1>0 DEF IsRun, RunFields
<1> HIDE DEF a
<1>5. /\ DOMAIN w = PassFields /\ w.pc = pc /\ w.job = work[r].job
      /\ w.base = work[r].base /\ w.run = a /\ w.copy = work[r].copy
  BY <1>0 DEF PassFields
<1> HIDE DEF w
<1>6. VersionsOK(w.base, w.run, run[r])
  BY <1>0, <1>4, <1>5 DEF PassOK, VersionsOK
<1>7. PlaceOK(r, spec[r], w, policy)
  BY <1>0, <1>1, <1>3, <1>5 DEF PassOK, PlaceOK, Admitting, Unprotected
<1>8. PassOK(r, spec[r], w, run[r], policy)
  BY <1>0, <1>5, <1>6, <1>7 DEF PassOK
<1> QED BY <1>0, <1>2, <1>8, PassGoes

LEMMA ReadPolicyLawful ==
  ASSUME AccessInv, NEW r \in Runs, ReadPolicy(r)
  PROVE  Lawful(r)
<1>0. /\ PassOK(r, spec[r], work[r], run[r], policy) /\ DOMAIN work[r] = PassFields
      /\ work[r].pc = "readPolicy" /\ UNCHANGED <<spec, run, policy, pod>>
  BY PassFacts DEF ReadPolicy, At, objects, broker, outside
<1> DEFINE w == [work[r] EXCEPT !.pc = "writePolicy", !.copy = policy]
<1>1. work' = [work EXCEPT ![r] = w]
  BY DEF ReadPolicy
<1>2. /\ DOMAIN w = PassFields /\ w.pc = "writePolicy" /\ w.job = work[r].job
      /\ w.base = work[r].base /\ w.run = work[r].run /\ w.copy = policy
  BY <1>0 DEF PassFields
<1> HIDE DEF w
<1>3. PassOK(r, spec[r], w, run[r], policy)
  BY <1>0, <1>2 DEF PassOK, PlaceOK, Admitting, Unprotected
<1> QED BY <1>0, <1>1, <1>3, PassGoes

(* A write of the policy matters to the run that writes, and to no other.                  *)
LEMMA WritePolicyLawful ==
  ASSUME AccessInv, NEW r \in Runs, WritePolicy(r)
  PROVE  Lawful(r)
<1> DEFINE copy == work[r].copy
           changed == IF work[r].job = "" THEN Upsert(r, copy) ELSE Remove(r, copy)
           after == [work[r] EXCEPT !.pc = AfterPolicy(r), !.copy = {}]
           again == [work[r] EXCEPT !.pc = "readPolicy", !.copy = {}]
<1>0. /\ PassOK(r, spec[r], work[r], run[r], policy) /\ DOMAIN work[r] = PassFields
      /\ RunOK(r, spec[r], run[r], pod[r], policy) /\ DOMAIN pod = Runs /\ DOMAIN run = Runs /\ DOMAIN work = Runs
      /\ work[r].pc = "writePolicy" /\ UNCHANGED <<spec, run, pod>>
  BY PassFacts DEF WritePolicy, At, objects, outside, AccessInv
<1>1. /\ work[r].base.finalizer /\ work[r].job \in {"", "cleanup", "finalize", "legacy"}
      /\ run[r].finalizer /\ run[r].alive /\ copy \cap Names(r) = policy \cap Names(r)
  BY <1>0, PassFacts DEF PassOK, PlaceOK, Unprotected
<1>2. work[r].job # "" => StageOf(run[r]) = "finished"
  BY <1>0, <1>1 DEF PassOK, PlaceOK, VersionsOK, StageOf
<1>3. /\ AfterPolicy(r) \in {"prepare", "cleanupPods", "removeFinalizer"}
      /\ AfterPolicy(r) = "prepare" => work[r].job = ""
      /\ AfterPolicy(r) = "removeFinalizer" => work[r].job # ""
  BY <1>1 DEF AfterPolicy
<1>4. \/ work' = [work EXCEPT ![r] = again] /\ policy' = policy
      \/ work' = [work EXCEPT ![r] = after] /\ policy = copy /\ policy' = changed
      \/ work' = [work EXCEPT ![r] = after] /\ changed = copy /\ policy' = policy
  BY DEF WritePolicy
<1>5. /\ DOMAIN after = PassFields /\ after.pc = AfterPolicy(r) /\ after.job = work[r].job
      /\ after.base = work[r].base /\ after.run = work[r].run
      /\ DOMAIN again = PassFields /\ again.pc = "readPolicy" /\ again.job = work[r].job
      /\ again.base = work[r].base /\ again.run = work[r].run
  BY <1>0 DEF PassFields
<1>6. /\ work[r].job = "" => Needed(r, spec[r]) \subseteq changed /\ copy \subseteq changed
      /\ work[r].job # "" => changed \cap Names(r) = {}
      /\ \A x : x # r => changed \cap Names(x) = copy \cap Names(x)
  <2>1. /\ Needed(r, spec[r]) \subseteq Upsert(r, copy) /\ copy \subseteq Upsert(r, copy)
        /\ Remove(r, copy) \cap Names(r) = {}
        /\ \A x : x # r => /\ Upsert(r, copy) \cap Names(x) = copy \cap Names(x)
                           /\ Remove(r, copy) \cap Names(x) = copy \cap Names(x)
    <3> HIDE DEF copy
    <3> QED BY DEF Needed, Upsert, Remove, Names, Identities
  <2> HIDE DEF copy
  <2>2. changed = Upsert(r, copy) \/ changed = Remove(r, copy)
    OBVIOUS
  <2>3. (work[r].job = "" => changed = Upsert(r, copy)) /\ (work[r].job # "" => changed = Remove(r, copy))
    OBVIOUS
  <2> HIDE DEF changed
  <2> QED BY <2>1, <2>2, <2>3
<1> HIDE DEF after, again, changed, copy
<1>7. ASSUME work' = [work EXCEPT ![r] = again], policy' = policy PROVE Lawful(r)
  <2>1. PassOK(r, spec[r], again, run[r], policy)
    BY <1>0, <1>1, <1>5 DEF PassOK, PlaceOK, Admitting, Unprotected
  <2> QED BY <1>0, <1>7, <2>1, PassGoes
<1>8. ASSUME NEW P, work[r].job = "" => Needed(r, spec[r]) \subseteq P, work[r].job # "" => P \cap Names(r) = {}
      PROVE  PassOK(r, spec[r], after, run[r], P)
  <2>1. PlaceOK(r, spec[r], after, P)
    BY <1>0, <1>1, <1>3, <1>5, <1>8 DEF PassOK, PlaceOK, Admitting, Unprotected
  <2> QED BY <1>0, <1>5, <2>1 DEF PassOK
<1>9. ASSUME work' = [work EXCEPT ![r] = after], changed = copy, policy' = policy PROVE Lawful(r)
  <2>1. work[r].job = "" => Needed(r, spec[r]) \subseteq policy
    BY <1>1, <1>6, <1>9, OwnNames
  <2>2. work[r].job # "" => policy \cap Names(r) = {}
    BY <1>1, <1>6, <1>9
  <2>3. PassOK(r, spec[r], after, run[r], policy)
    BY <1>8, <2>1, <2>2
  <2> QED BY <1>0, <1>9, <2>3, PassGoes
<1>10. ASSUME work' = [work EXCEPT ![r] = after], policy = copy, policy' = changed PROVE Lawful(r)
  <2>1. PassOK(r, spec[r], after, run[r], changed)
    BY <1>6, <1>8
  <2>2. RunOK(r, spec[r], run[r], pod[r], changed)
    BY <1>0, <1>1, <1>2, <1>6 DEF RunOK
  <2>3. AgentOf(r) \in Needed(r, spec[r]) /\ AgentOf(r) \in Names(r)
    BY DEF AgentOf, Needed, Names
  <2>4. StageOf(run[r]) # "gone"
    BY <1>1 DEF StageOf
  <2>5. Move(run[r], run[r], AgentOf(r) \in policy, AgentOf(r) \in changed, Exists(pod[r]), Exists(pod[r]))
    BY <1>2, <1>6, <2>3, <2>4 DEF Move
  <2>6. DOMAIN work' = Runs /\ work'[r] = after /\ \A x \in Runs : x # r => work'[x] = work[x]
    BY <1>0, <1>10
  <2>7. \A x \in Runs : x # r => policy' \cap Names(x) = policy \cap Names(x)
    BY <1>6, <1>10
  <2> QED BY <1>0, <1>10, <2>1, <2>2, <2>5, <2>6, <2>7 DEF Lawful
<1> QED BY <1>4, <1>7, <1>9, <1>10

LEMMA CreateAgentPodLawful ==
  ASSUME AccessInv, NEW r \in Runs, createAgentPod(r)
  PROVE  Lawful(r)
<1> DEFINE p == [NoPod EXCEPT !.state = "pending", !.generation = IF spec[r].enforced THEN ca[r].generation ELSE 0,
                              !.config = config[r], !.spec = work[r].run.spec, !.docker = spec[r].persistent]
           w == [work[r] EXCEPT !.pc = "status", !.pod = p]
<1>0. /\ PassOK(r, spec[r], work[r], run[r], policy) /\ DOMAIN work[r] = PassFields
      /\ RunOK(r, spec[r], run[r], pod[r], policy) /\ DOMAIN pod = Runs /\ DOMAIN run = Runs /\ DOMAIN work = Runs
      /\ work[r].pc = "create" /\ UNCHANGED <<spec, run, policy>>
  BY PassFacts DEF createAgentPod, At, broker, AccessInv
<1>1. pod' = [pod EXCEPT ![r] = p] /\ work' = [work EXCEPT ![r] = w]
  BY DEF createAgentPod
<1>2. DOMAIN p = PodFields /\ Exists(p)
  BY DEF NoPod, PodFields, Exists
<1> HIDE DEF p
<1>3. /\ DOMAIN w = PassFields /\ w.pc = "status" /\ w.job = work[r].job
      /\ w.base = work[r].base /\ w.run = work[r].run /\ w.copy = work[r].copy
  BY <1>0 DEF PassFields
<1> HIDE DEF w
<1>4. PassOK(r, spec[r], w, run[r], policy) /\ Needed(r, spec[r]) \subseteq policy
  BY <1>0, <1>3 DEF PassOK, PlaceOK, Admitting, Unprotected
<1>5. RunOK(r, spec[r], run[r], p, policy)
  BY <1>0, <1>2, <1>4 DEF RunOK
<1>6. AgentOf(r) \in policy
  BY <1>4 DEF AgentOf, Needed
<1>7. Move(run[r], run[r], AgentOf(r) \in policy, AgentOf(r) \in policy, Exists(pod[r]), Exists(p))
  BY <1>2, <1>6 DEF Move
<1>8. /\ DOMAIN work' = Runs /\ work'[r] = w /\ DOMAIN pod' = Runs /\ pod'[r] = p
      /\ \A x \in Runs : x # r => work'[x] = work[x] /\ pod'[x] = pod[x]
  BY <1>0, <1>1
<1> QED BY <1>0, <1>4, <1>5, <1>7, <1>8 DEF Lawful
-----------------------------------------------------------------------------
(* The cluster's steps: the kubelet never makes a Pod, it starts, ends and removes them.    *)
LEMMA PodLawful ==
  ASSUME AccessInv, NEW r \in Runs, NEW p, DOMAIN p = PodFields, Exists(p) => Exists(pod[r]),
         pod' = [pod EXCEPT ![r] = p], UNCHANGED <<spec, run, policy, work>>
  PROVE  Lawful(r)
<1>1. DOMAIN work = Runs /\ DOMAIN pod = Runs /\ PassOK(r, spec[r], work[r], run[r], policy)
  BY DEF AccessInv
<1> QED BY <1>1, QuietLawful

LEMMA NoPodFields == DOMAIN NoPod = PodFields /\ ~Exists(NoPod)
BY DEF NoPod, PodFields, Exists

LEMMA ClusterSteps ==
  ASSUME AccessInv, NEW r \in Runs, ClusterStep(r)
  PROVE  Lawful(r)
<1>0. DOMAIN pod[r] = PodFields /\ DOMAIN pod = Runs
  BY DEF AccessInv, RunOK
<1>1. ASSUME CacheCatchesUp(r) \/ EgressdStarts(r) \/ ClaimChanges(r) \/ AgentReports(r) \/ TimePasses(r)
             \/ EgressCAAges(r)
      PROVE  Lawful(r)
  <2>1. UNCHANGED <<spec, run, policy, pod, work>>
    BY <1>1 DEF CacheCatchesUp, EgressdStarts, ClaimChanges, AgentReports, TimePasses, EgressCAAges,
                objects, broker, outside
  <2> QED BY <2>1, Unmoved
<1>2. ASSUME PodStarts(r) PROVE Lawful(r)
  <2> DEFINE p == [pod[r] EXCEPT !.state = "running"]
  <2>1. pod' = [pod EXCEPT ![r] = p] /\ Exists(pod[r]) /\ UNCHANGED <<spec, run, policy, work>>
    BY <1>2 DEF PodStarts, broker, Exists
  <2>2. DOMAIN p = PodFields
    BY <1>0
  <2> HIDE DEF p
  <2> QED BY <2>1, <2>2, PodLawful
<1>3. ASSUME AgentExits(r) PROVE Lawful(r)
  <2>1. PICK event : pod' = [pod EXCEPT ![r].state = "exited", ![r].event = event]
    BY <1>3 DEF AgentExits
  <2> DEFINE p == [pod[r] EXCEPT !.state = "exited", !.event = event]
  <2>2. pod' = [pod EXCEPT ![r] = p] /\ Exists(pod[r]) /\ UNCHANGED <<spec, run, policy, work>>
    BY <1>3, <2>1 DEF AgentExits, broker, Exists
  <2>3. DOMAIN p = PodFields
    BY <1>0
  <2> HIDE DEF p
  <2> QED BY <2>2, <2>3, PodLawful
<1>4. ASSUME PodRemoved(r) PROVE Lawful(r)
  <2>1. /\ UNCHANGED <<spec, run, policy, work>>
        /\ pod' = pod \/ pod' = [pod EXCEPT ![r] = NoPod]
    BY <1>4 DEF PodRemoved, broker, outside
  <2> QED BY <2>1, NoPodFields, PodLawful, Unmoved
<1>5. ASSUME GarbageCollected(r) PROVE Lawful(r)
  <2>1. UNCHANGED <<spec, run, policy, work>> /\ pod' = [pod EXCEPT ![r] = NoPod]
    BY <1>5 DEF GarbageCollected, broker, outside
  <2> QED BY <2>1, NoPodFields, PodLawful
<1>6. ASSUME applyLifecycleEvent(r) PROVE Lawful(r)
  BY <1>6, FinishingSteps
<1> QED BY <1>1, <1>2, <1>3, <1>4, <1>5, <1>6 DEF ClusterStep

LEMMA TroubleSteps ==
  ASSUME AccessInv, NEW r \in Runs, Trouble(r)
  PROVE  Lawful(r)
<1>0. DOMAIN pod[r] = PodFields /\ DOMAIN pod = Runs
  BY DEF AccessInv, RunOK
<1>1. ASSUME CallFails(r) PROVE Lawful(r)
  BY <1>1, ReturnLawful DEF CallFails, objects, broker
<1>2. ASSUME PodDisrupted(r) PROVE Lawful(r)
  <2>1. UNCHANGED <<spec, run, policy, work>>
    BY <1>2 DEF PodDisrupted, broker
  <2>2. ASSUME pod[r].state \in {"pending", "running"}, pod' = [pod EXCEPT ![r].state = "failed"]
        PROVE  Lawful(r)
    <3> DEFINE p == [pod[r] EXCEPT !.state = "failed"]
    <3>1. pod' = [pod EXCEPT ![r] = p] /\ Exists(pod[r])
      BY <2>2 DEF Exists
    <3>2. DOMAIN p = PodFields
      BY <1>0
    <3> HIDE DEF p
    <3> QED BY <2>1, <3>1, <3>2, PodLawful
  <2>3. ASSUME pod' = [pod EXCEPT ![r] = Deleted(pod[r])] PROVE Lawful(r)
    BY <1>0, <2>1, <2>3, DeletedPod, PodLawful
  <2>4. ASSUME pod' = pod PROVE Lawful(r)
    BY <2>1, <2>4, Unmoved
  <2> QED BY <1>2, <2>2, <2>3, <2>4 DEF PodDisrupted
<1> QED BY <1>1, <1>2, RevokingSteps, FinishingSteps, UserDeletesLawful DEF Trouble

LEMMA PassSteps ==
  ASSUME AccessInv, NEW r \in Runs, PassStep(r)
  PROVE  Lawful(r)
<1>1. ASSUME setAgentRunFailed(r) \/ reconcileTerminalAgentRunRetention(r) PROVE Lawful(r)
  BY <1>1, FinishingSteps
<1>2. ASSUME reconcileTerminalResourceCleanup(r) \/ finalize(r) PROVE Lawful(r)
  BY <1>2, RevokingSteps
<1>3. ASSUME persistRotationIntent(r) \/ waitForEgressd(r) \/ reconcileActiveDeadline(r) \/ SyncStatus(r)
             \/ ReadPod(r) \/ publishEgressCAConfigMap(r)
      PROVE  Lawful(r)
  BY <1>3, StoringSteps
<1>4. ASSUME dropDriftedPods(r) \/ deleteCAConsumer(r) \/ deleteTerminalPods(r) PROVE Lawful(r)
  BY <1>4, DeletingSteps
<1>5. ASSUME AddFinalizer(r) \/ removeFinalizer(r) \/ Prepare(r) \/ ReadPolicy(r) \/ WritePolicy(r)
             \/ createAgentPod(r)
      PROVE  Lawful(r)
  BY <1>5, AddFinalizerLawful, RemoveFinalizerLawful, PrepareLawful, ReadPolicyLawful, WritePolicyLawful,
     CreateAgentPodLawful
<1> QED BY <1>1, <1>2, <1>3, <1>4, <1>5, ObjectSteps DEF PassStep

(* Every step is lawful for some run, or a restart, or invisible.                           *)
LEMMA NextSteps ==
  ASSUME AccessInv, [ReconcilerNext]_reconcilerVars
  PROVE  \/ \E r \in Runs : Lawful(r)
         \/ UNCHANGED <<spec, run, policy, pod>> /\ (work' = work \/ work' = [r \in Runs |-> Resting])
<1>1. ASSUME NEW r \in Runs, Reconcile(r) \/ PassStep(r) \/ ClusterStep(r) \/ Trouble(r) PROVE Lawful(r)
  BY <1>1, ReconcileLawful, PassSteps, ClusterSteps, TroubleSteps
<1>2. CASE PolicyProjected
  BY <1>2 DEF PolicyProjected, objects, outside
<1>3. CASE OperatorRestarts
  BY <1>3 DEF OperatorRestarts, objects, broker
<1>4. CASE UNCHANGED reconcilerVars
  BY <1>4 DEF reconcilerVars
<1> QED BY <1>1, <1>2, <1>3, <1>4 DEF ReconcilerNext

LEMMA AccessInvKept ==
  ASSUME AccessInv, [ReconcilerNext]_reconcilerVars
  PROVE  AccessInv'
<1>1. ASSUME UNCHANGED <<spec, run, policy, pod>>, work' = work \/ work' = [r \in Runs |-> Resting]
      PROVE  AccessInv'
  <2>1. ASSUME NEW r \in Runs PROVE PassOK(r, spec[r], work'[r], run[r], policy)
    BY <1>1, RestingOK DEF AccessInv
  <2>2. DOMAIN work' = Runs
    BY <1>1 DEF AccessInv
  <2> QED BY <1>1, <2>1, <2>2 DEF AccessInv
<1> QED BY <1>1, NextSteps, LawfulKeepsInv
-----------------------------------------------------------------------------
(* The runs there are at the start: none has a pass, and only those under way are known     *)
(* to the broker.                                                                        *)
LEMMA InitRun ==
  ASSUME ReconcilerInit, NEW r \in Runs
  PROVE  /\ IsRun(run[r]) /\ DOMAIN pod[r] = PodFields
         /\ run[r].finalizer <=> Underway(r)
         /\ run[r].finalizer => run[r].alive
         /\ Exists(pod[r]) <=> Underway(r)
<1>1. spec[r] \in Specs
  BY ReconcilerAssumption DEF ReconcilerInit
<1>2. Underway(r) => spec[r].present
  BY <1>1, ReconcilerAssumption DEF Underway
<1> DEFINE leaving == [OldRun EXCEPT !.phase = "Completed", !.deleting = TRUE]
           absent == [NewRun EXCEPT !.alive = FALSE]
<1>3. /\ IsRun(NewRun) /\ ~NewRun.finalizer
      /\ IsRun(OldRun) /\ OldRun.finalizer /\ OldRun.alive
      /\ IsRun(leaving) /\ leaving.finalizer /\ leaving.alive
      /\ IsRun(absent) /\ ~absent.finalizer
  BY DEF NewRun, OldRun, IsRun, RunFields
<1>4. run[r] = CASE ~spec[r].present -> absent
                 [] spec[r].oldPod -> OldRun
                 [] spec[r].leaving -> leaving
                 [] OTHER -> NewRun
  BY DEF ReconcilerInit
<1>5. /\ ~spec[r].present => run[r] = absent
      /\ spec[r].present /\ Underway(r) => run[r] \in {OldRun, leaving}
      /\ spec[r].present /\ ~Underway(r) => run[r] = NewRun
  <2> HIDE DEF leaving, absent
  <2>1. CASE ~spec[r].present
    BY <1>2, <1>4, <2>1 DEF Underway
  <2>2. CASE spec[r].present
    BY <1>4, <2>2 DEF Underway
  <2> QED BY <2>1, <2>2
<1>6. pod[r] = IF Underway(r) THEN OldPod ELSE NoPod
  BY DEF ReconcilerInit
<1>7. /\ DOMAIN OldPod = PodFields /\ Exists(OldPod) /\ DOMAIN NoPod = PodFields /\ ~Exists(NoPod)
  BY DEF OldPod, NoPod, PodFields, Exists
<1> HIDE DEF leaving, absent
<1>8. DOMAIN pod[r] = PodFields /\ (Exists(pod[r]) <=> Underway(r))
  BY <1>6, <1>7
<1> QED BY <1>2, <1>3, <1>5, <1>8

LEMMA InitPolicy ==
  ASSUME ReconcilerInit, NEW r \in Runs
  PROVE  /\ Underway(r) => Needed(r, spec[r]) \subseteq policy
         /\ ~Underway(r) => policy \cap Names(r) = {}
<1>1. policy = UNION {Identities(x) : x \in {y \in Runs : Underway(y)}}
  BY DEF ReconcilerInit
<1>2. Identities(r) = Needed(r, spec[r])
  BY DEF Identities, Needed
<1>3. ASSUME NEW x \in Runs, x # r PROVE Identities(x) \cap Names(r) = {}
  BY <1>3 DEF Identities, Names
<1> QED BY <1>1, <1>2, <1>3

LEMMA InitAccess ==
  ASSUME ReconcilerInit
  PROVE  AccessInv
<1>1. DOMAIN run = Runs /\ DOMAIN work = Runs /\ DOMAIN pod = Runs
  BY DEF ReconcilerInit
<1>2. ASSUME NEW r \in Runs
      PROVE  RunOK(r, spec[r], run[r], pod[r], policy) /\ PassOK(r, spec[r], work[r], run[r], policy)
  <2>1. RunOK(r, spec[r], run[r], pod[r], policy)
    BY InitRun, InitPolicy DEF RunOK
  <2>2. work[r] = Resting
    BY DEF ReconcilerInit
  <2> QED BY <2>1, <2>2, RestingOK
<1> QED BY <1>1, <1>2 DEF AccessInv

(* Access follows the run, whatever fails and however the passes over different runs         *)
(* interleave in the broker's one ConfigMap: every identity of a run is in the policy while   *)
(* its agent works, and none is once the run is gone.                                       *)
THEOREM AccessTracksRun == ReconcilerSafety => []AccessFollowsRun
<1>1. ReconcilerInit => AccessInv
  BY InitAccess
<1>2. AccessInv /\ [ReconcilerNext]_reconcilerVars => AccessInv'
  BY AccessInvKept
<1>3. AccessInv => AccessFollowsRun
  <2> SUFFICES ASSUME AccessInv PROVE AccessFollowsRun
    OBVIOUS
  <2>1. RevokedBeforeGone
    BY DEF AccessInv, RunOK, Names, RevokedBeforeGone
  <2>2. ActivePodIsAdmitted
    <3>1. ASSUME NEW r \in Runs, run[r].alive, Exists(pod[r]), ~IsTerminalAgentRunPhase(run[r].phase),
                 ~run[r].deleting
          PROVE  Identities(r) \subseteq policy
      <4>1. StageOf(run[r]) = "active"
        BY <3>1 DEF StageOf
      <4> QED BY <3>1, <4>1 DEF AccessInv, RunOK, Needed, Identities
    <3> QED BY <3>1 DEF ActivePodIsAdmitted
  <2> QED BY <2>1, <2>2 DEF AccessFollowsRun
<1> QED BY <1>1, <1>2, <1>3, PTL DEF ReconcilerSafety

(* The reconciler implements RunLifecycle: it starts no run the broker does not admit, takes  *)
(* access from finished runs only, revives none and forgets none that has access left.        *)
THEOREM ReconcilerRefinesLifecycle == ReconcilerSafety => ImplementsRunLifecycle
<1>1. ReconcilerInit => AccessInv
  BY InitAccess
<1>2. AccessInv /\ [ReconcilerNext]_reconcilerVars => AccessInv'
  BY AccessInvKept
<1>3. ReconcilerInit => Lifecycle!LifecycleInit
  <2> SUFFICES ASSUME ReconcilerInit PROVE Lifecycle!LifecycleInit
    OBVIOUS
  <2>1. \A r \in Runs : Stage(r) \in {"active", "finished", "gone"}
    BY DEF Stage
  <2>2. ASSUME NEW r \in Runs PROVE AgentOf(r) \in policy => Stage(r) # "gone"
    <3>1. AgentOf(r) \in policy => Underway(r)
      BY InitPolicy DEF AgentOf, Names
    <3> QED BY <3>1, InitRun DEF Stage
  <2>3. ASSUME NEW r \in Runs PROVE Exists(pod[r]) => AgentOf(r) \in policy
    BY InitRun, InitPolicy DEF AgentOf, Needed
  <2> QED BY <2>1, <2>2, <2>3 DEF Lifecycle!LifecycleInit
<1>4. AccessInv /\ [ReconcilerNext]_reconcilerVars => [Lifecycle!LifecycleNext]_(Lifecycle!lifecycleVars)
  <2> SUFFICES ASSUME AccessInv, [ReconcilerNext]_reconcilerVars
               PROVE  [Lifecycle!LifecycleNext]_(Lifecycle!lifecycleVars)
    OBVIOUS
  <2>1. ASSUME UNCHANGED <<spec, run, policy, pod>> PROVE UNCHANGED Lifecycle!lifecycleVars
    BY <2>1 DEF Lifecycle!lifecycleVars, Stage, AgentOf, Exists
  <2> QED BY <2>1, NextSteps, LawfulRefines
<1> QED BY <1>1, <1>2, <1>3, <1>4, PTL DEF ReconcilerSafety, ImplementsRunLifecycle, Lifecycle!LifecycleSpec
-----------------------------------------------------------------------------
(* What a Pod was made from and what it depends on, where the cache is current: the         *)
(* objects of a run against its Pods, and against the place of its pass, which says what      *)
(* the pass has made so far.                                                              *)
CurrentCache == CacheLags = FALSE

Ours(e) == Exists(e) /\ e.own
PodStates == {"none", "pending", "running", "exited", "failed"}

Shaped(p, e, o, c, g, t) ==
  /\ DOMAIN p = PodFields /\ DOMAIN e = PodFields /\ p.state \in PodStates /\ e.state \in PodStates
  /\ o \subseteq Owned /\ DOMAIN c = {"workspace", "docker"}
  /\ DOMAIN g = {"generation", "fresh"} /\ g.generation \in 0..MaxGeneration /\ t \in 0..MaxGeneration
  /\ g.fresh \in BOOLEAN /\ (g.fresh \/ g.generation < MaxGeneration)

ObjectsOK(s, p, e, o, c, g, t, f) ==
  /\ s.enforced /\ Exists(p) => p.generation = g.generation /\ t = g.generation /\ g.generation # 0
  /\ Ours(e) => s.enforced /\ e.generation = g.generation /\ g.generation # 0 /\ e.config = f
  /\ s.mediated /\ Exists(p) => p.config = f
  /\ s.mediated /\ (Exists(p) \/ Ours(e)) => f # NoEnvironment
  /\ s.enforced /\ (Exists(p) \/ Ours(e)) => Fence \subseteq o
  /\ s.persistent /\ Exists(p) /\ p.docker => c.workspace # "none" /\ c.docker # "none"

(* The places of a pass that makes things, by what it has made when it is there.              *)
Gated == {"gates", "create"}
Fenced == {"egressd", "service", "readPolicy", "writePolicy", "prepare"} \cup Gated
Certified == {"fence"} \cup Fenced
Configured == {"ca"} \cup Certified
Provisioned == {"secrets", "egressdConfig"} \cup Configured
Claimed == {"docker", "migration"} \cup Provisioned
Building == {"deadline", "workspace"} \cup Claimed

Revoking(w) == w.pc \in {"readPolicy", "writePolicy"} /\ w.job \in {"drift", "cleanup", "finalize", "legacy"}
Place(w) == IF Revoking(w) THEN "revoking" ELSE w.pc

(* q is the Pod the pass has read.                                                       *)
PlaceReady(s, pc, q, p, o, c, g, t, f) ==
  /\ pc \in Building /\ Exists(p) => Exists(q) /\ q.docker = p.docker
  /\ pc \in Gated => ~Exists(q)
  /\ pc = "migration" => Exists(q) /\ ~q.docker
  /\ pc \in {"ca", "fence", "egressd"} => s.enforced
  /\ s.persistent /\ pc \in Claimed => c.workspace # "none"
  /\ s.persistent /\ pc \in Provisioned /\ ~Exists(q) => c.docker # "none"
  /\ s.mediated /\ pc \in Configured => f # NoEnvironment
  /\ s.enforced /\ pc \in Certified => g.generation # 0
  /\ s.enforced /\ pc \in Fenced => Fence \subseteq o
  /\ s.enforced /\ pc = "create" => t = g.generation

Sound(s, p, e, o, c, g, t, f, w) ==
  /\ Shaped(p, e, o, c, g, t) /\ ObjectsOK(s, p, e, o, c, g, t, f)
  /\ PlaceReady(s, Place(w), w.pod, p, o, c, g, t, f)

ObjectInv ==
  /\ DOMAIN egressd = Runs /\ DOMAIN owned = Runs /\ DOMAIN claim = Runs /\ DOMAIN ca = Runs
  /\ DOMAIN trust = Runs /\ DOMAIN config = Runs /\ env \in Environments
  /\ \A r \in Runs : spec[r] \in Specs
  /\ \A r \in Runs : Sound(spec[r], pod[r], egressd[r], owned[r], claim[r], ca[r], trust[r], config[r], work[r])

(* f' differs from f at r only, where it is v.                                             *)
Only(f, new, r, v) == DOMAIN new = Runs /\ new[r] = v /\ \A x \in Runs : x # r => new[x] = f[x]

LEMMA OnlyUpdate ==
  ASSUME NEW f, DOMAIN f = Runs, NEW r \in Runs
  PROVE  /\ Only(f, f, r, f[r])
         /\ \A v, new : new = [f EXCEPT ![r] = v] => Only(f, new, r, v)
BY DEF Only

Effect(r, p, e, o, c, g, t, f, w) ==
  /\ spec' = spec /\ env' \in Environments
  /\ Only(pod, pod', r, p) /\ Only(egressd, egressd', r, e) /\ Only(owned, owned', r, o)
  /\ Only(claim, claim', r, c) /\ Only(ca, ca', r, g) /\ Only(trust, trust', r, t)
  /\ Only(config, config', r, f) /\ Only(work, work', r, w)

LEMMA SoundKeepsInv ==
  ASSUME ObjectInv, NEW r \in Runs, NEW p, NEW e, NEW o, NEW c, NEW g, NEW t, NEW f, NEW w,
         Effect(r, p, e, o, c, g, t, f, w), Sound(spec[r], p, e, o, c, g, t, f, w)
  PROVE  ObjectInv'
<1>1. ASSUME NEW x \in Runs
      PROVE  Sound(spec'[x], pod'[x], egressd'[x], owned'[x], claim'[x], ca'[x], trust'[x], config'[x], work'[x])
  <2>1. CASE x = r
    BY <2>1 DEF Effect, Only
  <2>2. CASE x # r
    <3>1. Sound(spec[x], pod[x], egressd[x], owned[x], claim[x], ca[x], trust[x], config[x], work[x])
      BY DEF ObjectInv
    <3>2. /\ spec'[x] = spec[x] /\ pod'[x] = pod[x] /\ egressd'[x] = egressd[x] /\ owned'[x] = owned[x]
          /\ claim'[x] = claim[x] /\ ca'[x] = ca[x] /\ trust'[x] = trust[x] /\ config'[x] = config[x]
          /\ work'[x] = work[x]
      BY <2>2 DEF Effect, Only
    <3> QED BY <3>1, <3>2
  <2> QED BY <2>1, <2>2
<1>2. /\ DOMAIN egressd' = Runs /\ DOMAIN owned' = Runs /\ DOMAIN claim' = Runs /\ DOMAIN ca' = Runs
      /\ DOMAIN trust' = Runs /\ DOMAIN config' = Runs /\ env' \in Environments
      /\ \A x \in Runs : spec'[x] \in Specs
  BY DEF Effect, Only, ObjectInv
<1> QED BY <1>1, <1>2 DEF ObjectInv

(* The state of one run, by short names.                                                  *)
View(r, s, p, e, o, c, g, t, f, w) ==
  /\ s = spec[r] /\ p = pod[r] /\ e = egressd[r] /\ o = owned[r] /\ c = claim[r] /\ g = ca[r]
  /\ t = trust[r] /\ f = config[r] /\ w = work[r]

LEMMA Viewed ==
  ASSUME AccessInv, ObjectInv, NEW r \in Runs
  PROVE  \E s, p, e, o, c, g, t, f, w :
           /\ View(r, s, p, e, o, c, g, t, f, w) /\ DOMAIN w = PassFields
           /\ s \in SpecType /\ (s.enforced => s.mediated)
           /\ Shaped(p, e, o, c, g, t) /\ ObjectsOK(s, p, e, o, c, g, t, f)
           /\ PlaceReady(s, Place(w), w.pod, p, o, c, g, t, f)
<1>1. DOMAIN work[r] = PassFields
  BY DEF AccessInv, PassOK
<1>2. spec[r] \in SpecType /\ (spec[r].enforced => spec[r].mediated)
  BY ReconcilerAssumption DEF ObjectInv
<1> QED BY <1>1, <1>2 DEF ObjectInv, Sound, View

LEMMA Framed ==
  ASSUME AccessInv, ObjectInv, NEW r \in Runs
  PROVE  /\ Only(pod, pod, r, pod[r]) /\ Only(egressd, egressd, r, egressd[r]) /\ Only(owned, owned, r, owned[r])
         /\ Only(claim, claim, r, claim[r]) /\ Only(ca, ca, r, ca[r]) /\ Only(trust, trust, r, trust[r])
         /\ Only(config, config, r, config[r]) /\ Only(work, work, r, work[r])
BY OnlyUpdate DEF AccessInv, ObjectInv

(* The pass moves and the objects stay.                                                   *)
LEMMA PassMoves ==
  ASSUME AccessInv, ObjectInv, NEW r \in Runs, NEW w, Only(work, work', r, w), spec' = spec, env' \in Environments,
         UNCHANGED objects,
         PlaceReady(spec[r], Place(w), w.pod, pod[r], owned[r], claim[r], ca[r], trust[r], config[r])
  PROVE  ObjectInv'
<1>1. Effect(r, pod[r], egressd[r], owned[r], claim[r], ca[r], trust[r], config[r], w)
  BY Framed DEF Effect, objects
<1>2. Sound(spec[r], pod[r], egressd[r], owned[r], claim[r], ca[r], trust[r], config[r], w)
  BY DEF ObjectInv, Sound
<1> QED BY <1>1, <1>2, SoundKeepsInv

LEMMA AnyReady ==
  ASSUME NEW pc, pc \notin Building, NEW s, NEW q, NEW p, NEW o, NEW c, NEW g, NEW t, NEW f
  PROVE  PlaceReady(s, pc, q, p, o, c, g, t, f)
BY DEF PlaceReady, Building, Claimed, Provisioned, Configured, Certified, Fenced, Gated

(* A pass that makes nothing more.                                                       *)
Idle(w) == Revoking(w) \/ w.pc \notin Building

LEMMA IdleReady ==
  ASSUME NEW w, Idle(w), NEW s, NEW q, NEW p, NEW o, NEW c, NEW g, NEW t, NEW f
  PROVE  PlaceReady(s, Place(w), q, p, o, c, g, t, f)
<1>1. Place(w) \notin Building
  BY DEF Idle, Place, Building, Claimed, Provisioned, Configured, Certified, Fenced, Gated
<1> QED BY <1>1, AnyReady

LEMMA RestingIdle == Idle(Resting) /\ \A pc, a : pc \notin Building => Idle(Pass(pc, a))
BY DEF Idle, Resting, Pass, Building, Claimed, Provisioned, Configured, Certified, Fenced, Gated

LEMMA ReturnOnly ==
  ASSUME AccessInv, NEW r \in Runs, Return(r)
  PROVE  Only(work, work', r, Resting)
BY OnlyUpdate DEF AccessInv, Return

LEMMA Stepped ==
  ASSUME NEW w, DOMAIN w = PassFields, NEW pc
  PROVE  /\ DOMAIN [w EXCEPT !.pc = pc] = PassFields /\ [w EXCEPT !.pc = pc].pc = pc
         /\ [w EXCEPT !.pc = pc].pod = w.pod /\ [w EXCEPT !.pc = pc].job = w.job
BY DEF PassFields

LEMMA GotoOnly ==
  ASSUME AccessInv, NEW r \in Runs, NEW pc, Goto(r, pc)
  PROVE  Only(work, work', r, [work[r] EXCEPT !.pc = pc])
<1>1. work' = [work EXCEPT ![r] = [work[r] EXCEPT !.pc = pc]]
  BY DEF Goto
<1> QED BY <1>1, OnlyUpdate DEF AccessInv

(* Steps after which the pass makes nothing more, or not yet.                               *)
Leaves(r) == \E w : Only(work, work', r, w) /\ Idle(w)

LEMMA LeavesKeep ==
  ASSUME AccessInv, ObjectInv, NEW r \in Runs, Leaves(r), spec' = spec, env' \in Environments, UNCHANGED objects
  PROVE  ObjectInv'
<1>1. PICK w : Only(work, work', r, w) /\ Idle(w)
  BY DEF Leaves
<1> QED BY <1>1, IdleReady, PassMoves

LEMMA ReturnLeaves ==
  ASSUME AccessInv, NEW r \in Runs, Return(r)
  PROVE  Leaves(r)
BY ReturnOnly, RestingIdle DEF Leaves

LEMMA GotoLeaves ==
  ASSUME AccessInv, NEW r \in Runs, NEW pc, pc \notin Building, Goto(r, pc)
  PROVE  Leaves(r)
<1>1. DOMAIN work[r] = PassFields
  BY DEF AccessInv, PassOK
<1>2. PICK w : w = [work[r] EXCEPT !.pc = pc]
  OBVIOUS
<1>3. w.pc = pc /\ Only(work, work', r, w)
  BY <1>1, <1>2, Stepped, GotoOnly
<1> QED BY <1>3 DEF Leaves, Idle

LEMMA StoredLeaves ==
  ASSUME AccessInv, NEW r \in Runs, NEW a, NEW pc, pc \notin Building, Stored(r, a, pc)
  PROVE  Leaves(r)
<1>1. DOMAIN work[r] = PassFields /\ DOMAIN work = Runs
  BY DEF AccessInv, PassOK
<1>2. PICK w : w = [work[r] EXCEPT !.base = a, !.run = a, !.pc = pc]
  OBVIOUS
<1>3. work' = [work EXCEPT ![r] = w]
  BY <1>2 DEF Stored
<1>4. w.pc = pc
  BY <1>1, <1>2 DEF PassFields
<1> QED BY <1>1, <1>3, <1>4, OnlyUpdate DEF Leaves, Idle

LEMMA JobLeaves ==
  ASSUME AccessInv, NEW r \in Runs, NEW job \in {"drift", "cleanup", "finalize", "legacy"}, NEW pc,
         pc \notin Building \/ pc = "readPolicy",
         work' = [work EXCEPT ![r].pc = pc, ![r].job = job]
  PROVE  Leaves(r)
<1>1. DOMAIN work[r] = PassFields /\ DOMAIN work = Runs
  BY DEF AccessInv, PassOK
<1>2. PICK w : w = [work[r] EXCEPT !.pc = pc, !.job = job]
  OBVIOUS
<1>3. work' = [work EXCEPT ![r] = w]
  BY <1>2
<1>4. w.pc = pc /\ w.job = job
  BY <1>1, <1>2 DEF PassFields
<1> QED BY <1>1, <1>3, <1>4, OnlyUpdate DEF Leaves, Idle, Revoking

NotBuilding == {"idle", "cleanup", "pod", "finalizer", "fail", "dropPods", "retention", "lastDeadline", "status",
                "finalize", "legacyFinalize", "removeFinalizer", "cleanupPods", "cleanupRest"}

LEMMA NotBuildingPlaces == \A pc \in NotBuilding : pc \notin Building
BY DEF NotBuilding, Building, Claimed, Provisioned, Configured, Certified, Fenced, Gated

LEMMA LeavingSteps ==
  ASSUME AccessInv, ObjectInv, NEW r \in Runs,
         \/ AddFinalizer(r) \/ setAgentRunFailed(r) \/ persistRotationIntent(r) \/ waitForEgressd(r) \/ SyncStatus(r)
         \/ reconcileTerminalResourceCleanup(r) \/ reconcileTerminalAgentRunRetention(r) \/ finalize(r)
         \/ removeFinalizer(r) \/ Refused(r) \/ CallFails(r) \/ revocationFails(r)
  PROVE  ObjectInv'
<1>1. spec' = spec /\ env' \in Environments /\ UNCHANGED objects
  BY DEF AddFinalizer, setAgentRunFailed, persistRotationIntent, waitForEgressd, SyncStatus,
         reconcileTerminalResourceCleanup, reconcileTerminalAgentRunRetention, finalize, removeFinalizer,
         Refused, CallFails, revocationFails, outside, ObjectInv
<1>2. Leaves(r)
  <2>1. CASE AddFinalizer(r)
    <3>1. \E a : \E pc \in NotBuilding : Stored(r, a, pc)
      BY <2>1 DEF AddFinalizer, NotBuilding
    <3> QED BY <3>1, StoredLeaves, NotBuildingPlaces
  <2>2. CASE setAgentRunFailed(r)
    <3>1. Goto(r, "dropPods") \/ Return(r)
      BY <2>2 DEF setAgentRunFailed
    <3>2. "dropPods" \in NotBuilding
      BY DEF NotBuilding
    <3> QED BY <3>1, <3>2, GotoLeaves, ReturnLeaves, NotBuildingPlaces
  <2>3. CASE persistRotationIntent(r) \/ waitForEgressd(r) \/ Refused(r) \/ CallFails(r)
             \/ reconcileTerminalAgentRunRetention(r)
    <3>1. Return(r)
      BY <2>3 DEF persistRotationIntent, waitForEgressd, Refused, CallFails, StoredAndReturned,
                  reconcileTerminalAgentRunRetention
    <3> QED BY <3>1, ReturnLeaves
  <2>4. CASE SyncStatus(r)
    <3>1. \E pc \in NotBuilding : Goto(r, pc) \/ \E a : Stored(r, a, pc)
      BY <2>4 DEF SyncStatus, NotBuilding
    <3> QED BY <3>1, StoredLeaves, GotoLeaves, NotBuildingPlaces
  <2>5. CASE reconcileTerminalResourceCleanup(r)
    <3>1. \/ work' = [work EXCEPT ![r].pc = "readPolicy", ![r].job = "cleanup"]
          \/ Return(r) \/ Goto(r, "retention")
      BY <2>5 DEF reconcileTerminalResourceCleanup, TerminalPodCleanupDelay
    <3>2. "retention" \in NotBuilding
      BY DEF NotBuilding
    <3> QED BY <3>1, <3>2, JobLeaves, GotoLeaves, ReturnLeaves, NotBuildingPlaces
  <2>6. CASE finalize(r)
    <3>1. \/ \E job \in {"finalize", "legacy"} : work' = [work EXCEPT ![r].pc = "readPolicy", ![r].job = job]
          \/ Goto(r, "fail")
      BY <2>6 DEF finalize
    <3>2. "fail" \in NotBuilding
      BY DEF NotBuilding
    <3> QED BY <3>1, <3>2, JobLeaves, GotoLeaves, NotBuildingPlaces
  <2>7. CASE removeFinalizer(r)
    <3>1. Return(r) \/ \E a : Stored(r, a, "fail")
      BY <2>7 DEF removeFinalizer, StoredAndReturned
    <3>2. "fail" \in NotBuilding
      BY DEF NotBuilding
    <3> QED BY <3>1, <3>2, StoredLeaves, ReturnLeaves, NotBuildingPlaces
  <2>8. CASE revocationFails(r)
    <3>1. DOMAIN work[r] = PassFields /\ DOMAIN work = Runs
      BY DEF AccessInv, PassOK
    <3>2. PICK w : w = [work[r] EXCEPT !.pc = "cleanupPods", !.failed = TRUE]
      OBVIOUS
    <3>3. work' = [work EXCEPT ![r] = w]
      BY <2>8, <3>2 DEF revocationFails
    <3>4. w.pc = "cleanupPods" /\ "cleanupPods" \in NotBuilding
      BY <3>1, <3>2 DEF PassFields, NotBuilding
    <3> QED BY <3>1, <3>3, <3>4, OnlyUpdate, NotBuildingPlaces DEF Leaves, Idle
  <2> QED BY <2>1, <2>2, <2>3, <2>4, <2>5, <2>6, <2>7, <2>8
<1> QED BY <1>1, <1>2, LeavesKeep

LEMMA BeginKeeps ==
  ASSUME AccessInv, ObjectInv, NEW r \in Runs, Reconcile(r)
  PROVE  ObjectInv'
<1>1. spec' = spec /\ env' \in Environments /\ UNCHANGED objects
  BY DEF Reconcile, ObjectInv
<1>2. \E pc \in NotBuilding : work' = [work EXCEPT ![r] = Pass(pc, run[r])]
  BY DEF Reconcile, NotBuilding
<1>3. PICK pc \in NotBuilding : work' = [work EXCEPT ![r] = Pass(pc, run[r])]
  BY <1>2
<1>4. Idle(Pass(pc, run[r]))
  BY RestingIdle, NotBuildingPlaces
<1>5. Leaves(r)
  BY <1>3, <1>4, OnlyUpdate DEF Leaves, AccessInv
<1> QED BY <1>1, <1>5, LeavesKeep

(* Steps of the cluster and of users that no object shows.                                   *)
LEMMA UnseenSteps ==
  ASSUME AccessInv, ObjectInv, NEW r \in Runs,
         \/ CacheCatchesUp(r) \/ AgentReports(r) \/ applyLifecycleEvent(r) \/ TimePasses(r)
         \/ SpecChanges(r) \/ UserDeletes(r) \/ PolicyProjected
  PROVE  ObjectInv'
<1>1. UNCHANGED <<spec, objects, env, work>>
  BY DEF CacheCatchesUp, AgentReports, applyLifecycleEvent, TimePasses, SpecChanges, UserDeletes, PolicyProjected,
         objects, outside
<1> QED BY <1>1 DEF objects, ObjectInv

LEMMA RestartKeeps ==
  ASSUME AccessInv, ObjectInv, OperatorRestarts
  PROVE  ObjectInv'
<1>1. /\ UNCHANGED <<spec, objects>> /\ env' \in Environments /\ work' = [x \in Runs |-> Resting]
  BY DEF OperatorRestarts
<1>2. ASSUME NEW x \in Runs
      PROVE  Sound(spec[x], pod[x], egressd[x], owned[x], claim[x], ca[x], trust[x], config[x], Resting)
  BY RestingIdle, IdleReady DEF ObjectInv, Sound
<1>3. \A x \in Runs : work'[x] = Resting
  BY <1>1
<1> QED BY <1>1, <1>2, <1>3 DEF ObjectInv, objects

(* Going from one place to the next.                                                       *)
LEMMA PlacedReady ==
  ASSUME NEW w, NEW s, NEW q, NEW p, NEW o, NEW c, NEW g, NEW t, NEW f,
         PlaceReady(s, w.pc, q, p, o, c, g, t, f)
  PROVE  PlaceReady(s, Place(w), q, p, o, c, g, t, f)
<1>1. Place(w) = w.pc \/ Idle(w)
  BY DEF Place, Idle
<1> QED BY <1>1, IdleReady

LEMMA Placed ==
  ASSUME NEW w, w.pc \notin {"readPolicy", "writePolicy"}
  PROVE  Place(w) = w.pc
BY DEF Place, Revoking

LEMMA GoesOn ==
  ASSUME AccessInv, ObjectInv, NEW r \in Runs, NEW pc, Goto(r, pc), spec' = spec, env' \in Environments,
         NEW p, NEW e, NEW o, NEW c, NEW g, NEW t, NEW f,
         Only(pod, pod', r, p), Only(egressd, egressd', r, e), Only(owned, owned', r, o),
         Only(claim, claim', r, c), Only(ca, ca', r, g), Only(trust, trust', r, t), Only(config, config', r, f),
         Shaped(p, e, o, c, g, t), ObjectsOK(spec[r], p, e, o, c, g, t, f),
         PlaceReady(spec[r], pc, work[r].pod, p, o, c, g, t, f)
  PROVE  ObjectInv'
<1>1. DOMAIN work[r] = PassFields
  BY DEF AccessInv, PassOK
<1>2. PICK w : w = [work[r] EXCEPT !.pc = pc]
  OBVIOUS
<1>3. w.pc = pc /\ w.pod = work[r].pod /\ Only(work, work', r, w)
  BY <1>1, <1>2, Stepped, GotoOnly
<1>4. PlaceReady(spec[r], Place(w), w.pod, p, o, c, g, t, f)
  BY <1>3, PlacedReady
<1>5. Effect(r, p, e, o, c, g, t, f, w) /\ Sound(spec[r], p, e, o, c, g, t, f, w)
  BY <1>3, <1>4 DEF Effect, Sound
<1> QED BY <1>5, SoundKeepsInv

(* The same where only one pass moved.                                                      *)
LEMMA GoesOnAlone ==
  ASSUME AccessInv, ObjectInv, NEW r \in Runs, NEW pc, Goto(r, pc), spec' = spec, env' \in Environments,
         UNCHANGED objects,
         PlaceReady(spec[r], pc, work[r].pod, pod[r], owned[r], claim[r], ca[r], trust[r], config[r])
  PROVE  ObjectInv'
<1>1. /\ Shaped(pod[r], egressd[r], owned[r], claim[r], ca[r], trust[r])
      /\ ObjectsOK(spec[r], pod[r], egressd[r], owned[r], claim[r], ca[r], trust[r], config[r])
  BY DEF ObjectInv, Sound
<1> QED BY <1>1, Framed, GoesOn DEF objects

LEMMA ReadPodKeeps ==
  ASSUME CurrentCache, AccessInv, ObjectInv, NEW r \in Runs, ReadPod(r)
  PROVE  ObjectInv'
<1>1. spec' = spec /\ env' \in Environments /\ UNCHANGED objects
  BY DEF ReadPod, outside, ObjectInv
<1>2. SeenPod(r) = pod[r]
  BY DEF CurrentCache, SeenPod
<1>3. \/ work' = [work EXCEPT ![r].pc = "fail", ![r].job = "drift"]
      \/ \E a : Stored(r, a, "cleanup")
      \/ work' = [work EXCEPT ![r].pc = "deadline", ![r].pod = pod[r]]
      \/ ~Exists(pod[r]) /\ (Goto(r, "fail") \/ Goto(r, "deadline"))
  BY <1>2 DEF ReadPod
<1>4. "fail" \notin Building /\ "cleanup" \notin Building
  BY NotBuildingPlaces DEF NotBuilding
<1>5. CASE work' = [work EXCEPT ![r].pc = "fail", ![r].job = "drift"]
  BY <1>1, <1>4, <1>5, JobLeaves, LeavesKeep
<1>6. CASE \E a : Stored(r, a, "cleanup")
  BY <1>1, <1>4, <1>6, StoredLeaves, LeavesKeep
<1>7. CASE work' = [work EXCEPT ![r].pc = "deadline", ![r].pod = pod[r]]
  <2>1. DOMAIN work[r] = PassFields /\ DOMAIN work = Runs
    BY DEF AccessInv, PassOK
  <2>2. PICK w : w = [work[r] EXCEPT !.pc = "deadline", !.pod = pod[r]]
    OBVIOUS
  <2>3. work' = [work EXCEPT ![r] = w]
    BY <1>7, <2>2
  <2>4. w.pc = "deadline" /\ w.pod = pod[r]
    BY <2>1, <2>2 DEF PassFields
  <2>5. PlaceReady(spec[r], w.pc, w.pod, pod[r], owned[r], claim[r], ca[r], trust[r], config[r])
    BY <2>4 DEF PlaceReady, Claimed, Provisioned, Configured, Certified, Fenced, Gated
  <2>6. Only(work, work', r, w)
    BY <2>1, <2>3, OnlyUpdate
  <2> QED BY <1>1, <2>5, <2>6, PlacedReady, PassMoves
<1>8. CASE ~Exists(pod[r]) /\ Goto(r, "fail")
  BY <1>1, <1>4, <1>8, GotoLeaves, LeavesKeep
<1>9. CASE ~Exists(pod[r]) /\ Goto(r, "deadline")
  <2>1. PlaceReady(spec[r], "deadline", work[r].pod, pod[r], owned[r], claim[r], ca[r], trust[r], config[r])
    BY <1>9 DEF PlaceReady, Claimed, Provisioned, Configured, Certified, Fenced, Gated
  <2> QED BY <1>1, <1>9, <2>1, GoesOnAlone
<1> QED BY <1>3, <1>5, <1>6, <1>7, <1>8, <1>9

LEMMA DeadlineKeeps ==
  ASSUME AccessInv, ObjectInv, NEW r \in Runs, reconcileActiveDeadline(r)
  PROVE  ObjectInv'
<1>1. spec' = spec /\ env' \in Environments /\ UNCHANGED objects
  BY DEF reconcileActiveDeadline, outside, ObjectInv
<1>2. \/ \E a : Stored(r, a, "cleanup")
      \/ /\ work[r].pc = "deadline"
         /\ work' = [work EXCEPT ![r].pc = IF spec[r].persistent THEN "workspace" ELSE "secrets",
                                 ![r].run = InitializeAgentRunStatus(@)]
      \/ Return(r)
  BY DEF reconcileActiveDeadline, At
<1>3. CASE \E a : Stored(r, a, "cleanup")
  <2>1. "cleanup" \notin Building
    BY NotBuildingPlaces DEF NotBuilding
  <2> QED BY <1>1, <1>3, <2>1, StoredLeaves, LeavesKeep
<1>4. CASE Return(r)
  BY <1>1, <1>4, ReturnLeaves, LeavesKeep
<1>5. CASE /\ work[r].pc = "deadline"
           /\ work' = [work EXCEPT ![r].pc = IF spec[r].persistent THEN "workspace" ELSE "secrets",
                                   ![r].run = InitializeAgentRunStatus(@)]
  <2>1. DOMAIN work[r] = PassFields /\ DOMAIN work = Runs
    BY DEF AccessInv, PassOK
  <2>2. PICK pc, a, w : /\ pc = IF spec[r].persistent THEN "workspace" ELSE "secrets"
                        /\ a = InitializeAgentRunStatus(work[r].run)
                        /\ w = [work[r] EXCEPT !.pc = pc, !.run = a]
    OBVIOUS
  <2>3. work' = [work EXCEPT ![r] = w]
    BY <1>5, <2>2
  <2>4. w.pc = pc /\ w.pod = work[r].pod
    BY <2>1, <2>2 DEF PassFields
  <2>5. PlaceReady(spec[r], "deadline", work[r].pod, pod[r], owned[r], claim[r], ca[r], trust[r], config[r])
    BY <1>5, Placed DEF ObjectInv, Sound
  <2>6. PlaceReady(spec[r], w.pc, w.pod, pod[r], owned[r], claim[r], ca[r], trust[r], config[r])
    BY <2>2, <2>4, <2>5 DEF PlaceReady, Building, Claimed, Provisioned, Configured, Certified, Fenced, Gated
  <2>7. Only(work, work', r, w)
    BY <2>1, <2>3, OnlyUpdate
  <2> QED BY <1>1, <2>6, <2>7, PlacedReady, PassMoves
<1> QED BY <1>2, <1>3, <1>4, <1>5

LEMMA KeepCAKeeps ==
  ASSUME AccessInv, ObjectInv, NEW r \in Runs, keepEgressCASecret(r)
  PROVE  ObjectInv'
<1>1. spec' = spec /\ env' \in Environments /\ UNCHANGED objects
  BY DEF keepEgressCASecret, outside, ObjectInv
<1>2. work[r].pc = "ca" /\ ca[r].generation # 0 /\ Goto(r, "fence")
  BY DEF keepEgressCASecret, At
<1>3. PlaceReady(spec[r], "ca", work[r].pod, pod[r], owned[r], claim[r], ca[r], trust[r], config[r])
  BY <1>2, Placed DEF ObjectInv, Sound
<1>4. PlaceReady(spec[r], "fence", work[r].pod, pod[r], owned[r], claim[r], ca[r], trust[r], config[r])
  BY <1>2, <1>3 DEF PlaceReady, Building, Claimed, Provisioned, Configured, Certified, Fenced, Gated
<1> QED BY <1>1, <1>2, <1>4, GoesOnAlone

(* The policy is read and written at places that ask for the same.                            *)
LEMMA PolicyPlaces ==
  ASSUME NEW s, NEW q, NEW p, NEW o, NEW c, NEW g, NEW t, NEW f,
         NEW pc \in {"readPolicy", "writePolicy"}, PlaceReady(s, pc, q, p, o, c, g, t, f),
         NEW next \in {"readPolicy", "writePolicy", "prepare"}
  PROVE  PlaceReady(s, next, q, p, o, c, g, t, f)
BY DEF PlaceReady, Building, Claimed, Provisioned, Configured, Certified, Fenced, Gated

LEMMA AfterPolicyPlaces ==
  ASSUME NEW r, AfterPolicy(r) \notin {"cleanupPods", "removeFinalizer"}
  PROVE  AfterPolicy(r) = "prepare" /\ ~Revoking(work[r])
BY DEF AfterPolicy, Revoking

LEMMA PolicyStepsKeep ==
  ASSUME AccessInv, ObjectInv, NEW r \in Runs, ReadPolicy(r) \/ WritePolicy(r)
  PROVE  ObjectInv'
<1>1. spec' = spec /\ env' \in Environments /\ UNCHANGED objects
  BY DEF ReadPolicy, WritePolicy, outside, ObjectInv
<1>2. PICK pc, copy : /\ work' = [work EXCEPT ![r].pc = pc, ![r].copy = copy]
                      /\ pc \in {"readPolicy", "writePolicy", AfterPolicy(r)}
  <2>1. CASE ReadPolicy(r)
    BY <2>1 DEF ReadPolicy
  <2>2. CASE WritePolicy(r)
    BY <2>2 DEF WritePolicy
  <2> QED BY <2>1, <2>2
<1>3. work[r].pc \in {"readPolicy", "writePolicy"}
  BY DEF ReadPolicy, WritePolicy, At
<1>4. DOMAIN work[r] = PassFields /\ DOMAIN work = Runs
  BY DEF AccessInv, PassOK
<1>5. PICK w : w = [work[r] EXCEPT !.pc = pc, !.copy = copy]
  OBVIOUS
<1>6. work' = [work EXCEPT ![r] = w]
  BY <1>2, <1>5
<1>7. w.pc = pc /\ w.pod = work[r].pod /\ w.job = work[r].job
  BY <1>4, <1>5 DEF PassFields
<1>8. Only(work, work', r, w)
  BY <1>4, <1>6, OnlyUpdate
<1>9. CASE Revoking(work[r]) \/ pc \in {"cleanupPods", "removeFinalizer"}
  <2>1. Idle(w)
    <3>1. CASE pc \in {"cleanupPods", "removeFinalizer"}
      BY <1>7, <3>1, NotBuildingPlaces DEF Idle, NotBuilding
    <3>2. CASE Revoking(work[r]) /\ pc \notin {"cleanupPods", "removeFinalizer"}
      <4>1. pc \in {"readPolicy", "writePolicy"}
        BY <1>2, <3>2, AfterPolicyPlaces
      <4> QED BY <1>7, <3>2, <4>1 DEF Idle, Revoking
    <3> QED BY <1>9, <3>1, <3>2
  <2> QED BY <1>1, <1>8, <2>1, LeavesKeep DEF Leaves
<1>10. CASE ~Revoking(work[r]) /\ pc \notin {"cleanupPods", "removeFinalizer"}
  <2>1. pc \in {"readPolicy", "writePolicy", "prepare"}
    BY <1>2, <1>10, AfterPolicyPlaces
  <2>2. PlaceReady(spec[r], work[r].pc, work[r].pod, pod[r], owned[r], claim[r], ca[r], trust[r], config[r])
    BY <1>10 DEF ObjectInv, Sound, Place
  <2>3. PlaceReady(spec[r], w.pc, w.pod, pod[r], owned[r], claim[r], ca[r], trust[r], config[r])
    BY <1>3, <1>7, <2>1, <2>2, PolicyPlaces
  <2> QED BY <1>1, <1>8, <2>3, PlacedReady, PassMoves
<1> QED BY <1>9, <1>10
-----------------------------------------------------------------------------
(* Steps that make objects.                                                                *)
LEMMA ClaimGoesOn ==
  ASSUME AccessInv, ObjectInv, NEW r \in Runs, NEW pc, Goto(r, pc), spec' = spec, env' \in Environments,
         UNCHANGED <<pod, egressd, owned, ca, trust, config>>, NEW c, claim' = [claim EXCEPT ![r] = c],
         DOMAIN c = {"workspace", "docker"},
         ObjectsOK(spec[r], pod[r], egressd[r], owned[r], c, ca[r], trust[r], config[r]),
         PlaceReady(spec[r], pc, work[r].pod, pod[r], owned[r], c, ca[r], trust[r], config[r])
  PROVE  ObjectInv'
<1>1. Shaped(pod[r], egressd[r], owned[r], c, ca[r], trust[r])
  BY DEF ObjectInv, Sound, Shaped
<1>2. Only(claim, claim', r, c)
  BY OnlyUpdate DEF ObjectInv
<1> QED BY <1>1, <1>2, Framed, GoesOn

LEMMA WorkspaceKeeps ==
  ASSUME AccessInv, ObjectInv, NEW r \in Runs, reconcileWorkspacePVC(r)
  PROVE  ObjectInv'
<1>1. PICK s, p, e, o, c, g, t, f, w :
           /\ View(r, s, p, e, o, c, g, t, f, w) /\ Shaped(p, e, o, c, g, t) /\ ObjectsOK(s, p, e, o, c, g, t, f)
           /\ PlaceReady(s, Place(w), w.pod, p, o, c, g, t, f)
  BY Viewed
<1>2. PICK v, new, pc : /\ v = IF c.workspace = "none" THEN "pending" ELSE c.workspace
                        /\ new = [c EXCEPT !.workspace = v]
                        /\ pc = IF Exists(w.pod) /\ ~w.pod.docker THEN "migration" ELSE "docker"
  OBVIOUS
<1>3. /\ w.pc = "workspace" /\ claim' = [claim EXCEPT ![r] = new] /\ Goto(r, pc)
      /\ spec' = spec /\ env' \in Environments /\ UNCHANGED <<pod, egressd, owned, ca, trust, config>>
  BY <1>1, <1>2 DEF reconcileWorkspacePVC, View, At, outside, ObjectInv
<1>4. DOMAIN new = {"workspace", "docker"} /\ new.workspace = v /\ new.docker = c.docker /\ v # "none"
  BY <1>1, <1>2 DEF Shaped
<1>5. ObjectsOK(s, p, e, o, new, g, t, f)
  BY <1>1, <1>4 DEF ObjectsOK
<1>6. PlaceReady(s, "workspace", w.pod, p, o, c, g, t, f)
  BY <1>1, <1>3, Placed
<1>7. PlaceReady(s, pc, w.pod, p, o, new, g, t, f)
  BY <1>2, <1>4, <1>6 DEF PlaceReady, Building, Claimed, Provisioned, Configured, Certified, Fenced, Gated
<1> QED BY <1>1, <1>3, <1>4, <1>5, <1>7, ClaimGoesOn DEF View

LEMMA DockerKeeps ==
  ASSUME AccessInv, ObjectInv, NEW r \in Runs, reconcileDockerPVC(r)
  PROVE  ObjectInv'
<1>1. PICK s, p, e, o, c, g, t, f, w :
           /\ View(r, s, p, e, o, c, g, t, f, w) /\ Shaped(p, e, o, c, g, t) /\ ObjectsOK(s, p, e, o, c, g, t, f)
           /\ PlaceReady(s, Place(w), w.pod, p, o, c, g, t, f)
  BY Viewed
<1>2. PICK v, new : /\ v = IF c.docker = "none" THEN "pending" ELSE c.docker
                    /\ new = [c EXCEPT !.docker = v]
  OBVIOUS
<1>3. /\ w.pc = "docker" /\ claim' = [claim EXCEPT ![r] = new] /\ Goto(r, "secrets")
      /\ spec' = spec /\ env' \in Environments /\ UNCHANGED <<pod, egressd, owned, ca, trust, config>>
  BY <1>1, <1>2 DEF reconcileDockerPVC, View, At, outside, ObjectInv
<1>4. DOMAIN new = {"workspace", "docker"} /\ new.docker = v /\ new.workspace = c.workspace /\ v # "none"
  BY <1>1, <1>2 DEF Shaped
<1>5. ObjectsOK(s, p, e, o, new, g, t, f)
  BY <1>1, <1>4 DEF ObjectsOK
<1>6. PlaceReady(s, "docker", w.pod, p, o, c, g, t, f)
  BY <1>1, <1>3, Placed
<1>7. PlaceReady(s, "secrets", w.pod, p, o, new, g, t, f)
  BY <1>4, <1>6 DEF PlaceReady, Building, Claimed, Provisioned, Configured, Certified, Fenced, Gated
<1> QED BY <1>1, <1>3, <1>4, <1>5, <1>7, ClaimGoesOn DEF View

LEMMA MigrationKeeps ==
  ASSUME AccessInv, ObjectInv, NEW r \in Runs, reconcileLegacyDockerStorageMigration(r)
  PROVE  ObjectInv'
<1>1. PICK s, p, e, o, c, g, t, f, w :
           /\ View(r, s, p, e, o, c, g, t, f, w) /\ Shaped(p, e, o, c, g, t) /\ ObjectsOK(s, p, e, o, c, g, t, f)
           /\ PlaceReady(s, Place(w), w.pod, p, o, c, g, t, f)
  BY Viewed
<1>2. PICK v, new : /\ v = IF c.docker = "pending" THEN "none" ELSE c.docker
                    /\ new = [c EXCEPT !.docker = v]
  OBVIOUS
<1>3. /\ w.pc = "migration" /\ claim' = [claim EXCEPT ![r] = new] /\ Goto(r, "secrets")
      /\ spec' = spec /\ env' \in Environments /\ UNCHANGED <<pod, egressd, owned, ca, trust, config>>
  BY <1>1, <1>2 DEF reconcileLegacyDockerStorageMigration, View, At, outside, ObjectInv
<1>4. DOMAIN new = {"workspace", "docker"} /\ new.workspace = c.workspace
  BY <1>1, <1>2 DEF Shaped
<1>5. PlaceReady(s, "migration", w.pod, p, o, c, g, t, f)
  BY <1>1, <1>3, Placed
<1>6. Exists(w.pod) /\ (Exists(p) => ~p.docker)
  BY <1>5 DEF PlaceReady, Building, Claimed
<1>7. ObjectsOK(s, p, e, o, new, g, t, f)
  BY <1>1, <1>6 DEF ObjectsOK
<1>8. PlaceReady(s, "secrets", w.pod, p, o, new, g, t, f)
  BY <1>4, <1>5, <1>6 DEF PlaceReady, Building, Claimed, Provisioned, Configured, Certified, Fenced, Gated
<1> QED BY <1>1, <1>3, <1>4, <1>7, <1>8, ClaimGoesOn DEF View

(* More of the other objects never hurts.                                                   *)
LEMMA Grown ==
  ASSUME NEW s, NEW p, NEW e, NEW o, NEW c, NEW g, NEW t, NEW f, NEW q, NEW pc, NEW more,
         o \subseteq more, more \subseteq Owned
  PROVE  /\ Shaped(p, e, o, c, g, t) => Shaped(p, e, more, c, g, t)
         /\ ObjectsOK(s, p, e, o, c, g, t, f) => ObjectsOK(s, p, e, more, c, g, t, f)
         /\ PlaceReady(s, pc, q, p, o, c, g, t, f) => PlaceReady(s, pc, q, p, more, c, g, t, f)
BY DEF Shaped, ObjectsOK, PlaceReady

LEMMA OwnedGrows ==
  ASSUME AccessInv, ObjectInv, NEW r \in Runs, spec' = spec, env' \in Environments,
         UNCHANGED <<pod, egressd, claim, ca, trust, config>>, NEW more, owned' = [owned EXCEPT ![r] = more],
         owned[r] \subseteq more, more \subseteq Owned, NEW w, Only(work, work', r, w),
         PlaceReady(spec[r], w.pc, w.pod, pod[r], more, claim[r], ca[r], trust[r], config[r])
           \/ w = work[r]
  PROVE  ObjectInv'
<1>1. PICK s, p, e, o, c, g, t, f, old :
           /\ View(r, s, p, e, o, c, g, t, f, old) /\ Shaped(p, e, o, c, g, t) /\ ObjectsOK(s, p, e, o, c, g, t, f)
           /\ PlaceReady(s, Place(old), old.pod, p, o, c, g, t, f)
  BY Viewed
<1>2. Shaped(p, e, more, c, g, t) /\ ObjectsOK(s, p, e, more, c, g, t, f)
  BY <1>1, Grown DEF View
<1>3. PlaceReady(s, Place(old), old.pod, p, more, c, g, t, f)
  BY <1>1, Grown DEF View
<1>4. PlaceReady(s, Place(w), w.pod, p, more, c, g, t, f)
  BY <1>1, <1>3, PlacedReady DEF View
<1>5. Only(owned, owned', r, more)
  BY OnlyUpdate DEF ObjectInv
<1>6. Effect(r, p, e, more, c, g, t, f, w) /\ Sound(s, p, e, more, c, g, t, f, w)
  BY <1>1, <1>2, <1>4, <1>5, Framed DEF Effect, Sound, View
<1> QED BY <1>1, <1>6, SoundKeepsInv DEF View

LEMMA SecretsKeep ==
  ASSUME AccessInv, ObjectInv, NEW r \in Runs, reconcileTokenSecrets(r)
  PROVE  ObjectInv'
<1>1. PICK s, p, e, o, c, g, t, f, w :
           /\ View(r, s, p, e, o, c, g, t, f, w) /\ Shaped(p, e, o, c, g, t) /\ ObjectsOK(s, p, e, o, c, g, t, f)
           /\ PlaceReady(s, Place(w), w.pod, p, o, c, g, t, f) /\ (s.enforced => s.mediated)
  BY Viewed
<1>2. /\ w.pc = "secrets" /\ spec' = spec /\ env' \in Environments
      /\ UNCHANGED <<pod, egressd, claim, ca, trust, config>>
  BY <1>1 DEF reconcileTokenSecrets, View, At, outside, ObjectInv
<1>3. CASE \E x \in Tokens(r) : owned' = [owned EXCEPT ![r] = owned[r] \cup {x}] /\ work' = work
  <2>1. PICK x \in Tokens(r) : owned' = [owned EXCEPT ![r] = owned[r] \cup {x}] /\ work' = work
    BY <1>3
  <2>2. x \in Owned
    BY DEF Tokens, Owned
  <2>3. owned[r] \cup {x} \subseteq Owned /\ owned[r] \subseteq owned[r] \cup {x}
    BY <1>1, <2>2 DEF Shaped, View
  <2> QED BY <1>2, <2>1, <2>3, Framed, OwnedGrows
<1>4. CASE owned' = owned /\ Goto(r, IF spec[r].mediated THEN "egressdConfig" ELSE "readPolicy")
  <2>1. PICK pc : pc = IF s.mediated THEN "egressdConfig" ELSE "readPolicy"
    OBVIOUS
  <2>2. PlaceReady(s, "secrets", w.pod, p, o, c, g, t, f)
    BY <1>1, <1>2, Placed
  <2>3. PlaceReady(s, pc, w.pod, p, o, c, g, t, f)
    BY <1>1, <2>1, <2>2 DEF PlaceReady, Building, Claimed, Provisioned, Configured, Certified, Fenced, Gated
  <2>4. Goto(r, pc) /\ UNCHANGED objects
    BY <1>1, <1>2, <1>4, <2>1 DEF View, objects
  <2> QED BY <1>1, <1>2, <2>3, <2>4, GoesOnAlone DEF View
<1> QED BY <1>3, <1>4 DEF reconcileTokenSecrets

LEMMA FenceKeeps ==
  ASSUME AccessInv, ObjectInv, NEW r \in Runs, reconcileNetworkPolicies(r)
  PROVE  ObjectInv'
<1>1. PICK s, p, e, o, c, g, t, f, w :
           /\ View(r, s, p, e, o, c, g, t, f, w) /\ Shaped(p, e, o, c, g, t) /\ ObjectsOK(s, p, e, o, c, g, t, f)
           /\ PlaceReady(s, Place(w), w.pod, p, o, c, g, t, f)
  BY Viewed
<1>2. /\ w.pc = "fence" /\ spec' = spec /\ env' \in Environments
      /\ UNCHANGED <<pod, egressd, claim, ca, trust, config>>
  BY <1>1 DEF reconcileNetworkPolicies, View, At, outside, ObjectInv
<1>3. CASE \E x \in Fence : owned' = [owned EXCEPT ![r] = owned[r] \cup {x}] /\ work' = work
  <2>1. PICK x \in Fence : owned' = [owned EXCEPT ![r] = owned[r] \cup {x}] /\ work' = work
    BY <1>3
  <2>2. x \in Owned
    BY DEF Fence, Owned
  <2>3. owned[r] \cup {x} \subseteq Owned /\ owned[r] \subseteq owned[r] \cup {x}
    BY <1>1, <2>2 DEF Shaped, View
  <2> QED BY <1>2, <2>1, <2>3, Framed, OwnedGrows
<1>4. CASE Fence \subseteq owned[r] /\ Goto(r, "egressd") /\ owned' = owned
  <2>1. PlaceReady(s, "fence", w.pod, p, o, c, g, t, f)
    BY <1>1, <1>2, Placed
  <2>2. PlaceReady(s, "egressd", w.pod, p, o, c, g, t, f)
    BY <1>1, <1>4, <2>1
       DEF View, PlaceReady, Building, Claimed, Provisioned, Configured, Certified, Fenced, Gated
  <2>3. UNCHANGED objects
    BY <1>2, <1>4 DEF objects
  <2> QED BY <1>1, <1>2, <1>4, <2>2, <2>3, GoesOnAlone DEF View
<1> QED BY <1>3, <1>4 DEF reconcileNetworkPolicies

LEMMA ServiceKeeps ==
  ASSUME AccessInv, ObjectInv, NEW r \in Runs, reconcileEgressdService(r)
  PROVE  ObjectInv'
<1>1. PICK s, p, e, o, c, g, t, f, w :
           /\ View(r, s, p, e, o, c, g, t, f, w) /\ Shaped(p, e, o, c, g, t) /\ ObjectsOK(s, p, e, o, c, g, t, f)
           /\ PlaceReady(s, Place(w), w.pod, p, o, c, g, t, f) /\ DOMAIN w = PassFields
  BY Viewed
<1>2. PICK more, new : more = o \cup {"service"} /\ new = [w EXCEPT !.pc = "readPolicy"]
  OBVIOUS
<1>3. /\ w.pc = "service" /\ spec' = spec /\ env' \in Environments /\ Goto(r, "readPolicy")
      /\ UNCHANGED <<pod, egressd, claim, ca, trust, config>> /\ owned' = [owned EXCEPT ![r] = more]
  BY <1>1, <1>2 DEF reconcileEgressdService, View, At, outside, ObjectInv
<1>4. o \subseteq more /\ more \subseteq Owned
  BY <1>1, <1>2 DEF Shaped, Owned
<1>5. new.pc = "readPolicy" /\ new.pod = w.pod /\ Only(work, work', r, new)
  BY <1>1, <1>2, <1>3, Stepped, GotoOnly DEF View
<1>6. PlaceReady(s, "service", w.pod, p, more, c, g, t, f)
  BY <1>1, <1>3, <1>4, Placed, Grown
<1>7. PlaceReady(s, new.pc, new.pod, p, more, c, g, t, f)
  BY <1>5, <1>6 DEF PlaceReady, Building, Claimed, Provisioned, Configured, Certified, Fenced, Gated
<1> QED BY <1>1, <1>3, <1>4, <1>5, <1>7, OwnedGrows DEF View

(* The config changes only while no Pod was rendered against it.                               *)
LEMMA ConfigKeeps ==
  ASSUME CurrentCache, AccessInv, ObjectInv, NEW r \in Runs, reconcileEgressdConfigMap(r)
  PROVE  ObjectInv'
<1>1. PICK s, p, e, o, c, g, t, f, w :
           /\ View(r, s, p, e, o, c, g, t, f, w) /\ Shaped(p, e, o, c, g, t) /\ ObjectsOK(s, p, e, o, c, g, t, f)
           /\ PlaceReady(s, Place(w), w.pod, p, o, c, g, t, f)
  BY Viewed
<1>2. PICK new, pc : /\ new = IF f # NoEnvironment /\ (Exists(w.pod) \/ (s.enforced /\ Exists(e))) THEN f ELSE env
                     /\ pc = IF s.enforced THEN "ca" ELSE "readPolicy"
  OBVIOUS
<1>3. SeenEgressd(r) = egressd[r]
  BY DEF CurrentCache, SeenEgressd
<1>4. /\ w.pc = "egressdConfig" /\ config' = [config EXCEPT ![r] = new] /\ Goto(r, pc)
      /\ spec' = spec /\ env' \in Environments /\ UNCHANGED <<pod, egressd, owned, claim, ca, trust>>
  BY <1>1, <1>2, <1>3 DEF reconcileEgressdConfigMap, View, At, outside, ObjectInv
<1>5. new # NoEnvironment
  BY <1>2, ReconcilerAssumption DEF ObjectInv, NoEnvironment
<1>6. PlaceReady(s, "egressdConfig", w.pod, p, o, c, g, t, f)
  BY <1>1, <1>4, Placed
<1>7. Exists(p) => Exists(w.pod)
  BY <1>6 DEF PlaceReady, Building, Claimed, Provisioned
<1>8. s.mediated /\ (Exists(p) \/ Ours(e)) => new = f
  BY <1>1, <1>2, <1>7 DEF ObjectsOK, Ours
<1>9. Ours(e) => s.mediated
  <2>1. s.enforced => s.mediated
    BY <1>1, ReconcilerAssumption DEF ObjectInv, View
  <2> QED BY <1>1, <2>1 DEF ObjectsOK
<1>10. ObjectsOK(s, p, e, o, c, g, t, new)
  BY <1>1, <1>5, <1>8, <1>9 DEF ObjectsOK
<1>11. PlaceReady(s, pc, w.pod, p, o, c, g, t, new)
  <2>1. CASE s.enforced
    BY <1>2, <1>5, <1>6, <2>1
       DEF PlaceReady, Building, Claimed, Provisioned, Configured, Certified, Fenced, Gated
  <2>2. CASE ~s.enforced
    BY <1>2, <1>5, <1>6, <2>2
       DEF PlaceReady, Building, Claimed, Provisioned, Configured, Certified, Fenced, Gated
  <2> QED BY <2>1, <2>2
<1>12. Only(config, config', r, new)
  BY <1>4, OnlyUpdate DEF ObjectInv
<1> QED BY <1>1, <1>4, <1>10, <1>11, <1>12, Framed, GoesOn DEF View

LEMMA CreateCAKeeps ==
  ASSUME AccessInv, ObjectInv, NEW r \in Runs, createEgressCASecret(r)
  PROVE  ObjectInv'
<1>1. PICK s, p, e, o, c, g, t, f, w :
           /\ View(r, s, p, e, o, c, g, t, f, w) /\ Shaped(p, e, o, c, g, t) /\ ObjectsOK(s, p, e, o, c, g, t, f)
           /\ PlaceReady(s, Place(w), w.pod, p, o, c, g, t, f)
  BY Viewed
<1>2. PICK new : new = [generation |-> 1, fresh |-> TRUE]
  OBVIOUS
<1>3. /\ w.pc = "ca" /\ g.generation = 0 /\ ca' = [ca EXCEPT ![r] = new] /\ Goto(r, "fence")
      /\ spec' = spec /\ env' \in Environments /\ UNCHANGED <<pod, egressd, owned, claim, trust, config>>
  BY <1>1, <1>2 DEF createEgressCASecret, View, At, outside, ObjectInv
<1>4. /\ DOMAIN new = {"generation", "fresh"} /\ new.generation = 1 /\ new.fresh = TRUE
      /\ 1 \in 0..MaxGeneration
  BY <1>2, ReconcilerAssumption
<1>5. Shaped(p, e, o, c, new, t)
  BY <1>1, <1>4 DEF Shaped
<1>6. ObjectsOK(s, p, e, o, c, new, t, f)
  BY <1>1, <1>3 DEF ObjectsOK
<1>7. PlaceReady(s, "ca", w.pod, p, o, c, g, t, f)
  BY <1>1, <1>3, Placed
<1>8. PlaceReady(s, "fence", w.pod, p, o, c, new, t, f)
  BY <1>4, <1>7 DEF PlaceReady, Building, Claimed, Provisioned, Configured, Certified, Fenced, Gated
<1>9. Only(ca, ca', r, new)
  BY <1>3, OnlyUpdate DEF ObjectInv
<1> QED BY <1>1, <1>3, <1>5, <1>6, <1>8, <1>9, Framed, GoesOn DEF View

(* The next CA comes when nobody uses the last one.                                         *)
LEMMA RotateKeeps ==
  ASSUME CurrentCache, AccessInv, ObjectInv, NEW r \in Runs, rotateEgressCASecret(r)
  PROVE  ObjectInv'
<1>1. PICK s, p, e, o, c, g, t, f, w :
           /\ View(r, s, p, e, o, c, g, t, f, w) /\ Shaped(p, e, o, c, g, t) /\ ObjectsOK(s, p, e, o, c, g, t, f)
  BY Viewed
<1>2. PICK new : new = [generation |-> g.generation + 1, fresh |-> TRUE]
  OBVIOUS
<1>3. SeenPod(r) = pod[r] /\ SeenEgressd(r) = egressd[r]
  BY DEF CurrentCache, SeenPod, SeenEgressd
<1>4. /\ ~g.fresh /\ ca' = [ca EXCEPT ![r] = new] /\ Return(r) /\ ~Exists(p) /\ ~Exists(e)
      /\ spec' = spec /\ env' \in Environments /\ UNCHANGED <<pod, egressd, owned, claim, trust, config>>
  BY <1>1, <1>2, <1>3 DEF rotateEgressCASecret, Rotating, View, outside, ObjectInv
<1>5. /\ DOMAIN new = {"generation", "fresh"} /\ new.generation = g.generation + 1 /\ new.fresh = TRUE
  BY <1>2
<1>6. g.generation + 1 \in 0..MaxGeneration
  BY <1>1, <1>4, ReconcilerAssumption DEF Shaped
<1>7. Shaped(p, e, o, c, new, t)
  BY <1>1, <1>5, <1>6 DEF Shaped
<1>8. ObjectsOK(s, p, e, o, c, new, t, f)
  BY <1>4 DEF ObjectsOK, Ours
<1>9. PlaceReady(s, Place(Resting), Resting.pod, p, o, c, new, t, f)
  BY RestingIdle, IdleReady
<1>10. Only(ca, ca', r, new)
  BY <1>4, OnlyUpdate DEF ObjectInv
<1>11. Effect(r, p, e, o, c, new, t, f, Resting) /\ Sound(s, p, e, o, c, new, t, f, Resting)
  BY <1>1, <1>4, <1>7, <1>8, <1>9, <1>10, Framed, ReturnOnly DEF Effect, Sound, View
<1> QED BY <1>1, <1>11, SoundKeepsInv DEF View

LEMMA EgressdKeeps ==
  ASSUME CurrentCache, AccessInv, ObjectInv, NEW r \in Runs, reconcileEgressdPod(r)
  PROVE  ObjectInv'
<1>1. PICK s, p, e, o, c, g, t, f, w :
           /\ View(r, s, p, e, o, c, g, t, f, w) /\ Shaped(p, e, o, c, g, t) /\ ObjectsOK(s, p, e, o, c, g, t, f)
           /\ PlaceReady(s, Place(w), w.pod, p, o, c, g, t, f) /\ (s.enforced => s.mediated)
  BY Viewed
<1>2. PICK new : new = [NoPod EXCEPT !.state = "pending", !.generation = g.generation, !.config = f]
  OBVIOUS
<1>3. SeenEgressd(r) = egressd[r]
  BY DEF CurrentCache, SeenEgressd
<1>4. /\ w.pc = "egressd" /\ Goto(r, "service") /\ (egressd' = egressd \/ egressd' = [egressd EXCEPT ![r] = new])
      /\ spec' = spec /\ env' \in Environments /\ UNCHANGED <<pod, owned, claim, ca, trust, config>>
  BY <1>1, <1>2, <1>3 DEF reconcileEgressdPod, View, At, outside, ObjectInv
<1>5. PlaceReady(s, "egressd", w.pod, p, o, c, g, t, f)
  BY <1>1, <1>4, Placed
<1>6. PlaceReady(s, "service", w.pod, p, o, c, g, t, f)
  BY <1>5 DEF PlaceReady, Building, Claimed, Provisioned, Configured, Certified, Fenced, Gated
<1>7. CASE egressd' = egressd
  <2>1. UNCHANGED objects
    BY <1>4, <1>7 DEF objects
  <2> QED BY <1>1, <1>4, <1>6, <2>1, GoesOnAlone DEF View
<1>8. CASE egressd' = [egressd EXCEPT ![r] = new]
  <2>1. /\ DOMAIN new = PodFields /\ new.state = "pending" /\ new.generation = g.generation /\ new.config = f
    BY <1>2, NoPodFields DEF PodFields
  <2>2. s.enforced /\ g.generation # 0 /\ Fence \subseteq o /\ f # NoEnvironment
    BY <1>1, <1>5 DEF PlaceReady, Configured, Certified, Fenced
  <2>3. Shaped(p, new, o, c, g, t)
    BY <1>1, <2>1 DEF Shaped, PodStates
  <2>4. ObjectsOK(s, p, new, o, c, g, t, f)
    BY <1>1, <2>1, <2>2 DEF ObjectsOK, Ours
  <2>5. Only(egressd, egressd', r, new)
    BY <1>8, OnlyUpdate DEF ObjectInv
  <2> QED BY <1>1, <1>4, <1>6, <2>3, <2>4, <2>5, Framed, GoesOn DEF View
<1> QED BY <1>4, <1>7, <1>8

LEMMA PrepareKeeps ==
  ASSUME AccessInv, ObjectInv, NEW r \in Runs, Prepare(r)
  PROVE  ObjectInv'
<1>1. PICK s, p, e, o, c, g, t, f, w :
           /\ View(r, s, p, e, o, c, g, t, f, w) /\ Shaped(p, e, o, c, g, t) /\ ObjectsOK(s, p, e, o, c, g, t, f)
           /\ PlaceReady(s, Place(w), w.pod, p, o, c, g, t, f) /\ DOMAIN w = PassFields
  BY Viewed
<1>2. PICK more, pc, a, new :
           /\ more = o \cup {"agentConfig"}
           /\ pc = IF Exists(w.pod) THEN "status" ELSE IF s.enforced THEN "gates" ELSE "create"
           /\ a = [w.run EXCEPT !.policyReady = w.run.policyReady \/ s.enforced]
           /\ new = [w EXCEPT !.run = a, !.pc = pc]
  OBVIOUS
<1>3. /\ w.pc = "prepare" /\ spec' = spec /\ env' \in Environments
      /\ UNCHANGED <<pod, egressd, claim, ca, trust, config>> /\ owned' = [owned EXCEPT ![r] = more]
  BY <1>1, <1>2 DEF Prepare, View, At, outside, ObjectInv
<1>4. work' = [work EXCEPT ![r] = new]
  BY <1>1, <1>2 DEF Prepare, View
<1>5. o \subseteq more /\ more \subseteq Owned
  BY <1>1, <1>2 DEF Shaped, Owned
<1>6. new.pc = pc /\ new.pod = w.pod
  BY <1>1, <1>2 DEF PassFields
<1>7. Only(work, work', r, new)
  BY <1>4, OnlyUpdate DEF AccessInv
<1>8. PlaceReady(s, "prepare", w.pod, p, more, c, g, t, f)
  BY <1>1, <1>3, <1>5, Placed, Grown
<1>9. PlaceReady(s, pc, w.pod, p, more, c, g, t, f)
  <2>1. CASE Exists(w.pod)
    BY <1>2, <2>1, AnyReady, NotBuildingPlaces DEF NotBuilding
  <2>2. CASE ~Exists(w.pod)
    BY <1>2, <1>8, <2>2
       DEF PlaceReady, Building, Claimed, Provisioned, Configured, Certified, Fenced, Gated
  <2> QED BY <2>1, <2>2
<1> QED BY <1>1, <1>3, <1>5, <1>6, <1>7, <1>9, OwnedGrows DEF View

LEMMA PublishKeeps ==
  ASSUME AccessInv, ObjectInv, NEW r \in Runs, publishEgressCAConfigMap(r)
  PROVE  ObjectInv'
<1>1. PICK s, p, e, o, c, g, t, f, w :
           /\ View(r, s, p, e, o, c, g, t, f, w) /\ Shaped(p, e, o, c, g, t) /\ ObjectsOK(s, p, e, o, c, g, t, f)
           /\ PlaceReady(s, Place(w), w.pod, p, o, c, g, t, f) /\ DOMAIN w = PassFields
  BY Viewed
<1>2. /\ w.pc = "gates" /\ spec' = spec /\ env' \in Environments
      /\ UNCHANGED <<pod, egressd, owned, claim, ca, config>>
  BY <1>1 DEF publishEgressCAConfigMap, View, At, outside, ObjectInv
<1>3. CASE Return(r) /\ trust' = trust
  <2>1. UNCHANGED objects
    BY <1>2, <1>3 DEF objects
  <2> QED BY <1>2, <1>3, <2>1, ReturnLeaves, LeavesKeep
<1>4. CASE /\ trust' = [trust EXCEPT ![r] = ca[r].generation]
           /\ work' = [work EXCEPT ![r].pc = "create", ![r].run.caPublished = "published"]
  <2>1. PICK a, new : /\ a = [w.run EXCEPT !.caPublished = "published"]
                      /\ new = [w EXCEPT !.pc = "create", !.run = a]
    OBVIOUS
  <2>2. work' = [work EXCEPT ![r] = new]
    BY <1>1, <1>4, <2>1 DEF View
  <2>3. new.pc = "create" /\ new.pod = w.pod
    BY <1>1, <2>1 DEF PassFields
  <2>4. PICK v : v = g.generation
    OBVIOUS
  <2>5. Only(work, work', r, new) /\ Only(trust, trust', r, v)
    BY <1>1, <1>4, <2>2, <2>4, OnlyUpdate DEF AccessInv, ObjectInv, View
  <2>6. Shaped(p, e, o, c, g, v) /\ ObjectsOK(s, p, e, o, c, g, v, f)
    BY <1>1, <2>4 DEF Shaped, ObjectsOK
  <2>7. PlaceReady(s, "gates", w.pod, p, o, c, g, t, f)
    BY <1>1, <1>2, Placed
  <2>8. PlaceReady(s, new.pc, new.pod, p, o, c, g, v, f)
    BY <2>3, <2>4, <2>7
       DEF PlaceReady, Building, Claimed, Provisioned, Configured, Certified, Fenced, Gated
  <2>9. Effect(r, p, e, o, c, g, v, f, new) /\ Sound(s, p, e, o, c, g, v, f, new)
    BY <1>1, <1>2, <2>5, <2>6, <2>8, Framed, PlacedReady DEF Effect, Sound, View
  <2> QED BY <1>1, <2>9, SoundKeepsInv DEF View
<1> QED BY <1>3, <1>4 DEF publishEgressCAConfigMap, StoredAndReturned

LEMMA CreateKeeps ==
  ASSUME AccessInv, ObjectInv, NEW r \in Runs, createAgentPod(r)
  PROVE  ObjectInv'
<1>1. PICK s, p, e, o, c, g, t, f, w :
           /\ View(r, s, p, e, o, c, g, t, f, w) /\ Shaped(p, e, o, c, g, t) /\ ObjectsOK(s, p, e, o, c, g, t, f)
           /\ PlaceReady(s, Place(w), w.pod, p, o, c, g, t, f) /\ DOMAIN w = PassFields /\ (s.enforced => s.mediated)
  BY Viewed
<1>2. PICK n, new, next :
           /\ n = IF s.enforced THEN g.generation ELSE 0
           /\ new = [NoPod EXCEPT !.state = "pending", !.generation = n,
                                  !.config = f, !.spec = w.run.spec, !.docker = s.persistent]
           /\ next = [w EXCEPT !.pc = "status", !.pod = new]
  OBVIOUS
<1>3. /\ w.pc = "create" /\ spec' = spec /\ env' \in Environments /\ pod' = [pod EXCEPT ![r] = new]
      /\ work' = [work EXCEPT ![r].pc = "status", ![r].pod = new]
      /\ UNCHANGED <<egressd, owned, claim, ca, trust, config>>
  BY <1>1, <1>2 DEF createAgentPod, View, At, ObjectInv
<1>4. work' = [work EXCEPT ![r] = next]
  BY <1>1, <1>2, <1>3 DEF View
<1>5. /\ DOMAIN new = PodFields /\ new.state = "pending" /\ new.generation = n /\ new.config = f
      /\ new.docker = s.persistent
  BY <1>2, NoPodFields DEF PodFields
<1>6. PlaceReady(s, "create", w.pod, p, o, c, g, t, f)
  BY <1>1, <1>3, Placed
<1>7. /\ s.persistent => c.workspace # "none" /\ c.docker # "none"
      /\ s.mediated => f # NoEnvironment
      /\ s.enforced => g.generation # 0 /\ Fence \subseteq o /\ t = g.generation
  BY <1>6 DEF PlaceReady, Claimed, Provisioned, Configured, Certified, Fenced, Gated
<1>8. Shaped(new, e, o, c, g, t)
  BY <1>1, <1>5 DEF Shaped, PodStates
<1>9. ObjectsOK(s, new, e, o, c, g, t, f)
  BY <1>1, <1>2, <1>5, <1>7 DEF ObjectsOK
<1>10. next.pc = "status"
  BY <1>1, <1>2 DEF PassFields
<1>11. Idle(next)
  BY <1>10, NotBuildingPlaces DEF Idle, NotBuilding
<1>12. Only(pod, pod', r, new) /\ Only(work, work', r, next)
  BY <1>3, <1>4, OnlyUpdate DEF AccessInv
<1>13. Effect(r, new, e, o, c, g, t, f, next) /\ Sound(s, new, e, o, c, g, t, f, next)
  BY <1>1, <1>3, <1>8, <1>9, <1>11, <1>12, Framed, IdleReady DEF Effect, Sound, View
<1> QED BY <1>1, <1>13, SoundKeepsInv DEF View
-----------------------------------------------------------------------------
(* A Pod goes on, terminates or is gone: nothing it was made from changes.                     *)
Fades(p, new) ==
  /\ DOMAIN new = PodFields /\ new.state \in PodStates
  /\ Exists(new) => /\ Exists(p) /\ new.generation = p.generation /\ new.config = p.config
                    /\ new.docker = p.docker /\ new.own = p.own

LEMMA FadeKinds ==
  ASSUME NEW p, DOMAIN p = PodFields, p.state \in PodStates
  PROVE  /\ Fades(p, p) /\ Fades(p, NoPod) /\ Fades(p, Deleted(p))
         /\ Exists(p) => \A v \in PodStates : Fades(p, [p EXCEPT !.state = v])
         /\ Exists(p) => \A v \in PodStates : \A event : Fades(p, [p EXCEPT !.state = v, !.event = event])
<1>1. Fades(p, p)
  BY DEF Fades
<1>2. Fades(p, NoPod)
  <2>1. NoPod.state = "none"
    BY DEF NoPod
  <2> QED BY <2>1, NoPodFields DEF Fades, PodStates
<1>3. Fades(p, Deleted(p))
  BY DEF Fades, Deleted, PodFields, Exists
<1>4. ASSUME Exists(p), NEW v \in PodStates PROVE Fades(p, [p EXCEPT !.state = v])
  BY <1>4 DEF Fades, PodFields
<1>5. ASSUME Exists(p), NEW v \in PodStates, NEW event PROVE Fades(p, [p EXCEPT !.state = v, !.event = event])
  BY <1>5 DEF Fades, PodFields
<1> QED BY <1>1, <1>2, <1>3, <1>4, <1>5

LEMMA FadeSound ==
  ASSUME NEW s, NEW p, NEW e, NEW o, NEW c, NEW g, NEW t, NEW f, NEW pc, NEW q, NEW p2, NEW e2,
         Fades(p, p2), Fades(e, e2), Shaped(p, e, o, c, g, t)
  PROVE  /\ Shaped(p2, e2, o, c, g, t)
         /\ ObjectsOK(s, p, e, o, c, g, t, f) => ObjectsOK(s, p2, e2, o, c, g, t, f)
         /\ PlaceReady(s, pc, q, p, o, c, g, t, f) => PlaceReady(s, pc, q, p2, o, c, g, t, f)
<1>1. Shaped(p2, e2, o, c, g, t)
  BY DEF Shaped, Fades
<1>2. Ours(e2) => Ours(e) /\ e2.generation = e.generation /\ e2.config = e.config
  BY DEF Fades, Ours
<1>3. Exists(p2) => Exists(p) /\ p2.generation = p.generation /\ p2.config = p.config /\ p2.docker = p.docker
  BY DEF Fades
<1>4. ASSUME ObjectsOK(s, p, e, o, c, g, t, f) PROVE ObjectsOK(s, p2, e2, o, c, g, t, f)
  BY <1>2, <1>3, <1>4 DEF ObjectsOK
<1>5. ASSUME PlaceReady(s, pc, q, p, o, c, g, t, f) PROVE PlaceReady(s, pc, q, p2, o, c, g, t, f)
  BY <1>3, <1>5 DEF PlaceReady
<1> QED BY <1>1, <1>4, <1>5

LEMMA FadingKeeps ==
  ASSUME AccessInv, ObjectInv, NEW r \in Runs, NEW p2, NEW e2, Only(pod, pod', r, p2), Only(egressd, egressd', r, e2),
         Fades(pod[r], p2), Fades(egressd[r], e2), spec' = spec, env' \in Environments,
         UNCHANGED <<owned, claim, ca, trust, config>>, work' = work \/ Leaves(r)
  PROVE  ObjectInv'
<1>1. PICK s, p, e, o, c, g, t, f, w :
           /\ View(r, s, p, e, o, c, g, t, f, w) /\ Shaped(p, e, o, c, g, t) /\ ObjectsOK(s, p, e, o, c, g, t, f)
           /\ PlaceReady(s, Place(w), w.pod, p, o, c, g, t, f)
  BY Viewed
<1>2. PICK new : Only(work, work', r, new) /\ (new = w \/ Idle(new))
  BY <1>1, Framed DEF Leaves, View
<1>3. PlaceReady(s, Place(new), new.pod, p, o, c, g, t, f)
  BY <1>1, <1>2, IdleReady
<1>4. /\ Shaped(p2, e2, o, c, g, t) /\ ObjectsOK(s, p2, e2, o, c, g, t, f)
      /\ PlaceReady(s, Place(new), new.pod, p2, o, c, g, t, f)
  BY <1>1, <1>3, FadeSound DEF View
<1>5. Effect(r, p2, e2, o, c, g, t, f, new) /\ Sound(s, p2, e2, o, c, g, t, f, new)
  BY <1>1, <1>2, <1>4, Framed DEF Effect, Sound, View
<1> QED BY <1>1, <1>5, SoundKeepsInv DEF View

LEMMA PodShapes ==
  ASSUME ObjectInv, NEW r \in Runs
  PROVE  /\ DOMAIN pod[r] = PodFields /\ pod[r].state \in PodStates
         /\ DOMAIN egressd[r] = PodFields /\ egressd[r].state \in PodStates
BY DEF ObjectInv, Sound, Shaped

(* The steps of the passes that ask Pods to go.                                              *)
LEMMA DeletionsKeep ==
  ASSUME CurrentCache, AccessInv, ObjectInv, NEW r \in Runs,
         dropDriftedPods(r) \/ deleteCAConsumer(r) \/ deleteTerminalPods(r)
  PROVE  ObjectInv'
<1>1. PICK p, e : p = pod[r] /\ e = egressd[r]
  OBVIOUS
<1>2. Fades(p, p) /\ Fades(p, Deleted(p)) /\ Fades(e, e) /\ Fades(e, Deleted(e))
  BY <1>1, PodShapes, FadeKinds
<1>3. spec' = spec /\ env' \in Environments /\ UNCHANGED <<owned, claim, ca, trust, config>>
  BY DEF dropDriftedPods, deleteCAConsumer, deleteTerminalPods, outside, ObjectInv
<1>4. Leaves(r)
  <2>1. Return(r) \/ Goto(r, "cleanupRest")
    BY DEF dropDriftedPods, deleteCAConsumer, deleteTerminalPods
  <2> QED BY <2>1, ReturnLeaves, GotoLeaves, NotBuildingPlaces DEF NotBuilding
<1>5. PICK p2, e2 : /\ p2 \in {p, Deleted(p)} /\ e2 \in {e, Deleted(e)}
                    /\ (pod' = pod /\ p2 = p) \/ pod' = [pod EXCEPT ![r] = p2]
                    /\ (egressd' = egressd /\ e2 = e) \/ egressd' = [egressd EXCEPT ![r] = e2]
  <2>1. CASE dropDriftedPods(r)
    BY <1>1, <2>1 DEF dropDriftedPods
  <2>2. CASE deleteCAConsumer(r)
    BY <1>1, <2>2 DEF deleteCAConsumer
  <2>3. CASE deleteTerminalPods(r)
    BY <1>1, <2>3 DEF deleteTerminalPods
  <2> QED BY <2>1, <2>2, <2>3
<1>6. Only(pod, pod', r, p2) /\ Only(egressd, egressd', r, e2)
  BY <1>1, <1>5, OnlyUpdate DEF AccessInv, ObjectInv
<1> QED BY <1>1, <1>2, <1>3, <1>4, <1>5, <1>6, FadingKeeps

(* The kubelet, and nodes that fail.                                                         *)
LEMMA KubeletKeeps ==
  ASSUME AccessInv, ObjectInv, NEW r \in Runs,
         PodStarts(r) \/ AgentExits(r) \/ EgressdStarts(r) \/ PodRemoved(r) \/ PodDisrupted(r)
  PROVE  ObjectInv'
<1>1. PICK p, e : p = pod[r] /\ e = egressd[r]
  OBVIOUS
<1>2. DOMAIN p = PodFields /\ p.state \in PodStates /\ DOMAIN e = PodFields /\ e.state \in PodStates
  BY <1>1, PodShapes
<1>3. /\ spec' = spec /\ env' \in Environments /\ UNCHANGED <<owned, claim, ca, trust, config, work>>
  BY DEF PodStarts, AgentExits, EgressdStarts, PodRemoved, PodDisrupted, outside, ObjectInv
<1>4. PICK p2, e2 : /\ Fades(p, p2) /\ Fades(e, e2)
                    /\ (pod' = pod /\ p2 = p) \/ pod' = [pod EXCEPT ![r] = p2]
                    /\ (egressd' = egressd /\ e2 = e) \/ egressd' = [egressd EXCEPT ![r] = e2]
  <2>1. CASE PodStarts(r)
    <3>1. PICK new : new = [p EXCEPT !.state = "running"]
      OBVIOUS
    <3>2. pod' = [pod EXCEPT ![r] = new] /\ egressd' = egressd /\ p.state = "pending"
      BY <1>1, <2>1, <3>1 DEF PodStarts
    <3>3. Fades(p, new) /\ Fades(e, e)
      BY <1>2, <3>1, <3>2, FadeKinds DEF PodStates, Exists
    <3> QED BY <3>2, <3>3
  <2>2. CASE AgentExits(r)
    <3>1. PICK event : pod' = [pod EXCEPT ![r].state = "exited", ![r].event = event] /\ p.state = "running"
      BY <1>1, <2>2 DEF AgentExits
    <3>2. PICK new : new = [p EXCEPT !.state = "exited", !.event = event]
      OBVIOUS
    <3>3. pod' = [pod EXCEPT ![r] = new] /\ egressd' = egressd
      BY <1>1, <2>2, <3>1, <3>2 DEF AgentExits
    <3>4. Fades(p, new) /\ Fades(e, e)
      BY <1>2, <3>1, <3>2, FadeKinds DEF PodStates, Exists
    <3> QED BY <3>3, <3>4
  <2>3. CASE EgressdStarts(r)
    <3>1. PICK new : new = [e EXCEPT !.state = "running"]
      OBVIOUS
    <3>2. egressd' = [egressd EXCEPT ![r] = new] /\ pod' = pod /\ e.state = "pending"
      BY <1>1, <2>3, <3>1 DEF EgressdStarts
    <3>3. Fades(e, new) /\ Fades(p, p)
      BY <1>2, <3>1, <3>2, FadeKinds DEF PodStates, Exists
    <3> QED BY <3>2, <3>3
  <2>4. CASE PodRemoved(r)
    <3>1. Fades(p, p) /\ Fades(e, e) /\ Fades(p, NoPod) /\ Fades(e, NoPod)
      BY <1>2, FadeKinds
    <3> QED BY <2>4, <3>1 DEF PodRemoved
  <2>5. CASE PodDisrupted(r)
    <3>1. PICK new : new = [p EXCEPT !.state = "failed"]
      OBVIOUS
    <3>2. /\ Fades(p, p) /\ Fades(e, e) /\ Fades(p, Deleted(p)) /\ Fades(e, Deleted(e))
          /\ p.state \in {"pending", "running"} => Fades(p, new)
      BY <1>2, <3>1, FadeKinds DEF PodStates, Exists
    <3>3. \/ p.state \in {"pending", "running"} /\ pod' = [pod EXCEPT ![r] = new] /\ egressd' = egressd
          \/ pod' = [pod EXCEPT ![r] = Deleted(p)] /\ egressd' = egressd
          \/ egressd' = [egressd EXCEPT ![r] = Deleted(e)] /\ pod' = pod
      BY <1>1, <2>5, <3>1 DEF PodDisrupted
    <3> QED BY <3>2, <3>3
  <2> QED BY <2>1, <2>2, <2>3, <2>4, <2>5
<1>5. Only(pod, pod', r, p2) /\ Only(egressd, egressd', r, e2)
  BY <1>1, <1>4, OnlyUpdate DEF AccessInv, ObjectInv
<1> QED BY <1>1, <1>3, <1>4, <1>5, FadingKeeps

(* Claims are bound and lost, never taken back.                                               *)
LEMMA ClaimChangesKeep ==
  ASSUME AccessInv, ObjectInv, NEW r \in Runs, ClaimChanges(r)
  PROVE  ObjectInv'
<1>1. PICK s, p, e, o, c, g, t, f, w :
           /\ View(r, s, p, e, o, c, g, t, f, w) /\ Shaped(p, e, o, c, g, t) /\ ObjectsOK(s, p, e, o, c, g, t, f)
           /\ PlaceReady(s, Place(w), w.pod, p, o, c, g, t, f)
  BY Viewed
<1>2. /\ spec' = spec /\ env' \in Environments /\ UNCHANGED <<pod, egressd, owned, ca, trust, config, work>>
  BY DEF ClaimChanges, ObjectInv
<1>3. PICK new : /\ claim' = [claim EXCEPT ![r] = new] /\ DOMAIN new = {"workspace", "docker"}
                 /\ c.workspace # "none" => new.workspace # "none"
                 /\ c.docker # "none" => new.docker # "none"
  <2>1. PICK v \in {"bound", "lost"} : \/ claim' = [claim EXCEPT ![r].workspace = v]
                                       \/ claim' = [claim EXCEPT ![r].docker = v]
    BY DEF ClaimChanges
  <2>2. PICK a, b : a = [c EXCEPT !.workspace = v] /\ b = [c EXCEPT !.docker = v]
    OBVIOUS
  <2>3. claim' = [claim EXCEPT ![r] = a] \/ claim' = [claim EXCEPT ![r] = b]
    BY <1>1, <2>1, <2>2 DEF View
  <2>4. /\ DOMAIN a = {"workspace", "docker"} /\ a.workspace = v /\ a.docker = c.docker
        /\ DOMAIN b = {"workspace", "docker"} /\ b.docker = v /\ b.workspace = c.workspace
    BY <1>1, <2>2 DEF Shaped
  <2> QED BY <2>3, <2>4
<1>4. Shaped(p, e, o, new, g, t) /\ ObjectsOK(s, p, e, o, new, g, t, f)
  BY <1>1, <1>3 DEF Shaped, ObjectsOK
<1>5. PlaceReady(s, Place(w), w.pod, p, o, new, g, t, f)
  BY <1>1, <1>3 DEF PlaceReady
<1>6. Only(claim, claim', r, new)
  BY <1>3, OnlyUpdate DEF ObjectInv
<1>7. Effect(r, p, e, o, new, g, t, f, w) /\ Sound(s, p, e, o, new, g, t, f, w)
  BY <1>1, <1>2, <1>4, <1>5, <1>6, Framed DEF Effect, Sound, View
<1> QED BY <1>1, <1>7, SoundKeepsInv DEF View

LEMMA CAAgesKeeps ==
  ASSUME AccessInv, ObjectInv, NEW r \in Runs, EgressCAAges(r)
  PROVE  ObjectInv'
<1>1. PICK s, p, e, o, c, g, t, f, w :
           /\ View(r, s, p, e, o, c, g, t, f, w) /\ Shaped(p, e, o, c, g, t) /\ ObjectsOK(s, p, e, o, c, g, t, f)
           /\ PlaceReady(s, Place(w), w.pod, p, o, c, g, t, f)
  BY Viewed
<1>2. PICK new : new = [g EXCEPT !.fresh = FALSE]
  OBVIOUS
<1>3. /\ spec' = spec /\ env' \in Environments /\ UNCHANGED <<pod, egressd, owned, claim, trust, config, work>>
      /\ g.generation < MaxGeneration /\ ca' = [ca EXCEPT ![r] = new]
  BY <1>1, <1>2 DEF EgressCAAges, View, outside, ObjectInv
<1>4. DOMAIN new = {"generation", "fresh"} /\ new.generation = g.generation /\ new.fresh = FALSE
  BY <1>1, <1>2 DEF Shaped
<1>5. Shaped(p, e, o, c, new, t) /\ ObjectsOK(s, p, e, o, c, new, t, f)
  BY <1>1, <1>3, <1>4 DEF Shaped, ObjectsOK
<1>6. PlaceReady(s, Place(w), w.pod, p, o, c, new, t, f)
  BY <1>1, <1>4 DEF PlaceReady
<1>7. Only(ca, ca', r, new)
  BY <1>3, OnlyUpdate DEF ObjectInv
<1>8. Effect(r, p, e, o, c, new, t, f, w) /\ Sound(s, p, e, o, c, new, t, f, w)
  BY <1>1, <1>3, <1>5, <1>6, <1>7, Framed DEF Effect, Sound, View
<1> QED BY <1>1, <1>8, SoundKeepsInv DEF View

(* Everything goes at once, when no Pod of the run is left.                                     *)
LEMMA NothingOK ==
  ASSUME NEW s, NEW p, NEW e, NEW o, NEW c, NEW g, NEW t, Shaped(p, e, o, c, g, t), ~Exists(p), ~Ours(e)
  PROVE  /\ Shaped(p, e, {}, NoClaims, [generation |-> 0, fresh |-> FALSE], 0)
         /\ ObjectsOK(s, p, e, {}, NoClaims, [generation |-> 0, fresh |-> FALSE], 0, NoEnvironment)
<1>1. DOMAIN NoClaims = {"workspace", "docker"}
  BY DEF NoClaims
<1>2. PICK new : new = [generation |-> 0, fresh |-> FALSE]
  OBVIOUS
<1>3. DOMAIN new = {"generation", "fresh"} /\ new.generation = 0 /\ new.fresh = FALSE
  BY <1>2
<1>4. 0 \in 0..MaxGeneration /\ 0 < MaxGeneration
  BY ReconcilerAssumption
<1>5. Shaped(p, e, {}, NoClaims, new, 0)
  BY <1>1, <1>3, <1>4 DEF Shaped
<1>6. ObjectsOK(s, p, e, {}, NoClaims, new, 0, NoEnvironment)
  BY DEF ObjectsOK
<1> QED BY <1>2, <1>5, <1>6

LEMMA ResourcesGoKeep ==
  ASSUME CurrentCache, AccessInv, ObjectInv, NEW r \in Runs, deleteTerminalResources(r)
  PROVE  ObjectInv'
<1>1. PICK s, p, e, o, c, g, t, f, w :
           /\ View(r, s, p, e, o, c, g, t, f, w) /\ Shaped(p, e, o, c, g, t) /\ ObjectsOK(s, p, e, o, c, g, t, f)
  BY Viewed
<1>2. SeenPod(r) = pod[r] /\ SeenEgressd(r) = egressd[r]
  BY DEF CurrentCache, SeenPod, SeenEgressd
<1>3. spec' = spec /\ env' \in Environments /\ UNCHANGED <<pod, egressd>>
  BY DEF deleteTerminalResources, outside, ObjectInv
<1>4. Leaves(r)
  <2>1. Return(r) \/ Goto(r, "retention")
    BY DEF deleteTerminalResources
  <2> QED BY <2>1, ReturnLeaves, GotoLeaves, NotBuildingPlaces DEF NotBuilding
<1>5. CASE UNCHANGED <<owned, claim, ca, trust, config>>
  <2>1. UNCHANGED objects
    BY <1>3, <1>5 DEF objects
  <2> QED BY <1>3, <1>4, <2>1, LeavesKeep
<1>6. CASE ~UNCHANGED <<owned, claim, ca, trust, config>>
  <2>1. PICK none : none = [generation |-> 0, fresh |-> FALSE]
    OBVIOUS
  <2>2. /\ ~Exists(p) /\ ~Ours(e) /\ owned' = [owned EXCEPT ![r] = {}] /\ claim' = [claim EXCEPT ![r] = NoClaims]
        /\ ca' = [ca EXCEPT ![r] = none] /\ trust' = [trust EXCEPT ![r] = 0]
        /\ config' = [config EXCEPT ![r] = NoEnvironment]
    BY <1>1, <1>2, <1>6, <2>1 DEF deleteTerminalResources, View, Ours
  <2>3. Shaped(p, e, {}, NoClaims, none, 0) /\ ObjectsOK(s, p, e, {}, NoClaims, none, 0, NoEnvironment)
    BY <1>1, <2>1, <2>2, NothingOK
  <2>4. PICK new : Only(work, work', r, new) /\ Idle(new)
    BY <1>4 DEF Leaves
  <2>5. /\ Only(owned, owned', r, {}) /\ Only(claim, claim', r, NoClaims) /\ Only(ca, ca', r, none)
        /\ Only(trust, trust', r, 0) /\ Only(config, config', r, NoEnvironment)
    BY <2>2, OnlyUpdate DEF ObjectInv
  <2>6. /\ Effect(r, p, e, {}, NoClaims, none, 0, NoEnvironment, new)
        /\ Sound(s, p, e, {}, NoClaims, none, 0, NoEnvironment, new)
    BY <1>1, <1>3, <2>3, <2>4, <2>5, Framed, IdleReady DEF Effect, Sound, View
  <2> QED BY <1>1, <2>6, SoundKeepsInv DEF View
<1> QED BY <1>5, <1>6

LEMMA CollectionKeeps ==
  ASSUME AccessInv, ObjectInv, NEW r \in Runs, GarbageCollected(r)
  PROVE  ObjectInv'
<1>1. PICK s, p, e, o, c, g, t, f, w :
           /\ View(r, s, p, e, o, c, g, t, f, w) /\ Shaped(p, e, o, c, g, t) /\ ObjectsOK(s, p, e, o, c, g, t, f)
  BY Viewed
<1>2. PICK none, e2 : none = [generation |-> 0, fresh |-> FALSE] /\ e2 = IF e.own THEN NoPod ELSE e
  OBVIOUS
<1>3. /\ w.pc = "idle" /\ pod' = [pod EXCEPT ![r] = NoPod] /\ egressd' = [egressd EXCEPT ![r] = e2]
      /\ owned' = [owned EXCEPT ![r] = {}] /\ claim' = [claim EXCEPT ![r] = NoClaims]
      /\ ca' = [ca EXCEPT ![r] = none] /\ trust' = [trust EXCEPT ![r] = 0]
      /\ config' = [config EXCEPT ![r] = NoEnvironment]
      /\ spec' = spec /\ env' \in Environments /\ work' = work
  BY <1>1, <1>2 DEF GarbageCollected, View, At, outside, ObjectInv
<1>4. Fades(p, NoPod) /\ Fades(e, e2)
  BY <1>1, <1>2, FadeKinds DEF Shaped
<1>5. Shaped(NoPod, e2, o, c, g, t)
  BY <1>1, <1>4, FadeSound
<1>6. ~Exists(NoPod) /\ ~Ours(e2)
  BY <1>2, NoPodFields DEF Ours
<1>7. Shaped(NoPod, e2, {}, NoClaims, none, 0) /\ ObjectsOK(s, NoPod, e2, {}, NoClaims, none, 0, NoEnvironment)
  BY <1>2, <1>5, <1>6, NothingOK
<1>8. Idle(w)
  BY <1>3, NotBuildingPlaces DEF Idle, NotBuilding
<1>9. /\ Only(pod, pod', r, NoPod) /\ Only(egressd, egressd', r, e2)
      /\ Only(owned, owned', r, {}) /\ Only(claim, claim', r, NoClaims) /\ Only(ca, ca', r, none)
      /\ Only(trust, trust', r, 0) /\ Only(config, config', r, NoEnvironment)
  BY <1>3, OnlyUpdate DEF ObjectInv, AccessInv
<1>10. /\ Effect(r, NoPod, e2, {}, NoClaims, none, 0, NoEnvironment, w)
       /\ Sound(s, NoPod, e2, {}, NoClaims, none, 0, NoEnvironment, w)
  BY <1>1, <1>3, <1>7, <1>8, <1>9, Framed, IdleReady DEF Effect, Sound, View
<1> QED BY <1>1, <1>10, SoundKeepsInv DEF View
-----------------------------------------------------------------------------
LEMMA ObjectStep ==
  ASSUME CurrentCache, AccessInv, ObjectInv, [ReconcilerNext]_reconcilerVars
  PROVE  ObjectInv'
<1>1. CASE UNCHANGED reconcilerVars
  BY <1>1 DEF reconcilerVars, ObjectInv
<1>2. ASSUME NEW r \in Runs, PassStep(r) PROVE ObjectInv'
  <2>1. \/ AddFinalizer(r) \/ setAgentRunFailed(r) \/ persistRotationIntent(r) \/ waitForEgressd(r) \/ SyncStatus(r)
        \/ reconcileTerminalResourceCleanup(r) \/ reconcileTerminalAgentRunRetention(r) \/ finalize(r)
        \/ removeFinalizer(r) \/ Refused(r)
        \/ dropDriftedPods(r) \/ deleteCAConsumer(r) \/ deleteTerminalPods(r) \/ deleteTerminalResources(r)
        \/ ReadPod(r) \/ reconcileActiveDeadline(r) \/ keepEgressCASecret(r) \/ ReadPolicy(r) \/ WritePolicy(r)
        \/ reconcileWorkspacePVC(r) \/ reconcileDockerPVC(r) \/ reconcileLegacyDockerStorageMigration(r)
        \/ reconcileTokenSecrets(r) \/ reconcileEgressdConfigMap(r) \/ createEgressCASecret(r)
        \/ rotateEgressCASecret(r) \/ reconcileNetworkPolicies(r) \/ reconcileEgressdPod(r)
        \/ reconcileEgressdService(r) \/ Prepare(r) \/ publishEgressCAConfigMap(r) \/ createAgentPod(r)
    BY <1>2 DEF PassStep
  <2> QED BY <2>1, LeavingSteps, DeletionsKeep, ResourcesGoKeep, ReadPodKeeps, DeadlineKeeps, KeepCAKeeps,
             PolicyStepsKeep, WorkspaceKeeps, DockerKeeps, MigrationKeeps, SecretsKeep, ConfigKeeps, CreateCAKeeps,
             RotateKeeps, FenceKeeps, EgressdKeeps, ServiceKeeps, PrepareKeeps, PublishKeeps, CreateKeeps
<1>3. ASSUME NEW r \in Runs, ClusterStep(r) PROVE ObjectInv'
  BY <1>3, UnseenSteps, KubeletKeeps, ClaimChangesKeep, CAAgesKeeps, CollectionKeeps DEF ClusterStep
<1>4. ASSUME NEW r \in Runs, Trouble(r) PROVE ObjectInv'
  BY <1>4, LeavingSteps, KubeletKeeps, UnseenSteps DEF Trouble
<1>5. CASE PolicyProjected
  <2>1. UNCHANGED <<spec, objects, env, work>>
    BY <1>5 DEF PolicyProjected, objects, outside
  <2> QED BY <2>1 DEF objects, ObjectInv
<1> QED BY <1>1, <1>2, <1>3, <1>4, <1>5, BeginKeeps, RestartKeeps DEF ReconcilerNext

LEMMA InitObjects == ReconcilerInit => ObjectInv
<1> SUFFICES ASSUME ReconcilerInit PROVE ObjectInv
  OBVIOUS
<1>1. /\ DOMAIN egressd = Runs /\ DOMAIN owned = Runs /\ DOMAIN claim = Runs /\ DOMAIN ca = Runs
      /\ DOMAIN trust = Runs /\ DOMAIN config = Runs /\ env \in Environments
  BY DEF ReconcilerInit
<1>2. \A r \in Runs : spec[r] \in Specs
  BY ReconcilerAssumption DEF ReconcilerInit
<1>3. ASSUME NEW r \in Runs
      PROVE  Sound(spec[r], pod[r], egressd[r], owned[r], claim[r], ca[r], trust[r], config[r], work[r])
  <2>1. PICK s, p, e, o, c, g : /\ s = spec[r] /\ p = pod[r] /\ e = egressd[r] /\ o = owned[r] /\ c = claim[r]
                                /\ g = ca[r]
    OBVIOUS
  <2>2. /\ s \in Specs /\ (s.oldPod => ~s.mediated) /\ (s.leaving => ~s.mediated)
        /\ (s.enforced => s.mediated)
    BY <1>2, <2>1, ReconcilerAssumption
  <2>3. /\ p = (IF s.oldPod \/ s.leaving THEN OldPod ELSE NoPod)
        /\ e = (IF s.foreign THEN ForeignPod ELSE NoPod) /\ g = [generation |-> 0, fresh |-> FALSE]
        /\ o = (IF s.oldPod \/ s.leaving THEN Tokens(r) \cup {"agentConfig"} ELSE {})
        /\ trust[r] = 0 /\ config[r] = NoEnvironment /\ work[r] = Resting
    BY <2>1 DEF ReconcilerInit, Underway
  <2>4. /\ DOMAIN OldPod = PodFields /\ OldPod.state = "running" /\ OldPod.docker = FALSE
        /\ DOMAIN ForeignPod = PodFields /\ ForeignPod.state = "running" /\ ForeignPod.own = FALSE
        /\ DOMAIN NoPod = PodFields /\ NoPod.state = "none"
    BY DEF OldPod, ForeignPod, NoPod, PodFields
  <2>5. o \subseteq Owned
    BY <2>3 DEF Tokens, Owned
  <2>6. DOMAIN c = {"workspace", "docker"}
    BY <2>1 DEF ReconcilerInit
  <2>7. /\ DOMAIN g = {"generation", "fresh"} /\ g.generation = 0 /\ g.fresh = FALSE
        /\ 0 \in 0..MaxGeneration /\ 0 < MaxGeneration
    BY <2>3, ReconcilerAssumption
  <2>8. DOMAIN p = PodFields /\ DOMAIN e = PodFields /\ p.state \in PodStates /\ e.state \in PodStates
    BY <2>3, <2>4 DEF PodStates
  <2>9. Shaped(p, e, o, c, g, 0)
    BY <2>5, <2>6, <2>7, <2>8 DEF Shaped
  <2>10. ~Ours(e) /\ (Exists(p) => ~s.mediated /\ ~s.enforced /\ ~p.docker)
    BY <2>2, <2>3, <2>4 DEF Ours, Exists
  <2>11. ObjectsOK(s, p, e, o, c, g, 0, NoEnvironment)
    BY <2>10 DEF ObjectsOK
  <2> QED BY <2>1, <2>3, <2>9, <2>11, RestingIdle, IdleReady DEF Sound
<1> QED BY <1>1, <1>2, <1>3 DEF ObjectInv

LEMMA AccessInvariant == ReconcilerSafety => []AccessInv
BY InitAccess, AccessInvKept, PTL DEF ReconcilerSafety

LEMMA ObjectInvariant ==
  ASSUME CurrentCache
  PROVE  ReconcilerSafety => []ObjectInv
<1>1. AccessInv /\ ObjectInv /\ [ReconcilerNext]_reconcilerVars => ObjectInv'
  BY ObjectStep
<1> QED BY <1>1, InitObjects, AccessInvariant, PTL DEF ReconcilerSafety

(* What a Pod depends on outlives it: as long as a run exists, a Pod of an enforced run, one       *)
(* that terminates included, has its NetworkPolicies, and a Pod with a Docker claim has both           *)
(* its claims, however passes, disruptions, rotations, cleanups and failures interleave.               *)
THEOREM PodsKeepDependencies ==
  ASSUME CurrentCache
  PROVE  ReconcilerSafety => []DependenciesOutlivePods
<1>1. ASSUME ObjectInv PROVE DependenciesOutlivePods
  <2>1. FenceOutlivesPods
    BY <1>1 DEF ObjectInv, Sound, ObjectsOK, Ours, FenceOutlivesPods
  <2>2. ClaimsOutlivePods
    BY <1>1 DEF ObjectInv, Sound, ObjectsOK, ClaimsOutlivePods
  <2> QED BY <2>1, <2>2 DEF DependenciesOutlivePods
<1> QED BY <1>1, ObjectInvariant, PTL
-----------------------------------------------------------------------------
(* Types of the runs, of the versions of them that passes hold, and of what runs share.            *)
Versions == 1..2
AgentRuns == [alive : BOOLEAN, phase : Phases, started : BOOLEAN, finalizer : BOOLEAN, deleting : BOOLEAN,
              spec : Versions, policyReady : BOOLEAN, caPublished : {"", "published", "rotating", "failed"}]
Agents == Runs \X {"agent", "egress"}
Events == {"complete", "fail"}

TypedRun(a) == a \in AgentRuns
TypedPass(w) == TypedRun(w.run) /\ w.copy \subseteq Agents

StatusInv ==
  /\ \A r \in Runs : TypedRun(run[r]) /\ TypedPass(work[r])
  /\ DOMAIN mail = Runs /\ \A r \in Runs : mail[r] \subseteq Events
  /\ policy \subseteq Agents /\ projected \subseteq Agents /\ faults \in 0..MaxFaults

RunTyped(r) == run' = run \/ \E a : TypedRun(a) /\ run' = [run EXCEPT ![r] = a]
PassTyped(r) == work' = work \/ \E w : TypedPass(w) /\ work' = [work EXCEPT ![r] = w]
RestTyped ==
  /\ DOMAIN mail' = Runs /\ \A r \in Runs : mail'[r] \subseteq Events
  /\ policy' \subseteq Agents /\ projected' \subseteq Agents /\ faults' \in 0..MaxFaults

LEMMA TypedKeeps ==
  ASSUME AccessInv, StatusInv, NEW r \in Runs, RunTyped(r), PassTyped(r), RestTyped
  PROVE  StatusInv'
<1>1. \A x \in Runs : TypedRun(run'[x])
  BY DEF RunTyped, StatusInv, AccessInv
<1>2. \A x \in Runs : TypedPass(work'[x])
  BY DEF PassTyped, StatusInv, AccessInv
<1> QED BY <1>1, <1>2 DEF RestTyped, StatusInv

LEMMA TypedPhases ==
  ASSUME NEW a, TypedRun(a)
  PROVE  \A v \in Phases : TypedRun([a EXCEPT !.phase = v])
BY DEF TypedRun, AgentRuns

LEMMA VersionNumbers == 1 \in Versions /\ 2 \in Versions
BY DEF Versions

LEMMA TypedFlags ==
  ASSUME NEW a, TypedRun(a), NEW b \in BOOLEAN
  PROVE  /\ TypedRun([a EXCEPT !.finalizer = b]) /\ TypedRun([a EXCEPT !.deleting = b])
         /\ TypedRun([a EXCEPT !.policyReady = b]) /\ TypedRun([a EXCEPT !.spec = 2])
         /\ TypedRun([a EXCEPT !.finalizer = FALSE, !.alive = FALSE])
         /\ TypedRun([a EXCEPT !.deleting = TRUE, !.alive = b])
         /\ \A v \in Phases : TypedRun([a EXCEPT !.phase = v, !.started = b])
<1>1. TypedRun([a EXCEPT !.finalizer = b])
  BY DEF TypedRun, AgentRuns
<1>2. TypedRun([a EXCEPT !.deleting = b])
  BY DEF TypedRun, AgentRuns
<1>3. TypedRun([a EXCEPT !.policyReady = b])
  BY DEF TypedRun, AgentRuns
<1>4. TypedRun([a EXCEPT !.spec = 2])
  BY VersionNumbers DEF TypedRun, AgentRuns
<1>5. TypedRun([a EXCEPT !.finalizer = FALSE, !.alive = FALSE])
  BY DEF TypedRun, AgentRuns
<1>6. TypedRun([a EXCEPT !.deleting = TRUE, !.alive = b])
  BY DEF TypedRun, AgentRuns
<1>7. \A v \in Phases : TypedRun([a EXCEPT !.phase = v, !.started = b])
  BY DEF TypedRun, AgentRuns
<1> QED BY <1>1, <1>2, <1>3, <1>4, <1>5, <1>6, <1>7

LEMMA TypedPublications ==
  ASSUME NEW a, TypedRun(a), NEW v \in {"published", "rotating", "failed"}
  PROVE  TypedRun([a EXCEPT !.caPublished = v])
BY DEF TypedRun, AgentRuns

LEMMA PhaseNames ==
  {"Pending", "Running", "Completed", "Failed", "DeadlineExceeded"} \subseteq Phases
BY DEF Phases, Terminal

LEMMA TypedNewRun == TypedRun(NewRun) /\ TypedRun([NewRun EXCEPT !.alive = FALSE]) /\ TypedPass(Resting)
<1>1. /\ NewRun.alive = TRUE /\ NewRun.started = FALSE /\ NewRun.finalizer = FALSE
      /\ NewRun.deleting = FALSE /\ NewRun.spec = 1 /\ NewRun.policyReady = FALSE
  BY DEF NewRun
<1>2. TypedRun(NewRun)
  BY VersionNumbers DEF NewRun, TypedRun, AgentRuns, Phases
<1>3. TypedRun([NewRun EXCEPT !.alive = FALSE])
  BY <1>2 DEF TypedRun, AgentRuns
<1>4. Resting.run = NewRun /\ Resting.copy = {}
  BY DEF Resting, Pass
<1> QED BY <1>2, <1>3, <1>4 DEF TypedPass

LEMMA TypedObserved ==
  ASSUME NEW r, NEW a, TypedRun(a), NEW p
  PROVE  TypedRun(InitializeAgentRunStatus(a)) /\ TypedRun(Observed(r, a, p))
<1>1. TypedRun([a EXCEPT !.phase = "Pending"])
  BY TypedPhases, PhaseNames
<1>2. \A event : TypedRun(AgentRunLifecycleTransition(a, event))
  BY TypedPhases, PhaseNames DEF AgentRunLifecycleTransition
<1>3. PICK b : b = SyncAgentRunLifecycleFromPodTermination(r, a, p)
  OBVIOUS
<1>4. TypedRun(b)
  BY <1>2, <1>3 DEF SyncAgentRunLifecycleFromPodTermination
<1>5. TypedRun([b EXCEPT !.phase = "Failed"]) /\ TypedRun([b EXCEPT !.phase = "Running", !.started = TRUE])
  BY <1>4, TypedPhases, TypedFlags, PhaseNames
<1>6. TypedRun(SyncAgentRunStatusFromPod(b, p))
  BY <1>4, <1>5 DEF SyncAgentRunStatusFromPod
<1> QED BY <1>1, <1>3, <1>6 DEF InitializeAgentRunStatus, Observed

(* How passes go on.                                                                        *)
LEMMA ReturnTyped ==
  ASSUME NEW r, Return(r)
  PROVE  PassTyped(r)
BY TypedNewRun DEF Return, PassTyped

LEMMA GotoTyped ==
  ASSUME AccessInv, StatusInv, NEW r \in Runs, NEW pc, Goto(r, pc)
  PROVE  PassTyped(r)
<1>1. DOMAIN work[r] = PassFields /\ TypedPass(work[r])
  BY DEF AccessInv, PassOK, StatusInv
<1>2. PICK w : w = [work[r] EXCEPT !.pc = pc]
  OBVIOUS
<1>3. TypedPass(w) /\ work' = [work EXCEPT ![r] = w]
  BY <1>1, <1>2 DEF Goto, TypedPass, PassFields
<1> QED BY <1>3 DEF PassTyped

LEMMA StoredTyped ==
  ASSUME AccessInv, StatusInv, NEW r \in Runs, NEW a, TypedRun(a),
         StoredAndReturned(r, a) \/ \E pc : Stored(r, a, pc)
  PROVE  RunTyped(r) /\ PassTyped(r)
<1>1. CASE StoredAndReturned(r, a)
  BY <1>1, ReturnTyped DEF StoredAndReturned, RunTyped
<1>2. ASSUME NEW pc, Stored(r, a, pc) PROVE RunTyped(r) /\ PassTyped(r)
  <2>1. DOMAIN work[r] = PassFields /\ TypedPass(work[r])
    BY DEF AccessInv, PassOK, StatusInv
  <2>2. PICK w : w = [work[r] EXCEPT !.base = a, !.run = a, !.pc = pc]
    OBVIOUS
  <2>3. work' = [work EXCEPT ![r] = w] /\ run' = [run EXCEPT ![r] = a]
    BY <1>2, <2>2 DEF Stored
  <2>4. w.run = a /\ w.copy = work[r].copy
    BY <2>1, <2>2 DEF PassFields
  <2>5. TypedPass(w)
    BY <2>1, <2>4 DEF TypedPass
  <2> QED BY <2>3, <2>5 DEF PassTyped, RunTyped
<1> QED BY <1>1, <1>2

LEMMA RestKept ==
  ASSUME StatusInv, UNCHANGED <<mail, policy, projected>>, faults' = faults \/ (faults < MaxFaults /\ faults' = faults + 1)
  PROVE  RestTyped
<1>1. faults' \in 0..MaxFaults
  BY ReconcilerAssumption DEF StatusInv
<1> QED BY <1>1 DEF StatusInv, RestTyped

(* Passes that leave the run alone.                                                           *)
LEMMA SilentTyped ==
  ASSUME AccessInv, StatusInv, NEW r \in Runs,
         \/ dropDriftedPods(r) \/ reconcileWorkspacePVC(r) \/ reconcileDockerPVC(r)
         \/ reconcileLegacyDockerStorageMigration(r) \/ reconcileTokenSecrets(r) \/ reconcileEgressdConfigMap(r)
         \/ createEgressCASecret(r) \/ keepEgressCASecret(r) \/ deleteCAConsumer(r) \/ rotateEgressCASecret(r)
         \/ reconcileNetworkPolicies(r) \/ reconcileEgressdPod(r) \/ reconcileEgressdService(r)
         \/ deleteTerminalPods(r) \/ deleteTerminalResources(r) \/ Refused(r) \/ CallFails(r)
  PROVE  StatusInv'
<1>1. /\ UNCHANGED <<run, mail, policy, projected>>
      /\ faults' = faults \/ (faults < MaxFaults /\ faults' = faults + 1)
  BY DEF dropDriftedPods, reconcileWorkspacePVC, reconcileDockerPVC, reconcileLegacyDockerStorageMigration,
         reconcileTokenSecrets, reconcileEgressdConfigMap, createEgressCASecret, keepEgressCASecret,
         deleteCAConsumer, rotateEgressCASecret, reconcileNetworkPolicies, reconcileEgressdPod,
         reconcileEgressdService, deleteTerminalPods, deleteTerminalResources, Refused, CallFails, Fault,
         broker, outside
<1>2. work' = work \/ Return(r) \/ \E pc : Goto(r, pc)
  <2>1. CASE \/ dropDriftedPods(r) \/ reconcileWorkspacePVC(r) \/ reconcileDockerPVC(r)
             \/ reconcileLegacyDockerStorageMigration(r) \/ reconcileTokenSecrets(r) \/ reconcileEgressdConfigMap(r)
    BY <2>1 DEF dropDriftedPods, reconcileWorkspacePVC, reconcileDockerPVC, reconcileLegacyDockerStorageMigration,
                reconcileTokenSecrets, reconcileEgressdConfigMap
  <2>2. CASE \/ createEgressCASecret(r) \/ keepEgressCASecret(r) \/ deleteCAConsumer(r) \/ rotateEgressCASecret(r)
             \/ reconcileNetworkPolicies(r) \/ reconcileEgressdPod(r) \/ reconcileEgressdService(r)
    BY <2>2 DEF createEgressCASecret, keepEgressCASecret, deleteCAConsumer, rotateEgressCASecret,
                reconcileNetworkPolicies, reconcileEgressdPod, reconcileEgressdService
  <2>3. CASE deleteTerminalPods(r) \/ deleteTerminalResources(r) \/ Refused(r) \/ CallFails(r)
    BY <2>3 DEF deleteTerminalPods, deleteTerminalResources, Refused, CallFails
  <2> QED BY <2>1, <2>2, <2>3
<1>3. RunTyped(r) /\ PassTyped(r)
  BY <1>1, <1>2, ReturnTyped, GotoTyped DEF RunTyped, PassTyped
<1> QED BY <1>1, <1>3, RestKept, TypedKeeps

(* Passes that store the run.                                                               *)
LEMMA StoringTyped ==
  ASSUME AccessInv, StatusInv, NEW r \in Runs,
         \/ AddFinalizer(r) \/ setAgentRunFailed(r) \/ persistRotationIntent(r) \/ waitForEgressd(r)
         \/ SyncStatus(r) \/ reconcileTerminalAgentRunRetention(r) \/ removeFinalizer(r)
  PROVE  StatusInv'
<1>1. UNCHANGED <<mail, policy, projected, faults>>
  BY DEF AddFinalizer, setAgentRunFailed, persistRotationIntent, waitForEgressd, SyncStatus,
         reconcileTerminalAgentRunRetention, removeFinalizer, broker, outside
<1>2. PICK a, b : a = work[r].run /\ b = run[r] /\ TypedRun(a) /\ TypedRun(b)
  BY DEF StatusInv, TypedPass
<1>3. RunTyped(r) /\ PassTyped(r)
  <2>1. CASE AddFinalizer(r)
    <3>1. \E pc : Stored(r, [a EXCEPT !.finalizer = TRUE], pc)
      BY <1>2, <2>1 DEF AddFinalizer
    <3> QED BY <1>2, <3>1, TypedFlags, StoredTyped
  <2>2. CASE setAgentRunFailed(r)
    <3>1. TypedRun([b EXCEPT !.phase = "Failed"])
      BY <1>2, TypedPhases, PhaseNames
    <3>2. run' = [run EXCEPT ![r] = [b EXCEPT !.phase = "Failed"]]
      BY <1>2, <2>2 DEF setAgentRunFailed
    <3>3. Return(r) \/ Goto(r, "dropPods")
      BY <2>2 DEF setAgentRunFailed
    <3> QED BY <3>1, <3>2, <3>3, ReturnTyped, GotoTyped DEF RunTyped
  <2>3. CASE persistRotationIntent(r)
    <3>1. StoredAndReturned(r, [a EXCEPT !.caPublished = "rotating"])
      BY <1>2, <2>3 DEF persistRotationIntent
    <3> QED BY <1>2, <3>1, TypedPublications, StoredTyped
  <2>4. CASE waitForEgressd(r)
    BY <1>2, <2>4, StoredTyped DEF waitForEgressd
  <2>5. CASE SyncStatus(r)
    <3>1. PICK new : new = Observed(r, InitializeAgentRunStatus(a), work[r].pod)
      OBVIOUS
    <3>2. TypedRun(new)
      BY <1>2, <3>1, TypedObserved
    <3>3. \E pc : Stored(r, new, pc) \/ (Goto(r, pc) /\ run' = run)
      BY <1>2, <2>5, <3>1 DEF SyncStatus
    <3> QED BY <3>2, <3>3, StoredTyped, GotoTyped DEF RunTyped
  <2>6. CASE reconcileTerminalAgentRunRetention(r)
    <3>1. Return(r) /\ (run' = run \/ run' = [run EXCEPT ![r] = [b EXCEPT !.deleting = TRUE]])
      BY <1>2, <2>6 DEF reconcileTerminalAgentRunRetention
    <3>2. TypedRun([b EXCEPT !.deleting = TRUE])
      BY <1>2, TypedFlags
    <3> QED BY <3>1, <3>2, ReturnTyped DEF RunTyped
  <2>7. CASE removeFinalizer(r)
    <3>1. /\ TypedRun([a EXCEPT !.finalizer = FALSE])
          /\ TypedRun([a EXCEPT !.finalizer = FALSE, !.alive = FALSE])
      BY <1>2, TypedFlags
    <3>2. \/ \E pc : Stored(r, [a EXCEPT !.finalizer = FALSE], pc)
          \/ StoredAndReturned(r, [a EXCEPT !.finalizer = FALSE, !.alive = FALSE])
      BY <1>2, <2>7 DEF removeFinalizer
    <3> QED BY <3>1, <3>2, StoredTyped
  <2> QED BY <2>1, <2>2, <2>3, <2>4, <2>5, <2>6, <2>7
<1> QED BY <1>1, <1>3, RestKept, TypedKeeps

(* Passes that change what they hold.                                                         *)
LEMMA HoldingTyped ==
  ASSUME AccessInv, StatusInv, NEW r \in Runs,
         \/ ReadPod(r) \/ reconcileActiveDeadline(r) \/ Prepare(r) \/ publishEgressCAConfigMap(r) \/ createAgentPod(r)
         \/ reconcileTerminalResourceCleanup(r) \/ revocationFails(r) \/ finalize(r)
  PROVE  StatusInv'
<1>1. /\ UNCHANGED <<mail, policy, projected>>
      /\ faults' = faults \/ (faults < MaxFaults /\ faults' = faults + 1)
  BY DEF ReadPod, reconcileActiveDeadline, Prepare, publishEgressCAConfigMap, createAgentPod,
         reconcileTerminalResourceCleanup, revocationFails, finalize, broker, outside
<1>2. PICK old, a : /\ old = work[r] /\ a = old.run /\ DOMAIN old = PassFields /\ TypedRun(a)
                    /\ old.copy \subseteq Agents
  BY DEF AccessInv, PassOK, StatusInv, TypedPass
<1>3. ASSUME NEW pc, NEW v
      PROVE  /\ work' = [work EXCEPT ![r].pc = pc, ![r].job = v] => PassTyped(r)
             /\ work' = [work EXCEPT ![r].pc = pc, ![r].pod = v] => PassTyped(r)
             /\ work' = [work EXCEPT ![r].pc = pc, ![r].failed = v] => PassTyped(r)
  <2>1. PICK x, y, z : /\ x = [old EXCEPT !.pc = pc, !.job = v] /\ y = [old EXCEPT !.pc = pc, !.pod = v]
                       /\ z = [old EXCEPT !.pc = pc, !.failed = v]
    OBVIOUS
  <2>2. TypedPass(x) /\ TypedPass(y) /\ TypedPass(z)
    BY <1>2, <2>1 DEF TypedPass, PassFields
  <2>3. /\ work' = [work EXCEPT ![r].pc = pc, ![r].job = v] => work' = [work EXCEPT ![r] = x]
        /\ work' = [work EXCEPT ![r].pc = pc, ![r].pod = v] => work' = [work EXCEPT ![r] = y]
        /\ work' = [work EXCEPT ![r].pc = pc, ![r].failed = v] => work' = [work EXCEPT ![r] = z]
    BY <1>2, <2>1
  <2> QED BY <2>2, <2>3 DEF PassTyped
<1>4. ASSUME NEW b, TypedRun(b), NEW pc, work' = [work EXCEPT ![r] = [old EXCEPT !.run = b, !.pc = pc]]
      PROVE  PassTyped(r)
  <2>1. PICK w : w = [old EXCEPT !.run = b, !.pc = pc]
    OBVIOUS
  <2>2. w.run = b /\ w.copy = old.copy
    BY <1>2, <2>1 DEF PassFields
  <2> QED BY <1>2, <1>4, <2>1, <2>2 DEF TypedPass, PassTyped
<1>5. RunTyped(r) /\ PassTyped(r)
  <2>1. CASE ReadPod(r)
    <3>1. PICK p, new : p = SeenPod(r) /\ new = Observed(r, a, p)
      OBVIOUS
    <3>2. TypedRun(new)
      BY <1>2, <3>1, TypedObserved
    <3>3. \/ run' = run /\ work' = [work EXCEPT ![r].pc = "fail", ![r].job = "drift"]
          \/ Stored(r, new, "cleanup")
          \/ run' = run /\ work' = [work EXCEPT ![r].pc = "deadline", ![r].pod = p]
          \/ run' = run /\ \E pc : Goto(r, pc)
      BY <1>2, <2>1, <3>1 DEF ReadPod
    <3> QED BY <1>3, <3>2, <3>3, StoredTyped, GotoTyped DEF RunTyped
  <2>2. CASE reconcileActiveDeadline(r)
    <3>1. TypedRun([a EXCEPT !.phase = "DeadlineExceeded"])
      BY <1>2, TypedPhases, PhaseNames
    <3>2. PICK b : b = InitializeAgentRunStatus(a)
      OBVIOUS
    <3>3. TypedRun(b)
      BY <1>2, <3>2, TypedObserved
    <3>4. \/ Stored(r, [a EXCEPT !.phase = "DeadlineExceeded"], "cleanup")
          \/ run' = run /\ \E pc : work' = [work EXCEPT ![r] = [old EXCEPT !.run = b, !.pc = pc]]
          \/ run' = run /\ Return(r)
      <4>1. CASE work' = [work EXCEPT ![r].pc = IF spec[r].persistent THEN "workspace" ELSE "secrets",
                                      ![r].run = InitializeAgentRunStatus(@)] /\ run' = run
        <5>1. PICK pc : pc = IF spec[r].persistent THEN "workspace" ELSE "secrets"
          OBVIOUS
        <5>2. work' = [work EXCEPT ![r] = [old EXCEPT !.run = b, !.pc = pc]]
          BY <1>2, <3>2, <4>1, <5>1 DEF PassFields
        <5> QED BY <4>1, <5>2
      <4> QED BY <1>2, <2>2, <4>1 DEF reconcileActiveDeadline
    <3> QED BY <1>4, <3>1, <3>3, <3>4, StoredTyped, ReturnTyped DEF RunTyped
  <2>3. CASE Prepare(r)
    <3>1. PICK pc, b : /\ pc = IF Exists(old.pod) THEN "status" ELSE IF spec[r].enforced THEN "gates" ELSE "create"
                       /\ b = [a EXCEPT !.policyReady = a.policyReady \/ spec[r].enforced]
      OBVIOUS
    <3>2. TypedRun(b)
      <4>1. PICK v \in BOOLEAN : v = (a.policyReady \/ spec[r].enforced)
        OBVIOUS
      <4> QED BY <1>2, <3>1, <4>1, TypedFlags
    <3>3. run' = run /\ work' = [work EXCEPT ![r] = [old EXCEPT !.run = b, !.pc = pc]]
      BY <1>2, <2>3, <3>1 DEF Prepare
    <3> QED BY <1>4, <3>2, <3>3 DEF RunTyped
  <2>4. CASE publishEgressCAConfigMap(r)
    <3>1. PICK b, c : b = [a EXCEPT !.caPublished = "published"] /\ c = [a EXCEPT !.caPublished = "failed"]
      OBVIOUS
    <3>2. TypedRun(b) /\ TypedRun(c)
      BY <1>2, <3>1, TypedPublications
    <3>3. CASE work' = [work EXCEPT ![r].pc = "create", ![r].run.caPublished = "published"] /\ run' = run
      <4>1. work' = [work EXCEPT ![r] = [old EXCEPT !.run = b, !.pc = "create"]]
        BY <1>2, <3>1, <3>3 DEF PassFields
      <4> QED BY <1>4, <3>2, <3>3, <4>1 DEF RunTyped
    <3>4. CASE StoredAndReturned(r, c)
      BY <3>2, <3>4, StoredTyped
    <3> QED BY <1>2, <2>4, <3>1, <3>3, <3>4 DEF publishEgressCAConfigMap
  <2>5. CASE createAgentPod(r)
    <3>1. run' = run /\ \E v : work' = [work EXCEPT ![r].pc = "status", ![r].pod = v]
      BY <2>5 DEF createAgentPod
    <3> QED BY <1>3, <3>1 DEF RunTyped
  <2>6. CASE reconcileTerminalResourceCleanup(r)
    <3>1. /\ run' = run
          /\ \/ work' = [work EXCEPT ![r].pc = "readPolicy", ![r].job = "cleanup"]
             \/ Return(r) \/ Goto(r, "retention")
      BY <2>6 DEF reconcileTerminalResourceCleanup, TerminalPodCleanupDelay
    <3> QED BY <1>3, <3>1, ReturnTyped, GotoTyped DEF RunTyped
  <2>7. CASE revocationFails(r)
    <3>1. run' = run /\ work' = [work EXCEPT ![r].pc = "cleanupPods", ![r].failed = TRUE]
      BY <2>7 DEF revocationFails
    <3> QED BY <1>3, <3>1 DEF RunTyped
  <2>8. CASE finalize(r)
    <3>1. /\ run' = run
          /\ \/ \E v : work' = [work EXCEPT ![r].pc = "readPolicy", ![r].job = v]
             \/ Goto(r, "fail")
      BY <2>8 DEF finalize
    <3> QED BY <1>3, <3>1, GotoTyped DEF RunTyped
  <2> QED BY <2>1, <2>2, <2>3, <2>4, <2>5, <2>6, <2>7, <2>8
<1> QED BY <1>1, <1>5, RestKept, TypedKeeps

(* The policy: what a pass has read of it, and what it writes.                                 *)
LEMMA PolicyTyped ==
  ASSUME AccessInv, StatusInv, NEW r \in Runs, ReadPolicy(r) \/ WritePolicy(r)
  PROVE  StatusInv'
<1>1. UNCHANGED <<run, mail, projected, faults>>
  BY DEF ReadPolicy, WritePolicy, broker, outside
<1>2. PICK old : old = work[r] /\ DOMAIN old = PassFields /\ TypedRun(old.run) /\ old.copy \subseteq Agents
  BY DEF AccessInv, PassOK, StatusInv, TypedPass
<1>3. ASSUME NEW pc, NEW copy, copy \subseteq Agents, work' = [work EXCEPT ![r].pc = pc, ![r].copy = copy]
      PROVE  PassTyped(r)
  <2>1. PICK w : w = [old EXCEPT !.pc = pc, !.copy = copy]
    OBVIOUS
  <2>2. w.run = old.run /\ w.copy = copy /\ work' = [work EXCEPT ![r] = w]
    BY <1>2, <1>3, <2>1 DEF PassFields
  <2> QED BY <1>2, <1>3, <2>2 DEF TypedPass, PassTyped
<1>4. Identities(r) \subseteq Agents
  BY DEF Identities, Agents
<1>5. PassTyped(r) /\ policy' \subseteq Agents
  <2>1. CASE ReadPolicy(r)
    <3>1. policy' = policy /\ policy \subseteq Agents
      BY <2>1 DEF ReadPolicy, broker, StatusInv
    <3> QED BY <1>3, <2>1, <3>1 DEF ReadPolicy
  <2>2. CASE WritePolicy(r)
    <3>1. Upsert(r, old.copy) \subseteq Agents /\ Remove(r, old.copy) \subseteq Agents /\ policy \subseteq Agents
      BY <1>2, <1>4 DEF Upsert, Remove, StatusInv
    <3>2. policy' \in {policy, Upsert(r, old.copy), Remove(r, old.copy)}
      BY <1>2, <2>2 DEF WritePolicy
    <3>3. policy' \subseteq Agents
      BY <3>1, <3>2
    <3>4. PICK pc, none : work' = [work EXCEPT ![r].pc = pc, ![r].copy = none] /\ none = {}
      BY <2>2 DEF WritePolicy
    <3>5. none \subseteq Agents
      BY <3>4
    <3>6. PassTyped(r)
      BY <1>3, <3>4, <3>5
    <3> QED BY <3>3, <3>6
  <2> QED BY <2>1, <2>2
<1>6. RestTyped
  BY <1>1, <1>5 DEF RestTyped, StatusInv
<1> QED BY <1>1, <1>5, <1>6, TypedKeeps DEF RunTyped

LEMMA BeginTyped ==
  ASSUME AccessInv, StatusInv, NEW r \in Runs, Reconcile(r)
  PROVE  StatusInv'
<1>1. UNCHANGED <<run, mail, policy, projected, faults>>
  BY DEF Reconcile, broker
<1>2. PICK pc : work' = [work EXCEPT ![r] = Pass(pc, run[r])]
  BY DEF Reconcile
<1>3. PICK w : w = Pass(pc, run[r])
  OBVIOUS
<1>4. w.run = run[r] /\ w.copy = {}
  BY <1>3 DEF Pass
<1>5. TypedPass(w)
  BY <1>4 DEF TypedPass, StatusInv
<1> QED BY <1>1, <1>2, <1>3, <1>5, RestKept, TypedKeeps DEF RunTyped, PassTyped

(* The cluster and users.                                                                  *)
LEMMA WorldTyped ==
  ASSUME AccessInv, StatusInv, NEW r \in Runs,
         \/ CacheCatchesUp(r) \/ PodStarts(r) \/ AgentExits(r) \/ EgressdStarts(r) \/ PodRemoved(r)
         \/ ClaimChanges(r) \/ TimePasses(r) \/ EgressCAAges(r) \/ GarbageCollected(r) \/ PodDisrupted(r)
  PROVE  StatusInv'
<1>1. /\ UNCHANGED <<run, work, mail, policy, projected>>
      /\ faults' = faults \/ (faults < MaxFaults /\ faults' = faults + 1)
  BY DEF CacheCatchesUp, PodStarts, AgentExits, EgressdStarts, PodRemoved, ClaimChanges, TimePasses, EgressCAAges,
         GarbageCollected, PodDisrupted, Fault, broker, outside
<1> QED BY <1>1, RestKept, TypedKeeps DEF RunTyped, PassTyped

LEMMA UsersTyped ==
  ASSUME AccessInv, StatusInv, NEW r \in Runs, applyLifecycleEvent(r) \/ SpecChanges(r) \/ UserDeletes(r)
  PROVE  StatusInv'
<1>1. /\ UNCHANGED <<work, mail, policy, projected>>
      /\ faults' = faults \/ (faults < MaxFaults /\ faults' = faults + 1)
  BY DEF applyLifecycleEvent, SpecChanges, UserDeletes, Fault, broker, outside
<1>2. PICK a : a = run[r] /\ TypedRun(a)
  BY DEF StatusInv
<1>3. RunTyped(r)
  <2>1. CASE applyLifecycleEvent(r)
    <3>1. PICK event : run' = [run EXCEPT ![r] = AgentRunLifecycleTransition(a, event)]
      BY <1>2, <2>1 DEF applyLifecycleEvent
    <3>2. TypedRun(AgentRunLifecycleTransition(a, event))
      BY <1>2, TypedPhases, PhaseNames DEF AgentRunLifecycleTransition
    <3> QED BY <3>1, <3>2 DEF RunTyped
  <2>2. CASE SpecChanges(r)
    <3>1. run' = [run EXCEPT ![r] = [a EXCEPT !.spec = 2]]
      BY <1>2, <2>2 DEF SpecChanges
    <3>2. TypedRun([a EXCEPT !.spec = 2])
      BY <1>2, TypedFlags
    <3> QED BY <3>1, <3>2 DEF RunTyped
  <2>3. CASE UserDeletes(r)
    <3>1. PICK b \in BOOLEAN : b = (a.finalizer \/ spec[r].legacy)
      OBVIOUS
    <3>2. run' = [run EXCEPT ![r] = [a EXCEPT !.deleting = TRUE, !.alive = b]]
      BY <1>2, <2>3, <3>1 DEF UserDeletes
    <3>3. TypedRun([a EXCEPT !.deleting = TRUE, !.alive = b])
      BY <1>2, TypedFlags
    <3> QED BY <3>2, <3>3 DEF RunTyped
  <2> QED BY <2>1, <2>2, <2>3
<1> QED BY <1>1, <1>3, RestKept, TypedKeeps DEF PassTyped

LEMMA ReportsTyped ==
  ASSUME AccessInv, StatusInv, NEW r \in Runs, AgentReports(r)
  PROVE  StatusInv'
<1>1. UNCHANGED <<run, work, policy, projected, faults>>
  BY DEF AgentReports, broker
<1>2. PICK event \in Events : mail' = [mail EXCEPT ![r] = mail[r] \cup {event}]
  BY DEF AgentReports, Events
<1>3. RestTyped
  BY <1>1, <1>2 DEF RestTyped, StatusInv
<1> QED BY <1>1, <1>3, TypedKeeps DEF RunTyped, PassTyped

LEMMA StatusStep ==
  ASSUME AccessInv, StatusInv, [ReconcilerNext]_reconcilerVars
  PROVE  StatusInv'
<1>1. CASE UNCHANGED reconcilerVars
  BY <1>1 DEF reconcilerVars, StatusInv
<1>2. ASSUME NEW r \in Runs, PassStep(r) PROVE StatusInv'
  BY <1>2, SilentTyped, StoringTyped, HoldingTyped, PolicyTyped DEF PassStep
<1>3. ASSUME NEW r \in Runs, ClusterStep(r) PROVE StatusInv'
  BY <1>3, WorldTyped, UsersTyped, ReportsTyped DEF ClusterStep
<1>4. ASSUME NEW r \in Runs, Trouble(r) PROVE StatusInv'
  BY <1>4, SilentTyped, HoldingTyped, WorldTyped, UsersTyped DEF Trouble
<1>5. CASE PolicyProjected
  <2>1. UNCHANGED <<run, work, mail, policy, faults>> /\ projected' = policy
    BY <1>5 DEF PolicyProjected, outside
  <2> QED BY <2>1 DEF StatusInv
<1>6. CASE OperatorRestarts
  <2>1. /\ UNCHANGED <<run, mail, policy, projected>> /\ work' = [x \in Runs |-> Resting]
        /\ faults < MaxFaults /\ faults' = faults + 1
    BY <1>6 DEF OperatorRestarts, Fault, broker
  <2>2. \A x \in Runs : TypedRun(run'[x]) /\ TypedPass(work'[x])
    BY <2>1, TypedNewRun DEF StatusInv
  <2> QED BY <2>1, <2>2, RestKept DEF RestTyped, StatusInv
<1> QED BY <1>1, <1>2, <1>3, <1>4, <1>5, <1>6, BeginTyped DEF ReconcilerNext

LEMMA InitStatus == ReconcilerInit => StatusInv
<1> SUFFICES ASSUME ReconcilerInit PROVE StatusInv
  OBVIOUS
<1>1. PICK a, b : a = OldRun /\ b = [OldRun EXCEPT !.phase = "Completed", !.deleting = TRUE]
  OBVIOUS
<1>2. TypedRun(a)
  <2>1. TypedRun([NewRun EXCEPT !.phase = "Running", !.started = TRUE])
    BY TypedNewRun, TypedFlags, PhaseNames
  <2>2. OldRun = [[NewRun EXCEPT !.phase = "Running", !.started = TRUE] EXCEPT !.finalizer = TRUE]
    BY DEF OldRun
  <2> QED BY <1>1, <2>1, <2>2, TypedFlags
<1>3. TypedRun(b)
  <2>1. TypedRun([a EXCEPT !.phase = "Completed"])
    BY <1>2, TypedPhases, PhaseNames
  <2>2. b = [[a EXCEPT !.phase = "Completed"] EXCEPT !.deleting = TRUE]
    BY <1>1
  <2> QED BY <2>1, <2>2, TypedFlags
<1>4. \A r \in Runs : run[r] \in {[NewRun EXCEPT !.alive = FALSE], a, b, NewRun}
  BY <1>1 DEF ReconcilerInit
<1>5. \A r \in Runs : TypedRun(run[r])
  BY <1>2, <1>3, <1>4, TypedNewRun
<1>6. \A r \in Runs : TypedPass(work[r])
  BY TypedNewRun DEF ReconcilerInit
<1>7. policy \subseteq Agents /\ projected = policy
  BY DEF ReconcilerInit, Identities, Agents
<1>8. faults \in 0..MaxFaults
  BY ReconcilerAssumption DEF ReconcilerInit
<1>9. DOMAIN mail = Runs /\ \A r \in Runs : mail[r] \subseteq Events
  BY DEF ReconcilerInit
<1> QED BY <1>5, <1>6, <1>7, <1>8, <1>9 DEF StatusInv

(* What a Pod was made from stays as it was: whatever Pods of a run exist, terminating ones        *)
(* included, belong to the generation of the CA that is stored and published and to the              *)
(* configuration that is stored, through rotations, restarts with other settings, disruptions            *)
(* and cleanups; and runs, Pods and the policy keep their types.                                      *)
THEOREM PodsKeepInputs ==
  ASSUME CurrentCache
  PROVE  ReconcilerSafety => []PodsMatchInputs
<1>1. ASSUME ObjectInv, StatusInv PROVE PodsMatchInputs
  <2>1. ReconcilerTypeOK
    <3>1. ASSUME NEW r \in Runs PROVE RunTypeOK(r)
      <4>1. run[r] \in AgentRuns /\ mail[r] \subseteq Events
        BY <1>1 DEF StatusInv, TypedRun
      <4>2. Shaped(pod[r], egressd[r], owned[r], claim[r], ca[r], trust[r])
        BY <1>1 DEF ObjectInv, Sound
      <4>3. /\ owned[r] \subseteq Owned /\ ca[r].generation \in 0..MaxGeneration /\ trust[r] \in 0..MaxGeneration
            /\ {pod[r].state, egressd[r].state} \subseteq {"none", "pending", "running", "exited", "failed"}
        BY <4>2 DEF Shaped, PodStates
      <4> QED BY <4>1, <4>3, Zenon DEF RunTypeOK, AgentRuns, Versions, Events
    <3>2. policy \cup projected \subseteq Runs \X {"agent", "egress"}
      BY <1>1 DEF StatusInv, Agents
    <3>3. env \in Environments /\ faults \in 0..MaxFaults
      BY <1>1 DEF ObjectInv, StatusInv
    <3> QED BY <3>1, <3>2, <3>3 DEF ReconcilerTypeOK
  <2>2. OneGeneration
    BY <1>1 DEF ObjectInv, Sound, ObjectsOK, Ours, OneGeneration
  <2>3. ConfigUnderPod
    BY <1>1 DEF ObjectInv, Sound, ObjectsOK, Ours, ConfigUnderPod
  <2> QED BY <2>1, <2>2, <2>3 DEF PodsMatchInputs
<1>2. AccessInv /\ StatusInv /\ [ReconcilerNext]_reconcilerVars => StatusInv'
  BY StatusStep
<1> QED BY <1>1, <1>2, InitStatus, AccessInvariant, ObjectInvariant, PTL DEF ReconcilerSafety
=============================================================================
