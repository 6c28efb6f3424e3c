------------------------- MODULE AgentRunReconciler -------------------------
(***************************************************************************)
(* The operator's AgentRun reconciler, the lifecycle callback and the part   *)
(* of the cluster they work on.  A pass over a run is a sequence of API      *)
(* calls, one action each; between two of them Pods start, exit and vanish,  *)
(* callbacks arrive, deadlines pass, users delete runs, and passes over      *)
(* other runs update the same broker policy.  Any call may fail, which ends  *)
(* the pass, and the operator may restart: a pass keeps nothing but the      *)
(* objects it has read.  Updates carry the version they were read at, so an  *)
(* update of an object changed since then is a conflict.  Pods are read from *)
(* the client's cache, which is current when a pass begins and, where        *)
(* CacheLags, may miss what happens afterwards.                              *)
(***************************************************************************)
EXTENDS Integers, FiniteSets

CONSTANTS
  Runs,              \* AgentRuns
  Specs,             \* what their specs ask for, see SpecType
  Scenarios,         \* the specs of Runs to start from, and faults already used up
  Environments,      \* broker settings of the operator process, 0 is none of them
  RefusedIn,         \* those under which mediated runs are not valid
  Concurrent,        \* MaxConcurrentReconciles
  CacheLags,         \* whether the cache may miss events during a pass
  MaxGeneration,     \* bound: generations of the CA of a run
  MaxFaults,         \* bound: failed calls, restarts, disruptions and edits
  MaxPods            \* bound: agent Pods of a run

SpecType ==
  [present : BOOLEAN,      \* FALSE: the run does not exist
   legacy : BOOLEAN,       \* it asks for the removed external backend
   mediated : BOOLEAN,     \* egressMode
   enforced : BOOLEAN,     \* and network-enforced: egressd has a Pod of its own
   persistent : BOOLEAN,   \* workspace.mode
   placeholders : BOOLEAN, \* a grant is materialised as placeholder files
   deadline : BOOLEAN,     \* ttl.activeDeadlineSeconds is set
   ttl : BOOLEAN,          \* ttl.completedTTLSeconds and failedTTLSeconds are set
   retained : BOOLEAN,     \* ttl.runRetentionSeconds is 0
   oldPod : BOOLEAN,       \* its Pod predates the Docker claim
   leaving : BOOLEAN,      \* it has completed and its user has deleted it
   foreign : BOOLEAN]      \* its egressd Pod's name is taken by somebody else

ASSUME ReconcilerAssumption ==
  /\ Specs \subseteq SpecType
  /\ \A s \in Specs : (s.enforced => s.mediated) /\ (s.placeholders => s.enforced)
                       /\ (s.oldPod => ~s.mediated /\ s.persistent)
                       /\ (s.leaving => ~s.mediated /\ ~s.persistent)
                       /\ (s.oldPod \/ s.leaving => s.present)
  /\ \A c \in Scenarios : c.spec \in [Runs -> Specs] /\ c.faults \in 0..MaxFaults
  /\ RefusedIn \subseteq Environments /\ 0 \notin Environments /\ CacheLags \in BOOLEAN
  /\ {Concurrent, MaxFaults, MaxPods} \subseteq Nat /\ MaxGeneration \in Nat \ {0}

VARIABLES
  spec,      \* the specs of the runs, but for the credentials a user may edit
  run,       \* the AgentRun objects
  pod,       \* the agent Pods
  egressd,   \* the egressd Pods of enforced runs
  owned,     \* the names of the other objects a run owns
  claim,     \* phases of the workspace and the Docker claim
  ca,        \* the CA Secret: generation (0: absent), outside its renewal window
  trust,     \* the generation in the CA ConfigMap, 0 when it is absent
  config,    \* the environment rendered in the egressd ConfigMap, if it exists
  policy,    \* the broker's agents ConfigMap: the identities it admits
  projected, \* what the broker has read of it
  mail,      \* lifecycle events the agents have sent to the callback
  due,       \* the times that have passed for a run
  env,       \* the environment of this operator process
  cache,     \* the Pods as the operator's cache has them
  work,      \* the passes
  faults,    \* failed calls and restarts so far
  history    \* of each run: Pods created, what its entrypoint went through

reconcilerVars == <<spec, run, pod, egressd, owned, claim, ca, trust, config, policy, projected,
                    mail, due, env, cache, work, faults, history>>
-----------------------------------------------------------------------------
NoEnvironment == 0
Terminal == {"Completed", "Failed", "DeadlineExceeded"}
Phases == {"", "Pending", "Running"} \cup Terminal
IsTerminalAgentRunPhase(phase) == phase \in Terminal

\* Every object of a run but its Pods, its claims, the CA and the egressd config.
Owned == {"brokerToken", "egressToken", "callbackToken", "agentNetworkPolicy",
          "egressdNetworkPolicy", "service", "agentConfig"}
Fence == {"agentNetworkPolicy", "egressdNetworkPolicy"}

NoPod == [state |-> "none", event |-> "", deleting |-> FALSE, own |-> TRUE,
          generation |-> 0, config |-> 0, spec |-> 0, docker |-> FALSE]
Exists(p) == p.state # "none"
Deleted(p) == IF Exists(p) THEN [p EXCEPT !.deleting = TRUE] ELSE p

NewRun == [alive |-> TRUE, phase |-> "", started |-> FALSE, finalizer |-> FALSE, deleting |-> FALSE,
           spec |-> 1, policyReady |-> FALSE, caPublished |-> ""]
OldRun == [NewRun EXCEPT !.phase = "Running", !.started = TRUE, !.finalizer = TRUE]
OldPod == [NoPod EXCEPT !.state = "running", !.spec = 1]
ForeignPod == [NoPod EXCEPT !.state = "running", !.own = FALSE]

Identities(r) == {<<r, "agent">>} \cup (IF spec[r].mediated THEN {<<r, "egress">>} ELSE {})
AgentOf(r) == <<r, "agent">>

Tokens(r) ==
  {"brokerToken"} \cup (IF spec[r].mediated THEN {"egressToken"} ELSE {})
                  \cup (IF spec[r].enforced THEN {} ELSE {"callbackToken"})

NoClaims == [workspace |-> "none", docker |-> "none"]

Pass(pc, a) == [pc |-> pc, base |-> a, run |-> a, pod |-> NoPod, copy |-> {}, job |-> "", failed |-> FALSE]
Resting == Pass("idle", NewRun)

\* A run starts anew, with the Pod of an earlier release, or about to go.
Underway(r) == spec[r].oldPod \/ spec[r].leaving

ReconcilerInit ==
  /\ \E c \in Scenarios : spec = c.spec /\ faults = c.faults
  /\ run = [r \in Runs |-> CASE ~spec[r].present -> [NewRun EXCEPT !.alive = FALSE]
                            [] spec[r].oldPod -> OldRun
                            [] spec[r].leaving -> [OldRun EXCEPT !.phase = "Completed", !.deleting = TRUE]
                            [] OTHER -> NewRun]
  /\ pod = [r \in Runs |-> IF Underway(r) THEN OldPod ELSE NoPod]
  /\ egressd = [r \in Runs |-> IF spec[r].foreign THEN ForeignPod ELSE NoPod]
  /\ owned = [r \in Runs |-> IF Underway(r) THEN Tokens(r) \cup {"agentConfig"} ELSE {}]
  /\ claim \in [Runs -> [workspace : {"none", "bound"}, docker : {"none", "pending"}]]
  /\ \A r \in Runs : IF spec[r].oldPod THEN claim[r].workspace = "bound" ELSE claim[r] = NoClaims
  /\ ca = [r \in Runs |-> [generation |-> 0, fresh |-> FALSE]]
  /\ trust = [r \in Runs |-> 0] /\ config = [r \in Runs |-> NoEnvironment]
  /\ policy = UNION {Identities(r) : r \in {x \in Runs : Underway(x)}} /\ projected = policy
  /\ mail = [r \in Runs |-> {}] /\ due = [r \in Runs |-> {}]
  /\ env \in Environments
  /\ cache = [r \in Runs |-> [pod |-> NoPod, egressd |-> NoPod]]
  /\ work = [r \in Runs |-> Resting]
  /\ history = [r \in Runs |-> [pods |-> IF Underway(r) THEN 1 ELSE 0, outcome |-> "none"]]
-----------------------------------------------------------------------------
(* Status, computed from what a pass has read                               *)

InitializeAgentRunStatus(a) == IF a.phase = "" THEN [a EXCEPT !.phase = "Pending"] ELSE a

\* AgentRunLifecycleTransition: the events spec.lifecycle lists.
AgentRunLifecycleTransition(a, event) ==
  [a EXCEPT !.phase = IF event = "complete" THEN "Completed" ELSE "Failed"]

\* The termination message is read of enforced runs only, the others call back.
SyncAgentRunLifecycleFromPodTermination(r, a, p) ==
  IF spec[r].enforced /\ ~IsTerminalAgentRunPhase(a.phase) /\ p.state = "exited" /\ p.event # ""
  THEN AgentRunLifecycleTransition(a, p.event) ELSE a

SyncAgentRunStatusFromPod(a, p) ==
  CASE IsTerminalAgentRunPhase(a.phase) -> a
    [] ~IsTerminalAgentRunPhase(a.phase) /\ p.state \in {"exited", "failed"} -> [a EXCEPT !.phase = "Failed"]
    [] ~IsTerminalAgentRunPhase(a.phase) /\ p.state = "running" -> [a EXCEPT !.phase = "Running", !.started = TRUE]
    [] OTHER -> a

Observed(r, a, p) ==
  SyncAgentRunStatusFromPod(SyncAgentRunLifecycleFromPodTermination(r, a, p), p)

egressCARotationIntent(a) == a.caPublished = "rotating"
enforcementAgentPodGatesHold(a) == a.policyReady /\ a.caPublished = "published"

ActiveDeadlineDelay(r, a) ==
  ~IsTerminalAgentRunPhase(a.phase) /\ a.started /\ "deadline" \in due[r]
TerminalPodCleanupDelay(r) == IF ~spec[r].ttl THEN "never" ELSE IF "ttl" \in due[r] THEN "now" ELSE "later"
RunRetentionDelay(r) == IF spec[r].retained THEN "never" ELSE IF "retention" \in due[r] THEN "now" ELSE "later"
-----------------------------------------------------------------------------
(* Passes                                                                   *)

At(r, pc) == work[r].pc = pc
Goto(r, pc) == work' = [work EXCEPT ![r].pc = pc]
Return(r) == work' = [work EXCEPT ![r] = Resting]
Current(r) == run[r] = work[r].base

Cached(r) == [pod |-> pod[r], egressd |-> egressd[r]]
SeenPod(r) == IF CacheLags THEN cache[r].pod ELSE pod[r]
SeenEgressd(r) == IF CacheLags THEN cache[r].egressd ELSE egressd[r]

\* Mutant of Stored: the write does not carry the version it was read at.
Stored_Unversioned(r, a, pc) ==
  /\ run' = [run EXCEPT ![r] = a]
  /\ work' = [work EXCEPT ![r] = [@ EXCEPT !.base = a, !.run = a, !.pc = pc]]

\* A successful write of the AgentRun: the pass goes on from the new version.
Stored(r, a, pc) ==
  /\ Current(r)
  /\ run' = [run EXCEPT ![r] = a]
  /\ work' = [work EXCEPT ![r] = [@ EXCEPT !.base = a, !.run = a, !.pc = pc]]
StoredAndReturned(r, a) ==
  /\ Current(r) /\ run' = [run EXCEPT ![r] = a] /\ Return(r)

objects == <<pod, egressd, owned, claim, ca, trust, config>>
broker == <<policy, projected>>
outside == <<spec, mail, due, env, cache, faults, history>>

\* Reconcile up to the first read of the Pod.
Reconcile(r) ==
  /\ At(r, "idle") /\ run[r].alive
  /\ Cardinality({x \in Runs : ~At(x, "idle")}) < Concurrent
  /\ LET a == run[r]
         pc == IF spec[r].legacy THEN IF a.deleting THEN "legacyFinalize" ELSE "fail"
               ELSE IF a.deleting THEN "finalize"
               ELSE IF ~a.finalizer THEN "finalizer"
               ELSE IF IsTerminalAgentRunPhase(a.phase) THEN "cleanup" ELSE "pod"
     IN work' = [work EXCEPT ![r] = Pass(pc, a)]
  /\ cache' = IF CacheLags THEN [cache EXCEPT ![r] = Cached(r)] ELSE cache
  /\ UNCHANGED <<spec, run, objects, broker, mail, due, env, faults, history>>

AddFinalizer(r) ==
  /\ At(r, "finalizer")
  /\ Stored(r, [work[r].run EXCEPT !.finalizer = TRUE],
            IF IsTerminalAgentRunPhase(work[r].run.phase) THEN "cleanup" ELSE "pod")
  /\ UNCHANGED <<objects, broker, outside>>

\* setAgentRunFailed reads the run again and overwrites whatever phase it has.
setAgentRunFailed(r) ==
  /\ At(r, "fail") /\ run[r].alive
  /\ run' = [run EXCEPT ![r].phase = "Failed"]
  /\ IF work[r].job = "drift" THEN Goto(r, "dropPods") ELSE Return(r)
  /\ UNCHANGED <<objects, broker, outside>>

\* ensureImmutablePodSecurityState: a Pod whose credential projection is not
\* the one the spec asks for any more is deleted, and egressd with it.
dropDriftedPods(r) ==
  /\ At(r, "dropPods")
  /\ pod' = [pod EXCEPT ![r] = Deleted(@)]
  /\ egressd' = [egressd EXCEPT ![r] = IF @.own THEN Deleted(@) ELSE @]
  /\ Return(r)
  /\ UNCHANGED <<run, owned, claim, ca, trust, config, broker, outside>>

\* podCredentialProjectionSignature: the Pod's credentials are not those the
\* spec renders to.  The other fields of a Pod do not count.
Drifted(p, a) == p.spec # a.spec

\* The Pod, before any maintenance path can replace it.
ReadPod(r) ==
  LET p == SeenPod(r)
      a == work[r].run
      rotationOwnsTermination == egressCARotationIntent(a) /\ p.deleting
      seen == Observed(r, a, p)
  IN /\ At(r, "pod")
     /\ \/ /\ Exists(p) /\ Drifted(p, a)
           /\ work' = [work EXCEPT ![r].pc = "fail", ![r].job = "drift"]
           /\ UNCHANGED run
        \/ /\ Exists(p) /\ ~Drifted(p, a)
           /\ ~rotationOwnsTermination /\ IsTerminalAgentRunPhase(seen.phase)
           /\ Stored(r, seen, "cleanup")
        \/ /\ Exists(p) /\ ~Drifted(p, a)
           /\ rotationOwnsTermination \/ ~IsTerminalAgentRunPhase(seen.phase)
           /\ work' = [work EXCEPT ![r].pc = "deadline", ![r].pod = p]
           /\ UNCHANGED run
        \/ /\ ~Exists(p)
           /\ Goto(r, IF spec[r].mediated /\ env \in RefusedIn THEN "fail" ELSE "deadline")
           /\ UNCHANGED run
     /\ UNCHANGED <<objects, broker, outside>>

\* reconcileActiveDeadline, at the beginning and at the end of a pass.
reconcileActiveDeadline(r) ==
  LET a == work[r].run
      first == At(r, "deadline")
  IN /\ At(r, "deadline") \/ At(r, "lastDeadline")
     /\ \/ /\ ActiveDeadlineDelay(r, a)
           /\ Stored(r, [a EXCEPT !.phase = "DeadlineExceeded"], "cleanup")
        \/ /\ ~ActiveDeadlineDelay(r, a) /\ first
           /\ work' = [work EXCEPT ![r].pc = IF spec[r].persistent THEN "workspace" ELSE "secrets",
                                   ![r].run = InitializeAgentRunStatus(@)]
           /\ UNCHANGED run
        \/ ~ActiveDeadlineDelay(r, a) /\ ~first /\ Return(r) /\ UNCHANGED run
     /\ UNCHANGED <<objects, broker, outside>>

\* Mutant of reconcileWorkspacePVC: every existing Pod is taken for an old one.
reconcileWorkspacePVC_AnyPod(r) ==
  /\ At(r, "workspace") /\ claim[r].workspace # "lost"
  /\ claim' = [claim EXCEPT ![r].workspace = IF @ = "none" THEN "pending" ELSE @]
  /\ Goto(r, IF Exists(work[r].pod) THEN "migration" ELSE "docker")
  /\ UNCHANGED <<run, pod, egressd, owned, ca, trust, config, broker, outside>>

\* A claim that is lost is not replaced: the pass ends there.
reconcileWorkspacePVC(r) ==
  /\ At(r, "workspace") /\ claim[r].workspace # "lost"
  /\ claim' = [claim EXCEPT ![r].workspace = IF @ = "none" THEN "pending" ELSE @]
  /\ Goto(r, IF Exists(work[r].pod) /\ ~work[r].pod.docker THEN "migration" ELSE "docker")
  /\ UNCHANGED <<run, pod, egressd, owned, ca, trust, config, broker, outside>>

reconcileDockerPVC(r) ==
  /\ At(r, "docker") /\ claim[r].docker # "lost"
  /\ claim' = [claim EXCEPT ![r].docker = IF @ = "none" THEN "pending" ELSE @]
  /\ Goto(r, "secrets")
  /\ UNCHANGED <<run, pod, egressd, owned, ca, trust, config, broker, outside>>

\* A Pod without the claim keeps running: a claim nobody consumes is removed.
reconcileLegacyDockerStorageMigration(r) ==
  /\ At(r, "migration") /\ claim[r].docker # "lost"
  /\ claim' = [claim EXCEPT ![r].docker = IF @ = "pending" THEN "none" ELSE @]
  /\ Goto(r, "secrets")
  /\ UNCHANGED <<run, pod, egressd, owned, ca, trust, config, broker, outside>>

reconcileTokenSecrets(r) ==
  /\ At(r, "secrets")
  /\ \/ /\ Tokens(r) \ owned[r] # {}
        /\ \E x \in Tokens(r) \ owned[r] : owned' = [owned EXCEPT ![r] = @ \cup {x}]
        /\ UNCHANGED work
     \/ /\ Tokens(r) \subseteq owned[r]
        /\ Goto(r, IF spec[r].mediated THEN "egressdConfig" ELSE "readPolicy")
        /\ UNCHANGED owned
  /\ UNCHANGED <<run, pod, egressd, claim, ca, trust, config, broker, outside>>

\* Mutant of reconcileEgressdConfigMap: the config follows the environment.
reconcileEgressdConfigMap_Refreshed(r) ==
  /\ At(r, "egressdConfig")
  /\ spec[r].enforced => SeenEgressd(r).own
  /\ config' = [config EXCEPT ![r] = env]
  /\ Goto(r, IF spec[r].enforced THEN "ca" ELSE "readPolicy")
  /\ UNCHANGED <<run, pod, egressd, owned, claim, ca, trust, broker, outside>>

\* The config is not rewritten under a Pod that was rendered against it.
reconcileEgressdConfigMap(r) ==
  LET configFrozen == Exists(work[r].pod) \/ (spec[r].enforced /\ Exists(SeenEgressd(r)))
  IN /\ At(r, "egressdConfig")
     /\ spec[r].enforced => SeenEgressd(r).own
     /\ config' = [config EXCEPT ![r] = IF @ # NoEnvironment /\ configFrozen THEN @ ELSE env]
     /\ Goto(r, IF spec[r].enforced THEN "ca" ELSE "readPolicy")
     /\ UNCHANGED <<run, pod, egressd, owned, claim, ca, trust, broker, outside>>

\* reconcileEgressCASecret.  A CA in its renewal window is rotated in steps of
\* one pass each: persist the intent, delete the agent Pod, wait until it is
\* gone, delete egressd, wait, generate the next CA.
createEgressCASecret(r) ==
  /\ At(r, "ca") /\ ca[r].generation = 0
  /\ ca' = [ca EXCEPT ![r] = [generation |-> 1, fresh |-> TRUE]]
  /\ Goto(r, "fence")
  /\ UNCHANGED <<run, pod, egressd, owned, claim, trust, config, broker, outside>>

keepEgressCASecret(r) ==
  /\ At(r, "ca") /\ ca[r].generation # 0 /\ ca[r].fresh
  /\ Goto(r, "fence")
  /\ UNCHANGED <<run, objects, broker, outside>>

\* Mutant of Rotating: the renewal window is not checked.
Rotating_Always(r) == At(r, "ca") /\ ca[r].generation # 0

Rotating(r) == At(r, "ca") /\ ca[r].generation # 0 /\ ~ca[r].fresh

persistRotationIntent(r) ==
  /\ Rotating(r) /\ ~egressCARotationIntent(work[r].run)
  /\ StoredAndReturned(r, [work[r].run EXCEPT !.caPublished = "rotating"])
  /\ UNCHANGED <<objects, broker, outside>>

deleteCAConsumer(r) ==
  LET agent == Exists(SeenPod(r))
      seen == IF agent THEN SeenPod(r) ELSE SeenEgressd(r)
  IN /\ Rotating(r) /\ egressCARotationIntent(work[r].run)
     /\ Exists(seen) /\ seen.own
     /\ IF seen.deleting THEN UNCHANGED <<pod, egressd>>
        ELSE IF agent THEN pod' = [pod EXCEPT ![r] = Deleted(@)] /\ UNCHANGED egressd
        ELSE egressd' = [egressd EXCEPT ![r] = Deleted(@)] /\ UNCHANGED pod
     /\ Return(r)
     /\ UNCHANGED <<run, owned, claim, ca, trust, config, broker, outside>>

\* Mutant of rotateEgressCASecret: only the agent Pod is waited for.
rotateEgressCASecret_Early(r) ==
  /\ Rotating(r) /\ egressCARotationIntent(work[r].run)
  /\ ~Exists(SeenPod(r))
  /\ ca' = [ca EXCEPT ![r] = [generation |-> @.generation + 1, fresh |-> TRUE]]
  /\ Return(r)
  /\ UNCHANGED <<run, pod, egressd, owned, claim, trust, config, broker, outside>>

rotateEgressCASecret(r) ==
  /\ Rotating(r) /\ egressCARotationIntent(work[r].run)
  /\ ~Exists(SeenPod(r)) /\ ~Exists(SeenEgressd(r))
  /\ ca' = [ca EXCEPT ![r] = [generation |-> @.generation + 1, fresh |-> TRUE]]
  /\ Return(r)
  /\ UNCHANGED <<run, pod, egressd, owned, claim, trust, config, broker, outside>>

\* reconcileNetworkPolicies, then reconcileEgressdPod, then its Service.
reconcileNetworkPolicies(r) ==
  /\ At(r, "fence")
  /\ \/ /\ Fence \ owned[r] # {}
        /\ \E x \in Fence \ owned[r] : owned' = [owned EXCEPT ![r] = @ \cup {x}]
        /\ UNCHANGED work
     \/ Fence \subseteq owned[r] /\ Goto(r, "egressd") /\ UNCHANGED owned
  /\ UNCHANGED <<run, pod, egressd, claim, ca, trust, config, broker, outside>>

reconcileEgressdPod(r) ==
  /\ At(r, "egressd")
  /\ \/ Exists(SeenEgressd(r)) /\ SeenEgressd(r).own /\ UNCHANGED egressd
     \/ /\ ~Exists(SeenEgressd(r)) /\ ~Exists(egressd[r])
        /\ egressd' = [egressd EXCEPT ![r] =
             [NoPod EXCEPT !.state = "pending", !.generation = ca[r].generation, !.config = config[r]]]
  /\ Goto(r, "service")
  /\ UNCHANGED <<run, pod, owned, claim, ca, trust, config, broker, outside>>

reconcileEgressdService(r) ==
  /\ At(r, "service")
  /\ owned' = [owned EXCEPT ![r] = @ \cup {"service"}]
  /\ Goto(r, "readPolicy")
  /\ UNCHANGED <<run, pod, egressd, claim, ca, trust, config, broker, outside>>
-----------------------------------------------------------------------------
(* The broker's agents policy: read, changed and written back, again when    *)
(* somebody else wrote it in between (updateBrokerAgentsPolicy).              *)

\* Mutant of Upsert: a mediated run's egress identity replaces its agent's.
Upsert_EgressOnly(r, agents) ==
  agents \cup (IF spec[r].mediated THEN Identities(r) \ {AgentOf(r)} ELSE Identities(r))

Upsert(r, agents) == agents \cup Identities(r)
Remove(r, agents) == agents \ {<<r, "agent">>, <<r, "egress">>}

ReadPolicy(r) ==
  /\ At(r, "readPolicy")
  /\ work[r].job = "" => Tokens(r) \ {"callbackToken"} \subseteq owned[r]
  /\ work' = [work EXCEPT ![r].pc = "writePolicy", ![r].copy = policy]
  /\ UNCHANGED <<run, objects, broker, outside>>

AfterPolicy(r) == CASE work[r].job = "" -> "prepare"
                    [] work[r].job = "cleanup" -> "cleanupPods"
                    [] OTHER -> "removeFinalizer"

\* Mutant of WritePolicy: what was written since the read is lost.
WritePolicy_LostUpdate(r) ==
  /\ At(r, "writePolicy")
  /\ policy' = IF work[r].job = "" THEN Upsert(r, work[r].copy) ELSE Remove(r, work[r].copy)
  /\ work' = [work EXCEPT ![r].pc = AfterPolicy(r), ![r].copy = {}]
  /\ UNCHANGED <<run, objects, projected, outside>>

WritePolicy(r) ==
  LET changed == IF work[r].job = "" THEN Upsert(r, work[r].copy) ELSE Remove(r, work[r].copy)
  IN /\ At(r, "writePolicy")
     /\ IF policy = work[r].copy \/ changed = work[r].copy
        THEN /\ policy' = IF changed = work[r].copy THEN policy ELSE changed
             /\ work' = [work EXCEPT ![r].pc = AfterPolicy(r), ![r].copy = {}]
        ELSE /\ UNCHANGED policy
             /\ work' = [work EXCEPT ![r].pc = "readPolicy", ![r].copy = {}]
     /\ UNCHANGED <<run, objects, projected, outside>>

\* The agent's ConfigMap caches what the broker prepared for the run; the broker
\* answers an identity it has read, and a pass waits for that a while.
Answered(r) == spec[r].placeholders => "agentConfig" \in owned[r] \/ AgentOf(r) \in projected

Prepare(r) ==
  /\ At(r, "prepare")
  /\ Answered(r)
  /\ owned' = [owned EXCEPT ![r] = @ \cup {"agentConfig"}]
  /\ work' = [work EXCEPT
       ![r].run.policyReady = @ \/ spec[r].enforced,
       ![r].pc = IF Exists(work[r].pod) THEN "status" ELSE IF spec[r].enforced THEN "gates" ELSE "create"]
  /\ UNCHANGED <<run, pod, egressd, claim, ca, trust, config, broker, outside>>

\* reconcileEnforcementGates: egressd is ready, then its CA is published.
waitForEgressd(r) ==
  /\ At(r, "gates") /\ Exists(SeenEgressd(r)) /\ SeenEgressd(r).state # "running"
  /\ StoredAndReturned(r, work[r].run)
  /\ UNCHANGED <<objects, broker, outside>>

publishEgressCAConfigMap(r) ==
  /\ At(r, "gates") /\ SeenEgressd(r).state = "running"
  /\ \/ /\ ca[r].fresh
        /\ trust' = [trust EXCEPT ![r] = ca[r].generation]
        /\ work' = [work EXCEPT ![r].pc = "create", ![r].run.caPublished = "published"]
        /\ UNCHANGED run
     \/ /\ ~ca[r].fresh
        /\ StoredAndReturned(r, [work[r].run EXCEPT !.caPublished = "failed"])
        /\ UNCHANGED trust
  /\ UNCHANGED <<pod, egressd, owned, claim, ca, config, broker, outside>>

createAgentPod(r) ==
  LET p == [NoPod EXCEPT !.state = "pending", !.generation = IF spec[r].enforced THEN ca[r].generation ELSE 0,
                         !.config = config[r], !.spec = work[r].run.spec, !.docker = spec[r].persistent]
  IN /\ At(r, "create")
     /\ spec[r].enforced => enforcementAgentPodGatesHold(work[r].run)
     /\ ~Exists(pod[r]) /\ history[r].pods < MaxPods
     /\ pod' = [pod EXCEPT ![r] = p]
     /\ history' = [history EXCEPT ![r].pods = @ + 1]
     /\ work' = [work EXCEPT ![r].pc = "status", ![r].pod = p]
     /\ UNCHANGED <<run, egressd, owned, claim, ca, trust, config, broker, spec, mail, due, env, cache, faults>>

\* The status as the pass has it, written when it differs from what was read.
SyncStatus(r) ==
  LET a == Observed(r, InitializeAgentRunStatus(work[r].run), work[r].pod)
      pc == IF IsTerminalAgentRunPhase(a.phase) THEN "cleanup" ELSE "lastDeadline"
  IN /\ At(r, "status")
     /\ \/ a # work[r].base /\ Stored(r, a, pc)
        \/ a = work[r].base /\ Goto(r, pc) /\ UNCHANGED run
     /\ UNCHANGED <<objects, broker, outside>>
-----------------------------------------------------------------------------
(* Terminal runs and deleted ones                                           *)

\* Mutants of reconcileTerminalResourceCleanup: a deadline waits for the TTL of
\* failed runs, and without a TTL the retention is forgotten.
reconcileTerminalResourceCleanup_SameTTL(r) ==
  /\ At(r, "cleanup")
  /\ CASE TerminalPodCleanupDelay(r) = "now" -> work' = [work EXCEPT ![r].pc = "readPolicy", ![r].job = "cleanup"]
       [] TerminalPodCleanupDelay(r) = "later" -> Return(r)
       [] TerminalPodCleanupDelay(r) = "never" -> Goto(r, "retention")
  /\ UNCHANGED <<run, objects, broker, outside>>

reconcileTerminalResourceCleanup_NoTTL(r) ==
  LET delay == IF work[r].run.phase = "DeadlineExceeded" THEN "now" ELSE TerminalPodCleanupDelay(r)
  IN /\ At(r, "cleanup")
     /\ IF delay = "now" THEN work' = [work EXCEPT ![r].pc = "readPolicy", ![r].job = "cleanup"] ELSE Return(r)
     /\ UNCHANGED <<run, objects, broker, outside>>

\* reconcileTerminalResourceCleanup: when to delete the run's resources.
reconcileTerminalResourceCleanup(r) ==
  LET delay == IF work[r].run.phase = "DeadlineExceeded" THEN "now" ELSE TerminalPodCleanupDelay(r)
  IN /\ At(r, "cleanup")
     /\ CASE delay = "now"   -> work' = [work EXCEPT ![r].pc = "readPolicy", ![r].job = "cleanup"]
          [] delay = "later" -> Return(r)
          [] delay = "never" -> Goto(r, "retention")
     /\ UNCHANGED <<run, objects, broker, outside>>

\* A revocation that fails does not stop the cleanup, it makes it run again.
revocationFails(r) ==
  /\ At(r, "readPolicy") /\ work[r].job = "cleanup" /\ faults < MaxFaults
  /\ work' = [work EXCEPT ![r].pc = "cleanupPods", ![r].failed = TRUE]
  /\ faults' = faults + 1
  /\ UNCHANGED <<spec, run, objects, broker, spec, mail, due, env, cache, history>>

\* Nothing is deleted while a Pod of that name belongs to somebody else.
deleteTerminalPods(r) ==
  /\ At(r, "cleanupPods")
  /\ IF SeenPod(r).own /\ SeenEgressd(r).own
     THEN /\ pod' = [pod EXCEPT ![r] = IF Exists(SeenPod(r)) THEN Deleted(@) ELSE @]
          /\ egressd' = [egressd EXCEPT ![r] = IF Exists(SeenEgressd(r)) THEN Deleted(@) ELSE @]
          /\ Goto(r, "cleanupRest")
     ELSE Return(r) /\ UNCHANGED <<pod, egressd>>
  /\ UNCHANGED <<run, owned, claim, ca, trust, config, broker, outside>>

\* Mutant of deleteTerminalResources: the Pods were asked to go, so the rest goes.
deleteTerminalResources_AtOnce(r) ==
  /\ At(r, "cleanupRest")
  /\ owned' = [owned EXCEPT ![r] = {}]
  /\ claim' = [claim EXCEPT ![r] = NoClaims]
  /\ ca' = [ca EXCEPT ![r] = [generation |-> 0, fresh |-> FALSE]]
  /\ trust' = [trust EXCEPT ![r] = 0]
  /\ config' = [config EXCEPT ![r] = NoEnvironment]
  /\ IF work[r].failed THEN Return(r) ELSE Goto(r, "retention")
  /\ UNCHANGED <<run, pod, egressd, broker, outside>>

\* The rest goes when both Pods are gone; one deletion may fail, the others
\* are tried all the same.
deleteTerminalResources(r) ==
  /\ At(r, "cleanupRest")
  /\ \/ /\ Exists(SeenPod(r)) \/ Exists(SeenEgressd(r))
        /\ Return(r) /\ UNCHANGED <<owned, claim, ca, trust, config>>
     \/ /\ ~Exists(SeenPod(r)) /\ ~Exists(SeenEgressd(r))
        /\ owned' = [owned EXCEPT ![r] = {}]
        /\ claim' = [claim EXCEPT ![r] = NoClaims]
        /\ ca' = [ca EXCEPT ![r] = [generation |-> 0, fresh |-> FALSE]]
        /\ trust' = [trust EXCEPT ![r] = 0]
        /\ config' = [config EXCEPT ![r] = NoEnvironment]
        /\ IF work[r].failed THEN Return(r) ELSE Goto(r, "retention")
  /\ UNCHANGED <<run, pod, egressd, broker, outside>>

reconcileTerminalAgentRunRetention(r) ==
  /\ At(r, "retention")
  /\ IF RunRetentionDelay(r) = "now" THEN run' = [run EXCEPT ![r].deleting = TRUE] ELSE UNCHANGED run
  /\ Return(r)
  /\ UNCHANGED <<objects, broker, outside>>

\* Mutant of finalize: the finalizer of a run that is over revokes nothing.
finalize_Unrevoked(r) ==
  /\ \/ At(r, "finalize") /\ work[r].run.finalizer /\ Goto(r, "removeFinalizer")
     \/ At(r, "legacyFinalize") /\ Goto(r, "fail")
  /\ UNCHANGED <<run, objects, broker, outside>>

\* finalizeAgentRun, and the same for a legacy run, which keeps its other
\* finalizers and is marked failed afterwards.
finalize(r) ==
  /\ \/ At(r, "finalize") /\ work[r].run.finalizer
        /\ work' = [work EXCEPT ![r].pc = "readPolicy", ![r].job = "finalize"]
     \/ At(r, "legacyFinalize") /\ work[r].run.finalizer
        /\ work' = [work EXCEPT ![r].pc = "readPolicy", ![r].job = "legacy"]
     \/ At(r, "legacyFinalize") /\ ~work[r].run.finalizer /\ Goto(r, "fail")
  /\ UNCHANGED <<run, objects, broker, outside>>

removeFinalizer(r) ==
  /\ At(r, "removeFinalizer")
  /\ IF spec[r].legacy THEN Stored(r, [work[r].run EXCEPT !.finalizer = FALSE], "fail")
     ELSE StoredAndReturned(r, [work[r].run EXCEPT !.finalizer = FALSE, !.alive = FALSE])
  /\ UNCHANGED <<objects, broker, outside>>
-----------------------------------------------------------------------------
(* Failures, and the cluster                                                *)

\* A write meets a conflict or a name that is taken, a read shows what the pass
\* cannot go on with: it returns an error and the run is queued again.
Conflict(r) ==
  /\ ~Current(r)
  /\ work[r].pc \in {"finalizer", "pod", "deadline", "lastDeadline", "ca", "gates", "status", "removeFinalizer"}
Taken(r) == (At(r, "create") /\ Exists(pod[r])) \/ (At(r, "egressd") /\ Exists(egressd[r]))
Stuck(r) ==
  \/ At(r, "workspace") /\ claim[r].workspace = "lost"
  \/ (At(r, "docker") \/ At(r, "migration")) /\ claim[r].docker = "lost"
  \/ At(r, "egressdConfig") /\ ~SeenEgressd(r).own
  \/ At(r, "fail") /\ ~run[r].alive
  \/ At(r, "gates") /\ ~Exists(SeenEgressd(r))
  \/ At(r, "prepare") /\ ~Answered(r)

Refused(r) ==
  /\ Conflict(r) \/ Taken(r) \/ Stuck(r)
  /\ Return(r)
  /\ UNCHANGED <<run, objects, broker, outside>>

Fault == faults < MaxFaults /\ faults' = faults + 1

CallFails(r) ==
  /\ Fault /\ ~At(r, "idle")
  /\ Return(r)
  /\ UNCHANGED <<spec, run, objects, broker, spec, mail, due, env, cache, history>>

OperatorRestarts ==
  /\ Fault
  /\ work' = [r \in Runs |-> Resting]
  /\ env' \in Environments
  /\ UNCHANGED <<spec, run, objects, broker, mail, due, cache, history>>

CacheCatchesUp(r) ==
  /\ CacheLags /\ ~At(r, "idle") /\ cache[r] # Cached(r)
  /\ cache' = [cache EXCEPT ![r] = Cached(r)]
  /\ UNCHANGED <<spec, run, objects, broker, mail, due, env, work, faults, history>>

\* The kubelet: a Pod starts, its agent exits, with or without a lifecycle event
\* in its termination message, and a deleted Pod is removed in the end.
PodStarts(r) ==
  /\ pod[r].state = "pending" /\ ~pod[r].deleting
  /\ pod' = [pod EXCEPT ![r].state = "running"]
  /\ history' = [history EXCEPT ![r].outcome = IF @ = "reported" THEN "restarted" ELSE @]
  /\ UNCHANGED <<run, egressd, owned, claim, ca, trust, config, broker, spec, mail, due, env, cache, work, faults>>

AgentExits(r) ==
  /\ pod[r].state = "running"
  /\ \E event \in IF spec[r].enforced THEN {"", "complete", "fail"} ELSE {""} :
       /\ pod' = [pod EXCEPT ![r].state = "exited", ![r].event = event]
       /\ history' = [history EXCEPT ![r].outcome = IF event # "" THEN "reported" ELSE @]
  /\ UNCHANGED <<run, egressd, owned, claim, ca, trust, config, broker, spec, mail, due, env, cache, work, faults>>

EgressdStarts(r) ==
  /\ egressd[r].state = "pending" /\ ~egressd[r].deleting
  /\ egressd' = [egressd EXCEPT ![r].state = "running"]
  /\ UNCHANGED <<run, pod, owned, claim, ca, trust, config, broker, outside, work>>

PodRemoved(r) ==
  /\ \/ pod[r].deleting /\ pod' = [pod EXCEPT ![r] = NoPod] /\ UNCHANGED egressd
     \/ egressd[r].deleting /\ egressd' = [egressd EXCEPT ![r] = NoPod] /\ UNCHANGED pod
  /\ UNCHANGED <<run, owned, claim, ca, trust, config, broker, outside, work>>

\* A node fails or is drained.
PodDisrupted(r) ==
  /\ Fault
  /\ \/ /\ pod[r].state \in {"pending", "running"}
        /\ \/ pod' = [pod EXCEPT ![r].state = "failed"]
           \/ pod' = [pod EXCEPT ![r] = Deleted(@)]
        /\ UNCHANGED egressd
     \/ Exists(egressd[r]) /\ egressd[r].own /\ egressd' = [egressd EXCEPT ![r] = Deleted(@)] /\ UNCHANGED pod
  /\ UNCHANGED <<run, owned, claim, ca, trust, config, broker, spec, mail, due, env, cache, history, work>>

ClaimChanges(r) ==
  /\ \/ claim[r].workspace = "pending" /\ claim' = [claim EXCEPT ![r].workspace = "bound"] /\ UNCHANGED faults
     \/ claim[r].docker = "pending" /\ pod[r].docker /\ claim' = [claim EXCEPT ![r].docker = "bound"] /\ UNCHANGED faults
     \/ claim[r].workspace = "bound" /\ Fault /\ claim' = [claim EXCEPT ![r].workspace = "lost"]
     \/ claim[r].docker = "bound" /\ Fault /\ claim' = [claim EXCEPT ![r].docker = "lost"]
  /\ UNCHANGED <<run, pod, egressd, owned, ca, trust, config, broker, spec, mail, due, env, cache, history, work>>

PolicyProjected ==
  /\ projected # policy /\ projected' = policy
  /\ UNCHANGED <<run, objects, policy, outside, work>>

\* The agent of a run that is not enforced reports events to the callback,
\* which may receive one late or twice.
AgentReports(r) ==
  /\ ~spec[r].enforced /\ pod[r].state = "running"
  /\ \E event \in {"complete", "fail"} : mail' = [mail EXCEPT ![r] = @ \cup {event}]
  /\ UNCHANGED <<spec, run, objects, broker, due, env, cache, faults, history, work>>

\* applyLifecycleEvent: retried on a conflict, so its read and its write are one step.
applyLifecycleEvent(r) ==
  /\ run[r].alive /\ "callbackToken" \in owned[r]
  /\ ~IsTerminalAgentRunPhase(run[r].phase)
  /\ \E event \in mail[r] : run' = [run EXCEPT ![r] = AgentRunLifecycleTransition(@, event)]
  /\ UNCHANGED <<objects, broker, outside, work>>

TimePasses(r) ==
  /\ \E d \in {"deadline", "ttl", "retention"} \ due[r] :
       /\ d = "deadline" => spec[r].deadline /\ run[r].started
       /\ d = "ttl" => spec[r].ttl /\ run[r].phase \in {"Completed", "Failed"}
       /\ d = "retention" => ~spec[r].retained /\ IsTerminalAgentRunPhase(run[r].phase)
       /\ due' = [due EXCEPT ![r] = @ \cup {d}]
  /\ UNCHANGED <<spec, run, objects, broker, mail, env, cache, faults, history, work>>

EgressCAAges(r) ==
  /\ ca[r].fresh /\ ca[r].generation < MaxGeneration
  /\ ca' = [ca EXCEPT ![r].fresh = FALSE]
  /\ UNCHANGED <<run, pod, egressd, owned, claim, trust, config, broker, outside, work>>

\* A user edits credentials in the spec, or deletes the run.
SpecChanges(r) ==
  /\ Fault /\ run[r].alive /\ run[r].spec = 1
  /\ run' = [run EXCEPT ![r].spec = 2]
  /\ UNCHANGED <<spec, objects, broker, spec, mail, due, env, cache, history, work>>

UserDeletes(r) ==
  /\ Fault /\ run[r].alive /\ ~run[r].deleting
  /\ run' = [run EXCEPT ![r].deleting = TRUE, ![r].alive = run[r].finalizer \/ spec[r].legacy]
  /\ UNCHANGED <<spec, objects, broker, spec, mail, due, env, cache, history, work>>

\* Kubernetes deletes what a deleted run owned.
GarbageCollected(r) ==
  /\ ~run[r].alive /\ At(r, "idle")
  /\ Exists(pod[r]) \/ (Exists(egressd[r]) /\ egressd[r].own) \/ owned[r] # {}
  /\ pod' = [pod EXCEPT ![r] = NoPod]
  /\ egressd' = [egressd EXCEPT ![r] = IF @.own THEN NoPod ELSE @]
  /\ owned' = [owned EXCEPT ![r] = {}]
  /\ claim' = [claim EXCEPT ![r] = NoClaims]
  /\ ca' = [ca EXCEPT ![r] = [generation |-> 0, fresh |-> FALSE]]
  /\ trust' = [trust EXCEPT ![r] = 0] /\ config' = [config EXCEPT ![r] = NoEnvironment]
  /\ UNCHANGED <<run, broker, outside, work>>
-----------------------------------------------------------------------------
PassStep(r) ==
  \/ AddFinalizer(r) \/ setAgentRunFailed(r) \/ dropDriftedPods(r) \/ ReadPod(r)
  \/ reconcileActiveDeadline(r) \/ reconcileWorkspacePVC(r) \/ reconcileDockerPVC(r)
  \/ reconcileLegacyDockerStorageMigration(r) \/ reconcileTokenSecrets(r)
  \/ reconcileEgressdConfigMap(r) \/ createEgressCASecret(r) \/ keepEgressCASecret(r)
  \/ persistRotationIntent(r) \/ deleteCAConsumer(r) \/ rotateEgressCASecret(r)
  \/ reconcileNetworkPolicies(r) \/ reconcileEgressdPod(r) \/ reconcileEgressdService(r)
  \/ ReadPolicy(r) \/ WritePolicy(r) \/ Prepare(r) \/ waitForEgressd(r)
  \/ publishEgressCAConfigMap(r) \/ createAgentPod(r) \/ SyncStatus(r)
  \/ reconcileTerminalResourceCleanup(r) \/ deleteTerminalPods(r) \/ deleteTerminalResources(r)
  \/ reconcileTerminalAgentRunRetention(r) \/ finalize(r) \/ removeFinalizer(r)
  \/ Refused(r)

ClusterStep(r) ==
  \/ CacheCatchesUp(r) \/ PodStarts(r) \/ AgentExits(r) \/ EgressdStarts(r) \/ PodRemoved(r)
  \/ ClaimChanges(r) \/ AgentReports(r) \/ applyLifecycleEvent(r) \/ TimePasses(r)
  \/ EgressCAAges(r) \/ GarbageCollected(r)

Trouble(r) ==
  CallFails(r) \/ revocationFails(r) \/ PodDisrupted(r) \/ SpecChanges(r) \/ UserDeletes(r)

ReconcilerNext ==
  \/ \E r \in Runs : Reconcile(r) \/ PassStep(r) \/ ClusterStep(r) \/ Trouble(r)
  \/ PolicyProjected \/ OperatorRestarts

ReconcilerSafety == ReconcilerInit /\ [][ReconcilerNext]_reconcilerVars

\* Fairness: a queued run is taken up again and a pass makes progress (errors and
\* requeues put it back), the kubelet removes and starts Pods, the cache and the
\* broker's projection catch up, time passes.
ReconcilerSpec ==
  /\ ReconcilerSafety
  /\ \A r \in Runs : /\ SF_reconcilerVars(Reconcile(r)) /\ WF_reconcilerVars(PassStep(r))
                     /\ WF_reconcilerVars(PodRemoved(r)) /\ WF_reconcilerVars(CacheCatchesUp(r))
                     /\ WF_reconcilerVars(EgressdStarts(r)) /\ SF_reconcilerVars(TimePasses(r))
  /\ WF_reconcilerVars(PolicyProjected)
-----------------------------------------------------------------------------
(* Properties                                                               *)

RunTypeOK(r) ==
  /\ run[r] \in [alive : BOOLEAN, phase : Phases, started : BOOLEAN, finalizer : BOOLEAN, deleting : BOOLEAN,
                 spec : 1..2, policyReady : BOOLEAN, caPublished : {"", "published", "rotating", "failed"}]
  /\ owned[r] \subseteq Owned
  /\ ca[r].generation \in 0..MaxGeneration /\ trust[r] \in 0..MaxGeneration
  /\ {pod[r].state, egressd[r].state} \subseteq {"none", "pending", "running", "exited", "failed"}
  /\ mail[r] \subseteq {"complete", "fail"}

\* Runs, Pods and owned objects have the shapes the API types give them.
ReconcilerTypeOK ==
  /\ \A r \in Runs : RunTypeOK(r)
  /\ policy \cup projected \subseteq Runs \X {"agent", "egress"}
  /\ env \in Environments /\ faults \in 0..MaxFaults

\* The broker forgets a run before the run is gone: however calls fail and
\* passes over two runs interleave in the shared ConfigMap, a run that no
\* longer exists has no identity left in the policy (finalizeAgentRun,
\* updateBrokerAgentsPolicy).
RevokedBeforeGone ==
  \A r \in Runs : ~run[r].alive => policy \cap {<<r, "agent">>, <<r, "egress">>} = {}

\* The policy never loses the identities of a run whose agent Pod is at work:
\* a pass over another run that read the ConfigMap earlier does not write them
\* away, and they are there before the Pod is.
ActivePodIsAdmitted ==
  \A r \in Runs :
    run[r].alive /\ Exists(pod[r]) /\ ~IsTerminalAgentRunPhase(run[r].phase) /\ ~run[r].deleting
      => Identities(r) \subseteq policy

\* Access follows the run: every identity of a run is in the policy while its
\* agent works, and none is once the run is gone, although all runs share one object.
AccessFollowsRun == RevokedBeforeGone /\ ActivePodIsAdmitted

\* The agent and egressd never trust different CAs: whatever Pods of an enforced
\* run exist, those still terminating included, belong to the generation of
\* the CA Secret, and the agent's is the published one (reconcileEgressCASecret).
OneGeneration ==
  \A r \in Runs :
    spec[r].enforced /\ run[r].alive /\ ca[r].generation # 0 =>
      /\ Exists(pod[r]) => pod[r].generation = ca[r].generation /\ trust[r] = ca[r].generation
      /\ Exists(egressd[r]) /\ egressd[r].own => egressd[r].generation = ca[r].generation

\* operator/docs/agentrun.md: NetworkPolicies and the other resources stay until
\* both Pods are confirmed gone, so a Pod of an enforced run is never without
\* its fence while the run exists (deleteTerminalOperationalResources).
FenceOutlivesPods ==
  \A r \in Runs :
    spec[r].enforced /\ run[r].alive /\ (Exists(pod[r]) \/ (Exists(egressd[r]) /\ egressd[r].own)) => Fence \subseteq owned[r]

\* A Pod keeps the egressd configuration it was rendered against: a restart of the
\* operator with other broker settings does not retarget a running run.
ConfigUnderPod ==
  \A r \in Runs :
    spec[r].mediated /\ run[r].alive /\ ~IsTerminalAgentRunPhase(run[r].phase) =>
      /\ Exists(pod[r]) => pod[r].config = config[r]
      /\ Exists(egressd[r]) /\ egressd[r].own => egressd[r].config = config[r]

\* The claims of a Pod that uses a Docker claim exist as long as the Pod and its
\* run do (reconcileWorkspacePVC, reconcileDockerPVC).
ClaimsOutlivePods ==
  \A r \in Runs :
    spec[r].persistent /\ run[r].alive /\ Exists(pod[r]) /\ pod[r].docker =>
    claim[r].workspace # "none" /\ claim[r].docker # "none"

\* What a Pod was made from stays as it was: the CA and the configuration it loaded.
PodsMatchInputs == ReconcilerTypeOK /\ OneGeneration /\ ConfigUnderPod

\* What a Pod depends on outlives it: its fence and its claims.
DependenciesOutlivePods == FenceOutlivesPods /\ ClaimsOutlivePods

\* What the reconciler promises about a run, with its phase, its agent identity
\* in the broker policy and its agent Pod.
Stage(r) == IF ~run[r].alive THEN "gone"
            ELSE IF IsTerminalAgentRunPhase(run[r].phase) \/ run[r].deleting THEN "finished" ELSE "active"
Lifecycle == INSTANCE RunLifecycle WITH
  stage <- [r \in Runs |-> Stage(r)],
  admitted <- {r \in Runs : AgentOf(r) \in policy},
  working <- {r \in Runs : Exists(pod[r])}

\* The reconciler implements RunLifecycle: no interleaving of passes, callbacks,
\* disruptions and failures starts a run the broker does not admit, takes access
\* from an active one, revives a finished one or forgets one that has access.
ImplementsRunLifecycle == Lifecycle!LifecycleSpec

\* A completed entrypoint is not executed again: once the agent of an enforced
\* run has reported a lifecycle event in its termination message, no later Pod
\* of the run starts (agentrun_controller.go: "CA rotation must never erase the
\* only durable lifecycle observation and re-execute a completed entrypoint").
NeverReexecuted == \A r \in Runs : spec[r].enforced => history[r].outcome # "restarted"

\* A run past its active deadline loses its Pods and its broker access, whatever
\* fails on the way (a Pod name taken by somebody else keeps it forever).
DeadlineIsEnforced ==
  \A r \in Runs :
    ~spec[r].foreign /\ run[r].phase = "DeadlineExceeded" ~>
      ~Exists(pod[r]) /\ ~Exists(egressd[r]) /\ policy \cap {<<r, "agent">>, <<r, "egress">>} = {}

\* A terminal run that is not kept forever is deleted in the end, and a run its
\* user deletes is not held back by its finalizer.
TerminalIsCollected ==
  \A r \in Runs :
    ~spec[r].foreign /\ ~spec[r].legacy /\ ((~spec[r].retained /\ IsTerminalAgentRunPhase(run[r].phase)) \/ run[r].deleting) ~> ~run[r].alive

\* Runs end for good: an overdue run loses its Pods and its access, and a terminal
\* one that is not retained, or a deleted one, disappears.
RunsEnd == DeadlineIsEnforced /\ TerminalIsCollected
=============================================================================
