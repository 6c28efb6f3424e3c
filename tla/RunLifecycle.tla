---------------------------- MODULE RunLifecycle ----------------------------
(***************************************************************************)
(* What the operator promises about an AgentRun, whatever the cluster does:  *)
(* a run works only after the broker admits it, a finished run stays         *)
(* finished, access is withdrawn from finished runs only, and a run is       *)
(* forgotten only once it has no access left.                                *)
(***************************************************************************)
CONSTANT Runs

VARIABLES
  stage,      \* [Runs -> {"active", "finished", "gone"}]
  admitted,   \* the runs the broker admits
  working     \* the runs that have an agent Pod

lifecycleVars == <<stage, admitted, working>>

\* A run that is already working has been admitted, one that is gone has not.
LifecycleInit ==
  /\ stage \in [Runs -> {"active", "finished", "gone"}]
  /\ admitted \subseteq {r \in Runs : stage[r] # "gone"}
  /\ working \subseteq admitted

Admit(r) ==
  /\ stage[r] # "gone"
  /\ admitted' = admitted \cup {r}
  /\ UNCHANGED <<stage, working>>

Start(r) ==
  /\ r \in admitted
  /\ working' = working \cup {r}
  /\ UNCHANGED <<stage, admitted>>

Stop(r) ==
  /\ working' = working \ {r}
  /\ UNCHANGED <<stage, admitted>>

\* The run reaches a terminal phase or is marked for deletion.
Finish(r) ==
  /\ stage[r] = "active"
  /\ stage' = [stage EXCEPT ![r] = "finished"]
  /\ UNCHANGED <<admitted, working>>

Withdraw(r) ==
  /\ stage[r] = "finished"
  /\ admitted' = admitted \ {r}
  /\ UNCHANGED <<stage, working>>

Forget(r) ==
  /\ stage[r] # "gone" /\ r \notin admitted
  /\ stage' = [stage EXCEPT ![r] = "gone"]
  /\ UNCHANGED <<admitted, working>>

LifecycleNext ==
  \E r \in Runs : Admit(r) \/ Start(r) \/ Stop(r) \/ Finish(r) \/ Withdraw(r) \/ Forget(r)

LifecycleSpec == LifecycleInit /\ [][LifecycleNext]_lifecycleVars
=============================================================================
