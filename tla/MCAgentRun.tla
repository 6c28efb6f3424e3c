----------------------------- MODULE MCAgentRun -----------------------------
(* Instances of AgentRunReconciler for TLC.                                   *)
EXTENDS AgentRunReconciler, TLC

Absent ==
  [present |-> FALSE, legacy |-> FALSE, mediated |-> FALSE, enforced |-> FALSE, persistent |-> FALSE,
   placeholders |-> FALSE, deadline |-> FALSE, ttl |-> FALSE, retained |-> TRUE, oldPod |-> FALSE,
   leaving |-> FALSE, foreign |-> FALSE]
Plain == [Absent EXCEPT !.present = TRUE]
Direct == [Plain EXCEPT !.ttl = TRUE, !.retained = FALSE]
Sidecar == [Plain EXCEPT !.mediated = TRUE, !.ttl = TRUE]
Fenced == [Plain EXCEPT !.mediated = TRUE, !.enforced = TRUE, !.placeholders = TRUE, !.deadline = TRUE,
                        !.ttl = TRUE, !.retained = FALSE]
Disk == [Plain EXCEPT !.persistent = TRUE, !.deadline = TRUE, !.retained = FALSE]
OldDisk == [Disk EXCEPT !.oldPod = TRUE]
Squatted == [Plain EXCEPT !.foreign = TRUE, !.ttl = TRUE]
Leaving == [Plain EXCEPT !.leaving = TRUE]
External == [Plain EXCEPT !.legacy = TRUE]

MCSpecs == {Absent, Plain, Direct, Sidecar, Fenced, Disk, OldDisk, Squatted, Leaving, External}

Alone(s, budget) == [spec |-> ("a" :> s @@ "b" :> Absent), faults |-> MaxFaults - budget]
Pair(s, t, budget) == [spec |-> ("a" :> s @@ "b" :> t), faults |-> MaxFaults - budget]

\* Each kind of run alone with some trouble, and two runs that share the policy.
MCScenarios ==
  {Alone(Fenced, 1), Alone(Sidecar, 1), Alone(Disk, 1), Alone(OldDisk, 1), Alone(Squatted, 1),
   Alone(Direct, 1), Alone(External, 2), Pair(Plain, Leaving, 0)}
\* Little trouble, for the properties that take the whole state graph.
MCProgress == {Alone(Fenced, 0), Alone(Direct, 0), Alone(External, 1), Alone(Disk, 0)}
\* No trouble at all.
MCUndisturbed == {Alone(Fenced, 0)}
=============================================================================
