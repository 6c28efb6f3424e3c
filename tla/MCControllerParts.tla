-------------------------- MODULE MCControllerParts --------------------------
(***************************************************************************)
(* Two questions put to the controller in one run, told apart by the document. *)
(* A rollout of workstation ws to every other revision, its replacement and its  *)
(* pruning, with three faults; or workstation and scheduled run competing for    *)
(* one slot, with a deadline and a revision the backend rejects, and two faults. *)
(***************************************************************************)
EXTENDS MCLocalController

AllInventories == Everything \cup LateWorkstation
Capacity == document \in LateWorkstation

\* An edit stays within the question; only one of them schedules runs.
SamePart ==
  /\ Capacity <=> Capacity'
  /\ Capacity => faults' <= 2
  /\ ~Capacity => runs'[pr] = runs[pr]
=============================================================================
