-------------------------- MODULE MCLocalController --------------------------
(***************************************************************************)
(* Small instances of the controller: workstation ws with revisions w1, w2,     *)
(* w4 (one frozen configuration) and w3 (another), and scheduled run pr.         *)
(***************************************************************************)
EXTENDS LocalController, TLC

CONSTANTS ws, pr, w1, w2, w3, w4, p1, kw, kp, kpw, none, o1, o2, o3

MCRunOf == [s \in Snapshots |-> IF s = p1 THEN pr ELSE ws]
MCFrozen == [s \in Snapshots |-> IF s \in {w2, w4} THEN w1 ELSE s]
MCExpiring == [s \in Snapshots |-> {}]
MCWorkstationKey == [r \in RunIDs |-> IF r = ws THEN kw ELSE kpw]

Input(k, s) == [key |-> k, group |-> none, snapshot |-> s]
Document(batch, prune, replace) ==
  [batch |-> batch, prune |-> prune, replace |-> replace, acknowledged |-> TRUE]

NoRequests == {}
WorkRequests == {Input(kp, p1)}

Only(s) == Document({Input(kw, s)}, FALSE, FALSE)
ReplaceBy(s) == Document({Input(kw, s)}, FALSE, TRUE)
PruneAll == Document({}, TRUE, FALSE)

OneWorkstation == {Only(w1)}
LateWorkstation == {Document({}, FALSE, TRUE), ReplaceBy(w1), ReplaceBy(w4)}
Replaceable == {ReplaceBy(w1), ReplaceBy(w3)}
OtherWorkstation == Document({Input(kpw, p1)}, FALSE, FALSE)
MovedWorkstation == {Only(w1), ReplaceBy(w3), OtherWorkstation}
Everything == {Only(w1), Only(w2), ReplaceBy(w3), PruneAll}

Symmetry == Permutations(Owners)
=============================================================================
