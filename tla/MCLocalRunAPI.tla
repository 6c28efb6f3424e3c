--------------------------- MODULE MCLocalRunAPI ---------------------------
(***************************************************************************)
(* Small instances of the run store.  Run w is a workstation with two         *)
(* rollable revisions of one frozen configuration and one revision whose      *)
(* frozen part differs; runs p and q are scheduled work of one group.          *)
(***************************************************************************)
EXTENDS LocalRunAPI

CONSTANTS w, p, q, w1, w2, w3, p1, q1, kw, kp, kq, kpw, kqw, o1, o2, none

MCRunOf == [s \in Snapshots |->
              IF s = p1 THEN p ELSE IF s = q1 THEN q ELSE w]
MCFrozen == [s \in Snapshots |-> IF s \in {w1, w2} THEN w1 ELSE s]
MCExpiring == [s \in Snapshots |->
                 IF s \in Rollable THEN {} ELSE {"completed", "failed"}]
MCWorkstationKey == [r \in RunIDs |-> IF r = w THEN kw ELSE IF r = p THEN kpw ELSE kqw]

Input(k, g, s) == [key |-> k, group |-> g, snapshot |-> s]
Document(batch, prune, replace, ack) ==
  [batch |-> batch, prune |-> prune, replace |-> replace, acknowledged |-> ack]

WorkstationRequests == {Input(kw, none, w1), Input(kw, none, w2)}
WorkRequests == {c \in {Input(kp, kp, p1), Input(kq, kp, q1)} : c.snapshot \in Snapshots}

AllRequests == WorkstationRequests \cup WorkRequests

(* Every inventory an administrator can write for workstation w.               *)
AllInventories ==
  {Document({Input(kw, none, s)}, FALSE, TRUE, TRUE) : s \in {w1, w2, w3}}
    \cup {Document({}, TRUE, FALSE, TRUE)}
=============================================================================
