------------------------- MODULE LocalRunAPIProofs -------------------------
(***************************************************************************)
(* What the run store guarantees for every table, every set of callers and   *)
(* every number of runs.  All operations rewrite rows one by one, so the      *)
(* inductive invariant is a predicate of one row, and the proof is a lemma    *)
(* per row transformer and a theorem that lifts them to the table.            *)
(***************************************************************************)
EXTENDS LocalRunAPI, TLAPS

(* A row that every reader accepts.  Two facts are needed besides what          *)
(* validateStoredRun checks: a rollable snapshot never carries a retention     *)
(* expiry (a prune does not clear it), and a staged replacement always has the  *)
(* target "completed" (or a revert would leave another one).                  *)
GoodRow(r, row) ==
  /\ row \in Row /\ row.state # "absent" /\ row.key \in Keys
  /\ validateStoredRun(r, row)
  /\ row.snapshot \in Rollable => row.expires = "none"
  /\ row.state = "stopping" /\ row.pending # None => row.target = "completed"

ValidRow(r, row) == row = NoRow \/ GoodRow(r, row)

RevertedRow(r, row) ==
  row \in Row /\ Reverted(row) /\ row.key \in Keys /\ row.snapshot \in Snapshots

TableInv ==
  /\ runs \in [RunIDs -> Row]
  /\ \A r \in RunIDs : ValidRow(r, runs[r]) \/ RevertedRow(r, runs[r])
-----------------------------------------------------------------------------
(* Row transformers.                                                          *)
USE DEF Active, Terminal, Timers, Reasons, Replacement, IsActive, IsTerminal

LEMMA NoRowTyped == NoRow \in Row
BY StoreConstants DEF NoRow, Row

(* Writing one column with a value of its type keeps the row typed.            *)
LEMMA SetState ==
  ASSUME NEW row \in Row, NEW v \in Active \cup Terminal \cup {"absent"}
  PROVE  [row EXCEPT !.state = v] \in Row
BY DEF Row

LEMMA SetRevision == ASSUME NEW row \in Row, NEW v \in Nat PROVE [row EXCEPT !.revision = v] \in Row
BY DEF Row

LEMMA SetKey ==
  ASSUME NEW row \in Row, NEW v \in Keys \cup {None}
  PROVE  [row EXCEPT !.key = v] \in Row /\ [row EXCEPT !.group = v] \in Row
BY DEF Row

LEMMA SetSnapshot ==
  ASSUME NEW row \in Row, NEW v \in Snapshots \cup {None}
  PROVE  /\ [row EXCEPT !.snapshot = v] \in Row
         /\ [row EXCEPT !.ownership = v] \in Row
         /\ [row EXCEPT !.pending = v] \in Row
BY DEF Row

LEMMA SetFlag ==
  ASSUME NEW row \in Row, NEW v \in BOOLEAN
  PROVE  [row EXCEPT !.deleteRequested = v] \in Row /\ [row EXCEPT !.deleted = v] \in Row
BY DEF Row

LEMMA SetTarget ==
  ASSUME NEW row \in Row, NEW v \in Terminal \cup {None} PROVE [row EXCEPT !.target = v] \in Row
BY DEF Row

LEMMA SetTimer ==
  ASSUME NEW row \in Row, NEW v \in Timers
  PROVE  /\ [row EXCEPT !.deadline = v] \in Row
         /\ [row EXCEPT !.expires = v] \in Row
         /\ [row EXCEPT !.lease = v] \in Row
BY DEF Row

LEMMA SetOwner ==
  ASSUME NEW row \in Row, NEW v \in Owners \cup {None} PROVE [row EXCEPT !.owner = v] \in Row
BY DEF Row

LEMMA SetReason == ASSUME NEW row \in Row, NEW v \in Reasons PROVE [row EXCEPT !.reason = v] \in Row
BY DEF Row

LEMMA SetCursor == ASSUME NEW row \in Row, NEW v \in Cursors PROVE [row EXCEPT !.cursor = v] \in Row
BY DEF Row

(* Taking away a claim.                                                       *)
LEMMA ReleasedTyped ==
  ASSUME NEW row \in Row PROVE Released(row) \in Row
<1>1. row.revision + 1 \in Nat
  BY DEF Row
<1> QED BY <1>1, SetRevision, SetOwner, SetTimer, Zenon DEF Released

(* A run past its deadline enters cleanup. *)
LEMMA OverdueValid ==
  ASSUME NEW r \in RunIDs, NEW row, GoodRow(r, row), DeadlineDue(row)
  PROVE  GoodRow(r, Overdue(row))
<1> DEFINE new == Overdue(row)
<1>1. row \in Row /\ row.revision + 1 \in Nat
  BY SMT DEF GoodRow, Row
<1>3. new \in Row
  BY <1>1, ReleasedTyped, SetState, SetReason, SetTarget, SetSnapshot, Zenon DEF Overdue
<1>4. new.state # "absent" /\ new.key \in Keys /\ validateStoredRun(r, new)
  BY StoreConstants DEF GoodRow, Row, validateStoredRun, DeadlineDue, Overdue, Released
<1>5. /\ new.snapshot \in Rollable => new.expires = "none"
      /\ new.state = "stopping" /\ new.pending # None => new.target = "completed"
  BY StoreConstants DEF GoodRow, Row, validateStoredRun, DeadlineDue, Overdue, Released
<1> QED BY <1>3, <1>4, <1>5 DEF GoodRow

(* A terminal run that is deleted or past its retention enters cleanup. *)
LEMMA RetiredValid ==
  ASSUME NEW r \in RunIDs, NEW row, GoodRow(r, row), IsTerminal(row), ~row.deleted
  PROVE  GoodRow(r, Retired(row))
<1> DEFINE new == Retired(row)
<1>1. row \in Row /\ row.revision + 1 \in Nat
  BY SMT DEF GoodRow, Row
<1>2. TRUE \in BOOLEAN /\ row.state \in Terminal \cup {None}
  BY Zenon
<1>3. new \in Row
  BY <1>1, <1>2, SetState, SetTarget, SetTimer, SetFlag, SetRevision, SetReason, Zenon DEF Retired
<1>4. new.state # "absent" /\ new.key \in Keys /\ validateStoredRun(r, new)
  BY StoreConstants DEF GoodRow, Row, validateStoredRun, Retired
<1>5. /\ new.snapshot \in Rollable => new.expires = "none"
      /\ new.state = "stopping" /\ new.pending # None => new.target = "completed"
  BY StoreConstants DEF GoodRow, Row, validateStoredRun, Retired
<1> QED BY <1>3, <1>4, <1>5 DEF GoodRow

(* Staging a compatible configuration. *)
LEMMA StageValid ==
  ASSUME NEW r \in RunIDs, NEW row, GoodRow(r, row), NEW s \in Snapshots,
         workstationUpdateCompatible(row.snapshot, s),
         ~row.deleteRequested, row.state \in {"running", "preparing"}
  PROVE  GoodRow(r, Staged(row, s))
<1> DEFINE new == Staged(row, s)
<1>1. row \in Row /\ row.revision + 1 \in Nat
  BY SMT DEF GoodRow, Row
<1>3. new \in Row
  BY <1>1, ReleasedTyped, SetSnapshot, SetState, SetReason, Zenon DEF Staged
<1>4. new.state # "absent" /\ new.key \in Keys /\ validateStoredRun(r, new)
  BY StoreConstants DEF GoodRow, Row, validateStoredRun, Staged, Released, workstationUpdateCompatible
<1>5. /\ new.snapshot \in Rollable => new.expires = "none"
      /\ new.state = "stopping" /\ new.pending # None => new.target = "completed"
  BY StoreConstants DEF GoodRow, Row, validateStoredRun, Staged, Released, workstationUpdateCompatible
<1> QED BY <1>3, <1>4, <1>5 DEF GoodRow

(* Restarting a stopped workstation, with the same or a new configuration. *)
LEMMA RestartValid ==
  ASSUME NEW r \in RunIDs, NEW row, GoodRow(r, row), NEW s \in Snapshots,
         RunOf[s] = r, row.state \in {"completed", "failed"}, ~row.deleted
  PROVE  GoodRow(r, Restarted(row, s))
<1> DEFINE new == Restarted(row, s)
<1>1. row \in Row /\ row.revision + 1 \in Nat
  BY SMT DEF GoodRow, Row
<1>3. new \in Row
  BY <1>1, ReleasedTyped, SetSnapshot, SetState, SetTimer, SetReason, SetTarget, Zenon DEF Restarted
<1>4. new.state # "absent" /\ new.key \in Keys /\ validateStoredRun(r, new)
  BY StoreConstants DEF GoodRow, Row, validateStoredRun, Restarted, Released
<1>5. /\ new.snapshot \in Rollable => new.expires = "none"
      /\ new.state = "stopping" /\ new.pending # None => new.target = "completed"
  BY StoreConstants DEF GoodRow, Row, validateStoredRun, Restarted, Released
<1> QED BY <1>3, <1>4, <1>5 DEF GoodRow

(* Requesting an immutable replacement. *)
LEMMA ReplaceValid ==
  ASSUME NEW r \in RunIDs, NEW row, GoodRow(r, row), NEW s \in Snapshots,
         RunOf[s] = r, ~row.deleted
  PROVE  GoodRow(r, Replacing(row, s))
<1> DEFINE new == Replacing(row, s)
<1>1. row \in Row /\ row.revision + 1 \in Nat
  BY SMT DEF GoodRow, Row
<1>2. TRUE \in BOOLEAN
  BY Zenon
<1>3. new \in Row
  BY <1>1, <1>2, ReleasedTyped, SetSnapshot, SetState, SetFlag, SetTarget, SetTimer, SetReason, Zenon DEF Replacing
<1>4. new.state # "absent" /\ new.key \in Keys /\ validateStoredRun(r, new)
  BY StoreConstants DEF GoodRow, Row, validateStoredRun, Replacing, Released
<1>5. /\ new.snapshot \in Rollable => new.expires = "none"
      /\ new.state = "stopping" /\ new.pending # None => new.target = "completed"
  BY StoreConstants DEF GoodRow, Row, validateStoredRun, Replacing, Released
<1> QED BY <1>3, <1>4, <1>5 DEF GoodRow

(* Pruning a workstation. *)
LEMMA PruneValid ==
  ASSUME NEW r \in RunIDs, NEW row, GoodRow(r, row), Visible(row),
         administratorWorkstation(r, row)
  PROVE  GoodRow(r, PrunedRow(row))
<1> DEFINE new == PrunedRow(row)
<1>1. row \in Row /\ row.revision + 1 \in Nat
  BY SMT DEF GoodRow, Row
<1>2. TRUE \in BOOLEAN
  BY Zenon
<1>3. new \in Row
  BY <1>1, <1>2, ReleasedTyped, SetState, SetFlag, SetTarget, SetReason, SetSnapshot, Zenon DEF PrunedRow
<1>4. new.state # "absent" /\ new.key \in Keys /\ validateStoredRun(r, new)
  BY StoreConstants DEF GoodRow, Row, validateStoredRun, PrunedRow, Released, Visible, administratorWorkstation
<1>5. /\ new.snapshot \in Rollable => new.expires = "none"
      /\ new.state = "stopping" /\ new.pending # None => new.target = "completed"
  BY StoreConstants DEF GoodRow, Row, validateStoredRun, PrunedRow, Released, Visible, administratorWorkstation
<1> QED BY <1>3, <1>4, <1>5 DEF GoodRow

(* Claiming. *)
LEMMA ClaimValid ==
  ASSUME NEW r \in RunIDs, NEW row, GoodRow(r, row), NEW o \in Owners, IsActive(row)
  PROVE  GoodRow(r, Held(row, o))
<1> DEFINE new == Held(row, o)
<1>1. row \in Row /\ row.revision + 1 \in Nat
  BY SMT DEF GoodRow, Row
<1>3. new \in Row
  BY <1>1, SetOwner, SetTimer, SetRevision, Zenon DEF Held
<1>4. new.state # "absent" /\ new.key \in Keys /\ validateStoredRun(r, new)
  BY StoreConstants DEF GoodRow, Row, validateStoredRun, Held
<1>5. /\ new.snapshot \in Rollable => new.expires = "none"
      /\ new.state = "stopping" /\ new.pending # None => new.target = "completed"
  BY StoreConstants DEF GoodRow, Row, validateStoredRun, Held
<1> QED BY <1>3, <1>4, <1>5 DEF GoodRow

(* Cancelling or deleting an active run. *)
LEMMA StoppedValid ==
  ASSUME NEW r \in RunIDs, NEW row, GoodRow(r, row),
         NEW del \in BOOLEAN, Visible(row), ~IsTerminal(row)
  PROVE  GoodRow(r, Stopped(row, del))
<1> DEFINE new == Stopped(row, del)
<1>1. row \in Row /\ row.revision + 1 \in Nat
  BY SMT DEF GoodRow, Row
<1>2. /\ (del \/ row.deleteRequested) \in BOOLEAN
      /\ StopTarget(row, del) \in Terminal \cup {None}
  BY Zenon DEF GoodRow, Row, StopTarget
<1>3. new \in Row
  BY <1>1, <1>2, ReleasedTyped, SetState, SetReason, SetSnapshot, SetFlag, SetTarget, Zenon DEF Stopped
<1>4. new.state # "absent" /\ new.key \in Keys /\ validateStoredRun(r, new)
  BY StoreConstants DEF GoodRow, Row, validateStoredRun, Stopped, StopTarget, Released, Visible
<1>5. /\ new.snapshot \in Rollable => new.expires = "none"
      /\ new.state = "stopping" /\ new.pending # None => new.target = "completed"
  BY StoreConstants DEF GoodRow, Row, validateStoredRun, Stopped, StopTarget, Released, Visible
<1> QED BY <1>3, <1>4, <1>5 DEF GoodRow

(* Giving up a rollout. *)
LEMMA AbortValid ==
  ASSUME NEW r \in RunIDs, NEW row, GoodRow(r, row), row.state = "preparing"
  PROVE  GoodRow(r, [Released(row) EXCEPT !.pending = None, !.state = "running",
                                          !.reason = "other"])
<1> DEFINE new == [Released(row) EXCEPT !.pending = None, !.state = "running",
                                          !.reason = "other"]
<1>1. row \in Row /\ row.revision + 1 \in Nat
  BY SMT DEF GoodRow, Row
<1>3. new \in Row
  BY <1>1, ReleasedTyped, SetSnapshot, SetState, SetReason, Zenon
<1>4. new.state # "absent" /\ new.key \in Keys /\ validateStoredRun(r, new)
  BY StoreConstants DEF GoodRow, Row, validateStoredRun, Released
<1>5. /\ new.snapshot \in Rollable => new.expires = "none"
      /\ new.state = "stopping" /\ new.pending # None => new.target = "completed"
  BY StoreConstants DEF GoodRow, Row, validateStoredRun, Released
<1> QED BY <1>3, <1>4, <1>5 DEF GoodRow

(* Cleanup for an immutable replacement is complete. *)
LEMMA ReplacedValid ==
  ASSUME NEW r \in RunIDs, NEW row, GoodRow(r, row), row.state = "stopping", row.pending # None
  PROVE  GoodRow(r, Replaced(row))
<1> DEFINE new == Replaced(row)
<1>1. row \in Row /\ row.revision + 1 \in Nat
  BY SMT DEF GoodRow, Row
<1>2. InitialCursor \in Cursors /\ row.pending \in Snapshots \cup {None}
  BY StoreConstants DEF GoodRow, Row
<1>3. new \in Row
  BY <1>1, <1>2, ReleasedTyped, SetState, SetReason, SetSnapshot, SetTimer, SetFlag, SetTarget, SetCursor, Zenon DEF Replaced
<1>4. new.state # "absent" /\ new.key \in Keys /\ validateStoredRun(r, new)
  BY StoreConstants DEF GoodRow, Row, validateStoredRun, Replaced, Released
<1>5. /\ new.snapshot \in Rollable => new.expires = "none"
      /\ new.state = "stopping" /\ new.pending # None => new.target = "completed"
  BY StoreConstants DEF GoodRow, Row, validateStoredRun, Replaced, Released
<1> QED BY <1>3, <1>4, <1>5 DEF GoodRow

(* A rollout is applied. *)
LEMMA CommittedValid ==
  ASSUME NEW r \in RunIDs, NEW row, GoodRow(r, row), NEW reason \in Reasons,
         NEW cursor \in Cursors \cup {None}, row.state = "preparing", row.pending # None
  PROVE  GoodRow(r, Committed(row, "running", reason, cursor))
<1> DEFINE new == Committed(row, "running", reason, cursor)
<1>1. row \in Row /\ row.revision + 1 \in Nat
  BY SMT DEF GoodRow, Row
<1>2. CursorAfter(row, cursor) \in Cursors
      /\ row.pending \in Snapshots \cup {None}
  BY Zenon DEF GoodRow, Row, CursorAfter
<1>3. new \in Row
  BY <1>1, <1>2, ReleasedTyped, SetState, SetReason, SetCursor, SetSnapshot, Zenon DEF Committed, Moved
<1>4. new.state # "absent" /\ new.key \in Keys /\ validateStoredRun(r, new)
  BY StoreConstants DEF GoodRow, Row, validateStoredRun, Committed, Moved, CursorAfter, Released, workstationUpdateCompatible
<1>5. /\ new.snapshot \in Rollable => new.expires = "none"
      /\ new.state = "stopping" /\ new.pending # None => new.target = "completed"
  BY StoreConstants DEF GoodRow, Row, validateStoredRun, Committed, Moved, CursorAfter, Released, workstationUpdateCompatible
<1> QED BY <1>3, <1>4, <1>5 DEF GoodRow

(* Every other transition that UpdateStatus accepts. *)
LEMMA TransitionedValid ==
  ASSUME NEW r \in RunIDs, NEW row, GoodRow(r, row),
         NEW o, NEW expected, NEW to \in Active \cup Terminal,
         NEW target \in Terminal \cup {None}, NEW reason \in Reasons,
         NEW cursor \in Cursors \cup {None},
         Reportable(row, o, expected, to, target, cursor), to # row.state,
         ~(row.state = "preparing" /\ to = "running" /\ row.pending # None),
         ~(row.state = "stopping" /\ row.pending # None /\ row.reason = Replacement)
  PROVE  GoodRow(r, Transitioned(row, to, target, reason, cursor))
<1> DEFINE new == Transitioned(row, to, target, reason, cursor)
<1>1. row \in Row /\ row.revision + 1 \in Nat
  BY SMT DEF GoodRow, Row
<1>2. /\ CursorAfter(row, cursor) \in Cursors
      /\ (to \in Terminal /\ row.deleteRequested) \in BOOLEAN
      /\ terminalExpiry(to, row.snapshot) \in Timers
      /\ PendingAfter(row, to) \in Snapshots \cup {None}
  BY Zenon DEF GoodRow, Row, terminalExpiry, CursorAfter, PendingAfter
<1>3. new \in Row
  BY <1>1, <1>2, ReleasedTyped, SetState, SetReason, SetCursor, SetTimer, SetTarget, SetFlag, SetSnapshot, Zenon DEF Transitioned, Moved
<1>4. new.state # "absent" /\ new.key \in Keys /\ validateStoredRun(r, new)
  BY StoreConstants DEF GoodRow, Row, validateStoredRun, Transitioned, Moved, CursorAfter, PendingAfter, Released, terminalExpiry, Reportable, transitionAllowed, Visible
<1>5. /\ new.snapshot \in Rollable => new.expires = "none"
      /\ new.state = "stopping" /\ new.pending # None => new.target = "completed"
  BY StoreConstants DEF GoodRow, Row, validateStoredRun, Transitioned, Moved, CursorAfter, PendingAfter, Released, terminalExpiry, Reportable, transitionAllowed, Visible
<1> QED BY <1>3, <1>4, <1>5 DEF GoodRow

(* An immutable replacement that an inventory takes back leaves the one row      *)
(* that validateStoredRun rejects.                                            *)
LEMMA RevertLeaves ==
  ASSUME NEW r \in RunIDs, NEW row, GoodRow(r, row), row.state = "stopping", row.pending # None
  PROVE  RevertedRow(r, Staged(row, row.snapshot))
<1>1. row \in Row /\ row.snapshot \in Snapshots \cup {None}
  BY DEF GoodRow, Row
<1>2. Staged(row, row.snapshot) \in Row
  BY <1>1, ReleasedTyped, SetSnapshot, SetState, SetReason, Zenon DEF Staged
<1>3. Reverted(Staged(row, row.snapshot))
  BY StoreConstants DEF Staged, Released, GoodRow, Row, validateStoredRun, Reverted
<1>4. Staged(row, row.snapshot).key = row.key /\ Staged(row, row.snapshot).snapshot = row.snapshot
  BY <1>1 DEF Staged, Released, Row
<1> QED BY <1>2, <1>3, <1>4 DEF RevertedRow, GoodRow, validateStoredRun

(* Inserting a candidate.                                                     *)
LEMMA InsertValid ==
  ASSUME NEW c \in Candidate
  PROVE  GoodRow(RunOf[c.snapshot], InsertedRow(c))
<1>1. NoRow \in Row
  BY NoRowTyped
<1>2. /\ c.key \in Keys /\ c.group \in Keys \cup {None} /\ c.snapshot \in Snapshots
  BY DEF Candidate
<1>3. optionalDeadline(c.snapshot) \in Timers
  BY DEF optionalDeadline
<1>4. InsertedRow(c) \in Row
  BY <1>1, <1>2, <1>3, SetState, SetRevision, SetKey, SetSnapshot, SetTimer, Zenon
     DEF InsertedRow
<1>5. /\ InsertedRow(c).state = "pending" /\ InsertedRow(c).key = c.key
      /\ InsertedRow(c).snapshot = c.snapshot /\ InsertedRow(c).pending = None
      /\ ~InsertedRow(c).deleted /\ ~InsertedRow(c).deleteRequested
      /\ InsertedRow(c).expires = "none" /\ InsertedRow(c).owner = None
      /\ InsertedRow(c).lease = "none" /\ InsertedRow(c).target = None
  BY DEF InsertedRow, NoRow
<1> QED BY <1>2, <1>4, <1>5, StoreConstants DEF GoodRow, validateStoredRun

(* The opening sweep of every operation.                                       *)
LEMMA SweepValid ==
  ASSUME NEW r \in RunIDs, NEW row, ValidRow(r, row)
  PROVE  ValidRow(r, sweepTx(row))
<1>1. CASE row = NoRow
  BY <1>1 DEF sweepTx, DeadlineDue, RetentionDue, NoRow, ValidRow
<1>2. CASE GoodRow(r, row)
  BY <1>2, OverdueValid, RetiredValid DEF sweepTx, RetentionDue, ValidRow
<1> QED BY <1>1, <1>2 DEF ValidRow

(* Every outcome of createBatch for one candidate that is not refused.          *)
LEMMA AmendedInv ==
  ASSUME NEW table, NEW c \in Candidate, NEW reclaim \in BOOLEAN, NEW replace \in BOOLEAN,
         ValidRow(RunOf[c.snapshot], table[RunOf[c.snapshot]]),
         Verdict(table, c, reclaim, replace) # "refused"
  PROVE  LET r == RunOf[c.snapshot]
             new == Amended(table[r], c, Verdict(table, c, reclaim, replace))
         IN ValidRow(r, new) \/ RevertedRow(r, new)
<1> DEFINE r == RunOf[c.snapshot]
           row == table[r]
           v == Verdict(table, c, reclaim, replace)
           new == Amended(row, c, v)
<1>1. r \in RunIDs /\ c.snapshot \in Snapshots /\ c.key \in Keys
  BY StoreConstants DEF Candidate
<1>2. CASE v = "new"
  BY <1>2, InsertValid DEF Amended, ValidRow
<1>3. CASE v = "replay"
  BY <1>3 DEF Amended
<1>4. CASE v \notin {"new", "replay"}
  <2>1. row.key = c.key /\ ~row.deleted
    BY <1>4 DEF Verdict
  <2>2. row # NoRow
    BY <2>1, <1>1, StoreConstants DEF NoRow
  <2>3. GoodRow(r, row)
    BY <2>2 DEF ValidRow
  <2>4. CASE v = "update"
    <3>1. /\ workstationUpdateCompatible(row.snapshot, c.snapshot) /\ ~row.deleteRequested
          /\ row.state \in {"running", "preparing"}
      BY <2>4 DEF Verdict
    <3>2. GoodRow(r, Staged(row, c.snapshot))
      BY <3>1, <2>3, <1>1, StageValid
    <3> QED BY <3>2, <2>4 DEF Amended, ValidRow
  <2>5. CASE v = "cancel"
    <3>1. row.pending # None /\ row.snapshot = c.snapshot
      BY <2>5 DEF Verdict
    <3>2. CASE row.state = "stopping"
      BY <3>1, <3>2, <2>3, <2>5, <1>1, RevertLeaves DEF Amended
    <3>3. CASE row.state # "stopping"
      <4>1. /\ row.state = "preparing" /\ ~row.deleteRequested
            /\ workstationUpdateCompatible(row.snapshot, row.snapshot)
        BY <3>1, <3>3, <2>1, <2>3 DEF GoodRow, validateStoredRun, workstationUpdateCompatible
      <4>2. GoodRow(r, Staged(row, row.snapshot))
        BY <4>1, <3>1, <2>3, <1>1, StageValid
      <4> QED BY <4>2, <2>5 DEF Amended, ValidRow
    <3> QED BY <3>2, <3>3
  <2>6. CASE v \in {"restart", "restartUpdate"}
    <3>1. row.state \in {"completed", "failed"}
      BY <2>6 DEF Verdict
    <3>2. row.snapshot \in Snapshots /\ RunOf[row.snapshot] = r
      BY <2>3 DEF GoodRow, validateStoredRun
    <3>3. GoodRow(r, Restarted(row, row.snapshot)) /\ GoodRow(r, Restarted(row, c.snapshot))
      BY <3>1, <3>2, <2>1, <2>3, <1>1, RestartValid
    <3> QED BY <3>3, <2>6 DEF Amended, ValidRow
  <2>7. CASE v \in {"replace", "terminalReplace"}
    <3>1. GoodRow(r, Replacing(row, c.snapshot))
      BY <2>1, <2>3, <1>1, ReplaceValid
    <3> QED BY <3>1, <2>7 DEF Amended, ValidRow
  <2>8. v \in {"update", "cancel", "restart", "restartUpdate", "replace", "terminalReplace"}
    BY <1>4 DEF Verdict
  <2> QED BY <2>4, <2>5, <2>6, <2>7, <2>8
<1> QED BY <1>2, <1>3, <1>4

(* Every report that UpdateStatus accepts.                                     *)
LEMMA StatusValid ==
  ASSUME NEW r \in RunIDs, NEW row, GoodRow(r, row),
         NEW o, NEW expected, NEW to \in Active \cup Terminal,
         NEW target \in Terminal \cup {None}, NEW reason \in Reasons,
         NEW cursor \in Cursors \cup {None},
         Reportable(row, o, expected, to, target, cursor)
  PROVE  GoodRow(r, StatusRow(row, to, target, reason, cursor))
<1>1. CASE to = row.state
  <2>1. cursor \in Cursors /\ row \in Row
    BY <1>1 DEF Reportable, GoodRow
  <2>2. [Released(row) EXCEPT !.cursor = cursor] \in Row
    BY <2>1, ReleasedTyped, SetCursor, Zenon
  <2>3. ~IsTerminal(row)
    BY StoreConstants, <1>1, SMT DEF Reportable, GoodRow, validateStoredRun, Row
  <2>4. StatusRow(row, to, target, reason, cursor) = [Released(row) EXCEPT !.cursor = cursor]
    BY <1>1 DEF StatusRow
  <2> QED BY <2>1, <2>2, <2>3, <2>4, StoreConstants DEF Released, GoodRow, Row, validateStoredRun
<1>2. CASE to # row.state /\ row.state = "preparing" /\ to = "running" /\ row.pending # None
  BY <1>2, CommittedValid DEF StatusRow
<1>3. CASE to # row.state /\ row.state = "stopping" /\ row.pending # None /\ row.reason = Replacement
  BY <1>3, ReplacedValid DEF StatusRow
<1>4. CASE /\ to # row.state
           /\ ~(row.state = "preparing" /\ to = "running" /\ row.pending # None)
           /\ ~(row.state = "stopping" /\ row.pending # None /\ row.reason = Replacement)
  BY <1>4, TransitionedValid DEF StatusRow
<1> QED BY <1>1, <1>2, <1>3, <1>4
-----------------------------------------------------------------------------
(* From rows to the table.                                                     *)
RowInv(r, row) == ValidRow(r, row) \/ RevertedRow(r, row)

LEMMA RowInvTyped == ASSUME NEW r, NEW row, RowInv(r, row) PROVE row \in Row
BY NoRowTyped DEF RowInv, ValidRow, GoodRow, RevertedRow

(* No operation but an abort starts while a reverted row is in the table.        *)
LEMMA ReadyValid ==
  ASSUME TableInv, Ready
  PROVE  \A r \in RunIDs : ValidRow(r, runs[r])
<1> SUFFICES ASSUME NEW r \in RunIDs, RevertedRow(r, runs[r]) PROVE FALSE
  BY DEF TableInv
<1>1. runs[r].state = "preparing" /\ runs[r].target = "completed"
  BY DEF RevertedRow, Reverted
<1>2. validateStoredRun(r, runs[r])
  BY <1>1 DEF Ready, Available
<1> QED BY <1>1, <1>2, StoreConstants DEF validateStoredRun

LEMMA SweptValid ==
  ASSUME TableInv, Ready
  PROVE  \A r \in RunIDs : ValidRow(r, Swept[r])
BY ReadyValid, SweepValid DEF Swept

(* A table whose rows satisfy the invariant satisfies it.                        *)
LEMMA Lift ==
  ASSUME NEW f, \A r \in RunIDs : RowInv(r, f[r]), runs' = [r \in RunIDs |-> f[r]]
  PROVE  TableInv'
BY RowInvTyped DEF TableInv, RowInv

LEMMA BatchKeepsInv ==
  ASSUME TableInv, Ready, NEW batch \in SUBSET Candidate,
         NEW reclaim \in BOOLEAN, NEW prune \in BOOLEAN, NEW replace \in BOOLEAN,
         NEW acknowledged \in BOOLEAN,
         createBatch(Swept, batch, reclaim, prune, replace, acknowledged)
  PROVE  TableInv'
<1> DEFINE verdict(c) == Verdict(Swept, c, reclaim, replace)
           pruned == IF prune THEN Prunable(Swept, batch) ELSE {}
           mine(r) == CHOOSE d \in batch : RunOf[d.snapshot] = r
           f == [r \in RunIDs |-> IF \E c \in batch : RunOf[c.snapshot] = r
                                  THEN Amended(Swept[r], mine(r), verdict(mine(r)))
                                  ELSE IF r \in pruned THEN PrunedRow(Swept[r])
                                  ELSE Swept[r]]
<1>1. runs' = f
  BY DEF createBatch
<1>2. \A c \in batch : verdict(c) # "refused"
  BY DEF createBatch
<1>3. ASSUME NEW r \in RunIDs PROVE RowInv(r, f[r])
  <2>1. ValidRow(r, Swept[r])
    BY SweptValid
  <2>2. CASE \E c \in batch : RunOf[c.snapshot] = r
    <3>1. mine(r) \in batch /\ RunOf[mine(r).snapshot] = r
      BY <2>2
    <3> DEFINE c == mine(r)
    <3> HIDE DEF mine
    <3>2. RowInv(r, Amended(Swept[r], c, verdict(c)))
      BY <3>1, <2>1, <1>2, AmendedInv DEF RowInv
    <3> QED BY <3>2, <2>2
  <2>3. CASE ~(\E c \in batch : RunOf[c.snapshot] = r) /\ r \in pruned
    <3>1. Visible(Swept[r]) /\ administratorWorkstation(r, Swept[r])
      BY <2>3 DEF Prunable
    <3>2. GoodRow(r, Swept[r])
      BY <3>1, <2>1 DEF ValidRow, Visible, NoRow
    <3>3. GoodRow(r, PrunedRow(Swept[r]))
      BY <3>1, <3>2, PruneValid
    <3> QED BY <2>3, <3>3 DEF RowInv, ValidRow
  <2>4. CASE ~(\E c \in batch : RunOf[c.snapshot] = r) /\ r \notin pruned
    BY <2>1, <2>4 DEF RowInv
  <2> QED BY <2>2, <2>3, <2>4
<1> HIDE DEF f
<1>4. runs' = [r \in RunIDs |-> f[r]]
  BY <1>1 DEF f
<1> QED BY <1>3, <1>4, Lift

(* An operation that sweeps and then rewrites one row.                            *)
LEMMA OneRowKeepsInv ==
  ASSUME TableInv, Ready, NEW r \in RunIDs, NEW new, RowInv(r, new),
         runs' = [Swept EXCEPT ![r] = new]
  PROVE  TableInv'
<1> DEFINE f == [q \in RunIDs |-> IF q = r THEN new ELSE Swept[q]]
<1>1. runs' = [q \in RunIDs |-> f[q]]
  BY DEF Swept
<1>2. \A q \in RunIDs : RowInv(q, f[q])
  BY SweptValid DEF RowInv
<1> HIDE DEF f
<1> QED BY <1>1, <1>2, Lift

(* The inductive step, one case per operation.                                     *)
LEMMA NextKeepsInv == TableInv /\ [Next]_runs => TableInv'
<1> SUFFICES ASSUME TableInv, [Next]_runs PROVE TableInv'
  OBVIOUS
<1>1. ASSUME NEW c \in Requests, Create(c) PROVE TableInv'
  BY <1>1, CallerInputs, BatchKeepsInv DEF Create
<1>2. ASSUME NEW d \in Inventories, Boot(d) PROVE TableInv'
  BY <1>2, CallerInputs, BatchKeepsInv DEF Boot, ReconcileWorkstations
<1>3. ASSUME NEW r \in RunIDs, NEW o \in Owners, Claim(r, o, Swept[r].revision) PROVE TableInv'
  <2> DEFINE new == Held(Swept[r], o)
  <2>1. Ready /\ IsActive(Swept[r]) /\ ValidRow(r, Swept[r])
    BY <1>3, SweptValid DEF Claim, Claimable
  <2>2. GoodRow(r, new)
    BY <2>1, ClaimValid DEF ValidRow, NoRow
  <2>3. runs' = [Swept EXCEPT ![r] = new]
    BY <1>3 DEF Claim
  <2> QED BY <2>1, <2>2, <2>3, OneRowKeepsInv DEF RowInv, ValidRow
<1>4. ASSUME NEW r \in RunIDs, NEW o \in Owners, Report(r, o) PROVE TableInv'
  <2>1. PICK to \in Active \cup Terminal, target \in Terminal \cup {None},
             reason \in Reasons, cursor \in Cursors \cup {None} :
               UpdateStatus(r, o, Swept[r].revision, to, target, reason, cursor)
    BY <1>4 DEF Report
  <2>2. /\ Ready /\ ValidRow(r, Swept[r])
        /\ Reportable(Swept[r], o, Swept[r].revision, to, target, cursor)
        /\ runs' = [Swept EXCEPT ![r] = StatusRow(Swept[r], to, target, reason, cursor)]
    BY <2>1, SweptValid DEF UpdateStatus
  <2>3. GoodRow(r, Swept[r])
    BY <2>2 DEF ValidRow, NoRow, Reportable, Visible
  <2>4. GoodRow(r, StatusRow(Swept[r], to, target, reason, cursor))
    BY <2>2, <2>3, StatusValid
  <2> QED BY <2>2, <2>4, OneRowKeepsInv DEF RowInv, ValidRow
<1>5. ASSUME NEW r \in RunIDs, NEW o \in Owners, AbortRollout(r, o) PROVE TableInv'
  <2> DEFINE new == [Released(runs[r]) EXCEPT !.pending = None, !.state = "running",
                                              !.reason = "other"]
             f == [q \in RunIDs |-> IF q = r THEN new ELSE runs[q]]
  <2>1. /\ runs[r].state = "preparing" /\ runs[r].owner = o
        /\ runs' = [runs EXCEPT ![r] = new]
    BY <1>5 DEF AbortRollout, abortPendingConfiguration
  <2>2. ~RevertedRow(r, runs[r])
    BY <2>1, StoreConstants DEF RevertedRow, Reverted
  <2>3. GoodRow(r, runs[r])
    BY <2>1, <2>2 DEF TableInv, ValidRow, NoRow
  <2>4. GoodRow(r, new)
    BY <2>1, <2>3, AbortValid
  <2>5. \A q \in RunIDs : RowInv(q, f[q])
    BY <2>4 DEF TableInv, RowInv, ValidRow
  <2>6. runs' = [q \in RunIDs |-> f[q]]
    BY <2>1 DEF TableInv
  <2> HIDE DEF f
  <2> QED BY <2>5, <2>6, Lift
<1>6. ASSUME NEW r \in RunIDs, NEW del \in BOOLEAN, requestStop(r, del) PROVE TableInv'
  <2>1. /\ Ready /\ Visible(Swept[r]) /\ ValidRow(r, Swept[r])
        /\ runs' = [Swept EXCEPT ![r] = StopRow(Swept[r], del)]
    BY <1>6, SweptValid DEF requestStop
  <2>2. GoodRow(r, Swept[r])
    BY <2>1 DEF ValidRow, NoRow, Visible
  <2>3. GoodRow(r, StopRow(Swept[r], del))
    BY <2>1, <2>2, StoppedValid, RetiredValid DEF StopRow, Visible
  <2> QED BY <2>1, <2>3, OneRowKeepsInv DEF RowInv, ValidRow
<1>7. ASSUME Sweep PROVE TableInv'
  <2>1. Ready /\ runs' = [r \in RunIDs |-> Swept[r]]
    BY <1>7 DEF Sweep, Swept
  <2> QED BY <2>1, SweptValid, Lift DEF RowInv
<1>8. ASSUME TimePasses PROVE TableInv'
  <2>1. PICK r \in RunIDs : DeadlinePasses(r) \/ RetentionPasses(r) \/ LeasePasses(r)
    BY <1>8 DEF TimePasses
  <2>2. PICK new : /\ runs' = [runs EXCEPT ![r] = new]
                   /\ \/ runs[r].deadline = "ahead" /\ new = [runs[r] EXCEPT !.deadline = "due"]
                      \/ runs[r].expires = "ahead" /\ new = [runs[r] EXCEPT !.expires = "due"]
                      \/ runs[r].lease = "ahead" /\ new = [runs[r] EXCEPT !.lease = "due"]
    BY <2>1 DEF DeadlinePasses, RetentionPasses, LeasePasses
  <2>3. RowInv(r, runs[r])
    BY DEF TableInv, RowInv
  <2>4. RowInv(r, new)
    <3>1. new \in Row
      BY <2>2, <2>3, RowInvTyped, SetTimer
    <3>2. CASE GoodRow(r, runs[r])
      BY <2>2, <3>1, <3>2 DEF GoodRow, Row, validateStoredRun, RowInv, ValidRow
    <3>3. CASE RevertedRow(r, runs[r])
      BY <2>2, <3>1, <3>3 DEF RevertedRow, Reverted, Row, RowInv
    <3>4. runs[r] # NoRow
      BY <2>2 DEF NoRow
    <3> QED BY <2>3, <3>2, <3>3, <3>4 DEF RowInv, ValidRow
  <2> DEFINE f == [q \in RunIDs |-> IF q = r THEN new ELSE runs[q]]
  <2>5. \A q \in RunIDs : RowInv(q, f[q])
    BY <2>4 DEF TableInv, RowInv
  <2>6. runs' = [q \in RunIDs |-> f[q]]
    BY <2>2 DEF TableInv
  <2> HIDE DEF f
  <2> QED BY <2>5, <2>6, Lift
<1>9. CASE UNCHANGED runs
  BY <1>9 DEF TableInv, ValidRow, GoodRow, RevertedRow
<1> QED BY <1>1, <1>2, <1>3, <1>4, <1>5, <1>6, <1>7, <1>8, <1>9 DEF Next, Cancel, Delete

LEMMA InitInv == Init => TableInv
BY NoRowTyped DEF Init, TableInv, ValidRow

(* The inductive invariant holds of every behaviour of the store.                   *)
THEOREM Invariance == Spec => []TableInv
BY InitInv, NextKeepsInv, PTL DEF Spec

(* The table always holds rows of the schema's types.                              *)
THEOREM TypeCorrect == Spec => []TypeOK
<1>1. TableInv => TypeOK
  BY DEF TableInv, TypeOK
<1> QED BY <1>1, Invariance, PTL

(* Whatever the callers do, every stored row passes validateStoredRun, except for a   *)
(* workstation whose immutable replacement was taken back during its cleanup.         *)
THEOREM RowsStayValid == Spec => []OnlyRevertBreaksRows
<1>1. TableInv => OnlyRevertBreaksRows
  BY DEF TableInv, OnlyRevertBreaksRows, ValidRow, GoodRow, RevertedRow, NoRow
<1> QED BY <1>1, Invariance, PTL
-----------------------------------------------------------------------------
(* What one step may do to a row: leave it alone, let a timestamp pass, or give a row    *)
(* that is no tombstone a higher revision.                                          *)
Later(row, new) == new = row \/ (row.revision < new.revision /\ ~row.deleted)
SameContent(row, new) == Content(new) = Content(row) /\ new.revision = row.revision
StepOrAge(row, new) == Later(row, new) \/ SameContent(row, new)

LEMMA LaterTransitive ==
  ASSUME NEW a \in Row, NEW b \in Row, NEW c \in Row, Later(a, b), Later(b, c)
  PROVE  Later(a, c)
BY DEF Later, Row

LEMMA SweepLater ==
  ASSUME NEW r \in RunIDs, NEW row, ValidRow(r, row)
  PROVE  Later(row, sweepTx(row))
<1>1. CASE row = NoRow
  BY <1>1 DEF sweepTx, DeadlineDue, RetentionDue, NoRow, Later
<1>2. CASE GoodRow(r, row)
  <2>1. row \in Row /\ (DeadlineDue(row) => ~row.deleted) /\ (RetentionDue(row) => ~row.deleted)
    BY <1>2 DEF GoodRow, validateStoredRun, DeadlineDue, RetentionDue
  <2>2. row.revision \in Nat /\ Overdue(row).revision = row.revision + 1
        /\ Retired(row).revision = row.revision + 1
    BY <2>1 DEF Overdue, Released, Retired, Row
  <2> QED BY <2>1, <2>2 DEF sweepTx, Later
<1> QED BY <1>1, <1>2 DEF ValidRow

LEMMA AmendedLater ==
  ASSUME NEW table, NEW c \in Candidate, NEW reclaim \in BOOLEAN, NEW replace \in BOOLEAN,
         ValidRow(RunOf[c.snapshot], table[RunOf[c.snapshot]]),
         Verdict(table, c, reclaim, replace) # "refused"
  PROVE  Later(table[RunOf[c.snapshot]],
               Amended(table[RunOf[c.snapshot]], c, Verdict(table, c, reclaim, replace)))
<1> DEFINE row == table[RunOf[c.snapshot]]
           v == Verdict(table, c, reclaim, replace)
<1>1. row \in Row
  BY NoRowTyped DEF ValidRow, GoodRow
<1>2. CASE v = "new"
  <2>1. row.state = "absent"
    BY <1>2 DEF Verdict
  <2>2. row.revision = 0 /\ ~row.deleted
    BY <2>1 DEF ValidRow, GoodRow, NoRow
  <2>3. InsertedRow(c).revision = 1
    BY DEF InsertedRow, NoRow
  <2> QED BY <1>2, <2>2, <2>3 DEF Amended, Later
<1>3. CASE v # "new" /\ v # "replay"
  <2>1. ~row.deleted /\ v \in {"update", "cancel", "restart", "restartUpdate", "replace", "terminalReplace"}
    BY <1>3 DEF Verdict
  <2>2. \A s : /\ Staged(row, s).revision = row.revision + 1
               /\ Restarted(row, s).revision = row.revision + 1
               /\ Replacing(row, s).revision = row.revision + 1
    BY <1>1 DEF Staged, Restarted, Replacing, Released, Row
  <2>3. row.revision \in Nat
    BY <1>1 DEF Row
  <2> QED BY <2>1, <2>2, <2>3 DEF Amended, Later
<1>4. CASE v = "replay"
  BY <1>4 DEF Amended, Later
<1> QED BY <1>2, <1>3, <1>4

LEMMA BatchLater ==
  ASSUME TableInv, Ready, NEW batch \in SUBSET Candidate,
         NEW reclaim \in BOOLEAN, NEW prune \in BOOLEAN, NEW replace \in BOOLEAN,
         NEW acknowledged \in BOOLEAN,
         createBatch(Swept, batch, reclaim, prune, replace, acknowledged), NEW r \in RunIDs
  PROVE  Later(Swept[r], runs'[r])
<1> DEFINE verdict(c) == Verdict(Swept, c, reclaim, replace)
           pruned == IF prune THEN Prunable(Swept, batch) ELSE {}
           mine == CHOOSE d \in batch : RunOf[d.snapshot] = r
<1>1. runs'[r] = IF \E c \in batch : RunOf[c.snapshot] = r
                 THEN Amended(Swept[r], mine, verdict(mine))
                 ELSE IF r \in pruned THEN PrunedRow(Swept[r]) ELSE Swept[r]
  BY DEF createBatch
<1>2. \A c \in batch : verdict(c) # "refused"
  BY DEF createBatch
<1>3. ValidRow(r, Swept[r])
  BY SweptValid
<1>4. CASE \E c \in batch : RunOf[c.snapshot] = r
  <2>1. mine \in batch /\ RunOf[mine.snapshot] = r
    BY <1>4
  <2> HIDE DEF mine
  <2> QED BY <1>1, <1>2, <1>3, <1>4, <2>1, AmendedLater
<1>5. CASE ~(\E c \in batch : RunOf[c.snapshot] = r) /\ r \in pruned
  <2>1. ~Swept[r].deleted /\ Swept[r] \in Row
    BY <1>3, <1>5, NoRowTyped DEF Prunable, Visible, ValidRow, GoodRow
  <2>2. PrunedRow(Swept[r]).revision = Swept[r].revision + 1 /\ Swept[r].revision \in Nat
    BY <2>1 DEF PrunedRow, Released, Row
  <2> QED BY <1>1, <1>5, <2>1, <2>2 DEF Later
<1>6. CASE ~(\E c \in batch : RunOf[c.snapshot] = r) /\ r \notin pruned
  BY <1>1, <1>6 DEF Later
<1> QED BY <1>4, <1>5, <1>6

LEMMA StatusLater ==
  ASSUME NEW row \in Row, NEW to, NEW target, NEW reason, NEW cursor
  PROVE  StatusRow(row, to, target, reason, cursor).revision = row.revision + 1
<1>1. /\ [Released(row) EXCEPT !.cursor = cursor].revision = row.revision + 1
      /\ Committed(row, to, reason, cursor).revision = row.revision + 1
      /\ Replaced(row).revision = row.revision + 1
      /\ Transitioned(row, to, target, reason, cursor).revision = row.revision + 1
  BY DEF Committed, Transitioned, Moved, Replaced, Released, Row
<1> QED BY <1>1 DEF StatusRow

(* Sweeping and then giving one row that is no tombstone a higher revision.            *)
LEMMA OneRowLater ==
  ASSUME TableInv, Ready, NEW r \in RunIDs, NEW new \in Row,
         runs' = [Swept EXCEPT ![r] = new], ~Swept[r].deleted,
         new.revision = Swept[r].revision + 1
  PROVE  \A q \in RunIDs : Later(runs[q], runs'[q])
<1> SUFFICES ASSUME NEW q \in RunIDs PROVE Later(runs[q], runs'[q])
  OBVIOUS
<1>1. runs[q] \in Row /\ Swept[q] \in Row /\ Later(runs[q], Swept[q])
  BY ReadyValid, SweptValid, SweepLater, NoRowTyped DEF Swept, ValidRow, GoodRow
<1>2. runs'[q] = IF q = r THEN new ELSE Swept[q]
  BY DEF Swept
<1>3. Later(Swept[q], runs'[q]) /\ runs'[q] \in Row
  BY <1>1, <1>2 DEF Later, Row
<1> QED BY <1>1, <1>3, LaterTransitive

(* A batch that follows a sweep.                                                     *)
LEMMA BatchStep ==
  ASSUME TableInv, TableInv', Ready, NEW batch \in SUBSET Candidate,
         NEW reclaim \in BOOLEAN, NEW prune \in BOOLEAN, NEW replace \in BOOLEAN,
         NEW acknowledged \in BOOLEAN,
         createBatch(Swept, batch, reclaim, prune, replace, acknowledged)
  PROVE  \A q \in RunIDs : Later(runs[q], runs'[q])
<1> SUFFICES ASSUME NEW q \in RunIDs PROVE Later(runs[q], runs'[q])
  OBVIOUS
<1>1. runs[q] \in Row /\ Swept[q] \in Row /\ Later(runs[q], Swept[q])
  BY ReadyValid, SweptValid, SweepLater, NoRowTyped DEF Swept, ValidRow, GoodRow
<1>2. Later(Swept[q], runs'[q])
  BY BatchLater
<1>3. runs'[q] \in Row
  BY DEF TableInv
<1> QED BY <1>1, <1>2, <1>3, LaterTransitive

(* Every step of the store, one case per operation.                                  *)
LEMMA StepsForward ==
  ASSUME TableInv, TableInv', [Next]_runs
  PROVE  \A q \in RunIDs : StepOrAge(runs[q], runs'[q])
<1> DEFINE Forward == \A q \in RunIDs : Later(runs[q], runs'[q])
<1>1. ASSUME NEW c \in Requests, Create(c) PROVE Forward
  BY <1>1, CallerInputs, BatchStep DEF Create
<1>2. ASSUME NEW d \in Inventories, Boot(d) PROVE Forward
  BY <1>2, CallerInputs, BatchStep DEF Boot, ReconcileWorkstations
<1>3. ASSUME NEW r \in RunIDs, NEW o \in Owners, Claim(r, o, Swept[r].revision) PROVE Forward
  <2> DEFINE new == Held(Swept[r], o)
  <2>1. Ready /\ IsActive(Swept[r]) /\ ValidRow(r, Swept[r]) /\ runs' = [Swept EXCEPT ![r] = new]
    BY <1>3, SweptValid DEF Claim, Claimable
  <2>2. GoodRow(r, Swept[r]) /\ GoodRow(r, new)
    BY <2>1, ClaimValid DEF ValidRow, NoRow
  <2>3. new \in Row /\ new.revision = Swept[r].revision + 1 /\ ~Swept[r].deleted
    BY <2>1, <2>2 DEF GoodRow, validateStoredRun, Held, Row
  <2> HIDE DEF new
  <2> QED BY <2>1, <2>3, OneRowLater
<1>4. ASSUME NEW r \in RunIDs, NEW o \in Owners, Report(r, o) PROVE Forward
  <2>1. PICK to \in Active \cup Terminal, target \in Terminal \cup {None},
             reason \in Reasons, cursor \in Cursors \cup {None} :
               UpdateStatus(r, o, Swept[r].revision, to, target, reason, cursor)
    BY <1>4 DEF Report
  <2> DEFINE new == StatusRow(Swept[r], to, target, reason, cursor)
  <2>2. /\ Ready /\ ValidRow(r, Swept[r])
        /\ Reportable(Swept[r], o, Swept[r].revision, to, target, cursor)
        /\ runs' = [Swept EXCEPT ![r] = new]
    BY <2>1, SweptValid DEF UpdateStatus
  <2>3. GoodRow(r, Swept[r]) /\ ~Swept[r].deleted
    BY <2>2 DEF ValidRow, NoRow, Reportable, Visible
  <2>4. GoodRow(r, new)
    BY <2>2, <2>3, StatusValid
  <2>5. new \in Row /\ new.revision = Swept[r].revision + 1
    BY <2>3, <2>4, StatusLater DEF GoodRow
  <2> HIDE DEF new
  <2> QED BY <2>2, <2>3, <2>5, OneRowLater
<1>5. ASSUME NEW r \in RunIDs, NEW o \in Owners, AbortRollout(r, o) PROVE Forward
  <2>1. /\ runs[r].state = "preparing" /\ runs[r].owner = o
        /\ runs' = [runs EXCEPT ![r] = [Released(runs[r]) EXCEPT !.pending = None,
                                          !.state = "running", !.reason = "other"]]
    BY <1>5 DEF AbortRollout, abortPendingConfiguration
  <2>2. runs[r] \in Row /\ ~runs[r].deleted
    BY <2>1, StoreConstants
    DEF TableInv, ValidRow, NoRow, GoodRow, validateStoredRun, RevertedRow, Reverted
  <2>3. runs'[r].revision = runs[r].revision + 1 /\ runs[r].revision \in Nat
    BY <2>1, <2>2 DEF TableInv, Released, Row
  <2>4. \A q \in RunIDs : q # r => runs'[q] = runs[q]
    BY <2>1 DEF TableInv
  <2> QED BY <2>2, <2>3, <2>4 DEF Later
<1>6. ASSUME NEW r \in RunIDs, NEW del \in BOOLEAN, requestStop(r, del) PROVE Forward
  <2> DEFINE new == StopRow(Swept[r], del)
  <2>1. /\ Ready /\ Visible(Swept[r]) /\ ValidRow(r, Swept[r])
        /\ runs' = [Swept EXCEPT ![r] = new]
    BY <1>6, SweptValid DEF requestStop
  <2>2. GoodRow(r, Swept[r])
    BY <2>1 DEF ValidRow, NoRow, Visible
  <2>3. GoodRow(r, new)
    BY <2>1, <2>2, StoppedValid, RetiredValid DEF StopRow, Visible
  <2>4. /\ Stopped(Swept[r], del).revision = Swept[r].revision + 1
        /\ Retired(Swept[r]).revision = Swept[r].revision + 1
    BY <2>2 DEF GoodRow, Stopped, Retired, Released, Row
  <2>5. new \in Row /\ new.revision = Swept[r].revision + 1 /\ ~Swept[r].deleted
    BY <2>1, <2>3, <2>4 DEF GoodRow, StopRow, Visible
  <2> HIDE DEF new
  <2> QED BY <2>1, <2>5, OneRowLater
<1>7. ASSUME Sweep PROVE Forward
  BY <1>7, ReadyValid, SweepLater DEF Sweep, Swept
<1>8. ASSUME TimePasses PROVE \A q \in RunIDs : SameContent(runs[q], runs'[q])
  <2>1. PICK r \in RunIDs : DeadlinePasses(r) \/ RetentionPasses(r) \/ LeasePasses(r)
    BY <1>8 DEF TimePasses
  <2>2. \A q \in RunIDs : q # r => runs'[q] = runs[q]
    BY <2>1 DEF TableInv, DeadlinePasses, RetentionPasses, LeasePasses
  <2>3. runs[r] \in Row /\ r \in DOMAIN runs
    BY DEF TableInv
  <2>4. SameContent(runs[r], runs'[r])
    BY <2>1, <2>3 DEF DeadlinePasses, RetentionPasses, LeasePasses, SameContent, Content, Row
  <2> QED BY <2>2, <2>4 DEF SameContent
<1>9. CASE UNCHANGED runs
  BY <1>9 DEF StepOrAge, Later
<1> QED BY <1>1, <1>2, <1>3, <1>4, <1>5, <1>6, <1>7, <1>8, <1>9
        DEF Next, Cancel, Delete, StepOrAge

(* No operation changes what a row says without advancing the revision that Claim,        *)
(* UpdateStatus and the abort compare.                                               *)
THEOREM Revisions == Spec => EveryChangeBumpsRevision
<1>1. ASSUME TableInv, TableInv', [Next]_runs, NEW r \in RunIDs,
             Content(runs'[r]) # Content(runs[r])
      PROVE  runs'[r].revision > runs[r].revision
  <2>1. Later(runs[r], runs'[r]) /\ runs'[r] # runs[r]
    BY <1>1, StepsForward DEF StepOrAge, SameContent
  <2>2. runs[r].revision \in Nat /\ runs'[r].revision \in Nat
    BY <1>1 DEF TableInv, Row
  <2> QED BY <2>1, <2>2 DEF Later
<1>2. TableInv /\ TableInv' /\ [Next]_runs =>
        [\A r \in RunIDs : Content(runs'[r]) # Content(runs[r])
                              => runs'[r].revision > runs[r].revision]_runs
  BY <1>1
<1> QED BY <1>2, Invariance, PTL DEF Spec, EveryChangeBumpsRevision

(* No operation brings a tombstone back: neither its key nor its run ID is reused.          *)
THEOREM Tombstones == Spec => TombstonesFinal
<1>1. ASSUME TableInv, TableInv', [Next]_runs, NEW r \in RunIDs, runs[r].deleted
      PROVE  runs'[r].deleted /\ ~IsActive(runs'[r])
  <2>1. ~IsActive(runs[r])
    BY <1>1 DEF TableInv, ValidRow, NoRow, GoodRow, validateStoredRun, RevertedRow, Reverted
  <2>2. Content(runs'[r]) = Content(runs[r])
    BY <1>1, StepsForward DEF StepOrAge, SameContent, Later
  <2>3. runs'[r].deleted = runs[r].deleted /\ runs'[r].state = runs[r].state
    BY <2>2 DEF Content
  <2> QED BY <1>1, <2>1, <2>3
<1>2. TableInv /\ TableInv' /\ [Next]_runs =>
        [\A r \in RunIDs : runs[r].deleted => runs'[r].deleted /\ ~IsActive(runs'[r])]_runs
  BY <1>1
<1> QED BY <1>2, Invariance, PTL DEF Spec, TombstonesFinal
-----------------------------------------------------------------------------
(* Volumes and groups.  A row is sound when its configuration may use the volumes    *)
(* it owns and, when it is in a group, when no inventory can reach it: its key is     *)
(* no workstation's, and no replacement waits for its cleanup.  The last two keep a   *)
(* grouped run that stopped executing from ever executing again.                    *)
OwnsItsVolumes(row) ==
  row.ownership # row.snapshot => workstationUpdateCompatible(row.ownership, row.snapshot)

OutOfInventory(row) ==
  row.group # None => /\ \A r \in RunIDs : row.key # WorkstationKey[r]
                      /\ row.state = "stopping" => row.pending = None

SoundRow(row) == OwnsItsVolumes(row) /\ OutOfInventory(row)

(* What every change of a stored row preserves: soundness, and that a grouped run      *)
(* executes after it only if it did before.                                         *)
Carried(row, new) ==
  SoundRow(row) =>
    /\ SoundRow(new)
    /\ Executing(new) /\ new.group # None => Executing(row) /\ new.group = row.group

SoundTable == (\A r \in RunIDs : SoundRow(runs[r])) /\ GroupExclusive

LEMMA CarriedTransitive ==
  ASSUME NEW a, NEW b, NEW c, Carried(a, b), Carried(b, c)
  PROVE  Carried(a, c)
BY DEF Carried

(* A change that leaves a row's identity and configuration alone and starts nothing.    *)
LEMMA CarriedSame ==
  ASSUME NEW row, NEW new,
         new.key = row.key, new.group = row.group,
         new.snapshot = row.snapshot, new.ownership = row.ownership,
         new.state = "stopping" /\ row.group # None /\ SoundRow(row) => new.pending = None,
         Executing(new) => Executing(row)
  PROVE  Carried(row, new)
BY DEF Carried, SoundRow, OwnsItsVolumes, OutOfInventory

(* A change of a run that is in no group.                                            *)
LEMMA CarriedUngrouped ==
  ASSUME NEW row, NEW new, SoundRow(row) => row.group = None, new.group = row.group,
         SoundRow(row) => OwnsItsVolumes(new)
  PROVE  Carried(row, new)
BY DEF Carried, SoundRow, OutOfInventory

(* The columns that matter here, transformer by transformer.                           *)
SameRun(row, new) ==
  /\ new.key = row.key /\ new.group = row.group /\ new.ownership = row.ownership

LEMMA StagedColumns ==
  ASSUME NEW row \in Row, NEW s
  PROVE  LET new == Staged(row, s)
         IN  /\ SameRun(row, new) /\ new.snapshot = row.snapshot /\ new.state = "preparing"
BY DEF Staged, Released, Row, SameRun

LEMMA RestartedColumns ==
  ASSUME NEW row \in Row, NEW s
  PROVE  LET new == Restarted(row, s) IN SameRun(row, new) /\ new.snapshot = s
BY DEF Restarted, Released, Row, SameRun

LEMMA StoppingColumns ==
  ASSUME NEW row \in Row, NEW s, NEW del
  PROVE  /\ \A new \in {Overdue(row), Retired(row), PrunedRow(row), Stopped(row, del), Replacing(row, s)} :
              SameRun(row, new) /\ new.snapshot = row.snapshot /\ new.state = "stopping"
         /\ \A new \in {Overdue(row), PrunedRow(row), Stopped(row, del)} : new.pending = None
         /\ Retired(row).pending = row.pending
<1>1. /\ SameRun(row, Overdue(row)) /\ Overdue(row).snapshot = row.snapshot
      /\ Overdue(row).state = "stopping" /\ Overdue(row).pending = None
  BY DEF Overdue, Released, Row, SameRun
<1>2. /\ SameRun(row, Retired(row)) /\ Retired(row).snapshot = row.snapshot
      /\ Retired(row).state = "stopping" /\ Retired(row).pending = row.pending
  BY DEF Retired, Row, SameRun
<1>3. /\ SameRun(row, PrunedRow(row)) /\ PrunedRow(row).snapshot = row.snapshot
      /\ PrunedRow(row).state = "stopping" /\ PrunedRow(row).pending = None
  BY DEF PrunedRow, Released, Row, SameRun
<1>4. /\ SameRun(row, Stopped(row, del)) /\ Stopped(row, del).snapshot = row.snapshot
      /\ Stopped(row, del).state = "stopping" /\ Stopped(row, del).pending = None
  BY DEF Stopped, Released, Row, SameRun
<1>5. /\ SameRun(row, Replacing(row, s)) /\ Replacing(row, s).snapshot = row.snapshot
      /\ Replacing(row, s).state = "stopping"
  BY DEF Replacing, Released, Row, SameRun
<1> QED BY <1>1, <1>2, <1>3, <1>4, <1>5

LEMMA ReplacedColumns ==
  ASSUME NEW row \in Row
  PROVE  LET new == Replaced(row)
         IN  new.key = row.key /\ new.group = row.group /\ new.ownership = new.snapshot
BY DEF Replaced, Released, Row

LEMMA CommittedColumns ==
  ASSUME NEW row \in Row, NEW to, NEW reason, NEW cursor
  PROVE  LET new == Committed(row, to, reason, cursor)
         IN  SameRun(row, new) /\ new.snapshot = row.pending /\ new.pending = None /\ new.state = to
BY DEF Committed, Moved, Released, Row, SameRun

LEMMA TransitionedColumns ==
  ASSUME NEW row \in Row, NEW to, NEW target, NEW reason, NEW cursor
  PROVE  LET new == Transitioned(row, to, target, reason, cursor)
         IN  /\ SameRun(row, new) /\ new.snapshot = row.snapshot /\ new.state = to
             /\ to = "stopping" => new.pending = None
BY DEF Transitioned, Moved, Released, Row, SameRun, PendingAfter

(* The rollout chain: volumes that the old configuration may use, a compatible new one     *)
(* may use as well.                                                                  *)
LEMMA RolloutKeepsVolumes ==
  ASSUME NEW row, NEW new, OwnsItsVolumes(row), new.ownership = row.ownership,
         workstationUpdateCompatible(row.snapshot, new.snapshot)
  PROVE  OwnsItsVolumes(new)
BY DEF OwnsItsVolumes, workstationUpdateCompatible

LEMMA SweepCarries ==
  ASSUME NEW r \in RunIDs, NEW row, ValidRow(r, row)
  PROVE  Carried(row, sweepTx(row))
<1>1. CASE sweepTx(row) = row
  BY <1>1 DEF Carried
<1>2. CASE DeadlineDue(row) \/ RetentionDue(row)
  <2>1. row \in Row /\ GoodRow(r, row)
    BY <1>2 DEF ValidRow, NoRow, DeadlineDue, RetentionDue, GoodRow
  <2>2. RetentionDue(row) => row.pending = None
    BY <2>1 DEF GoodRow, validateStoredRun, RetentionDue
  <2>3. Carried(row, Overdue(row))
    BY <2>1, StoppingColumns, CarriedSame DEF SameRun, Executing
  <2>4. RetentionDue(row) => Carried(row, Retired(row))
    BY <2>1, <2>2, StoppingColumns, CarriedSame DEF SameRun, Executing
  <2> QED BY <1>2, <2>3, <2>4 DEF sweepTx
<1> QED BY <1>1, <1>2 DEF sweepTx

(* Staging a configuration, and taking back a replacement during its cleanup.              *)
LEMMA StagedCarries ==
  ASSUME NEW row \in Row, NEW s, Executing(row) \/ (row.state = "stopping" /\ row.pending # None)
  PROVE  Carried(row, Staged(row, s))
<1> DEFINE new == Staged(row, s)
<1>1. /\ new.key = row.key /\ new.group = row.group /\ new.ownership = row.ownership
      /\ new.snapshot = row.snapshot /\ new.state = "preparing"
  BY StagedColumns DEF SameRun
<1> HIDE DEF new
<1>2. ASSUME Executing(row) PROVE Carried(row, new)
  BY <1>1, <1>2, CarriedSame DEF Executing
<1>3. ASSUME row.state = "stopping", row.pending # None PROVE Carried(row, new)
  <2>1. SoundRow(row) => row.group = None /\ OwnsItsVolumes(new)
    BY <1>1, <1>3 DEF SoundRow, OutOfInventory, OwnsItsVolumes
  <2> QED BY <1>1, <2>1, CarriedUngrouped
<1>4. Carried(row, new)
  BY <1>2, <1>3
<1> QED BY <1>4 DEF new

LEMMA RestartedCarries ==
  ASSUME NEW row \in Row, NEW s, s = row.snapshot \/ workstationUpdateCompatible(row.snapshot, s),
         SoundRow(row) => row.group = None
  PROVE  Carried(row, Restarted(row, s))
<1> DEFINE new == Restarted(row, s)
<1>1. new.group = row.group /\ new.ownership = row.ownership /\ new.snapshot = s
  BY RestartedColumns DEF SameRun
<1> HIDE DEF new
<1>2. SoundRow(row) => OwnsItsVolumes(new)
  BY <1>1, RolloutKeepsVolumes DEF SoundRow, OwnsItsVolumes
<1>3. Carried(row, new)
  BY <1>1, <1>2, CarriedUngrouped
<1> QED BY <1>3 DEF new

LEMMA ReplacingCarries ==
  ASSUME NEW row \in Row, NEW s, SoundRow(row) => row.group = None
  PROVE  Carried(row, Replacing(row, s))
<1> DEFINE new == Replacing(row, s)
<1>1. new.group = row.group /\ new.ownership = row.ownership /\ new.snapshot = row.snapshot
  BY StoppingColumns DEF SameRun
<1> HIDE DEF new
<1>2. Carried(row, new)
  BY <1>1, CarriedUngrouped DEF SoundRow, OwnsItsVolumes
<1> QED BY <1>2 DEF new

(* A candidate that an operation other than a plain create brings is a workstation's, so     *)
(* it meets no run in a group.                                                         *)
LEMMA AmendedCarries ==
  ASSUME NEW table, NEW c \in Candidate, NEW reclaim \in BOOLEAN, NEW replace \in BOOLEAN,
         ValidRow(RunOf[c.snapshot], table[RunOf[c.snapshot]]),
         Verdict(table, c, reclaim, replace) \notin {"refused", "new"},
         reclaim \/ replace => c.key = WorkstationKey[RunOf[c.snapshot]]
  PROVE  Carried(table[RunOf[c.snapshot]],
                 Amended(table[RunOf[c.snapshot]], c, Verdict(table, c, reclaim, replace)))
<1> DEFINE r == RunOf[c.snapshot]
           row == table[r]
           v == Verdict(table, c, reclaim, replace)
           new == Amended(row, c, v)
<1>1. r \in RunIDs /\ c.snapshot \in Snapshots /\ c.key \in Keys
  BY StoreConstants DEF Candidate
<1>2. CASE v = "replay"
  BY <1>2 DEF Amended, Carried
<1>3. CASE v \in {"update", "cancel", "restart", "restartUpdate", "replace", "terminalReplace"}
  <2>1. row.key = c.key
    BY <1>3 DEF Verdict
  <2>2. GoodRow(r, row) /\ row \in Row
    BY <1>1, <2>1, StoreConstants DEF ValidRow, NoRow, GoodRow
  <2>3. reclaim \/ replace => (SoundRow(row) => row.group = None)
    BY <1>1, <2>1 DEF SoundRow, OutOfInventory
  <2>4. CASE v = "update"
    <3>1. Executing(row)
      BY <2>4 DEF Verdict, Executing
    <3> QED BY <2>2, <2>4, <3>1, StagedCarries DEF Amended
  <2>5. CASE v = "cancel"
    <3>1. row.pending # None
      BY <2>5 DEF Verdict
    <3>2. Executing(row) \/ row.state = "stopping"
      BY <2>2, <3>1 DEF GoodRow, validateStoredRun, Executing
    <3> QED BY <2>2, <2>5, <3>1, <3>2, StagedCarries DEF Amended
  <2>6. CASE v = "restart"
    <3>1. reclaim
      BY <2>6 DEF Verdict
    <3> QED BY <2>2, <2>3, <2>6, <3>1, RestartedCarries DEF Amended
  <2>7. CASE v = "restartUpdate"
    <3>1. reclaim /\ workstationUpdateCompatible(row.snapshot, c.snapshot)
      BY <2>7 DEF Verdict
    <3> QED BY <2>2, <2>3, <2>7, <3>1, RestartedCarries DEF Amended
  <2>8. CASE v \in {"replace", "terminalReplace"}
    <3>1. replace
      BY <2>8 DEF Verdict
    <3> QED BY <2>2, <2>3, <2>8, <3>1, ReplacingCarries DEF Amended
  <2> QED BY <1>3, <2>4, <2>5, <2>6, <2>7, <2>8
<1>4. v \in {"replay", "update", "cancel", "restart", "restartUpdate", "replace", "terminalReplace"}
  BY DEF Verdict
<1> QED BY <1>2, <1>3, <1>4

LEMMA InsertedColumns ==
  ASSUME NEW c \in Candidate,
         c.group # None => \A r \in RunIDs : c.key # WorkstationKey[r]
  PROVE  SoundRow(InsertedRow(c)) /\ InsertedRow(c).group = c.group
<1>1. /\ InsertedRow(c).state = "pending" /\ InsertedRow(c).key = c.key /\ InsertedRow(c).group = c.group
      /\ InsertedRow(c).snapshot = c.snapshot /\ InsertedRow(c).ownership = c.snapshot
  BY DEF InsertedRow, NoRow
<1> QED BY <1>1 DEF SoundRow, OwnsItsVolumes, OutOfInventory

LEMMA StatusCarries ==
  ASSUME NEW r \in RunIDs, NEW row, GoodRow(r, row),
         NEW o, NEW expected, NEW to \in Active \cup Terminal, NEW target, NEW reason, NEW cursor,
         Reportable(row, o, expected, to, target, cursor)
  PROVE  Carried(row, StatusRow(row, to, target, reason, cursor))
<1> DEFINE new == StatusRow(row, to, target, reason, cursor)
<1>0. row \in Row
  BY DEF GoodRow
<1>1. CASE to = row.state
  <2>1. new = [Released(row) EXCEPT !.cursor = cursor]
    BY <1>1 DEF StatusRow
  <2>2. /\ new.key = row.key /\ new.group = row.group /\ new.ownership = row.ownership
        /\ new.snapshot = row.snapshot /\ new.state = row.state /\ new.pending = row.pending
    BY <1>0, <2>1 DEF Released, Row
  <2> HIDE DEF new
  <2>3. Carried(row, new)
    BY <2>2, CarriedSame DEF Executing, SoundRow, OutOfInventory
  <2> QED BY <2>3 DEF new
<1>2. CASE to # row.state /\ row.state = "preparing" /\ to = "running" /\ row.pending # None
  <2>1. new = Committed(row, to, reason, cursor)
    BY <1>2 DEF StatusRow
  <2>2. /\ new.key = row.key /\ new.group = row.group /\ new.ownership = row.ownership
        /\ new.snapshot = row.pending /\ new.state = "running"
    BY <1>0, <1>2, <2>1, CommittedColumns DEF SameRun
  <2>3. workstationUpdateCompatible(row.snapshot, row.pending)
    BY <1>2 DEF GoodRow, validateStoredRun
  <2> HIDE DEF new
  <2>4. SoundRow(row) => OwnsItsVolumes(new)
    BY <2>2, <2>3, RolloutKeepsVolumes DEF SoundRow
  <2>5. Carried(row, new)
    BY <1>2, <2>2, <2>4 DEF Carried, SoundRow, OutOfInventory, Executing
  <2> QED BY <2>5 DEF new
<1>3. CASE to # row.state /\ row.state = "stopping" /\ row.pending # None /\ row.reason = Replacement
  <2>1. new = Replaced(row)
    BY <1>3 DEF StatusRow
  <2>2. new.group = row.group /\ new.ownership = new.snapshot
    BY <1>0, <2>1, ReplacedColumns
  <2> HIDE DEF new
  <2>3. SoundRow(row) => row.group = None
    BY <1>3 DEF SoundRow, OutOfInventory
  <2>4. Carried(row, new)
    BY <2>2, <2>3, CarriedUngrouped DEF OwnsItsVolumes
  <2> QED BY <2>4 DEF new
<1>4. CASE /\ to # row.state
           /\ ~(row.state = "preparing" /\ to = "running" /\ row.pending # None)
           /\ ~(row.state = "stopping" /\ row.pending # None /\ row.reason = Replacement)
  <2>1. new = Transitioned(row, to, target, reason, cursor)
    BY <1>4 DEF StatusRow
  <2>2. /\ new.key = row.key /\ new.group = row.group /\ new.ownership = row.ownership
        /\ new.snapshot = row.snapshot /\ new.state = to /\ (to = "stopping" => new.pending = None)
    BY <1>0, <2>1, TransitionedColumns DEF SameRun
  <2>3. Executing(row) \/ to \in Terminal
    BY <1>4 DEF Reportable, transitionAllowed, Executing
  <2> HIDE DEF new
  <2>4. Carried(row, new)
    BY <2>2, <2>3, CarriedSame DEF Executing
  <2> QED BY <2>4 DEF new
<1> QED BY <1>1, <1>2, <1>3, <1>4

LEMMA StopCarries ==
  ASSUME NEW r \in RunIDs, NEW row, GoodRow(r, row), NEW del
  PROVE  Carried(row, StopRow(row, del))
<1>1. row \in Row /\ (IsTerminal(row) => row.pending = None)
  BY DEF GoodRow, validateStoredRun
<1>2. IsTerminal(row) => Carried(row, Retired(row))
  BY <1>1, StoppingColumns, CarriedSame DEF SameRun, Executing
<1>3. Carried(row, Stopped(row, del))
  BY <1>1, StoppingColumns, CarriedSame DEF SameRun, Executing
<1> QED BY <1>2, <1>3 DEF StopRow

LEMMA HeldCarries ==
  ASSUME NEW row \in Row, NEW o
  PROVE  Carried(row, Held(row, o))
<1> DEFINE new == Held(row, o)
<1>1. /\ new.key = row.key /\ new.group = row.group /\ new.ownership = row.ownership
      /\ new.snapshot = row.snapshot /\ new.state = row.state /\ new.pending = row.pending
  BY DEF Held, Row
<1> HIDE DEF new
<1>2. Carried(row, new)
  BY <1>1, CarriedSame DEF Executing, SoundRow, OutOfInventory
<1> QED BY <1>2 DEF new

(* A step that carries every row over keeps the table sound.                             *)
LEMMA CarriedTable ==
  ASSUME SoundTable, \A q \in RunIDs : Carried(runs[q], runs'[q])
  PROVE  SoundTable'
<1>1. \A q \in RunIDs : SoundRow(runs'[q])
  BY DEF SoundTable, Carried
<1>2. ASSUME NEW r \in RunIDs, NEW q \in RunIDs, r # q, Executing(runs'[r]), Executing(runs'[q]),
             runs'[r].group # None, runs'[r].group = runs'[q].group
      PROVE  FALSE
  <2>1. /\ Executing(runs[r]) /\ runs'[r].group = runs[r].group
        /\ Executing(runs[q]) /\ runs'[q].group = runs[q].group
    BY <1>2 DEF SoundTable, Carried
  <2> QED BY <1>2, <2>1 DEF SoundTable, GroupExclusive
<1>3. GroupExclusive'
  BY <1>2 DEF GroupExclusive, Executing
<1> QED BY <1>1, <1>3 DEF SoundTable, SoundRow, OwnsItsVolumes, OutOfInventory

LEMMA SweptCarries ==
  ASSUME TableInv, Ready, NEW q \in RunIDs
  PROVE  Carried(runs[q], Swept[q]) /\ ValidRow(q, Swept[q])
BY ReadyValid, SweptValid, SweepCarries DEF Swept

(* Sweeping and then changing one row.                                                 *)
LEMMA OneRowCarries ==
  ASSUME TableInv, SoundTable, Ready, NEW r \in RunIDs, NEW new,
         runs' = [Swept EXCEPT ![r] = new], Carried(Swept[r], new)
  PROVE  SoundTable'
<1>1. ASSUME NEW q \in RunIDs PROVE Carried(runs[q], runs'[q])
  <2>1. Carried(runs[q], Swept[q])
    BY SweptCarries
  <2>2. runs'[q] = IF q = r THEN new ELSE Swept[q]
    BY DEF Swept
  <2>3. CASE q = r
    BY <2>1, <2>2, <2>3, CarriedTransitive
  <2>4. CASE q # r
    BY <2>1, <2>2, <2>4
  <2> QED BY <2>3, <2>4
<1> QED BY <1>1, CarriedTable

(* An inventory: every candidate is a workstation in no group.                            *)
LEMMA InventoryCarries ==
  ASSUME TableInv, SoundTable, Ready, NEW batch \in SUBSET Candidate,
         NEW prune \in BOOLEAN, NEW replace \in BOOLEAN, NEW acknowledged \in BOOLEAN,
         \A c \in batch : c.group = None /\ c.key = WorkstationKey[RunOf[c.snapshot]],
         createBatch(Swept, batch, TRUE, prune, replace, acknowledged)
  PROVE  SoundTable'
<1> DEFINE verdict(c) == Verdict(Swept, c, TRUE, replace)
           pruned == IF prune THEN Prunable(Swept, batch) ELSE {}
           mine(r) == CHOOSE d \in batch : RunOf[d.snapshot] = r
<1>1. \A c \in batch : verdict(c) # "refused"
  BY DEF createBatch
<1>2. ASSUME NEW r \in RunIDs PROVE Carried(runs[r], runs'[r])
  <2>1. runs'[r] = IF \E c \in batch : RunOf[c.snapshot] = r
                   THEN Amended(Swept[r], mine(r), verdict(mine(r)))
                   ELSE IF r \in pruned THEN PrunedRow(Swept[r]) ELSE Swept[r]
    BY DEF createBatch
  <2>2. Carried(runs[r], Swept[r]) /\ ValidRow(r, Swept[r])
    BY SweptCarries
  <2>3. CASE \E c \in batch : RunOf[c.snapshot] = r
    <3>1. mine(r) \in batch /\ RunOf[mine(r).snapshot] = r
      BY <2>3
    <3> HIDE DEF mine
    <3>2. PICK c \in batch : c = mine(r)
      BY <3>1
    <3>3. CASE verdict(c) = "new"
      <4>1. SoundRow(InsertedRow(c)) /\ InsertedRow(c).group = None
        BY <3>1, <3>2, InsertedColumns
      <4>2. runs'[r] = InsertedRow(c)
        BY <2>1, <2>3, <3>2, <3>3 DEF Amended
      <4> QED BY <4>1, <4>2 DEF Carried
    <3>4. CASE verdict(c) # "new"
      <4>1. runs'[r] = Amended(Swept[r], c, verdict(c)) /\ RunOf[c.snapshot] = r
        BY <2>1, <2>3, <3>1, <3>2
      <4>2. Carried(Swept[r], Amended(Swept[r], c, verdict(c)))
        BY <1>1, <2>2, <3>4, <4>1, AmendedCarries
      <4> QED BY <2>2, <4>1, <4>2, CarriedTransitive
    <3> QED BY <3>3, <3>4
  <2>4. CASE ~(\E c \in batch : RunOf[c.snapshot] = r) /\ r \in pruned
    <3>1. Swept[r] \in Row
      BY <2>2, NoRowTyped DEF ValidRow, GoodRow
    <3>2. Carried(Swept[r], PrunedRow(Swept[r]))
      BY <3>1, StoppingColumns, CarriedSame DEF SameRun, Executing
    <3> QED BY <2>1, <2>2, <2>4, <3>2, CarriedTransitive
  <2>5. CASE ~(\E c \in batch : RunOf[c.snapshot] = r) /\ r \notin pruned
    BY <2>1, <2>2, <2>5
  <2> QED BY <2>3, <2>4, <2>5
<1> QED BY <1>2, CarriedTable

(* A create: a new run of a group finds no active member, so none that executes.            *)
LEMMA CreateCarries ==
  ASSUME TableInv, SoundTable, NEW c \in Requests, Create(c)
  PROVE  SoundTable'
<1> DEFINE r == RunOf[c.snapshot]
           v == Verdict(Swept, c, FALSE, FALSE)
<1>1. /\ Ready /\ c \in Candidate /\ r \in RunIDs
      /\ c.group # None => \A q \in RunIDs : c.key # WorkstationKey[q]
  BY CallerInputs, StoreConstants DEF Create, Candidate
<1>2. createBatch(Swept, {c}, FALSE, FALSE, FALSE, FALSE)
  BY DEF Create
<1>3. v # "refused" /\ (v = "new" => GroupFree(Swept, c))
  BY <1>2 DEF createBatch
<1>4. runs' = [q \in RunIDs |-> IF q = r THEN Amended(Swept[q], c, v) ELSE Swept[q]]
  <2>1. \A q \in RunIDs : (\E d \in {c} : RunOf[d.snapshot] = q) <=> q = r
    OBVIOUS
  <2>2. (CHOOSE d \in {c} : RunOf[d.snapshot] = r) = c
    OBVIOUS
  <2>3. runs' = [q \in RunIDs |->
                   IF \E d \in {c} : RunOf[d.snapshot] = q
                   THEN LET e == CHOOSE d \in {c} : RunOf[d.snapshot] = q
                        IN Amended(Swept[q], e, Verdict(Swept, e, FALSE, FALSE))
                   ELSE Swept[q]]
    BY <1>2 DEF createBatch
  <2> QED BY <2>1, <2>2, <2>3
<1>5. \A q \in RunIDs : Carried(runs[q], Swept[q]) /\ ValidRow(q, Swept[q])
  BY <1>1, SweptCarries
<1>6. CASE v # "new"
  <2>1. Carried(Swept[r], Amended(Swept[r], c, v))
    BY <1>1, <1>3, <1>5, <1>6, AmendedCarries
  <2>2. \A q \in RunIDs : Carried(runs[q], runs'[q])
    BY <1>4, <1>5, <2>1, CarriedTransitive
  <2> QED BY <2>2, CarriedTable
<1>7. CASE v = "new"
  <2>1. runs'[r] = InsertedRow(c) /\ SoundRow(runs'[r]) /\ runs'[r].group = c.group
    BY <1>1, <1>4, <1>7, InsertedColumns DEF Amended
  <2>2. \A q \in RunIDs : q # r => runs'[q] = Swept[q] /\ Carried(runs[q], runs'[q])
    BY <1>4, <1>5
  <2> HIDE DEF r
  <2>3. \A q \in RunIDs : SoundRow(runs'[q])
    BY <2>1, <2>2 DEF SoundTable, Carried
  <2>4. ASSUME NEW q \in RunIDs, q # r, c.group # None, Executing(runs'[q])
        PROVE  runs'[q].group # c.group
    <3>1. IsActive(Swept[q])
      BY <2>2, <2>4 DEF Executing
    <3> QED BY <1>3, <1>7, <2>2, <2>4, <3>1 DEF GroupFree
  <2>5. ASSUME NEW p \in RunIDs, NEW q \in RunIDs, p # q, p # r, q # r,
               Executing(runs'[p]), Executing(runs'[q]),
               runs'[p].group # None, runs'[p].group = runs'[q].group
        PROVE  FALSE
    <3>1. /\ Executing(runs[p]) /\ runs'[p].group = runs[p].group
          /\ Executing(runs[q]) /\ runs'[q].group = runs[q].group
      BY <2>2, <2>5 DEF SoundTable, Carried
    <3> QED BY <2>5, <3>1 DEF SoundTable, GroupExclusive
  <2>6. ASSUME NEW p \in RunIDs, NEW q \in RunIDs, p # q,
               Executing(runs'[p]), Executing(runs'[q]), runs'[p].group # None
        PROVE  runs'[p].group # runs'[q].group
    BY <2>1, <2>4, <2>5, <2>6
  <2>7. GroupExclusive'
    BY <2>6 DEF GroupExclusive, Executing
  <2> QED BY <2>3, <2>7 DEF SoundTable, SoundRow, OwnsItsVolumes, OutOfInventory
<1> QED BY <1>6, <1>7

(* A timestamp that passes touches no column that matters here.                           *)
LEMMA AgeCarries ==
  ASSUME TableInv, SoundTable, TimePasses
  PROVE  SoundTable'
<1>1. PICK r \in RunIDs : DeadlinePasses(r) \/ RetentionPasses(r) \/ LeasePasses(r)
  BY DEF TimePasses
<1>2. \A q \in RunIDs : q # r => runs'[q] = runs[q]
  BY <1>1 DEF TableInv, DeadlinePasses, RetentionPasses, LeasePasses
<1>3. runs[r] \in Row /\ r \in DOMAIN runs
  BY DEF TableInv
<1>4. Content(runs'[r]) = Content(runs[r])
  BY <1>1, <1>3 DEF DeadlinePasses, RetentionPasses, LeasePasses, Content, Row
<1>5. /\ runs'[r].key = runs[r].key /\ runs'[r].group = runs[r].group
      /\ runs'[r].snapshot = runs[r].snapshot /\ runs'[r].ownership = runs[r].ownership
      /\ runs'[r].state = runs[r].state /\ runs'[r].pending = runs[r].pending
  BY <1>4 DEF Content
<1>6. Carried(runs[r], runs'[r])
  BY <1>5, CarriedSame DEF Executing, SoundRow, OutOfInventory
<1>7. \A q \in RunIDs : Carried(runs[q], runs'[q])
  BY <1>2, <1>6 DEF Carried
<1> QED BY <1>7, CarriedTable

LEMMA NextKeepsSound ==
  ASSUME TableInv, SoundTable, [Next]_runs
  PROVE  SoundTable'
<1>1. ASSUME NEW c \in Requests, Create(c) PROVE SoundTable'
  BY <1>1, CreateCarries
<1>2. ASSUME NEW d \in Inventories, Boot(d) PROVE SoundTable'
  BY <1>2, CallerInputs, InventoryCarries DEF Boot, ReconcileWorkstations
<1>3. ASSUME NEW r \in RunIDs, NEW o \in Owners, Claim(r, o, Swept[r].revision) PROVE SoundTable'
  <2>1. Ready /\ ValidRow(r, Swept[r]) /\ runs' = [Swept EXCEPT ![r] = Held(Swept[r], o)]
    BY <1>3, SweptValid DEF Claim
  <2>2. Carried(Swept[r], Held(Swept[r], o))
    BY <2>1, NoRowTyped, HeldCarries DEF ValidRow, GoodRow
  <2> QED BY <2>1, <2>2, OneRowCarries
<1>4. ASSUME NEW r \in RunIDs, NEW o \in Owners, Report(r, o) PROVE SoundTable'
  <2>1. PICK to \in Active \cup Terminal, target \in Terminal \cup {None},
             reason \in Reasons, cursor \in Cursors \cup {None} :
               UpdateStatus(r, o, Swept[r].revision, to, target, reason, cursor)
    BY <1>4 DEF Report
  <2> DEFINE new == StatusRow(Swept[r], to, target, reason, cursor)
  <2>2. /\ Ready /\ ValidRow(r, Swept[r])
        /\ Reportable(Swept[r], o, Swept[r].revision, to, target, cursor)
        /\ runs' = [Swept EXCEPT ![r] = new]
    BY <2>1, SweptValid DEF UpdateStatus
  <2>3. GoodRow(r, Swept[r])
    BY <2>2 DEF ValidRow, NoRow, Reportable, Visible
  <2>4. Carried(Swept[r], new)
    BY <2>2, <2>3, StatusCarries
  <2> HIDE DEF new
  <2> QED BY <2>2, <2>4, OneRowCarries
<1>5. ASSUME NEW r \in RunIDs, NEW o \in Owners, AbortRollout(r, o) PROVE SoundTable'
  <2> DEFINE new == [Released(runs[r]) EXCEPT !.pending = None, !.state = "running", !.reason = "other"]
  <2>1. runs[r].state = "preparing" /\ runs' = [runs EXCEPT ![r] = new]
    BY <1>5 DEF AbortRollout, abortPendingConfiguration
  <2>2. runs[r] \in Row /\ runs \in [RunIDs -> Row]
    BY DEF TableInv
  <2>3. /\ new.key = runs[r].key /\ new.group = runs[r].group /\ new.ownership = runs[r].ownership
        /\ new.snapshot = runs[r].snapshot /\ new.state = "running"
    BY <2>2 DEF Released, Row
  <2> HIDE DEF new
  <2>4. Carried(runs[r], new)
    BY <2>1, <2>3, CarriedSame DEF Executing
  <2>5. \A q \in RunIDs : Carried(runs[q], runs'[q])
    BY <2>1, <2>2, <2>4 DEF Carried
  <2> QED BY <2>5, CarriedTable
<1>6. ASSUME NEW r \in RunIDs, NEW del \in BOOLEAN, requestStop(r, del) PROVE SoundTable'
  <2>1. /\ Ready /\ Visible(Swept[r]) /\ ValidRow(r, Swept[r])
        /\ runs' = [Swept EXCEPT ![r] = StopRow(Swept[r], del)]
    BY <1>6, SweptValid DEF requestStop
  <2>2. Carried(Swept[r], StopRow(Swept[r], del))
    BY <2>1, StopCarries DEF ValidRow, NoRow, Visible
  <2> QED BY <2>1, <2>2, OneRowCarries
<1>7. ASSUME Sweep PROVE SoundTable'
  <2>1. \A q \in RunIDs : Carried(runs[q], runs'[q])
    BY <1>7, SweptCarries DEF Sweep
  <2> QED BY <2>1, CarriedTable
<1>8. ASSUME TimePasses PROVE SoundTable'
  BY <1>8, AgeCarries
<1>9. CASE UNCHANGED runs
  BY <1>9, CarriedTable DEF Carried
<1> QED BY <1>1, <1>2, <1>3, <1>4, <1>5, <1>6, <1>7, <1>8, <1>9 DEF Next, Cancel, Delete

LEMMA SoundInvariance == Spec => []SoundTable
<1>1. Init => SoundTable
  BY StoreConstants DEF Init, NoRow, SoundTable, SoundRow, OwnsItsVolumes, OutOfInventory,
                        GroupExclusive
<1>2. TableInv /\ SoundTable /\ [Next]_runs => SoundTable'
  BY NextKeepsSound
<1> QED BY <1>1, <1>2, Invariance, PTL DEF Spec

(* However many rollouts, restarts, aborts and replacements a workstation goes through, its      *)
(* configuration stays within what the volumes it was created with allow.                    *)
THEOREM VolumesStayCompatible == Spec => []OwnershipMatchesSnapshot
<1>1. SoundTable => OwnershipMatchesSnapshot
  BY DEF SoundTable, SoundRow, OwnsItsVolumes, OwnershipMatchesSnapshot
<1> QED BY <1>1, SoundInvariance, PTL

(* Two runs of one active group never execute at the same time.                             *)
THEOREM OneRunPerGroup == Spec => []GroupExclusive
<1>1. SoundTable => GroupExclusive
  BY DEF SoundTable
<1> QED BY <1>1, SoundInvariance, PTL
=============================================================================
