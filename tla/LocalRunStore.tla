--------------------------- MODULE LocalRunStore ---------------------------
(***************************************************************************)
(* The durable run table of the local controller                           *)
(* (localcontroller/internal/controller/store.go): one SQLite table, one    *)
(* connection, so every transaction is one atomic step.                     *)
(*                                                                         *)
(* The wall clock is abstracted to what the code asks of it, "is this       *)
(* timestamp after now?".  A timestamp column is a Timer: "none" (NULL),    *)
(* "ahead" or "due"; the environment may let any timer pass at any moment.  *)
(*                                                                         *)
(* A resolved snapshot is a model value.  The code hashes it and compares    *)
(* digests, so a snapshot stands for its digest; what the store reads from   *)
(* the decoded document is given by the constant functions below.           *)
(***************************************************************************)
EXTENDS Integers, FiniteSets

CONSTANTS
  RunIDs,          \* resolved.RunID values
  Keys,            \* idempotency keys; an active group is a key as well
  Owners,          \* reconciliation owners
  Snapshots,       \* canonical resolved runs
  Cursors,         \* lifecycle cursors; InitialCursor is the empty string
  InitialCursor,
  RunOf,           \* [Snapshots -> RunIDs]: the document's run_id
  Frozen,          \* [Snapshots -> anything]: the fields a rollout must not change
  Rollable,        \* snapshots with full persistence and an all-zero TTL block
  Deadlined,       \* snapshots with ttl.active_seconds > 0
  Expiring,        \* [Snapshots -> SUBSET Terminal]: outcomes with a retention expiry
  WorkstationKey,  \* [RunIDs -> Keys]: "workstation-" + sha256(run ID)
  MaxActiveRuns,
  MaxRevision,     \* bound: no transaction starts on a table with a row at it
  None             \* NULL / the empty string

Active == {"pending", "preparing", "running", "stopping"}
Terminal == {"completed", "failed", "expired"}
Timers == {"none", "ahead", "due"}
Replacement == "immutable-replacement-requested"
Reasons == {Replacement, "other"}

ASSUME StoreConstants ==
  /\ RunOf \in [Snapshots -> RunIDs]
  /\ Expiring \in [Snapshots -> SUBSET Terminal]
  /\ WorkstationKey \in [RunIDs -> Keys]
  /\ Rollable \subseteq Snapshots
  /\ Deadlined \subseteq Snapshots
  /\ Rollable \cap Deadlined = {}
  /\ \A s \in Rollable : Expiring[s] = {}
  /\ InitialCursor \in Cursors
  /\ MaxActiveRuns \in Nat
  /\ MaxRevision \in Nat
  /\ None \notin Snapshots \cup Keys \cup Owners
  /\ None \notin Cursors /\ None \notin Terminal

VARIABLE runs      \* the table, by run ID
storeVars == <<runs>>

(* A stored row.  snapshot, snapshot_digest and request_digest are always    *)
(* written together and are one field; so are the two pending columns.      *)
Row ==
  [state : Active \cup Terminal \cup {"absent"}, revision : Nat,
   key : Keys \cup {None}, group : Keys \cup {None},
   snapshot : Snapshots \cup {None}, ownership : Snapshots \cup {None},
   pending : Snapshots \cup {None},
   deleteRequested : BOOLEAN, deleted : BOOLEAN,
   target : Terminal \cup {None}, deadline : Timers, expires : Timers,
   owner : Owners \cup {None}, lease : Timers,
   reason : Reasons, cursor : Cursors]

NoRow ==
  [state |-> "absent", revision |-> 0, key |-> None, group |-> None,
   snapshot |-> None, ownership |-> None, pending |-> None,
   deleteRequested |-> FALSE, deleted |-> FALSE, target |-> None,
   deadline |-> "none", expires |-> "none", owner |-> None, lease |-> "none",
   reason |-> "other", cursor |-> InitialCursor]

IsActive(row) == row.state \in Active
IsTerminal(row) == row.state \in Terminal
(* Mutant: a lookup without deleted_at IS NULL. *)
Visible_Tombstones(row) == row.state # "absent"
Visible(row) == row.state # "absent" /\ ~row.deleted

transitionAllowed(from, to) ==
  \/ from = "pending" /\ to \in {"preparing", "stopping"}
  \/ from = "preparing" /\ to \in {"running", "stopping"}
  \/ from = "running" /\ to \in {"preparing", "stopping"}
  \/ from = "stopping" /\ to \in Terminal

workstationUpdateCompatible(active, desired) ==
  /\ {active, desired} \subseteq Rollable
  /\ RunOf[active] = RunOf[desired]
  /\ Frozen[active] = Frozen[desired]

(* validateStoredRun: what every reader demands of a row before using it.   *)
validateStoredRun(r, row) ==
  /\ row.snapshot \in Snapshots /\ RunOf[row.snapshot] = r
  /\ row.pending # None =>
       /\ RunOf[row.pending] = r
       /\ \/ /\ row.state = "stopping" /\ row.deleteRequested
             /\ row.reason = Replacement
          \/ /\ workstationUpdateCompatible(row.snapshot, row.pending)
             /\ row.state = "preparing"
  /\ row.deleted => IsTerminal(row) /\ row.deleteRequested
  /\ row.expires # "none" => IsTerminal(row)
  /\ IsTerminal(row) /\ row.deleteRequested => row.deleted
  /\ row.deleteRequested /\ ~row.deleted => row.state = "stopping"
  /\ row.owner = None <=> row.lease = "none"
  /\ IsTerminal(row) => row.owner = None
  /\ IF row.state = "stopping" THEN row.target \in Terminal ELSE row.target = None

administratorWorkstation(r, row) ==
  row.snapshot \in Rollable /\ row.key = WorkstationKey[r]

(* One malformed row in a non-terminal state makes Sweep fail, and with it   *)
(* every operation that starts by sweeping.                                 *)
Available(table) ==
  \A r \in RunIDs : IsActive(table[r]) => validateStoredRun(r, table[r])

Init == runs = [r \in RunIDs |-> NoRow]
-----------------------------------------------------------------------------
(* A terminal row that is to be removed goes back through cleanup.           *)
Retired(row) ==
  [row EXCEPT !.state = "stopping", !.target = row.state, !.expires = "none",
              !.deleteRequested = TRUE, !.revision = @ + 1, !.reason = "other"]

(* Whoever changes a row takes away its claim and advances its revision.     *)
Released(row) == [row EXCEPT !.owner = None, !.lease = "none", !.revision = @ + 1]

Overdue(row) ==
  [Released(row) EXCEPT !.state = "stopping", !.reason = "other",
                        !.target = "expired", !.pending = None]

DeadlineDue(row) == row.state \in Active \ {"stopping"} /\ row.deadline = "due"
RetentionDue(row) == IsTerminal(row) /\ ~row.deleted /\ row.expires = "due"

(* Convergence of deadlines and retention, run at the start of every         *)
(* operation and periodically.                                              *)
sweepTx(row) == IF DeadlineDue(row) THEN Overdue(row)
                ELSE IF RetentionDue(row) THEN Retired(row)
                ELSE row

Swept == [r \in RunIDs |-> sweepTx(runs[r])]
Room == \A r \in RunIDs : runs[r].revision < MaxRevision
Ready == Room /\ Available(runs)

(* Sweep, and equally every operation whose own transaction is refused after *)
(* its opening sweep committed, and the read-only Get and List.              *)
Sweep == Ready /\ runs' = Swept
-----------------------------------------------------------------------------
(* createBatch.  A candidate is [key, group, snapshot].                      *)
optionalDeadline(s) == IF s \in Deadlined THEN "ahead" ELSE "none"

InsertedRow(c) ==
  [NoRow EXCEPT !.state = "pending", !.revision = 1, !.key = c.key,
                !.group = c.group, !.snapshot = c.snapshot,
                !.ownership = c.snapshot,
                !.deadline = optionalDeadline(c.snapshot)]

(* How one candidate relates to the stored rows.  "refused" stands for       *)
(* ErrGone (tombstone) and ErrConflict; either aborts the whole batch.       *)
Verdict(table, c, reclaim, replace) ==
  LET r == RunOf[c.snapshot]
      row == table[r]
      leased == row.lease = "ahead"
      stopped == row.state \in {"completed", "failed"}
      same == row.snapshot = c.snapshot
      compatible == /\ workstationUpdateCompatible(row.snapshot, c.snapshot)
                    /\ ~row.deleteRequested
  IN IF \A q \in RunIDs : table[q].key # c.key
     THEN IF row.state = "absent" THEN "new" ELSE "refused"
     ELSE IF \/ row.key # c.key \/ row.deleted
             \/ (~same \/ row.pending # None) /\ leased THEN "refused"
     ELSE IF ~same /\ ~compatible
     THEN IF ~replace \/ row.deleteRequested THEN "refused"
          ELSE IF IsTerminal(row) THEN "terminalReplace" ELSE "replace"
     ELSE IF ~same
     THEN IF reclaim /\ stopped THEN "restartUpdate"
          ELSE IF /\ row.state # "running"
                  /\ ~(row.state = "preparing" /\ row.pending # None) THEN "refused"
          ELSE IF row.pending # c.snapshot THEN "update" ELSE "replay"
     ELSE IF row.pending # None THEN "cancel"
     ELSE IF reclaim /\ stopped THEN "restart" ELSE "replay"

(* A configuration waits in the pending columns until the backend applied it. *)
Staged(row, s) == [Released(row) EXCEPT !.pending = s, !.state = "preparing",
                                        !.reason = "other"]

Restarted(row, s) ==
  [Released(row) EXCEPT !.snapshot = s, !.pending = None, !.state = "pending",
                        !.expires = "none", !.reason = "other", !.target = None]

Replacing(row, s) ==
  [Released(row) EXCEPT !.pending = s, !.state = "stopping",
                        !.deleteRequested = TRUE, !.target = "completed",
                        !.expires = "none", !.reason = Replacement]

Amended(row, c, verdict) ==
  IF verdict = "new" THEN InsertedRow(c)
  ELSE IF verdict = "update" THEN Staged(row, c.snapshot)
  ELSE IF verdict = "cancel" THEN Staged(row, row.snapshot)
  ELSE IF verdict = "restart" THEN Restarted(row, row.snapshot)
  ELSE IF verdict = "restartUpdate" THEN Restarted(row, c.snapshot)
  ELSE IF verdict \in {"replace", "terminalReplace"} THEN Replacing(row, c.snapshot)
  ELSE row

PrunedRow(row) ==
  [Released(row) EXCEPT !.state = "stopping", !.deleteRequested = TRUE,
                        !.target = "completed", !.reason = "other",
                        !.pending = None]

Prunable(table, batch) ==
  {r \in RunIDs : /\ Visible(table[r])
                  /\ administratorWorkstation(r, table[r])
                  /\ ~table[r].deleteRequested
                  /\ \A c \in batch : c.key # table[r].key}

(* Distinct keys, run IDs and groups within one batch.                       *)
WellFormed(batch) ==
  \A c, d \in batch : c # d =>
    /\ c.key # d.key
    /\ RunOf[c.snapshot] # RunOf[d.snapshot]
    /\ c.group = None \/ c.group # d.group

(* Mutant: the group query matches the idempotency key only. *)
GroupFree_KeyOnly(table, c) ==
  c.group = None \/ \A r \in RunIDs : ~(IsActive(table[r]) /\ c.group = table[r].key)

GroupFree(table, c) ==
  c.group = None \/
    \A r \in RunIDs : ~ /\ IsActive(table[r])
                        /\ c.group \in {table[r].group, table[r].key}

Occupying(table, reclaim) ==
  {r \in RunIDs : table[r].state \in Active \ (IF reclaim THEN {"stopping"} ELSE {})}

createBatch(table, batch, reclaim, prune, replace, acknowledged) ==
  LET verdict(c) == Verdict(table, c, reclaim, replace)
      having(kinds) == {c \in batch : verdict(c) \in kinds}
      pruned == IF prune THEN Prunable(table, batch) ELSE {}
  IN /\ batch # {} \/ prune
     /\ Cardinality(batch) <= MaxActiveRuns
     /\ WellFormed(batch)
     /\ having({"refused"}) = {}
     /\ pruned # {} \/ having({"replace", "terminalReplace"}) # {} => acknowledged
     /\ \A c \in having({"new"}) : GroupFree(table, c)
     /\ Cardinality(Occupying(table, reclaim))
          + Cardinality(having({"new", "restart", "restartUpdate", "terminalReplace"}))
          <= MaxActiveRuns
     /\ runs' = [r \in RunIDs |->
                   IF \E c \in batch : RunOf[c.snapshot] = r
                   THEN LET c == CHOOSE d \in batch : RunOf[d.snapshot] = r
                        IN Amended(table[r], c, verdict(c))
                   ELSE IF r \in pruned THEN PrunedRow(table[r])
                   ELSE table[r]]

(* The single-run API and schedule admission.                                *)
Create(c) == Ready /\ createBatch(Swept, {c}, FALSE, FALSE, FALSE, FALSE)

(* The administrator's workstation inventory, installed at process start.    *)
ReconcileWorkstations(batch, prune, replace, acknowledged) ==
  Ready /\ createBatch(Swept, batch, TRUE, prune, replace, acknowledged)
-----------------------------------------------------------------------------
(* Reconciliation ownership.                                                 *)
(* Mutant: an expired lease of another owner still holds. *)
Claimable_NoTakeover(row, o, expected) ==
  IsActive(row) /\ row.revision = expected /\ row.owner \in {None, o}

Claimable(row, o, expected) ==
  /\ IsActive(row) /\ row.revision = expected
  /\ row.owner \in {None, o} \/ row.lease # "ahead"

Held(row, o) == [row EXCEPT !.owner = o, !.lease = "ahead", !.revision = @ + 1]

Claim(r, o, expected) ==
  /\ Ready
  /\ Claimable(Swept[r], o, expected)
  /\ runs' = [Swept EXCEPT ![r] = Held(Swept[r], o)]

terminalExpiry(state, s) == IF state \in Expiring[s] THEN "ahead" ELSE "none"

(* Mutant: a report without a cursor stores NULL. *)
Moved_NullCursor(row, to, reason, cursor) ==
  [Released(row) EXCEPT !.state = to, !.reason = reason, !.cursor = cursor]

CursorAfter(row, cursor) == IF cursor = None THEN row.cursor ELSE cursor

Moved(row, to, reason, cursor) ==
  [Released(row) EXCEPT !.state = to, !.reason = reason, !.cursor = CursorAfter(row, cursor)]

(* Mutant: the replacement inherits the ownership digest of the old volumes. *)
Replaced_KeepsOwnership(row) ==
  [Released(row) EXCEPT !.state = "pending", !.reason = "other",
     !.snapshot = row.pending, !.pending = None, !.expires = "none",
     !.deleteRequested = FALSE, !.target = None, !.cursor = InitialCursor]

(* The end of the cleanup that an immutable replacement asked for.           *)
Replaced(row) ==
  [Released(row) EXCEPT !.state = "pending", !.reason = "other",
     !.snapshot = row.pending, !.ownership = row.pending,
     !.pending = None, !.expires = "none", !.deleteRequested = FALSE,
     !.target = None, !.cursor = InitialCursor]

(* The backend applied the staged configuration.                             *)
Committed(row, to, reason, cursor) ==
  [Moved(row, to, reason, cursor) EXCEPT !.snapshot = row.pending, !.pending = None]

PendingAfter(row, to) == IF to = "stopping" THEN None ELSE row.pending

(* target is None unless to is "stopping" (Reportable).                      *)
Transitioned(row, to, target, reason, cursor) ==
  [Moved(row, to, reason, cursor) EXCEPT
     !.expires = terminalExpiry(to, row.snapshot), !.target = target,
     !.deleted = to \in Terminal /\ row.deleteRequested,
     !.pending = PendingAfter(row, to)]

(* UpdateStatus by the holder of a live claim, by the branch it takes.       *)
StatusRow(row, to, target, reason, cursor) ==
  IF to = row.state THEN [Released(row) EXCEPT !.cursor = cursor]
  ELSE IF row.state = "preparing" /\ to = "running" /\ row.pending # None
  THEN Committed(row, to, reason, cursor)
  ELSE IF row.state = "stopping" /\ row.pending # None /\ row.reason = Replacement
  THEN Replaced(row)
  ELSE Transitioned(row, to, target, reason, cursor)

Reportable(row, o, expected, to, target, cursor) ==
  /\ to = "stopping" <=> target # None
  /\ Visible(row) /\ row.revision = expected
  /\ row.owner = o /\ row.lease = "ahead"
  /\ IF to = row.state
     THEN cursor \notin {None, row.cursor} /\ target = None
     ELSE /\ transitionAllowed(row.state, to)
          /\ row.state = "stopping" => to = row.target

UpdateStatus(r, o, expected, to, target, reason, cursor) ==
  /\ Ready
  /\ Reportable(Swept[r], o, expected, to, target, cursor)
  /\ runs' = [Swept EXCEPT ![r] = StatusRow(@, to, target, reason, cursor)]

(* Mutant: the abort does not advance the revision. *)
abortPendingConfiguration_NoRevision(r, o, expected) ==
  LET row == runs[r] IN
  /\ Room
  /\ row.revision = expected /\ row.owner = o /\ row.pending # None
  /\ runs' = [runs EXCEPT ![r] =
                [row EXCEPT !.pending = None, !.state = "running",
                            !.owner = None, !.lease = "none", !.reason = "other"]]

(* Reached only from the in-process reconciler; neither sweeps nor validates, *)
(* and does not look at the lease's expiry.                                  *)
abortPendingConfiguration(r, o, expected) ==
  LET row == runs[r] IN
  /\ Room
  /\ row.revision = expected /\ row.owner = o /\ row.pending # None
  /\ runs' = [runs EXCEPT ![r] =
                [Released(row) EXCEPT !.pending = None, !.state = "running",
                                      !.reason = "other"]]

(* Mutant: a stop keeps the staged configuration. *)
StopRow_KeepsPending(row, del) ==
  [Released(row) EXCEPT !.state = "stopping", !.expires = "none",
     !.deleteRequested = del \/ row.deleteRequested, !.reason = "other",
     !.target = IF IsTerminal(row) THEN row.state
                ELSE IF row.state = "stopping" THEN row.target
                ELSE IF del THEN "completed" ELSE "failed"]

(* Mutant: DELETE stops the run without recording that it was a delete. *)
StopRow_ForgetsDelete(row, del) ==
  [Released(row) EXCEPT !.state = "stopping", !.expires = "none",
     !.reason = "other", !.pending = None,
     !.target = IF IsTerminal(row) THEN row.state
                ELSE IF row.state = "stopping" THEN row.target ELSE "completed"]

(* Cancel and Delete.                                                        *)
StopTarget(row, del) == IF row.state = "stopping" THEN row.target
                        ELSE IF del THEN "completed" ELSE "failed"

Stopped(row, del) ==
  [Released(row) EXCEPT !.state = "stopping", !.reason = "other", !.pending = None,
     !.deleteRequested = del \/ row.deleteRequested, !.target = StopTarget(row, del)]

StopRow(row, del) == IF IsTerminal(row) THEN Retired(row) ELSE Stopped(row, del)

requestStop(r, del) ==
  LET row == Swept[r] IN
  /\ Ready
  /\ Visible(row)
  /\ IsTerminal(row) => del
  /\ row.state = "stopping" => del /\ ~row.deleteRequested
  /\ runs' = [Swept EXCEPT ![r] = StopRow(row, del)]

Cancel(r) == requestStop(r, FALSE)
Delete(r) == requestStop(r, TRUE)
-----------------------------------------------------------------------------
(* The clock passes one timestamp.                                           *)
DeadlinePasses(r) == /\ runs[r].deadline = "ahead"
                     /\ runs' = [runs EXCEPT ![r].deadline = "due"]
RetentionPasses(r) == /\ runs[r].expires = "ahead"
                      /\ runs' = [runs EXCEPT ![r].expires = "due"]
LeasePasses(r) == /\ runs[r].lease = "ahead"
                  /\ runs' = [runs EXCEPT ![r].lease = "due"]

TimePasses ==
  \E r \in RunIDs : DeadlinePasses(r) \/ RetentionPasses(r) \/ LeasePasses(r)
=============================================================================
