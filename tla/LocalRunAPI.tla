---------------------------- MODULE LocalRunAPI ----------------------------
(***************************************************************************)
(* The run store behind its API: any caller of the authenticated HTTP API,   *)
(* of schedule admission, of the startup inventory and of the claim/status   *)
(* pair may act at any time, in any order, with any of its inputs.  This is   *)
(* the most general environment of the store; LocalController narrows the     *)
(* claim/status callers to reconcilers.                                      *)
(***************************************************************************)
EXTENDS LocalRunStore

CONSTANTS
  Requests,     \* candidates callers may post: [key, group, snapshot]
  Inventories   \* startup documents: [batch, prune, replace, acknowledged]

Candidate == [key : Keys, group : Keys \cup {None}, snapshot : Snapshots]

(* Only schedule admission names a group, and its "local-work-" keys never    *)
(* meet the "workstation-" keys of the inventory, which names no group.       *)
ASSUME CallerInputs ==
  /\ Requests \subseteq Candidate
  /\ \A d \in Inventories :
       /\ d.batch \subseteq Candidate
       /\ IsFiniteSet(d.batch)
       /\ {d.prune, d.replace, d.acknowledged} \subseteq BOOLEAN
       /\ \A c \in d.batch : /\ c.group = None
                             /\ c.snapshot \in Rollable
                             /\ c.key = WorkstationKey[RunOf[c.snapshot]]
  /\ \A c \in Requests : c.group # None => \A r \in RunIDs : c.key # WorkstationKey[r]

Boot(d) == ReconcileWorkstations(d.batch, d.prune, d.replace, d.acknowledged)

Report(r, o) ==
  \E to \in Active \cup Terminal, target \in Terminal \cup {None},
     reason \in Reasons, cursor \in Cursors \cup {None} :
       UpdateStatus(r, o, Swept[r].revision, to, target, reason, cursor)

(* Its one caller, reconcileRun, claimed the run while it was preparing, and    *)
(* the expected revision pins that row.                                       *)
AbortRollout(r, o) ==
  /\ runs[r].state = "preparing"
  /\ abortPendingConfiguration(r, o, runs[r].revision)

Next ==
  \/ \E c \in Requests : Create(c)
  \/ \E d \in Inventories : Boot(d)
  \/ \E r \in RunIDs, o \in Owners :
       \/ Claim(r, o, Swept[r].revision)
       \/ Report(r, o)
       \/ AbortRollout(r, o)
  \/ \E r \in RunIDs : Cancel(r)
  \/ \E r \in RunIDs : Delete(r)
  \/ Sweep
  \/ TimePasses

Spec == Init /\ [][Next]_runs
-----------------------------------------------------------------------------
TypeOK == runs \in [RunIDs -> Row]

(* The row createBatch leaves when an inventory goes back to the stored       *)
(* snapshot while that snapshot's immutable replacement is being cleaned up.  *)
Reverted(row) ==
  /\ row.state = "preparing" /\ row.deleteRequested /\ ~row.deleted
  /\ row.target = "completed" /\ row.pending = row.snapshot
  /\ row.owner = None

(* No interleaving of creates, claims, status reports, rollouts, stops, prunes *)
(* and expiries writes a row that validateStoredRun rejects, the reverted      *)
(* replacement being the only exception.                                      *)
OnlyRevertBreaksRows ==
  \A r \in RunIDs : \/ runs[r].state = "absent"
                    \/ validateStoredRun(r, runs[r])
                    \/ Reverted(runs[r])

(* Rollouts and restarts keep the ownership digest of the volumes while the    *)
(* configuration moves on; the two never drift apart in a field that a rollout  *)
(* must not change, however many rollouts are staged, aborted or rolled back.   *)
OwnershipMatchesSnapshot ==
  \A r \in RunIDs :
    LET row == runs[r] IN
    row.state # "absent" /\ row.ownership # row.snapshot =>
      workstationUpdateCompatible(row.ownership, row.snapshot)

Executing(row) == row.state \in {"pending", "preparing", "running"}

(* Schedule admission keeps at most one run of an active group executing; a     *)
(* terminal member that comes back for cleanup never executes again beside a    *)
(* newer one.                                                                 *)
GroupExclusive ==
  \A r, q \in RunIDs :
    r # q /\ Executing(runs[r]) /\ Executing(runs[q]) /\ runs[r].group # None
      => runs[r].group # runs[q].group

(* What a row says apart from the clock and the revision itself.                *)
Content(row) ==
  <<row.state, row.key, row.group, row.snapshot, row.ownership, row.pending,
    row.deleteRequested, row.deleted, row.target, row.owner, row.reason, row.cursor>>

(* Compare-and-swap on the revision is sound: whatever changes a row's content   *)
(* changes its revision too, so a caller that read the row before the change     *)
(* cannot update it after.                                                     *)
EveryChangeBumpsRevision ==
  [][\A r \in RunIDs : Content(runs'[r]) # Content(runs[r])
                          => runs'[r].revision > runs[r].revision]_runs

(* A tombstone is final: its idempotency key and run ID never run again.          *)
TombstonesFinal ==
  [][\A r \in RunIDs : runs[r].deleted => runs'[r].deleted /\ ~IsActive(runs'[r])]_runs
=============================================================================
