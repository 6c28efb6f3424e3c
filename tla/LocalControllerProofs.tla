------------------------ MODULE LocalControllerProofs ------------------------
(***************************************************************************)
(* What the controller processes make of the store and of Docker.            *)
(*                                                                         *)
(* However many processes there are, they use the store as any caller may:   *)
(* the controller implements LocalRunAPI, and what is proved of the store is   *)
(* true of it.  What Docker and the broker hold is settled where one process    *)
(* lives at a time, as the deployment has it.                                *)
(***************************************************************************)
EXTENDS LocalController, LocalRunAPIProofs, FiniteSetTheorems

ProcFields == {"pc", "pass", "recovered", "todo", "work"}
WorkFields == {"run", "revision", "desired", "ownership", "previous", "deleteRequested",
               "stopped", "registered", "to", "target"}
Known == Snapshots \cup {None}
ReportPCs == DeletePCs \cup {"report"}
PreparingPCs == EnsurePCs \cup {"rollback", "restore", "abort"}

(* The claimed run that a process works on.                                     *)
WorkTyped(w) ==
  /\ DOMAIN w = WorkFields /\ w.run \in RunIDs /\ w.revision \in Nat \ {0}
  /\ w.desired \in Snapshots /\ w.ownership \in Known /\ w.previous \in Known
  /\ w.deleteRequested \in BOOLEAN
  /\ w.to \in Active \cup Terminal \cup {None} /\ w.target \in Terminal \cup {None}

(* A row that still has the revision of the claim is the row that was claimed.      *)
PinOK(p, row) ==
  /\ WorkTyped(p.work) /\ p.work.revision <= row.revision
  /\ p.pc \in ReportPCs => p.work.to \in Active \cup Terminal
  /\ p.work.revision = row.revision =>
       /\ p.work.deleteRequested = row.deleteRequested
       /\ p.pc \in PreparingPCs => row.state = "preparing"

ProcOK(p, table) ==
  /\ DOMAIN p = ProcFields /\ p.pc \in PCs
  /\ IF p.pc \in BusyPCs THEN PinOK(p, table[p.work.run]) ELSE p.work = NoWork

ClaimInv ==
  /\ TableInv /\ document \in Inventories /\ DOMAIN proc = Owners
  /\ \A o \in Owners : ProcOK(proc[o], runs)
-----------------------------------------------------------------------------
(* Any number of processes.                                                     *)
LEMMA PCSets ==
  /\ BusyPCs \subseteq PCs /\ {"off", "dead", "list", "each"} \cap BusyPCs = {}
  /\ BusyPCs \cap {"off", "dead", "list", "each"} = {}
  /\ EnsurePCs \subseteq BusyPCs /\ ReportPCs \subseteq BusyPCs /\ PreparingPCs \subseteq BusyPCs
  /\ ReportPCs \cap PreparingPCs = {}
BY DEF PCs, BusyPCs, EnsurePCs, DeletePCs, ReportPCs, PreparingPCs

(* Rows only ever move forward.                                                 *)
Forward(row, new) ==
  /\ row.revision <= new.revision
  /\ new.revision = row.revision => new.state = row.state /\ new.deleteRequested = row.deleteRequested

LEMMA TableForward ==
  ASSUME TableInv, TableInv', [Next]_runs
  PROVE  \A q \in RunIDs : Forward(runs[q], runs'[q])
<1> SUFFICES ASSUME NEW q \in RunIDs PROVE Forward(runs[q], runs'[q])
  OBVIOUS
<1>1. runs[q].revision \in Nat /\ runs'[q].revision \in Nat
  BY DEF TableInv, Row
<1>2. CASE Later(runs[q], runs'[q])
  BY <1>1, <1>2 DEF Later, Forward
<1>3. CASE SameContent(runs[q], runs'[q])
  BY <1>1, <1>3 DEF SameContent, Content, Forward
<1> QED BY <1>2, <1>3, StepsForward DEF StepOrAge

LEMMA PinKept ==
  ASSUME NEW p, NEW row \in Row, NEW new \in Row, PinOK(p, row), Forward(row, new)
  PROVE  PinOK(p, new)
<1>1. row.revision \in Nat /\ new.revision \in Nat /\ p.work.revision \in Nat
  BY DEF Row, PinOK, WorkTyped
<1> QED BY <1>1 DEF PinOK, Forward

LEMMA StaysPinned ==
  ASSUME ClaimInv, [Next]_runs, NEW q \in Owners
  PROVE  ProcOK(proc[q], runs')
<1>1. TableInv' /\ TableInv
  BY NextKeepsInv DEF ClaimInv
<1>2. PICK x : x = proc[q] /\ ProcOK(x, runs)
  BY DEF ClaimInv
<1>3. CASE x.pc \in BusyPCs
  <2>1. PinOK(x, runs[x.work.run]) /\ x.work.run \in RunIDs
    BY <1>2, <1>3 DEF ProcOK, PinOK, WorkTyped
  <2>2. runs[x.work.run] \in Row /\ runs'[x.work.run] \in Row
    BY <1>1, <2>1 DEF TableInv
  <2>3. Forward(runs[x.work.run], runs'[x.work.run])
    BY <1>1, <2>1, TableForward
  <2>4. PinOK(x, runs'[x.work.run])
    BY <2>1, <2>2, <2>3, PinKept
  <2> QED BY <1>2, <1>3, <2>4 DEF ProcOK
<1>4. CASE x.pc \notin BusyPCs
  BY <1>2, <1>4 DEF ProcOK
<1> QED BY <1>3, <1>4

(* A step that changes at most one process, and the store like a caller of its API.    *)
OnlyProc(o) ==
  DOMAIN proc' = Owners /\ DOMAIN proc'[o] = ProcFields /\ \A q \in Owners : q # o => proc'[q] = proc[q]

LEMMA ClaimsKept ==
  ASSUME ClaimInv, [Next]_runs, document' \in Inventories, NEW o \in Owners, OnlyProc(o), ProcOK(proc'[o], runs')
  PROVE  ClaimInv'
BY StaysPinned, NextKeepsInv DEF ClaimInv, OnlyProc

LEMMA NoProcess ==
  ASSUME ClaimInv, [Next]_runs, document' \in Inventories, proc' = proc
  PROVE  ClaimInv'
BY StaysPinned, NextKeepsInv DEF ClaimInv

(* How a process goes on.                                                       *)
LEMMA Moves ==
  ASSUME ClaimInv, NEW o \in Owners
  PROVE  /\ \A pc : Goto(o, pc) => OnlyProc(o) /\ proc'[o].pc = pc /\ proc'[o].work = Work(o)
         /\ Return(o) => OnlyProc(o) /\ proc'[o].pc = "each" /\ proc'[o].work = NoWork
         /\ \A pc, w : proc' = [proc EXCEPT ![o].pc = pc, ![o].work = w]
                        => OnlyProc(o) /\ proc'[o].pc = pc /\ proc'[o].work = w
<1>1. DOMAIN proc = Owners /\ DOMAIN proc[o] = ProcFields
  BY DEF ClaimInv, ProcOK
<1> QED BY <1>1 DEF Goto, Return, OnlyProc, ProcFields, Work

LEMMA Advances ==
  ASSUME ClaimInv, NEW o \in Owners, proc[o].pc \in BusyPCs, NEW p, DOMAIN p = ProcFields, p.pc \in BusyPCs,
         WorkTyped(p.work), p.work.run = Work(o).run, p.work.revision = Work(o).revision,
         p.work.deleteRequested = Work(o).deleteRequested,
         p.pc \in ReportPCs => p.work.to \in Active \cup Terminal,
         p.pc \in PreparingPCs => proc[o].pc \in PreparingPCs
  PROVE  ProcOK(p, runs)
<1>1. PinOK(proc[o], runs[Work(o).run])
  BY DEF ClaimInv, ProcOK, Work
<1>2. PinOK(p, runs[p.work.run])
  BY <1>1 DEF PinOK, Work
<1> QED BY <1>2, PCSets DEF ProcOK

LEMMA Idles == ASSUME NEW p, DOMAIN p = ProcFields, p.pc \in {"list", "each", "off", "dead"}, p.work = NoWork
               PROVE  \A table : ProcOK(p, table)
BY PCSets DEF ProcOK, PCs

LEMMA BusyWork ==
  ASSUME ClaimInv, NEW o \in Owners, proc[o].pc \in BusyPCs
  PROVE  WorkTyped(Work(o)) /\ PinOK(proc[o], runs[Work(o).run])
BY DEF ClaimInv, ProcOK, PinOK, Work

(* Ends of an operation.                                                        *)
LEMMA FailKeeps ==
  ASSUME ClaimInv, NEW o \in Owners, proc[o].pc \in PreparingPCs, Fail(o) \/ Return(o), UNCHANGED <<runs, document>>
  PROVE  ClaimInv' /\ OnlyProc(o)
<1>1. CASE Return(o)
  BY <1>1, Moves, Idles, ClaimsKept DEF OnlyProc, ClaimInv
<1>2. CASE Goto(o, "rollback")
  <2>1. OnlyProc(o) /\ proc'[o].pc = "rollback" /\ proc'[o].work = Work(o)
    BY <1>2, Moves
  <2>2. PICK p : p = proc'[o]
    OBVIOUS
  <2>3. ProcOK(p, runs)
    BY <2>1, <2>2, BusyWork, PCSets, Advances DEF OnlyProc, PreparingPCs, ReportPCs, DeletePCs, BusyPCs
  <2> QED BY <2>1, <2>2, <2>3, ClaimsKept DEF ClaimInv
<1> QED BY <1>1, <1>2 DEF Fail

(* Work on the same claim.                                                       *)
SameClaim(x, w) ==
  /\ WorkTyped(x) /\ x.run = w.run /\ x.revision = w.revision /\ x.desired = w.desired
  /\ x.ownership = w.ownership /\ x.previous = w.previous /\ x.deleteRequested = w.deleteRequested

LEMMA ReportingSame ==
  ASSUME NEW w, WorkTyped(w), NEW to \in Active \cup Terminal, NEW target \in Terminal \cup {None}, NEW x,
         x = Reporting(w, to, target)
  PROVE  SameClaim(x, w) /\ x.to = to
BY DEF WorkTyped, WorkFields, Reporting, SameClaim

LEMMA FlagSame ==
  ASSUME NEW w, WorkTyped(w), NEW v, NEW x, x = [w EXCEPT !.stopped = v] \/ x = [w EXCEPT !.registered = v]
  PROVE  SameClaim(x, w) /\ x.to = w.to
BY DEF WorkTyped, WorkFields, SameClaim

LEMMA Progress ==
  ASSUME ClaimInv, NEW o \in Owners, proc[o].pc \in BusyPCs, UNCHANGED <<runs, document>>, OnlyProc(o),
         proc'[o].pc \in BusyPCs, NEW w, proc'[o].work = w, SameClaim(w, Work(o)),
         proc'[o].pc \in ReportPCs => w.to \in Active \cup Terminal,
         proc'[o].pc \in PreparingPCs => proc[o].pc \in PreparingPCs
  PROVE  ClaimInv'
<1>1. PICK p : p = proc'[o]
  OBVIOUS
<1>2. ProcOK(p, runs)
  BY <1>1, Advances DEF OnlyProc, SameClaim
<1> QED BY <1>1, <1>2, ClaimsKept DEF ClaimInv

LEMMA Returns ==
  ASSUME ClaimInv, NEW o \in Owners, UNCHANGED <<runs, document>>, Return(o)
  PROVE  ClaimInv'
BY Moves, Idles, ClaimsKept DEF OnlyProc, ClaimInv

LEMMA RejectKeeps ==
  ASSUME ClaimInv, NEW o \in Owners, proc[o].pc \in EnsurePCs, Reject(o), UNCHANGED <<runs, document>>
  PROVE  ClaimInv'
<1>1. proc[o].pc \in BusyPCs /\ proc[o].pc \in PreparingPCs
  BY PCSets DEF PreparingPCs
<1>2. CASE Fail(o)
  BY <1>1, <1>2, FailKeeps
<1>3. CASE Goto(o, "abort")
  <2>1. OnlyProc(o) /\ proc'[o].pc = "abort" /\ proc'[o].work = Work(o)
    BY <1>3, Moves
  <2>2. SameClaim(Work(o), Work(o))
    BY <1>1, BusyWork DEF SameClaim
  <2> QED BY <1>1, <2>1, <2>2, Progress DEF PreparingPCs, ReportPCs, DeletePCs, BusyPCs
<1>4. CASE proc' = [proc EXCEPT ![o].pc = "report", ![o].work = Reporting(@, "stopping", "failed")]
  <2>1. PICK w : w = Reporting(Work(o), "stopping", "failed")
    OBVIOUS
  <2>2. OnlyProc(o) /\ proc'[o].pc = "report" /\ proc'[o].work = w
    BY <1>4, <2>1, Moves DEF Work
  <2>3. SameClaim(w, Work(o)) /\ w.to = "stopping"
    <3>1. PICK v : v = Work(o) /\ WorkTyped(v)
      BY <1>1, BusyWork
    <3> QED BY <2>1, <3>1, ReportingSame DEF Active, Terminal
  <2> QED BY <1>1, <2>2, <2>3, Progress DEF BusyPCs, PreparingPCs, EnsurePCs, Active
<1> QED BY <1>2, <1>3, <1>4 DEF Reject

(* The backend's steps leave the store alone.                                       *)
LEMMA GotoKeeps ==
  ASSUME ClaimInv, NEW o \in Owners, proc[o].pc \in BusyPCs, NEW pc \in BusyPCs, Goto(o, pc),
         UNCHANGED <<runs, document>>,
         pc \in ReportPCs => proc[o].pc \in ReportPCs, pc \in PreparingPCs => proc[o].pc \in PreparingPCs
  PROVE  ClaimInv'
<1>1. OnlyProc(o) /\ proc'[o].pc = pc /\ proc'[o].work = Work(o)
  BY Moves
<1>2. PICK w : w = Work(o)
  OBVIOUS
<1>3. SameClaim(w, Work(o)) /\ (proc[o].pc \in ReportPCs => w.to \in Active \cup Terminal)
  BY <1>2, BusyWork DEF SameClaim, PinOK, Work
<1> QED BY <1>1, <1>2, <1>3, Progress

LEMMA FlagKeeps ==
  ASSUME ClaimInv, NEW o \in Owners, proc[o].pc \in PreparingPCs, NEW pc \in EnsurePCs, NEW v,
         UNCHANGED <<runs, document>>,
         \/ proc' = [proc EXCEPT ![o].pc = pc, ![o].work.stopped = v]
         \/ proc' = [proc EXCEPT ![o].pc = pc, ![o].work.registered = v]
  PROVE  ClaimInv'
<1>1. PICK w : WorkTyped(w) /\ w = Work(o)
  BY BusyWork, PCSets
<1>2. PICK x : x = proc'[o].work
  OBVIOUS
<1>3. DOMAIN proc = Owners /\ DOMAIN proc[o] = ProcFields
  BY DEF ClaimInv, ProcOK
<1>4. /\ OnlyProc(o) /\ proc'[o].pc = pc
      /\ x = [w EXCEPT !.stopped = v] \/ x = [w EXCEPT !.registered = v]
  BY <1>1, <1>2, <1>3 DEF OnlyProc, ProcFields, Work
<1>5. SameClaim(x, w)
  BY <1>1, <1>4, FlagSame
<1> QED BY <1>1, <1>2, <1>4, <1>5, PCSets, Progress DEF PreparingPCs

LEMMA ReportingKeeps ==
  ASSUME ClaimInv, NEW o \in Owners, proc[o].pc \in BusyPCs, NEW to \in Active, NEW target \in Terminal \cup {None},
         UNCHANGED <<runs, document>>,
         proc' = [proc EXCEPT ![o].pc = "report", ![o].work = Reporting(Work(o), to, target)]
  PROVE  ClaimInv'
<1>1. PICK w : WorkTyped(w) /\ w = Work(o)
  BY BusyWork
<1>2. PICK x : x = Reporting(w, to, target)
  OBVIOUS
<1>3. OnlyProc(o) /\ proc'[o].pc = "report" /\ proc'[o].work = x
  BY <1>1, <1>2, Moves
<1>4. SameClaim(x, w) /\ x.to = to
  BY <1>1, <1>2, ReportingSame
<1> QED BY <1>1, <1>3, <1>4, Progress DEF BusyPCs, PreparingPCs, EnsurePCs

Backend(o) ==
  \/ Preflight(o) \/ Upsert(o) \/ EnsureVolumes(o) \/ ComposeUp(o) \/ Observe(o) \/ Rollback(o) \/ Restore(o)
  \/ Unregister(o) \/ RemoveContainers(o) \/ RemoveVolumes(o) \/ BackendFault(o)

LEMMA BackendKeeps ==
  ASSUME ClaimInv, NEW o \in Owners, Backend(o)
  PROVE  ClaimInv' /\ UNCHANGED <<runs, document>>
<1>1. UNCHANGED <<runs, document>>
  BY DEF Backend, Preflight, Upsert, EnsureVolumes, ComposeUp, Observe, Rollback, Restore, Unregister,
         RemoveContainers, RemoveVolumes, BackendFault
<1>2. ASSUME Preflight(o) PROVE ClaimInv'
  <2>1. proc[o].pc = "preflight" /\ proc[o].pc \in EnsurePCs /\ proc[o].pc \in PreparingPCs
    BY <1>2 DEF Preflight, At, EnsurePCs, PreparingPCs
  <2>2. Reject(o) \/ proc' = [proc EXCEPT ![o].pc = "upsert", ![o].work.stopped = Rollout(Work(o))]
    BY <1>2 DEF Preflight
  <2> QED BY <1>1, <2>1, <2>2, RejectKeeps, FlagKeeps DEF EnsurePCs
<1>3. ASSUME Upsert(o) PROVE ClaimInv'
  <2>1. proc[o].pc = "upsert" /\ proc[o].pc \in EnsurePCs /\ proc[o].pc \in PreparingPCs
    BY <1>3 DEF Upsert, At, EnsurePCs, PreparingPCs
  <2>2. Reject(o) \/ proc' = [proc EXCEPT ![o].pc = "volumes", ![o].work.registered = Rollout(Work(o))]
    BY <1>3 DEF Upsert
  <2> QED BY <1>1, <2>1, <2>2, RejectKeeps, FlagKeeps DEF EnsurePCs
<1>4. ASSUME EnsureVolumes(o) \/ ComposeUp(o) PROVE ClaimInv'
  <2>1. proc[o].pc \in EnsurePCs /\ proc[o].pc \in PreparingPCs
    BY <1>4 DEF EnsureVolumes, ComposeUp, At, EnsurePCs, PreparingPCs
  <2>2. Reject(o) \/ Goto(o, "compose") \/ Goto(o, "observe")
    BY <1>4 DEF EnsureVolumes, ComposeUp
  <2>3. \A pc \in {"compose", "observe"} : pc \in BusyPCs /\ pc \notin ReportPCs
    BY DEF BusyPCs, EnsurePCs, ReportPCs, DeletePCs
  <2> QED BY <1>1, <2>1, <2>2, <2>3, PCSets, RejectKeeps, GotoKeeps
<1>5. ASSUME Observe(o) PROVE ClaimInv'
  <2>1. proc[o].pc \in BusyPCs
    BY <1>5 DEF Observe, At, BusyPCs, EnsurePCs
  <2>2. \E to \in Active, target \in Terminal \cup {None} :
          proc' = [proc EXCEPT ![o].pc = "report", ![o].work = Reporting(Work(o), to, target)]
    BY <1>5 DEF Observe, Active, Terminal, Outcomes
  <2> QED BY <1>1, <2>1, <2>2, ReportingKeeps
<1>6. ASSUME Rollback(o) PROVE ClaimInv'
  <2>1. proc[o].pc \in BusyPCs /\ proc[o].pc \in PreparingPCs /\ Goto(o, "restore")
    BY <1>6 DEF Rollback, At, BusyPCs, PreparingPCs
  <2>2. "restore" \in BusyPCs /\ "restore" \notin ReportPCs
    BY DEF BusyPCs, ReportPCs, DeletePCs
  <2> QED BY <1>1, <2>1, <2>2, GotoKeeps
<1>7. ASSUME Restore(o) PROVE ClaimInv'
  BY <1>1, <1>7, Returns DEF Restore
<1>8. ASSUME Unregister(o) \/ RemoveContainers(o) \/ RemoveVolumes(o) PROVE ClaimInv'
  <2>1. proc[o].pc \in BusyPCs /\ proc[o].pc \in ReportPCs
    BY <1>8 DEF Unregister, RemoveContainers, RemoveVolumes, At, BusyPCs, ReportPCs, DeletePCs
  <2>2. Return(o) \/ \E pc \in {"containers", "removeVolumes", "report"} : Goto(o, pc)
    BY <1>8 DEF Unregister, RemoveContainers, RemoveVolumes
  <2>3. \A pc \in {"containers", "removeVolumes", "report"} : pc \in BusyPCs /\ pc \notin PreparingPCs
    BY DEF BusyPCs, DeletePCs, PreparingPCs, EnsurePCs
  <2> QED BY <1>1, <2>1, <2>2, <2>3, Returns, GotoKeeps
<1>9. ASSUME BackendFault(o) PROVE ClaimInv'
  <2>1. CASE proc[o].pc \in EnsurePCs /\ Fail(o)
    BY <1>1, <2>1, FailKeeps DEF PreparingPCs
  <2>2. CASE Return(o)
    BY <1>1, <2>2, Returns
  <2> QED BY <1>9, <2>1, <2>2 DEF BackendFault
<1> QED BY <1>1, <1>2, <1>3, <1>4, <1>5, <1>6, <1>7, <1>8, <1>9 DEF Backend

(* Steps that use the store.                                                        *)
LEMMA TakesClaim ==
  ASSUME ClaimInv, NEW o \in Owners, NEW r \in RunIDs, Take(o, r)
  PROVE  /\ Ready /\ GoodRow(r, Swept[r]) /\ IsActive(Swept[r]) /\ Claim(r, o, Swept[r].revision)
         /\ runs' = [Swept EXCEPT ![r] = Held(Swept[r], o)] /\ GoodRow(r, runs'[r])
         /\ runs'[r].revision = Swept[r].revision + 1 /\ runs'[r].state = Swept[r].state
         /\ runs'[r].deleteRequested = Swept[r].deleteRequested
<1>1. Ready /\ Claim(r, o, Swept[r].revision) /\ IsActive(Swept[r])
  BY DEF Take, Claim, Claimable
<1>2. GoodRow(r, Swept[r])
  BY <1>1, SweptValid DEF ClaimInv, ValidRow, NoRow, IsActive, Active
<1>3. GoodRow(r, Held(Swept[r], o))
  BY <1>1, <1>2, ClaimValid
<1>4. runs' = [Swept EXCEPT ![r] = Held(Swept[r], o)] /\ r \in DOMAIN Swept
  BY <1>1 DEF Claim, Swept
<1>5. /\ Held(Swept[r], o).revision = Swept[r].revision + 1 /\ Held(Swept[r], o).state = Swept[r].state
      /\ Held(Swept[r], o).deleteRequested = Swept[r].deleteRequested
  BY <1>2 DEF Held, GoodRow, Row
<1> QED BY <1>1, <1>2, <1>3, <1>4, <1>5

LEMMA ClaimedWork ==
  ASSUME ClaimInv, NEW o \in Owners, NEW r \in RunIDs, Take(o, r), NEW w, w = Claimed(o, r)
  PROVE  /\ WorkTyped(w) /\ w.run = r /\ w.revision = Swept[r].revision + 1 /\ w.ownership = Swept[r].ownership
         /\ w.deleteRequested = Swept[r].deleteRequested
         /\ w.desired = IF Swept[r].pending # None THEN Swept[r].pending ELSE Swept[r].snapshot
<1>1. PICK row : row = Swept[r] /\ GoodRow(r, row)
  BY TakesClaim
<1>2. /\ row.revision \in Nat /\ row.snapshot \in Snapshots /\ row.pending \in Snapshots \cup {None}
      /\ row.ownership \in Known /\ row.deleteRequested \in BOOLEAN
  BY <1>1 DEF GoodRow, Row, validateStoredRun, Known
<1>3. w = [NoWork EXCEPT !.run = r, !.revision = row.revision + 1,
             !.desired = IF row.pending # None THEN row.pending ELSE row.snapshot, !.ownership = row.ownership,
             !.previous = IF row.pending # None THEN row.snapshot ELSE None,
             !.deleteRequested = row.deleteRequested]
  BY <1>1 DEF Claimed
<1>4. /\ w.run = r /\ w.revision = row.revision + 1 /\ w.ownership = row.ownership
      /\ w.desired = IF row.pending # None THEN row.pending ELSE row.snapshot
      /\ w.previous = IF row.pending # None THEN row.snapshot ELSE None
      /\ w.deleteRequested = row.deleteRequested /\ w.to = None /\ w.target = None /\ DOMAIN w = WorkFields
  BY <1>3 DEF NoWork, WorkFields
<1> QED BY <1>1, <1>2, <1>4 DEF WorkTyped, Known

LEMMA Enters ==
  ASSUME ClaimInv, NEW o \in Owners, NEW r, NEW pc, NEW w, Enter(o, r, pc, w)
  PROVE  OnlyProc(o) /\ proc'[o].pc = pc /\ proc'[o].work = w
<1>1. DOMAIN proc = Owners /\ DOMAIN proc[o] = ProcFields
  BY DEF ClaimInv, ProcOK
<1> QED BY <1>1 DEF Enter, Drop, OnlyProc, ProcFields

(* Where a claim leads.                                                            *)
TakenTo(o, row, w) ==
  \/ proc'[o].pc = "report" /\ \E to \in Active, target \in Terminal \cup {None} :
                                  proc'[o].work = Reporting(w, to, target)
  \/ proc'[o].pc = "preflight" /\ proc'[o].work = w /\ row.state = "preparing"
  \/ proc'[o].pc = "unregister" /\ row.state = "stopping" /\ proc'[o].work = Reporting(w, row.target, None)

LEMMA TakeLeads ==
  ASSUME ClaimInv, NEW o \in Owners, NEW r \in RunIDs, Take(o, r)
  PROVE  OnlyProc(o) /\ TakenTo(o, Swept[r], Claimed(o, r))
<1>1. PICK w : w = Claimed(o, r)
  OBVIOUS
<1>2. PICK pc, x :
        /\ Enter(o, r, pc, x)
        /\ \/ pc = "report" /\ \E to \in Active, target \in Terminal \cup {None} : x = Reporting(w, to, target)
           \/ pc = "preflight" /\ x = w /\ Swept[r].state = "preparing"
           \/ pc = "unregister" /\ Swept[r].state = "stopping" /\ x = Reporting(w, Swept[r].target, None)
  BY <1>1 DEF Take, Outcomes, Active, Terminal
<1> QED BY <1>1, <1>2, Enters DEF TakenTo

LEMMA TakeKeeps ==
  ASSUME ClaimInv, NEW o \in Owners, NEW r \in RunIDs, Take(o, r)
  PROVE  ClaimInv' /\ [Next]_runs
<1>1. Next
  BY TakesClaim DEF Next
<1>2. PICK w : /\ w = Claimed(o, r) /\ WorkTyped(w) /\ w.run = r /\ w.revision = Swept[r].revision + 1
               /\ w.deleteRequested = Swept[r].deleteRequested
  BY ClaimedWork
<1>3. PICK row : row = Swept[r] /\ GoodRow(r, row)
  BY TakesClaim
<1>4. PICK p : p = proc'[o] /\ DOMAIN p = ProcFields
  BY TakeLeads DEF OnlyProc
<1>5. row.state = "stopping" => row.target \in Terminal
  BY <1>3 DEF GoodRow, validateStoredRun
<1>6. /\ SameClaim(p.work, w) /\ p.pc \in BusyPCs
      /\ p.pc \in ReportPCs => p.work.to \in Active \cup Terminal
      /\ p.pc \in PreparingPCs => row.state = "preparing"
  <2>1. CASE p.pc = "report" /\ \E to \in Active, target \in Terminal \cup {None} : p.work = Reporting(w, to, target)
    BY <1>2, <2>1, ReportingSame DEF BusyPCs, PreparingPCs, EnsurePCs
  <2>2. CASE p.pc = "preflight" /\ p.work = w /\ row.state = "preparing"
    BY <1>2, <2>2 DEF SameClaim, BusyPCs, EnsurePCs, ReportPCs, DeletePCs
  <2>3. CASE p.pc = "unregister" /\ row.state = "stopping" /\ p.work = Reporting(w, row.target, None)
    BY <1>2, <1>5, <2>3, ReportingSame DEF BusyPCs, DeletePCs, PreparingPCs, EnsurePCs
  <2> QED BY <1>2, <1>3, <1>4, <2>1, <2>2, <2>3, TakeLeads DEF TakenTo
<1>7. PICK new : /\ new = runs'[r] /\ new.revision = row.revision + 1 /\ new.state = row.state
                 /\ new.deleteRequested = row.deleteRequested /\ new.revision \in Nat
  BY <1>3, TakesClaim DEF GoodRow, Row
<1>8. PinOK(p, new) /\ p.work.run = r
  BY <1>2, <1>3, <1>6, <1>7 DEF PinOK, SameClaim
<1>9. ProcOK(p, runs')
  BY <1>4, <1>6, <1>7, <1>8, PCSets DEF ProcOK
<1>10. document' = document
  BY DEF Take
<1> QED BY <1>1, <1>4, <1>9, <1>10, TakeLeads, ClaimsKept DEF ClaimInv

(* The status report of a live claim is one that the API allows.                      *)
LEMMA ReportIsReport ==
  ASSUME ClaimInv, NEW o \in Owners, ReportStatus(o)
  PROVE  [Next]_runs /\ OnlyProc(o) /\ proc'[o].pc = "each" /\ proc'[o].work = NoWork
<1>1. PICK w : /\ w = Work(o) /\ WorkTyped(w) /\ w.to \in Active \cup Terminal /\ proc[o].pc = "report"
  BY BusyWork DEF ReportStatus, At, BusyPCs, PinOK, ReportPCs, Work
<1>2. DOMAIN proc = Owners /\ DOMAIN proc[o] = ProcFields
  BY DEF ClaimInv, ProcOK
<1>3. CASE Reportable(Swept[w.run], o, w.revision, w.to, w.target, None)
  <2>1. UpdateStatus(w.run, o, w.revision, w.to, w.target, "other", None) /\ Return(o)
    BY <1>1, <1>3 DEF ReportStatus
  <2>2. w.revision = Swept[w.run].revision
    BY <1>3 DEF Reportable
  <2>3. Report(w.run, o)
    BY <1>1, <2>1, <2>2 DEF Report, WorkTyped, Reasons
  <2>4. w.run \in RunIDs
    BY <1>1 DEF WorkTyped
  <2>5. Next
    BY <2>3, <2>4 DEF Next
  <2> QED BY <2>1, <2>5, Moves
<1>4. CASE ~Reportable(Swept[w.run], o, w.revision, w.to, w.target, None)
  <2>1. Sweep /\ proc' = [proc EXCEPT ![o] = [Refused(@) EXCEPT !.pc = "each", !.work = NoWork]]
    BY <1>1, <1>4 DEF ReportStatus, Sweep
  <2>2. OnlyProc(o) /\ proc'[o].pc = "each" /\ proc'[o].work = NoWork
    BY <1>2, <2>1 DEF OnlyProc, Refused, ProcFields
  <2> QED BY <2>1, <2>2 DEF Next
<1> QED BY <1>3, <1>4

(* A rollout is only given up for the run that was claimed for it.                     *)
LEMMA AbortIsAbort ==
  ASSUME ClaimInv, NEW o \in Owners, Abort(o)
  PROVE  [Next]_runs /\ OnlyProc(o) /\ proc'[o].pc = "each" /\ proc'[o].work = NoWork
<1>1. PICK w : w = Work(o) /\ WorkTyped(w) /\ PinOK(proc[o], runs[w.run]) /\ proc[o].pc = "abort"
  BY BusyWork DEF Abort, At, BusyPCs
<1>2. Return(o)
  BY DEF Abort
<1>3. CASE UNCHANGED runs
  BY <1>2, <1>3, Moves
<1>4. CASE runs[w.run].revision = w.revision /\ abortPendingConfiguration(w.run, o, w.revision)
  <2>1. runs[w.run].state = "preparing"
    BY <1>1, <1>4 DEF PinOK, PreparingPCs, Work
  <2>2. AbortRollout(w.run, o) /\ w.run \in RunIDs
    BY <1>1, <1>4, <2>1 DEF AbortRollout, WorkTyped
  <2>3. Next
    BY <2>2 DEF Next
  <2> QED BY <1>2, <2>3, Moves
<1> QED BY <1>1, <1>3, <1>4 DEF Abort

(* A process between two operations, born or dead.                                    *)
Pauses(o) ==
  \/ Start(o) \/ Crash(o) \/ List(o) \/ NextPass(o) \/ (\E r \in RunIDs : Healthy(o, r) \/ Skip(o, r))
  \/ ReportStatus(o) \/ Abort(o)

LEMMA PausesKeep ==
  ASSUME ClaimInv, NEW o \in Owners, Pauses(o)
  PROVE  /\ [Next]_runs /\ OnlyProc(o) /\ document' = document /\ ClaimInv'
         /\ proc'[o].pc \in {"list", "each", "dead"} /\ proc'[o].work = NoWork
<1>1. DOMAIN proc = Owners /\ DOMAIN proc[o] = ProcFields /\ proc[o].pc \in PCs
  BY DEF ClaimInv, ProcOK
<1>2. proc[o].pc \notin BusyPCs => proc[o].work = NoWork
  BY DEF ClaimInv, ProcOK
<1>3. document' = document
  BY DEF Pauses, Start, Crash, List, NextPass, Healthy, Skip, ReportStatus, Abort
<1> DEFINE Settles == OnlyProc(o) /\ proc'[o].pc \in {"list", "each", "dead"} /\ proc'[o].work = NoWork
<1>4. ASSUME Start(o) PROVE [Next]_runs /\ Settles
  <2>1. UNCHANGED runs \/ Boot(document)
    BY <1>4 DEF Start, Boot
  <2>2. [Next]_runs
    BY <2>1 DEF Next, ClaimInv
  <2>3. proc[o].pc \notin BusyPCs /\ proc' = [proc EXCEPT ![o].pc = "list"]
    BY <1>4 DEF Start, BusyPCs, EnsurePCs, DeletePCs
  <2> QED BY <1>1, <1>2, <2>2, <2>3 DEF OnlyProc, ProcFields
<1>5. ASSUME Crash(o) PROVE [Next]_runs /\ Settles
  <2>1. UNCHANGED runs /\ proc' = [proc EXCEPT ![o] = [Unborn EXCEPT !.pc = "dead"]]
    BY <1>5 DEF Crash
  <2> QED BY <1>1, <2>1 DEF OnlyProc, ProcFields, Unborn
<1>6. ASSUME List(o) PROVE [Next]_runs /\ Settles
  <2>1. Next
    BY <1>6 DEF List, Sweep, Next
  <2>2. proc[o].pc \notin BusyPCs
    BY <1>6 DEF List, BusyPCs, EnsurePCs, DeletePCs
  <2>3. Settles
    BY <1>1, <1>2, <1>6, <2>2 DEF List, OnlyProc, ProcFields
  <2> QED BY <2>1, <2>3
<1>7. ASSUME NextPass(o) PROVE [Next]_runs /\ Settles
  <2>1. proc[o].pc \notin BusyPCs /\ UNCHANGED runs
    BY <1>7 DEF NextPass, BusyPCs, EnsurePCs, DeletePCs
  <2>2. \E pass : proc' = [proc EXCEPT ![o].pc = "list", ![o].pass = pass]
    BY <1>7 DEF NextPass
  <2> QED BY <1>1, <1>2, <2>1, <2>2 DEF OnlyProc, ProcFields
<1>8. ASSUME NEW r \in RunIDs, Healthy(o, r) \/ Skip(o, r) PROVE [Next]_runs /\ Settles
  <2>1. proc[o].pc = "each" /\ proc[o].pc \notin BusyPCs
    BY <1>8 DEF Healthy, Skip, BusyPCs, EnsurePCs, DeletePCs
  <2>2. UNCHANGED runs \/ Sweep
    BY <1>8 DEF Healthy, Skip, Sweep
  <2>3. proc' = [proc EXCEPT ![o] = Drop(o, r)] \/ proc' = [proc EXCEPT ![o] = Refused(Drop(o, r))]
    BY <1>8 DEF Healthy, Skip
  <2>4. Settles
    BY <1>1, <1>2, <2>1, <2>3 DEF Drop, Refused, OnlyProc, ProcFields
  <2> QED BY <2>2, <2>4 DEF Next
<1>9. ASSUME ReportStatus(o) \/ Abort(o) PROVE [Next]_runs /\ Settles
  BY <1>9, ReportIsReport, AbortIsAbort
<1>10. [Next]_runs /\ Settles
  BY <1>4, <1>5, <1>6, <1>7, <1>8, <1>9 DEF Pauses
<1>11. ProcOK(proc'[o], runs')
  BY <1>10, Idles DEF OnlyProc
<1> QED BY <1>3, <1>10, <1>11, ClaimsKept DEF ClaimInv

(* Users, time and the containers themselves.                                         *)
Outside == (\E r \in RunIDs : RuntimeExits(r)) \/ Call \/ Edit \/ Clock \/ PeriodicSweep

LEMMA OutsideKeeps ==
  ASSUME ClaimInv, Outside
  PROVE  [Next]_runs /\ ClaimInv' /\ proc' = proc
<1>1. proc' = proc
  BY DEF Outside, RuntimeExits, Call, Edit, Clock, PeriodicSweep, controllerVars
<1>2. document' \in Inventories
  BY DEF ClaimInv, Outside, RuntimeExits, Call, Edit, Clock, PeriodicSweep, controllerVars
<1>3. CASE Call
  <2>1. ASSUME \E c \in Requests : Create(c) PROVE Next
    BY <2>1 DEF Next
  <2>2. ASSUME \E r \in RunIDs : Cancel(r) PROVE Next
    BY <2>2 DEF Next
  <2>3. ASSUME NEW r \in RunIDs, DeleteCall(r) PROVE Next
    BY <2>3 DEF DeleteCall, Sweep, Next
  <2>4. Next
    BY <1>3, <2>1, <2>2, <2>3 DEF Call
  <2> QED BY <1>1, <1>2, <2>4, NoProcess
<1>4. CASE Clock \/ PeriodicSweep
  <2>1. Next
    BY <1>4 DEF Clock, PeriodicSweep, TimePasses, Next
  <2> QED BY <1>1, <1>2, <2>1, NoProcess
<1>5. CASE (\E r \in RunIDs : RuntimeExits(r)) \/ Edit
  BY <1>1, <1>2, <1>5, NoProcess DEF RuntimeExits, Edit
<1> QED BY <1>3, <1>4, <1>5 DEF Outside

LEMMA Cases ==
  ASSUME ControllerNext
  PROVE  \/ \E o \in Owners : Pauses(o) \/ Backend(o) \/ \E r \in RunIDs : Take(o, r)
         \/ Outside
BY DEF ControllerNext, Step, Pauses, Backend, Outside

LEMMA StepKeepsClaims ==
  ASSUME ClaimInv, [ControllerNext]_vars
  PROVE  [Next]_runs /\ ClaimInv'
<1>1. CASE UNCHANGED vars
  BY <1>1, NoProcess DEF vars, controllerVars, ClaimInv
<1>2. CASE ControllerNext
  BY <1>2, Cases, PausesKeep, BackendKeeps, TakeKeeps, OutsideKeeps
<1> QED BY <1>1, <1>2

LEMMA InitClaims == ControllerInit => ClaimInv
<1> SUFFICES ASSUME ControllerInit PROVE ClaimInv
  OBVIOUS
<1>1. TableInv
  BY InitInv DEF ControllerInit
<1>2. DOMAIN Unborn = ProcFields /\ Unborn.pc = "off" /\ Unborn.work = NoWork
  BY DEF Unborn, ProcFields
<1>3. \A o \in Owners : ProcOK(proc[o], runs)
  BY <1>2, Idles DEF ControllerInit
<1> QED BY <1>1, <1>3 DEF ClaimInv, ControllerInit

LEMMA ClaimsInvariant == ControllerSpec => []ClaimInv
<1>1. ClaimInv /\ [ControllerNext]_vars => ClaimInv'
  BY StepKeepsClaims
<1> QED BY <1>1, InitClaims, PTL DEF ControllerSpec

(* The controller uses the store like any caller of its API, however many processes      *)
(* run: it implements LocalRunAPI, with the variable of the store as it is.  In             *)
(* particular a rollout is only given up while its claim still pins the row that was         *)
(* claimed (reconcileRun, AbortPendingConfiguration).                                  *)
THEOREM ControllerImplementsAPI == ControllerSpec => Spec
<1>1. ControllerInit => Init
  BY DEF ControllerInit
<1>2. ClaimInv /\ [ControllerNext]_vars => [Next]_runs
  BY StepKeepsClaims
<1> QED BY <1>1, <1>2, ClaimsInvariant, PTL DEF ControllerSpec, Spec
-----------------------------------------------------------------------------
USE DEF Active, Terminal, IsActive, IsTerminal

(* What others may do to a row.  Nobody but a status report ends a run, gives a row     *)
(* another owner of volumes or takes a deletion back.                               *)
Keeps(row, new) ==
  /\ row.state # "absent" => new.state # "absent" /\ new.ownership = row.ownership
  /\ IsTerminal(new) => IsTerminal(row)
  /\ new.deleted => row.deleted

(* And nobody but a start-up gives an active one another snapshot.                     *)
Calm(row, new) ==
  IsActive(row) => /\ IsActive(new) /\ new.snapshot = row.snapshot
                   /\ row.deleteRequested => new.deleteRequested

(* An accepted deletion, unless the run is being replaced.                            *)
Dooms(row, new) ==
  Doomed(row) /\ row.reason # Replacement => Doomed(new) /\ new.reason # Replacement

LEMMA KeepsOn ==
  ASSUME NEW a, NEW b, NEW c
  PROVE  /\ Keeps(a, b) /\ Keeps(b, c) => Keeps(a, c)
         /\ Calm(a, b) /\ Calm(b, c) => Calm(a, c)
         /\ Dooms(a, b) /\ Dooms(b, c) => Dooms(a, c)
         /\ Keeps(a, a) /\ Calm(a, a) /\ Dooms(a, a)
BY DEF Keeps, Calm, Dooms

LEMMA SweepKeeps ==
  ASSUME NEW r \in RunIDs, NEW row, ValidRow(r, row)
  PROVE  Keeps(row, sweepTx(row)) /\ Calm(row, sweepTx(row)) /\ Dooms(row, sweepTx(row))
<1>1. CASE row = NoRow
  BY <1>1, KeepsOn DEF sweepTx, DeadlineDue, RetentionDue, NoRow
<1>2. CASE GoodRow(r, row) /\ DeadlineDue(row)
  <2>1. PICK new : new = sweepTx(row)
    OBVIOUS
  <2>2. /\ new.state = "stopping" /\ new.ownership = row.ownership /\ new.snapshot = row.snapshot
        /\ new.deleted = row.deleted /\ new.deleteRequested = row.deleteRequested
    BY <1>2, <2>1 DEF sweepTx, Overdue, Released, GoodRow, Row
  <2>3. ~Doomed(row)
    BY <1>2 DEF DeadlineDue, Doomed
  <2> QED BY <2>1, <2>2, <2>3 DEF Keeps, Calm, Dooms
<1>3. CASE GoodRow(r, row) /\ ~DeadlineDue(row) /\ RetentionDue(row)
  <2>1. PICK new : new = sweepTx(row)
    OBVIOUS
  <2>2. new.state = "stopping" /\ new.ownership = row.ownership /\ new.deleted = row.deleted
    BY <1>3, <2>1 DEF sweepTx, Retired, GoodRow, Row
  <2>3. ~Doomed(row) /\ ~IsActive(row) /\ row.state # "absent"
    BY <1>3 DEF RetentionDue, Doomed, GoodRow, validateStoredRun
  <2> QED BY <2>1, <2>2, <2>3 DEF Keeps, Calm, Dooms
<1>4. CASE ~DeadlineDue(row) /\ ~RetentionDue(row)
  BY <1>4, KeepsOn DEF sweepTx
<1> QED BY <1>1, <1>2, <1>3, <1>4 DEF ValidRow

(* The rewrites of createBatch.                                                      *)
LEMMA Rewritten ==
  ASSUME NEW row \in Row, NEW s
  PROVE  /\ Staged(row, s).state = "preparing" /\ Staged(row, s).ownership = row.ownership
         /\ Staged(row, s).snapshot = row.snapshot /\ Staged(row, s).deleted = row.deleted
         /\ Staged(row, s).deleteRequested = row.deleteRequested
         /\ Restarted(row, s).state = "pending" /\ Restarted(row, s).ownership = row.ownership
         /\ Restarted(row, s).deleted = row.deleted
         /\ Replacing(row, s).state = "stopping" /\ Replacing(row, s).ownership = row.ownership
         /\ Replacing(row, s).deleted = row.deleted
         /\ PrunedRow(row).state = "stopping" /\ PrunedRow(row).ownership = row.ownership
         /\ PrunedRow(row).deleted = row.deleted
BY DEF Staged, Restarted, Replacing, PrunedRow, Released, Row

(* What a verdict says of the stored row.                                            *)
Judgement(row, c, v, reclaim, replace) ==
  /\ v = "new" => row.state = "absent"
  /\ v # "new" => row.key = c.key /\ ~row.deleted
  /\ v \in {"restart", "restartUpdate"} => reclaim /\ IsTerminal(row)
  /\ v \in {"replace", "terminalReplace"} => replace /\ ~row.deleteRequested
  /\ v = "terminalReplace" => IsTerminal(row)
  /\ v = "replace" => ~IsTerminal(row)
  /\ v = "update" => ~row.deleteRequested /\ Executing(row)
  /\ v = "cancel" => row.pending # None
  /\ v \in {"new", "restart", "restartUpdate", "replace", "terminalReplace", "update", "cancel", "replay"}

LEMMA Judged ==
  ASSUME NEW table, NEW c, NEW reclaim \in BOOLEAN, NEW replace \in BOOLEAN, NEW row, row = table[RunOf[c.snapshot]],
         NEW v, v = Verdict(table, c, reclaim, replace), v # "refused"
  PROVE  Judgement(row, c, v, reclaim, replace)
<1> DEFINE unknown == \A q \in RunIDs : table[q].key # c.key
           barred == \/ row.key # c.key \/ row.deleted
                     \/ (row.snapshot # c.snapshot \/ row.pending # None) /\ row.lease = "ahead"
           same == row.snapshot = c.snapshot
           compatible == workstationUpdateCompatible(row.snapshot, c.snapshot) /\ ~row.deleteRequested
           kept == ~replace \/ row.deleteRequested
           reclaimed == reclaim /\ row.state \in {"completed", "failed"}
           unready == row.state # "running" /\ ~(row.state = "preparing" /\ row.pending # None)
           staged == row.pending = c.snapshot
           waiting == row.pending # None
<1>1. v = IF unknown THEN IF row.state = "absent" THEN "new" ELSE "refused"
          ELSE IF barred THEN "refused"
          ELSE IF ~same /\ ~compatible
          THEN IF kept THEN "refused" ELSE IF IsTerminal(row) THEN "terminalReplace" ELSE "replace"
          ELSE IF ~same
          THEN IF reclaimed THEN "restartUpdate"
               ELSE IF unready THEN "refused"
               ELSE IF ~staged THEN "update" ELSE "replay"
          ELSE IF waiting THEN "cancel"
          ELSE IF reclaimed THEN "restart" ELSE "replay"
  BY Zenon DEF Verdict
<1>2. /\ reclaimed => reclaim /\ IsTerminal(row)
      /\ compatible \/ ~kept => ~row.deleteRequested
      /\ ~kept => replace
      /\ ~unready => Executing(row)
      /\ ~barred => row.key = c.key /\ ~row.deleted
  BY DEF Executing
<1> HIDE DEF unknown, barred, compatible, kept, reclaimed, unready, staged
<1>3. CASE unknown
  BY <1>1, <1>3 DEF Judgement
<1>4. CASE ~unknown
  <2>1. ~barred
    BY <1>1, <1>4
  <2>2. CASE ~same /\ ~compatible
    BY <1>1, <1>2, <1>4, <2>1, <2>2 DEF Judgement
  <2>3. CASE ~same /\ compatible
    BY <1>1, <1>2, <1>4, <2>1, <2>3 DEF Judgement
  <2>4. CASE same
    BY <1>1, <1>2, <1>4, <2>1, <2>4 DEF Judgement
  <2> QED BY <2>2, <2>3, <2>4
<1> QED BY <1>3, <1>4

LEMMA AmendedKeeps ==
  ASSUME NEW table, NEW c \in Candidate, NEW reclaim \in BOOLEAN, NEW replace \in BOOLEAN,
         NEW r, r = RunOf[c.snapshot], NEW row, row = table[r], ValidRow(r, row),
         NEW v, v = Verdict(table, c, reclaim, replace), v # "refused", NEW new, new = Amended(row, c, v)
  PROVE  Keeps(row, new) /\ Dooms(row, new) /\ (~reclaim /\ ~replace => Calm(row, new))
<1>1. row \in Row
  BY NoRowTyped DEF ValidRow, GoodRow
<1>0. Judgement(row, c, v, reclaim, replace)
  BY Judged
<1> USE DEF Judgement
<1>2. CASE v = "new"
  <2>1. row.state = "absent" /\ row = NoRow
    BY <1>2, <1>0 DEF ValidRow, GoodRow
  <2>2. new.state = "pending" /\ new.deleted = FALSE
    BY <1>2 DEF Amended, InsertedRow, NoRow
  <2> QED BY <2>1, <2>2 DEF Keeps, Dooms, Calm, Doomed, NoRow
<1>3. CASE v # "new"
  <2>1. row.state # "absent" /\ ~row.deleted
    <3>1. row.key = c.key /\ ~row.deleted
      BY <1>3, <1>0
    <3>2. c.key # None
      BY StoreConstants DEF Candidate
    <3>3. row # NoRow
      BY <3>1, <3>2 DEF NoRow
    <3> QED BY <3>1, <3>3 DEF ValidRow, GoodRow
  <2>2. GoodRow(r, row)
    BY <2>1 DEF ValidRow, NoRow
  <2>3. CASE v = "replay"
    BY <2>3, KeepsOn DEF Amended
  <2>4. CASE v = "update" \/ v = "cancel"
    <3>1. PICK s : new = Staged(row, s)
      BY <2>4 DEF Amended
    <3>2. ~Doomed(row) \/ row.reason = Replacement
      BY <1>0, <2>2, <2>4 DEF Doomed, GoodRow, validateStoredRun
    <3> QED BY <1>1, <3>1, <3>2, <2>1, Rewritten DEF Keeps, Dooms, Calm
  <2>5. CASE v = "restart" \/ v = "restartUpdate"
    <3>1. PICK s : new = Restarted(row, s)
      BY <2>5 DEF Amended
    <3>2. reclaim /\ IsTerminal(row)
      BY <2>5, <1>0
    <3>3. ~Doomed(row)
      BY <2>1, <2>2, <2>5, <3>2 DEF Doomed, GoodRow, validateStoredRun
    <3> QED BY <1>1, <3>1, <3>2, <3>3, <2>1, Rewritten DEF Keeps, Dooms, Calm
  <2>6. CASE v = "replace" \/ v = "terminalReplace"
    <3>1. new = Replacing(row, c.snapshot)
      BY <2>6 DEF Amended
    <3>2. replace /\ ~row.deleteRequested
      BY <2>6, <1>0
    <3> QED BY <1>1, <3>1, <3>2, <2>1, Rewritten DEF Keeps, Dooms, Calm, Doomed
  <2> QED BY <1>3, <2>3, <2>4, <2>5, <2>6, <1>0
<1> QED BY <1>2, <1>3

LEMMA PrunedKeeps ==
  ASSUME NEW r, NEW row, GoodRow(r, row), ~row.deleteRequested
  PROVE  Keeps(row, PrunedRow(row)) /\ Dooms(row, PrunedRow(row))
<1>1. row \in Row /\ row.state # "absent"
  BY DEF GoodRow
<1> QED BY <1>1, Rewritten DEF Keeps, Dooms, Doomed

LEMMA BatchKeeps ==
  ASSUME TableInv, Ready, NEW batch \in SUBSET Candidate,
         NEW reclaim \in BOOLEAN, NEW prune \in BOOLEAN, NEW replace \in BOOLEAN, NEW acknowledged \in BOOLEAN,
         createBatch(Swept, batch, reclaim, prune, replace, acknowledged), NEW r \in RunIDs
  PROVE  /\ Keeps(runs[r], runs'[r]) /\ Dooms(runs[r], runs'[r])
         /\ ~reclaim /\ ~replace /\ ~prune => Calm(runs[r], runs'[r])
<1> DEFINE verdict(c) == Verdict(Swept, c, reclaim, replace)
           pruned == IF prune THEN Prunable(Swept, batch) ELSE {}
           mine == CHOOSE d \in batch : RunOf[d.snapshot] = r
<1>1. runs'[r] = IF \E c \in batch : RunOf[c.snapshot] = r
                 THEN Amended(Swept[r], mine, verdict(mine))
                 ELSE IF r \in pruned THEN PrunedRow(Swept[r]) ELSE Swept[r]
  BY DEF createBatch
<1>2. \A c \in batch : verdict(c) # "refused"
  BY DEF createBatch
<1>3. PICK row : row = Swept[r] /\ ValidRow(r, row)
  BY SweptValid
<1>4. Keeps(runs[r], row) /\ Calm(runs[r], row) /\ Dooms(runs[r], row)
  BY <1>3, ReadyValid, SweepKeeps DEF Swept
<1>5. PICK new : new = runs'[r]
  OBVIOUS
<1>6. Keeps(row, new) /\ Dooms(row, new) /\ (~reclaim /\ ~replace /\ ~prune => Calm(row, new))
  <2>1. CASE \E c \in batch : RunOf[c.snapshot] = r
    <3>1. PICK c \in batch : c = mine /\ RunOf[c.snapshot] = r
      BY <2>1
    <3>2. PICK v : v = verdict(c) /\ v # "refused"
      BY <1>2
    <3>3. new = Amended(row, c, v)
      BY <1>1, <1>3, <1>5, <2>1, <3>1, <3>2
    <3> HIDE DEF mine
    <3>4. c \in Candidate /\ row = Swept[RunOf[c.snapshot]] /\ v = Verdict(Swept, c, reclaim, replace)
      BY <1>3, <3>1, <3>2
    <3> QED BY <1>3, <3>1, <3>2, <3>3, <3>4, AmendedKeeps
  <2>2. CASE ~(\E c \in batch : RunOf[c.snapshot] = r) /\ r \in pruned
    <3>1. Visible(row) /\ ~row.deleteRequested /\ prune /\ new = PrunedRow(row)
      BY <1>1, <1>3, <1>5, <2>2 DEF Prunable
    <3>2. GoodRow(r, row)
      BY <1>3, <3>1 DEF ValidRow, NoRow, Visible
    <3> QED BY <3>1, <3>2, PrunedKeeps
  <2>3. CASE ~(\E c \in batch : RunOf[c.snapshot] = r) /\ r \notin pruned
    BY <1>1, <1>3, <1>5, <2>3, KeepsOn
  <2> QED BY <2>1, <2>2, <2>3
<1> QED BY <1>4, <1>5, <1>6, KeepsOn

(* An operation that sweeps and then rewrites one row.                                *)
LEMMA OneRowKeeps ==
  ASSUME TableInv, Ready, NEW r \in RunIDs, NEW new, runs' = [Swept EXCEPT ![r] = new], NEW q \in RunIDs
  PROVE  /\ q # r \/ Keeps(Swept[r], new) => Keeps(runs[q], runs'[q])
         /\ q # r \/ Calm(Swept[r], new) => Calm(runs[q], runs'[q])
         /\ q # r \/ Dooms(Swept[r], new) => Dooms(runs[q], runs'[q])
<1>1. PICK row, mid, next : row = runs[q] /\ mid = Swept[q] /\ next = runs'[q]
  OBVIOUS
<1>2. Keeps(row, mid) /\ Calm(row, mid) /\ Dooms(row, mid)
  BY <1>1, ReadyValid, SweepKeeps DEF Swept
<1>3. next = IF q = r THEN new ELSE mid
  BY <1>1 DEF Swept
<1> QED BY <1>1, <1>2, <1>3, KeepsOn

LEMMA StopKeeps ==
  ASSUME NEW r, NEW row, GoodRow(r, row), ~row.deleted, NEW del \in BOOLEAN, NEW new, new = StopRow(row, del)
  PROVE  /\ Keeps(row, new) /\ Calm(row, new) /\ Dooms(row, new)
         /\ del => Doomed(new)
<1>1. row \in Row /\ row.state # "absent" /\ (IsTerminal(row) => ~row.deleteRequested)
  BY DEF GoodRow, validateStoredRun
<1>2. CASE IsTerminal(row)
  <2>1. /\ new.state = "stopping" /\ new.ownership = row.ownership /\ new.deleted = row.deleted
        /\ new.deleteRequested = TRUE
    BY <1>1, <1>2 DEF StopRow, Retired, Row
  <2> QED BY <1>1, <1>2, <2>1 DEF Keeps, Calm, Dooms, Doomed
<1>3. CASE ~IsTerminal(row)
  <2>1. /\ new.state = "stopping" /\ new.ownership = row.ownership /\ new.deleted = row.deleted
        /\ new.deleteRequested = (del \/ row.deleteRequested) /\ new.snapshot = row.snapshot /\ new.reason = "other"
    BY <1>1, <1>3 DEF StopRow, Stopped, Released, Row
  <2> QED BY <1>1, <1>3, <2>1 DEF Keeps, Calm, Dooms, Doomed, Replacement
<1> QED BY <1>2, <1>3

LEMMA HeldKeeps ==
  ASSUME NEW row \in Row, NEW o, NEW new, new = Held(row, o)
  PROVE  Keeps(row, new) /\ Calm(row, new) /\ Dooms(row, new) /\ new.ownership = row.ownership
         /\ new.snapshot = row.snapshot
<1>1. /\ new.state = row.state /\ new.ownership = row.ownership /\ new.deleted = row.deleted
      /\ new.snapshot = row.snapshot /\ new.deleteRequested = row.deleteRequested /\ new.reason = row.reason
  BY DEF Held, Row
<1> QED BY <1>1 DEF Keeps, Calm, Dooms, Doomed

LEMMA AgeKeeps ==
  ASSUME TableInv, TimePasses, NEW q \in RunIDs
  PROVE  Keeps(runs[q], runs'[q]) /\ Calm(runs[q], runs'[q]) /\ Dooms(runs[q], runs'[q])
<1>1. PICK r \in RunIDs : DeadlinePasses(r) \/ RetentionPasses(r) \/ LeasePasses(r)
  BY DEF TimePasses
<1>2. PICK row, new : row = runs[q] /\ new = runs'[q] /\ row \in Row
  BY DEF TableInv
<1>3. /\ new.state = row.state /\ new.ownership = row.ownership /\ new.deleted = row.deleted
      /\ new.snapshot = row.snapshot /\ new.deleteRequested = row.deleteRequested /\ new.reason = row.reason
  BY <1>1, <1>2 DEF TableInv, DeadlinePasses, RetentionPasses, LeasePasses, Row
<1> QED BY <1>2, <1>3 DEF Keeps, Calm, Dooms, Doomed

(* One step of a caller that does all of that.                                       *)
Mild == \A r \in RunIDs : /\ Keeps(runs[r], runs'[r]) /\ Calm(runs[r], runs'[r])
                          /\ Dooms(runs[r], runs'[r])

LEMMA SweepMild == ASSUME TableInv, Sweep PROVE Mild
<1> SUFFICES ASSUME NEW r \in RunIDs
             PROVE  Keeps(runs[r], runs'[r]) /\ Calm(runs[r], runs'[r]) /\ Dooms(runs[r], runs'[r])
  BY DEF Mild
<1>1. ValidRow(r, runs[r]) /\ runs'[r] = sweepTx(runs[r])
  BY ReadyValid DEF Sweep, Swept
<1> QED BY <1>1, SweepKeeps

LEMMA SameMild == ASSUME runs' = runs PROVE Mild
BY KeepsOn DEF Mild

LEMMA StopMild ==
  ASSUME TableInv, NEW r \in RunIDs, NEW del \in BOOLEAN, requestStop(r, del)
  PROVE  Mild /\ (del => Doomed(runs'[r]))
<1>1. PICK row : row = Swept[r] /\ ValidRow(r, row)
  BY SweptValid DEF requestStop
<1>2. GoodRow(r, row) /\ ~row.deleted /\ Ready
  BY <1>1 DEF requestStop, Visible, ValidRow, NoRow
<1>3. PICK new : new = StopRow(row, del)
  OBVIOUS
<1>4. Keeps(row, new) /\ Calm(row, new) /\ Dooms(row, new) /\ (del => Doomed(new))
  BY <1>2, <1>3, StopKeeps
<1>5. runs' = [Swept EXCEPT ![r] = new] /\ runs'[r] = new
  BY <1>1, <1>3 DEF requestStop, Swept
<1>6. Mild
  BY <1>1, <1>2, <1>4, <1>5, OneRowKeeps DEF Mild
<1> QED BY <1>4, <1>5, <1>6

LEMMA ClaimMild ==
  ASSUME TableInv, NEW r \in RunIDs, NEW o, Ready, Swept[r] \in Row, runs' = [Swept EXCEPT ![r] = Held(Swept[r], o)]
  PROVE  Mild
<1>1. PICK row, new : row = Swept[r] /\ new = Held(row, o) /\ row \in Row
  OBVIOUS
<1>2. Keeps(row, new) /\ Calm(row, new) /\ Dooms(row, new)
  BY <1>1, HeldKeeps
<1> QED BY <1>1, <1>2, OneRowKeeps DEF Mild

LEMMA CreateMild == ASSUME TableInv, NEW c \in Requests, Create(c) PROVE Mild
<1>1. {c} \in SUBSET Candidate /\ Ready
  BY CallerInputs DEF Create
<1>2. createBatch(Swept, {c}, FALSE, FALSE, FALSE, FALSE)
  BY DEF Create
<1> QED BY <1>1, <1>2, BatchKeeps DEF Mild

(* Giving a rollout up.                                                            *)
LEMMA AbortMild ==
  ASSUME TableInv, NEW r \in RunIDs, NEW o, AbortRollout(r, o)
  PROVE  Mild
<1> SUFFICES ASSUME NEW q \in RunIDs
             PROVE  Keeps(runs[q], runs'[q]) /\ Calm(runs[q], runs'[q]) /\ Dooms(runs[q], runs'[q])
  BY DEF Mild
<1>1. PICK row, new : row = runs[q] /\ new = runs'[q] /\ row \in Row
  BY DEF TableInv
<1>2. CASE q # r
  <2>1. new = row
    BY <1>1, <1>2 DEF AbortRollout, abortPendingConfiguration, TableInv
  <2> QED BY <1>1, <2>1, KeepsOn
<1>3. CASE q = r
  <2>1. /\ new.state = "running" /\ new.ownership = row.ownership /\ new.snapshot = row.snapshot
        /\ new.deleted = row.deleted /\ new.deleteRequested = row.deleteRequested /\ row.state = "preparing"
    BY <1>1, <1>3 DEF AbortRollout, abortPendingConfiguration, TableInv, Released, Row
  <2> QED BY <1>1, <2>1 DEF Keeps, Calm, Dooms, Doomed
<1> QED BY <1>2, <1>3
-----------------------------------------------------------------------------
(* One process at a time: the platform starts one controller container.               *)
OneController == MaxLive = 1

(* How far Delete has come.                                                          *)
Withdrawn(b) == b.grants = None /\ b.token = None
Removed(b) == b.runtime = "absent" /\ b.config = None /\ b.label = None
Purged(w) == w.deleteRequested \/ w.desired \notin Persistent
Cleaned(b, w) == Withdrawn(b) /\ Removed(b) /\ (Purged(w) => b.volumes = None)

(* The run a process works on is active, under the ownership that was claimed; and a      *)
(* report that ends a run is made only when everything has been cleaned up.              *)
WorkOK(p, row, b) ==
  /\ IsActive(row) /\ row.ownership = p.work.ownership
  /\ p.work.deleteRequested => row.deleteRequested
  /\ p.pc \in DeletePCs => p.work.to \in Terminal /\ (p.work.deleteRequested \/ p.work.desired = row.snapshot)
  /\ p.pc \in {"containers", "removeVolumes"} => Withdrawn(b)
  /\ p.pc = "removeVolumes" => Removed(b)
  /\ p.pc = "report" /\ p.work.to \in Terminal => Cleaned(b, p.work)

Working(p, table, boxes) == p.pc \in BusyPCs => WorkOK(p, table[p.work.run], boxes[p.work.run])

(* What Docker and the broker hold of a run carries its ownership; a run that has ended      *)
(* holds no runtime and no grants, and a tombstone nothing.                              *)
BoxOK(row, b) ==
  /\ b.label \in {None, row.ownership} /\ b.volumes \in {None, row.ownership} /\ b.token \in {None, row.ownership}
  /\ row.state = "absent" => b = NoBox
  /\ IsTerminal(row) => b.runtime = "absent" /\ b.grants = None
  /\ row.deleted => b = NoBox

Alone(o) == \A q \in Owners : q # o => proc[q].pc \in {"off", "dead"}

BoxInv ==
  /\ box \in [RunIDs -> Box] /\ accepted \subseteq RunIDs
  /\ \A o \in Owners : Live(o) => Alone(o)
  /\ \A o \in Owners : Working(proc[o], runs, box)
  /\ \A r \in RunIDs : BoxOK(runs[r], box[r])

LEMMA KeepsBox ==
  ASSUME NEW row, NEW new, NEW b, BoxOK(row, b), Keeps(row, new)
  PROVE  BoxOK(new, b)
<1>1. CASE row.state = "absent"
  <2>1. b = NoBox
    BY <1>1 DEF BoxOK
  <2>2. b.label = None /\ b.volumes = None /\ b.token = None /\ b.runtime = "absent" /\ b.grants = None
    BY <2>1 DEF NoBox
  <2> QED BY <2>1, <2>2 DEF BoxOK
<1>2. CASE row.state # "absent"
  BY <1>2 DEF BoxOK, Keeps
<1> QED BY <1>1, <1>2

LEMMA KeepsWork ==
  ASSUME NEW p, NEW row, NEW new, NEW b, WorkOK(p, row, b), Keeps(row, new), Calm(row, new)
  PROVE  WorkOK(p, new, b)
<1>1. row.state # "absent" /\ IsActive(row)
  BY DEF WorkOK
<1> QED BY <1>1 DEF WorkOK, Keeps, Calm

(* While one process works, the others are not there.                                  *)
LEMMA OthersGone ==
  ASSUME NEW o \in Owners, OnlyProc(o), Alone(o),
         box' \in [RunIDs -> Box], accepted' \subseteq RunIDs, Working(proc'[o], runs', box'),
         \A r \in RunIDs : BoxOK(runs'[r], box'[r])
  PROVE  BoxInv'
<1>1. \A q \in Owners : q # o => proc'[q].pc \in {"off", "dead"}
  BY DEF OnlyProc, Alone
<1>2. (\A q \in Owners : Working(proc[q], runs, box))'
  BY <1>1, PCSets DEF Working
<1>3. (\A q \in Owners : Live(q) => Alone(q))'
  BY <1>1 DEF Live, Alone
<1> QED BY <1>2, <1>3 DEF BoxInv

LEMMA RowsMove ==
  ASSUME BoxInv, NEW r \in RunIDs, Keeps(runs[r], runs'[r]), box' = box
  PROVE  BoxOK(runs'[r], box'[r])
BY KeepsBox DEF BoxInv

LEMMA WorkStays ==
  ASSUME ClaimInv, BoxInv, NEW q \in Owners, Mild, box' = box
  PROVE  Working(proc[q], runs', box')
<1>1. PICK p : p = proc[q]
  OBVIOUS
<1> SUFFICES ASSUME p.pc \in BusyPCs PROVE WorkOK(p, runs'[p.work.run], box[p.work.run])
  BY <1>1 DEF Working
<1>2. p.work.run \in RunIDs
  BY <1>1, BusyWork DEF WorkTyped, Work
<1>3. WorkOK(p, runs[p.work.run], box[p.work.run])
  BY <1>1 DEF BoxInv, Working
<1>4. Keeps(runs[p.work.run], runs'[p.work.run]) /\ Calm(runs[p.work.run], runs'[p.work.run])
  BY <1>2 DEF Mild
<1> QED BY <1>3, <1>4, KeepsWork

(* Other callers.                                                                   *)
LEMMA CallersKeepBox ==
  ASSUME ClaimInv, BoxInv, Mild, proc' = proc, box' = box, accepted' \subseteq RunIDs
  PROVE  BoxInv'
<1>1. (\A r \in RunIDs : BoxOK(runs[r], box[r]))'
  BY RowsMove DEF Mild
<1>2. (\A q \in Owners : Working(proc[q], runs, box))'
  BY WorkStays
<1> QED BY <1>1, <1>2 DEF BoxInv, Live, Alone

(* The end of an operation, or of a process.                                          *)
LEMMA IdleKeepsBox ==
  ASSUME BoxInv, \A r \in RunIDs : Keeps(runs[r], runs'[r]), NEW o \in Owners, OnlyProc(o), Alone(o),
         box' = box, accepted' = accepted, proc'[o].pc \notin BusyPCs
  PROVE  BoxInv'
<1>1. \A r \in RunIDs : BoxOK(runs'[r], box'[r])
  BY RowsMove
<1>2. Working(proc'[o], runs', box')
  BY DEF Working
<1> QED BY <1>1, <1>2, OthersGone DEF BoxInv

(* What every step observes of every run.                                             *)
Lawful ==
  \A r \in RunIDs :
    /\ Dooms(runs[r], runs'[r])
    /\ runs[r].state # "absent" /\ runs'[r].ownership # runs[r].ownership => box[r] = NoBox
    /\ box[r].volumes # None /\ box'[r].volumes = None
         => runs[r].deleteRequested \/ runs[r].snapshot \notin Persistent

Gentle == \A r \in RunIDs : Keeps(runs[r], runs'[r]) /\ Dooms(runs[r], runs'[r])

LEMMA MildGentle == Mild => Gentle
BY DEF Mild, Gentle

LEMMA GentleLawful == ASSUME Gentle, box' = box PROVE Lawful
BY DEF Gentle, Lawful, Keeps

LEMMA StartsAlone ==
  ASSUME OneController, BoxInv, NEW o \in Owners, Start(o)
  PROVE  Alone(o)
<1>1. SUFFICES ASSUME NEW q \in Owners, Live(q) PROVE FALSE
  BY DEF Alone, Live
<1>2. {x \in Owners : Live(x)} = {q}
  BY <1>1 DEF BoxInv, Alone, Live
<1>3. Cardinality({q}) = 1
  BY FS_Singleton
<1> QED BY <1>2, <1>3 DEF Start, OneController

LEMMA BootGentle ==
  ASSUME ClaimInv, Boot(document)
  PROVE  Gentle
<1>1. PICK d : d = document /\ d \in Inventories /\ Boot(d)
  BY DEF ClaimInv
<1>2. /\ d.batch \in SUBSET Candidate
      /\ d.prune \in BOOLEAN /\ d.replace \in BOOLEAN /\ d.acknowledged \in BOOLEAN
  BY <1>1, CallerInputs
<1>3. Ready /\ createBatch(Swept, d.batch, TRUE, d.prune, d.replace, d.acknowledged)
  BY <1>1 DEF Boot, ReconcileWorkstations
<1> QED BY <1>2, <1>3, BatchKeeps DEF Gentle, ClaimInv

(* Processes that come, go, and look for work.                                        *)
LEMMA WaitingKeepsBox ==
  ASSUME OneController, ClaimInv, BoxInv, NEW o \in Owners, Pauses(o), ~ReportStatus(o)
  PROVE  BoxInv' /\ Lawful /\ Gentle /\ accepted' = accepted
<1>1. /\ OnlyProc(o) /\ proc'[o].pc \in {"list", "each", "dead"} /\ proc'[o].pc \notin BusyPCs
  BY PausesKeep, PCSets
<1>2. box' = box /\ accepted' = accepted
  BY DEF Pauses, Start, Crash, List, NextPass, Healthy, Skip, Abort
<1>3. Alone(o)
  <2>1. CASE Start(o)
    BY <2>1, StartsAlone
  <2>2. CASE ~Start(o)
    <3>1. Live(o)
      BY <2>2 DEF Pauses, Crash, List, NextPass, Healthy, Skip, Abort, At, Live
    <3> QED BY <3>1 DEF BoxInv
  <2> QED BY <2>1, <2>2
<1>4. TableInv
  BY DEF ClaimInv
<1>5. Gentle
  <2>1. CASE Start(o)
    <3>1. UNCHANGED runs \/ Boot(document)
      BY <2>1 DEF Start, Boot
    <3> QED BY <3>1, SameMild, MildGentle, BootGentle
  <2>2. CASE List(o) \/ \E r \in RunIDs : Skip(o, r)
    <3>1. Sweep
      BY <2>2 DEF List, Skip, Sweep
    <3> QED BY <1>4, <3>1, SweepMild, MildGentle
  <2>3. CASE Crash(o) \/ NextPass(o) \/ \E r \in RunIDs : Healthy(o, r)
    <3>1. runs' = runs
      BY <2>3 DEF Crash, NextPass, Healthy
    <3> QED BY <3>1, SameMild, MildGentle
  <2>4. CASE Abort(o)
    <3>1. PICK w : w = Work(o) /\ WorkTyped(w) /\ PinOK(proc[o], runs[w.run]) /\ proc[o].pc = "abort"
      BY <2>4, BusyWork DEF Abort, At, BusyPCs
    <3>2. CASE UNCHANGED runs
      BY <3>2, SameMild, MildGentle
    <3>3. CASE runs[w.run].revision = w.revision /\ abortPendingConfiguration(w.run, o, w.revision)
      <4>1. runs[w.run].state = "preparing"
        BY <3>1, <3>3 DEF PinOK, PreparingPCs, Work
      <4>2. AbortRollout(w.run, o) /\ w.run \in RunIDs
        BY <3>1, <3>3, <4>1 DEF AbortRollout, WorkTyped
      <4> QED BY <1>4, <4>2, AbortMild, MildGentle
    <3> QED BY <2>4, <3>1, <3>2, <3>3 DEF Abort
  <2> QED BY <2>1, <2>2, <2>3, <2>4 DEF Pauses
<1> QED BY <1>1, <1>2, <1>3, <1>5, IdleKeepsBox, GentleLawful DEF Gentle

(* A newly accepted DELETE dooms its run.                                              *)
LEMMA DeleteDooms ==
  ASSUME TableInv, NEW r \in RunIDs, DeleteCall(r)
  PROVE  Mild /\ Doomed(runs'[r])
<1>1. CASE Swept[r].state = "stopping" /\ Swept[r].deleteRequested
  <2>1. Sweep /\ runs'[r] = Swept[r]
    BY <1>1 DEF DeleteCall, Sweep
  <2> QED BY <1>1, <2>1, SweepMild DEF Doomed
<1>2. CASE ~(Swept[r].state = "stopping" /\ Swept[r].deleteRequested)
  <2>1. requestStop(r, TRUE)
    BY <1>2 DEF DeleteCall, Delete
  <2> QED BY <2>1, StopMild
<1> QED BY <1>1, <1>2

LEMMA CallMild ==
  ASSUME TableInv, Call
  PROVE  Mild /\ \/ accepted' = accepted
                 \/ \E r \in RunIDs : accepted' = accepted \cup {r} /\ Doomed(runs'[r])
<1>1. ASSUME \E c \in Requests : Create(c) PROVE Mild
  BY <1>1, CreateMild
<1>2. ASSUME NEW r \in RunIDs, Cancel(r) PROVE Mild
  BY <1>2, StopMild DEF Cancel
<1>3. ASSUME NEW r \in RunIDs, DeleteCall(r) PROVE Mild /\ accepted' = accepted \cup {r} /\ Doomed(runs'[r])
  BY <1>3, DeleteDooms DEF DeleteCall
<1> QED BY <1>1, <1>2, <1>3 DEF Call

LEMMA ExitKeepsBox ==
  ASSUME ClaimInv, BoxInv, NEW r \in RunIDs, RuntimeExits(r)
  PROVE  BoxInv' /\ Lawful
<1>1. /\ UNCHANGED <<runs, proc, accepted>> /\ box[r].runtime = "up"
      /\ box' = [box EXCEPT ![r].runtime = "exited"]
  BY DEF RuntimeExits
<1>2. box' \in [RunIDs -> Box]
  BY <1>1 DEF BoxInv, Box
<1>3. ASSUME NEW q \in RunIDs
      PROVE  /\ box'[q].label = box[q].label /\ box'[q].volumes = box[q].volumes /\ box'[q].token = box[q].token
             /\ box'[q].grants = box[q].grants /\ box'[q].config = box[q].config
             /\ box[q].runtime = "absent" => box'[q] = box[q]
  BY <1>1, <1>3 DEF BoxInv, Box
<1>4. NoBox.runtime = "absent"
  BY DEF NoBox
<1>5. ASSUME NEW q \in RunIDs PROVE BoxOK(runs'[q], box'[q])
  <2>1. PICK row, b, c : row = runs[q] /\ b = box[q] /\ c = box'[q] /\ BoxOK(row, b)
    BY DEF BoxInv
  <2> QED BY <1>1, <1>3, <1>4, <2>1 DEF BoxOK
<1>6. ASSUME NEW o \in Owners PROVE Working(proc'[o], runs', box')
  <2>1. PICK p : p = proc[o]
    OBVIOUS
  <2> SUFFICES ASSUME p.pc \in BusyPCs PROVE WorkOK(p, runs[p.work.run], box'[p.work.run])
    BY <1>1, <2>1 DEF Working
  <2>2. p.work.run \in RunIDs
    BY <2>1, BusyWork DEF WorkTyped, Work
  <2>3. WorkOK(p, runs[p.work.run], box[p.work.run])
    BY <2>1 DEF BoxInv, Working
  <2>4. PICK b, c : b = box[p.work.run] /\ c = box'[p.work.run]
    OBVIOUS
  <2>5. c.grants = b.grants /\ c.token = b.token /\ (Removed(b) => c = b)
    BY <1>3, <2>2, <2>4 DEF Removed
  <2> QED BY <2>3, <2>4, <2>5 DEF WorkOK, Withdrawn, Cleaned
<1>7. Lawful
  BY <1>1, <1>3, KeepsOn DEF Lawful
<1> QED BY <1>1, <1>2, <1>5, <1>6, <1>7 DEF BoxInv, Live, Alone

(* Users, time and the containers themselves.                                          *)
LEMMA OutsideKeepsBox ==
  ASSUME ClaimInv, BoxInv, Outside
  PROVE  /\ BoxInv' /\ Lawful
         /\ \/ accepted' = accepted
            \/ \E r \in RunIDs : accepted' = accepted \cup {r} /\ Doomed(runs'[r])
<1>1. TableInv /\ accepted \subseteq RunIDs
  BY DEF ClaimInv, BoxInv
<1>2. CASE \E r \in RunIDs : RuntimeExits(r)
  BY <1>2, ExitKeepsBox DEF RuntimeExits
<1>3. CASE Call
  <2>1. proc' = proc /\ box' = box
    BY <1>3 DEF Call
  <2> QED BY <1>1, <1>3, <2>1, CallMild, CallersKeepBox, MildGentle, GentleLawful
<1>4. CASE Edit \/ Clock \/ PeriodicSweep
  <2>1. proc' = proc /\ box' = box /\ accepted' = accepted
    BY <1>4 DEF Edit, Clock, PeriodicSweep, controllerVars
  <2>2. UNCHANGED runs \/ TimePasses \/ Sweep
    BY <1>4 DEF Edit, Clock, PeriodicSweep, TimePasses
  <2>3. Mild
    <3>1. CASE TimePasses
      BY <1>1, <3>1, AgeKeeps DEF Mild
    <3> QED BY <1>1, <2>2, <3>1, SameMild, SweepMild
  <2> QED BY <1>1, <2>1, <2>3, CallersKeepBox, MildGentle, GentleLawful
<1> QED BY <1>2, <1>3, <1>4 DEF Outside

LEMMA TakeKeepsBox ==
  ASSUME ClaimInv, BoxInv, NEW o \in Owners, NEW r \in RunIDs, Take(o, r)
  PROVE  BoxInv' /\ Lawful /\ accepted' = accepted
<1>1. box' = box /\ accepted' = accepted /\ Live(o)
  BY DEF Take, Live
<1>2. Alone(o) /\ OnlyProc(o) /\ TableInv
  BY <1>1, TakeLeads DEF BoxInv, ClaimInv
<1>3. PICK row : row = Swept[r] /\ GoodRow(r, row) /\ IsActive(row) /\ row \in Row
  BY TakesClaim DEF GoodRow
<1>4. PICK new : new = runs'[r] /\ new = Held(row, o)
  BY <1>3, TakesClaim DEF Swept
<1>5. Mild
  BY <1>2, <1>3, TakesClaim, ClaimMild
<1>6. /\ IsActive(new) /\ new.ownership = row.ownership /\ new.deleteRequested = row.deleteRequested
      /\ new.snapshot = row.snapshot
  BY <1>3, <1>4 DEF Held, Row
<1>7. PICK w : /\ w = Claimed(o, r) /\ WorkTyped(w) /\ w.run = r /\ w.ownership = row.ownership
               /\ w.deleteRequested = row.deleteRequested
               /\ w.desired = IF row.pending # None THEN row.pending ELSE row.snapshot
  BY <1>3, ClaimedWork
<1>8. row.state = "stopping" => row.target \in Terminal /\ (row.deleteRequested \/ row.pending = None)
  BY <1>3 DEF GoodRow, validateStoredRun
<1>9. PICK p : p = proc'[o]
  OBVIOUS
<1>10. WorkOK(p, new, box[r]) /\ p.work.run = r
  <2>1. CASE p.pc = "report" /\ \E to \in Active, target \in Terminal \cup {None} : p.work = Reporting(w, to, target)
    <3>1. SameClaim(p.work, w) /\ p.work.to \in Active
      BY <1>7, <2>1, ReportingSame
    <3> QED BY <1>6, <1>7, <2>1, <3>1 DEF WorkOK, SameClaim, DeletePCs
  <2>2. CASE p.pc = "preflight" /\ p.work = w
    BY <1>6, <1>7, <2>2 DEF WorkOK, DeletePCs
  <2>3. CASE p.pc = "unregister" /\ row.state = "stopping" /\ p.work = Reporting(w, row.target, None)
    <3>1. SameClaim(p.work, w) /\ p.work.to \in Terminal
      BY <1>7, <1>8, <2>3, ReportingSame
    <3> QED BY <1>6, <1>7, <1>8, <2>3, <3>1 DEF WorkOK, SameClaim, DeletePCs
  <2> QED BY <1>3, <1>7, <1>9, <2>1, <2>2, <2>3, TakeLeads DEF TakenTo
<1>11. Working(proc'[o], runs', box')
  BY <1>1, <1>4, <1>9, <1>10 DEF Working
<1>12. \A q \in RunIDs : BoxOK(runs'[q], box'[q])
  BY <1>1, <1>5, RowsMove DEF Mild
<1>13. BoxInv'
  BY <1>1, <1>2, <1>11, <1>12, OthersGone DEF BoxInv
<1> QED BY <1>1, <1>5, <1>13, MildGentle, GentleLawful

(* A row that still has the revision of the claim was not swept since.                   *)
LEMMA NotSwept ==
  ASSUME TableInv, NEW r \in RunIDs, NEW n \in Nat, n <= runs[r].revision, Swept[r].revision = n
  PROVE  Swept[r] = runs[r]
<1>1. PICK row : row = runs[r] /\ row \in Row /\ Swept[r] = sweepTx(row)
  BY DEF TableInv, Swept
<1>2. DeadlineDue(row) => sweepTx(row).revision = row.revision + 1
  BY <1>1 DEF sweepTx, Overdue, Released, Row
<1>3. ~DeadlineDue(row) /\ RetentionDue(row) => sweepTx(row).revision = row.revision + 1
  BY <1>1 DEF sweepTx, Retired, Row
<1>4. row.revision \in Nat
  BY <1>1 DEF Row
<1> QED BY <1>1, <1>2, <1>3, <1>4 DEF sweepTx

LEMMA CleanedEmpty ==
  ASSUME NEW b \in Box, NEW w, Cleaned(b, w), w.deleteRequested
  PROVE  b = NoBox
<1>1. /\ b.runtime = "absent" /\ b.config = None /\ b.label = None /\ b.volumes = None
      /\ b.grants = None /\ b.token = None
  BY DEF Cleaned, Withdrawn, Removed, Purged
<1> QED BY <1>1 DEF Box, NoBox

(* The report that ends an operation.                                                   *)
LEMMA StatusKeepsBox ==
  ASSUME NEW r, NEW row, GoodRow(r, row), ~row.deleted, NEW w, WorkTyped(w), NEW o,
         Reportable(row, o, w.revision, w.to, w.target, None), w.deleteRequested = row.deleteRequested,
         NEW b \in Box, BoxOK(row, b), w.to \in Terminal => Cleaned(b, w),
         NEW new, new = StatusRow(row, w.to, w.target, "other", None)
  PROVE  /\ BoxOK(new, b) /\ Dooms(row, new)
         /\ new.ownership # row.ownership => b = NoBox
<1>1. row \in Row /\ w.to # row.state /\ row.state # "absent"
  BY DEF Reportable, GoodRow
<1>2. transitionAllowed(row.state, w.to) /\ (row.state = "stopping" => w.to = row.target /\ w.to \in Terminal)
  BY <1>1 DEF Reportable, GoodRow, validateStoredRun
<1>3. CASE row.state = "preparing" /\ w.to = "running" /\ row.pending # None
  <2>1. new = Committed(row, w.to, "other", None)
    BY <1>1, <1>3 DEF StatusRow
  <2>2. new.state = "running" /\ new.ownership = row.ownership /\ new.deleted = row.deleted
    BY <1>1, <1>3, <2>1 DEF Committed, Moved, Released, Row
  <2> QED BY <1>3, <2>2 DEF BoxOK, Dooms, Doomed
<1>4. CASE row.state = "stopping" /\ row.pending # None /\ row.reason = Replacement
  <2>1. new = Replaced(row)
    BY <1>1, <1>4 DEF StatusRow
  <2>2. new.state = "pending" /\ new.deleted = row.deleted
    BY <1>1, <2>1 DEF Replaced, Released, Row
  <2>3. b = NoBox
    <3>1. w.deleteRequested
      BY <1>4 DEF GoodRow, validateStoredRun
    <3> QED BY <1>2, <1>4, <3>1, CleanedEmpty
  <2>4. b.label = None /\ b.volumes = None /\ b.token = None
    BY <2>3 DEF NoBox
  <2> QED BY <1>4, <2>2, <2>3, <2>4 DEF BoxOK, Dooms
<1>5. CASE /\ ~(row.state = "preparing" /\ w.to = "running" /\ row.pending # None)
           /\ ~(row.state = "stopping" /\ row.pending # None /\ row.reason = Replacement)
  <2>1. new = Transitioned(row, w.to, w.target, "other", None)
    BY <1>1, <1>5 DEF StatusRow
  <2>2. /\ new.state = w.to /\ new.ownership = row.ownership /\ new.reason = "other"
        /\ new.deleteRequested = row.deleteRequested /\ new.deleted = (w.to \in Terminal /\ row.deleteRequested)
    BY <1>1, <2>1 DEF Transitioned, Moved, Released, Row
  <2>3. new.deleted => b = NoBox
    BY <2>2, CleanedEmpty
  <2>4. IsTerminal(new) => b.runtime = "absent" /\ b.grants = None
    BY <2>2 DEF Cleaned, Withdrawn, Removed
  <2>5. Dooms(row, new)
    <3>1. ASSUME Doomed(row) PROVE w.to \in Terminal
      <4>1. row.state = "stopping"
        BY <1>1, <3>1 DEF Doomed, GoodRow, validateStoredRun
      <4> QED BY <1>2, <4>1
    <3> QED BY <2>2, <3>1 DEF Dooms, Doomed, Replacement
  <2>6. new.state # "absent"
    BY <1>2, <2>2 DEF transitionAllowed
  <2> QED BY <2>2, <2>3, <2>4, <2>5, <2>6 DEF BoxOK
<1> QED BY <1>3, <1>4, <1>5

LEMMA ReportKeepsBox ==
  ASSUME ClaimInv, BoxInv, NEW o \in Owners, ReportStatus(o)
  PROVE  BoxInv' /\ Lawful /\ accepted' = accepted
<1>1. box' = box /\ accepted' = accepted /\ proc[o].pc = "report" /\ Live(o)
  BY DEF ReportStatus, At, Live
<1>2. OnlyProc(o) /\ Alone(o) /\ proc'[o].pc \notin BusyPCs /\ TableInv
  BY <1>1, ReportIsReport, PCSets DEF BoxInv, ClaimInv
<1>3. PICK w : w = Work(o) /\ WorkTyped(w) /\ PinOK(proc[o], runs[w.run]) /\ w.run \in RunIDs
  BY <1>1, BusyWork DEF BusyPCs, WorkTyped
<1>4. WorkOK(proc[o], runs[w.run], box[w.run])
  BY <1>1, <1>3 DEF BoxInv, Working, BusyPCs, Work
<1>5. CASE Reportable(Swept[w.run], o, w.revision, w.to, w.target, None)
  <2>1. UpdateStatus(w.run, o, w.revision, w.to, w.target, "other", None)
    BY <1>3, <1>5 DEF ReportStatus
  <2>2. PICK row : row = runs[w.run] /\ row = Swept[w.run]
    BY <1>2, <1>3, <1>5, NotSwept DEF Reportable, PinOK, WorkTyped, Work
  <2>3. Ready /\ GoodRow(w.run, row) /\ ~row.deleted /\ w.deleteRequested = row.deleteRequested
    <3>1. Ready /\ ValidRow(w.run, row)
      BY <1>2, <1>3, <2>1, <2>2, SweptValid DEF UpdateStatus
    <3>2. Visible(row) /\ row.revision = w.revision
      BY <1>5, <2>2 DEF Reportable
    <3> QED BY <1>3, <2>2, <3>1, <3>2 DEF Visible, ValidRow, NoRow, PinOK, Work
  <2>4. PICK new : new = StatusRow(row, w.to, w.target, "other", None)
    OBVIOUS
  <2>5. runs' = [Swept EXCEPT ![w.run] = new] /\ runs'[w.run] = new
    BY <1>3, <2>1, <2>2, <2>4 DEF UpdateStatus, Swept
  <2>6. PICK b : b = box[w.run] /\ b \in Box /\ BoxOK(row, b)
    BY <1>3, <2>2 DEF BoxInv
  <2>7. w.to \in Terminal => Cleaned(b, w)
    BY <1>1, <1>3, <1>4, <2>6 DEF WorkOK, Work
  <2>8. BoxOK(new, b) /\ Dooms(row, new) /\ (new.ownership # row.ownership => b = NoBox)
    BY <1>3, <1>5, <2>2, <2>3, <2>4, <2>6, <2>7, StatusKeepsBox
  <2>9. ASSUME NEW q \in RunIDs, q # w.run
        PROVE  Keeps(runs[q], runs'[q]) /\ Dooms(runs[q], runs'[q])
    BY <1>2, <1>3, <2>3, <2>5, <2>9, OneRowKeeps
  <2>10. ASSUME NEW q \in RunIDs PROVE BoxOK(runs'[q], box'[q])
    <3>1. CASE q = w.run
      BY <1>1, <2>5, <2>6, <2>8, <3>1
    <3>2. CASE q # w.run
      BY <1>1, <2>9, <3>2, RowsMove
    <3> QED BY <3>1, <3>2
  <2>11. Lawful
    <3>1. ASSUME NEW q \in RunIDs
          PROVE  /\ Dooms(runs[q], runs'[q])
                 /\ runs[q].state # "absent" /\ runs'[q].ownership # runs[q].ownership => box[q] = NoBox
      <4>1. CASE q = w.run
        BY <2>2, <2>5, <2>6, <2>8, <4>1
      <4>2. CASE q # w.run
        BY <2>9, <4>2 DEF Keeps
      <4> QED BY <4>1, <4>2
    <3> QED BY <1>1, <3>1 DEF Lawful
  <2>12. Working(proc'[o], runs', box')
    BY <1>2 DEF Working
  <2>13. BoxInv'
    BY <1>1, <1>2, <2>10, <2>12, OthersGone DEF BoxInv
  <2> QED BY <1>1, <2>11, <2>13
<1>6. CASE ~Reportable(Swept[w.run], o, w.revision, w.to, w.target, None)
  <2>1. Sweep
    BY <1>3, <1>6 DEF ReportStatus, Sweep
  <2>2. Gentle
    BY <1>2, <2>1, SweepMild, MildGentle
  <2> QED BY <1>1, <1>2, <2>2, IdleKeepsBox, GentleLawful DEF Gentle
<1> QED BY <1>5, <1>6

(* Docker and the broker.  A backend step changes what is held of the claimed run only.      *)
OnlyBox(r) == box' \in [RunIDs -> Box] /\ \A q \in RunIDs : q # r => box'[q] = box[q]
Labelled(b, row) ==
  b.label \in {None, row.ownership} /\ b.volumes \in {None, row.ownership} /\ b.token \in {None, row.ownership}

(* The step leads on with the same claim, and has done what the next one relies on.          *)
Onward(o, p, b) ==
  p.pc \in BusyPCs =>
    /\ SameClaim(p.work, Work(o))
    /\ p.pc \in DeletePCs => proc[o].pc \in DeletePCs /\ p.work.to = Work(o).to
    /\ p.pc \in {"containers", "removeVolumes"} => Withdrawn(b)
    /\ p.pc = "removeVolumes" => Removed(b)
    /\ p.pc = "report" /\ p.work.to \in Terminal => Cleaned(b, p.work)

LEMMA BusyRun ==
  ASSUME ClaimInv, BoxInv, NEW o \in Owners, proc[o].pc \in BusyPCs, NEW w, w = Work(o)
  PROVE  /\ WorkTyped(w) /\ w.run \in RunIDs /\ Alone(o)
         /\ WorkOK(proc[o], runs[w.run], box[w.run]) /\ BoxOK(runs[w.run], box[w.run])
         /\ IsActive(runs[w.run]) /\ ~runs[w.run].deleted /\ runs[w.run].ownership = w.ownership
         /\ box[w.run] \in Box
<1>1. WorkTyped(w) /\ w.run \in RunIDs
  BY BusyWork DEF WorkTyped
<1>2. WorkOK(proc[o], runs[w.run], box[w.run])
  BY DEF BoxInv, Working, Work
<1>3. Alone(o)
  BY PCSets DEF BoxInv, Live
<1>4. PICK row : row = runs[w.run] /\ (ValidRow(w.run, row) \/ RevertedRow(w.run, row)) /\ IsActive(row)
  BY <1>1, <1>2 DEF ClaimInv, TableInv, WorkOK
<1>5. ~row.deleted
  BY <1>4 DEF ValidRow, NoRow, GoodRow, validateStoredRun, RevertedRow, Reverted
<1> QED BY <1>1, <1>2, <1>3, <1>4, <1>5 DEF BoxInv, WorkOK, Work

LEMMA BackendBox ==
  ASSUME ClaimInv, BoxInv, NEW o \in Owners, proc[o].pc \in BusyPCs, NEW w, w = Work(o),
         UNCHANGED <<runs, accepted>>, OnlyProc(o), OnlyBox(w.run), NEW b, b = box'[w.run],
         Labelled(b, runs[w.run]), Onward(o, proc'[o], b),
         box[w.run].volumes # None /\ b.volumes = None
           => runs[w.run].deleteRequested \/ runs[w.run].snapshot \notin Persistent
  PROVE  BoxInv' /\ Lawful /\ accepted' = accepted
<1>1. /\ w.run \in RunIDs /\ Alone(o) /\ WorkOK(proc[o], runs[w.run], box[w.run])
      /\ IsActive(runs[w.run]) /\ ~runs[w.run].deleted
  BY BusyRun
<1>2. ASSUME NEW q \in RunIDs PROVE BoxOK(runs'[q], box'[q])
  <2>1. CASE q = w.run
    BY <1>1, <2>1 DEF BoxOK, Labelled
  <2>2. CASE q # w.run
    BY <2>2 DEF OnlyBox, BoxInv
  <2> QED BY <2>1, <2>2
<1>3. Working(proc'[o], runs', box')
  <2>1. PICK p : p = proc'[o]
    OBVIOUS
  <2> SUFFICES ASSUME p.pc \in BusyPCs PROVE WorkOK(p, runs[p.work.run], box'[p.work.run])
    BY <2>1 DEF Working
  <2>2. SameClaim(p.work, w) /\ p.work.run = w.run
    BY <2>1 DEF Onward, SameClaim
  <2>3. PICK row : row = runs[w.run]
    OBVIOUS
  <2>4. PICK old : old = proc[o] /\ old.work = w /\ WorkOK(old, row, box[w.run])
    BY <1>1, <2>3 DEF Work
  <2>5. /\ IsActive(row) /\ row.ownership = p.work.ownership
        /\ p.work.deleteRequested => row.deleteRequested
        /\ p.pc \in DeletePCs =>
             p.work.to \in Terminal /\ (p.work.deleteRequested \/ p.work.desired = row.snapshot)
    BY <2>1, <2>2, <2>4 DEF WorkOK, SameClaim, Onward
  <2>6. WorkOK(p, row, b)
    BY <2>1, <2>5 DEF WorkOK, Onward
  <2> QED BY <2>2, <2>3, <2>6
<1>4. BoxInv'
  BY <1>1, <1>2, <1>3, OthersGone DEF OnlyBox, BoxInv
<1>5. Lawful
  <2>1. ASSUME NEW q \in RunIDs
        PROVE  box[q].volumes # None /\ box'[q].volumes = None
                 => runs[q].deleteRequested \/ runs[q].snapshot \notin Persistent
    BY <2>1 DEF OnlyBox
  <2> QED BY <2>1, KeepsOn DEF Lawful
<1> QED BY <1>4, <1>5

(* Steps that end the operation, or go on with the Ensure.                                 *)
Mute(o) ==
  /\ OnlyProc(o)
  /\ proc'[o].pc \in BusyPCs => /\ SameClaim(proc'[o].work, Work(o)) /\ proc'[o].pc \notin DeletePCs
                                /\ proc'[o].pc = "report" => proc'[o].work.to \notin Terminal

LEMMA MuteOnward == ASSUME NEW o, Mute(o), NEW b PROVE Onward(o, proc'[o], b)
BY DEF Mute, Onward, DeletePCs

LEMMA MuteGoto ==
  ASSUME ClaimInv, NEW o \in Owners, proc[o].pc \in BusyPCs, NEW pc, Goto(o, pc), pc \notin DeletePCs, pc # "report"
  PROVE  Mute(o)
<1>1. OnlyProc(o) /\ proc'[o].pc = pc /\ proc'[o].work = Work(o)
  BY Moves
<1>2. SameClaim(Work(o), Work(o))
  BY BusyWork DEF SameClaim
<1> QED BY <1>1, <1>2 DEF Mute

LEMMA MuteReport ==
  ASSUME ClaimInv, NEW o \in Owners, proc[o].pc \in BusyPCs, NEW to \in Active, NEW target \in Terminal \cup {None},
         proc' = [proc EXCEPT ![o].pc = "report", ![o].work = Reporting(Work(o), to, target)]
  PROVE  Mute(o)
<1>1. PICK w, x : w = Work(o) /\ WorkTyped(w) /\ x = Reporting(w, to, target)
  BY BusyWork
<1>2. OnlyProc(o) /\ proc'[o].pc = "report" /\ proc'[o].work = x
  BY <1>1, Moves
<1>3. SameClaim(x, w) /\ x.to = to
  BY <1>1, ReportingSame
<1> QED BY <1>1, <1>2, <1>3 DEF Mute, DeletePCs

LEMMA MuteEnds ==
  ASSUME ClaimInv, NEW o \in Owners, proc[o].pc \in BusyPCs, Return(o) \/ Fail(o) \/ Reject(o)
  PROVE  Mute(o)
<1>1. CASE Return(o)
  BY <1>1, Moves, PCSets DEF Mute
<1>2. CASE Goto(o, "rollback") \/ Goto(o, "abort")
  BY <1>2, MuteGoto DEF DeletePCs
<1>3. CASE proc' = [proc EXCEPT ![o].pc = "report", ![o].work = Reporting(@, "stopping", "failed")]
  <2>1. proc' = [proc EXCEPT ![o].pc = "report", ![o].work = Reporting(Work(o), "stopping", "failed")]
    BY <1>3 DEF Work
  <2> QED BY <2>1, MuteReport
<1> QED BY <1>1, <1>2, <1>3 DEF Reject, Fail

LEMMA MuteFlag ==
  ASSUME ClaimInv, NEW o \in Owners, proc[o].pc \in BusyPCs, NEW pc \in EnsurePCs, NEW v,
         \/ proc' = [proc EXCEPT ![o].pc = pc, ![o].work.stopped = v]
         \/ proc' = [proc EXCEPT ![o].pc = pc, ![o].work.registered = v]
  PROVE  Mute(o)
<1>1. PICK w : WorkTyped(w) /\ w = Work(o)
  BY BusyWork
<1>2. PICK x : x = proc'[o].work
  OBVIOUS
<1>3. DOMAIN proc = Owners /\ DOMAIN proc[o] = ProcFields
  BY DEF ClaimInv, ProcOK
<1>4. /\ OnlyProc(o) /\ proc'[o].pc = pc
      /\ x = [w EXCEPT !.stopped = v] \/ x = [w EXCEPT !.registered = v]
  BY <1>1, <1>2, <1>3 DEF OnlyProc, ProcFields, Work
<1>5. SameClaim(x, w)
  BY <1>1, <1>4, FlagSame
<1> QED BY <1>1, <1>2, <1>4, <1>5 DEF Mute, EnsurePCs, DeletePCs

(* The operation goes no further, or only in the process.                                  *)
LEMMA MuteKeepsBox ==
  ASSUME ClaimInv, BoxInv, NEW o \in Owners, proc[o].pc \in BusyPCs, Mute(o), UNCHANGED <<runs, box, accepted>>
  PROVE  BoxInv' /\ Lawful /\ accepted' = accepted
<1>1. PICK w, b : w = Work(o) /\ b = box[w.run]
  OBVIOUS
<1>2. BoxOK(runs[w.run], b) /\ w.run \in RunIDs
  BY <1>1, BusyRun
<1>3. OnlyBox(w.run) /\ Labelled(b, runs[w.run]) /\ OnlyProc(o)
  BY <1>1, <1>2 DEF OnlyBox, BoxInv, BoxOK, Labelled, Mute
<1>4. Onward(o, proc'[o], b)
  BY MuteOnward
<1> QED BY <1>1, <1>3, <1>4, BackendBox

(* The Ensure writes the ownership of the run into what it creates.                          *)
Written(w) ==
  \/ box' = box
  \/ \E v \in {"absent", "up", "paused", "exited"} : box' = [box EXCEPT ![w.run].runtime = v]
  \/ \E v \in Known : box' = [box EXCEPT ![w.run].grants = v, ![w.run].token = w.ownership]
  \/ box' = [box EXCEPT ![w.run].volumes = w.ownership]
  \/ \E v \in Known : box' = [box EXCEPT ![w.run].runtime = "up", ![w.run].label = w.ownership, ![w.run].config = v]

LEMMA WrittenFits ==
  ASSUME ClaimInv, BoxInv, NEW o \in Owners, proc[o].pc \in BusyPCs, NEW w, w = Work(o), Written(w),
         NEW b, b = box'[w.run]
  PROVE  /\ OnlyBox(w.run) /\ Labelled(b, runs[w.run])
         /\ box[w.run].volumes # None => b.volumes # None
<1>1. PICK old, row : /\ old = box[w.run] /\ row = runs[w.run] /\ w.run \in RunIDs /\ old \in Box
                      /\ BoxOK(row, old) /\ row.ownership = w.ownership /\ w.ownership \in Known
  BY BusyRun DEF WorkTyped
<1>2. box \in [RunIDs -> Box]
  BY DEF BoxInv
<1>3. CASE box' = box
  BY <1>1, <1>2, <1>3 DEF OnlyBox, Labelled, BoxOK
<1>4. ASSUME NEW v \in {"absent", "up", "paused", "exited"}, box' = [box EXCEPT ![w.run].runtime = v]
      PROVE  OnlyBox(w.run) /\ b.label = old.label /\ b.volumes = old.volumes /\ b.token = old.token
  BY <1>1, <1>2, <1>4 DEF OnlyBox, Box
<1>5. ASSUME NEW v \in Known, box' = [box EXCEPT ![w.run].grants = v, ![w.run].token = w.ownership]
      PROVE  OnlyBox(w.run) /\ b.label = old.label /\ b.volumes = old.volumes /\ b.token = w.ownership
  BY <1>1, <1>2, <1>5 DEF OnlyBox, Box, Known
<1>6. ASSUME box' = [box EXCEPT ![w.run].volumes = w.ownership]
      PROVE  OnlyBox(w.run) /\ b.label = old.label /\ b.volumes = w.ownership /\ b.token = old.token
  BY <1>1, <1>2, <1>6 DEF OnlyBox, Box, Known
<1>7. ASSUME NEW v \in Known,
             box' = [box EXCEPT ![w.run].runtime = "up", ![w.run].label = w.ownership, ![w.run].config = v]
      PROVE  OnlyBox(w.run) /\ b.label = w.ownership /\ b.volumes = old.volumes /\ b.token = old.token
  BY <1>1, <1>2, <1>7 DEF OnlyBox, Box, Known
<1>8. old.volumes # None => w.ownership # None
  BY <1>1 DEF BoxOK
<1> QED BY <1>1, <1>3, <1>4, <1>5, <1>6, <1>7, <1>8 DEF Written, Labelled, BoxOK

LEMMA EnsureWrites ==
  ASSUME ClaimInv, BoxInv, NEW o \in Owners,
         Preflight(o) \/ Upsert(o) \/ EnsureVolumes(o) \/ ComposeUp(o) \/ Rollback(o) \/ Restore(o)
  PROVE  proc[o].pc \in BusyPCs /\ UNCHANGED <<runs, accepted>> /\ Mute(o) /\ Written(Work(o))
<1>1. proc[o].pc \in BusyPCs
  BY DEF Preflight, Upsert, EnsureVolumes, ComposeUp, Rollback, Restore, At, BusyPCs, EnsurePCs
<1>2. PICK w : /\ w = Work(o) /\ w.run \in RunIDs /\ w.desired \in Known /\ w.previous \in Known
               /\ box[w.run] \in Box
  BY <1>1, BusyRun DEF WorkTyped, Known
<1>3. UNCHANGED <<runs, accepted>>
  BY DEF Preflight, Upsert, EnsureVolumes, ComposeUp, Rollback, Restore
<1>4. box[w.run].runtime \in {"absent", "up", "paused", "exited"} /\ box[w.run].config \in Known
  BY <1>2 DEF Box, Known
<1>5. ASSUME Preflight(o) PROVE Mute(o) /\ Written(w)
  <2>1. CASE Reject(o) /\ UNCHANGED box
    BY <1>1, <2>1, MuteEnds DEF Written
  <2>2. CASE /\ proc' = [proc EXCEPT ![o].pc = "upsert", ![o].work.stopped = Rollout(w)]
             /\ box' = [box EXCEPT ![w.run].runtime = IF Rollout(w) /\ @ = "up" THEN "paused" ELSE @]
    <3>1. \E v \in {"absent", "up", "paused", "exited"} : box' = [box EXCEPT ![w.run].runtime = v]
      BY <1>4, <2>2
    <3> QED BY <1>1, <2>2, <3>1, MuteFlag DEF Written, EnsurePCs
  <2> QED BY <1>2, <1>5, <2>1, <2>2 DEF Preflight
<1>6. ASSUME Upsert(o) PROVE Mute(o) /\ Written(w)
  <2>1. CASE Reject(o) /\ UNCHANGED box
    BY <1>1, <2>1, MuteEnds DEF Written
  <2>2. CASE /\ proc' = [proc EXCEPT ![o].pc = "volumes", ![o].work.registered = Rollout(w)]
             /\ box' = [box EXCEPT ![w.run].grants = w.desired, ![w.run].token = w.ownership]
    BY <1>1, <1>2, <2>2, MuteFlag DEF Written, EnsurePCs
  <2> QED BY <1>2, <1>6, <2>1, <2>2 DEF Upsert
<1>7. ASSUME EnsureVolumes(o) PROVE Mute(o) /\ Written(w)
  <2>1. CASE Reject(o) /\ UNCHANGED box
    BY <1>1, <2>1, MuteEnds DEF Written
  <2>2. CASE Goto(o, "compose") /\ box' = [box EXCEPT ![w.run].volumes = w.ownership]
    BY <1>1, <2>2, MuteGoto DEF Written, DeletePCs
  <2> QED BY <1>2, <1>7, <2>1, <2>2 DEF EnsureVolumes
<1>8. ASSUME ComposeUp(o) PROVE Mute(o) /\ Written(w)
  <2>1. Goto(o, "observe")
    BY <1>8 DEF ComposeUp
  <2>2. PICK v : v = IF Rollout(w) \/ box[w.run].config = None THEN w.desired ELSE box[w.run].config
    OBVIOUS
  <2>3. v \in Known
    BY <1>2, <1>4, <2>2
  <2>4. box' = [box EXCEPT ![w.run].runtime = "up", ![w.run].label = w.ownership, ![w.run].config = v]
    BY <1>2, <1>8, <2>2 DEF ComposeUp
  <2> QED BY <1>1, <2>1, <2>3, <2>4, MuteGoto DEF Written, DeletePCs
<1>9. ASSUME Rollback(o) PROVE Mute(o) /\ Written(w)
  <2>1. Goto(o, "restore") /\ box' = [box EXCEPT ![w.run].runtime = IF @ = "up" THEN "paused" ELSE @]
    BY <1>2, <1>9 DEF Rollback
  <2>2. \E v \in {"absent", "up", "paused", "exited"} : box' = [box EXCEPT ![w.run].runtime = v]
    BY <1>4, <2>1
  <2> QED BY <1>1, <2>1, <2>2, MuteGoto DEF Written, DeletePCs
<1>10. ASSUME Restore(o) PROVE Mute(o) /\ Written(w)
  <2>1. Return(o)
    BY <1>10 DEF Restore
  <2>2. box' = box \/ box' = [box EXCEPT ![w.run].grants = w.previous, ![w.run].token = w.ownership]
    BY <1>2, <1>10 DEF Restore
  <2> QED BY <1>1, <1>2, <2>1, <2>2, MuteEnds DEF Written
<1> QED BY <1>1, <1>2, <1>3, <1>5, <1>6, <1>7, <1>8, <1>9, <1>10

LEMMA EnsureKeepsBox ==
  ASSUME ClaimInv, BoxInv, NEW o \in Owners,
         Preflight(o) \/ Upsert(o) \/ EnsureVolumes(o) \/ ComposeUp(o) \/ Rollback(o) \/ Restore(o)
  PROVE  BoxInv' /\ Lawful /\ accepted' = accepted
<1>1. proc[o].pc \in BusyPCs /\ UNCHANGED <<runs, accepted>> /\ Mute(o) /\ Written(Work(o)) /\ OnlyProc(o)
  BY EnsureWrites DEF Mute
<1>2. PICK w, b : w = Work(o) /\ b = box'[w.run]
  OBVIOUS
<1>3. OnlyBox(w.run) /\ Labelled(b, runs[w.run]) /\ (box[w.run].volumes # None => b.volumes # None)
  BY <1>1, <1>2, WrittenFits
<1>4. Onward(o, proc'[o], b)
  BY <1>1, MuteOnward
<1> QED BY <1>1, <1>2, <1>3, <1>4, BackendBox

(* The Delete removes what carries the ownership of the run, and reports the end only when       *)
(* that is done.                                                                            *)
LEMMA DeleteKeepsBox ==
  ASSUME ClaimInv, BoxInv, NEW o \in Owners, Unregister(o) \/ RemoveContainers(o) \/ RemoveVolumes(o)
  PROVE  BoxInv' /\ Lawful /\ accepted' = accepted
<1>1. proc[o].pc \in DeletePCs /\ proc[o].pc \in BusyPCs
  BY DEF Unregister, RemoveContainers, RemoveVolumes, At, DeletePCs, BusyPCs
<1>2. PICK w : w = Work(o)
  OBVIOUS
<1>3. PICK p, old, row : /\ p = proc[o] /\ old = box[w.run] /\ row = runs[w.run] /\ w.run \in RunIDs
                         /\ old \in Box /\ BoxOK(row, old) /\ WorkOK(p, row, old) /\ p.work = w
                         /\ row.ownership = w.ownership /\ WorkTyped(w)
  BY <1>1, <1>2, BusyRun DEF Work
<1>4. UNCHANGED <<runs, accepted>> /\ box \in [RunIDs -> Box]
  BY DEF Unregister, RemoveContainers, RemoveVolumes, BoxInv
<1>5. /\ ~Foreign(old.token, w) /\ ~Foreign(old.label, w) /\ ~Foreign(old.volumes, w)
      /\ Labelled(old, row)
  BY <1>3 DEF BoxOK, Foreign, Labelled
<1>6. /\ w.to \in Terminal /\ SameClaim(w, w)
      /\ Purged(w) => row.deleteRequested \/ row.snapshot \notin Persistent
  BY <1>1, <1>3 DEF WorkOK, SameClaim, Purged
<1>7. PICK b : b = box'[w.run]
  OBVIOUS
<1>8. ASSUME Unregister(o) PROVE BoxInv' /\ Lawful /\ accepted' = accepted
  <2>1. Goto(o, "containers") /\ box' = [box EXCEPT ![w.run].grants = None, ![w.run].token = None]
    BY <1>2, <1>3, <1>5, <1>8 DEF Unregister
  <2>2. OnlyProc(o) /\ proc'[o].pc = "containers" /\ proc'[o].work = w
    BY <1>2, <2>1, Moves
  <2>3. OnlyBox(w.run) /\ b.label = old.label /\ b.volumes = old.volumes /\ b.token = None /\ b.grants = None
    BY <1>3, <1>4, <1>7, <2>1 DEF OnlyBox, Box
  <2>4. Labelled(b, row) /\ Onward(o, proc'[o], b)
    BY <1>1, <1>2, <1>5, <1>6, <2>2, <2>3 DEF Labelled, Onward, Withdrawn
  <2> QED BY <1>1, <1>2, <1>3, <1>4, <1>7, <2>2, <2>3, <2>4, BackendBox
<1>9. ASSUME RemoveContainers(o) PROVE BoxInv' /\ Lawful /\ accepted' = accepted
  <2>1. /\ Goto(o, "removeVolumes") /\ p.pc = "containers"
        /\ box' = [box EXCEPT ![w.run] = [@ EXCEPT !.runtime = "absent", !.config = None, !.label = None]]
    BY <1>2, <1>3, <1>5, <1>9 DEF RemoveContainers, At
  <2>2. OnlyProc(o) /\ proc'[o].pc = "removeVolumes" /\ proc'[o].work = w
    BY <1>2, <2>1, Moves
  <2>3. /\ OnlyBox(w.run) /\ b.volumes = old.volumes /\ b.token = old.token /\ b.grants = old.grants
        /\ Removed(b)
    BY <1>3, <1>4, <1>7, <2>1 DEF OnlyBox, Box, Removed
  <2>4. Withdrawn(b)
    BY <1>3, <2>1, <2>3 DEF WorkOK, Withdrawn
  <2>5. Labelled(b, row) /\ Onward(o, proc'[o], b)
    BY <1>1, <1>2, <1>5, <1>6, <2>2, <2>3, <2>4 DEF Labelled, Onward, Removed
  <2> QED BY <1>1, <1>2, <1>3, <1>4, <1>7, <2>2, <2>3, <2>5, BackendBox
<1>10. ASSUME RemoveVolumes(o) PROVE BoxInv' /\ Lawful /\ accepted' = accepted
  <2>1. /\ Goto(o, "report") /\ p.pc = "removeVolumes"
        /\ box' = [box EXCEPT ![w.run].volumes = IF Purged(w) THEN None ELSE @]
    BY <1>2, <1>3, <1>5, <1>10 DEF RemoveVolumes, At, Purged
  <2>2. OnlyProc(o) /\ proc'[o].pc = "report" /\ proc'[o].work = w
    BY <1>2, <2>1, Moves
  <2>3. /\ OnlyBox(w.run) /\ b.label = old.label /\ b.token = old.token /\ b.grants = old.grants
        /\ b.runtime = old.runtime /\ b.config = old.config
        /\ b.volumes = IF Purged(w) THEN None ELSE old.volumes
    BY <1>3, <1>4, <1>7, <2>1 DEF OnlyBox, Box
  <2>4. Cleaned(b, w)
    BY <1>3, <2>1, <2>3 DEF WorkOK, Withdrawn, Removed, Cleaned
  <2>5. Labelled(b, row) /\ Onward(o, proc'[o], b)
    BY <1>1, <1>2, <1>5, <1>6, <2>2, <2>3, <2>4 DEF Labelled, Onward, DeletePCs
  <2>6. old.volumes # None /\ b.volumes = None => row.deleteRequested \/ row.snapshot \notin Persistent
    BY <1>6, <2>3
  <2> QED BY <1>1, <1>2, <1>3, <1>4, <1>7, <2>2, <2>3, <2>5, <2>6, BackendBox
<1> QED BY <1>8, <1>9, <1>10

LEMMA BackendKeepsBox ==
  ASSUME ClaimInv, BoxInv, NEW o \in Owners, Backend(o)
  PROVE  BoxInv' /\ Lawful /\ accepted' = accepted
<1>1. ASSUME Observe(o) PROVE BoxInv' /\ Lawful /\ accepted' = accepted
  <2>1. proc[o].pc \in BusyPCs /\ UNCHANGED <<runs, box, accepted>>
    BY <1>1 DEF Observe, At, BusyPCs, EnsurePCs
  <2>2. \E to \in Active, target \in Terminal \cup {None} :
          proc' = [proc EXCEPT ![o].pc = "report", ![o].work = Reporting(Work(o), to, target)]
    BY <1>1 DEF Observe, Outcomes
  <2> QED BY <2>1, <2>2, MuteReport, MuteKeepsBox
<1>2. ASSUME BackendFault(o) PROVE BoxInv' /\ Lawful /\ accepted' = accepted
  <2>1. proc[o].pc \in BusyPCs /\ UNCHANGED <<runs, box, accepted>> /\ (Fail(o) \/ Return(o))
    BY <1>2 DEF BackendFault, BusyPCs
  <2> QED BY <2>1, MuteEnds, MuteKeepsBox
<1> QED BY <1>1, <1>2, EnsureKeepsBox, DeleteKeepsBox DEF Backend

LEMMA StepKeepsBox ==
  ASSUME OneController, ClaimInv, BoxInv, [ControllerNext]_vars
  PROVE  /\ BoxInv' /\ Lawful
         /\ \/ accepted' = accepted
            \/ \E r \in RunIDs : accepted' = accepted \cup {r} /\ Doomed(runs'[r])
<1>1. CASE UNCHANGED vars
  <2>1. runs' = runs /\ proc' = proc /\ box' = box /\ accepted' = accepted
    BY <1>1 DEF vars, controllerVars
  <2>2. accepted' \subseteq RunIDs
    BY <2>1 DEF BoxInv
  <2> QED BY <2>1, <2>2, SameMild, MildGentle, GentleLawful, CallersKeepBox
<1>2. CASE ControllerNext
  <2>1. ASSUME NEW o \in Owners, Pauses(o) \/ Backend(o) \/ \E r \in RunIDs : Take(o, r)
        PROVE  BoxInv' /\ Lawful /\ accepted' = accepted
    BY <2>1, WaitingKeepsBox, ReportKeepsBox, BackendKeepsBox, TakeKeepsBox
  <2> QED BY <1>2, <2>1, Cases, OutsideKeepsBox
<1> QED BY <1>1, <1>2

LEMMA InitBox == ControllerInit => BoxInv
<1> SUFFICES ASSUME ControllerInit PROVE BoxInv
  OBVIOUS
<1>1. /\ NoBox \in Box /\ NoBox.label = None /\ NoBox.volumes = None /\ NoBox.token = None
      /\ NoBox.runtime = "absent" /\ NoBox.grants = None
  BY DEF NoBox, Box
<1>2. \A r \in RunIDs : BoxOK(runs[r], box[r])
  BY <1>1 DEF ControllerInit, BoxOK
<1>3. \A o \in Owners : proc[o].pc = "off"
  BY DEF ControllerInit, Unborn
<1>4. \A o \in Owners : Working(proc[o], runs, box) /\ ~Live(o)
  BY <1>3, PCSets DEF Working, Live
<1> QED BY <1>1, <1>2, <1>4 DEF ControllerInit, BoxInv

LEMMA BoxInvariant ==
  ASSUME OneController
  PROVE  ControllerSpec => [](ClaimInv /\ BoxInv)
<1>1. ControllerInit => ClaimInv /\ BoxInv
  BY InitClaims, InitBox
<1>2. ClaimInv /\ BoxInv /\ [ControllerNext]_vars => (ClaimInv /\ BoxInv)'
  BY StepKeepsClaims, StepKeepsBox
<1> QED BY <1>1, <1>2, PTL DEF ControllerSpec

(* While a process works on a run, the run has not ended.                                       *)
LEMMA NothingEnsured ==
  ASSUME ClaimInv, BoxInv, NEW r \in RunIDs, ~IsActive(runs[r]) \/ runs[r].deleted
  PROVE  ~Ensuring(r)
<1>1. SUFFICES ASSUME NEW o \in Owners, Work(o).run = r, proc[o].pc \in EnsurePCs PROVE FALSE
  BY DEF Ensuring
<1>2. proc[o].pc \in BusyPCs
  BY <1>1, PCSets
<1>3. IsActive(runs[r]) /\ ~runs[r].deleted
  BY <1>1, <1>2, BusyRun
<1> QED BY <1>3

(* What has ended leaves nothing behind: a tombstone holds no container, volume, network or       *)
(* broker registration, a run reported completed, failed or expired no runtime and no grants,       *)
(* and no Ensure is on its way to create any, wherever crashes and failures of Docker or of the      *)
(* broker cut an Ensure, a rollback or a cleanup off.  For every number of runs, snapshots and        *)
(* restarts, where one controller process runs at a time.                                       *)
THEOREM EndedRunsHoldNothing ==
  ASSUME OneController
  PROVE  ControllerSpec => []NothingLeftBehind
<1>1. ASSUME ClaimInv, BoxInv PROVE NothingLeftBehind
  <2>1. ControllerTypeOK
    <3>1. ASSUME NEW o \in Owners
          PROVE  proc[o].pc \in PCs /\ (proc[o].pc \in BusyPCs <=> proc[o].work # NoWork)
      <4>1. ProcOK(proc[o], runs)
        BY <1>1 DEF ClaimInv
      <4>2. proc[o].pc \in BusyPCs => proc[o].work.revision # 0
        BY <4>1 DEF ProcOK, PinOK, WorkTyped
      <4>3. NoWork.revision = 0
        BY DEF NoWork
      <4> QED BY <4>1, <4>2, <4>3 DEF ProcOK
    <3> QED BY <1>1, <3>1 DEF ControllerTypeOK, ClaimInv, BoxInv, TableInv
  <2>2. TombstonesHoldNothing
    BY <1>1, NothingEnsured DEF TombstonesHoldNothing, BoxInv, BoxOK
  <2>3. TerminalRunsHoldNoRuntime
    <3>1. ASSUME NEW r \in RunIDs, IsTerminal(runs[r])
          PROVE  box[r].runtime = "absent" /\ box[r].grants = None /\ ~Ensuring(r)
      <4>1. ~Ensuring(r)
        BY <1>1, <3>1, NothingEnsured
      <4> QED BY <1>1, <3>1, <4>1 DEF BoxInv, BoxOK
    <3> QED BY <3>1 DEF TerminalRunsHoldNoRuntime
  <2> QED BY <2>1, <2>2, <2>3 DEF NothingLeftBehind
<1> QED BY <1>1, BoxInvariant, PTL

(* A stop does what was asked for: volumes are removed only where deletion was requested or the     *)
(* run keeps none; a replacement gets its new ownership only when nothing of the previous run is      *)
(* left; and a DELETE that was answered 202 is never taken back, unless the run is being replaced.     *)
(* For every number of runs, snapshots and restarts, where one controller process runs at a time.     *)
THEOREM StopsDoAsAsked ==
  ASSUME OneController
  PROVE  ControllerSpec => StopsAsAsked
<1>1. ASSUME ClaimInv, BoxInv, [ControllerNext]_vars
      PROVE  /\ \A r \in RunIDs : box[r].volumes # None /\ box'[r].volumes = None
                  => runs[r].deleteRequested \/ runs[r].snapshot \notin Persistent
             /\ \A r \in RunIDs : runs[r].state # "absent" /\ runs'[r].ownership # runs[r].ownership
                  => box[r] = NoBox
             /\ \A r \in accepted' : (r \in accepted => Doomed(runs[r])) /\ runs[r].reason # Replacement
                  => Doomed(runs'[r])
  <2>1. /\ Lawful
        /\ \/ accepted' = accepted
           \/ \E r \in RunIDs : accepted' = accepted \cup {r} /\ Doomed(runs'[r])
    BY <1>1, StepKeepsBox
  <2>2. ASSUME NEW r \in accepted', r \in accepted => Doomed(runs[r]), runs[r].reason # Replacement
        PROVE  Doomed(runs'[r])
    <3>1. CASE r \in accepted
      BY <1>1, <2>1, <2>2, <3>1 DEF BoxInv, Lawful, Dooms
    <3>2. CASE r \notin accepted
      BY <2>1, <2>2, <3>2
    <3> QED BY <3>1, <3>2
  <2> QED BY <2>1, <2>2 DEF Lawful
<1>2. ControllerSpec => VolumesSurvive
  <2>1. ClaimInv /\ BoxInv /\ [ControllerNext]_vars =>
          [\A r \in RunIDs : box[r].volumes # None /\ box'[r].volumes = None
             => runs[r].deleteRequested \/ runs[r].snapshot \notin Persistent]_vars
    BY <1>1
  <2> QED BY <2>1, BoxInvariant, PTL DEF ControllerSpec, VolumesSurvive
<1>3. ControllerSpec => ReplacementStartsClean
  <2>1. ClaimInv /\ BoxInv /\ [ControllerNext]_vars =>
          [\A r \in RunIDs : runs[r].state # "absent" /\ runs'[r].ownership # runs[r].ownership
             => box[r] = NoBox]_vars
    BY <1>1
  <2> QED BY <2>1, BoxInvariant, PTL DEF ControllerSpec, ReplacementStartsClean
<1>4. ControllerSpec => AcceptedDeletesStick
  <2>1. ClaimInv /\ BoxInv /\ [ControllerNext]_vars =>
          [\A r \in accepted' : (r \in accepted => Doomed(runs[r])) /\ runs[r].reason # Replacement
             => Doomed(runs'[r])]_vars
    BY <1>1
  <2> QED BY <2>1, BoxInvariant, PTL DEF ControllerSpec, AcceptedDeletesStick
<1> QED BY <1>2, <1>3, <1>4 DEF StopsAsAsked
-----------------------------------------------------------------------------
(* What a run executes.  Inventories only roll out documents that the backend supports:    *)
(* one that it rejects is aborted, and an abort after an interrupted rollout leaves the      *)
(* run with what that rollout made of it.                                                *)
RolloutsSupported == Rollable \cap Unsupported = {}

Waiting(row) == row.state \in {"absent", "pending"} \/ IsTerminal(row)
Serving(row) == row.state = "running" \/ (row.state = "preparing" /\ row.pending = None)
Goal(row) == IF row.pending # None THEN row.pending ELSE row.snapshot

(* Grants are those of the configuration that is up; only a removed runtime has none.        *)
Matched(b) ==
  /\ b.runtime = "up" /\ b.grants # None => b.grants = b.config
  /\ b.config = None <=> b.runtime = "absent"

Serves(b, s) == b.runtime # "paused" /\ b.config \in {None, s} /\ b.grants \in {None, s}

HoldsOK(row, b) ==
  /\ Matched(b)
  /\ Waiting(row) => b.runtime = "absent" /\ b.grants = None
  /\ Serving(row) => Serves(b, row.snapshot)

(* How far a rollout has come: the runtime is stopped before the grants change, and both are   *)
(* the desired ones once it is up again.                                                  *)
Applied(pc, b, w) ==
  /\ pc \in {"upsert", "volumes", "compose", "restore"} => b.runtime # "up"
  /\ pc \in {"volumes", "compose", "observe"} => b.grants = w.desired
  /\ pc = "observe" => b.config = w.desired /\ b.runtime # "paused"

(* An Ensure that is not a rollout finds what the row says, and a rollout is for a row that      *)
(* nobody takes for running.                                                              *)
EnsureOK(p, row, b) ==
  /\ ~Waiting(row) /\ (p.work.stopped => Rollout(p.work))
  /\ p.pc \in {"rollback", "restore"} => Rollout(p.work)
  /\ Rollout(p.work) => p.work.desired \notin Unsupported /\ ~Serving(row) /\ Applied(p.pc, b, p.work)
  /\ ~Rollout(p.work) => Serves(b, p.work.desired) /\ (Serving(row) => row.snapshot = p.work.desired)

ServeOK(p, row, b) ==
  /\ p.pc # "abort"
  /\ row.revision = p.work.revision => Goal(row) = p.work.desired
  /\ p.pc \in PreparingPCs => EnsureOK(p, row, b)
  /\ p.pc = "report" /\ p.work.to = "running" => Serves(b, p.work.desired)

Serviced(p, table, boxes) == p.pc \in BusyPCs => ServeOK(p, table[p.work.run], boxes[p.work.run])

ServeInv ==
  /\ \A r \in RunIDs : HoldsOK(runs[r], box[r])
  /\ \A o \in Owners : Serviced(proc[o], runs, box)

(* What others may do to a row: nobody but a status report has it wait again or take up its      *)
(* service, or changes the snapshot of a row that is in service.                           *)
Stays(row, new) ==
  /\ Waiting(new) => Waiting(row)
  /\ Serving(new) => Serving(row) /\ new.snapshot = row.snapshot

LEMMA StaysOn ==
  ASSUME NEW a, NEW b, NEW c
  PROVE  Stays(a, a) /\ (Stays(a, b) /\ Stays(b, c) => Stays(a, c))
BY DEF Stays

LEMMA OutOfService ==
  ASSUME NEW row, NEW new, new.state = "stopping" \/ (new.state = "preparing" /\ new.pending # None)
  PROVE  Stays(row, new)
BY DEF Stays, Waiting, Serving

LEMMA SweepStays ==
  ASSUME NEW r \in RunIDs, NEW row, ValidRow(r, row)
  PROVE  Stays(row, sweepTx(row))
<1>1. PICK new : new = sweepTx(row)
  OBVIOUS
<1>2. row \in Row
  BY NoRowTyped DEF ValidRow, GoodRow
<1>3. CASE DeadlineDue(row)
  <2>1. new.state = "stopping"
    BY <1>1, <1>2, <1>3 DEF sweepTx, Overdue, Released, Row
  <2> QED BY <1>1, <2>1, OutOfService
<1>4. CASE ~DeadlineDue(row) /\ RetentionDue(row)
  <2>1. new.state = "stopping"
    BY <1>1, <1>2, <1>4 DEF sweepTx, Retired, Row
  <2> QED BY <1>1, <2>1, OutOfService
<1>5. CASE ~DeadlineDue(row) /\ ~RetentionDue(row)
  BY <1>5, StaysOn DEF sweepTx
<1> QED BY <1>3, <1>4, <1>5

LEMMA AmendedStays ==
  ASSUME NEW table, NEW c \in Candidate, NEW reclaim \in BOOLEAN, NEW replace \in BOOLEAN,
         NEW r, r = RunOf[c.snapshot], NEW row, row = table[r], ValidRow(r, row),
         NEW v, v = Verdict(table, c, reclaim, replace), v # "refused", NEW new, new = Amended(row, c, v)
  PROVE  Stays(row, new)
<1>1. row \in Row
  BY NoRowTyped DEF ValidRow, GoodRow
<1>2. Judgement(row, c, v, reclaim, replace)
  BY Judged
<1>3. CASE v = "new"
  <2>1. row.state = "absent" /\ new.state = "pending"
    BY <1>2, <1>3 DEF Judgement, Amended, InsertedRow, NoRow
  <2> QED BY <2>1 DEF Stays, Waiting, Serving
<1>4. CASE v = "replay"
  BY <1>4, StaysOn DEF Amended
<1>5. CASE v = "update" \/ v = "cancel"
  <2>1. PICK s : new = Staged(row, s) /\ s \in {c.snapshot, row.snapshot} /\ (v = "update" => s = c.snapshot)
    BY <1>5 DEF Amended
  <2>2. c.snapshot # None /\ c.key # None
    BY StoreConstants DEF Candidate
  <2>3. v = "cancel" => row.snapshot # None
    <3>1. row # NoRow
      BY <1>2, <1>5, <2>2 DEF Judgement, NoRow
    <3> QED BY <3>1, StoreConstants DEF ValidRow, GoodRow, validateStoredRun
  <2>4. new.state = "preparing" /\ new.pending = s
    BY <1>1, <2>1 DEF Staged, Released, Row
  <2> QED BY <1>5, <2>1, <2>2, <2>3, <2>4, OutOfService
<1>6. CASE v = "restart" \/ v = "restartUpdate"
  <2>1. PICK s : new = Restarted(row, s)
    BY <1>6 DEF Amended
  <2>2. IsTerminal(row) /\ new.state = "pending"
    BY <1>1, <1>2, <1>6, <2>1, Rewritten DEF Judgement
  <2> QED BY <2>2 DEF Stays, Waiting, Serving
<1>7. CASE v = "replace" \/ v = "terminalReplace"
  <2>1. new.state = "stopping"
    BY <1>1, <1>7, Rewritten DEF Amended
  <2> QED BY <2>1, OutOfService
<1> QED BY <1>2, <1>3, <1>4, <1>5, <1>6, <1>7 DEF Judgement

LEMMA BatchStays ==
  ASSUME TableInv, Ready, NEW batch \in SUBSET Candidate,
         NEW reclaim \in BOOLEAN, NEW prune \in BOOLEAN, NEW replace \in BOOLEAN, NEW acknowledged \in BOOLEAN,
         createBatch(Swept, batch, reclaim, prune, replace, acknowledged), NEW r \in RunIDs
  PROVE  Stays(runs[r], runs'[r])
<1> DEFINE verdict(c) == Verdict(Swept, c, reclaim, replace)
           pruned == IF prune THEN Prunable(Swept, batch) ELSE {}
           mine == CHOOSE d \in batch : RunOf[d.snapshot] = r
<1>1. runs'[r] = IF \E c \in batch : RunOf[c.snapshot] = r
                 THEN Amended(Swept[r], mine, verdict(mine))
                 ELSE IF r \in pruned THEN PrunedRow(Swept[r]) ELSE Swept[r]
  BY DEF createBatch
<1>2. \A c \in batch : verdict(c) # "refused"
  BY DEF createBatch
<1>3. PICK row : row = Swept[r] /\ ValidRow(r, row) /\ row \in Row
  BY SweptValid, NoRowTyped DEF ValidRow, GoodRow
<1>4. Stays(runs[r], row)
  BY <1>3, ReadyValid, SweepStays DEF Swept
<1>5. PICK new : new = runs'[r]
  OBVIOUS
<1>6. Stays(row, new)
  <2>1. CASE \E c \in batch : RunOf[c.snapshot] = r
    <3>1. PICK c \in batch : c = mine /\ RunOf[c.snapshot] = r
      BY <2>1
    <3>2. PICK v : v = verdict(c) /\ v # "refused"
      BY <1>2
    <3>3. new = Amended(row, c, v)
      BY <1>1, <1>3, <1>5, <2>1, <3>1, <3>2
    <3> HIDE DEF mine
    <3>4. c \in Candidate /\ row = Swept[RunOf[c.snapshot]] /\ v = Verdict(Swept, c, reclaim, replace)
      BY <1>3, <3>1, <3>2
    <3> QED BY <1>3, <3>1, <3>2, <3>3, <3>4, AmendedStays
  <2>2. CASE ~(\E c \in batch : RunOf[c.snapshot] = r) /\ r \in pruned
    <3>1. new.state = "stopping"
      BY <1>1, <1>3, <1>5, <2>2, Rewritten
    <3> QED BY <3>1, OutOfService
  <2>3. CASE ~(\E c \in batch : RunOf[c.snapshot] = r) /\ r \notin pruned
    BY <1>1, <1>3, <1>5, <2>3, StaysOn
  <2> QED BY <2>1, <2>2, <2>3
<1> QED BY <1>4, <1>5, <1>6, StaysOn

(* An operation that sweeps and then rewrites one row.                                     *)
LEMMA OneRowStays ==
  ASSUME TableInv, Ready, NEW r \in RunIDs, NEW new, runs' = [Swept EXCEPT ![r] = new], NEW q \in RunIDs,
         q # r \/ Stays(Swept[r], new)
  PROVE  Stays(runs[q], runs'[q])
<1>1. PICK row, mid, next : row = runs[q] /\ mid = Swept[q] /\ next = runs'[q]
  OBVIOUS
<1>2. Stays(row, mid)
  BY <1>1, ReadyValid, SweepStays DEF Swept
<1>3. next = IF q = r THEN new ELSE mid
  BY <1>1 DEF Swept
<1> QED BY <1>1, <1>2, <1>3, StaysOn

Steady == \A r \in RunIDs : Stays(runs[r], runs'[r])

LEMMA SweepSteady == ASSUME TableInv, Sweep PROVE Steady
<1> SUFFICES ASSUME NEW r \in RunIDs PROVE Stays(runs[r], runs'[r])
  BY DEF Steady
<1>1. ValidRow(r, runs[r]) /\ runs'[r] = sweepTx(runs[r])
  BY ReadyValid DEF Sweep, Swept
<1> QED BY <1>1, SweepStays

LEMMA SameSteady == ASSUME runs' = runs PROVE Steady
BY StaysOn DEF Steady

LEMMA StopSteady ==
  ASSUME TableInv, NEW r \in RunIDs, NEW del \in BOOLEAN, requestStop(r, del)
  PROVE  Steady
<1>1. PICK row : row = Swept[r] /\ ValidRow(r, row) /\ row \in Row /\ Ready
  BY SweptValid, NoRowTyped DEF requestStop, ValidRow, GoodRow
<1>2. PICK new : new = StopRow(row, del)
  OBVIOUS
<1>3. new.state = "stopping"
  BY <1>1, <1>2 DEF StopRow, Retired, Stopped, Released, Row
<1>4. Stays(row, new)
  BY <1>3, OutOfService
<1>5. runs' = [Swept EXCEPT ![r] = new]
  BY <1>1, <1>2 DEF requestStop
<1> QED BY <1>1, <1>4, <1>5, OneRowStays DEF Steady

LEMMA ClaimSteady ==
  ASSUME TableInv, NEW r \in RunIDs, NEW o, Ready, Swept[r] \in Row, runs' = [Swept EXCEPT ![r] = Held(Swept[r], o)]
  PROVE  Steady
<1>1. PICK row, new : row = Swept[r] /\ new = Held(row, o) /\ row \in Row
  OBVIOUS
<1>2. new.state = row.state /\ new.pending = row.pending /\ new.snapshot = row.snapshot
  BY <1>1 DEF Held, Row
<1>3. Stays(row, new)
  BY <1>2 DEF Stays, Waiting, Serving
<1> QED BY <1>1, <1>3, OneRowStays DEF Steady

LEMMA CreateSteady == ASSUME TableInv, NEW c \in Requests, Create(c) PROVE Steady
<1>1. {c} \in SUBSET Candidate /\ Ready
  BY CallerInputs DEF Create
<1>2. createBatch(Swept, {c}, FALSE, FALSE, FALSE, FALSE)
  BY DEF Create
<1> QED BY <1>1, <1>2, BatchStays DEF Steady

LEMMA BootSteady == ASSUME ClaimInv, Boot(document) PROVE Steady
<1>1. PICK d : d = document /\ d \in Inventories /\ Boot(d)
  BY DEF ClaimInv
<1>2. /\ d.batch \in SUBSET Candidate
      /\ d.prune \in BOOLEAN /\ d.replace \in BOOLEAN /\ d.acknowledged \in BOOLEAN
  BY <1>1, CallerInputs
<1>3. Ready /\ createBatch(Swept, d.batch, TRUE, d.prune, d.replace, d.acknowledged)
  BY <1>1 DEF Boot, ReconcileWorkstations
<1> QED BY <1>2, <1>3, BatchStays DEF Steady, ClaimInv

LEMMA AgeSteady == ASSUME TableInv, TimePasses PROVE Steady
<1> SUFFICES ASSUME NEW q \in RunIDs PROVE Stays(runs[q], runs'[q])
  BY DEF Steady
<1>1. PICK r \in RunIDs : DeadlinePasses(r) \/ RetentionPasses(r) \/ LeasePasses(r)
  BY DEF TimePasses
<1>2. PICK row, new : row = runs[q] /\ new = runs'[q] /\ row \in Row
  BY DEF TableInv
<1>3. new.state = row.state /\ new.pending = row.pending /\ new.snapshot = row.snapshot
  BY <1>1, <1>2 DEF TableInv, DeadlinePasses, RetentionPasses, LeasePasses, Row
<1> QED BY <1>2, <1>3 DEF Stays, Waiting, Serving

LEMMA OutsideSteady == ASSUME ClaimInv, Outside PROVE Steady
<1>1. TableInv
  BY DEF ClaimInv
<1>2. CASE Call
  <2>1. ASSUME NEW r \in RunIDs, DeleteCall(r) PROVE Steady
    BY <1>1, <2>1, SweepSteady, StopSteady DEF DeleteCall, Sweep, Delete
  <2>2. ASSUME NEW r \in RunIDs, Cancel(r) PROVE Steady
    BY <1>1, <2>2, StopSteady DEF Cancel
  <2>3. ASSUME \E c \in Requests : Create(c) PROVE Steady
    BY <1>1, <2>3, CreateSteady
  <2> QED BY <1>2, <2>1, <2>2, <2>3 DEF Call
<1>3. CASE Edit \/ Clock \/ PeriodicSweep \/ \E r \in RunIDs : RuntimeExits(r)
  <2>1. UNCHANGED runs \/ TimePasses \/ Sweep
    BY <1>3 DEF Edit, Clock, PeriodicSweep, TimePasses, RuntimeExits
  <2> QED BY <1>1, <2>1, SameSteady, AgeSteady, SweepSteady
<1> QED BY <1>2, <1>3 DEF Outside

LEMMA GoalKept ==
  ASSUME TableInv, TableInv', [Next]_runs, NEW q \in RunIDs, runs'[q].revision = runs[q].revision
  PROVE  Goal(runs'[q]) = Goal(runs[q])
<1>1. runs[q].revision \in Nat
  BY DEF TableInv, Row
<1>2. CASE Later(runs[q], runs'[q])
  BY <1>1, <1>2 DEF Later
<1>3. CASE SameContent(runs[q], runs'[q])
  BY <1>3 DEF SameContent, Content, Goal
<1> QED BY <1>2, <1>3, StepsForward DEF StepOrAge

(* Rows move on under an operation.                                                        *)
LEMMA HoldsOn ==
  ASSUME NEW row, NEW new, NEW b, HoldsOK(row, b), Stays(row, new)
  PROVE  HoldsOK(new, b)
BY DEF HoldsOK, Stays

LEMMA ServeOn ==
  ASSUME NEW p, NEW row, NEW new, NEW b, ServeOK(p, row, b), Stays(row, new),
         row.revision = p.work.revision \/ new.revision # p.work.revision,
         new.revision = row.revision => Goal(new) = Goal(row)
  PROVE  ServeOK(p, new, b)
<1>1. ASSUME EnsureOK(p, row, b) PROVE EnsureOK(p, new, b)
  BY <1>1 DEF EnsureOK, Stays
<1> QED BY <1>1 DEF ServeOK

LEMMA ServeStays ==
  ASSUME ClaimInv, ServeInv, NEW q \in Owners, Steady, [Next]_runs, box' = box
  PROVE  Serviced(proc[q], runs', box')
<1>1. PICK p : p = proc[q]
  OBVIOUS
<1> SUFFICES ASSUME p.pc \in BusyPCs PROVE ServeOK(p, runs'[p.work.run], box[p.work.run])
  BY <1>1 DEF Serviced
<1>2. PICK r \in RunIDs : r = p.work.run
  BY <1>1, BusyWork DEF WorkTyped, Work
<1>3. TableInv /\ TableInv'
  BY NextKeepsInv DEF ClaimInv
<1>4. PICK row, new : row = runs[r] /\ new = runs'[r] /\ row.revision \in Nat /\ new.revision \in Nat
  BY <1>3 DEF TableInv, Row
<1>5. Forward(row, new) /\ Stays(row, new) /\ (new.revision = row.revision => Goal(new) = Goal(row))
  BY <1>3, <1>4, TableForward, GoalKept DEF Steady
<1>6. p.work.revision \in Nat /\ p.work.revision <= row.revision
  BY <1>1, <1>2, <1>4, BusyWork DEF PinOK, WorkTyped, Work
<1>7. row.revision = p.work.revision \/ new.revision # p.work.revision
  BY <1>4, <1>5, <1>6 DEF Forward
<1>8. ServeOK(p, row, box[r])
  BY <1>1, <1>2, <1>4 DEF ServeInv, Serviced
<1> QED BY <1>2, <1>4, <1>5, <1>7, <1>8, ServeOn

LEMMA RowsServe ==
  ASSUME ServeInv, Steady, box' = box
  PROVE  \A r \in RunIDs : HoldsOK(runs'[r], box'[r])
BY HoldsOn DEF ServeInv, Steady

LEMMA OthersServe ==
  ASSUME NEW o \in Owners, OnlyProc(o), Alone(o), Serviced(proc'[o], runs', box'),
         \A r \in RunIDs : HoldsOK(runs'[r], box'[r])
  PROVE  ServeInv'
<1>1. \A q \in Owners : q # o => proc'[q].pc \in {"off", "dead"}
  BY DEF OnlyProc, Alone
<1>2. (\A q \in Owners : Serviced(proc[q], runs, box))'
  BY <1>1, PCSets DEF Serviced
<1> QED BY <1>2 DEF ServeInv

LEMMA CallersServe ==
  ASSUME ClaimInv, ServeInv, Steady, [Next]_runs, proc' = proc, box' = box
  PROVE  ServeInv'
<1>1. (\A q \in Owners : Serviced(proc[q], runs, box))'
  BY ServeStays
<1> QED BY <1>1, RowsServe DEF ServeInv

LEMMA IdleServes ==
  ASSUME ServeInv, Steady, NEW o \in Owners, OnlyProc(o), Alone(o), box' = box, proc'[o].pc \notin BusyPCs
  PROVE  ServeInv'
<1>1. Serviced(proc'[o], runs', box')
  BY DEF Serviced
<1> QED BY <1>1, RowsServe, OthersServe

LEMMA ExitHolds ==
  ASSUME NEW b, NEW c, b.runtime = "up", c.runtime = "exited", c.config = b.config, c.grants = b.grants
  PROVE  /\ \A row : HoldsOK(row, b) => HoldsOK(row, c)
         /\ \A p, row : ServeOK(p, row, b) => ServeOK(p, row, c)
<1>1. \A row : HoldsOK(row, b) => HoldsOK(row, c)
  BY DEF HoldsOK, Matched, Serves
<1>2. ASSUME NEW p, NEW row, EnsureOK(p, row, b) PROVE EnsureOK(p, row, c)
  BY <1>2 DEF EnsureOK, Serves, Applied
<1>3. \A s : Serves(b, s) => Serves(c, s)
  BY DEF Serves
<1> QED BY <1>1, <1>2, <1>3 DEF ServeOK

LEMMA ExitServes ==
  ASSUME ClaimInv, BoxInv, ServeInv, NEW r \in RunIDs, RuntimeExits(r)
  PROVE  ServeInv'
<1>1. UNCHANGED <<runs, proc>> /\ box[r].runtime = "up" /\ box' = [box EXCEPT ![r].runtime = "exited"]
  BY DEF RuntimeExits
<1>2. PICK b, c : /\ b = box[r] /\ c = box'[r] /\ b.runtime = "up" /\ c.runtime = "exited"
                  /\ c.config = b.config /\ c.grants = b.grants
  BY <1>1 DEF BoxInv, Box
<1>0. \A p, row : ServeOK(p, row, b) => ServeOK(p, row, c)
  BY <1>2, ExitHolds
<1>3. \A q \in RunIDs : q # r => box'[q] = box[q]
  BY <1>1 DEF BoxInv
<1>4. ASSUME NEW q \in RunIDs PROVE HoldsOK(runs'[q], box'[q])
  BY <1>1, <1>2, <1>3, ExitHolds DEF ServeInv
<1>5. ASSUME NEW o \in Owners PROVE Serviced(proc'[o], runs', box')
  <2>1. PICK p : p = proc[o]
    OBVIOUS
  <2> SUFFICES ASSUME p.pc \in BusyPCs PROVE ServeOK(p, runs[p.work.run], box'[p.work.run])
    BY <1>1, <2>1 DEF Serviced
  <2>2. p.work.run \in RunIDs
    BY <2>1, BusyWork DEF WorkTyped, Work
  <2>3. ServeOK(p, runs[p.work.run], box[p.work.run])
    BY <2>1 DEF ServeInv, Serviced
  <2>4. CASE p.work.run = r
    BY <1>0, <1>2, <2>3, <2>4
  <2>5. CASE p.work.run # r
    BY <1>3, <2>2, <2>3, <2>5
  <2> QED BY <2>4, <2>5
<1> QED BY <1>4, <1>5 DEF ServeInv

LEMMA OutsideServes ==
  ASSUME ClaimInv, BoxInv, ServeInv, Outside
  PROVE  ServeInv'
<1>1. Steady /\ [Next]_runs /\ proc' = proc
  BY OutsideSteady, OutsideKeeps
<1>2. CASE Call \/ Edit \/ Clock \/ PeriodicSweep
  <2>1. box' = box
    BY <1>2 DEF Call, Edit, Clock, PeriodicSweep, controllerVars
  <2> QED BY <1>1, <2>1, CallersServe
<1> QED BY <1>2, ExitServes DEF Outside

(* Processes that come, go, and look for work; none of them gives a rollout up.              *)
LEMMA WaitingServes ==
  ASSUME OneController, ClaimInv, BoxInv, ServeInv, NEW o \in Owners, Pauses(o), ~ReportStatus(o)
  PROVE  ServeInv'
<1>1. OnlyProc(o) /\ proc'[o].pc \notin BusyPCs
  BY PausesKeep, PCSets
<1>2. ~Abort(o)
  BY DEF Abort, At, ServeInv, Serviced, ServeOK, BusyPCs
<1>3. box' = box /\ TableInv
  BY <1>2 DEF Pauses, Start, Crash, List, NextPass, Healthy, Skip, ClaimInv
<1>4. Alone(o)
  <2>1. CASE ~Start(o)
    <3>1. Live(o)
      BY <1>2, <2>1 DEF Pauses, Crash, List, NextPass, Healthy, Skip, At, Live
    <3> QED BY <3>1 DEF BoxInv
  <2> QED BY <2>1, StartsAlone
<1>5. Steady
  <2>1. UNCHANGED runs \/ Boot(document) \/ Sweep
    BY <1>2 DEF Pauses, Start, Boot, Crash, List, NextPass, Healthy, Skip, Sweep
  <2> QED BY <1>3, <2>1, SameSteady, BootSteady, SweepSteady
<1> QED BY <1>1, <1>3, <1>4, <1>5, IdleServes

LEMMA ClaimedGoal ==
  ASSUME ClaimInv, NEW o \in Owners, NEW r \in RunIDs, Take(o, r), NEW w, w = Claimed(o, r)
  PROVE  /\ w.desired = Goal(Swept[r]) /\ (Rollout(w) <=> Swept[r].pending # None) /\ ~w.stopped
<1>1. PICK row : row = Swept[r] /\ row.snapshot # None
  BY TakesClaim, StoreConstants DEF GoodRow, validateStoredRun
<1>2. w = [NoWork EXCEPT !.run = r, !.revision = row.revision + 1,
             !.desired = IF row.pending # None THEN row.pending ELSE row.snapshot, !.ownership = row.ownership,
             !.previous = IF row.pending # None THEN row.snapshot ELSE None,
             !.deleteRequested = row.deleteRequested]
  BY <1>1 DEF Claimed
<1>3. /\ w.desired = IF row.pending # None THEN row.pending ELSE row.snapshot
      /\ w.previous = IF row.pending # None THEN row.snapshot ELSE None
      /\ w.stopped = FALSE
  BY <1>2 DEF NoWork
<1> QED BY <1>1, <1>3 DEF Goal, Rollout

(* A claim never leads straight to the report that a run is running.                        *)
LEMMA TakeReports ==
  ASSUME ClaimInv, NEW o \in Owners, NEW r \in RunIDs, Take(o, r), proc'[o].pc = "report"
  PROVE  proc'[o].work.to # "running"
<1>1. PICK w : w = Claimed(o, r) /\ WorkTyped(w)
  BY ClaimedWork
<1>2. PICK pc, x : /\ Enter(o, r, pc, x)
                   /\ \/ pc \in {"preflight", "unregister"}
                      \/ \E to \in {"preparing", "stopping"}, target \in Terminal \cup {None} :
                           x = Reporting(w, to, target)
  BY <1>1 DEF Take, Outcomes
<1>3. proc'[o].pc = pc /\ proc'[o].work = x
  BY <1>2, Enters
<1>4. PICK to \in {"preparing", "stopping"}, target \in Terminal \cup {None} : x = Reporting(w, to, target)
  BY <1>2, <1>3
<1>5. x.to = to
  BY <1>1, <1>4, ReportingSame
<1> QED BY <1>3, <1>5

LEMMA TakeServes ==
  ASSUME RolloutsSupported, ClaimInv, BoxInv, ServeInv, NEW o \in Owners, NEW r \in RunIDs, Take(o, r)
  PROVE  ServeInv'
<1>1. box' = box /\ Alone(o) /\ OnlyProc(o) /\ TableInv
  BY TakeLeads DEF Take, Live, BoxInv, ClaimInv
<1>2. PICK row : row = Swept[r] /\ GoodRow(r, row) /\ row \in Row
  BY TakesClaim DEF GoodRow
<1>3. PICK new : new = runs'[r] /\ new = Held(row, o)
  BY <1>2, TakesClaim DEF Swept
<1>4. new.state = row.state /\ new.pending = row.pending /\ new.snapshot = row.snapshot
  BY <1>2, <1>3 DEF Held, Row
<1>5. Steady
  BY <1>1, <1>2, TakesClaim, ClaimSteady
<1>6. PICK b : b = box[r] /\ HoldsOK(new, b)
  BY <1>1, <1>3, <1>5, RowsServe
<1>7. PICK w : /\ w = Claimed(o, r) /\ WorkTyped(w) /\ w.run = r
               /\ w.desired = Goal(row) /\ (Rollout(w) <=> row.pending # None) /\ ~w.stopped
  BY <1>2, ClaimedWork, ClaimedGoal
<1>8. PICK p : p = proc'[o]
  OBVIOUS
<1>9. Goal(new) = w.desired
  BY <1>4, <1>7 DEF Goal
<1>10. ServeOK(p, new, b) /\ p.work.run = r
  <2>1. CASE p.pc = "report" /\ \E to \in Active, target \in Terminal \cup {None} : p.work = Reporting(w, to, target)
    <3>1. SameClaim(p.work, w) /\ p.work.to # "running"
      BY <1>7, <1>8, <2>1, ReportingSame, TakeReports
    <3> QED BY <1>7, <1>9, <2>1, <3>1 DEF ServeOK, SameClaim, PreparingPCs, EnsurePCs
  <2>2. CASE p.pc = "preflight" /\ p.work = w /\ row.state = "preparing"
    <3>1. ~Waiting(new)
      BY <1>4, <2>2 DEF Waiting
    <3>2. ASSUME Rollout(w) PROVE w.desired \notin Unsupported /\ ~Serving(new)
      <4>1. row.pending # None /\ w.desired = row.pending
        BY <1>7, <3>2 DEF Goal
      <4>2. row.pending \in Rollable
        BY <1>2, <2>2, <4>1 DEF GoodRow, validateStoredRun, workstationUpdateCompatible
      <4> QED BY <1>4, <2>2, <4>1, <4>2 DEF RolloutsSupported, Serving
    <3>3. ASSUME ~Rollout(w) PROVE Serves(b, w.desired) /\ new.snapshot = w.desired
      <4>1. row.pending = None /\ w.desired = row.snapshot
        BY <1>7, <3>3 DEF Goal
      <4>2. Serving(new)
        BY <1>4, <2>2, <4>1 DEF Serving
      <4> QED BY <1>4, <1>6, <4>1, <4>2 DEF HoldsOK
    <3>4. EnsureOK(p, new, b)
      BY <1>7, <2>2, <3>1, <3>2, <3>3 DEF EnsureOK, Applied
    <3> QED BY <1>7, <1>9, <2>2, <3>4 DEF ServeOK
  <2>3. CASE p.pc = "unregister" /\ row.state = "stopping" /\ p.work = Reporting(w, row.target, None)
    <3>1. row.target \in Terminal
      BY <1>2, <2>3 DEF GoodRow, validateStoredRun
    <3>2. SameClaim(p.work, w)
      BY <1>7, <2>3, <3>1, ReportingSame
    <3> QED BY <1>7, <1>9, <2>3, <3>2 DEF ServeOK, SameClaim, PreparingPCs, EnsurePCs
  <2> QED BY <1>2, <1>7, <1>8, <2>1, <2>2, <2>3, TakeLeads DEF TakenTo
<1>11. Serviced(proc'[o], runs', box')
  BY <1>1, <1>3, <1>6, <1>8, <1>10 DEF Serviced
<1> QED BY <1>1, <1>5, <1>11, RowsServe, OthersServe

(* The report that ends an operation.                                                      *)
LEMMA StatusServes ==
  ASSUME NEW r, NEW row, GoodRow(r, row), NEW w, NEW o, Reportable(row, o, w.revision, w.to, w.target, None),
         NEW b, HoldsOK(row, b), Goal(row) = w.desired, w.to \in Terminal => Cleaned(b, w),
         w.to = "running" => Serves(b, w.desired),
         NEW new, new = StatusRow(row, w.to, w.target, "other", None)
  PROVE  HoldsOK(new, b)
<1>1. row \in Row /\ w.to # row.state /\ Matched(b)
  BY DEF Reportable, GoodRow, HoldsOK
<1>2. transitionAllowed(row.state, w.to)
  BY <1>1 DEF Reportable
<1>3. row.pending # None => row.state \in {"stopping", "preparing"}
  BY DEF GoodRow, validateStoredRun
<1>4. CASE row.state = "stopping"
  <2>1. w.to \in Terminal /\ b.runtime = "absent" /\ b.grants = None
    BY <1>2, <1>4 DEF transitionAllowed, Cleaned, Withdrawn, Removed
  <2>2. new = Replaced(row) \/ new = Transitioned(row, w.to, w.target, "other", None)
    BY <1>1, <1>4, <2>1 DEF StatusRow
  <2>3. new.state = "pending" \/ new.state = w.to
    BY <1>1, <2>2 DEF Replaced, Transitioned, Moved, Released, Row
  <2> QED BY <1>1, <2>1, <2>3 DEF HoldsOK, Waiting, Serving
<1>5. CASE w.to = "running"
  <2>1. row.state = "preparing"
    BY <1>2, <1>5 DEF transitionAllowed
  <2>2. new.state = "running" /\ new.snapshot = Goal(row)
    <3>1. CASE row.pending # None
      <4>1. new = Committed(row, w.to, "other", None)
        BY <1>5, <2>1, <3>1 DEF StatusRow
      <4> QED BY <1>1, <1>5, <3>1, <4>1 DEF Committed, Moved, Released, Row, Goal
    <3>2. CASE row.pending = None
      <4>1. new = Transitioned(row, w.to, w.target, "other", None)
        BY <1>5, <2>1, <3>2 DEF StatusRow
      <4> QED BY <1>1, <1>5, <3>2, <4>1 DEF Transitioned, Moved, Released, Row, Goal
    <3> QED BY <3>1, <3>2
  <2> QED BY <1>1, <1>5, <2>2 DEF HoldsOK, Waiting, Serving
<1>6. CASE row.state # "stopping" /\ w.to # "running"
  <2>1. new = Transitioned(row, w.to, w.target, "other", None)
    BY <1>1, <1>6 DEF StatusRow
  <2>2. new.state = w.to /\ new.snapshot = row.snapshot
    BY <1>1, <2>1 DEF Transitioned, Moved, Released, Row
  <2>3. CASE w.to = "stopping"
    BY <1>1, <2>2, <2>3 DEF HoldsOK, Waiting, Serving
  <2>4. CASE w.to = "preparing"
    <3>1. row.state \in {"pending", "running"}
      BY <1>2, <2>4 DEF transitionAllowed
    <3>2. Serves(b, row.snapshot)
      <4>1. CASE row.state = "pending"
        BY <4>1 DEF HoldsOK, Waiting, Matched, Serves
      <4>2. CASE row.state = "running"
        BY <4>2 DEF HoldsOK, Serving
      <4> QED BY <3>1, <4>1, <4>2
    <3> QED BY <1>1, <2>2, <2>4, <3>2 DEF HoldsOK, Waiting
  <2> QED BY <1>2, <1>6, <2>3, <2>4 DEF transitionAllowed
<1> QED BY <1>4, <1>5, <1>6

LEMMA ReportServes ==
  ASSUME ClaimInv, BoxInv, ServeInv, NEW o \in Owners, ReportStatus(o)
  PROVE  ServeInv'
<1>1. box' = box /\ proc[o].pc = "report" /\ Live(o) /\ proc[o].pc \in BusyPCs
  BY DEF ReportStatus, At, Live, BusyPCs
<1>2. OnlyProc(o) /\ Alone(o) /\ proc'[o].pc \notin BusyPCs /\ TableInv
  BY <1>1, ReportIsReport, PCSets DEF BoxInv, ClaimInv
<1>3. PICK w : w = Work(o) /\ WorkTyped(w) /\ PinOK(proc[o], runs[w.run]) /\ w.run \in RunIDs
  BY <1>1, BusyWork DEF WorkTyped
<1>4. WorkOK(proc[o], runs[w.run], box[w.run]) /\ ServeOK(proc[o], runs[w.run], box[w.run])
  BY <1>1, <1>3 DEF BoxInv, Working, ServeInv, Serviced, Work
<1>5. CASE Reportable(Swept[w.run], o, w.revision, w.to, w.target, None)
  <2>1. UpdateStatus(w.run, o, w.revision, w.to, w.target, "other", None)
    BY <1>3, <1>5 DEF ReportStatus
  <2>2. PICK row : row = runs[w.run] /\ row = Swept[w.run]
    BY <1>2, <1>3, <1>5, NotSwept DEF Reportable, PinOK, WorkTyped, Work
  <2>3. Ready /\ GoodRow(w.run, row) /\ row.revision = w.revision
    <3>1. Ready /\ ValidRow(w.run, row)
      BY <1>2, <1>3, <2>1, <2>2, SweptValid DEF UpdateStatus
    <3>2. Visible(row) /\ row.revision = w.revision
      BY <1>5, <2>2 DEF Reportable
    <3> QED BY <3>1, <3>2 DEF Visible, ValidRow, NoRow
  <2>4. PICK new : new = StatusRow(row, w.to, w.target, "other", None)
    OBVIOUS
  <2>5. runs' = [Swept EXCEPT ![w.run] = new] /\ runs'[w.run] = new
    BY <1>3, <2>1, <2>2, <2>4 DEF UpdateStatus, Swept
  <2>6. PICK b : b = box[w.run] /\ HoldsOK(row, b)
    BY <1>3, <2>2 DEF ServeInv
  <2>7. /\ w.to \in Terminal => Cleaned(b, w)
        /\ w.to = "running" => Serves(b, w.desired)
        /\ Goal(row) = w.desired
    BY <1>1, <1>3, <1>4, <2>2, <2>3, <2>6 DEF WorkOK, ServeOK, Work
  <2>8. HoldsOK(new, b)
    BY <1>5, <2>2, <2>3, <2>4, <2>6, <2>7, StatusServes
  <2>9. ASSUME NEW q \in RunIDs PROVE HoldsOK(runs'[q], box'[q])
    <3>1. CASE q = w.run
      BY <1>1, <2>5, <2>6, <2>8, <3>1
    <3>2. CASE q # w.run
      <4>1. Stays(runs[q], runs'[q])
        BY <1>2, <1>3, <2>3, <2>5, <3>2, OneRowStays
      <4> QED BY <1>1, <4>1, HoldsOn DEF ServeInv
    <3> QED BY <3>1, <3>2
  <2>10. Serviced(proc'[o], runs', box')
    BY <1>2 DEF Serviced
  <2> QED BY <1>2, <2>9, <2>10, OthersServe
<1>6. CASE ~Reportable(Swept[w.run], o, w.revision, w.to, w.target, None)
  <2>1. Sweep
    BY <1>3, <1>6 DEF ReportStatus, Sweep
  <2>2. Steady
    BY <1>2, <2>1, SweepSteady
  <2> QED BY <1>1, <1>2, <2>2, IdleServes
<1> QED BY <1>5, <1>6

(* Docker and the broker.                                                                  *)
LEMMA BusyServes ==
  ASSUME ClaimInv, BoxInv, ServeInv, NEW o \in Owners, proc[o].pc \in BusyPCs, NEW w, w = Work(o)
  PROVE  /\ WorkTyped(w) /\ SameClaim(w, w) /\ w.run \in RunIDs /\ w.desired # None /\ box \in [RunIDs -> Box]
         /\ WorkOK(proc[o], runs[w.run], box[w.run])
         /\ ServeOK(proc[o], runs[w.run], box[w.run]) /\ HoldsOK(runs[w.run], box[w.run])
         /\ ~Foreign(box[w.run].label, w) /\ ~Foreign(box[w.run].token, w) /\ ~Foreign(box[w.run].volumes, w)
<1>1. /\ WorkTyped(w) /\ w.run \in RunIDs /\ BoxOK(runs[w.run], box[w.run]) /\ runs[w.run].ownership = w.ownership
      /\ WorkOK(proc[o], runs[w.run], box[w.run])
  BY BusyRun
<1>2. w.desired # None /\ SameClaim(w, w)
  BY <1>1, StoreConstants DEF WorkTyped, SameClaim
<1>3. ServeOK(proc[o], runs[w.run], box[w.run]) /\ HoldsOK(runs[w.run], box[w.run])
  BY <1>1 DEF ServeInv, Serviced, Work
<1> QED BY <1>1, <1>2, <1>3 DEF BoxInv, BoxOK, Foreign

(* A backend step changes what is held of the claimed run only.                              *)
LEMMA BackendServe ==
  ASSUME ClaimInv, BoxInv, NEW o \in Owners, proc[o].pc \in BusyPCs, NEW w, w = Work(o), ServeInv,
         runs' = runs, OnlyProc(o), \A q \in RunIDs : q # w.run => box'[q] = box[q],
         NEW b, b = box'[w.run], HoldsOK(runs[w.run], b), NEW p, p = proc'[o],
         p.pc \in BusyPCs => p.work.run = w.run /\ ServeOK(p, runs[w.run], b)
  PROVE  ServeInv'
<1>1. Alone(o)
  BY BusyRun
<1>2. \A r \in RunIDs : HoldsOK(runs'[r], box'[r])
  BY DEF ServeInv
<1>3. Serviced(proc'[o], runs', box')
  BY DEF Serviced
<1> QED BY <1>1, <1>2, <1>3, OthersServe

LEMMA EnsureHolds ==
  ASSUME NEW p, NEW row, NEW old, EnsureOK(p, row, old), NEW b, Matched(b),
         ~Rollout(p.work) => Serves(b, p.work.desired)
  PROVE  HoldsOK(row, b)
BY DEF EnsureOK, HoldsOK

(* The next step of the Ensure or of its rollback, and the report that ends an operation.       *)
LEMMA EnsureOnward ==
  ASSUME NEW old, NEW row, NEW a, ServeOK(old, row, a), old.pc \in PreparingPCs, NEW p, NEW b,
         p.pc \in EnsurePCs \cup {"rollback", "restore"}, SameClaim(p.work, old.work),
         p.work.stopped => Rollout(old.work), p.pc \in {"rollback", "restore"} => Rollout(old.work),
         Rollout(old.work) => Applied(p.pc, b, old.work),
         ~Rollout(old.work) => Serves(b, old.work.desired)
  PROVE  ServeOK(p, row, b)
<1>1. EnsureOK(old, row, a)
  BY DEF ServeOK
<1>2. Rollout(p.work) <=> Rollout(old.work)
  BY DEF Rollout, SameClaim
<1>3. Applied(p.pc, b, old.work) <=> Applied(p.pc, b, p.work)
  BY DEF Applied, SameClaim
<1>4. p.work.desired = old.work.desired /\ p.work.revision = old.work.revision
  BY DEF SameClaim
<1>5. EnsureOK(p, row, b)
  BY <1>1, <1>2, <1>3, <1>4 DEF EnsureOK
<1>6. p.pc \notin {"abort", "report"}
  BY DEF EnsurePCs
<1> QED BY <1>4, <1>5, <1>6 DEF ServeOK

LEMMA ReportOnward ==
  ASSUME NEW old, NEW row, NEW a, ServeOK(old, row, a), NEW p, NEW b,
         p.pc \in DeletePCs \cup {"report"}, SameClaim(p.work, old.work),
         p.pc = "report" /\ p.work.to = "running" => Serves(b, old.work.desired)
  PROVE  ServeOK(p, row, b)
<1>1. p.pc \notin PreparingPCs /\ p.pc # "abort"
  BY DEF PreparingPCs, EnsurePCs, DeletePCs
<1>2. p.work.desired = old.work.desired /\ p.work.revision = old.work.revision
  BY DEF SameClaim
<1> QED BY <1>1, <1>2 DEF ServeOK

LEMMA PreflightServes ==
  ASSUME ClaimInv, BoxInv, ServeInv, NEW o \in Owners, Preflight(o)
  PROVE  ServeInv'
<1>1. proc[o].pc = "preflight" /\ proc[o].pc \in BusyPCs /\ proc[o].pc \in PreparingPCs /\ runs' = runs
  BY DEF Preflight, At, BusyPCs, EnsurePCs, PreparingPCs
<1>2. PICK w, old, row, a : /\ w = Work(o) /\ old = proc[o] /\ old.work = w /\ row = runs[w.run] /\ a = box[w.run]
                            /\ WorkTyped(w) /\ SameClaim(w, w) /\ w.run \in RunIDs /\ box \in [RunIDs -> Box]
                            /\ ServeOK(old, row, a) /\ HoldsOK(row, a) /\ ~Foreign(a.label, w)
  BY <1>1, BusyServes DEF Work
<1>3. EnsureOK(old, row, a)
  BY <1>1, <1>2 DEF ServeOK
<1>4. PICK p, b : p = proc'[o] /\ b = box'[w.run]
  OBVIOUS
<1>5. CASE w.desired \in Unsupported
  <2>1. ~Rollout(w) /\ ~w.stopped
    BY <1>2, <1>3, <1>5 DEF EnsureOK
  <2>2. Reject(o) /\ box' = box
    BY <1>2, <1>5 DEF Preflight
  <2>3. proc' = [proc EXCEPT ![o].pc = "report", ![o].work = Reporting(w, "stopping", "failed")]
    BY <1>2, <2>1, <2>2 DEF Reject, Work
  <2>4. OnlyProc(o) /\ p.pc = "report" /\ p.work = Reporting(w, "stopping", "failed")
    BY <1>4, <2>3, Moves
  <2>5. SameClaim(p.work, w) /\ p.work.to = "stopping"
    BY <1>2, <2>4, ReportingSame
  <2>6. ServeOK(p, row, b) /\ p.work.run = w.run
    BY <1>2, <2>4, <2>5, ReportOnward DEF SameClaim
  <2> QED BY <1>1, <1>2, <1>4, <2>2, <2>4, <2>6, BackendServe
<1>6. CASE w.desired \notin Unsupported
  <2>1. /\ proc' = [proc EXCEPT ![o].pc = "upsert", ![o].work.stopped = Rollout(w)]
        /\ box' = [box EXCEPT ![w.run].runtime = IF Rollout(w) /\ @ = "up" THEN "paused" ELSE @]
    BY <1>2, <1>6 DEF Preflight
  <2>2. OnlyProc(o) /\ p.pc = "upsert" /\ SameClaim(p.work, w) /\ p.work.stopped = Rollout(w)
    <3>1. PICK v : v = Rollout(w)
      OBVIOUS
    <3>2. proc' = [proc EXCEPT ![o].pc = "upsert", ![o].work.stopped = v]
      BY <2>1, <3>1
    <3>3. DOMAIN proc = Owners /\ DOMAIN proc[o] = ProcFields
      BY DEF ClaimInv, ProcOK
    <3>4. OnlyProc(o) /\ p.pc = "upsert" /\ p.work = [w EXCEPT !.stopped = v]
      BY <1>2, <1>4, <3>2, <3>3 DEF OnlyProc, ProcFields
    <3>5. [w EXCEPT !.stopped = v].stopped = v
      BY <1>2 DEF WorkTyped, WorkFields
    <3>6. SameClaim([w EXCEPT !.stopped = v], w)
      BY <1>2, FlagSame
    <3> QED BY <3>1, <3>4, <3>5, <3>6
  <2>3. /\ b.runtime = IF Rollout(w) /\ a.runtime = "up" THEN "paused" ELSE a.runtime
        /\ b.config = a.config /\ b.grants = a.grants /\ \A q \in RunIDs : q # w.run => box'[q] = box[q]
    BY <1>2, <1>4, <2>1 DEF Box
  <2>4. Matched(b) /\ (~Rollout(w) => Serves(b, w.desired)) /\ (Rollout(w) => b.runtime # "up")
    BY <1>2, <1>3, <2>3 DEF HoldsOK, Matched, EnsureOK, Serves
  <2>5. HoldsOK(row, b)
    BY <1>2, <1>3, <2>4, EnsureHolds
  <2>6. Rollout(w) => Applied("upsert", b, w)
    BY <2>4 DEF Applied
  <2>7. ServeOK(p, row, b)
    BY <1>1, <1>2, <2>2, <2>4, <2>6, EnsureOnward DEF EnsurePCs
  <2>8. p.work.run = w.run
    BY <2>2 DEF SameClaim
  <2> QED BY <1>1, <1>2, <1>4, <2>2, <2>3, <2>5, <2>7, <2>8, BackendServe
<1> QED BY <1>5, <1>6

LEMMA UpsertServes ==
  ASSUME ClaimInv, BoxInv, ServeInv, NEW o \in Owners, Upsert(o)
  PROVE  ServeInv'
<1>1. proc[o].pc = "upsert" /\ proc[o].pc \in BusyPCs /\ proc[o].pc \in PreparingPCs /\ runs' = runs
  BY DEF Upsert, At, BusyPCs, EnsurePCs, PreparingPCs
<1>2. PICK w, old, row, a : /\ w = Work(o) /\ old = proc[o] /\ old.work = w /\ row = runs[w.run] /\ a = box[w.run]
                            /\ WorkTyped(w) /\ SameClaim(w, w) /\ w.run \in RunIDs /\ box \in [RunIDs -> Box]
                            /\ ServeOK(old, row, a) /\ HoldsOK(row, a) /\ ~Foreign(a.token, w)
  BY <1>1, BusyServes DEF Work
<1>3. EnsureOK(old, row, a)
  BY <1>1, <1>2 DEF ServeOK
<1>4. PICK p, b : p = proc'[o] /\ b = box'[w.run]
  OBVIOUS
<1>5. /\ proc' = [proc EXCEPT ![o].pc = "volumes", ![o].work.registered = Rollout(w)]
      /\ box' = [box EXCEPT ![w.run].grants = w.desired, ![w.run].token = w.ownership]
  BY <1>2 DEF Upsert
<1>6. OnlyProc(o) /\ p.pc = "volumes" /\ SameClaim(p.work, w) /\ p.work.stopped = w.stopped
  <2>1. PICK v : v = Rollout(w)
    OBVIOUS
  <2>2. proc' = [proc EXCEPT ![o].pc = "volumes", ![o].work.registered = v]
    BY <1>5, <2>1
  <2>3. DOMAIN proc = Owners /\ DOMAIN proc[o] = ProcFields
    BY DEF ClaimInv, ProcOK
  <2>4. OnlyProc(o) /\ p.pc = "volumes" /\ p.work = [w EXCEPT !.registered = v]
    BY <1>2, <1>4, <2>2, <2>3 DEF OnlyProc, ProcFields
  <2>5. [w EXCEPT !.registered = v].stopped = w.stopped
    BY <1>2 DEF WorkTyped, WorkFields
  <2>6. SameClaim([w EXCEPT !.registered = v], w)
    BY <1>2, FlagSame
  <2> QED BY <2>4, <2>5, <2>6
<1>7. /\ b.runtime = a.runtime /\ b.config = a.config /\ b.grants = w.desired
      /\ \A q \in RunIDs : q # w.run => box'[q] = box[q]
  BY <1>2, <1>4, <1>5 DEF Box
<1>8. Rollout(w) => Applied("volumes", b, w)
  BY <1>1, <1>2, <1>3, <1>7 DEF EnsureOK, Applied
<1>9. ~Rollout(w) => Serves(b, w.desired)
  BY <1>2, <1>3, <1>7 DEF EnsureOK, Serves
<1>10. Matched(b)
  BY <1>2, <1>7, <1>8, <1>9 DEF HoldsOK, Matched, Applied, Serves
<1>11. HoldsOK(row, b)
  BY <1>2, <1>3, <1>9, <1>10, EnsureHolds
<1>12. w.stopped => Rollout(w)
  BY <1>2, <1>3 DEF EnsureOK
<1>13. ServeOK(p, row, b) /\ p.work.run = w.run
  BY <1>1, <1>2, <1>6, <1>8, <1>9, <1>12, EnsureOnward DEF EnsurePCs, SameClaim
<1> QED BY <1>1, <1>2, <1>4, <1>6, <1>7, <1>11, <1>13, BackendServe

LEMMA VolumesServe ==
  ASSUME ClaimInv, BoxInv, ServeInv, NEW o \in Owners, EnsureVolumes(o)
  PROVE  ServeInv'
<1>1. proc[o].pc = "volumes" /\ proc[o].pc \in BusyPCs /\ proc[o].pc \in PreparingPCs /\ runs' = runs
  BY DEF EnsureVolumes, At, BusyPCs, EnsurePCs, PreparingPCs
<1>2. PICK w, old, row, a : /\ w = Work(o) /\ old = proc[o] /\ old.work = w /\ row = runs[w.run] /\ a = box[w.run]
                            /\ SameClaim(w, w) /\ w.run \in RunIDs /\ box \in [RunIDs -> Box]
                            /\ ServeOK(old, row, a) /\ HoldsOK(row, a) /\ ~Foreign(a.volumes, w)
  BY <1>1, BusyServes DEF Work
<1>3. EnsureOK(old, row, a)
  BY <1>1, <1>2 DEF ServeOK
<1>4. PICK p, b : p = proc'[o] /\ b = box'[w.run]
  OBVIOUS
<1>5. Goto(o, "compose") /\ box' = [box EXCEPT ![w.run].volumes = w.ownership]
  BY <1>2 DEF EnsureVolumes
<1>6. OnlyProc(o) /\ p.pc = "compose" /\ p.work = w
  BY <1>2, <1>4, <1>5, Moves
<1>7. /\ b.runtime = a.runtime /\ b.config = a.config /\ b.grants = a.grants
      /\ \A q \in RunIDs : q # w.run => box'[q] = box[q]
  BY <1>2, <1>4, <1>5 DEF Box
<1>8. Rollout(w) => Applied("compose", b, w)
  BY <1>1, <1>2, <1>3, <1>7 DEF EnsureOK, Applied
<1>9. (~Rollout(w) => Serves(b, w.desired)) /\ (w.stopped => Rollout(w))
  BY <1>2, <1>3, <1>7 DEF EnsureOK, Serves
<1>10. Matched(b)
  BY <1>2, <1>7 DEF HoldsOK, Matched
<1>11. HoldsOK(row, b)
  BY <1>2, <1>3, <1>9, <1>10, EnsureHolds
<1>12. ServeOK(p, row, b)
  BY <1>1, <1>2, <1>6, <1>8, <1>9, EnsureOnward DEF EnsurePCs
<1> QED BY <1>1, <1>2, <1>4, <1>6, <1>7, <1>11, <1>12, BackendServe

LEMMA ComposeServes ==
  ASSUME ClaimInv, BoxInv, ServeInv, NEW o \in Owners, ComposeUp(o)
  PROVE  ServeInv'
<1>1. proc[o].pc = "compose" /\ proc[o].pc \in BusyPCs /\ proc[o].pc \in PreparingPCs /\ runs' = runs
  BY DEF ComposeUp, At, BusyPCs, EnsurePCs, PreparingPCs
<1>2. PICK w, old, row, a : /\ w = Work(o) /\ old = proc[o] /\ old.work = w /\ row = runs[w.run] /\ a = box[w.run]
                            /\ SameClaim(w, w) /\ w.run \in RunIDs /\ box \in [RunIDs -> Box]
                            /\ ServeOK(old, row, a) /\ HoldsOK(row, a) /\ w.desired # None
  BY <1>1, BusyServes DEF Work
<1>3. EnsureOK(old, row, a)
  BY <1>1, <1>2 DEF ServeOK
<1>4. PICK p, b : p = proc'[o] /\ b = box'[w.run]
  OBVIOUS
<1>5. PICK v : v = IF Rollout(w) \/ a.config = None THEN w.desired ELSE a.config
  OBVIOUS
<1>6. /\ Goto(o, "observe")
      /\ box' = [box EXCEPT ![w.run].runtime = "up", ![w.run].label = w.ownership, ![w.run].config = v]
  BY <1>2, <1>5 DEF ComposeUp
<1>7. OnlyProc(o) /\ p.pc = "observe" /\ p.work = w
  BY <1>2, <1>4, <1>6, Moves
<1>8. /\ b.runtime = "up" /\ b.config = v /\ b.grants = a.grants
      /\ \A q \in RunIDs : q # w.run => box'[q] = box[q]
  BY <1>2, <1>4, <1>6 DEF Box
<1>9. v = w.desired
  BY <1>2, <1>3, <1>5 DEF EnsureOK, Serves
<1>10. Rollout(w) => Applied("observe", b, w)
  BY <1>1, <1>2, <1>3, <1>8, <1>9 DEF EnsureOK, Applied
<1>11. (~Rollout(w) => Serves(b, w.desired)) /\ (w.stopped => Rollout(w))
  BY <1>2, <1>3, <1>8, <1>9 DEF EnsureOK, Serves
<1>12. Matched(b)
  BY <1>2, <1>8, <1>9, <1>10, <1>11 DEF Matched, Applied, Serves
<1>13. HoldsOK(row, b)
  BY <1>2, <1>3, <1>11, <1>12, EnsureHolds
<1>14. ServeOK(p, row, b)
  BY <1>1, <1>2, <1>7, <1>10, <1>11, EnsureOnward DEF EnsurePCs
<1> QED BY <1>1, <1>2, <1>4, <1>7, <1>8, <1>13, <1>14, BackendServe

LEMMA ObserveServes ==
  ASSUME ClaimInv, BoxInv, ServeInv, NEW o \in Owners, Observe(o)
  PROVE  ServeInv'
<1>1. /\ proc[o].pc = "observe" /\ proc[o].pc \in BusyPCs /\ proc[o].pc \in PreparingPCs /\ runs' = runs
      /\ box' = box
  BY DEF Observe, At, BusyPCs, EnsurePCs, PreparingPCs
<1>2. PICK w, old, row, a : /\ w = Work(o) /\ old = proc[o] /\ old.work = w /\ row = runs[w.run] /\ a = box[w.run]
                            /\ WorkTyped(w) /\ ServeOK(old, row, a) /\ HoldsOK(row, a)
  BY <1>1, BusyServes DEF Work
<1>3. EnsureOK(old, row, a)
  BY <1>1, <1>2 DEF ServeOK
<1>4. PICK p : p = proc'[o]
  OBVIOUS
<1>5. PICK to \in Active, target \in Terminal \cup {None} :
        proc' = [proc EXCEPT ![o].pc = "report", ![o].work = Reporting(w, to, target)]
  BY <1>2 DEF Observe, Outcomes
<1>6. OnlyProc(o) /\ p.pc = "report" /\ p.work = Reporting(w, to, target)
  BY <1>4, <1>5, Moves
<1>7. SameClaim(p.work, w)
  BY <1>2, <1>6, ReportingSame
<1>8. Serves(a, w.desired)
  BY <1>1, <1>2, <1>3 DEF EnsureOK, Applied, Serves
<1>9. ServeOK(p, row, a) /\ p.work.run = w.run
  BY <1>2, <1>6, <1>7, <1>8, ReportOnward DEF SameClaim
<1> QED BY <1>1, <1>2, <1>4, <1>6, <1>9, BackendServe

(* A failed rollout: the runtime is stopped before the previous grants come back.              *)
LEMMA RollbackServes ==
  ASSUME ClaimInv, BoxInv, ServeInv, NEW o \in Owners, Rollback(o) \/ Restore(o)
  PROVE  ServeInv'
<1>1. proc[o].pc \in {"rollback", "restore"} /\ proc[o].pc \in BusyPCs /\ proc[o].pc \in PreparingPCs /\ runs' = runs
  BY DEF Rollback, Restore, At, BusyPCs, PreparingPCs
<1>2. PICK w, old, row, a : /\ w = Work(o) /\ old = proc[o] /\ old.work = w /\ row = runs[w.run] /\ a = box[w.run]
                            /\ SameClaim(w, w) /\ w.run \in RunIDs /\ box \in [RunIDs -> Box]
                            /\ ServeOK(old, row, a) /\ HoldsOK(row, a) /\ ~Foreign(a.token, w)
  BY <1>1, BusyServes DEF Work
<1>3. EnsureOK(old, row, a) /\ Rollout(w)
  BY <1>1, <1>2 DEF ServeOK, EnsureOK
<1>4. PICK p, b : p = proc'[o] /\ b = box'[w.run]
  OBVIOUS
<1>5. ASSUME Rollback(o) PROVE ServeInv'
  <2>1. Goto(o, "restore") /\ box' = [box EXCEPT ![w.run].runtime = IF @ = "up" THEN "paused" ELSE @]
    BY <1>2, <1>5 DEF Rollback
  <2>2. OnlyProc(o) /\ p.pc = "restore" /\ p.work = w
    BY <1>2, <1>4, <2>1, Moves
  <2>3. /\ b.runtime = IF a.runtime = "up" THEN "paused" ELSE a.runtime
        /\ b.config = a.config /\ b.grants = a.grants /\ \A q \in RunIDs : q # w.run => box'[q] = box[q]
    BY <1>2, <1>4, <2>1 DEF Box
  <2>4. Matched(b) /\ Applied("restore", b, w)
    BY <1>2, <2>3 DEF HoldsOK, Matched, Applied
  <2>5. HoldsOK(row, b)
    BY <1>2, <1>3, <2>4, EnsureHolds
  <2>6. ServeOK(p, row, b)
    BY <1>1, <1>2, <1>3, <2>2, <2>4, EnsureOnward
  <2> QED BY <1>1, <1>2, <1>4, <2>2, <2>3, <2>5, <2>6, BackendServe
<1>6. ASSUME Restore(o) PROVE ServeInv'
  <2>1. /\ Return(o) /\ old.pc = "restore"
        /\ box' = [box EXCEPT ![w.run].grants = w.previous, ![w.run].token = w.ownership]
    BY <1>2, <1>6 DEF Restore, At
  <2>2. OnlyProc(o) /\ p.pc \notin BusyPCs
    BY <1>4, <2>1, Moves, PCSets
  <2>3. /\ b.runtime = a.runtime /\ b.config = a.config /\ \A q \in RunIDs : q # w.run => box'[q] = box[q]
    BY <1>2, <1>4, <2>1 DEF Box
  <2>4. a.runtime # "up"
    BY <1>2, <1>3, <2>1 DEF EnsureOK, Applied
  <2>5. Matched(b)
    BY <1>2, <2>3, <2>4 DEF HoldsOK, Matched
  <2>6. HoldsOK(row, b)
    BY <1>2, <1>3, <2>5, EnsureHolds
  <2> QED BY <1>1, <1>2, <1>4, <2>2, <2>3, <2>6, BackendServe
<1> QED BY <1>5, <1>6

(* What Delete takes away leaves nothing that contradicts the row.                            *)
LEMMA DeleteServes ==
  ASSUME ClaimInv, BoxInv, ServeInv, NEW o \in Owners, Unregister(o) \/ RemoveContainers(o) \/ RemoveVolumes(o)
  PROVE  ServeInv'
<1>1. proc[o].pc \in DeletePCs /\ proc[o].pc \in BusyPCs /\ runs' = runs
  BY DEF Unregister, RemoveContainers, RemoveVolumes, At, DeletePCs, BusyPCs
<1>2. PICK w, old, row, a : /\ w = Work(o) /\ old = proc[o] /\ old.work = w /\ row = runs[w.run] /\ a = box[w.run]
                            /\ SameClaim(w, w) /\ w.run \in RunIDs /\ box \in [RunIDs -> Box]
                            /\ ServeOK(old, row, a) /\ HoldsOK(row, a) /\ WorkOK(old, row, a)
                            /\ ~Foreign(a.token, w) /\ ~Foreign(a.label, w) /\ ~Foreign(a.volumes, w)
  BY <1>1, BusyServes DEF Work
<1>3. PICK p, b : p = proc'[o] /\ b = box'[w.run]
  OBVIOUS
<1>4. w.to # "running"
  BY <1>1, <1>2 DEF WorkOK
<1>5. /\ \E pc \in {"containers", "removeVolumes", "report"} : Goto(o, pc)
      /\ \/ box' = [box EXCEPT ![w.run].grants = None, ![w.run].token = None]
         \/ box' = [box EXCEPT ![w.run] = [@ EXCEPT !.runtime = "absent", !.config = None, !.label = None]]
         \/ \E v : box' = [box EXCEPT ![w.run].volumes = v]
  BY <1>2 DEF Unregister, RemoveContainers, RemoveVolumes
<1>6. /\ \A q \in RunIDs : q # w.run => box'[q] = box[q]
      /\ \/ b.runtime = a.runtime /\ b.config = a.config /\ b.grants \in {None, a.grants}
         \/ b.runtime = "absent" /\ b.config = None /\ b.grants = a.grants
  <2>1. CASE box' = [box EXCEPT ![w.run].grants = None, ![w.run].token = None]
    BY <1>2, <1>3, <2>1 DEF Box
  <2>2. CASE box' = [box EXCEPT ![w.run] = [@ EXCEPT !.runtime = "absent", !.config = None, !.label = None]]
    BY <1>2, <1>3, <2>2 DEF Box
  <2>3. ASSUME NEW v, box' = [box EXCEPT ![w.run].volumes = v]
        PROVE  /\ \A q \in RunIDs : q # w.run => box'[q] = box[q]
               /\ b.runtime = a.runtime /\ b.config = a.config /\ b.grants = a.grants
    BY <1>2, <1>3, <2>3 DEF Box
  <2> QED BY <1>5, <2>1, <2>2, <2>3
<1>7. HoldsOK(row, b)
  BY <1>2, <1>6 DEF HoldsOK, Matched, Serves
<1>8. OnlyProc(o) /\ p.pc \in {"containers", "removeVolumes", "report"} /\ p.work = w
  BY <1>2, <1>3, <1>5, Moves
<1>9. ServeOK(p, row, b)
  BY <1>2, <1>4, <1>8, ReportOnward DEF DeletePCs
<1> QED BY <1>1, <1>2, <1>3, <1>6, <1>7, <1>8, <1>9, BackendServe

LEMMA FaultServes ==
  ASSUME ClaimInv, BoxInv, ServeInv, NEW o \in Owners, BackendFault(o)
  PROVE  ServeInv'
<1>1. proc[o].pc \in BusyPCs /\ UNCHANGED <<runs, box>>
  BY DEF BackendFault, BusyPCs
<1>2. PICK w, old, row, a : /\ w = Work(o) /\ old = proc[o] /\ old.work = w /\ row = runs[w.run] /\ a = box[w.run]
                            /\ SameClaim(w, w) /\ ServeOK(old, row, a) /\ HoldsOK(row, a)
  BY <1>1, BusyServes DEF Work
<1>3. PICK p : p = proc'[o]
  OBVIOUS
<1>4. CASE Return(o)
  <2>1. OnlyProc(o) /\ p.pc \notin BusyPCs
    BY <1>3, <1>4, Moves, PCSets
  <2> QED BY <1>1, <1>2, <1>3, <2>1, BackendServe
<1>5. CASE old.pc \in EnsurePCs /\ w.stopped /\ Goto(o, "rollback")
  <2>1. OnlyProc(o) /\ p.pc = "rollback" /\ p.work = w
    BY <1>2, <1>3, <1>5, Moves
  <2>2. old.pc \in PreparingPCs
    BY <1>5 DEF PreparingPCs
  <2>3. Rollout(w) /\ Applied("rollback", a, w)
    BY <1>2, <1>5, <2>2 DEF ServeOK, EnsureOK, Applied
  <2>4. ServeOK(p, row, a)
    BY <1>2, <2>1, <2>2, <2>3, EnsureOnward
  <2> QED BY <1>1, <1>2, <1>3, <2>1, <2>4, BackendServe
<1> QED BY <1>2, <1>4, <1>5 DEF BackendFault, Fail

LEMMA StepServes ==
  ASSUME OneController, RolloutsSupported, ClaimInv, BoxInv, ServeInv, [ControllerNext]_vars
  PROVE  ServeInv'
<1>1. CASE UNCHANGED vars
  <2>1. runs' = runs /\ proc' = proc /\ box' = box
    BY <1>1 DEF vars, controllerVars
  <2> QED BY <2>1, SameSteady, CallersServe
<1>2. ASSUME NEW o \in Owners, Backend(o) PROVE ServeInv'
  BY <1>2, PreflightServes, UpsertServes, VolumesServe, ComposeServes, ObserveServes, RollbackServes, DeleteServes,
     FaultServes DEF Backend
<1>3. ASSUME NEW o \in Owners, Pauses(o) \/ \E r \in RunIDs : Take(o, r) PROVE ServeInv'
  BY <1>3, WaitingServes, ReportServes, TakeServes
<1> QED BY <1>1, <1>2, <1>3, Cases, OutsideServes

LEMMA InitServes == ControllerInit => ServeInv
<1> SUFFICES ASSUME ControllerInit PROVE ServeInv
  OBVIOUS
<1>1. NoBox.runtime = "absent" /\ NoBox.config = None /\ NoBox.grants = None /\ NoRow.state = "absent"
  BY DEF NoBox, NoRow
<1>2. HoldsOK(NoRow, NoBox)
  BY <1>1 DEF HoldsOK, Matched, Serving
<1>3. \A o \in Owners : proc[o].pc = "off"
  BY DEF ControllerInit, Unborn
<1>4. \A o \in Owners : Serviced(proc[o], runs, box)
  BY <1>3, PCSets DEF Serviced
<1> QED BY <1>2, <1>4 DEF ServeInv, ControllerInit, Init

(* Store, containers and broker agree on what a run executes: a runtime that is up has the       *)
(* grants of its own configuration, a run reported running has containers of its committed         *)
(* snapshot or none, and none that a rollout stopped; through rollouts, rollbacks, calls to           *)
(* Docker and the broker that fail, and crashes at every step.  Where one controller process            *)
(* runs at a time and no rollout is to a document that the backend rejects.                      *)
THEOREM RunsAsCommitted ==
  ASSUME OneController, RolloutsSupported
  PROVE  ControllerSpec => []RunningAsCommitted
<1>1. ASSUME ServeInv PROVE RunningAsCommitted
  <2>1. GrantsMatchRuntime
    BY <1>1 DEF ServeInv, HoldsOK, Matched, GrantsMatchRuntime
  <2>2. RunningServesSnapshot
    BY <1>1 DEF ServeInv, HoldsOK, Matched, Serving, Serves, RunningServesSnapshot
  <2>3. RunningIsNotPaused
    BY <1>1 DEF ServeInv, HoldsOK, Serving, Serves, RunningIsNotPaused
  <2> QED BY <2>1, <2>2, <2>3 DEF RunningAsCommitted
<1>2. ClaimInv /\ BoxInv /\ ServeInv /\ [ControllerNext]_vars => ServeInv'
  BY StepServes
<1> QED BY <1>1, <1>2, InitServes, BoxInvariant, PTL DEF ControllerSpec
-----------------------------------------------------------------------------
(* Limits.  A workstation that an inventory may replace.                                     *)
MayBeReplaced(r) == \E d \in Inventories : d.replace /\ \E c \in d.batch : RunOf[c.snapshot] = r

(* A row that executes, or may execute again without being counted anew: one that is being         *)
(* replaced, or that is stopping and may be replaced before it has ended.                       *)
Due(r, row) ==
  \/ Executing(row)
  \/ row.state = "stopping" /\ MayBeReplaced(r) /\ (~row.deleteRequested \/ row.pending # None)

Announced(r, row) == row.state = "stopping" /\ row.pending # None => MayBeReplaced(r)

(* What a step that admits no run may do to a row.                                              *)
Quiet(r, row, new) ==
  Announced(r, row) =>
    Announced(r, new) /\ (Due(r, new) => Due(r, row)) /\ (new.state # "absent" => row.state # "absent")

LEMMA QuietOn ==
  ASSUME NEW r, NEW a, NEW b, NEW c
  PROVE  /\ Quiet(r, a, a) /\ (Quiet(r, a, b) /\ Quiet(r, b, c) => Quiet(r, a, c))
         /\ b.state = a.state /\ b.pending = a.pending /\ b.deleteRequested = a.deleteRequested => Quiet(r, a, b)
BY DEF Quiet, Announced, Due, Executing

(* A run that executes goes on, or is stopped.                                                  *)
LEMMA QuietEnds ==
  ASSUME NEW r, NEW row, Executing(row), NEW new,
         Executing(new) \/ IsTerminal(new) \/ (new.state = "stopping" /\ new.pending = None)
  PROVE  Quiet(r, row, new)
BY DEF Quiet, Announced, Due, Executing

LEMMA QuietDeletes ==
  ASSUME NEW r, NEW row, row.state # "absent", NEW new,
         (new.state = "stopping" /\ new.pending = None /\ new.deleteRequested) \/ IsTerminal(new)
  PROVE  Quiet(r, row, new)
BY DEF Quiet, Announced, Due, Executing

LEMMA SweepQuiet ==
  ASSUME NEW r \in RunIDs, NEW row, ValidRow(r, row)
  PROVE  Quiet(r, row, sweepTx(row))
<1>1. PICK new : new = sweepTx(row)
  OBVIOUS
<1>2. row \in Row
  BY NoRowTyped DEF ValidRow, GoodRow
<1>3. CASE DeadlineDue(row)
  <2>1. new.state = "stopping" /\ new.pending = None
    BY <1>1, <1>2, <1>3 DEF sweepTx, Overdue, Released, Row
  <2>2. Executing(row)
    BY <1>3 DEF DeadlineDue, Executing
  <2> QED BY <1>1, <2>1, <2>2, QuietEnds
<1>4. CASE ~DeadlineDue(row) /\ RetentionDue(row)
  <2>1. row.state # "absent" /\ row.pending = None
    BY <1>2, <1>4, StoreConstants DEF RetentionDue, ValidRow, GoodRow, NoRow, validateStoredRun
  <2>2. new.state = "stopping" /\ new.pending = row.pending /\ new.deleteRequested
    BY <1>1, <1>2, <1>4 DEF sweepTx, Retired, Row
  <2> QED BY <1>1, <2>1, <2>2, QuietDeletes
<1>5. CASE ~DeadlineDue(row) /\ ~RetentionDue(row)
  BY <1>5, QuietOn DEF sweepTx
<1> QED BY <1>3, <1>4, <1>5

(* The verdicts whose candidates createBatch counts against the limit.                            *)
Counted == {"new", "restart", "restartUpdate", "terminalReplace"}

LEMMA AmendedQuiet ==
  ASSUME NEW table, NEW c \in Candidate, NEW reclaim \in BOOLEAN, NEW replace \in BOOLEAN,
         NEW r, r = RunOf[c.snapshot], NEW row, row = table[r], ValidRow(r, row), replace => MayBeReplaced(r),
         NEW v, v = Verdict(table, c, reclaim, replace), v # "refused", NEW new, new = Amended(row, c, v)
  PROVE  /\ v \notin Counted => Quiet(r, row, new)
         /\ v \in Counted => ~IsActive(row) /\ Announced(r, new)
<1>1. row \in Row /\ Judgement(row, c, v, reclaim, replace)
  BY NoRowTyped, Judged DEF ValidRow, GoodRow
<1>2. v # "new" => GoodRow(r, row)
  <2>1. c.key # None
    BY StoreConstants DEF Candidate
  <2> QED BY <1>1, <2>1 DEF Judgement, ValidRow, NoRow
<1>3. CASE v = "new"
  <2>1. row.state = "absent" /\ new.state = "pending"
    BY <1>1, <1>3 DEF Judgement, Amended, InsertedRow, NoRow
  <2> QED BY <1>3, <2>1 DEF Counted, Announced
<1>4. CASE v = "replay"
  BY <1>4, QuietOn DEF Amended, Counted
<1>5. CASE v = "update" \/ v = "cancel"
  <2>1. PICK s : new = Staged(row, s)
    BY <1>5 DEF Amended
  <2>2. new.state = "preparing"
    BY <1>1, <2>1, Rewritten
  <2>3. Executing(row) \/ (row.state = "stopping" /\ row.pending # None)
    BY <1>1, <1>2, <1>5 DEF Judgement, GoodRow, validateStoredRun, Executing
  <2> QED BY <1>5, <2>2, <2>3 DEF Counted, Quiet, Announced, Due, Executing
<1>6. CASE v = "restart" \/ v = "restartUpdate"
  <2>1. PICK s : new = Restarted(row, s)
    BY <1>6 DEF Amended
  <2>2. IsTerminal(row) /\ new.state = "pending"
    BY <1>1, <1>6, <2>1, Rewritten DEF Judgement
  <2> QED BY <1>6, <2>2 DEF Counted, Announced
<1>7. CASE v = "replace" \/ v = "terminalReplace"
  <2>1. new.state = "stopping" /\ MayBeReplaced(r) /\ ~row.deleteRequested /\ row.state # "absent"
    BY <1>1, <1>2, <1>7, Rewritten DEF Amended, Judgement, GoodRow
  <2>2. v = "terminalReplace" => IsTerminal(row)
    BY <1>1 DEF Judgement
  <2>3. v = "replace" => row.state \in {"pending", "preparing", "running", "stopping"}
    BY <1>1, <2>1 DEF Judgement, Row
  <2> QED BY <1>7, <2>1, <2>2, <2>3 DEF Counted, Quiet, Announced, Due, Executing
<1> QED BY <1>1, <1>3, <1>4, <1>5, <1>6, <1>7 DEF Judgement

LEMMA PrunedQuiet ==
  ASSUME NEW r, NEW row, GoodRow(r, row)
  PROVE  Quiet(r, row, PrunedRow(row))
<1>1. row \in Row /\ row.state # "absent"
  BY DEF GoodRow
<1>2. PrunedRow(row).state = "stopping" /\ PrunedRow(row).pending = None /\ PrunedRow(row).deleteRequested
  BY <1>1 DEF PrunedRow, Released, Row
<1> QED BY <1>1, <1>2, QuietDeletes

(* The runs that a batch admits.                                                                *)
Admitted(batch, reclaim, replace) ==
  {RunOf[c.snapshot] : c \in {d \in batch : Verdict(Swept, d, reclaim, replace) \in Counted}}

LEMMA BatchQuiet ==
  ASSUME TableInv, Ready, NEW batch \in SUBSET Candidate,
         NEW reclaim \in BOOLEAN, NEW prune \in BOOLEAN, NEW replace \in BOOLEAN, NEW acknowledged \in BOOLEAN,
         replace => \A c \in batch : MayBeReplaced(RunOf[c.snapshot]),
         createBatch(Swept, batch, reclaim, prune, replace, acknowledged), NEW r \in RunIDs, Announced(r, runs[r]),
         NEW A, A = Admitted(batch, reclaim, replace)
  PROVE  /\ Announced(r, runs'[r]) /\ Quiet(r, runs[r], Swept[r])
         /\ r \in A => ~IsActive(Swept[r])
         /\ r \notin A => Quiet(r, Swept[r], runs'[r])
<1> DEFINE verdict(c) == Verdict(Swept, c, reclaim, replace)
           pruned == IF prune THEN Prunable(Swept, batch) ELSE {}
           mine == CHOOSE d \in batch : RunOf[d.snapshot] = r
<1>1. runs'[r] = IF \E c \in batch : RunOf[c.snapshot] = r
                 THEN Amended(Swept[r], mine, verdict(mine))
                 ELSE IF r \in pruned THEN PrunedRow(Swept[r]) ELSE Swept[r]
  BY DEF createBatch
<1>2. \A c \in batch : verdict(c) # "refused"
  BY DEF createBatch
<1>3. PICK row : row = Swept[r] /\ ValidRow(r, row)
  BY SweptValid
<1>4. Quiet(r, runs[r], row) /\ Announced(r, row)
  BY <1>3, ReadyValid, SweepQuiet DEF Swept, Quiet
<1>5. PICK new : new = runs'[r]
  OBVIOUS
<1>6. ASSUME NEW c \in batch, RunOf[c.snapshot] = r, NEW v, v = verdict(c)
      PROVE  /\ v \notin Counted => Quiet(r, row, Amended(row, c, v))
             /\ v \in Counted => ~IsActive(row) /\ Announced(r, Amended(row, c, v))
  <2>1. c \in Candidate /\ row = Swept[RunOf[c.snapshot]] /\ v # "refused" /\ (replace => MayBeReplaced(r))
    BY <1>2, <1>3, <1>6
  <2> QED BY <1>3, <1>6, <2>1, AmendedQuiet
<1>7. r \in A => ~IsActive(row)
  <2>1. SUFFICES ASSUME r \in A PROVE ~IsActive(row)
    OBVIOUS
  <2>2. PICK c \in batch : RunOf[c.snapshot] = r /\ verdict(c) \in Counted
    BY <2>1 DEF Admitted
  <2> QED BY <1>6, <2>2
<1>8. Announced(r, new) /\ (r \notin A => Quiet(r, row, new))
  <2>1. CASE \E c \in batch : RunOf[c.snapshot] = r
    <3>1. PICK c \in batch : c = mine /\ RunOf[c.snapshot] = r
      BY <2>1
    <3>2. PICK v : v = verdict(c)
      OBVIOUS
    <3>3. new = Amended(row, c, v)
      BY <1>1, <1>3, <1>5, <2>1, <3>1, <3>2
    <3> HIDE DEF mine
    <3>4. v \in Counted => r \in A
      BY <3>1, <3>2 DEF Admitted
    <3>5. v \notin Counted => Quiet(r, row, new)
      BY <1>6, <3>1, <3>2, <3>3
    <3>6. v \in Counted => Announced(r, new)
      BY <1>6, <3>1, <3>2, <3>3
    <3> QED BY <1>4, <3>4, <3>5, <3>6 DEF Quiet
  <2>2. CASE ~(\E c \in batch : RunOf[c.snapshot] = r) /\ r \in pruned
    <3>1. Visible(row) /\ new = PrunedRow(row)
      BY <1>1, <1>3, <1>5, <2>2 DEF Prunable
    <3>2. GoodRow(r, row)
      BY <1>3, <3>1 DEF ValidRow, NoRow, Visible
    <3>3. Quiet(r, row, new)
      BY <3>1, <3>2, PrunedQuiet
    <3> QED BY <1>4, <3>3 DEF Quiet
  <2>3. CASE ~(\E c \in batch : RunOf[c.snapshot] = r) /\ r \notin pruned
    BY <1>1, <1>3, <1>4, <1>5, <2>3, QuietOn
  <2> QED BY <2>1, <2>2, <2>3
<1> QED BY <1>3, <1>4, <1>5, <1>7, <1>8

(* createBatch counts: what it occupies already and what it admits is within the limit.                *)
Existing(table) == {r \in RunIDs : table[r].state # "absent"}

LEMMA SweptExisting ==
  ASSUME TableInv, Ready
  PROVE  Existing(Swept) = Existing(runs)
<1>1. ASSUME NEW r \in RunIDs PROVE Swept[r].state # "absent" <=> runs[r].state # "absent"
  <2>1. PICK row : row = runs[r] /\ row \in Row /\ Swept[r] = sweepTx(row)
    BY DEF TableInv, Swept
  <2>2. sweepTx(row) = row \/ sweepTx(row).state = "stopping"
    BY <2>1 DEF sweepTx, Overdue, Released, Retired, Row
  <2>3. row.state = "absent" => sweepTx(row) = row
    BY DEF sweepTx, DeadlineDue, RetentionDue
  <2> QED BY <2>1, <2>2, <2>3
<1> QED BY <1>1 DEF Existing

LEMMA BatchCounts ==
  ASSUME TableInv, Ready, IsFiniteSet(Existing(runs)), NEW batch \in SUBSET Candidate, IsFiniteSet(batch),
         NEW reclaim \in BOOLEAN, NEW prune \in BOOLEAN, NEW replace \in BOOLEAN, NEW acknowledged \in BOOLEAN,
         createBatch(Swept, batch, reclaim, prune, replace, acknowledged),
         NEW A, A = Admitted(batch, reclaim, replace), NEW X, X \subseteq Occupying(Swept, reclaim) \cup A
  PROVE  IsFiniteSet(A) /\ IsFiniteSet(X) /\ Cardinality(X) <= MaxActiveRuns
<1>1. PICK C : C = {d \in batch : Verdict(Swept, d, reclaim, replace) \in Counted}
  OBVIOUS
<1>2. PICK O : O = Occupying(Swept, reclaim)
  OBVIOUS
<1>3. Cardinality(O) + Cardinality(C) <= MaxActiveRuns
  <2>1. C = {d \in batch : Verdict(Swept, d, reclaim, replace) \in {"new", "restart", "restartUpdate", "terminalReplace"}}
    BY <1>1 DEF Counted
  <2> QED BY <1>2, <2>1 DEF createBatch
<1>4. IsFiniteSet(C) /\ Cardinality(C) \in Nat
  BY <1>1, FS_Subset, FS_CardinalityType
<1>5. IsFiniteSet(O) /\ Cardinality(O) \in Nat
  <2>1. O \subseteq Existing(runs)
    BY <1>2, SweptExisting DEF Occupying, Existing
  <2> QED BY <2>1, FS_Subset, FS_CardinalityType
<1>6. IsFiniteSet(A) /\ Cardinality(A) \in Nat /\ Cardinality(A) <= Cardinality(C)
  <2>1. PICK f : f = [c \in C |-> RunOf[c.snapshot]]
    OBVIOUS
  <2>2. f \in Surjection(C, A)
    BY <1>1, <2>1 DEF Surjection, Admitted
  <2> QED BY <1>4, <2>2, FS_Surjection, FS_CardinalityType
<1>7. IsFiniteSet(O \cup A) /\ Cardinality(O \cup A) <= Cardinality(O) + Cardinality(A)
  <2>1. IsFiniteSet(O \cap A) /\ Cardinality(O \cap A) \in Nat
    BY <1>5, FS_Subset, FS_CardinalityType
  <2>2. /\ IsFiniteSet(O \cup A)
        /\ Cardinality(O \cup A) = Cardinality(O) + Cardinality(A) - Cardinality(O \cap A)
    BY <1>5, <1>6, FS_Union
  <2>3. PICK a, b, c \in Nat : a = Cardinality(O) /\ b = Cardinality(A) /\ c = Cardinality(O \cap A)
    BY <1>5, <1>6, <2>1
  <2>4. a + b - c <= a + b
    OBVIOUS
  <2> QED BY <2>2, <2>3, <2>4
<1>8. IsFiniteSet(X) /\ Cardinality(X) \in Nat /\ Cardinality(X) <= Cardinality(O \cup A)
  BY <1>2, <1>7, FS_Subset, FS_CardinalityType
<1>9. Cardinality(O \cup A) \in Nat
  BY <1>7, FS_CardinalityType
<1> QED BY <1>3, <1>4, <1>5, <1>6, <1>7, <1>8, <1>9, StoreConstants

(* The steps of the store that admit no run.                                                   *)
Hush == \A r \in RunIDs : Quiet(r, runs[r], runs'[r])

LEMMA SweepHush == ASSUME TableInv, Sweep PROVE Hush
<1> SUFFICES ASSUME NEW r \in RunIDs PROVE Quiet(r, runs[r], runs'[r])
  BY DEF Hush
<1>1. ValidRow(r, runs[r]) /\ runs'[r] = sweepTx(runs[r])
  BY ReadyValid DEF Sweep, Swept
<1> QED BY <1>1, SweepQuiet

LEMMA OneRowHush ==
  ASSUME TableInv, Ready, NEW r \in RunIDs, NEW new, runs' = [Swept EXCEPT ![r] = new], Quiet(r, Swept[r], new)
  PROVE  Hush
<1> SUFFICES ASSUME NEW q \in RunIDs PROVE Quiet(q, runs[q], runs'[q])
  BY DEF Hush
<1>1. PICK row, mid, next : row = runs[q] /\ mid = Swept[q] /\ next = runs'[q]
  OBVIOUS
<1>2. Quiet(q, row, mid)
  BY <1>1, ReadyValid, SweepQuiet DEF Swept
<1>3. next = IF q = r THEN new ELSE mid
  BY <1>1 DEF Swept
<1> QED BY <1>1, <1>2, <1>3, QuietOn

LEMMA StopHush ==
  ASSUME TableInv, NEW r \in RunIDs, NEW del \in BOOLEAN, requestStop(r, del)
  PROVE  Hush
<1>1. PICK row : row = Swept[r] /\ GoodRow(r, row) /\ row \in Row /\ row.state # "absent" /\ Ready
  BY SweptValid DEF requestStop, Visible, ValidRow, NoRow, GoodRow
<1>2. PICK new : new = StopRow(row, del)
  OBVIOUS
<1>3. Quiet(r, row, new)
  <2>1. CASE IsTerminal(row)
    <3>1. row.pending = None
      BY <1>1, <2>1 DEF GoodRow, validateStoredRun
    <3>2. new.state = "stopping" /\ new.pending = None /\ new.deleteRequested
      BY <1>1, <1>2, <2>1, <3>1 DEF StopRow, Retired, Row
    <3> QED BY <1>1, <3>2, QuietDeletes
  <2>2. CASE ~IsTerminal(row)
    <3>1. new.state = "stopping" /\ new.pending = None /\ new.deleteRequested = (del \/ row.deleteRequested)
      BY <1>1, <1>2, <2>2 DEF StopRow, Stopped, Released, Row
    <3>2. row.state = "stopping" => del
      BY <1>1 DEF requestStop
    <3>3. row.state # "stopping" => Executing(row)
      BY <1>1, <2>2 DEF Row, Executing
    <3> QED BY <1>1, <3>1, <3>2, <3>3, QuietDeletes, QuietEnds
  <2> QED BY <2>1, <2>2
<1>4. runs' = [Swept EXCEPT ![r] = new]
  BY <1>1, <1>2 DEF requestStop
<1> QED BY <1>1, <1>3, <1>4, OneRowHush

LEMMA ClaimHush ==
  ASSUME TableInv, NEW r \in RunIDs, NEW o, NEW n, Claim(r, o, n)
  PROVE  Hush
<1>1. PICK row, new : row = Swept[r] /\ new = Held(row, o) /\ row \in Row
  BY SweptValid, NoRowTyped DEF Claim, ValidRow, GoodRow
<1>2. new.state = row.state /\ new.pending = row.pending /\ new.deleteRequested = row.deleteRequested
  BY <1>1 DEF Held, Row
<1>3. Ready /\ runs' = [Swept EXCEPT ![r] = new]
  BY <1>1 DEF Claim
<1> QED BY <1>1, <1>2, <1>3, QuietOn, OneRowHush

LEMMA StatusQuiet ==
  ASSUME NEW r, NEW row, GoodRow(r, row), NEW o, NEW n, NEW to \in Active \cup Terminal,
         NEW target, NEW reason, NEW cursor, Reportable(row, o, n, to, target, cursor),
         NEW new, new = StatusRow(row, to, target, reason, cursor)
  PROVE  Quiet(r, row, new)
<1>1. row \in Row /\ row.state # "absent"
  BY DEF GoodRow
<1>2. CASE to = row.state
  <2>1. new = [Released(row) EXCEPT !.cursor = cursor]
    BY <1>2 DEF StatusRow
  <2>2. new.state = row.state /\ new.pending = row.pending /\ new.deleteRequested = row.deleteRequested
    BY <1>1, <2>1 DEF Released, Row
  <2> QED BY <2>2, QuietOn
<1>3. CASE to # row.state /\ row.state = "preparing" /\ to = "running" /\ row.pending # None
  <2>1. new.state = "running"
    BY <1>1, <1>3 DEF StatusRow, Committed, Moved, Released, Row
  <2> QED BY <1>3, <2>1, QuietEnds DEF Executing
<1>4. CASE to # row.state /\ row.state = "stopping" /\ row.pending # None /\ row.reason = Replacement
  <2>1. new = Replaced(row)
    BY <1>4 DEF StatusRow
  <2>2. new.state = "pending"
    BY <1>1, <2>1 DEF Replaced, Released, Row
  <2> QED BY <1>4, <2>2 DEF Quiet, Announced, Due, Executing
<1>5. CASE /\ to # row.state /\ ~(row.state = "preparing" /\ to = "running" /\ row.pending # None)
           /\ ~(row.state = "stopping" /\ row.pending # None /\ row.reason = Replacement)
  <2>1. new = Transitioned(row, to, target, reason, cursor)
    BY <1>5 DEF StatusRow
  <2>2. new.state = to /\ (to = "stopping" => new.pending = None)
    BY <1>1, <2>1 DEF Transitioned, Moved, Released, PendingAfter, Row
  <2>3. transitionAllowed(row.state, to)
    BY <1>5 DEF Reportable
  <2>4. CASE row.state = "stopping"
    <3>1. IsTerminal(new)
      BY <2>2, <2>3, <2>4 DEF transitionAllowed
    <3> QED BY <1>1, <3>1, QuietDeletes
  <2>5. CASE row.state # "stopping"
    <3>1. Executing(row) /\ to \in {"preparing", "running", "stopping"}
      BY <2>3, <2>5 DEF transitionAllowed, Executing
    <3> QED BY <2>2, <3>1, QuietEnds DEF Executing
  <2> QED BY <2>4, <2>5
<1> QED BY <1>2, <1>3, <1>4, <1>5

LEMMA ReportHush ==
  ASSUME TableInv, NEW r \in RunIDs, NEW o, Report(r, o)
  PROVE  Hush
<1>1. PICK to \in Active \cup Terminal, target \in Terminal \cup {None}, reason \in Reasons, cursor \in Cursors \cup {None} :
        UpdateStatus(r, o, Swept[r].revision, to, target, reason, cursor)
  BY DEF Report
<1>2. PICK row, n : row = Swept[r] /\ n = row.revision
  OBVIOUS
<1>3. Ready /\ Reportable(row, o, n, to, target, cursor)
  BY <1>1, <1>2 DEF UpdateStatus
<1>4. GoodRow(r, row)
  BY <1>2, <1>3, SweptValid DEF Reportable, Visible, ValidRow, NoRow
<1>5. PICK new : new = StatusRow(row, to, target, reason, cursor)
  OBVIOUS
<1>6. runs' = [Swept EXCEPT ![r] = new]
  BY <1>1, <1>2, <1>5 DEF UpdateStatus
<1>7. Quiet(r, row, new)
  BY <1>3, <1>4, <1>5, StatusQuiet
<1> QED BY <1>2, <1>3, <1>6, <1>7, OneRowHush

LEMMA AbortHush ==
  ASSUME TableInv, NEW r \in RunIDs, NEW o, AbortRollout(r, o)
  PROVE  Hush
<1> SUFFICES ASSUME NEW q \in RunIDs PROVE Quiet(q, runs[q], runs'[q])
  BY DEF Hush
<1>1. PICK row, new : row = runs[q] /\ new = runs'[q] /\ row \in Row
  BY DEF TableInv
<1>2. CASE q # r
  <2>1. new = row
    BY <1>1, <1>2 DEF AbortRollout, abortPendingConfiguration, TableInv
  <2> QED BY <1>1, <2>1, QuietOn
<1>3. CASE q = r
  <2>1. new.state = "running" /\ row.state = "preparing"
    BY <1>1, <1>3 DEF AbortRollout, abortPendingConfiguration, TableInv, Released, Row
  <2> QED BY <1>1, <2>1, QuietEnds DEF Executing
<1> QED BY <1>2, <1>3

LEMMA AgeHush == ASSUME TableInv, TimePasses PROVE Hush
<1> SUFFICES ASSUME NEW q \in RunIDs PROVE Quiet(q, runs[q], runs'[q])
  BY DEF Hush
<1>1. PICK r \in RunIDs : DeadlinePasses(r) \/ RetentionPasses(r) \/ LeasePasses(r)
  BY DEF TimePasses
<1>2. PICK row, new : row = runs[q] /\ new = runs'[q] /\ row \in Row
  BY DEF TableInv
<1>3. new.state = row.state /\ new.pending = row.pending /\ new.deleteRequested = row.deleteRequested
  BY <1>1, <1>2 DEF TableInv, DeadlinePasses, RetentionPasses, LeasePasses, Row
<1> QED BY <1>2, <1>3, QuietOn

LEMMA StoreHush ==
  ASSUME TableInv, [Next]_runs
  PROVE  Hush \/ (\E c \in Requests : Create(c)) \/ (\E d \in Inventories : Boot(d))
<1>1. CASE UNCHANGED runs
  BY <1>1, QuietOn DEF Hush
<1>2. ASSUME NEW r \in RunIDs, NEW o \in Owners,
             Claim(r, o, Swept[r].revision) \/ Report(r, o) \/ AbortRollout(r, o)
      PROVE  Hush
  BY <1>2, ClaimHush, ReportHush, AbortHush
<1>3. ASSUME NEW r \in RunIDs, Cancel(r) \/ Delete(r) PROVE Hush
  BY <1>3, StopHush DEF Cancel, Delete
<1>4. CASE Sweep \/ TimePasses
  BY <1>4, SweepHush, AgeHush
<1> QED BY <1>1, <1>2, <1>3, <1>4 DEF Next

(* Where an inventory may replace a workstation, inventories are about that workstation only.          *)
OneReplaced ==
  \A r \in RunIDs : MayBeReplaced(r) => \A d \in Inventories : \A c \in d.batch : RunOf[c.snapshot] = r

DueRuns(table) == {r \in RunIDs : Due(r, table[r])}

TableLimit ==
  /\ IsFiniteSet(Existing(runs)) /\ Cardinality(DueRuns(runs)) <= MaxActiveRuns
  /\ \A r \in RunIDs : Announced(r, runs[r])

LEMMA DueExist == ASSUME NEW table PROVE DueRuns(table) \subseteq Existing(table)
BY DEF DueRuns, Due, Executing, Existing

(* A subset of finitely many runs is no larger.                                                  *)
LEMMA Smaller ==
  ASSUME NEW S, NEW T, T \subseteq S, IsFiniteSet(S), Cardinality(S) <= MaxActiveRuns
  PROVE  IsFiniteSet(T) /\ Cardinality(T) <= MaxActiveRuns
<1>1. IsFiniteSet(T) /\ Cardinality(T) <= Cardinality(S)
  BY FS_Subset
<1>2. Cardinality(T) \in Nat /\ Cardinality(S) \in Nat
  BY <1>1, FS_CardinalityType
<1> QED BY <1>1, <1>2, StoreConstants

LEMMA HushKeepsLimit ==
  ASSUME TableLimit, Hush
  PROVE  TableLimit' /\ DueRuns(runs') \subseteq DueRuns(runs)
<1>1. ASSUME NEW r \in RunIDs
      PROVE  /\ Announced(r, runs'[r]) /\ (Due(r, runs'[r]) => Due(r, runs[r]))
             /\ runs'[r].state # "absent" => runs[r].state # "absent"
  BY DEF TableLimit, Hush, Quiet
<1>2. DueRuns(runs') \subseteq DueRuns(runs) /\ Existing(runs') \subseteq Existing(runs)
  BY <1>1 DEF DueRuns, Existing
<1>3. IsFiniteSet(Existing(runs'))
  BY <1>2, FS_Subset DEF TableLimit
<1>4. IsFiniteSet(DueRuns(runs))
  BY DueExist, FS_Subset DEF TableLimit
<1>5. Cardinality(DueRuns(runs')) <= MaxActiveRuns
  BY <1>2, <1>4, Smaller DEF TableLimit
<1> QED BY <1>1, <1>2, <1>3, <1>5 DEF TableLimit

(* What a batch leaves due was due before or is admitted, and what it admits is counted.                *)
Batch(batch, reclaim, prune, replace, acknowledged) ==
  /\ batch \in SUBSET Candidate /\ IsFiniteSet(batch)
  /\ reclaim \in BOOLEAN /\ prune \in BOOLEAN /\ replace \in BOOLEAN /\ acknowledged \in BOOLEAN
  /\ replace => \A c \in batch : MayBeReplaced(RunOf[c.snapshot])
  /\ createBatch(Swept, batch, reclaim, prune, replace, acknowledged)

Admits(A, reclaim) ==
  /\ DueRuns(runs') \subseteq DueRuns(Swept) \cup A /\ DueRuns(Swept) \subseteq DueRuns(runs)
  /\ IsFiniteSet(Existing(runs')) /\ \A r \in RunIDs : Announced(r, runs'[r])
  /\ \A r \in A : ~IsActive(Swept[r])
  /\ \A X : X \subseteq Occupying(Swept, reclaim) \cup A => IsFiniteSet(X) /\ Cardinality(X) <= MaxActiveRuns

LEMMA BatchAdmits ==
  ASSUME TableInv, TableLimit, Ready,
         NEW batch, NEW reclaim, NEW prune, NEW replace, NEW acknowledged,
         Batch(batch, reclaim, prune, replace, acknowledged),
         NEW A, A = Admitted(batch, reclaim, replace)
  PROVE  Admits(A, reclaim)
<1> USE DEF Batch
<1>1. ASSUME NEW r \in RunIDs
      PROVE  /\ Announced(r, runs'[r]) /\ Quiet(r, runs[r], Swept[r])
             /\ r \in A => ~IsActive(Swept[r])
             /\ r \notin A => Quiet(r, Swept[r], runs'[r])
  BY BatchQuiet DEF TableLimit
<1>2. ASSUME NEW r \in RunIDs
      PROVE  /\ Due(r, Swept[r]) => Due(r, runs[r])
             /\ r \notin A /\ Due(r, runs'[r]) => Due(r, Swept[r])
             /\ r \notin A /\ runs'[r].state # "absent" => runs[r].state # "absent"
  BY <1>1 DEF Quiet, TableLimit
<1>3. A \subseteq RunIDs
  BY StoreConstants DEF Admitted, Candidate
<1>4. Existing(runs') \subseteq Existing(runs) \cup A
  BY <1>2 DEF Existing
<1>5. IsFiniteSet(A)
  <2>1. {} \subseteq Occupying(Swept, reclaim) \cup A
    OBVIOUS
  <2> QED BY <2>1, BatchCounts DEF TableLimit
<1>6. IsFiniteSet(Existing(runs) \cup A)
  BY <1>5, FS_Union DEF TableLimit
<1>7. IsFiniteSet(Existing(runs'))
  BY <1>4, <1>6, FS_Subset
<1>8. ASSUME NEW X, X \subseteq Occupying(Swept, reclaim) \cup A
      PROVE  IsFiniteSet(X) /\ Cardinality(X) <= MaxActiveRuns
  BY <1>8, BatchCounts DEF TableLimit
<1> QED BY <1>1, <1>2, <1>3, <1>7, <1>8 DEF DueRuns, Admits

(* The API counts every active run.                                                              *)
LEMMA CreateLimits ==
  ASSUME TableInv, TableLimit, NEW c \in Requests, Create(c),
         NEW Y, \A r \in Y : r \in RunIDs /\ IsActive(runs[r])
  PROVE  TableLimit' /\ IsFiniteSet(DueRuns(runs') \cup Y) /\ Cardinality(DueRuns(runs') \cup Y) <= MaxActiveRuns
<1>1. Ready /\ Batch({c}, FALSE, FALSE, FALSE, FALSE)
  BY CallerInputs, FS_Singleton DEF Create, Batch
<1>2. PICK A : A = Admitted({c}, FALSE, FALSE)
  OBVIOUS
<1>3. Admits(A, FALSE)
  BY <1>1, <1>2, BatchAdmits
<1>4. /\ DueRuns(runs') \subseteq DueRuns(Swept) \cup A
      /\ IsFiniteSet(Existing(runs')) /\ \A r \in RunIDs : Announced(r, runs'[r])
  BY <1>3 DEF Admits
<1>5. Occupying(Swept, FALSE) = {r \in RunIDs : IsActive(Swept[r])}
  BY DEF Occupying
<1>6. DueRuns(Swept) \subseteq Occupying(Swept, FALSE)
  BY <1>5 DEF DueRuns, Due, Executing
<1>7. Y \subseteq Occupying(Swept, FALSE)
  <2>1. ASSUME NEW r \in RunIDs, IsActive(runs[r]) PROVE IsActive(Swept[r])
    BY <1>1, <2>1, ReadyValid, SweepKeeps DEF Swept, Calm
  <2> QED BY <1>5, <2>1
<1>8. ASSUME NEW X, X \subseteq Occupying(Swept, FALSE) \cup A
      PROVE  IsFiniteSet(X) /\ Cardinality(X) <= MaxActiveRuns
  BY <1>3, <1>8 DEF Admits
<1>9. Cardinality(DueRuns(runs')) <= MaxActiveRuns
  BY <1>4, <1>6, <1>8
<1> QED BY <1>4, <1>6, <1>7, <1>8, <1>9 DEF TableLimit

(* A start-up does not count runs that are stopping.                                              *)
LEMMA BootLimits ==
  ASSUME OneReplaced, TableInv, TableLimit, NEW d \in Inventories, Boot(d)
  PROVE  TableLimit'
<1>1. PICK batch, prune, replace, acknowledged :
        /\ batch = d.batch /\ prune = d.prune /\ replace = d.replace /\ acknowledged = d.acknowledged
  OBVIOUS
<1>2. Ready /\ createBatch(Swept, batch, TRUE, prune, replace, acknowledged)
  BY <1>1 DEF Boot, ReconcileWorkstations
<1>3. Batch(batch, TRUE, prune, replace, acknowledged)
  <2>1. /\ batch \in SUBSET Candidate /\ IsFiniteSet(batch)
        /\ prune \in BOOLEAN /\ replace \in BOOLEAN /\ acknowledged \in BOOLEAN
    BY <1>1, CallerInputs
  <2>2. replace => \A c \in batch : MayBeReplaced(RunOf[c.snapshot])
    BY <1>1 DEF MayBeReplaced
  <2> QED BY <1>2, <2>1, <2>2 DEF Batch
<1>4. PICK A : A = Admitted(batch, TRUE, replace)
  OBVIOUS
<1>9. Admits(A, TRUE)
  BY <1>2, <1>3, <1>4, BatchAdmits
<1>5. /\ DueRuns(runs') \subseteq DueRuns(Swept) \cup A /\ DueRuns(Swept) \subseteq DueRuns(runs)
      /\ IsFiniteSet(Existing(runs')) /\ \A r \in RunIDs : Announced(r, runs'[r])
      /\ \A r \in A : ~IsActive(Swept[r])
  BY <1>9 DEF Admits
<1>6. CASE A = {}
  <2>1. DueRuns(runs') \subseteq DueRuns(runs) /\ IsFiniteSet(DueRuns(runs))
    BY <1>5, <1>6, DueExist, FS_Subset DEF TableLimit
  <2>2. Cardinality(DueRuns(runs')) <= MaxActiveRuns
    BY <2>1, Smaller DEF TableLimit
  <2> QED BY <1>5, <2>2 DEF TableLimit
<1>7. CASE A # {}
  <2>1. PICK a \in A : ~IsActive(Swept[a]) /\ \E c \in d.batch : RunOf[c.snapshot] = a
    BY <1>1, <1>4, <1>5, <1>7 DEF Admitted
  <2>2. ASSUME NEW r \in RunIDs, Due(r, Swept[r]) PROVE Executing(Swept[r])
    <3>1. ASSUME MayBeReplaced(r) PROVE r = a
      BY <2>1, <3>1 DEF OneReplaced
    <3>2. MayBeReplaced(r) => Swept[r].state # "stopping"
      BY <2>1, <3>1
    <3> QED BY <2>2, <3>2 DEF Due
  <2>3. DueRuns(Swept) \subseteq Occupying(Swept, TRUE)
    BY <2>2 DEF DueRuns, Occupying, Executing
  <2>4. Cardinality(DueRuns(runs')) <= MaxActiveRuns
    BY <1>5, <1>9, <2>3 DEF Admits
  <2> QED BY <1>5, <2>4 DEF TableLimit
<1> QED BY <1>6, <1>7

LEMMA StoreLimits == ASSUME OneReplaced, TableInv, TableLimit, [Next]_runs PROVE TableLimit'
<1>1. ASSUME NEW c \in Requests, Create(c) PROVE TableLimit'
  <2>1. PICK Y : Y = {}
    OBVIOUS
  <2>2. \A r \in Y : r \in RunIDs /\ IsActive(runs[r])
    BY <2>1
  <2> QED BY <1>1, <2>2, CreateLimits
<1>2. ASSUME NEW d \in Inventories, Boot(d) PROVE TableLimit'
  BY <1>2, BootLimits
<1>3. Hush => TableLimit'
  BY HushKeepsLimit
<1> QED BY <1>1, <1>2, <1>3, StoreHush

(* What a process remembers of the pass it is in: a backend is created in a work pass only, and      *)
(* only there is a run that was listed while it was preparing.                                  *)
PassOK(p, table) ==
  /\ p.pass \in {"recover", "cleanup", "work"} /\ p.todo \in [RunIDs -> Nat]
  /\ p.pc = "off" => p.pass = "recover"
  /\ p.pc \in EnsurePCs => p.pass = "work"
  /\ \A r \in RunIDs : p.todo[r] # 0 =>
       p.todo[r] <= table[r].revision
         /\ (p.todo[r] = table[r].revision /\ table[r].state = "preparing" => p.pass = "work")

LEMMA PassForward ==
  ASSUME TableInv, [Next]_runs, NEW p, PassOK(p, runs)
  PROVE  PassOK(p, runs')
<1>1. TableInv'
  BY NextKeepsInv
<1>2. ASSUME NEW r \in RunIDs, p.todo[r] # 0
      PROVE  /\ p.todo[r] <= runs'[r].revision
             /\ p.todo[r] = runs'[r].revision /\ runs'[r].state = "preparing" => p.pass = "work"
  <2>1. PICK row, new : row = runs[r] /\ new = runs'[r] /\ Forward(row, new)
    BY <1>1, TableForward
  <2>2. row.revision \in Nat /\ new.revision \in Nat /\ p.todo[r] \in Nat
    BY <1>1, <2>1 DEF TableInv, Row, PassOK
  <2>3. p.todo[r] <= row.revision /\ (p.todo[r] = row.revision /\ row.state = "preparing" => p.pass = "work")
    BY <1>2, <2>1 DEF PassOK
  <2> QED BY <2>1, <2>2, <2>3 DEF Forward
<1> QED BY <1>2 DEF PassOK

(* A process that goes on in its pass, with what it listed or less.                              *)
SamePass(o, p) ==
  /\ p.pass = proc[o].pass /\ p.todo \in [RunIDs -> Nat]
  /\ \A r \in RunIDs : p.todo[r] \in {0, proc[o].todo[r]}

LEMMA PassGoesOn ==
  ASSUME NEW o \in Owners, NEW table, PassOK(proc[o], table), NEW p, SamePass(o, p), p.pc # "off",
         p.pc \in EnsurePCs => p.pass = "work"
  PROVE  PassOK(p, table)
BY DEF PassOK, SamePass

PassInv == \A o \in Owners : PassOK(proc[o], runs)

LEMMA PassKept ==
  ASSUME TableInv, PassInv, [Next]_runs, NEW o \in Owners, OnlyProc(o), PassOK(proc'[o], runs')
  PROVE  PassInv'
BY PassForward DEF PassInv, OnlyProc

(* The backend's steps: an Ensure goes on with the run it was started for, and only compose up         *)
(* makes a runtime.                                                                         *)
Drives(o) ==
  /\ OnlyProc(o) /\ SamePass(o, proc'[o]) /\ proc[o].pc \in BusyPCs /\ proc'[o].pc # "off"
  /\ proc'[o].pc \in EnsurePCs => proc[o].pc \in EnsurePCs /\ proc'[o].work.run = Work(o).run
  /\ \A r \in RunIDs : box'[r].runtime # "absent" =>
       box[r].runtime # "absent" \/ (proc[o].pc \in EnsurePCs /\ Work(o).run = r)

LEMMA BackendPass ==
  ASSUME ClaimInv, BoxInv, PassInv, NEW o \in Owners, Backend(o)
  PROVE  Drives(o)
<1>1. /\ DOMAIN proc = Owners /\ DOMAIN proc[o] = ProcFields /\ proc[o].todo \in [RunIDs -> Nat]
  BY DEF ClaimInv, ProcOK, PassInv, PassOK
<1>2. proc[o].pc \in BusyPCs
  BY DEF Backend, Preflight, Upsert, EnsureVolumes, ComposeUp, Observe, Rollback, Restore, Unregister,
         RemoveContainers, RemoveVolumes, BackendFault, At, BusyPCs, EnsurePCs, DeletePCs
<1>3. WorkTyped(Work(o)) /\ Work(o).run \in RunIDs
  BY <1>2, BusyWork DEF WorkTyped
<1> DEFINE Goes == /\ OnlyProc(o) /\ SamePass(o, proc'[o]) /\ proc'[o].pc # "off"
                   /\ proc'[o].pc \in EnsurePCs => proc'[o].work.run = Work(o).run
<1>4. ASSUME NEW pc, Goto(o, pc), pc # "off" PROVE Goes
  BY <1>1, <1>4 DEF Goto, Work, OnlyProc, SamePass, ProcFields
<1>5. Return(o) => Goes /\ proc'[o].pc = "each"
  BY <1>1 DEF Return, OnlyProc, SamePass, ProcFields, EnsurePCs
<1>6. ASSUME NEW w, proc' = [proc EXCEPT ![o].pc = "report", ![o].work = w] PROVE Goes /\ proc'[o].pc = "report"
  BY <1>1, <1>6 DEF OnlyProc, SamePass, ProcFields, EnsurePCs
<1>7. ASSUME NEW pc, pc # "off", NEW v,
             \/ proc' = [proc EXCEPT ![o].pc = pc, ![o].work.stopped = v]
             \/ proc' = [proc EXCEPT ![o].pc = pc, ![o].work.registered = v]
      PROVE  Goes
  BY <1>1, <1>3, <1>7 DEF OnlyProc, SamePass, ProcFields, Work, WorkTyped, WorkFields
<1>8. ASSUME Fail(o) \/ Reject(o) PROVE Goes
  <2>1. CASE proc' = [proc EXCEPT ![o].pc = "report", ![o].work = Reporting(@, "stopping", "failed")]
    <3>1. PICK w : w = Reporting(Work(o), "stopping", "failed")
      OBVIOUS
    <3>2. proc' = [proc EXCEPT ![o].pc = "report", ![o].work = w]
      BY <2>1, <3>1 DEF Work
    <3> QED BY <1>6, <3>2
  <2> QED BY <1>4, <1>5, <1>8, <2>1 DEF Fail, Reject
<1>9. Goes
  <2>1. CASE Preflight(o)
    BY <1>7, <1>8, <2>1 DEF Preflight
  <2>2. CASE Upsert(o)
    BY <1>7, <1>8, <2>2 DEF Upsert
  <2>3. CASE EnsureVolumes(o) \/ ComposeUp(o) \/ Rollback(o) \/ Restore(o) \/ Unregister(o)
             \/ RemoveContainers(o) \/ RemoveVolumes(o)
    BY <1>4, <1>5, <1>8, <2>3 DEF EnsureVolumes, ComposeUp, Rollback, Restore, Unregister, RemoveContainers,
                                 RemoveVolumes
  <2>4. CASE Observe(o)
    BY <1>6, <2>4 DEF Observe
  <2>5. CASE BackendFault(o)
    BY <1>5, <1>8, <2>5 DEF BackendFault
  <2> QED BY <2>1, <2>2, <2>3, <2>4, <2>5 DEF Backend
<1>10. proc'[o].pc \in EnsurePCs => proc[o].pc \in EnsurePCs
  <2>1. CASE proc[o].pc \in EnsurePCs
    BY <2>1
  <2>2. CASE proc[o].pc \notin EnsurePCs
    <3>1. \/ Return(o) \/ Goto(o, "restore") \/ Goto(o, "containers") \/ Goto(o, "removeVolumes")
          \/ Goto(o, "report")
      BY <2>2 DEF Backend, Preflight, Upsert, EnsureVolumes, ComposeUp, Observe, Rollback, Restore, Unregister,
                  RemoveContainers, RemoveVolumes, BackendFault, At, EnsurePCs
    <3> QED BY <3>1, Moves DEF EnsurePCs
  <2> QED BY <2>1, <2>2
<1>11. ASSUME NEW r \in RunIDs, box'[r].runtime # "absent"
       PROVE  box[r].runtime # "absent" \/ (proc[o].pc \in EnsurePCs /\ Work(o).run = r)
  <2>1. box \in [RunIDs -> Box] /\ DOMAIN box = RunIDs /\ box[r] \in Box
    BY DEF BoxInv
  <2>2. CASE ComposeUp(o)
    <3>1. proc[o].pc \in EnsurePCs
      BY <2>2 DEF ComposeUp, At, EnsurePCs
    <3>2. r # Work(o).run => box'[r] = box[r]
      BY <2>1, <2>2 DEF ComposeUp
    <3> QED BY <1>11, <3>1, <3>2
  <2>3. CASE Preflight(o) \/ Rollback(o)
    BY <1>3, <1>11, <2>1, <2>3 DEF Preflight, Rollback, Box
  <2>4. CASE Upsert(o) \/ EnsureVolumes(o) \/ Restore(o) \/ Unregister(o) \/ RemoveVolumes(o)
    BY <1>3, <1>11, <2>1, <2>4 DEF Upsert, EnsureVolumes, Restore, Unregister, RemoveVolumes, Box
  <2>5. CASE RemoveContainers(o)
    BY <1>3, <1>11, <2>1, <2>5 DEF RemoveContainers, Box
  <2>6. CASE Observe(o) \/ BackendFault(o)
    BY <1>11, <2>6 DEF Observe, BackendFault
  <2> QED BY <2>2, <2>3, <2>4, <2>5, <2>6 DEF Backend
<1> QED BY <1>2, <1>9, <1>10, <1>11 DEF Drives

(* Between two operations a process admits no run, unless it starts.                              *)
LEMMA PausesHush ==
  ASSUME ClaimInv, NEW o \in Owners, Pauses(o), ~Start(o)
  PROVE  Hush
<1>1. TableInv
  BY DEF ClaimInv
<1>2. runs' = runs => Hush
  BY QuietOn DEF Hush
<1>3. CASE List(o) \/ \E r \in RunIDs : Skip(o, r)
  BY <1>1, <1>3, SweepHush DEF List, Skip, Sweep
<1>4. CASE Crash(o) \/ NextPass(o) \/ \E r \in RunIDs : Healthy(o, r)
  BY <1>2, <1>4 DEF Crash, NextPass, Healthy
<1>5. CASE ReportStatus(o)
  <2>1. PICK w : /\ w = Work(o) /\ WorkTyped(w) /\ w.to \in Active \cup Terminal /\ proc[o].pc = "report"
    BY <1>5, BusyWork DEF ReportStatus, At, BusyPCs, PinOK, ReportPCs, Work
  <2>2. CASE Reportable(Swept[w.run], o, w.revision, w.to, w.target, None)
    <3>1. UpdateStatus(w.run, o, w.revision, w.to, w.target, "other", None)
      BY <1>5, <2>1, <2>2 DEF ReportStatus
    <3>2. w.revision = Swept[w.run].revision
      BY <2>2 DEF Reportable
    <3>3. Report(w.run, o) /\ w.run \in RunIDs
      BY <2>1, <3>1, <3>2 DEF Report, WorkTyped, Reasons
    <3> QED BY <1>1, <3>3, ReportHush
  <2>3. CASE ~Reportable(Swept[w.run], o, w.revision, w.to, w.target, None)
    <3>1. Sweep
      BY <1>5, <2>1, <2>3 DEF ReportStatus, Sweep
    <3> QED BY <1>1, <3>1, SweepHush
  <2> QED BY <2>2, <2>3
<1>6. CASE Abort(o)
  <2>1. PICK w : w = Work(o) /\ WorkTyped(w) /\ PinOK(proc[o], runs[w.run]) /\ proc[o].pc = "abort"
    BY <1>6, BusyWork DEF Abort, At, BusyPCs
  <2>2. CASE runs[w.run].revision = w.revision /\ abortPendingConfiguration(w.run, o, w.revision)
    <3>1. runs[w.run].state = "preparing"
      BY <2>1, <2>2 DEF PinOK, PreparingPCs, Work
    <3>2. AbortRollout(w.run, o) /\ w.run \in RunIDs
      BY <2>1, <2>2, <3>1 DEF AbortRollout, WorkTyped
    <3> QED BY <1>1, <3>2, AbortHush
  <2> QED BY <1>2, <1>6, <2>1, <2>2 DEF Abort
<1> QED BY <1>3, <1>4, <1>5, <1>6 DEF Pauses

LEMMA PausesPass ==
  ASSUME ClaimInv, PassInv, NEW o \in Owners, Pauses(o)
  PROVE  /\ PassOK(proc'[o], runs')
         /\ ~NextPass(o) /\ ~Crash(o) => proc'[o].pass = proc[o].pass
<1>1. /\ DOMAIN proc = Owners /\ DOMAIN proc[o] = ProcFields /\ TableInv /\ [Next]_runs
      /\ PassOK(proc[o], runs)
  BY PausesKeep DEF ClaimInv, ProcOK, PassInv
<1>2. /\ proc[o].todo \in [RunIDs -> Nat] /\ PassOK(proc[o], runs') /\ TableInv'
  BY <1>1, PassForward, NextKeepsInv DEF PassOK
<1>3. proc'[o].pc \notin EnsurePCs /\ proc'[o].pc # "off"
  BY PausesKeep DEF EnsurePCs
<1>4. ASSUME SamePass(o, proc'[o]) PROVE PassOK(proc'[o], runs') /\ proc'[o].pass = proc[o].pass
  BY <1>2, <1>3, <1>4, PassGoesOn DEF SamePass
<1>5. CASE Start(o) \/ Abort(o)
  BY <1>1, <1>2, <1>4, <1>5 DEF Start, Abort, Return, SamePass, ProcFields
<1>6. CASE ReportStatus(o)
  <2>1. Return(o) \/ proc' = [proc EXCEPT ![o] = [Refused(@) EXCEPT !.pc = "each", !.work = NoWork]]
    BY <1>6 DEF ReportStatus
  <2>2. ASSUME proc' = [proc EXCEPT ![o] = [Refused(@) EXCEPT !.pc = "each", !.work = NoWork]]
        PROVE  proc'[o].pass = proc[o].pass /\ proc'[o].todo = proc[o].todo
    <3>1. PICK q, lost : q = proc[o] /\ lost = (q.recovered /\ q.pass # "recover")
      OBVIOUS
    <3>2. proc'[o] = [[q EXCEPT !.recovered = lost] EXCEPT !.pc = "each", !.work = NoWork]
      BY <1>1, <2>2, <3>1 DEF Refused
    <3> QED BY <1>1, <3>1, <3>2 DEF ProcFields
  <2>3. proc'[o].pass = proc[o].pass /\ proc'[o].todo = proc[o].todo
    BY <1>1, <2>1, <2>2 DEF Return, ProcFields
  <2> QED BY <1>2, <1>4, <2>3 DEF SamePass
<1>7. ASSUME NEW r \in RunIDs, Healthy(o, r) \/ Skip(o, r)
      PROVE  PassOK(proc'[o], runs') /\ proc'[o].pass = proc[o].pass
  <2>1. proc' = [proc EXCEPT ![o] = Drop(o, r)] \/ proc' = [proc EXCEPT ![o] = Refused(Drop(o, r))]
    BY <1>7 DEF Healthy, Skip
  <2>2. proc'[o].pass = proc[o].pass /\ proc'[o].todo = [proc[o].todo EXCEPT ![r] = 0]
    BY <1>1, <2>1 DEF Drop, Refused, ProcFields
  <2> QED BY <1>2, <1>4, <2>2 DEF SamePass
<1>8. CASE Crash(o)
  <2>1. proc'[o].pass = "recover" /\ proc'[o].todo = NoTodo
    BY <1>1, <1>8 DEF Crash, Unborn
  <2> QED BY <1>3, <1>8, <2>1 DEF PassOK, NoTodo
<1>9. CASE List(o)
  <2> DEFINE listed == [r \in RunIDs |-> IF Listed(proc[o].pass, Swept[r]) THEN Swept[r].revision ELSE 0]
  <2>7. PICK T, R : T = listed /\ proc' = [proc EXCEPT ![o].pc = "each", ![o].recovered = R, ![o].todo = T]
    BY <1>9 DEF List
  <2>8. PICK p : p = proc'[o]
    OBVIOUS
  <2>1. p.pass = proc[o].pass /\ p.todo = T
    BY <1>1, <2>7, <2>8 DEF ProcFields
  <2>2. runs' = Swept
    BY <1>9 DEF List
  <2>3. \A r \in RunIDs : Swept[r].revision \in Nat
    BY <1>2, <2>2 DEF TableInv, Row
  <2>4. p.todo \in [RunIDs -> Nat]
    BY <2>1, <2>3, <2>7
  <2>5. p.pass \in {"recover", "cleanup", "work"}
    BY <1>1, <2>1 DEF PassOK
  <2>6. ASSUME NEW r \in RunIDs, p.todo[r] # 0
        PROVE  p.todo[r] <= Swept[r].revision /\ (Swept[r].state = "preparing" => p.pass = "work")
    <3>1. p.todo[r] = Swept[r].revision /\ Listed(p.pass, Swept[r])
      BY <2>1, <2>6, <2>7
    <3>2. PICK row, pass : row = Swept[r] /\ pass = p.pass /\ Listed(pass, row)
      BY <3>1
    <3>3. row.state = "preparing" => pass = "work"
      BY <2>5, <3>2 DEF Listed
    <3> QED BY <2>3, <3>1, <3>2, <3>3
  <2> QED BY <1>3, <1>9, <2>1, <2>2, <2>4, <2>5, <2>6, <2>8 DEF PassOK
<1>10. CASE NextPass(o)
  <2>1. PICK p : p = proc'[o] /\ p.pass \in {"recover", "cleanup", "work"} /\ p.todo = NoTodo
    <3>1. PICK pass : pass = proc[o].pass /\ pass \in {"recover", "cleanup", "work"}
      BY <1>1 DEF PassOK
    <3>2. \E to \in {"recover", "cleanup", "work"} : proc' = [proc EXCEPT ![o].pc = "list", ![o].pass = to]
      BY <1>10, <3>1 DEF NextPass
    <3>3. proc[o].todo = NoTodo
      BY <1>10 DEF NextPass
    <3> QED BY <1>1, <3>2, <3>3 DEF ProcFields
  <2> QED BY <1>3, <1>10, <2>1 DEF PassOK, NoTodo
<1> QED BY <1>5, <1>6, <1>7, <1>8, <1>9, <1>10 DEF Pauses

(* A backend is created for a run that is still preparing, in a work pass.                          *)
LEMMA TakePass ==
  ASSUME ClaimInv, PassInv, NEW o \in Owners, NEW r \in RunIDs, Take(o, r)
  PROVE  /\ PassOK(proc'[o], runs') /\ proc'[o].pass = proc[o].pass
         /\ proc'[o].pc \in EnsurePCs => Executing(runs'[r]) /\ proc'[o].work.run = r
<1>1. /\ DOMAIN proc = Owners /\ DOMAIN proc[o] = ProcFields /\ TableInv /\ [Next]_runs
      /\ PassOK(proc[o], runs)
  BY TakeKeeps DEF ClaimInv, ProcOK, PassInv
<1>2. /\ proc[o].todo \in [RunIDs -> Nat] /\ PassOK(proc[o], runs')
  BY <1>1, PassForward DEF PassOK
<1>3. proc'[o].pass = proc[o].pass /\ proc'[o].todo = [proc[o].todo EXCEPT ![r] = 0]
  <2>1. \E pc, w : Enter(o, r, pc, w)
    BY DEF Take
  <2> QED BY <1>1, <2>1 DEF Enter, Drop, ProcFields
<1>4. SamePass(o, proc'[o])
  BY <1>2, <1>3 DEF SamePass
<1>5. proc'[o].pc \in {"report", "preflight", "unregister"}
  BY TakeLeads DEF TakenTo
<1>6. CASE proc'[o].pc = "preflight"
  <2>1. Swept[r].state = "preparing" /\ proc'[o].work = Claimed(o, r)
    BY <1>6, TakeLeads DEF TakenTo
  <2>2. PICK n : n = proc[o].todo[r] /\ n # 0 /\ n \in Nat /\ Swept[r].revision = n
    BY <1>2 DEF Take, Claim, Claimable
  <2>3. n <= runs[r].revision /\ (n = runs[r].revision /\ runs[r].state = "preparing" => proc[o].pass = "work")
    BY <1>1, <2>2 DEF PassOK
  <2>4. Swept[r] = runs[r]
    BY <1>1, <2>2, <2>3, NotSwept
  <2>5. proc[o].pass = "work"
    BY <2>1, <2>2, <2>3, <2>4
  <2>6. Executing(runs'[r]) /\ proc'[o].work.run = r
    BY <2>1, TakesClaim, ClaimedWork DEF Executing
  <2> QED BY <1>2, <1>3, <1>4, <1>6, <2>5, <2>6, PassGoesOn
<1>7. CASE proc'[o].pc \in {"report", "unregister"}
  <2>1. proc'[o].pc \notin EnsurePCs /\ proc'[o].pc # "off"
    BY <1>7 DEF EnsurePCs
  <2> QED BY <1>2, <1>3, <1>4, <2>1, PassGoesOn
<1> QED BY <1>5, <1>6, <1>7

(* Runs with a runtime, and runs that an Ensure is at work on.                                     *)
Up == {r \in RunIDs : box[r].runtime # "absent"}
Ensured == {r \in RunIDs : Ensuring(r)}
InWork(o) == Live(o) /\ proc[o].pass = "work"
Load == DueRuns(runs) \cup Up \cup Ensured

(* While backends are being created there is room for every run that executes or may again, along      *)
(* with every runtime there is or will be.                                                    *)
LimitInv ==
  /\ TableLimit /\ PassInv /\ Cardinality(Up) <= MaxActiveRuns
  /\ (\E o \in Owners : InWork(o)) => Cardinality(Load) <= MaxActiveRuns

LEMMA UpActive ==
  ASSUME ClaimInv, BoxInv
  PROVE  /\ \A r \in Up \cup Ensured : r \in RunIDs /\ IsActive(runs[r])
         /\ Up \subseteq Existing(runs) /\ Load \subseteq Existing(runs)
<1>1. ASSUME NEW r \in RunIDs, box[r].runtime # "absent" PROVE IsActive(runs[r])
  <2>1. NoBox.runtime = "absent"
    BY DEF NoBox
  <2>2. BoxOK(runs[r], box[r]) /\ runs[r].state \in Active \cup Terminal \cup {"absent"}
    BY DEF BoxInv, ClaimInv, TableInv, Row
  <2> QED BY <1>1, <2>1, <2>2 DEF BoxOK
<1>2. ASSUME NEW r \in RunIDs, Ensuring(r) PROVE IsActive(runs[r])
  BY <1>2, NothingEnsured
<1>3. \A r \in Up \cup Ensured : r \in RunIDs /\ IsActive(runs[r])
  BY <1>1, <1>2 DEF Up, Ensured
<1>4. \A r \in RunIDs : IsActive(runs[r]) => r \in Existing(runs)
  BY DEF Existing
<1> QED BY <1>3, <1>4, DueExist DEF Load

LEMMA LoadFinite ==
  ASSUME ClaimInv, BoxInv, LimitInv
  PROVE  IsFiniteSet(Up) /\ IsFiniteSet(Load) /\ IsFiniteSet(Existing(runs))
BY UpActive, FS_Subset DEF LimitInv, TableLimit

(* Steps that add no load.                                                                *)
LEMMA NoMoreLoad ==
  ASSUME ClaimInv, BoxInv, LimitInv, TableLimit', PassInv', Up' \subseteq Up,
         (\E o \in Owners : InWork(o))' => (\E o \in Owners : InWork(o)) /\ Load' \subseteq Load
  PROVE  LimitInv'
<1>1. IsFiniteSet(Up) /\ IsFiniteSet(Load)
  BY LoadFinite
<1>2. PICK S, T : S = Up /\ T = Up'
  OBVIOUS
<1>3. Cardinality(Up') <= MaxActiveRuns
  BY <1>1, <1>2, Smaller DEF LimitInv
<1>4. ASSUME (\E o \in Owners : InWork(o))' PROVE Cardinality(Load') <= MaxActiveRuns
  <2>1. PICK S1, T1 : S1 = Load /\ T1 = Load' /\ T1 \subseteq S1 /\ IsFiniteSet(S1) /\ Cardinality(S1) <= MaxActiveRuns
    BY <1>1, <1>4 DEF LimitInv
  <2> QED BY <2>1, Smaller
<1> QED BY <1>3, <1>4 DEF LimitInv

(* Users, time and the containers themselves.                                                     *)
LEMMA OutsideLimits ==
  ASSUME OneReplaced, ClaimInv, BoxInv, LimitInv, Outside
  PROVE  LimitInv'
<1>1. [Next]_runs /\ proc' = proc /\ TableInv
  BY OutsideKeeps DEF ClaimInv
<1>2. PassInv'
  BY <1>1, PassForward DEF PassInv, LimitInv
<1>3. Ensured' = Ensured /\ ((\E o \in Owners : InWork(o))' <=> (\E o \in Owners : InWork(o)))
  BY <1>1 DEF Ensured, Ensuring, Work, InWork, Live
<1>4. Up' = Up
  <2>1. CASE \E r \in RunIDs : RuntimeExits(r)
    BY <2>1 DEF RuntimeExits, Up, BoxInv, Box
  <2>2. CASE box' = box
    BY <2>2 DEF Up
  <2> QED BY <2>1, <2>2 DEF Outside, Call, Edit, Clock, PeriodicSweep, controllerVars
<1>5. CASE Hush
  <2>1. TableLimit' /\ DueRuns(runs') \subseteq DueRuns(runs)
    BY <1>5, HushKeepsLimit DEF LimitInv
  <2>2. Load' \subseteq Load
    BY <1>3, <1>4, <2>1 DEF Load
  <2> QED BY <1>2, <1>3, <1>4, <2>1, <2>2, NoMoreLoad
<1>6. ASSUME NEW c \in Requests, Create(c) PROVE LimitInv'
  <2>1. PICK Y : Y = Up \cup Ensured /\ \A r \in Y : r \in RunIDs /\ IsActive(runs[r])
    BY UpActive
  <2>2. TableLimit' /\ Cardinality(DueRuns(runs') \cup Y) <= MaxActiveRuns
    BY <1>1, <1>6, <2>1, CreateLimits DEF LimitInv
  <2>3. Load' = DueRuns(runs') \cup Y
    BY <1>3, <1>4, <2>1 DEF Load
  <2> QED BY <1>2, <1>4, <2>2, <2>3 DEF LimitInv
<1>7. Hush \/ \E c \in Requests : Create(c)
  <2>1. CASE runs' = runs
    BY <2>1, QuietOn DEF Hush
  <2>2. CASE Clock \/ PeriodicSweep
    BY <1>1, <2>2, AgeHush, SweepHush DEF Clock, PeriodicSweep, TimePasses
  <2>3. CASE Call
    <3>1. ASSUME NEW r \in RunIDs, DeleteCall(r) PROVE Hush
      BY <1>1, <3>1, SweepHush, StopHush DEF DeleteCall, Sweep, Delete
    <3>2. ASSUME NEW r \in RunIDs, Cancel(r) PROVE Hush
      BY <1>1, <3>2, StopHush DEF Cancel
    <3> QED BY <2>3, <3>1, <3>2 DEF Call
  <2> QED BY <2>1, <2>2, <2>3 DEF Outside, RuntimeExits, Edit
<1> QED BY <1>5, <1>6, <1>7

(* Docker and the broker.                                                                       *)
LEMMA BackendLimits ==
  ASSUME ClaimInv, BoxInv, LimitInv, NEW o \in Owners, Backend(o)
  PROVE  LimitInv'
<1>1. runs' = runs /\ TableInv /\ PassInv
  BY BackendKeeps DEF ClaimInv, LimitInv
<1>2. Drives(o)
  BY <1>1, BackendPass
<1>3. Alone(o) /\ Live(o)
  BY <1>2, PCSets DEF Drives, Live, BoxInv
<1>4. PassInv'
  <2>1. PassOK(proc[o], runs)
    BY <1>1 DEF PassInv
  <2>2. proc'[o].pc \in EnsurePCs => proc'[o].pass = "work"
    BY <1>2, <2>1 DEF Drives, PassOK, SamePass
  <2>3. PICK p : p = proc'[o]
    OBVIOUS
  <2>4. PassOK(p, runs)
    BY <1>2, <2>1, <2>2, <2>3, PassGoesOn DEF Drives
  <2> QED BY <1>1, <1>2, <2>3, <2>4, PassKept DEF Drives
<1>5. TableLimit' /\ DueRuns(runs') = DueRuns(runs)
  BY <1>1 DEF LimitInv, TableLimit
<1>6. \A q \in Owners : q # o => proc'[q].pc \in {"off", "dead"} /\ proc[q].pc \in {"off", "dead"}
  BY <1>2, <1>3 DEF Drives, OnlyProc, Alone
<1>7. Ensured' \subseteq Ensured
  BY <1>2, <1>6 DEF Ensured, Ensuring, Work, Drives, EnsurePCs
<1>8. Up' \subseteq Up \cup Ensured
  BY <1>2 DEF Up, Ensured, Ensuring, Drives
<1>9. (\E q \in Owners : InWork(q))' => InWork(o)
  BY <1>2, <1>3, <1>6 DEF InWork, Live, Drives, SamePass
<1>10. CASE proc[o].pc \in EnsurePCs
  <2>1. InWork(o)
    BY <1>1, <1>3, <1>10 DEF InWork, PassInv, PassOK
  <2>2. PICK S, T, U : S = Load /\ T = Load' /\ U = Up' /\ T \subseteq S /\ U \subseteq S
    BY <1>5, <1>7, <1>8 DEF Load
  <2>3. IsFiniteSet(S) /\ Cardinality(S) <= MaxActiveRuns
    BY <2>1, <2>2, LoadFinite DEF LimitInv
  <2>4. Cardinality(T) <= MaxActiveRuns /\ Cardinality(U) <= MaxActiveRuns
    BY <2>2, <2>3, Smaller
  <2> QED BY <1>4, <1>5, <2>2, <2>4 DEF LimitInv
<1>11. CASE proc[o].pc \notin EnsurePCs
  <2>1. Up' \subseteq Up
    BY <1>2, <1>11 DEF Up, Drives
  <2>2. Load' \subseteq Load
    BY <1>5, <1>7, <2>1 DEF Load
  <2> QED BY <1>4, <1>5, <1>9, <2>1, <2>2, NoMoreLoad
<1> QED BY <1>10, <1>11

LEMMA TakeLimits ==
  ASSUME ClaimInv, BoxInv, LimitInv, NEW o \in Owners, NEW r \in RunIDs, Take(o, r)
  PROVE  LimitInv'
<1>1. [Next]_runs /\ TableInv /\ PassInv /\ OnlyProc(o)
  BY TakeKeeps, TakeLeads DEF ClaimInv, LimitInv
<1>2. Live(o) /\ Alone(o) /\ box' = box
  BY DEF Take, Live, BoxInv
<1>3. Hush
  BY <1>1, TakesClaim, ClaimHush
<1>4. TableLimit' /\ DueRuns(runs') \subseteq DueRuns(runs)
  BY <1>3, HushKeepsLimit DEF LimitInv
<1>5. /\ PassOK(proc'[o], runs') /\ proc'[o].pass = proc[o].pass
      /\ proc'[o].pc \in EnsurePCs => Executing(runs'[r]) /\ proc'[o].work.run = r
  BY <1>1, TakePass
<1>6. PassInv'
  BY <1>1, <1>5, PassKept
<1>7. \A q \in Owners : q # o => proc'[q].pc \in {"off", "dead"}
  BY <1>1, <1>2 DEF OnlyProc, Alone
<1>8. Ensured' \subseteq DueRuns(runs')
  BY <1>5, <1>7 DEF Ensured, Ensuring, Work, EnsurePCs, DueRuns, Due
<1>9. (\E q \in Owners : InWork(q))' => InWork(o)
  BY <1>2, <1>5, <1>7 DEF InWork, Live
<1>10. Up' = Up /\ Load' \subseteq Load
  BY <1>2, <1>4, <1>8 DEF Up, Load
<1> QED BY <1>4, <1>6, <1>9, <1>10, NoMoreLoad

(* A work pass begins when the cleanup backlog is gone: no run is stopping, or all active runs        *)
(* together are within the limit.                                                            *)
LEMMA RoomForWork ==
  ASSUME ClaimInv, BoxInv, LimitInv, ~replacementCleanupPending
  PROVE  IsFiniteSet(DueRuns(runs) \cup Up) /\ Cardinality(DueRuns(runs) \cup Up) <= MaxActiveRuns
<1>1. /\ \A r \in Up : r \in RunIDs /\ IsActive(runs[r])
      /\ IsFiniteSet(Existing(runs)) /\ DueRuns(runs) \subseteq Existing(runs)
  BY UpActive, LoadFinite, DueExist
<1>2. IsFiniteSet(DueRuns(runs)) /\ Cardinality(DueRuns(runs)) <= MaxActiveRuns
  BY <1>1, FS_Subset DEF LimitInv, TableLimit
<1>3. CASE \A r \in RunIDs : runs[r].state # "stopping"
  <2>1. \A r \in Up : Executing(runs[r])
    BY <1>1, <1>3 DEF Executing
  <2>2. DueRuns(runs) \cup Up = DueRuns(runs)
    BY <1>1, <2>1 DEF DueRuns, Due
  <2> QED BY <1>2, <2>2
<1>4. CASE ~(Cardinality({r \in RunIDs : IsActive(runs[r])}) > MaxActiveRuns)
  <2>1. PICK S, T : S = {r \in RunIDs : IsActive(runs[r])} /\ T = DueRuns(runs) \cup Up
    OBVIOUS
  <2>2. T \subseteq S /\ S \subseteq Existing(runs)
    BY <1>1, <2>1 DEF DueRuns, Due, Executing, Existing
  <2>3. IsFiniteSet(S)
    BY <1>1, <2>2, FS_Subset
  <2>4. Cardinality(S) \in Nat /\ ~(Cardinality(S) > MaxActiveRuns)
    BY <1>4, <2>1, <2>3, FS_CardinalityType
  <2>5. Cardinality(S) <= MaxActiveRuns
    BY <2>4, StoreConstants
  <2> QED BY <2>1, <2>2, <2>3, <2>5, Smaller
<1> QED BY <1>3, <1>4 DEF replacementCleanupPending

LEMMA PausesLimits ==
  ASSUME OneController, OneReplaced, ClaimInv, BoxInv, LimitInv, NEW o \in Owners, Pauses(o)
  PROVE  LimitInv'
<1>1. /\ [Next]_runs /\ TableInv /\ PassInv /\ OnlyProc(o)
      /\ proc'[o].pc \in {"list", "each", "dead"}
  BY PausesKeep DEF ClaimInv, LimitInv
<1>2. box' = box
  BY DEF Pauses, Start, Crash, List, NextPass, Healthy, Skip, ReportStatus, Abort
<1>3. TableLimit'
  BY <1>1, StoreLimits DEF LimitInv
<1>4. /\ PassOK(proc'[o], runs')
      /\ ~NextPass(o) /\ ~Crash(o) => proc'[o].pass = proc[o].pass
  BY <1>1, PausesPass
<1>5. PassInv'
  BY <1>1, <1>4, PassKept
<1>6. Alone(o) /\ (~Start(o) => Live(o))
  <2>1. ~Start(o) => Live(o)
    BY DEF Pauses, Crash, List, NextPass, Healthy, Skip, ReportStatus, Abort, At, Live
  <2> QED BY <2>1, StartsAlone DEF BoxInv
<1>7. \A q \in Owners : q # o => proc'[q].pc \in {"off", "dead"}
  BY <1>1, <1>6 DEF OnlyProc, Alone
<1>8. Ensured' = {} /\ Up' = Up
  BY <1>1, <1>2, <1>7 DEF Ensured, Ensuring, EnsurePCs, Up
<1>9. (\E q \in Owners : InWork(q))' => proc'[o].pass = "work" /\ proc'[o].pc # "dead"
  BY <1>7 DEF InWork, Live
<1>10. CASE Start(o)
  <2>1. proc[o].pass = "recover" /\ ~NextPass(o) /\ ~Crash(o)
    BY <1>1, <1>10 DEF Start, NextPass, Crash, Live, PassInv, PassOK
  <2> QED BY <1>3, <1>4, <1>5, <1>8, <1>9, <2>1, NoMoreLoad
<1>11. CASE ~Start(o)
  <2>1. DueRuns(runs') \subseteq DueRuns(runs)
    BY <1>11, PausesHush, HushKeepsLimit DEF LimitInv
  <2>2. Load' \subseteq Load /\ Load' \subseteq DueRuns(runs) \cup Up
    BY <1>8, <2>1 DEF Load
  <2>3. CASE proc'[o].pass = proc[o].pass
    <3>1. proc[o].pass = "work" => InWork(o)
      BY <1>6, <1>11 DEF InWork
    <3> QED BY <1>3, <1>5, <1>8, <1>9, <2>2, <2>3, <3>1, NoMoreLoad
  <2>4. CASE proc'[o].pc = "dead"
    BY <1>3, <1>5, <1>8, <1>9, <2>4, NoMoreLoad
  <2>5. CASE NextPass(o) /\ proc'[o].pass = "work" /\ proc[o].pass # "work"
    <3>1. ~replacementCleanupPending
      <4>1. PICK pass : pass = proc[o].pass /\ pass \in {"recover", "cleanup"}
        BY <1>1, <2>5 DEF PassInv, PassOK
      <4>2. DOMAIN proc = Owners /\ DOMAIN proc[o] = ProcFields
        BY DEF ClaimInv, ProcOK
      <4>3. PICK to : /\ proc' = [proc EXCEPT ![o].pc = "list", ![o].pass = to]
                      /\ to = "work" => ~replacementCleanupPending
        BY <2>5, <4>1 DEF NextPass
      <4>4. proc'[o].pass = to
        BY <4>2, <4>3 DEF ProcFields
      <4> QED BY <2>5, <4>3, <4>4
    <3>2. PICK S, T : S = DueRuns(runs) \cup Up /\ T = Load' /\ T \subseteq S
      BY <2>2
    <3>3. Cardinality(T) <= MaxActiveRuns
      BY <3>1, <3>2, RoomForWork, Smaller
    <3> QED BY <1>3, <1>5, <1>8, <3>2, <3>3 DEF LimitInv
  <2>6. CASE proc'[o].pass # "work"
    BY <1>3, <1>5, <1>8, <1>9, <2>6, NoMoreLoad
  <2>7. Crash(o) => proc'[o].pc = "dead"
    BY DEF Crash, Unborn, ClaimInv
  <2> QED BY <1>4, <2>3, <2>4, <2>5, <2>6, <2>7
<1> QED BY <1>10, <1>11

LEMMA InitLimits == ControllerInit => LimitInv
<1> SUFFICES ASSUME ControllerInit PROVE LimitInv
  OBVIOUS
<1>1. NoBox.runtime = "absent" /\ NoRow.state = "absent"
  BY DEF NoBox, NoRow
<1>2. \A r \in RunIDs : runs[r].state = "absent" /\ box[r].runtime = "absent"
  BY <1>1 DEF ControllerInit, Init
<1>3. Existing(runs) = {} /\ DueRuns(runs) = {} /\ Up = {}
  BY <1>2 DEF Existing, DueRuns, Due, Executing, Up
<1>4. IsFiniteSet({}) /\ Cardinality({}) = 0
  BY FS_EmptySet
<1>5. \A r \in RunIDs : Announced(r, runs[r])
  BY <1>2 DEF Announced
<1>6. 0 <= MaxActiveRuns
  BY StoreConstants
<1>7. \A o \in Owners : proc[o] = Unborn
  BY DEF ControllerInit
<1>8. PassInv
  <2>1. Unborn.pc = "off" /\ Unborn.pass = "recover" /\ Unborn.todo = NoTodo
    BY DEF Unborn
  <2>2. PassOK(Unborn, runs)
    BY <2>1 DEF PassOK, NoTodo, EnsurePCs
  <2> QED BY <1>7, <2>2 DEF PassInv
<1>9. \A o \in Owners : ~InWork(o)
  BY <1>7 DEF InWork, Live, Unborn
<1>10. TableLimit
  BY <1>3, <1>4, <1>5, <1>6 DEF TableLimit
<1> QED BY <1>3, <1>4, <1>6, <1>8, <1>9, <1>10 DEF LimitInv

LEMMA StepLimits ==
  ASSUME OneController, OneReplaced, ClaimInv, BoxInv, LimitInv, [ControllerNext]_vars
  PROVE  LimitInv'
<1>1. CASE UNCHANGED vars
  BY <1>1 DEF vars, controllerVars, LimitInv, TableLimit, PassInv, InWork, Live, Load, Up, Ensured, Ensuring, Work
<1> QED BY <1>1, Cases, PausesLimits, BackendLimits, TakeLimits, OutsideLimits

(* No more runtimes exist at once than MaxActiveRuns, although start-up admission does not count       *)
(* the runs that are still being cleaned up, and a replaced workstation is admitted without being       *)
(* counted: replacementCleanupPending keeps backends from being created until the backlog is gone,       *)
(* through restarts, new inventories, API calls and a claim or an Ensure cut off anywhere.  For any       *)
(* limit and any number of runs, where one controller process runs at a time and, if inventories may       *)
(* replace a workstation, they name only that one.                                               *)
THEOREM LimitIsKept ==
  ASSUME OneController, OneReplaced
  PROVE  ControllerSpec => []RuntimesWithinLimit
<1>1. ClaimInv /\ BoxInv /\ LimitInv /\ [ControllerNext]_vars => LimitInv'
  BY StepLimits
<1>2. LimitInv => RuntimesWithinLimit
  BY DEF LimitInv, Up, RuntimesWithinLimit
<1> QED BY <1>1, <1>2, InitLimits, BoxInvariant, PTL DEF ControllerSpec
=============================================================================
