--------------------------- MODULE LocalController ---------------------------
(***************************************************************************)
(* The local controller as a whole: controller processes that start, boot    *)
(* the workstation inventory, recover and reconcile runs and may crash; the   *)
(* Docker backend they drive (localcontroller/internal/dockerbackend); and     *)
(* API callers.  Every store transaction and every Docker mutation is one step,*)
(* so the processes interleave between a claim, the backend operation it        *)
(* protects and the status report that ends it.                               *)
(*                                                                         *)
(* A process takes a fresh reconcile owner each time it starts                 *)
(* (NewProcessReconcileOwner), so an owner is one process incarnation.         *)
(***************************************************************************)
EXTENDS LocalRunAPI

CONSTANTS
  Persistent,   \* snapshots with any persistent volume
  Unsupported,  \* snapshots the backend rejects by inspection of the document
  MaxLive,      \* controller processes alive at the same time
  MaxFaults,    \* bound: Docker/broker errors, runtime exits and crashes
  MaxCalls      \* bound: API calls and inventory edits

ASSUME ControllerConstants ==
  /\ Rollable \subseteq Persistent /\ Persistent \subseteq Snapshots
  /\ Unsupported \subseteq Snapshots
  /\ {MaxLive, MaxFaults, MaxCalls} \subseteq Nat

VARIABLES
  proc,      \* by owner: the process and the operation it is in
  box,       \* by run: what Docker and the broker registry hold for it
  document,  \* the inventory on disk
  accepted,  \* runs whose DELETE the API answered with 202
  faults, calls

controllerVars == <<proc, box, document, accepted, faults, calls>>
vars == <<runs, controllerVars>>

(* Per run: the runtime containers (with the configuration they were created    *)
(* from and their ownership label), the named volumes and networks (their label),*)
(* and the broker registration (whose grants, under whose token).  A runtime is   *)
(* "paused" when the controller stopped it and "exited" when it ended by itself.   *)
NoBox == [runtime |-> "absent", config |-> None, label |-> None,
          volumes |-> None, grants |-> None, token |-> None]
Box ==
  [runtime : {"absent", "up", "paused", "exited"},
   config : Snapshots \cup {None}, label : Snapshots \cup {None},
   volumes : Snapshots \cup {None}, grants : Snapshots \cup {None},
   token : Snapshots \cup {None}]

(* The claimed run handed to the backend (BackendRun) and the report to make.     *)
NoWork == [run |-> None, revision |-> 0, desired |-> None, ownership |-> None,
           previous |-> None, deleteRequested |-> FALSE,
           stopped |-> FALSE, registered |-> FALSE, to |-> None, target |-> None]
NoTodo == [r \in RunIDs |-> 0]
Unborn == [pc |-> "off", pass |-> "recover", recovered |-> FALSE, todo |-> NoTodo, work |-> NoWork]

EnsurePCs == {"preflight", "upsert", "volumes", "compose", "observe"}
DeletePCs == {"unregister", "containers", "removeVolumes"}
BusyPCs == EnsurePCs \cup DeletePCs \cup {"rollback", "restore", "abort", "report"}
PCs == BusyPCs \cup {"off", "dead", "list", "each"}

Live(o) == proc[o].pc \notin {"off", "dead"}
Rollout(work) == work.previous # None

ControllerInit ==
  /\ Init
  /\ proc = [o \in Owners |-> Unborn]
  /\ box = [r \in RunIDs |-> NoBox]
  /\ document \in Inventories
  /\ accepted = {}
  /\ faults = 0 /\ calls = 0
-----------------------------------------------------------------------------
(* Process life: main().  A rejected inventory is a fatal start-up error.        *)
Start(o) ==
  /\ proc[o].pc = "off"
  /\ Cardinality({x \in Owners : Live(x)}) < MaxLive
  /\ \/ document.batch = {} /\ ~document.prune /\ Available(runs) /\ UNCHANGED runs
     \/ ReconcileWorkstations(document.batch, document.prune,
                              document.replace, document.acknowledged)
  /\ proc' = [proc EXCEPT ![o].pc = "list"]
  /\ UNCHANGED <<box, document, accepted, faults, calls>>

Crash(o) ==
  /\ Live(o) /\ faults < MaxFaults
  /\ proc' = [proc EXCEPT ![o] = [Unborn EXCEPT !.pc = "dead"]]
  /\ faults' = faults + 1
  /\ UNCHANGED <<runs, box, document, accepted, calls>>

(* Mutant: the work pass forgets runs that were never claimed. *)
Listed_NotPending(pass, row) ==
  CASE pass = "recover" -> row.state = "running"
    [] pass = "cleanup" -> row.state = "stopping"
    [] pass = "work" -> row.state \in {"preparing", "running"}

(* Read one page of the run table for a pass: recovery takes running runs, then   *)
(* the cleanup pass stopping ones, then the work pass all other active ones.       *)
Listed(pass, row) ==
  CASE pass = "recover" -> row.state = "running"
    [] pass = "cleanup" -> row.state = "stopping"
    [] pass = "work" -> row.state \in {"pending", "preparing", "running"}

List(o) ==
  /\ proc[o].pc = "list"
  /\ Ready
  /\ runs' = Swept
  /\ proc' = [proc EXCEPT ![o].pc = "each", ![o].recovered = @ \/ proc[o].pass = "recover",
                ![o].todo = [r \in RunIDs |-> IF Listed(proc[o].pass, Swept[r])
                                              THEN Swept[r].revision ELSE 0]]
  /\ UNCHANGED <<box, document, accepted, faults, calls>>

(* Mutant: no check of the cleanup backlog before new backends are created. *)
replacementCleanupPending_Never == FALSE

(* More durable runs than the limit while some are stopping: no backend is          *)
(* created until the cleanup backlog is gone.                                     *)
replacementCleanupPending ==
  /\ \E r \in RunIDs : runs[r].state = "stopping"
  /\ Cardinality({r \in RunIDs : IsActive(runs[r])}) > MaxActiveRuns

(* The end of a pass.  Run() repeats the recovery pass before each reconcile until    *)
(* one recovery lost no claim to another owner.                                     *)
NextPass(o) ==
  LET p == proc[o]
      reconciled == IF p.recovered THEN "cleanup" ELSE "recover"
  IN
  /\ p.pc = "each" /\ p.todo = NoTodo
  /\ proc' = [proc EXCEPT ![o].pc = "list",
                ![o].pass = CASE p.pass = "recover" -> "cleanup"
                              [] p.pass = "cleanup" ->
                                   IF replacementCleanupPending THEN reconciled ELSE "work"
                              [] p.pass = "work" -> reconciled]
  /\ UNCHANGED <<runs, box, document, accepted, faults, calls>>
-----------------------------------------------------------------------------
(* Taking one listed run.                                                        *)
Drop(o, r) == [proc[o] EXCEPT !.todo[r] = 0]

(* A claim or report refused during recovery asks for another recovery pass.          *)
Refused(p) == [p EXCEPT !.recovered = @ /\ p.pass # "recover"]

Claimed(o, r) ==
  LET row == Swept[r] IN
  [NoWork EXCEPT !.run = r, !.revision = row.revision + 1,
     !.desired = IF row.pending # None THEN row.pending ELSE row.snapshot,
     !.ownership = row.ownership,
     !.previous = IF row.pending # None THEN row.snapshot ELSE None,
     !.deleteRequested = row.deleteRequested]

Enter(o, r, pc, work) == proc' = [proc EXCEPT ![o] = [Drop(o, r) EXCEPT !.pc = pc, !.work = work]]
Reporting(work, to, target) == [work EXCEPT !.to = to, !.target = target]

(* What Inspect sees of a run's agent container.                                   *)
Outcomes(b) == CASE b.runtime = "up" -> {}
                 [] b.runtime = "absent" -> {"failed"}
                 [] OTHER -> {"completed", "failed"}

(* reconcileRun up to its claim.  A run that lost its revision or is claimed by      *)
(* another live owner is left for the next pass.                                   *)
Take(o, r) ==
  LET p == proc[o]
      row == Swept[r]
      work == Claimed(o, r)
  IN /\ p.pc = "each" /\ p.todo[r] # 0
     /\ Claim(r, o, p.todo[r])
     /\ \/ p.pass = "recover" /\ Enter(o, r, "report", Reporting(work, "preparing", None))
        \/ row.state = "pending" /\ Enter(o, r, "report", Reporting(work, "preparing", None))
        \/ row.state = "preparing" /\ Enter(o, r, "preflight", work)
        \/ row.state = "stopping" /\ Enter(o, r, "unregister", Reporting(work, row.target, None))
        \/ /\ row.state = "running" /\ p.pass = "work"
           /\ \E outcome \in Outcomes(box[r]) :
                Enter(o, r, "report", Reporting(work, "stopping", outcome))
     /\ UNCHANGED <<box, document, accepted, faults, calls>>

(* A running run whose agent is up needs no claim.                                  *)
Healthy(o, r) ==
  /\ proc[o].pc = "each" /\ proc[o].todo[r] # 0 /\ proc[o].pass = "work"
  /\ runs[r].state = "running" /\ runs[r].revision = proc[o].todo[r]
  /\ box[r].runtime = "up"
  /\ proc' = [proc EXCEPT ![o] = Drop(o, r)]
  /\ UNCHANGED <<runs, box, document, accepted, faults, calls>>

Skip(o, r) ==
  /\ proc[o].pc = "each" /\ proc[o].todo[r] # 0
  /\ Ready /\ ~Claimable(Swept[r], o, proc[o].todo[r])
  /\ runs' = Swept
  /\ proc' = [proc EXCEPT ![o] = Refused(Drop(o, r))]
  /\ UNCHANGED <<box, document, accepted, faults, calls>>
-----------------------------------------------------------------------------
(* Docker backend, Ensure.  Each step is followed by its error path.              *)
Work(o) == proc[o].work
At(o, pc) == proc[o].pc = pc
Goto(o, pc) == proc' = [proc EXCEPT ![o].pc = pc]

(* Mutant: the operation's claim is not forgotten when it ends. *)
Return_KeepsWork(o) == proc' = [proc EXCEPT ![o].pc = "each"]

Return(o) == proc' = [proc EXCEPT ![o].pc = "each", ![o].work = NoWork]

(* ErrBackendRetryable: the claim is simply left behind.  A rollout that already     *)
(* changed the registry first tries to go back to the previous grants.              *)
Fail(o) == IF Work(o).stopped /\ Work(o).registered THEN Goto(o, "rollback") ELSE Return(o)

(* ErrBackendDesiredRunInvalid: retryable once the runtime was stopped, else the      *)
(* rollout is aborted or the run fails.                                            *)
Reject(o) ==
  IF Work(o).stopped THEN Fail(o)
  ELSE IF Rollout(Work(o)) THEN Goto(o, "abort")
  ELSE proc' = [proc EXCEPT ![o].pc = "report",
                            ![o].work = Reporting(@, "stopping", "failed")]

Foreign(label, work) == label \notin {None, work.ownership}

(* Mutant: a rollout leaves the runtime up while it changes the grants. *)
Preflight_NoStop(o) ==
  /\ At(o, "preflight")
  /\ IF Work(o).desired \in Unsupported \/ Foreign(box[Work(o).run].label, Work(o))
     THEN Reject(o)
     ELSE proc' = [proc EXCEPT ![o].pc = "upsert", ![o].work.stopped = Rollout(Work(o))]
  /\ UNCHANGED <<runs, box, document, accepted, faults, calls>>

Preflight(o) ==
  LET w == Work(o)
      b == box[w.run]
  IN /\ At(o, "preflight")
     /\ IF w.desired \in Unsupported \/ Foreign(b.label, w)
        THEN Reject(o) /\ UNCHANGED box
        ELSE /\ proc' = [proc EXCEPT ![o].pc = "upsert", ![o].work.stopped = Rollout(w)]
             /\ box' = [box EXCEPT ![w.run].runtime =
                          IF Rollout(w) /\ @ = "up" THEN "paused" ELSE @]
     /\ UNCHANGED <<runs, document, accepted, faults, calls>>

Upsert(o) ==
  LET w == Work(o) IN
  /\ At(o, "upsert")
  /\ IF Foreign(box[w.run].token, w)
     THEN Reject(o) /\ UNCHANGED box
     ELSE /\ proc' = [proc EXCEPT ![o].pc = "volumes", ![o].work.registered = Rollout(w)]
          /\ box' = [box EXCEPT ![w.run].grants = w.desired, ![w.run].token = w.ownership]
  /\ UNCHANGED <<runs, document, accepted, faults, calls>>

EnsureVolumes(o) ==
  LET w == Work(o) IN
  /\ At(o, "volumes")
  /\ IF Foreign(box[w.run].volumes, w)
     THEN Reject(o) /\ UNCHANGED box
     ELSE /\ Goto(o, "compose")
          /\ box' = [box EXCEPT ![w.run].volumes = w.ownership]
  /\ UNCHANGED <<runs, document, accepted, faults, calls>>

(* Mutant: compose up without --force-recreate. *)
ComposeUp_NoRecreate(o) ==
  LET w == Work(o) IN
  /\ At(o, "compose")
  /\ box' = [box EXCEPT ![w.run].runtime = "up", ![w.run].label = w.ownership,
                        ![w.run].config = IF @ = None THEN w.desired ELSE @]
  /\ Goto(o, "observe")
  /\ UNCHANGED <<runs, document, accepted, faults, calls>>

(* compose up: a rollout recreates the containers, otherwise existing ones are        *)
(* started as they are.                                                            *)
ComposeUp(o) ==
  LET w == Work(o) IN
  /\ At(o, "compose")
  /\ box' = [box EXCEPT ![w.run].runtime = "up", ![w.run].label = w.ownership,
                        ![w.run].config = IF Rollout(w) \/ @ = None THEN w.desired ELSE @]
  /\ Goto(o, "observe")
  /\ UNCHANGED <<runs, document, accepted, faults, calls>>

Observe(o) ==
  LET w == Work(o)
      b == box[w.run]
  IN /\ At(o, "observe")
     /\ \/ /\ b.runtime = "up"
           /\ proc' = [proc EXCEPT ![o].pc = "report", ![o].work = Reporting(w, "running", None)]
        \/ \E outcome \in Outcomes(b) :
             proc' = [proc EXCEPT ![o].pc = "report", ![o].work = Reporting(w, "stopping", outcome)]
     /\ UNCHANGED <<runs, box, document, accepted, faults, calls>>

(* The deferred rollback of a failed rollout: stop the desired runtime, and only       *)
(* then give the previous grants back.                                              *)
Rollback(o) ==
  /\ At(o, "rollback")
  /\ box' = [box EXCEPT ![Work(o).run].runtime = IF @ = "up" THEN "paused" ELSE @]
  /\ Goto(o, "restore")
  /\ UNCHANGED <<runs, document, accepted, faults, calls>>

(* Mutant: a failed rollout is given up after the runtime was stopped. *)
Restore_Aborts(o) ==
  LET w == Work(o) IN
  /\ At(o, "restore")
  /\ box' = [box EXCEPT ![w.run].grants = w.previous, ![w.run].token = w.ownership]
  /\ Goto(o, "abort")
  /\ UNCHANGED <<runs, document, accepted, faults, calls>>

Restore(o) ==
  LET w == Work(o) IN
  /\ At(o, "restore")
  /\ box' = IF Foreign(box[w.run].token, w) THEN box
            ELSE [box EXCEPT ![w.run].grants = w.previous, ![w.run].token = w.ownership]
  /\ Return(o)
  /\ UNCHANGED <<runs, document, accepted, faults, calls>>
-----------------------------------------------------------------------------
(* Docker backend, Delete.                                                        *)
(* Mutant: cleanup skips the containers. *)
Unregister_SkipsContainers(o) ==
  LET w == Work(o) IN
  /\ At(o, "unregister")
  /\ Goto(o, "removeVolumes")
  /\ box' = [box EXCEPT ![w.run].grants = None, ![w.run].token = None]
  /\ UNCHANGED <<runs, document, accepted, faults, calls>>

Unregister(o) ==
  LET w == Work(o) IN
  /\ At(o, "unregister")
  /\ IF Foreign(box[w.run].token, w)
     THEN Return(o) /\ UNCHANGED box
     ELSE /\ Goto(o, "containers")
          /\ box' = [box EXCEPT ![w.run].grants = None, ![w.run].token = None]
  /\ UNCHANGED <<runs, document, accepted, faults, calls>>

RemoveContainers(o) ==
  LET w == Work(o) IN
  /\ At(o, "containers")
  /\ box' = IF Foreign(box[w.run].label, w) THEN box
            ELSE [box EXCEPT ![w.run] = [@ EXCEPT !.runtime = "absent", !.config = None, !.label = None]]
  /\ Goto(o, "removeVolumes")
  /\ UNCHANGED <<runs, document, accepted, faults, calls>>

(* Mutants: the retention decision ignores the delete request, or persistence. *)
RemoveVolumes_KeepsPersistent(o) ==
  LET w == Work(o) IN
  /\ At(o, "removeVolumes") /\ Goto(o, "report")
  /\ box' = [box EXCEPT ![w.run].volumes = IF w.desired \in Persistent THEN @ ELSE None]
  /\ UNCHANGED <<runs, document, accepted, faults, calls>>

RemoveVolumes_Always(o) ==
  /\ At(o, "removeVolumes") /\ Goto(o, "report")
  /\ box' = [box EXCEPT ![Work(o).run].volumes = None]
  /\ UNCHANGED <<runs, document, accepted, faults, calls>>

RemoveVolumes(o) ==
  LET w == Work(o) IN
  /\ At(o, "removeVolumes")
  /\ IF Foreign(box[w.run].volumes, w)
     THEN Return(o) /\ UNCHANGED box
     ELSE /\ Goto(o, "report")
          /\ box' = [box EXCEPT ![w.run].volumes =
                       IF w.deleteRequested \/ w.desired \notin Persistent THEN None ELSE @]
  /\ UNCHANGED <<runs, document, accepted, faults, calls>>

(* Any Docker or broker call of Ensure, its rollback or Delete may fail or time out.     *)
BackendFault(o) ==
  /\ faults < MaxFaults
  /\ \/ proc[o].pc \in EnsurePCs /\ Fail(o)
     \/ proc[o].pc \in DeletePCs \cup {"rollback", "restore"} /\ Return(o)
  /\ faults' = faults + 1
  /\ UNCHANGED <<runs, box, document, accepted, calls>>
-----------------------------------------------------------------------------
(* The status report that ends an operation, or its refusal.                           *)
ReportStatus(o) ==
  LET w == Work(o) IN
  /\ At(o, "report")
  /\ Ready
  /\ IF Reportable(Swept[w.run], o, w.revision, w.to, w.target, None)
     THEN UpdateStatus(w.run, o, w.revision, w.to, w.target, "other", None) /\ Return(o)
     ELSE /\ runs' = Swept
          /\ proc' = [proc EXCEPT ![o] = [Refused(@) EXCEPT !.pc = "each", !.work = NoWork]]
  /\ UNCHANGED <<box, document, accepted, faults, calls>>

Abort(o) ==
  LET w == Work(o)
      row == runs[w.run]
  IN /\ At(o, "abort")
     /\ IF row.revision = w.revision /\ row.owner = o /\ row.pending # None
        THEN abortPendingConfiguration(w.run, o, w.revision)
        ELSE UNCHANGED runs
     /\ Return(o)
     /\ UNCHANGED <<box, document, accepted, faults, calls>>
-----------------------------------------------------------------------------
(* The environment.                                                                *)
(* DELETE answers 202 for every visible run, also when requestStop finds nothing left       *)
(* to record.                                                                        *)
DeleteCall(r) ==
  /\ Ready /\ Visible(Swept[r])
  /\ IF Swept[r].state = "stopping" /\ Swept[r].deleteRequested
     THEN runs' = Swept ELSE Delete(r)
  /\ accepted' = accepted \cup {r}

Call ==
  /\ calls < MaxCalls /\ calls' = calls + 1
  /\ \E o \in Owners : Live(o)
  /\ \/ \E c \in Requests : Create(c) /\ UNCHANGED accepted
     \/ \E r \in RunIDs : Cancel(r) /\ UNCHANGED accepted
     \/ \E r \in RunIDs : DeleteCall(r)
  /\ UNCHANGED <<proc, box, document, faults>>

Edit ==
  /\ calls < MaxCalls /\ calls' = calls + 1
  /\ document' \in Inventories \ {document}
  /\ UNCHANGED <<runs, proc, box, accepted, faults>>

RuntimeExits(r) ==
  /\ box[r].runtime = "up" /\ faults < MaxFaults
  /\ box' = [box EXCEPT ![r].runtime = "exited"]
  /\ faults' = faults + 1
  /\ UNCHANGED <<runs, proc, document, accepted, calls>>

(* config.go makes the claim lease longer than one backend operation, so a lease is       *)
(* not outlived by the operation it protects; the deferred rollback runs on a fresh         *)
(* operation timeout of its own and is not covered by that.                              *)
LeaseMayPass(r) ==
  \A o \in Owners : runs[r].owner = o /\ Work(o).run = r
                      => proc[o].pc \in {"rollback", "restore"}

Clock ==
  /\ \E r \in RunIDs : \/ DeadlinePasses(r) \/ RetentionPasses(r)
                       \/ LeaseMayPass(r) /\ LeasePasses(r)
  /\ UNCHANGED controllerVars

PeriodicSweep == (\E o \in Owners : Live(o)) /\ Sweep /\ UNCHANGED controllerVars

Step(o) ==
  \/ List(o) \/ NextPass(o) \/ \E r \in RunIDs : Take(o, r) \/ Healthy(o, r) \/ Skip(o, r)
  \/ Preflight(o) \/ Upsert(o) \/ EnsureVolumes(o) \/ ComposeUp(o) \/ Observe(o)
  \/ Rollback(o) \/ Restore(o)
  \/ Unregister(o) \/ RemoveContainers(o) \/ RemoveVolumes(o)
  \/ ReportStatus(o) \/ Abort(o)

ControllerNext ==
  \/ \E o \in Owners : Start(o) \/ Step(o) \/ Crash(o) \/ BackendFault(o)
  \/ \E r \in RunIDs : RuntimeExits(r)
  \/ Call \/ Edit \/ Clock \/ PeriodicSweep

ControllerSpec == ControllerInit /\ [][ControllerNext]_vars

(* The container is restarted unless stopped, a live process keeps reconciling on its         *)
(* ticker, and time passes.  Faults, crashes and calls are never forced to happen, and the      *)
(* bounds on them say that the dependencies recover eventually.                            *)
Fairness ==
  /\ \A o \in Owners : WF_vars(Start(o)) /\ WF_vars(Step(o))
  /\ WF_vars(Clock)

ControllerFairSpec == ControllerSpec /\ Fairness
-----------------------------------------------------------------------------
ControllerTypeOK ==
  /\ runs \in [RunIDs -> Row]
  /\ box \in [RunIDs -> Box]
  /\ document \in Inventories
  /\ \A o \in Owners : /\ proc[o].pc \in PCs
                       /\ proc[o].pc \in BusyPCs <=> proc[o].work # NoWork

Doomed(row) == row.deleteRequested /\ row.state \notin {"pending", "preparing", "running"}
Ensuring(r) == \E o \in Owners : Work(o).run = r /\ proc[o].pc \in EnsurePCs

(* Delete never skips backend cleanup: once a run is a tombstone, no container,          *)
(* volume, network or broker registration of it is left, and no Ensure is still on its    *)
(* way to create one.                                                                *)
TombstonesHoldNothing ==
  \A r \in RunIDs : runs[r].deleted => box[r] = NoBox /\ ~Ensuring(r)

(* A run is reported completed, failed or expired only after its containers and its        *)
(* broker grants are gone, and stays that way.                                        *)
TerminalRunsHoldNoRuntime ==
  \A r \in RunIDs : IsTerminal(runs[r]) =>
    box[r].runtime = "absent" /\ box[r].grants = None /\ ~Ensuring(r)

(* What has ended leaves nothing behind, however a crash or a failed cleanup cuts it off.   *)
NothingLeftBehind == ControllerTypeOK /\ TombstonesHoldNothing /\ TerminalRunsHoldNoRuntime

(* Persistent volumes disappear only under an explicit delete (or replacement or prune)    *)
(* request, never because of a rollout, a failure, an expiry or a crash.                 *)
VolumesSurvive ==
  [][\A r \in RunIDs : box[r].volumes # None /\ box'[r].volumes = None
        => runs[r].deleteRequested \/ runs[r].snapshot \notin Persistent]_vars

(* A runtime never runs with the broker grants of another configuration: not while a        *)
(* rollout is applied, not while it is rolled back, not after a crash in between.          *)
GrantsMatchRuntime ==
  \A r \in RunIDs : box[r].runtime = "up" /\ box[r].grants # None
                      => box[r].grants = box[r].config

(* A run is reported running only with containers created from its committed snapshot.      *)
RunningServesSnapshot ==
  \A r \in RunIDs : runs[r].state = "running" /\ box[r].runtime # "absent"
                      => box[r].config = runs[r].snapshot

(* A runtime that a rollout stopped is not reported running again.                          *)
RunningIsNotPaused ==
  \A r \in RunIDs : runs[r].state = "running" => box[r].runtime # "paused"

(* Store, containers and broker never tell different stories about what a run executes,     *)
(* through rollouts, rollbacks, failures of either and crashes.                            *)
RunningAsCommitted == GrantsMatchRuntime /\ RunningServesSnapshot /\ RunningIsNotPaused

(* No more runtimes exist at once than the configured limit, although start-up admission      *)
(* does not count runs that are still being cleaned up.                                  *)
RuntimesWithinLimit ==
  Cardinality({r \in RunIDs : box[r].runtime # "absent"}) <= MaxActiveRuns

(* An accepted DELETE is never taken back: the run goes to its tombstone and does not          *)
(* execute again.  The one exception is a run that is being replaced: the DELETE is answered     *)
(* 202 and the replacement starts all the same.                                            *)
AcceptedDeletesStick ==
  [][\A r \in accepted' :
       (r \in accepted => Doomed(runs[r])) /\ runs[r].reason # Replacement => Doomed(runs'[r])]_vars

(* An immutable replacement becomes runnable, under its new ownership, only when nothing of       *)
(* the previous run is left: containers, volumes, networks and broker registration.           *)
ReplacementStartsClean ==
  [][\A r \in RunIDs : runs[r].state # "absent" /\ runs'[r].ownership # runs[r].ownership
        => box[r] = NoBox]_vars

(* A stop does what was asked for: it keeps the volumes unless deletion was requested, it        *)
(* clears everything before a replacement, and a DELETE that was accepted is carried out.     *)
StopsAsAsked == VolumesSurvive /\ ReplacementStartsClean /\ AcceptedDeletesStick

(* Cleanup retries until it succeeds: no run stays in stopping.                               *)
StoppingEnds == \A r \in RunIDs : runs[r].state = "stopping" ~> runs[r].state # "stopping"

(* Admitted runs do not starve: they reach running or are stopped.                             *)
PendingProgresses ==
  \A r \in RunIDs : runs[r].state = "pending" ~> runs[r].state \in {"running", "stopping"}

(* Every run goes on: cleanup ends and admitted runs are served, although claims of crashed      *)
(* processes have to expire and cleanup goes before other work.                             *)
RunsProgress == StoppingEnds /\ PendingProgresses

(* The controller comes back after every crash: replaying the inventory at start-up is            *)
(* idempotent.                                                                            *)
ComesBack == []<>(\E o \in Owners : Live(o))
=============================================================================
