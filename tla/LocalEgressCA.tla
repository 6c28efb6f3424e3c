---------------------------- MODULE LocalEgressCA ----------------------------
(* The durable egress CA of one local workstation: egress-ca-init writes it,  *)
(* the Docker backend (Ensure, Inspect) decides when it is created, renewed   *)
(* or replaced because the set of names it may vouch for changed, egressd     *)
(* loads it when it starts, and the agent puts it in its trust bundle when it *)
(* starts.  Every file write and every Docker call is one step; a call may    *)
(* fail, and the controller may die and start with another document between   *)
(* any two.  A ca-init container is assumed to end with the call that ran it. *)
EXTENDS Integers

CONSTANTS
  CANames,    \* sets of names a certificate may be constrained to
  MaxCAGen,   \* bound: key pairs generated
  CARevises   \* may a document be replaced while it is being rolled out?

NoNames == "none"   \* no set of names

ASSUME LocalCABounds == MaxCAGen \in Nat /\ CARevises \in BOOLEAN /\ NoNames \notin CANames

VARIABLES
  caFiles,   \* the volumes: certificate, key, rotation marker
  caDue,     \* generations that have entered the renewal window
  caRoll,    \* egress-ca-rollout.json: the phase, or the pair whose renewal time is cached
  caRun,     \* the stored run: state, authoritative and staged name sets
  caBox,     \* what runs: the pair the agent trusts, egressd and the pair it serves, the Compose file's names
  caOp,      \* the backend operation in progress
  caKept     \* history: an `up` that recreates nothing kept a container of an earlier pair

caVars == <<caFiles, caDue, caRoll, caRun, caBox, caOp, caKept>>

NoCA == -1          \* no file, or a container that is not running
ForeignCA == 0      \* a well-formed pair that ca-init did not generate
OpIdle == [at |-> "idle", gen |-> NoCA, marked |-> FALSE, back |-> "idle", running |-> FALSE, recreate |-> FALSE, ensuring |-> FALSE]

Rollout == caRun.staged # NoNames
Desired == IF Rollout THEN caRun.staged ELSE caRun.snap
FreshCA == 1 + (CHOOSE g \in 0..MaxCAGen : /\ g \in caRun.made \cup {0}
                                          /\ \A h \in caRun.made : h <= g)

-----------------------------------------------------------------------------
(* egress-ca-init.                                                            *)

\* LoadCAWithUpstreams: the pair belongs together, and vouches for exactly these names.
PairLoads(names) == caFiles.cert.gen = caFiles.key /\ caFiles.cert.names = names

\* What ca-init finds for a set of names.
FoundCA(names) ==
  IF caFiles.marker THEN "renew"
  ELSE IF caFiles.cert.gen = NoCA /\ caFiles.key = NoCA THEN "absent"
  ELSE IF caFiles.cert.gen = NoCA \/ caFiles.key = NoCA \/ ~PairLoads(names) THEN "error"
  ELSE IF caFiles.cert.gen \in caDue THEN "renew"
  ELSE "ok"

OpGoes(at) == caOp' = [caOp EXCEPT !.at = at]

\* Run ca-init, then go on.
RunCAInit(back) == caOp' = [caOp EXCEPT !.at = "init", !.back = back, !.gen = FreshCA]

\* BUG: a replacement is not announced.
InitStarts_Unmarked ==
  /\ caOp.at = "init"
  /\ IF FoundCA(Desired) \in {"ok", "error"} THEN caOp' = OpIdle
     ELSE caOp' = [caOp EXCEPT !.at = "cert", !.marked = FALSE]
  /\ UNCHANGED <<caFiles, caDue, caRoll, caRun, caBox, caKept>>

\* A replacement is announced by the marker; a first pair is not.
InitStarts ==
  /\ caOp.at = "init"
  /\ CASE FoundCA(Desired) = "ok"     -> OpGoes(caOp.back) /\ UNCHANGED caFiles
       [] FoundCA(Desired) = "error"  -> caOp' = OpIdle /\ UNCHANGED caFiles
       [] FoundCA(Desired) = "absent" -> caOp' = [caOp EXCEPT !.at = "cert", !.marked = FALSE] /\ UNCHANGED caFiles
       [] FoundCA(Desired) = "renew"  -> /\ caOp' = [caOp EXCEPT !.at = "cert", !.marked = TRUE]
                                         /\ caFiles' = [caFiles EXCEPT !.marker = TRUE]
  /\ UNCHANGED <<caDue, caRoll, caRun, caBox, caKept>>

\* WriteKeyPair: the certificate, then the key, each renamed into place.
WriteCert ==
  /\ caOp.at = "cert" /\ caOp.gen <= MaxCAGen
  /\ caFiles' = [caFiles EXCEPT !.cert = [gen |-> caOp.gen, names |-> Desired]]
  /\ caRun' = [caRun EXCEPT !.made = @ \cup {caOp.gen}]
  /\ OpGoes("key")
  /\ UNCHANGED <<caDue, caRoll, caBox, caKept>>

WriteKey ==
  /\ caOp.at = "key"
  /\ caFiles' = [caFiles EXCEPT !.key = caOp.gen]
  /\ OpGoes(IF caOp.marked THEN "unmark" ELSE caOp.back)
  /\ UNCHANGED <<caDue, caRoll, caRun, caBox, caKept>>

RemoveMarker ==
  /\ caOp.at = "unmark"
  /\ caFiles' = [caFiles EXCEPT !.marker = FALSE]
  /\ OpGoes(caOp.back)
  /\ UNCHANGED <<caDue, caRoll, caRun, caBox, caKept>>

-----------------------------------------------------------------------------
(* Ensure: preparation, recovery or a configuration rollout.                  *)

\* `compose up` runs ca-init, starts egressd, then the agent.
ComposeUpGoes(recreate, ensuring) ==
  caOp' = [caOp EXCEPT !.at = "init", !.back = "egressd", !.gen = FreshCA, !.recreate = recreate, !.ensuring = ensuring]

EnsureStarts ==
  /\ caOp.at = "idle" /\ caRun.state = "preparing"
  /\ OpGoes(IF Rollout THEN "stop" ELSE "seed")
  /\ UNCHANGED <<caFiles, caDue, caRoll, caRun, caBox, caKept>>

\* A rollout first stops the runtime.
StopRuntime ==
  /\ caOp.at = "stop"
  /\ caBox' = [caBox EXCEPT !.agent = NoCA, !.egressd = NoCA, !.up = FALSE]
  /\ OpGoes("seed")
  /\ UNCHANGED <<caFiles, caDue, caRoll, caRun, caKept>>

\* egressd's configuration and the Compose file; a rollout that changes the names settles the pair first.
SeedConfig ==
  /\ caOp.at = "seed"
  /\ caBox' = [caBox EXCEPT !.names = Desired]
  /\ IF Rollout /\ caRun.staged # caRun.snap THEN OpGoes("probe") ELSE ComposeUpGoes(Rollout, TRUE)
  /\ UNCHANGED <<caFiles, caDue, caRoll, caRun, caKept>>

\* reconcileDesiredCANameSet: a pair that already vouches for the desired names is kept or
\* renewed.  Checking an empty volume writes a pair; its answer is then refused.
ProbeDesired ==
  /\ caOp.at = "probe"
  /\ CASE FoundCA(Desired) = "ok"     -> ComposeUpGoes(TRUE, TRUE)
       [] FoundCA(Desired) = "renew"  -> RunCAInit("raise")
       [] FoundCA(Desired) = "absent" -> RunCAInit("verify")
       [] FoundCA(Desired) = "error"  -> OpGoes("verify")
  /\ UNCHANGED <<caFiles, caDue, caRoll, caRun, caBox, caKept>>

\* BUG: whatever the volume holds is replaced.
VerifyPrevious_Trusting ==
  /\ caOp.at = "verify" /\ OpGoes("mark")
  /\ UNCHANGED <<caFiles, caDue, caRoll, caRun, caBox, caKept>>

\* It is replaced only if it vouches for the previous names.
VerifyPrevious ==
  /\ caOp.at = "verify"
  /\ IF FoundCA(caRun.snap) \in {"ok", "renew"} THEN OpGoes("mark") ELSE caOp' = OpIdle
  /\ UNCHANGED <<caFiles, caDue, caRoll, caRun, caBox, caKept>>

SeedMarker ==
  /\ caOp.at = "mark"
  /\ caFiles' = [caFiles EXCEPT !.marker = TRUE]
  /\ RunCAInit("forget")
  /\ UNCHANGED <<caDue, caRoll, caRun, caBox, caKept>>

\* The cached renewal time was the old pair's.
ForgetRollout ==
  /\ caOp.at \in {"forget", "raise"}
  /\ caRoll' = IF caOp.at = "forget" THEN [phase |-> "none", next |-> NoCA] ELSE caRoll
  /\ ComposeUpGoes(TRUE, TRUE)
  /\ UNCHANGED <<caFiles, caDue, caRun, caBox, caKept>>

\* egressd serves the pair it can load, or keeps failing to start.
Serving == IF PairLoads(caBox.names) /\ caFiles.cert.gen \notin caDue THEN caFiles.cert.gen ELSE NoCA

\* BUG: a container that is already there is kept.
StartEgressd_Kept ==
  /\ caOp.at = "egressd"
  /\ caBox' = IF ~caBox.up THEN [caBox EXCEPT !.up = TRUE, !.egressd = Serving] ELSE caBox
  /\ caKept' = (~caOp.recreate /\ (caKept \/ caBox.egressd \notin {NoCA, caFiles.cert.gen}))
  /\ OpGoes("agent")
  /\ UNCHANGED <<caFiles, caDue, caRoll, caRun>>

StartEgressd ==
  /\ caOp.at = "egressd"
  /\ caBox' = IF caOp.recreate \/ ~caBox.up THEN [caBox EXCEPT !.up = TRUE, !.egressd = Serving] ELSE caBox
  /\ caKept' = (~caOp.recreate /\ (caKept \/ caBox.egressd \notin {NoCA, caFiles.cert.gen}))
  /\ OpGoes("agent")
  /\ UNCHANGED <<caFiles, caDue, caRoll, caRun>>

StartAgent ==
  /\ caOp.at = "agent"
  /\ caBox' = IF caOp.recreate \/ caBox.agent = NoCA THEN [caBox EXCEPT !.agent = caFiles.cert.gen] ELSE caBox
  /\ caKept' = (~caOp.recreate /\ (caKept \/ caBox.agent \notin {NoCA, caFiles.cert.gen}))
  /\ OpGoes(IF caOp.ensuring THEN "observe" ELSE "finish")
  /\ UNCHANGED <<caFiles, caDue, caRoll, caRun>>

\* The runtime is ready and no rotation is due: the staged snapshot is committed.
Commit ==
  /\ caOp.at = "ready"
  /\ caRun' = [caRun EXCEPT !.state = "running", !.snap = Desired, !.staged = NoNames]
  /\ caOp' = OpIdle
  /\ UNCHANGED <<caFiles, caDue, caRoll, caBox, caKept>>

-----------------------------------------------------------------------------
(* Inspect: reconcileComposeCARotation, also inside Ensure's readiness loop.  *)

\* `running`: the agent was found running; `ensuring`: Ensure is waiting for the answer.
InspectGoes(running, ensuring, at) ==
  caOp' = [OpIdle EXCEPT !.at = at, !.running = running, !.ensuring = ensuring]

Inspect ==
  /\ \/ caOp.at = "idle" /\ caRun.state = "running"
     \/ caOp.at = "observe"
  /\ LET running == caBox.agent # NoCA
         ensuring == caOp.at = "observe"
         found == FoundCA(caBox.names) IN
     IF caRoll.phase # "none" THEN InspectGoes(running, ensuring, "rotate") /\ UNCHANGED caRoll
     ELSE IF caRoll.next # NoCA /\ caRoll.next \notin caDue
          THEN InspectGoes(running, ensuring, IF ensuring THEN "ready" ELSE "idle") /\ UNCHANGED caRoll
     ELSE /\ found \in {"renew", "ok"}   \* anything else is an error: see CallFails
          /\ CASE found = "renew" -> InspectGoes(running, ensuring, "rotate") /\ caRoll' = [caRoll EXCEPT !.phase = "planned"]
               [] found = "ok"    -> /\ InspectGoes(running, ensuring, IF ensuring THEN "ready" ELSE "idle")
                                     /\ caRoll' = [phase |-> "none", next |-> caFiles.cert.gen]
  /\ UNCHANGED <<caFiles, caDue, caRun, caBox, caKept>>

\* A running runtime is stopped; the call may stop only part of it before it fails.
RotationStops ==
  /\ caOp.at = "rotate" /\ caRoll.phase = "planned"
  /\ IF ~caOp.running THEN caRoll' = [caRoll EXCEPT !.phase = "stopped"] /\ UNCHANGED <<caBox, caOp>>
     ELSE \/ /\ caBox' = [caBox EXCEPT !.agent = NoCA, !.egressd = NoCA, !.up = FALSE]
             /\ caOp' = [caOp EXCEPT !.running = FALSE] /\ UNCHANGED caRoll
          \/ caBox' = [caBox EXCEPT !.agent = NoCA] /\ caOp' = OpIdle /\ UNCHANGED caRoll
  /\ UNCHANGED <<caFiles, caDue, caRun, caKept>>

RotationRuns ==
  /\ caOp.at = "rotate" /\ caRoll.phase = "stopped"
  /\ RunCAInit("rotated")
  /\ UNCHANGED <<caFiles, caDue, caRoll, caRun, caBox, caKept>>

RotationRecorded ==
  /\ caOp.at = "rotated"
  /\ caRoll' = [caRoll EXCEPT !.phase = "rotated"]
  /\ OpGoes("rotate")
  /\ UNCHANGED <<caFiles, caDue, caRun, caBox, caKept>>

\* A runtime found stopped is recreated.
RotationRecreates ==
  /\ caOp.at = "rotate" /\ caRoll.phase = "rotated"
  /\ IF caOp.running THEN OpGoes("finish") ELSE ComposeUpGoes(TRUE, FALSE)
  /\ UNCHANGED <<caFiles, caDue, caRoll, caRun, caBox, caKept>>

\* The intent is removed; the caller inspects again later.
RotationFinishes ==
  /\ caOp.at = "finish"
  /\ caRoll' = [phase |-> "none", next |-> NoCA]
  /\ caOp' = OpIdle
  /\ UNCHANGED <<caFiles, caDue, caRun, caBox, caKept>>

-----------------------------------------------------------------------------
(* Faults and time.                                                           *)

\* A call fails; after a rollout stopped the runtime, the deferred rollback stops it again if it can.
CallFails ==
  /\ caOp.at # "idle"
  /\ \/ UNCHANGED caBox
     \/ Rollout /\ caBox' = [caBox EXCEPT !.agent = NoCA, !.egressd = NoCA, !.up = FALSE]
  /\ caOp' = OpIdle
  /\ UNCHANGED <<caFiles, caDue, caRoll, caRun, caKept>>

\* The controller starts again, with this document's names: a running run goes through
\* preparation (Recover), changed names are staged, the names in use cancel what was staged.
ControllerRestarts(names) ==
  /\ Rollout /\ ~CARevises => names = caRun.staged
  /\ caOp' = OpIdle
  /\ caRun' = [caRun EXCEPT !.state = "preparing",
                            !.staged = IF names # caRun.snap \/ Rollout THEN names ELSE NoNames]
  /\ UNCHANGED <<caFiles, caDue, caRoll, caBox, caKept>>

RenewalDue ==
  /\ \E g \in caRun.made \ caDue : caDue' = caDue \cup {h \in caRun.made : h <= g}
  /\ UNCHANGED <<caFiles, caRoll, caRun, caBox, caOp, caKept>>

\* egressd dies and Docker starts it again, as often as it takes.
EgressdRestarts ==
  /\ caBox.up /\ caBox' = [caBox EXCEPT !.egressd = Serving]
  /\ UNCHANGED <<caFiles, caDue, caRoll, caRun, caOp, caKept>>

LocalCAInit ==
  /\ \E names \in CANames, foreign \in BOOLEAN :
       /\ caRun = [state |-> "preparing", snap |-> names, staged |-> NoNames, made |-> {}]
       /\ caFiles = IF foreign THEN [cert |-> [gen |-> ForeignCA, names |-> NoNames], key |-> ForeignCA, marker |-> FALSE]
                    ELSE [cert |-> [gen |-> NoCA, names |-> NoNames], key |-> NoCA, marker |-> FALSE]
       /\ caBox = [agent |-> NoCA, egressd |-> NoCA, up |-> FALSE, names |-> names]
  /\ caDue = {} /\ caRoll = [phase |-> "none", next |-> NoCA] /\ caOp = OpIdle /\ caKept = FALSE

LocalCANext ==
  \/ InitStarts \/ WriteCert \/ WriteKey \/ RemoveMarker
  \/ EnsureStarts \/ StopRuntime \/ SeedConfig \/ ProbeDesired \/ VerifyPrevious \/ SeedMarker
  \/ ForgetRollout \/ StartEgressd \/ StartAgent \/ Commit
  \/ Inspect \/ RotationStops \/ RotationRuns \/ RotationRecorded \/ RotationRecreates \/ RotationFinishes
  \/ CallFails \/ (\E names \in CANames : ControllerRestarts(names)) \/ RenewalDue \/ EgressdRestarts

LocalCASpec == LocalCAInit /\ [][LocalCANext]_caVars

-----------------------------------------------------------------------------
(* Properties.                                                                *)

\* Once a pair has been published, every crash and every failed call leaves a volume that the
\* next attempt can go on from: it announces a replacement, vouches for the names that are
\* wanted, or vouches for the previous ones, so that it may be replaced.
CARecoverable ==
  caFiles.cert.gen > 0 /\ caFiles.key > 0 =>
    \/ FoundCA(Desired) # "error"
    \/ Rollout /\ caRun.staged # caRun.snap /\ FoundCA(caRun.snap) # "error"

\* A running workstation whose agent does not trust the pair its egressd serves got there in one
\* way only: after a controller restart, `up --no-recreate` kept a container across the
\* replacement of the pair.  Renewals and rollouts never split them, wherever they are cut off.
OnlyRecoverySplitsTrust ==
  /\ caRun.state = "running" /\ caOp.at = "idle" /\ caRoll.phase = "none" /\ ~caKept
  /\ caBox.agent # NoCA /\ caBox.egressd # NoCA
  => caBox.agent = caBox.egressd

\* Key material that ca-init did not generate for this workstation is never replaced, and never
\* marked for replacement, however the names change.
ForeignCAKept == [][caFiles.cert.gen = ForeignCA => caFiles' = caFiles]_caVars
=============================================================================
