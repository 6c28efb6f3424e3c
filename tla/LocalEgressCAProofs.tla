------------------------- MODULE LocalEgressCAProofs -------------------------
(* What the files of a workstation's CA and its containers guarantee, for     *)
(* every number of renewals, replacements, failed calls and restarts, and     *)
(* every sequence of documents.                                               *)
EXTENDS LocalEgressCA, TLAPS

Phases == {"none", "planned", "stopped", "rotated"}
EnsurePlaces == {"stop", "seed", "probe", "verify", "mark", "forget", "raise", "observe", "ready"}
WritePlaces == {"init", "cert", "key", "unmark"}
Places == EnsurePlaces \cup WritePlaces \cup {"idle", "rotate", "rotated", "finish", "egressd", "agent"}

IsFiles(f) == f \in [cert : [gen : Int, names : CANames \cup {NoNames}], key : Int, marker : BOOLEAN]
IsRoll(r) == r \in [phase : Phases, next : Int]
IsRun(r) ==
  /\ r \in [state : {"preparing", "running"}, snap : CANames, staged : CANames \cup {NoNames}, made : SUBSET Nat]
  /\ \E n \in 0..MaxCAGen : r.made = 1..n
IsBox(b) == b \in [agent : Int, egressd : Int, up : BOOLEAN, names : CANames]
IsOp(p) == p \in [at : Places, gen : Int, marked : BOOLEAN, back : Places, running : BOOLEAN, recreate : BOOLEAN, ensuring : BOOLEAN]

(* The pairs ca-init has generated are numbered without gaps (IsRun).            *)
CATypeOK ==
  /\ IsFiles(caFiles) /\ IsRoll(caRoll) /\ IsRun(caRun) /\ IsBox(caBox) /\ IsOp(caOp)
  /\ caKept \in BOOLEAN /\ caDue \subseteq caRun.made

(* The volume holds nothing, a pair that is not ours, the certificate of a first *)
(* pair, or a pair of ours; only the last is ever marked.                       *)
EmptyVolume == caFiles.cert.gen = NoCA /\ caFiles.key = NoCA /\ ~caFiles.marker
ForeignVolume == caFiles.cert = [gen |-> ForeignCA, names |-> NoNames] /\ caFiles.key = ForeignCA /\ ~caFiles.marker
HalfVolume == caFiles.cert.gen > 0 /\ caFiles.key = NoCA /\ ~caFiles.marker
PairVolume == caFiles.cert.gen > 0 /\ caFiles.key > 0

(* A published pair for these names.                                            *)
Published(names) ==
  /\ caFiles.cert.gen > 0 /\ caFiles.cert.gen = caFiles.key
  /\ caFiles.cert.names = names /\ ~caFiles.marker

(* How far ca-init has come.                                                    *)
WritingOK ==
  /\ caOp.at = "mark" => PairVolume
  /\ caOp.at \in {"init", "cert"} => caOp.gen > 0 /\ caRun.made = 1..(caOp.gen - 1)
  /\ caOp.at \in WritePlaces => caOp.back \in {"egressd", "raise", "verify", "forget", "rotated"}
  /\ caOp.at = "cert" => IF caOp.marked THEN PairVolume /\ caFiles.marker ELSE EmptyVolume
  /\ caOp.at = "key" =>
       /\ caOp.gen > 0 /\ caFiles.cert = [gen |-> caOp.gen, names |-> Desired]
       /\ IF caOp.marked THEN PairVolume /\ caFiles.marker ELSE HalfVolume
  /\ caOp.at = "unmark" =>
       /\ caFiles.marker /\ caFiles.cert.gen > 0 /\ caFiles.cert.gen = caFiles.key
       /\ caFiles.cert.names = Desired

VolumeInv ==
  /\ CATypeOK
  /\ EmptyVolume \/ ForeignVolume \/ HalfVolume \/ PairVolume
  /\ WritingOK

(* Where a document is not replaced while it is being rolled out: a pair that    *)
(* is not marked vouches for the names in use or for the staged ones.           *)
NamesInv ==
  /\ PairVolume => caFiles.marker \/ Published(caRun.snap) \/ (Rollout /\ Published(caRun.staged))
  /\ caRun.state = "running" => ~Rollout
  /\ caOp.at \in {"egressd", "agent", "observe", "ready"} => Published(Desired)

(* The agent trusts the pair in the volume, and egressd serves no other.          *)
EgressdFollows == caBox.egressd \in {NoCA, caFiles.cert.gen}
Trusts == ~caKept /\ caBox.agent # NoCA => caBox.agent = caFiles.cert.gen /\ EgressdFollows

TrustInv ==
  /\ caOp.at \in EnsurePlaces => caRun.state = "preparing"
  /\ caOp.at = "agent" /\ (~caKept \/ caOp.recreate) => EgressdFollows
  /\ caOp.at \in {"observe", "ready"} => Trusts
  /\ caOp.at = "ready" => caRoll.phase = "none"
  /\ caRun.state = "running" =>
       /\ Trusts
       /\ caRoll.phase = "stopped" => caBox.agent = NoCA
       /\ caOp.at \in WritePlaces \cup {"rotated", "egressd", "agent"} => caBox.agent = NoCA
       /\ caOp.at \in WritePlaces => caOp.back \in {"rotated", "egressd"}
       /\ caOp.at = "rotate" /\ ~caOp.running => caBox.agent = NoCA
       /\ \/ caOp.at \in {"egressd", "agent"}
          \/ caOp.at \in WritePlaces /\ caOp.back = "egressd"
          => caOp.recreate /\ ~caOp.ensuring /\ caRoll.phase = "rotated"
-----------------------------------------------------------------------------
(* The volume.                                                                  *)

LEMMA FreshIsNext ==
  ASSUME CATypeOK
  PROVE  FreshCA \in Nat /\ FreshCA > 0 /\ caRun.made = 1..(FreshCA - 1)
<1>1. PICK n \in 0..MaxCAGen : caRun.made = 1..n
  BY DEF CATypeOK, IsRun
<1>2. n \in Nat /\ n <= MaxCAGen
  BY <1>1, LocalCABounds
<1> DEFINE Last(g) == g \in caRun.made \cup {0} /\ \A h \in caRun.made : h <= g
<1>3. Last(n)
  BY <1>1, <1>2
<1>4. ASSUME NEW g \in 0..MaxCAGen, Last(g) PROVE g = n
  BY <1>1, <1>2, <1>4
<1> HIDE DEF Last
<1>5. (CHOOSE g \in 0..MaxCAGen : Last(g)) = n
  BY <1>1, <1>3, <1>4
<1>6. FreshCA = 1 + n
  BY <1>5 DEF FreshCA, Last
<1> QED BY <1>1, <1>2, <1>6

LEMMA DesiredTyped == ASSUME CATypeOK PROVE Desired \in CANames
BY DEF CATypeOK, IsRun, Desired, Rollout

(* What ca-init finds tells what the volume holds.                               *)
LEMMA FoundTells ==
  ASSUME VolumeInv, NEW names \in CANames
  PROVE  /\ FoundCA(names) \in {"ok", "error", "absent", "renew"}
         /\ FoundCA(names) = "ok" => Published(names)
         /\ FoundCA(names) = "absent" <=> EmptyVolume
         /\ FoundCA(names) = "renew" => PairVolume
         /\ ForeignVolume => FoundCA(names) = "error"
<1>1. \A g \in caDue : g \in Nat /\ g > 0
  BY DEF VolumeInv, CATypeOK, IsRun
<1>2. names # NoNames
  BY LocalCABounds
<1> QED BY <1>1, <1>2 DEF VolumeInv, CATypeOK, IsFiles, FoundCA, PairLoads, Published, EmptyVolume, ForeignVolume, HalfVolume,
             PairVolume, NoCA, ForeignCA

(* Where an operation goes.                                                     *)
LEMMA OpMoves ==
  ASSUME CATypeOK
  PROVE  /\ IsOp(OpIdle)
         /\ \A at \in Places : OpGoes(at) => IsOp(caOp') /\ caOp'.at = at
         /\ \A back \in Places : RunCAInit(back) => IsOp(caOp') /\ caOp'.at = "init" /\ caOp'.back = back /\ caOp'.gen = FreshCA
         /\ \A recreate, ensuring \in BOOLEAN : ComposeUpGoes(recreate, ensuring) =>
              /\ IsOp(caOp') /\ caOp'.at = "init" /\ caOp'.back = "egressd" /\ caOp'.gen = FreshCA
              /\ caOp'.recreate = recreate /\ caOp'.ensuring = ensuring
         /\ \A running, ensuring \in BOOLEAN, at \in Places : InspectGoes(running, ensuring, at) =>
              IsOp(caOp') /\ caOp'.at = at /\ caOp'.running = running /\ caOp'.ensuring = ensuring
<1>1. IsOp(caOp) /\ FreshCA \in Int
  BY FreshIsNext DEF CATypeOK
<1>2. IsOp(OpIdle)
  BY DEF OpIdle, IsOp, NoCA, Places, EnsurePlaces, WritePlaces
<1>3. "init" \in Places /\ "egressd" \in Places
  BY DEF Places, WritePlaces
<1>4. ASSUME NEW at \in Places, OpGoes(at) PROVE IsOp(caOp') /\ caOp'.at = at
  BY <1>1, <1>4 DEF OpGoes, IsOp
<1>5. ASSUME NEW back \in Places, RunCAInit(back)
      PROVE  IsOp(caOp') /\ caOp'.at = "init" /\ caOp'.back = back /\ caOp'.gen = FreshCA
  BY <1>1, <1>3, <1>5 DEF RunCAInit, IsOp
<1>6. ASSUME NEW recreate \in BOOLEAN, NEW ensuring \in BOOLEAN, ComposeUpGoes(recreate, ensuring)
      PROVE  /\ IsOp(caOp') /\ caOp'.at = "init" /\ caOp'.back = "egressd" /\ caOp'.gen = FreshCA
             /\ caOp'.recreate = recreate /\ caOp'.ensuring = ensuring
  BY <1>1, <1>3, <1>6 DEF ComposeUpGoes, IsOp
<1>7. ASSUME NEW running \in BOOLEAN, NEW ensuring \in BOOLEAN, NEW at \in Places, InspectGoes(running, ensuring, at)
      PROVE  IsOp(caOp') /\ caOp'.at = at /\ caOp'.running = running /\ caOp'.ensuring = ensuring
  BY <1>2, <1>7 DEF InspectGoes, IsOp
<1> QED BY <1>2, <1>4, <1>5, <1>6, <1>7

(* What an inspection decides, and what it records.                              *)
LEMMA InspectDoes ==
  ASSUME VolumeInv, Inspect
  PROVE  /\ UNCHANGED <<caFiles, caDue, caRun, caBox, caKept>>
         /\ IsOp(caOp') /\ IsRoll(caRoll')
         /\ (caOp.at = "idle" /\ caRun.state = "running") \/ caOp.at = "observe"
         /\ \/ caOp'.at = "rotate" /\ caOp'.running = (caBox.agent # NoCA)
            \/ caOp'.at = "ready" /\ caOp.at = "observe"
            \/ caOp'.at = "idle"
         /\ caRoll'.phase \in {caRoll.phase, "none", "planned"}
         /\ caOp'.at = "ready" => caRoll'.phase = "none"
<1> DEFINE running == caBox.agent # NoCA
           ensuring == caOp.at = "observe"
           found == FoundCA(caBox.names)
           quiet == IF ensuring THEN "ready" ELSE "idle"
<1>1. /\ CATypeOK /\ IsRoll(caRoll) /\ caFiles.cert.gen \in Int
      /\ quiet \in Places /\ "rotate" \in Places
  BY DEF VolumeInv, CATypeOK, IsFiles, Places, EnsurePlaces
<1>2. /\ UNCHANGED <<caFiles, caDue, caRun, caBox, caKept>>
      /\ (caOp.at = "idle" /\ caRun.state = "running") \/ caOp.at = "observe"
  BY DEF Inspect
<1>3. \/ caRoll.phase # "none" /\ InspectGoes(running, ensuring, "rotate") /\ caRoll' = caRoll
      \/ caRoll.phase = "none" /\ InspectGoes(running, ensuring, quiet) /\ caRoll' = caRoll
      \/ caRoll.phase = "none" /\ InspectGoes(running, ensuring, "rotate") /\ caRoll' = [caRoll EXCEPT !.phase = "planned"]
      \/ caRoll.phase = "none" /\ InspectGoes(running, ensuring, quiet) /\ caRoll' = [phase |-> "none", next |-> caFiles.cert.gen]
  BY DEF Inspect
<1>4. \/ InspectGoes(running, ensuring, "rotate")
      \/ caRoll'.phase = "none" /\ InspectGoes(running, ensuring, quiet)
  BY <1>3
<1>5. running \in BOOLEAN /\ ensuring \in BOOLEAN
  OBVIOUS
<1> HIDE DEF running, ensuring, found, quiet
<1>6. IsRoll(caRoll') /\ caRoll'.phase \in {caRoll.phase, "none", "planned"}
  BY <1>1, <1>3 DEF IsRoll, Phases
<1>7. IsOp(caOp') /\ (\/ caOp'.at = "rotate" /\ caOp'.running = running
                      \/ caOp'.at = quiet /\ caRoll'.phase = "none")
  BY <1>1, <1>4, <1>5, OpMoves
<1> QED BY <1>2, <1>6, <1>7 DEF running, ensuring, quiet

LEMMA TypeStep ==
  ASSUME VolumeInv, LocalCANext
  PROVE  CATypeOK'
<1> USE DEF OpGoes
<1>0. /\ CATypeOK /\ IsFiles(caFiles) /\ IsRoll(caRoll) /\ IsRun(caRun) /\ IsBox(caBox) /\ IsOp(caOp)
      /\ Desired \in CANames /\ FreshCA \in Int /\ caDue \subseteq caRun.made /\ caRun.made \subseteq Nat
      /\ FoundCA(Desired) \in {"ok", "error", "absent", "renew"}
  BY DesiredTyped, FreshIsNext, FoundTells DEF VolumeInv, CATypeOK, IsRun
<1>val. NoCA \in Int /\ caOp.gen \in Int /\ caOp.back \in Places /\ caFiles.cert.gen \in Int
  BY <1>0 DEF IsOp, IsFiles, NoCA
<1>op. IsOp(OpIdle)
  BY <1>0, OpMoves
<1>1. ASSUME InitStarts PROVE CATypeOK'
  <2>1. IsFiles(caFiles')
    BY <1>0, <1>val, <1>op, <1>1 DEF InitStarts, IsFiles
  <2>2. IsOp(caOp')
    <3>1. \/ OpGoes(caOp.back) \/ caOp' = OpIdle
          \/ caOp' = [caOp EXCEPT !.at = "cert", !.marked = FALSE]
          \/ caOp' = [caOp EXCEPT !.at = "cert", !.marked = TRUE]
      BY <1>0, <1>1 DEF InitStarts
    <3>2. "cert" \in Places
      BY DEF Places, WritePlaces
    <3> QED BY <1>0, <1>val, <1>op, <3>1, <3>2 DEF IsOp
  <2>3. caDue' \subseteq caRun'.made
    BY <1>0, <1>1 DEF InitStarts
  <2> QED BY <1>0, <1>1, <2>1, <2>2, <2>3 DEF InitStarts, CATypeOK
<1>2. ASSUME WriteCert PROVE CATypeOK'
  <2>1. IsFiles(caFiles')
    BY <1>0, <1>val, <1>op, <1>2 DEF WriteCert, IsFiles
  <2>2. IsRun(caRun')
    <3>1. caRun.made = 1..(caOp.gen - 1) /\ caOp.gen > 0 /\ caOp.gen <= MaxCAGen
      BY <1>2 DEF WriteCert, VolumeInv, WritingOK
    <3>2. 1..(caOp.gen - 1) \cup {caOp.gen} = 1..caOp.gen
      BY <3>1, <1>val
    <3>3. caOp.gen \in 0..MaxCAGen /\ 1..caOp.gen \subseteq Nat
      BY <3>1, <1>val, LocalCABounds
    <3>4. caRun' = [caRun EXCEPT !.made = 1..caOp.gen]
      BY <1>2, <3>1, <3>2 DEF WriteCert
    <3> QED BY <1>0, <3>3, <3>4 DEF IsRun
  <2>3. IsOp(caOp')
    BY <1>0, <1>val, <1>op, <1>2 DEF WriteCert, IsOp, Places, EnsurePlaces, WritePlaces
  <2>4. caDue' \subseteq caRun'.made
    BY <1>0, <1>2 DEF WriteCert, IsRun
  <2> QED BY <1>0, <1>2, <2>1, <2>2, <2>3, <2>4 DEF WriteCert, CATypeOK
<1>3. ASSUME WriteKey PROVE CATypeOK'
  <2>1. IsFiles(caFiles')
    BY <1>0, <1>val, <1>op, <1>3 DEF WriteKey, IsFiles
  <2>2. IsOp(caOp')
    BY <1>0, <1>val, <1>op, <1>3 DEF WriteKey, IsOp, Places, EnsurePlaces, WritePlaces
  <2>3. caDue' \subseteq caRun'.made
    BY <1>0, <1>3 DEF WriteKey
  <2> QED BY <1>0, <1>3, <2>1, <2>2, <2>3 DEF WriteKey, CATypeOK
<1>4. ASSUME RemoveMarker PROVE CATypeOK'
  <2>1. IsFiles(caFiles')
    BY <1>0, <1>val, <1>op, <1>4 DEF RemoveMarker, IsFiles
  <2>2. IsOp(caOp')
    BY <1>0, <1>val, <1>op, <1>4 DEF RemoveMarker, IsOp, Places, EnsurePlaces, WritePlaces
  <2>3. caDue' \subseteq caRun'.made
    BY <1>0, <1>4 DEF RemoveMarker
  <2> QED BY <1>0, <1>4, <2>1, <2>2, <2>3 DEF RemoveMarker, CATypeOK
<1>5. ASSUME EnsureStarts PROVE CATypeOK'
  <2>1. IsOp(caOp')
    BY <1>0, <1>val, <1>op, <1>5 DEF EnsureStarts, IsOp, Places, EnsurePlaces, WritePlaces
  <2>2. caDue' \subseteq caRun'.made
    BY <1>0, <1>5 DEF EnsureStarts
  <2> QED BY <1>0, <1>5, <2>1, <2>2 DEF EnsureStarts, CATypeOK
<1>6. ASSUME StopRuntime PROVE CATypeOK'
  <2>1. IsBox(caBox')
    BY <1>0, <1>val, <1>op, <1>6 DEF StopRuntime, IsBox
  <2>2. IsOp(caOp')
    BY <1>0, <1>val, <1>op, <1>6 DEF StopRuntime, IsOp, Places, EnsurePlaces, WritePlaces
  <2>3. caDue' \subseteq caRun'.made
    BY <1>0, <1>6 DEF StopRuntime
  <2> QED BY <1>0, <1>6, <2>1, <2>2, <2>3 DEF StopRuntime, CATypeOK
<1>7. ASSUME SeedConfig PROVE CATypeOK'
  <2>1. IsBox(caBox')
    BY <1>0, <1>val, <1>op, <1>7 DEF SeedConfig, IsBox, ComposeUpGoes
  <2>2. IsOp(caOp')
    <3>1. OpGoes("probe") \/ ComposeUpGoes(Rollout, TRUE)
      BY <1>7 DEF SeedConfig
    <3>2. "probe" \in Places /\ Rollout \in BOOLEAN
      BY DEF Places, EnsurePlaces, Rollout
    <3> QED BY <1>0, <3>1, <3>2, OpMoves
  <2>3. caDue' \subseteq caRun'.made
    BY <1>0, <1>7 DEF SeedConfig
  <2> QED BY <1>0, <1>7, <2>1, <2>2, <2>3 DEF SeedConfig, CATypeOK
<1>8. ASSUME ProbeDesired PROVE CATypeOK'
  <2>1. IsOp(caOp')
    <3>1. OpGoes("verify") \/ RunCAInit("raise") \/ RunCAInit("verify") \/ ComposeUpGoes(TRUE, TRUE)
      BY <1>0, <1>8 DEF ProbeDesired
    <3>2. "verify" \in Places /\ "raise" \in Places
      BY DEF Places, EnsurePlaces
    <3> QED BY <1>0, <3>1, <3>2, OpMoves
  <2>2. caDue' \subseteq caRun'.made
    BY <1>0, <1>8 DEF ProbeDesired
  <2> QED BY <1>0, <1>8, <2>1, <2>2 DEF ProbeDesired, CATypeOK
<1>9. ASSUME VerifyPrevious PROVE CATypeOK'
  <2>1. IsOp(caOp')
    BY <1>0, <1>val, <1>op, <1>9 DEF VerifyPrevious, IsOp, Places, EnsurePlaces, WritePlaces
  <2>2. caDue' \subseteq caRun'.made
    BY <1>0, <1>9 DEF VerifyPrevious
  <2> QED BY <1>0, <1>9, <2>1, <2>2 DEF VerifyPrevious, CATypeOK
<1>10. ASSUME SeedMarker PROVE CATypeOK'
  <2>1. IsFiles(caFiles')
    BY <1>0, <1>val, <1>op, <1>10 DEF SeedMarker, IsFiles, RunCAInit
  <2>2. IsOp(caOp')
    BY <1>0, <1>val, <1>op, <1>10 DEF SeedMarker, IsOp, Places, EnsurePlaces, WritePlaces, RunCAInit
  <2>3. caDue' \subseteq caRun'.made
    BY <1>0, <1>10 DEF SeedMarker
  <2> QED BY <1>0, <1>10, <2>1, <2>2, <2>3 DEF SeedMarker, CATypeOK
<1>11. ASSUME ForgetRollout PROVE CATypeOK'
  <2>1. IsRoll(caRoll')
    BY <1>0, <1>val, <1>op, <1>11 DEF ForgetRollout, IsRoll, Phases, ComposeUpGoes
  <2>2. IsOp(caOp')
    BY <1>0, <1>val, <1>op, <1>11 DEF ForgetRollout, IsOp, Places, EnsurePlaces, WritePlaces, ComposeUpGoes
  <2>3. caDue' \subseteq caRun'.made
    BY <1>0, <1>11 DEF ForgetRollout
  <2> QED BY <1>0, <1>11, <2>1, <2>2, <2>3 DEF ForgetRollout, CATypeOK
<1>12. ASSUME StartEgressd PROVE CATypeOK'
  <2>1. IsBox(caBox')
    BY <1>0, <1>val, <1>op, <1>12 DEF StartEgressd, IsBox, Serving
  <2>2. IsOp(caOp')
    BY <1>0, <1>val, <1>op, <1>12 DEF StartEgressd, IsOp, Places, EnsurePlaces, WritePlaces, Serving
  <2>3. caKept' \in BOOLEAN
    BY <1>0, <1>val, <1>op, <1>12 DEF StartEgressd, Serving
  <2>4. caDue' \subseteq caRun'.made
    BY <1>0, <1>12 DEF StartEgressd
  <2> QED BY <1>0, <1>12, <2>1, <2>2, <2>3, <2>4 DEF StartEgressd, CATypeOK
<1>13. ASSUME StartAgent PROVE CATypeOK'
  <2>1. IsBox(caBox')
    BY <1>0, <1>val, <1>op, <1>13 DEF StartAgent, IsBox
  <2>2. IsOp(caOp')
    BY <1>0, <1>val, <1>op, <1>13 DEF StartAgent, IsOp, Places, EnsurePlaces, WritePlaces
  <2>3. caKept' \in BOOLEAN
    BY <1>0, <1>val, <1>op, <1>13 DEF StartAgent
  <2>4. caDue' \subseteq caRun'.made
    BY <1>0, <1>13 DEF StartAgent
  <2> QED BY <1>0, <1>13, <2>1, <2>2, <2>3, <2>4 DEF StartAgent, CATypeOK
<1>14. ASSUME Commit PROVE CATypeOK'
  <2>1. IsRun(caRun')
    BY <1>0, <1>val, <1>op, <1>14 DEF Commit, IsRun
  <2>2. IsOp(caOp')
    BY <1>0, <1>val, <1>op, <1>14 DEF Commit, IsOp, Places, EnsurePlaces, WritePlaces
  <2>3. caDue' \subseteq caRun'.made
    BY <1>0, <1>14 DEF Commit, IsRun
  <2> QED BY <1>0, <1>14, <2>1, <2>2, <2>3 DEF Commit, CATypeOK
<1>15. ASSUME Inspect PROVE CATypeOK'
  <2>1. IsRoll(caRoll')
    BY <1>15, InspectDoes
  <2>2. IsOp(caOp')
    BY <1>15, InspectDoes
  <2>3. caDue' \subseteq caRun'.made
    BY <1>0, <1>15 DEF Inspect
  <2> QED BY <1>0, <1>15, <2>1, <2>2, <2>3 DEF Inspect, CATypeOK
<1>16. ASSUME RotationStops PROVE CATypeOK'
  <2>1. IsRoll(caRoll')
    BY <1>0, <1>val, <1>op, <1>16 DEF RotationStops, IsRoll, Phases
  <2>2. IsBox(caBox')
    BY <1>0, <1>val, <1>op, <1>16 DEF RotationStops, IsBox
  <2>3. IsOp(caOp')
    BY <1>0, <1>val, <1>op, <1>16 DEF RotationStops, IsOp, Places, EnsurePlaces, WritePlaces
  <2>4. caDue' \subseteq caRun'.made
    BY <1>0, <1>16 DEF RotationStops
  <2> QED BY <1>0, <1>16, <2>1, <2>2, <2>3, <2>4 DEF RotationStops, CATypeOK
<1>17. ASSUME RotationRuns PROVE CATypeOK'
  <2>1. IsOp(caOp')
    BY <1>0, <1>val, <1>op, <1>17 DEF RotationRuns, IsOp, Places, EnsurePlaces, WritePlaces, RunCAInit
  <2>2. caDue' \subseteq caRun'.made
    BY <1>0, <1>17 DEF RotationRuns
  <2> QED BY <1>0, <1>17, <2>1, <2>2 DEF RotationRuns, CATypeOK
<1>18. ASSUME RotationRecorded PROVE CATypeOK'
  <2>1. IsRoll(caRoll')
    BY <1>0, <1>val, <1>op, <1>18 DEF RotationRecorded, IsRoll, Phases
  <2>2. IsOp(caOp')
    BY <1>0, <1>val, <1>op, <1>18 DEF RotationRecorded, IsOp, Places, EnsurePlaces, WritePlaces
  <2>3. caDue' \subseteq caRun'.made
    BY <1>0, <1>18 DEF RotationRecorded
  <2> QED BY <1>0, <1>18, <2>1, <2>2, <2>3 DEF RotationRecorded, CATypeOK
<1>19. ASSUME RotationRecreates PROVE CATypeOK'
  <2>1. IsOp(caOp')
    <3>1. OpGoes("finish") \/ ComposeUpGoes(TRUE, FALSE)
      BY <1>19 DEF RotationRecreates
    <3>2. "finish" \in Places
      BY DEF Places
    <3> QED BY <1>0, <3>1, <3>2, OpMoves
  <2>2. caDue' \subseteq caRun'.made
    BY <1>0, <1>19 DEF RotationRecreates
  <2> QED BY <1>0, <1>19, <2>1, <2>2 DEF RotationRecreates, CATypeOK
<1>20. ASSUME RotationFinishes PROVE CATypeOK'
  <2>1. IsRoll(caRoll')
    BY <1>0, <1>val, <1>op, <1>20 DEF RotationFinishes, IsRoll, Phases
  <2>2. IsOp(caOp')
    BY <1>0, <1>val, <1>op, <1>20 DEF RotationFinishes, IsOp, Places, EnsurePlaces, WritePlaces
  <2>3. caDue' \subseteq caRun'.made
    BY <1>0, <1>20 DEF RotationFinishes
  <2> QED BY <1>0, <1>20, <2>1, <2>2, <2>3 DEF RotationFinishes, CATypeOK
<1>21. ASSUME CallFails PROVE CATypeOK'
  <2>1. IsBox(caBox')
    BY <1>0, <1>val, <1>op, <1>21 DEF CallFails, IsBox
  <2>2. IsOp(caOp')
    BY <1>0, <1>val, <1>op, <1>21 DEF CallFails, IsOp, Places, EnsurePlaces, WritePlaces
  <2>3. caDue' \subseteq caRun'.made
    BY <1>0, <1>21 DEF CallFails
  <2> QED BY <1>0, <1>21, <2>1, <2>2, <2>3 DEF CallFails, CATypeOK
<1>22. ASSUME NEW names \in CANames, ControllerRestarts(names) PROVE CATypeOK'
  <2>1. IsRun(caRun')
    BY <1>0, <1>val, <1>op, <1>22 DEF ControllerRestarts, IsRun
  <2>2. IsOp(caOp')
    BY <1>0, <1>val, <1>op, <1>22 DEF ControllerRestarts, IsOp, Places, EnsurePlaces, WritePlaces
  <2>3. caDue' \subseteq caRun'.made
    BY <1>0, <1>22 DEF ControllerRestarts, IsRun
  <2> QED BY <1>0, <1>22, <2>1, <2>2, <2>3 DEF ControllerRestarts, CATypeOK
<1>23. ASSUME RenewalDue PROVE CATypeOK'
  <2>1. caDue' \subseteq caRun'.made
    BY <1>0, <1>23 DEF RenewalDue
  <2> QED BY <1>0, <1>23, <2>1 DEF RenewalDue, CATypeOK
<1>24. ASSUME EgressdRestarts PROVE CATypeOK'
  <2>1. IsBox(caBox')
    BY <1>0, <1>val, <1>op, <1>24 DEF EgressdRestarts, IsBox, Serving
  <2>2. caDue' \subseteq caRun'.made
    BY <1>0, <1>24 DEF EgressdRestarts
  <2> QED BY <1>0, <1>24, <2>1, <2>2 DEF EgressdRestarts, CATypeOK
<1> QED BY <1>1, <1>2, <1>3, <1>4, <1>5, <1>6, <1>7, <1>8, <1>9, <1>10, <1>11, <1>12, <1>13, <1>14, <1>15, <1>16, <1>17, <1>18, <1>19, <1>20, <1>21, <1>22, <1>23, <1>24 DEF LocalCANext

(* The volume's shapes, and how far ca-init is when it is not writing.            *)
Shaped == EmptyVolume \/ ForeignVolume \/ HalfVolume \/ PairVolume

LEMMA Elsewhere ==
  ASSUME VolumeInv, CATypeOK', caFiles' = caFiles, caOp'.at \notin WritePlaces \cup {"mark"}
  PROVE  VolumeInv'
BY DEF VolumeInv, WritingOK, WritePlaces, EmptyVolume, ForeignVolume, HalfVolume, PairVolume

LEMMA InitKeepsVolume ==
  ASSUME VolumeInv, CATypeOK', caFiles' = caFiles, caRun' = caRun, caOp'.at = "init", caOp'.gen = FreshCA,
         caOp'.back \in {"egressd", "raise", "verify", "forget", "rotated"}
  PROVE  VolumeInv'
<1>1. caOp'.gen > 0 /\ caRun'.made = 1..(caOp'.gen - 1)
  BY FreshIsNext DEF VolumeInv
<1>2. WritingOK'
  BY <1>1 DEF WritingOK, WritePlaces
<1> QED BY <1>2 DEF VolumeInv, EmptyVolume, ForeignVolume, HalfVolume, PairVolume

(* ca-init itself.                                                              *)
LEMMA WritingKeepsVolume ==
  ASSUME VolumeInv, CATypeOK', InitStarts \/ WriteCert \/ WriteKey \/ RemoveMarker \/ SeedMarker
  PROVE  VolumeInv'
<1>0. /\ IsOp(caOp) /\ IsFiles(caFiles) /\ caOp.gen \in Int /\ caFiles.cert.gen \in Int /\ caFiles.key \in Int
      /\ WritingOK /\ Shaped /\ Desired \in CANames
  BY DesiredTyped DEF VolumeInv, CATypeOK, IsOp, IsFiles, Shaped
<1> USE DEF EmptyVolume, ForeignVolume, HalfVolume, PairVolume, Shaped, NoCA, ForeignCA
<1>1. ASSUME InitStarts PROVE VolumeInv'
  <2>1. caOp.at = "init" /\ caRun' = caRun
    BY <1>1 DEF InitStarts
  <2>2. caOp.gen > 0 /\ caRun.made = 1..(caOp.gen - 1) /\ caOp.back \in {"egressd", "raise", "verify", "forget", "rotated"}
    BY <1>0, <2>1 DEF WritingOK, WritePlaces
  <2>3. CASE FoundCA(Desired) = "ok"
    BY <1>1, <1>0, <2>2, <2>3, Elsewhere DEF InitStarts, OpGoes, IsOp, WritePlaces
  <2>4. CASE FoundCA(Desired) = "error"
    BY <1>1, <1>0, <2>2, <2>4, Elsewhere DEF InitStarts, OpIdle, WritePlaces
  <2>5. CASE FoundCA(Desired) = "absent"
    <3>1. EmptyVolume
      BY <1>0, <2>5, FoundTells
    <3>2. /\ caFiles' = caFiles /\ caOp'.at = "cert" /\ caOp'.marked = FALSE
          /\ caOp'.gen = caOp.gen /\ caOp'.back = caOp.back
      BY <1>1, <1>0, <2>5 DEF InitStarts, IsOp
    <3>3. WritingOK'
      BY <2>1, <2>2, <3>1, <3>2 DEF WritingOK, WritePlaces
    <3> QED BY <3>1, <3>2, <3>3 DEF VolumeInv
  <2>6. CASE FoundCA(Desired) = "renew"
    <3>1. PairVolume
      BY <1>0, <2>6, FoundTells
    <3>2. /\ caFiles' = [caFiles EXCEPT !.marker = TRUE] /\ caOp'.at = "cert" /\ caOp'.marked = TRUE
          /\ caOp'.gen = caOp.gen /\ caOp'.back = caOp.back
      BY <1>1, <1>0, <2>6 DEF InitStarts, IsOp
    <3>3. PairVolume' /\ caFiles'.marker
      BY <1>0, <3>1, <3>2 DEF IsFiles
    <3>4. WritingOK'
      BY <2>1, <2>2, <3>2, <3>3 DEF WritingOK, WritePlaces
    <3> QED BY <3>3, <3>4 DEF VolumeInv
  <2> QED BY <1>0, <2>3, <2>4, <2>5, <2>6, FoundTells
<1>2. ASSUME WriteCert PROVE VolumeInv'
  <2>1. /\ caOp'.at = "key" /\ caOp'.gen = caOp.gen /\ caOp'.marked = caOp.marked /\ caOp'.back = caOp.back
        /\ caFiles' = [caFiles EXCEPT !.cert = [gen |-> caOp.gen, names |-> Desired]]
        /\ caRun'.snap = caRun.snap /\ caRun'.staged = caRun.staged /\ caOp.at = "cert"
    BY <1>0, <1>2 DEF WriteCert, OpGoes, IsOp, VolumeInv, CATypeOK, IsRun
  <2>2. Desired' = Desired
    BY <2>1 DEF Desired, Rollout
  <2>3. /\ caFiles'.cert = [gen |-> caOp.gen, names |-> Desired]
        /\ caFiles'.key = caFiles.key /\ caFiles'.marker = caFiles.marker
    BY <1>0, <2>1 DEF IsFiles
  <2>4. caOp.gen > 0 /\ (IF caOp.marked THEN PairVolume /\ caFiles.marker ELSE EmptyVolume)
    BY <1>0, <2>1 DEF WritingOK
  <2>5. IF caOp.marked THEN PairVolume' /\ caFiles'.marker ELSE HalfVolume'
    BY <2>3, <2>4
  <2>6. WritingOK'
    BY <1>0, <2>1, <2>2, <2>3, <2>4, <2>5 DEF WritingOK, WritePlaces
  <2> QED BY <2>5, <2>6 DEF VolumeInv
<1>3. ASSUME WriteKey PROVE VolumeInv'
  <2>1. /\ caFiles' = [caFiles EXCEPT !.key = caOp.gen] /\ caOp.at = "key" /\ caRun' = caRun
        /\ caOp'.at = (IF caOp.marked THEN "unmark" ELSE caOp.back) /\ caOp'.back = caOp.back
    BY <1>0, <1>3 DEF WriteKey, OpGoes, IsOp
  <2>2. /\ caFiles'.cert = caFiles.cert /\ caFiles'.key = caOp.gen /\ caFiles'.marker = caFiles.marker
    BY <1>0, <2>1 DEF IsFiles
  <2>3. /\ caOp.gen > 0 /\ caFiles.cert = [gen |-> caOp.gen, names |-> Desired] /\ (caOp.marked => caFiles.marker)
        /\ caOp.back \in {"egressd", "raise", "verify", "forget", "rotated"}
    BY <1>0, <2>1 DEF WritingOK, WritePlaces
  <2>4. Desired' = Desired /\ PairVolume'
    BY <2>1, <2>2, <2>3 DEF Desired, Rollout
  <2>5. WritingOK'
    BY <2>1, <2>2, <2>3, <2>4 DEF WritingOK, WritePlaces
  <2> QED BY <2>4, <2>5 DEF VolumeInv
<1>4. ASSUME RemoveMarker PROVE VolumeInv'
  <2>1. caFiles' = [caFiles EXCEPT !.marker = FALSE] /\ caOp.at = "unmark" /\ caOp'.at = caOp.back
    BY <1>0, <1>4 DEF RemoveMarker, OpGoes, IsOp
  <2>2. PairVolume' /\ caOp.back \in {"egressd", "raise", "verify", "forget", "rotated"}
    BY <1>0, <2>1 DEF WritingOK, WritePlaces, IsFiles
  <2>3. WritingOK'
    BY <2>1, <2>2 DEF WritingOK, WritePlaces
  <2> QED BY <2>2, <2>3 DEF VolumeInv
<1>5. ASSUME SeedMarker PROVE VolumeInv'
  <2>1. caFiles' = [caFiles EXCEPT !.marker = TRUE] /\ PairVolume /\ caRun' = caRun
    BY <1>0, <1>5 DEF SeedMarker, WritingOK
  <2>2. PairVolume'
    BY <1>0, <2>1 DEF IsFiles
  <2>3. caOp'.at = "init" /\ caOp'.back = "forget" /\ caOp'.gen = FreshCA
    BY <1>5, OpMoves DEF SeedMarker, VolumeInv, Places, EnsurePlaces
  <2>4. caOp'.gen > 0 /\ caRun'.made = 1..(caOp'.gen - 1)
    BY <2>1, <2>3, FreshIsNext DEF VolumeInv
  <2>5. WritingOK'
    BY <2>3, <2>4 DEF WritingOK, WritePlaces
  <2> QED BY <2>2, <2>5 DEF VolumeInv
<1> QED BY <1>1, <1>2, <1>3, <1>4, <1>5

LEMMA VolumeStep ==
  ASSUME VolumeInv, LocalCANext
  PROVE  VolumeInv'
<1>0. /\ CATypeOK' /\ CATypeOK /\ IsOp(caOp) /\ Desired \in CANames
      /\ FoundCA(Desired) \in {"ok", "error", "absent", "renew"}
  BY TypeStep, DesiredTyped, FoundTells DEF VolumeInv, CATypeOK
<1> USE DEF WritePlaces
<1>1. ASSUME InitStarts \/ WriteCert \/ WriteKey \/ RemoveMarker \/ SeedMarker PROVE VolumeInv'
  BY <1>0, <1>1, WritingKeepsVolume
<1>2. ASSUME EnsureStarts \/ StopRuntime \/ StartEgressd \/ StartAgent \/ RotationStops \/ RotationRecorded
      PROVE  VolumeInv'
  <2>1. caFiles' = caFiles
    BY <1>2 DEF EnsureStarts, StopRuntime, StartEgressd, StartAgent, RotationStops, RotationRecorded
  <2>2. caOp'.at \in {"stop", "seed", "agent", "observe", "finish", "idle", "rotate"}
    <3>1. ASSUME RotationStops PROVE caOp'.at \in {"idle", "rotate"}
      BY <1>0, <3>1 DEF RotationStops, OpIdle, IsOp
    <3> QED BY <1>0, <1>2, <3>1 DEF EnsureStarts, StopRuntime, StartEgressd, StartAgent, RotationRecorded, OpGoes, IsOp
  <2> QED BY <1>0, <2>1, <2>2, Elsewhere
<1>3. ASSUME Commit \/ RotationFinishes \/ CallFails \/ (\E names \in CANames : ControllerRestarts(names)) PROVE VolumeInv'
  <2>1. caFiles' = caFiles /\ caOp' = OpIdle
    BY <1>3 DEF Commit, RotationFinishes, CallFails, ControllerRestarts
  <2> QED BY <1>0, <2>1, Elsewhere DEF OpIdle
<1>4. ASSUME Inspect PROVE VolumeInv'
  <2>1. caFiles' = caFiles /\ caOp'.at \in {"rotate", "ready", "idle"}
    BY <1>4, InspectDoes
  <2> QED BY <1>0, <2>1, Elsewhere
<1>5. ASSUME SeedConfig PROVE VolumeInv'
  <2>1. caFiles' = caFiles /\ caRun' = caRun /\ (OpGoes("probe") \/ ComposeUpGoes(Rollout, TRUE)) /\ Rollout \in BOOLEAN
    BY <1>5 DEF SeedConfig, Rollout
  <2>2. \/ caOp'.at = "probe"
        \/ caOp'.at = "init" /\ caOp'.gen = FreshCA /\ caOp'.back \in {"egressd"}
    BY <1>0, <2>1, OpMoves DEF Places, EnsurePlaces
  <2>3. CASE caOp'.at = "probe"
    BY <1>0, <2>1, <2>3, Elsewhere
  <2>4. CASE caOp'.at = "init" /\ caOp'.gen = FreshCA /\ caOp'.back \in {"egressd"}
    BY <1>0, <2>1, <2>4, InitKeepsVolume
  <2> QED BY <2>2, <2>3, <2>4
<1>6. ASSUME ProbeDesired PROVE VolumeInv'
  <2>0. OpGoes("verify") \/ RunCAInit("raise") \/ RunCAInit("verify") \/ ComposeUpGoes(TRUE, TRUE)
    BY <1>0, <1>6 DEF ProbeDesired
  <2>1. /\ caFiles' = caFiles /\ caRun' = caRun
        /\ OpGoes("verify") \/ RunCAInit("raise") \/ RunCAInit("verify") \/ ComposeUpGoes(TRUE, TRUE)
    BY <1>6, <2>0 DEF ProbeDesired
  <2>2. \/ caOp'.at = "verify"
        \/ caOp'.at = "init" /\ caOp'.gen = FreshCA /\ caOp'.back \in {"raise", "verify", "egressd"}
    BY <1>0, <2>1, OpMoves DEF Places, EnsurePlaces
  <2>3. CASE caOp'.at = "verify"
    BY <1>0, <2>1, <2>3, Elsewhere
  <2>4. CASE caOp'.at = "init" /\ caOp'.gen = FreshCA /\ caOp'.back \in {"raise", "verify", "egressd"}
    BY <1>0, <2>1, <2>4, InitKeepsVolume
  <2> QED BY <2>2, <2>3, <2>4
<1>7. ASSUME VerifyPrevious PROVE VolumeInv'
  <2>1. caFiles' = caFiles /\ caRun' = caRun /\ caRun.snap \in CANames
    BY <1>0, <1>7 DEF VerifyPrevious, CATypeOK, IsRun
  <2>2. CASE caOp' = OpIdle
    BY <1>0, <2>1, <2>2, Elsewhere DEF OpIdle
  <2>3. CASE caOp' # OpIdle
    <3>1. OpGoes("mark") /\ FoundCA(caRun.snap) \in {"ok", "renew"}
      BY <1>7, <2>3 DEF VerifyPrevious
    <3>2. caOp'.at = "mark" /\ PairVolume
      BY <1>0, <2>1, <3>1, FoundTells DEF OpGoes, IsOp, Published, PairVolume
    <3>3. WritingOK'
      BY <2>1, <3>2 DEF WritingOK, PairVolume
    <3> QED BY <1>0, <2>1, <3>2, <3>3 DEF VolumeInv, PairVolume
  <2> QED BY <2>2, <2>3
<1>8. ASSUME ForgetRollout \/ RotationRuns \/ RotationRecreates PROVE VolumeInv'
  <2>1. /\ caFiles' = caFiles /\ caRun' = caRun
        /\ OpGoes("finish") \/ RunCAInit("rotated") \/ ComposeUpGoes(TRUE, TRUE) \/ ComposeUpGoes(TRUE, FALSE)
    BY <1>8 DEF ForgetRollout, RotationRuns, RotationRecreates
  <2>2. \/ caOp'.at = "finish"
        \/ caOp'.at = "init" /\ caOp'.gen = FreshCA /\ caOp'.back \in {"rotated", "egressd"}
    BY <1>0, <2>1, OpMoves DEF Places, EnsurePlaces
  <2>3. CASE caOp'.at = "finish"
    BY <1>0, <2>1, <2>3, Elsewhere
  <2>4. CASE caOp'.at = "init" /\ caOp'.gen = FreshCA /\ caOp'.back \in {"rotated", "egressd"}
    BY <1>0, <2>1, <2>4, InitKeepsVolume
  <2> QED BY <2>2, <2>3, <2>4
<1>9. ASSUME RenewalDue \/ EgressdRestarts PROVE VolumeInv'
  <2>1. UNCHANGED <<caFiles, caRun, caOp>>
    BY <1>9 DEF RenewalDue, EgressdRestarts
  <2> QED BY <1>0, <2>1 DEF VolumeInv, WritingOK, EmptyVolume, ForeignVolume, HalfVolume, PairVolume, Desired, Rollout
<1> QED BY <1>1, <1>2, <1>3, <1>4, <1>5, <1>6, <1>7, <1>8, <1>9 DEF LocalCANext

LEMMA VolumeStart == LocalCAInit => VolumeInv
<1> SUFFICES ASSUME LocalCAInit PROVE VolumeInv
  OBVIOUS
<1>1. PICK names \in CANames, foreign \in BOOLEAN :
        /\ caRun = [state |-> "preparing", snap |-> names, staged |-> NoNames, made |-> {}]
        /\ caFiles = IF foreign THEN [cert |-> [gen |-> ForeignCA, names |-> NoNames], key |-> ForeignCA, marker |-> FALSE]
                     ELSE [cert |-> [gen |-> NoCA, names |-> NoNames], key |-> NoCA, marker |-> FALSE]
        /\ caBox = [agent |-> NoCA, egressd |-> NoCA, up |-> FALSE, names |-> names]
  BY DEF LocalCAInit
<1>2. caDue = {} /\ caRoll = [phase |-> "none", next |-> NoCA] /\ caOp = OpIdle /\ caKept = FALSE
  BY DEF LocalCAInit
<1>3. {} = 1..0 /\ 0 \in 0..MaxCAGen
  BY LocalCABounds
<1>4. IsRun(caRun)
  BY <1>1, <1>3 DEF IsRun
<1>5. IsFiles(caFiles) /\ IsBox(caBox) /\ IsRoll(caRoll)
  BY <1>1, <1>2 DEF IsFiles, IsBox, IsRoll, Phases, NoCA, ForeignCA
<1>6. IsOp(caOp)
  BY <1>2 DEF OpIdle, IsOp, NoCA, Places, EnsurePlaces, WritePlaces
<1>7. WritingOK
  BY <1>2 DEF WritingOK, OpIdle, WritePlaces
<1> QED BY <1>1, <1>2, <1>4, <1>5, <1>6, <1>7 DEF VolumeInv, CATypeOK, EmptyVolume, ForeignVolume

LEMMA VolumeInvariant == LocalCASpec => []VolumeInv
<1>1. VolumeInv /\ [LocalCANext]_caVars => VolumeInv'
  <2> SUFFICES ASSUME VolumeInv, UNCHANGED caVars PROVE VolumeInv'
    BY VolumeStep
  <2> QED BY DEF caVars, VolumeInv, CATypeOK, WritingOK, EmptyVolume, ForeignVolume, HalfVolume, PairVolume, Desired, Rollout
<1> QED BY <1>1, VolumeStart, PTL DEF LocalCASpec

(* A pair that ca-init did not generate stays as it is: no renewal, no rollout that changes the   *)
(* names, no failed call and no restart replaces or marks it (reconcileDesiredCANameSet refuses     *)
(* what it cannot load, egress-ca-init ends with an error).                                      *)
THEOREM ForeignPairsStay == LocalCASpec => ForeignCAKept
<1>1. ASSUME VolumeInv, [LocalCANext]_caVars PROVE [caFiles.cert.gen = ForeignCA => caFiles' = caFiles]_caVars
  <2> SUFFICES ASSUME LocalCANext, caFiles.cert.gen = ForeignCA PROVE caFiles' = caFiles
    BY <1>1 DEF caVars
  <2>1. ForeignVolume /\ ~PairVolume /\ ~EmptyVolume /\ ~HalfVolume
    BY <1>1 DEF VolumeInv, ForeignVolume, PairVolume, EmptyVolume, HalfVolume, ForeignCA, NoCA
  <2>2. FoundCA(Desired) = "error"
    BY <1>1, <2>1, DesiredTyped, FoundTells DEF VolumeInv
  <2>3. caOp.at \notin {"mark", "cert", "key", "unmark"}
    <3>1. caOp.at \notin {"mark", "cert"}
      BY <1>1, <2>1 DEF VolumeInv, WritingOK
    <3>2. caOp.at # "key"
      BY <1>1, <2>1 DEF VolumeInv, WritingOK
    <3>3. caOp.at # "unmark"
      BY <1>1 DEF VolumeInv, WritingOK, ForeignCA
    <3> QED BY <3>1, <3>2, <3>3
  <2>4. ASSUME InitStarts PROVE caFiles' = caFiles
    BY <2>2, <2>4 DEF InitStarts
  <2> QED BY <2>3, <2>4 DEF LocalCANext, WriteCert, WriteKey, RemoveMarker, EnsureStarts, StopRuntime, SeedConfig,
          ProbeDesired, VerifyPrevious, SeedMarker, ForgetRollout, StartEgressd, StartAgent, Commit, Inspect, RotationStops,
          RotationRuns, RotationRecorded, RotationRecreates, RotationFinishes, CallFails, ControllerRestarts, RenewalDue,
          EgressdRestarts
<1> QED BY <1>1, VolumeInvariant, PTL DEF LocalCASpec, ForeignCAKept

-----------------------------------------------------------------------------
(* The names, where a document is not replaced while it is being rolled out.      *)

LEMMA NamesElsewhere ==
  ASSUME NamesInv, caFiles' = caFiles, caRun' = caRun,
         caOp'.at \in {"egressd", "agent", "observe", "ready"} => caOp.at \in {"egressd", "agent", "observe", "ready"}
  PROVE  NamesInv'
<1>1. Desired' = Desired /\ Rollout' = Rollout
  BY DEF Desired, Rollout
<1> QED BY <1>1 DEF NamesInv, Published, PairVolume

LEMMA PublishedKeepsNames ==
  ASSUME caRun' = caRun, NamesInv, Published(Desired)'
  PROVE  NamesInv'
BY DEF NamesInv, Desired, Rollout

LEMMA MarkedKeepsNames ==
  ASSUME caRun'.snap = caRun.snap, caRun'.staged = caRun.staged, caRun'.state = caRun.state, NamesInv,
         caFiles'.marker \/ ~PairVolume', caOp'.at \notin {"egressd", "agent", "observe", "ready"}
  PROVE  NamesInv'
BY DEF NamesInv, Rollout

LEMMA NamesStep ==
  ASSUME ~CARevises, VolumeInv, VolumeInv', NamesInv, LocalCANext
  PROVE  NamesInv'
<1>0. /\ IsOp(caOp) /\ IsFiles(caFiles) /\ IsRun(caRun) /\ CATypeOK /\ WritingOK /\ Desired \in CANames
      /\ FoundCA(Desired) \in {"ok", "error", "absent", "renew"}
      /\ caOp.gen \in Int
  BY DesiredTyped, FoundTells DEF VolumeInv, CATypeOK, IsOp
<1>1. ASSUME InitStarts PROVE NamesInv'
  <2>1. caRun' = caRun /\ caOp.at = "init"
    BY <1>1 DEF InitStarts
  <2>2. CASE FoundCA(Desired) = "ok"
    <3>1. caFiles' = caFiles /\ Published(Desired)
      BY <1>0, <1>1, <2>2, FoundTells DEF InitStarts
    <3> QED BY <2>1, <3>1, PublishedKeepsNames DEF Published, Desired, Rollout
  <2>3. CASE FoundCA(Desired) = "error"
    BY <1>1, <2>1, <2>3, NamesElsewhere DEF InitStarts, OpIdle
  <2>4. CASE FoundCA(Desired) = "absent"
    BY <1>0, <1>1, <2>1, <2>4, NamesElsewhere DEF InitStarts, IsOp
  <2>5. CASE FoundCA(Desired) = "renew"
    <3>1. caFiles'.marker /\ caOp'.at = "cert"
      BY <1>0, <1>1, <2>5 DEF InitStarts, IsFiles, IsOp
    <3> QED BY <2>1, <3>1, MarkedKeepsNames
  <2> QED BY <1>0, <2>2, <2>3, <2>4, <2>5
<1>2. ASSUME WriteCert PROVE NamesInv'
  <2>1. /\ caRun'.snap = caRun.snap /\ caRun'.staged = caRun.staged /\ caRun'.state = caRun.state
        /\ caOp'.at = "key" /\ caOp'.marked = caOp.marked
    BY <1>0, <1>2 DEF WriteCert, OpGoes, IsOp, IsRun
  <2>2. IF caOp'.marked THEN caFiles'.marker ELSE HalfVolume'
    BY <2>1 DEF VolumeInv, WritingOK
  <2>3. caFiles'.marker \/ ~PairVolume'
    BY <2>2 DEF HalfVolume, PairVolume, NoCA
  <2> QED BY <2>1, <2>3, MarkedKeepsNames
<1>3. ASSUME WriteKey PROVE NamesInv'
  <2>1. /\ caRun' = caRun /\ caFiles' = [caFiles EXCEPT !.key = caOp.gen] /\ caOp.at = "key"
        /\ caOp'.at = (IF caOp.marked THEN "unmark" ELSE caOp.back)
    BY <1>0, <1>3 DEF WriteKey, OpGoes, IsOp
  <2>2. caFiles'.cert = caFiles.cert /\ caFiles'.key = caOp.gen /\ caFiles'.marker = caFiles.marker
    BY <1>0, <2>1 DEF IsFiles
  <2>3. /\ caOp.gen > 0 /\ caFiles.cert = [gen |-> caOp.gen, names |-> Desired]
        /\ IF caOp.marked THEN caFiles.marker ELSE ~caFiles.marker
    BY <1>0, <2>1 DEF WritingOK, HalfVolume
  <2>4. CASE caOp.marked
    BY <2>1, <2>2, <2>3, <2>4, MarkedKeepsNames
  <2>5. CASE ~caOp.marked
    <3>1. Published(Desired)'
      BY <2>1, <2>2, <2>3, <2>5 DEF Published, Desired, Rollout
    <3> QED BY <2>1, <3>1, PublishedKeepsNames
  <2> QED BY <2>4, <2>5
<1>4. ASSUME RemoveMarker PROVE NamesInv'
  <2>1. caRun' = caRun /\ caFiles' = [caFiles EXCEPT !.marker = FALSE] /\ caOp.at = "unmark"
    BY <1>4 DEF RemoveMarker
  <2>2. Published(Desired)'
    BY <1>0, <2>1 DEF WritingOK, Published, Desired, Rollout, IsFiles
  <2> QED BY <2>1, <2>2, PublishedKeepsNames
<1>5. ASSUME SeedMarker PROVE NamesInv'
  <2>1. caFiles'.marker /\ caRun' = caRun /\ caOp'.at = "init"
    BY <1>0, <1>5, OpMoves DEF SeedMarker, IsFiles, Places, EnsurePlaces
  <2> QED BY <2>1, MarkedKeepsNames
<1>6. ASSUME Commit PROVE NamesInv'
  <2>1. /\ caFiles' = caFiles /\ caOp'.at = "idle" /\ caRun'.snap = Desired /\ caRun'.staged = NoNames
        /\ Published(Desired)
    BY <1>0, <1>6 DEF Commit, OpIdle, IsRun, NamesInv
  <2> QED BY <2>1 DEF NamesInv, Published, Rollout
<1>7. ASSUME NEW names \in CANames, ControllerRestarts(names) PROVE NamesInv'
  <2>1. /\ caFiles' = caFiles /\ caOp'.at = "idle" /\ caRun'.snap = caRun.snap /\ caRun'.state = "preparing"
        /\ Rollout => caRun'.staged = caRun.staged
    BY <1>0, <1>7 DEF ControllerRestarts, OpIdle, IsRun
  <2> QED BY <2>1 DEF NamesInv, Published, PairVolume, Rollout
<1>8. ASSUME Inspect PROVE NamesInv'
  <2>1. caFiles' = caFiles /\ caRun' = caRun /\ (caOp'.at \in {"rotate", "idle"} \/ caOp.at = "observe")
    BY <1>8, InspectDoes
  <2> QED BY <2>1, NamesElsewhere
<1>9. ASSUME ProbeDesired \/ SeedConfig \/ ForgetRollout \/ RotationRuns \/ RotationRecreates PROVE NamesInv'
  <2>0. ASSUME ProbeDesired PROVE OpGoes("verify") \/ RunCAInit("raise") \/ RunCAInit("verify") \/ ComposeUpGoes(TRUE, TRUE)
    BY <1>0, <2>0 DEF ProbeDesired
  <2>1. caFiles' = caFiles /\ caRun' = caRun
    BY <1>9 DEF ProbeDesired, SeedConfig, ForgetRollout, RotationRuns, RotationRecreates
  <2>2. \/ \E at \in {"probe", "verify", "finish"} : OpGoes(at)
        \/ \E back \in {"raise", "verify", "rotated"} : RunCAInit(back)
        \/ \E recreate, ensuring \in BOOLEAN : ComposeUpGoes(recreate, ensuring)
    BY <1>9, <2>0 DEF SeedConfig, ForgetRollout, RotationRuns, RotationRecreates, Rollout
  <2>3. caOp'.at \in {"probe", "verify", "finish", "init"}
    BY <1>0, <2>2, OpMoves DEF Places, EnsurePlaces
  <2> QED BY <2>1, <2>3, NamesElsewhere
<1>10. ASSUME EnsureStarts \/ StopRuntime \/ VerifyPrevious \/ StartEgressd \/ StartAgent \/ RotationStops \/ RotationRecorded
              \/ RotationFinishes \/ CallFails \/ RenewalDue \/ EgressdRestarts
       PROVE  NamesInv'
  <2>1. caFiles' = caFiles /\ caRun' = caRun
    BY <1>10 DEF EnsureStarts, StopRuntime, VerifyPrevious, StartEgressd, StartAgent, RotationStops, RotationRecorded,
         RotationFinishes, CallFails, RenewalDue, EgressdRestarts
  <2>2. \/ caOp'.at \in {"idle", "stop", "seed", "mark", "rotate"} \/ caOp.at \in {"egressd", "agent"} \/ caOp' = caOp
    BY <1>0, <1>10 DEF EnsureStarts, StopRuntime, VerifyPrevious, StartEgressd, StartAgent, RotationStops, RotationRecorded,
         RotationFinishes, CallFails, RenewalDue, EgressdRestarts, OpGoes, OpIdle, IsOp
  <2> QED BY <2>1, <2>2, NamesElsewhere
<1> QED BY <1>1, <1>2, <1>3, <1>4, <1>5, <1>6, <1>7, <1>8, <1>9, <1>10 DEF LocalCANext

(* Wherever a crash, a failed call or a restart cuts a renewal or a replacement off: once a pair has  *)
(* been published, the volume announces a replacement, vouches for the names that are wanted, or for  *)
(* the previous ones, so that ca-init or the next rollout can go on from it.  Where a document is     *)
(* not replaced while it is being rolled out; the run ca_revert shows what happens otherwise.         *)
THEOREM AlwaysRecoverable ==
  ASSUME ~CARevises
  PROVE  LocalCASpec => []CARecoverable
<1>1. LocalCAInit => NamesInv
  BY DEF LocalCAInit, NamesInv, PairVolume, OpIdle, NoCA, ForeignCA
<1>2. VolumeInv /\ VolumeInv' /\ NamesInv /\ [LocalCANext]_caVars => NamesInv'
  <2> SUFFICES ASSUME NamesInv, UNCHANGED caVars PROVE NamesInv'
    BY NamesStep
  <2> QED BY NamesElsewhere DEF caVars
<1>3. VolumeInv /\ NamesInv => CARecoverable
  <2> SUFFICES ASSUME VolumeInv, NamesInv, caFiles.cert.gen > 0, caFiles.key > 0
               PROVE  \/ FoundCA(Desired) # "error"
                      \/ Rollout /\ caRun.staged # caRun.snap /\ FoundCA(caRun.snap) # "error"
    BY DEF CARecoverable
  <2>1. \A names : caFiles.marker \/ Published(names) => FoundCA(names) # "error"
    BY DEF FoundCA, PairLoads, Published, NoCA
  <2>2. caFiles.marker \/ Published(caRun.snap) \/ (Rollout /\ Published(caRun.staged))
    BY DEF NamesInv, PairVolume
  <2> QED BY <2>1, <2>2 DEF Desired, Rollout
<1> QED BY <1>1, <1>2, <1>3, VolumeInvariant, PTL DEF LocalCASpec

-----------------------------------------------------------------------------
(* Whom the agent trusts.                                                       *)

(* Steps of Ensure, while the run is being prepared.                             *)
LEMMA PreparingTrust ==
  ASSUME caRun'.state = "preparing", caOp'.at \notin {"agent", "observe", "ready"}
  PROVE  TrustInv'
BY DEF TrustInv

LEMMA SameTrust ==
  ASSUME TrustInv, caFiles' = caFiles, caRun'.state = caRun.state, caBox' = caBox, caOp' = caOp, caKept' = caKept,
         caRoll'.phase = caRoll.phase
  PROVE  TrustInv'
BY DEF TrustInv, Trusts, EgressdFollows

(* ca-init writes only while the agent is down, or while the run is prepared.     *)
LEMMA WritingTrust ==
  ASSUME VolumeInv, TrustInv, InitStarts \/ WriteCert \/ WriteKey \/ RemoveMarker
  PROVE  TrustInv'
<1>1. /\ caOp.at \in WritePlaces /\ caBox' = caBox /\ caRoll' = caRoll /\ caKept' = caKept /\ caRun'.state = caRun.state
  BY DEF InitStarts, WriteCert, WriteKey, RemoveMarker, WritePlaces, VolumeInv, CATypeOK, IsRun
<1>2. caOp.back \in {"egressd", "raise", "verify", "forget", "rotated"} /\ IsOp(caOp)
  BY <1>1 DEF VolumeInv, WritingOK, CATypeOK
<1>3. \/ /\ caOp'.at \in {"cert", "key", "unmark", caOp.back}
         /\ caOp'.back = caOp.back /\ caOp'.recreate = caOp.recreate /\ caOp'.ensuring = caOp.ensuring
      \/ caOp' = OpIdle
  <2>1. ASSUME InitStarts
        PROVE  \/ caOp' = [caOp EXCEPT !.at = caOp.back] \/ caOp' = OpIdle
               \/ caOp' = [caOp EXCEPT !.at = "cert", !.marked = FALSE]
               \/ caOp' = [caOp EXCEPT !.at = "cert", !.marked = TRUE]
    BY <2>1, DesiredTyped, FoundTells DEF InitStarts, OpGoes, VolumeInv
  <2>2. ASSUME InitStarts
        PROVE  \/ /\ caOp'.at \in {"cert", "key", "unmark", caOp.back}
                  /\ caOp'.back = caOp.back /\ caOp'.recreate = caOp.recreate /\ caOp'.ensuring = caOp.ensuring
               \/ caOp' = OpIdle
    BY <1>2, <2>1, <2>2 DEF IsOp
  <2> QED BY <1>2, <2>2 DEF WriteCert, WriteKey, RemoveMarker, OpGoes, IsOp
<1>4. CASE caRun.state = "preparing"
  BY <1>1, <1>2, <1>3, <1>4, PreparingTrust DEF OpIdle
<1>5. CASE caRun.state # "preparing"
  <2>1. caRun.state = "running" /\ caBox.agent = NoCA /\ caOp.back \in {"rotated", "egressd"}
        /\ (caOp.back = "egressd" => caOp.recreate /\ ~caOp.ensuring /\ caRoll.phase = "rotated")
    BY <1>1, <1>5 DEF TrustInv, VolumeInv, CATypeOK, IsRun
  <2>2. CASE caOp' = OpIdle
    BY <1>1, <2>1, <2>2 DEF TrustInv, Trusts, OpIdle, EnsurePlaces, WritePlaces
  <2>3. CASE /\ caOp'.at \in {"cert", "key", "unmark", caOp.back}
             /\ caOp'.back = caOp.back /\ caOp'.recreate = caOp.recreate /\ caOp'.ensuring = caOp.ensuring
    BY <1>1, <2>1, <2>3 DEF TrustInv, Trusts, EnsurePlaces, WritePlaces
  <2> QED BY <1>3, <2>2, <2>3
<1> QED BY <1>4, <1>5

(* Ensure leaves a runtime whose parts agree, or notes what it kept.              *)
LEMMA StartsTrust ==
  ASSUME VolumeInv, TrustInv, StartEgressd \/ StartAgent
  PROVE  TrustInv'
<1>0. /\ IsOp(caOp) /\ IsBox(caBox) /\ caRun.state \in {"preparing", "running"} /\ caKept \in BOOLEAN
      /\ caRun' = caRun /\ caRoll' = caRoll /\ caFiles' = caFiles
      /\ caOp.recreate \in BOOLEAN /\ caOp.ensuring \in BOOLEAN
  BY DEF VolumeInv, CATypeOK, IsOp, IsRun, StartEgressd, StartAgent
<1>1. ASSUME StartEgressd PROVE TrustInv'
  <2>1. /\ caOp.at = "egressd" /\ caOp'.at = "agent" /\ caOp'.recreate = caOp.recreate /\ caOp'.ensuring = caOp.ensuring
    BY <1>0, <1>1 DEF StartEgressd, OpGoes, IsOp
  <2>2. /\ caBox'.agent = caBox.agent
        /\ (caBox'.egressd = caBox.egressd /\ ~caOp.recreate) \/ caBox'.egressd = Serving
    BY <1>0, <1>1 DEF StartEgressd, IsBox
  <2>3. caKept' = (~caOp.recreate /\ (caKept \/ caBox.egressd \notin {NoCA, caFiles.cert.gen}))
    BY <1>1 DEF StartEgressd
  <2>4. Serving \in {NoCA, caFiles.cert.gen}
    BY DEF Serving
  <2>5. ~caKept' \/ caOp.recreate => EgressdFollows'
    BY <1>0, <2>2, <2>3, <2>4 DEF EgressdFollows
  <2> QED BY <1>0, <2>1, <2>2, <2>5 DEF TrustInv, Trusts, EnsurePlaces, WritePlaces
<1>2. ASSUME StartAgent PROVE TrustInv'
  <2>1. /\ caOp.at = "agent" /\ caOp'.at = (IF caOp.ensuring THEN "observe" ELSE "finish")
    BY <1>0, <1>2 DEF StartAgent, OpGoes, IsOp
  <2>2. /\ caBox'.egressd = caBox.egressd
        /\ caBox'.agent = caFiles.cert.gen \/ (caBox'.agent = caBox.agent /\ ~caOp.recreate /\ caBox.agent # NoCA)
    BY <1>0, <1>2 DEF StartAgent, IsBox
  <2>3. caKept' = (~caOp.recreate /\ (caKept \/ caBox.agent \notin {NoCA, caFiles.cert.gen}))
    BY <1>2 DEF StartAgent
  <2>4. Trusts'
    BY <1>0, <2>1, <2>2, <2>3 DEF TrustInv, Trusts, EgressdFollows
  <2>5. CASE caRun.state = "preparing"
    BY <1>0, <2>1, <2>4, <2>5 DEF TrustInv
  <2>6. CASE caRun.state = "running"
    <3>1. ~caOp.ensuring /\ caOp'.at = "finish"
      BY <2>1, <2>6 DEF TrustInv
    <3>2. caRoll.phase # "stopped"
      BY <2>1, <2>6 DEF TrustInv
    <3> QED BY <1>0, <2>4, <3>1, <3>2 DEF TrustInv, EnsurePlaces, WritePlaces
  <2> QED BY <1>0, <2>5, <2>6
<1> QED BY <1>1, <1>2

(* Inspection, rotation, and what may happen at any time.                         *)
LEMMA RotationTrust ==
  ASSUME VolumeInv, TrustInv,
         Inspect \/ RotationStops \/ RotationRuns \/ RotationRecorded \/ RotationRecreates \/ RotationFinishes
  PROVE  TrustInv'
<1>0. /\ IsOp(caOp) /\ IsBox(caBox) /\ IsRoll(caRoll) /\ CATypeOK /\ caRun.state \in {"preparing", "running"}
  BY DEF VolumeInv, CATypeOK, IsRun
<1>1. ASSUME Inspect PROVE TrustInv'
  <2>1. /\ UNCHANGED <<caFiles, caDue, caRun, caBox, caKept>>
        /\ \/ caOp'.at = "rotate" /\ caOp'.running = (caBox.agent # NoCA)
           \/ caOp'.at = "ready" /\ caOp.at = "observe"
           \/ caOp'.at = "idle"
        /\ caRoll'.phase \in {caRoll.phase, "none", "planned"}
        /\ caOp'.at = "ready" => caRoll'.phase = "none"
    BY <1>1, InspectDoes
  <2>2. Trusts' = Trusts
    BY <2>1 DEF Trusts, EgressdFollows
  <2> QED BY <2>1, <2>2 DEF TrustInv, EnsurePlaces, WritePlaces
<1>2. ASSUME RotationStops PROVE TrustInv'
  <2>1. /\ caOp.at = "rotate" /\ caRoll.phase = "planned" /\ caFiles' = caFiles /\ caRun' = caRun /\ caKept' = caKept
    BY <1>2 DEF RotationStops
  <2>2. CASE ~caOp.running
    <3>1. caRoll' = [caRoll EXCEPT !.phase = "stopped"] /\ caBox' = caBox /\ caOp' = caOp
      BY <1>2, <2>2 DEF RotationStops
    <3> QED BY <1>0, <2>1, <2>2, <3>1 DEF TrustInv, Trusts, EgressdFollows, EnsurePlaces, WritePlaces
  <2>3. CASE caOp.running
    <3>0. /\ caRoll' = caRoll
          /\ caBox' = [caBox EXCEPT !.agent = NoCA, !.egressd = NoCA, !.up = FALSE] \/ caBox' = [caBox EXCEPT !.agent = NoCA]
          /\ caOp' = [caOp EXCEPT !.running = FALSE] \/ caOp' = OpIdle
      BY <1>2, <2>3 DEF RotationStops
    <3>1. caBox'.agent = NoCA
      BY <1>0, <3>0 DEF IsBox
    <3>2. caOp'.at \in {"rotate", "idle"}
      BY <1>0, <2>1, <3>0 DEF IsOp, OpIdle
    <3> QED BY <2>1, <3>0, <3>1, <3>2 DEF TrustInv, Trusts, EnsurePlaces, WritePlaces
  <2> QED BY <2>2, <2>3
<1>3. ASSUME RotationRuns PROVE TrustInv'
  <2>1. /\ UNCHANGED <<caFiles, caRoll, caRun, caBox, caKept>> /\ caRoll.phase = "stopped"
        /\ caOp'.at = "init" /\ caOp'.back = "rotated"
    BY <1>0, <1>3, OpMoves DEF RotationRuns, Places
  <2> QED BY <2>1 DEF TrustInv, Trusts, EgressdFollows, EnsurePlaces, WritePlaces
<1>4. ASSUME RotationRecorded PROVE TrustInv'
  <2>1. /\ UNCHANGED <<caFiles, caRun, caBox, caKept>> /\ caOp.at = "rotated" /\ caOp'.at = "rotate" /\ caRoll'.phase = "rotated"
    BY <1>0, <1>4 DEF RotationRecorded, OpGoes, IsOp, IsRoll
  <2> QED BY <2>1 DEF TrustInv, Trusts, EgressdFollows, EnsurePlaces, WritePlaces
<1>5. ASSUME RotationRecreates PROVE TrustInv'
  <2>1. UNCHANGED <<caFiles, caRoll, caRun, caBox, caKept>> /\ caOp.at = "rotate" /\ caRoll.phase = "rotated"
    BY <1>5 DEF RotationRecreates
  <2>2. CASE caOp.running
    <3>1. caOp'.at = "finish"
      BY <1>0, <1>5, <2>2 DEF RotationRecreates, OpGoes, IsOp
    <3> QED BY <2>1, <3>1 DEF TrustInv, Trusts, EgressdFollows, EnsurePlaces, WritePlaces
  <2>3. CASE ~caOp.running
    <3>1. caOp'.at = "init" /\ caOp'.back = "egressd" /\ caOp'.recreate /\ ~caOp'.ensuring
      BY <1>0, <1>5, <2>3, OpMoves DEF RotationRecreates
    <3> QED BY <2>1, <2>3, <3>1 DEF TrustInv, Trusts, EgressdFollows, EnsurePlaces, WritePlaces
  <2> QED BY <2>2, <2>3
<1>6. ASSUME RotationFinishes PROVE TrustInv'
  <2>1. UNCHANGED <<caFiles, caRun, caBox, caKept>> /\ caOp'.at = "idle" /\ caRoll'.phase = "none"
    BY <1>6 DEF RotationFinishes, OpIdle
  <2> QED BY <2>1 DEF TrustInv, Trusts, EgressdFollows, EnsurePlaces, WritePlaces
<1> QED BY <1>1, <1>2, <1>3, <1>4, <1>5, <1>6

LEMMA TrustStep ==
  ASSUME VolumeInv, TrustInv, LocalCANext
  PROVE  TrustInv'
<1>0. /\ IsOp(caOp) /\ IsBox(caBox) /\ IsRun(caRun) /\ CATypeOK /\ caRun.state \in {"preparing", "running"}
      /\ FoundCA(Desired) \in {"ok", "error", "absent", "renew"}
  BY DesiredTyped, FoundTells DEF VolumeInv, CATypeOK, IsRun
<1>1. ASSUME EnsureStarts \/ StopRuntime \/ SeedConfig \/ ProbeDesired \/ VerifyPrevious \/ SeedMarker \/ ForgetRollout
      PROVE  TrustInv'
  <2>1. caRun' = caRun
    BY <1>1 DEF EnsureStarts, StopRuntime, SeedConfig, ProbeDesired, VerifyPrevious, SeedMarker, ForgetRollout
  <2>2. caRun.state = "preparing"
    BY <1>1 DEF TrustInv, EnsurePlaces, EnsureStarts, StopRuntime, SeedConfig, ProbeDesired, VerifyPrevious, SeedMarker,
         ForgetRollout
  <2>3. ASSUME ProbeDesired PROVE OpGoes("verify") \/ RunCAInit("raise") \/ RunCAInit("verify") \/ ComposeUpGoes(TRUE, TRUE)
    BY <1>0, <2>3 DEF ProbeDesired
  <2>4. \/ \E at \in {"stop", "seed", "probe", "verify", "mark"} : OpGoes(at)
        \/ \E back \in {"raise", "verify", "forget"} : RunCAInit(back)
        \/ \E recreate, ensuring \in BOOLEAN : ComposeUpGoes(recreate, ensuring)
        \/ caOp' = OpIdle
    BY <1>1, <2>3 DEF EnsureStarts, StopRuntime, SeedConfig, VerifyPrevious, SeedMarker, ForgetRollout, Rollout
  <2>5. caOp'.at \in {"stop", "seed", "probe", "verify", "mark", "init", "idle"}
    BY <1>0, <2>4, OpMoves DEF Places, EnsurePlaces, OpIdle
  <2> QED BY <2>1, <2>2, <2>5, PreparingTrust
<1>2. ASSUME Commit PROVE TrustInv'
  <2>1. UNCHANGED <<caFiles, caBox, caKept, caRoll>> /\ caOp'.at = "idle" /\ caOp.at = "ready"
    BY <1>2 DEF Commit, OpIdle
  <2>2. Trusts'
    BY <2>1 DEF TrustInv, Trusts, EgressdFollows
  <2> QED BY <2>1, <2>2 DEF TrustInv, EnsurePlaces, WritePlaces
<1>3. ASSUME CallFails PROVE TrustInv'
  <2>1. UNCHANGED <<caFiles, caKept, caRoll, caRun>> /\ caOp'.at = "idle" /\ (caBox' = caBox \/ caBox'.agent = NoCA)
    BY <1>0, <1>3 DEF CallFails, OpIdle, IsBox
  <2> QED BY <2>1 DEF TrustInv, Trusts, EgressdFollows, EnsurePlaces, WritePlaces
<1>4. ASSUME NEW names \in CANames, ControllerRestarts(names) PROVE TrustInv'
  <2>1. caRun'.state = "preparing" /\ caOp'.at = "idle"
    BY <1>0, <1>4 DEF ControllerRestarts, OpIdle, IsRun
  <2> QED BY <2>1, PreparingTrust
<1>5. ASSUME RenewalDue PROVE TrustInv'
  BY <1>5, SameTrust DEF RenewalDue
<1>6. ASSUME EgressdRestarts PROVE TrustInv'
  <2>1. /\ UNCHANGED <<caFiles, caKept, caRoll, caRun, caOp>> /\ caBox'.agent = caBox.agent
        /\ caBox'.egressd \in {NoCA, caFiles.cert.gen}
    BY <1>0, <1>6 DEF EgressdRestarts, Serving, IsBox
  <2>2. EgressdFollows' /\ (Trusts => Trusts')
    BY <2>1 DEF Trusts, EgressdFollows
  <2> QED BY <2>1, <2>2 DEF TrustInv
<1> QED BY <1>1, <1>2, <1>3, <1>4, <1>5, <1>6, WritingTrust, StartsTrust, RotationTrust DEF LocalCANext

(* Renewals of the pair, replacements for other names, failed calls and crashes never leave a running   *)
(* workstation whose agent trusts another pair than its egressd serves, egressd restarting at any       *)
(* moment: the runtime is stopped before the volume changes, and both are recreated after it.  The one   *)
(* exception is caKept: `up --no-recreate` after a controller restart.                                   *)
THEOREM TrustIsNotSplit == LocalCASpec => []OnlyRecoverySplitsTrust
<1>1. LocalCAInit => TrustInv
  BY DEF LocalCAInit, TrustInv, OpIdle, EnsurePlaces
<1>2. VolumeInv /\ TrustInv /\ [LocalCANext]_caVars => TrustInv'
  <2> SUFFICES ASSUME TrustInv, UNCHANGED caVars PROVE TrustInv'
    BY TrustStep
  <2> QED BY SameTrust DEF caVars
<1>3. TrustInv => OnlyRecoverySplitsTrust
  BY DEF TrustInv, Trusts, EgressdFollows, OnlyRecoverySplitsTrust
<1> QED BY <1>1, <1>2, <1>3, VolumeInvariant, PTL DEF LocalCASpec
=============================================================================
