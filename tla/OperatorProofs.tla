--------------------------- MODULE OperatorProofs ---------------------------
(***************************************************************************)
(* What the operator runs on the machine.                                  *)
(*                                                                         *)
(* A restore drill that says ok has proved what it claims, for every list  *)
(* of spaces and whatever the restore lost: the invariant says what each   *)
(* step of the drill has established when it hands over to the next.       *)
(*                                                                         *)
(* A stack comes up whole, for any number of builds, launches and deaths:  *)
(* each step of a verb stands on those before it, whichever verb took      *)
(* them, and a migration begins once the schema it leaves is dumped.       *)
(*                                                                         *)
(* A bulk import can be run again after any break, for every export and    *)
(* every likeness of facts: what the batches before it read is held or     *)
(* queued, and what an insert added is what its line asked for.            *)
(*                                                                         *)
(* A space arrives whole and once, however often its import was killed:    *)
(* each pass accounts for the nodes it has met, and what the edge pass     *)
(* placed stays placed while the statuses are restored.                    *)
(*                                                                         *)
(* A space keeps a sound pack, and a file is applied whole or not at all:  *)
(* an upgrade may commit after any statement of another session.           *)
(***************************************************************************)
EXTENDS RestoreDrill, Stack, BulkImport, Transfer, Packs, PackFile, TLAPS, SequenceTheorems, FiniteSetTheorems

-----------------------------------------------------------------------------
(* The restore drill.                                                      *)

\* What the steps before this one have found, and of the spaces passed by.
Passed(s) ==
  \/ restored.spaces[s] \in {"absent", "intact"} \/ s \in skipped
  \/ restored.spaces[s] = "unconfigured" /\ named

Established ==
  /\ drill \in {"counts", "probes", "sentinels"} => restored.schema
  /\ drill \in {"probes", "sentinels"} => Present # {}
  /\ drill \in {"restore", "schema", "counts", "probes"} => checked = 0 /\ ~usedExplicit /\ skipped = {}
  /\ drill = "sentinels" =>
       /\ restored.spaceCheck /\ (restored.registry => restored.nodeChecks)
       /\ \A i \in 1..checked : Passed(DrillSpaces[i])
       /\ \A s \in skipped : restored.spaces[s] = "unconfigured" /\ ~named
       /\ usedExplicit => restored.canary

\* A verdict is there only once the drill is over or about to drop its database.
VerdictLast == drill \notin {"none", "drop"} => verdict = "none"

\* The type invariant but for its Booleans.
DrillPlaced ==
  /\ drill \in {"none", "restore", "schema", "counts", "probes", "sentinels", "drop"}
  /\ verdict \in {"none", "ok", "failed"}
  /\ restored \in ScratchStates /\ checked \in 0..Len(DrillSpaces)
  /\ drills \in 0..MaxDrills /\ drillKills \in 0..MaxDrillKills /\ scratch \in Nat

DrillInv == DrillTypeOK /\ Established /\ VerdictLast /\ DrillHonest

\* The positions of the list are those a count of its spaces can reach.
LEMMA Positions ==
  /\ DOMAIN DrillSpaces = 1..Len(DrillSpaces) /\ Len(DrillSpaces) \in Nat
  /\ MaxDrills \in Nat /\ MaxDrillKills \in Nat
BY DrillBounds

LEMMA NothingTyped ==
  NothingRestored \in ScratchStates
<1>1. [s \in SpaceIds |-> "absent"] \in [SpaceIds -> SpaceRestored]
  BY DEF SpaceRestored
<1> QED BY <1>1 DEF NothingRestored, ScratchStates

LEMMA CheckedInList == DrillInv => checked \in 0..Len(DrillSpaces)
BY Positions DEF DrillInv, DrillTypeOK

LEMMA DrillInitInv == DrillInit => DrillInv
<1> SUFFICES ASSUME DrillInit PROVE DrillInv OBVIOUS
<1> USE Positions DEF DrillInit
<1>1. usedExplicit \in BOOLEAN /\ skipped \subseteq SpaceIds
  OBVIOUS
<1>2. DrillPlaced
  BY NothingTyped DEF DrillPlaced
<1>3. DrillTypeOK
  BY <1>1, <1>2 DEF DrillTypeOK, DrillPlaced
<1>4. Established /\ VerdictLast
  BY DEF Established, VerdictLast
<1>5. DrillHonest
  BY DEF DrillHonest
<1> QED BY <1>3, <1>4, <1>5 DEF DrillInv

LEMMA DrillStepTyped == DrillInv /\ [DrillNext]_drillVars => DrillTypeOK'
<1> SUFFICES ASSUME DrillInv, [DrillNext]_drillVars PROVE DrillTypeOK' OBVIOUS
<1>1. usedExplicit \in BOOLEAN /\ skipped \subseteq SpaceIds /\ DrillPlaced
  BY DEF DrillInv, DrillTypeOK, DrillPlaced
<1>2. usedExplicit' \in BOOLEAN /\ skipped' \subseteq SpaceIds
  <2>1. CASE ChecksSpace
    <3>1. DrillSpaces[checked + 1] \in SpaceIds
      BY <1>1, <2>1, Positions DEF ChecksSpace, SpacesDue, DrillPlaced, SpaceIds
    <3>2. /\ skipped' = skipped \/ skipped' = skipped \cup {DrillSpaces[checked + 1]}
          /\ usedExplicit' = (usedExplicit \/ (restored.spaces[DrillSpaces[checked + 1]] = "unconfigured" /\ named))
      BY <2>1 DEF ChecksSpace
    <3>3. usedExplicit' \in BOOLEAN
      BY <3>2
    <3> QED BY <1>1, <3>1, <3>2, <3>3
  <2>2. CASE ~ChecksSpace
    BY <1>1, <2>2 DEF DrillNext, drillVars, DrillBegins, Restores, ChecksSchema, CountsRows, Probes,
       ChecksNamed, Drops, DrillKilled
  <2> QED BY <2>1, <2>2
<1>3. DrillPlaced'
  <2> USE <1>1, Positions DEF DrillPlaced
  <2>1. CASE DrillBegins
    BY <2>1, NothingTyped DEF DrillBegins
  <2>2. CASE Restores \/ ChecksSchema \/ CountsRows \/ Probes
    BY <2>2 DEF Restores, ChecksSchema, CountsRows, Probes, Passes, Fails
  <2>3. CASE ChecksSpace
    BY <2>3 DEF ChecksSpace, SpacesDue, Passes, Fails
  <2>4. CASE ChecksNamed \/ Drops
    BY <2>4 DEF DrillInv, ChecksNamed, Drops, Fails, DrillHonest
  <2>5. CASE DrillKilled
    BY <2>5 DEF DrillKilled
  <2>6. CASE UNCHANGED drillVars
    BY <2>6 DEF drillVars
  <2> QED BY <2>1, <2>2, <2>3, <2>4, <2>5, <2>6 DEF DrillNext
<1> QED BY <1>2, <1>3 DEF DrillTypeOK, DrillPlaced

\* The steps that work on the database, and the one that drops it.
LEMMA DrillStepEstablished == DrillInv /\ [DrillNext]_drillVars => (Established /\ VerdictLast)'
<1> SUFFICES ASSUME DrillInv, [DrillNext]_drillVars PROVE (Established /\ VerdictLast)' OBVIOUS
<1> USE Positions DEF DrillInv, Established, VerdictLast, Passed
<1>1. CASE DrillBegins
  BY <1>1 DEF DrillBegins
<1>2. CASE Restores
  BY <1>2 DEF Restores, Passes, Fails
<1>3. CASE ChecksSchema \/ CountsRows
  BY <1>3 DEF ChecksSchema, CountsRows, Passes, Fails, Present
<1>4. CASE Probes
  \* No space is passed yet: whoever reaches the sentinels has checked none.
  BY <1>4 DEF Probes, Passes, Fails, Present
<1>5. CASE ChecksSpace
  <2>0. PICK id : id = DrillSpaces[checked + 1]
    OBVIOUS
  <2> DEFINE sp == restored.spaces[id]
  <2>1. /\ drill = "sentinels" /\ checked \in Nat /\ checked' = checked + 1
        /\ restored' = restored /\ named' = named /\ drill' \in {"drop", "sentinels"}
        /\ skipped' = IF sp = "unconfigured" /\ ~named THEN skipped \cup {id} ELSE skipped
    BY <1>5, <2>0, CheckedInList, Positions DEF ChecksSpace, SpacesDue, Passes, Fails
  <2>2. CASE drill' = "drop"
    BY <2>1, <2>2
  <2>3. CASE drill' = "sentinels"
    <3>1. /\ sp \notin {"gone", "altered"} /\ verdict' = verdict
          /\ usedExplicit' => usedExplicit \/ restored.canary
      BY <1>5, <2>0, <2>3 DEF ChecksSpace, Passes, Fails
    <3>2. \A i \in 1..checked' : i \in 1..checked \/ i = checked + 1
      BY <2>1
    <3>3. sp \in SpaceRestored
      <4>1. id \in SpaceIds
        BY <1>5, <2>0, <2>1, Positions DEF ChecksSpace, SpacesDue, SpaceIds
      <4> QED BY <4>1 DEF DrillTypeOK, ScratchStates
    <3>4. Passed(id)'
      BY <2>1, <3>1, <3>3 DEF SpaceRestored
    <3>5. \A i \in 1..checked : Passed(DrillSpaces[i])'
      BY <2>1
    <3>6. \A i \in 1..checked' : Passed(DrillSpaces[i])'
      <4> SUFFICES ASSUME NEW i \in 1..checked' PROVE Passed(DrillSpaces[i])'
        OBVIOUS
      <4>1. CASE i \in 1..checked
        BY <3>5, <4>1
      <4>2. CASE i = checked + 1
        BY <2>0, <3>4, <4>2
      <4> QED BY <3>2, <4>1, <4>2
    <3>7. \A s \in skipped' : restored'.spaces[s] = "unconfigured" /\ ~named'
      BY <2>1
    <3>8. /\ restored'.spaceCheck /\ (restored'.registry => restored'.nodeChecks)
          /\ restored'.schema /\ Present' # {} /\ (usedExplicit' => restored'.canary)
          /\ verdict' = "none"
      BY <2>1, <3>1 DEF Present
    <3> HIDE DEF Passed
    <3> QED BY <2>1, <2>3, <3>6, <3>7, <3>8
  <2> QED BY <2>1, <2>2, <2>3
<1>6. CASE ChecksNamed \/ Drops
  BY <1>6 DEF ChecksNamed, Drops, Fails
<1>7. CASE DrillKilled
  BY <1>7 DEF DrillKilled
<1>8. CASE UNCHANGED drillVars
  BY <1>8 DEF drillVars, Present
<1> QED BY <1>1, <1>2, <1>3, <1>4, <1>5, <1>6, <1>7, <1>8 DEF DrillNext

LEMMA DrillStepHonest == DrillInv /\ [DrillNext]_drillVars => DrillHonest'
<1> SUFFICES ASSUME DrillInv, [DrillNext]_drillVars PROVE DrillHonest' OBVIOUS
<1> USE DEF DrillInv, VerdictLast, DrillHonest, DrillTypeOK
<1>1. CASE DrillBegins \/ Restores
  BY <1>1 DEF DrillBegins, Restores, Passes, Fails
<1>2. CASE ChecksSchema \/ CountsRows \/ Probes \/ ChecksSpace
  BY <1>2 DEF ChecksSchema, CountsRows, Probes, ChecksSpace, Passes, Fails
<1>3. CASE ChecksNamed
  \* Every position was passed, so every space was.
  <2>1. \A s \in SpaceIds : \E i \in 1..Len(DrillSpaces) : s = DrillSpaces[i]
    BY Positions DEF SpaceIds
  <2>2. checked = Len(DrillSpaces)
    <3>1. ~(checked < Len(DrillSpaces))
      BY <1>3 DEF ChecksNamed, SpacesDue
    <3> HIDE DEF DrillTypeOK, DrillHonest
    <3> QED BY <3>1, CheckedInList, Positions
  <2>3. \A s \in Present \ skipped :
          restored.spaces[s] = "intact" \/ (restored.spaces[s] = "unconfigured" /\ named)
    <3> SUFFICES ASSUME NEW s \in Present \ skipped
                 PROVE  restored.spaces[s] = "intact" \/ (restored.spaces[s] = "unconfigured" /\ named)
      OBVIOUS
    <3>1. s \in SpaceIds /\ restored.spaces[s] # "absent"
      BY DEF Present
    <3>2. PICK i \in 1..checked : s = DrillSpaces[i]
      BY <2>1, <2>2, <3>1
    <3>3. Passed(s)
      BY <1>3, <3>2 DEF ChecksNamed, Established
    <3> QED BY <3>1, <3>3 DEF Passed
  <2>4. named /\ verdict' = "ok" => restored.canary
    BY <1>3 DEF ChecksNamed, Fails, Established
  <2>5. /\ restored' = restored /\ named' = named /\ scratch' = scratch /\ skipped' = skipped
        /\ drillKills' = drillKills /\ drill = "sentinels" /\ drill' = "drop"
    BY <1>3 DEF ChecksNamed, Fails
  <2>6. /\ restored.schema /\ Present # {}
        /\ restored.spaceCheck /\ (restored.registry => restored.nodeChecks)
        /\ \A s \in skipped : restored.spaces[s] = "unconfigured" /\ ~named
    BY <2>5 DEF Established
  <2> QED BY <2>3, <2>4, <2>5, <2>6 DEF Present
<1>4. CASE Drops \/ DrillKilled
  BY <1>4 DEF Drops, DrillKilled, Present
<1>5. CASE UNCHANGED drillVars
  BY <1>5 DEF drillVars, Present
<1> QED BY <1>1, <1>2, <1>3, <1>4, <1>5 DEF DrillNext

\* A drill that says ok has found what DrillHonest lists, and only killed drills
\* leave a scratch database behind (verify_restore.run).
THEOREM OkIsEarned == DrillSpec => []DrillHonest
<1>1. DrillInit => DrillInv
  BY DrillInitInv
<1>2. DrillInv /\ [DrillNext]_drillVars => DrillInv'
  BY DrillStepTyped, DrillStepEstablished, DrillStepHonest DEF DrillInv
<1>3. DrillInv => DrillHonest
  BY DEF DrillInv
<1> QED BY <1>1, <1>2, <1>3, PTL DEF DrillSpec

-----------------------------------------------------------------------------
(* The Windows stack.                                                      *)

VerbSteps == {"none", "config", "cluster", "initdb", "tune", "start", "database", "dump",
              "migrate", "role", "space", "pack"}
Disks == [config : {"none", "torn", "whole"}, cluster : {"none", "torn", "whole"},
          tuned : BOOLEAN, database : BOOLEAN, ledger : Nat, role : BOOLEAN,
          space : BOOLEAN, pack : BOOLEAN]

\* What the fields hold, where the type invariant does not say it.
Shaped ==
  /\ disk \in Disks
  /\ verb \in [name : {"none", "bootstrap", "upgrade"}, at : VerbSteps]
  /\ build \in Nat

\* A step of a verb stands on those before it, whoever took them.
StoodOn ==
  /\ verb.at \in {"database", "dump", "migrate", "role", "space", "pack"}
       => disk.cluster = "whole"
  /\ verb.at \in {"migrate", "role", "space", "pack"} => disk.database
  /\ verb.at \in {"role", "space", "pack"} => disk.ledger = build
  /\ verb.at \in {"space", "pack"} => disk.role
  /\ At("pack") => disk.space
  /\ disk.space => disk.pack \/ cut \/ At("pack")

\* The ledger never passes the build, no server has served a later ledger than
\* the database's, and migrations begin once the one they leave is dumped.
Dumped ==
  /\ disk.ledger <= build /\ FirstBuild <= build
  /\ \A v \in served : v <= disk.ledger
  /\ At("migrate") /\ disk.ledger < build => disk.ledger \in dumps \/ disk.ledger \notin served

StackInv == Shaped /\ StackTypeOK /\ StoodOn /\ Dumped /\ StackReady

LEMMA StackBounds ==
  /\ FirstBuild \in Nat /\ FirstBuild >= 1 /\ MaxBuild \in Nat /\ FirstBuild <= MaxBuild
  /\ MaxDeaths \in Nat /\ MaxStops \in Nat /\ Launches \subseteq Nat \ {0}
BY StackAssumption

LEMMA StackInitInv == StackInit => StackInv
<1> SUFFICES ASSUME StackInit PROVE StackInv OBVIOUS
<1> USE StackBounds DEF StackInit
<1>1. Shaped
  BY DEF Shaped, Disks, VerbSteps, NoVerb
<1>2. StackTypeOK
  BY DEF StackTypeOK
<1>3. StoodOn
  BY DEF StoodOn, At, NoVerb
<1>4. Dumped
  BY DEF Dumped, At, NoVerb
<1>5. StackReady
  BY DEF StackReady
<1> QED BY <1>1, <1>2, <1>3, <1>4, <1>5 DEF StackInv

\* What a step does to the disk: one field, or none; the cluster is made whole
\* once, and all else but the ledger only ever set.
Kept ==
  /\ disk' \in Disks
  /\ disk.cluster = "whole" => disk'.cluster = "whole"
  /\ disk.database => disk'.database
  /\ disk.role => disk'.role
  /\ disk.space => disk'.space
  /\ disk.pack => disk'.pack
  /\ disk'.space /\ ~disk.space => At("space") /\ verb'.at = "pack"
  /\ \/ disk'.ledger = disk.ledger
     \/ /\ At("migrate") /\ disk.ledger < build /\ disk'.ledger = disk.ledger + 1
        /\ UNCHANGED <<dumps, build, verb, serving, ready, served>>

LEMMA KeepsDisk == Shaped /\ [StackNext]_stackVars => Kept
<1> SUFFICES ASSUME Shaped, [StackNext]_stackVars PROVE Kept OBVIOUS
<1>1. disk \in Disks /\ (disk' = disk => Kept)
  BY DEF Shaped, Kept
<1>2. ASSUME disk' = disk PROVE Kept
  BY <1>1, <1>2
<1>3. CASE BootstrapBegins \/ ConfigWritten \/ InitdbBegins \/ InitdbDone \/ Tuned
  BY <1>3, <1>1 DEF BootstrapBegins, ConfigWritten, InitdbBegins, InitdbDone, Tuned, Makes, Kept, Disks
<1>4. CASE EnsureDatabase \/ ProvisionRole \/ ApplyPack
  BY <1>4, <1>1 DEF EnsureDatabase, ProvisionRole, ApplyPack, Makes, Kept, Disks
<1>5. CASE CreateSpace
  <2>1. verb \in [name : {"none", "bootstrap", "upgrade"}, at : VerbSteps]
    BY DEF Shaped
  <2>2. verb'.at = "pack"
    BY <1>5, <2>1 DEF CreateSpace, GoTo
  <2> QED BY <1>5, <1>1, <2>2 DEF CreateSpace, Makes, Kept, Disks
<1>6. CASE ApplyMigration
  BY <1>6, <1>1 DEF ApplyMigration, Makes, Elsewhere, Kept, Disks
<1>7. CASE InitdbSkipped \/ SchemaUpgradeBegins \/ PostgresStarts \/ PreDump \/ Migrated
           \/ SpaceThere \/ VerbFails \/ VerbDies \/ PowerCut \/ LayDownBuild
  BY <1>7, <1>2 DEF InitdbSkipped, SchemaUpgradeBegins, PostgresStarts, PreDump, Migrated,
     SpaceThere, VerbFails, VerbDies, PowerCut, LayDownBuild
<1>8. CASE StopServer \/ StopPostgres
  BY <1>8, <1>2 DEF StopServer, StopPostgres
<1>9. CASE \E p \in Launches : RunBegins(p) \/ RunRecords(p) \/ RunServes(p) \/ RunLeaves(p)
  BY <1>9, <1>2 DEF RunBegins, RunRecords, RunServes, RunLeaves, ServerSame
<1>10. CASE UNCHANGED stackVars
  BY <1>10, <1>2 DEF stackVars
<1> QED BY <1>3, <1>4, <1>5, <1>6, <1>7, <1>8, <1>9, <1>10 DEF StackNext

LEMMA StackStepShaped == Shaped /\ [StackNext]_stackVars => Shaped'
<1> SUFFICES ASSUME Shaped, [StackNext]_stackVars PROVE Shaped' OBVIOUS
<1>1. disk' \in Disks
  BY KeepsDisk DEF Kept
<1>2. verb \in [name : {"none", "bootstrap", "upgrade"}, at : VerbSteps] /\ build \in Nat
  BY DEF Shaped
<1>3. ASSUME verb' = verb /\ build' = build PROVE Shaped'
  BY <1>1, <1>2, <1>3 DEF Shaped
<1>4. \A step \in VerbSteps : GoTo(step) /\ build' = build => Shaped'
  BY <1>1, <1>2 DEF GoTo, Shaped
<1>5. verb' = NoVerb /\ build' \in Nat => Shaped'
  BY <1>1 DEF Shaped, NoVerb, VerbSteps
<1>6. CASE BootstrapBegins \/ SchemaUpgradeBegins
  BY <1>6, <1>1, <1>2 DEF BootstrapBegins, SchemaUpgradeBegins, Elsewhere, Shaped, VerbSteps
<1>7. CASE ConfigWritten \/ InitdbBegins \/ InitdbSkipped \/ InitdbDone \/ Tuned
           \/ EnsureDatabase \/ ProvisionRole \/ CreateSpace
  BY <1>7, <1>4 DEF ConfigWritten, InitdbBegins, InitdbSkipped, InitdbDone, Tuned,
     EnsureDatabase, ProvisionRole, CreateSpace, Elsewhere, VerbSteps
<1>8. CASE PostgresStarts \/ PreDump \/ Migrated
  BY <1>8, <1>2, <1>4, <1>5 DEF PostgresStarts, PreDump, Migrated, Elsewhere, VerbSteps
<1>9. CASE SpaceThere \/ ApplyPack \/ VerbFails \/ VerbDies \/ PowerCut \/ LayDownBuild
  <2>1. CASE LayDownBuild
    BY <2>1, <1>1, <1>2 DEF LayDownBuild, Shaped
  <2> QED BY <2>1, <1>9, <1>2, <1>5 DEF SpaceThere, ApplyPack, Complete, VerbFails, VerbDies, PowerCut
<1>10. CASE ApplyMigration \/ StopServer \/ StopPostgres \/ UNCHANGED stackVars
  BY <1>10, <1>3 DEF ApplyMigration, Elsewhere, StopServer, StopPostgres, stackVars
<1>11. CASE \E p \in Launches : RunBegins(p) \/ RunRecords(p) \/ RunServes(p) \/ RunLeaves(p)
  BY <1>11, <1>3 DEF RunBegins, RunRecords, RunServes, RunLeaves, ServerSame
<1> QED BY <1>6, <1>7, <1>8, <1>9, <1>10, <1>11 DEF StackNext

\* What happens around the verb's own progress, step by step.
Around ==
  /\ build' = build \/ LayDownBuild
  /\ dumps \subseteq dumps' /\ dumps' \subseteq dumps \cup {disk.ledger}
  /\ served' \subseteq served \cup {disk.ledger}
  /\ cut' = cut \/ cut' = (cut \/ At("pack"))
  /\ ready' = ready \/ SpaceThere \/ ApplyPack
  /\ serving' \in [Launches -> {"none", "starting", "recorded", "serving"}]
  /\ \A p \in Launches : serving'[p] = "serving" => serving[p] = "serving" \/ disk.ledger = build
  /\ pidFile' \in Launches \cup {0}
  /\ deaths' = deaths \/ (deaths < MaxDeaths /\ deaths' = deaths + 1)
  /\ stops' = stops \/ (stops < MaxStops /\ stops' = stops + 1)

LEMMA StackAround == StackTypeOK /\ [StackNext]_stackVars => Around
<1> SUFFICES ASSUME StackTypeOK, [StackNext]_stackVars PROVE Around
  OBVIOUS
<1> USE DEF StackNext, stackVars, Elsewhere, ServerSame, Complete, BootstrapBegins,
      ConfigWritten, InitdbBegins, InitdbSkipped, InitdbDone, Tuned, SchemaUpgradeBegins,
      PostgresStarts, EnsureDatabase, PreDump, ApplyMigration, Migrated, ProvisionRole,
      CreateSpace, SpaceThere, ApplyPack, VerbFails, VerbDies, PowerCut, LayDownBuild,
      StopServer, StopPostgres, RunBegins, RunRecords, RunServes, RunLeaves, Boots
<1>1. build' = build \/ LayDownBuild
  OBVIOUS
<1>2. /\ dumps \subseteq dumps' /\ dumps' \subseteq dumps \cup {disk.ledger}
      /\ served' \subseteq served \cup {disk.ledger}
  OBVIOUS
<1>3. cut' = cut \/ cut' = (cut \/ At("pack"))
  OBVIOUS
<1>4. ready' = ready \/ SpaceThere \/ ApplyPack
  OBVIOUS
<1>5. serving' \in [Launches -> {"none", "starting", "recorded", "serving"}]
  BY DEF StackTypeOK
<1>6. \A p \in Launches : serving'[p] = "serving" => serving[p] = "serving" \/ disk.ledger = build
  BY DEF StackTypeOK
<1>7. pidFile' \in Launches \cup {0}
  BY DEF StackTypeOK
<1>8. deaths' = deaths \/ (deaths < MaxDeaths /\ deaths' = deaths + 1)
  OBVIOUS
<1>9. stops' = stops \/ (stops < MaxStops /\ stops' = stops + 1)
  OBVIOUS
<1> QED BY <1>1, <1>2, <1>3, <1>4, <1>5, <1>6, <1>7, <1>8, <1>9, Zenon DEF Around

LEMMA StackStepTyped ==
  Shaped /\ StackTypeOK /\ [StackNext]_stackVars => StackTypeOK'
<1> SUFFICES ASSUME Shaped, StackTypeOK, [StackNext]_stackVars PROVE StackTypeOK'
  OBVIOUS
<1> USE StackBounds
<1>1. disk.ledger \in Nat /\ disk'.ledger \in Nat /\ build \in Nat
  BY KeepsDisk DEF Shaped, Kept, Disks
<1>2. disk'.ledger = disk.ledger \/ (disk.ledger < build /\ disk'.ledger = disk.ledger + 1 /\ build' = build)
  BY KeepsDisk DEF Kept
<1>3. /\ build' = build \/ (build < MaxBuild /\ build' = build + 1)
      /\ dumps' \subseteq dumps \cup {disk.ledger} /\ served' \subseteq served \cup {disk.ledger}
      /\ serving' \in [Launches -> {"none", "starting", "recorded", "serving"}]
      /\ pidFile' \in Launches \cup {0}
      /\ deaths' = deaths \/ (deaths < MaxDeaths /\ deaths' = deaths + 1)
      /\ stops' = stops \/ (stops < MaxStops /\ stops' = stops + 1)
  BY StackAround, Zenon DEF Around, LayDownBuild
<1>4. disk'.ledger \in 0..build' /\ build' \in FirstBuild..MaxBuild
  BY <1>1, <1>2, <1>3 DEF StackTypeOK
<1>5. disk.ledger \in 0..MaxBuild
  BY DEF StackTypeOK
<1>6. dumps' \cup served' \subseteq 0..MaxBuild
  BY <1>3, <1>5 DEF StackTypeOK
<1>7. deaths' \in 0..MaxDeaths /\ stops' \in 0..MaxStops
  BY <1>3 DEF StackTypeOK
<1> QED BY <1>3, <1>4, <1>6, <1>7 DEF StackTypeOK

LEMMA StackStepStoodOn ==
  Shaped /\ StackTypeOK /\ Dumped /\ StoodOn /\ [StackNext]_stackVars => StoodOn'
<1> SUFFICES ASSUME Shaped, StackTypeOK, Dumped, StoodOn, [StackNext]_stackVars PROVE StoodOn'
  OBVIOUS
<1>1. Kept
  BY KeepsDisk
<1>2. disk \in Disks /\ verb \in [name : {"none", "bootstrap", "upgrade"}, at : VerbSteps]
  BY DEF Shaped
\* A step that ends the verb, or takes it to one with nothing to stand on.
<1>3. ASSUME verb'.at \in VerbSteps \ {"database", "dump", "migrate", "role", "space", "pack"},
             disk.space => disk'.pack \/ cut'
      PROVE  StoodOn'
  BY <1>1, <1>3 DEF StoodOn, Kept, At
<1>4. disk.space => disk.pack \/ cut \/ At("pack")
  BY DEF StoodOn
<1>5. CASE BootstrapBegins \/ ConfigWritten \/ InitdbBegins \/ InitdbSkipped \/ InitdbDone
           \/ Tuned \/ SchemaUpgradeBegins
  <2>1. ~At("pack") /\ cut' = cut
    BY <1>5 DEF BootstrapBegins, ConfigWritten, InitdbBegins, InitdbSkipped, InitdbDone, Tuned,
       SchemaUpgradeBegins, Elsewhere, Makes, GoTo, At, NoVerb
  <2>2. verb'.at \in VerbSteps \ {"database", "dump", "migrate", "role", "space", "pack"}
    BY <1>5, <1>2 DEF BootstrapBegins, ConfigWritten, InitdbBegins, InitdbSkipped, InitdbDone,
       Tuned, SchemaUpgradeBegins, GoTo, Makes, Elsewhere, VerbSteps
  <2>3. disk.space => disk'.pack \/ cut'
    BY <2>1, <1>1, <1>4 DEF Kept
  <2> QED BY <2>2, <2>3, <1>3
<1>6. CASE VerbFails \/ VerbDies \/ PowerCut
  <2>1. cut' = (cut \/ At("pack")) /\ disk' = disk /\ verb' = NoVerb
    BY <1>6 DEF VerbFails, VerbDies, PowerCut
  <2>2. disk.space => disk'.pack \/ cut'
    BY <2>1, <1>4, Zenon
  <2>3. verb'.at \in VerbSteps \ {"database", "dump", "migrate", "role", "space", "pack"}
    BY <2>1 DEF NoVerb, VerbSteps
  <2> QED BY <2>2, <2>3, <1>3
<1>7. CASE PostgresStarts \/ EnsureDatabase \/ PreDump
  BY <1>7, <1>1, <1>2 DEF PostgresStarts, EnsureDatabase, PreDump, StoodOn, Kept, At, GoTo,
     Elsewhere, Makes, Disks
<1>8. CASE ApplyMigration \/ Migrated
  BY <1>8, <1>1, <1>2 DEF ApplyMigration, Migrated, StoodOn, Kept, At, GoTo, Elsewhere, NoVerb
<1>9. CASE ProvisionRole \/ CreateSpace
  BY <1>9, <1>1, <1>2 DEF ProvisionRole, CreateSpace, StoodOn, Kept, At, GoTo, Elsewhere, Makes, Disks
<1>10. CASE SpaceThere \/ ApplyPack
  BY <1>10, <1>1, <1>2, <1>3, <1>4 DEF SpaceThere, ApplyPack, Complete, Kept, At, NoVerb, VerbSteps,
     Makes, Disks
<1>11. CASE LayDownBuild
  BY <1>11, <1>1 DEF LayDownBuild, StoodOn, At, NoVerb
<1>12. CASE StopServer \/ StopPostgres \/ UNCHANGED stackVars
  BY <1>12 DEF StopServer, StopPostgres, StoodOn, At, stackVars
<1>13. CASE \E p \in Launches : RunBegins(p) \/ RunRecords(p) \/ RunServes(p) \/ RunLeaves(p)
  BY <1>13 DEF RunBegins, RunRecords, RunServes, RunLeaves, ServerSame, StoodOn, At
<1> QED BY <1>5, <1>6, <1>7, <1>8, <1>9, <1>10, <1>11, <1>12, <1>13 DEF StackNext

LEMMA StackStepDumped ==
  Shaped /\ StackTypeOK /\ Dumped /\ [StackNext]_stackVars => Dumped'
<1> SUFFICES ASSUME Shaped, StackTypeOK, Dumped, [StackNext]_stackVars PROVE Dumped'
  OBVIOUS
<1>1. Kept
  BY KeepsDisk
<1>2. /\ disk.ledger \in Nat /\ build \in Nat /\ FirstBuild \in Nat
      /\ \A v \in served : v \in Nat
      /\ verb \in [name : {"none", "bootstrap", "upgrade"}, at : VerbSteps]
  BY StackBounds DEF Shaped, Disks, StackTypeOK
<1>3. CASE BootstrapBegins \/ ConfigWritten \/ InitdbBegins \/ InitdbSkipped \/ InitdbDone
           \/ Tuned \/ SchemaUpgradeBegins \/ EnsureDatabase \/ ProvisionRole \/ CreateSpace
  <2>1. ~At("migrate") /\ UNCHANGED <<dumps, build, served>>
    BY <1>3 DEF BootstrapBegins, ConfigWritten, InitdbBegins, InitdbSkipped, InitdbDone, Tuned,
       SchemaUpgradeBegins, EnsureDatabase, ProvisionRole, CreateSpace, Elsewhere, Makes, GoTo, At, NoVerb
  <2>2. verb'.at # "migrate"
    BY <1>3, <1>2 DEF BootstrapBegins, ConfigWritten, InitdbBegins, InitdbSkipped, InitdbDone,
       Tuned, SchemaUpgradeBegins, EnsureDatabase, ProvisionRole, CreateSpace, GoTo, Makes, Elsewhere
  <2>3. disk'.ledger = disk.ledger
    BY <2>1, <1>1 DEF Kept
  <2> QED BY <2>1, <2>2, <2>3 DEF Dumped, At
<1>4. CASE PostgresStarts \/ PreDump \/ Migrated
  BY <1>4, <1>2 DEF PostgresStarts, PreDump, Migrated, Elsewhere, Dumped, At, GoTo, NoVerb
<1>5. CASE ApplyMigration
  \* No server has served the ledger it makes.
  <2>1. /\ disk'.ledger = disk.ledger + 1 /\ disk.ledger < build
        /\ UNCHANGED <<dumps, build, verb, served>>
    BY <1>5, <1>2 DEF ApplyMigration, Makes, Elsewhere, Shaped, Disks
  <2> QED BY <2>1, <1>2 DEF Dumped
<1>6. CASE SpaceThere \/ ApplyPack \/ VerbFails \/ VerbDies \/ PowerCut
  <2>1. verb' = NoVerb /\ UNCHANGED <<dumps, build, served>>
    BY <1>6 DEF SpaceThere, ApplyPack, Complete, VerbFails, VerbDies, PowerCut
  <2>2. disk'.ledger = disk.ledger
    BY <1>6, <1>1 DEF SpaceThere, ApplyPack, VerbFails, VerbDies, PowerCut, Kept, At
  <2> QED BY <2>1, <2>2 DEF Dumped, At, NoVerb
<1>7. CASE LayDownBuild
  BY <1>7, <1>2 DEF LayDownBuild, Dumped, At, NoVerb
<1>8. CASE StopServer \/ StopPostgres \/ UNCHANGED stackVars
  BY <1>8 DEF StopServer, StopPostgres, Dumped, At, stackVars
<1>9. CASE \E p \in Launches : RunBegins(p) \/ RunRecords(p) \/ RunServes(p) \/ RunLeaves(p)
  BY <1>9, <1>2 DEF RunBegins, RunRecords, RunServes, RunLeaves, ServerSame, Boots, Dumped, At
<1> QED BY <1>3, <1>4, <1>5, <1>6, <1>7, <1>8, <1>9 DEF StackNext

LEMMA StackStepReady ==
  StackInv /\ [StackNext]_stackVars => StackReady'
<1> SUFFICES ASSUME StackInv, [StackNext]_stackVars PROVE StackReady'
  OBVIOUS
<1>1. Kept /\ Around /\ Shaped /\ StackTypeOK /\ StoodOn /\ Dumped /\ StackReady
  BY KeepsDisk, StackAround DEF StackInv
<1>2. /\ disk.ledger \in Nat /\ disk'.ledger \in Nat /\ build \in Nat /\ FirstBuild \in Nat
      /\ \A v \in served : v \in Nat
  BY <1>1, StackBounds DEF Shaped, Kept, Disks, StackTypeOK
\* What a bootstrap completes stays as it is.
<1>3. ready' => /\ disk'.cluster = "whole" /\ disk'.database /\ disk'.role /\ disk'.space
                /\ disk'.ledger >= FirstBuild
                /\ disk'.pack \/ cut'
  <2>1. cut => cut'
    BY <1>1, Zenon DEF Around
  <2>2. ready' = ready \/ SpaceThere \/ ApplyPack
    BY <1>1, Zenon DEF Around
  <2>3. CASE ready /\ ready' = ready
    BY <2>1, <2>3, <1>1, <1>2 DEF StackReady, Kept
  <2>4. CASE SpaceThere
    BY <2>4, <1>1, <1>2 DEF SpaceThere, Complete, StoodOn, Dumped, At
  <2>5. CASE ApplyPack
    <3>1. disk'.pack /\ disk'.ledger = disk.ledger
      BY <2>5, <1>1 DEF ApplyPack, Makes, Shaped, Disks
    <3> QED BY <2>5, <3>1, <1>1, <1>2 DEF ApplyPack, StoodOn, Dumped, At, Kept
  <2> QED BY <2>2, <2>3, <2>4, <2>5, Zenon
<1>4. \A p \in Launches : serving'[p] = "serving" => disk'.ledger = build'
  <2>1. CASE disk'.ledger # disk.ledger
    BY <2>1, <1>1, <1>2 DEF Kept, StackReady
  <2>2. CASE disk'.ledger = disk.ledger /\ build' = build
    <3>1. \A p \in Launches : serving'[p] = "serving" => serving[p] = "serving" \/ disk.ledger = build
      BY <1>1, Zenon DEF Around
    <3> QED BY <3>1, <2>2, <1>1 DEF StackReady
  <2>3. CASE LayDownBuild
    BY <2>3 DEF LayDownBuild
  <2>4. build' = build \/ LayDownBuild
    BY <1>1, Zenon DEF Around
  <2> QED BY <2>1, <2>2, <2>3, <2>4
<1>5. \A v \in served' : v < disk'.ledger => v \in dumps'
  <2>1. dumps \subseteq dumps' /\ served' \subseteq served \cup {disk.ledger}
    BY <1>1, Zenon DEF Around
  <2>2. CASE disk'.ledger = disk.ledger
    BY <2>1, <2>2, <1>1, <1>2 DEF StackReady
  \* The migration leaves a ledger that is dumped, or that no server served.
  <2>3. CASE disk'.ledger # disk.ledger
    BY <2>1, <2>3, <1>1, <1>2 DEF StackReady, Dumped, Kept
  <2> QED BY <2>2, <2>3
<1> QED BY <1>3, <1>4, <1>5 DEF StackReady

\* However often a bootstrap is killed and run again, and whichever build is laid
\* down in between: what a completed bootstrap left is all there, no server
\* serves a schema other than its build's, and any schema a server served under
\* is dumped before a migration leaves it (engraphy_win.cmd_bootstrap, cmd_run,
\* cmd_schema_upgrade).
THEOREM StackComesUpWhole == StackSpec => []StackReady
<1>1. StackInv /\ [StackNext]_stackVars => StackInv'
  BY StackStepShaped, StackStepTyped, StackStepStoodOn, StackStepDumped, StackStepReady DEF StackInv
<1>2. StackInv => StackReady
  BY DEF StackInv
<1> QED BY StackInitInv, <1>1, <1>2, PTL DEF StackSpec

-----------------------------------------------------------------------------
(* The bulk import.                                                        *)

\* A batch that ends before a bad line ends at or before that line's batch.
LEMMA BatchBefore ==
  ASSUME NEW size \in Nat \ {0}, NEW k \in Nat, NEW n \in Nat, k * size <= n
  PROVE  k * size <= (n \div size) * size
<1> DEFINE q == n \div size
<1>1. q \in Nat /\ n < (q + 1) * size
  OBVIOUS
<1> HIDE DEF q
<1>2. k <= q
  BY <1>1
<1> QED BY <1>1, <1>2 DEF q

-----------------------------------------------------------------------------
(* Bulk import (BulkImport).                                               *)

HeldRow == [fact : Facts, active : BOOLEAN, said : SUBSET Facts]

\* What the run under way has taken care of: a row stands for fact f, or f is queued
\* for review.
KeptOf(f) == \E i \in 1..Len(held) : Covered(f, i)

BulkShaped ==
  /\ file \in Exports /\ held \in Seq(HeldRow)
  /\ pos \in 0..Len(file) /\ batch \in Seq(Facts) /\ Len(batch) <= pos
  /\ \A i \in 1..Len(batch) : batch[i] = file[pos - Len(batch) + i]
  /\ rowsMade \in [Facts -> Nat]
  /\ importing => ~whole

\* The lines read are good, and in whole batches.
ReadInv ==
  importing => /\ \A i \in 1..pos : file[i] # BadLine
               /\ pos = Len(file) \/ \E k \in Nat : pos = k * BatchOf

Offered == InFile \cup StoredBefore

\* Another fact is within t_high of f and has words f lacks.
Wordier(f) == \E g \in Offered : Likeness[f][g] = "high" /\ ~Words[g] \subseteq Words[f]

\* While nobody else changes the store: a row a run made stays a candidate, and what
\* is said with a row, by the file or the store of before, is within t_high of it.
MadeInv ==
  ~moved => /\ \A f \in Facts : /\ rowsMade[f] > 1 => Wordier(f)
                                /\ rowsMade[f] > 0 => \E i \in Candidates : held[i].fact = f
            /\ \A i \in 1..Len(held) :
                 /\ held[i].fact \in Offered
                 /\ \A g \in held[i].said : g \in Offered /\ Likeness[held[i].fact][g] = "high"

DoneInv ==
  /\ importing /\ ~moved => \A i \in 1..(pos - Len(batch)) : file[i] \in review \/ KeptOf(file[i])
  /\ whole /\ ~moved => \A f \in InFile : f \in csv \/ KeptOf(f)

SourceInv ==
  \A f \in Facts : rowsMade[f] > 0 => \E i \in DOMAIN file : file[i] = f /\ BeforeBad(i)

BulkInv == BulkShaped /\ ReadInv /\ MadeInv /\ DoneInv /\ SourceInv

LEMMA BulkFacts ==
  ASSUME BulkShaped
  PROVE  /\ file \in Seq(Facts \cup {BadLine}) /\ Len(file) \in Nat /\ DOMAIN file = 1..Len(file)
         /\ Len(batch) \in Nat /\ DOMAIN batch = 1..Len(batch)
         /\ \A i \in 1..Len(file) : file[i] \in Facts \cup {BadLine}
         /\ \A i \in 1..Len(batch) : batch[i] \in Facts
<1>1. file \in Seq(Facts \cup {BadLine}) /\ batch \in Seq(Facts)
  BY BulkBounds DEF BulkShaped
<1>2. Len(file) \in Nat /\ DOMAIN file = 1..Len(file) /\ Len(batch) \in Nat /\ DOMAIN batch = 1..Len(batch)
  BY <1>1, LenProperties, Zenon
<1>3. \A i \in 1..Len(file) : file[i] \in Facts \cup {BadLine}
  BY <1>1, ElementOfSeq, Zenon
<1>4. \A i \in 1..Len(batch) : batch[i] \in Facts
  BY <1>1, ElementOfSeq, Zenon
<1> QED BY <1>1, <1>2, <1>3, <1>4

\* A step that leaves the store alone leaves what is known of it.
LEMMA SameStore ==
  ASSUME held' = held
  PROVE  \A f : KeptOf(f)' <=> KeptOf(f)
<1> SUFFICES ASSUME NEW f PROVE KeptOf(f)' <=> KeptOf(f)
  OBVIOUS
<1>1. \A i : Covered(f, i)' <=> Covered(f, i)
  BY DEF Covered, Corpus
<1> QED BY <1>1 DEF KeptOf

LEMMA SameMade ==
  ASSUME MadeInv, UNCHANGED <<file, held, rowsMade, moved>>
  PROVE  MadeInv'
<1>1. Offered' = Offered /\ Candidates' = Candidates
  BY DEF Offered, InFile, Candidates
<1>2. \A f : Wordier(f)' <=> Wordier(f)
  BY <1>1 DEF Wordier
<1> QED BY <1>1, <1>2 DEF MadeInv

LEMMA BulkInitInv == BulkInit => BulkInv
<1> SUFFICES ASSUME BulkInit PROVE BulkInv
  OBVIOUS
<1>1. file \in Seq(Facts \cup {BadLine})
  BY BulkBounds DEF BulkInit
<1>2. Len(file) \in Nat
  BY <1>1, LenProperties, Zenon
<1>3. batch \in Seq(Facts) /\ Len(batch) = 0
  BY EmptySeq DEF BulkInit
<1>4. /\ Len(HeldFacts) \in Nat /\ DOMAIN HeldFacts = 1..Len(HeldFacts)
      /\ \A i \in 1..Len(HeldFacts) : HeldFacts[i] \in Facts /\ HeldFacts[i] \in StoredBefore
  <2>1. HeldFacts \in Seq(Facts)
    BY BulkBounds
  <2>2. Len(HeldFacts) \in Nat /\ DOMAIN HeldFacts = 1..Len(HeldFacts)
    BY <2>1, LenProperties, Zenon
  <2>3. \A i \in 1..Len(HeldFacts) : HeldFacts[i] \in Facts
    BY <2>1, ElementOfSeq, Zenon
  <2> QED BY <2>2, <2>3 DEF StoredBefore
<1>5. /\ held \in Seq(HeldRow) /\ Len(held) = Len(HeldFacts)
      /\ \A i \in 1..Len(held) : held[i].fact \in StoredBefore /\ held[i].said = {}
  <2> DEFINE row(i) == [fact |-> HeldFacts[i], active |-> TRUE, said |-> {}]
  <2>1. held = [i \in 1..Len(HeldFacts) |-> row(i)]
    BY DEF BulkInit
  <2>2. \A i \in 1..Len(HeldFacts) : row(i) \in HeldRow /\ row(i).fact = HeldFacts[i] /\ row(i).said = {}
    BY <1>4 DEF HeldRow
  <2> HIDE DEF row
  <2>3. held \in [1..Len(HeldFacts) -> HeldRow]
    BY <2>1, <2>2
  <2>4. held \in Seq(HeldRow)
    BY <1>4, <2>3, SeqDef
  <2>5. Len(held) = Len(HeldFacts)
    BY <1>4, <2>3, <2>4, LenProperties
  <2> QED BY <1>4, <2>1, <2>2, <2>4, <2>5
<1>6. BulkShaped
  <2>1. rowsMade \in [Facts -> Nat] /\ file \in Exports /\ pos = 0 /\ ~importing
    BY DEF BulkInit
  <2> QED BY <1>2, <1>3, <1>5, <2>1 DEF BulkShaped
<1>7. MadeInv
  <2>1. \A f \in Facts : rowsMade[f] = 0
    BY DEF BulkInit
  <2> QED BY <1>5, <2>1 DEF MadeInv, Offered
<1> QED BY <1>6, <1>7 DEF BulkInv, BulkInit, ReadInv, DoneInv, SourceInv

LEMMA BulkStartInv ==
  ASSUME BulkInv, BulkStart PROVE BulkInv'
<1>1. BulkShaped /\ MadeInv /\ SourceInv
  BY DEF BulkInv
<1>2. /\ importing' = TRUE /\ pos' = 0 /\ batch' = <<>> /\ review' = {} /\ whole' = FALSE
      /\ UNCHANGED <<file, held, csv, breaks, outside, rowsMade, moved>>
  BY DEF BulkStart
<1>3. Len(file) \in Nat
  BY <1>1, BulkFacts
<1>4. batch' \in Seq(Facts) /\ Len(batch') = 0
  BY <1>2, EmptySeq
<1>5. BulkShaped'
  BY <1>1, <1>2, <1>3, <1>4 DEF BulkShaped
<1>6. ReadInv'
  <2>1. \E k \in Nat : pos' = k * BatchOf
    <3>1. 0 = 0 * BatchOf
      BY BulkBounds
    <3> QED BY <1>2, <3>1
  <2> QED BY <1>2, <2>1 DEF ReadInv
<1>7. MadeInv' /\ SourceInv'
  BY <1>1, <1>2, SameMade DEF SourceInv, BeforeBad
<1>8. DoneInv'
  BY <1>2, <1>4 DEF DoneInv
<1> QED BY <1>5, <1>6, <1>7, <1>8 DEF BulkInv

LEMMA ReadsBatchInv ==
  ASSUME BulkInv, ReadsBatch PROVE BulkInv'
<1>1. /\ BulkShaped /\ ReadInv /\ MadeInv /\ DoneInv /\ SourceInv
      /\ importing /\ batch = <<>> /\ pos < Len(file)
      /\ \A i \in DOMAIN NextLines : NextLines[i] # BadLine
      /\ batch' = NextLines /\ pos' = Upto
      /\ UNCHANGED <<file, held, csv, review, importing, imports, breaks, outside, rowsMade, whole, moved>>
  BY DEF BulkInv, ReadsBatch, Due
<1>2. /\ file \in Seq(Facts \cup {BadLine}) /\ Len(file) \in Nat
      /\ \A i \in 1..Len(file) : file[i] \in Facts \cup {BadLine}
      /\ pos \in Nat /\ BatchOf \in Nat \ {0} /\ Len(batch) = 0
  BY <1>1, BulkFacts, BulkBounds, EmptySeq DEF BulkShaped
<1>3. Upto \in Nat /\ pos < Upto /\ Upto <= Len(file)
      /\ (Upto = Len(file) \/ Upto = pos + BatchOf)
  BY <1>1, <1>2 DEF Upto
<1>4. /\ Len(NextLines) = Upto - pos
      /\ \A i \in 1..(Upto - pos) : NextLines[i] = file[pos + i]
      /\ NextLines = [i \in 1..(Upto - pos) |-> NextLines[i]]
  <2>1. /\ Len(NextLines) = Upto - pos
        /\ \A i \in 1..(Upto - pos) : NextLines[i] = file[pos + 1 + i - 1]
        /\ NextLines \in Seq(Facts \cup {BadLine})
    BY <1>2, <1>3, SubSeqProperties DEF NextLines
  <2>2. DOMAIN NextLines = 1..(Upto - pos) /\ NextLines = [i \in DOMAIN NextLines |-> NextLines[i]]
    BY <2>1, LenProperties
  <2> QED BY <1>2, <1>3, <2>1, <2>2
<1>5. \A i \in 1..(Upto - pos) : file[pos + i] # BadLine /\ file[pos + i] \in Facts
  BY <1>1, <1>2, <1>3, <1>4
<1>6. NextLines \in Seq(Facts)
  <2> HIDE DEF NextLines, Upto
  <2>1. \A i \in 1..(Upto - pos) : NextLines[i] \in Facts
    BY <1>4, <1>5
  <2>2. NextLines \in [1..(Upto - pos) -> Facts] /\ Upto - pos \in Nat
    BY <1>2, <1>3, <1>4, <2>1
  <2> QED BY <2>2, SeqDef
<1> HIDE DEF NextLines, Upto
<1>7. BulkShaped'
  <2>1. \A i \in 1..Len(batch') : batch'[i] = file[pos' - Len(batch') + i]
    BY <1>1, <1>2, <1>3, <1>4
  <2>2. pos' \in 0..Len(file) /\ batch' \in Seq(Facts) /\ Len(batch') <= pos'
    BY <1>1, <1>2, <1>3, <1>4, <1>6
  <2> QED BY <1>1, <2>1, <2>2 DEF BulkShaped
<1>8. ReadInv'
  <2>1. \A i \in 1..Upto : file[i] # BadLine
    <3> SUFFICES ASSUME NEW i \in 1..Upto, i > pos PROVE file[i] # BadLine
      BY <1>1, <1>2, <1>3 DEF ReadInv
    <3>1. i - pos \in 1..(Upto - pos) /\ pos + (i - pos) = i
      BY <1>2, <1>3
    <3> QED BY <1>5, <3>1
  <2>2. Upto = Len(file) \/ \E k \in Nat : Upto = k * BatchOf
    <3> SUFFICES ASSUME Upto = pos + BatchOf PROVE \E k \in Nat : Upto = k * BatchOf
      BY <1>3
    <3>1. PICK k \in Nat : pos = k * BatchOf
      BY <1>1 DEF ReadInv
    <3>2. pos + BatchOf = (k + 1) * BatchOf /\ k + 1 \in Nat
      BY <1>2, <3>1
    <3> QED BY <3>2
  <2> QED BY <1>1, <2>1, <2>2 DEF ReadInv
<1>9. MadeInv' /\ SourceInv'
  BY <1>1, SameMade DEF SourceInv, BeforeBad
<1>10. DoneInv'
  <2>1. batch' = NextLines /\ pos' = Upto
    BY <1>1
  <2>2. Len(batch') = Upto - pos
    BY <1>4, <2>1, Zenon
  <2>3. pos' - Len(batch') = pos /\ pos - Len(batch) = pos
    BY <1>2, <1>3, <2>1, <2>2
  <2> QED BY <1>1, <2>3, SameStore DEF DoneInv, InFile
<1> QED BY <1>7, <1>8, <1>9, <1>10 DEF BulkInv

\* The line written next.
LEMMA ItemTaken ==
  ASSUME BulkShaped, batch # <<>>
  PROVE  /\ Item \in Facts /\ Item = file[pos - Len(batch) + 1] /\ Len(batch) >= 1
         /\ Tail(batch) \in Seq(Facts) /\ Len(Tail(batch)) = Len(batch) - 1
         /\ \A i \in 1..Len(Tail(batch)) : Tail(batch)[i] = file[pos - Len(Tail(batch)) + i]
<1>1. batch \in Seq(Facts) /\ Len(batch) \in Nat /\ pos \in Nat
  BY BulkFacts DEF BulkShaped
<1>2. /\ Tail(batch) \in Seq(Facts) /\ Len(Tail(batch)) = Len(batch) - 1
      /\ \A i \in 1..Len(Tail(batch)) : Tail(batch)[i] = batch[i + 1]
  BY <1>1, HeadTailProperties
<1>3. Len(batch) >= 1
  BY <1>1, EmptySeq
<1>4. Item \in Facts /\ Item = file[pos - Len(batch) + 1]
  BY <1>1, <1>3, BulkFacts DEF BulkShaped, Item
<1>5. ASSUME NEW i \in 1..Len(Tail(batch))
      PROVE  Tail(batch)[i] = file[pos - Len(Tail(batch)) + i]
  <2>1. batch[i + 1] = file[pos - Len(batch) + (i + 1)]
    BY <1>1, <1>2, <1>3, <1>5 DEF BulkShaped
  <2>2. pos - Len(batch) + (i + 1) = pos - Len(Tail(batch)) + i
    BY <1>1, <1>2, <1>5
  <2> QED BY <1>2, <1>5, <2>1, <2>2
<1> QED BY <1>2, <1>3, <1>4, <1>5

\* After a write no row is lost, and what is said with a row only grows.
Extends ==
  /\ Len(held) <= Len(held')
  /\ \A i \in 1..Len(held) : /\ held'[i].fact = held[i].fact /\ held'[i].active = held[i].active
                             /\ held[i].said \subseteq held'[i].said

\* There are finitely many words, so Jaccard's index is a number.
LEMMA Texts ==
  ASSUME held \in Seq(HeldRow), NEW i \in 1..Len(held), NEW f \in Facts
  PROVE  /\ held[i].fact \in Facts /\ held[i].active \in BOOLEAN /\ held[i].said \subseteq Facts
         /\ IsFiniteSet(Words[f]) /\ IsFiniteSet(Corpus(i)) /\ Words[held[i].fact] \subseteq Corpus(i)
<1> DEFINE all == UNION {Words[g] : g \in Facts}
<1>1. held[i] \in HeldRow
  BY ElementOfSeq
<1>2. held[i].fact \in Facts /\ held[i].active \in BOOLEAN /\ held[i].said \subseteq Facts
  BY <1>1 DEF HeldRow
<1>3. Words[f] \in SUBSET all /\ Corpus(i) \in SUBSET all
  BY <1>2 DEF Corpus
<1>4. IsFiniteSet(all)
  BY BulkBounds
<1> HIDE DEF all
<1>5. IsFiniteSet(Words[f]) /\ IsFiniteSet(Corpus(i))
  BY <1>3, <1>4, FS_Subset
<1> QED BY <1>2, <1>5 DEF Corpus

\* What is not novel is covered: the index bounds the share of the text's own words.
LEMMA NotNovel ==
  ASSUME held \in Seq(HeldRow), NEW i \in 1..Len(held), NEW f \in Facts,
         ~NovelTo(Words[f], Corpus(i))
  PROVE  5 * Cardinality(Words[f] \cap Corpus(i)) >= 4 * Cardinality(Words[f])
<1> DEFINE both == Words[f] \cap Corpus(i)
           any == Words[f] \cup Corpus(i)
           own == Words[f]
<1>1. IsFiniteSet(own) /\ IsFiniteSet(any) /\ own \in SUBSET any /\ both \in SUBSET own
  BY Texts, FS_Union
<1>2. ~(5 * Cardinality(both) < 4 * Cardinality(any))
  BY DEF NovelTo
<1> HIDE DEF both, any, own
<1>3. Cardinality(own) <= Cardinality(any) /\ IsFiniteSet(both)
  BY <1>1, FS_Subset
<1>4. Cardinality(own) \in Nat /\ Cardinality(any) \in Nat /\ Cardinality(both) \in Nat
  BY <1>1, <1>3, FS_CardinalityType
<1>5. 5 * Cardinality(both) >= 4 * Cardinality(own)
  BY <1>2, <1>3, <1>4
<1> QED BY <1>5 DEF both, own

LEMMA CoverGrows ==
  ASSUME held \in Seq(HeldRow), held' \in Seq(HeldRow), Extends, NEW f \in Facts, KeptOf(f)
  PROVE  KeptOf(f)'
<1>1. PICK i \in 1..Len(held) : Covered(f, i)
  BY DEF KeptOf
<1>2. i \in 1..Len(held')
  <2>1. Len(held) \in Nat /\ Len(held') \in Nat
    BY LenProperties
  <2> QED BY <2>1 DEF Extends
<1>3. /\ held'[i].fact = held[i].fact /\ held'[i].active = held[i].active
      /\ held[i].said \subseteq held'[i].said
  BY DEF Extends
<1> DEFINE had == Words[f] \cap Corpus(i)
           has == Words[f] \cap Corpus(i)'
<1>4. had \in SUBSET has /\ has \in SUBSET Words[f]
  BY <1>3 DEF Corpus
<1>5. IsFiniteSet(Words[f])
  BY Texts
<1>6. 5 * Cardinality(had) >= 4 * Cardinality(Words[f])
  BY <1>1 DEF Covered
<1> HIDE DEF had, has
<1>7. IsFiniteSet(has) /\ IsFiniteSet(had) /\ Cardinality(had) <= Cardinality(has)
  BY <1>4, <1>5, FS_Subset
<1>8. Cardinality(had) \in Nat /\ Cardinality(has) \in Nat /\ Cardinality(Words[f]) \in Nat
  BY <1>5, <1>7, FS_CardinalityType
<1>9. 5 * Cardinality(has) >= 4 * Cardinality(Words[f])
  BY <1>6, <1>7, <1>8
<1>10. Covered(f, i)'
  BY <1>1, <1>3, <1>9 DEF Covered, has
<1> QED BY <1>2, <1>10 DEF KeptOf

LEMMA SaidMore ==
  ASSUME held \in Seq(HeldRow), NEW i \in 1..Len(held), NEW f \in Facts
  PROVE  LET more == [held EXCEPT ![i].said = @ \cup {f}]
         IN  /\ more \in Seq(HeldRow) /\ Len(more) = Len(held)
             /\ \A j \in 1..Len(held) :
                  /\ more[j].fact = held[j].fact /\ more[j].active = held[j].active
                  /\ held[j].said \subseteq more[j].said
                  /\ more[j].said \subseteq held[j].said \cup (IF j = i THEN {f} ELSE {})
<1> DEFINE row == [held[i] EXCEPT !.said = @ \cup {f}]
           more == [held EXCEPT ![i].said = @ \cup {f}]
<1>1. held[i] \in HeldRow
  BY ElementOfSeq
<1>2. /\ row \in HeldRow /\ row.fact = held[i].fact /\ row.active = held[i].active
      /\ row.said = held[i].said \cup {f}
  BY <1>1 DEF HeldRow
<1>3. more = [held EXCEPT ![i] = row]
  OBVIOUS
<1> HIDE DEF row, more
<1>4. /\ [held EXCEPT ![i] = row] \in Seq(HeldRow) /\ Len([held EXCEPT ![i] = row]) = Len(held)
      /\ \A j \in 1..Len(held) : [held EXCEPT ![i] = row][j] = IF j = i THEN row ELSE held[j]
  BY <1>2, ExceptSeq
<1>5. /\ more \in Seq(HeldRow) /\ Len(more) = Len(held)
      /\ \A j \in 1..Len(held) : more[j] = IF j = i THEN row ELSE held[j]
  BY <1>3, <1>4
<1>6. /\ more \in Seq(HeldRow) /\ Len(more) = Len(held)
      /\ \A j \in 1..Len(held) :
           /\ more[j].fact = held[j].fact /\ more[j].active = held[j].active
           /\ held[j].said \subseteq more[j].said
           /\ more[j].said \subseteq held[j].said \cup (IF j = i THEN {f} ELSE {})
  BY <1>2, <1>5
<1> QED BY <1>6 DEF more

LEMMA GrownRow ==
  ASSUME held \in Seq(HeldRow), NEW f \in Facts, NEW i \in 0..Len(held), held' = Grown(f, i)
  PROVE  /\ held' \in Seq(HeldRow) /\ Extends /\ Len(held) \in Nat /\ Len(held') = Len(held) + 1
         /\ held'[Len(held) + 1].fact = f /\ held'[Len(held) + 1].active
         /\ held'[Len(held) + 1].said \subseteq (IF i = 0 THEN {} ELSE {held[i].fact})
         /\ \A j \in 1..Len(held) : held'[j].said \subseteq held[j].said \cup (IF j = i THEN {f} ELSE {})
<1> DEFINE linking == i # 0 /\ TopicRule
           peers == IF linking THEN [held EXCEPT ![i].said = @ \cup {f}] ELSE held
           row == [fact |-> f, active |-> TRUE, said |-> IF linking THEN {held[i].fact} ELSE {}]
<1>1. held' = Append(peers, row)
  BY DEF Grown
<1>2. Len(held) \in Nat
  BY LenProperties
<1>3. /\ peers \in Seq(HeldRow) /\ Len(peers) = Len(held)
      /\ \A j \in 1..Len(held) : /\ peers[j].fact = held[j].fact /\ peers[j].active = held[j].active
                                 /\ held[j].said \subseteq peers[j].said
                                 /\ peers[j].said \subseteq held[j].said \cup (IF j = i THEN {f} ELSE {})
  <2>1. CASE linking
    <3>1. i \in 1..Len(held)
      BY <1>2, <2>1
    <3>2. peers = [held EXCEPT ![i].said = @ \cup {f}]
      BY <2>1
    <3> DEFINE more == [held EXCEPT ![i].said = @ \cup {f}]
    <3>3. /\ more \in Seq(HeldRow) /\ Len(more) = Len(held)
          /\ \A j \in 1..Len(held) :
               /\ more[j].fact = held[j].fact /\ more[j].active = held[j].active
               /\ held[j].said \subseteq more[j].said
               /\ more[j].said \subseteq held[j].said \cup (IF j = i THEN {f} ELSE {})
      BY <3>1, SaidMore
    <3> HIDE DEF peers, more
    <3>4. peers = more
      BY <3>2 DEF more
    <3> QED BY <3>3, <3>4
  <2>2. CASE ~linking
    BY <2>2
  <2> QED BY <2>1, <2>2
<1>4. /\ row \in HeldRow /\ row.fact = f /\ row.active
      /\ row.said \subseteq (IF i = 0 THEN {} ELSE {held[i].fact})
  <2>1. linking => held[i].fact \in Facts
    <3>1. linking => i \in 1..Len(held)
      BY <1>2
    <3> QED BY <3>1, Texts
  <2> QED BY <2>1 DEF HeldRow
<1> HIDE DEF peers, row
<1>5. /\ held' \in Seq(HeldRow) /\ Len(held') = Len(held) + 1
      /\ \A j \in 1..Len(held) : held'[j] = peers[j]
      /\ held'[Len(held) + 1] = row
  BY <1>1, <1>3, <1>4, AppendProperties
<1>6. Extends
  BY <1>2, <1>3, <1>5 DEF Extends
<1> QED BY <1>2, <1>3, <1>4, <1>5, <1>6

\* A line is taken care of when it is written: the rows and the report only grow.
LEMMA OneLine ==
  ASSUME BulkInv, importing, batch # <<>>, batch' = Tail(batch),
         held' \in Seq(HeldRow), Extends,
         review \subseteq review', NEW fact, fact = Item, fact \in review' \/ KeptOf(fact)',
         UNCHANGED <<file, csv, pos, importing, whole, moved>>,
         rowsMade' \in [Facts -> Nat], MadeInv', SourceInv'
  PROVE  BulkInv'
<1>1. BulkShaped /\ ReadInv /\ DoneInv
  BY DEF BulkInv
<1>2. /\ Item \in Facts /\ Item = file[pos - Len(batch) + 1] /\ Len(batch) >= 1
      /\ Tail(batch) \in Seq(Facts) /\ Len(Tail(batch)) = Len(batch) - 1
      /\ \A i \in 1..Len(Tail(batch)) : Tail(batch)[i] = file[pos - Len(Tail(batch)) + i]
  BY <1>1, ItemTaken
<1>3. /\ Len(batch) \in Nat /\ pos \in Nat /\ Len(batch) <= pos /\ Len(file) \in Nat /\ pos <= Len(file)
      /\ held \in Seq(HeldRow)
  BY <1>1, BulkFacts DEF BulkShaped
<1>4. BulkShaped'
  <2>1. Len(batch') <= pos'
    BY <1>2, <1>3
  <2> QED BY <1>1, <1>2, <1>3, <2>1 DEF BulkShaped
<1>5. ReadInv'
  BY <1>1 DEF ReadInv
<1>6. ASSUME NEW f \in Facts, KeptOf(f) PROVE KeptOf(f)'
  BY <1>3, <1>6, CoverGrows
<1>7. ASSUME ~moved, NEW i \in 1..(pos - Len(Tail(batch))), NEW f, f = file[i]
      PROVE  f \in review' \/ KeptOf(f)'
  <2>1. CASE i = pos - Len(batch) + 1
    BY <1>2, <1>7, <2>1
  <2>2. CASE i # pos - Len(batch) + 1
    <3>1. i \in 1..(pos - Len(batch))
      <4>1. pos - Len(Tail(batch)) = pos - Len(batch) + 1
        <5>1. Len(Tail(batch)) = Len(batch) - 1
          BY <1>2
        <5> QED BY <1>3, <5>1
      <4>2. i \in 1..(pos - Len(batch) + 1)
        BY <1>7, <4>1, Zenon
      <4> DEFINE n == pos - Len(batch)
      <4>3. n \in Int /\ i \in 1..(n + 1) /\ i # n + 1
        BY <1>3, <2>2, <4>2
      <4>4. i \in 1..n
        <5> HIDE DEF n
        <5> QED BY <4>3
      <4> QED BY <4>4
    <3>2. f \in review \/ KeptOf(f)
      BY <1>1, <1>7, <3>1 DEF DoneInv
    <3>3. f \in Facts
      <4>1. i \in 1..pos /\ i \in 1..Len(file)
        BY <1>3, <3>1
      <4>2. file[i] # BadLine /\ file[i] \in Facts \cup {BadLine}
        BY <1>1, <4>1, BulkFacts DEF ReadInv
      <4> QED BY <1>7, <4>2
    <3> QED BY <1>6, <3>2, <3>3
  <2> QED BY <2>1, <2>2
<1>8. DoneInv'
  <2>1. ~whole'
    BY <1>1 DEF BulkShaped
  <2> HIDE DEF Extends
  <2> QED BY <1>7, <2>1 DEF DoneInv, KeptOf
<1> QED BY <1>4, <1>5, <1>8 DEF BulkInv

\* A line is good, and in a batch before that of any bad one, when it is written.
LEMMA WrittenBefore ==
  ASSUME BulkShaped, ReadInv, importing, batch # <<>>
  PROVE  /\ Item \in InFile
         /\ \E i \in DOMAIN file : file[i] = Item /\ BeforeBad(i)
<1> DEFINE j == pos - Len(batch) + 1
<1>1. /\ Item \in Facts /\ Item = file[j] /\ Len(batch) >= 1
      /\ Len(batch) \in Nat /\ pos \in Nat /\ Len(batch) <= pos /\ pos <= Len(file) /\ Len(file) \in Nat
      /\ DOMAIN file = 1..Len(file)
  BY ItemTaken, BulkFacts DEF BulkShaped
<1>2. j \in 1..pos /\ j \in DOMAIN file
  BY <1>1
<1>3. ASSUME NEW b \in DOMAIN file, file[b] = BadLine
      PROVE  j <= ((b - 1) \div BatchOf) * BatchOf
  <2>0. /\ \A i \in 1..pos : file[i] # BadLine
        /\ pos = Len(file) \/ \E k \in Nat : pos = k * BatchOf
    BY DEF ReadInv
  <2>1. b \in Nat /\ b >= 1 /\ b <= Len(file)
    BY <1>1, <1>3
  <2>2. b > pos
    <3>1. b \in 1..pos => file[b] # BadLine
      BY <2>0
    <3>2. b \notin 1..pos
      BY <1>3, <3>1
    <3> QED BY <1>1, <2>1, <3>2
  <2>3. pos # Len(file)
    BY <2>1, <2>2
  <2>4. PICK k \in Nat : pos = k * BatchOf
    BY <2>0, <2>3
  <2>5. b - 1 \in Nat /\ k * BatchOf <= b - 1
    BY <1>1, <2>1, <2>2, <2>4
  <2>6. k * BatchOf <= ((b - 1) \div BatchOf) * BatchOf
    BY <2>5, BatchBefore, BulkBounds
  <2>7. ((b - 1) \div BatchOf) * BatchOf \in Int
    BY <2>5, BulkBounds
  <2> HIDE DEF j
  <2> QED BY <1>1, <1>2, <2>4, <2>6, <2>7
<1>4. Item # BadLine
  BY <1>1, <1>2 DEF ReadInv
<1> HIDE DEF j
<1> QED BY <1>1, <1>2, <1>3, <1>4 DEF BeforeBad, InFile

\* A line is stored a second time only when its own first row did not stop it.
LEMMA StoredInv ==
  ASSUME BulkInv, importing, batch # <<>>, NEW i \in 0..Len(held), Stored(i),
         i # 0 => Likeness[Item][held[i].fact] = "high",
         ~moved /\ rowsMade[Item] > 0 => Wordier(Item)
  PROVE  BulkInv'
<1>1. /\ BulkShaped /\ ReadInv /\ MadeInv /\ SourceInv
      /\ held' = Grown(Item, i)
      /\ rowsMade' = [rowsMade EXCEPT ![Item] = @ + 1] /\ batch' = Tail(batch)
      /\ UNCHANGED <<file, csv, pos, review, importing, imports, breaks, outside, whole, moved>>
  BY DEF BulkInv, Stored, NextItem
<1>2. Item \in Facts /\ Item \in InFile
  BY <1>1, ItemTaken, WrittenBefore
<1>3. rowsMade \in [Facts -> Nat] /\ held \in Seq(HeldRow)
  BY <1>1 DEF BulkShaped
<1>4. /\ rowsMade'[Item] = rowsMade[Item] + 1
      /\ \A f \in Facts \ {Item} : rowsMade'[f] = rowsMade[f]
      /\ rowsMade' \in [Facts -> Nat]
  BY <1>1, <1>2, <1>3
<1>5. /\ held' \in Seq(HeldRow) /\ Extends /\ Len(held) \in Nat /\ Len(held') = Len(held) + 1
      /\ held'[Len(held) + 1].fact = Item /\ held'[Len(held) + 1].active
      /\ held'[Len(held) + 1].said \subseteq (IF i = 0 THEN {} ELSE {held[i].fact})
      /\ \A j \in 1..Len(held) : held'[j].said \subseteq held[j].said \cup (IF j = i THEN {Item} ELSE {})
  BY <1>1, <1>2, <1>3, GrownRow
<1>6. \A j \in 1..Len(held) : held'[j].fact = held[j].fact /\ held'[j].active = held[j].active
  BY <1>5 DEF Extends
<1>7. MadeInv'
  <2> SUFFICES ASSUME ~moved
               PROVE  /\ \A f \in Facts : /\ rowsMade'[f] > 1 => Wordier(f)
                                          /\ rowsMade'[f] > 0 => \E k \in Candidates' : held'[k].fact = f
                      /\ \A k \in 1..Len(held') :
                           /\ held'[k].fact \in Offered
                           /\ \A g \in held'[k].said : g \in Offered /\ Likeness[held'[k].fact][g] = "high"
    BY <1>1 DEF MadeInv, Wordier, Offered, InFile
  <2>0. /\ \A f \in Facts : /\ rowsMade[f] > 1 => Wordier(f)
                            /\ rowsMade[f] > 0 => \E k \in Candidates : held[k].fact = f
        /\ \A k \in 1..Len(held) :
             /\ held[k].fact \in Offered
             /\ \A g \in held[k].said : g \in Offered /\ Likeness[held[k].fact][g] = "high"
    BY <1>1 DEF MadeInv
  <2>1. ASSUME NEW f \in Facts, rowsMade'[f] > 1 PROVE Wordier(f)
    <3>1. CASE f = Item
      <4>1. rowsMade[Item] > 0
        BY <1>2, <1>3, <1>4, <2>1, <3>1
      <4> QED BY <3>1, <4>1
    <3>2. CASE f # Item
      BY <1>4, <2>0, <2>1, <3>2
    <3> QED BY <3>1, <3>2
  <2>2. ASSUME NEW f \in Facts, rowsMade'[f] > 0 PROVE \E k \in Candidates' : held'[k].fact = f
    <3>1. CASE f = Item
      <4>1. Len(held) + 1 \in Candidates'
        BY <1>5 DEF Candidates
      <4> QED BY <1>5, <3>1, <4>1
    <3>2. CASE f # Item
      <4>1. PICK k \in Candidates : held[k].fact = f
        BY <1>4, <2>0, <2>2, <3>2
      <4>2. k \in 1..Len(held) /\ held[k].active
        BY <4>1 DEF Candidates
      <4>3. k \in 1..Len(held') /\ held'[k].active /\ held'[k].fact = f
        BY <1>5, <1>6, <4>1, <4>2
      <4> QED BY <4>3 DEF Candidates
    <3> QED BY <3>1, <3>2
  <2>3. ASSUME NEW k \in 1..Len(held')
        PROVE  /\ held'[k].fact \in Offered
               /\ \A g \in held'[k].said : g \in Offered /\ Likeness[held'[k].fact][g] = "high"
    <3>1. i # 0 => /\ i \in 1..Len(held) /\ held[i].fact \in Facts /\ held[i].fact \in Offered
                   /\ Likeness[Item][held[i].fact] = "high" /\ Likeness[held[i].fact][Item] = "high"
      <4> SUFFICES ASSUME i # 0 PROVE /\ i \in 1..Len(held) /\ held[i].fact \in Facts /\ held[i].fact \in Offered
                                      /\ Likeness[held[i].fact][Item] = "high"
        OBVIOUS
      <4>1. i \in 1..Len(held)
        BY <1>5
      <4>2. held[i].fact \in Facts
        BY <1>3, <1>2, <4>1, Texts
      <4> QED BY <1>2, <2>0, <4>1, <4>2, BulkBounds
    <3>2. Item \in Offered
      BY <1>2 DEF Offered
    <3>3. CASE k = Len(held) + 1
      BY <1>5, <3>1, <3>2, <3>3
    <3>4. CASE k # Len(held) + 1
      <4>1. k \in 1..Len(held)
        BY <1>5, <3>4
      <4>2. /\ held'[k].fact = held[k].fact /\ held[k].fact \in Offered
            /\ \A g \in held[k].said : g \in Offered /\ Likeness[held[k].fact][g] = "high"
        BY <1>6, <2>0, <4>1
      <4>3. held'[k].said \subseteq held[k].said \cup (IF k = i THEN {Item} ELSE {})
        BY <1>5, <4>1
      <4>4. CASE k = i
        <5>1. i # 0
          BY <1>5, <4>1, <4>4
        <5> QED BY <3>1, <3>2, <4>2, <4>3, <4>4, <5>1
      <4>5. CASE k # i
        BY <4>2, <4>3, <4>5
      <4> QED BY <4>4, <4>5
    <3> QED BY <3>3, <3>4
  <2> QED BY <2>1, <2>2, <2>3
<1>8. SourceInv'
  <2>1. \A f \in Facts : rowsMade'[f] > 0 => rowsMade[f] > 0 \/ f = Item
    BY <1>4
  <2>2. \A f \in Facts : rowsMade'[f] > 0 => \E k \in DOMAIN file : file[k] = f /\ BeforeBad(k)
    BY <1>1, <2>1, WrittenBefore DEF SourceInv
  <2> QED BY <1>1, <2>2 DEF SourceInv, BeforeBad
<1>9. ASSUME NEW f, f = Item PROVE KeptOf(f)'
  <2> DEFINE own == Words[Item]
  <2>1. PICK k \in 1..Len(held') : held'[k].active /\ held'[k].fact = Item
    <3>1. Len(held) + 1 \in 1..Len(held')
      BY <1>5
    <3> QED BY <1>5, <3>1
  <2>2. Likeness[Item][Item] = "high" /\ IsFiniteSet(own)
    <3>1. Likeness[Item][Item] = "high"
      BY <1>2, BulkBounds
    <3>2. IsFiniteSet(own)
      <4> DEFINE all == UNION {Words[g] : g \in Facts}
      <4>1. own \in SUBSET all /\ IsFiniteSet(all)
        BY <1>2, BulkBounds
      <4> HIDE DEF own, all
      <4> QED BY <4>1, FS_Subset
    <3> QED BY <3>1, <3>2
  <2>3. own \cap Corpus(k)' = own
    <3>1. Corpus(k)' = Words[held'[k].fact] \cup UNION {Words[g] : g \in held'[k].said}
      BY DEF Corpus
    <3> QED BY <2>1, <3>1
  <2>4. 5 * Cardinality(own \cap Corpus(k)') >= 4 * Cardinality(own)
    <3>1. Cardinality(own) \in Nat
      BY <2>2, FS_CardinalityType
    <3>2. Cardinality(own \cap Corpus(k)') = Cardinality(own)
      BY <2>3, Zenon
    <3>3. 5 * Cardinality(own) >= 4 * Cardinality(own)
      <4> HIDE DEF own
      <4> QED BY <3>1
    <3> QED BY <3>2, <3>3, Zenon
  <2>5. /\ held'[k].active /\ Likeness[Item][held'[k].fact] = "high"
        /\ 5 * Cardinality(Words[Item] \cap Corpus(k)') >= 4 * Cardinality(Words[Item])
    BY <2>1, <2>2, <2>4
  <2>6. /\ held'[k].active /\ Likeness[f][held'[k].fact] = "high"
        /\ 5 * Cardinality(Words[f] \cap Corpus(k)') >= 4 * Cardinality(Words[f])
    BY <1>9, <2>5
  <2> QED BY <2>1, <2>6 DEF KeptOf, Covered
<1> QED BY <1>1, <1>4, <1>5, <1>7, <1>8, <1>9, OneLine

\* Its own row is within t_high of a line, and its own words are not novel to it.
LEMMA InsertsInv ==
  ASSUME BulkInv, Inserts \/ JoinsCluster PROVE BulkInv'
<1>1. /\ BulkShaped /\ ReadInv /\ MadeInv /\ importing /\ batch # <<>>
      /\ held \in Seq(HeldRow) /\ Len(held) \in Nat
  BY LenProperties DEF BulkInv, BulkShaped, Inserts, JoinsCluster
<1>2. Item \in Facts /\ Likeness[Item][Item] = "high"
  BY <1>1, ItemTaken, BulkBounds
<1>3. ASSUME NEW j \in Candidates, held[j].fact = Item PROVE j \in Above(Item)
  BY <1>2, <1>3 DEF Above
<1>4. CASE Inserts
  <2>1. ~\E j \in Candidates : held[j].fact = Item
    BY <1>3, <1>4 DEF Inserts
  <2>2. ~(~moved /\ rowsMade[Item] > 0)
    BY <1>1, <1>2, <2>1 DEF MadeInv
  <2>3. Stored(0) /\ 0 \in 0..Len(held)
    BY <1>1, <1>4 DEF Inserts
  <2> QED BY <1>1, <2>2, <2>3, StoredInv
<1>5. CASE JoinsCluster
  <2>1. PICK i \in NearestRows(Item) : NovelTo(Words[Item], Corpus(i)) /\ Stored(i)
    BY <1>5 DEF JoinsCluster
  <2>2. /\ i \in 1..Len(held) /\ Likeness[Item][held[i].fact] = "high"
        /\ held[i].fact = Item \/ ~\E j \in Candidates : held[j].fact = Item
    BY DEF NearestRows, Above, Candidates
  <2>3. ASSUME ~moved, rowsMade[Item] > 0 PROVE Wordier(Item)
    <3>1. /\ held[i].fact = Item
          /\ \A g \in held[i].said : g \in Offered /\ Likeness[Item][g] = "high"
      BY <1>1, <1>2, <2>2, <2>3 DEF MadeInv
    <3>2. IsFiniteSet(Words[Item])
      BY <1>1, <1>2, <2>2, Texts
    <3>3. Cardinality(Words[Item]) \in Nat
      BY <3>2, FS_CardinalityType
    <3>4. Corpus(i) # Words[Item]
      <4> SUFFICES ASSUME Corpus(i) = Words[Item] PROVE FALSE
        OBVIOUS
      <4>1. Words[Item] \cap Corpus(i) = Words[Item] /\ Words[Item] \cup Corpus(i) = Words[Item]
        OBVIOUS
      <4>2. 5 * Cardinality(Words[Item]) < 4 * Cardinality(Words[Item])
        BY <2>1, <4>1 DEF NovelTo
      <4> QED BY <3>3, <4>2
    <3>5. \E g \in held[i].said : ~Words[g] \subseteq Words[Item]
      BY <3>1, <3>4 DEF Corpus
    <3> QED BY <3>1, <3>5 DEF Wordier
  <2>4. i \in 0..Len(held)
    BY <1>1, <2>2
  <2> QED BY <1>1, <2>1, <2>2, <2>3, <2>4, StoredInv
<1> QED BY <1>4, <1>5

LEMMA MergesInv ==
  ASSUME BulkInv, Merges PROVE BulkInv'
<1>1. /\ BulkShaped /\ ReadInv /\ MadeInv /\ SourceInv /\ importing /\ batch # <<>>
      /\ batch' = Tail(batch) /\ held \in Seq(HeldRow) /\ Len(held) \in Nat
      /\ rowsMade \in [Facts -> Nat]
      /\ UNCHANGED <<file, csv, pos, review, importing, imports, breaks, outside, rowsMade, whole, moved>>
  BY LenProperties DEF BulkInv, BulkShaped, Merges, NextItem
<1>2. Item \in Facts /\ Item \in Offered
  BY <1>1, ItemTaken, WrittenBefore DEF Offered
<1>3. PICK i \in NearestRows(Item) :
        /\ ~NovelTo(Words[Item], Corpus(i))
        /\ held' = held \/ held' = [held EXCEPT ![i].said = @ \cup {Item}]
  BY DEF Merges
<1>4. i \in 1..Len(held) /\ held[i].active /\ Likeness[Item][held[i].fact] = "high"
  BY DEF NearestRows, Above, Candidates
<1>5. /\ held' \in Seq(HeldRow) /\ Len(held') = Len(held)
      /\ \A j \in 1..Len(held) : /\ held'[j].fact = held[j].fact /\ held'[j].active = held[j].active
                                 /\ held[j].said \subseteq held'[j].said
                                 /\ held'[j].said \subseteq held[j].said \cup (IF j = i THEN {Item} ELSE {})
  <2>1. CASE held' = held
    BY <1>1, <2>1
  <2>2. CASE held' = [held EXCEPT ![i].said = @ \cup {Item}]
    <3> DEFINE more == [held EXCEPT ![i].said = @ \cup {Item}]
    <3>1. /\ more \in Seq(HeldRow) /\ Len(more) = Len(held)
          /\ \A j \in 1..Len(held) :
               /\ more[j].fact = held[j].fact /\ more[j].active = held[j].active
               /\ held[j].said \subseteq more[j].said
               /\ more[j].said \subseteq held[j].said \cup (IF j = i THEN {Item} ELSE {})
      BY <1>1, <1>2, <1>4, SaidMore
    <3>2. held' = more
      BY <2>2
    <3> HIDE DEF more
    <3> QED BY <3>1, <3>2
  <2> QED BY <1>3, <2>1, <2>2
<1>6. Extends
  BY <1>1, <1>5 DEF Extends
<1>7. KeptOf(Item)
  <2>1. 5 * Cardinality(Words[Item] \cap Corpus(i)) >= 4 * Cardinality(Words[Item])
    BY <1>1, <1>2, <1>3, <1>4, NotNovel
  <2> QED BY <1>4, <2>1 DEF KeptOf, Covered
<1>8. ASSUME NEW f, f = Item PROVE KeptOf(f)'
  BY <1>1, <1>2, <1>5, <1>6, <1>7, <1>8, CoverGrows
<1>9. MadeInv'
  <2> SUFFICES ASSUME ~moved
               PROVE  /\ \A f \in Facts : /\ rowsMade[f] > 1 => Wordier(f)
                                          /\ rowsMade[f] > 0 => \E k \in Candidates' : held'[k].fact = f
                      /\ \A k \in 1..Len(held') :
                           /\ held'[k].fact \in Offered
                           /\ \A g \in held'[k].said : g \in Offered /\ Likeness[held'[k].fact][g] = "high"
    BY <1>1 DEF MadeInv, Wordier, Offered, InFile
  <2>1. /\ \A f \in Facts : /\ rowsMade[f] > 1 => Wordier(f)
                            /\ rowsMade[f] > 0 => \E k \in Candidates : held[k].fact = f
        /\ \A k \in 1..Len(held) :
             /\ held[k].fact \in Offered
             /\ \A g \in held[k].said : g \in Offered /\ Likeness[held[k].fact][g] = "high"
    BY <1>1 DEF MadeInv
  <2>2. Candidates' = Candidates
    BY <1>5 DEF Candidates
  <2>3. Likeness[held[i].fact][Item] = "high"
    <3>1. held[i].fact \in Facts
      BY <1>1, <1>2, <1>4, Texts
    <3> QED BY <1>2, <1>4, <3>1, BulkBounds
  <2>4. ASSUME NEW k \in 1..Len(held')
        PROVE  /\ held'[k].fact \in Offered
               /\ \A g \in held'[k].said : g \in Offered /\ Likeness[held'[k].fact][g] = "high"
    BY <1>2, <1>5, <2>1, <2>3, <2>4
  <2>5. ASSUME NEW f \in Facts, rowsMade[f] > 0 PROVE \E k \in Candidates' : held'[k].fact = f
    <3>1. PICK k \in Candidates : held[k].fact = f
      BY <2>1, <2>5
    <3> QED BY <1>5, <2>2, <3>1 DEF Candidates
  <2> QED BY <2>1, <2>4, <2>5
<1>10. SourceInv'
  BY <1>1 DEF SourceInv, BeforeBad
<1> QED BY <1>1, <1>5, <1>6, <1>8, <1>9, <1>10, OneLine

LEMMA QueuesInv ==
  ASSUME BulkInv, Queues PROVE BulkInv'
<1>1. /\ BulkShaped /\ MadeInv /\ SourceInv /\ importing /\ batch # <<>> /\ batch' = Tail(batch)
      /\ review' = review \cup {Item}
      /\ UNCHANGED <<file, held, csv, pos, importing, rowsMade, whole, moved>>
  BY DEF BulkInv, Queues, NextItem
<1>2. MadeInv' /\ SourceInv'
  BY <1>1, SameMade DEF SourceInv, BeforeBad
<1>3. held' \in Seq(HeldRow) /\ Extends /\ rowsMade' \in [Facts -> Nat]
  <2>1. held \in Seq(HeldRow) /\ rowsMade \in [Facts -> Nat]
    BY <1>1 DEF BulkShaped
  <2>2. Len(held) \in Nat
    BY <2>1, LenProperties
  <2> QED BY <1>1, <2>1, <2>2 DEF Extends
<1>4. ASSUME NEW f, f = Item PROVE f \in review' \/ KeptOf(f)'
  BY <1>1, <1>4
<1>5. review \subseteq review'
  BY <1>1
<1> QED BY <1>1, <1>2, <1>3, <1>4, <1>5, OneLine

LEMMA RunEndsInv ==
  ASSUME BulkInv, MeetsBadLine \/ Breaks PROVE BulkInv'
<1>1. /\ BulkShaped /\ MadeInv /\ SourceInv /\ DoneInv /\ importing' = FALSE
      /\ UNCHANGED <<file, held, csv, pos, batch, review, rowsMade, whole, moved>>
  BY DEF BulkInv, MeetsBadLine, Breaks
<1>2. BulkShaped' /\ ReadInv' /\ SourceInv'
  BY <1>1 DEF BulkShaped, ReadInv, SourceInv, BeforeBad
<1>3. MadeInv' /\ DoneInv'
  BY <1>1, SameMade, SameStore DEF DoneInv, InFile
<1> QED BY <1>2, <1>3 DEF BulkInv

LEMMA BulkFinishInv ==
  ASSUME BulkInv, BulkFinish PROVE BulkInv'
<1>1. /\ BulkShaped /\ MadeInv /\ SourceInv /\ DoneInv
      /\ importing /\ batch = <<>> /\ pos = Len(file)
      /\ csv' = (IF review = {} THEN csv ELSE review) /\ importing' = FALSE /\ whole' = TRUE
      /\ UNCHANGED <<file, held, pos, batch, review, rowsMade, moved>>
  BY DEF BulkInv, BulkFinish
<1>2. Len(batch) = 0 /\ Len(file) \in Nat /\ DOMAIN file = 1..Len(file)
  BY <1>1, BulkFacts, EmptySeq
<1>3. ASSUME ~moved, NEW f \in InFile PROVE f \in csv' \/ KeptOf(f)
  <2>1. PICK i \in DOMAIN file : f = file[i]
    BY DEF InFile
  <2>2. f \in review \/ KeptOf(f)
    BY <1>1, <1>2, <1>3, <2>1 DEF DoneInv
  <2> QED BY <1>1, <2>2
<1>4. BulkShaped' /\ ReadInv' /\ MadeInv' /\ SourceInv'
  BY <1>1, SameMade DEF BulkShaped, ReadInv, SourceInv, BeforeBad
<1>5. DoneInv'
  <2>1. InFile' = InFile
    BY <1>1 DEF InFile
  <2> QED BY <1>1, <1>3, <2>1, SameStore DEF DoneInv
<1> QED BY <1>4, <1>5 DEF BulkInv

LEMMA OutsideInv ==
  ASSUME BulkInv, Outside PROVE BulkInv'
<1>1. /\ BulkShaped /\ ReadInv /\ SourceInv /\ moved' = TRUE
      /\ UNCHANGED <<file, csv, pos, batch, review, importing, imports, breaks, rowsMade, whole>>
  BY DEF BulkInv, Outside
<1>2. held' \in Seq(HeldRow)
  <2>0. held \in Seq(HeldRow)
    BY <1>1 DEF BulkShaped
  <2>1. CASE \E i \in Candidates : held' = [held EXCEPT ![i].active = FALSE]
    <3>1. PICK i \in 1..Len(held) : held' = [held EXCEPT ![i].active = FALSE]
      BY <2>1 DEF Candidates
    <3> DEFINE retired == [held[i] EXCEPT !.active = FALSE]
    <3>2. held[i] \in HeldRow
      BY <2>0, ElementOfSeq
    <3>3. retired \in HeldRow /\ held' = [held EXCEPT ![i] = retired]
      BY <3>1, <3>2 DEF HeldRow
    <3> HIDE DEF retired
    <3> QED BY <2>0, <3>3, ExceptSeq
  <2>2. CASE \E f \in Facts, i \in Candidates \cup {0} : held' = Grown(f, i)
    <3>1. PICK f \in Facts, i \in Candidates \cup {0} : held' = Grown(f, i)
      BY <2>2
    <3>2. Len(held) \in Nat
      BY <2>0, LenProperties
    <3>3. i \in 0..Len(held)
      BY <3>1, <3>2 DEF Candidates
    <3> QED BY <2>0, <3>1, <3>3, GrownRow
  <2> QED BY <2>1, <2>2 DEF Outside
<1>3. BulkShaped'
  BY <1>1, <1>2 DEF BulkShaped
<1> QED BY <1>1, <1>3 DEF BulkInv, ReadInv, MadeInv, SourceInv, DoneInv, BeforeBad

LEMMA BulkStepInv ==
  ASSUME BulkInv, [BulkNext]_bulkVars PROVE BulkInv'
<1>1. CASE UNCHANGED bulkVars
  <2>1. BulkShaped' /\ ReadInv' /\ SourceInv'
    BY <1>1 DEF bulkVars, BulkInv, BulkShaped, ReadInv, SourceInv, BeforeBad
  <2>2. MadeInv' /\ DoneInv'
    BY <1>1, SameMade, SameStore DEF bulkVars, BulkInv, DoneInv, InFile
  <2> QED BY <2>1, <2>2 DEF BulkInv
<1>2. CASE BulkNext
  BY <1>2, BulkStartInv, ReadsBatchInv, InsertsInv, MergesInv, QueuesInv, RunEndsInv,
     BulkFinishInv, OutsideInv DEF BulkNext
<1> QED BY <1>1, <1>2

\* Running a file again is safe: a fact becomes a second row only for the words of
\* another one within t_high of it, a run that went through leaves every line in the
\* report or with a row whose corpus has four fifths of its words, and no line of a
\* bad line's batch or of a later one is stored (import_.run_import).
THEOREM RerunsAreSafe == BulkSpec => []BulkRerunSafe
<1>1. BulkInit => BulkInv
  BY BulkInitInv
<1>2. BulkInv /\ [BulkNext]_bulkVars => BulkInv'
  BY BulkStepInv
<1>3. BulkInv => BulkRerunSafe
  BY DEF BulkInv, MadeInv, Wordier, Offered, DoneInv, SourceInv, KeptOf, BulkRerunSafe
<1> QED BY <1>1, <1>2, <1>3, PTL DEF BulkSpec

-----------------------------------------------------------------------------
(* The space import.                                                       *)

RowStates == {"active", "superseded", "archived"}

Row == [content : Contents, status : RowStates, addenda : SUBSET Contents,
        by : {"before", "import", "principal"}]

Payload == [content : Contents, open : BOOLEAN]

Stages == {"idle", "scopes", "nodes", "resolve", "merged", "attrs", "edges", "statuses", "ended"}

TransferShaped ==
  /\ bundle \in {Export(s) : s \in Sources}
  /\ rows \in Seq(Row) /\ parkedRows \in Seq(Payload)
  /\ \A l \in links : {l[1], l[2]} \subseteq DOMAIN rows
  /\ scopeState \in [ImportScopes -> {"none", "open", "archived"}]
  /\ at \in Stages /\ ahead \subseteq BundleNodes
  /\ created \subseteq DOMAIN rows /\ touched \subseteq DOMAIN rows
  /\ \A r \in created : rows[r].by = "import"
  /\ at # "idle" => rowFor \in [BundleNodes -> {0} \cup DOMAIN rows]

\* What an import is about to resolve as distinct is in no row.
Unheld ==
  at = "resolve" =>
    \A n \in ahead : Meets(n) => /\ bundle.nodes[n].status # "merged"
                                 /\ \A r \in DOMAIN rows : rows[r].content # Content(n)

\* A node that the first pass has met is accounted for.
Accounted(n) ==
  \/ bundle.nodes[n].status = "merged"
  \/ rowFor[n] # 0 /\ Keeps(Content(n), rowFor[n])
  \/ \E p \in DOMAIN parkedRows : parkedRows[p].content = Content(n)
  \/ ScopeOf[Content(n)] \in closed

NodesMet ==
  /\ at \in {"nodes", "resolve"} => \A n \in BundleNodes \ ahead : Accounted(n)
  /\ at \in {"merged", "attrs", "edges", "statuses", "ended"} => \A n \in BundleNodes : Accounted(n)

\* The status pass touches rows of this import only, each by the nodes met so far.
StatusesDue ==
  /\ \A r \in DOMAIN rows : rows[r].by = "before" => rows[r].status = "active"
  /\ at \in Stages \ {"idle", "statuses", "ended"} => \A r \in created : rows[r].status = "active"
  /\ at \in {"statuses", "ended"} =>
       \A r \in created :
         (rows[r].status = "active") <=>
           (\A n \in Origins(r) \ ahead : bundle.nodes[n].status = "active")
  /\ at = "ended" => ahead = {}

\* Once the edges are through, those that could be placed are.
EdgesPlaced ==
  at \in {"statuses", "ended"} =>
    \A e \in bundle.edges :
      e[3] /\ rowFor[e[1]] # 0 /\ rowFor[e[2]] # 0 /\ rowFor[e[1]] # rowFor[e[2]] =>
        \/ Placed(e) \in links
        \/ rows[rowFor[e[1]]].status = "archived" \/ rows[rowFor[e[2]]].status = "archived"

TransferInv ==
  TransferShaped /\ ImportOnce /\ Unheld /\ NodesMet /\ StatusesDue /\ EdgesPlaced

\* What the export promises of the bundle.
LEMMA BundleFacts ==
  ASSUME bundle \in {Export(s) : s \in Sources}
  PROVE  /\ BundleNodes \subseteq Nat
         /\ \A n \in BundleNodes : bundle.nodes[n] \in Node /\ Content(n) \in Contents
         /\ \A e \in bundle.edges : e[1] \in BundleNodes /\ e[2] \in BundleNodes
<1>1. PICK s \in Sources : bundle = Export(s)
  OBVIOUS
<1> DEFINE exported == {i \in DOMAIN s.nodes : /\ s.nodes[i].content \notin Reserved
                                              /\ ScopeOf[s.nodes[i].content] \in s.wanted}
           nodes == s.nodes
<1>2. nodes \in Seq(Node)
  BY TransferAssumption
<1>3. /\ bundle.nodes = [i \in exported |-> nodes[i]]
      /\ bundle.edges = {e \in s.edges : {e[1], e[2]} \subseteq exported}
  BY <1>1 DEF Export
<1>4. exported \subseteq DOMAIN nodes
  OBVIOUS
<1>5. \A i \in DOMAIN nodes : i \in Nat /\ nodes[i] \in Node
  <2>1. DOMAIN nodes = 1..Len(nodes) /\ Len(nodes) \in Nat
    BY <1>2, LenProperties
  <2> QED BY <1>2, <2>1, ElementOfSeq
<1> HIDE DEF exported, nodes
<1>6. BundleNodes = exported
  BY <1>3 DEF BundleNodes
<1>7. \A n \in exported : bundle.nodes[n] = nodes[n]
  BY <1>3
<1>8. \A c \in Node : c.content \in Contents
  BY DEF Node
<1> QED BY <1>3, <1>4, <1>5, <1>6, <1>7, <1>8 DEF Content

\* A row whose addenda or status is set keeps the rest.
LEMMA RowSet ==
  ASSUME rows \in Seq(Row), NEW r \in DOMAIN rows, NEW new, new \in Row,
         new.content = rows[r].content, new.by = rows[r].by,
         rows' = [rows EXCEPT ![r] = new]
  PROVE  /\ rows' \in Seq(Row) /\ DOMAIN rows' = DOMAIN rows
         /\ rows'[r] = new /\ \A t \in DOMAIN rows : t # r => rows'[t] = rows[t]
         /\ \A t \in DOMAIN rows : rows'[t].content = rows[t].content /\ rows'[t].by = rows[t].by
<1>1. DOMAIN rows = 1..Len(rows) /\ Len(rows) \in Nat
  BY LenProperties
<1>2. rows' \in Seq(Row)
  BY <1>1, ExceptSeq
<1>3. DOMAIN rows' = DOMAIN rows /\ rows'[r] = new /\ \A t \in DOMAIN rows : t # r => rows'[t] = rows[t]
  OBVIOUS
<1> QED BY <1>2, <1>3

\* A row that is added comes last.
LEMMA RowAdded ==
  ASSUME rows \in Seq(Row), NEW c \in Contents, NEW by \in {"before", "import", "principal"},
         Stores(c, by)
  PROVE  /\ rows' \in Seq(Row) /\ DOMAIN rows' = DOMAIN rows \cup {Len(rows) + 1}
         /\ \A t \in DOMAIN rows : t # Len(rows) + 1 /\ t < Len(rows) + 1 /\ rows'[t] = rows[t]
         /\ rows'[Len(rows) + 1].content = c /\ rows'[Len(rows) + 1].by = by
         /\ rows'[Len(rows) + 1].status = "active" /\ Len(rows) \in Nat
<1> DEFINE new == [content |-> c, status |-> "active", addenda |-> {}, by |-> by]
<1>1. new \in Row /\ new.content = c /\ new.by = by /\ new.status = "active"
  BY DEF Row, RowStates
<1>2. rows' = Append(rows, new)
  BY DEF Stores
<1> HIDE DEF new
<1>3. DOMAIN rows = 1..Len(rows) /\ Len(rows) \in Nat
  BY LenProperties
<1>4. /\ Append(rows, new) \in Seq(Row) /\ Len(Append(rows, new)) = Len(rows) + 1
      /\ \A i \in 1..Len(rows) : Append(rows, new)[i] = rows[i]
      /\ Append(rows, new)[Len(rows) + 1] = new
  BY <1>1, AppendProperties
<1>5. DOMAIN rows' = 1..(Len(rows) + 1)
  BY <1>2, <1>4, LenProperties
<1>6. 1..(Len(rows) + 1) = 1..Len(rows) \cup {Len(rows) + 1}
  BY <1>3
<1> QED BY <1>1, <1>2, <1>3, <1>4, <1>5, <1>6

LEMMA TransferInitInv == TransferInit => TransferInv
<1> SUFFICES ASSUME TransferInit PROVE TransferInv
  OBVIOUS
<1>1. HeldBefore \in Seq(Contents)
  BY TransferAssumption
<1>2. /\ DOMAIN HeldBefore = 1..Len(HeldBefore) /\ Len(HeldBefore) \in Nat
      /\ \A k \in DOMAIN HeldBefore : HeldBefore[k] \in Contents
  <2>1. DOMAIN HeldBefore = 1..Len(HeldBefore) /\ Len(HeldBefore) \in Nat
    BY <1>1, LenProperties
  <2> QED BY <1>1, <2>1, ElementOfSeq
<1>3. /\ DOMAIN rows = DOMAIN HeldBefore
      /\ \A k \in DOMAIN HeldBefore : /\ rows[k].content = HeldBefore[k] /\ rows[k].by = "before"
                                      /\ rows[k].status = "active"
  BY DEF TransferInit
<1>4. rows \in Seq(Row)
  <2>1. \A k \in DOMAIN HeldBefore :
          [content |-> HeldBefore[k], status |-> "active", addenda |-> {}, by |-> "before"] \in Row
    BY <1>2 DEF Row, RowStates
  <2>2. rows \in [1..Len(HeldBefore) -> Row]
    BY <1>2, <2>1 DEF TransferInit
  <2> QED BY <1>2, <2>2, SeqDef
<1>5. TransferShaped
  <2>1. parkedRows \in Seq(Payload)
    BY EmptySeq DEF TransferInit
  <2> QED BY <1>4, <2>1 DEF TransferInit, TransferShaped, Stages
<1>6. ImportOnce
  <2>1. \A k, l \in DOMAIN HeldBefore : HeldBefore[k] = HeldBefore[l] => k = l
    BY TransferAssumption
  <2> QED BY <1>3, <2>1 DEF ImportOnce
<1>7. Unheld /\ NodesMet /\ StatusesDue /\ EdgesPlaced
  BY <1>3 DEF TransferInit, Unheld, NodesMet, StatusesDue, EdgesPlaced, Stages
<1> QED BY <1>5, <1>6, <1>7 DEF TransferInv

LEMMA BeginInv ==
  ASSUME TransferInv, Begin PROVE TransferInv'
<1> USE DEF Stages
<1>1. /\ TransferShaped /\ ImportOnce /\ StatusesDue /\ at' = "scopes" /\ ahead' = {}
      /\ created' = {} /\ touched' = {} /\ UNCHANGED <<bundle, rows, parkedRows, links, scopeState>>
      /\ rowFor' = [i \in BundleNodes |-> 0]
  BY DEF TransferInv, Begin, destVars
<1>2. TransferShaped'
  BY <1>1 DEF TransferShaped, BundleNodes
<1>3. ImportOnce'
  BY <1>1 DEF ImportOnce
<1>4. Unheld' /\ NodesMet' /\ StatusesDue' /\ EdgesPlaced'
  BY <1>1 DEF Unheld, NodesMet, StatusesDue, EdgesPlaced
<1> QED BY <1>2, <1>3, <1>4 DEF TransferInv

LEMMA ScopesInv ==
  ASSUME TransferInv, NEW sc \in ImportScopes, CreateScope(sc) PROVE TransferInv'
<1> USE DEF Stages
<1>1. /\ TransferShaped /\ ImportOnce /\ StatusesDue /\ at = "scopes" /\ at' = "scopes"
      /\ scopeState' = [scopeState EXCEPT ![sc] = "open"]
      /\ UNCHANGED <<bundle, rows, parkedRows, links, ahead, created, touched, rowFor>>
  BY DEF TransferInv, CreateScope
<1>2. TransferShaped'
  BY <1>1 DEF TransferShaped, BundleNodes
<1>3. ImportOnce'
  BY <1>1 DEF ImportOnce
<1>4. Unheld' /\ NodesMet' /\ StatusesDue' /\ EdgesPlaced'
  BY <1>1 DEF Unheld, NodesMet, StatusesDue, EdgesPlaced
<1> QED BY <1>2, <1>3, <1>4 DEF TransferInv

LEMMA CheckWritableInv ==
  ASSUME TransferInv, CheckWritable PROVE TransferInv'
<1> USE DEF Stages
<1>1. /\ TransferShaped /\ ImportOnce /\ StatusesDue /\ at = "scopes" /\ at' \in {"nodes", "idle"}
      /\ ahead' = BundleNodes
      /\ UNCHANGED <<bundle, rows, parkedRows, links, scopeState, created, touched, rowFor>>
  BY DEF TransferInv, CheckWritable, destVars
<1>2. TransferShaped'
  BY <1>1 DEF TransferShaped, BundleNodes
<1>3. ImportOnce'
  BY <1>1 DEF ImportOnce
<1>4. Unheld' /\ NodesMet' /\ StatusesDue' /\ EdgesPlaced'
  BY <1>1 DEF Unheld, NodesMet, StatusesDue, EdgesPlaced, BundleNodes
<1> QED BY <1>2, <1>3, <1>4 DEF TransferInv

\* What a row says of its content, author and status stays.
SameRows ==
  /\ rows' \in Seq(Row) /\ DOMAIN rows' = DOMAIN rows
  /\ \A r \in DOMAIN rows : /\ rows'[r].content = rows[r].content /\ rows'[r].by = rows[r].by
                            /\ rows'[r].status = rows[r].status

LEMMA AddendaSet ==
  ASSUME rows \in Seq(Row), NEW r \in DOMAIN rows, NEW a \in SUBSET Contents,
         rows' = [rows EXCEPT ![r].addenda = a]
  PROVE  SameRows
<1> DEFINE new == [rows[r] EXCEPT !.addenda = a]
<1>1. rows[r] \in Row
  <2>1. DOMAIN rows = 1..Len(rows)
    BY LenProperties
  <2> QED BY <2>1, ElementOfSeq
<1>2. /\ new \in Row /\ new.content = rows[r].content /\ new.by = rows[r].by
      /\ new.status = rows[r].status
  BY <1>1 DEF Row
<1>3. rows' = [rows EXCEPT ![r] = new]
  OBVIOUS
<1> HIDE DEF new
<1> QED BY <1>2, <1>3, RowSet DEF SameRows

LEMMA Absorbed ==
  ASSUME rows \in Seq(Row), NEW c \in Contents, NEW r \in DOMAIN rows, Absorbs(c, r)
  PROVE  SameRows
<1>1. rows[r].addenda \in SUBSET Contents
  <2>1. DOMAIN rows = 1..Len(rows)
    BY LenProperties
  <2>2. rows[r] \in Row
    BY <2>1, ElementOfSeq
  <2> QED BY <2>2 DEF Row
<1>2. CASE UNCHANGED rows
  BY <1>2 DEF SameRows
<1>3. CASE rows' = [rows EXCEPT ![r].addenda = @ \cup {c}]
  <2> DEFINE a == rows[r].addenda \cup {c}
  <2>1. a \in SUBSET Contents /\ rows' = [rows EXCEPT ![r].addenda = a]
    BY <1>1, <1>3
  <2> HIDE DEF a
  <2> QED BY <2>1, AddendaSet
<1> QED BY <1>2, <1>3 DEF Absorbs

\* A parked payload that is closed keeps its content.
LEMMA Closed ==
  ASSUME parkedRows \in Seq(Payload), NEW p,
         parkedRows' = [parkedRows EXCEPT ![p].open = FALSE]
  PROVE  /\ parkedRows' \in Seq(Payload)
         /\ \A k \in DOMAIN parkedRows : k \in DOMAIN parkedRows' /\ parkedRows'[k].content = parkedRows[k].content
<1>1. DOMAIN parkedRows = 1..Len(parkedRows) /\ Len(parkedRows) \in Nat
  BY LenProperties
<1>2. \A k \in DOMAIN parkedRows : parkedRows[k] \in Payload
  BY <1>1, ElementOfSeq
<1>3. \A k \in DOMAIN parkedRows :
        [parkedRows[k] EXCEPT !.open = FALSE] \in Payload /\ [parkedRows[k] EXCEPT !.open = FALSE].content = parkedRows[k].content
  BY <1>2 DEF Payload
<1>4. parkedRows = [k \in DOMAIN parkedRows |-> parkedRows[k]]
  BY LenProperties
<1>5. parkedRows' \in [1..Len(parkedRows) -> Payload]
  BY <1>1, <1>2, <1>3, <1>4
<1>6. parkedRows' \in Seq(Payload)
  BY <1>1, <1>5, SeqDef
<1> QED BY <1>1, <1>2, <1>3, <1>4, <1>6

\* A step that makes no row and is not of the status pass owes no status.
LEMMA StatusesStay ==
  ASSUME TransferShaped, StatusesDue, SameRows, created' = created,
         at \in Stages \ {"idle", "statuses", "ended"}, at' \in Stages \ {"idle", "statuses", "ended"}
  PROVE  StatusesDue'
<1>1. created \subseteq DOMAIN rows
  BY DEF TransferShaped
<1>2. /\ \A r \in DOMAIN rows : rows[r].by = "before" => rows[r].status = "active"
      /\ \A r \in created : rows[r].status = "active"
  BY DEF StatusesDue
<1>3. /\ \A r \in DOMAIN rows' : rows'[r].by = "before" => rows'[r].status = "active"
      /\ \A r \in created' : rows'[r].status = "active"
  BY <1>1, <1>2 DEF SameRows
<1>4. at' \notin {"statuses", "ended"}
  OBVIOUS
<1> QED BY <1>3, <1>4 DEF StatusesDue

\* A step of the first pass that makes no row: node n is accounted for and passed.
LEMMA PassedInv ==
  ASSUME TransferInv, at = "nodes", NEW n \in ahead, NextNode(n), SameRows,
         UNCHANGED <<bundle, links, scopeState, created, closed>>,
         parkedRows' \in Seq(Payload),
         \A p \in DOMAIN parkedRows : p \in DOMAIN parkedRows' /\ parkedRows'[p].content = parkedRows[p].content,
         touched' \subseteq DOMAIN rows, rowFor' \in [BundleNodes -> {0} \cup DOMAIN rows],
         \A m \in BundleNodes : m # n => rowFor'[m] = rowFor[m],
         Accounted(n)'
  PROVE  TransferInv'
<1> USE DEF Stages
<1>1. /\ TransferShaped /\ ImportOnce /\ StatusesDue /\ NodesMet /\ at' = "nodes" /\ ahead' = ahead \ {n}
  BY DEF TransferInv, NextNode
<1>2. TransferShaped'
  BY <1>1 DEF TransferShaped, BundleNodes, SameRows
<1>3. ImportOnce'
  BY <1>1 DEF ImportOnce, SameRows
<1>4. NodesMet'
  <2>1. ASSUME NEW m \in BundleNodes, m \notin ahead', m # n PROVE Accounted(m)'
    <3>1. Accounted(m)
      BY <1>1, <2>1 DEF NodesMet
    <3>2. rowFor[m] \in {0} \cup DOMAIN rows
      BY <1>1, <2>1 DEF TransferShaped
    <3>3. /\ rowFor'[m] = rowFor[m] /\ bundle' = bundle /\ closed' = closed
          /\ rowFor[m] # 0 => rows'[rowFor[m]].content = rows[rowFor[m]].content
      BY <2>1, <3>2 DEF SameRows
    <3>4. \A p \in DOMAIN parkedRows : p \in DOMAIN parkedRows' /\ parkedRows'[p].content = parkedRows[p].content
      OBVIOUS
    <3>5. CASE bundle.nodes[m].status = "merged"
      BY <3>3, <3>5 DEF Accounted, Keeps
    <3>6. CASE rowFor[m] # 0 /\ Keeps(Content(m), rowFor[m])
      BY <3>3, <3>6 DEF Accounted, Keeps, Content
    <3>7. CASE \E p \in DOMAIN parkedRows : parkedRows[p].content = Content(m)
      BY <3>3, <3>4, <3>7 DEF Accounted, Keeps, Content
    <3>8. CASE ScopeOf[Content(m)] \in closed
      BY <3>3, <3>8 DEF Accounted, Keeps, Content
    <3> QED BY <3>1, <3>5, <3>6, <3>7, <3>8 DEF Accounted, Keeps
  <2>2. ahead \subseteq BundleNodes /\ BundleNodes' = BundleNodes
    BY <1>1 DEF TransferShaped, BundleNodes
  <2> QED BY <1>1, <2>1, <2>2 DEF NodesMet
<1>5. Unheld' /\ EdgesPlaced'
  BY <1>1 DEF Unheld, EdgesPlaced
<1>6. StatusesDue'
  BY <1>1, StatusesStay
<1> QED BY <1>2, <1>3, <1>4, <1>5, <1>6 DEF TransferInv

\* A step of the first pass that makes a row of a content no row has.
LEMMA InsertedInv ==
  ASSUME TransferInv, at \in {"nodes", "resolve"}, NEW n \in ahead, NextNode(n),
         Stores(Content(n), "import"), Take(n, Len(rows) + 1),
         \A r \in DOMAIN rows : rows[r].content # Content(n),
         created' = created \cup {Len(rows) + 1},
         UNCHANGED <<bundle, links, scopeState, closed>>,
         parkedRows' \in Seq(Payload),
         \A p \in DOMAIN parkedRows : p \in DOMAIN parkedRows' /\ parkedRows'[p].content = parkedRows[p].content
  PROVE  TransferInv'
<1> USE DEF Stages
<1>1. /\ TransferShaped /\ ImportOnce /\ StatusesDue /\ NodesMet /\ at' = "nodes" /\ ahead' = ahead \ {n}
  BY DEF TransferInv, NextNode
<1>2. /\ ahead \subseteq BundleNodes /\ BundleNodes' = BundleNodes /\ n \in BundleNodes
      /\ Content(n) \in Contents /\ rows \in Seq(Row) /\ Content(n)' = Content(n)
  BY <1>1, BundleFacts DEF TransferShaped, BundleNodes, Content
<1> DEFINE new == Len(rows) + 1
<1>3. /\ rows' \in Seq(Row) /\ DOMAIN rows' = DOMAIN rows \cup {new}
      /\ \A t \in DOMAIN rows : t # new /\ t < new /\ rows'[t] = rows[t]
      /\ rows'[new].content = Content(n) /\ rows'[new].by = "import"
      /\ rows'[new].status = "active" /\ new \in Nat /\ new # 0
  <2> DEFINE c == Content(n)
             by == "import"
  <2>1. c \in Contents /\ by \in {"before", "import", "principal"} /\ Stores(c, by) /\ rows \in Seq(Row)
    BY <1>2
  <2> HIDE DEF c, by
  <2>2. /\ rows' \in Seq(Row) /\ DOMAIN rows' = DOMAIN rows \cup {Len(rows) + 1}
        /\ \A t \in DOMAIN rows : t # Len(rows) + 1 /\ t < Len(rows) + 1 /\ rows'[t] = rows[t]
        /\ rows'[Len(rows) + 1].content = c /\ rows'[Len(rows) + 1].by = by
        /\ rows'[Len(rows) + 1].status = "active" /\ Len(rows) \in Nat
    BY <2>1, RowAdded
  <2> QED BY <2>2 DEF c, by
<1>4. /\ rowFor' = [rowFor EXCEPT ![n] = new] /\ touched' = touched \cup {new}
      /\ created' = created \cup {new} /\ rowFor \in [BundleNodes -> {0} \cup DOMAIN rows]
  BY <1>1 DEF Take, TransferShaped
<1> HIDE DEF new
<1>5. TransferShaped'
  <2>1. rowFor' \in [BundleNodes -> {0} \cup DOMAIN rows']
    BY <1>2, <1>3, <1>4
  <2> QED BY <1>1, <1>2, <1>3, <1>4, <2>1 DEF TransferShaped
<1>6. ImportOnce'
  BY <1>1, <1>3 DEF ImportOnce
<1>7. NodesMet'
  <2>1. ASSUME NEW m \in BundleNodes, m \notin ahead', m # n PROVE Accounted(m)'
    <3>1. Accounted(m)
      BY <1>1, <2>1 DEF NodesMet
    <3>2. rowFor[m] \in {0} \cup DOMAIN rows /\ rowFor'[m] = rowFor[m]
      BY <1>4, <2>1
    <3> QED BY <1>3, <2>1, <3>1, <3>2 DEF Accounted, Keeps, Content
  <2>2. Accounted(n)'
    <3>1. rowFor'[n] = new
      BY <1>2, <1>4
    <3> QED BY <1>2, <1>3, <1>1, <3>1 DEF Accounted, Keeps, Content
  <2> QED BY <1>1, <1>2, <2>1, <2>2 DEF NodesMet
<1>8. Unheld' /\ EdgesPlaced'
  BY <1>1 DEF Unheld, EdgesPlaced
<1>9. StatusesDue'
  BY <1>1, <1>3, <1>4 DEF StatusesDue, TransferShaped
<1> QED BY <1>5, <1>6, <1>7, <1>8, <1>9 DEF TransferInv

LEMMA FirstPassInv ==
  ASSUME TransferInv, NEW n \in ahead,
         \/ SkipNode(n) \/ MatchNode(n) \/ WriteInserts(n) \/ WriteParks(n)
         \/ (\E r \in DOMAIN rows : WriteMerges(n, r)) \/ ResolveDistinct(n)
  PROVE  TransferInv'
<1>1. /\ TransferShaped /\ Unheld /\ rows \in Seq(Row) /\ parkedRows \in Seq(Payload)
      /\ n \in BundleNodes /\ Content(n) \in Contents
      /\ at # "idle" => rowFor \in [BundleNodes -> {0} \cup DOMAIN rows]
      /\ touched \subseteq DOMAIN rows
  BY BundleFacts DEF TransferInv, TransferShaped
<1>2. DOMAIN rows = 1..Len(rows) /\ Len(rows) \in Nat /\ DOMAIN parkedRows = 1..Len(parkedRows)
      /\ Len(parkedRows) \in Nat
  BY <1>1, LenProperties
<1>3. CASE SkipNode(n)
  <2>1. SameRows
    BY <1>1, <1>3 DEF SkipNode, SameRows, destVars
  <2>2. Accounted(n)'
    BY <1>3 DEF SkipNode, Accounted, Keeps, Content, destVars
  <2> QED BY <1>1, <1>3, <2>1, <2>2, PassedInv DEF SkipNode, destVars
<1>4. CASE MatchNode(n)
  <2>1. PICK r \in Matches(Content(n)) : Take(n, r)
    BY <1>4 DEF MatchNode
  <2>2. /\ r \in DOMAIN rows /\ rows[r].content = Content(n) /\ r # 0
        /\ rowFor' = [rowFor EXCEPT ![n] = r] /\ touched' = touched \cup {r}
    BY <1>2, <2>1 DEF Matches, Take
  <2>3. /\ at = "nodes" /\ NextNode(n) /\ UNCHANGED <<bundle, rows, parkedRows, links, scopeState, created, closed>>
    BY <1>4 DEF MatchNode, destVars
  <2>4. SameRows
    BY <1>1, <2>3 DEF SameRows
  <2>5. /\ rowFor' \in [BundleNodes -> {0} \cup DOMAIN rows] /\ rowFor'[n] = r
        /\ \A m \in BundleNodes : m # n => rowFor'[m] = rowFor[m]
    BY <1>1, <2>2, <2>3
  <2>6. Accounted(n)'
    BY <2>2, <2>3, <2>5 DEF Accounted, Keeps, Content
  <2> QED BY <1>1, <2>2, <2>3, <2>4, <2>5, <2>6, PassedInv
<1>5. CASE WriteInserts(n)
  <2>1. \A r \in DOMAIN rows : rows[r].content # Content(n)
    BY <1>5 DEF WriteInserts, WriteDue, Matches
  <2> QED BY <1>1, <1>5, <2>1, InsertedInv DEF WriteInserts, WriteDue
<1>6. ASSUME NEW r \in DOMAIN rows, WriteMerges(n, r) PROVE TransferInv'
  <2>1. /\ at = "nodes" /\ NextNode(n) /\ Absorbs(Content(n), r)
        /\ UNCHANGED <<bundle, parkedRows, links, scopeState, created, closed>>
        /\ rowFor' = [rowFor EXCEPT ![n] = r] /\ touched' = touched \cup {r}
        /\ Compare[Content(n)][rows[r].content] = "high"
    BY <1>6 DEF WriteMerges, WriteDue, Take, Judged
  <2>2. SameRows
    BY <1>1, <2>1, Absorbed
  <2>3. /\ rowFor' \in [BundleNodes -> {0} \cup DOMAIN rows] /\ rowFor'[n] = r /\ r # 0
        /\ \A m \in BundleNodes : m # n => rowFor'[m] = rowFor[m]
    BY <1>1, <1>2, <2>1
  <2>4. Accounted(n)'
    BY <2>1, <2>2, <2>3 DEF Accounted, Keeps, Content, SameRows
  <2> QED BY <1>1, <2>1, <2>2, <2>3, <2>4, PassedInv
<1>7. CASE WriteParks(n)
  <2> DEFINE p == [content |-> Content(n), open |-> TRUE]
  <2>1. /\ parkedRows' = Append(parkedRows, p) /\ at = "nodes" /\ Meets(n)
        /\ bundle.nodes[n].status # "merged" /\ Matches(Content(n)) = {}
        /\ UNCHANGED <<bundle, rows, links, scopeState, rowFor, created, touched, closed>>
        /\ (at' = "resolve" /\ ahead' = ahead) \/ NextNode(n)
    BY <1>7 DEF WriteParks, WriteDue
  <2>2. p \in Payload /\ p.content = Content(n)
    BY <1>1 DEF Payload
  <2> HIDE DEF p
  <2>3. /\ parkedRows' \in Seq(Payload) /\ Len(parkedRows) + 1 \in DOMAIN parkedRows'
        /\ parkedRows'[Len(parkedRows) + 1] = p
        /\ \A k \in DOMAIN parkedRows : k \in DOMAIN parkedRows' /\ parkedRows'[k].content = parkedRows[k].content
    <3>1. /\ Append(parkedRows, p) \in Seq(Payload) /\ Len(Append(parkedRows, p)) = Len(parkedRows) + 1
          /\ \A i \in 1..Len(parkedRows) : Append(parkedRows, p)[i] = parkedRows[i]
          /\ Append(parkedRows, p)[Len(parkedRows) + 1] = p
      BY <1>1, <2>2, AppendProperties
    <3>2. DOMAIN parkedRows' = 1..(Len(parkedRows) + 1)
      BY <2>1, <3>1, LenProperties
    <3> QED BY <1>2, <2>1, <3>1, <3>2
  <2>4. Accounted(n)'
    BY <2>1, <2>2, <2>3 DEF Accounted, Keeps, Content
  <2>5. SameRows
    BY <1>1, <2>1 DEF SameRows
  <2>6. CASE NextNode(n)
    BY <1>1, <2>1, <2>3, <2>4, <2>5, <2>6, PassedInv
  <2>7. CASE at' = "resolve" /\ ahead' = ahead
    <3> USE DEF Stages
    <3>1. TransferShaped'
      BY <1>1, <2>1, <2>3, <2>7 DEF TransferShaped, BundleNodes
    <3>2. ImportOnce' /\ StatusesDue' /\ EdgesPlaced'
      BY <2>1, <2>7 DEF TransferInv, ImportOnce, StatusesDue, EdgesPlaced
    <3>3. NodesMet'
      <4>1. ASSUME NEW m \in BundleNodes, Accounted(m) PROVE Accounted(m)'
        BY <2>1, <2>3, <4>1 DEF Accounted, Keeps, Content
      <4> QED BY <2>1, <2>7, <4>1 DEF TransferInv, NodesMet, BundleNodes
    <3>4. Unheld'
      <4> SUFFICES ASSUME NEW m \in ahead, Meets(m)
                   PROVE  /\ bundle.nodes[m].status # "merged"
                          /\ \A r \in DOMAIN rows : rows[r].content # Content(m)
        BY <2>1, <2>7 DEF Unheld, Meets, Content
      <4>1. m = n
        BY <1>1, <2>1, BundleFacts DEF Meets, TransferShaped
      <4> QED BY <2>1, <4>1 DEF Matches
    <3> QED BY <3>1, <3>2, <3>3, <3>4 DEF TransferInv
  <2> QED BY <2>1, <2>6, <2>7
<1>8. CASE ResolveDistinct(n)
  <2>1. /\ at = "resolve" /\ Meets(n) /\ parkedRows' = [parkedRows EXCEPT ![Len(parkedRows)].open = FALSE]
    BY <1>8 DEF ResolveDistinct
  <2>2. \A r \in DOMAIN rows : rows[r].content # Content(n)
    BY <1>1, <2>1 DEF Unheld
  <2>3. /\ parkedRows' \in Seq(Payload)
        /\ \A k \in DOMAIN parkedRows : k \in DOMAIN parkedRows' /\ parkedRows'[k].content = parkedRows[k].content
    BY <1>1, <2>1, Closed
  <2> QED BY <1>1, <1>8, <2>1, <2>2, <2>3, InsertedInv DEF ResolveDistinct
<1> QED BY <1>3, <1>4, <1>5, <1>6, <1>7, <1>8

\* The passes over nodes that follow the first: nothing but the walk moves.
LEMMA NextPassInv ==
  ASSUME TransferInv, NextPass PROVE TransferInv'
<1> USE DEF Stages
<1>1. /\ TransferShaped /\ ImportOnce /\ StatusesDue /\ NodesMet
      /\ ahead = {} /\ ahead' = BundleNodes
      /\ \/ at = "nodes" /\ at' = "merged"
         \/ at = "merged" /\ at' = "attrs"
         \/ at = "attrs" /\ at' = "edges"
      /\ UNCHANGED <<bundle, rows, parkedRows, links, scopeState, rowFor, created, touched, closed>>
  BY DEF TransferInv, NextPass, destVars
<1>2. TransferShaped'
  BY <1>1 DEF TransferShaped, BundleNodes
<1>3. ImportOnce' /\ Unheld' /\ StatusesDue' /\ EdgesPlaced'
  BY <1>1 DEF ImportOnce, Unheld, StatusesDue, EdgesPlaced
<1>4. NodesMet'
  <2>1. ASSUME NEW m \in BundleNodes PROVE Accounted(m)'
    <3>1. Accounted(m)
      BY <1>1 DEF NodesMet
    <3> QED BY <1>1, <3>1 DEF Accounted, Keeps, Content
  <2> QED BY <1>1, <2>1 DEF NodesMet, BundleNodes
<1> QED BY <1>2, <1>3, <1>4 DEF TransferInv

LEMMA MapMergedInv ==
  ASSUME TransferInv, NEW n \in ahead, MapMerged(n) PROVE TransferInv'
<1> USE DEF Stages
<1>1. /\ TransferShaped /\ ImportOnce /\ StatusesDue /\ NodesMet
      /\ at = "merged" /\ at' = "merged" /\ ahead' = ahead \ {n}
      /\ UNCHANGED <<bundle, rows, parkedRows, links, scopeState, created, touched, closed>>
  BY DEF TransferInv, MapMerged, destVars
<1>2. n \in BundleNodes /\ rowFor \in [BundleNodes -> {0} \cup DOMAIN rows]
  BY <1>1 DEF TransferShaped
<1>3. /\ rowFor' \in [BundleNodes -> {0} \cup DOMAIN rows]
      /\ \A m \in BundleNodes : bundle.nodes[m].status # "merged" => rowFor'[m] = rowFor[m]
  BY <1>2 DEF MapMerged
<1>4. TransferShaped'
  BY <1>1, <1>3 DEF TransferShaped, BundleNodes
<1>5. ImportOnce' /\ Unheld' /\ StatusesDue' /\ EdgesPlaced'
  BY <1>1 DEF ImportOnce, Unheld, StatusesDue, EdgesPlaced
<1>6. NodesMet'
  <2>1. ASSUME NEW m \in BundleNodes PROVE Accounted(m)'
    <3>1. Accounted(m)
      BY <1>1 DEF NodesMet
    <3> QED BY <1>1, <1>3, <3>1 DEF Accounted, Keeps, Content
  <2> QED BY <1>1, <2>1 DEF NodesMet, BundleNodes
<1> QED BY <1>4, <1>5, <1>6 DEF TransferInv

LEMMA RestoreAttrsInv ==
  ASSUME TransferInv, NEW n \in ahead, RestoreAttrs(n) PROVE TransferInv'
<1> USE DEF Stages
<1>1. /\ TransferShaped /\ ImportOnce /\ StatusesDue /\ NodesMet
      /\ at = "attrs" /\ at' = "attrs" /\ ahead' = ahead \ {n}
      /\ UNCHANGED <<bundle, parkedRows, links, scopeState, rowFor, created, touched, closed>>
  BY DEF TransferInv, RestoreAttrs
<1>2. SameRows
  <2>1. rows \in Seq(Row) /\ created \subseteq DOMAIN rows /\ n \in BundleNodes
    BY <1>1 DEF TransferShaped
  <2>2. bundle.nodes[n].addenda \in SUBSET Contents
    BY <1>1, <2>1, BundleFacts DEF TransferShaped, Node
  <2>3. CASE UNCHANGED rows
    BY <2>1, <2>3 DEF SameRows
  <2>4. CASE /\ rowFor[n] \in created
             /\ rows' = [rows EXCEPT ![rowFor[n]].addenda = bundle.nodes[n].addenda]
    <3> DEFINE r == rowFor[n]
               a == bundle.nodes[n].addenda
    <3>1. r \in DOMAIN rows /\ a \in SUBSET Contents /\ rows' = [rows EXCEPT ![r].addenda = a]
      BY <2>1, <2>2, <2>4
    <3> HIDE DEF r, a
    <3> QED BY <2>1, <3>1, AddendaSet
  <2> QED BY <2>3, <2>4 DEF RestoreAttrs
<1>3. TransferShaped'
  BY <1>1, <1>2 DEF TransferShaped, BundleNodes, SameRows
<1>4. ImportOnce'
  BY <1>1, <1>2 DEF ImportOnce, SameRows
<1>5. Unheld' /\ EdgesPlaced'
  BY <1>1 DEF Unheld, EdgesPlaced
<1>6. StatusesDue'
  BY <1>1, <1>2, StatusesStay
<1>7. NodesMet'
  <2>1. ASSUME NEW m \in BundleNodes PROVE Accounted(m)'
    <3>1. Accounted(m) /\ rowFor[m] \in {0} \cup DOMAIN rows
      BY <1>1 DEF NodesMet, TransferShaped
    <3> QED BY <1>1, <1>2, <3>1 DEF Accounted, Keeps, Content, SameRows
  <2> QED BY <1>1, <2>1 DEF NodesMet, BundleNodes
<1> QED BY <1>3, <1>4, <1>5, <1>6, <1>7 DEF TransferInv

LEMMA AttachEdgeInv ==
  ASSUME TransferInv, NEW e \in bundle.edges, AttachEdge(e) PROVE TransferInv'
<1> USE DEF Stages
<1>1. /\ TransferShaped /\ ImportOnce /\ StatusesDue /\ NodesMet
      /\ at = "edges" /\ links' = links \cup {Placed(e)} /\ Attachable(e)
      /\ UNCHANGED <<bundle, rows, parkedRows, scopeState, at, ahead, rowFor, created, touched, closed>>
  BY DEF TransferInv, AttachEdge, importVars
<1>2. {Placed(e)[1], Placed(e)[2]} \subseteq DOMAIN rows
  <2>1. e[1] \in BundleNodes /\ e[2] \in BundleNodes
    BY <1>1, BundleFacts DEF TransferShaped
  <2> QED BY <1>1, <2>1 DEF Placed, Attachable, TransferShaped
<1>3. TransferShaped'
  BY <1>1, <1>2 DEF TransferShaped, BundleNodes
<1>4. ImportOnce' /\ Unheld' /\ StatusesDue' /\ EdgesPlaced'
  BY <1>1 DEF ImportOnce, Unheld, StatusesDue, EdgesPlaced
<1>5. NodesMet'
  <2>1. ASSUME NEW m \in BundleNodes PROVE Accounted(m)'
    <3>1. Accounted(m)
      BY <1>1 DEF NodesMet
    <3> QED BY <1>1, <3>1 DEF Accounted, Keeps, Content
  <2> QED BY <1>1, <2>1 DEF NodesMet, BundleNodes
<1> QED BY <1>3, <1>4, <1>5 DEF TransferInv

LEMMA EdgesDoneInv ==
  ASSUME TransferInv, EdgesDone PROVE TransferInv'
<1> USE DEF Stages
<1>1. /\ TransferShaped /\ ImportOnce /\ StatusesDue /\ NodesMet
      /\ at = "edges" /\ at' = "statuses" /\ ahead' = BundleNodes
      /\ \A e \in bundle.edges : Attachable(e) => Placed(e) \in links
      /\ UNCHANGED <<bundle, rows, parkedRows, links, scopeState, rowFor, created, touched, closed>>
  BY DEF TransferInv, EdgesDone, destVars
<1>2. TransferShaped'
  BY <1>1 DEF TransferShaped, BundleNodes
<1>3. ImportOnce' /\ Unheld'
  BY <1>1 DEF ImportOnce, Unheld
<1>4. StatusesDue'
  BY <1>1 DEF StatusesDue, Origins, BundleNodes
<1>5. EdgesPlaced'
  BY <1>1 DEF EdgesPlaced, Attachable, Placed
<1>6. NodesMet'
  <2>1. ASSUME NEW m \in BundleNodes PROVE Accounted(m)'
    <3>1. Accounted(m)
      BY <1>1 DEF NodesMet
    <3> QED BY <1>1, <3>1 DEF Accounted, Keeps, Content
  <2> QED BY <1>1, <2>1 DEF NodesMet, BundleNodes
<1> QED BY <1>2, <1>3, <1>4, <1>5, <1>6 DEF TransferInv

LEMMA RestoreStatusInv ==
  ASSUME TransferInv, NEW n \in ahead, RestoreStatus(n) PROVE TransferInv'
<1> USE DEF Stages
<1> DEFINE to == bundle.nodes[n].status
           r == rowFor[n]
<1>1. /\ TransferShaped /\ ImportOnce /\ StatusesDue /\ NodesMet /\ EdgesPlaced
      /\ at = "statuses" /\ at' = "statuses" /\ ahead' = ahead \ {n}
      /\ UNCHANGED <<bundle, parkedRows, links, scopeState, rowFor, created, touched, closed>>
      /\ rows' = IF /\ to \in {"superseded", "archived"} /\ r \in created /\ rows[r].status = "active"
                 THEN [rows EXCEPT ![r].status = to] ELSE rows
  BY DEF TransferInv, RestoreStatus, Restorable, Owed
<1>2. /\ rows \in Seq(Row) /\ created \subseteq DOMAIN rows /\ n \in BundleNodes
      /\ to \in {"active", "superseded", "archived", "merged"}
      /\ rowFor \in [BundleNodes -> {0} \cup DOMAIN rows]
  BY <1>1, BundleFacts DEF TransferShaped, Node
<1> HIDE DEF to, r
<1>3. /\ rows' \in Seq(Row) /\ DOMAIN rows' = DOMAIN rows
      /\ \A t \in DOMAIN rows : /\ rows'[t].content = rows[t].content /\ rows'[t].by = rows[t].by
                                /\ rows'[t].status = IF /\ t = r /\ to \in {"superseded", "archived"}
                                                        /\ r \in created /\ rows[r].status = "active"
                                                     THEN to ELSE rows[t].status
  <2>1. CASE to \in {"superseded", "archived"} /\ r \in created /\ rows[r].status = "active"
    <3> DEFINE new == [rows[r] EXCEPT !.status = to]
    <3>1. r \in DOMAIN rows
      BY <1>2, <2>1
    <3>2. rows[r] \in Row
      <4>1. DOMAIN rows = 1..Len(rows)
        BY <1>2, LenProperties
      <4> QED BY <1>2, <3>1, <4>1, ElementOfSeq
    <3>3. /\ new \in Row /\ new.content = rows[r].content /\ new.by = rows[r].by /\ new.status = to
      BY <2>1, <3>2 DEF Row, RowStates
    <3>4. rows' = [rows EXCEPT ![r] = new]
      BY <1>1, <2>1
    <3> HIDE DEF new
    <3>5. /\ rows' \in Seq(Row) /\ DOMAIN rows' = DOMAIN rows
          /\ rows'[r] = new /\ \A t \in DOMAIN rows : t # r => rows'[t] = rows[t]
      BY <1>2, <3>1, <3>3, <3>4, RowSet
    <3> QED BY <2>1, <3>3, <3>5
  <2>2. CASE ~(to \in {"superseded", "archived"} /\ r \in created /\ rows[r].status = "active")
    BY <1>1, <1>2, <2>2
  <2> QED BY <2>1, <2>2
<1>4. TransferShaped'
  BY <1>1, <1>3 DEF TransferShaped, BundleNodes
<1>5. ImportOnce'
  BY <1>1, <1>3 DEF ImportOnce
<1>6. Unheld'
  BY <1>1 DEF Unheld
<1>7. EdgesPlaced'
  <2> SUFFICES ASSUME NEW e \in bundle.edges, e[3], rowFor[e[1]] # 0, rowFor[e[2]] # 0, rowFor[e[1]] # rowFor[e[2]]
               PROVE  \/ Placed(e) \in links
                      \/ rows'[rowFor[e[1]]].status = "archived" \/ rows'[rowFor[e[2]]].status = "archived"
    BY <1>1 DEF EdgesPlaced, Placed
  <2>1. rowFor[e[1]] \in DOMAIN rows /\ rowFor[e[2]] \in DOMAIN rows
    <3>1. e[1] \in BundleNodes /\ e[2] \in BundleNodes
      BY <1>1, BundleFacts DEF TransferShaped
    <3> QED BY <1>2, <3>1
  <2>2. \/ Placed(e) \in links
        \/ rows[rowFor[e[1]]].status = "archived" \/ rows[rowFor[e[2]]].status = "archived"
    BY <1>1 DEF EdgesPlaced
  <2> QED BY <1>3, <2>1, <2>2
<1>8. StatusesDue'
  <2>1. \A t \in DOMAIN rows' : rows'[t].by = "before" => rows'[t].status = "active"
    BY <1>1, <1>3 DEF StatusesDue, TransferShaped
  <2>2. ASSUME NEW t \in created
        PROVE  (rows'[t].status = "active") <=>
                 (\A m \in Origins(t) \ (ahead \ {n}) : bundle.nodes[m].status = "active")
    <3>1. (rows[t].status = "active") <=> (\A m \in Origins(t) \ ahead : bundle.nodes[m].status = "active")
      BY <1>1 DEF StatusesDue
    <3>2. n \in Origins(t) <=> t = r /\ to # "merged"
      BY <1>2 DEF Origins, r, to
    <3>3. t \in DOMAIN rows
      BY <1>2
    <3>4. CASE t = r /\ to # "merged"
      <4>1. (\A m \in Origins(t) \ (ahead \ {n}) : bundle.nodes[m].status = "active")
              <=> to = "active" /\ (\A m \in Origins(t) \ ahead : bundle.nodes[m].status = "active")
        BY <3>2, <3>4 DEF to
      <4> QED BY <1>2, <1>3, <3>1, <3>3, <3>4, <4>1
    <3>5. CASE ~(t = r /\ to # "merged")
      <4>1. Origins(t) \ (ahead \ {n}) = Origins(t) \ ahead
        BY <3>2, <3>5
      <4>2. rows'[t].status = rows[t].status
        BY <1>3, <3>3, <3>5
      <4> QED BY <3>1, <4>1, <4>2
    <3> QED BY <3>4, <3>5
  <2>3. \A t : Origins(t)' = Origins(t)
    BY <1>1 DEF Origins, BundleNodes
  <2> QED BY <1>1, <2>1, <2>2, <2>3 DEF StatusesDue
<1>9. NodesMet'
  <2>1. ASSUME NEW m \in BundleNodes PROVE Accounted(m)'
    <3>1. Accounted(m) /\ rowFor[m] \in {0} \cup DOMAIN rows
      BY <1>1 DEF NodesMet, TransferShaped
    <3> QED BY <1>1, <1>3, <3>1 DEF Accounted, Keeps, Content
  <2> QED BY <1>1, <2>1 DEF NodesMet, BundleNodes
<1> QED BY <1>4, <1>5, <1>6, <1>7, <1>8, <1>9 DEF TransferInv

\* An import ends, by its own last step or because it dies.
LEMMA EndsInv ==
  ASSUME TransferInv, ArchiveScopes \/ Leave \/ ImportDies PROVE TransferInv'
<1> USE DEF Stages
<1>1. /\ TransferShaped /\ ImportOnce /\ StatusesDue /\ NodesMet /\ EdgesPlaced
      /\ UNCHANGED <<bundle, rows, parkedRows, links, ahead, rowFor, created, touched, closed>>
      /\ \/ at = "statuses" /\ ahead = {} /\ at' = "ended"
         \/ at' = "idle"
  BY DEF TransferInv, ArchiveScopes, Leave, ImportDies, destVars
<1>2. scopeState' \in [ImportScopes -> {"none", "open", "archived"}]
  BY <1>1 DEF TransferShaped, ArchiveScopes, Leave, ImportDies, destVars
<1>3. TransferShaped'
  <2>1. at # "idle" \/ at' = "idle"
    BY <1>1
  <2> QED BY <1>1, <1>2, <2>1 DEF TransferShaped, BundleNodes
<1>4. ImportOnce' /\ Unheld' /\ StatusesDue' /\ EdgesPlaced'
  BY <1>1 DEF ImportOnce, Unheld, StatusesDue, EdgesPlaced, Origins, BundleNodes, Placed
<1>5. NodesMet'
  <2>1. ASSUME NEW m \in BundleNodes, Accounted(m) PROVE Accounted(m)'
    BY <1>1, <2>1 DEF Accounted, Keeps, Content
  <2> QED BY <1>1, <2>1 DEF NodesMet, BundleNodes
<1> QED BY <1>3, <1>4, <1>5 DEF TransferInv

\* Between imports: what the principal stores comes after all that imports made.
LEMMA PrincipalInv ==
  ASSUME TransferInv, NEW p \in DOMAIN parkedRows, PrincipalResolves(p) PROVE TransferInv'
<1> USE DEF Stages
<1> DEFINE c == parkedRows[p].content
<1>1. /\ TransferShaped /\ ImportOnce /\ StatusesDue /\ at = "idle"
      /\ UNCHANGED <<bundle, links, scopeState, at, ahead, rowFor, created, touched, closed>>
      /\ parkedRows' = [parkedRows EXCEPT ![p].open = FALSE]
      /\ Stores(c, "principal") \/ \E r \in ActiveRows : Absorbs(c, r)
  BY DEF TransferInv, PrincipalResolves, importVars
<1>2. rows \in Seq(Row) /\ parkedRows \in Seq(Payload) /\ parkedRows' \in Seq(Payload)
  BY <1>1, Closed DEF TransferShaped
<1>3. c \in Contents
  <2>1. DOMAIN parkedRows = 1..Len(parkedRows)
    BY <1>2, LenProperties
  <2>2. parkedRows[p] \in Payload
    BY <1>2, <2>1, ElementOfSeq
  <2> QED BY <2>2 DEF Payload
<1> HIDE DEF c
<1>4. Unheld' /\ NodesMet' /\ EdgesPlaced'
  BY <1>1 DEF Unheld, NodesMet, EdgesPlaced
<1>5. CASE Stores(c, "principal")
  <2> DEFINE new == Len(rows) + 1
             by == "principal"
  <2>1. by \in {"before", "import", "principal"} /\ Stores(c, by)
    BY <1>5
  <2> HIDE DEF by
  <2>2. /\ rows' \in Seq(Row) /\ DOMAIN rows' = DOMAIN rows \cup {new}
        /\ \A t \in DOMAIN rows : t # new /\ t < new /\ rows'[t] = rows[t]
        /\ rows'[new].content = c /\ rows'[new].by = by /\ new \in Nat
    <3>1. /\ rows' \in Seq(Row) /\ DOMAIN rows' = DOMAIN rows \cup {Len(rows) + 1}
          /\ \A t \in DOMAIN rows : t # Len(rows) + 1 /\ t < Len(rows) + 1 /\ rows'[t] = rows[t]
          /\ rows'[Len(rows) + 1].content = c /\ rows'[Len(rows) + 1].by = by
          /\ Len(rows) \in Nat
      BY <1>2, <1>3, <2>1, RowAdded
    <3> QED BY <3>1
  <2>3. by = "principal"
    BY DEF by
  <2> HIDE DEF new
  <2>4. TransferShaped'
    BY <1>1, <1>2, <2>2 DEF TransferShaped, BundleNodes
  <2>5. ImportOnce'
    <3>1. \A r \in DOMAIN rows' : rows'[r].by = "import" => r \in DOMAIN rows
      BY <2>2, <2>3
    <3>2. \A r \in DOMAIN rows : rows[r].by = "import" =>
            \A t \in DOMAIN rows' : rows'[t].content = rows[r].content => t >= r
      <4>1. \A r \in DOMAIN rows : r \in Nat
        BY <1>2, LenProperties
      <4> QED BY <1>1, <2>2, <4>1 DEF ImportOnce
    <3> QED BY <2>2, <3>1, <3>2 DEF ImportOnce
  <2>6. StatusesDue'
    BY <1>1, <2>2, <2>3 DEF StatusesDue
  <2> QED BY <1>4, <2>4, <2>5, <2>6 DEF TransferInv
<1>6. ASSUME NEW r \in ActiveRows, Absorbs(c, r) PROVE TransferInv'
  <2>1. r \in DOMAIN rows
    BY DEF ActiveRows
  <2>2. SameRows
    BY <1>2, <1>3, <1>6, <2>1, Absorbed
  <2>3. TransferShaped'
    BY <1>1, <1>2, <2>2 DEF TransferShaped, BundleNodes, SameRows
  <2>4. ImportOnce' /\ StatusesDue'
    BY <1>1, <2>2 DEF ImportOnce, StatusesDue, SameRows
  <2> QED BY <1>4, <2>3, <2>4 DEF TransferInv
<1> QED BY <1>1, <1>5, <1>6

LEMMA TransferStepInv ==
  ASSUME TransferInv, [TransferNext]_transferVars PROVE TransferInv'
<1>1. CASE UNCHANGED transferVars
  <2>1. \A m : Accounted(m)' = Accounted(m)
    BY <1>1 DEF transferVars, destVars, importVars, Accounted, Keeps, Content
  <2> QED BY <1>1, <2>1 DEF transferVars, destVars, importVars, TransferInv, TransferShaped, ImportOnce, Unheld,
                            NodesMet, StatusesDue, EdgesPlaced, BundleNodes, Meets, Content, Origins, Placed
<1>2. CASE TransferNext
  BY <1>2, BeginInv, ScopesInv, CheckWritableInv, FirstPassInv, NextPassInv, MapMergedInv, RestoreAttrsInv,
     AttachEdgeInv, EdgesDoneInv, RestoreStatusInv, EndsInv, PrincipalInv DEF TransferNext
<1> QED BY <1>1, <1>2

LEMMA ArrivedWhole == TransferInv => ImportSafe
<1> SUFFICES ASSUME TransferInv, at = "ended" PROVE ImportFaithful
  BY DEF TransferInv, ImportSafe, ImportFaithful
<1>1. \A n \in BundleNodes : Accounted(n)
  BY DEF TransferInv, NodesMet
<1>2. ASSUME NEW e \in bundle.edges, e[3], 0 \notin {rowFor[e[1]], rowFor[e[2]]},
             Cardinality({rowFor[e[1]], rowFor[e[2]]}) = 2
      PROVE  \/ Placed(e) \in links
             \/ \E r \in {rowFor[e[1]], rowFor[e[2]]} : rows[r].status = "archived"
  <2>1. rowFor[e[1]] # rowFor[e[2]]
    <3>1. Cardinality({rowFor[e[1]]}) = 1
      BY FS_Singleton
    <3>2. rowFor[e[1]] = rowFor[e[2]] => {rowFor[e[1]], rowFor[e[2]]} = {rowFor[e[1]]}
      OBVIOUS
    <3> QED BY <1>2, <3>1, <3>2
  <2> QED BY <1>2, <2>1 DEF TransferInv, EdgesPlaced
<1>3. /\ \A r \in DOMAIN rows : rows[r].by = "before" => rows[r].status = "active"
      /\ \A r \in created :
           (rows[r].status = "active") <=> (\A n \in Origins(r) : bundle.nodes[n].status = "active")
  BY DEF TransferInv, StatusesDue
<1> QED BY <1>1, <1>2, <1>3 DEF ImportFaithful, Accounted, Keeps, Content

\* For any source space, destination and likeness of contents, however often the
\* import is killed and run again and the principal resolves what it parked: a
\* content is stored once, and what an import that ends leaves is whole.
THEOREM BundleArrives == TransferSpec => []ImportSafe
<1>1. TransferInv /\ [TransferNext]_transferVars => TransferInv'
  BY TransferStepInv
<1> QED BY TransferInitInv, <1>1, ArrivedWhole, PTL DEF TransferSpec
-----------------------------------------------------------------------------
(* The packs of a space, and the files an operator applies.                *)

\* The packs a space meets, their types and specs, and what a write may store.
AllPacks == PackVersions \cup {FirstPack}
TypeNames == UNION {DOMAIN pack.types : pack \in AllPacks}
Specs == UNION {{pack.types[t] : t \in DOMAIN pack.types} : pack \in AllPacks}
NodeRows == [type : TypeNames, attrs : {Sanitize(spec, g) : spec \in Specs, g \in GivenAttrs},
             status : {"active", "archived"}, late : BOOLEAN]
Writes == [pc : {"sanitized", "inserted", "stored", "refused"}, type : TypeNames,
           given : GivenAttrs, spec : Specs, same : BOOLEAN, ended : Int]

RegistryShape(reg) ==
  /\ DOMAIN reg = {"types", "edgeTypes", "rules"}
  /\ \A t \in DOMAIN reg.types : t \in TypeNames /\ reg.types[t] \in Specs

PacksShaped ==
  /\ RegistryShape(registry) /\ RegistryShape(Draft)
  /\ DOMAIN upgrade = {"pc", "pack", "draft", "excused", "left", "refused", "allow"}
  /\ upgrade.pc \in {"none", "types", "rules", "edgeTypes", "nodeTypes", "commit"}
  /\ upgrade.pack \in AllPacks /\ upgrade.left \subseteq DOMAIN upgrade.pack.types
  /\ stored \in Seq(NodeRows)
  /\ \A j \in joined : {j.src, j.dst} \subseteq DOMAIN stored
  /\ lastWrite \in Writes \cup {NoWrite}
  /\ joining = NoJoin \/ {joining.src, joining.dst} \subseteq DOMAIN stored
  /\ upgrades \in Nat

\* PackSound, of any registry and any excuses.
Fits(reg, excuses) ==
  /\ \A n \in DOMAIN stored :
       /\ stored[n].type \in DOMAIN reg.types
       /\ stored[n].status = "active" /\ ~stored[n].late /\ stored[n].type \notin excuses
            => Valid(reg.types[stored[n].type], stored[n].attrs)
  /\ \A j \in joined :
       /\ j.type \in reg.edgeTypes
       /\ ~j.late => <<j.type, stored[j.src].type, stored[j.dst].type>> \in reg.rules
  /\ \A r \in reg.rules : {r[2], r[3]} \subseteq DOMAIN reg.types

\* An upgrade may commit after any of its statements: its draft fits what is
\* stored by then, and has the types of the pack it has come past.
DraftFits ==
  Running => /\ Fits(Draft, upgrade.excused)
             /\ upgrade.pc = "types" => DOMAIN upgrade.pack.types \ upgrade.left \subseteq DOMAIN Draft.types

\* A row or an edge inserted and not committed: its type can be deleted neither
\* from the registry nor from a draft, and it fits the registry unless an upgrade
\* runs or ran since.
PendingFits ==
  /\ lastWrite.pc = "inserted" =>
       /\ lastWrite.type \in DOMAIN registry.types
       /\ Running => lastWrite.type \in DOMAIN Draft.types
       /\ lastWrite.ended <= upgrades
       /\ lastWrite.ended = upgrades =>
            ~Running /\ Valid(registry.types[lastWrite.type], Sanitize(lastWrite.spec, lastWrite.given))
  /\ joining # NoJoin =>
       /\ joining.type \in registry.edgeTypes
       /\ Running => joining.type \in Draft.edgeTypes
       /\ joining.ended \in Int /\ joining.ended <= upgrades
       /\ joining.ended = upgrades =>
            /\ ~Running
            /\ <<joining.type, stored[joining.src].type, stored[joining.dst].type>> \in registry.rules

PacksInv == PacksShaped /\ PackSound /\ DraftFits /\ PendingFits

LEMMA SoundIsFit == PackSound <=> Fits(registry, excused)
BY DEF PackSound, Fits

LEMMA PacksFacts ==
  /\ FirstPack \in AllPacks
  /\ \A pack \in AllPacks : \A r \in pack.rules :
       r[1] \in pack.edgeTypes /\ {r[2], r[3]} \subseteq DOMAIN pack.types \cup {"*"}
  /\ \A pack \in AllPacks : \A t \in DOMAIN pack.types :
       t \in TypeNames /\ pack.types[t] \in Specs
<1>1. \A pack \in AllPacks : \A r \in pack.rules :
        r[1] \in pack.edgeTypes /\ {r[2], r[3]} \subseteq DOMAIN pack.types \cup {"*"}
  BY PackAssumption DEF AllPacks
<1>2. FirstPack \in AllPacks
  BY DEF AllPacks
<1>3. \A pack \in AllPacks : \A t \in DOMAIN pack.types :
       t \in TypeNames /\ pack.types[t] \in Specs
  BY DEF TypeNames, Specs
<1> QED BY <1>1, <1>2, <1>3

\* Expanded, a pack's rules name its own types only.
LEMMA ExpandInTypes ==
  \A pack \in AllPacks : \A r \in Expand(pack) : {r[2], r[3]} \subseteq DOMAIN pack.types
<1> SUFFICES ASSUME NEW pack \in AllPacks, NEW r \in Expand(pack)
             PROVE  {r[2], r[3]} \subseteq DOMAIN pack.types
  OBVIOUS
<1> DEFINE ends(x) == IF x = "*" THEN DOMAIN pack.types ELSE {x}
<1>1. PICK rule \in pack.rules : r \in {rule[1]} \X ends(rule[2]) \X ends(rule[3])
  BY DEF Expand
<1>2. r[2] \in ends(rule[2]) /\ r[3] \in ends(rule[3])
  BY <1>1
<1>3. {rule[2], rule[3]} \subseteq DOMAIN pack.types \cup {"*"}
  BY PacksFacts
<1> QED BY <1>2, <1>3

LEMMA RegistryShaped == \A pack \in AllPacks : RegistryShape(Registry(pack))
BY PacksFacts DEF RegistryShape, Registry

LEMMA PacksInitInv == PacksInit => PacksInv
<1> SUFFICES ASSUME PacksInit PROVE PacksInv OBVIOUS
<1>1. PacksShaped
  <2>1. RegistryShape(registry) /\ RegistryShape(Draft)
    BY RegistryShaped, PacksFacts DEF PacksInit, NoUpgrade, Draft
  <2>2. stored \in Seq(NodeRows)
    BY EmptySeq DEF PacksInit
  <2> QED BY <2>1, <2>2, PacksFacts DEF PacksShaped, PacksInit, NoUpgrade
<1>2. PackSound
  BY ExpandInTypes, PacksFacts DEF PacksInit, PackSound, Registry
<1>3. DraftFits /\ PendingFits
  BY DEF DraftFits, PendingFits, Running, PacksInit, NoUpgrade, NoWrite
<1> QED BY <1>1, <1>2, <1>3 DEF PacksInv

\* Rows and the type a write names are those the packs declare.
LEMMA PacksTyped ==
  ASSUME PacksShaped
  PROVE  /\ \A n \in DOMAIN stored : stored[n] \in NodeRows
         /\ lastWrite.pc # "none" => lastWrite \in Writes
         /\ DOMAIN stored = 1 .. Len(stored) /\ Len(stored) \in Nat
<1>1. stored \in Seq(NodeRows) /\ lastWrite \in Writes \cup {NoWrite}
  BY DEF PacksShaped
<1>2. DOMAIN stored = 1 .. Len(stored) /\ Len(stored) \in Nat
  BY <1>1, LenProperties, Zenon
<1>3. \A n \in DOMAIN stored : stored[n] \in NodeRows
  BY <1>1, <1>2, ElementOfSeq, Zenon
<1> QED BY <1>1, <1>2, <1>3 DEF NoWrite

LEMMA WriteSanitizesInv ==
  ASSUME PacksInv, NEW t \in DOMAIN registry.types, NEW given \in GivenAttrs,
         WriteSanitizes(t, given)
  PROVE  PacksInv'
<1>1. lastWrite' \in Writes /\ lastWrite'.pc # "inserted"
  BY DEF WriteSanitizes, Writes, PacksInv, PacksShaped, RegistryShape
<1>2. PacksShaped'
  BY <1>1 DEF WriteSanitizes, PacksInv, PacksShaped, RegistryShape, Draft
<1>3. PackSound' /\ DraftFits'
  BY DEF WriteSanitizes, PacksInv, PackSound, DraftFits, Fits, Running, Draft
<1>4. PendingFits'
  BY <1>1 DEF WriteSanitizes, PacksInv, PendingFits, Running, Draft
<1> QED BY <1>2, <1>3, <1>4 DEF PacksInv

LEMMA RowInsertsInv ==
  ASSUME PacksInv, RowInserts PROVE PacksInv'
<1> DEFINE w == lastWrite
           known == w.type \in DOMAIN registry.types
           clean == Sanitize(w.spec, w.given)
           kept == known /\ Valid(registry.types[w.type], clean)
<1>1. /\ PacksShaped /\ PackSound /\ DraftFits /\ PendingFits
      /\ w.pc = "sanitized" /\ (Running /\ known => w.type \in DOMAIN Draft.types)
      /\ lastWrite' = [w EXCEPT !.pc = IF kept THEN "inserted" ELSE "refused",
                                !.same = known /\ registry.types[w.type] = w.spec,
                                !.ended = Ended]
      /\ UNCHANGED <<registry, stored, joined, excused, upgrade, upgrades, joining>>
  BY DEF PacksInv, RowInserts
<1>2. w \in Writes /\ upgrades \in Nat
  BY <1>1, PacksTyped DEF PacksShaped
<1>3. /\ Ended \in Int /\ Ended <= upgrades /\ (Ended = upgrades => ~Running)
      /\ Ended' = Ended
  BY <1>1, <1>2 DEF Ended, Running
<1> HIDE DEF clean, kept, known
<1>4. /\ lastWrite' \in Writes
      /\ lastWrite'.pc = (IF kept THEN "inserted" ELSE "refused") /\ lastWrite'.ended = Ended
      /\ lastWrite'.type = w.type /\ lastWrite'.spec = w.spec /\ lastWrite'.given = w.given
  BY <1>1, <1>2, <1>3 DEF Writes, known
<1>5. PacksShaped'
  BY <1>1, <1>4 DEF PacksShaped, RegistryShape, Draft
<1>6. PackSound' /\ DraftFits'
  BY <1>1 DEF PackSound, DraftFits, Fits, Running, Draft
<1>7. kept => known /\ Valid(registry.types[w.type], clean)
  BY DEF kept
<1>8. PendingFits'
  BY <1>1, <1>3, <1>4, <1>7 DEF PendingFits, Running, Draft, known, clean
<1> QED BY <1>5, <1>6, <1>8 DEF PacksInv

LEMMA RowCommitsInv ==
  ASSUME PacksInv, RowCommits PROVE PacksInv'
<1> DEFINE w == lastWrite
           clean == Sanitize(w.spec, w.given)
           row == [type |-> w.type, status |-> "active", attrs |-> clean,
                   late |-> w.ended # upgrades]
<1>1. /\ PacksShaped /\ PackSound /\ DraftFits /\ PendingFits
      /\ w.pc = "inserted" /\ lastWrite' = [w EXCEPT !.pc = "stored"]
      /\ stored' = Append(stored, row)
      /\ UNCHANGED <<registry, joined, excused, upgrade, upgrades, joining>>
  BY DEF PacksInv, RowCommits
<1>2. w \in Writes /\ stored \in Seq(NodeRows)
  BY <1>1, PacksTyped DEF PacksShaped
<1>3. row \in NodeRows
  BY <1>2 DEF Writes, NodeRows
<1>4. lastWrite' \in Writes /\ lastWrite'.pc = "stored"
  BY <1>1, <1>2 DEF Writes
<1>5. Append(stored, row) \in Seq(NodeRows) /\ Len(Append(stored, row)) = Len(stored) + 1
      /\ (\A n \in 1 .. Len(stored) : Append(stored, row)[n] = stored[n])
      /\ Append(stored, row)[Len(stored) + 1] = row
  BY <1>2, <1>3, AppendProperties
<1>6. DOMAIN stored = 1 .. Len(stored) /\ Len(stored) \in Nat
  BY <1>1, PacksTyped
<1>7. DOMAIN Append(stored, row) = 1 .. (Len(stored) + 1)
  BY <1>5, <1>6, LenProperties, Zenon
<1>8. DOMAIN stored \subseteq DOMAIN stored' /\ \A n \in DOMAIN stored : stored'[n] = stored[n]
  BY <1>1, <1>5, <1>6, <1>7
<1>9. \A n \in DOMAIN stored' : n \in DOMAIN stored \/ stored'[n] = row
  BY <1>1, <1>5, <1>6, <1>7
<1>10. PacksShaped'
  <2>1. stored' \in Seq(NodeRows)
    BY <1>1, <1>2, <1>5
  <2>2. /\ \A j \in joined' : {j.src, j.dst} \subseteq DOMAIN stored'
        /\ joining' = NoJoin \/ {joining'.src, joining'.dst} \subseteq DOMAIN stored'
    BY <1>1, <1>8 DEF PacksShaped, NoJoin
  <2> QED BY <1>1, <1>4, <2>1, <2>2 DEF PacksShaped, RegistryShape, Draft
<1>11. ASSUME NEW reg, NEW excuses, Fits(reg, excuses), w.type \in DOMAIN reg.types,
              w.ended = upgrades => Valid(reg.types[w.type], clean)
       PROVE  /\ \A n \in DOMAIN stored' :
                   /\ stored'[n].type \in DOMAIN reg.types
                   /\ stored'[n].status = "active" /\ ~stored'[n].late /\ stored'[n].type \notin excuses
                        => Valid(reg.types[stored'[n].type], stored'[n].attrs)
              /\ \A j \in joined' :
                   /\ j.type \in reg.edgeTypes
                   /\ ~j.late => <<j.type, stored'[j.src].type, stored'[j.dst].type>> \in reg.rules
              /\ \A r \in reg.rules : {r[2], r[3]} \subseteq DOMAIN reg.types
  <2>1. ASSUME NEW n \in DOMAIN stored'
        PROVE  /\ stored'[n].type \in DOMAIN reg.types
               /\ stored'[n].status = "active" /\ ~stored'[n].late /\ stored'[n].type \notin excuses
                    => Valid(reg.types[stored'[n].type], stored'[n].attrs)
    <3>1. CASE n \in DOMAIN stored
      BY <1>8, <1>11, <3>1 DEF Fits
    <3>2. CASE stored'[n] = row
      <4>1. row.type = w.type /\ row.attrs = clean /\ (~row.late => w.ended = upgrades)
        OBVIOUS
      <4> HIDE DEF row, clean
      <4> QED BY <1>11, <3>2, <4>1
    <3> QED BY <1>9, <3>1, <3>2
  <2>2. \A j \in joined : stored'[j.src] = stored[j.src] /\ stored'[j.dst] = stored[j.dst]
    BY <1>1, <1>8 DEF PacksShaped
  <2> QED BY <1>1, <1>11, <2>1, <2>2 DEF Fits
<1>12. PackSound'
  <2>1. Fits(registry, excused)
    BY <1>1, SoundIsFit
  <2>2. w.type \in DOMAIN registry.types /\ (w.ended = upgrades => Valid(registry.types[w.type], clean))
    BY <1>1 DEF PendingFits
  <2> HIDE DEF row, clean
  <2> QED BY <1>1, <1>11, <2>1, <2>2 DEF PackSound, Fits
<1>13. DraftFits'
  <2>1. CASE ~Running
    BY <1>1, <2>1 DEF DraftFits, Running
  <2>2. CASE Running
    <3>1. Fits(Draft, upgrade.excused) /\ w.type \in DOMAIN Draft.types /\ w.ended # upgrades
      BY <1>1, <2>2 DEF DraftFits, PendingFits
    <3>2. Draft' = Draft /\ upgrade' = upgrade
      BY <1>1 DEF Draft
    <3> HIDE DEF row, clean
    <3>3. Fits(Draft, upgrade.excused)'
      BY <1>1, <1>11, <2>2, <3>1, <3>2 DEF Fits
    <3> QED BY <1>1, <2>2, <3>2, <3>3 DEF DraftFits, Running
  <2> QED BY <2>1, <2>2
<1>14. PendingFits'
  <2>1. joining # NoJoin => /\ stored'[joining.src] = stored[joining.src]
                            /\ stored'[joining.dst] = stored[joining.dst]
    BY <1>1, <1>8 DEF PacksShaped
  <2> HIDE DEF row
  <2> QED BY <1>1, <1>4, <2>1 DEF PendingFits, Running, Draft
<1> QED BY <1>10, <1>12, <1>13, <1>14 DEF PacksInv

LEMMA RetireNodeInv ==
  ASSUME PacksInv, NEW n \in DOMAIN stored, RetireNode(n) PROVE PacksInv'
<1>1. /\ PacksShaped /\ PackSound /\ DraftFits /\ PendingFits
      /\ stored' = [stored EXCEPT ![n].status = "archived"]
      /\ UNCHANGED <<registry, joined, excused, upgrade, upgrades, lastWrite, joining>>
  BY DEF PacksInv, RetireNode
<1>2. \A m \in DOMAIN stored : stored[m] \in NodeRows
  BY <1>1, PacksTyped
<1>3. /\ DOMAIN stored' = DOMAIN stored
      /\ \A m \in DOMAIN stored :
           /\ stored'[m] \in NodeRows /\ stored'[m].type = stored[m].type
           /\ stored'[m].attrs = stored[m].attrs /\ stored'[m].late = stored[m].late
           /\ stored'[m].status = "active" => stored[m].status = "active"
  BY <1>1, <1>2 DEF NodeRows
<1>4. stored' \in Seq(NodeRows)
  <2>1. DOMAIN stored = 1 .. Len(stored) /\ Len(stored) \in Nat
    BY <1>1, PacksTyped
  <2>2. stored' = [m \in 1 .. Len(stored) |-> stored'[m]]
    BY <1>1, <2>1
  <2>3. stored' \in [1 .. Len(stored) -> NodeRows]
    BY <1>3, <2>1, <2>2
  <2> QED BY <2>1, <2>3, SeqDef
<1>5. PacksShaped'
  BY <1>1, <1>3, <1>4 DEF PacksShaped, RegistryShape, Draft
<1>6. PackSound'
  BY <1>1, <1>3 DEF PackSound, PacksShaped
<1>7. DraftFits'
  BY <1>1, <1>3 DEF DraftFits, Running, Draft, Fits, PacksShaped
<1>8. PendingFits'
  BY <1>1, <1>3 DEF PendingFits, Running, Draft, PacksShaped
<1> QED BY <1>5, <1>6, <1>7, <1>8 DEF PacksInv

LEMMA EdgeInsertsInv ==
  ASSUME PacksInv, NEW e \in registry.edgeTypes, NEW s \in DOMAIN stored,
         NEW d \in DOMAIN stored, EdgeInserts(e, s, d)
  PROVE  PacksInv'
<1>1. /\ PacksShaped /\ PackSound /\ DraftFits /\ PendingFits
      /\ <<e, stored[s].type, stored[d].type>> \in registry.rules
      /\ (Running => e \in Draft.edgeTypes)
      /\ joining' = [type |-> e, src |-> s, dst |-> d, ended |-> Ended]
      /\ UNCHANGED <<registry, stored, joined, excused, upgrade, upgrades, lastWrite>>
  BY DEF PacksInv, EdgeInserts
<1>2. Ended \in Int /\ Ended <= upgrades /\ (Ended = upgrades => ~Running)
  BY <1>1 DEF Ended, Running, PacksShaped
<1>3. PacksShaped'
  BY <1>1 DEF PacksShaped, RegistryShape, Draft
<1>4. PackSound' /\ DraftFits'
  BY <1>1 DEF PackSound, DraftFits, Fits, Running, Draft
<1>5. PendingFits'
  BY <1>1, <1>2 DEF PendingFits, Running, Draft
<1> QED BY <1>3, <1>4, <1>5 DEF PacksInv

LEMMA EdgeCommitsInv ==
  ASSUME PacksInv, EdgeCommits PROVE PacksInv'
<1> DEFINE edge == [type |-> joining.type, src |-> joining.src, dst |-> joining.dst,
                    late |-> joining.ended # upgrades]
<1>1. /\ PacksShaped /\ PackSound /\ DraftFits /\ PendingFits
      /\ joining # NoJoin /\ joining' = NoJoin /\ joined' = joined \cup {edge}
      /\ UNCHANGED <<registry, stored, excused, upgrade, upgrades, lastWrite>>
  BY DEF PacksInv, EdgeCommits
<1>2. /\ \A j \in joined' : j \in joined \/ j = edge
      /\ edge.type = joining.type /\ edge.src = joining.src /\ edge.dst = joining.dst
      /\ ~edge.late => joining.ended = upgrades
  BY <1>1
<1> HIDE DEF edge
<1>3. /\ joining.type \in registry.edgeTypes
      /\ Running => joining.type \in Draft.edgeTypes /\ joining.ended # upgrades
      /\ joining.ended = upgrades =>
           <<joining.type, stored[joining.src].type, stored[joining.dst].type>> \in registry.rules
  BY <1>1 DEF PendingFits
<1>4. PacksShaped'
  BY <1>1, <1>2 DEF PacksShaped, RegistryShape, Draft
<1>5. PackSound'
  BY <1>1, <1>2, <1>3 DEF PackSound
<1>6. DraftFits'
  <2>1. CASE ~Running
    BY <1>1, <2>1 DEF DraftFits, Running
  <2>2. CASE Running
    <3>1. Fits(Draft, upgrade.excused)
      BY <1>1, <2>2 DEF DraftFits
    <3>2. \A j \in joined' : /\ j.type \in Draft.edgeTypes
                             /\ ~j.late => <<j.type, stored[j.src].type, stored[j.dst].type>> \in Draft.rules
      BY <1>2, <1>3, <2>2, <3>1 DEF Fits
    <3>3. Draft' = Draft /\ upgrade' = upgrade /\ stored' = stored
      BY <1>1 DEF Draft
    <3>4. Fits(Draft, upgrade.excused)'
      BY <3>1, <3>2, <3>3 DEF Fits
    <3> QED BY <1>1, <2>2, <3>3, <3>4 DEF DraftFits, Running
  <2> QED BY <2>1, <2>2
<1>7. PendingFits'
  BY <1>1 DEF PendingFits, Running, Draft
<1> QED BY <1>4, <1>5, <1>6, <1>7 DEF PacksInv

\* A statement of an upgrade changes what its draft is and nothing that stays.
UpgradeShaped ==
  /\ RegistryShape(Draft)
  /\ DOMAIN upgrade = {"pc", "pack", "draft", "excused", "left", "refused", "allow"}
  /\ upgrade.pc \in {"none", "types", "rules", "edgeTypes", "nodeTypes", "commit"}
  /\ upgrade.pack \in AllPacks /\ upgrade.left \subseteq DOMAIN upgrade.pack.types

\* A draft keeps the types of what is inserted and not committed.
HoldsPending(draft) ==
  /\ lastWrite.pc = "inserted" => lastWrite.type \in DOMAIN draft.types
  /\ joining # NoJoin => joining.type \in draft.edgeTypes

LEMMA PendingKept ==
  ASSUME PacksInv, Running PROVE HoldsPending(Draft)
BY DEF PacksInv, PendingFits, HoldsPending

LEMMA OfDraft ==
  ASSUME PacksInv, UNCHANGED <<registry, stored, joined, excused, lastWrite, joining>>,
         UpgradeShaped', DraftFits', HoldsPending(Draft'),
         upgrades' = upgrades + 1 \/ (upgrades' = upgrades /\ Running)
  PROVE  PacksInv'
<1>1. PacksShaped'
  <2>1. PacksShaped
    BY DEF PacksInv
  <2> QED BY <2>1 DEF PacksShaped, UpgradeShaped
<1>2. PackSound'
  BY DEF PacksInv, PackSound
<1>3. PendingFits'
  BY PacksTyped DEF PacksInv, PacksShaped, PendingFits, HoldsPending, Writes
<1> QED BY <1>1, <1>2, <1>3 DEF PacksInv

LEMMA UpgradeBeginsInv ==
  ASSUME PacksInv, NEW pack \in PackVersions, NEW allow \in BOOLEAN, UpgradeBegins(pack, allow)
  PROVE  PacksInv'
<1>1. /\ UNCHANGED <<registry, stored, joined, excused, lastWrite, joining>>
      /\ upgrade' = [pc |-> "types", pack |-> pack, draft |-> registry,
                     excused |-> excused, left |-> DOMAIN pack.types,
                     refused |-> FALSE, allow |-> allow]
      /\ upgrades' = upgrades + 1
  BY DEF UpgradeBegins
<1>2. UpgradeShaped'
  BY <1>1 DEF UpgradeShaped, Draft, AllPacks, PacksInv, PacksShaped, RegistryShape
<1>3. DraftFits'
  <2>1. Fits(registry, excused)
    BY SoundIsFit DEF PacksInv
  <2>2. /\ upgrade'.draft = registry /\ upgrade'.excused = excused
        /\ upgrade'.pack = pack /\ upgrade'.left = DOMAIN pack.types
    BY <1>1
  <2>3. Fits(Draft, upgrade.excused)'
    BY <1>1, <2>1, <2>2 DEF Fits, Draft
  <2> QED BY <2>2, <2>3 DEF DraftFits
<1>4. HoldsPending(Draft')
  BY <1>1 DEF HoldsPending, Draft, PacksInv, PendingFits
<1> QED BY <1>1, <1>2, <1>3, <1>4, OfDraft

LEMMA ScanTypeInv ==
  ASSUME PacksInv, NEW t \in upgrade.left, ScanType(t) PROVE PacksInv'
<1> DEFINE spec == upgrade.pack.types[t]
           known == t \in DOMAIN Draft.types
           changed == known /\ Draft.types[t] # spec
           failing == changed /\ Violators(t) # {}
           applied == ~failing \/ upgrade.allow
           types == IF applied
                    THEN [x \in DOMAIN Draft.types \cup {t} |-> IF x = t THEN spec ELSE Draft.types[x]]
                    ELSE Draft.types
           excuses == IF failing THEN upgrade.excused \cup {t}
                      ELSE IF changed THEN upgrade.excused \ {t} ELSE upgrade.excused
<1> USE DEF PacksInv
<1>1. /\ PacksShaped /\ upgrade.pc = "types"
      /\ UNCHANGED <<registry, stored, joined, excused, lastWrite, joining>>
      /\ Running /\ upgrades' = upgrades
      /\ upgrade' = [upgrade EXCEPT
           !.left = @ \ {t}, !.refused = @ \/ ~applied, !.excused = excuses,
           !.draft.types = types]
  BY DEF ScanType, Draft, Running
<1>2. RegistryShape(Draft) /\ DOMAIN upgrade = {"pc", "pack", "draft", "excused", "left", "refused", "allow"}
      /\ upgrade.pack \in AllPacks /\ upgrade.pc \in {"none", "types", "rules", "edgeTypes", "nodeTypes", "commit"}
  BY <1>1 DEF PacksShaped
<1>3. /\ upgrade'.pc = "types" /\ upgrade'.pack = upgrade.pack /\ upgrade'.left = upgrade.left \ {t}
      /\ upgrade'.excused = excuses /\ Draft' = [Draft EXCEPT !.types = types]
      /\ DOMAIN upgrade' = DOMAIN upgrade
  <2> HIDE DEF applied, excuses, types
  <2> QED BY <1>1, <1>2 DEF Draft
<1>4. /\ Draft'.types = types /\ Draft'.edgeTypes = Draft.edgeTypes /\ Draft'.rules = Draft.rules
      /\ DOMAIN Draft' = DOMAIN Draft
  <2> HIDE DEF types
  <2> QED BY <1>2, <1>3 DEF RegistryShape
<1>5. /\ t \in DOMAIN upgrade.pack.types /\ t \in TypeNames /\ spec \in Specs
      /\ upgrade.left \subseteq DOMAIN upgrade.pack.types
  BY <1>1, <1>2, PacksFacts DEF PacksShaped
<1>6. /\ \A x \in DOMAIN types : IF applied /\ x = t THEN types[x] = spec
                                 ELSE x \in DOMAIN Draft.types /\ types[x] = Draft.types[x]
      /\ DOMAIN Draft.types \subseteq DOMAIN types
      /\ t \in DOMAIN types
  <2>1. CASE applied
    BY <2>1
  <2>2. CASE ~applied
    BY <2>2
  <2> QED BY <2>1, <2>2
<1> HIDE DEF types
<1>7. UpgradeShaped'
  <2>1. RegistryShape(Draft')
    BY <1>2, <1>4, <1>5, <1>6 DEF RegistryShape
  <2> QED BY <1>2, <1>3, <1>5, <2>1 DEF UpgradeShaped
<1>8. /\ Fits(Draft, upgrade.excused)
      /\ DOMAIN upgrade.pack.types \ upgrade.left \subseteq DOMAIN Draft.types
  BY <1>1 DEF DraftFits, Running
\* A type added is on no row yet, and a changed one fits the rows scanned or is excused.
<1>9. ASSUME NEW n \in DOMAIN stored
      PROVE  /\ stored[n].type \in DOMAIN types
             /\ stored[n].status = "active" /\ ~stored[n].late /\ stored[n].type \notin excuses
                  => Valid(types[stored[n].type], stored[n].attrs)
  <2>1. stored[n].type \in DOMAIN Draft.types
    BY <1>8, <1>9 DEF Fits
  <2>2. CASE stored[n].type # t
    BY <1>6, <1>8, <1>9, <2>1, <2>2 DEF Fits
  <2>3. CASE stored[n].type = t /\ ~failing /\ changed
    <3>1. types[t] = spec
      BY <1>6, <2>3
    <3>2. stored[n].status = "active" => Valid(spec, stored[n].attrs)
      BY <1>9, <2>3 DEF Violators
    <3> QED BY <1>6, <2>1, <2>3, <3>1, <3>2
  <2>4. CASE stored[n].type = t /\ ~changed
    <3>1. types[t] = Draft.types[t]
      BY <1>6, <2>1, <2>4
    <3> QED BY <1>6, <1>8, <1>9, <2>1, <2>4, <3>1 DEF Fits
  <2>5. CASE stored[n].type = t /\ failing
    BY <1>6, <2>1, <2>5
  <2> QED BY <2>2, <2>3, <2>4, <2>5
<1>10. Fits(Draft, upgrade.excused)'
  BY <1>1, <1>3, <1>4, <1>6, <1>8, <1>9 DEF Fits
<1>11. DraftFits'
  BY <1>3, <1>4, <1>6, <1>8, <1>10 DEF DraftFits
<1>12. HoldsPending(Draft')
  BY <1>1, <1>4, <1>6, PendingKept DEF HoldsPending
<1> QED BY <1>1, <1>7, <1>11, <1>12, OfDraft

\* What the later statements share: only the draft, the step and the refusal change.
LEMMA OfStatement ==
  ASSUME PacksInv, Running, NEW pc \in {"rules", "edgeTypes", "nodeTypes", "commit"},
         NEW draft, RegistryShape(draft), Fits(draft, upgrade.excused), HoldsPending(draft),
         NEW refused, upgrades' = upgrades,
         upgrade' = [upgrade EXCEPT !.pc = pc, !.refused = refused, !.draft = draft],
         UNCHANGED <<registry, stored, joined, excused, lastWrite, joining>>
  PROVE  PacksInv'
<1>1. PacksShaped
  BY DEF PacksInv
<1>2. /\ upgrade'.pc = pc /\ upgrade'.pack = upgrade.pack /\ upgrade'.left = upgrade.left
      /\ upgrade'.excused = upgrade.excused /\ upgrade'.draft = draft
      /\ DOMAIN upgrade' = DOMAIN upgrade
  BY <1>1 DEF PacksShaped
<1>3. UpgradeShaped'
  BY <1>1, <1>2 DEF UpgradeShaped, Draft, PacksShaped
<1>4. Fits(Draft, upgrade.excused)'
  BY <1>2 DEF Fits, Draft
<1>5. DraftFits'
  BY <1>2, <1>4 DEF DraftFits
<1>6. HoldsPending(Draft')
  BY <1>2 DEF Draft
<1> QED BY <1>3, <1>5, <1>6, OfDraft

LEMMA AddEdgeTypesAndRulesInv ==
  ASSUME PacksInv, AddEdgeTypesAndRules PROVE PacksInv'
<1> DEFINE draft == [Draft EXCEPT !.edgeTypes = @ \cup upgrade.pack.edgeTypes,
                                  !.rules = @ \cup Expand(upgrade.pack)]
<1>1. PacksShaped /\ upgrade.pc = "types" /\ upgrade.left = {} /\ Running
      /\ UNCHANGED <<registry, stored, joined, excused, lastWrite, joining, upgrades>>
  BY DEF AddEdgeTypesAndRules, PacksInv, Running
<1>2. RegistryShape(Draft) /\ upgrade.pack \in AllPacks
      /\ DOMAIN upgrade = {"pc", "pack", "draft", "excused", "left", "refused", "allow"}
  BY <1>1 DEF PacksShaped
<1>3. upgrade' = [upgrade EXCEPT !.pc = "rules", !.refused = upgrade.refused, !.draft = draft]
  BY <1>2 DEF AddEdgeTypesAndRules, Draft
<1>4. /\ DOMAIN draft = DOMAIN Draft /\ draft.types = Draft.types
      /\ draft.edgeTypes = Draft.edgeTypes \cup upgrade.pack.edgeTypes
      /\ draft.rules = Draft.rules \cup Expand(upgrade.pack)
  BY <1>2 DEF RegistryShape
<1>5. Fits(Draft, upgrade.excused) /\ DOMAIN upgrade.pack.types \subseteq DOMAIN Draft.types
  BY <1>1 DEF PacksInv, DraftFits
<1> HIDE DEF draft
<1>6. RegistryShape(draft)
  BY <1>2, <1>4 DEF RegistryShape
<1>7. \A r \in draft.rules : {r[2], r[3]} \subseteq DOMAIN draft.types
  <2>1. \A r \in Draft.rules : {r[2], r[3]} \subseteq DOMAIN Draft.types
    BY <1>5 DEF Fits
  <2>2. \A r \in Expand(upgrade.pack) : {r[2], r[3]} \subseteq DOMAIN upgrade.pack.types
    BY <1>2, ExpandInTypes
  <2> QED BY <1>4, <1>5, <2>1, <2>2
<1>8. Fits(draft, upgrade.excused)
  BY <1>4, <1>5, <1>7 DEF Fits
<1>9. HoldsPending(draft)
  BY <1>1, <1>4, PendingKept DEF HoldsPending
<1> QED BY <1>1, <1>3, <1>6, <1>8, <1>9, OfStatement

LEMMA RemoveRulesInv ==
  ASSUME PacksInv, RemoveRules PROVE PacksInv'
<1> DEFINE gone == Draft.rules \ Expand(upgrade.pack)
           kept == {r \in gone : Used(r)}
           draft == [Draft EXCEPT !.rules = (@ \ gone) \cup kept]
<1>1. PacksShaped /\ upgrade.pc = "rules" /\ Running
      /\ UNCHANGED <<registry, stored, joined, excused, lastWrite, joining, upgrades>>
  BY DEF RemoveRules, PacksInv, Running
<1>2. RegistryShape(Draft) /\ upgrade.pack \in AllPacks
      /\ DOMAIN upgrade = {"pc", "pack", "draft", "excused", "left", "refused", "allow"}
  BY <1>1 DEF PacksShaped
<1>3. upgrade' = [upgrade EXCEPT !.pc = "edgeTypes", !.refused = upgrade.refused \/ kept # {},
                                 !.draft = draft]
  BY <1>2 DEF RemoveRules, Draft
<1>4. /\ DOMAIN draft = DOMAIN Draft /\ draft.types = Draft.types
      /\ draft.edgeTypes = Draft.edgeTypes /\ draft.rules = (Draft.rules \ gone) \cup kept
  BY <1>2 DEF RegistryShape
<1>5. Fits(Draft, upgrade.excused)
  BY <1>1 DEF PacksInv, DraftFits
<1>6. \A r \in Draft.rules : Used(r) => r \in draft.rules
  BY <1>4
<1>7. draft.rules \subseteq Draft.rules
  BY <1>4
<1> HIDE DEF draft, kept
<1>8. RegistryShape(draft)
  BY <1>2, <1>4 DEF RegistryShape
<1>9. Fits(draft, upgrade.excused)
  BY <1>4, <1>5, <1>6, <1>7 DEF Fits, Used
<1>10. HoldsPending(draft)
  BY <1>1, <1>4, PendingKept DEF HoldsPending
<1> QED BY <1>1, <1>3, <1>8, <1>9, <1>10, OfStatement

LEMMA RemoveEdgeTypesInv ==
  ASSUME PacksInv, RemoveEdgeTypes PROVE PacksInv'
<1> DEFINE gone == Draft.edgeTypes \ upgrade.pack.edgeTypes
           kept == {e \in gone : \E j \in joined : j.type = e}
           draft == [Draft EXCEPT !.edgeTypes = (@ \ gone) \cup kept,
                                  !.rules = {r \in @ : r[1] \notin gone \ kept}]
<1>1. PacksShaped /\ upgrade.pc = "edgeTypes" /\ Running
      /\ UNCHANGED <<registry, stored, joined, excused, lastWrite, joining, upgrades>>
  BY DEF RemoveEdgeTypes, PacksInv, Running
<1>2. RegistryShape(Draft) /\ upgrade.pack \in AllPacks
      /\ DOMAIN upgrade = {"pc", "pack", "draft", "excused", "left", "refused", "allow"}
  BY <1>1 DEF PacksShaped
<1>3. upgrade' = [upgrade EXCEPT !.pc = "nodeTypes", !.refused = upgrade.refused \/ kept # {},
                                 !.draft = draft]
  BY <1>2 DEF RemoveEdgeTypes, Draft
<1>4. /\ DOMAIN draft = DOMAIN Draft /\ draft.types = Draft.types
      /\ draft.edgeTypes = (Draft.edgeTypes \ gone) \cup kept
      /\ draft.rules = {r \in Draft.rules : r[1] \notin gone \ kept}
  BY <1>2 DEF RegistryShape
<1>5. Fits(Draft, upgrade.excused)
  BY <1>1 DEF PacksInv, DraftFits
<1>6. (\A j \in joined : j.type \notin gone \ kept) /\ joining.type \notin gone \ kept
  BY DEF RemoveEdgeTypes
<1> HIDE DEF draft, kept
<1>7. RegistryShape(draft)
  BY <1>2, <1>4 DEF RegistryShape
<1>8. \A j \in joined : /\ j.type \in draft.edgeTypes
                        /\ ~j.late => <<j.type, stored[j.src].type, stored[j.dst].type>> \in draft.rules
  BY <1>4, <1>5, <1>6 DEF Fits
<1>9. Fits(draft, upgrade.excused)
  BY <1>4, <1>5, <1>8 DEF Fits
<1>10. HoldsPending(draft)
  BY <1>1, <1>4, <1>6, PendingKept DEF HoldsPending
<1> QED BY <1>1, <1>3, <1>7, <1>9, <1>10, OfStatement

LEMMA RemoveNodeTypesInv ==
  ASSUME PacksInv, RemoveNodeTypes PROVE PacksInv'
<1> DEFINE gone == DOMAIN Draft.types \ DOMAIN upgrade.pack.types
           kept == {t \in gone : \/ \E n \in DOMAIN stored : stored[n].type = t
                                 \/ \E r \in Draft.rules : t \in {r[2], r[3]}}
           draft == [Draft EXCEPT !.types = [t \in (DOMAIN @ \ gone) \cup kept |-> @[t]]]
<1>1. PacksShaped /\ upgrade.pc = "nodeTypes" /\ Running
      /\ UNCHANGED <<registry, stored, joined, excused, lastWrite, joining, upgrades>>
  BY DEF RemoveNodeTypes, PacksInv, Running
<1>2. RegistryShape(Draft) /\ upgrade.pack \in AllPacks
      /\ DOMAIN upgrade = {"pc", "pack", "draft", "excused", "left", "refused", "allow"}
  BY <1>1 DEF PacksShaped
<1>3. upgrade' = [upgrade EXCEPT !.pc = "commit", !.refused = upgrade.refused \/ kept # {},
                                 !.draft = draft]
  BY <1>2 DEF RemoveNodeTypes, Draft
<1>4. /\ DOMAIN draft = DOMAIN Draft /\ draft.edgeTypes = Draft.edgeTypes
      /\ draft.types = [t \in (DOMAIN Draft.types \ gone) \cup kept |-> Draft.types[t]]
      /\ draft.rules = Draft.rules
  BY <1>2 DEF RegistryShape
<1>5. Fits(Draft, upgrade.excused)
  BY <1>1 DEF PacksInv, DraftFits
<1>6. \A t \in DOMAIN Draft.types :
        (\E n \in DOMAIN stored : stored[n].type = t) \/ (\E r \in Draft.rules : t \in {r[2], r[3]})
          => t \in DOMAIN draft.types
  BY <1>4
<1>7. \A t \in DOMAIN draft.types : t \in DOMAIN Draft.types /\ draft.types[t] = Draft.types[t]
  BY <1>4
\* The type of a row inserted and not committed is not deleted: it is in the new
\* pack, or the DELETE waits, or an active row has it.
<1>10. lastWrite.pc = "inserted" => lastWrite.type \in DOMAIN draft.types
  <2>1. lastWrite.pc = "inserted" =>
          \/ lastWrite.type \notin gone
          \/ \E n \in DOMAIN stored : stored[n].type = lastWrite.type
    BY DEF RemoveNodeTypes
  <2>2. lastWrite.pc = "inserted" => lastWrite.type \in DOMAIN Draft.types
    BY <1>1, PendingKept DEF HoldsPending
  <2>3. DOMAIN draft.types = (DOMAIN Draft.types \ gone) \cup kept
    BY <1>4
  <2> QED BY <2>1, <2>2, <2>3
<1> HIDE DEF draft, kept
<1>8. RegistryShape(draft)
  BY <1>2, <1>4, <1>7 DEF RegistryShape
<1>9. Fits(draft, upgrade.excused)
  <2>1. ASSUME NEW n \in DOMAIN stored
        PROVE  /\ stored[n].type \in DOMAIN draft.types
               /\ stored[n].status = "active" /\ ~stored[n].late /\ stored[n].type \notin upgrade.excused
                    => Valid(draft.types[stored[n].type], stored[n].attrs)
    BY <1>5, <1>6, <1>7, <2>1 DEF Fits
  <2>2. \A r \in draft.rules : {r[2], r[3]} \subseteq DOMAIN draft.types
    BY <1>4, <1>5, <1>6 DEF Fits
  <2> QED BY <1>4, <1>5, <2>1, <2>2 DEF Fits
<1>11. HoldsPending(draft)
  BY <1>1, <1>4, <1>10, PendingKept DEF HoldsPending
<1> QED BY <1>1, <1>3, <1>8, <1>9, <1>11, OfStatement

LEMMA UpgradeEndsInv ==
  ASSUME PacksInv, UpgradeRefused \/ UpgradeCommits PROVE PacksInv'
<1>1. PacksShaped /\ PackSound /\ DraftFits /\ PendingFits /\ upgrade.pc = "commit" /\ Running
      /\ UNCHANGED <<stored, joined, lastWrite, joining, upgrades>> /\ upgrade' = NoUpgrade
  BY DEF UpgradeRefused, UpgradeCommits, PacksInv, Running
<1>2. \/ registry' = registry /\ excused' = excused
      \/ registry' = Draft /\ excused' = upgrade.excused
  BY DEF UpgradeRefused, UpgradeCommits
<1>3. RegistryShape(registry)'
  BY <1>1, <1>2 DEF PacksShaped, RegistryShape
<1>4. PacksShaped'
  BY <1>1, <1>3, RegistryShaped, PacksFacts DEF PacksShaped, Draft, NoUpgrade
<1>5. Fits(registry', excused')
  <2>1. Fits(registry, excused) /\ Fits(Draft, upgrade.excused)
    BY <1>1, SoundIsFit DEF DraftFits
  <2> QED BY <1>2, <2>1
<1>6. PackSound'
  BY <1>1, <1>5 DEF PackSound, Fits
<1>7. DraftFits'
  BY <1>1 DEF DraftFits, Running, NoUpgrade
<1>8. PendingFits'
  BY <1>1, <1>2 DEF PendingFits, Running, NoUpgrade
<1> QED BY <1>4, <1>6, <1>7, <1>8 DEF PacksInv

LEMMA PacksStepInv ==
  ASSUME PacksInv, [PacksNext]_packVars PROVE PacksInv'
<1>1. CASE UNCHANGED packVars
  BY <1>1 DEF packVars, PacksInv, PacksShaped, RegistryShape, Draft, PackSound, DraftFits,
              PendingFits, Fits, Running
<1>2. CASE PacksNext
  BY <1>2, WriteSanitizesInv, RowInsertsInv, RowCommitsInv, RetireNodeInv, EdgeInsertsInv,
     EdgeCommitsInv, UpgradeBeginsInv,
     ScanTypeInv, AddEdgeTypesAndRulesInv, RemoveRulesInv, RemoveEdgeTypesInv,
     RemoveNodeTypesInv, UpgradeEndsInv DEF PacksNext
<1> QED BY <1>1, <1>2

\* Whatever upgrades and writes went before: every row has a registered type and
\* an active one its type's spec to conform to, every edge a registered type and
\* a rule, every rule registered ends, but for what --allow-nonconforming let be
\* and what an upgrade ran under between insert and commit (packs.upgrade).
THEOREM RegistrySound == PacksSpec => []PackSound
<1>1. PacksInit => PacksInv
  BY PacksInitInv
<1>2. PacksInv /\ [PacksNext]_packVars => PacksInv'
  BY PacksStepInv
<1>3. PacksInv => PackSound
  BY DEF PacksInv
<1> QED BY <1>1, <1>2, <1>3, PTL DEF PacksSpec

-----------------------------------------------------------------------------
(* What a write's values cost it.                                          *)

\* sanitize_attrs leaves no declared key with a bad value, and what else the
\* validator misses was missing before, or quarantined under a condition.
LEMMA SanitizeFits ==
  ASSUME NEW spec, NEW given
  PROVE  \/ Valid(spec, Sanitize(spec, given))
         \/ Absent(spec, given) # {} \/ Unmet(spec, given) # {} \/ Unknown(spec, given) # {}
         \/ \E c \in spec.requires : c[2] \in BadValues(spec, given)
<1> DEFINE bad == BadValues(spec, given)
           clean == Sanitize(spec, given)
<1>1. /\ DOMAIN clean.value = DOMAIN given.value \ bad
      /\ \A k \in DOMAIN clean.value : clean.value[k] = given.value[k]
      /\ clean.dropped = given.dropped \cup bad
  BY DEF Sanitize
<1> HIDE DEF clean
<1>2. BadValues(spec, clean) = {}
  BY <1>1 DEF BadValues
<1>3. Absent(spec, clean) \subseteq Absent(spec, given)
  BY <1>1 DEF Absent
<1>4. Unknown(spec, clean) \subseteq Unknown(spec, given)
  BY <1>1 DEF Unknown
<1>5. \A x \in Unmet(spec, clean) :
        x \in Unmet(spec, given) \/ \E c \in spec.requires : c[2] \in bad
  <2> SUFFICES ASSUME NEW c \in spec.requires, c[1] \in DOMAIN clean.value,
                      clean.value[c[1]] = "trigger", c[2] \notin DOMAIN clean.value
               PROVE  c[2] \in Unmet(spec, given) \/ c[2] \in bad
    BY DEF Unmet
  <2>1. c[1] \in DOMAIN given.value /\ given.value[c[1]] = "trigger"
    BY <1>1
  <2>2. CASE c[2] \in DOMAIN given.value
    BY <1>1, <2>2
  <2>3. CASE c[2] \notin DOMAIN given.value
    BY <2>1, <2>3 DEF Unmet
  <2> QED BY <2>2, <2>3
<1> QED BY <1>2, <1>3, <1>4, <1>5 DEF Valid, clean

LEMMA SanitizeKeeps ==
  ASSUME NEW spec, NEW given \in GivenAttrs, Valid(spec, given)
  PROVE  Sanitize(spec, given) = given
<1>1. BadValues(spec, given) = {}
  BY DEF Valid
<1>2. given = [value |-> [k \in DOMAIN given.value |-> given.value[k]], dropped |-> given.dropped]
  BY PackAssumption
<1>3. DOMAIN given.value \ {} = DOMAIN given.value /\ given.dropped \cup {} = given.dropped
  OBVIOUS
<1> QED BY <1>1, <1>2, <1>3 DEF Sanitize

\* A write that was stored is the last row.
ValuesInv == ValuesNeverRefuse /\ (lastWrite.pc = "stored" => Len(stored) >= 1)

LEMMA ValuesStep ==
  ASSUME PacksInv, ValuesInv, PacksNext PROVE ValuesInv'
<1>1. /\ PacksShaped /\ stored \in Seq(NodeRows)
      /\ DOMAIN stored = 1 .. Len(stored) /\ Len(stored) \in Nat
  BY PacksTyped DEF PacksInv, PacksShaped
<1>2. ASSUME UNCHANGED <<stored, lastWrite>> PROVE ValuesInv'
  BY <1>2 DEF ValuesInv, ValuesNeverRefuse
<1>3. ASSUME NEW t \in DOMAIN registry.types, NEW given \in GivenAttrs, WriteSanitizes(t, given)
      PROVE  ValuesInv'
  BY <1>3 DEF WriteSanitizes, ValuesInv, ValuesNeverRefuse
<1>4. ASSUME RowInserts PROVE ValuesInv'
  <2> DEFINE w == lastWrite
             known == w.type \in DOMAIN registry.types
             clean == Sanitize(w.spec, w.given)
             kept == known /\ Valid(registry.types[w.type], clean)
  <2>1. /\ w.pc = "sanitized"
        /\ lastWrite' = [w EXCEPT !.pc = IF kept THEN "inserted" ELSE "refused",
                                  !.same = known /\ registry.types[w.type] = w.spec,
                                  !.ended = Ended]
    BY <1>4 DEF RowInserts
  <2>2. w \in Writes
    BY <1>1, <2>1, PacksTyped
  <2>3. /\ lastWrite'.pc = (IF kept THEN "inserted" ELSE "refused")
        /\ lastWrite'.same = (known /\ registry.types[w.type] = w.spec)
        /\ lastWrite'.spec = w.spec /\ lastWrite'.given = w.given
    <3> HIDE DEF kept, known
    <3> QED BY <2>1, <2>2 DEF Writes
  <2>4. lastWrite'.pc = "refused" /\ lastWrite'.same => ~Valid(w.spec, clean)
    BY <2>3
  <2>5. lastWrite'.pc = "refused" /\ lastWrite'.same =>
          \/ Absent(w.spec, w.given) # {} \/ Unmet(w.spec, w.given) # {}
          \/ Unknown(w.spec, w.given) # {}
          \/ \E c \in w.spec.requires : c[2] \in BadValues(w.spec, w.given)
    BY <2>4, SanitizeFits
  <2> HIDE DEF clean, kept, known
  <2> QED BY <2>3, <2>5 DEF ValuesInv, ValuesNeverRefuse
<1>10. ASSUME RowCommits PROVE ValuesInv'
  <2> DEFINE w == lastWrite
             clean == Sanitize(w.spec, w.given)
             row == [type |-> w.type, status |-> "active", attrs |-> clean,
                     late |-> w.ended # upgrades]
  <2>1. /\ w.pc = "inserted" /\ lastWrite' = [w EXCEPT !.pc = "stored"]
        /\ stored' = Append(stored, row)
    BY <1>10 DEF RowCommits
  <2>2. w \in Writes /\ w.given \in GivenAttrs
    BY <1>1, <2>1, PacksTyped DEF Writes
  <2>3. lastWrite'.pc = "stored" /\ lastWrite'.spec = w.spec /\ lastWrite'.given = w.given
    BY <2>1, <2>2 DEF Writes
  <2>4. row \in NodeRows
    BY <2>2 DEF Writes, NodeRows
  <2>5. Len(stored') = Len(stored) + 1 /\ stored'[Len(stored) + 1] = row
    BY <1>1, <2>1, <2>4, AppendProperties
  <2>6. Len(stored') >= 1 /\ stored'[Len(stored')].attrs = clean
    BY <1>1, <2>5
  <2>7. Valid(w.spec, w.given) => clean = w.given
    BY <2>2, SanitizeKeeps
  <2> HIDE DEF clean
  <2> QED BY <2>3, <2>6, <2>7 DEF ValuesInv, ValuesNeverRefuse
<1>5. ASSUME NEW n \in DOMAIN stored, RetireNode(n) PROVE ValuesInv'
  <2>1. /\ stored' = [stored EXCEPT ![n].status = "archived"] /\ lastWrite' = lastWrite
    BY <1>5 DEF RetireNode
  <2>2. \A m \in DOMAIN stored : stored[m] \in NodeRows
    BY <1>1, PacksTyped
  <2>3. DOMAIN stored' = DOMAIN stored /\ \A m \in DOMAIN stored : stored'[m].attrs = stored[m].attrs
    BY <2>1, <2>2 DEF NodeRows
  <2>4. Len(stored') = Len(stored)
    <3>1. stored' = [m \in 1 .. Len(stored) |-> stored'[m]]
      BY <1>1, <2>1
    <3> QED BY <1>1, <3>1
  <2> QED BY <1>1, <2>1, <2>3, <2>4 DEF ValuesInv, ValuesNeverRefuse
<1>6. ASSUME NEW e \in registry.edgeTypes, NEW s \in DOMAIN stored, NEW d \in DOMAIN stored,
             EdgeInserts(e, s, d)
      PROVE  ValuesInv'
  BY <1>2, <1>6 DEF EdgeInserts
<1>7. ASSUME NEW pack \in PackVersions, NEW allow \in BOOLEAN, UpgradeBegins(pack, allow)
      PROVE  ValuesInv'
  BY <1>2, <1>7 DEF UpgradeBegins
<1>8. ASSUME NEW t \in upgrade.left, ScanType(t) PROVE ValuesInv'
  BY <1>2, <1>8 DEF ScanType
<1>9. ASSUME AddEdgeTypesAndRules \/ RemoveRules \/ RemoveEdgeTypes \/ RemoveNodeTypes
             \/ UpgradeRefused \/ UpgradeCommits \/ EdgeCommits
      PROVE  ValuesInv'
  BY <1>2, <1>9 DEF EdgeCommits, AddEdgeTypesAndRules, RemoveRules, RemoveEdgeTypes, RemoveNodeTypes,
     UpgradeRefused, UpgradeCommits
<1> QED BY <1>3, <1>4, <1>5, <1>6, <1>7, <1>8, <1>9, <1>10 DEF PacksNext

\* A failed value never costs a memory: unless an upgrade changed the spec under
\* the write, it is refused only for a key that is absent, unknown, or required
\* under a condition and quarantined, and one that conforms is stored as it came
\* (attr_spec.sanitize_attrs).
THEOREM BadValuesStored == PacksSpec => []ValuesNeverRefuse
<1>1. PacksInit => PacksInv /\ ValuesInv
  BY PacksInitInv DEF PacksInit, NoWrite, ValuesInv, ValuesNeverRefuse
<1>2. PacksInv /\ ValuesInv /\ [PacksNext]_packVars => (PacksInv /\ ValuesInv)'
  <2>1. ASSUME UNCHANGED packVars, ValuesInv PROVE ValuesInv'
    BY <2>1 DEF packVars, ValuesInv, ValuesNeverRefuse
  <2> QED BY <2>1, PacksStepInv, ValuesStep
<1>3. PacksInv /\ ValuesInv => ValuesNeverRefuse
  BY DEF ValuesInv
<1> QED BY <1>1, <1>2, <1>3, PTL DEF PacksSpec

-----------------------------------------------------------------------------
(* A pack file applied (PackFile).                                         *)

PackStages == Open \cup {"none", "invalid", "refused", "applied", "killed"}

\* What the registry is once f was applied, and edited since.
HoldsFile(f) ==
  /\ ontology.fragments = {[sections |-> f.sections, aliases |-> f.aliases]}
  /\ DOMAIN ontology.types = {SentinelType} \cup Declared(f)
  /\ ontology.edgeTypes = f.edgeTypes
  /\ ontology.rules \subseteq Expand(f)
  /\ ("rule" \in edited) = (ontology.rules # Expand(f))
  /\ "type" \notin edited => \A t \in Declared(f) : ontology.types[t] = f.types[t]
  /\ "type" \in edited => \E t \in Declared(f) : "by hand" \in ontology.types[t]

FileShaped ==
  /\ applying \in [Appliers -> [at : PackStages, file : PackFiles, alone : BOOLEAN]]
  /\ DOMAIN ontology = {"types", "edgeTypes", "twoWay", "rules", "fragments"}
  /\ \A op \in Appliers :
       applying[op].at \notin {"none", "invalid"} => ValidFile(applying[op].file)

\* An apply that is alone is the only one in flight, over a bare registry.
AloneInv ==
  \A op \in Appliers : applying[op].alone =>
    /\ applying[op].at \notin {"none", "refused"}
    /\ applying[op].at \in Open => ontology = Bare /\ InFlight = {op}

HeldInv ==
  /\ (\A op \in Appliers : applying[op].at # "applied") => ontology = Bare /\ edited = {}
  /\ \A op \in Appliers, f \in PackFiles :
       applying[op].at = "applied" /\ applying[op].file = f => HoldsFile(f)

FileInv == FileShaped /\ AloneInv /\ HeldInv

\* A valid file's rows meet no constraint of a bare registry.
LEMMA ValidFits ==
  ASSUME NEW f, ValidFile(f), ontology = Bare, NEW kind
  PROVE  ~ConstraintFails(f, kind)
<1>1. /\ ontology.edgeTypes = {} /\ ontology.rules = {} /\ DOMAIN ontology.types = {SentinelType}
  BY DEF Bare
<1>2. /\ Declared(f) \cap (BadNames \cup {SentinelType}) = {}
      /\ f.edgeTypes \cap BadNames = {}
  BY DEF ValidFile, BadlyNamed, ReservedNames
<1>3. \A r \in f.rules : r[1] \in f.edgeTypes /\ {r[2], r[3]} \subseteq Declared(f) \cup {"*"}
  BY DEF ValidFile, BadRules
<1>4. \A r \in Expand(f) : r[1] \in f.edgeTypes /\ {r[2], r[3]} \subseteq Declared(f)
  <2> SUFFICES ASSUME NEW r \in Expand(f)
               PROVE  r[1] \in f.edgeTypes /\ {r[2], r[3]} \subseteq Declared(f)
    OBVIOUS
  <2> DEFINE ends(x) == IF x = "*" THEN DOMAIN f.types ELSE {x}
  <2>1. PICK rule \in f.rules : r \in {rule[1]} \X ends(rule[2]) \X ends(rule[3])
    BY DEF Expand
  <2>2. r[1] = rule[1] /\ r[2] \in ends(rule[2]) /\ r[3] \in ends(rule[3])
    BY <2>1
  <2> QED BY <1>3, <2>2 DEF Declared
<1> QED BY <1>1, <1>2, <1>4 DEF ConstraintFails

LEMMA HoldsStill ==
  ASSUME UNCHANGED <<ontology, edited>>, NEW f, HoldsFile(f) PROVE HoldsFile(f)'
BY DEF HoldsFile

LEMMA FileInitInv == PackFileInit => FileInv
<1> SUFFICES ASSUME PackFileInit PROVE FileInv
  OBVIOUS
<1>1. /\ ontology = Bare /\ edited = {}
      /\ \A op \in Appliers : /\ applying[op].at = "none" /\ applying[op].alone = FALSE
                              /\ applying[op] \in [at : PackStages, file : PackFiles, alone : BOOLEAN]
      /\ DOMAIN applying = Appliers
      /\ applying = [op \in Appliers |-> applying[op]]
  <2>1. applying \in [Appliers -> {[at |-> "none", file |-> f, alone |-> FALSE] : f \in PackFiles}]
    BY DEF PackFileInit
  <2>2. \A op \in Appliers :
          \E f \in PackFiles : applying[op] = [at |-> "none", file |-> f, alone |-> FALSE]
    BY <2>1
  <2>3. \A op \in Appliers :
          /\ applying[op].at = "none" /\ applying[op].alone = FALSE
          /\ applying[op] \in [at : PackStages, file : PackFiles, alone : BOOLEAN]
    <3> SUFFICES ASSUME NEW op \in Appliers
                 PROVE  /\ applying[op].at = "none" /\ applying[op].alone = FALSE
                        /\ applying[op] \in [at : PackStages, file : PackFiles, alone : BOOLEAN]
      OBVIOUS
    <3>1. PICK f \in PackFiles : applying[op] = [at |-> "none", file |-> f, alone |-> FALSE]
      BY <2>2
    <3> QED BY <3>1 DEF PackStages
  <2>4. ontology = Bare /\ edited = {}
    BY DEF PackFileInit
  <2> QED BY <2>1, <2>3, <2>4
<1>2. FileShaped
  BY <1>1 DEF FileShaped, Bare
<1> QED BY <1>1, <1>2 DEF FileInv, AloneInv, HeldInv

LEMMA ApplyBeginsInv ==
  ASSUME FileInv, NEW op \in Appliers, ApplyBegins(op) PROVE FileInv'
<1> DEFINE alone == ontology = Bare /\ InFlight = {}
           stage == IF ValidFile(applying[op].file) THEN "types" ELSE "invalid"
<1>1. /\ FileShaped /\ AloneInv /\ HeldInv /\ applying[op].at = "none"
      /\ applying' = [o \in Appliers |->
           IF o = op THEN [applying[op] EXCEPT !.at = stage, !.alone = alone]
           ELSE [applying[o] EXCEPT !.alone = @ /\ stage = "invalid"]]
      /\ ontology' = ontology /\ edited' = edited
  BY DEF FileInv, ApplyBegins
<1>2. \A o \in Appliers : applying[o] \in [at : PackStages, file : PackFiles, alone : BOOLEAN]
  BY <1>1 DEF FileShaped
<1>3. stage \in {"types", "invalid"} /\ alone \in BOOLEAN /\ (stage = "types" => ValidFile(applying[op].file))
  OBVIOUS
<1>4. /\ applying'[op].at = stage /\ applying'[op].alone = alone /\ applying'[op].file = applying[op].file
      /\ \A o \in Appliers \ {op} : /\ applying'[o].at = applying[o].at
                                    /\ applying'[o].file = applying[o].file
                                    /\ applying'[o].alone = (applying[o].alone /\ stage = "invalid")
      /\ \A o \in Appliers : applying'[o] \in [at : PackStages, file : PackFiles, alone : BOOLEAN]
      /\ DOMAIN applying' = Appliers /\ applying' = [o \in Appliers |-> applying'[o]]
  <2> HIDE DEF stage, alone
  <2> QED BY <1>1, <1>2, <1>3 DEF PackStages, Open
<1>5. FileShaped'
  BY <1>1, <1>3, <1>4 DEF FileShaped
<1>6. AloneInv'
  <2>1. ASSUME NEW o \in Appliers, applying'[o].alone
        PROVE  /\ applying'[o].at \notin {"none", "refused"}
               /\ applying'[o].at \in Open => ontology' = Bare /\ InFlight' = {o}
    <3>1. CASE o = op
      <4>1. alone
        BY <1>4, <2>1, <3>1
      <4>2. InFlight' \subseteq {op}
        BY <1>4, <4>1 DEF InFlight
      <4>3. ontology' = Bare /\ applying'[o].at \in {"types", "invalid"}
        BY <1>1, <1>3, <1>4, <3>1, <4>1
      <4>4. applying'[o].at \in Open => o \in InFlight'
        BY DEF InFlight
      <4> QED BY <3>1, <4>2, <4>3, <4>4
    <3>2. CASE o # op
      <4>1. applying[o].alone /\ stage = "invalid" /\ applying'[o].at = applying[o].at
        BY <1>4, <2>1, <3>2
      <4>2. InFlight' = InFlight
        BY <1>1, <1>4, <4>1 DEF InFlight, Open
      <4> QED BY <1>1, <4>1, <4>2 DEF AloneInv
    <3> QED BY <3>1, <3>2
  <2> QED BY <2>1 DEF AloneInv, Bare
<1>7. HeldInv'
  <2>1. \A o \in Appliers : (applying'[o].at = "applied") = (applying[o].at = "applied")
    BY <1>1, <1>3, <1>4
  <2>2. \A o \in Appliers : applying'[o].file = applying[o].file
    BY <1>4
  <2>3. \A o \in Appliers, f \in PackFiles :
          applying'[o].at = "applied" /\ applying'[o].file = f => HoldsFile(f)
    <3>1. \A o \in Appliers, f \in PackFiles :
            applying[o].at = "applied" /\ applying[o].file = f => HoldsFile(f)
      BY <1>1 DEF HeldInv
    <3> QED BY <2>1, <2>2, <3>1
  <2>4. (\A o \in Appliers : applying'[o].at # "applied") => ontology = Bare /\ edited = {}
    BY <1>1, <2>1 DEF HeldInv
  <2>5. \A o \in Appliers, f \in PackFiles :
          applying'[o].at = "applied" /\ applying'[o].file = f => HoldsFile(f)'
    BY <1>1, <2>3, HoldsStill
  <2> QED BY <1>1, <2>4, <2>5 DEF HeldInv, Bare
<1> QED BY <1>5, <1>6, <1>7 DEF FileInv

\* A step of one operator that leaves the registry and whether others are alone.
LEMMA OneMoves ==
  ASSUME FileInv, NEW op \in Appliers, op \in InFlight, NEW stage \in PackStages,
         stage \notin {"none", "invalid", "applied"}, applying[op].alone => stage # "refused",
         applying' = [applying EXCEPT ![op].at = stage], UNCHANGED <<ontology, edited>>
  PROVE  FileInv'
<1>1. FileShaped /\ AloneInv /\ HeldInv /\ applying[op].at \in Open
  BY DEF FileInv, InFlight
<1>2. /\ \A o \in Appliers : applying[o] \in [at : PackStages, file : PackFiles, alone : BOOLEAN]
      /\ DOMAIN applying = Appliers
  BY <1>1 DEF FileShaped
<1>3. /\ applying'[op].at = stage
      /\ \A o \in Appliers : /\ applying'[o].file = applying[o].file
                             /\ applying'[o].alone = applying[o].alone
                             /\ o # op => applying'[o].at = applying[o].at
      /\ applying' \in [Appliers -> [at : PackStages, file : PackFiles, alone : BOOLEAN]]
  BY <1>2
<1>4. FileShaped'
  <2>1. \A o \in Appliers : applying'[o].at \notin {"none", "invalid"} => ValidFile(applying[o].file)
    BY <1>1, <1>3 DEF FileShaped, Open
  <2> QED BY <1>1, <1>3, <2>1 DEF FileShaped
<1>5. AloneInv'
  <2>1. InFlight' \subseteq InFlight
    BY <1>1, <1>3 DEF InFlight
  <2>2. ASSUME NEW o \in Appliers, applying'[o].alone
        PROVE  /\ applying'[o].at \notin {"none", "refused"}
               /\ applying'[o].at \in Open => ontology' = Bare /\ InFlight' = {o}
    <3>1. applying[o].alone
      BY <1>3, <2>2
    <3>2. applying'[o].at \notin {"none", "refused"}
      BY <1>1, <1>3, <3>1 DEF AloneInv
    <3>3. applying'[o].at \in Open => applying[o].at \in Open /\ o \in InFlight'
      BY <1>1, <1>3 DEF InFlight
    <3>4. applying[o].at \in Open => ontology = Bare /\ InFlight = {o}
      BY <1>1, <3>1 DEF AloneInv
    <3> QED BY <2>1, <3>2, <3>3, <3>4
  <2> QED BY <2>2 DEF AloneInv, Bare
<1>6. HeldInv'
  <2>1. \A o \in Appliers : (applying'[o].at = "applied") = (applying[o].at = "applied")
    BY <1>1, <1>3 DEF Open
  <2>2. \A o \in Appliers, f \in PackFiles :
          applying'[o].at = "applied" /\ applying'[o].file = f => HoldsFile(f)'
    BY <1>1, <1>3, <2>1, HoldsStill DEF HeldInv
  <2>3. (\A o \in Appliers : applying'[o].at # "applied") => ontology = Bare /\ edited = {}
    BY <1>1, <2>1 DEF HeldInv
  <2> QED BY <2>2, <2>3 DEF HeldInv, Bare
<1> QED BY <1>4, <1>5, <1>6 DEF FileInv

LEMMA ApplyInsertsInv ==
  ASSUME FileInv, NEW op \in Appliers, ApplyInserts(op) PROVE FileInv'
<1> DEFINE kind == applying[op].at
           stage == IF ConstraintFails(applying[op].file, kind) THEN "refused" ELSE Following[kind]
<1>1. /\ kind \in DOMAIN Following /\ UNCHANGED <<ontology, edited>>
      /\ applying' = [applying EXCEPT ![op].at = stage]
  BY DEF ApplyInserts
<1>2. kind \in {"types", "edgeTypes", "rules", "space"}
  BY <1>1 DEF Following
<1>3. stage \in {"refused", "edgeTypes", "rules", "space", "config"}
  BY <1>2 DEF Following
<1>4. applying[op].alone => stage # "refused"
  <2>1. applying[op].alone => ontology = Bare /\ ValidFile(applying[op].file)
    BY <1>2 DEF FileInv, AloneInv, FileShaped, Open
  <2>2. applying[op].alone => ~ConstraintFails(applying[op].file, kind)
    BY <2>1, ValidFits
  <2> QED BY <1>2, <2>2 DEF Following
<1>5. op \in InFlight
  BY <1>2 DEF InFlight, Open
<1>6. stage \in PackStages /\ stage \notin {"none", "invalid", "applied"}
  BY <1>3 DEF PackStages, Open
<1> HIDE DEF stage
<1> QED BY <1>1, <1>4, <1>5, <1>6, OneMoves

LEMMA ApplyKilledInv ==
  ASSUME FileInv, NEW op \in Appliers, ApplyKilled(op) PROVE FileInv'
<1> DEFINE stage == "killed"
<1>1. op \in InFlight /\ applying' = [applying EXCEPT ![op].at = stage]
      /\ UNCHANGED <<ontology, edited>>
  BY DEF ApplyKilled
<1>2. stage \in PackStages /\ stage \notin {"none", "invalid", "applied"}
      /\ (applying[op].alone => stage # "refused")
  BY DEF PackStages
<1> HIDE DEF stage
<1> QED BY <1>1, <1>2, OneMoves

LEMMA ApplyEndsInv ==
  ASSUME FileInv, NEW op \in Appliers, ApplyEnds(op) PROVE FileInv'
<1> DEFINE f == applying[op].file
<1>1. /\ FileShaped /\ AloneInv /\ HeldInv /\ applying[op].at = "config"
      /\ applying' = [applying EXCEPT ![op].at = IF FragmentsTaken THEN "refused" ELSE "applied"]
      /\ ontology' = IF FragmentsTaken THEN ontology ELSE Added(f)
      /\ edited' = edited
  BY DEF FileInv, ApplyEnds
<1>2. op \in InFlight
  BY <1>1 DEF InFlight, Open
<1>3. CASE FragmentsTaken
  <2>1. ~applying[op].alone
    BY <1>1, <1>3 DEF AloneInv, Open, FragmentsTaken, Bare
  <2> DEFINE stage == "refused"
  <2>2. stage \in PackStages /\ stage \notin {"none", "invalid", "applied"}
        /\ (applying[op].alone => stage # "refused")
    BY <2>1 DEF PackStages
  <2>3. applying' = [applying EXCEPT ![op].at = stage] /\ UNCHANGED <<ontology, edited>>
    BY <1>1, <1>3
  <2> HIDE DEF stage
  <2> QED BY <1>2, <2>2, <2>3, OneMoves
<1>4. CASE ~FragmentsTaken
  <2>1. ontology.fragments = {}
    BY <1>4 DEF FragmentsTaken
  <2>2. /\ \A o \in Appliers : applying[o] \in [at : PackStages, file : PackFiles, alone : BOOLEAN]
        /\ DOMAIN applying = Appliers
        /\ f \in PackFiles /\ ValidFile(f)
    BY <1>1 DEF FileShaped
  <2>3. \A o \in Appliers : applying[o].at # "applied"
    <3> SUFFICES ASSUME NEW o \in Appliers, applying[o].at = "applied" PROVE FALSE
      OBVIOUS
    <3>1. HoldsFile(applying[o].file)
      BY <1>1, <2>2 DEF HeldInv
    <3> QED BY <2>1, <3>1 DEF HoldsFile
  <2>4. ontology = Bare /\ edited = {}
    BY <1>1, <2>3 DEF HeldInv
  <2>5. /\ applying'[op].at = "applied" /\ ontology' = Added(f)
        /\ \A o \in Appliers : /\ applying'[o].file = applying[o].file
                               /\ applying'[o].alone = applying[o].alone
                               /\ o # op => applying'[o].at = applying[o].at
        /\ applying' \in [Appliers -> [at : PackStages, file : PackFiles, alone : BOOLEAN]]
    BY <1>1, <1>4, <2>2 DEF PackStages
  <2>6. /\ DOMAIN ontology' = {"types", "edgeTypes", "twoWay", "rules", "fragments"}
        /\ ontology'.types = Both(ontology.types, f.types) /\ ontology'.edgeTypes = f.edgeTypes
        /\ ontology'.rules = Expand(f)
        /\ ontology'.fragments = {[sections |-> f.sections, aliases |-> f.aliases]}
    BY <2>4, <2>5 DEF Added, Bare
  <2>7. /\ DOMAIN ontology'.types = {SentinelType} \cup Declared(f)
        /\ \A t \in Declared(f) : ontology'.types[t] = f.types[t]
    <3>1. DOMAIN ontology.types = {SentinelType} /\ SentinelType \notin Declared(f)
      BY <2>2, <2>4 DEF Bare, ValidFile, ReservedNames
    <3> QED BY <2>6, <3>1 DEF Both, Declared
  <2>8. ASSUME NEW g \in PackFiles, g = f PROVE HoldsFile(g)'
    BY <1>1, <2>4, <2>6, <2>7, <2>8 DEF HoldsFile
  <2>9. HeldInv'
    BY <2>3, <2>5, <2>8 DEF HeldInv
  <2>10. FileShaped'
    <3>1. \A o \in Appliers : applying'[o].at \notin {"none", "invalid"} => ValidFile(applying[o].file)
      BY <1>1, <2>2, <2>5 DEF FileShaped
    <3> QED BY <2>5, <2>6, <3>1 DEF FileShaped
  <2>11. AloneInv'
    <3> SUFFICES ASSUME NEW o \in Appliers, applying'[o].alone
                 PROVE  applying'[o].at \notin {"none", "refused"} /\ applying'[o].at \notin Open
      BY DEF AloneInv
    <3>1. CASE o = op
      BY <2>5, <3>1 DEF Open
    <3>2. CASE o # op
      <4>1. applying[o].alone /\ applying'[o].at = applying[o].at
        BY <2>5, <3>2
      <4>2. applying[o].at \notin Open
        BY <1>1, <1>2, <3>2, <4>1 DEF AloneInv
      <4> QED BY <1>1, <4>1, <4>2 DEF AloneInv
    <3> QED BY <3>1, <3>2
  <2> QED BY <2>9, <2>10, <2>11 DEF FileInv
<1> QED BY <1>3, <1>4

LEMMA HandEditInv ==
  ASSUME FileInv, NEW kind \in {"type", "rule", "direction"}, HandEdit(kind) PROVE FileInv'
<1>1. /\ FileShaped /\ AloneInv /\ HeldInv /\ InFlight = {} /\ ontology.fragments # {}
      /\ kind \notin edited /\ edited' = edited \cup {kind} /\ applying' = applying
  BY DEF FileInv, HandEdit
<1>2. \/ /\ kind = "type" /\ \E t \in DOMAIN ontology.types \ {SentinelType} :
              ontology' = [ontology EXCEPT !.types[t] = @ \cup {"by hand"}]
      \/ /\ kind = "rule" /\ \E r \in ontology.rules :
              ontology' = [ontology EXCEPT !.rules = @ \ {r}]
      \/ /\ kind = "direction" /\ \E e \in ontology.edgeTypes :
              ontology' = [ontology EXCEPT !.twoWay = (@ \ {e}) \cup ({e} \ @)]
  BY DEF HandEdit
<1>3. DOMAIN ontology = {"types", "edgeTypes", "twoWay", "rules", "fragments"}
  BY <1>1 DEF FileShaped
<1>4. /\ DOMAIN ontology' = DOMAIN ontology /\ ontology'.fragments = ontology.fragments
      /\ ontology'.edgeTypes = ontology.edgeTypes
      /\ DOMAIN ontology'.types = DOMAIN ontology.types
      /\ kind # "type" => ontology'.types = ontology.types
      /\ kind # "rule" => ontology'.rules = ontology.rules
  BY <1>2, <1>3
<1>5. FileShaped'
  BY <1>1, <1>3, <1>4 DEF FileShaped
<1>6. AloneInv'
  BY <1>1 DEF AloneInv, InFlight
<1>7. ASSUME NEW f \in PackFiles, HoldsFile(f) PROVE HoldsFile(f)'
  <2>1. /\ ontology'.fragments = {[sections |-> f.sections, aliases |-> f.aliases]}
        /\ DOMAIN ontology'.types = {SentinelType} \cup Declared(f)
        /\ ontology'.edgeTypes = f.edgeTypes
    BY <1>4, <1>7 DEF HoldsFile
  <2>2. ontology'.rules \subseteq Expand(f) /\ ("rule" \in edited') = (ontology'.rules # Expand(f))
    <3>1. CASE kind = "rule"
      <4>1. PICK r \in ontology.rules : ontology' = [ontology EXCEPT !.rules = @ \ {r}]
        BY <1>2, <3>1
      <4>2. ontology'.rules = ontology.rules \ {r}
        BY <1>3, <4>1
      <4>3. r \in Expand(f) /\ ontology.rules \subseteq Expand(f)
        BY <1>7 DEF HoldsFile
      <4>4. ontology'.rules # Expand(f) /\ ontology'.rules \subseteq Expand(f)
        BY <4>2, <4>3
      <4> QED BY <1>1, <3>1, <4>4
    <3>2. CASE kind # "rule"
      <4>1. ("rule" \in edited') = ("rule" \in edited) /\ ontology'.rules = ontology.rules
        BY <1>1, <1>4, <3>2
      <4>2. ontology.rules \subseteq Expand(f) /\ ("rule" \in edited) = (ontology.rules # Expand(f))
        BY <1>7 DEF HoldsFile
      <4> QED BY <4>1, <4>2
    <3> QED BY <3>1, <3>2
  <2>3. /\ "type" \notin edited' => \A t \in Declared(f) : ontology'.types[t] = f.types[t]
        /\ "type" \in edited' => \E t \in Declared(f) : "by hand" \in ontology'.types[t]
    <3>1. CASE kind = "type"
      <4>1. PICK t \in DOMAIN ontology.types \ {SentinelType} :
              ontology' = [ontology EXCEPT !.types[t] = @ \cup {"by hand"}]
        BY <1>2, <3>1
      <4>2. ontology'.types[t] = ontology.types[t] \cup {"by hand"}
        BY <1>3, <4>1
      <4>3. t \in Declared(f)
        BY <1>7, <4>1 DEF HoldsFile
      <4> QED BY <1>1, <3>1, <4>2, <4>3
    <3>2. CASE kind # "type"
      BY <1>1, <1>4, <1>7, <3>2 DEF HoldsFile
    <3> QED BY <3>1, <3>2
  <2> QED BY <2>1, <2>2, <2>3 DEF HoldsFile
<1>8. \E o \in Appliers : applying[o].at = "applied"
  BY <1>1 DEF HeldInv, Bare
<1>9. HeldInv'
  BY <1>1, <1>7, <1>8 DEF HeldInv
<1> QED BY <1>5, <1>6, <1>9 DEF FileInv

\* What holds of a file's registry is what doctor, the tool list and the briefing
\* rely on.
LEMMA HeldIsHonest ==
  ASSUME NEW f \in PackFiles, ValidFile(f), HoldsFile(f)
  PROVE  /\ (Drift(f) = NoDrift) = (edited \cap {"type", "rule"} = {})
         /\ SameTopicWarned(f) => \A t \in Declared(f) : ~TwinsLinked(t)
         /\ AliasesBuild = NamesFree(f)
         /\ \A a \in f.aliases :
              a.name \notin EngineTools => Dispatched(a.name) = IF NamesFree(f) THEN a.binds ELSE "none"
         /\ \A s \in f.sections : "keyless" \notin {s.link, s.bound} => Compiles(s)
<1> DEFINE own == [t \in (DOMAIN ontology.types) \ {SentinelType} |-> ontology.types[t]]
<1>1. SentinelType \notin Declared(f)
  BY DEF ValidFile, ReservedNames
<1>2. DOMAIN own = Declared(f) /\ \A t \in Declared(f) : own[t] = ontology.types[t]
  BY <1>1 DEF HoldsFile
<1> HIDE DEF own
<1>3. /\ Drift(f).types = {t \in Declared(f) : own[t] # f.types[t]}
      /\ Drift(f).edgeTypes = {}
      /\ Drift(f).rules = Expand(f) \ ontology.rules
      /\ Drift(f) = [types |-> Drift(f).types, edgeTypes |-> Drift(f).edgeTypes,
                     rules |-> Drift(f).rules]
  BY <1>2 DEF Drift, HoldsFile, own
<1>4. (Drift(f) = NoDrift) <=> Drift(f).types = {} /\ Drift(f).rules = {}
  BY <1>3 DEF NoDrift
<1>5. Drift(f).types = {} <=> "type" \notin edited
  <2>1. CASE "type" \notin edited
    <3>1. \A t \in Declared(f) : ontology.types[t] = f.types[t]
      BY <2>1 DEF HoldsFile
    <3>2. \A t \in Declared(f) : own[t] = f.types[t]
      BY <1>2, <3>1
    <3>3. {t \in Declared(f) : own[t] # f.types[t]} = {}
      BY <3>2
    <3> QED BY <1>3, <2>1, <3>3
  <2>2. CASE "type" \in edited
    <3>1. PICK t \in Declared(f) : "by hand" \in ontology.types[t]
      BY <2>2 DEF HoldsFile
    <3>2. "by hand" \notin f.types[t]
      BY PackFileAssumption DEF Declared
    <3>3. t \in Drift(f).types
      BY <1>2, <1>3, <3>1, <3>2
    <3> QED BY <2>2, <3>3
  <2> QED BY <2>1, <2>2
<1>6. Drift(f).rules = {} <=> "rule" \notin edited
  BY <1>3 DEF HoldsFile
<1>7. (Drift(f) = NoDrift) = (edited \cap {"type", "rule"} = {})
  <2>1. edited \cap {"type", "rule"} = {} <=> "type" \notin edited /\ "rule" \notin edited
    OBVIOUS
  <2> QED BY <1>4, <1>5, <1>6, <2>1
<1>8. SameTopicWarned(f) => \A t \in Declared(f) : ~TwinsLinked(t)
  <2> SUFFICES ASSUME NEW t \in Declared(f), <<"same_topic", t, t>> \in Expand(f)
               PROVE  ~SameTopicWarned(f)
    BY DEF TwinsLinked, HoldsFile
  <2> DEFINE ends(x) == IF x = "*" THEN DOMAIN f.types ELSE {x}
  <2>1. PICK rule \in f.rules :
          <<"same_topic", t, t>> \in {rule[1]} \X ends(rule[2]) \X ends(rule[3])
    BY DEF Expand
  <2>2. rule[1] = "same_topic"
    BY <2>1
  <2>3. rule[1] \in f.edgeTypes
    BY DEF ValidFile, BadRules
  <2> QED BY <2>2, <2>3 DEF SameTopicWarned
<1>11. Aliases = f.aliases
  <2> DEFINE fragment == [sections |-> f.sections, aliases |-> f.aliases]
  <2>1. ontology.fragments = {fragment} /\ fragment.aliases = f.aliases
    BY DEF HoldsFile
  <2> HIDE DEF fragment
  <2>2. ASSUME NEW b
        PROVE  b \in Aliases <=> b \in f.aliases
    BY <2>1, Zenon DEF Aliases
  <2>3. \A b : b \in Aliases <=> b \in f.aliases
    BY <2>2
  <2> QED BY <2>3, Zenon
<1>12. AliasesBuild = NamesFree(f)
  BY <1>11 DEF AliasesBuild, NamesFree, Malformed, ValidFile, BadAliases
<1>9. ASSUME NEW a \in f.aliases, a.name \notin EngineTools
      PROVE  Dispatched(a.name) = IF NamesFree(f) THEN a.binds ELSE "none"
  <2>1. Aliases = f.aliases
    BY <1>11
  <2>2. AliasesBuild = NamesFree(f)
    BY <1>12
  <2>3. \A b \in f.aliases : b.name = a.name => b = a
    BY PackFileAssumption
  <2>4. (CHOOSE b \in Aliases : b.name = a.name) = a
    BY <2>1, <2>3
  <2> QED BY <1>9, <2>1, <2>2, <2>4 DEF Dispatched
<1>10. \A s \in f.sections : "keyless" \notin {s.link, s.bound} => Compiles(s)
  BY DEF ValidFile, BadSections, Compiles
<1> QED BY <1>7, <1>8, <1>9, <1>10, <1>12

LEMMA FileStepInv ==
  ASSUME FileInv, edited \subseteq {"type", "rule", "direction"}, [PackFileNext]_packFileVars
  PROVE  FileInv' /\ edited' \subseteq {"type", "rule", "direction"}
<1>1. CASE UNCHANGED packFileVars
  <2>1. UNCHANGED <<ontology, edited>> /\ applying' = applying
    BY <1>1 DEF packFileVars
  <2>2. HeldInv'
    BY <2>1, HoldsStill DEF FileInv, HeldInv, Bare
  <2> QED BY <2>1, <2>2 DEF FileInv, FileShaped, AloneInv, InFlight, Bare
<1>2. ASSUME NEW op \in Appliers,
             ApplyBegins(op) \/ ApplyInserts(op) \/ ApplyEnds(op) \/ ApplyKilled(op)
      PROVE  FileInv' /\ edited' = edited
  BY <1>2, ApplyBeginsInv, ApplyInsertsInv, ApplyEndsInv, ApplyKilledInv
     DEF ApplyBegins, ApplyInserts, ApplyEnds, ApplyKilled
<1>3. ASSUME NEW kind \in {"type", "rule", "direction"}, HandEdit(kind)
      PROVE  FileInv' /\ edited' = edited \cup {kind}
  BY <1>3, HandEditInv DEF HandEdit
<1> QED BY <1>1, <1>2, <1>3 DEF PackFileNext

\* Applied alone a valid file meets no constraint; however the applies interleave
\* or die the registry is bare or holds one file whole; doctor, the aliases and
\* the briefing then answer as the file says, but for the exceptions named in
\* PackFileHonest (packs.validate, packs.apply).
THEOREM ValidFilesLive == PackFileSpec => []PackFileHonest
<1> DEFINE Inv == FileInv /\ edited \subseteq {"type", "rule", "direction"}
<1>1. PackFileInit => Inv
  BY FileInitInv DEF PackFileInit
<1>2. Inv /\ [PackFileNext]_packFileVars => Inv'
  BY FileStepInv
<1>3. Inv => PackFileHonest
  <2> SUFFICES ASSUME Inv PROVE PackFileHonest
    OBVIOUS
  <2>1. FileShaped /\ AloneInv /\ HeldInv
    BY DEF FileInv
  <2>2. \A op \in Appliers : applying[op].alone => applying[op].at # "refused"
    BY <2>1 DEF AloneInv
  <2>3. AppliedFiles = {} => ontology = Bare
    BY <2>1 DEF AppliedFiles, HeldInv
  <2>4. ASSUME NEW f \in AppliedFiles PROVE f \in PackFiles /\ ValidFile(f) /\ HoldsFile(f)
    <3>1. PICK op \in Appliers : applying[op].at = "applied" /\ f = applying[op].file
      BY DEF AppliedFiles
    <3> QED BY <2>1, <3>1 DEF FileShaped, HeldInv
  <2>5. (edited \cap {"type", "rule"} = {}) = (edited \subseteq {"direction"})
    OBVIOUS
  <2>6. \A f \in AppliedFiles :
          ontology.fragments = {[sections |-> f.sections, aliases |-> f.aliases]}
    BY <2>4 DEF HoldsFile
  <2> QED BY <2>2, <2>3, <2>4, <2>5, <2>6, HeldIsHonest DEF PackFileHonest
<1> QED BY <1>1, <1>2, <1>3, PTL DEF PackFileSpec
=============================================================================
