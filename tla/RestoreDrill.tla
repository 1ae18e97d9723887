---------------------------- MODULE RestoreDrill ----------------------------
(***************************************************************************)
(* engraphy-admin verify-restore (admin/verify_restore.py), as a cron job  *)
(* runs it: a dump is restored into a scratch database, which is checked   *)
(* step by step and dropped.  The restore may lose or alter anything, and  *)
(* the process may be killed at any step.                                  *)
(***************************************************************************)
EXTENDS Integers, Sequences

CONSTANTS
  DrillSpaces,    \* the spaces, in the order of their ids
  MaxDrills,      \* bound: runs of the verb
  MaxDrillKills   \* bound: kills

SpaceIds == {DrillSpaces[i] : i \in DOMAIN DrillSpaces}

ASSUME DrillBounds == DrillSpaces \in Seq(SpaceIds) /\ {MaxDrills, MaxDrillKills} \subseteq Nat

\* What a restore leaves of a space: nothing, the space with no sentinel in its
\* config (it is older than sentinels, or its config was lost), or a configured
\* sentinel whose row is gone, altered or intact.
SpaceRestored == {"absent", "unconfigured", "gone", "altered", "intact"}

VARIABLES
  named,          \* whether the operator gave --sentinel-id
  minted,         \* which spaces of the dumped database have a sentinel
  drill,          \* the step the run is at, "none" between runs
  restored,       \* what is in the scratch database
  checked,        \* how many spaces' sentinels were checked
  usedExplicit,   \* used_explicit
  skipped,        \* the spaces logged as skipped, having nothing to retrieve
  verdict,        \* "ok", "failed", or "none" so far
  scratch,        \* how many scratch databases exist
  drills, drillKills

drillVars == <<named, minted, drill, restored, checked, usedExplicit, skipped, verdict, scratch,
               drills, drillKills>>

\* What may be in the scratch database: the schema of this install, each space, a
\* node type with a scope of its space, the CHECKs of the two tables, and the node
\* the operator named.
ScratchStates ==
  [schema : BOOLEAN, spaces : [SpaceIds -> SpaceRestored], registry : BOOLEAN,
   spaceCheck : BOOLEAN, nodeChecks : BOOLEAN, canary : BOOLEAN]

NothingRestored ==
  [schema |-> FALSE, spaces |-> [s \in SpaceIds |-> "absent"], registry |-> FALSE,
   spaceCheck |-> FALSE, nodeChecks |-> FALSE, canary |-> FALSE]

Present == {s \in SpaceIds : restored.spaces[s] # "absent"}

DrillInit ==
  /\ named \in BOOLEAN /\ minted \in SUBSET SpaceIds /\ skipped = {}
  /\ drill = "none" /\ restored = NothingRestored /\ checked = 0 /\ usedExplicit = FALSE
  /\ verdict = "none" /\ scratch = 0 /\ drills = 0 /\ drillKills = 0

Fails == drill' = "drop" /\ verdict' = "failed"
Passes(step) == drill' = step /\ UNCHANGED verdict

\* The dump file is there; without it nothing is created.
DrillBegins ==
  /\ drill = "none" /\ drills < MaxDrills
  /\ drills' = drills + 1 /\ scratch' = scratch + 1
  /\ drill' = "restore" /\ verdict' = "none"
  /\ restored' = NothingRestored /\ checked' = 0 /\ usedExplicit' = FALSE /\ skipped' = {}
  /\ UNCHANGED <<named, minted, drillKills>>

\* Whatever comes of it is decisive only when pg_restore's own words say error.
Restores ==
  /\ drill = "restore"
  /\ restored' \in ScratchStates
  /\ \A s \in SpaceIds \ minted : restored'.spaces[s] \in {"absent", "unconfigured"}
  /\ Passes("schema") \/ Fails
  /\ UNCHANGED <<named, minted, checked, usedExplicit, skipped, scratch, drills, drillKills>>

ChecksSchema ==
  /\ drill = "schema"
  /\ IF restored.schema THEN Passes("counts") ELSE Fails
  /\ UNCHANGED <<named, minted, restored, checked, usedExplicit, skipped, scratch, drills, drillKills>>

CountsRows ==
  /\ drill = "counts"
  /\ IF Present # {} THEN Passes("probes") ELSE Fails
  /\ UNCHANGED <<named, minted, restored, checked, usedExplicit, skipped, scratch, drills, drillKills>>

\* Each probe must raise the constraint's own error; nothing it wrote persists.  The
\* CHECKs of nodes are probed with a type and scope of the restored database, and
\* not at all when it has none.
Probes ==
  /\ drill = "probes"
  /\ IF restored.spaceCheck /\ (restored.registry => restored.nodeChecks) THEN Passes("sentinels") ELSE Fails
  /\ UNCHANGED <<named, minted, restored, checked, usedExplicit, skipped, scratch, drills, drillKills>>

\* Mutant: the first space answers for all.
SpacesDueFirst == checked = 0

SpacesDue == checked < Len(DrillSpaces)

\* A restored space's own sentinel, with its content, or the node the operator
\* named, present or not; a space with neither is skipped with a line that names it,
\* one that was not restored without.
ChecksSpace ==
  /\ drill = "sentinels" /\ SpacesDue
  /\ LET id == DrillSpaces[checked + 1]
         s == restored.spaces[id]
     IN /\ IF \/ s \in {"gone", "altered"}
              \/ s = "unconfigured" /\ named /\ ~restored.canary
           THEN Fails ELSE Passes("sentinels")
        /\ usedExplicit' = (usedExplicit \/ (s = "unconfigured" /\ named))
        /\ skipped' = IF s = "unconfigured" /\ ~named THEN skipped \cup {id} ELSE skipped
  /\ checked' = checked + 1
  /\ UNCHANGED <<named, minted, restored, scratch, drills, drillKills>>

\* A node the operator named is looked for even when every space had its own.
ChecksNamed ==
  /\ drill = "sentinels" /\ ~SpacesDue
  /\ IF named /\ ~usedExplicit /\ ~restored.canary THEN Fails
     ELSE drill' = "drop" /\ verdict' = "ok"
  /\ UNCHANGED <<named, minted, restored, checked, usedExplicit, skipped, scratch, drills, drillKills>>

\* The scratch database goes whatever the outcome was.
Drops ==
  /\ drill = "drop"
  /\ drill' = "none" /\ scratch' = scratch - 1
  /\ UNCHANGED <<named, minted, restored, checked, usedExplicit, skipped, verdict, drills, drillKills>>

DrillKilled ==
  /\ drill # "none" /\ drillKills < MaxDrillKills
  /\ drillKills' = drillKills + 1 /\ drill' = "none" /\ verdict' = "none"
  /\ UNCHANGED <<named, minted, restored, checked, usedExplicit, skipped, scratch, drills>>

DrillNext ==
  \/ DrillBegins \/ Restores \/ ChecksSchema \/ CountsRows \/ Probes
  \/ ChecksSpace \/ ChecksNamed \/ Drops \/ DrillKilled

DrillSpec == DrillInit /\ [][DrillNext]_drillVars

DrillOver == drill = "none" /\ drills = MaxDrills

-----------------------------------------------------------------------------
DrillTypeOK ==
  /\ drill \in {"none", "restore", "schema", "counts", "probes", "sentinels", "drop"}
  /\ verdict \in {"none", "ok", "failed"}
  /\ restored \in ScratchStates
  /\ checked \in 0..Len(DrillSpaces) /\ usedExplicit \in BOOLEAN /\ skipped \subseteq SpaceIds
  /\ drills \in 0..MaxDrills /\ drillKills \in 0..MaxDrillKills /\ scratch \in Nat

\* A drill that says ok has proved what its log claims: the schema this install
\* expects, some space, the CHECK of spaces and, if there was a type and scope to
\* probe with, those of nodes; every restored space has its sentinel with its
\* content, or the log names it as skipped, or it has none of its own and the node
\* the operator named is there; a space with a sentinel of its own is never passed
\* as skipped; a named node is there.  Only killed drills leave a scratch database
\* behind.  Of a space that was not restored an ok says nothing.
DrillHonest ==
  /\ verdict = "ok" =>
       /\ restored.schema /\ Present # {}
       /\ restored.spaceCheck /\ (restored.registry => restored.nodeChecks)
       /\ \A s \in Present \ skipped :
            restored.spaces[s] = "intact" \/ (restored.spaces[s] = "unconfigured" /\ named)
       /\ \A s \in skipped : restored.spaces[s] = "unconfigured" /\ ~named
       /\ named => restored.canary
  /\ scratch = drillKills + (IF drill = "none" THEN 0 ELSE 1)

=============================================================================
