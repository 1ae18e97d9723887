------------------------------- MODULE Packs -------------------------------
(***************************************************************************)
(* The registry of a space and the upgrade of its pack                     *)
(* (engraphy/admin/packs.py), against the writes that go on meanwhile.     *)
(* An upgrade is one READ COMMITTED transaction of many statements: what   *)
(* it scanned may be stale when it commits.  A write sanitizes by the      *)
(* registry it reads, validates against the one committed when its trigger *)
(* runs, and waits on a registry row the upgrade has deleted until it ends.*)
(* What it has inserted the upgrade does not see before it commits, but a  *)
(* DELETE of the registry row it names waits for that.                     *)
(***************************************************************************)
EXTENDS AttrSpec, PackRules, Sequences

CONSTANTS
  FirstPack,   \* the pack applied to the space
  PackVersions,\* those it may be upgraded to: [types, edgeTypes, rules], types
               \* a function to specs, rules triples with "*" for any type
  GivenAttrs,  \* the attributes writes arrive with
  MaxNodes, MaxEdges, MaxUpgrades \* bounds

ASSUME PackAssumption ==
  /\ MaxNodes \in Nat /\ MaxEdges \in Nat /\ MaxUpgrades \in Nat
  /\ DOMAIN FirstPack.types # {}
  /\ \A pack \in PackVersions \cup {FirstPack} : \A r \in pack.rules :
       r[1] \in pack.edgeTypes /\ {r[2], r[3]} \subseteq DOMAIN pack.types \cup {"*"}
  /\ \A g \in GivenAttrs :
       g = [value |-> [k \in DOMAIN g.value |-> g.value[k]], dropped |-> g.dropped]

VARIABLES
  registry,   \* [types, edgeTypes, rules], as committed
  stored,     \* the nodes: [type, attrs, status, late]; late: an upgrade was
              \* running between its insert and its commit
  joined,     \* the edges: [type, src, dst, late]
  excused,    \* types whose nonconforming rows --allow-nonconforming let be
  upgrade,    \* the running upgrade: [pc, pack, draft, excused, left, refused,
              \* allow]
  upgrades,   \* how many upgrades ran
  lastWrite,  \* the write under way, or the last one: [pc, type, given, spec,
              \* same, ended]; spec is the one it sanitized by, same: still
              \* the registered one when its row was inserted, ended: how many
              \* upgrades had ended then
  joining     \* the edge inserted and not committed: [type, src, dst, ended]

packVars == <<registry, stored, joined, excused, upgrade, upgrades, lastWrite, joining>>

NoUpgrade == [pc |-> "none", pack |-> FirstPack, draft |-> Registry(FirstPack),
              excused |-> {}, left |-> {}, refused |-> FALSE, allow |-> FALSE]
NoWrite == [pc |-> "none"]
NoJoin == [type |-> "none"]

PacksInit ==
  /\ registry = Registry(FirstPack)
  /\ stored = <<>> /\ joined = {} /\ excused = {}
  /\ upgrade = NoUpgrade /\ upgrades = 0 /\ lastWrite = NoWrite /\ joining = NoJoin

-----------------------------------------------------------------------------
Running == upgrade.pc # "none"
Draft == upgrade.draft

Ended == IF Running THEN upgrades - 1 ELSE upgrades
Writing == lastWrite.pc \in {"sanitized", "inserted"}

\* A write reads the spec of its type and sanitizes its values by it ...
WriteSanitizes(t, given) ==
  /\ ~Writing /\ Len(stored) < MaxNodes
  /\ lastWrite' = [pc |-> "sanitized", type |-> t, given |-> given,
                   spec |-> registry.types[t], same |-> TRUE, ended |-> 0]
  /\ UNCHANGED <<registry, stored, joined, excused, upgrade, upgrades, joining>>

\* ... a later statement inserts the row: the trigger validates what was
\* sanitized against the spec registered by then, and refuses what fails it ...
RowInserts ==
  LET w == lastWrite
      known == w.type \in DOMAIN registry.types
      kept == known /\ Valid(registry.types[w.type], Sanitize(w.spec, w.given))
  IN /\ w.pc = "sanitized"
     /\ Running /\ known => w.type \in DOMAIN Draft.types
     /\ lastWrite' = [w EXCEPT !.pc = IF kept THEN "inserted" ELSE "refused",
                               !.same = known /\ registry.types[w.type] = w.spec,
                               !.ended = Ended]
     /\ UNCHANGED <<registry, stored, joined, excused, upgrade, upgrades, joining>>

\* ... and the transaction commits, which checks nothing again.
RowCommits ==
  /\ lastWrite.pc = "inserted"
  /\ lastWrite' = [lastWrite EXCEPT !.pc = "stored"]
  /\ stored' = Append(stored, [type |-> lastWrite.type, status |-> "active",
                               attrs |-> Sanitize(lastWrite.spec, lastWrite.given),
                               late |-> lastWrite.ended # upgrades])
  /\ UNCHANGED <<registry, joined, excused, upgrade, upgrades, joining>>

\* A node leaves the active rows; the trigger validates that update too.
RetireNode(n) ==
  /\ n \in DOMAIN stored /\ stored[n].status = "active"
  /\ Valid(registry.types[stored[n].type], stored[n].attrs)
  /\ stored' = [stored EXCEPT ![n].status = "archived"]
  /\ UNCHANGED <<registry, joined, excused, upgrade, upgrades, lastWrite, joining>>

EdgeInserts(e, s, d) ==
  /\ joining = NoJoin /\ Cardinality(joined) < MaxEdges
  /\ {s, d} \subseteq DOMAIN stored /\ s # d
  /\ <<e, stored[s].type, stored[d].type>> \in registry.rules
  /\ Running => e \in Draft.edgeTypes
  /\ \A j \in joined : <<j.type, j.src, j.dst>> # <<e, s, d>>
  /\ joining' = [type |-> e, src |-> s, dst |-> d, ended |-> Ended]
  /\ UNCHANGED <<registry, stored, joined, excused, upgrade, upgrades, lastWrite>>

EdgeCommits ==
  /\ joining # NoJoin
  /\ joined' = joined \cup {[type |-> joining.type, src |-> joining.src, dst |-> joining.dst,
                             late |-> joining.ended # upgrades]}
  /\ joining' = NoJoin
  /\ UNCHANGED <<registry, stored, excused, upgrade, upgrades, lastWrite>>

-----------------------------------------------------------------------------
(* upgrade, in the order of its statements.                                *)

UpgradeBegins(pack, allow) ==
  /\ ~Running /\ upgrades < MaxUpgrades
  /\ upgrades' = upgrades + 1
  /\ upgrade' = [pc |-> "types", pack |-> pack, draft |-> registry,
                 excused |-> excused, left |-> DOMAIN pack.types, refused |-> FALSE, allow |-> allow]
  /\ UNCHANGED <<registry, stored, joined, excused, lastWrite, joining>>

\* Mutant: a changed spec is applied without the conformance scan.
NoViolators(t) == {}

\* The active rows that fail the new spec of type t.
Violators(t) ==
  {n \in DOMAIN stored : /\ stored[n].type = t /\ stored[n].status = "active"
                         /\ ~Valid(upgrade.pack.types[t], stored[n].attrs)}

\* A new type is added; an unchanged spec is let be; a changed one is applied
\* when no active row fails it, or despite them when told to, and refused
\* otherwise.
ScanType(t) ==
  /\ upgrade.pc = "types" /\ t \in upgrade.left
  /\ LET spec == upgrade.pack.types[t]
         known == t \in DOMAIN Draft.types
         changed == known /\ Draft.types[t] # spec
         failing == changed /\ Violators(t) # {}
         applied == ~failing \/ upgrade.allow
     IN upgrade' = [upgrade EXCEPT
          !.left = @ \ {t},
          !.refused = @ \/ ~applied,
          !.excused = IF failing THEN @ \cup {t}
                      ELSE IF changed THEN @ \ {t} ELSE @,
          !.draft.types = IF applied
                          THEN [x \in DOMAIN @ \cup {t} |-> IF x = t THEN spec ELSE @[x]]
                          ELSE @]
  /\ UNCHANGED <<registry, stored, joined, excused, upgrades, lastWrite, joining>>

AddEdgeTypesAndRules ==
  /\ upgrade.pc = "types" /\ upgrade.left = {}
  /\ upgrade' = [upgrade EXCEPT
       !.pc = "rules",
       !.draft.edgeTypes = @ \cup upgrade.pack.edgeTypes,
       !.draft.rules = @ \cup Expand(upgrade.pack)]
  /\ UNCHANGED <<registry, stored, joined, excused, upgrades, lastWrite, joining>>

Used(rule) ==
  \E j \in joined : rule = <<j.type, stored[j.src].type, stored[j.dst].type>>

\* A rule the new pack lacks goes unless an edge uses it, which refuses.
RemoveRules ==
  /\ upgrade.pc = "rules"
  /\ LET gone == Draft.rules \ Expand(upgrade.pack)
         kept == {r \in gone : Used(r)}
     IN upgrade' = [upgrade EXCEPT
          !.pc = "edgeTypes", !.refused = @ \/ kept # {},
          !.draft.rules = (@ \ gone) \cup kept]
  /\ UNCHANGED <<registry, stored, joined, excused, upgrades, lastWrite, joining>>

\* A removed edge type takes its rules with it (ON DELETE CASCADE).  The DELETE
\* of one no edge has waits for an edge of it that is not committed.
RemoveEdgeTypes ==
  /\ upgrade.pc = "edgeTypes"
  /\ LET gone == Draft.edgeTypes \ upgrade.pack.edgeTypes
         kept == {e \in gone : \E j \in joined : j.type = e}
     IN /\ joining.type \notin gone \ kept
        /\ upgrade' = [upgrade EXCEPT
             !.pc = "nodeTypes", !.refused = @ \/ kept # {},
             !.draft.edgeTypes = (@ \ gone) \cup kept,
             !.draft.rules = {r \in @ : r[1] \notin gone \ kept}]
  /\ UNCHANGED <<registry, stored, joined, excused, upgrades, lastWrite, joining>>

\* A node type goes when no row has it: an active row refuses, and so do the
\* foreign keys of an inactive row or of a rule that was kept.  The DELETE of
\* one no active row has waits for a row of it that is not committed.
RemoveNodeTypes ==
  /\ upgrade.pc = "nodeTypes"
  /\ LET gone == DOMAIN Draft.types \ DOMAIN upgrade.pack.types
         kept == {t \in gone : \/ \E n \in DOMAIN stored : stored[n].type = t
                               \/ \E r \in Draft.rules : t \in {r[2], r[3]}}
         used == {stored[n].type : n \in {m \in DOMAIN stored : stored[m].status = "active"}}
     IN /\ lastWrite.pc = "inserted" => lastWrite.type \notin gone \ used
        /\ upgrade' = [upgrade EXCEPT
             !.pc = "commit", !.refused = @ \/ kept # {},
             !.draft.types = [t \in (DOMAIN @ \ gone) \cup kept |-> @[t]]]
  /\ UNCHANGED <<registry, stored, joined, excused, upgrades, lastWrite, joining>>

\* A worklist rolls everything back.
UpgradeRefused ==
  /\ upgrade.pc = "commit" /\ upgrade.refused
  /\ upgrade' = NoUpgrade
  /\ UNCHANGED <<registry, stored, joined, excused, upgrades, lastWrite, joining>>

UpgradeCommits ==
  /\ upgrade.pc = "commit" /\ ~upgrade.refused
  /\ registry' = Draft
  /\ excused' = upgrade.excused
  /\ upgrade' = NoUpgrade
  /\ UNCHANGED <<stored, joined, upgrades, lastWrite, joining>>

PacksNext ==
  \/ \E t \in DOMAIN registry.types, given \in GivenAttrs : WriteSanitizes(t, given)
  \/ RowInserts \/ RowCommits
  \/ \E n \in DOMAIN stored : RetireNode(n)
  \/ \E e \in registry.edgeTypes, s, d \in DOMAIN stored : EdgeInserts(e, s, d)
  \/ EdgeCommits
  \/ \E pack \in PackVersions, allow \in BOOLEAN : UpgradeBegins(pack, allow)
  \/ \E t \in upgrade.left : ScanType(t)
  \/ AddEdgeTypesAndRules \/ RemoveRules \/ RemoveEdgeTypes \/ RemoveNodeTypes
  \/ UpgradeRefused \/ UpgradeCommits

PacksSpec == PacksInit /\ [][PacksNext]_packVars

PacksOver == ~Running /\ upgrades = MaxUpgrades /\ ~Writing /\ joining = NoJoin

-----------------------------------------------------------------------------
(* Properties.                                                             *)

PacksTypeOK ==
  /\ registry.rules \subseteq
       registry.edgeTypes \X (DOMAIN registry.types) \X (DOMAIN registry.types)
  /\ Len(stored) <= MaxNodes /\ Cardinality(joined) <= MaxEdges

\* Whatever upgrades, refused or applied, and writes went before: every row has
\* a registered type, every rule registered ends, and every edge a registered
\* type.  An active row conforms to its type's spec unless an upgrade ran between
\* its insert and its commit or --allow-nonconforming let it be, and an edge has
\* a rule unless an upgrade ran between its insert and its commit (packs.upgrade;
\* the two exceptions are what its scan cannot see).
PackSound ==
  /\ \A n \in DOMAIN stored :
       /\ stored[n].type \in DOMAIN registry.types
       /\ stored[n].status = "active" /\ ~stored[n].late /\ stored[n].type \notin excused
            => Valid(registry.types[stored[n].type], stored[n].attrs)
  /\ \A j \in joined :
       /\ j.type \in registry.edgeTypes
       /\ ~j.late => <<j.type, stored[j.src].type, stored[j.dst].type>> \in registry.rules
  /\ \A r \in registry.rules : {r[2], r[3]} \subseteq DOMAIN registry.types

\* A failed value never costs a memory: unless an upgrade changed the spec
\* between the read and the insert of the write, it is refused only for a key that is
\* absent, unknown, or required under a condition and quarantined; and a write
\* that conforms is stored as it came (attr_spec.sanitize_attrs).
ValuesNeverRefuse ==
  LET w == lastWrite
  IN /\ w.pc = "refused" /\ w.same =>
          \/ Absent(w.spec, w.given) # {}
          \/ Unmet(w.spec, w.given) # {}
          \/ Unknown(w.spec, w.given) # {}
          \/ \E c \in w.spec.requires : c[2] \in BadValues(w.spec, w.given)
     /\ w.pc = "stored" /\ Valid(w.spec, w.given) =>
          stored[Len(stored)].attrs = w.given

=============================================================================
