------------------------------ MODULE PackFile ------------------------------
(***************************************************************************)
(* A pack file on its way into a space: `pack validate` reads the file     *)
(* alone, `pack apply` inserts it under the constraints of the registry    *)
(* tables, one transaction per operator, `doctor` compares the registry    *)
(* with a file, and the server lists and calls the aliases and runs the    *)
(* briefing sections of what was applied (engraphy/admin/packs.py,         *)
(* doctor.py, server/aliases.py, migration 0003).                          *)
(***************************************************************************)
EXTENDS Integers, FiniteSets, PackRules

CONSTANTS
  PackFiles,      \* files that pass the JSON schema: [types, edgeTypes, twoWay,
                  \* rules, sections, aliases]; types maps a name to its keys
  Appliers,       \* operators who apply a pack to the space
  BadNames,       \* names outside the name pattern
  SentinelType,   \* the engine's own node type, registered with the space
  ReservedKeys,   \* attribute keys the engine manages
  AliasTools,     \* CORE_TOOLS: the tools an alias may bind, with their arguments
  EngineTools,    \* every tool the server dispatches
  MaxEdits        \* bound: registry rows edited by hand

ASSUME PackFileAssumption ==
  /\ DOMAIN AliasTools \subseteq EngineTools /\ MaxEdits \in Nat
  /\ \A f \in PackFiles :
       /\ f.twoWay \subseteq f.edgeTypes
       /\ \A a, b \in f.aliases : a.name = b.name => a = b  \* the keys of a JSON object
       /\ \A k \in DOMAIN f.types : "by hand" \notin f.types[k]

VARIABLES
  ontology,   \* the committed registry: [types, edgeTypes, twoWay, rules], and
              \* fragments, the config rows of the packs applied
  applying,   \* per operator: [at, file, alone]; alone: no other apply, before
              \* or at the same time, and no edit
  edited      \* the kinds of hand edits made

packFileVars == <<ontology, applying, edited>>

-----------------------------------------------------------------------------
(* pack validate.                                                          *)

AttrKeys(f) == UNION {f.types[t] : t \in DOMAIN f.types}
Declared(f) == DOMAIN f.types

\* The JSON schema leaves a key that does not match its pattern unconstrained.
BadlyNamed(f) == (Declared(f) \cup f.edgeTypes \cup AttrKeys(f)) \cap BadNames

ReservedNames(f) ==
  ((Declared(f) \cup f.edgeTypes) \cap {SentinelType}) \cup (AttrKeys(f) \cap ReservedKeys)

BadRules(f) ==
  {r \in f.rules : r[1] \notin f.edgeTypes \/ ~({r[2], r[3]} \subseteq Declared(f) \cup {"*"})}

\* A section that names no edge under include_linked or without_edge is not asked
\* for one, nor is a where_attr for its key.
BadSections(f) ==
  {s \in f.sections :
     \/ ~(s.types \subseteq Declared(f))
     \/ s.link \notin {"none", "keyless"} \cup f.edgeTypes
     \/ s.bound = "words"}

BadAliases(f) ==
  {a \in f.aliases : a.binds \notin DOMAIN AliasTools \/ ~(a.preset \subseteq AliasTools[a.binds])}

ValidFile(f) ==
  /\ BadlyNamed(f) = {} /\ ReservedNames(f) = {} /\ BadRules(f) = {}
  /\ BadSections(f) = {} /\ BadAliases(f) = {}

\* check_same_topic_declared: a warning, so the apply goes on.
SameTopicWarned(f) ==
  "same_topic" \notin f.edgeTypes \/ \A r \in f.rules : r[1] # "same_topic"

-----------------------------------------------------------------------------
(* pack apply: one transaction, a step per table.                          *)

Bare == [types |-> [t \in {SentinelType} |-> {}], edgeTypes |-> {}, twoWay |-> {}, rules |-> {},
         fragments |-> {}]

Both(f, g) == [x \in (DOMAIN f) \cup DOMAIN g |-> IF x \in DOMAIN f THEN f[x] ELSE g[x]]

\* The registry with a file's rows added.
Added(f) ==
  [types |-> Both(ontology.types, f.types), edgeTypes |-> ontology.edgeTypes \cup f.edgeTypes,
   twoWay |-> ontology.twoWay \cup f.twoWay, rules |-> ontology.rules \cup Expand(f),
   fragments |-> ontology.fragments \cup {[sections |-> f.sections, aliases |-> f.aliases]}]

Open == {"types", "edgeTypes", "rules", "space", "config"}
InFlight == {op \in Appliers : applying[op].at \in Open}

\* The row kinds an open transaction has inserted, in the order of apply.
Past(kind, at) ==
  CASE kind = "types" -> at \in Open \ {"types"}
    [] kind = "edgeTypes" -> at \in {"rules", "space", "config"}
    [] kind = "rules" -> at \in {"space", "config"}
    [] OTHER -> at = "config"

RowsOfKind(f, kind) ==
  CASE kind = "types" -> Declared(f) [] kind = "edgeTypes" -> f.edgeTypes
    [] kind = "rules" -> Expand(f) [] OTHER -> {"space row"}

\* A unique key held by an open transaction, or the space's row, is waited for.
Held(op, kind) ==
  \E other \in InFlight \ {op} :
    /\ Past(kind, applying[other].at)
    /\ RowsOfKind(applying[other].file, kind) \cap RowsOfKind(applying[op].file, kind) # {}

\* What the tables' constraints refuse: a taken key, a name, a foreign key.
ConstraintFails(f, kind) ==
  CASE kind = "types" -> Declared(f) \cap (BadNames \cup DOMAIN ontology.types) # {}
    [] kind = "edgeTypes" -> f.edgeTypes \cap (BadNames \cup ontology.edgeTypes) # {}
    [] kind = "rules" ->
         \/ Expand(f) \cap ontology.rules # {}
         \/ \E r \in Expand(f) :
              \/ r[1] \notin f.edgeTypes \cup ontology.edgeTypes
              \/ ~({r[2], r[3]} \subseteq Declared(f) \cup DOMAIN ontology.types)
    [] OTHER -> FALSE

Following == [types |-> "edgeTypes", edgeTypes |-> "rules", rules |-> "space", space |-> "config"]

\* Mutant: the configuration rows are upserted, as those of an upgrade are.
FragmentsTakenNever == FALSE

\* Their key is what refuses a second pack that shares no type with the first.
FragmentsTaken == ontology.fragments # {}

PackFileInit ==
  /\ ontology = Bare /\ edited = {}
  /\ applying \in [Appliers -> {[at |-> "none", file |-> f, alone |-> FALSE] : f \in PackFiles}]

\* The file is validated, then applied on a connection of its own.
ApplyBegins(op) ==
  /\ applying[op].at = "none"
  /\ LET alone == ontology = Bare /\ InFlight = {}
         at == IF ValidFile(applying[op].file) THEN "types" ELSE "invalid"
     IN applying' = [o \in Appliers |->
          IF o = op THEN [applying[op] EXCEPT !.at = at, !.alone = alone]
          ELSE [applying[o] EXCEPT !.alone = @ /\ at = "invalid"]]
  /\ UNCHANGED <<ontology, edited>>

\* A constraint that fails rolls the whole transaction back.
ApplyInserts(op) ==
  LET kind == applying[op].at IN
  /\ kind \in DOMAIN Following /\ ~Held(op, kind)
  /\ applying' = [applying EXCEPT
       ![op].at = IF ConstraintFails(applying[op].file, kind) THEN "refused" ELSE Following[kind]]
  /\ UNCHANGED <<ontology, edited>>

ApplyEnds(op) ==
  /\ applying[op].at = "config"
  /\ applying' = [applying EXCEPT ![op].at = IF FragmentsTaken THEN "refused" ELSE "applied"]
  /\ ontology' = IF FragmentsTaken THEN ontology ELSE Added(applying[op].file)
  /\ UNCHANGED edited

ApplyKilled(op) ==
  /\ op \in InFlight
  /\ applying' = [applying EXCEPT ![op].at = "killed"]
  /\ UNCHANGED <<ontology, edited>>

\* Registry rows changed by SQL, which doctor is there to flag.
HandEdit(kind) ==
  /\ InFlight = {} /\ ontology.fragments # {}
  /\ Cardinality(edited) < MaxEdits /\ kind \notin edited
  /\ edited' = edited \cup {kind}
  /\ \/ /\ kind = "type" /\ \E t \in DOMAIN ontology.types \ {SentinelType} :
             ontology' = [ontology EXCEPT !.types[t] = @ \cup {"by hand"}]
     \/ /\ kind = "rule" /\ \E r \in ontology.rules : ontology' = [ontology EXCEPT !.rules = @ \ {r}]
     \/ /\ kind = "direction" /\ \E e \in ontology.edgeTypes :
             ontology' = [ontology EXCEPT !.twoWay = (@ \ {e}) \cup ({e} \ @)]
  /\ UNCHANGED applying

PackFileNext ==
  \/ \E op \in Appliers : ApplyBegins(op) \/ ApplyInserts(op) \/ ApplyEnds(op) \/ ApplyKilled(op)
  \/ \E kind \in {"type", "rule", "direction"} : HandEdit(kind)

PackFileSpec == PackFileInit /\ [][PackFileNext]_packFileVars

PackFileOver == \A op \in Appliers : applying[op].at \notin Open \cup {"none"}

-----------------------------------------------------------------------------
(* What reads it: doctor, the tool list, and the briefing.                 *)

\* _registry_drift.  An edge type is compared by its name only.
Drift(f) ==
  LET own == [t \in (DOMAIN ontology.types) \ {SentinelType} |-> ontology.types[t]] IN
  [types |-> {t \in (DOMAIN own) \cup Declared(f) :
                ~(t \in DOMAIN own /\ t \in Declared(f) /\ own[t] = f.types[t])},
   edgeTypes |-> (ontology.edgeTypes \ f.edgeTypes) \cup (f.edgeTypes \ ontology.edgeTypes),
   rules |-> (ontology.rules \ Expand(f)) \cup (Expand(f) \ ontology.rules)]

NoDrift == [types |-> {}, edgeTypes |-> {}, rules |-> {}]

\* build_aliases, for every tools/list and every call of a name that is no tool.
Aliases == UNION {g.aliases : g \in ontology.fragments}
Malformed(a) ==
  \/ a.binds \notin DOMAIN AliasTools
  \/ ~(a.preset \subseteq AliasTools[a.binds])
  \/ a.name \in DOMAIN AliasTools
AliasesBuild == \A a \in Aliases : ~Malformed(a)

\* The tool a call of this name runs.
Dispatched(name) ==
  IF name \in EngineTools THEN name
  ELSE IF AliasesBuild /\ \E a \in Aliases : a.name = name
       THEN (CHOOSE a \in Aliases : a.name = name).binds
  ELSE "none"

\* A section compiles into a query that the database can run.
Compiles(s) == s.link # "keyless" /\ s.bound \notin {"keyless", "words"}

\* The link of a merge joins two nodes of one type.
TwinsLinked(t) == <<"same_topic", t, t>> \in ontology.rules

\* No alias takes the name of a tool that aliases may bind, which validate allows.
NamesFree(f) == \A a \in f.aliases : a.name \notin DOMAIN AliasTools

AppliedFiles == {applying[op].file : op \in {o \in Appliers : applying[o].at = "applied"}}

PackFileTypeOK ==
  /\ DOMAIN ontology = {"types", "edgeTypes", "twoWay", "rules", "fragments"}
  /\ edited \subseteq {"type", "rule", "direction"}
  /\ \A op \in Appliers :
       /\ applying[op].file \in PackFiles /\ applying[op].alone \in BOOLEAN
       /\ applying[op].at \in Open \cup {"none", "invalid", "refused", "applied", "killed"}

\* A file that validates is one the space can live with.  Applied alone to a bare
\* space it meets no constraint; however the applies interleave or die, the
\* registry is bare or holds one file and all of it; doctor says so, and says
\* otherwise after a hand edit unless only an edge's direction was flipped.  If no
\* alias of the file has the name of a tool that aliases may bind, the tool list is
\* built and each alias whose name is no tool's runs the tool it binds; if one has,
\* no tool list is built and none of the file's aliases runs.  A section runs unless
\* it lacks a key that only the briefing asks for.
PackFileHonest ==
  /\ \A op \in Appliers : applying[op].alone => applying[op].at # "refused"
  /\ AppliedFiles = {} => ontology = Bare
  /\ \A f \in AppliedFiles :
       /\ ontology.fragments = {[sections |-> f.sections, aliases |-> f.aliases]}
       /\ (Drift(f) = NoDrift) = (edited \subseteq {"direction"})
       /\ SameTopicWarned(f) => \A t \in Declared(f) : ~TwinsLinked(t)
       /\ AliasesBuild = NamesFree(f)
       /\ \A a \in f.aliases :
            a.name \notin EngineTools => Dispatched(a.name) = IF NamesFree(f) THEN a.binds ELSE "none"
       /\ \A s \in f.sections : "keyless" \notin {s.link, s.bound} => Compiles(s)
=============================================================================
