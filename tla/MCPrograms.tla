----------------------------- MODULE MCPrograms -----------------------------
(***************************************************************************)
(* Small instances of the programs around the engine's core: what an       *)
(* operator runs beside the server (space transfer, bulk import, the       *)
(* restore drill, pack upgrade, pack files, the Windows stack), what an    *)
(* agent reads (a walk of the graph, a search, a briefing, the hooks that  *)
(* bring a briefing into a session) and the benchmark harness (its run,    *)
(* its main, its model clients).  They share no state: `focus` picks the   *)
(* one that runs.                                                          *)
(***************************************************************************)
EXTENDS Transfer, BulkImport, RestoreDrill, Packs, PackFile, Stack,
        Traverse, Retrieval, Briefing, Hooks, Bench, RunMain, Providers, TLC

\* Transfer: near-duplicates, archived, merged and superseded facts, one that
\* is already held, and an archived scope.
Fact(content, status) ==
  [content |-> content, status |-> status, canon |-> 0, addenda |-> {}]
MCSources ==
  {[nodes |-> <<Fact("a", "active"), Fact("b", "superseded"), Fact("a2", "active")>>,
    edges |-> {<<2, 1, TRUE>>, <<3, 2, TRUE>>}, wanted |-> {"s"}],
   [nodes |-> <<Fact("b", "superseded"), Fact("b2", "active"),
                [Fact("c", "archived") EXCEPT !.addenda = {"z"}], Fact("h", "superseded")>>,
    edges |-> {<<2, 1, TRUE>>, <<3, 2, TRUE>>, <<1, 3, FALSE>>}, wanted |-> {"s", "t"}],
   [nodes |-> <<Fact("a", "active"), [Fact("z", "merged") EXCEPT !.canon = 1],
                Fact("h2", "superseded"), Fact("h3", "active"), Fact("t", "active"),
                Fact("sentinel", "archived")>>,
    edges |-> {<<2, 3, TRUE>>, <<5, 1, TRUE>>, <<4, 5, TRUE>>}, wanted |-> {"s", "t"}]}
MCHeldBefore == <<"h">>
MCContents == {"a", "a2", "b", "b2", "c", "z", "h", "h2", "h3", "t", "sentinel"}
MCScopeOf == [x \in MCContents |-> IF x \in {"c", "t"} THEN "t" ELSE "s"]
MCCompare ==
  [x \in MCContents |-> [y \in MCContents |->
     CASE x = y \/ {x, y} \in {{"h", "h3"}, {"a", "b"}} -> "high"
       [] {x, y} \in {{"b", "b2"}, {"h", "h2"}} -> "near"
       [] OTHER -> "far"]]

\* Packs: a first pack with a conditional key, a tighter one, a smaller one.
Loose == [required |-> {"k"}, optional |-> {"o"}, requires |-> {<<"o", "c">>}, closed |-> FALSE]
Tight == [required |-> {"k", "o"}, optional |-> {"c"}, requires |-> {}, closed |-> TRUE]
Conditional == [required |-> {}, optional |-> {"o", "c"}, requires |-> {<<"o", "c">>}, closed |-> TRUE]
MCFirst ==
  [types |-> ("note" :> Loose) @@ ("task" :> Conditional), edgeTypes |-> {"rel", "dep"},
   rules |-> {<<"rel", "*", "*">>, <<"dep", "task", "note">>}]
MCPacks ==
  {[MCFirst EXCEPT !.types["note"] = Tight],
   [types |-> ("note" :> Loose), edgeTypes |-> {"rel"}, rules |-> {<<"rel", "*", "*">>}]}
MCGiven ==
  {[value |-> v, dropped |-> {}] :
     v \in {("k" :> "bad") @@ ("o" :> "trigger") @@ ("c" :> "plain"),
            ("k" :> "plain") @@ ("o" :> "trigger") @@ ("c" :> "bad")}}

\* PackFile: a sound file, one that shares nothing with it, and what a hand-written
\* file gets wrong, one thing at a time.
Section(types, link, bound) == [types |-> types, link |-> link, bound |-> bound]
Alias(name, binds, preset) == [name |-> name, binds |-> binds, preset |-> preset]
Sound ==
  [types |-> ("note" :> {"k"}) @@ ("task" :> {}), edgeTypes |-> {"rel", "same_topic"},
   twoWay |-> {"rel"}, rules |-> {<<"rel", "*", "note">>, <<"same_topic", "task", "task">>},
   sections |-> {Section({"note"}, "rel", "none"), Section({}, "none", "relative")},
   aliases |-> {Alias("log_task", "write", {"type"})}]
MCPackFiles ==
  {Sound,
   [types |-> ("other" :> {}), edgeTypes |-> {"dep"}, twoWay |-> {}, rules |-> {},
    sections |-> {}, aliases |-> {}]}
  \cup {[Sound EXCEPT !.types = ("note" :> {k}) @@ (t :> {})] :
          k \in {"k", "addenda", "Key!"}, t \in {"task", "engraphy_sentinel", "Bad!"}}
  \cup {[Sound EXCEPT !.edgeTypes = {"rel", e}] : e \in {"engraphy_sentinel", "Bad!"}}
  \cup {[Sound EXCEPT !.rules = @ \cup {r}] :
          r \in {<<"ghost", "*", "*">>, <<"rel", "ghost", "*">>, <<"rel", "note", "note">>}}
  \cup {[Sound EXCEPT !.sections = {s}] :
          s \in {Section({"ghost"}, "none", "iso"), Section({}, "ghost", "none"),
                 Section({}, "keyless", "iso"), Section({}, "none", "words"),
                 Section({}, "none", "keyless")}}
  \cup {[Sound EXCEPT !.aliases = @ \cup {a}] :
          a \in {Alias("ask", "ghost", {}), Alias("ask", "search", {"body"}),
                 Alias("search", "write", {}), Alias("stats", "search", {"scope"})}}
MCAliasTools == ("write" :> {"scope", "type", "body"}) @@ ("search" :> {"scope", "query"})

\* BulkImport: texts that share most of their words, within the file and with a
\* held one, and a bad line.
MCExports == {<<"f", "g", "n", "m">>, <<"f", "n", "bad", "g">>, <<"m", "n", "m">>}
MCHeldFacts == <<"h">>
MCLikeness ==
  [x \in {"f", "g", "n", "m", "h"} |-> [y \in {"f", "g", "n", "m", "h"} |->
     CASE x = y \/ {x, y} \in {{"m", "n"}, {"f", "n"}} -> "high"
       [] {x, y} \in {{"g", "h"}, {"m", "f"}} -> "near"
       [] OTHER -> "far"]]
MCWords ==
  ("f" :> 1..5) @@ ("n" :> {1, 2, 3, 6, 7}) @@ ("m" :> {1, 2, 3, 6, 7, 8})
  @@ ("g" :> {9}) @@ ("h" :> {9, 10})

\* RestoreDrill: two spaces.
MCDrillSpaces == <<"s1", "s2">>

\* Traverse: rows merged into one another, archived, or hidden from the caller.
WalkRows(merged, archived, hidden) ==
  [status |-> [n \in 1..4 |-> IF n \in DOMAIN merged THEN "merged"
                              ELSE IF n \in archived THEN "archived" ELSE "active"],
   next |-> [n \in 1..4 |-> IF n \in DOMAIN merged THEN merged[n] ELSE 0],
   readable |-> 1..4 \ hidden]
MCStates ==
  {WalkRows(<<>>, {}, {}), WalkRows(<<>>, {3}, {2}), WalkRows(2 :> 4, {}, {}), WalkRows(2 :> 4, {4}, {}),
   WalkRows(2 :> 4, {}, {4}), WalkRows(2 :> 4 @@ 3 :> 2, {}, {})}
MCGraphs ==
  {{<<1, 2, 1>>, <<2, 3, 1>>, <<3, 1, 1>>, <<3, 4, 1>>, <<4, 2, 2>>, <<1, 4, 2>>},
   {<<1, 2, 1>>, <<1, 2, 2>>, <<2, 3, 1>>, <<3, 4, 1>>},
   {<<1, 2, 1>>, <<2, 3, 2>>, <<3, 4, 1>>, <<1, 4, 1>>, <<4, 1, 1>>}}

\* Retrieval: a chain of near-duplicates across both legs.
MCVectorOrder == <<1, 2, 3, 4, 5>>
MCLexicalOrder == <<4, 3, 2>>
MCCreatedAt == <<3, 1, 2, 2, 1>>
MCNearPairs == {{1, 2}, {2, 4}, {3, 4}}

\* Briefing: nodes due in part of a period, one late, one without a date, and the
\* sentinel; sections by filter, by due date and by hint.
Shelved(type, place, status, due, stamp) ==
  [type |-> type, scope |-> place, status |-> status, due |-> due, stamp |-> stamp,
   recent |-> stamp > 1]
MCShelves ==
  {<<Shelved("task", "s", "active", <<2>>, 1), Shelved("task", "s", "active", <<2, 1>>, 2),
     Shelved("task", "t", "active", last, 3), Shelved("note", "u", "superseded", <<>>, 4),
     Shelved("sentinel", "s", "archived", <<>>, 5)>> : last \in {<<>>, <<1, 2>>, <<3, 1>>}}
MCShelfEdges == {<<"rel", 1, 4>>, <<"rel", 2, 3>>, <<"dep", 1, 2>>, <<"same_topic", 3, 2>>}
MCHintVector == <<5, 2, 3, 1>>
MCHintLexical == <<1, 4, 3>>
MCHintPairs == {{1, 2}, {2, 3}}
MCBorn == <<2, 1, 1, 2, 1>>
Plain ==
  [semantic |-> FALSE, types |-> {"task"}, status |-> "active", before |-> <<>>, after |-> <<>>,
   equals |-> <<>>, byDue |-> FALSE, recent |-> FALSE, without |-> "none", linked |-> "none"]
MCLayouts ==
  {<<[Plain EXCEPT !.before = <<2, 2>>, !.byDue = TRUE, !.linked = "rel"],
     [Plain EXCEPT !.semantic = TRUE, !.types = {}]>>,
   <<[Plain EXCEPT !.recent = TRUE, !.linked = "rel"], [Plain EXCEPT !.without = "dep"],
     [Plain EXCEPT !.types = {}, !.status = "archived"]>>,
   <<[Plain EXCEPT !.after = <<1, 3>>, !.byDue = TRUE], [Plain EXCEPT !.equals = <<2>>]>>,
   <<>>}

\* Hooks: scopes that are proposed, hinted, or nobody's to pick; briefings that
\* repeat a node, overflow the context, or are empty.
ListedScope(id, hint, personal) == [id |-> id, hint |-> hint, personal |-> personal]
MCScopeLists ==
  {<<ListedScope("proposed", FALSE, FALSE)>>, <<ListedScope("other", TRUE, FALSE)>>,
   <<ListedScope("suffixed", FALSE, TRUE), ListedScope("other", FALSE, FALSE)>>}
MCBriefings == {<<<<"a", "b">>, <<"b", "c">>>>, <<<<"a", "c">>, <<"d", "e">>>>, <<>>}
MCEntryCost == ("a" :> 1) @@ ("b" :> 2) @@ ("c" :> 1) @@ ("d" :> 2) @@ ("e" :> 9)

\* Bench: a scope with two windows and one with none, two arms that differ in their
\* categories alone and share a question, and a run directory that is new or holds
\* the completed run of a smaller command.
MCScopeOrder == <<"h1", "h2">>
MCWindows == ("h1" :> <<"d1", "d2">>) @@ ("h2" :> <<>>)
MCArmCells == <<{"q1", "q2"}, {"q1"}>>
MCEarlierRuns ==
  {[rows |-> "h1" :> [written |-> {"d1"}, merged |-> {}, failed |-> {"d2"}],
    asked |-> <<"q1">>]}

\* RunMain: a first run, one with a second arm, and partial reruns.
CommandLine(arms, phases, teardown) == [arms |-> arms, phases |-> phases, teardown |-> teardown]
MCCommands ==
  {CommandLine({"a"}, Phases, FALSE), CommandLine({"a", "b"}, Phases, TRUE),
   CommandLine({"a"}, {"judge", "report"}, TRUE),
   CommandLine({"a", "b"}, {"answer", "diagnose"}, FALSE),
   CommandLine({"b"}, {"ingest", "calibrate"}, FALSE)}
MCPackRows == <<"node types", "edge types">>

-----------------------------------------------------------------------------
VARIABLE focus

operatorVars == <<transferVars, bulkVars, drillVars, packVars, packFileVars, stackVars>>
readVars == <<walkVars, retrievalVars, briefingVars, hookVars>>
harnessVars == <<benchVars, mainVars, providerVars>>
vars == <<focus, operatorVars, readVars, harnessVars>>

OperatorPrograms == {"transfer", "bulk", "drill", "packs", "pack file", "stack"}
Reads == {"walk", "search", "briefing", "hooks"}
HarnessPrograms == {"bench", "main", "clients"}

\* What a program that does not run starts with is fixed.
OperatorInit ==
  /\ PacksInit /\ StackInit
  /\ TransferInit
  /\ focus # "transfer" =>
       /\ bundle = Export(CHOOSE s \in MCSources : TRUE)
       /\ \A sc \in ImportScopes : scopeState[sc] = "open"
  /\ BulkInit /\ (focus # "bulk" => file = CHOOSE e \in Exports : TRUE)
  /\ DrillInit /\ (focus # "drill" => ~named /\ minted = {})
  /\ PackFileInit /\ (focus # "pack file" => \A op \in Appliers : applying[op].file = Sound)

ReadInit ==
  /\ TraverseInit /\ (focus # "walk" => rowsNow = CHOOSE s \in MCStates : TRUE)
  /\ RetrievalInit /\ (focus # "search" => live = HitIds /\ declared = {})
  /\ BriefingInit /\ (focus # "briefing" => shelf = CHOOSE x \in Shelves : TRUE)
  /\ HooksInit /\ (focus # "hooks" => stateWritable)

HarnessInit ==
  /\ BenchInit /\ (focus # "bench" => ~reported)
  /\ MainInit
  /\ ProvidersInit /\ (focus # "clients" => client = "cli")

Init ==
  /\ focus \in OperatorPrograms \cup Reads \cup HarnessPrograms
  /\ OperatorInit /\ ReadInit /\ HarnessInit

\* The program that runs, and all others standing still.
RunsOperator(p) ==
  /\ focus = p /\ UNCHANGED <<focus, readVars, harnessVars>>
  /\ p # "transfer" => UNCHANGED transferVars
  /\ p # "bulk" => UNCHANGED bulkVars
  /\ p # "drill" => UNCHANGED drillVars
  /\ p # "packs" => UNCHANGED packVars
  /\ p # "pack file" => UNCHANGED packFileVars
  /\ p # "stack" => UNCHANGED stackVars

RunsRead(p) ==
  /\ focus = p /\ UNCHANGED <<focus, operatorVars, harnessVars>>
  /\ p # "walk" => UNCHANGED walkVars
  /\ p # "search" => UNCHANGED retrievalVars
  /\ p # "briefing" => UNCHANGED briefingVars
  /\ p # "hooks" => UNCHANGED hookVars

RunsHarness(p) ==
  /\ focus = p /\ UNCHANGED <<focus, operatorVars, readVars>>
  /\ p # "bench" => UNCHANGED benchVars
  /\ p # "main" => UNCHANGED mainVars
  /\ p # "clients" => UNCHANGED providerVars

TransferStep == focus = "transfer" /\ TransferNext /\ RunsOperator("transfer")
BulkStep == focus = "bulk" /\ BulkNext /\ RunsOperator("bulk")
DrillStep == focus = "drill" /\ DrillNext /\ RunsOperator("drill")
PacksStep == focus = "packs" /\ PacksNext /\ RunsOperator("packs")
PackFileStep == focus = "pack file" /\ PackFileNext /\ RunsOperator("pack file")
StackStep == focus = "stack" /\ StackNext /\ RunsOperator("stack")
WalkStep == focus = "walk" /\ TraverseNext /\ RunsRead("walk")
SearchStep == focus = "search" /\ RetrievalNext /\ RunsRead("search")
BriefingStep == focus = "briefing" /\ BriefingNext /\ RunsRead("briefing")
HookStep == focus = "hooks" /\ HooksNext /\ RunsRead("hooks")
BenchStep == focus = "bench" /\ BenchNext /\ RunsHarness("bench")
MainStep == focus = "main" /\ MainNext /\ RunsHarness("main")
ClientStep == focus = "clients" /\ ProvidersNext /\ RunsHarness("clients")

Over ==
  CASE focus = "transfer" -> TransferOver
    [] focus = "bulk" -> BulkOver
    [] focus = "drill" -> DrillOver
    [] focus = "packs" -> PacksOver
    [] focus = "pack file" -> PackFileOver
    [] focus = "stack" -> StackOver
    [] focus = "walk" -> TraverseOver
    [] focus = "search" -> RetrievalOver
    [] focus = "briefing" -> BriefingOver
    [] focus = "hooks" -> HooksOver
    [] focus = "bench" -> BenchOver
    [] focus = "main" -> MainOver
    [] focus = "clients" -> ProvidersOver

Done == Over /\ UNCHANGED vars

Next ==
  \/ TransferStep \/ BulkStep \/ DrillStep \/ PacksStep \/ PackFileStep \/ StackStep
  \/ WalkStep \/ SearchStep \/ BriefingStep \/ HookStep
  \/ BenchStep \/ MainStep \/ ClientStep \/ Done

\* A supervisor that is running, and a run it launched, go on.
Goes == focus = "bench" /\ Unattended /\ RunsHarness("bench")
Spec == Init /\ [][Next]_vars /\ WF_vars(Goes)

-----------------------------------------------------------------------------
\* The variables of the program that runs stay in their types; what the others
\* start with is fixed.
TypeOK ==
  CASE focus = "transfer" -> TransferTypeOK
    [] focus = "bulk" -> BulkTypeOK
    [] focus = "drill" -> DrillTypeOK
    [] focus = "packs" -> PacksTypeOK
    [] focus = "pack file" -> PackFileTypeOK
    [] focus = "stack" -> StackTypeOK
    [] focus = "walk" -> TraverseTypeOK
    [] focus = "search" -> RetrievalTypeOK
    [] focus = "briefing" -> BriefingTypeOK
    [] focus = "hooks" -> HooksTypeOK
    [] focus = "bench" -> BenchTypeOK
    [] focus = "main" -> MainTypeOK
    [] focus = "clients" -> ProvidersTypeOK

\* The harness, when it is the one that runs, is paused and not broken by a
\* usage limit (PausedNotBroken of module Bench).
RunPausedNotBroken == focus = "bench" => PausedNotBroken

=============================================================================
