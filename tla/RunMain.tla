------------------------------ MODULE RunMain ------------------------------
(***************************************************************************)
(* main of bench/core/run.py around the phases of module Bench: the space  *)
(* of a run is provisioned or attached to, the chosen phases run over it   *)
(* and over the checkpoint files, the manifest records what happened, and  *)
(* --teardown drops the space.  Provisioning and teardown run in           *)
(* autocommit, statement by statement; the process may be killed at any    *)
(* one and started again with other arms or phases.                        *)
(***************************************************************************)
EXTENDS Integers, FiniteSets, Sequences

CONSTANTS
  Arms,           \* the arms a run may name, each with a scope of its own
  PackRows,       \* the statements of packs.apply, in order
  Commands,       \* command lines: [arms, phases, teardown]
  MaxLaunches,    \* bound: processes started
  MaxMainKills    \* bound: kills

Phases == {"ingest", "answer", "judge", "calibrate", "diagnose", "report"}
CommandLines == [arms : SUBSET Arms, phases : SUBSET Phases, teardown : BOOLEAN]

ASSUME RunMainBounds ==
  /\ {MaxLaunches, MaxMainKills} \subseteq Nat /\ Len(PackRows) \in Nat \ {0}
  /\ Commands \subseteq CommandLines

VARIABLES
  room,           \* the run's space: [exists, rows, scopes]
  scopesDone,     \* ingest.jsonl: the arms whose scope is marked done
  facts,          \* the arms whose scope holds what was ingested
  armAnswers,     \* answers.jsonl: arms, and what memory held when they were given
  judged, probed, \* verdicts.jsonl and attribution.jsonl
  book,           \* manifest.json: [quota, calibrated], or NoBook
  main,           \* the process: [at, cmd, stop, applied, calibrated]
  halfDone,       \* whether a provisioning was cut off, or a teardown begun
  owed,           \* whether a run that a quota stopped ended, with no judging
                  \* since that was not stopped
  launches, mainKills

mainVars == <<room, scopesDone, facts, armAnswers, judged, probed, book, main, halfDone, owed,
              launches, mainKills>>

NoRoom == [exists |-> FALSE, rows |-> 0, scopes |-> {}]
NoBook == [quota |-> FALSE, calibrated |-> "absent"]
NoMain == [at |-> "none", cmd |-> [arms |-> {}, phases |-> {}, teardown |-> FALSE],
           stop |-> FALSE, calibrated |-> "absent"]

MainInit ==
  /\ room = NoRoom /\ scopesDone = {} /\ facts = {} /\ armAnswers = {} /\ judged = {} /\ probed = {}
  /\ book = NoBook /\ main = NoMain /\ halfDone = FALSE /\ owed = FALSE
  /\ launches = 0 /\ mainKills = 0

MainAt(step) == main.at = step
MainGoes(step) == main' = [main EXCEPT !.at = step]
Wants(phase) == phase \in main.cmd.phases

\* The manifest is read as the process starts.
MainStarts ==
  /\ MainAt("none") /\ launches < MaxLaunches
  /\ \E cmd \in Commands :
       main' = [at |-> IF room.exists THEN "attach" ELSE "create", cmd |-> cmd,
                stop |-> FALSE, calibrated |-> book.calibrated]
  /\ launches' = launches + 1
  /\ UNCHANGED <<room, scopesDone, facts, armAnswers, judged, probed, book, halfDone, owed, mainKills>>

-----------------------------------------------------------------------------
(* provision_or_attach.                                                    *)

CreatesSpace ==
  /\ MainAt("create")
  /\ room' = [NoRoom EXCEPT !.exists = TRUE]
  /\ MainGoes("apply")
  /\ UNCHANGED <<scopesDone, facts, armAnswers, judged, probed, book, halfDone, owed, launches, mainKills>>

AppliesRow ==
  /\ MainAt("apply") /\ room.rows < Len(PackRows)
  /\ room' = [room EXCEPT !.rows = @ + 1]
  /\ UNCHANGED <<scopesDone, facts, armAnswers, judged, probed, book, main, halfDone, owed, launches, mainKills>>

\* The scopes of the run's arms, after the pack.
AddsScopes ==
  /\ MainAt("apply") /\ room.rows = Len(PackRows)
  /\ room' = [room EXCEPT !.scopes = @ \cup main.cmd.arms]
  /\ MainGoes("ingest")
  /\ UNCHANGED <<scopesDone, facts, armAnswers, judged, probed, book, halfDone, owed, launches, mainKills>>

\* Mutant: the scopes of an earlier attempt are taken for this one's.
AttachedAsFound(scopes) == scopes

\* A later run may name an arm the first one did not.
Attached(scopes) == scopes \cup main.cmd.arms

\* An existing space is taken to have its pack.
Attaches ==
  /\ MainAt("attach")
  /\ room' = [room EXCEPT !.scopes = Attached(@)]
  /\ MainGoes("ingest")
  /\ UNCHANGED <<scopesDone, facts, armAnswers, judged, probed, book, halfDone, owed, launches, mainKills>>

-----------------------------------------------------------------------------
(* The phases, by what they leave behind.  Module Bench has their steps.   *)

Whole == room.rows = Len(PackRows)

\* A scope not marked done is ingested and marked; a write its space has no type
\* or no scope for is refused and counted, and the scope is done all the same.
Ingests(a) ==
  /\ MainAt("ingest") /\ Wants("ingest") /\ a \in main.cmd.arms \ scopesDone
  /\ scopesDone' = scopesDone \cup {a}
  /\ facts' = IF Whole /\ a \in room.scopes THEN facts \cup {a} ELSE facts
  /\ UNCHANGED <<room, armAnswers, judged, probed, book, main, halfDone, owed, launches, mainKills>>

IngestOver ==
  /\ MainAt("ingest") /\ (Wants("ingest") => main.cmd.arms \subseteq scopesDone)
  /\ MainGoes("answer")
  /\ UNCHANGED <<room, scopesDone, facts, armAnswers, judged, probed, book, halfDone, owed, launches, mainKills>>

AnsweredArms == {r.arm : r \in armAnswers}

Answers(a) ==
  /\ MainAt("answer") /\ Wants("answer") /\ a \in main.cmd.arms \ AnsweredArms
  /\ armAnswers' = armAnswers \cup {[arm |-> a, grounded |-> a \in facts, ingested |-> a \in scopesDone]}
  /\ UNCHANGED <<room, scopesDone, facts, judged, probed, book, main, halfDone, owed, launches, mainKills>>

\* Done, or given up on what a reader's error left open.
AnswerOver ==
  /\ MainAt("answer") /\ MainGoes("judge")
  /\ UNCHANGED <<room, scopesDone, facts, armAnswers, judged, probed, book, halfDone, owed, launches, mainKills>>

Judges(a) ==
  /\ MainAt("judge") /\ Wants("judge") /\ a \in AnsweredArms \ judged
  /\ judged' = judged \cup {a}
  /\ UNCHANGED <<room, scopesDone, facts, armAnswers, probed, book, main, halfDone, owed, launches, mainKills>>

\* Done, or past what a judge's errors, fewer than five in a row, left ungraded.
JudgeOver ==
  /\ MainAt("judge") /\ MainGoes("calibrate")
  /\ owed' = (owed /\ ~Wants("judge"))
  /\ UNCHANGED <<room, scopesDone, facts, armAnswers, judged, probed, book, halfDone, launches, mainKills>>

\* A usage limit or a launch outage in answering or judging: the phases that
\* follow are skipped, the manifest is not.
Stops ==
  /\ \/ MainAt("answer") /\ Wants("answer")
     \/ MainAt("judge") /\ Wants("judge") /\ ~(AnsweredArms \subseteq judged)
  /\ main' = [main EXCEPT !.at = "record", !.stop = TRUE]
  /\ UNCHANGED <<room, scopesDone, facts, armAnswers, judged, probed, book, halfDone, owed, launches, mainKills>>

\* A quota that ends calibration is noted there, and is no stop of the run.
Calibrates ==
  /\ MainAt("calibrate")
  /\ \E outcome \in (IF Wants("calibrate") THEN {"measured", "incomplete"} ELSE {main.calibrated}) :
       main' = [main EXCEPT !.at = "diagnose", !.calibrated = outcome]
  /\ UNCHANGED <<room, scopesDone, facts, armAnswers, judged, probed, book, halfDone, owed, launches, mainKills>>

\* A wrong answer whose gold text was not retrieved is looked for in the store.
Probe(a) ==
  /\ MainAt("diagnose") /\ Wants("diagnose") /\ a \in (AnsweredArms \cap judged \cap main.cmd.arms) \ probed
  /\ probed' = probed \cup {a}
  /\ UNCHANGED <<room, scopesDone, facts, armAnswers, judged, book, main, halfDone, owed, launches, mainKills>>

\* A wrong answer of an arm the command does not name has no space to look in: the
\* error ends the process before the manifest is written.
ProbeRaises ==
  /\ MainAt("diagnose") /\ Wants("diagnose")
  /\ ~((AnsweredArms \cap judged) \ probed \subseteq main.cmd.arms)
  /\ MainGoes("raised")
  /\ UNCHANGED <<room, scopesDone, facts, armAnswers, judged, probed, book, halfDone, owed, launches, mainKills>>

MainExits ==
  /\ MainAt("raised") /\ main' = NoMain
  /\ UNCHANGED <<room, scopesDone, facts, armAnswers, judged, probed, book, halfDone, owed, launches, mainKills>>

DiagnoseOver ==
  /\ MainAt("diagnose") /\ MainGoes("record")
  /\ UNCHANGED <<room, scopesDone, facts, armAnswers, judged, probed, book, halfDone, owed, launches, mainKills>>

-----------------------------------------------------------------------------
(* The manifest and the teardown.                                          *)

\* quota_stop is sticky unless this run judged to the end; a calibration that
\* never ran is said to be unmeasured.
Recorded ==
  [quota |-> IF main.stop \/ ~Wants("judge") THEN book.quota \/ main.stop ELSE FALSE,
   calibrated |-> IF main.calibrated = "absent" /\ ~Wants("calibrate") THEN "unmeasured"
                  ELSE main.calibrated]

RecordsManifest ==
  /\ MainAt("record")
  /\ book' = Recorded
  /\ owed' = (owed \/ main.stop)
  /\ IF main.cmd.teardown /\ ~main.stop THEN MainGoes("teardown") /\ halfDone' = TRUE
     ELSE main' = NoMain /\ UNCHANGED halfDone
  /\ UNCHANGED <<room, scopesDone, facts, armAnswers, judged, probed, launches, mainKills>>

\* Rows first, then scopes, the registry and the space: a statement a step.
TearsDown ==
  /\ MainAt("teardown")
  /\ CASE facts # {} -> facts' = {} /\ UNCHANGED <<room, main>>
       [] facts = {} /\ room.scopes # {} -> room' = [room EXCEPT !.scopes = {}] /\ UNCHANGED <<facts, main>>
       [] facts = {} /\ room.scopes = {} /\ room.rows > 0 ->
            room' = [room EXCEPT !.rows = @ - 1] /\ UNCHANGED <<facts, main>>
       [] OTHER -> room' = NoRoom /\ main' = NoMain /\ UNCHANGED facts
  /\ UNCHANGED <<scopesDone, armAnswers, judged, probed, book, halfDone, owed, launches, mainKills>>

MainKilled ==
  /\ ~MainAt("none") /\ mainKills < MaxMainKills
  /\ mainKills' = mainKills + 1 /\ main' = NoMain
  /\ halfDone' = (halfDone \/ MainAt("apply"))
  /\ UNCHANGED <<room, scopesDone, facts, armAnswers, judged, probed, book, owed, launches>>

MainNext ==
  \/ MainStarts \/ CreatesSpace \/ AppliesRow \/ AddsScopes \/ Attaches
  \/ \E a \in Arms : Ingests(a) \/ Answers(a) \/ Judges(a) \/ Probe(a)
  \/ IngestOver \/ AnswerOver \/ JudgeOver \/ Stops \/ Calibrates \/ DiagnoseOver
  \/ ProbeRaises \/ MainExits \/ RecordsManifest \/ TearsDown
  \/ MainKilled

MainSpec == MainInit /\ [][MainNext]_mainVars

MainOver == MainAt("none") /\ launches = MaxLaunches

-----------------------------------------------------------------------------
MainSteps ==
  {"none", "create", "apply", "attach", "ingest", "answer", "judge", "calibrate", "diagnose",
   "raised", "record", "teardown"}
Calibrations == {"absent", "unmeasured", "measured", "incomplete"}

MainTypeOK ==
  /\ room \in [exists : BOOLEAN, rows : 0..Len(PackRows), scopes : SUBSET Arms]
  /\ armAnswers \subseteq [arm : Arms, grounded : BOOLEAN, ingested : BOOLEAN]
  /\ {scopesDone, facts, judged, probed} \subseteq SUBSET Arms
  /\ book \in [quota : BOOLEAN, calibrated : Calibrations]
  /\ main \in [at : MainSteps, cmd : CommandLines, stop : BOOLEAN, calibrated : Calibrations]

\* What a run reports rests on what it names.  An answer given after its scope was
\* marked ingested was given over a store that held it, unless a provisioning was
\* cut off or the space torn down before (the next run attaches to what is left,
\* or skips what the files call done); every verdict and every probe is of a
\* recorded answer; and a run that a quota stopped leaves the manifest saying so
\* until a judging was not stopped, whatever phases the runs between chose (that
\* judging may still leave rows ungraded).
RunGrounded ==
  /\ ~halfDone => \A r \in armAnswers : r.ingested => r.grounded
  /\ judged \subseteq AnsweredArms /\ probed \subseteq judged
  /\ MainAt("none") /\ owed => book.quota

=============================================================================
