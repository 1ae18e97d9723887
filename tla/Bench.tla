------------------------------- MODULE Bench -------------------------------
(***************************************************************************)
(* The benchmark harness.  A supervisor (bench/supervise.py) launches one  *)
(* run after another until the run directory reads as complete; each run   *)
(* (bench/core/run.py) ingests the scopes, answers the questions, grades   *)
(* the answers and renders the report, skipping what its append-only       *)
(* checkpoints already hold.  A run may be killed between any two steps,   *)
(* and a kill may leave half a line in the file being written.             *)
(*                                                                         *)
(* A model call is an outcome: "ok", "error", "quota" (QuotaExhausted),    *)
(* "launch" (TransientCLIError) or, in the judge, "limited" (a rate limit  *)
(* that outlived its retries).  A draft stands for the extraction window   *)
(* that yields it, a cell for the key (arm_id, question_id) of a row: arms *)
(* of one command that differ in their categories alone share their cells. *)
(* A row remembers the place of the arm that put the question.             *)
(***************************************************************************)
EXTENDS Integers, Sequences, FiniteSets

CONSTANTS
  ScopeOrder,      \* the (haystack, extractor, pack) triples, sorted
  Windows,         \* [scope -> the sequence of its windows' drafts]
  ArmCells,        \* the arms in order, each the set of its cells
  EarlierRuns,     \* what a smaller command that completed may have left in the
                   \* run directory: [rows, the done rows of its scopes; asked,
                   \* its answers in order, all of them graded]
  Abstain,         \* the cells whose right answer is a refusal
  ReaderCalls,     \* --concurrency
  JudgeCalls,      \* --judge-concurrency
  ReaderBreaker,   \* consecutive reader errors that stop a phase (8)
  JudgeBreaker,    \* consecutive judge errors that stop a phase (5)
  MaxCycles,       \* --max-cycles
  MaxTransient,    \* MAX_TRANSIENT_RETRIES
  MaxFaults        \* bound: failed model calls and kills in a behaviour

SeqElems(s) == {s[i] : i \in DOMAIN s}
Scopes == SeqElems(ScopeOrder)
Drafts == UNION {SeqElems(Windows[s]) : s \in Scopes}
Cells == UNION SeqElems(ArmCells)
Files == {"ingest", "answers", "verdicts", "manifest"}

ASSUME BenchAssumption ==
  /\ ReaderCalls \in Nat \ {0} /\ JudgeCalls \in Nat \ {0}
  /\ ReaderBreaker \in Nat \ {0} /\ JudgeBreaker \in Nat \ {0}
  /\ MaxCycles \in Nat /\ MaxTransient \in Nat /\ MaxFaults \in Nat

\* A triple is named once (needed is a set, sorted), and a window yields a draft of
\* its own.  Two arms may share cells: arm_id leaves the categories out.
ASSUME BenchDistinct ==
  /\ ScopeOrder \in Seq(Scopes)
  /\ \A i, j \in DOMAIN ScopeOrder : ScopeOrder[i] = ScopeOrder[j] => i = j
  /\ \A s \in Scopes : /\ Windows[s] \in Seq(Drafts)
                      /\ \A i, j \in DOMAIN Windows[s] : Windows[s][i] = Windows[s][j] => i = j
  /\ ArmCells \in Seq(SUBSET Cells)

StatRows == [written : SUBSET Drafts, merged : SUBSET Drafts, failed : SUBSET Drafts]

ASSUME EarlierAssumption ==
  \A old \in EarlierRuns :
    /\ DOMAIN old.rows \subseteq Scopes
    /\ \A s \in DOMAIN old.rows :
         /\ old.rows[s] \in StatRows
         /\ (old.rows[s].written \cup old.rows[s].merged) \cap old.rows[s].failed = {}
    /\ old.asked \in Seq(Cells)
    /\ \A i, j \in DOMAIN old.asked : old.asked[i] = old.asked[j] => i = j

VARIABLES
  \* the store, per scope and draft: writes in effect, and parked writes
  landed, parked, edgeRows,
  \* the run directory
  ingested, rowOf, \* the scopes with a done row, and [scope -> its stats]
  answers, verdicts, \* the rows appended so far, in order; a verdict is its answer's
  manifest,        \* manifest.json: quota_stop, rows_answered_but_ungraded, and
                   \* whether a report phase of this command wrote them
  reported,        \* does report.md exist
  torn,            \* the files a kill left half written
  \* the run's process
  phase, have, scope, window, stats, arm, todo, calls, waiting, errs, stop,
  \* the supervisor
  sup, cycle, streak, before, said,
  \* bookkeeping of the model: failures so far, whether one of them was not a
  \* usage or launch stop, the cells whose reader failed in this cycle
  faults, hard, missed

storeVars == <<landed, parked, edgeRows>>
diskVars == <<ingested, rowOf, answers, verdicts, manifest, reported, torn>>
runVars == <<phase, have, scope, window, stats, arm, todo, calls, waiting,
             errs, stop>>
supVars == <<sup, cycle, streak, before, said>>
benchVars == <<storeVars, diskVars, runVars, supVars, faults, hard, missed>>

NoStats == [written |-> {}, merged |-> {}, failed |-> {}]
Nothing == [s \in Scopes |-> [d \in Drafts |-> 0]]
NoRun == [rows |-> <<>>, asked |-> <<>>]
Rows == [arm : 0..Len(ArmCells), key : Cells]

\* The run directory and its space are new, or a smaller command's run completed
\* there: the manifest of that run is read again and kept (main), its done scopes
\* and answers are skipped, and its report stands.
Finds(old) ==
  /\ ingested = DOMAIN old.rows
  /\ rowOf = [s \in Scopes |-> IF s \in DOMAIN old.rows THEN old.rows[s] ELSE NoStats]
  /\ landed = [s \in Scopes |-> [d \in Drafts |->
                 IF d \in rowOf[s].written \cup rowOf[s].merged THEN 1 ELSE 0]]
  /\ answers = [i \in DOMAIN old.asked |-> [arm |-> 0, key |-> old.asked[i]]]
  /\ verdicts = answers

BenchInit ==
  /\ \/ /\ Finds(NoRun)
        /\ manifest = [quota |-> FALSE, ungraded |-> 1, own |-> FALSE] /\ reported = FALSE
     \/ /\ \E old \in EarlierRuns : Finds(old)
        /\ manifest = [quota |-> FALSE, ungraded |-> 0, own |-> FALSE] /\ reported = TRUE
  /\ parked = Nothing /\ edgeRows = {} /\ torn = {}
  /\ phase = "off" /\ have = {} /\ scope = 1 /\ window = 1
  /\ stats = NoStats /\ arm = 1 /\ todo = {} /\ calls = {}
  /\ waiting = FALSE /\ errs = 0 /\ stop = "none"
  /\ sup = "launch" /\ cycle = 1 /\ streak = 0 /\ before = 0 /\ said = "none"
  /\ faults = 0 /\ hard = FALSE /\ missed = {}

-----------------------------------------------------------------------------
(* The end of a process: an exception nobody catches, a kill, or exit 0.   *)

RunEnds == phase' = "ended"

\* What a process forgets.
Forget ==
  /\ have' = {} /\ scope' = 1 /\ window' = 1 /\ stats' = NoStats /\ arm' = 1
  /\ todo' = {} /\ calls' = {} /\ waiting' = FALSE /\ errs' = 0
  /\ stop' = "none"

\* A failure of the environment, charged to the model's bound.
Fault == faults < MaxFaults /\ faults' = faults + 1

\* Errors of the model in a row count as one of MaxFaults: an outage fails
\* every call made while it lasts.
Outage == IF errs = 0 THEN Fault ELSE UNCHANGED faults

\* Reading a checkpoint that ends in half a line raises in json.loads.
Unreadable(files) ==
  /\ torn \cap files # {}
  /\ RunEnds /\ Forget
  /\ hard' = TRUE
  /\ UNCHANGED <<storeVars, diskVars, supVars, faults, missed>>

Readable(files) == torn \cap files = {}

-----------------------------------------------------------------------------
(* Ingest: each scope once, from an empty scope.                           *)

CurScope == ScopeOrder[scope]
CurDraft == Windows[CurScope][window]

IngestSkip ==
  /\ phase = "ingest" /\ scope <= Len(ScopeOrder) /\ CurScope \in have
  /\ scope' = scope + 1
  /\ UNCHANGED <<storeVars, diskVars, phase, have, window, stats, arm, todo,
                 calls, waiting, errs, stop, supVars, faults, hard, missed>>

\* Mutant: a scope without nodes is not cleared of its parked writes.
ClearParkedWithNodes ==
  /\ phase = "ingest" /\ scope <= Len(ScopeOrder) /\ CurScope \notin have
  /\ IF \A d \in Drafts : landed[CurScope][d] = 0
     THEN phase' = "extract" /\ UNCHANGED parked
     ELSE phase' = "clearEdges" /\ parked' = [parked EXCEPT ![CurScope] = [d \in Drafts |-> 0]]
  /\ window' = 1 /\ stats' = NoStats
  /\ UNCHANGED <<landed, edgeRows, diskVars, have, scope, arm, todo, calls,
                 waiting, errs, stop, supVars, faults, hard, missed>>

\* _clear_scope, statement by statement: parked writes first, and the nodes
\* last, since the other two are found through them.
ClearParked ==
  /\ phase = "ingest" /\ scope <= Len(ScopeOrder) /\ CurScope \notin have
  /\ parked' = [parked EXCEPT ![CurScope] = [d \in Drafts |-> 0]]
  /\ phase' = IF \A d \in Drafts : landed[CurScope][d] = 0
              THEN "extract" ELSE "clearEdges"
  /\ window' = 1 /\ stats' = NoStats
  /\ UNCHANGED <<landed, edgeRows, diskVars, have, scope, arm, todo, calls,
                 waiting, errs, stop, supVars, faults, hard, missed>>

ClearEdges ==
  /\ phase = "clearEdges" /\ phase' = "clearNodes"
  /\ edgeRows' = edgeRows \ {CurScope}
  /\ UNCHANGED <<landed, parked, diskVars, have, scope, window, stats, arm,
                 todo, calls, waiting, errs, stop, supVars, faults, hard, missed>>

ClearNodes ==
  /\ phase = "clearNodes" /\ phase' = "extract"
  /\ landed' = [landed EXCEPT ![CurScope] = [d \in Drafts |-> 0]]
  /\ UNCHANGED <<parked, edgeRows, diskVars, have, scope, window, stats, arm,
                 todo, calls, waiting, errs, stop, supVars, faults, hard, missed>>

\* One window through the extractor.  Any LLMError, a usage limit included,
\* is an empty result: the window contributes nothing and no one counts it.
ExtractOk ==
  /\ phase = "extract" /\ window <= Len(Windows[CurScope])
  /\ phase' = "write"
  /\ UNCHANGED <<storeVars, diskVars, have, scope, window, stats, arm, todo,
                 calls, waiting, errs, stop, supVars, faults, hard, missed>>

ExtractFails ==
  /\ phase = "extract" /\ window <= Len(Windows[CurScope])
  /\ Fault
  /\ window' = window + 1
  /\ UNCHANGED <<storeVars, diskVars, phase, have, scope, stats, arm, todo,
                 calls, waiting, errs, stop, supVars, hard, missed>>

Count(field) == stats' = [stats EXCEPT ![field] = @ \cup {CurDraft}]
NextWindow == phase' = "extract" /\ window' = window + 1

\* _write_draft: a write (or a supersede, or one downgraded for want of its
\* target) becomes a node of its own, is absorbed by another, is parked, or
\* is refused.
WriteStored(field) ==
  /\ phase = "write" /\ field \in {"written", "merged"}
  /\ landed' = [landed EXCEPT ![CurScope][CurDraft] = @ + 1]
  /\ Count(field) /\ NextWindow
  /\ UNCHANGED <<parked, edgeRows, diskVars, have, scope, arm, todo, calls,
                 waiting, errs, stop, supVars, faults, hard, missed>>

\* Mutant: a parked write is resolved without having been recorded.
WriteParkedUnrecorded ==
  /\ phase = "write" /\ phase' = "resolve"
  /\ UNCHANGED <<storeVars, diskVars, have, scope, window, stats, arm,
                 todo, calls, waiting, errs, stop, supVars, faults, hard, missed>>

WriteParked ==
  /\ phase = "write" /\ phase' = "resolve"
  /\ parked' = [parked EXCEPT ![CurScope][CurDraft] = @ + 1]
  /\ UNCHANGED <<landed, edgeRows, diskVars, have, scope, window, stats, arm,
                 todo, calls, waiting, errs, stop, supVars, faults, hard, missed>>

\* A write or a resolution raises: the draft is lost and counted, never fatal.
\* A refused resolution leaves its parked row behind.
WriteRefused ==
  /\ phase \in {"write", "resolve"} /\ Fault
  /\ Count("failed") /\ NextWindow
  /\ UNCHANGED <<storeVars, diskVars, have, scope, arm, todo, calls, waiting,
                 errs, stop, supVars, hard, missed>>

\* The policy answers a parked write, distinct whenever it cannot decide, and
\* the engine's outcome is counted, not the one asked for.
ResolveParked(field) ==
  /\ phase = "resolve" /\ field \in {"written", "merged"}
  /\ parked' = [parked EXCEPT ![CurScope][CurDraft] = @ - 1]
  /\ landed' = [landed EXCEPT ![CurScope][CurDraft] = @ + 1]
  /\ Count(field) /\ NextWindow
  /\ UNCHANGED <<edgeRows, diskVars, have, scope, arm, todo, calls, waiting,
                 errs, stop, supVars, faults, hard, missed>>

\* The edges, at the end of the haystack; a failure is counted.
AttachEdges ==
  /\ phase = "extract" /\ window > Len(Windows[CurScope])
  /\ phase' = "mark"
  /\ \/ edgeRows' = edgeRows \cup {CurScope} /\ stats.written # {}
     \/ UNCHANGED edgeRows
  /\ UNCHANGED <<landed, parked, diskVars, have, scope, window, stats, arm,
                 todo, calls, waiting, errs, stop, supVars, faults, hard, missed>>

\* The completion marker, the last thing ingest does for a scope.
MarkIngested ==
  /\ phase = "mark" /\ phase' = "ingest"
  /\ ingested' = ingested \cup {CurScope}
  /\ rowOf' = [rowOf EXCEPT ![CurScope] = stats]
  /\ scope' = scope + 1
  /\ UNCHANGED <<storeVars, answers, verdicts, manifest, reported, torn, have,
                 window, stats, arm, todo, calls, waiting, errs, stop,
                 supVars, faults, hard, missed>>

-----------------------------------------------------------------------------
(* Answer: the arms in order, at most twice ReaderCalls questions in       *)
(* flight, each clean answer appended as it returns.                       *)

AnswerRows == SeqElems(answers)
GradedRows == SeqElems(verdicts)
Answered == {r.key : r \in AnswerRows}
Graded == {r.key : r \in GradedRows}

\* The keys on file are read once, as the phase begins.
ArmTodo(a, done) ==
  IF a > Len(ArmCells) THEN {} ELSE {[arm |-> a, key |-> c] : c \in ArmCells[a] \ done}

AnswerStart ==
  /\ phase = "ingest" /\ scope > Len(ScopeOrder) /\ Readable({"answers"})
  /\ phase' = "answer"
  /\ have' = Answered
  /\ arm' = 1 /\ todo' = ArmTodo(1, Answered)
  /\ errs' = 0 /\ waiting' = FALSE
  /\ UNCHANGED <<storeVars, diskVars, scope, window, stats, calls, stop,
                 supVars, faults, hard, missed>>

\* A next question, or a next row to grade, unless the phase is stopping.  A
\* batch of calls that returned together is consumed before the next submit.
Submit(limit) ==
  /\ stop = "none" /\ Cardinality(calls) < limit
  /\ \E c \in todo : calls' = calls \cup {c} /\ todo' = todo \ {c}
  /\ waiting' = (Cardinality(calls) + 1 >= limit)
  /\ UNCHANGED <<storeVars, diskVars, phase, have, scope, window, stats, arm,
                 errs, stop, supVars, faults, hard, missed>>

AnswerSubmit == phase = "answer" /\ Submit(2 * ReaderCalls)

\* One call of those in flight returns: the limit was reached, or there is
\* nothing left to submit.
Returns(c) ==
  /\ c \in calls /\ (waiting \/ todo = {} \/ stop # "none")
  /\ calls' = calls \ {c}
  /\ UNCHANGED <<storeVars, ingested, rowOf, manifest, reported, torn, phase, have,
                 scope, window, stats, arm, todo, waiting, supVars>>

AnswerClean(c) ==
  /\ phase = "answer" /\ Returns(c)
  /\ answers' = Append(answers, c) /\ errs' = 0
  /\ UNCHANGED <<verdicts, stop, faults, hard, missed>>

\* A reader error is never appended; ReaderBreaker of them in a row stop the
\* phase, as transient when the last was a launch failure.
AnswerFails(c, kind) ==
  /\ phase = "answer" /\ Returns(c) /\ Outage
  /\ errs' = errs + 1 /\ missed' = missed \cup {c.key}
  /\ stop' = IF errs + 1 >= ReaderBreaker /\ stop = "none"
             THEN IF kind = "launch" THEN "transient" ELSE "usage"
             ELSE stop
  /\ UNCHANGED <<answers, verdicts, hard>>

AnswerQuota(c) ==
  /\ phase = "answer" /\ Returns(c) /\ Fault
  /\ stop' = IF stop = "none" THEN "usage" ELSE stop
  /\ UNCHANGED <<answers, verdicts, errs, hard, missed>>

AnswerArmDone ==
  /\ phase = "answer" /\ calls = {} /\ todo = {} /\ stop = "none"
  /\ arm <= Len(ArmCells)
  /\ arm' = arm + 1 /\ todo' = ArmTodo(arm + 1, have)
  /\ errs' = 0 /\ waiting' = FALSE
  /\ UNCHANGED <<storeVars, diskVars, phase, have, scope, window, stats, calls,
                 stop, supVars, faults, hard, missed>>

\* Mutant: the phase stops without a class line.
AnswerStoppedUnsaid ==
  /\ phase = "answer" /\ calls = {} /\ stop # "none"
  /\ phase' = "report"
  /\ UNCHANGED <<storeVars, diskVars, have, scope, window, stats, arm, todo,
                 calls, waiting, errs, stop, supVars, faults, hard, missed>>

\* QuotaExhausted or TransientRunStop: main prints the class and skips to the
\* report.
AnswerStopped ==
  /\ phase = "answer" /\ calls = {} /\ stop # "none"
  /\ phase' = "report" /\ said' = stop
  /\ UNCHANGED <<storeVars, diskVars, have, scope, window, stats, arm, todo,
                 calls, waiting, errs, stop, sup, cycle, streak, before,
                 faults, hard, missed>>

-----------------------------------------------------------------------------
(* Judge: refusals by rule, then JudgeCalls rows at a time.                *)

JudgeStart ==
  /\ phase = "answer" /\ arm > Len(ArmCells)
  /\ Readable({"answers", "verdicts"})
  /\ phase' = "rule"
  /\ have' = Graded
  /\ todo' = {r \in AnswerRows : r.key \notin Graded}
  /\ errs' = 0 /\ waiting' = FALSE
  /\ UNCHANGED <<storeVars, diskVars, scope, window, stats, arm, calls,
                 stop, supVars, faults, hard, missed>>

JudgeByRule ==
  /\ phase = "rule"
  /\ IF \A c \in todo : c.key \notin Abstain
     THEN phase' = "judge" /\ UNCHANGED <<verdicts, todo>>
     ELSE \E c \in todo : /\ c.key \in Abstain
                         /\ verdicts' = Append(verdicts, c) /\ todo' = todo \ {c}
                         /\ UNCHANGED phase
  /\ UNCHANGED <<storeVars, ingested, rowOf, answers, manifest, reported, torn, have,
                 scope, window, stats, arm, calls, waiting, errs, stop,
                 supVars, faults, hard, missed>>

JudgeSubmit == phase = "judge" /\ Submit(JudgeCalls)

JudgeVerdict(c) ==
  /\ phase = "judge" /\ Returns(c)
  /\ verdicts' = Append(verdicts, c) /\ errs' = 0
  /\ UNCHANGED <<answers, stop, faults, hard, missed>>

\* stop_class: the class line of a judge phase that stopped on its breaker.
StopClass(kind) ==
  CASE kind = "launch" -> "transient" [] kind = "limited" -> "usage"
    [] kind = "error" -> "halt"

\* grade_majority gives up at its first failed pass, whatever failed it; the row
\* stays ungraded.
JudgeFails(c, kind) ==
  /\ phase = "judge" /\ Returns(c) /\ Outage
  /\ errs' = errs + 1 /\ hard' = (hard \/ kind = "error")
  /\ stop' = IF errs + 1 >= JudgeBreaker /\ stop = "none"
             THEN StopClass(kind) ELSE stop
  /\ UNCHANGED <<answers, verdicts, missed>>

JudgeQuota(c) ==
  /\ phase = "judge" /\ Returns(c) /\ Fault
  /\ stop' = IF stop = "none" THEN "usage" ELSE stop
  /\ UNCHANGED <<answers, verdicts, errs, hard, missed>>

\* Judge errors that did not stop the phase leave it done: no class line is printed,
\* and main takes the judging as finished.
JudgeDone ==
  /\ phase = "judge" /\ calls = {} /\ (todo = {} \/ stop # "none")
  /\ phase' = "report" /\ said' = IF stop = "none" THEN said ELSE stop
  /\ UNCHANGED <<storeVars, diskVars, have, scope, window, stats, arm, todo,
                 calls, waiting, errs, stop, sup, cycle, streak, before,
                 faults, hard, missed>>

-----------------------------------------------------------------------------
(* Report: the manifest first, then report.md.                             *)

\* Mutant: the manifest does not count the answers left ungraded.
ReportManifestUncounted ==
  /\ phase = "report" /\ Readable(Files \ {"manifest"})
  /\ phase' = "render"
  /\ manifest' = [quota |-> stop # "none", ungraded |-> 0, own |-> TRUE]
  /\ UNCHANGED <<storeVars, ingested, rowOf, answers, verdicts, reported, torn, have,
                 scope, window, stats, arm, todo, calls, waiting, errs, stop,
                 supVars, faults, hard, missed>>

ReportManifest ==
  /\ phase = "report" /\ Readable(Files \ {"manifest"})
  /\ phase' = "render"
  /\ manifest' = [quota |-> stop # "none",
                  ungraded |-> Cardinality({r \in AnswerRows : r.key \notin Graded}),
                  own |-> TRUE]
  /\ UNCHANGED <<storeVars, ingested, rowOf, answers, verdicts, reported, torn, have,
                 scope, window, stats, arm, todo, calls, waiting, errs, stop,
                 supVars, faults, hard, missed>>

ReportRender ==
  /\ phase = "render" /\ reported' = TRUE
  /\ RunEnds /\ Forget
  /\ UNCHANGED <<storeVars, ingested, rowOf, answers, verdicts, manifest, torn,
                 supVars, faults, hard, missed>>

\* A kill, or an exception nobody catches, anywhere; during a write it may leave
\* half of it (main writes the manifest as it starts, too).
RunPhases == {"ingest", "clearEdges", "clearNodes", "extract", "write",
              "resolve", "mark", "answer", "rule", "judge", "report", "render"}

Appending == CASE (phase = "ingest" /\ scope = 1) \/ phase = "report" -> {"manifest"}
               [] phase = "mark" -> {"ingest"}
               [] phase = "answer" -> {"answers"}
               [] phase \in {"rule", "judge"} -> {"verdicts"}
               [] OTHER -> {}

Kill ==
  /\ phase \in RunPhases /\ Fault
  /\ RunEnds /\ Forget
  /\ \E half \in SUBSET Appending : torn' = torn \cup half
  /\ hard' = TRUE
  /\ UNCHANGED <<storeVars, ingested, rowOf, answers, verdicts, manifest, reported,
                 supVars, missed>>

ReadFails ==
  \/ phase = "ingest" /\ scope > Len(ScopeOrder) /\ Unreadable({"answers"})
  \/ phase = "answer" /\ arm > Len(ArmCells)
     /\ Unreadable({"answers", "verdicts"})
  \/ phase = "report" /\ Unreadable(Files \ {"manifest"})

-----------------------------------------------------------------------------
(* The supervisor.                                                         *)

Launch ==
  /\ sup = "launch" /\ cycle <= MaxCycles
  /\ sup' = "running"
  /\ before' = Len(answers) /\ said' = "none" /\ missed' = {}
  /\ IF Readable({"ingest", "manifest"})
     THEN /\ phase' = "ingest"
          /\ have' = ingested
     ELSE phase' = "ended" /\ UNCHANGED have
  /\ UNCHANGED <<storeVars, diskVars, scope, window, stats, arm, todo, calls,
                 waiting, errs, stop, cycle, streak, faults, hard>>

\* is_complete.
IsComplete ==
  /\ reported /\ Readable({"manifest"})
  /\ ~manifest.quota /\ manifest.ungraded = 0

\* classify_stop: the run's last class line, or a guess at its prose.
Classes == IF said = "none" THEN {"usage", "halt"} ELSE {said}

Relaunch == sup' = "launch" /\ cycle' = cycle + 1

CycleEnds ==
  /\ sup = "running" /\ phase = "ended" /\ phase' = "off"
  /\ UNCHANGED <<storeVars, diskVars, have, scope, window, stats, arm, todo,
                 calls, waiting, errs, stop, before, said, faults, hard,
                 missed>>

EndComplete ==
  /\ CycleEnds /\ IsComplete
  /\ sup' = "complete" /\ UNCHANGED <<cycle, streak>>

\* A launch outage backs off and tries again, up to MaxTransient times
\* without progress.
EndTransient ==
  /\ CycleEnds /\ ~IsComplete /\ "transient" \in Classes
  /\ streak' = IF Len(answers) > before THEN 1 ELSE streak + 1
  /\ IF streak' > MaxTransient THEN sup' = "halted" /\ UNCHANGED cycle
     ELSE Relaunch

\* A usage stop sleeps to the reset.
EndUsage ==
  /\ CycleEnds /\ ~IsComplete /\ "usage" \in Classes
  /\ streak' = 0 /\ Relaunch

EndHalt ==
  /\ CycleEnds /\ ~IsComplete /\ "halt" \in Classes
  /\ streak' = 0 /\ sup' = "halted" /\ UNCHANGED cycle

Capped ==
  /\ sup = "launch" /\ cycle > MaxCycles
  /\ sup' = "capped"
  /\ UNCHANGED <<storeVars, diskVars, runVars, cycle, streak, before, said,
                 faults, hard, missed>>

\* The operator starts the supervisor again; its lock is free or stale.
Rerun ==
  /\ sup \in {"halted", "capped"} /\ Fault
  /\ sup' = "launch" /\ cycle' = 1 /\ streak' = 0
  /\ UNCHANGED <<storeVars, diskVars, runVars, before, said, hard, missed>>

-----------------------------------------------------------------------------
Ingest ==
  \/ IngestSkip \/ ClearParked \/ ClearEdges \/ ClearNodes
  \/ ExtractOk \/ ExtractFails \/ WriteParked \/ WriteRefused
  \/ \E f \in {"written", "merged"} : WriteStored(f) \/ ResolveParked(f)
  \/ AttachEdges \/ MarkIngested

Answer ==
  \/ AnswerStart \/ AnswerSubmit \/ AnswerArmDone \/ AnswerStopped
  \/ \E c \in Rows :
       \/ AnswerClean(c) \/ AnswerQuota(c)
       \/ \E kind \in {"error", "launch"} : AnswerFails(c, kind)

JudgePhase ==
  \/ JudgeStart \/ JudgeByRule \/ JudgeSubmit \/ JudgeDone
  \/ \E c \in Rows :
       \/ JudgeVerdict(c) \/ JudgeQuota(c)
       \/ \E kind \in {"error", "launch", "limited"} : JudgeFails(c, kind)

Supervise ==
  Launch \/ EndComplete \/ EndTransient \/ EndUsage \/ EndHalt \/ Capped

\* What goes on by itself; an operator's Rerun does not.
Unattended ==
  \/ Ingest \/ Answer \/ JudgePhase \/ ReportManifest \/ ReportRender
  \/ ReadFails \/ Kill \/ Supervise

BenchNext == Unattended \/ Rerun

BenchSpec == BenchInit /\ [][BenchNext]_benchVars

\* A supervisor that is running, and a run it launched, go on.
FairBenchSpec == BenchSpec /\ WF_benchVars(Unattended)

BenchOver == sup \in {"complete", "halted", "capped"}

-----------------------------------------------------------------------------
(* Properties.                                                             *)

BenchTypeOK ==
  /\ \A s \in Scopes, d \in Drafts : landed[s][d] \in Nat /\ parked[s][d] \in Nat
  /\ edgeRows \subseteq Scopes
  /\ AnswerRows \subseteq Rows /\ GradedRows \subseteq Rows
  /\ calls \subseteq Rows /\ todo \subseteq Rows
  /\ manifest \in [quota : BOOLEAN, ungraded : Nat, own : BOOLEAN]
  /\ torn \subseteq Files /\ missed \subseteq Cells
  /\ phase \in RunPhases \cup {"off", "ended"}
  /\ sup \in {"launch", "running", "complete", "halted", "capped"}
  /\ stop \in {"none", "usage", "transient", "halt"}
  /\ said \in {"none", "usage", "transient", "halt"}
  /\ faults \in 0..MaxFaults

\* A scope marked done holds exactly what its done row says, whatever kills
\* and resumes went before: each draft the row counts as stored or merged was
\* written once, each one it counts as failed was not, and nothing is parked
\* but a write whose resolution failed (run.phase_ingest, _clear_scope).
IngestExact ==
  \A s \in ingested :
    LET row == rowOf[s]
        kept == row.written \cup row.merged
    IN /\ kept \cap row.failed = {}
       /\ \A d \in Drafts :
            /\ landed[s][d] = (IF d \in kept THEN 1 ELSE 0)
            /\ parked[s][d] <= (IF d \in row.failed THEN 1 ELSE 0)
       /\ s \in edgeRows => row.written # {}

\* Across kills, relaunches and calls in flight together, no arm of the command
\* puts a question twice, so a question has more than one answer only where arms
\* share an arm_id; no answer is graded twice, and nothing is graded that was not
\* answered (run.phase_answer, run.phase_judge).
OnceEach ==
  /\ Cardinality(AnswerRows) = Len(answers)
  /\ Cardinality(GradedRows) = Len(verdicts)
  /\ GradedRows \subseteq AnswerRows

\* Whatever is killed and resumed, nothing is stored, asked by an arm or graded twice
\* and nothing that was counted is missing.
NothingTwice == IngestExact /\ OnceEach

Finished ==
  /\ ingested = Scopes
  /\ Graded = Answered
  /\ Cells \ Answered \subseteq missed

\* When the supervisor reads the run as complete from a manifest that a report
\* phase of its own command wrote, every scope was ingested, every answer was
\* graded, and the only questions without an answer are those whose reader call
\* failed in the last cycle (supervise.is_complete).
CompleteMeansGraded == sup = "complete" /\ manifest.own => Finished

\* The limits at which the supervisor says it gives up: --max-cycles, and
\* MAX_TRANSIENT_RETRIES cycles in a row without progress.
GaveUp == sup = "capped" \/ streak > MaxTransient

\* The run went through its phases, and judge errors too few in a row to stop it
\* left answers ungraded.
JudgedInPart == manifest.own /\ ~manifest.quota /\ manifest.ungraded > 0

\* "A usage limit must PAUSE the run, never break it": unless something other than
\* usage limits and launch outages goes wrong, the supervisor's relaunches bring
\* the run to completion or to a limit at which it says it gives up, but for a run
\* that judge errors below the breaker leave judged in part (supervise.main).
PausedNotBroken == <>(sup = "complete" \/ hard \/ GaveUp \/ JudgedInPart)

=============================================================================
