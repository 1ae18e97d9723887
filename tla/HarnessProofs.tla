--------------------------- MODULE HarnessProofs ---------------------------
(***************************************************************************)
(* A run of the benchmark rests on what it names, for every set of arms,   *)
(* every pack and all command lines.  Three invariants carry it: the space *)
(* a run works in is whole unless a provisioning or a teardown was cut off *)
(* (Provisioned), so that a scope marked done holds its facts (Ingested);  *)
(* and a stop that no judging has made up for is in the manifest whenever  *)
(* the next process reads it (Stopped).                                    *)
(*                                                                         *)
(* Its phases do nothing twice and say complete of what is complete, for   *)
(* every corpus, concurrency and number of kills: the scope at hand holds  *)
(* what the run has counted of it so far (Filling), what is in flight is   *)
(* not in a file (Asking, Grading), and a manifest that reads as complete  *)
(* is of the last run (Earned).                                            *)
(*                                                                         *)
(* Its model clients keep their terms: while one thread at a time is in    *)
(* the throttle, what it has read of the window is the window (Alone), and *)
(* the window holds whatever was posted in the last minute (Bounded).      *)
(***************************************************************************)
EXTENDS RunMain, Bench, Providers, TLAPS, FiniteSetTheorems, SequenceTheorems

-----------------------------------------------------------------------------
(* RunMain: what a run names.                                              *)

\* The step a process is at says whether its space exists, and a space that no
\* cut-off left behind has its whole pack once it is not being provisioned.
Provisioned ==
  /\ MainAt("create") => ~room.exists
  /\ MainAt("attach") \/ MainAt("apply") => room.exists
  /\ ~halfDone /\ room.exists /\ ~MainAt("apply") => Whole
  /\ ~halfDone /\ MainAt("ingest") => Whole /\ main.cmd.arms \subseteq room.scopes
  /\ MainAt("teardown") => halfDone

Ingested ==
  /\ ~halfDone => scopesDone \subseteq facts
  /\ ~halfDone => \A r \in armAnswers : r.ingested => r.grounded

\* Past judging, nothing is owed by a run that judges and was not stopped.
Stopped ==
  /\ owed => book.quota
  /\ main.stop => MainAt("record")
  /\ (MainAt("calibrate") \/ MainAt("diagnose") \/ MainAt("record")) /\ ~main.stop /\ Wants("judge")
       => ~owed

\* A verdict has its answer, and a probe its verdict.
Traced == judged \subseteq AnsweredArms /\ probed \subseteq judged

MainInv == MainTypeOK /\ Provisioned /\ Ingested /\ Stopped /\ Traced

-----------------------------------------------------------------------------
LEMMA MainInitInv == MainInit => MainInv
<1> SUFFICES ASSUME MainInit PROVE MainInv OBVIOUS
<1> USE DEF MainInit
<1>1. MainTypeOK
  <2>1. room \in [exists : BOOLEAN, rows : 0..Len(PackRows), scopes : SUBSET Arms]
    BY RunMainBounds DEF NoRoom
  <2>2. main \in [at : MainSteps, cmd : CommandLines, stop : BOOLEAN, calibrated : Calibrations]
    BY DEF NoMain, MainSteps, CommandLines, Calibrations
  <2>3. book \in [quota : BOOLEAN, calibrated : Calibrations]
    BY DEF NoBook, Calibrations
  <2> QED BY <2>1, <2>2, <2>3 DEF MainTypeOK
<1>2. Provisioned
  BY DEF Provisioned, MainAt, NoRoom, NoMain
<1>3. Ingested /\ Traced
  BY DEF Ingested, Traced
<1>4. Stopped
  BY DEF Stopped, MainAt, NoMain
<1> QED BY <1>1, <1>2, <1>3, <1>4 DEF MainInv

\* What the steps use of the type invariant.
LEMMA MainTyped ==
  MainInv => /\ room.rows \in 0..Len(PackRows) /\ room.scopes \subseteq Arms
             /\ main.cmd.arms \subseteq Arms /\ Len(PackRows) \in Nat \ {0}
<1> SUFFICES ASSUME MainInv
             PROVE  /\ room.rows \in 0..Len(PackRows) /\ room.scopes \subseteq Arms
                    /\ main.cmd.arms \subseteq Arms /\ Len(PackRows) \in Nat \ {0}
  OBVIOUS
<1> USE DEF MainInv, MainTypeOK
<1>1. room.rows \in 0..Len(PackRows)
  OBVIOUS
<1>2. room.scopes \subseteq Arms
  OBVIOUS
<1>3. main.cmd \in CommandLines
  OBVIOUS
<1>4. main.cmd.arms \subseteq Arms
  BY <1>3 DEF CommandLines
<1> QED BY <1>1, <1>2, <1>4, RunMainBounds

LEMMA MainStepRoom ==
  ASSUME MainInv, [MainNext]_mainVars
  PROVE  room' \in [exists : BOOLEAN, rows : 0..Len(PackRows), scopes : SUBSET Arms]
<1> USE DEF MainInv, MainTypeOK
<1>1. room.rows \in 0..Len(PackRows) /\ Len(PackRows) \in Nat \ {0} /\ main.cmd.arms \subseteq Arms
  BY MainTyped
<1>2. NoRoom \in [exists : BOOLEAN, rows : 0..Len(PackRows), scopes : SUBSET Arms]
  BY <1>1 DEF NoRoom
<1>3. CASE CreatesSpace
  <2>1. room' = [exists |-> TRUE, rows |-> 0, scopes |-> {}]
    BY <1>3 DEF CreatesSpace, NoRoom
  <2>2. 0 \in 0..Len(PackRows)
    BY <1>1
  <2> QED BY <2>1, <2>2
<1>4. CASE AppliesRow
  <2>1. room.rows + 1 \in 0..Len(PackRows)
    BY <1>1, <1>4 DEF AppliesRow
  <2> QED BY <1>4, <2>1 DEF AppliesRow
<1>5. CASE AddsScopes \/ Attaches
  BY <1>1, <1>5 DEF AddsScopes, Attaches, Attached
<1>6. CASE TearsDown
  <2>1. room.rows > 0 => room.rows - 1 \in 0..Len(PackRows)
    BY <1>1
  <2>2. \/ room' = room
        \/ room' = [room EXCEPT !.scopes = {}]
        \/ room.rows > 0 /\ room' = [room EXCEPT !.rows = @ - 1]
        \/ room' = NoRoom
    BY <1>6 DEF TearsDown
  <2> QED BY <1>2, <2>1, <2>2
<1>7. ASSUME NEW a \in Arms, Ingests(a) \/ Answers(a) \/ Judges(a) \/ Probe(a) PROVE room' = room
  BY <1>7 DEF Ingests, Answers, Judges, Probe
<1>8. CASE MainStarts \/ IngestOver \/ AnswerOver \/ JudgeOver \/ Stops \/ Calibrates \/ DiagnoseOver
           \/ ProbeRaises \/ MainExits \/ RecordsManifest \/ MainKilled \/ UNCHANGED mainVars
  BY <1>8 DEF MainStarts, IngestOver, AnswerOver, JudgeOver, Stops, Calibrates, DiagnoseOver,
     ProbeRaises, MainExits, RecordsManifest, MainKilled, mainVars
<1> QED BY <1>3, <1>4, <1>5, <1>6, <1>7, <1>8 DEF MainNext
LEMMA MainStepMain ==
  ASSUME MainInv, [MainNext]_mainVars
  PROVE  main' \in [at : MainSteps, cmd : CommandLines, stop : BOOLEAN, calibrated : Calibrations]
<1> DEFINE Mains == [at : MainSteps, cmd : CommandLines, stop : BOOLEAN, calibrated : Calibrations]
<1>1. main \in Mains /\ book.calibrated \in Calibrations
  BY DEF MainInv, MainTypeOK
<1>2. NoMain \in Mains
  BY DEF NoMain, MainSteps, CommandLines, Calibrations
<1>3. CASE MainStarts
  <2>1. PICK cmd \in Commands :
          main' = [at |-> IF room.exists THEN "attach" ELSE "create", cmd |-> cmd,
                   stop |-> FALSE, calibrated |-> book.calibrated]
    BY <1>3 DEF MainStarts
  <2>2. cmd \in CommandLines
    BY RunMainBounds
  <2> QED BY <1>1, <2>1, <2>2 DEF MainSteps
<1>4. CASE CreatesSpace \/ AddsScopes \/ Attaches \/ IngestOver \/ AnswerOver \/ JudgeOver \/ DiagnoseOver
           \/ ProbeRaises
  <2>1. \E step \in MainSteps : main' = [main EXCEPT !.at = step]
    BY <1>4 DEF CreatesSpace, AddsScopes, Attaches, IngestOver, AnswerOver, JudgeOver, DiagnoseOver,
       ProbeRaises, MainGoes, MainSteps
  <2> QED BY <1>1, <2>1
<1>5. CASE Stops
  BY <1>1, <1>5 DEF Stops, MainSteps
<1>6. CASE Calibrates
  <2>1. PICK outcome \in (IF Wants("calibrate") THEN {"measured", "incomplete"} ELSE {main.calibrated}) :
          main' = [main EXCEPT !.at = "diagnose", !.calibrated = outcome]
    BY <1>6 DEF Calibrates
  <2>2. outcome \in Calibrations
    BY <1>1 DEF Calibrations
  <2> QED BY <1>1, <2>1, <2>2 DEF MainSteps
<1>7. CASE RecordsManifest \/ TearsDown \/ MainExits \/ MainKilled
  <2>1. main' = NoMain \/ main' = main \/ main' = [main EXCEPT !.at = "teardown"]
    BY <1>7 DEF RecordsManifest, TearsDown, MainExits, MainKilled, MainGoes
  <2> QED BY <1>1, <1>2, <2>1 DEF MainSteps
<1>8. ASSUME NEW a \in Arms, Ingests(a) \/ Answers(a) \/ Judges(a) \/ Probe(a) PROVE main' = main
  BY <1>8 DEF Ingests, Answers, Judges, Probe
<1>9. CASE AppliesRow \/ UNCHANGED mainVars
  BY <1>1, <1>9 DEF AppliesRow, mainVars
<1> QED BY <1>1, <1>3, <1>4, <1>5, <1>6, <1>7, <1>8, <1>9 DEF MainNext

\* The files: one more arm, or nothing.
LEMMA MainStepFiles ==
  ASSUME MainInv, [MainNext]_mainVars
  PROVE  /\ {scopesDone, facts, judged, probed}' \subseteq SUBSET Arms
         /\ armAnswers' \subseteq [arm : Arms, grounded : BOOLEAN, ingested : BOOLEAN]
         /\ Traced'
<1>1. /\ {scopesDone, facts, judged, probed} \subseteq SUBSET Arms
      /\ armAnswers \subseteq [arm : Arms, grounded : BOOLEAN, ingested : BOOLEAN] /\ Traced
  BY DEF MainInv, MainTypeOK
<1>2. ASSUME NEW a \in Arms, Ingests(a) \/ Judges(a) \/ Probe(a)
      PROVE  /\ {scopesDone, facts, judged, probed}' \subseteq SUBSET Arms
             /\ armAnswers' = armAnswers /\ Traced'
  BY <1>1, <1>2 DEF Ingests, Judges, Probe, Traced, AnsweredArms
<1>3. ASSUME NEW a \in Arms, Answers(a)
      PROVE  /\ UNCHANGED <<scopesDone, facts, judged, probed>>
             /\ armAnswers' \subseteq [arm : Arms, grounded : BOOLEAN, ingested : BOOLEAN]
             /\ Traced'
  <2>1. PICK r \in [arm : Arms, grounded : BOOLEAN, ingested : BOOLEAN] : armAnswers' = armAnswers \cup {r}
    <3>1. (a \in facts) \in BOOLEAN /\ (a \in scopesDone) \in BOOLEAN
      OBVIOUS
    <3> QED BY <1>3, <3>1 DEF Answers
  <2>2. UNCHANGED <<scopesDone, facts, judged, probed>>
    BY <1>3 DEF Answers
  <2> QED BY <1>1, <2>1, <2>2 DEF Traced, AnsweredArms
<1>4. CASE TearsDown
  <2>1. facts' \in {facts, {}} /\ UNCHANGED <<scopesDone, judged, probed, armAnswers>>
    BY <1>4 DEF TearsDown
  <2> QED BY <1>1, <2>1 DEF Traced, AnsweredArms
<1>5. CASE MainStarts \/ CreatesSpace \/ AppliesRow \/ AddsScopes \/ Attaches \/ IngestOver \/ AnswerOver
           \/ JudgeOver \/ Stops \/ Calibrates \/ DiagnoseOver \/ ProbeRaises \/ MainExits \/ RecordsManifest \/ MainKilled
           \/ UNCHANGED mainVars
  <2>1. UNCHANGED <<scopesDone, facts, judged, probed, armAnswers>>
    BY <1>5 DEF MainStarts, CreatesSpace, AppliesRow, AddsScopes, Attaches, IngestOver, AnswerOver,
       JudgeOver, Stops, Calibrates, DiagnoseOver, ProbeRaises, MainExits, RecordsManifest, MainKilled, mainVars
  <2> QED BY <1>1, <2>1 DEF Traced, AnsweredArms
<1> QED BY <1>1, <1>2, <1>3, <1>4, <1>5 DEF MainNext
LEMMA MainStepTyped == MainInv /\ [MainNext]_mainVars => MainTypeOK'
<1> SUFFICES ASSUME MainInv, [MainNext]_mainVars PROVE MainTypeOK' OBVIOUS
<1>1. book' \in [quota : BOOLEAN, calibrated : Calibrations]
  <2>1. /\ book \in [quota : BOOLEAN, calibrated : Calibrations]
        /\ main.stop \in BOOLEAN /\ main.calibrated \in Calibrations
    BY DEF MainInv, MainTypeOK
  <2>2. CASE RecordsManifest
    <3>1. Recorded.quota \in BOOLEAN /\ Recorded.calibrated \in Calibrations
      BY <2>1 DEF Recorded, Calibrations
    <3>2. Recorded = [quota |-> Recorded.quota, calibrated |-> Recorded.calibrated]
      BY DEF Recorded
    <3> QED BY <2>2, <3>1, <3>2 DEF RecordsManifest
  <2>3. CASE ~RecordsManifest
    <3>1. book' = book
      BY <2>3 DEF MainNext, mainVars, MainStarts, CreatesSpace, AppliesRow, AddsScopes, Attaches,
         Ingests, Answers, Judges, Probe, IngestOver, AnswerOver, JudgeOver, Stops, Calibrates,
         DiagnoseOver, ProbeRaises, MainExits, TearsDown, MainKilled
    <3> QED BY <2>1, <3>1
  <2> QED BY <2>2, <2>3
<1> QED BY <1>1, MainStepRoom, MainStepMain, MainStepFiles DEF MainTypeOK

\* The steps that change the space, or where the process is with respect to it.
LEMMA MainStepProvisioned == MainInv /\ [MainNext]_mainVars => Provisioned'
<1> SUFFICES ASSUME MainInv, [MainNext]_mainVars PROVE Provisioned' OBVIOUS
<1> USE DEF MainInv, Provisioned, MainAt, Whole
<1>1. CASE MainStarts
  <2>1. PICK cmd \in Commands :
          main' = [at |-> IF room.exists THEN "attach" ELSE "create", cmd |-> cmd,
                   stop |-> FALSE, calibrated |-> book.calibrated]
    BY <1>1 DEF MainStarts
  <2>2. UNCHANGED <<room, halfDone>> /\ main.at = "none"
    BY <1>1 DEF MainStarts
  <2>3. main'.at = IF room.exists THEN "attach" ELSE "create"
    BY <2>1
  <2> QED BY <2>2, <2>3
<1> DEFINE Goes(step) == main'.at = step /\ main'.cmd = main.cmd
<1>2. main.at \in MainSteps /\ DOMAIN main = {"at", "cmd", "stop", "calibrated"}
  BY DEF MainTypeOK
<1>3. \A step : MainGoes(step) => Goes(step)
  BY <1>2 DEF MainGoes
<1>4. CASE CreatesSpace
  <2>1. room'.exists /\ main'.at = "apply" /\ halfDone' = halfDone
    BY <1>3, <1>4 DEF CreatesSpace, NoRoom
  <2> QED BY <2>1
<1>5. CASE AppliesRow
  <2>1. room'.exists = room.exists /\ UNCHANGED <<main, halfDone>> /\ main.at = "apply"
    BY <1>5 DEF AppliesRow, MainTypeOK
  <2> QED BY <2>1
<1>6. CASE AddsScopes \/ Attaches
  <2>1. /\ room'.exists = room.exists /\ room'.rows = room.rows /\ halfDone' = halfDone
        /\ room'.scopes = room.scopes \cup main.cmd.arms
    BY <1>6 DEF AddsScopes, Attaches, Attached, MainTypeOK
  <2>2. Goes("ingest")
    BY <1>3, <1>6 DEF AddsScopes, Attaches
  <2>3. ~halfDone => room.rows = Len(PackRows)
    BY <1>6 DEF AddsScopes, Attaches
  <2> QED BY <2>1, <2>2, <2>3
<1>7. ASSUME NEW a \in Arms, Ingests(a) \/ Answers(a) \/ Judges(a) \/ Probe(a)
      PROVE  UNCHANGED <<room, main, halfDone>>
  BY <1>7 DEF Ingests, Answers, Judges, Probe
<1>8. CASE IngestOver \/ AnswerOver \/ JudgeOver \/ DiagnoseOver \/ Stops \/ Calibrates \/ ProbeRaises
  <2>1. UNCHANGED <<room, halfDone>>
    BY <1>8 DEF IngestOver, AnswerOver, JudgeOver, DiagnoseOver, Stops, Calibrates, ProbeRaises
  <2>2. /\ main.at \notin {"create", "apply", "attach", "teardown"}
        /\ main'.at \in {"answer", "judge", "calibrate", "diagnose", "raised", "record"}
    BY <1>2, <1>3, <1>8 DEF IngestOver, AnswerOver, JudgeOver, DiagnoseOver, Stops, Calibrates, ProbeRaises
  <2> QED BY <2>1, <2>2
<1>9. CASE RecordsManifest
  <2>1. room' = room /\ main.at = "record"
    BY <1>9 DEF RecordsManifest
  <2>2. \/ main'.at = "teardown" /\ halfDone'
        \/ main'.at = "none" /\ halfDone' = halfDone
    BY <1>3, <1>9 DEF RecordsManifest, NoMain
  <2> QED BY <2>1, <2>2
<1>10. CASE TearsDown
  <2>1. halfDone' = halfDone /\ main.at = "teardown" /\ (main' = main \/ main'.at = "none")
    BY <1>10 DEF TearsDown, NoMain
  <2> QED BY <2>1
<1>11. CASE MainKilled
  <2>1. room' = room /\ main'.at = "none" /\ halfDone' = (halfDone \/ main.at = "apply")
    BY <1>11 DEF MainKilled, NoMain
  <2> QED BY <2>1
<1>12. CASE MainExits \/ UNCHANGED mainVars
  <2>1. UNCHANGED <<room, halfDone>> /\ main'.at \in {main.at, "none"}
    BY <1>12 DEF MainExits, NoMain, mainVars
  <2>2. main.at \notin {"create", "apply", "attach", "teardown"} \/ main' = main
    BY <1>12 DEF MainExits, mainVars
  <2> QED BY <1>12, <2>1, <2>2 DEF MainExits, NoMain, mainVars
<1>13. ASSUME UNCHANGED <<room, main, halfDone>> PROVE Provisioned'
  BY <1>13
<1> QED BY <1>1, <1>4, <1>5, <1>6, <1>7, <1>8, <1>9, <1>10, <1>11, <1>12, <1>13 DEF MainNext

\* A scope is marked done over a whole space that has it.
LEMMA MainStepIngested == MainInv /\ [MainNext]_mainVars => Ingested'
<1> SUFFICES ASSUME MainInv, [MainNext]_mainVars PROVE Ingested' OBVIOUS
<1> USE DEF MainInv, Ingested
<1>1. ASSUME NEW a \in Arms, Ingests(a) PROVE Ingested'
  <2>1. ~halfDone => facts' = facts \cup {a}
    BY <1>1 DEF Ingests, Provisioned
  <2>2. UNCHANGED <<halfDone, armAnswers>> /\ scopesDone' = scopesDone \cup {a}
    BY <1>1 DEF Ingests
  <2> QED BY <2>1, <2>2
<1>2. ASSUME NEW a \in Arms, Answers(a) PROVE Ingested'
  <2> DEFINE r == [arm |-> a, grounded |-> a \in facts, ingested |-> a \in scopesDone]
  <2>1. armAnswers' = armAnswers \cup {r} /\ UNCHANGED <<halfDone, scopesDone, facts>>
    BY <1>2 DEF Answers
  <2>2. ~halfDone /\ r.ingested => r.grounded
    OBVIOUS
  <2> HIDE DEF r
  <2> QED BY <2>1, <2>2
<1>3. ASSUME NEW a \in Arms, Judges(a) \/ Probe(a) PROVE Ingested'
  BY <1>3 DEF Judges, Probe
<1>4. CASE TearsDown
  <2>1. halfDone /\ halfDone' = halfDone
    BY <1>4 DEF TearsDown, Provisioned
  <2> QED BY <2>1
<1>5. CASE MainStarts \/ CreatesSpace \/ AppliesRow \/ AddsScopes \/ Attaches \/ IngestOver \/ AnswerOver
           \/ JudgeOver \/ Stops \/ Calibrates \/ DiagnoseOver \/ ProbeRaises \/ MainExits \/ RecordsManifest \/ MainKilled
           \/ UNCHANGED mainVars
  <2>1. UNCHANGED <<scopesDone, facts, armAnswers>>
    BY <1>5 DEF MainStarts, CreatesSpace, AppliesRow, AddsScopes, Attaches, IngestOver, AnswerOver,
       JudgeOver, Stops, Calibrates, DiagnoseOver, ProbeRaises, MainExits, RecordsManifest, MainKilled, mainVars
  <2>2. halfDone' = halfDone \/ halfDone' = TRUE \/ halfDone' = (halfDone \/ MainAt("apply"))
    BY <1>5 DEF MainStarts, CreatesSpace, AppliesRow, AddsScopes, Attaches, IngestOver, AnswerOver,
       JudgeOver, Stops, Calibrates, DiagnoseOver, ProbeRaises, MainExits, RecordsManifest, MainKilled, mainVars
  <2> QED BY <2>1, <2>2
<1> QED BY <1>1, <1>2, <1>3, <1>4, <1>5 DEF MainNext

\* What is owed is paid by a judging, and said in the manifest until then.
LEMMA MainStepStopped == MainInv /\ [MainNext]_mainVars => Stopped'
<1> SUFFICES ASSUME MainInv, [MainNext]_mainVars PROVE Stopped' OBVIOUS
<1> USE DEF MainInv, Stopped, MainAt, Wants
<1>1. DOMAIN main = {"at", "cmd", "stop", "calibrated"} /\ DOMAIN book = {"quota", "calibrated"}
  BY DEF MainTypeOK
<1>2. \A step : MainGoes(step) =>
        main'.at = step /\ main'.cmd = main.cmd /\ main'.stop = main.stop
  BY <1>1 DEF MainGoes
<1>3. CASE CreatesSpace \/ AddsScopes \/ Attaches \/ IngestOver \/ AnswerOver
  <2>1. UNCHANGED <<owed, book>> /\ main'.at \in {"apply", "ingest", "answer", "judge"}
        /\ main'.stop = main.stop /\ main.at # "record"
    BY <1>2, <1>3 DEF CreatesSpace, AddsScopes, Attaches, IngestOver, AnswerOver
  <2> QED BY <2>1
<1>4. CASE JudgeOver
  <2>1. /\ book' = book /\ main'.at = "calibrate" /\ main'.cmd = main.cmd /\ main'.stop = main.stop
        /\ main.at = "judge" /\ owed' = (owed /\ "judge" \notin main.cmd.phases)
    BY <1>2, <1>4 DEF JudgeOver
  <2> QED BY <2>1
<1>5. CASE Stops
  <2>1. UNCHANGED <<owed, book>> /\ main'.at = "record" /\ main'.stop
    BY <1>1, <1>5 DEF Stops
  <2> QED BY <2>1
<1>6. CASE Calibrates \/ DiagnoseOver \/ ProbeRaises
  <2>1. /\ UNCHANGED <<owed, book>> /\ main'.at \in {"diagnose", "raised", "record"} /\ main'.cmd = main.cmd
        /\ main'.stop = main.stop /\ main.at \in {"calibrate", "diagnose"}
    BY <1>1, <1>2, <1>6 DEF Calibrates, DiagnoseOver, ProbeRaises
  <2> QED BY <2>1
<1>7. CASE RecordsManifest
  <2>1. /\ main.at = "record" /\ book'.quota = Recorded.quota /\ owed' = (owed \/ main.stop)
        /\ main'.at \in {"teardown", "none"} /\ ~main'.stop
    BY <1>2, <1>7 DEF RecordsManifest, NoMain
  <2>2. owed' => Recorded.quota
    BY <2>1 DEF Recorded
  <2> QED BY <2>1, <2>2
<1>8. CASE MainStarts \/ MainExits \/ MainKilled
  <2>1. UNCHANGED <<owed, book>> /\ main'.at \in {"attach", "create", "none"} /\ ~main'.stop
    BY <1>8 DEF MainStarts, MainExits, MainKilled, NoMain
  <2> QED BY <2>1
<1>9. CASE TearsDown
  <2>1. UNCHANGED <<owed, book>> /\ (main' = main \/ (main'.at = "none" /\ ~main'.stop))
    BY <1>9 DEF TearsDown, NoMain
  <2> QED BY <2>1
<1>10. ASSUME NEW a \in Arms, Ingests(a) \/ Answers(a) \/ Judges(a) \/ Probe(a)
       PROVE  UNCHANGED <<owed, book, main>>
  BY <1>10 DEF Ingests, Answers, Judges, Probe
<1>11. CASE AppliesRow \/ UNCHANGED mainVars
  BY <1>11 DEF AppliesRow, mainVars
<1>12. ASSUME UNCHANGED <<owed, book, main>> PROVE Stopped'
  BY <1>12
<1> QED BY <1>3, <1>4, <1>5, <1>6, <1>7, <1>8, <1>9, <1>10, <1>11, <1>12 DEF MainNext

\* However runs are killed, stopped and started with other arms or phases, what
\* one reports rests on what it names (run.main, provision_or_attach).
THEOREM ReportsRest == MainSpec => []RunGrounded
<1>1. MainInit => MainInv
  BY MainInitInv
<1>2. MainInv /\ [MainNext]_mainVars => MainInv'
  BY MainStepTyped, MainStepProvisioned, MainStepIngested, MainStepStopped, MainStepFiles DEF MainInv
<1>3. MainInv => RunGrounded
  BY DEF MainInv, Ingested, Stopped, Traced, RunGrounded
<1> QED BY <1>1, <1>2, <1>3, PTL DEF MainSpec

-----------------------------------------------------------------------------
(* Bench: the phases and their supervisor.                                 *)

Process == RunPhases \cup {"off", "ended"}
IngestPhases == {"ingest", "clearEdges", "clearNodes", "extract", "write", "resolve", "mark"}

\* A process that is over has forgotten where it was, nothing is asked before ingest
\* is over, and the supervisor runs one process at a time.
Supervised ==
  /\ phase \in Process
  /\ sup = "running" <=> phase # "off"
  /\ phase \in {"off", "ended"} => scope = 1
  /\ phase \in IngestPhases \cup {"off", "ended"} => calls = {} /\ stop = "none"

\* Where the store's rows are, and what a run counts.
StoreTyped ==
  /\ landed \in [Scopes -> [Drafts -> Nat]] /\ parked \in [Scopes -> [Drafts -> Nat]]
  /\ edgeRows \subseteq Scopes /\ ingested \subseteq Scopes
  /\ rowOf \in [Scopes -> StatRows] /\ stats \in StatRows

\* The scopes a run has passed by are the ones with a done row.
Passed == {ScopeOrder[k] : k \in 1..(scope - 1)}

Passing ==
  phase \in IngestPhases =>
    /\ scope \in 1..(Len(ScopeOrder) + 1)
    /\ ingested = have \cup Passed
    /\ phase # "ingest" => scope <= Len(ScopeOrder) /\ CurScope \notin have

\* A scope holds what a row says, but for a write that is parked right now.
Holds(s, row, unresolved) ==
  LET kept == row.written \cup row.merged
  IN /\ kept \cap row.failed = {}
     /\ \A d \in Drafts :
          /\ landed[s][d] = (IF d \in kept THEN 1 ELSE 0)
          /\ parked[s][d] <= (IF d \in row.failed \cup unresolved THEN 1 ELSE 0)

Seen == {Windows[CurScope][k] : k \in 1..(window - 1)}

\* How far the scope at hand is cleared, and then written again.
Filling ==
  /\ phase \in {"clearEdges", "clearNodes"} =>
       /\ \A d \in Drafts : parked[CurScope][d] = 0
       /\ window = 1 /\ stats = NoStats
  /\ phase = "clearNodes" => CurScope \notin edgeRows
  /\ phase \in {"extract", "write", "resolve", "mark"} =>
       /\ window \in 1..(Len(Windows[CurScope]) + 1)
       /\ stats.written \cup stats.merged \cup stats.failed \subseteq Seen
       /\ Holds(CurScope, stats, IF phase = "resolve" THEN {CurDraft} ELSE {})
       /\ phase # "mark" => CurScope \notin edgeRows
       /\ CurScope \in edgeRows => stats.written # {}
  /\ phase \in {"write", "resolve"} => window <= Len(Windows[CurScope])
  /\ phase = "resolve" => parked[CurScope][CurDraft] = 1

\* Edges hang between rows, so a scope without rows has none.
Hanging == \A s \in edgeRows : \E d \in Drafts : landed[s][d] # 0

StoreInv == StoreTyped /\ Passing /\ Filling /\ Hanging /\ IngestExact

-----------------------------------------------------------------------------
Once(s) == \A i, j \in DOMAIN s : s[i] = s[j] => i = j

\* The rows appended so far, each once, and no verdict without its answer.
Appended ==
  /\ answers \in Seq(Rows) /\ verdicts \in Seq(Rows)
  /\ Once(answers) /\ Once(verdicts)
  /\ GradedRows \subseteq AnswerRows

Keys(rows) == {r.key : r \in rows}
ArmRows(a) == {[arm |-> a, key |-> c] : c \in ArmCells[a]}

\* What a phase has in flight or ahead of it is not in the file yet, rows of an arm
\* that is still to come are of an earlier process, and what answering leaves behind
\* was answered or missed.
Asking ==
  phase = "answer" =>
    /\ arm \in 1..(Len(ArmCells) + 1)
    /\ have \subseteq Answered
    /\ todo \cap calls = {} /\ (todo \cup calls) \cap AnswerRows = {}
    /\ todo \cup calls \subseteq IF arm > Len(ArmCells) THEN {} ELSE ArmRows(arm)
    /\ \A r \in AnswerRows : r.arm > arm => r.key \in have
    /\ stop = "none" => \A a \in DOMAIN ArmCells :
                           a <= arm => ArmCells[a] \subseteq Answered \cup missed \cup Keys(todo \cup calls)

Grading ==
  phase \in {"rule", "judge"} =>
    todo \cap calls = {} /\ todo \cup calls \subseteq AnswerRows \ GradedRows

CellsInv == Appended /\ Asking /\ Grading

-----------------------------------------------------------------------------
\* What a complete run rests on.
AllIngested == ingested = Scopes
AllAsked == Cells \ Answered \subseteq missed

\* Past a phase, a run that was not stopped has done all of it.
Through ==
  /\ phase \in {"answer", "rule", "judge", "report", "render"} => AllIngested
  /\ phase \in {"rule", "judge", "report", "render"} /\ stop = "none" => AllAsked

\* A manifest of this command that reads as complete is one the supervisor can read
\* only from the run that earned it.
ReadsComplete == ~manifest.quota /\ manifest.ungraded = 0
Earned ==
  ReadsComplete /\ manifest.own /\ ((reported /\ "manifest" \notin torn) \/ phase = "render") =>
    Finished /\ (phase \in {"render", "ended"} \/ sup = "complete")

CompleteInv == Through /\ Earned /\ CompleteMeansGraded
BenchInv == Supervised /\ StoreInv /\ CellsInv /\ CompleteInv

\* The supervisor's steps, and an operator's.
Supervising == Supervise \/ Rerun

\* Every step that is not of ingest, the store left alone: it ends the process,
\* begins one, or stays out of ingest.
NotIngest ==
  \/ Answer \/ JudgePhase \/ ReportManifest \/ ReportRender \/ ReadFails \/ Kill
  \/ Supervising \/ UNCHANGED benchVars

Ends == phase' = "ended" /\ Forget /\ UNCHANGED <<sup, missed>>

LEMMA EndsOf ==
  ReportRender \/ ReadFails \/ Kill =>
    /\ phase \in RunPhases /\ Ends /\ UNCHANGED <<answers, verdicts, manifest, ingested>>
    /\ torn \subseteq torn'
    /\ reported' = reported \/ phase = "render"
<1>1. ASSUME ReportRender
      PROVE  /\ phase \in RunPhases /\ Ends /\ UNCHANGED <<answers, verdicts, manifest, ingested>>
             /\ torn \subseteq torn'
             /\ reported' = reported \/ phase = "render"
  BY <1>1 DEF ReportRender, Ends, RunEnds, RunPhases, supVars
<1>2. ASSUME ReadFails
      PROVE  /\ phase \in RunPhases /\ Ends /\ UNCHANGED <<answers, verdicts, manifest, ingested>>
             /\ torn \subseteq torn'
             /\ reported' = reported \/ phase = "render"
  BY <1>2 DEF ReadFails, Unreadable, Ends, RunEnds, RunPhases, supVars, diskVars
<1>3. ASSUME Kill
      PROVE  /\ phase \in RunPhases /\ Ends /\ UNCHANGED <<answers, verdicts, manifest, ingested>>
             /\ torn \subseteq torn'
             /\ reported' = reported \/ phase = "render"
  BY <1>3 DEF Kill, Ends, RunEnds, supVars
<1> QED BY <1>1, <1>2, <1>3

\* Steps of a process in its course.
LEMMA RunStep ==
  Ingest \/ Answer \/ JudgePhase \/ ReportManifest =>
    phase \in RunPhases /\ phase' \in RunPhases /\ UNCHANGED <<sup, torn, reported>>
<1>1. ASSUME Ingest PROVE phase \in RunPhases /\ phase' \in RunPhases /\ UNCHANGED <<sup, torn, reported>>
  BY <1>1 DEF Ingest, IngestSkip, ClearParked, ClearEdges, ClearNodes, ExtractOk, ExtractFails,
     WriteParked, WriteRefused, WriteStored, ResolveParked, AttachEdges, MarkIngested,
     NextWindow, RunPhases, supVars, diskVars
<1>2. ASSUME Answer PROVE phase \in RunPhases /\ phase' \in RunPhases /\ UNCHANGED <<sup, torn, reported>>
  BY <1>2 DEF Answer, AnswerStart, AnswerSubmit, AnswerArmDone, AnswerStopped, AnswerClean,
     AnswerQuota, AnswerFails, Submit, Returns, RunPhases, supVars, diskVars
<1>3. ASSUME JudgePhase PROVE phase \in RunPhases /\ phase' \in RunPhases /\ UNCHANGED <<sup, torn, reported>>
  BY <1>3 DEF JudgePhase, JudgeStart, JudgeByRule, JudgeSubmit, JudgeDone, JudgeVerdict,
     JudgeQuota, JudgeFails, Submit, Returns, RunPhases, supVars, diskVars
<1>4. ASSUME ReportManifest PROVE phase \in RunPhases /\ phase' \in RunPhases /\ UNCHANGED <<sup, torn, reported>>
  BY <1>4 DEF ReportManifest, RunPhases, supVars
<1> QED BY <1>1, <1>2, <1>3, <1>4

\* The supervisor's steps: a launch, or the end of a process, or none of them.
LEMMA SuperviseStep ==
  Supervising =>
    /\ UNCHANGED <<storeVars, diskVars, scope, todo, calls, stop>>
    /\ \/ Launch
       \/ /\ sup = "running" /\ phase = "ended" /\ phase' = "off"
          /\ sup' \in {"launch", "complete", "halted"}
          /\ sup' = "complete" <=> IsComplete
          /\ UNCHANGED missed
       \/ /\ sup \in {"launch", "halted", "capped"} /\ sup' \in {"launch", "capped"}
          /\ UNCHANGED <<phase, missed>>
<1> SUFFICES ASSUME Supervising
             PROVE  /\ UNCHANGED <<storeVars, diskVars, scope, todo, calls, stop>>
                    /\ \/ Launch
                       \/ /\ sup = "running" /\ phase = "ended" /\ phase' = "off"
                          /\ sup' \in {"launch", "complete", "halted"}
                          /\ sup' = "complete" <=> IsComplete
                          /\ UNCHANGED missed
                       \/ /\ sup \in {"launch", "halted", "capped"} /\ sup' \in {"launch", "capped"}
                          /\ UNCHANGED <<phase, missed>>
  OBVIOUS
<1>1. CASE Launch
  BY <1>1 DEF Launch
<1>2. CASE EndComplete \/ EndTransient \/ EndUsage \/ EndHalt
  <2>1. /\ sup' = "complete" <=> IsComplete
        /\ CycleEnds /\ sup' \in {"launch", "complete", "halted"}
    BY <1>2 DEF EndComplete, EndTransient, EndUsage, EndHalt, Relaunch
  <2> QED BY <2>1 DEF CycleEnds, storeVars, diskVars
<1>3. CASE Capped \/ Rerun
  BY <1>3 DEF Capped, Rerun, runVars, storeVars, diskVars
<1> QED BY <1>1, <1>2, <1>3 DEF Supervising, Supervise

\* Past ingest a process does not come back to it.
LEMMA PastIngest ==
  Answer \/ JudgePhase \/ ReportManifest =>
    phase' \notin IngestPhases /\ UNCHANGED <<landed, parked, edgeRows, ingested, rowOf, stats>>
<1>1. ASSUME Answer
      PROVE  phase' \notin IngestPhases /\ UNCHANGED <<landed, parked, edgeRows, ingested, rowOf, stats>>
  BY <1>1 DEF Answer, AnswerStart, AnswerSubmit, AnswerArmDone, AnswerStopped, AnswerClean,
     AnswerQuota, AnswerFails, Submit, Returns, IngestPhases, diskVars, storeVars
<1>2. ASSUME JudgePhase
      PROVE  phase' \notin IngestPhases /\ UNCHANGED <<landed, parked, edgeRows, ingested, rowOf, stats>>
  BY <1>2 DEF JudgePhase, JudgeStart, JudgeByRule, JudgeSubmit, JudgeDone, JudgeVerdict,
     JudgeQuota, JudgeFails, Submit, Returns, IngestPhases, diskVars, storeVars
<1>3. ASSUME ReportManifest
      PROVE  phase' \notin IngestPhases /\ UNCHANGED <<landed, parked, edgeRows, ingested, rowOf, stats>>
  BY <1>3 DEF ReportManifest, IngestPhases, storeVars
<1> QED BY <1>1, <1>2, <1>3

LEMMA SupervisedStep == Supervised /\ [BenchNext]_benchVars => Supervised'
<1> SUFFICES ASSUME Supervised, [BenchNext]_benchVars PROVE Supervised' OBVIOUS
<1>1. CASE Ingest
  <2>1. phase \in IngestPhases /\ UNCHANGED <<calls, stop>>
    BY <1>1 DEF Ingest, IngestSkip, ClearParked, ClearEdges, ClearNodes, ExtractOk, ExtractFails,
       WriteParked, WriteRefused, WriteStored, ResolveParked, AttachEdges, MarkIngested,
       IngestPhases
  <2> QED BY <1>1, <2>1, RunStep DEF Supervised, Process, RunPhases
<1>2. CASE Answer \/ JudgePhase \/ ReportManifest
  <2>1. phase' \notin IngestPhases
    BY <1>2, PastIngest
  <2> QED BY <1>2, <2>1, RunStep DEF Supervised, Process, RunPhases
<1>3. CASE ReportRender \/ ReadFails \/ Kill
  BY <1>3, EndsOf DEF Supervised, Ends, Forget, Process, RunPhases, IngestPhases
<1>4. CASE Supervising
  <2>1. CASE Launch
    BY <2>1 DEF Launch, Supervised, Process, RunPhases, IngestPhases
  <2>2. CASE ~Launch
    BY <1>4, <2>2, SuperviseStep DEF Supervised, Process, RunPhases, IngestPhases
  <2> QED BY <2>1, <2>2
<1>5. CASE UNCHANGED benchVars
  BY <1>5 DEF benchVars, runVars, supVars, Supervised
<1> QED BY <1>1, <1>2, <1>3, <1>4, <1>5 DEF BenchNext, Unattended, Supervising

-----------------------------------------------------------------------------
(* The store.                                                              *)

\* Outside ingest the store stands still, and ingest begins with a launch.
Outside ==
  /\ UNCHANGED <<storeVars, ingested, rowOf>>
  /\ \/ phase' \notin IngestPhases
     \/ phase' = "ingest" /\ scope' = 1 /\ have' = ingested
     \/ UNCHANGED <<phase, have, scope, window, stats>>
  /\ stats' \in StatRows

LEMMA OutsideIngest == Supervised /\ StoreTyped /\ NotIngest => Outside
<1> SUFFICES ASSUME Supervised, StoreTyped, NotIngest PROVE Outside OBVIOUS
<1>0. stats \in StatRows /\ NoStats \in StatRows
  BY DEF StoreTyped, StatRows, NoStats
<1>1. CASE Answer \/ JudgePhase \/ ReportManifest
  BY <1>1, <1>0, PastIngest DEF Outside, storeVars
<1>2. CASE ReportRender \/ ReadFails \/ Kill
  <2>1. UNCHANGED <<storeVars, ingested, rowOf>> /\ phase' = "ended" /\ stats' = NoStats
    BY <1>2 DEF ReportRender, ReadFails, Kill, Unreadable, RunEnds, Forget, diskVars
  <2> QED BY <2>1, <1>0 DEF Outside, IngestPhases
<1>3. CASE Supervising
  <2>1. CASE Launch
    BY <2>1, <1>0 DEF Launch, Supervised, Outside, IngestPhases, diskVars
  <2>2. CASE ~Launch
    <3>1. /\ UNCHANGED <<storeVars, ingested, rowOf>> /\ stats' = stats
          /\ phase' = "off" \/ UNCHANGED <<phase, have, scope, window>>
      BY <1>3, <2>2 DEF Supervising, Supervise, EndComplete, EndTransient, EndUsage, EndHalt, CycleEnds,
         Capped, Rerun, runVars, diskVars
    <3> QED BY <3>1, <1>0 DEF Outside, IngestPhases
  <2> QED BY <2>1, <2>2
<1>4. CASE UNCHANGED benchVars
  BY <1>4, <1>0 DEF benchVars, diskVars, runVars, Outside
<1> QED BY <1>1, <1>2, <1>3, <1>4 DEF NotIngest

LEMMA OutsideKeeps == StoreInv /\ Outside => StoreInv'
<1> SUFFICES ASSUME StoreInv, Outside PROVE StoreInv' OBVIOUS
<1>1. UNCHANGED <<landed, parked, edgeRows, ingested, rowOf>> /\ stats' \in StatRows
  BY DEF Outside, storeVars
<1>2. StoreTyped' /\ Hanging' /\ IngestExact'
  BY <1>1 DEF StoreInv, StoreTyped, Hanging, IngestExact
<1>3. CASE phase' \notin IngestPhases
  BY <1>3, <1>2 DEF StoreInv, Passing, Filling, IngestPhases
<1>4. CASE phase' = "ingest" /\ scope' = 1 /\ have' = ingested
  <2>1. Passed' = {}
    BY <1>4 DEF Passed
  <2>2. Len(ScopeOrder) \in Nat
    BY BenchDistinct
  <2>3. Passing'
    BY <1>4, <2>1, <2>2, <1>1 DEF Passing
  <2>4. Filling'
    BY <1>4 DEF Filling
  <2> QED BY <1>2, <2>3, <2>4 DEF StoreInv
<1>5. CASE UNCHANGED <<phase, have, scope, window, stats>>
  <2>1. CurScope' = CurScope /\ CurDraft' = CurDraft /\ Seen' = Seen /\ Passed' = Passed
    BY <1>5 DEF CurScope, CurDraft, Seen, Passed
  <2>2. Passing'
    BY <1>5, <1>1, <2>1 DEF StoreInv, Passing
  <2>3. Filling'
    BY <1>5, <1>1, <2>1 DEF StoreInv, Filling, Holds
  <2> QED BY <1>2, <2>2, <2>3 DEF StoreInv
<1> QED BY <1>3, <1>4, <1>5 DEF Outside

\* The scope at hand is not marked yet, and is not one that was passed by.
LEMMA AtHand ==
  StoreInv /\ phase \in IngestPhases /\ scope <= Len(ScopeOrder) /\ CurScope \notin have =>
    /\ CurScope \in Scopes /\ CurScope \notin ingested
    /\ scope \in 1..Len(ScopeOrder) /\ Len(ScopeOrder) \in Nat
    /\ Windows[CurScope] \in Seq(Drafts) /\ Len(Windows[CurScope]) \in Nat
<1> SUFFICES ASSUME StoreInv, phase \in IngestPhases, scope <= Len(ScopeOrder), CurScope \notin have
             PROVE  /\ CurScope \in Scopes /\ CurScope \notin ingested
                    /\ scope \in 1..Len(ScopeOrder) /\ Len(ScopeOrder) \in Nat
                    /\ Windows[CurScope] \in Seq(Drafts) /\ Len(Windows[CurScope]) \in Nat
  OBVIOUS
<1>1. Len(ScopeOrder) \in Nat /\ DOMAIN ScopeOrder = 1..Len(ScopeOrder)
  BY BenchDistinct, LenProperties, Zenon
<1>2. scope \in 1..(Len(ScopeOrder) + 1) /\ ingested = have \cup Passed
  BY DEF StoreInv, Passing
<1>3. scope \in 1..Len(ScopeOrder)
  BY <1>1, <1>2
<1>4. CurScope \in Scopes
  BY <1>1, <1>3, Zenon DEF CurScope, Scopes, SeqElems
<1>5. CurScope \notin Passed
  <2>1. ASSUME NEW k \in 1..(scope - 1) PROVE ScopeOrder[k] # CurScope
    <3>1. k \in 1..Len(ScopeOrder) /\ k # scope
      BY <1>1, <1>3
    <3> QED BY <3>1, <1>1, <1>3, BenchDistinct, Zenon DEF CurScope
  <2> QED BY <2>1, Zenon DEF Passed
<1>6. Windows[CurScope] \in Seq(Drafts)
  BY <1>4, BenchDistinct, Zenon
<1>7. Len(Windows[CurScope]) \in Nat
  BY <1>6, LenProperties, Zenon
<1> QED BY <1>1, <1>2, <1>3, <1>4, <1>5, <1>6, <1>7

\* The window at hand was not seen before.
LEMMA DraftAtHand ==
  ASSUME CurScope \in Scopes, window \in 1..Len(Windows[CurScope])
  PROVE  /\ CurDraft \in Drafts /\ CurDraft \notin Seen
         /\ Seen \cup {CurDraft} = {Windows[CurScope][k] : k \in 1..window}
<1>1. /\ Len(Windows[CurScope]) \in Nat /\ DOMAIN Windows[CurScope] = 1..Len(Windows[CurScope])
  BY BenchDistinct, LenProperties, Zenon
<1>2. CurDraft \in Drafts
  BY <1>1, BenchDistinct, ElementOfSeq, Zenon DEF CurDraft
<1>3. CurDraft \notin Seen
  <2>1. ASSUME NEW k \in 1..(window - 1) PROVE Windows[CurScope][k] # CurDraft
    <3>1. k \in 1..Len(Windows[CurScope]) /\ k # window
      BY <1>1
    <3> QED BY <3>1, <1>1, BenchDistinct, Zenon DEF CurDraft
  <2> QED BY <2>1, Zenon DEF Seen
<1>4. Seen \cup {CurDraft} = {Windows[CurScope][k] : k \in 1..window}
  <2>1. \A k : k \in 1..window <=> (k \in 1..(window - 1) \/ k = window)
    BY <1>1
  <2> QED BY <2>1 DEF Seen, CurDraft
<1> QED BY <1>2, <1>3, <1>4

\* A step that touches no other scope keeps what is marked.
OnlyHere ==
  /\ \A s \in Scopes \ {CurScope} :
       landed'[s] = landed[s] /\ parked'[s] = parked[s] /\ (s \in edgeRows' <=> s \in edgeRows)
  /\ UNCHANGED <<ingested, rowOf>>

LEMMA MarkedKept ==
  StoreInv /\ CurScope \notin ingested /\ OnlyHere => IngestExact'
<1> SUFFICES ASSUME StoreInv, CurScope \notin ingested, OnlyHere,
                    NEW s \in ingested'
             PROVE  (LET row == rowOf[s]
                         kept == row.written \cup row.merged
                     IN /\ kept \cap row.failed = {}
                        /\ \A d \in Drafts :
                             /\ landed[s][d] = (IF d \in kept THEN 1 ELSE 0)
                             /\ parked[s][d] <= (IF d \in row.failed THEN 1 ELSE 0)
                        /\ s \in edgeRows => row.written # {})'
  BY DEF IngestExact
<1>1. s \in ingested /\ s \in Scopes \ {CurScope}
  BY DEF StoreInv, StoreTyped, OnlyHere
<1>2. /\ landed'[s] = landed[s] /\ parked'[s] = parked[s] /\ (s \in edgeRows' <=> s \in edgeRows)
      /\ rowOf' = rowOf
  BY <1>1 DEF OnlyHere
<1> QED BY <1>1, <1>2 DEF StoreInv, IngestExact

LEMMA HangingKept ==
  ASSUME StoreInv, OnlyHere, edgeRows' \subseteq Scopes,
         CurScope \in edgeRows' => \E d \in Drafts : landed'[CurScope][d] # 0
  PROVE  Hanging'
<1> SUFFICES ASSUME NEW s \in edgeRows' PROVE \E d \in Drafts : landed'[s][d] # 0
  BY DEF Hanging
<1>1. CASE s = CurScope
  BY <1>1
<1>2. CASE s # CurScope
  BY <1>2 DEF OnlyHere, StoreInv, Hanging
<1> QED BY <1>1, <1>2

LEMMA SkipStep == StoreInv /\ IngestSkip => StoreInv'
<1> SUFFICES ASSUME StoreInv, IngestSkip PROVE StoreInv' OBVIOUS
<1>1. UNCHANGED <<landed, parked, edgeRows, ingested, rowOf, stats, have>> /\ phase' = "ingest" /\ phase = "ingest"
  BY DEF IngestSkip, storeVars, diskVars
<1>2. StoreTyped' /\ Hanging' /\ IngestExact'
  BY <1>1 DEF StoreInv, StoreTyped, Hanging, IngestExact
<1>3. Filling'
  BY <1>1 DEF Filling
<1>4. Len(ScopeOrder) \in Nat /\ scope \in 1..(Len(ScopeOrder) + 1) /\ ingested = have \cup Passed
  BY <1>1, BenchDistinct, LenProperties DEF StoreInv, Passing, IngestPhases
<1>5. scope' = scope + 1 /\ scope <= Len(ScopeOrder) /\ CurScope \in have
  BY DEF IngestSkip
<1>6. Passed' = Passed \cup {CurScope}
  <2>1. \A k : k \in 1..(scope' - 1) <=> (k \in 1..(scope - 1) \/ k = scope)
    BY <1>4, <1>5
  <2> QED BY <2>1 DEF Passed, CurScope
<1>7. Passing'
  BY <1>1, <1>4, <1>5, <1>6 DEF Passing
<1> QED BY <1>2, <1>3, <1>7 DEF StoreInv

\* Steps that move on within a scope leave what was passed as it is.
LEMMA PassingKept ==
  ASSUME StoreInv, phase \in IngestPhases, phase' \in IngestPhases \ {"ingest"},
         UNCHANGED <<scope, have, ingested>>, scope <= Len(ScopeOrder), CurScope \notin have
  PROVE  Passing'
<1>1. Passed' = Passed /\ CurScope' = CurScope
  BY DEF Passed, CurScope
<1>2. scope \in 1..(Len(ScopeOrder) + 1) /\ ingested = have \cup Passed
  BY DEF StoreInv, Passing
<1> QED BY <1>1, <1>2 DEF Passing

LEMMA ClearParkedStep == StoreInv /\ ClearParked => StoreInv'
<1> SUFFICES ASSUME StoreInv, ClearParked PROVE StoreInv' OBVIOUS
<1>1. /\ phase = "ingest" /\ phase \in IngestPhases /\ scope <= Len(ScopeOrder) /\ CurScope \notin have
      /\ phase' \in {"extract", "clearEdges"}
      /\ phase' = "extract" => \A d \in Drafts : landed[CurScope][d] = 0
      /\ UNCHANGED <<landed, edgeRows, ingested, rowOf, scope, have>>
      /\ parked' = [parked EXCEPT ![CurScope] = [d \in Drafts |-> 0]]
      /\ window' = 1 /\ stats' = NoStats
  BY DEF ClearParked, diskVars, IngestPhases
<1>2. /\ CurScope \in Scopes /\ CurScope \notin ingested
      /\ Windows[CurScope] \in Seq(Drafts) /\ Len(Windows[CurScope]) \in Nat
  BY <1>1, AtHand
<1>3. StoreTyped'
  BY <1>1, <1>2 DEF StoreInv, StoreTyped, StatRows, NoStats
<1>4. OnlyHere
  BY <1>1, <1>2 DEF StoreInv, StoreTyped, OnlyHere
<1>5. Hanging'
  BY <1>1 DEF StoreInv, Hanging
<1>6. Passing'
  BY <1>1, PassingKept DEF IngestPhases
<1>7. CurScope' = CurScope /\ \A d \in Drafts : parked'[CurScope][d] = 0
  BY <1>1, <1>2 DEF CurScope, StoreInv, StoreTyped
<1>8. Filling'
  <2>1. CASE phase' = "clearEdges"
    BY <2>1, <1>1, <1>7 DEF Filling
  <2>2. CASE phase' = "extract"
    <3>1. CurScope \notin edgeRows
      BY <2>2, <1>1 DEF StoreInv, Hanging
    <3>2. Holds(CurScope, NoStats, {})'
      BY <2>2, <1>1, <1>7 DEF Holds, NoStats
    <3> QED BY <2>2, <3>1, <3>2, <1>1, <1>2, <1>7 DEF Filling, NoStats, Holds
  <2> QED BY <2>1, <2>2, <1>1
<1> QED BY <1>2, <1>3, <1>4, <1>5, <1>6, <1>8, MarkedKept DEF StoreInv

LEMMA ClearEdgesStep == StoreInv /\ ClearEdges => StoreInv'
<1> SUFFICES ASSUME StoreInv, ClearEdges PROVE StoreInv' OBVIOUS
<1>1. /\ phase = "clearEdges" /\ phase' = "clearNodes" /\ edgeRows' = edgeRows \ {CurScope}
      /\ UNCHANGED <<landed, parked, ingested, rowOf, scope, have, window, stats>>
  BY DEF ClearEdges, diskVars
<1>2. scope <= Len(ScopeOrder) /\ CurScope \notin have
  BY <1>1 DEF StoreInv, Passing, IngestPhases
<1>3. CurScope \in Scopes /\ CurScope \notin ingested
  BY <1>1, <1>2, AtHand DEF IngestPhases
<1>4. StoreTyped'
  BY <1>1 DEF StoreInv, StoreTyped
<1>5. OnlyHere
  BY <1>1 DEF OnlyHere
<1>6. Hanging'
  BY <1>1 DEF StoreInv, Hanging
<1>7. Passing'
  BY <1>1, <1>2, PassingKept DEF IngestPhases
<1>8. Filling'
  BY <1>1 DEF StoreInv, Filling, CurScope
<1> QED BY <1>3, <1>4, <1>5, <1>6, <1>7, <1>8, MarkedKept DEF StoreInv

LEMMA ClearNodesStep == StoreInv /\ ClearNodes => StoreInv'
<1> SUFFICES ASSUME StoreInv, ClearNodes PROVE StoreInv' OBVIOUS
<1>1. /\ phase = "clearNodes" /\ phase' = "extract"
      /\ landed' = [landed EXCEPT ![CurScope] = [d \in Drafts |-> 0]]
      /\ UNCHANGED <<parked, edgeRows, ingested, rowOf, scope, have, window, stats>>
  BY DEF ClearNodes, diskVars
<1>2. scope <= Len(ScopeOrder) /\ CurScope \notin have
  BY <1>1 DEF StoreInv, Passing, IngestPhases
<1>3. CurScope \in Scopes /\ CurScope \notin ingested /\ Len(Windows[CurScope]) \in Nat
  BY <1>1, <1>2, AtHand DEF IngestPhases
<1>4. StoreTyped'
  BY <1>1, <1>3 DEF StoreInv, StoreTyped
<1>5. OnlyHere
  BY <1>1 DEF StoreInv, StoreTyped, OnlyHere
<1>6. /\ CurScope \notin edgeRows /\ \A d \in Drafts : parked[CurScope][d] = 0
      /\ window = 1 /\ stats = NoStats
  BY <1>1 DEF StoreInv, Filling
<1>7. Hanging'
  BY <1>1, <1>4, <1>5, <1>6, HangingKept DEF StoreTyped
<1>8. Passing'
  BY <1>1, <1>2, PassingKept DEF IngestPhases
<1>9. CurScope' = CurScope /\ \A d \in Drafts : landed'[CurScope][d] = 0 /\ parked'[CurScope][d] = 0
  BY <1>1, <1>3, <1>6 DEF CurScope, StoreInv, StoreTyped
<1>10. Filling'
  BY <1>1, <1>3, <1>6, <1>9 DEF Filling, NoStats, Holds
<1> QED BY <1>3, <1>4, <1>5, <1>7, <1>8, <1>10, MarkedKept DEF StoreInv

\* Where a step of a window starts from.
LEMMA WindowAtHand ==
  StoreInv /\ phase \in {"extract", "write", "resolve", "mark"} =>
    /\ scope <= Len(ScopeOrder) /\ CurScope \notin have
    /\ CurScope \in Scopes /\ CurScope \notin ingested /\ Len(Windows[CurScope]) \in Nat
    /\ window \in 1..(Len(Windows[CurScope]) + 1)
    /\ phase \in {"write", "resolve"} => window \in 1..Len(Windows[CurScope])
<1> SUFFICES ASSUME StoreInv, phase \in {"extract", "write", "resolve", "mark"}
             PROVE  /\ scope <= Len(ScopeOrder) /\ CurScope \notin have
                    /\ CurScope \in Scopes /\ CurScope \notin ingested /\ Len(Windows[CurScope]) \in Nat
                    /\ window \in 1..(Len(Windows[CurScope]) + 1)
                    /\ phase \in {"write", "resolve"} => window \in 1..Len(Windows[CurScope])
  OBVIOUS
<1>1. scope <= Len(ScopeOrder) /\ CurScope \notin have
  BY DEF StoreInv, Passing, IngestPhases
<1>2. CurScope \in Scopes /\ CurScope \notin ingested /\ Len(Windows[CurScope]) \in Nat
  BY <1>1, AtHand DEF IngestPhases
<1>3. /\ window \in 1..(Len(Windows[CurScope]) + 1)
      /\ phase \in {"write", "resolve"} => window <= Len(Windows[CurScope])
  BY DEF StoreInv, Filling
<1> QED BY <1>1, <1>2, <1>3

LEMMA ExtractOkStep == StoreInv /\ ExtractOk => StoreInv'
<1> SUFFICES ASSUME StoreInv, ExtractOk PROVE StoreInv' OBVIOUS
<1>1. /\ phase = "extract" /\ window <= Len(Windows[CurScope]) /\ phase' = "write"
      /\ UNCHANGED <<landed, parked, edgeRows, ingested, rowOf, scope, have, window, stats>>
  BY DEF ExtractOk, diskVars, storeVars
<1>2. scope <= Len(ScopeOrder) /\ CurScope \notin have
  BY <1>1, WindowAtHand
<1>3. StoreTyped' /\ Hanging' /\ IngestExact'
  BY <1>1 DEF StoreInv, StoreTyped, Hanging, IngestExact
<1>4. Passing'
  BY <1>1, <1>2, PassingKept DEF IngestPhases
<1>5. CurScope' = CurScope /\ Seen' = Seen
  BY <1>1 DEF CurScope, Seen
<1>6. Filling'
  BY <1>1, <1>5 DEF StoreInv, Filling, Holds
<1> QED BY <1>3, <1>4, <1>6 DEF StoreInv

\* A window is done with: what it counts is what it did to its draft.
LEMMA WindowDone ==
  ASSUME StoreInv, phase \in {"extract", "write", "resolve"}, phase' = "extract",
         window \in 1..Len(Windows[CurScope]), window' = window + 1, scope' = scope,
         CurScope \notin edgeRows', stats' \in StatRows,
         stats'.written \cup stats'.merged \cup stats'.failed \subseteq Seen \cup {CurDraft},
         Holds(CurScope, stats, {})'
  PROVE  Filling'
<1>1. CurScope' = CurScope
  BY DEF CurScope
<1>2. CurScope \in Scopes /\ Len(Windows[CurScope]) \in Nat
  BY WindowAtHand
<1>3. Seen' = Seen \cup {CurDraft}
  BY <1>1, <1>2, DraftAtHand DEF Seen
<1>4. window' \in 1..(Len(Windows[CurScope]) + 1)
  BY <1>2
<1> QED BY <1>1, <1>3, <1>4 DEF Filling

LEMMA ExtractFailsStep == StoreInv /\ ExtractFails => StoreInv'
<1> SUFFICES ASSUME StoreInv, ExtractFails PROVE StoreInv' OBVIOUS
<1>1. /\ phase = "extract" /\ window <= Len(Windows[CurScope]) /\ phase' = "extract"
      /\ window' = window + 1
      /\ UNCHANGED <<landed, parked, edgeRows, ingested, rowOf, scope, have, stats>>
  BY DEF ExtractFails, diskVars, storeVars
<1>2. /\ scope <= Len(ScopeOrder) /\ CurScope \notin have
      /\ window \in 1..Len(Windows[CurScope])
  BY <1>1, WindowAtHand
<1>3. StoreTyped' /\ Hanging' /\ IngestExact'
  BY <1>1 DEF StoreInv, StoreTyped, Hanging, IngestExact
<1>4. Passing'
  BY <1>1, <1>2, PassingKept DEF IngestPhases
<1>5. /\ CurScope \notin edgeRows' /\ stats' \in StatRows
      /\ stats'.written \cup stats'.merged \cup stats'.failed \subseteq Seen \cup {CurDraft}
  BY <1>1 DEF StoreInv, StoreTyped, Filling
<1>6. CurScope' = CurScope
  BY <1>1 DEF CurScope
<1>7. Holds(CurScope, stats, {})'
  BY <1>1, <1>6 DEF StoreInv, Filling, Holds
<1>8. Filling'
  BY <1>1, <1>2, <1>5, <1>7, WindowDone
<1> QED BY <1>3, <1>4, <1>8 DEF StoreInv

\* What is known of the draft at hand before it is written.
LEMMA Unwritten ==
  StoreInv /\ phase \in {"write", "resolve"} =>
    /\ CurDraft \in Drafts
    /\ landed[CurScope][CurDraft] = 0
    /\ parked[CurScope][CurDraft] = IF phase = "write" THEN 0 ELSE 1
    /\ CurDraft \notin stats.written \cup stats.merged \cup stats.failed
<1> SUFFICES ASSUME StoreInv, phase \in {"write", "resolve"}
             PROVE  /\ CurDraft \in Drafts
                    /\ landed[CurScope][CurDraft] = 0
                    /\ parked[CurScope][CurDraft] = IF phase = "write" THEN 0 ELSE 1
                    /\ CurDraft \notin stats.written \cup stats.merged \cup stats.failed
  OBVIOUS
<1>1. CurScope \in Scopes /\ window \in 1..Len(Windows[CurScope])
  BY WindowAtHand
<1>2. CurDraft \in Drafts /\ CurDraft \notin Seen
  BY <1>1, DraftAtHand
<1>3. stats.written \cup stats.merged \cup stats.failed \subseteq Seen
  BY DEF StoreInv, Filling
<1>4. landed[CurScope][CurDraft] = 0 /\ (phase = "write" => parked[CurScope][CurDraft] <= 0)
  BY <1>2, <1>3 DEF StoreInv, Filling, Holds
<1>5. parked[CurScope][CurDraft] \in Nat
  BY <1>1, <1>2 DEF StoreInv, StoreTyped
<1>6. phase = "resolve" => parked[CurScope][CurDraft] = 1
  BY DEF StoreInv, Filling
<1> QED BY <1>2, <1>3, <1>4, <1>5, <1>6

\* A draft becomes a row, whether it was parked on its way or not.
LEMMA StoredStep ==
  StoreInv /\ (\E f \in {"written", "merged"} : WriteStored(f) \/ ResolveParked(f)) => StoreInv'
<1> SUFFICES ASSUME StoreInv, NEW f \in {"written", "merged"}, WriteStored(f) \/ ResolveParked(f)
             PROVE  StoreInv'
  OBVIOUS
<1>1. /\ phase \in {"write", "resolve"} /\ phase' = "extract" /\ window' = window + 1
      /\ landed' = [landed EXCEPT ![CurScope][CurDraft] = @ + 1]
      /\ \/ parked' = parked /\ phase = "write"
         \/ parked' = [parked EXCEPT ![CurScope][CurDraft] = @ - 1] /\ phase = "resolve"
      /\ stats' = [stats EXCEPT ![f] = @ \cup {CurDraft}]
      /\ UNCHANGED <<edgeRows, ingested, rowOf, scope, have>>
  BY DEF WriteStored, ResolveParked, Count, NextWindow, diskVars
<1>2. /\ scope <= Len(ScopeOrder) /\ CurScope \notin have /\ CurScope \in Scopes
      /\ CurScope \notin ingested /\ window \in 1..Len(Windows[CurScope])
  BY <1>1, WindowAtHand
<1>3. /\ CurDraft \in Drafts
      /\ landed[CurScope][CurDraft] = 0
      /\ parked[CurScope][CurDraft] = IF phase = "write" THEN 0 ELSE 1
      /\ CurDraft \notin stats.written \cup stats.merged \cup stats.failed
  BY <1>1, Unwritten
<1>4. /\ landed \in [Scopes -> [Drafts -> Nat]] /\ parked \in [Scopes -> [Drafts -> Nat]]
      /\ stats \in StatRows
  BY DEF StoreInv, StoreTyped
\* The rows after the step, draft by draft.
<1>5. /\ landed'[CurScope][CurDraft] = 1 /\ parked'[CurScope][CurDraft] = 0
      /\ \A d \in Drafts \ {CurDraft} : /\ landed'[CurScope][d] = landed[CurScope][d]
                                        /\ parked'[CurScope][d] = parked[CurScope][d]
  BY <1>1, <1>2, <1>3, <1>4
<1>6. /\ stats'.written \cup stats'.merged = stats.written \cup stats.merged \cup {CurDraft}
      /\ stats'.failed = stats.failed /\ stats' \in StatRows
  BY <1>1, <1>3, <1>4 DEF StatRows
<1>7. landed' \in [Scopes -> [Drafts -> Nat]] /\ parked' \in [Scopes -> [Drafts -> Nat]]
  <2>1. \A row \in [Drafts -> Nat], n \in Nat : [row EXCEPT ![CurDraft] = n] \in [Drafts -> Nat]
    OBVIOUS
  <2>2. landed[CurScope] \in [Drafts -> Nat] /\ parked[CurScope] \in [Drafts -> Nat]
    BY <1>2, <1>4
  <2>3. landed' = [landed EXCEPT ![CurScope] = [landed[CurScope] EXCEPT ![CurDraft] = 1]]
    BY <1>1, <1>3
  <2>4. parked' = parked \/ parked' = [parked EXCEPT ![CurScope] = [parked[CurScope] EXCEPT ![CurDraft] = 0]]
    BY <1>1, <1>3
  <2>5. landed' \in [Scopes -> [Drafts -> Nat]]
    BY <2>1, <2>2, <2>3, <1>4
  <2>6. parked' \in [Scopes -> [Drafts -> Nat]]
    BY <2>1, <2>2, <2>4, <1>4
  <2> QED BY <2>5, <2>6
<1>8. StoreTyped'
  BY <1>1, <1>6, <1>7 DEF StoreInv, StoreTyped
<1>9. OnlyHere
  BY <1>1, <1>4 DEF OnlyHere
<1>10. Hanging'
  BY <1>3, <1>5, <1>8, <1>9, HangingKept DEF StoreTyped
<1>11. Passing'
  BY <1>1, <1>2, PassingKept DEF IngestPhases
<1>12. Holds(CurScope, stats, IF phase = "resolve" THEN {CurDraft} ELSE {})
  BY <1>1 DEF StoreInv, Filling
<1>13. CurScope' = CurScope
  BY <1>1 DEF CurScope
<1>14. Holds(CurScope, stats, {})'
  <2>1. (stats'.written \cup stats'.merged) \cap stats'.failed = {}
    BY <1>3, <1>6, <1>12 DEF Holds
  <2>2. ASSUME NEW d \in Drafts
        PROVE  /\ landed'[CurScope][d] = (IF d \in stats'.written \cup stats'.merged THEN 1 ELSE 0)
               /\ parked'[CurScope][d] <= (IF d \in stats'.failed THEN 1 ELSE 0)
    <3>1. CASE d = CurDraft
      BY <3>1, <1>3, <1>5, <1>6
    <3>2. CASE d # CurDraft
      BY <3>2, <1>5, <1>6, <1>12 DEF Holds
    <3> QED BY <3>1, <3>2
  <2> QED BY <2>1, <2>2, <1>13 DEF Holds
<1>15. /\ stats'.written \cup stats'.merged \cup stats'.failed \subseteq Seen \cup {CurDraft}
       /\ CurScope \notin edgeRows'
  BY <1>1, <1>6 DEF StoreInv, Filling
<1>16. Filling'
  BY <1>1, <1>2, <1>6, <1>14, <1>15, WindowDone
<1> QED BY <1>2, <1>8, <1>9, <1>10, <1>11, <1>16, MarkedKept DEF StoreInv

LEMMA ParkedStep == StoreInv /\ WriteParked => StoreInv'
<1> SUFFICES ASSUME StoreInv, WriteParked PROVE StoreInv' OBVIOUS
<1>1. /\ phase = "write" /\ phase' = "resolve"
      /\ parked' = [parked EXCEPT ![CurScope][CurDraft] = @ + 1]
      /\ UNCHANGED <<landed, edgeRows, ingested, rowOf, scope, have, window, stats>>
  BY DEF WriteParked, diskVars
<1>2. /\ scope <= Len(ScopeOrder) /\ CurScope \notin have /\ CurScope \in Scopes
      /\ CurScope \notin ingested
  BY <1>1, WindowAtHand
<1>3. CurDraft \in Drafts /\ parked[CurScope][CurDraft] = 0
  BY <1>1, Unwritten
<1>4. parked \in [Scopes -> [Drafts -> Nat]]
  BY DEF StoreInv, StoreTyped
<1>5. /\ parked'[CurScope][CurDraft] = 1 /\ parked' \in [Scopes -> [Drafts -> Nat]]
      /\ \A d \in Drafts \ {CurDraft} : parked'[CurScope][d] = parked[CurScope][d]
  BY <1>1, <1>2, <1>3, <1>4
<1>6. StoreTyped'
  BY <1>1, <1>5 DEF StoreInv, StoreTyped
<1>7. OnlyHere
  BY <1>1, <1>4 DEF OnlyHere
<1>8. Hanging'
  BY <1>1 DEF StoreInv, Hanging
<1>9. Passing'
  BY <1>1, <1>2, PassingKept DEF IngestPhases
<1>10. CurScope' = CurScope /\ CurDraft' = CurDraft /\ Seen' = Seen
  BY <1>1 DEF CurScope, CurDraft, Seen
<1>11. Holds(CurScope, stats, {})
  BY <1>1 DEF StoreInv, Filling
<1>12. Holds(CurScope, stats, {CurDraft})'
  <2>1. ASSUME NEW d \in Drafts
        PROVE  parked'[CurScope][d] <= (IF d \in stats.failed \cup {CurDraft} THEN 1 ELSE 0)
    <3>1. CASE d = CurDraft
      BY <3>1, <1>5
    <3>2. CASE d # CurDraft
      BY <3>2, <1>5, <1>11 DEF Holds
    <3> QED BY <3>1, <3>2
  <2> QED BY <2>1, <1>1, <1>10, <1>11 DEF Holds
<1>13. Filling'
  BY <1>1, <1>5, <1>10, <1>12 DEF StoreInv, Filling
<1> QED BY <1>2, <1>6, <1>7, <1>8, <1>9, <1>13, MarkedKept DEF StoreInv

LEMMA RefusedStep == StoreInv /\ WriteRefused => StoreInv'
<1> SUFFICES ASSUME StoreInv, WriteRefused PROVE StoreInv' OBVIOUS
<1>1. /\ phase \in {"write", "resolve"} /\ phase' = "extract" /\ window' = window + 1
      /\ stats' = [stats EXCEPT !["failed"] = @ \cup {CurDraft}]
      /\ UNCHANGED <<landed, parked, edgeRows, ingested, rowOf, scope, have>>
  BY DEF WriteRefused, Count, NextWindow, diskVars, storeVars
<1>2. /\ scope <= Len(ScopeOrder) /\ CurScope \notin have /\ CurScope \in Scopes
      /\ window \in 1..Len(Windows[CurScope])
  BY <1>1, WindowAtHand
<1>3. /\ CurDraft \in Drafts
      /\ landed[CurScope][CurDraft] = 0
      /\ parked[CurScope][CurDraft] = IF phase = "write" THEN 0 ELSE 1
      /\ CurDraft \notin stats.written \cup stats.merged \cup stats.failed
  BY <1>1, Unwritten
<1>4. stats \in StatRows
  BY DEF StoreInv, StoreTyped
<1>5. /\ stats'.written = stats.written /\ stats'.merged = stats.merged
      /\ stats'.failed = stats.failed \cup {CurDraft} /\ stats' \in StatRows
  BY <1>1, <1>3, <1>4 DEF StatRows
<1>6. StoreTyped' /\ Hanging' /\ IngestExact'
  BY <1>1, <1>5 DEF StoreInv, StoreTyped, Hanging, IngestExact
<1>7. Passing'
  BY <1>1, <1>2, PassingKept DEF IngestPhases
<1>8. Holds(CurScope, stats, IF phase = "resolve" THEN {CurDraft} ELSE {})
  BY <1>1 DEF StoreInv, Filling
<1>9. CurScope' = CurScope
  BY <1>1 DEF CurScope
<1>10. Holds(CurScope, stats, {})'
  <2>1. ASSUME NEW d \in Drafts
        PROVE  parked[CurScope][d] <= (IF d \in stats'.failed THEN 1 ELSE 0)
    <3>1. CASE d = CurDraft
      BY <3>1, <1>3, <1>5
    <3>2. CASE d # CurDraft
      BY <3>2, <1>5, <1>8 DEF Holds
    <3> QED BY <3>1, <3>2
  <2>2. (stats'.written \cup stats'.merged) \cap stats'.failed = {}
    BY <1>3, <1>5, <1>8 DEF Holds
  <2>3. \A d \in Drafts : landed[CurScope][d] = (IF d \in stats'.written \cup stats'.merged THEN 1 ELSE 0)
    BY <1>5, <1>8 DEF Holds
  <2> QED BY <2>1, <2>2, <2>3, <1>1, <1>9 DEF Holds
<1>11. /\ stats'.written \cup stats'.merged \cup stats'.failed \subseteq Seen \cup {CurDraft}
       /\ CurScope \notin edgeRows'
  BY <1>1, <1>5 DEF StoreInv, Filling
<1>12. Filling'
  BY <1>1, <1>2, <1>5, <1>10, <1>11, WindowDone
<1> QED BY <1>6, <1>7, <1>12 DEF StoreInv

LEMMA AttachStep == StoreInv /\ AttachEdges => StoreInv'
<1> SUFFICES ASSUME StoreInv, AttachEdges PROVE StoreInv' OBVIOUS
<1>1. /\ phase = "extract" /\ phase' = "mark"
      /\ \/ edgeRows' = edgeRows
         \/ edgeRows' = edgeRows \cup {CurScope} /\ stats.written # {}
      /\ UNCHANGED <<landed, parked, ingested, rowOf, scope, have, window, stats>>
  BY DEF AttachEdges, diskVars
<1>2. /\ scope <= Len(ScopeOrder) /\ CurScope \notin have /\ CurScope \in Scopes
      /\ CurScope \notin ingested
  BY <1>1, WindowAtHand
<1>3. StoreTyped'
  BY <1>1, <1>2 DEF StoreInv, StoreTyped
<1>4. OnlyHere
  BY <1>1 DEF OnlyHere
<1>5. Holds(CurScope, stats, {}) /\ CurScope \notin edgeRows /\ stats \in StatRows
  BY <1>1 DEF StoreInv, StoreTyped, Filling
\* Edges hang from a draft the scope counts as a row of its own.
<1>6. CurScope \in edgeRows' => stats.written # {} /\ \E d \in Drafts : landed'[CurScope][d] # 0
  BY <1>1, <1>5 DEF Holds, StatRows
<1>7. Hanging'
  BY <1>3, <1>4, <1>6, HangingKept DEF StoreTyped
<1>8. Passing'
  BY <1>1, <1>2, PassingKept DEF IngestPhases
<1>9. CurScope' = CurScope /\ Seen' = Seen
  BY <1>1 DEF CurScope, Seen
<1>10. Filling'
  BY <1>1, <1>6, <1>9 DEF StoreInv, Filling, Holds
<1> QED BY <1>2, <1>3, <1>4, <1>7, <1>8, <1>10, MarkedKept DEF StoreInv

LEMMA MarkStep == StoreInv /\ MarkIngested => StoreInv'
<1> SUFFICES ASSUME StoreInv, MarkIngested PROVE StoreInv' OBVIOUS
<1>1. /\ phase = "mark" /\ phase' = "ingest" /\ scope' = scope + 1
      /\ ingested' = ingested \cup {CurScope} /\ rowOf' = [rowOf EXCEPT ![CurScope] = stats]
      /\ UNCHANGED <<landed, parked, edgeRows, have, window, stats>>
  BY DEF MarkIngested, storeVars
<1>2. /\ scope <= Len(ScopeOrder) /\ CurScope \in Scopes /\ CurScope \notin ingested
  BY <1>1, WindowAtHand
<1>3. rowOf \in [Scopes -> StatRows] /\ stats \in StatRows
  BY DEF StoreInv, StoreTyped
<1>4. StoreTyped'
  BY <1>1, <1>2, <1>3 DEF StoreInv, StoreTyped
<1>5. Hanging'
  BY <1>1 DEF StoreInv, Hanging
<1>6. Filling'
  BY <1>1 DEF Filling
<1>7. Passing'
  <2>1. Len(ScopeOrder) \in Nat /\ scope \in 1..(Len(ScopeOrder) + 1) /\ ingested = have \cup Passed
    BY <1>1, BenchDistinct, LenProperties DEF StoreInv, Passing, IngestPhases
  <2>2. Passed' = Passed \cup {CurScope}
    <3>1. \A k : k \in 1..(scope' - 1) <=> (k \in 1..(scope - 1) \/ k = scope)
      BY <2>1, <1>1, <1>2
    <3> QED BY <3>1 DEF Passed, CurScope
  <2> QED BY <2>1, <2>2, <1>1, <1>2 DEF Passing
<1>8. IngestExact'
  <2>1. Holds(CurScope, stats, {}) /\ (CurScope \in edgeRows => stats.written # {})
    BY <1>1 DEF StoreInv, Filling
  <2>2. rowOf'[CurScope] = stats /\ \A s \in Scopes \ {CurScope} : rowOf'[s] = rowOf[s]
    BY <1>1, <1>2, <1>3
  <2>3. ingested \subseteq Scopes
    BY DEF StoreInv, StoreTyped
  <2>4. ASSUME NEW s \in ingested'
        PROVE  (LET row == rowOf[s]
                    kept == row.written \cup row.merged
                IN /\ kept \cap row.failed = {}
                   /\ \A d \in Drafts :
                        /\ landed[s][d] = (IF d \in kept THEN 1 ELSE 0)
                        /\ parked[s][d] <= (IF d \in row.failed THEN 1 ELSE 0)
                   /\ s \in edgeRows => row.written # {})'
    <3>1. CASE s = CurScope
      BY <3>1, <1>1, <2>1, <2>2 DEF Holds
    <3>2. CASE s # CurScope
      BY <3>2, <1>1, <2>2, <2>3 DEF StoreInv, IngestExact
    <3> QED BY <3>1, <3>2
  <2> QED BY <2>4 DEF IngestExact
<1> QED BY <1>4, <1>5, <1>6, <1>7, <1>8 DEF StoreInv

LEMMA StoreStep == Supervised /\ StoreInv /\ [BenchNext]_benchVars => StoreInv'
<1> SUFFICES ASSUME Supervised, StoreInv, [BenchNext]_benchVars PROVE StoreInv' OBVIOUS
<1>1. CASE Ingest
  BY <1>1, SkipStep, ClearParkedStep, ClearEdgesStep, ClearNodesStep, ExtractOkStep,
     ExtractFailsStep, ParkedStep, RefusedStep, StoredStep, AttachStep, MarkStep, Zenon DEF Ingest
<1>2. CASE NotIngest
  BY <1>2, OutsideIngest, OutsideKeeps DEF StoreInv
<1> QED BY <1>1, <1>2 DEF BenchNext, Unattended, Supervising, NotIngest

-----------------------------------------------------------------------------
(* The answers and the verdicts.                                           *)

LEMMA ArmCellsFacts ==
  /\ Len(ArmCells) \in Nat /\ DOMAIN ArmCells = 1..Len(ArmCells)
  /\ \A a \in DOMAIN ArmCells : ArmCells[a] \subseteq Cells
  /\ Cells = UNION {ArmCells[a] : a \in DOMAIN ArmCells}
  /\ \A a \in DOMAIN ArmCells : ArmRows(a) \subseteq Rows
<1>1. Len(ArmCells) \in Nat /\ DOMAIN ArmCells = 1..Len(ArmCells)
  BY BenchDistinct, LenProperties, Zenon
<1>2. Cells = UNION {ArmCells[a] : a \in DOMAIN ArmCells}
  BY Zenon DEF Cells, SeqElems
<1>3. \A a \in DOMAIN ArmCells : ArmRows(a) \subseteq Rows
  BY <1>1, <1>2 DEF ArmRows, Rows
<1> QED BY <1>1, <1>2, <1>3

\* What is done stays done where the files do.
LEMMA SameFiles ==
  ASSUME UNCHANGED <<answers, verdicts>>
  PROVE  /\ AnswerRows' = AnswerRows /\ GradedRows' = GradedRows
         /\ Answered' = Answered /\ Graded' = Graded
BY DEF AnswerRows, GradedRows, Answered, Graded

\* The rows of a file are rows.
LEMMA RowsTyped ==
  /\ answers \in Seq(Rows) => AnswerRows \subseteq Rows
  /\ verdicts \in Seq(Rows) => GradedRows \subseteq Rows
BY ElementOfSeq, LenProperties DEF AnswerRows, GradedRows, SeqElems

\* A row is appended once if it was not there.
LEMMA AppendOnce ==
  ASSUME NEW s \in Seq(Rows), Once(s), NEW c \in Rows, c \notin SeqElems(s)
  PROVE  /\ Append(s, c) \in Seq(Rows) /\ Once(Append(s, c))
         /\ SeqElems(Append(s, c)) = SeqElems(s) \cup {c}
<1>1. /\ Append(s, c) \in Seq(Rows) /\ Len(Append(s, c)) = Len(s) + 1
      /\ \A i \in 1..Len(s) : Append(s, c)[i] = s[i]
      /\ Append(s, c)[Len(s) + 1] = c
  BY AppendProperties
<1>2. /\ Len(s) \in Nat /\ DOMAIN s = 1..Len(s)
      /\ DOMAIN Append(s, c) = 1..(Len(s) + 1)
  BY <1>1, LenProperties
<1>3. \A i \in 1..Len(s) : s[i] # c
  BY <1>2 DEF SeqElems
<1>4. Once(Append(s, c))
  <2>1. ASSUME NEW i \in 1..(Len(s) + 1), NEW j \in 1..(Len(s) + 1),
               Append(s, c)[i] = Append(s, c)[j]
        PROVE  i = j
    <3>1. CASE i \in 1..Len(s) /\ j \in 1..Len(s)
      BY <3>1, <2>1, <1>1, <1>2 DEF Once
    <3>2. CASE i = Len(s) + 1 \/ j = Len(s) + 1
      <4>1. Append(s, c)[i] = c /\ Append(s, c)[j] = c
        BY <3>2, <2>1, <1>1
      <4>2. i \notin 1..Len(s) /\ j \notin 1..Len(s)
        BY <4>1, <1>1, <1>3
      <4> QED BY <4>2, <1>2
    <3> QED BY <3>1, <3>2, <1>2
  <2> QED BY <2>1, <1>2 DEF Once
<1>5. SeqElems(Append(s, c)) = SeqElems(s) \cup {c}
  <2>1. \A i : i \in 1..(Len(s) + 1) <=> (i \in 1..Len(s) \/ i = Len(s) + 1)
    BY <1>2
  <2> QED BY <2>1, <1>1, <1>2 DEF SeqElems
<1> QED BY <1>1, <1>4, <1>5

\* Steps of other phases leave the rows alone, and no phase in its course.
LEMMA RowsStandStill ==
  CellsInv /\ (Ingest \/ ReportManifest \/ ReportRender \/ ReadFails \/ Kill \/ Supervising
               \/ UNCHANGED benchVars) => CellsInv'
<1> SUFFICES ASSUME CellsInv, Ingest \/ ReportManifest \/ ReportRender \/ ReadFails \/ Kill
                              \/ Supervising \/ UNCHANGED benchVars
             PROVE  CellsInv'
  OBVIOUS
<1>1. /\ UNCHANGED <<answers, verdicts>>
      /\ phase' \notin {"answer", "rule", "judge"}
         \/ UNCHANGED <<phase, arm, have, todo, calls, stop, missed>>
  <2>1. CASE Ingest
    BY <2>1 DEF Ingest, IngestSkip, ClearParked, ClearEdges, ClearNodes, ExtractOk, ExtractFails,
       WriteParked, WriteRefused, WriteStored, ResolveParked, AttachEdges, MarkIngested,
       NextWindow, diskVars
  <2>2. CASE ReportManifest
    BY <2>2 DEF ReportManifest
  <2>3. CASE ReportRender \/ ReadFails \/ Kill
    BY <2>3, EndsOf DEF Ends
  <2>4. CASE Supervising
    BY <2>4 DEF Supervising, Supervise, Launch, EndComplete, EndTransient, EndUsage, EndHalt, CycleEnds,
       Capped, Rerun, runVars, diskVars
  <2>5. CASE UNCHANGED benchVars
    BY <2>5 DEF benchVars, runVars, diskVars
  <2> QED BY <2>1, <2>2, <2>3, <2>4, <2>5
<1>2. AnswerRows' = AnswerRows /\ GradedRows' = GradedRows /\ Answered' = Answered
  BY <1>1, SameFiles
<1>3. Appended'
  BY <1>1, <1>2 DEF CellsInv, Appended
<1>4. CASE phase' \notin {"answer", "rule", "judge"}
  BY <1>3, <1>4 DEF CellsInv, Asking, Grading
<1>5. CASE UNCHANGED <<phase, arm, have, todo, calls, stop, missed>>
  BY <1>2, <1>3, <1>5 DEF CellsInv, Asking, Grading
<1> QED BY <1>1, <1>4, <1>5

LEMMA AnswerStartStep ==
  Supervised /\ CellsInv /\ AnswerStart => CellsInv'
<1> SUFFICES ASSUME Supervised, CellsInv, AnswerStart PROVE CellsInv' OBVIOUS
<1>1. /\ phase = "ingest" /\ phase' = "answer" /\ have' = Answered
      /\ arm' = 1 /\ todo' = ArmTodo(1, Answered)
      /\ UNCHANGED <<answers, verdicts, calls, stop, missed>>
  BY DEF AnswerStart, diskVars
<1>2. calls = {}
  BY <1>1 DEF Supervised, IngestPhases
<1>3. AnswerRows' = AnswerRows /\ GradedRows' = GradedRows /\ Answered' = Answered
  BY <1>1, SameFiles
<1>4. Appended' /\ Grading'
  BY <1>1, <1>3 DEF CellsInv, Appended, Grading
<1>5. todo' = IF 1 > Len(ArmCells) THEN {} ELSE {[arm |-> 1, key |-> c] : c \in ArmCells[1] \ Answered}
  BY <1>1 DEF ArmTodo
<1>6. \A r \in AnswerRows : r.key \in Answered
  BY DEF Answered
<1>7. todo' \cap AnswerRows = {}
  BY <1>5, <1>6
<1>8. todo' \subseteq IF 1 > Len(ArmCells) THEN {} ELSE ArmRows(1)
  BY <1>5 DEF ArmRows
<1>9. 1 <= Len(ArmCells) => ArmCells[1] \subseteq Answered \cup Keys(todo')
  <2>1. ASSUME 1 <= Len(ArmCells), NEW c \in ArmCells[1] \ Answered  PROVE c \in Keys(todo')
    <3>1. [arm |-> 1, key |-> c] \in todo'
      BY <1>5, <2>1, ArmCellsFacts
    <3>2. [arm |-> 1, key |-> c].key = c
      OBVIOUS
    <3> QED BY <3>1, <3>2, Zenon DEF Keys
  <2> QED BY <2>1
<1>10. \A a \in DOMAIN ArmCells : a <= 1 => a = 1 /\ 1 <= Len(ArmCells)
  BY ArmCellsFacts
<1>11. Asking'
  BY <1>1, <1>2, <1>3, <1>6, <1>7, <1>8, <1>9, <1>10, ArmCellsFacts DEF Asking, Keys, ArmRows
<1> QED BY <1>4, <1>11 DEF CellsInv

LEMMA ArmDoneStep == CellsInv /\ AnswerArmDone => CellsInv'
<1> SUFFICES ASSUME CellsInv, AnswerArmDone PROVE CellsInv' OBVIOUS
<1>1. /\ phase = "answer" /\ phase' = "answer" /\ calls = {} /\ todo = {} /\ stop = "none"
      /\ arm <= Len(ArmCells) /\ arm' = arm + 1 /\ todo' = ArmTodo(arm + 1, have)
      /\ UNCHANGED <<answers, verdicts, calls, stop, missed, have>>
  BY DEF AnswerArmDone, diskVars
<1>2. AnswerRows' = AnswerRows /\ GradedRows' = GradedRows /\ Answered' = Answered
  BY <1>1, SameFiles
<1>3. Appended' /\ Grading'
  BY <1>1, <1>2 DEF CellsInv, Appended, Grading
<1>4. todo' = IF arm + 1 > Len(ArmCells) THEN {}
              ELSE {[arm |-> arm + 1, key |-> c] : c \in ArmCells[arm + 1] \ have}
  BY <1>1 DEF ArmTodo
<1>5. /\ arm \in 1..(Len(ArmCells) + 1) /\ have \subseteq Answered
      /\ \A r \in AnswerRows : r.arm > arm => r.key \in have
      /\ \A a \in DOMAIN ArmCells : a <= arm => ArmCells[a] \subseteq Answered \cup missed
  BY <1>1 DEF CellsInv, Asking, Keys
<1>6. (todo' \cup calls') \cap AnswerRows = {}
  <2>1. \A r \in todo' : r.arm = arm + 1 /\ r.key \notin have
    BY <1>4
  <2>2. arm + 1 > arm
    BY <1>5, ArmCellsFacts
  <2> QED BY <2>1, <2>2, <1>1, <1>5
<1>7. \A a \in DOMAIN ArmCells :
         a <= arm + 1 => ArmCells[a] \subseteq Answered \cup missed \cup Keys(todo')
  <2>1. ASSUME NEW a \in DOMAIN ArmCells, a <= arm + 1
        PROVE  ArmCells[a] \subseteq Answered \cup missed \cup Keys(todo')
    <3>1. CASE a <= arm
      BY <3>1, <1>5
    <3>2. CASE a = arm + 1
      <4>1. todo' = {[arm |-> arm + 1, key |-> c] : c \in ArmCells[arm + 1] \ have}
        BY <3>2, <1>4, <1>5, ArmCellsFacts
      <4>2. ASSUME NEW c \in ArmCells[arm + 1] \ have  PROVE c \in Keys(todo')
        <5>1. [arm |-> arm + 1, key |-> c] \in todo'
          BY <4>1
        <5>2. [arm |-> arm + 1, key |-> c].key = c
          OBVIOUS
        <5> QED BY <5>1, <5>2, Zenon DEF Keys
      <4> QED BY <3>2, <4>2, <1>5
    <3> QED BY <2>1, <3>1, <3>2, <1>5, ArmCellsFacts
  <2> QED BY <2>1
<1>8. todo' \subseteq IF arm + 1 > Len(ArmCells) THEN {} ELSE ArmRows(arm + 1)
  BY <1>4 DEF ArmRows
<1>9. arm' \in 1..(Len(ArmCells) + 1) /\ \A r \in AnswerRows : r.arm > arm + 1 => r.key \in have
  <2>1. \A r \in AnswerRows : r.arm \in Nat
    BY RowsTyped DEF CellsInv, Appended, Rows
  <2> QED BY <2>1, <1>1, <1>5, ArmCellsFacts
<1>10. Asking'
  BY <1>1, <1>2, <1>5, <1>6, <1>7, <1>8, <1>9 DEF Asking, ArmRows, Keys
<1> QED BY <1>3, <1>10 DEF CellsInv

LEMMA AnswerSubmitStep == CellsInv /\ AnswerSubmit => CellsInv'
<1> SUFFICES ASSUME CellsInv, AnswerSubmit PROVE CellsInv' OBVIOUS
<1>1. PICK c \in todo : calls' = calls \cup {c} /\ todo' = todo \ {c}
  BY DEF AnswerSubmit, Submit
<1>2. /\ phase = "answer" /\ UNCHANGED <<phase, answers, verdicts, arm, have, stop, missed>>
  BY DEF AnswerSubmit, Submit, diskVars
<1>3. AnswerRows' = AnswerRows /\ GradedRows' = GradedRows /\ Answered' = Answered
  BY <1>2, SameFiles
<1>4. Appended' /\ Grading'
  BY <1>2, <1>3 DEF CellsInv, Appended, Grading
<1>5. todo' \cup calls' = todo \cup calls /\ (todo \cap calls = {} => todo' \cap calls' = {})
  BY <1>1
<1>6. Asking'
  BY <1>2, <1>3, <1>5 DEF CellsInv, Asking, ArmRows, Keys
<1> QED BY <1>4, <1>6 DEF CellsInv

\* A call that returns was in flight; what is asked of its arm is one less.
LEMMA AnswerCleanStep ==
  CellsInv /\ (\E c \in Rows : AnswerClean(c)) => CellsInv'
<1> SUFFICES ASSUME CellsInv, NEW c \in Rows, AnswerClean(c) PROVE CellsInv' OBVIOUS
<1>1. /\ phase = "answer" /\ c \in calls /\ calls' = calls \ {c}
      /\ answers' = Append(answers, c)
      /\ UNCHANGED <<phase, verdicts, arm, have, todo, stop, missed>>
  BY DEF AnswerClean, Returns
<1>2. /\ arm \in 1..(Len(ArmCells) + 1) /\ have \subseteq Answered
      /\ todo \cap calls = {} /\ (todo \cup calls) \cap AnswerRows = {}
      /\ todo \cup calls \subseteq IF arm > Len(ArmCells) THEN {} ELSE ArmRows(arm)
      /\ \A r \in AnswerRows : r.arm > arm => r.key \in have
      /\ stop = "none" => \A a \in DOMAIN ArmCells :
                             a <= arm => ArmCells[a] \subseteq Answered \cup missed \cup Keys(todo \cup calls)
  BY <1>1 DEF CellsInv, Asking
<1>3. answers' \in Seq(Rows) /\ Once(answers') /\ AnswerRows' = AnswerRows \cup {c}
  <2>1. c \notin SeqElems(answers)
    BY <1>1, <1>2 DEF AnswerRows
  <2> QED BY <2>1, <1>1, AppendOnce DEF CellsInv, Appended, AnswerRows
<1>4. GradedRows' = GradedRows /\ Answered' = Answered \cup {c.key}
  <2>1. GradedRows' = GradedRows
    BY <1>1 DEF GradedRows
  <2>2. Answered' = Answered \cup {c.key}
    BY <1>3 DEF Answered
  <2> QED BY <2>1, <2>2
<1>5. Appended' /\ Grading'
  BY <1>1, <1>3, <1>4 DEF CellsInv, Appended, Grading
<1>6. c.arm = arm
  BY <1>1, <1>2 DEF ArmRows
<1>7. \A r \in AnswerRows' : r.arm > arm => r.key \in have
  BY <1>2, <1>3, <1>6, ArmCellsFacts
<1>8. Keys(todo \cup calls) \subseteq Keys(todo' \cup calls') \cup {c.key}
  BY <1>1 DEF Keys
<1>9. /\ todo' \cap calls' = {} /\ (todo' \cup calls') \cap AnswerRows' = {}
      /\ todo' \cup calls' \subseteq todo \cup calls
  BY <1>1, <1>2, <1>3
<1>10. stop' = "none" => \A a \in DOMAIN ArmCells :
                 a <= arm => ArmCells[a] \subseteq Answered' \cup missed' \cup Keys(todo' \cup calls')
  BY <1>1, <1>2, <1>4, <1>8
<1>11. Asking'
  BY <1>1, <1>2, <1>4, <1>7, <1>9, <1>10 DEF Asking, ArmRows, Keys
<1> QED BY <1>5, <1>11 DEF CellsInv

LEMMA AnswerLostStep ==
  CellsInv /\ (\E c \in Rows : \/ AnswerQuota(c)
                                \/ \E kind \in {"error", "launch"} : AnswerFails(c, kind))
    => CellsInv'
<1> SUFFICES ASSUME CellsInv, NEW c \in Rows,
                    AnswerQuota(c) \/ \E kind \in {"error", "launch"} : AnswerFails(c, kind)
             PROVE  CellsInv'
  OBVIOUS
<1>1. /\ phase = "answer" /\ c \in calls /\ calls' = calls \ {c}
      /\ UNCHANGED <<phase, answers, verdicts, arm, have, todo>>
      /\ stop' = "none" => stop = "none" /\ missed' = missed \cup {c.key}
  BY DEF AnswerQuota, AnswerFails, Returns
<1>2. AnswerRows' = AnswerRows /\ GradedRows' = GradedRows /\ Answered' = Answered
  BY <1>1, SameFiles
<1>3. Appended' /\ Grading'
  BY <1>1, <1>2 DEF CellsInv, Appended, Grading
<1>4. Keys(todo \cup calls) \subseteq Keys(todo' \cup calls') \cup {c.key}
  BY <1>1 DEF Keys
<1>5. Asking'
  BY <1>1, <1>2, <1>4 DEF CellsInv, Asking, ArmRows, Keys
<1> QED BY <1>3, <1>5 DEF CellsInv

LEMMA JudgeStartStep == CellsInv /\ JudgeStart => CellsInv'
<1> SUFFICES ASSUME CellsInv, JudgeStart PROVE CellsInv' OBVIOUS
<1>1. /\ phase = "answer" /\ arm > Len(ArmCells) /\ phase' = "rule"
      /\ todo' = {r \in AnswerRows : r.key \notin Graded} /\ UNCHANGED <<answers, verdicts, calls>>
  BY DEF JudgeStart, diskVars
<1>2. calls = {}
  BY <1>1 DEF CellsInv, Asking
<1>3. AnswerRows' = AnswerRows /\ GradedRows' = GradedRows /\ Answered' = Answered
  BY <1>1, SameFiles
<1>4. todo' \subseteq AnswerRows \ GradedRows
  BY <1>1 DEF Graded
<1> QED BY <1>1, <1>2, <1>3, <1>4 DEF CellsInv, Appended, Asking, Grading

LEMMA VerdictStep ==
  CellsInv /\ (JudgeByRule \/ \E c \in Rows : JudgeVerdict(c)) => CellsInv'
<1> SUFFICES ASSUME CellsInv, JudgeByRule \/ \E c \in Rows : JudgeVerdict(c) PROVE CellsInv' OBVIOUS
<1>1. /\ phase \in {"rule", "judge"} /\ phase' \in {"rule", "judge"}
      /\ answers' = answers
  BY DEF JudgeByRule, JudgeVerdict, Returns
<1>2. /\ todo \cap calls = {} /\ todo \cup calls \subseteq AnswerRows \ GradedRows
      /\ AnswerRows \subseteq Rows
  BY <1>1, RowsTyped DEF CellsInv, Appended, Grading
<1>3. AnswerRows' = AnswerRows
  BY <1>1 DEF AnswerRows
<1>4. CASE UNCHANGED <<verdicts, todo, calls>>
  <2>1. GradedRows' = GradedRows
    BY <1>4 DEF GradedRows
  <2> QED BY <2>1, <1>1, <1>3, <1>4 DEF CellsInv, Appended, Asking, Grading
<1>5. ASSUME NEW c \in todo \cup calls, verdicts' = Append(verdicts, c),
             \/ todo' = todo \ {c} /\ calls' = calls /\ c \in todo
             \/ calls' = calls \ {c} /\ todo' = todo /\ c \in calls
      PROVE  CellsInv'
  <2>1. c \in Rows /\ c \in AnswerRows /\ c \notin SeqElems(verdicts)
    BY <1>2 DEF GradedRows
  <2>2. verdicts' \in Seq(Rows) /\ Once(verdicts') /\ GradedRows' = GradedRows \cup {c}
    BY <2>1, <1>5, AppendOnce DEF CellsInv, Appended, GradedRows
  <2>3. Appended'
    BY <2>1, <2>2, <1>1, <1>3 DEF CellsInv, Appended
  <2>4. todo' \cap calls' = {} /\ todo' \cup calls' \subseteq AnswerRows \ (GradedRows \cup {c})
    BY <1>2, <1>5
  <2> QED BY <2>2, <2>3, <2>4, <1>1, <1>3 DEF CellsInv, Asking, Grading
<1>6. \/ UNCHANGED <<verdicts, todo, calls>>
      \/ \E c \in todo \cup calls :
           /\ verdicts' = Append(verdicts, c)
           /\ \/ todo' = todo \ {c} /\ calls' = calls /\ c \in todo
              \/ calls' = calls \ {c} /\ todo' = todo /\ c \in calls
  <2>1. CASE JudgeByRule
    BY <2>1 DEF JudgeByRule
  <2>2. CASE \E c \in Rows : JudgeVerdict(c)
    BY <2>2 DEF JudgeVerdict, Returns
  <2> QED BY <2>1, <2>2
<1> QED BY <1>4, <1>5, <1>6

LEMMA JudgeOtherStep ==
  CellsInv /\ (\/ JudgeSubmit \/ JudgeDone
               \/ \E c \in Rows : \/ JudgeQuota(c)
                                   \/ \E kind \in {"error", "launch", "limited"} : JudgeFails(c, kind))
    => CellsInv'
<1> SUFFICES ASSUME CellsInv,
                    \/ JudgeSubmit \/ JudgeDone
                    \/ \E c \in Rows : \/ JudgeQuota(c)
                                        \/ \E kind \in {"error", "launch", "limited"} : JudgeFails(c, kind)
             PROVE  CellsInv'
  OBVIOUS
<1>1. /\ phase = "judge" /\ phase' \in {"judge", "report"} /\ UNCHANGED <<answers, verdicts>>
  BY DEF JudgeSubmit, Submit, JudgeDone, JudgeQuota, JudgeFails, Returns, diskVars
<1>2. \/ \E c \in todo : calls' = calls \cup {c} /\ todo' = todo \ {c}
      \/ calls' \subseteq calls /\ todo' = todo
  BY DEF JudgeSubmit, Submit, JudgeDone, JudgeQuota, JudgeFails, Returns
<1>3. todo \cap calls = {} => todo' \cap calls' = {}
  BY <1>2
<1>4. todo' \cup calls' \subseteq todo \cup calls
  BY <1>2
<1>5. AnswerRows' = AnswerRows /\ GradedRows' = GradedRows /\ Answered' = Answered
  BY <1>1, SameFiles
<1> QED BY <1>1, <1>3, <1>4, <1>5 DEF CellsInv, Appended, Asking, Grading

LEMMA CellsStep == Supervised /\ CellsInv /\ [BenchNext]_benchVars => CellsInv'
<1> SUFFICES ASSUME Supervised, CellsInv, [BenchNext]_benchVars PROVE CellsInv' OBVIOUS
<1>1. CASE AnswerStopped
  <2>1. phase' = "report" /\ UNCHANGED <<answers, verdicts>>
    BY <1>1 DEF AnswerStopped, diskVars
  <2> QED BY <2>1, SameFiles DEF CellsInv, Appended, Asking, Grading
<1>2. CASE Answer
  BY <1>1, <1>2, AnswerStartStep, ArmDoneStep, AnswerSubmitStep, AnswerCleanStep, AnswerLostStep,
     Zenon DEF Answer
<1>3. CASE JudgePhase
  BY <1>3, JudgeStartStep, VerdictStep, JudgeOtherStep, Zenon DEF JudgePhase
<1>4. CASE ~Answer /\ ~JudgePhase
  BY <1>4, RowsStandStill, Zenon DEF BenchNext, Unattended, Supervising
<1> QED BY <1>2, <1>3, <1>4

-----------------------------------------------------------------------------
(* What a complete run rests on.                                           *)

\* Where the facts a manifest rests on can change.
LEMMA FactsKept ==
  ASSUME UNCHANGED <<ingested, answers, verdicts, missed>>
  PROVE  /\ AllIngested' = AllIngested /\ AllAsked' = AllAsked /\ Finished' = Finished
         /\ Answered' = Answered /\ Graded' = Graded
BY DEF AllIngested, AllAsked, Finished, Answered, Graded, AnswerRows, GradedRows

\* Scopes are passed by in order, up to the last.
LEMMA IngestThrough == StoreInv /\ AnswerStart => AllIngested
<1> SUFFICES ASSUME StoreInv, AnswerStart PROVE AllIngested OBVIOUS
<1>1. phase = "ingest" /\ scope > Len(ScopeOrder)
  BY DEF AnswerStart
<1>2. Len(ScopeOrder) \in Nat /\ DOMAIN ScopeOrder = 1..Len(ScopeOrder)
  BY BenchDistinct, LenProperties, Zenon
<1>3. scope \in 1..(Len(ScopeOrder) + 1) /\ ingested = have \cup Passed /\ ingested \subseteq Scopes
  BY <1>1 DEF StoreInv, StoreTyped, Passing, IngestPhases
<1>4. scope - 1 = Len(ScopeOrder)
  BY <1>1, <1>2, <1>3
<1>5. Passed = Scopes
  BY <1>2, <1>4 DEF Passed, Scopes, SeqElems
<1> QED BY <1>3, <1>5 DEF AllIngested

\* An arm is left when each of its cells was answered or missed.
LEMMA AnswerThrough == CellsInv /\ JudgeStart /\ stop = "none" => AllAsked
<1> SUFFICES ASSUME CellsInv, JudgeStart, stop = "none" PROVE AllAsked OBVIOUS
<1>1. phase = "answer" /\ arm > Len(ArmCells)
  BY DEF JudgeStart
<1>2. todo \cup calls \subseteq {} /\ arm \in 1..(Len(ArmCells) + 1)
  BY <1>1 DEF CellsInv, Asking
<1>3. \A a \in DOMAIN ArmCells : ArmCells[a] \subseteq Answered \cup missed
  BY <1>1, <1>2, ArmCellsFacts DEF CellsInv, Asking, Keys
<1> QED BY <1>3, ArmCellsFacts, Zenon DEF AllAsked

LEMMA ThroughStep ==
  Supervised /\ StoreInv /\ CellsInv /\ Through /\ [BenchNext]_benchVars => Through'
<1> SUFFICES ASSUME Supervised, StoreInv, CellsInv, Through, [BenchNext]_benchVars PROVE Through'
  OBVIOUS
<1>1. CASE Ingest
  BY <1>1 DEF Ingest, IngestSkip, ClearParked, ClearEdges, ClearNodes, ExtractOk, ExtractFails,
     WriteParked, WriteRefused, WriteStored, ResolveParked, AttachEdges, MarkIngested,
     NextWindow, Through
<1>2. CASE AnswerStart
  <2>1. AllIngested /\ ingested' = ingested /\ phase' = "answer"
    BY <1>2, IngestThrough DEF AnswerStart, diskVars
  <2> QED BY <2>1 DEF Through, AllIngested
<1>3. CASE AnswerSubmit \/ AnswerArmDone \/ AnswerStopped
           \/ \E c \in Rows : \/ AnswerClean(c) \/ AnswerQuota(c)
                               \/ \E kind \in {"error", "launch"} : AnswerFails(c, kind)
  <2>1. /\ phase = "answer" /\ ingested' = ingested
        /\ phase' = "answer" \/ (phase' = "report" /\ stop' # "none")
    BY <1>3 DEF AnswerSubmit, Submit, AnswerArmDone, AnswerStopped, AnswerClean, AnswerQuota,
       AnswerFails, Returns, diskVars
  <2> QED BY <2>1 DEF Through, AllIngested
<1>4. CASE JudgeStart
  <2>1. phase = "answer" /\ phase' = "rule" /\ UNCHANGED <<ingested, answers, verdicts, missed, stop>>
    BY <1>4 DEF JudgeStart, diskVars
  <2>2. stop = "none" => AllAsked
    BY <1>4, AnswerThrough
  <2> QED BY <2>1, <2>2, FactsKept DEF Through
<1>5. CASE JudgeByRule \/ JudgeSubmit \/ JudgeDone \/ ReportManifest
           \/ \E c \in Rows : \/ JudgeVerdict(c) \/ JudgeQuota(c)
                               \/ \E kind \in {"error", "launch", "limited"} : JudgeFails(c, kind)
  <2>1. /\ phase \in {"rule", "judge", "report"} /\ UNCHANGED <<ingested, answers, missed>>
        /\ stop' = "none" => stop = "none"
    <3>1. CASE JudgeByRule \/ JudgeSubmit \/ JudgeDone \/ ReportManifest
      BY <3>1 DEF JudgeByRule, JudgeSubmit, Submit, JudgeDone, ReportManifest, diskVars
    <3>2. CASE \E c \in Rows : \/ JudgeVerdict(c) \/ JudgeQuota(c)
                                \/ \E kind \in {"error", "launch", "limited"} : JudgeFails(c, kind)
      BY <3>2 DEF JudgeVerdict, JudgeQuota, JudgeFails, Returns
    <3> QED BY <1>5, <3>1, <3>2
  <2>2. AllIngested' = AllIngested /\ AllAsked' = AllAsked
    BY <2>1 DEF AllIngested, AllAsked, Answered, AnswerRows
  <2> QED BY <2>1, <2>2 DEF Through
<1>6. CASE ReportRender \/ ReadFails \/ Kill
  BY <1>6, EndsOf DEF Ends, Through
<1>7. CASE Supervising
  <2>1. phase' \in {"ingest", "ended", "off"}
    <3>1. CASE Launch
      BY <3>1 DEF Launch
    <3>2. CASE ~Launch
      BY <3>2, <1>7, SuperviseStep DEF Supervised
    <3> QED BY <3>1, <3>2
  <2> QED BY <2>1 DEF Through
<1>8. CASE UNCHANGED benchVars
  <2>1. UNCHANGED <<phase, stop, ingested, answers, verdicts, missed>>
    BY <1>8 DEF benchVars, diskVars, runVars
  <2> QED BY <2>1, FactsKept DEF Through
<1> QED BY <1>1, <1>2, <1>3, <1>4, <1>5, <1>6, <1>7, <1>8 DEF BenchNext, Unattended, Supervising, Answer, JudgePhase

\* A manifest that counts nothing ungraded, of a run that was not stopped.
LEMMA ManifestEarned ==
  CellsInv /\ Through /\ ReportManifest /\ ReadsComplete' => Finished'
<1> SUFFICES ASSUME CellsInv, Through, ReportManifest, ReadsComplete' PROVE Finished' OBVIOUS
<1> DEFINE Left == {r \in AnswerRows : r.key \notin Graded}
<1>1. /\ phase = "report" /\ UNCHANGED <<ingested, answers, verdicts, missed>>
      /\ manifest' = [quota |-> stop # "none", ungraded |-> Cardinality(Left), own |-> TRUE]
  BY DEF ReportManifest
<1>2. stop = "none" /\ Cardinality(Left) = 0
  BY <1>1 DEF ReadsComplete
<1>3. IsFiniteSet(Left)
  <2>1. answers \in Seq(Rows)
    BY DEF CellsInv, Appended
  <2>2. Len(answers) \in Nat /\ DOMAIN answers = 1..Len(answers)
    BY <2>1, LenProperties, Zenon
  <2>3. IsFiniteSet(AnswerRows)
    <3>1. IsFiniteSet(1..Len(answers))
      BY <2>2, FS_Interval
    <3>2. AnswerRows = {answers[i] : i \in 1..Len(answers)}
      BY <2>2, Zenon DEF AnswerRows, SeqElems
    <3>3. answers \in [1..Len(answers) -> AnswerRows]
      <4>1. answers \in [1..Len(answers) -> Rows]
        BY <2>1, <2>2
      <4> QED BY <4>1, <3>2
    <3>4. answers \in Surjection(1..Len(answers), AnswerRows)
      BY <3>2, <3>3 DEF Surjection
    <3> QED BY <3>1, <3>4, FS_Surjection
  <2> QED BY <2>3, FS_Subset
<1>4. Left = {}
  BY <1>2, <1>3, FS_EmptySet
<1>5. Graded = Answered
  BY <1>4 DEF CellsInv, Appended, Answered, Graded
<1>6. AllIngested /\ AllAsked
  BY <1>1, <1>2 DEF Through
<1> QED BY <1>1, <1>5, <1>6, FactsKept DEF Finished, AllIngested, AllAsked

LEMMA EarnedStep ==
  BenchInv /\ [BenchNext]_benchVars => Earned' /\ CompleteMeansGraded'
<1> SUFFICES ASSUME BenchInv, [BenchNext]_benchVars PROVE Earned' /\ CompleteMeansGraded'
  OBVIOUS
<1>1. Supervised /\ CellsInv /\ Through /\ Earned /\ CompleteMeansGraded
  BY DEF BenchInv, CompleteInv
<1>2. sup = "complete" /\ manifest.own => Finished
  BY <1>1 DEF CompleteMeansGraded
<1>3. (sup' = "complete" /\ manifest'.own => Finished') => CompleteMeansGraded'
  BY DEF CompleteMeansGraded
\* The supervisor cannot read a process that is under way as complete.
<1>4. phase \in RunPhases => sup = "running" /\ phase \notin {"ended", "off"}
  BY <1>1 DEF Supervised, RunPhases
<1>5. phase \in RunPhases \ {"render"} => ~(ReadsComplete /\ manifest.own /\ reported /\ "manifest" \notin torn)
  BY <1>1, <1>4 DEF Earned
<1>6. CASE Ingest \/ Answer \/ JudgePhase
  <2>1. /\ phase \in RunPhases \ {"render"} /\ phase' # "render"
        /\ UNCHANGED manifest
    <3>1. CASE Ingest
      BY <3>1 DEF Ingest, IngestSkip, ClearParked, ClearEdges, ClearNodes, ExtractOk, ExtractFails,
         WriteParked, WriteRefused, WriteStored, ResolveParked, AttachEdges, MarkIngested,
         NextWindow, RunPhases, diskVars
    <3>2. CASE Answer
      BY <3>2 DEF Answer, AnswerStart, AnswerSubmit, AnswerArmDone, AnswerStopped, AnswerClean,
         AnswerQuota, AnswerFails, Submit, Returns, RunPhases, diskVars
    <3>3. CASE JudgePhase
      BY <3>3 DEF JudgePhase, JudgeStart, JudgeByRule, JudgeSubmit, JudgeDone, JudgeVerdict,
         JudgeQuota, JudgeFails, Submit, Returns, RunPhases, diskVars
    <3> QED BY <1>6, <3>1, <3>2, <3>3
  <2>2. UNCHANGED <<sup, torn, reported>>
    BY <1>6, RunStep
  <2>3. ReadsComplete' = ReadsComplete
    BY <2>1 DEF ReadsComplete
  <2> QED BY <2>1, <2>2, <2>3, <1>3, <1>4, <1>5 DEF Earned
<1>7. CASE ReportManifest
  <2>1. phase \in RunPhases /\ UNCHANGED sup /\ phase' = "render"
    BY <1>7, RunStep DEF ReportManifest
  <2>2. ReadsComplete' => Finished'
    BY <1>1, <1>7, ManifestEarned
  <2> QED BY <2>1, <2>2, <1>3, <1>4 DEF Earned
<1>8. CASE ReportRender \/ ReadFails \/ Kill
  <2>1. /\ phase \in RunPhases /\ phase' = "ended" /\ torn \subseteq torn'
        /\ UNCHANGED <<sup, manifest, ingested, answers, verdicts, missed>>
        /\ reported' = reported \/ phase = "render"
    BY <1>8, EndsOf DEF Ends
  <2>2. ReadsComplete' = ReadsComplete /\ Finished' = Finished
    BY <2>1, FactsKept DEF ReadsComplete
  <2> QED BY <2>1, <2>2, <1>1, <1>3, <1>4, <1>5 DEF Earned
<1>9. CASE Supervising
  <2>1. UNCHANGED <<ingested, answers, verdicts, manifest, reported, torn>>
    BY <1>9, SuperviseStep DEF diskVars
  <2>2. ReadsComplete' = ReadsComplete
    BY <2>1 DEF ReadsComplete
  <2>3. CASE Launch
    <3>1. sup = "launch" /\ sup' = "running" /\ phase' \in {"ingest", "ended"} /\ phase = "off"
      BY <2>3, <1>1 DEF Launch, Supervised
    <3> QED BY <3>1, <2>1, <2>2, <1>1, <1>3 DEF Earned
  <2>4. CASE /\ sup = "running" /\ phase = "ended" /\ phase' = "off"
             /\ sup' \in {"launch", "complete", "halted"}
             /\ sup' = "complete" <=> IsComplete
             /\ UNCHANGED missed
    <3>1. Finished' = Finished
      BY <2>1, <2>4, FactsKept
    <3>2. IsComplete <=> ReadsComplete /\ reported /\ "manifest" \notin torn
      BY DEF IsComplete, Readable, ReadsComplete
    <3> QED BY <3>1, <3>2, <2>1, <2>2, <2>4, <1>1, <1>3 DEF Earned
  <2>5. CASE /\ sup \in {"launch", "halted", "capped"} /\ sup' \in {"launch", "capped"}
             /\ UNCHANGED <<phase, missed>>
    <3>1. phase = "off"
      BY <2>5, <1>1 DEF Supervised
    <3> QED BY <3>1, <2>1, <2>2, <2>5, <1>1, <1>3 DEF Earned
  <2> QED BY <2>3, <2>4, <2>5, <1>9, SuperviseStep, Zenon
<1>10. CASE UNCHANGED benchVars
  <2>1. UNCHANGED <<sup, phase, manifest, reported, torn, ingested, answers, verdicts, missed>>
    BY <1>10 DEF benchVars, supVars, diskVars, runVars
  <2>2. ReadsComplete' = ReadsComplete /\ Finished' = Finished
    BY <2>1, FactsKept DEF ReadsComplete
  <2> QED BY <2>1, <2>2, <1>1, <1>2, <1>3 DEF Earned
<1> QED BY <1>6, <1>7, <1>8, <1>9, <1>10 DEF BenchNext, Unattended, Supervising

-----------------------------------------------------------------------------
\* What a smaller command's completed run left.
LEMMA BenchInitInv == BenchInit => BenchInv
<1> SUFFICES ASSUME BenchInit PROVE BenchInv OBVIOUS
<1>1. Supervised
  BY DEF BenchInit, Supervised, Process, RunPhases, IngestPhases
<1>2. PICK old \in EarlierRuns \cup {NoRun} : Finds(old)
  BY DEF BenchInit
<1>3. /\ DOMAIN old.rows \subseteq Scopes
      /\ \A s \in DOMAIN old.rows :
           /\ old.rows[s] \in StatRows
           /\ (old.rows[s].written \cup old.rows[s].merged) \cap old.rows[s].failed = {}
      /\ old.asked \in Seq(Cells) /\ Once(old.asked)
  <2>1. CASE old = NoRun
    BY <2>1 DEF NoRun, Once
  <2>2. CASE old \in EarlierRuns
    BY <2>2, EarlierAssumption DEF Once
  <2> QED BY <2>1, <2>2
<1>4. NoStats \in StatRows /\ (NoStats.written \cup NoStats.merged) \cap NoStats.failed = {}
  BY DEF NoStats, StatRows
<1>5. /\ ingested = DOMAIN old.rows /\ rowOf \in [Scopes -> StatRows]
      /\ \A s \in Scopes : (rowOf[s].written \cup rowOf[s].merged) \cap rowOf[s].failed = {}
      /\ landed = [s \in Scopes |-> [d \in Drafts |->
                     IF d \in rowOf[s].written \cup rowOf[s].merged THEN 1 ELSE 0]]
  <2>1. rowOf = [s \in Scopes |-> IF s \in DOMAIN old.rows THEN old.rows[s] ELSE NoStats]
    BY <1>2 DEF Finds
  <2> QED BY <2>1, <1>2, <1>3, <1>4 DEF Finds
<1>6. StoreInv
  <2>1. StoreTyped
    BY <1>3, <1>4, <1>5 DEF BenchInit, StoreTyped, Nothing
  <2>2. Passing /\ Filling
    BY DEF BenchInit, Passing, Filling, IngestPhases
  <2>3. Hanging
    BY DEF BenchInit, Hanging
  <2>4. IngestExact
    BY <1>3, <1>5 DEF BenchInit, Nothing, IngestExact
  <2> QED BY <2>1, <2>2, <2>3, <2>4 DEF StoreInv
<1>7. CellsInv
  <2>1. answers = [i \in DOMAIN old.asked |-> [arm |-> 0, key |-> old.asked[i]]] /\ verdicts = answers
    BY <1>2 DEF Finds
  <2>2. Len(old.asked) \in Nat /\ DOMAIN old.asked = 1..Len(old.asked)
        /\ \A i \in DOMAIN old.asked : old.asked[i] \in Cells
    BY <1>3, LenProperties, ElementOfSeq
  <2>3. answers \in Seq(Rows)
    <3>1. answers \in [1..Len(old.asked) -> Rows]
      BY <2>1, <2>2, ArmCellsFacts DEF Rows
    <3> QED BY <3>1, <2>2, SeqDef
  <2>4. Once(answers)
    BY <1>3, <2>1 DEF Once
  <2>5. Appended
    BY <2>1, <2>3, <2>4 DEF Appended, AnswerRows, GradedRows
  <2> QED BY <2>5 DEF BenchInit, CellsInv, Asking, Grading
<1>8. CompleteInv
  <2>1. ~manifest.own
    BY DEF BenchInit
  <2> QED BY <2>1 DEF BenchInit, CompleteInv, Through, Earned, CompleteMeansGraded
<1> QED BY <1>1, <1>6, <1>7, <1>8 DEF BenchInv

LEMMA BenchStep == BenchInv /\ [BenchNext]_benchVars => BenchInv'
<1> SUFFICES ASSUME BenchInv, [BenchNext]_benchVars PROVE BenchInv' OBVIOUS
<1>1. Supervised'
  BY SupervisedStep DEF BenchInv
<1>2. StoreInv'
  BY StoreStep DEF BenchInv
<1>3. CellsInv'
  BY CellsStep DEF BenchInv
<1>4. Through'
  BY ThroughStep DEF BenchInv, CompleteInv
<1>5. Earned' /\ CompleteMeansGraded'
  BY EarnedStep
<1> QED BY <1>1, <1>2, <1>3, <1>4, <1>5 DEF BenchInv, CompleteInv

\* A sequence without repetitions is as long as it has elements.
LEMMA OnceCounted ==
  ASSUME NEW s \in Seq(Rows), Once(s)
  PROVE  Cardinality(SeqElems(s)) = Len(s)
<1>1. Len(s) \in Nat /\ DOMAIN s = 1..Len(s) /\ s \in [1..Len(s) -> Rows]
  BY LenProperties
<1>2. IsFiniteSet(1..Len(s)) /\ Cardinality(1..Len(s)) = Len(s)
  <2>1. \A n \in Nat : IsFiniteSet(1..n) /\ Cardinality(1..n) = IF 1 > n THEN 0 ELSE n - 1 + 1
    BY FS_Interval
  <2>2. \A n \in Nat : (IF 1 > n THEN 0 ELSE n - 1 + 1) = n
    OBVIOUS
  <2> QED BY <1>1, <2>1, <2>2
<1>3. s \in [1..Len(s) -> SeqElems(s)]
  BY <1>1 DEF SeqElems
<1>4. s \in Bijection(1..Len(s), SeqElems(s))
  <2>1. s \in Surjection(1..Len(s), SeqElems(s))
    BY <1>1, <1>3 DEF Surjection, SeqElems
  <2>2. s \in Injection(1..Len(s), SeqElems(s))
    BY <1>1, <1>3 DEF Injection, IsInjective, Once
  <2> QED BY <2>1, <2>2 DEF Bijection
<1> QED BY <1>2, <1>4, FS_Bijection DEF ExistsBijection

\* For any scopes, windows, arms, shared arm ids and concurrency, over a new run
\* directory or an earlier run's, and whatever is killed and resumed: a scope marked
\* done holds exactly what its done row says, no arm puts a question twice, no answer
\* is graded twice, and nothing is graded that was not answered (run.phase_ingest, phase_answer, phase_judge).
THEOREM NothingRunTwice == BenchSpec => []NothingTwice
<1>1. BenchInv => NothingTwice
  <2> SUFFICES ASSUME BenchInv PROVE NothingTwice OBVIOUS
  <2>1. IngestExact
    BY DEF BenchInv, StoreInv
  <2>2. OnceEach
    BY OnceCounted DEF BenchInv, CellsInv, Appended, OnceEach, AnswerRows, GradedRows
  <2> QED BY <2>1, <2>2 DEF NothingTwice
<1> QED BY BenchInitInv, BenchStep, <1>1, PTL DEF BenchSpec

\* A run that the supervisor reads as complete, from a manifest that a report phase
\* of this command wrote, has ingested every scope and graded every answer, and what
\* it did not answer is what its last reader missed (supervise.is_complete).
THEOREM CompleteIsGraded == BenchSpec => []CompleteMeansGraded
<1>1. BenchInv => CompleteMeansGraded
  BY DEF BenchInv, CompleteInv
<1> QED BY BenchInitInv, BenchStep, <1>1, PTL DEF BenchSpec

-----------------------------------------------------------------------------
(* The model clients.                                                      *)

Request == Nat \X Nat

CallStages == {"idle", "throttle", "count", "asleep", "recount", "append", "sent", "backoff", "launch"}

Calls == [at : CallStages, attempt : Nat, body : Fields, seen : SUBSET Request, until : Nat,
          waited : 0..(LaunchBudget - 1), delay : Nat]

\* A window holds requests posted up to now.
Window(w, now, n) == w \in SUBSET Request /\ IsFiniteSet(w) /\ \A r \in w : r[1] <= now /\ r[2] < n
Posted(w) == Window(w, clock, posts)

ClientShaped ==
  /\ client \in {"gemini", "openai", "cli"} /\ accepts \in Fields /\ capField \in Fields
  /\ {today, clock, placed, posts, spoiled} \subseteq Nat /\ overlapped \in BOOLEAN
  /\ Posted(minute) /\ Posted(sent)
  /\ call \in [Threads -> Calls]
  /\ \A t \in Threads : Posted(call[t].seen)

\* But for an overlap, one thread at a time is in the throttle, and what it has
\* read of the window is the window still.
Alone ==
  ~overlapped =>
    /\ \A t, u \in Threads : InThrottle(t) /\ InThrottle(u) => t = u
    /\ \A t \in Threads :
         /\ call[t].at \in {"count", "recount"} => call[t].seen = Fresh(minute)
         /\ call[t].at = "asleep" => \E r \in minute : call[t].until = r[1] + Minute
         /\ call[t].at = "recount" => Cardinality(call[t].seen) < Rpm
         /\ call[t].at = "append" => Cardinality(minute) < Rpm

\* The window holds the requests of the last minute, and no more than it may.
Bounded ==
  ~overlapped =>
    /\ Cardinality(minute) <= Rpm /\ Cardinality(sent) <= Rpm
    /\ \A r \in sent : clock - r[1] < Minute => r \in minute

\* A client that counts the day has one call at a time.
Counted ==
  /\ today <= Rpd
  /\ client # "gemini" => today = 0
  /\ client = "gemini" =>
       \A t \in Threads :
         /\ call[t].at # "idle" => \A u \in Threads : call[u].at # "idle" => u = t
         /\ InThrottle(t) => today < Rpd

\* The calls that the endpoint will refuse for the name of their cap.
Stale == {t \in Threads : call[t].at # "idle" /\ call[t].body # accepts}

Learned ==
  /\ capField = "max_tokens" \/ capField = accepts
  /\ capField # accepts => spoiled = 0
  /\ capField = accepts => spoiled + Cardinality(Stale) <= Cardinality(Threads)

ClientInv == ClientShaped /\ Alone /\ Bounded /\ Counted /\ Learned

LEMMA ClientFacts ==
  /\ IsFiniteSet(Threads) /\ Cardinality(Threads) \in Nat
  /\ Rpm \in Nat /\ Rpm >= 1 /\ Rpd \in Nat /\ Rpd >= 1 /\ Minute \in Nat /\ Minute >= 1
  /\ LaunchBudget \in Nat /\ LaunchBudget >= 1 /\ FirstDelay \in Nat /\ LastDelay \in Nat
  /\ MaxTime \in Nat /\ MaxCalls \in Nat
BY ProviderBounds, FS_CardinalityType

LEMMA SmallerStale ==
  ASSUME NEW S \in SUBSET Threads, NEW T \in SUBSET S
  PROVE  /\ Cardinality(S) \in Nat /\ Cardinality(T) \in Nat /\ Cardinality(T) <= Cardinality(S)
         /\ T # S => Cardinality(T) < Cardinality(S)
<1>1. IsFiniteSet(S)
  BY ClientFacts, FS_Subset
<1> QED BY <1>1, FS_Subset, FS_CardinalityType

\* A window cut down is a window, and smaller when a request is out.
LEMMA WindowCut ==
  ASSUME NEW w, IsFiniteSet(w), NEW v \in SUBSET w
  PROVE  /\ IsFiniteSet(v) /\ Cardinality(v) \in Nat /\ Cardinality(w) \in Nat
         /\ Cardinality(v) <= Cardinality(w) /\ (v # w => Cardinality(v) < Cardinality(w))
BY FS_Subset, FS_CardinalityType

LEMMA ProvidersInitInv == ProvidersInit => ClientInv
<1> SUFFICES ASSUME ProvidersInit PROVE ClientInv
  OBVIOUS
<1>1. \A t \in Threads : call[t] = Resting
  BY DEF ProvidersInit
<1>2. Resting \in Calls /\ Resting.at = "idle" /\ Resting.seen = {}
  BY ClientFacts DEF Resting, Calls, CallStages, Fields, Request
<1>3. IsFiniteSet({}) /\ Cardinality({}) = 0
  BY FS_EmptySet
<1>4. ClientShaped
  <2>1. Posted({})
    BY <1>3 DEF Posted, Window
  <2>2. call \in [Threads -> Calls]
    BY <1>1, <1>2 DEF ProvidersInit
  <2>3. {today, clock, placed, posts, spoiled} \subseteq Nat /\ overlapped \in BOOLEAN
    <3>1. today = 0 /\ clock = 0 /\ placed = 0 /\ posts = 0 /\ spoiled = 0
      BY DEF ProvidersInit
    <3>2. {today, clock, placed, posts, spoiled} \subseteq Nat
      BY <3>1, SMT
    <3>3. overlapped \in BOOLEAN
      BY DEF ProvidersInit
    <3> QED BY <3>2, <3>3
  <2>4. client \in {"gemini", "openai", "cli"} /\ accepts \in Fields /\ capField \in Fields
    BY DEF ProvidersInit, Fields
  <2>5. minute = {} /\ sent = {}
    BY DEF ProvidersInit
  <2> QED BY <1>1, <1>2, <2>1, <2>2, <2>3, <2>4, <2>5 DEF ClientShaped
<1>5. Alone
  BY <1>1, <1>2 DEF Alone, InThrottle
<1>6. Bounded
  BY <1>3, ClientFacts DEF Bounded, ProvidersInit
<1>7. Counted
  BY <1>1, <1>2, ClientFacts DEF Counted, ProvidersInit, InThrottle
<1>8. Learned
  <2>1. Stale = {}
    BY <1>1, <1>2 DEF Stale
  <2>2. spoiled = 0 /\ capField = "max_tokens"
    BY DEF ProvidersInit
  <2> QED BY <1>3, <2>1, <2>2, ClientFacts DEF Learned
<1> QED BY <1>4, <1>5, <1>6, <1>7, <1>8 DEF ClientInv

LEMMA Stepped ==
  ASSUME call \in [Threads -> Calls], NEW t \in Threads, NEW c \in Calls, Step(t, c)
  PROVE  /\ call' \in [Threads -> Calls] /\ call'[t] = c
         /\ \A u \in Threads : u # t => call'[u] = call[u]
BY DEF Step

\* A step of a call outside the throttle: no window moves.
LEMMA AsideInv ==
  ASSUME ClientInv, NEW t \in Threads, ~InThrottle(t),
         NEW c \in Calls, c.at \notin {"count", "asleep", "recount", "append"}, c.seen \subseteq call[t].seen,
         Step(t, c), UNCHANGED <<client, accepts, minute, sent, posts, clock, today, overlapped>>,
         capField' \in Fields, placed' \in Nat, spoiled' \in Nat,
         client = "gemini" /\ c.at # "idle" => \A u \in Threads : call[u].at # "idle" => u = t,
         Learned'
  PROVE  ClientInv'
<1>1. ClientShaped /\ Alone /\ Bounded /\ Counted
  BY DEF ClientInv
<1>2. /\ call' \in [Threads -> Calls] /\ call'[t] = c
      /\ \A u \in Threads : u # t => call'[u] = call[u]
  BY <1>1, Stepped DEF ClientShaped
<1>3. Posted(c.seen) /\ \A w : Posted(w)' = Posted(w)
  BY <1>1, FS_Subset DEF ClientShaped, Posted, Window
<1>4. ClientShaped'
  BY <1>1, <1>2, <1>3 DEF ClientShaped, Posted, Window
<1>5. \A u \in Threads : u # t => InThrottle(u)' = InThrottle(u)
  BY <1>2 DEF InThrottle
<1>6. ~InThrottle(t)'
  BY <1>2 DEF InThrottle
<1>7. Alone'
  BY <1>1, <1>2, <1>5, <1>6 DEF Alone, Fresh
<1>8. Bounded'
  BY <1>1 DEF Bounded
<1>9. Counted'
  BY <1>1, <1>2, <1>5, <1>6 DEF Counted
<1> QED BY <1>4, <1>7, <1>8, <1>9 DEF ClientInv

\* Within the throttle a call keeps its body and goes on.
LEMMA SameStale ==
  ASSUME ClientInv, NEW t \in Threads, NEW c \in Calls, Step(t, c), call[t].at # "idle",
         c.at # "idle", c.body = call[t].body, UNCHANGED <<accepts, capField, spoiled>>
  PROVE  Learned'
<1>1. ClientShaped /\ Learned
  BY DEF ClientInv
<1>2. /\ call'[t] = c /\ \A u \in Threads : u # t => call'[u] = call[u]
  BY <1>1, Stepped DEF ClientShaped
<1>3. Stale' = Stale
  BY <1>2 DEF Stale
<1> QED BY <1>1, <1>3 DEF Learned

LEMMA PrunesInv ==
  ASSUME ClientInv, NEW t \in Threads, Prunes(t) PROVE ClientInv'
<1> DEFINE c == [call[t] EXCEPT !.at = "count", !.seen = Fresh(minute)]
<1>1. /\ ClientShaped /\ Alone /\ Bounded /\ Counted /\ call[t] \in Calls /\ call[t].at = "throttle"
      /\ client = "gemini" => today < Rpd
      /\ Step(t, c) /\ overlapped' = (overlapped \/ \E u \in Threads : u # t /\ InThrottle(u))
      /\ UNCHANGED <<client, accepts, capField, minute, today, clock, placed, posts, sent, spoiled>>
  BY DEF ClientInv, ClientShaped, Prunes
<1>2. Fresh(minute) \subseteq minute /\ Posted(Fresh(minute)) /\ Posted(minute)
  BY <1>1, FS_Subset DEF Fresh, ClientShaped, Posted, Window
<1>3. c \in Calls /\ c.at = "count" /\ c.seen = Fresh(minute) /\ c.body = call[t].body
  BY <1>1, <1>2 DEF Calls, CallStages, Posted, Window
<1> HIDE DEF c
<1>4. /\ call' \in [Threads -> Calls] /\ call'[t] = c
      /\ \A u \in Threads : u # t => call'[u] = call[u]
  BY <1>1, <1>3, Stepped DEF ClientShaped
<1>5. ClientShaped'
  <2>1. \A w : Posted(w)' = Posted(w)
    BY <1>1 DEF Posted, Window
  <2> QED BY <1>1, <1>2, <1>3, <1>4, <2>1 DEF ClientShaped, Posted, Window
<1>6. \A u \in Threads : u # t => InThrottle(u)' = InThrottle(u)
  BY <1>4 DEF InThrottle
<1>7. Alone'
  <2> SUFFICES ASSUME ~overlapped' PROVE Alone'
    BY DEF Alone
  <2>1. ~overlapped /\ \A u \in Threads : u # t => ~InThrottle(u)
    BY <1>1
  <2>2. \A u \in Threads : u # t => call'[u].at \notin {"count", "asleep", "recount", "append"}
    BY <1>4, <2>1 DEF InThrottle
  <2>3. Fresh(minute)' = Fresh(minute)
    BY <1>1 DEF Fresh
  <2> QED BY <1>3, <1>4, <2>2, <2>3 DEF Alone, InThrottle
<1>8. Bounded'
  BY <1>1 DEF Bounded
<1>9. Counted'
  BY <1>1, <1>3, <1>4, <1>6 DEF Counted, InThrottle
<1>10. Learned'
  BY <1>1, <1>3, SameStale
<1> QED BY <1>5, <1>7, <1>8, <1>9, <1>10 DEF ClientInv

LEMMA WakesInv ==
  ASSUME ClientInv, NEW t \in Threads, Wakes(t) PROVE ClientInv'
<1> DEFINE c == [call[t] EXCEPT !.at = "recount", !.seen = Fresh(minute), !.until = 0]
<1>1. /\ ClientShaped /\ Alone /\ Bounded /\ Counted /\ call[t] \in Calls /\ call[t].at = "asleep"
      /\ clock >= call[t].until /\ clock \in Nat
      /\ Step(t, c) /\ overlapped' = (overlapped \/ \E u \in Threads : u # t /\ InThrottle(u))
      /\ UNCHANGED <<client, accepts, capField, minute, today, clock, placed, posts, sent, spoiled>>
  BY DEF ClientInv, ClientShaped, Wakes
<1>2. Fresh(minute) \subseteq minute /\ Posted(Fresh(minute)) /\ Posted(minute)
  BY <1>1, FS_Subset DEF Fresh, ClientShaped, Posted, Window
<1>3. c \in Calls /\ c.at = "recount" /\ c.seen = Fresh(minute) /\ c.body = call[t].body
  BY <1>1, <1>2 DEF Calls, CallStages, Posted, Window
<1> HIDE DEF c
<1>4. /\ call' \in [Threads -> Calls] /\ call'[t] = c
      /\ \A u \in Threads : u # t => call'[u] = call[u]
  BY <1>1, <1>3, Stepped DEF ClientShaped
<1>5. ClientShaped'
  <2>1. \A w : Posted(w)' = Posted(w)
    BY <1>1 DEF Posted, Window
  <2> QED BY <1>1, <1>2, <1>3, <1>4, <2>1 DEF ClientShaped, Posted, Window
<1>6. InThrottle(t)' /\ InThrottle(t) /\ \A u \in Threads : u # t => InThrottle(u)' = InThrottle(u)
  BY <1>1, <1>3, <1>4 DEF InThrottle
<1>7. Alone'
  <2> SUFFICES ASSUME ~overlapped' PROVE Alone'
    BY DEF Alone
  <2>1. ~overlapped /\ \A u \in Threads : u # t => ~InThrottle(u)
    BY <1>1
  <2>2. \A u \in Threads : u # t => call'[u].at \notin {"count", "asleep", "recount", "append"}
    BY <1>4, <2>1 DEF InThrottle
  <2>3. Fresh(minute)' = Fresh(minute)
    BY <1>1 DEF Fresh
  <2>4. Cardinality(Fresh(minute)) < Rpm
    <3>1. PICK r \in minute : call[t].until = r[1] + Minute
      BY <1>1, <2>1 DEF Alone
    <3>2. r[1] \in Nat
      BY <1>2, <3>1 DEF Posted, Window, Request
    <3>3. r \notin Fresh(minute)
      BY <1>1, <3>1, <3>2, ClientFacts DEF Fresh
    <3>4. Cardinality(Fresh(minute)) < Cardinality(minute) /\ Cardinality(minute) \in Nat /\ Cardinality(Fresh(minute)) \in Nat
      <4> DEFINE v == Fresh(minute)
      <4>1. v \in SUBSET minute /\ v # minute /\ IsFiniteSet(minute)
        BY <1>2, <3>1, <3>3 DEF Posted, Window
      <4> HIDE DEF v
      <4>2. Cardinality(v) < Cardinality(minute) /\ Cardinality(minute) \in Nat /\ Cardinality(v) \in Nat
        BY <4>1, WindowCut
      <4> QED BY <4>2 DEF v
    <3>5. Cardinality(minute) <= Rpm
      BY <1>1, <2>1 DEF Bounded
    <3> QED BY <3>4, <3>5, ClientFacts
  <2> QED BY <1>3, <1>4, <2>2, <2>3, <2>4 DEF Alone, InThrottle
<1>8. Bounded'
  BY <1>1 DEF Bounded
<1>9. Counted'
  BY <1>1, <1>3, <1>4, <1>6 DEF Counted
<1>10. Learned'
  BY <1>1, <1>3, SameStale
<1> QED BY <1>5, <1>7, <1>8, <1>9, <1>10 DEF ClientInv

\* The window becomes what the thread has read of it.
LEMMA AssignsInv ==
  ASSUME ClientInv, NEW t \in Threads, call[t].at \in {"count", "recount"}, NEW c \in Calls, Step(t, c),
         minute' = call[t].seen, c.seen = call[t].seen, c.body = call[t].body,
         \/ c.at = "append" /\ (~overlapped => Cardinality(minute') < Rpm)
         \/ c.at = "asleep" /\ \E r \in minute' : c.until = r[1] + Minute,
         UNCHANGED <<client, accepts, capField, today, clock, placed, posts, sent, spoiled, overlapped>>
  PROVE  ClientInv'
<1>1. ClientShaped /\ Alone /\ Bounded /\ Counted
  BY DEF ClientInv
<1>2. /\ call' \in [Threads -> Calls] /\ call'[t] = c
      /\ \A u \in Threads : u # t => call'[u] = call[u]
  BY <1>1, Stepped DEF ClientShaped
<1>3. Posted(call[t].seen)
  BY <1>1 DEF ClientShaped
<1>4. ClientShaped'
  <2>1. \A w : Posted(w)' = Posted(w)
    BY DEF Posted, Window
  <2> QED BY <1>1, <1>2, <1>3, <2>1 DEF ClientShaped, Posted, Window
<1>5. InThrottle(t)' /\ InThrottle(t) /\ \A u \in Threads : u # t => InThrottle(u)' = InThrottle(u)
  BY <1>2 DEF InThrottle
<1>6. Alone'
  <2> SUFFICES ASSUME ~overlapped PROVE Alone'
    BY DEF Alone
  <2>1. \A u \in Threads : u # t => ~InThrottle(u)
    BY <1>1, <1>5 DEF Alone
  <2>2. \A u \in Threads : u # t => call'[u].at \notin {"count", "asleep", "recount", "append"}
    BY <1>2, <2>1 DEF InThrottle
  <2> QED BY <1>2, <2>2 DEF Alone, InThrottle
<1>7. Bounded'
  <2> SUFFICES ASSUME ~overlapped PROVE Bounded'
    BY DEF Bounded
  <2>1. minute' = Fresh(minute)
    BY <1>1 DEF Alone
  <2>2. Fresh(minute) \subseteq minute
    BY DEF Fresh
  <2>3. IsFiniteSet(minute) /\ Cardinality(minute) <= Rpm
    BY <1>1 DEF Bounded, ClientShaped, Posted, Window
  <2>4. Cardinality(minute') <= Rpm
    <3>1. minute' \in SUBSET minute
      BY <2>1, <2>2
    <3>2. Cardinality(minute') <= Cardinality(minute) /\ Cardinality(minute') \in Nat /\ Cardinality(minute) \in Nat
      BY <2>3, <3>1, WindowCut
    <3> QED BY <2>3, <3>2, ClientFacts
  <2>5. \A r \in sent : clock - r[1] < Minute => r \in minute'
    BY <1>1, <2>1 DEF Bounded, Fresh
  <2> QED BY <1>1, <2>4, <2>5 DEF Bounded
<1>8. Counted'
  BY <1>1, <1>2, <1>5 DEF Counted
<1>9. Learned'
  <2>1. call[t].at # "idle" /\ c.at # "idle"
    OBVIOUS
  <2> QED BY <2>1, SameStale
<1> QED BY <1>4, <1>6, <1>7, <1>8, <1>9 DEF ClientInv

LEMMA CountsInv ==
  ASSUME ClientInv, NEW t \in Threads, Counts(t) \/ Recounts(t) PROVE ClientInv'
<1>1. /\ ClientShaped /\ Alone /\ call[t] \in Calls /\ Posted(call[t].seen)
      /\ Cardinality(call[t].seen) \in Nat
  BY FS_CardinalityType DEF ClientInv, ClientShaped, Posted, Window
<1>2. /\ minute' = call[t].seen /\ call[t].at \in {"count", "recount"}
      /\ UNCHANGED <<client, accepts, capField, today, clock, placed, posts, sent, spoiled, overlapped>>
  BY DEF Counts, Recounts
<1>3. ASSUME Step(t, [call[t] EXCEPT !.at = "append"]), ~overlapped => Cardinality(call[t].seen) < Rpm
      PROVE  ClientInv'
  <2> DEFINE c == [call[t] EXCEPT !.at = "append"]
  <2>1. c \in Calls /\ c.at = "append" /\ c.seen = call[t].seen /\ c.body = call[t].body
    BY <1>1 DEF Calls, CallStages
  <2>2. Step(t, c)
    BY <1>3
  <2> HIDE DEF c
  <2> QED BY <1>2, <1>3, <2>1, <2>2, AssignsInv
<1>4. ASSUME NEW r \in call[t].seen, Step(t, [call[t] EXCEPT !.at = "asleep", !.until = r[1] + Minute])
      PROVE  ClientInv'
  <2> DEFINE c == [call[t] EXCEPT !.at = "asleep", !.until = r[1] + Minute]
  <2>1. r[1] + Minute \in Nat
    BY <1>1, ClientFacts DEF Posted, Window, Request
  <2>2. c \in Calls /\ c.at = "asleep" /\ c.seen = call[t].seen /\ c.body = call[t].body /\ c.until = r[1] + Minute
    BY <1>1, <2>1 DEF Calls, CallStages
  <2>3. Step(t, c)
    BY <1>4
  <2> HIDE DEF c
  <2> QED BY <1>2, <2>2, <2>3, AssignsInv
<1>5. CASE Counts(t)
  BY <1>3, <1>4, <1>5 DEF Counts
<1>6. CASE Recounts(t)
  <2>1. ~overlapped => Cardinality(call[t].seen) < Rpm
    BY <1>1, <1>6 DEF Recounts, Alone
  <2> QED BY <1>3, <1>6, <2>1 DEF Recounts
<1> QED BY <1>5, <1>6

LEMMA AppendsInv ==
  ASSUME ClientInv, NEW t \in Threads, Appends(t) PROVE ClientInv'
<1> DEFINE c == [call[t] EXCEPT !.at = "sent", !.seen = {}]
           new == <<clock, posts>>
<1>1. /\ ClientShaped /\ Alone /\ Bounded /\ Counted /\ call[t] \in Calls /\ call[t].at = "append"
      /\ Step(t, c) /\ minute' = minute \cup {new} /\ sent' = Recent(sent) \cup {new} /\ posts' = posts + 1
      /\ today' = (IF client = "gemini" THEN today + 1 ELSE today)
      /\ UNCHANGED <<client, accepts, capField, clock, placed, spoiled, overlapped>>
      /\ clock \in Nat /\ posts \in Nat /\ today \in Nat
  BY DEF ClientInv, ClientShaped, Appends
<1>2. c \in Calls /\ c.at = "sent" /\ c.seen = {} /\ c.body = call[t].body
  BY <1>1 DEF Calls, CallStages
<1>3. new \in Request /\ new[1] = clock /\ new[2] = posts
  BY <1>1 DEF Request
<1> HIDE DEF c, new
<1>4. /\ call' \in [Threads -> Calls] /\ call'[t] = c
      /\ \A u \in Threads : u # t => call'[u] = call[u]
  BY <1>1, <1>2, Stepped DEF ClientShaped
<1>5. ASSUME NEW w, Window(w, clock, posts)
      PROVE  Window(w, clock, posts + 1) /\ Window(w \cup {new}, clock, posts + 1)
  <2>1. IsFiniteSet(w \cup {new})
    BY <1>5, FS_AddElement DEF Window
  <2>2. \A r \in w : r[2] \in Nat
    BY <1>5 DEF Window, Request
  <2>3. posts \in Nat /\ clock \in Nat
    BY <1>1 DEF ClientShaped
  <2>4. Window(w, clock, posts + 1)
    BY <1>5, <2>2, <2>3 DEF Window
  <2>5. \A r \in w \cup {new} : r[1] <= clock /\ r[2] < posts + 1
    BY <1>3, <1>5, <2>2, <2>3 DEF Window
  <2> QED BY <1>3, <1>5, <2>1, <2>4, <2>5 DEF Window
<1>6. Posted(minute) /\ Posted(Recent(sent)) /\ Recent(sent) \subseteq sent
  BY <1>1, FS_Subset DEF ClientShaped, Posted, Window, Recent
<1>7. ClientShaped'
  <2>1. Posted(minute)' /\ Posted(sent)'
    BY <1>1, <1>5, <1>6 DEF Posted
  <2>2. \A u \in Threads : Posted(call[u].seen)'
    <3>1. \A u \in Threads : u # t => Posted(call[u].seen)
      BY <1>1 DEF ClientShaped
    <3>2. Posted({})'
      BY FS_EmptySet DEF Posted, Window
    <3> QED BY <1>1, <1>2, <1>4, <1>5, <3>1, <3>2 DEF Posted
  <2> QED BY <1>1, <1>4, <2>1, <2>2 DEF ClientShaped
<1>8. ~InThrottle(t)' /\ InThrottle(t) /\ \A u \in Threads : u # t => InThrottle(u)' = InThrottle(u)
  BY <1>1, <1>2, <1>4 DEF InThrottle
<1>9. Alone'
  <2> SUFFICES ASSUME ~overlapped PROVE Alone'
    BY <1>1 DEF Alone
  <2>1. \A u \in Threads : u # t => ~InThrottle(u)
    BY <1>1, <1>8 DEF Alone
  <2>2. \A u \in Threads : call'[u].at \notin {"count", "asleep", "recount", "append"}
    BY <1>2, <1>4, <2>1 DEF InThrottle
  <2> QED BY <2>2 DEF Alone, InThrottle
<1>10. Bounded'
  <2> SUFFICES ASSUME ~overlapped PROVE Bounded'
    BY <1>1 DEF Bounded
  <2>1. Cardinality(minute) < Rpm /\ IsFiniteSet(minute)
    BY <1>1, <1>6 DEF Alone, Posted, Window
  <2>2. new \notin minute
    BY <1>3, <1>6, <1>1 DEF Posted, Window
  <2>3. Cardinality(minute') = Cardinality(minute) + 1 /\ Cardinality(minute) \in Nat /\ IsFiniteSet(minute')
    BY <1>1, <2>1, <2>2, FS_AddElement, FS_CardinalityType
  <2>4. sent' \in SUBSET minute'
    BY <1>1, <1>6 DEF Bounded, Recent
  <2>5. Cardinality(sent') <= Cardinality(minute') /\ Cardinality(sent') \in Nat
    BY <2>3, <2>4, WindowCut
  <2>6. Cardinality(minute') <= Rpm /\ Cardinality(sent') <= Rpm
    BY <2>1, <2>3, <2>5, ClientFacts
  <2> QED BY <2>4, <2>6 DEF Bounded
<1>11. Counted'
  <2>1. client = "gemini" => today < Rpd /\ \A u \in Threads : call[u].at # "idle" => u = t
    BY <1>1, <1>8 DEF Counted
  <2>2. client = "gemini" => \A u \in Threads : u # t => call'[u].at = "idle"
    BY <1>4, <2>1
  <2>3. client = "gemini" => \A u \in Threads : ~InThrottle(u)'
    BY <1>8, <2>2 DEF InThrottle
  <2>4. today' <= Rpd /\ (client # "gemini" => today' = 0)
    BY <1>1, <2>1, ClientFacts DEF Counted
  <2> QED BY <1>1, <2>2, <2>3, <2>4 DEF Counted
<1>12. Learned'
  BY <1>1, <1>2, SameStale
<1> QED BY <1>7, <1>9, <1>10, <1>11, <1>12 DEF ClientInv

\* A call that is over, or goes on with the body it has, makes none stale.
LEMMA FewerStale ==
  ASSUME ClientInv, NEW t \in Threads, NEW c \in Calls, Step(t, c),
         c.at = "idle" \/ (call[t].at # "idle" /\ c.body = call[t].body),
         UNCHANGED <<accepts, capField, spoiled>>
  PROVE  Learned'
<1>1. ClientShaped /\ Learned /\ spoiled \in Nat
  BY DEF ClientInv, ClientShaped
<1>2. /\ call'[t] = c /\ \A u \in Threads : u # t => call'[u] = call[u]
  BY <1>1, Stepped DEF ClientShaped
<1>3. Stale' \subseteq Stale /\ Stale \subseteq Threads
  BY <1>2 DEF Stale
<1>4. Cardinality(Stale') <= Cardinality(Stale) /\ Cardinality(Stale') \in Nat /\ Cardinality(Stale) \in Nat
  BY <1>3, SmallerStale
<1> QED BY <1>1, <1>4, ClientFacts DEF Learned

LEMMA StartsInv ==
  ASSUME ClientInv, NEW t \in Threads, Starts(t) PROVE ClientInv'
<1> DEFINE c == [Resting EXCEPT !.at = IF client = "cli" THEN "launch" ELSE "throttle", !.body = capField]
<1>1. /\ ClientShaped /\ Learned /\ call[t].at = "idle" /\ placed' = placed + 1 /\ Step(t, c)
      /\ client # "openai" => \A u \in Threads : call[u].at = "idle"
      /\ UNCHANGED <<client, accepts, capField, minute, today, clock, posts, sent, spoiled, overlapped>>
      /\ capField \in Fields /\ placed \in Nat /\ spoiled \in Nat
  BY DEF ClientInv, ClientShaped, Starts
<1>2. c \in Calls /\ c.at \in {"launch", "throttle"} /\ c.seen = {} /\ c.body = capField
  <2>1. Resting \in Calls /\ Resting.seen = {}
    BY ClientFacts DEF Resting, Calls, CallStages, Fields, Request
  <2> QED BY <1>1, <2>1 DEF Calls, CallStages
<1> HIDE DEF c
<1>3. /\ call'[t] = c /\ \A u \in Threads : u # t => call'[u] = call[u]
  BY <1>1, <1>2, Stepped DEF ClientShaped
<1>4. Learned'
  <2>1. capField = accepts => Stale' = Stale
    BY <1>1, <1>2, <1>3 DEF Stale
  <2> QED BY <1>1, <2>1 DEF Learned
<1>5. ~InThrottle(t) /\ placed' \in Nat
  BY <1>1 DEF InThrottle
<1> QED BY <1>1, <1>2, <1>4, <1>5, AsideInv

LEMMA OverInv ==
  ASSUME ClientInv, NEW t \in Threads, ~InThrottle(t), Finishes(t),
         UNCHANGED <<client, accepts, capField, minute, today, clock, placed, posts, sent, spoiled, overlapped>>
  PROVE  ClientInv'
<1>1. /\ Step(t, Resting) /\ capField \in Fields /\ placed \in Nat /\ spoiled \in Nat
  BY DEF Finishes, ClientInv, ClientShaped
<1>2. Resting \in Calls /\ Resting.at = "idle" /\ Resting.seen = {}
  BY ClientFacts DEF Resting, Calls, CallStages, Fields, Request
<1>3. Learned'
  BY <1>1, <1>2, FewerStale
<1> QED BY <1>1, <1>2, <1>3, AsideInv

\* A call that tries again keeps its body.
LEMMA OnceMoreInv ==
  ASSUME ClientInv, NEW t \in Threads, call[t].at \in {"sent", "backoff", "launch"}, NEW c \in Calls, Step(t, c),
         c.at \in {"backoff", "throttle", "launch"}, c.body = call[t].body, c.seen = call[t].seen,
         UNCHANGED <<client, accepts, capField, minute, today, clock, placed, posts, sent, spoiled, overlapped>>
  PROVE  ClientInv'
<1>1. /\ capField \in Fields /\ placed \in Nat /\ spoiled \in Nat /\ Counted
  BY DEF ClientInv, ClientShaped
<1>2. Learned'
  BY FewerStale
<1>3. ~InThrottle(t)
  BY DEF InThrottle
<1>4. client = "gemini" => \A u \in Threads : call[u].at # "idle" => u = t
  BY <1>1 DEF Counted
<1> QED BY <1>1, <1>2, <1>3, <1>4, AsideInv

LEMMA RetriesInv ==
  ASSUME ClientInv, NEW t \in Threads, BacksOff(t) \/ Again(t) \/ LaunchFails(t) PROVE ClientInv'
<1>1. /\ call[t] \in Calls /\ clock \in Nat
      /\ UNCHANGED <<client, accepts, capField, minute, today, clock, placed, posts, sent, spoiled, overlapped>>
  BY DEF ClientInv, ClientShaped, BacksOff, Again, LaunchFails
<1>2. call[t].at \in {"sent", "backoff", "launch"} /\ ~InThrottle(t)
  BY DEF BacksOff, Again, LaunchFails, InThrottle
<1>3. ASSUME BacksOff(t), NEW wait \in 0..1, Retries(t, wait), ~LastAttempt(t) PROVE ClientInv'
  <2> DEFINE c == [call[t] EXCEPT !.at = "backoff", !.attempt = @ + 1, !.until = clock + wait]
  <2>1. /\ c \in Calls /\ c.at = "backoff" /\ c.body = call[t].body /\ c.seen = call[t].seen
    <3>1. call[t].attempt + 1 \in Nat /\ clock + wait \in Nat /\ "backoff" \in CallStages
      BY <1>1 DEF Calls, CallStages
    <3> QED BY <1>1, <3>1 DEF Calls
  <2>2. Step(t, c)
    BY <1>3 DEF Retries
  <2> HIDE DEF c
  <2> QED BY <1>1, <1>2, <2>1, <2>2, OnceMoreInv
<1>4. CASE BacksOff(t)
  BY <1>1, <1>2, <1>3, <1>4, OverInv DEF BacksOff, Retries
<1>5. CASE Again(t)
  <2> DEFINE c == [call[t] EXCEPT !.at = "throttle", !.until = 0]
  <2>1. /\ c \in Calls /\ c.at = "throttle" /\ c.body = call[t].body /\ c.seen = call[t].seen
    BY <1>1 DEF Calls, CallStages
  <2>2. Step(t, c)
    BY <1>5 DEF Again
  <2> HIDE DEF c
  <2> QED BY <1>1, <1>2, <2>1, <2>2, OnceMoreInv
<1>6. CASE LaunchFails(t) /\ FitsBudget(call[t].waited, call[t].delay)
  <2> DEFINE c == [call[t] EXCEPT !.waited = @ + call[t].delay, !.delay = Doubled(@)]
  <2>1. /\ call[t].delay \in Nat /\ Doubled(call[t].delay) \in Nat /\ call[t].waited \in Nat
    BY <1>1, ClientFacts DEF Calls, Doubled
  <2>2. call[t].waited + call[t].delay \in 0..(LaunchBudget - 1)
    BY <1>6, <2>1, ClientFacts DEF FitsBudget
  <2>3. /\ c \in Calls /\ c.at = "launch" /\ c.body = call[t].body /\ c.seen = call[t].seen
    BY <1>1, <1>6, <2>1, <2>2 DEF Calls, CallStages, LaunchFails
  <2>4. Step(t, c)
    BY <1>6 DEF LaunchFails
  <2> HIDE DEF c
  <2> QED BY <1>1, <1>2, <2>3, <2>4, OnceMoreInv
<1>7. CASE LaunchFails(t) /\ ~FitsBudget(call[t].waited, call[t].delay)
  BY <1>1, <1>2, <1>7, OverInv DEF LaunchFails
<1> QED BY <1>4, <1>5, <1>6, <1>7

\* The name of the cap is learned: the calls that hold the other one are all but this.
LEMMA SwitchesInv ==
  ASSUME ClientInv, NEW t \in Threads, Switches(t) PROVE ClientInv'
<1>1. /\ ClientShaped /\ Learned /\ Counted /\ call[t] \in Calls /\ call[t].at = "sent"
      /\ call[t].body = capField /\ capField # accepts /\ capField' = Other(capField)
      /\ UNCHANGED <<client, accepts, minute, today, clock, placed, posts, sent, overlapped>>
      /\ capField \in Fields /\ accepts \in Fields /\ placed \in Nat /\ spoiled = 0
  BY DEF ClientInv, ClientShaped, Switches, Refuses, Learned
<1>2. Other(capField) = accepts
  BY <1>1 DEF Other, Fields
<1>3. ASSUME NEW c \in Calls, Step(t, c), c.at = "idle" \/ c.body = accepts, spoiled' \in {0, 1}
      PROVE  Learned'
  <2>1. /\ call'[t] = c /\ \A u \in Threads : u # t => call'[u] = call[u]
    BY <1>1, <1>3, Stepped DEF ClientShaped
  <2>2. Stale' \subseteq Threads /\ t \notin Stale' /\ Stale' # Threads
    BY <1>1, <1>3, <2>1 DEF Stale
  <2>3. Cardinality(Stale') < Cardinality(Threads) /\ Cardinality(Stale') \in Nat
    BY <2>2, SmallerStale
  <2>4. spoiled' + Cardinality(Stale') <= Cardinality(Threads)
    BY <1>3, <2>3, ClientFacts
  <2> QED BY <1>1, <1>2, <2>4 DEF Learned
<1>4. capField' \in Fields /\ ~InThrottle(t)
  BY <1>1, <1>2 DEF InThrottle
<1>5. CASE LastAttempt(t)
  <2>1. Step(t, Resting) /\ spoiled' = 1
    BY <1>1, <1>5 DEF Switches, Finishes
  <2>2. Resting \in Calls /\ Resting.at = "idle" /\ Resting.seen = {}
    BY ClientFacts DEF Resting, Calls, CallStages, Fields, Request
  <2>3. Learned'
    BY <1>3, <2>1, <2>2
  <2> QED BY <1>1, <1>4, <2>1, <2>2, <2>3, AsideInv
<1>6. CASE ~LastAttempt(t)
  <2> DEFINE c == [call[t] EXCEPT !.at = "throttle", !.attempt = @ + 1, !.body = Other(capField)]
  <2>1. c \in Calls /\ c.at = "throttle" /\ c.body = accepts /\ c.seen = call[t].seen
    <3>1. call[t].attempt + 1 \in Nat /\ "throttle" \in CallStages
      BY <1>1 DEF Calls, CallStages
    <3> QED BY <1>1, <1>2, <3>1 DEF Calls
  <2>2. Step(t, c) /\ spoiled' = 0
    BY <1>1, <1>6 DEF Switches
  <2> HIDE DEF c
  <2>3. Learned'
    BY <1>3, <2>1, <2>2
  <2>4. client = "gemini" => \A u \in Threads : call[u].at # "idle" => u = t
    BY <1>1 DEF Counted
  <2> QED BY <1>1, <1>4, <2>1, <2>2, <2>3, <2>4, AsideInv
<1> QED BY <1>5, <1>6

LEMMA SwitchedAwayInv ==
  ASSUME ClientInv, NEW t \in Threads, SwitchedAway(t) PROVE ClientInv'
<1>1. /\ ClientShaped /\ Learned /\ call[t].at = "sent"
      /\ call[t].body # accepts /\ call[t].body # capField /\ Step(t, Resting) /\ spoiled' = spoiled + 1
      /\ UNCHANGED <<client, accepts, capField, minute, today, clock, placed, posts, sent, overlapped>>
      /\ capField \in Fields /\ accepts \in Fields /\ placed \in Nat /\ spoiled \in Nat /\ call[t] \in Calls
  BY DEF ClientInv, ClientShaped, SwitchedAway, Refuses, Finishes
<1>2. capField = accepts
  BY <1>1 DEF Fields, Calls
<1>3. Resting \in Calls /\ Resting.at = "idle" /\ Resting.seen = {}
  BY ClientFacts DEF Resting, Calls, CallStages, Fields, Request
<1>4. Learned'
  <2>1. /\ call'[t] = Resting /\ \A u \in Threads : u # t => call'[u] = call[u]
    BY <1>1, <1>3, Stepped DEF ClientShaped
  <2>2. t \in Stale /\ t \notin Stale' /\ Stale' \subseteq Stale /\ Stale \subseteq Threads
    BY <1>1, <1>3, <2>1 DEF Stale
  <2>3. Cardinality(Stale') < Cardinality(Stale) /\ Cardinality(Stale') \in Nat /\ Cardinality(Stale) \in Nat
    BY <2>2, SmallerStale
  <2>4. spoiled + Cardinality(Stale) <= Cardinality(Threads)
    BY <1>1, <1>2 DEF Learned
  <2>5. spoiled' + Cardinality(Stale') <= Cardinality(Threads)
    BY <1>1, <2>3, <2>4, ClientFacts
  <2> QED BY <1>1, <1>2, <2>5 DEF Learned
<1>5. ~InThrottle(t) /\ spoiled' \in Nat
  BY <1>1 DEF InThrottle
<1> QED BY <1>1, <1>3, <1>4, <1>5, AsideInv

\* Time passes when no thread holds a reading of the window.
LEMMA TickInv ==
  ASSUME ClientInv, Tick PROVE ClientInv'
<1>1. /\ ClientShaped /\ Alone /\ Bounded /\ Counted /\ Learned /\ clock' = clock + 1 /\ clock \in Nat
      /\ \A t \in Threads : call[t].at \in {"idle", "asleep", "backoff", "sent"}
      /\ UNCHANGED <<client, accepts, capField, minute, today, call, placed, posts, sent, spoiled, overlapped>>
  BY DEF ClientInv, ClientShaped, Tick
<1>2. ASSUME NEW w, Posted(w) PROVE Posted(w)'
  <2>1. \A r \in w : r[1] \in Nat
    BY <1>2 DEF Posted, Window, Request
  <2> QED BY <1>1, <1>2, <2>1 DEF Posted, Window
<1>3. ClientShaped'
  <2>1. Posted(minute)' /\ Posted(sent)'
    BY <1>1, <1>2 DEF ClientShaped, Posted, Window
  <2>2. \A t \in Threads : Posted(call[t].seen)'
    BY <1>1, <1>2 DEF ClientShaped, Posted, Window
  <2> QED BY <1>1, <2>1, <2>2 DEF ClientShaped
<1>4. Alone'
  BY <1>1 DEF Alone, InThrottle
<1>5. Bounded'
  <2>1. \A r \in sent : r[1] \in Nat
    BY <1>1 DEF ClientShaped, Posted, Window, Request
  <2>2. \A r \in sent : clock' - r[1] < Minute => clock - r[1] < Minute
    BY <1>1, <2>1, ClientFacts
  <2> QED BY <1>1, <2>2 DEF Bounded
<1>6. Counted' /\ Learned'
  BY <1>1 DEF Counted, Learned, InThrottle, Stale
<1> QED BY <1>3, <1>4, <1>5, <1>6 DEF ClientInv

LEMMA ClientStepInv ==
  ASSUME ClientInv, [ProvidersNext]_providerVars PROVE ClientInv'
<1>1. CASE UNCHANGED providerVars
  BY <1>1 DEF providerVars, ClientInv, ClientShaped, Alone, Bounded, Counted, Learned, Stale, Posted, Window, InThrottle, Fresh
<1>2. ASSUME NEW t \in Threads, DayOver(t) \/ CallEnds(t) \/ Launched(t) PROVE ClientInv'
  <2>1. ~InThrottle(t) /\ Finishes(t)
        /\ UNCHANGED <<client, accepts, capField, minute, today, clock, placed, posts, sent, spoiled, overlapped>>
    BY <1>2 DEF DayOver, CallEnds, Launched, InThrottle
  <2> QED BY <2>1, OverInv
<1>3. CASE ProvidersNext
  BY <1>2, <1>3, StartsInv, PrunesInv, CountsInv, WakesInv, AppendsInv, SwitchesInv, SwitchedAwayInv,
     RetriesInv, TickInv DEF ProvidersNext
<1> QED BY <1>1, <1>3

\* For any threads, limits and budgets: a client that one thread paces at a time
\* posts at most its limit in any minute, a day's count is never exceeded, the name
\* of the output cap costs at most one call a thread, and no launch is waited for
\* beyond its budget.
THEOREM TermsKept == ProvidersSpec => []ClientsKeepTerms
<1>1. ClientInv /\ [ProvidersNext]_providerVars => ClientInv'
  BY ClientStepInv
<1>2. ClientInv => ClientsKeepTerms
  <2> SUFFICES ASSUME ClientInv PROVE ClientsKeepTerms
    OBVIOUS
  <2>1. spoiled <= Cardinality(Threads)
    <3>1. Stale \subseteq Threads /\ spoiled \in Nat
      BY DEF Stale, ClientInv, ClientShaped
    <3>2. Cardinality(Stale) \in Nat /\ Cardinality(Stale) <= Cardinality(Threads)
      BY <3>1, SmallerStale
    <3> QED BY <3>1, <3>2, ClientFacts DEF ClientInv, Learned
  <2>2. \A t \in Threads : call[t].waited < LaunchBudget
    BY ClientFacts DEF ClientInv, ClientShaped, Calls
  <2> QED BY <2>1, <2>2 DEF ClientInv, Bounded, Counted, Learned, ClientsKeepTerms
<1> QED BY ProvidersInitInv, <1>1, <1>2, PTL DEF ProvidersSpec
=============================================================================
