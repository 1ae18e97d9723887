--------------------------- MODULE GatewayProofs ---------------------------
(***************************************************************************)
(* The door of the server, for any number of workers, tokens, principals   *)
(* and sources, any limits and any pool.  The invariant GateInv has a part *)
(* for each thing that could go wrong:                                     *)
(*   DoorInv    what each stage has established of its request, and that   *)
(*              requests that must not run are before the check that       *)
(*              refuses them;                                              *)
(*   PoolInv    who is in flight holds a connection or waits for one;      *)
(*   WindowInv  the limiter's deque is the end of the history of what was  *)
(*              let through, and what it dropped is out of the window;     *)
(*   BanInv     failures on record and requests that may still add one.    *)
(***************************************************************************)
EXTENDS Gateway, SequenceTheorems, FiniteSetTheorems, WellFoundedInduction, TLAPS

Jobs ==
  [source : Sources \cup {"none"}, bearer : Bearers \cup {"none"},
   name : Names \cup {"none"}, tool : Tools \cup {NoTool}]

Placed ==
  /\ pc \in [Workers -> Stages] /\ job \in [Workers -> Jobs]
  /\ barred \subseteq Workers \X {"token", "principal"}

\* What the gates a request has passed have made sure of.
Gated ==
  \A w \in Workers :
    /\ pc[w] = "token" => job[w].bearer \in Bearers
    /\ pc[w] \in {"principal", "lookup", "limits", "run"} => job[w].bearer \in Tokens
    /\ pc[w] \in {"lookup", "limits", "run"} => job[w].name \in Names
    /\ pc[w] \in {"limits", "run"} =>
         /\ job[w].tool = Binds[job[w].name]
         /\ job[w].tool \in WriteTools => Role[job[w].bearer] = "readwrite"

\* A request that must not run is before the lookup that will refuse it.
Barring ==
  \A w \in Workers :
    /\ <<w, "token">> \in barred =>
         pc[w] = "token" /\ (job[w].bearer = Forged \/ job[w].bearer \in revoked)
    /\ <<w, "principal">> \in barred =>
         /\ pc[w] \in {"token", "principal"}
         /\ job[w].bearer \in Tokens /\ Holder[job[w].bearer] \in archived

DoorInv == Placed /\ Gated /\ Barring

-----------------------------------------------------------------------------
(* What the helpers of the actions do to a request and to the others.      *)

\* Worker w's request is at a stage with a job; the others are where they were.
Moves(w, stage, request) ==
  /\ pc' = [pc EXCEPT ![w] = stage]
  /\ job' = [job EXCEPT ![w] = request]

LEMMA NoJobTyped == NoJob \in Jobs
BY DEF NoJob, Jobs

LEMMA AnswerMoves ==
  ASSUME NEW w \in Workers, NEW a, Answer(w, a)
  PROVE  Moves(w, "idle", NoJob) /\ barred' = {x \in barred : x[1] # w}
BY DEF Answer, Respond, Moves

\* An answered request leaves nothing to keep; the door stays as it is.
LEMMA AnswerKeeps ==
  ASSUME DoorInv, NEW w \in Workers, NEW a, Answer(w, a), UNCHANGED <<revoked, archived>>
  PROVE  DoorInv'
<1>1. Moves(w, "idle", NoJob) /\ barred' = {x \in barred : x[1] # w}
  BY AnswerMoves
<1>2. Placed'
  BY <1>1, NoJobTyped DEF DoorInv, Placed, Moves, Stages
<1>3. \A v \in Workers : v # w => pc'[v] = pc[v] /\ job'[v] = job[v]
  BY <1>1 DEF DoorInv, Placed, Moves
<1>4. pc'[w] = "idle" /\ \A why : <<w, why>> \notin barred'
  BY <1>1 DEF DoorInv, Placed, Moves
<1>5. Gated'
  BY <1>3, <1>4 DEF DoorInv, Gated
<1>6. Barring'
  BY <1>1, <1>3, <1>4 DEF DoorInv, Barring
<1> QED BY <1>2, <1>5, <1>6 DEF DoorInv

\* A request that goes on, past a check that leaves nothing against it.
LEMMA PassesOn ==
  ASSUME DoorInv, UNCHANGED <<revoked, archived, barred>>,
         NEW w \in Workers, NEW stage \in {"principal", "lookup", "limits", "run"}, NEW request \in Jobs,
         Moves(w, stage, request),
         request.bearer \in Tokens,
         stage # "principal" => request.name \in Names,
         stage \in {"limits", "run"} =>
           /\ request.tool = Binds[request.name]
           /\ request.tool \in WriteTools => Role[request.bearer] = "readwrite",
         <<w, "token">> \notin barred,
         <<w, "principal">> \in barred => stage = "principal" /\ request = job[w]
  PROVE  DoorInv'
<1>1. Placed'
  BY DEF DoorInv, Placed, Moves, Stages
<1>2. \A v \in Workers : v # w => pc'[v] = pc[v] /\ job'[v] = job[v]
  BY DEF DoorInv, Placed, Moves
<1>3. pc'[w] = stage /\ job'[w] = request
  BY DEF DoorInv, Placed, Moves
<1>4. Gated'
  BY <1>2, <1>3 DEF DoorInv, Gated
<1>5. Barring'
  BY <1>2, <1>3 DEF DoorInv, Barring
<1> QED BY <1>1, <1>4, <1>5 DEF DoorInv

LEMMA AdvanceMoves ==
  ASSUME DoorInv, NEW w \in Workers, NEW stage, Advance(w, stage)
  PROVE  /\ UNCHANGED barred /\ pc' = [pc EXCEPT ![w] = stage]
         /\ UNCHANGED job => Moves(w, stage, job[w])
<1>1. job = [job EXCEPT ![w] = job[w]]
  BY DEF DoorInv, Placed
<1> QED BY <1>1 DEF Advance, Enter, Moves

-----------------------------------------------------------------------------
(* The gates.                                                              *)

LEMMA LookUpTokenKeeps ==
  ASSUME DoorInv, NEW w \in Workers, LookUpToken(w)
  PROVE  DoorInv'
<1>1. CASE job[w].bearer = Forged \/ job[w].bearer \in revoked
  BY <1>1, AnswerKeeps DEF LookUpToken, Refuse, door
<1>2. CASE ~(job[w].bearer = Forged \/ job[w].bearer \in revoked)
  <2>1. Advance(w, "principal") /\ UNCHANGED <<job, revoked, archived>> /\ pc[w] = "token"
    BY <1>2 DEF LookUpToken, door
  <2>2. Moves(w, "principal", job[w]) /\ UNCHANGED barred
    BY <2>1, AdvanceMoves
  <2>3. job[w] \in Jobs /\ job[w].bearer \in Tokens /\ <<w, "token">> \notin barred
    BY <1>2, <2>1 DEF DoorInv, Placed, Gated, Barring, Bearers
  <2> QED BY <2>1, <2>2, <2>3, PassesOn
<1> QED BY <1>1, <1>2

LEMMA AuthorizeKeeps ==
  ASSUME DoorInv, NEW w \in Workers, NEW n \in Names, UNCHANGED <<revoked, archived>>,
         job[w].bearer \in Tokens, Binds[n] \in Tools, Authorize(w, n, Binds[n]),
         \A why : <<w, why>> \notin barred
  PROVE  DoorInv'
<1>1. CASE Kind(Binds[n]) = "write" /\ Role[job[w].bearer] # "readwrite"
  BY <1>1, AnswerKeeps DEF Authorize
<1>2. CASE ~(Kind(Binds[n]) = "write" /\ Role[job[w].bearer] # "readwrite")
  <2> DEFINE request == [job[w] EXCEPT !.name = n, !.tool = Binds[n]]
  <2>1. job[w] \in Jobs
    BY DEF DoorInv, Placed
  <2>2. /\ request \in Jobs /\ request.bearer = job[w].bearer
        /\ request.name = n /\ request.tool = Binds[n]
    BY <2>1 DEF Jobs
  <2>3. Advance(w, "limits") /\ job' = [job EXCEPT ![w] = request]
    BY <1>2 DEF Authorize
  <2>4. Moves(w, "limits", request) /\ UNCHANGED barred
    BY <2>3, AdvanceMoves DEF Moves
  <2>5. request.tool \in WriteTools => Role[request.bearer] = "readwrite"
    BY <1>2, <2>2 DEF Kind
  <2> HIDE DEF request
  <2> QED BY <2>2, <2>4, <2>5, PassesOn
<1> QED BY <1>1, <1>2

LEMMA CheckPrincipalKeeps ==
  ASSUME DoorInv, NEW w \in Workers, NEW n \in Names, CheckPrincipal(w, n)
  PROVE  DoorInv'
<1>1. CASE Holder[job[w].bearer] \in archived
  BY <1>1, AnswerKeeps DEF CheckPrincipal, Refuse, door
<1>2. CASE Holder[job[w].bearer] \notin archived
  <2>1. UNCHANGED <<revoked, archived>> /\ pc[w] = "principal" /\ Dispatch(w, n)
    BY <1>2 DEF CheckPrincipal, door
  <2>2. job[w] \in Jobs /\ job[w].bearer \in Tokens /\ \A why : <<w, why>> \notin barred
    BY <1>2, <2>1 DEF DoorInv, Placed, Gated, Barring
  <2>3. CASE n \in CoreTools
    <3>1. Binds[n] = n /\ n \in Tools
      BY <2>3, GatewayAssumption
    <3>2. Authorize(w, n, Binds[n])
      BY <2>1, <2>3, <3>1 DEF Dispatch
    <3> QED BY <2>1, <2>2, <3>1, <3>2, AuthorizeKeeps
  <2>4. CASE n \notin CoreTools
    <3> DEFINE request == [job[w] EXCEPT !.name = n]
    <3>1. request \in Jobs /\ request.bearer = job[w].bearer /\ request.name = n
      BY <2>2 DEF Jobs
    <3>2. Advance(w, "lookup") /\ job' = [job EXCEPT ![w] = request]
      BY <2>1, <2>4 DEF Dispatch
    <3>3. Moves(w, "lookup", request) /\ UNCHANGED barred
      BY <3>2, AdvanceMoves DEF Moves
    <3> HIDE DEF request
    <3> QED BY <2>1, <2>2, <3>1, <3>3, PassesOn
  <2> QED BY <2>3, <2>4
<1> QED BY <1>1, <1>2

LEMMA LookUpNameKeeps ==
  ASSUME DoorInv, NEW w \in Workers, LookUpName(w)
  PROVE  DoorInv'
<1>1. UNCHANGED <<revoked, archived>> /\ pc[w] = "lookup"
  BY DEF LookUpName, door
<1>2. CASE Binds[job[w].name] = NoTool
  BY <1>1, <1>2, AnswerKeeps DEF LookUpName
<1>3. CASE Binds[job[w].name] # NoTool
  <2>1. /\ job[w].bearer \in Tokens /\ job[w].name \in Names
        /\ \A why : <<w, why>> \notin barred
    BY <1>1 DEF DoorInv, Placed, Gated, Barring
  <2>2. Binds[job[w].name] \in Tools
    BY <1>3, <2>1, GatewayAssumption
  <2>3. Authorize(w, job[w].name, Binds[job[w].name])
    BY <1>3 DEF LookUpName
  <2> QED BY <1>1, <2>1, <2>2, <2>3, AuthorizeKeeps
<1> QED BY <1>2, <1>3

LEMMA CheckRateKeeps ==
  ASSUME DoorInv, NEW w \in Workers, CheckRate(w)
  PROVE  DoorInv'
<1>1. UNCHANGED <<revoked, archived>> /\ pc[w] = "limits"
  BY DEF CheckRate, door
<1>2. (\E a : Answer(w, a)) \/ (Advance(w, "run") /\ UNCHANGED job)
  BY DEF CheckRate
<1>3. ASSUME NEW a, Answer(w, a) PROVE DoorInv'
  BY <1>1, <1>3, AnswerKeeps
<1>4. CASE Advance(w, "run") /\ UNCHANGED job
  <2>1. Moves(w, "run", job[w]) /\ UNCHANGED barred
    BY <1>4, AdvanceMoves
  <2>2. /\ job[w] \in Jobs /\ job[w].bearer \in Tokens /\ job[w].name \in Names
        /\ job[w].tool = Binds[job[w].name]
        /\ job[w].tool \in WriteTools => Role[job[w].bearer] = "readwrite"
        /\ \A why : <<w, why>> \notin barred
    BY <1>1 DEF DoorInv, Placed, Gated, Barring
  <2> QED BY <1>1, <2>1, <2>2, PassesOn
<1> QED BY <1>2, <1>3, <1>4

-----------------------------------------------------------------------------
(* Archiving, arriving, and what happens around the requests.              *)

\* Whoever archives or unarchives a principal, the barred are still barred.
LEMMA SetArchivedKeeps ==
  ASSUME DoorInv, NEW p \in Principals, NEW flag \in BOOLEAN, SetArchived(p, flag), revoked' = revoked,
         \A v \in Workers : \/ pc'[v] = pc[v] /\ job'[v] = job[v]
                            \/ \A why : <<v, why>> \notin barred
  PROVE  Barring' /\ barred' \subseteq barred
<1>1. CASE flag
  BY <1>1 DEF SetArchived, DoorInv, Placed, Barring
<1>2. CASE ~flag
  <2>1. /\ archived' = archived \ {p} /\ barred' \subseteq barred
        /\ \A v \in Workers : <<v, "principal">> \in barred' =>
             ~(job[v].bearer \in Tokens /\ Holder[job[v].bearer] = p)
    BY <1>2 DEF SetArchived
  <2> QED BY <2>1 DEF DoorInv, Placed, Barring
<1> QED BY <1>1, <1>2

LEMMA RunArchiveKeeps ==
  ASSUME DoorInv, NEW w \in Workers, NEW p \in Principals, NEW flag \in BOOLEAN, RunArchive(w, p, flag)
  PROVE  DoorInv'
<1>1. pc[w] = "run" /\ revoked' = revoked
  BY DEF RunArchive, InTool, AfterTool
<1>2. CASE Answer(w, "refused") /\ UNCHANGED archived
  BY <1>1, <1>2, AnswerKeeps
<1>3. CASE Respond(w, "done") /\ SetArchived(p, flag)
  <2>1. Moves(w, "idle", NoJob)
    BY <1>3 DEF Respond, Moves
  <2>2. \A v \in Workers : v # w => pc'[v] = pc[v] /\ job'[v] = job[v]
    BY <2>1 DEF DoorInv, Placed, Moves
  <2>3. \A why : <<w, why>> \notin barred
    BY <1>1 DEF DoorInv, Placed, Barring
  <2>4. Barring' /\ barred' \subseteq barred
    BY <1>1, <1>3, <2>2, <2>3, SetArchivedKeeps
  <2>5. Placed'
    BY <2>1, <2>4, NoJobTyped DEF DoorInv, Placed, Moves, Stages
  <2>6. pc'[w] = "idle"
    BY <2>1 DEF DoorInv, Placed, Moves
  <2>7. Gated'
    BY <2>2, <2>6 DEF DoorInv, Gated
  <2> QED BY <2>4, <2>5, <2>7 DEF DoorInv
<1> QED BY <1>2, <1>3 DEF RunArchive

LEMMA ArriveKeeps ==
  ASSUME DoorInv, NEW w \in Workers, NEW s \in Sources, NEW b \in Bearers, Arrive(w, s, b)
  PROVE  DoorInv'
<1>1. pc[w] = "idle" /\ UNCHANGED <<revoked, archived>>
  BY DEF Arrive
<1>2. CASE Banned(s)
  BY <1>1, <1>2, AnswerKeeps DEF Arrive
<1>3. CASE ~Banned(s)
  <2> DEFINE request == [source |-> s, bearer |-> b, name |-> "none", tool |-> NoTool]
  <2>1. Moves(w, "token", request) /\ barred' = barred \cup ({w} \X Faults(b))
    BY <1>3 DEF Arrive, Enter, Moves
  <2>2. request \in Jobs /\ request.bearer = b
    BY DEF Jobs
  <2> HIDE DEF request
  <2>3. /\ \A v \in Workers : v # w => pc'[v] = pc[v] /\ job'[v] = job[v]
        /\ pc'[w] = "token" /\ job'[w] = request
    BY <2>1, <2>2 DEF DoorInv, Placed, Moves
  <2>4. Placed'
    BY <2>1, <2>2 DEF DoorInv, Placed, Moves, Stages, Faults
  <2>5. Gated'
    BY <2>2, <2>3 DEF DoorInv, Gated
  <2>6. \A why : <<w, why>> \in barred' => why \in Faults(b)
    BY <1>1, <2>1 DEF DoorInv, Placed, Barring
  <2>7. /\ "token" \in Faults(b) => b = Forged \/ b \in revoked
        /\ "principal" \in Faults(b) => b \in Tokens /\ Holder[b] \in archived
    BY GatewayAssumption DEF Faults, Bearers
  <2>8. Barring'
    BY <1>1, <2>1, <2>2, <2>3, <2>6, <2>7 DEF DoorInv, Barring
  <2> QED BY <2>4, <2>5, <2>8 DEF DoorInv
<1> QED BY <1>2, <1>3

LEMMA DoorInit == Init => DoorInv
BY NoJobTyped DEF Init, DoorInv, Placed, Gated, Barring, Stages

LEMMA DoorStep == DoorInv /\ [Next]_vars => DoorInv'
<1> SUFFICES ASSUME DoorInv, [Next]_vars PROVE DoorInv' OBVIOUS
<1>1. ASSUME NEW w \in Workers, NEW s \in Sources, NEW b \in Bearers, Arrive(w, s, b) PROVE DoorInv'
  BY <1>1, ArriveKeeps
<1>2. ASSUME NEW w \in Workers, Serve(w) PROVE DoorInv'
  <2>1. CASE RunTool(w)
    BY <2>1, AnswerKeeps DEF RunTool, AfterTool
  <2> QED
    BY <1>2, <2>1, LookUpTokenKeeps, CheckPrincipalKeeps, LookUpNameKeeps, CheckRateKeeps,
       RunArchiveKeeps DEF Serve
<1>3. ASSUME NEW w \in Workers, Abort(w) PROVE DoorInv'
  BY <1>3, AnswerKeeps DEF Abort, door
<1>4. ASSUME NEW t \in Tokens, Revoke(t) PROVE DoorInv'
  <2>1. UNCHANGED <<pc, job, barred, archived>> /\ revoked' = revoked \cup {t}
    BY <1>4 DEF Revoke, Change
  <2> QED BY <2>1 DEF DoorInv, Placed, Gated, Barring
<1>5. ASSUME NEW p \in Principals, NEW flag \in BOOLEAN, OperatorArchives(p, flag) PROVE DoorInv'
  <2>1. UNCHANGED <<pc, job, revoked>> /\ SetArchived(p, flag)
    BY <1>5 DEF OperatorArchives, Change
  <2>2. Barring' /\ barred' \subseteq barred
    BY <2>1, SetArchivedKeeps
  <2> QED BY <2>1, <2>2 DEF DoorInv, Placed, Gated
<1>6. CASE Tick \/ Done \/ UNCHANGED vars
  <2>1. UNCHANGED <<pc, job, barred, revoked, archived>>
    BY <1>6 DEF Tick, Done, vars, door
  <2> QED BY <2>1 DEF DoorInv, Placed, Gated, Barring
<1>7. CASE Restart
  <2>1. pc' = [w \in Workers |-> "idle"] /\ job' = [w \in Workers |-> NoJob] /\ barred' = {}
    BY <1>7 DEF Restart
  <2> QED BY <2>1, NoJobTyped DEF DoorInv, Placed, Gated, Barring, Stages
<1> QED BY <1>1, <1>2, <1>3, <1>4, <1>5, <1>6, <1>7 DEF Next

\* Only the tool answers that a request is done.
LEMMA DoneInTool ==
  ASSUME Placed, [Next]_vars, NEW w \in Workers, Answered(w, "done")
  PROVE  pc[w] = "run"
<1>1. answer' = "done" /\ pc'[w] # pc[w]
  BY DEF Answered
<1>2. \A v, a : Answer(v, a) \/ Respond(v, a) => answer' = a /\ pc' = [pc EXCEPT ![v] = "idle"]
  BY DEF Answer, Respond
<1>3. \A v, stage : Enter(v, stage) \/ Advance(v, stage) => answer' = "none"
  BY DEF Advance, Enter
<1>4. ASSUME NEW v \in Workers, NEW s \in Sources, NEW b \in Bearers, Arrive(v, s, b) PROVE FALSE
  BY <1>1, <1>2, <1>3, <1>4 DEF Arrive
<1>5. \A v, n, tool : Authorize(v, n, tool) => answer' # "done"
  BY <1>2, <1>3 DEF Authorize
<1>6. ASSUME NEW v \in Workers, LookUpToken(v) \/ LookUpName(v) \/ CheckRate(v) \/ Abort(v) PROVE FALSE
  <2>1. CASE LookUpToken(v) \/ Abort(v)
    BY <1>1, <1>2, <1>3, <2>1 DEF LookUpToken, Abort, Refuse
  <2>2. CASE LookUpName(v)
    BY <1>1, <1>2, <1>5, <2>2 DEF LookUpName
  <2>3. CASE CheckRate(v)
    BY <1>1, <1>2, <1>3, <2>3 DEF CheckRate
  <2> QED BY <1>6, <2>1, <2>2, <2>3
<1>7. ASSUME NEW v \in Workers, NEW n \in Names, CheckPrincipal(v, n) PROVE FALSE
  BY <1>1, <1>2, <1>3, <1>5, <1>7 DEF CheckPrincipal, Dispatch, Refuse
<1>8. ASSUME NEW v \in Workers, RunTool(v) \/ \E p \in Principals, flag \in BOOLEAN : RunArchive(v, p, flag)
      PROVE  pc[w] = "run"
  <2>1. pc[v] = "run" /\ \E a : Answer(v, a) \/ Respond(v, a)
    BY <1>8 DEF RunTool, RunArchive, InTool
  <2>2. pc' = [pc EXCEPT ![v] = "idle"]
    BY <1>2, <2>1
  <2> QED BY <1>1, <2>1, <2>2 DEF Placed
<1>9. CASE \/ Tick \/ Restart \/ Done \/ UNCHANGED vars
           \/ \E t \in Tokens : Revoke(t)
           \/ \E p \in Principals, flag \in BOOLEAN : OperatorArchives(p, flag)
  BY <1>1, <1>9 DEF Tick, Restart, Done, vars, Revoke, OperatorArchives, Change
<1> QED BY <1>4, <1>6, <1>7, <1>8, <1>9 DEF Next, Serve

\* A request that arrived with a token revoked by then, or of a principal archived
\* from then on, never runs; a readonly token never runs a write, under whatever
\* name it was called (resolve_token, require_active_principal, require_write).
THEOREM OnlyAuthorizedRun == Spec => RunsAuthorized
<1>1. DoorInv /\ [Next]_vars =>
        [\A w \in Workers : Answered(w, "done") =>
           /\ \A x \in barred : x[1] # w
           /\ Binds[job[w].name] \in WriteTools => Role[job[w].bearer] = "readwrite"]_vars
  <2> SUFFICES ASSUME DoorInv, [Next]_vars, NEW w \in Workers, Answered(w, "done")
               PROVE  /\ \A x \in barred : x[1] # w
                      /\ Binds[job[w].name] \in WriteTools => Role[job[w].bearer] = "readwrite"
    OBVIOUS
  <2>1. pc[w] = "run"
    BY DoneInTool DEF DoorInv
  <2>2. barred \subseteq Workers \X {"token", "principal"}
    BY DEF DoorInv, Placed
  <2>3. <<w, "token">> \notin barred /\ <<w, "principal">> \notin barred
    BY <2>1 DEF DoorInv, Barring
  <2> QED BY <2>1, <2>2, <2>3 DEF DoorInv, Gated
<1> QED BY <1>1, DoorInit, DoorStep, PTL DEF Spec, RunsAuthorized
-----------------------------------------------------------------------------
(* The sliding window of a deque.                                          *)

\* A nonempty set of naturals has a least element.
LEMMA Least ==
  ASSUME NEW T, T \subseteq Nat, T # {}
  PROVE  \E m \in T : \A k \in T : m <= k
<1> DEFINE R == OpToRel(<, Nat)
<1>1. IsWellFoundedOn(R, Nat)
  BY NatLessThanWellFounded
<1>2. \A x, y \in Nat : y < x => <<y, x>> \in R
  BY DEF OpToRel
<1> HIDE DEF R
<1>3. PICK m \in T : \A y \in T : ~ (<<y, m>> \in R)
  BY <1>1, WFMin
<1>4. ASSUME NEW k \in T PROVE m <= k
  <2>1. k \in Nat /\ m \in Nat /\ ~(k < m)
    BY <1>2, <1>3
  <2> QED BY <2>1
<1> QED BY <1>4

Times == Seq(Nat)

\* popleft stops at the first entry after the cutoff, or takes them all.
LEMMA PoppedStops ==
  ASSUME NEW ts \in Times, NEW c \in Int
  PROVE  /\ Len(ts) \in Nat /\ \A i \in 1..Len(ts) : ts[i] \in Nat
         /\ Popped(ts, c) \in 0..Len(ts)
         /\ \A i \in 1..Popped(ts, c) : ts[i] <= c
         /\ Popped(ts, c) < Len(ts) => ts[Popped(ts, c) + 1] > c
<1>1. Len(ts) \in Nat
  BY LenProperties, Zenon DEF Times
<1>2. \A i \in 1..Len(ts) : ts[i] \in Nat
  BY ElementOfSeq, Zenon DEF Times
<1> DEFINE n == Len(ts)
           T == {i \in 1..n : ts[i] > c}
           Stop(k) == /\ \A i \in 1..k : ts[i] <= c
                      /\ k < n => ts[k + 1] > c
<1>3. \A i \in 1..n : ts[i] \in Int
  BY <1>2
<1>4. \E k \in 0..n : Stop(k)
  <2>1. CASE T = {}
    <3>1. \A i \in 1..n : ts[i] <= c
      BY <1>3, <2>1
    <3> HIDE DEF n
    <3>2. n \in 0..n /\ ~(n < n)
      BY <1>1 DEF n
    <3> QED BY <3>1, <3>2
  <2>2. CASE T # {}
    <3>1. PICK m \in T : \A k \in T : m <= k
      <4>1. T \subseteq Nat
        OBVIOUS
      <4> HIDE DEF T
      <4> QED BY <2>2, <4>1, Least
    <3>2. m \in 1..n /\ ts[m] > c
      BY <3>1
    <3>3. \A i \in 1..(m - 1) : ts[i] <= c
      <4>1. ASSUME NEW i \in 1..(m - 1) PROVE ts[i] <= c
        <5>1. i \in 1..n /\ i \notin T
          BY <1>1, <3>1, <3>2, <4>1
        <5> QED BY <1>3, <5>1
      <4> QED BY <4>1
    <3>4. m - 1 \in 0..n /\ (m - 1) + 1 = m
      BY <1>1, <3>2
    <3> HIDE DEF n, T
    <3> QED BY <3>2, <3>3, <3>4
  <2> QED BY <2>1, <2>2
<1>5. Popped(ts, c) = CHOOSE k \in 0..n : Stop(k)
  BY DEF Popped
<1> HIDE DEF Stop, n
<1>6. Popped(ts, c) \in 0..n /\ Stop(Popped(ts, c))
  BY <1>4, <1>5
<1> QED BY <1>1, <1>2, <1>6 DEF Stop, n

\* What is left, entry by entry.
LEMMA AfterEntries ==
  ASSUME NEW ts \in Times, NEW c \in Int
  PROVE  /\ After(ts, c) \in Times
         /\ Len(After(ts, c)) = Len(ts) - Popped(ts, c)
         /\ \A i \in 1..Len(After(ts, c)) :
              After(ts, c)[i] = ts[Popped(ts, c) + i]
<1> DEFINE k == Popped(ts, c)
           bs == After(ts, c)
<1>1. /\ Len(ts) \in Nat /\ \A i \in 1..Len(ts) : ts[i] \in Nat
      /\ k \in 0..Len(ts)
  BY PoppedStops
<1>2. k + 1 \in Int /\ Len(ts) \in Int
  BY <1>1
<1>3. \A i \in (k + 1)..Len(ts) : ts[i] \in Nat
  BY <1>1
<1>4. bs = SubSeq(ts, k + 1, Len(ts))
  BY DEF After
<1> HIDE DEF k, bs
<1>5. /\ bs \in Seq(Nat)
      /\ Len(bs) = IF k + 1 <= Len(ts) THEN Len(ts) - (k + 1) + 1 ELSE 0
      /\ \A i \in 1..Len(ts) - (k + 1) + 1 : bs[i] = ts[(k + 1) + i - 1]
  BY <1>2, <1>3, <1>4, SubSeqProperties
<1>6. Len(bs) = Len(ts) - k
  BY <1>1, <1>5
<1>7. \A i \in 1..Len(bs) : bs[i] = ts[k + i]
  <2>1. ASSUME NEW i \in 1..Len(bs) PROVE bs[i] = ts[k + i]
    <3>1. i \in 1..Len(ts) - (k + 1) + 1 /\ (k + 1) + i - 1 = k + i
      BY <1>1, <1>6, <2>1
    <3> QED BY <1>5, <3>1
  <2> QED BY <2>1
<1> QED BY <1>5, <1>6, <1>7 DEF k, bs, Times

\* A later cutoff leaves no more.
LEMMA AfterLater ==
  ASSUME NEW ts \in Times, NEW c \in Int, NEW d \in Int, c <= d
  PROVE  Len(After(ts, d)) <= Len(After(ts, c))
<1> DEFINE j == Popped(ts, c)
           k == Popped(ts, d)
<1>1. /\ Len(ts) \in Nat /\ \A i \in 1..Len(ts) : ts[i] \in Nat
      /\ j \in 0..Len(ts) /\ k \in 0..Len(ts)
      /\ \A i \in 1..j : ts[i] <= c
      /\ k < Len(ts) => ts[k + 1] > d
  BY PoppedStops
<1>2. Len(After(ts, c)) = Len(ts) - j /\ Len(After(ts, d)) = Len(ts) - k
  BY AfterEntries
<1> HIDE DEF j, k
<1>3. j <= k
  <2> SUFFICES ASSUME k < j PROVE FALSE
    BY <1>1
  <2>1. k < Len(ts) /\ k + 1 \in 1..j /\ k + 1 \in 1..Len(ts)
    BY <1>1
  <2>2. ts[k + 1] \in Int /\ ts[k + 1] > d /\ ts[k + 1] <= c
    BY <1>1, <2>1
  <2> QED BY <2>2
<1> QED BY <1>1, <1>2, <1>3

\* Deques whose first entry, if any, is after the cutoff.
Current(ts, c) == ts # <<>> => ts[1] > c

\* Such a deque stays.
LEMMA CurrentStays ==
  ASSUME NEW ts \in Times, NEW c \in Int, Current(ts, c)
  PROVE  Len(After(ts, c)) = Len(ts)
<1> DEFINE k == Popped(ts, c)
<1>1. /\ Len(ts) \in Nat /\ \A i \in 1..Len(ts) : ts[i] \in Nat
      /\ k \in 0..Len(ts)
      /\ \A i \in 1..k : ts[i] <= c
  BY PoppedStops
<1>2. Len(After(ts, c)) = Len(ts) - k
  BY AfterEntries
<1> HIDE DEF k
<1>3. k = 0
  <2> SUFFICES ASSUME k # 0 PROVE FALSE
    OBVIOUS
  <2>1. 1 \in 1..k /\ 1 \in 1..Len(ts)
    BY <1>1
  <2>2. ts # <<>>
    BY <2>1
  <2>3. ts[1] \in Int /\ ts[1] <= c /\ ts[1] > c
    BY <1>1, <2>1, <2>2 DEF Current
  <2> QED BY <2>3
<1> QED BY <1>1, <1>2, <1>3

\* Pruning leaves such a deque, and so does recording an entry after it.
LEMMA AfterCurrent ==
  ASSUME NEW ts \in Times, NEW c \in Int, NEW t \in Nat, t > c
  PROVE  /\ Current(After(ts, c), c)
         /\ Append(After(ts, c), t) \in Times
         /\ Len(Append(After(ts, c), t)) = Len(After(ts, c)) + 1
         /\ \A i \in 1..Len(After(ts, c)) :
              Append(After(ts, c), t)[i] = After(ts, c)[i]
         /\ Append(After(ts, c), t)[Len(After(ts, c)) + 1] = t
         /\ Current(Append(After(ts, c), t), c)
<1> DEFINE k == Popped(ts, c)
           bs == After(ts, c)
<1>1. /\ Len(ts) \in Nat /\ \A i \in 1..Len(ts) : ts[i] \in Nat
      /\ k \in 0..Len(ts)
      /\ k < Len(ts) => ts[k + 1] > c
  BY PoppedStops
<1>2. /\ bs \in Times /\ Len(bs) = Len(ts) - k
      /\ \A i \in 1..Len(bs) : bs[i] = ts[k + i]
  BY AfterEntries
<1> HIDE DEF k, bs
<1>3. Len(bs) \in Nat
  BY <1>1, <1>2
<1>4. bs # <<>> => Len(bs) # 0
  BY <1>2, EmptySeq, Zenon DEF Times
<1>5. Current(bs, c)
  <2> SUFFICES ASSUME bs # <<>> PROVE bs[1] > c
    BY DEF Current
  <2>1. Len(bs) # 0
    BY <1>4
  <2>2. 1 \in 1..Len(bs) /\ k < Len(ts) /\ k \in Int
    BY <1>1, <1>2, <1>3, <2>1
  <2>3. bs[1] = ts[k + 1]
    BY <1>2, <2>2
  <2> QED BY <1>1, <2>2, <2>3
<1>6. /\ Append(bs, t) \in Times /\ Len(Append(bs, t)) = Len(bs) + 1
  BY <1>2, AppendProperties, Zenon DEF Times
<1>7. /\ \A i \in 1..Len(bs) : Append(bs, t)[i] = bs[i]
      /\ Append(bs, t)[Len(bs) + 1] = t
  <2>1. bs \in Seq(Nat)
    BY <1>2 DEF Times
  <2> QED BY <2>1, AppendProperties
<1>8. Current(Append(bs, t), c)
  <2>1. CASE bs = <<>>
    <3>1. Len(bs) = 0
      BY <2>1
    <3> QED BY <1>7, <3>1 DEF Current
  <2>2. CASE bs # <<>>
    <3>1. 1 \in 1..Len(bs)
      BY <1>3, <1>4, <2>2
    <3> QED BY <1>5, <1>7, <2>2, <3>1 DEF Current
  <2> QED BY <2>1, <2>2
<1> QED BY <1>5, <1>6, <1>7, <1>8 DEF bs
\* Entries stay of their type, whatever it is, under pruning and recording.
LEMMA AfterTyped ==
  ASSUME NEW S, S \subseteq Nat, NEW ts \in Seq(S), NEW c \in Int
  PROVE  ts \in Times /\ After(ts, c) \in Seq(S)
<1>1. ts \in Times
  BY SeqMonotonic, Zenon DEF Times
<1>2. Len(ts) \in Nat /\ Popped(ts, c) \in 0..Len(ts)
  BY <1>1, PoppedStops
<1>3. \A i \in (Popped(ts, c) + 1)..Len(ts) : ts[i] \in S
  <2>1. ASSUME NEW i \in (Popped(ts, c) + 1)..Len(ts) PROVE ts[i] \in S
    <3>1. i \in 1..Len(ts)
      BY <1>2, <2>1
    <3> QED BY <3>1, ElementOfSeq, Zenon
  <2> QED BY <2>1
<1>4. Popped(ts, c) + 1 \in Int /\ Len(ts) \in Int
  BY <1>2
<1>5. After(ts, c) \in Seq(S)
  BY <1>3, <1>4, SubSeqProperties DEF After
<1> QED BY <1>1, <1>5

\* Entries in time order, d of them up to a cutoff: the others are the window.
LEMMA InWindow ==
  ASSUME NEW ts \in Times, NEW c \in Int, NEW hi \in Int, NEW d \in 0..Len(ts),
         \A i, j \in 1..Len(ts) : i <= j => ts[i] <= ts[j],
         \A i \in 1..Len(ts) : ts[i] <= hi,
         \A i \in 1..d : ts[i] <= c,
         d < Len(ts) => ts[d + 1] > c
  PROVE  Cardinality({i \in 1..Len(ts) : ts[i] \in (c + 1)..hi}) = Len(ts) - d
<1>1. Len(ts) \in Nat /\ \A i \in 1..Len(ts) : ts[i] \in Nat
  BY PoppedStops
<1>2. ASSUME NEW i \in 1..Len(ts) PROVE ts[i] \in (c + 1)..hi <=> i > d
  <2>1. ts[i] \in Nat /\ ts[i] <= hi /\ i \in Int /\ d \in Int
    BY <1>1, <1>2
  <2>2. CASE i > d
    <3>1. d < Len(ts) /\ d + 1 \in 1..Len(ts) /\ d + 1 <= i
      BY <1>1, <1>2, <2>1, <2>2
    <3>2. ts[d + 1] \in Nat /\ ts[d + 1] > c /\ ts[d + 1] <= ts[i]
      BY <1>1, <1>2, <3>1
    <3> QED BY <2>1, <2>2, <3>2
  <2>3. CASE ~(i > d)
    <3>1. i \in 1..d
      BY <1>2, <2>1, <2>3
    <3> QED BY <2>1, <2>3, <3>1
  <2> QED BY <2>2, <2>3
<1>3. {i \in 1..Len(ts) : ts[i] \in (c + 1)..hi} = (d + 1)..Len(ts)
  <2>1. \A i \in 1..Len(ts) : i > d <=> i \in (d + 1)..Len(ts)
    BY <1>1
  <2>2. \A i \in (d + 1)..Len(ts) : i \in 1..Len(ts)
    BY <1>1
  <2> QED BY <1>2, <2>1, <2>2, Zenon
<1>4. Cardinality((d + 1)..Len(ts)) = IF d + 1 > Len(ts) THEN 0 ELSE Len(ts) - (d + 1) + 1
  <2>1. d + 1 \in Int /\ Len(ts) \in Int
    BY <1>1
  <2> QED BY <2>1, FS_Interval
<1>5. (IF d + 1 > Len(ts) THEN 0 ELSE Len(ts) - (d + 1) + 1) = Len(ts) - d
  BY <1>1
<1> QED BY <1>3, <1>4, <1>5

-----------------------------------------------------------------------------
(* The line for connections.                                               *)

\* Workers, each at one place at most.
Line(q) ==
  /\ q \in Seq(Workers)
  /\ \A i, j \in 1..Len(q) : q[i] = q[j] => i = j

LEMMA LineTail ==
  ASSUME NEW q, Line(q), q # <<>>
  PROVE  /\ Line(Tail(q)) /\ Head(q) \in Workers
         /\ Head(q) \in InLine(q)
         /\ InLine(Tail(q)) = InLine(q) \ {Head(q)}
<1>1. q \in Seq(Workers) /\ \A i, j \in 1..Len(q) : q[i] = q[j] => i = j
  BY DEF Line
<1>2. Len(q) \in Nat /\ Len(q) # 0
  BY <1>1, EmptySeq, Zenon
<1>3. /\ Tail(q) \in Seq(Workers) /\ Len(Tail(q)) = Len(q) - 1
      /\ \A i \in 1..Len(Tail(q)) : Tail(q)[i] = q[i + 1]
  BY <1>1, HeadTailProperties
<1>4. Head(q) = q[1] /\ 1 \in 1..Len(q)
  BY <1>1, <1>2
<1>5. Head(q) \in Workers
  <2>1. q[1] \in Workers
    BY <1>1, <1>4, ElementOfSeq, Zenon
  <2> QED BY <1>4, <2>1
<1>6. \A i \in 1..Len(Tail(q)) : i + 1 \in 1..Len(q) /\ i + 1 # 1 /\ i \in Int
  BY <1>2, <1>3
<1>7. \A i \in 1..Len(q) : i # 1 => i - 1 \in 1..Len(Tail(q)) /\ (i - 1) + 1 = i
  BY <1>2, <1>3
<1>8. Line(Tail(q))
  <2>1. ASSUME NEW i \in 1..Len(Tail(q)), NEW j \in 1..Len(Tail(q)),
               Tail(q)[i] = Tail(q)[j]
        PROVE  i = j
    <3>1. i + 1 = j + 1
      BY <1>1, <1>3, <1>6, <2>1
    <3> QED BY <1>6, <2>1, <3>1
  <2> QED BY <1>3, <2>1 DEF Line
<1>9. InLine(Tail(q)) = InLine(q) \ {Head(q)}
  <2>1. ASSUME NEW w, w \in InLine(Tail(q)) PROVE w \in InLine(q) \ {Head(q)}
    <3>1. PICK i \in 1..Len(Tail(q)) : w = q[i + 1]
      BY <1>3, <2>1 DEF InLine
    <3> QED BY <1>1, <1>4, <1>6, <3>1 DEF InLine
  <2>2. ASSUME NEW w, w \in InLine(q) \ {Head(q)} PROVE w \in InLine(Tail(q))
    <3>1. PICK i \in 1..Len(q) : w = q[i] /\ i # 1
      BY <1>4, <2>2 DEF InLine
    <3>2. i - 1 \in 1..Len(Tail(q)) /\ Tail(q)[i - 1] = w
      BY <1>3, <1>7, <3>1
    <3> QED BY <3>2, Zenon DEF InLine
  <2> QED BY <2>1, <2>2
<1> QED BY <1>4, <1>5, <1>8, <1>9 DEF InLine

LEMMA LineAppend ==
  ASSUME NEW q, Line(q), NEW w \in Workers, w \notin InLine(q)
  PROVE  /\ Line(Append(q, w))
         /\ InLine(Append(q, w)) = InLine(q) \cup {w}
<1>1. q \in Seq(Workers) /\ \A i, j \in 1..Len(q) : q[i] = q[j] => i = j
  BY DEF Line
<1>2. Len(q) \in Nat
  BY <1>1, LenProperties, Zenon
<1> DEFINE r == Append(q, w)
           n == Len(q) + 1
<1>3. /\ r \in Seq(Workers) /\ Len(r) = n
      /\ \A i \in 1..Len(q) : r[i] = q[i]
      /\ r[n] = w
  BY <1>1, AppendProperties
<1>4. \A i \in 1..n : i \in 1..Len(q) \/ i = n
  BY <1>2
<1>5. n \in 1..n /\ \A i \in 1..Len(q) : i \in 1..n
  BY <1>2
<1>6. \A i \in 1..Len(q) : q[i] # w
  BY DEF InLine
<1> HIDE DEF r, n
<1>7. Line(r)
  BY <1>1, <1>3, <1>4, <1>6 DEF Line
<1>8. InLine(r) = InLine(q) \cup {w}
  BY <1>3, <1>4, <1>5 DEF InLine
<1> QED BY <1>7, <1>8 DEF r

LEMMA LineWithout ==
  ASSUME NEW q, Line(q), NEW w
  PROVE  /\ Line(Without(q, w))
         /\ InLine(Without(q, w)) = InLine(q) \ {w}
<1>1. q \in Seq(Workers) /\ \A i, j \in 1..Len(q) : q[i] = q[j] => i = j
  BY DEF Line
<1>2. Len(q) \in Nat
  BY <1>1, LenProperties, Zenon
<1>3. CASE w \notin InLine(q)
  BY <1>3 DEF Without
<1>4. CASE w \in InLine(q)
  <2> DEFINE i == CHOOSE i \in 1..Len(q) : q[i] = w
             s == SubSeq(q, 1, i - 1)
             t == SubSeq(q, i + 1, Len(q))
             r == Without(q, w)
  <2>1. i \in 1..Len(q) /\ q[i] = w
    BY <1>4 DEF InLine
  <2>2. r = s \o t
    BY <1>4 DEF Without
  <2> HIDE DEF i
  <2>3. i \in Int /\ 1 <= i /\ i <= Len(q) /\ i - 1 \in Int /\ i + 1 \in Int /\ Len(q) \in Int
    BY <1>2, <2>1
  <2>4. \A j \in 1..Len(q) : q[j] \in Workers
    BY <1>1, ElementOfSeq, Zenon
  <2>5. /\ \A j \in 1..(i - 1) : j \in 1..Len(q)
        /\ \A j \in (i + 1)..Len(q) : j \in 1..Len(q)
    BY <2>3
  <2>6. /\ s \in Seq(Workers) /\ Len(s) = i - 1
        /\ \A j \in 1..(i - 1) : s[j] = q[j]
    <3>1. /\ s \in Seq(Workers) /\ Len(s) = IF 1 <= i - 1 THEN (i - 1) - 1 + 1 ELSE 0
          /\ \A j \in 1..(i - 1) - 1 + 1 : s[j] = q[1 + j - 1]
      BY <2>3, <2>4, <2>5, SubSeqProperties
    <3>2. \A j \in 1..(i - 1) : 1 + j - 1 = j /\ j \in 1..(i - 1) - 1 + 1
      BY <2>3
    <3>3. (IF 1 <= i - 1 THEN (i - 1) - 1 + 1 ELSE 0) = i - 1
      BY <2>3
    <3> HIDE DEF s
    <3> QED BY <3>1, <3>2, <3>3
  <2>7. /\ t \in Seq(Workers) /\ Len(t) = Len(q) - i
        /\ \A j \in 1..(Len(q) - i) : t[j] = q[i + j]
    <3>1. /\ t \in Seq(Workers)
          /\ Len(t) = IF i + 1 <= Len(q) THEN Len(q) - (i + 1) + 1 ELSE 0
          /\ \A j \in 1..Len(q) - (i + 1) + 1 : t[j] = q[(i + 1) + j - 1]
      BY <2>3, <2>4, <2>5, SubSeqProperties
    <3>2. \A j \in 1..(Len(q) - i) : (i + 1) + j - 1 = i + j /\ j \in 1..Len(q) - (i + 1) + 1
      BY <2>3
    <3>3. (IF i + 1 <= Len(q) THEN Len(q) - (i + 1) + 1 ELSE 0) = Len(q) - i
      BY <2>3
    <3> HIDE DEF t
    <3> QED BY <3>1, <3>2, <3>3
  <2> HIDE DEF s, t, r
  <2>8. /\ r \in Seq(Workers) /\ Len(r) = Len(q) - 1
        /\ \A j \in 1..(Len(q) - 1) : r[j] = q[IF j < i THEN j ELSE j + 1]
    <3>1. /\ r \in Seq(Workers) /\ Len(r) = Len(s) + Len(t)
          /\ \A j \in 1..Len(s) + Len(t) :
               r[j] = IF j <= Len(s) THEN s[j] ELSE t[j - Len(s)]
      BY <2>2, <2>6, <2>7, ConcatProperties
    <3>2. Len(s) + Len(t) = Len(q) - 1
      BY <2>3, <2>6, <2>7
    <3>3. ASSUME NEW j \in 1..(Len(q) - 1)
          PROVE  r[j] = q[IF j < i THEN j ELSE j + 1]
      <4>1. r[j] = IF j <= Len(s) THEN s[j] ELSE t[j - Len(s)]
        BY <3>1, <3>2
      <4>2. CASE j < i
        <5>1. j <= Len(s) /\ j \in 1..(i - 1)
          BY <2>3, <2>6, <3>3, <4>2
        <5> QED BY <2>6, <4>1, <4>2, <5>1
      <4>3. CASE ~(j < i)
        <5>1. /\ ~(j <= Len(s)) /\ j - Len(s) \in 1..(Len(q) - i)
              /\ i + (j - Len(s)) = j + 1
          BY <2>3, <2>6, <3>3, <4>3
        <5> QED BY <2>7, <4>1, <4>3, <5>1
      <4> QED BY <4>2, <4>3
    <3> QED BY <3>1, <3>2, <3>3
  <2> DEFINE place(j) == IF j < i THEN j ELSE j + 1
  <2>9. \A j \in 1..(Len(q) - 1) : place(j) \in 1..Len(q) /\ place(j) # i
    BY <2>3
  <2>10. \A j, k \in 1..(Len(q) - 1) : place(j) = place(k) => j = k
    BY <2>3
  <2>11. \A k \in 1..Len(q) : k # i => \E j \in 1..(Len(q) - 1) : place(j) = k
    <3> SUFFICES ASSUME NEW k \in 1..Len(q), k # i
                 PROVE  \E j \in 1..(Len(q) - 1) : place(j) = k
      OBVIOUS
    <3>1. CASE k < i
      <4>1. k \in 1..(Len(q) - 1) /\ place(k) = k
        BY <2>3, <3>1
      <4> QED BY <4>1, Zenon
    <3>2. CASE ~(k < i)
      <4>1. k - 1 \in 1..(Len(q) - 1) /\ place(k - 1) = k
        BY <2>3, <3>2
      <4> QED BY <4>1, Zenon
    <3> QED BY <3>1, <3>2
  <2>12. \A j \in 1..(Len(q) - 1) : r[j] = q[place(j)]
    BY <2>8
  <2> HIDE DEF place
  <2>13. Line(r)
    BY <1>1, <2>8, <2>9, <2>10, <2>12 DEF Line
  <2>14. InLine(r) = InLine(q) \ {w}
    <3>1. ASSUME NEW v, v \in InLine(r) PROVE v \in InLine(q) \ {w}
      <4>1. PICK j \in 1..(Len(q) - 1) : v = q[place(j)]
        BY <2>8, <2>12, <3>1 DEF InLine
      <4> QED BY <1>1, <2>1, <2>9, <4>1 DEF InLine
    <3>2. ASSUME NEW v, v \in InLine(q) \ {w} PROVE v \in InLine(r)
      <4>1. PICK k \in 1..Len(q) : v = q[k] /\ k # i
        BY <2>1, <3>2 DEF InLine
      <4>2. PICK j \in 1..(Len(q) - 1) : place(j) = k
        BY <2>11, <4>1
      <4>3. j \in 1..Len(r) /\ r[j] = v
        BY <2>8, <2>12, <4>1, <4>2
      <4> QED BY <4>3, Zenon DEF InLine
    <3> QED BY <3>1, <3>2
  <2> QED BY <2>13, <2>14 DEF r
<1> QED BY <1>3, <1>4
\* A handover keeps who holds a connection or waits for one.
LEMMA HandoverServes ==
  ASSUME NEW q, NEW b, Line(q), b \subseteq Workers, Cardinality(b) <= PoolSize,
         b \cap InLine(q) = {}, Handover(q, b)
  PROVE  /\ Line(queue') /\ busy' \subseteq Workers
         /\ Cardinality(busy') <= PoolSize
         /\ busy' \cap InLine(queue') = {}
         /\ busy' \cup InLine(queue') = b \cup InLine(q)
<1>1. CASE q # <<>> /\ Cardinality(b) < PoolSize
  <2>1. queue' = Tail(q) /\ busy' = b \cup {Head(q)}
    BY <1>1 DEF Handover
  <2>2. /\ Line(Tail(q)) /\ Head(q) \in Workers /\ Head(q) \in InLine(q)
        /\ InLine(Tail(q)) = InLine(q) \ {Head(q)}
    BY <1>1, LineTail
  <2>3. Cardinality(b \cup {Head(q)}) <= PoolSize
    <3>1. IsFiniteSet(b)
      BY GatewayAssumption, FS_Subset
    <3>2. /\ Cardinality(b) \in Nat
          /\ Cardinality(b \cup {Head(q)}) =
               IF Head(q) \in b THEN Cardinality(b) ELSE Cardinality(b) + 1
      BY <3>1, FS_CardinalityType, FS_AddElement
    <3>3. PoolSize \in Nat
      BY GatewayAssumption
    <3> QED BY <1>1, <3>2, <3>3
  <2> QED BY <2>1, <2>2, <2>3
<1>2. CASE ~(q # <<>> /\ Cardinality(b) < PoolSize)
  BY <1>2 DEF Handover
<1> QED BY <1>1, <1>2

\* The requests in flight are those that hold a connection or wait for one, at
\* most PoolSize of them the former.
PoolInv ==
  /\ Line(queue) /\ busy \subseteq Workers
  /\ Cardinality(busy) <= PoolSize
  /\ busy \cap InLine(queue) = {}
  /\ busy \cup InLine(queue) = {w \in Workers : pc[w] # "idle"}

LEMMA ReleasedFits ==
  ASSUME PoolInv, NEW w
  PROVE  busy \ {w} \subseteq Workers /\ Cardinality(busy \ {w}) <= PoolSize
<1>1. IsFiniteSet(busy)
  BY GatewayAssumption, FS_Subset DEF PoolInv
<1>2. /\ Cardinality(busy) \in Nat /\ Cardinality(busy \ {w}) \in Nat
      /\ Cardinality(busy \ {w}) <= Cardinality(busy)
  <2>1. busy \ {w} \in SUBSET busy
    OBVIOUS
  <2> QED BY <1>1, <2>1, FS_Subset, FS_CardinalityType
<1>3. Cardinality(busy) <= PoolSize /\ PoolSize \in Nat
  BY GatewayAssumption DEF PoolInv
<1>4. Cardinality(busy \ {w}) <= PoolSize
  BY <1>2, <1>3
<1> QED BY <1>4 DEF PoolInv

\* A request enters a stage at the end of the line, its connection given back.
LEMMA EnterPool ==
  ASSUME PoolInv, Placed, NEW w \in Workers, NEW stage, stage # "idle",
         ~Waits(w), Enter(w, stage)
  PROVE  PoolInv'
<1>1. Line(queue) /\ w \notin InLine(queue)
  BY DEF PoolInv, Waits
<1>2. /\ Line(Append(queue, w))
      /\ InLine(Append(queue, w)) = InLine(queue) \cup {w}
  BY <1>1, LineAppend
<1>3. busy \ {w} \subseteq Workers /\ Cardinality(busy \ {w}) <= PoolSize
  BY ReleasedFits
<1>4. (busy \ {w}) \cap InLine(Append(queue, w)) = {}
  BY <1>2 DEF PoolInv
<1>5. Handover(Append(queue, w), busy \ {w}) /\ pc' = [pc EXCEPT ![w] = stage]
  BY DEF Enter
<1>6. /\ Line(queue') /\ busy' \subseteq Workers
      /\ Cardinality(busy') <= PoolSize
      /\ busy' \cap InLine(queue') = {}
      /\ busy' \cup InLine(queue') = (busy \ {w}) \cup InLine(Append(queue, w))
  BY <1>2, <1>3, <1>4, <1>5, HandoverServes
<1>7. {v \in Workers : pc'[v] # "idle"} = {v \in Workers : pc[v] # "idle"} \cup {w}
  BY <1>5 DEF Placed
<1>8. (busy \ {w}) \cup InLine(Append(queue, w)) = {v \in Workers : pc'[v] # "idle"}
  BY <1>2, <1>7 DEF PoolInv
<1> QED BY <1>6, <1>8 DEF PoolInv, Line, InLine

\* An answered request leaves its connection and its place in the line.
LEMMA RespondPool ==
  ASSUME PoolInv, Placed, NEW w \in Workers, NEW a, Respond(w, a)
  PROVE  PoolInv'
<1>1. Line(queue)
  BY DEF PoolInv
<1>2. /\ Line(Without(queue, w))
      /\ InLine(Without(queue, w)) = InLine(queue) \ {w}
  BY <1>1, LineWithout
<1>3. busy \ {w} \subseteq Workers /\ Cardinality(busy \ {w}) <= PoolSize
  BY ReleasedFits
<1>4. (busy \ {w}) \cap InLine(Without(queue, w)) = {}
  BY <1>2 DEF PoolInv
<1>5. Handover(Without(queue, w), busy \ {w}) /\ pc' = [pc EXCEPT ![w] = "idle"]
  BY DEF Respond
<1>6. /\ Line(queue') /\ busy' \subseteq Workers
      /\ Cardinality(busy') <= PoolSize
      /\ busy' \cap InLine(queue') = {}
      /\ busy' \cup InLine(queue') = (busy \ {w}) \cup InLine(Without(queue, w))
  BY <1>2, <1>3, <1>4, <1>5, HandoverServes
<1>7. {v \in Workers : pc'[v] # "idle"} = {v \in Workers : pc[v] # "idle"} \ {w}
  BY <1>5 DEF Placed
<1>8. (busy \ {w}) \cup InLine(Without(queue, w)) = {v \in Workers : pc'[v] # "idle"}
  BY <1>2, <1>7 DEF PoolInv
<1> QED BY <1>6, <1>8 DEF PoolInv, Line, InLine

\* The shapes of a step, as the pool sees them.
Entering(w) ==
  \E stage \in Stages \ {"idle"} : ~Waits(w) /\ Enter(w, stage)

Responding(w) == \E a \in Answers : Respond(w, a)

LEMMA StepShapes ==
  ASSUME PoolInv, Placed, [Next]_vars
  PROVE  \/ \E w \in Workers : Entering(w) \/ Responding(w)
         \/ Restart
         \/ UNCHANGED <<pc, queue, busy>> /\ answer' \in {answer, "none"}
<1>1. \A w \in Workers, a \in Answers : Answer(w, a) => Responding(w)
  BY DEF Answer, Responding
<1>2. \A w \in Workers, stage \in Stages \ {"idle"} :
        ~Waits(w) /\ Advance(w, stage) => Entering(w)
  BY DEF Advance, Entering
<1>3. \A w \in Workers : Running(w) => ~Waits(w)
  BY DEF Running
<1>4. ASSUME NEW w \in Workers, NEW s \in Sources, NEW b \in Bearers, Arrive(w, s, b)
      PROVE  Entering(w) \/ Responding(w)
  <2>1. ~Waits(w)
    BY <1>4 DEF PoolInv, Waits, Arrive
  <2>2. "banned" \in Answers /\ "token" \in Stages \ {"idle"}
    BY DEF Answers, Stages
  <2> QED BY <1>1, <1>4, <2>1, <2>2 DEF Arrive, Entering
<1>5. \A w \in Workers : Refuse(w) => Responding(w)
  <2>1. "unauthorized" \in Answers
    BY DEF Answers
  <2> QED BY <1>1, <2>1 DEF Refuse
<1>6. \A w \in Workers : \A n, tool :
        ~Waits(w) /\ Authorize(w, n, tool) => Entering(w) \/ Responding(w)
  <2>1. "role" \in Answers /\ "limits" \in Stages \ {"idle"}
    BY DEF Answers, Stages
  <2> QED BY <1>1, <1>2, <2>1 DEF Authorize
<1>7. ASSUME NEW w \in Workers, Serve(w)
      PROVE  Entering(w) \/ Responding(w)
  <2>1. /\ {"unknown", "error", "rate_limited", "done", "refused"} \subseteq Answers
        /\ {"principal", "lookup", "run"} \subseteq Stages \ {"idle"}
    BY DEF Answers, Stages
  <2>2. CASE LookUpToken(w)
    BY <1>2, <1>3, <1>5, <2>1, <2>2 DEF LookUpToken
  <2>3. ASSUME NEW n \in Names, CheckPrincipal(w, n)
        PROVE  Entering(w) \/ Responding(w)
    <3>1. Dispatch(w, n) => Entering(w) \/ Responding(w)
      BY <1>2, <1>3, <1>6, <2>1, <2>3 DEF Dispatch, CheckPrincipal
    <3> QED BY <1>5, <2>3, <3>1 DEF CheckPrincipal
  <2>4. CASE LookUpName(w)
    BY <1>1, <1>3, <1>6, <2>1, <2>4 DEF LookUpName
  <2>5. CASE CheckRate(w)
    BY <1>1, <1>2, <1>3, <2>1, <2>5 DEF CheckRate
  <2>6. CASE RunTool(w)
    BY <1>1, <2>1, <2>6 DEF RunTool
  <2>7. ASSUME NEW p \in Principals, NEW flag \in BOOLEAN, RunArchive(w, p, flag)
        PROVE  Responding(w)
    BY <1>1, <2>1, <2>7 DEF RunArchive, Responding
  <2> QED BY <1>7, <2>2, <2>3, <2>4, <2>5, <2>6, <2>7 DEF Serve
<1>8. ASSUME NEW w \in Workers, Abort(w) PROVE Responding(w)
  <2>1. "error" \in Answers
    BY DEF Answers
  <2> QED BY <1>1, <1>8, <2>1 DEF Abort
<1>9. CASE \/ \E t \in Tokens : Revoke(t)
           \/ \E p \in Principals, flag \in BOOLEAN : OperatorArchives(p, flag)
           \/ Tick \/ Done \/ UNCHANGED vars
  BY <1>9 DEF Revoke, OperatorArchives, Change, Tick, Done, vars, pool
<1> QED BY <1>4, <1>7, <1>8, <1>9 DEF Next

LEMMA PoolInit == Init => PoolInv
<1> SUFFICES ASSUME Init PROVE PoolInv
  OBVIOUS
<1>1. queue = <<>> /\ busy = {} /\ \A w \in Workers : pc[w] = "idle"
  BY DEF Init
<1>2. queue \in Seq(Workers) /\ Len(queue) = 0
  BY <1>1, EmptySeq
<1>3. InLine(queue) = {} /\ Line(queue)
  BY <1>2 DEF InLine, Line
<1>4. Cardinality(busy) <= PoolSize
  BY <1>1, FS_EmptySet, GatewayAssumption
<1> QED BY <1>1, <1>3, <1>4 DEF PoolInv

LEMMA PoolStep == PoolInv /\ Placed /\ [Next]_vars => PoolInv'
<1> SUFFICES ASSUME PoolInv, Placed, [Next]_vars PROVE PoolInv'
  OBVIOUS
<1>1. ASSUME NEW w \in Workers, Entering(w) PROVE PoolInv'
  BY <1>1, EnterPool DEF Entering
<1>2. ASSUME NEW w \in Workers, Responding(w) PROVE PoolInv'
  BY <1>2, RespondPool DEF Responding
<1>3. CASE Restart
  <2>1. queue' = <<>> /\ busy' = {} /\ pc' = [w \in Workers |-> "idle"]
    BY <1>3 DEF Restart
  <2>2. queue' \in Seq(Workers) /\ Len(queue') = 0
    BY <2>1, EmptySeq
  <2>3. Cardinality(busy') <= PoolSize
    BY <2>1, FS_EmptySet, GatewayAssumption
  <2> QED BY <2>1, <2>2, <2>3 DEF PoolInv, Line, InLine
<1>4. CASE UNCHANGED <<pc, queue, busy>>
  BY <1>4 DEF PoolInv, Line, InLine
<1> QED BY <1>1, <1>2, <1>3, <1>4, StepShapes
-----------------------------------------------------------------------------
(* The rate limits: the deque of a token is the end of its history.        *)

Moments == Seq(0..MaxTime)

\* At time t the deque e holds the last entries of the history a, and every
\* entry of a that e has lost is out of the window.
Recorded(a, e, t) ==
  /\ a \in Moments /\ e \in Moments
  /\ \A i, j \in 1..Len(a) : i <= j => a[i] <= a[j]
  /\ \A i \in 1..Len(a) : a[i] <= t
  /\ Len(e) <= Len(a)
  /\ \A i \in 1..Len(e) : e[i] = a[(Len(a) - Len(e)) + i]
  /\ \A i \in 1..(Len(a) - Len(e)) : a[i] <= t - Window

LEMMA Clock ==
  /\ Window \in Nat /\ Window > 0 /\ MaxTime \in Nat
  /\ 0..MaxTime \subseteq Nat
  /\ \A t \in 0..MaxTime : t \in Nat /\ t - Window \in Int /\ t > t - Window
BY GatewayAssumption

LEMMA MomentsTyped ==
  ASSUME NEW a \in Moments
  PROVE  /\ a \in Times /\ Len(a) \in Nat
         /\ \A i \in 1..Len(a) : a[i] \in 0..MaxTime
<1>1. a \in Seq(0..MaxTime)
  BY DEF Moments
<1>2. a \in Times
  BY <1>1, Clock, SeqMonotonic, Zenon DEF Times
<1>3. Len(a) \in Nat
  BY <1>1, LenProperties, Zenon
<1>4. \A i \in 1..Len(a) : a[i] \in 0..MaxTime
  BY <1>1, ElementOfSeq, Zenon
<1> QED BY <1>2, <1>3, <1>4

\* What pruning leaves is the number of entries in the window.
LEMMA WindowCount ==
  ASSUME NEW a, NEW e, NEW t \in 0..MaxTime, Recorded(a, e, t)
  PROVE  Cardinality({i \in 1..Len(a) : a[i] \in (t - Window + 1)..t})
           = Len(After(e, t - Window))
<1> DEFINE c == t - Window
           n == Len(a)
           m == Len(e)
           k == Popped(e, c)
           d == (n - m) + k
<1>1. /\ a \in Times /\ n \in Nat /\ e \in Times /\ m \in Nat
      /\ \A i \in 1..n : a[i] \in Nat
      /\ \A i \in 1..m : e[i] \in Nat
  BY MomentsTyped, Clock DEF Recorded
<1>2. t \in Int /\ c \in Int
  BY Clock
<1> HIDE DEF c
<1>3. /\ \A i, j \in 1..n : i <= j => a[i] <= a[j]
      /\ \A i \in 1..n : a[i] <= t
      /\ m <= n
      /\ \A i \in 1..m : e[i] = a[(n - m) + i]
      /\ \A i \in 1..(n - m) : a[i] <= c
  BY DEF Recorded, c
<1>4. /\ k \in 0..m
      /\ \A i \in 1..k : e[i] <= c
      /\ k < m => e[k + 1] > c
  BY <1>1, <1>2, PoppedStops
<1>5. Len(After(e, c)) = m - k
  BY <1>1, <1>2, AfterEntries
<1> HIDE DEF n, m, k
<1>6. d \in 0..n
  BY <1>1, <1>3, <1>4
<1>7. ASSUME NEW i \in 1..d PROVE a[i] <= c
  <2>1. CASE i <= n - m
    <3>1. i \in 1..(n - m)
      BY <1>1, <1>4, <1>7, <2>1
    <3> QED BY <1>3, <3>1
  <2>2. CASE ~(i <= n - m)
    <3>1. /\ i - (n - m) \in 1..k /\ i - (n - m) \in 1..m
          /\ (n - m) + (i - (n - m)) = i
      BY <1>1, <1>3, <1>4, <1>7, <2>2
    <3>2. e[i - (n - m)] = a[i] /\ e[i - (n - m)] <= c
      BY <1>3, <1>4, <3>1
    <3> QED BY <3>2
  <2> QED BY <2>1, <2>2
<1>8. ASSUME d < n PROVE a[d + 1] > c
  <2>1. k < m /\ k + 1 \in 1..m /\ (n - m) + (k + 1) = d + 1
    BY <1>1, <1>3, <1>4, <1>8
  <2>2. e[k + 1] = a[d + 1]
    BY <1>3, <2>1
  <2> QED BY <1>4, <2>1, <2>2
<1> HIDE DEF d
<1>9. Cardinality({i \in 1..n : a[i] \in (c + 1)..t}) = n - d
  BY <1>1, <1>2, <1>3, <1>6, <1>7, <1>8, InWindow DEF n
<1>10. n - d = m - k
  BY <1>1, <1>4 DEF d
<1>11. Cardinality({i \in 1..n : a[i] \in (c + 1)..t}) = Len(After(e, c))
  BY <1>5, <1>9, <1>10
<1> QED BY <1>11 DEF c, n

LEMMA RecordedPruned ==
  ASSUME NEW a, NEW e, NEW t \in 0..MaxTime, Recorded(a, e, t)
  PROVE  Recorded(a, After(e, t - Window), t)
<1> DEFINE c == t - Window
           n == Len(a)
           m == Len(e)
           k == Popped(e, c)
           b == After(e, c)
<1>1. /\ n \in Nat /\ e \in Times /\ m \in Nat
  BY MomentsTyped DEF Recorded
<1>2. c \in Int
  BY Clock
<1>3. b \in Moments
  BY <1>2, Clock, AfterTyped DEF Recorded, Moments
<1> HIDE DEF c
<1>4. /\ m <= n
      /\ \A i \in 1..m : e[i] = a[(n - m) + i]
      /\ \A i \in 1..(n - m) : a[i] <= c
  BY DEF Recorded, c
<1>5. /\ k \in 0..m
      /\ \A i \in 1..k : e[i] <= c
  BY <1>1, <1>2, PoppedStops
<1>6. /\ Len(b) = m - k
      /\ \A i \in 1..Len(b) : b[i] = e[k + i]
  BY <1>1, <1>2, AfterEntries
<1> HIDE DEF n, m, k, b
<1>7. Len(b) <= n
  BY <1>1, <1>4, <1>5, <1>6
<1>8. ASSUME NEW i \in 1..Len(b) PROVE b[i] = a[(n - Len(b)) + i]
  <2>1. k + i \in 1..m /\ (n - m) + (k + i) = (n - Len(b)) + i
    BY <1>1, <1>5, <1>6, <1>8
  <2> QED BY <1>4, <1>6, <2>1
<1>9. ASSUME NEW i \in 1..(n - Len(b)) PROVE a[i] <= c
  <2>1. CASE i <= n - m
    <3>1. i \in 1..(n - m)
      BY <1>1, <1>5, <1>6, <1>9, <2>1
    <3> QED BY <1>4, <3>1
  <2>2. CASE ~(i <= n - m)
    <3>1. /\ i - (n - m) \in 1..k /\ i - (n - m) \in 1..m
          /\ (n - m) + (i - (n - m)) = i
      BY <1>1, <1>4, <1>5, <1>6, <1>9, <2>2
    <3>2. e[i - (n - m)] = a[i] /\ e[i - (n - m)] <= c
      BY <1>4, <1>5, <3>1
    <3> QED BY <3>2
  <2> QED BY <2>1, <2>2
<1>10. Recorded(a, b, t)
  BY <1>3, <1>7, <1>8, <1>9 DEF Recorded, n, c
<1> QED BY <1>10 DEF b, c

LEMMA RecordedAdmit ==
  ASSUME NEW a, NEW e, NEW t \in 0..MaxTime, Recorded(a, e, t)
  PROVE  Recorded(Append(a, t), Append(e, t), t)
<1> DEFINE n == Len(a)
           m == Len(e)
           aa == Append(a, t)
           ee == Append(e, t)
<1>1. /\ n \in Nat /\ m \in Nat /\ \A i \in 1..n : a[i] \in Int
  BY MomentsTyped DEF Recorded
<1>2. /\ \A i, j \in 1..n : i <= j => a[i] <= a[j]
      /\ \A i \in 1..n : a[i] <= t
      /\ m <= n
      /\ \A i \in 1..m : e[i] = a[(n - m) + i]
      /\ \A i \in 1..(n - m) : a[i] <= t - Window
  BY DEF Recorded
<1>3. /\ aa \in Moments /\ Len(aa) = n + 1
      /\ \A i \in 1..n : aa[i] = a[i]
      /\ aa[n + 1] = t
  <2>1. a \in Seq(0..MaxTime)
    BY DEF Recorded, Moments
  <2> QED BY <2>1, AppendProperties DEF Moments
<1>4. /\ ee \in Moments /\ Len(ee) = m + 1
      /\ \A i \in 1..m : ee[i] = e[i]
      /\ ee[m + 1] = t
  <2>1. e \in Seq(0..MaxTime)
    BY DEF Recorded, Moments
  <2> QED BY <2>1, AppendProperties DEF Moments
<1>5. t \in Int
  BY Clock
<1> HIDE DEF n, m, aa, ee
<1>6. \A i \in 1..Len(aa) : i \in 1..n \/ i = n + 1
  BY <1>1, <1>3
<1>7. \A i \in 1..Len(aa) : aa[i] <= t
  BY <1>2, <1>3, <1>5, <1>6
<1>8. ASSUME NEW i \in 1..Len(aa), NEW j \in 1..Len(aa), i <= j
      PROVE  aa[i] <= aa[j]
  <2>1. CASE j \in 1..n
    <3>1. i \in 1..n
      BY <1>1, <1>3, <1>8, <2>1
    <3> QED BY <1>2, <1>3, <1>8, <2>1, <3>1
  <2>2. CASE j = n + 1
    BY <1>3, <1>7, <1>8, <2>2
  <2> QED BY <1>6, <1>8, <2>1, <2>2
<1>9. Len(ee) <= Len(aa) /\ Len(aa) - Len(ee) = n - m
  BY <1>1, <1>2, <1>3, <1>4
<1>10. ASSUME NEW i \in 1..Len(ee) PROVE ee[i] = aa[(n - m) + i]
  <2>1. CASE i \in 1..m
    <3>1. (n - m) + i \in 1..n
      BY <1>1, <1>2, <2>1
    <3> QED BY <1>2, <1>3, <1>4, <2>1, <3>1
  <2>2. CASE i = m + 1
    <3>1. (n - m) + i = n + 1
      BY <1>1, <2>2
    <3> QED BY <1>3, <1>4, <2>2, <3>1
  <2>3. i \in 1..m \/ i = m + 1
    BY <1>1, <1>4, <1>10
  <2> QED BY <2>1, <2>2, <2>3
<1>11. \A i \in 1..(n - m) : aa[i] <= t - Window
  <2>1. \A i \in 1..(n - m) : i \in 1..n
    BY <1>1
  <2> QED BY <1>2, <1>3, <2>1
<1>12. Recorded(aa, ee, t)
  BY <1>3, <1>4, <1>7, <1>8, <1>9, <1>10, <1>11 DEF Recorded
<1> QED BY <1>12 DEF aa, ee

LEMMA RecordedLater ==
  ASSUME NEW a, NEW e, NEW t \in 0..MaxTime, NEW u \in 0..MaxTime, t <= u,
         Recorded(a, e, t)
  PROVE  Recorded(a, e, u)
<1>1. Len(a) \in Nat /\ Len(e) \in Nat /\ \A i \in 1..Len(a) : a[i] \in Int
  BY MomentsTyped DEF Recorded
<1>2. \A i \in 1..Len(a) : a[i] <= u
  BY <1>1, Clock DEF Recorded
<1>3. ASSUME NEW i \in 1..(Len(a) - Len(e)) PROVE a[i] <= u - Window
  <2>1. i \in 1..Len(a) /\ a[i] <= t - Window
    BY <1>1, <1>3 DEF Recorded
  <2>2. t \in Int /\ u \in Int /\ Window \in Int /\ a[i] \in Int
    BY <1>1, <2>1, Clock
  <2> QED BY <2>1, <2>2
<1> QED BY <1>2, <1>3 DEF Recorded

\* Both limiters' deques, against the history of what was let through.
WindowInv ==
  /\ now \in 0..MaxTime
  /\ events \in [Tokens -> [Kinds -> Moments]]
  /\ admitted \in [Tokens -> [Kinds -> Moments]]
  /\ \A t \in Tokens, k \in Kinds : Recorded(admitted[t][k], events[t][k], now)

\* A call is refused only when the window that ends now is full.
LEMMA FullWindow ==
  ASSUME WindowInv, NEW t \in Tokens, NEW k \in Kinds
  PROVE  AdmittedIn(t, k, now) = Len(Pruned(events[t][k]))
BY WindowCount DEF WindowInv, AdmittedIn, Pruned

\* What CheckRate does to one deque and its history.
LEMMA CheckRateRecords ==
  ASSUME WindowInv, DoorInv, NEW w \in Workers, CheckRate(w),
         NEW t \in Tokens, NEW k \in Kinds
  PROVE  \/ UNCHANGED <<events[t][k], admitted[t][k], now>>
         \/ /\ events'[t][k] = Pruned(events[t][k])
            /\ UNCHANGED <<admitted[t][k], now>>
         \/ /\ ~Full(Pruned(events[t][k]), k)
            /\ events'[t][k] = Append(Pruned(events[t][k]), now)
            /\ admitted'[t][k] = Append(admitted[t][k], now)
            /\ now' = now
<1> DEFINE u == job[w].bearer
           m == Kind(job[w].tool)
           bucket == Pruned(events[u][m])
<1>1. /\ events \in [Tokens -> [Kinds -> Moments]]
      /\ admitted \in [Tokens -> [Kinds -> Moments]]
  BY DEF WindowInv
<1>2. now' = now
  BY DEF CheckRate
<1>3. \/ /\ Full(bucket, m)
         /\ events' = [events EXCEPT ![u][m] = bucket] /\ UNCHANGED admitted
      \/ /\ ~Full(bucket, m)
         /\ events' = [events EXCEPT ![u][m] = Append(bucket, now)]
         /\ admitted' = [admitted EXCEPT ![u][m] = Append(@, now)]
  BY DEF CheckRate
<1>4. u \in Tokens /\ m \in Kinds
  <2>1. pc[w] = "limits"
    BY DEF CheckRate
  <2> QED BY <2>1 DEF DoorInv, Gated, Kind, Kinds
<1> HIDE DEF u, m
<1>5. CASE t = u /\ k = m
  BY <1>1, <1>2, <1>3, <1>5
<1>6. CASE ~(t = u /\ k = m)
  BY <1>1, <1>2, <1>3, <1>4, <1>6
<1> QED BY <1>5, <1>6

LEMMA CheckRateTyped ==
  ASSUME WindowInv, DoorInv, NEW w \in Workers, CheckRate(w)
  PROVE  /\ events' \in [Tokens -> [Kinds -> Moments]]
         /\ admitted' \in [Tokens -> [Kinds -> Moments]]
<1> DEFINE u == job[w].bearer
           m == Kind(job[w].tool)
           bucket == Pruned(events[u][m])
<1>1. /\ now \in 0..MaxTime
      /\ events \in [Tokens -> [Kinds -> Moments]]
      /\ admitted \in [Tokens -> [Kinds -> Moments]]
  BY DEF WindowInv
<1>2. \/ events' = [events EXCEPT ![u][m] = bucket] /\ UNCHANGED admitted
      \/ /\ events' = [events EXCEPT ![u][m] = Append(bucket, now)]
         /\ admitted' = [admitted EXCEPT ![u][m] = Append(@, now)]
  BY DEF CheckRate
<1>3. u \in Tokens /\ m \in Kinds
  <2>1. pc[w] = "limits"
    BY DEF CheckRate
  <2> QED BY <2>1 DEF DoorInv, Gated, Kind, Kinds
<1>4. events[u][m] \in Moments /\ admitted[u][m] \in Moments
  BY <1>1, <1>3
<1>5. bucket \in Moments
  BY <1>1, <1>4, Clock, AfterTyped DEF Moments, Pruned
<1>6. Append(bucket, now) \in Moments /\ Append(admitted[u][m], now) \in Moments
  BY <1>1, <1>4, <1>5, AppendProperties, Zenon DEF Moments
<1> HIDE DEF bucket, u, m
<1>7. \A f \in [Tokens -> [Kinds -> Moments]], x \in Moments :
        [f EXCEPT ![u][m] = x] \in [Tokens -> [Kinds -> Moments]]
  BY <1>3
<1>8. admitted' = admitted
      \/ admitted' = [admitted EXCEPT ![u][m] = Append(admitted[u][m], now)]
  BY <1>2
<1>9. \/ events' = [events EXCEPT ![u][m] = bucket]
      \/ events' = [events EXCEPT ![u][m] = Append(bucket, now)]
  BY <1>2, Zenon
<1>10. /\ [events EXCEPT ![u][m] = bucket] \in [Tokens -> [Kinds -> Moments]]
       /\ [events EXCEPT ![u][m] = Append(bucket, now)] \in [Tokens -> [Kinds -> Moments]]
  BY <1>1, <1>5, <1>6, <1>7, Zenon
<1>11. [admitted EXCEPT ![u][m] = Append(admitted[u][m], now)] \in [Tokens -> [Kinds -> Moments]]
  BY <1>1, <1>6, <1>7, Zenon
<1>12. events' \in [Tokens -> [Kinds -> Moments]]
  BY <1>9, <1>10, Zenon
<1>13. admitted' \in [Tokens -> [Kinds -> Moments]]
  BY <1>1, <1>8, <1>11, Zenon
<1> QED BY <1>12, <1>13

\* The steps that touch the limiter or its clock.
LEMMA LimiterShapes ==
  [Next]_vars =>
    \/ \E w \in Workers : CheckRate(w)
    \/ Tick \/ Restart
    \/ UNCHANGED <<events, admitted, now>>
BY DEF Next, Serve, Arrive, LookUpToken, CheckPrincipal, LookUpName, RunTool,
       RunArchive, AfterTool, Abort, Revoke, OperatorArchives, Change, Done,
       vars, limiter

LEMMA Nothing ==
  /\ <<>> \in Moments /\ Len(<<>>) = 0
  /\ \A t : Recorded(<<>>, <<>>, t)
<1>1. <<>> \in Moments /\ Len(<<>>) = 0
  BY EmptySeq, Zenon DEF Moments
<1> QED BY <1>1 DEF Recorded

LEMMA WindowInit == Init => WindowInv
BY Nothing, Clock DEF Init, WindowInv

LEMMA WindowStep == WindowInv /\ DoorInv /\ [Next]_vars => WindowInv'
<1> SUFFICES ASSUME WindowInv, DoorInv, [Next]_vars PROVE WindowInv'
  OBVIOUS
<1>1. ASSUME NEW w \in Workers, CheckRate(w) PROVE WindowInv'
  <2>1. now' = now /\ now \in 0..MaxTime
    BY <1>1 DEF CheckRate, WindowInv
  <2>2. ASSUME NEW t \in Tokens, NEW k \in Kinds
        PROVE  Recorded(admitted'[t][k], events'[t][k], now)
    <3>1. Recorded(admitted[t][k], events[t][k], now)
      BY DEF WindowInv
    <3>2. Recorded(admitted[t][k], Pruned(events[t][k]), now)
      BY <2>1, <3>1, RecordedPruned DEF Pruned
    <3>3. Recorded(Append(admitted[t][k], now),
                   Append(Pruned(events[t][k]), now), now)
      BY <2>1, <3>2, RecordedAdmit
    <3> QED BY <1>1, <3>1, <3>2, <3>3, CheckRateRecords
  <2>3. /\ events' \in [Tokens -> [Kinds -> Moments]]
        /\ admitted' \in [Tokens -> [Kinds -> Moments]]
    BY <1>1, CheckRateTyped
  <2> QED BY <2>1, <2>2, <2>3 DEF WindowInv
<1>2. CASE Tick
  <2>1. /\ now \in 0..MaxTime /\ now' \in 0..MaxTime /\ now <= now'
        /\ UNCHANGED <<events, admitted>>
    BY <1>2, Clock DEF Tick, limiter, WindowInv
  <2>2. ASSUME NEW t \in Tokens, NEW k \in Kinds
        PROVE  Recorded(admitted[t][k], events[t][k], now')
    BY <2>1, RecordedLater DEF WindowInv
  <2> QED BY <2>1, <2>2 DEF WindowInv
<1>3. CASE Restart
  <2>1. /\ now' = now
        /\ events' = [t \in Tokens |-> [k \in Kinds |-> <<>>]]
        /\ admitted' = [t \in Tokens |-> [k \in Kinds |-> <<>>]]
    BY <1>3 DEF Restart
  <2> QED BY <2>1, Nothing DEF WindowInv
<1>4. CASE UNCHANGED <<events, admitted, now>>
  BY <1>4 DEF WindowInv
<1> QED BY <1>1, <1>2, <1>3, <1>4, LimiterShapes

-----------------------------------------------------------------------------
(* No window lets more through than the limit.                             *)

Allowed(k) == IF Limit[k] < 0 THEN 0 ELSE Limit[k]

\* The entries of a history in the window that ends at t.
During(a, t) == {i \in 1..Len(a) : a[i] \in (t - Window + 1)..t}

LEMMA DuringCount ==
  \A token, kind, t : AdmittedIn(token, kind, t) = Cardinality(During(admitted[token][kind], t))
BY DEF AdmittedIn, During

\* An entry recorded now is in no window that ended before.
LEMMA DuringAppend ==
  ASSUME NEW a \in Moments, NEW u \in 0..MaxTime, NEW t \in Nat, t < u
  PROVE  During(Append(a, u), t) = During(a, t)
<1>1. Len(a) \in Nat
  BY MomentsTyped
<1> DEFINE b == Append(a, u)
           n == Len(a)
<1>2. /\ Len(b) = n + 1
      /\ \A i \in 1..n : b[i] = a[i]
      /\ b[n + 1] = u
  BY AppendProperties DEF Moments
<1> HIDE DEF b, n
<1>3. /\ \A i \in 1..(n + 1) : i \in 1..n \/ i = n + 1
      /\ \A i \in 1..n : i \in 1..(n + 1)
  BY <1>1 DEF n
<1>4. u \notin (t - Window + 1)..t
  BY Clock
<1>5. {i \in 1..Len(b) : b[i] \in (t - Window + 1)..t}
        = {i \in 1..n : a[i] \in (t - Window + 1)..t}
  <2> DEFINE W == (t - Window + 1)..t
  <2>1. u \notin W
    BY <1>4
  <2> HIDE DEF W
  <2>2. {i \in 1..Len(b) : b[i] \in W} = {i \in 1..n : a[i] \in W}
    BY <1>2, <1>3, <2>1
  <2> QED BY <2>2 DEF W
<1> QED BY <1>5 DEF During, b, n

\* As time passes without a call, entries only leave the window.
LEMMA DuringLater ==
  ASSUME NEW a \in Moments, NEW t \in 0..MaxTime,
         \A i \in 1..Len(a) : a[i] <= t
  PROVE  Cardinality(During(a, t + 1)) <= Cardinality(During(a, t))
<1>1. Len(a) \in Nat /\ \A i \in 1..Len(a) : a[i] \in Nat
  BY MomentsTyped, Clock
<1>2. During(a, t + 1) \subseteq During(a, t)
  <2>1. ASSUME NEW i \in 1..Len(a), a[i] \in ((t + 1) - Window + 1)..(t + 1)
        PROVE  a[i] \in (t - Window + 1)..t
    <3>1. a[i] \in Nat /\ a[i] <= t /\ t \in Nat /\ Window \in Nat
      BY <1>1, Clock
    <3> QED BY <2>1, <3>1
  <2>2. ASSUME NEW i \in During(a, t + 1) PROVE i \in During(a, t)
    <3>1. i \in 1..Len(a) /\ a[i] \in ((t + 1) - Window + 1)..(t + 1)
      BY <2>2, Zenon DEF During
    <3>2. a[i] \in (t - Window + 1)..t
      BY <2>1, <3>1
    <3> QED BY <3>1, <3>2, Zenon DEF During
  <2> QED BY <2>2
<1>3. IsFiniteSet(During(a, t))
  <2>1. IsFiniteSet(1..Len(a))
    BY <1>1, FS_Interval
  <2>2. During(a, t) \in SUBSET (1..Len(a))
    BY DEF During
  <2> QED BY <2>1, <2>2, FS_Subset
<1>4. During(a, t + 1) \in SUBSET During(a, t)
  BY <1>2
<1> QED BY <1>3, <1>4, FS_Subset

LEMMA AdmitFits ==
  ASSUME WindowInv, WindowInv', RateWindow, NEW token \in Tokens, NEW kind \in Kinds,
         now' = now, ~Full(Pruned(events[token][kind]), kind),
         events'[token][kind] = Append(Pruned(events[token][kind]), now),
         admitted'[token][kind] = Append(admitted[token][kind], now),
         NEW t \in 0..now
  PROVE  Cardinality(During(admitted'[token][kind], t)) <= Allowed(kind)
<1> DEFINE a == admitted[token][kind]
           e == events[token][kind]
           b == Pruned(e)
<1>1. now \in 0..MaxTime /\ now \in Nat /\ t \in Nat /\ t <= now
  BY Clock DEF WindowInv
<1>2. a \in Moments /\ e \in Moments
  BY DEF WindowInv
<1>3. CASE t < now
  <2>1. During(Append(a, now), t) = During(a, t)
    BY <1>1, <1>2, <1>3, DuringAppend
  <2>2. Cardinality(During(a, t)) <= Allowed(kind)
    BY DuringCount DEF RateWindow, Allowed
  <2> QED BY <2>1, <2>2
<1>4. CASE t = now
  <2>1. Recorded(Append(a, now), Append(b, now), now)
    BY DEF WindowInv
  <2>2. Cardinality(During(Append(a, now), now)) = Len(After(Append(b, now), now - Window))
    BY <1>1, <2>1, WindowCount DEF During
  <2>3. e \in Times /\ now - Window \in Int /\ now > now - Window
    BY <1>1, <1>2, Clock, MomentsTyped
  <2>4. /\ Append(b, now) \in Times
        /\ Len(Append(b, now)) = Len(b) + 1
        /\ Current(Append(b, now), now - Window)
    BY <1>1, <2>3, AfterCurrent DEF Pruned
  <2>5. Len(After(Append(b, now), now - Window)) = Len(b) + 1
    BY <2>3, <2>4, CurrentStays
  <2>6. Len(b) \in Nat
    <3>1. b \in Times
      BY <2>3, AfterEntries DEF Pruned
    <3> QED BY <3>1, LenProperties, Zenon DEF Times
  <2>7. ~(Len(b) >= Limit[kind]) /\ Limit[kind] \in Int
    BY GatewayAssumption DEF Full
  <2> HIDE DEF a, e, b
  <2>8. Len(b) + 1 <= Allowed(kind)
    BY <2>6, <2>7 DEF Allowed
  <2> QED BY <1>4, <2>2, <2>5, <2>8 DEF a, e, b
<1> QED BY <1>1, <1>3, <1>4

LEMMA RateInit == Init => RateWindow
<1> SUFFICES ASSUME Init, NEW token \in Tokens, NEW kind \in Kinds, NEW t \in 0..now
             PROVE  AdmittedIn(token, kind, t) <= Allowed(kind)
  BY DEF RateWindow, Allowed
<1>1. Len(admitted[token][kind]) = 0
  BY Nothing DEF Init
<1>2. During(admitted[token][kind], t) = {}
  BY <1>1 DEF During
<1>3. Limit[kind] \in Int
  BY GatewayAssumption
<1> QED BY <1>2, <1>3, DuringCount, FS_EmptySet DEF Allowed

LEMMA RateStep ==
  WindowInv /\ WindowInv' /\ DoorInv /\ RateWindow /\ [Next]_vars => RateWindow'
<1> SUFFICES ASSUME WindowInv, WindowInv', DoorInv, RateWindow, [Next]_vars,
                    NEW token \in Tokens, NEW kind \in Kinds, NEW t \in 0..now'
             PROVE  Cardinality(During(admitted'[token][kind], t)) <= Allowed(kind)
  BY DEF RateWindow, AdmittedIn, During, Allowed
<1> DEFINE a == admitted[token][kind]
<1>1. now \in 0..MaxTime /\ now \in Nat /\ a \in Moments
  BY Clock DEF WindowInv
<1>2. \A u \in 0..now : Cardinality(During(a, u)) <= Allowed(kind)
  BY DuringCount DEF RateWindow, Allowed
<1>3. ASSUME NEW w \in Workers, CheckRate(w)
      PROVE  Cardinality(During(admitted'[token][kind], t)) <= Allowed(kind)
  <2>1. now' = now
    BY <1>3 DEF CheckRate
  <2>2. CASE admitted'[token][kind] = a
    BY <1>2, <2>1, <2>2
  <2>3. CASE /\ ~Full(Pruned(events[token][kind]), kind)
             /\ events'[token][kind] = Append(Pruned(events[token][kind]), now)
             /\ admitted'[token][kind] = Append(admitted[token][kind], now)
    BY <2>1, <2>3, AdmitFits
  <2> QED BY <1>3, <2>2, <2>3, CheckRateRecords
<1>4. CASE Tick
  <2>1. now' = now + 1 /\ admitted' = admitted
    BY <1>4 DEF Tick, limiter
  <2>2. CASE t = now + 1
    <3>1. \A i \in 1..Len(a) : a[i] <= now
      BY DEF WindowInv, Recorded
    <3>2. Cardinality(During(a, now + 1)) <= Cardinality(During(a, now))
      BY <1>1, <3>1, DuringLater
    <3>3. Cardinality(During(a, now)) <= Allowed(kind)
      BY <1>1, <1>2
    <3>4. /\ Cardinality(During(a, now + 1)) \in Nat
          /\ Cardinality(During(a, now)) \in Nat
      <4>1. IsFiniteSet(1..Len(a))
        BY <1>1, MomentsTyped, FS_Interval
      <4>2. \A u : During(a, u) \in SUBSET (1..Len(a))
        BY DEF During
      <4> QED BY <4>1, <4>2, FS_Subset, FS_CardinalityType
    <3>5. Allowed(kind) \in Int
      BY GatewayAssumption DEF Allowed
    <3>6. Cardinality(During(a, now + 1)) <= Allowed(kind)
      BY <3>2, <3>3, <3>4, <3>5
    <3> QED BY <2>1, <2>2, <3>6
  <2>3. CASE t \in 0..now
    BY <1>2, <2>1, <2>3
  <2> QED BY <1>1, <2>1, <2>2, <2>3
<1>5. CASE Restart
  <2>1. Len(admitted'[token][kind]) = 0
    BY <1>5, Nothing DEF Restart
  <2>2. During(admitted'[token][kind], t) = {}
    BY <2>1 DEF During
  <2>3. Limit[kind] \in Int
    BY GatewayAssumption
  <2> QED BY <2>2, <2>3, FS_EmptySet DEF Allowed
<1>6. CASE UNCHANGED <<events, admitted, now>>
  BY <1>2, <1>6
<1> QED BY <1>3, <1>4, <1>5, <1>6, LimiterShapes

-----------------------------------------------------------------------------
(* The ban: failures on record, and requests that may still add one.       *)

\* Requests of a source past is_banned and not yet past the last refusal.
Judged(s) ==
  {w \in Workers : pc[w] \in {"token", "principal"} /\ job[w].source = s}

BanInv ==
  /\ fails \in [Sources -> Moments]
  /\ \A s \in Sources :
       Len(Pruned(fails[s])) + Cardinality(Judged(s))
         <= Threshold - 1 + Cardinality(Workers)

\* A request that leaves the stages that can refuse its bearer.
LEMMA JudgedLeaves ==
  ASSUME Placed, NEW w \in Workers, NEW stage, stage \notin {"token", "principal"},
         pc' = [pc EXCEPT ![w] = stage],
         \A v \in Workers : v # w => job'[v] = job[v],
         NEW s
  PROVE  Judged(s)' = Judged(s) \ {w}
<1>1. \A v \in Workers : v # w => pc'[v] = pc[v]
  BY DEF Placed
<1>2. pc'[w] = stage
  BY DEF Placed
<1> QED BY <1>1, <1>2 DEF Judged

\* The steps that touch the failures, and what the others do to those judged.
Calm ==
  /\ UNCHANGED fails
  /\ now' = now \/ now' = now + 1
  /\ \A s : Judged(s)' \subseteq Judged(s)

Refusing(w) ==
  pc[w] \in {"token", "principal"} /\ Refuse(w) /\ UNCHANGED now

LEMMA OthersKeepJob ==
  ASSUME Placed, NEW w \in Workers, NEW x, job' = [job EXCEPT ![w] = x]
  PROVE  \A v \in Workers : v # w => job'[v] = job[v]
BY DEF Placed

LEMMA AnswerCalm ==
  ASSUME Placed, NEW w \in Workers, NEW a, Respond(w, a), UNCHANGED <<fails, now>>
  PROVE  Calm
<1>1. pc' = [pc EXCEPT ![w] = "idle"] /\ \A v \in Workers : v # w => job'[v] = job[v]
  BY OthersKeepJob DEF Respond
<1>2. \A s : Judged(s)' = Judged(s) \ {w}
  BY <1>1, JudgedLeaves
<1> QED BY <1>2 DEF Calm

LEMMA AuthorizeCalm ==
  ASSUME Placed, NEW w \in Workers, NEW n, NEW tool, Authorize(w, n, tool),
         UNCHANGED <<fails, now>>
  PROVE  Calm
<1>1. CASE Answer(w, "role")
  BY <1>1, AnswerCalm DEF Answer
<1>2. CASE ~Answer(w, "role")
  <2>1. /\ pc' = [pc EXCEPT ![w] = "limits"]
        /\ job' = [job EXCEPT ![w] = [job[w] EXCEPT !.name = n, !.tool = tool]]
    BY <1>2 DEF Authorize, Advance, Enter, Placed
  <2>2. \A s : Judged(s)' = Judged(s) \ {w}
    BY <2>1, JudgedLeaves, OthersKeepJob
  <2> QED BY <2>2 DEF Calm
<1> QED BY <1>1, <1>2

LEMMA ServeBan ==
  ASSUME Placed, NEW w \in Workers, Serve(w)
  PROVE  Calm \/ Refusing(w)
<1>1. CASE LookUpToken(w)
  <2>1. now' = now /\ pc[w] = "token"
    BY <1>1 DEF LookUpToken
  <2>2. CASE Refuse(w)
    BY <2>1, <2>2 DEF Refusing
  <2>3. CASE ~Refuse(w)
    <3>1. pc' = [pc EXCEPT ![w] = "principal"] /\ UNCHANGED <<job, fails>>
      BY <1>1, <2>3 DEF LookUpToken, Advance, Enter
    <3>2. \A v \in Workers : pc'[v] \in {"token", "principal"} => pc[v] \in {"token", "principal"}
      BY <2>1, <3>1 DEF Placed
    <3>3. \A s : Judged(s)' \subseteq Judged(s)
      BY <3>1, <3>2 DEF Judged
    <3> QED BY <2>1, <3>1, <3>3 DEF Calm
  <2> QED BY <2>2, <2>3
<1>2. ASSUME NEW n \in Names, CheckPrincipal(w, n) PROVE Calm \/ Refusing(w)
  <2>1. now' = now /\ pc[w] = "principal"
    BY <1>2 DEF CheckPrincipal
  <2>2. CASE Refuse(w)
    BY <2>1, <2>2 DEF Refusing
  <2>3. CASE ~Refuse(w)
    <3>1. Dispatch(w, n) /\ UNCHANGED fails
      BY <1>2, <2>3 DEF CheckPrincipal
    <3>2. CASE Authorize(w, n, n)
      BY <2>1, <3>1, <3>2, AuthorizeCalm
    <3>3. CASE ~Authorize(w, n, n)
      <4>1. /\ pc' = [pc EXCEPT ![w] = "lookup"]
            /\ job' = [job EXCEPT ![w] = [job[w] EXCEPT !.name = n]]
        BY <3>1, <3>3 DEF Dispatch, Advance, Enter, Placed
      <4>2. \A s : Judged(s)' = Judged(s) \ {w}
        BY <4>1, JudgedLeaves, OthersKeepJob
      <4> QED BY <2>1, <3>1, <4>2 DEF Calm
    <3> QED BY <3>2, <3>3
  <2> QED BY <2>2, <2>3
<1>3. CASE LookUpName(w)
  BY <1>3, AnswerCalm, AuthorizeCalm DEF LookUpName, Answer
<1>4. CASE CheckRate(w)
  <2>1. UNCHANGED <<now, fails>>
    BY <1>4 DEF CheckRate
  <2>2. CASE \E a : Respond(w, a)
    BY <2>1, <2>2, AnswerCalm
  <2>3. CASE ~ \E a : Respond(w, a)
    <3>1. pc' = [pc EXCEPT ![w] = "run"] /\ UNCHANGED job
      BY <1>4, <2>3 DEF CheckRate, Advance, Enter, Answer
    <3>2. \A s : Judged(s)' = Judged(s) \ {w}
      BY <3>1, JudgedLeaves
    <3> QED BY <2>1, <3>2 DEF Calm
  <2> QED BY <2>2, <2>3
<1>5. CASE RunTool(w)
  BY <1>5, AnswerCalm DEF RunTool, AfterTool, Answer
<1>6. ASSUME NEW p \in Principals, NEW flag \in BOOLEAN, RunArchive(w, p, flag)
      PROVE  Calm
  BY <1>6, AnswerCalm DEF RunArchive, AfterTool, Answer
<1> QED BY <1>1, <1>2, <1>3, <1>4, <1>5, <1>6 DEF Serve

LEMMA BanShapes ==
  ASSUME Placed, [Next]_vars
  PROVE  \/ \E w \in Workers, s \in Sources, b \in Bearers : Arrive(w, s, b)
         \/ \E w \in Workers : Refusing(w)
         \/ Restart
         \/ Calm
<1>1. ASSUME NEW w \in Workers, Abort(w) PROVE Calm
  BY <1>1, AnswerCalm DEF Abort, Answer
<1>2. CASE \/ \E t \in Tokens : Revoke(t)
           \/ \E p \in Principals, flag \in BOOLEAN : OperatorArchives(p, flag)
           \/ Tick \/ Done \/ UNCHANGED vars
  <2>1. /\ UNCHANGED <<fails, pc, job>>
        /\ now' = now \/ now' = now + 1
    BY <1>2 DEF Revoke, OperatorArchives, Change, Tick, Done, vars
  <2> QED BY <2>1 DEF Calm, Judged
<1> QED BY <1>1, <1>2, ServeBan DEF Next

\* The number of judged requests, and of any part of them.
LEMMA JudgedCount ==
  /\ Cardinality(Workers) \in Nat
  /\ \A T \in SUBSET Workers :
       /\ Cardinality(T) \in Nat
       /\ Cardinality(T) <= Cardinality(Workers)
       /\ \A U \in SUBSET T : Cardinality(U) <= Cardinality(T)
       /\ \A w \in T : Cardinality(T \ {w}) = Cardinality(T) - 1
<1>1. IsFiniteSet(Workers) /\ Cardinality(Workers) \in Nat
  BY GatewayAssumption, FS_CardinalityType
<1>2. ASSUME NEW T \in SUBSET Workers
      PROVE  /\ IsFiniteSet(T) /\ Cardinality(T) \in Nat
             /\ Cardinality(T) <= Cardinality(Workers)
  BY <1>1, FS_Subset, FS_CardinalityType
<1>3. ASSUME NEW T \in SUBSET Workers, NEW U \in SUBSET T
      PROVE  Cardinality(U) <= Cardinality(T)
  BY <1>2, FS_Subset
<1>4. ASSUME NEW T \in SUBSET Workers, NEW w \in T
      PROVE  Cardinality(T \ {w}) = Cardinality(T) - 1
  BY <1>2, FS_RemoveElement
<1> QED BY <1>1, <1>2, <1>3, <1>4

\* The deque of a source after pruning, and with a failure more.
LEMMA FailsCount ==
  ASSUME NEW ts \in Moments, NEW t \in 0..MaxTime
  PROVE  /\ After(ts, t - Window) \in Moments
         /\ Append(After(ts, t - Window), t) \in Moments
         /\ Len(After(ts, t - Window)) \in Nat
         /\ Len(After(After(ts, t - Window), t - Window)) = Len(After(ts, t - Window))
         /\ Len(After(Append(After(ts, t - Window), t), t - Window))
              = Len(After(ts, t - Window)) + 1
<1> DEFINE c == t - Window
           b == After(ts, c)
<1>1. c \in Int /\ t > c /\ t \in Nat /\ ts \in Times
  BY Clock, MomentsTyped
<1>2. b \in Moments
  BY <1>1, Clock, AfterTyped DEF Moments
<1>3. Append(b, t) \in Moments
  BY <1>2, AppendProperties, Zenon DEF Moments
<1>4. Len(b) \in Nat /\ b \in Times
  BY <1>2, MomentsTyped
<1>5. /\ Current(b, c)
      /\ Append(b, t) \in Times
      /\ Len(Append(b, t)) = Len(b) + 1
      /\ Current(Append(b, t), c)
  BY <1>1, AfterCurrent
<1> HIDE DEF b, c
<1>6. Len(After(b, c)) = Len(b) /\ Len(After(Append(b, t), c)) = Len(b) + 1
  BY <1>1, <1>4, <1>5, CurrentStays
<1> QED BY <1>2, <1>3, <1>4, <1>6 DEF b, c

\* The cutoff does not go back.
LEMMA CutoffMoves ==
  \A x, y \in 0..MaxTime :
    y = x \/ y = x + 1 => y - Window \in Int /\ x - Window <= y - Window
BY Clock

LEMMA BanInit == Init => BanInv
<1> SUFFICES ASSUME Init PROVE BanInv
  OBVIOUS
<1>1. fails \in [Sources -> Moments]
  BY Nothing DEF Init
<1>2. ASSUME NEW s \in Sources
      PROVE  Len(Pruned(fails[s])) + Cardinality(Judged(s)) <= Threshold - 1 + Cardinality(Workers)
  <2>1. fails[s] = <<>> /\ fails[s] \in Times /\ now - Window \in Int
    BY Nothing, MomentsTyped, Clock DEF Init
  <2>2. Len(Pruned(fails[s])) = 0
    <3>1. Current(fails[s], now - Window)
      BY <2>1 DEF Current
    <3>2. Len(After(fails[s], now - Window)) = Len(fails[s])
      BY <2>1, <3>1, CurrentStays
    <3> QED BY <2>1, <3>2, Nothing DEF Pruned
  <2>3. Judged(s) = {}
    BY DEF Judged, Init
  <2>4. Cardinality(Judged(s)) = 0
    BY <2>3, FS_EmptySet
  <2>5. Threshold \in Nat /\ Threshold # 0 /\ Cardinality(Workers) \in Nat
    BY GatewayAssumption, JudgedCount
  <2> QED BY <2>2, <2>4, <2>5
<1> QED BY <1>1, <1>2 DEF BanInv

LEMMA BanStep ==
  WindowInv /\ WindowInv' /\ BanInv /\ Placed /\ [Next]_vars => BanInv'
<1> SUFFICES ASSUME WindowInv, WindowInv', BanInv, Placed, [Next]_vars PROVE BanInv'
  OBVIOUS
<1> DEFINE N == Cardinality(Workers)
           c == now - Window
<1>1. now \in 0..MaxTime /\ now \in Nat /\ c \in Int /\ now' \in 0..MaxTime
  BY Clock DEF WindowInv
<1>2. N \in Nat /\ Threshold \in Nat /\ Threshold # 0
  BY GatewayAssumption, JudgedCount
<1>3. fails \in [Sources -> Moments]
  BY DEF BanInv
<1>4. ASSUME NEW s \in Sources
      PROVE  /\ fails[s] \in Moments /\ fails[s] \in Times
             /\ Len(After(fails[s], c)) \in Nat
             /\ Cardinality(Judged(s)) \in Nat
             /\ Len(After(fails[s], c)) + Cardinality(Judged(s)) <= Threshold - 1 + N
  <2>1. fails[s] \in Moments
    BY <1>3
  <2>2. Judged(s) \in SUBSET Workers
    BY DEF Judged
  <2>3. Len(After(fails[s], c)) \in Nat /\ fails[s] \in Times
    BY <1>1, <2>1, FailsCount, MomentsTyped
  <2> QED BY <2>1, <2>2, <2>3, JudgedCount DEF BanInv, Pruned
<1>5. ASSUME NEW s \in Sources, Judged(s)' \subseteq Judged(s)
      PROVE  /\ Cardinality(Judged(s)') \in Nat
             /\ Cardinality(Judged(s)') <= Cardinality(Judged(s))
  <2>1. Judged(s) \in SUBSET Workers /\ Judged(s)' \in SUBSET Judged(s)
        /\ Judged(s)' \in SUBSET Workers
    BY <1>5 DEF Judged
  <2> QED BY <2>1, JudgedCount
<1> DEFINE Fits(s) ==
      Len(After(fails'[s], now' - Window)) + Cardinality(Judged(s)') <= Threshold - 1 + N
<1>6. ASSUME NEW w \in Workers, NEW s \in Sources, NEW b \in Bearers, Arrive(w, s, b),
             NEW r \in Sources
      PROVE  fails'[r] \in Moments /\ Fits(r)
  <2>1. /\ now' = now /\ pc[w] = "idle"
        /\ fails' = [fails EXCEPT ![s] = After(fails[s], c)]
    BY <1>6 DEF Arrive, Pruned
  <2>2. /\ fails'[r] \in Moments
        /\ Len(After(fails'[r], c)) = Len(After(fails[r], c))
    <3>1. CASE r = s
      <4>1. fails'[r] = After(fails[r], c)
        BY <1>3, <2>1, <3>1
      <4> QED BY <1>1, <1>4, <4>1, FailsCount
    <3>2. CASE r # s
      BY <1>3, <1>4, <2>1, <3>2
    <3> QED BY <3>1, <3>2
  <2>3. CASE Judged(r)' \subseteq Judged(r)
    <3>1. /\ Cardinality(Judged(r)') \in Nat
          /\ Cardinality(Judged(r)') <= Cardinality(Judged(r))
      BY <1>5, <2>3
    <3>2. /\ Len(After(fails[r], c)) \in Nat /\ Cardinality(Judged(r)) \in Nat
          /\ Len(After(fails[r], c)) + Cardinality(Judged(r)) <= Threshold - 1 + N
      BY <1>4
    <3>3. Len(After(fails[r], c)) + Cardinality(Judged(r)') <= Threshold - 1 + N
      <4> HIDE DEF c, N
      <4> QED BY <1>2, <3>1, <3>2
    <3> QED BY <2>1, <2>2, <3>3
  <2>4. CASE ~(Judged(r)' \subseteq Judged(r))
    <3>1. ~Banned(s)
      <4> SUFFICES ASSUME Banned(s) PROVE FALSE
        OBVIOUS
      <4>1. Respond(w, "banned")
        BY <1>6 DEF Arrive, Answer
      <4>2. pc' = [pc EXCEPT ![w] = "idle"] /\ \A v \in Workers : v # w => job'[v] = job[v]
        BY <4>1, OthersKeepJob DEF Respond
      <4>3. Judged(r)' = Judged(r) \ {w}
        BY <4>2, JudgedLeaves
      <4> QED BY <2>4, <4>3
    <3>2. /\ pc' = [pc EXCEPT ![w] = "token"]
          /\ job' = [job EXCEPT ![w] =
               [source |-> s, bearer |-> b, name |-> "none", tool |-> NoTool]]
      BY <1>6, <3>1 DEF Arrive, Enter
    <3>3. \A v \in Workers : v # w => pc'[v] = pc[v] /\ job'[v] = job[v]
      BY <3>2 DEF Placed
    <3>4. job'[w].source = s
      BY <3>2 DEF Placed
    <3>5. r = s
      BY <2>4, <3>3, <3>4 DEF Judged
    <3>6. Len(After(fails[r], c)) < Threshold
      <4>1. Len(After(fails[r], c)) \in Nat
        BY <1>4
      <4>2. ~(Len(After(fails[r], c)) >= Threshold)
        BY <3>1, <3>5 DEF Banned, Pruned
      <4> HIDE DEF c
      <4> QED BY <1>2, <4>1, <4>2
    <3>7. Cardinality(Judged(r)') \in Nat /\ Cardinality(Judged(r)') <= N
      <4>1. Judged(r)' \in SUBSET Workers
        BY DEF Judged
      <4> QED BY <4>1, JudgedCount
    <3>8. Len(After(fails[r], c)) \in Nat
      BY <1>4
    <3>9. Len(After(fails[r], c)) + Cardinality(Judged(r)') <= Threshold - 1 + N
      <4> HIDE DEF c, N
      <4> QED BY <1>2, <3>6, <3>7, <3>8
    <3> QED BY <2>1, <2>2, <3>9
  <2> QED BY <2>3, <2>4
<1>7. ASSUME NEW w \in Workers, Refusing(w), NEW r \in Sources
      PROVE  fails'[r] \in Moments /\ Fits(r)
  <2>1. /\ now' = now /\ pc[w] \in {"token", "principal"} /\ Respond(w, "unauthorized")
        /\ fails' = [fails EXCEPT ![job[w].source] = Append(After(@, c), now)]
    BY <1>7 DEF Refusing, Refuse, Answer, Pruned
  <2>2. pc' = [pc EXCEPT ![w] = "idle"] /\ \A v \in Workers : v # w => job'[v] = job[v]
    BY <2>1, OthersKeepJob DEF Respond
  <2>3. Judged(r)' = Judged(r) \ {w}
    BY <2>2, JudgedLeaves
  <2>4. /\ Len(After(fails[r], c)) \in Nat /\ Cardinality(Judged(r)) \in Nat
        /\ Len(After(fails[r], c)) + Cardinality(Judged(r)) <= Threshold - 1 + N
    BY <1>4
  <2>5. CASE r = job[w].source
    <3>1. fails'[r] = Append(After(fails[r], c), now)
      BY <1>3, <2>1, <2>5
    <3>2. /\ fails'[r] \in Moments
          /\ Len(After(fails'[r], c)) = Len(After(fails[r], c)) + 1
      BY <1>1, <1>4, <3>1, FailsCount
    <3>3. Cardinality(Judged(r)') = Cardinality(Judged(r)) - 1
      <4>1. w \in Judged(r) /\ Judged(r) \in SUBSET Workers
        BY <2>1, <2>5 DEF Judged
      <4> QED BY <2>3, <4>1, JudgedCount
    <3>4. (Len(After(fails[r], c)) + 1) + (Cardinality(Judged(r)) - 1) <= Threshold - 1 + N
      <4> HIDE DEF c, N
      <4> QED BY <1>2, <2>4
    <3> QED BY <2>1, <3>2, <3>3, <3>4
  <2>6. CASE r # job[w].source
    <3>1. fails'[r] = fails[r]
      BY <1>3, <2>1, <2>6
    <3>2. /\ Cardinality(Judged(r)') \in Nat
          /\ Cardinality(Judged(r)') <= Cardinality(Judged(r))
      BY <1>5, <2>3
    <3>3. Len(After(fails[r], c)) + Cardinality(Judged(r)') <= Threshold - 1 + N
      <4> HIDE DEF c, N
      <4> QED BY <1>2, <2>4, <3>2
    <3> QED BY <1>4, <2>1, <3>1, <3>3
  <2> QED BY <2>5, <2>6
<1>8. ASSUME Calm, NEW r \in Sources
      PROVE  fails'[r] \in Moments /\ Fits(r)
  <2>1. /\ fails' = fails
        /\ now' = now \/ now' = now + 1
    BY <1>8 DEF Calm
  <2> DEFINE d == now' - Window
  <2>2. d \in Int /\ c <= d
    BY <1>1, <2>1, CutoffMoves, Zenon
  <2>3. Len(After(fails[r], d)) <= Len(After(fails[r], c))
    BY <1>1, <1>4, <2>2, AfterLater
  <2>4. /\ Cardinality(Judged(r)') \in Nat
        /\ Cardinality(Judged(r)') <= Cardinality(Judged(r))
    BY <1>5, <1>8 DEF Calm
  <2>5. Len(After(fails[r], d)) \in Nat
    BY <1>1, <1>4, FailsCount
  <2>6. /\ Len(After(fails[r], c)) \in Nat /\ Cardinality(Judged(r)) \in Nat
        /\ Len(After(fails[r], c)) + Cardinality(Judged(r)) <= Threshold - 1 + N
    BY <1>4
  <2>7. Len(After(fails[r], d)) + Cardinality(Judged(r)') <= Threshold - 1 + N
    <3> HIDE DEF c, d, N
    <3> QED BY <1>2, <2>3, <2>4, <2>5, <2>6
  <2> QED BY <1>4, <1>8, <2>7 DEF Calm
<1>9. ASSUME Restart, NEW r \in Sources
      PROVE  fails'[r] \in Moments /\ Fits(r)
  <2>1. /\ fails'[r] = <<>> /\ \A w \in Workers : pc'[w] = "idle"
    BY <1>9 DEF Restart
  <2>2. fails'[r] \in Moments /\ fails'[r] \in Times
    BY <2>1, Nothing, MomentsTyped
  <2>3. Len(After(fails'[r], now' - Window)) = 0
    <3>1. now' - Window \in Int
      BY <1>1, Clock
    <3>2. Current(fails'[r], now' - Window)
      BY <2>1 DEF Current
    <3>3. Len(After(fails'[r], now' - Window)) = Len(fails'[r])
      BY <2>2, <3>1, <3>2, CurrentStays
    <3> QED BY <2>1, <3>3, Nothing
  <2>4. Judged(r)' = {}
    BY <2>1 DEF Judged
  <2>5. Cardinality(Judged(r)') = 0
    BY <2>4, FS_EmptySet
  <2> HIDE DEF N
  <2> QED BY <1>2, <2>2, <2>3, <2>5
<1>10. \A r \in Sources : fails'[r] \in Moments /\ Fits(r)
  <2> HIDE DEF Fits
  <2> QED BY <1>6, <1>7, <1>8, <1>9, BanShapes
<1>11. fails' \in [Sources -> Moments]
  <2>1. \/ \E s, x : fails' = [fails EXCEPT ![s] = x]
        \/ fails' = [s \in Sources |-> <<>>] \/ fails' = fails
    BY BanShapes DEF Arrive, Refusing, Refuse, Restart, Calm
  <2>2. \E x : fails' = [s \in Sources |-> x[s]]
    <3>1. DOMAIN fails' = Sources /\ fails' = [s \in DOMAIN fails' |-> fails'[s]]
      BY <1>3, <2>1
    <3> QED BY <3>1
  <2> QED BY <1>10, <2>2
<1> QED BY <1>10, <1>11 DEF BanInv, Pruned

-----------------------------------------------------------------------------
(* The whole state.                                                        *)

\* What the operator and the bounds write, and the last answer.
Ledger ==
  /\ revoked \subseteq Tokens /\ archived \subseteq Principals
  /\ answer \in Answers
  /\ requests \in 0..MaxRequests /\ changes \in 0..MaxChanges

GateInv ==
  DoorInv /\ PoolInv /\ WindowInv /\ RateWindow /\ BanInv /\ Ledger

LEMMA LedgerInit == Init => Ledger
BY GatewayAssumption DEF Init, Ledger, Answers

\* The bounds count requests and changes one by one.
LEMMA Counted ==
  [Next]_vars =>
    /\ requests' = requests \/ (requests < MaxRequests /\ requests' = requests + 1)
    /\ changes' = changes \/ (changes < MaxChanges /\ changes' = changes + 1)
<1> SUFFICES ASSUME [Next]_vars
             PROVE  /\ requests' = requests \/ (requests < MaxRequests /\ requests' = requests + 1)
                    /\ changes' = changes \/ (changes < MaxChanges /\ changes' = changes + 1)
  OBVIOUS
<1>1. CASE \E w \in Workers, s \in Sources, b \in Bearers : Arrive(w, s, b)
  BY <1>1 DEF Arrive
<1>2. CASE \E w \in Workers : Serve(w) \/ Abort(w)
  BY <1>2 DEF Serve, LookUpToken, CheckPrincipal, LookUpName, CheckRate, RunTool,
              RunArchive, Abort, AfterTool, Change
<1>3. CASE \/ Tick \/ Restart \/ Done \/ UNCHANGED vars
           \/ \E t \in Tokens : Revoke(t)
           \/ \E p \in Principals, flag \in BOOLEAN : OperatorArchives(p, flag)
  BY <1>3 DEF Tick, Restart, Done, vars, Revoke, OperatorArchives, Change
<1> QED BY <1>1, <1>2, <1>3 DEF Next

LEMMA LedgerStep == PoolInv /\ Placed /\ Ledger /\ [Next]_vars => Ledger'
<1> SUFFICES ASSUME PoolInv, Placed, Ledger, [Next]_vars PROVE Ledger'
  OBVIOUS
<1>1. answer' \in Answers
  <2>1. "none" \in Answers
    BY DEF Answers
  <2> QED BY <2>1, StepShapes DEF Entering, Responding, Enter, Respond, Restart, Ledger
<1>2. revoked' = revoked \/ \E t \in Tokens : revoked' = revoked \cup {t}
  <2>1. ASSUME NEW w \in Workers,
               \/ \E s \in Sources, b \in Bearers : Arrive(w, s, b)
               \/ Serve(w) \/ Abort(w)
        PROVE  revoked' = revoked
    <3>1. CASE Abort(w) \/ \E s \in Sources, b \in Bearers : Arrive(w, s, b)
      BY <3>1 DEF Arrive, Abort, door
    <3>2. CASE Serve(w)
      BY <3>2 DEF Serve, LookUpToken, CheckPrincipal, LookUpName, CheckRate,
                  RunTool, RunArchive, AfterTool, door
    <3> QED BY <2>1, <3>1, <3>2
  <2>2. CASE \/ Tick \/ Restart \/ Done \/ UNCHANGED vars
             \/ \E t \in Tokens : Revoke(t)
             \/ \E p \in Principals, flag \in BOOLEAN : OperatorArchives(p, flag)
    BY <2>2 DEF Tick, Restart, Done, vars, door, Revoke, OperatorArchives
  <2> QED BY <2>1, <2>2 DEF Next
<1>3. archived' = archived
      \/ \E p \in Principals : archived' \in {archived \cup {p}, archived \ {p}}
  <2>1. ASSUME NEW w \in Workers,
               \/ \E s \in Sources, b \in Bearers : Arrive(w, s, b)
               \/ Serve(w) \/ Abort(w)
        PROVE  archived' = archived
               \/ \E p \in Principals : archived' \in {archived \cup {p}, archived \ {p}}
    <3>1. CASE Abort(w) \/ \E s \in Sources, b \in Bearers : Arrive(w, s, b)
      BY <3>1 DEF Arrive, Abort, door
    <3>2. CASE RunTool(w) \/ \E p \in Principals, flag \in BOOLEAN : RunArchive(w, p, flag)
      BY <3>2 DEF RunTool, RunArchive, SetArchived
    <3>3. CASE \/ LookUpToken(w) \/ LookUpName(w) \/ CheckRate(w)
               \/ \E n \in Names : CheckPrincipal(w, n)
      BY <3>3 DEF LookUpToken, CheckPrincipal, LookUpName, CheckRate, door
    <3> QED BY <2>1, <3>1, <3>2, <3>3 DEF Serve
  <2>2. CASE \/ Tick \/ Restart \/ Done \/ UNCHANGED vars
             \/ \E t \in Tokens : Revoke(t)
             \/ \E p \in Principals, flag \in BOOLEAN : OperatorArchives(p, flag)
    BY <2>2 DEF Tick, Restart, Done, vars, door, Revoke, OperatorArchives, SetArchived
  <2> QED BY <2>1, <2>2 DEF Next
<1>4. requests' \in 0..MaxRequests /\ changes' \in 0..MaxChanges
  <2>1. /\ requests \in 0..MaxRequests /\ changes \in 0..MaxChanges
        /\ MaxRequests \in Nat /\ MaxChanges \in Nat
    BY GatewayAssumption DEF Ledger
  <2> QED BY <2>1, Counted
<1> QED BY <1>1, <1>2, <1>3, <1>4 DEF Ledger

LEMMA GateInit == Init => GateInv
BY DoorInit, PoolInit, WindowInit, RateInit, BanInit, LedgerInit DEF GateInv

LEMMA GateStep == GateInv /\ [Next]_vars => GateInv'
<1> SUFFICES ASSUME GateInv, [Next]_vars PROVE GateInv'
  OBVIOUS
<1>1. /\ DoorInv /\ PoolInv /\ WindowInv /\ RateWindow /\ BanInv /\ Ledger
      /\ Placed
  BY DEF GateInv, DoorInv
<1>2. DoorInv'
  BY <1>1, DoorStep
<1>3. PoolInv'
  BY <1>1, PoolStep
<1>4. WindowInv'
  BY <1>1, WindowStep
<1>5. RateWindow'
  BY <1>1, <1>4, RateStep
<1>6. BanInv'
  BY <1>1, <1>4, BanStep
<1>7. Ledger'
  BY <1>1, LedgerStep
<1> QED BY <1>2, <1>3, <1>4, <1>5, <1>6, <1>7 DEF GateInv

LEMMA GateTyped == GateInv => TypeOK
<1> SUFFICES ASSUME GateInv PROVE TypeOK
  OBVIOUS
<1>1. /\ Placed /\ PoolInv /\ WindowInv /\ BanInv /\ Ledger
  BY DEF GateInv, DoorInv
<1>2. /\ queue \in Seq(Workers)
      /\ \A w \in Workers : pc[w] # "idle" => w \in busy \/ Waits(w)
      /\ \A w \in busy : pc[w] # "idle" /\ ~Waits(w)
  BY <1>1 DEF PoolInv, Line, Waits
<1>3. events \in Buckets /\ admitted \in Buckets /\ fails \in [Sources -> Seq(0..MaxTime)]
  BY <1>1 DEF WindowInv, BanInv, Buckets, Moments
<1> QED BY <1>1, <1>2, <1>3 DEF TypeOK, Placed, Jobs, PoolInv, WindowInv, Ledger

\* Every variable keeps its type; every request in flight holds a connection or
\* waits for one, never both, and the pool is never overdrawn: each stage gives
\* back its connection before the next one asks (the `async with` blocks of
\* BearerAuthMiddleware and handle_call_tool).
THEOREM PoolNeverOverdrawn == Spec => []TypeOK
<1>1. Init => GateInv
  BY GateInit
<1>2. GateInv /\ [Next]_vars => GateInv'
  BY GateStep
<1>3. GateInv => TypeOK
  BY GateTyped
<1> QED BY <1>1, <1>2, <1>3, PTL DEF Spec

-----------------------------------------------------------------------------
(* The limits.                                                             *)

\* Only a full window answers that a request is rate limited.
LEMMA LimitedWhenFull ==
  ASSUME Placed, [Next]_vars, NEW w \in Workers, Answered(w, "rate_limited")
  PROVE  /\ pc[w] = "limits"
         /\ Full(Pruned(events[job[w].bearer][Kind(job[w].tool)]), Kind(job[w].tool))
<1>1. answer' = "rate_limited" /\ pc'[w] # pc[w]
  BY DEF Answered
<1>2. \A v, a : Answer(v, a) \/ Respond(v, a) =>
        answer' = a /\ pc' = [pc EXCEPT ![v] = "idle"]
  BY DEF Answer, Respond
<1>3. \A v, stage : Enter(v, stage) \/ Advance(v, stage) => answer' = "none"
  BY DEF Advance, Enter
<1>4. ASSUME NEW v \in Workers, NEW s \in Sources, NEW b \in Bearers, Arrive(v, s, b)
      PROVE  FALSE
  BY <1>1, <1>2, <1>3, <1>4 DEF Arrive
<1>5. \A v, n, tool : Authorize(v, n, tool) => answer' # "rate_limited"
  BY <1>2, <1>3 DEF Authorize
<1>6. ASSUME NEW v \in Workers, LookUpToken(v) \/ LookUpName(v) \/ RunTool(v) \/ Abort(v)
      PROVE  FALSE
  BY <1>1, <1>2, <1>3, <1>5, <1>6 DEF LookUpToken, LookUpName, RunTool, Abort, Refuse
<1>7. ASSUME NEW v \in Workers, NEW n \in Names, CheckPrincipal(v, n) PROVE FALSE
  BY <1>1, <1>2, <1>3, <1>5, <1>7 DEF CheckPrincipal, Dispatch, Refuse
<1>8. ASSUME NEW v \in Workers, NEW p \in Principals, NEW flag \in BOOLEAN,
             RunArchive(v, p, flag)
      PROVE  FALSE
  BY <1>1, <1>2, <1>8 DEF RunArchive
<1>9. ASSUME NEW v \in Workers, CheckRate(v)
      PROVE  /\ pc[w] = "limits"
             /\ Full(Pruned(events[job[w].bearer][Kind(job[w].tool)]), Kind(job[w].tool))
  <2>1. /\ pc[v] = "limits" /\ \E a : Answer(v, a)
        /\ Full(Pruned(events[job[v].bearer][Kind(job[v].tool)]), Kind(job[v].tool))
    BY <1>1, <1>3, <1>9 DEF CheckRate
  <2>2. pc' = [pc EXCEPT ![v] = "idle"]
    BY <1>2, <2>1
  <2>3. v = w
    BY <1>1, <2>2 DEF Placed
  <2> QED BY <2>1, <2>3
<1>10. CASE \/ Tick \/ Restart \/ Done \/ UNCHANGED vars
            \/ \E t \in Tokens : Revoke(t)
            \/ \E p \in Principals, flag \in BOOLEAN : OperatorArchives(p, flag)
  BY <1>1, <1>10 DEF Tick, Restart, Done, vars, Revoke, OperatorArchives, Change
<1> QED BY <1>4, <1>6, <1>7, <1>8, <1>9, <1>10 DEF Next, Serve

\* A call is refused only in a full window, however the requests before it
\* interleaved (RateLimiter.check).
LEMMA RefusedWhenFull ==
  ASSUME GateInv, [Next]_vars, NEW w \in Workers, Answered(w, "rate_limited")
  PROVE  AdmittedIn(job[w].bearer, Kind(job[w].tool), now) >= Limit[Kind(job[w].tool)]
<1> DEFINE t == job[w].bearer
           k == Kind(job[w].tool)
<1>1. DoorInv /\ WindowInv /\ Placed
  BY DEF GateInv, DoorInv
<1>2. pc[w] = "limits" /\ Full(Pruned(events[t][k]), k)
  BY <1>1, LimitedWhenFull
<1>3. t \in Tokens /\ k \in Kinds
  BY <1>1, <1>2 DEF DoorInv, Gated, Kind, Kinds
<1> HIDE DEF t, k
<1>4. AdmittedIn(t, k, now) = Len(Pruned(events[t][k]))
  BY <1>1, <1>3, FullWindow
<1>5. AdmittedIn(t, k, now) >= Limit[k]
  BY <1>2, <1>4 DEF Full
<1> QED BY <1>5 DEF t, k

\* At most Threshold - 1 and one per worker: the failures on record for a source.
LEMMA BanHolds ==
  ASSUME GateInv', NEW s \in Sources
  PROVE  Len(Pruned(fails[s]))' <= Threshold - 1 + Cardinality(Workers)
<1>1. fails'[s] \in Moments /\ now' \in 0..MaxTime
  BY DEF GateInv, BanInv, WindowInv
<1> DEFINE x == Len(After(fails'[s], now' - Window))
           y == Cardinality(Judged(s)')
<1>2. x \in Nat
  BY <1>1, FailsCount
<1>3. y \in Nat /\ Cardinality(Workers) \in Nat
  <2>1. Judged(s)' \in SUBSET Workers
    BY DEF Judged
  <2> QED BY <2>1, JudgedCount
<1>4. x + y <= Threshold - 1 + Cardinality(Workers)
  BY DEF GateInv, BanInv, Pruned
<1>5. Threshold \in Nat
  BY GatewayAssumption
<1> HIDE DEF x, y
<1>6. x <= Threshold - 1 + Cardinality(Workers)
  BY <1>2, <1>3, <1>4, <1>5
<1> QED BY <1>6 DEF x, Pruned

\* The sliding windows are exact for any number of workers, sources and tokens
\* and any limits: no window lets more calls through than the limit, none is
\* refused before its window is full, and what a ban lets through is bounded by
\* the requests already past it (RateLimiter.check, FailureTracker).
THEOREM WindowsExact == Spec => LimitsExact
<1>1. GateInv /\ [Next]_vars =>
        [/\ RateWindow'
         /\ \A w \in Workers : Answered(w, "rate_limited") =>
              LET kind == Kind(job[w].tool)
              IN  AdmittedIn(job[w].bearer, kind, now) >= Limit[kind]
         /\ \A s \in Sources :
              Len(Pruned(fails[s]))' <= Threshold - 1 + Cardinality(Workers)]_vars
  <2> SUFFICES ASSUME GateInv, [Next]_vars
               PROVE  /\ RateWindow'
                      /\ \A w \in Workers : Answered(w, "rate_limited") =>
                           AdmittedIn(job[w].bearer, Kind(job[w].tool), now)
                             >= Limit[Kind(job[w].tool)]
                      /\ \A s \in Sources :
                           Len(Pruned(fails[s]))' <= Threshold - 1 + Cardinality(Workers)
    OBVIOUS
  <2>1. GateInv'
    BY GateStep
  <2>2. RateWindow' /\ BanInv' /\ WindowInv'
    BY <2>1 DEF GateInv
  <2>3. ASSUME NEW s \in Sources
        PROVE  Len(Pruned(fails[s]))' <= Threshold - 1 + Cardinality(Workers)
    BY <2>1, BanHolds
  <2> QED BY <2>2, <2>3, RefusedWhenFull
<1>2. Init => GateInv
  BY GateInit
<1>3. GateInv /\ [Next]_vars => GateInv'
  BY GateStep
<1> QED BY <1>1, <1>2, <1>3, PTL DEF Spec, LimitsExact
=============================================================================
