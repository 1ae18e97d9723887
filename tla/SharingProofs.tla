--------------------------- MODULE SharingProofs ---------------------------
(***************************************************************************)
(* What the row policies promise holds for any number of principals,       *)
(* scopes, calls and pooled connections: a call holds no node its          *)
(* principal could not read throughout, and stores only where it may       *)
(* write.  The invariant is that a transaction has a connection to itself  *)
(* (OwnConnection), with its own principal's identity, and that what it    *)
(* holds was readable at some moment of it.  Link calls attach whole       *)
(* batches, because of how far each of them is (Halfway).                  *)
(***************************************************************************)
EXTENDS Sharing, TLAPS

Jobs ==
  [who : Principals \cup {NoOne}, req : Asked \cup {NoReq}, scopes : SUBSET Scopes,
   hits : SUBSET Nodes, got : SUBSET Nodes, todo : Seq(Nodes)]

\* The stages of a call between two transactions, or of none.
Shut == {"idle", "embed", "flip"}

Shaped ==
  /\ conn \in [Sessions -> Conns \cup {NoConn}]
  /\ guc \in [Conns -> Principals \cup {NoOne}]
  /\ pc \in [Sessions -> Stages] /\ job \in [Sessions -> Jobs]
  /\ hidden \subseteq Sessions \X Nodes

OwnConnection ==
  /\ \A s \in Sessions : conn[s] = NoConn <=> pc[s] \in Shut
  /\ \A s, t \in Sessions : s # t /\ conn[s] # NoConn => conn[s] # conn[t]
  /\ \A s \in Sessions : conn[s] # NoConn => guc[conn[s]] = job[s].who

\* hidden is what it says: unreadable, and of a transaction.
HiddenUnread ==
  \A s \in Sessions, n \in Nodes :
    <<s, n>> \in hidden => conn[s] # NoConn /\ NodeScope[n] \notin Readable(job[s].who)

\* Only the last stages of a read hold nodes.
GotLate == \A s \in Sessions : job[s].got # {} => pc[s] \in {"bump", "edges", "shown"}

CallInv == Shaped /\ OwnConnection /\ HiddenUnread /\ GotLate /\ HiddenStaysHidden

-----------------------------------------------------------------------------
(* What the helpers of the actions do.                                     *)

LEMMA NoJobTyped == NoJob \in Jobs /\ NoJob.got = {}
BY DEF NoJob, Jobs

\* A statement of a transaction that goes on.
LEMMA MovesOnKeeps ==
  ASSUME CallInv, UNCHANGED access, NEW s \in Sessions, NEW l \in Stages \ Shut, Next1(s, l),
         pc[s] \notin Shut,
         NEW j \in Jobs, job' = [job EXCEPT ![s] = j], j.who = job[s].who,
         \A n \in j.got : n \in job[s].got \/ NodeScope[n] \in Readable(job[s].who),
         j.got # {} => l \in {"bump", "edges", "shown"}
  PROVE  CallInv'
<1>1. /\ UNCHANGED <<conn, guc, hidden>> /\ pc' = [pc EXCEPT ![s] = l]
  BY DEF Next1
<1>2. Shaped'
  BY <1>1 DEF CallInv, Shaped
<1>3. /\ \A t \in Sessions : t # s => pc'[t] = pc[t] /\ job'[t] = job[t]
      /\ pc'[s] = l /\ job'[s] = j
  BY <1>1 DEF CallInv, Shaped
<1>4. OwnConnection'
  BY <1>1, <1>3 DEF CallInv, OwnConnection
<1>5. HiddenUnread'
  BY <1>1, <1>3 DEF CallInv, HiddenUnread, Readable, access
<1>6. GotLate'
  BY <1>3 DEF CallInv, GotLate
<1>7. \A n \in j.got : <<s, n>> \notin hidden
  BY DEF CallInv, HiddenStaysHidden, HiddenUnread, Jobs
<1>8. HiddenStaysHidden'
  BY <1>1, <1>3, <1>7 DEF CallInv, HiddenStaysHidden
<1> QED BY <1>2, <1>4, <1>5, <1>6, <1>8 DEF CallInv

LEMMA SameJobKeeps ==
  ASSUME CallInv, UNCHANGED <<access, job>>, NEW s \in Sessions, NEW l \in Stages \ Shut, Next1(s, l),
         pc[s] \notin Shut, job[s].got # {} => l \in {"bump", "edges", "shown"}
  PROVE  CallInv'
<1>1. job' = [job EXCEPT ![s] = job[s]] /\ job[s] \in Jobs
  BY DEF CallInv, Shaped
<1> QED BY <1>1, MovesOnKeeps

\* A transaction ends, and the call with it or between two of its transactions.
LEMMA CloseKeeps ==
  ASSUME CallInv, UNCHANGED access, NEW s \in Sessions, Close(s), conn[s] # NoConn,
         NEW l \in Shut, pc' = [pc EXCEPT ![s] = l],
         NEW j \in Jobs, job' = [job EXCEPT ![s] = j], j.got = {}
  PROVE  CallInv'
<1>1. /\ conn' = [conn EXCEPT ![s] = NoConn] /\ guc' = [guc EXCEPT ![conn[s]] = NoOne]
      /\ hidden' = {x \in hidden : x[1] # s}
  BY DEF Close
<1>2. Shaped'
  BY <1>1 DEF CallInv, Shaped, Shut, Stages
<1>3. /\ \A t \in Sessions : t # s => pc'[t] = pc[t] /\ job'[t] = job[t] /\ conn'[t] = conn[t]
      /\ pc'[s] = l /\ job'[s] = j /\ conn'[s] = NoConn
  BY <1>1 DEF CallInv, Shaped
<1>4. \A t \in Sessions : t # s /\ conn[t] # NoConn => guc'[conn[t]] = guc[conn[t]]
  BY <1>1 DEF CallInv, Shaped, OwnConnection
<1>5. OwnConnection'
  BY <1>3, <1>4 DEF CallInv, OwnConnection
<1>6. \A t \in Sessions, n \in Nodes : <<t, n>> \in hidden' => t # s /\ <<t, n>> \in hidden
  BY <1>1
<1>7. HiddenUnread'
  BY <1>3, <1>6 DEF CallInv, HiddenUnread, Readable, access
<1>8. GotLate'
  BY <1>3 DEF CallInv, GotLate
<1>9. HiddenStaysHidden'
  BY <1>1, <1>3 DEF CallInv, HiddenStaysHidden
<1> QED BY <1>2, <1>5, <1>7, <1>8, <1>9 DEF CallInv

LEMMA FinishKeeps ==
  ASSUME CallInv, UNCHANGED access, NEW s \in Sessions, NEW a, Finish(s, a), pc[s] \notin Shut
  PROVE  CallInv'
<1>1. conn[s] # NoConn
  BY DEF CallInv, OwnConnection
<1>2. "idle" \in Shut
  BY DEF Shut
<1> QED BY <1>1, <1>2, NoJobTyped, CloseKeeps DEF Finish

LEMMA FailKeeps ==
  ASSUME CallInv, NEW s \in Sessions, NEW a, Fail(s, a), pc[s] \notin Shut
  PROVE  CallInv'
BY FinishKeeps DEF Fail

\* A transaction starts, of a call that holds no node.
LEMMA OpenKeeps ==
  ASSUME CallInv, UNCHANGED access, NEW s \in Sessions, NEW p \in Principals \cup {NoOne}, Open(s, p),
         NEW l \in Stages \ Shut, pc' = [pc EXCEPT ![s] = l],
         NEW j \in Jobs, job' = [job EXCEPT ![s] = j], j.got = {}, j.who = p
  PROVE  CallInv'
<1>1. PICK c \in Free :
        /\ conn' = [conn EXCEPT ![s] = c] /\ guc' = [guc EXCEPT ![c] = p]
        /\ hidden' = {x \in hidden : x[1] # s} \cup
                       {<<s, n>> : n \in {m \in Nodes : NodeScope[m] \notin Readable(p)}}
  BY DEF Open
<1>2. c \in Conns /\ c # NoConn /\ \A t \in Sessions : conn[t] # c
  BY SharingAssumption DEF Free
<1>3. Shaped'
  BY <1>1, <1>2 DEF CallInv, Shaped
<1>4. /\ \A t \in Sessions : t # s => pc'[t] = pc[t] /\ job'[t] = job[t] /\ conn'[t] = conn[t]
      /\ pc'[s] = l /\ job'[s] = j /\ conn'[s] = c
  BY <1>1 DEF CallInv, Shaped
<1>5. guc'[c] = p /\ \A t \in Sessions : conn[t] # NoConn => guc'[conn[t]] = guc[conn[t]]
  BY <1>1, <1>2 DEF CallInv, Shaped
<1>6. OwnConnection'
  BY <1>2, <1>4, <1>5 DEF CallInv, OwnConnection
<1>7. \A t \in Sessions, n \in Nodes : <<t, n>> \in hidden' =>
        IF t = s THEN NodeScope[n] \notin Readable(p) ELSE <<t, n>> \in hidden
  BY <1>1
<1>8. HiddenUnread'
  BY <1>2, <1>4, <1>7 DEF CallInv, HiddenUnread, Readable, access
<1>9. GotLate'
  BY <1>4 DEF CallInv, GotLate
<1>10. HiddenStaysHidden'
  BY <1>1, <1>4, <1>7 DEF CallInv, HiddenStaysHidden, Shaped, Jobs
<1> QED BY <1>3, <1>6, <1>8, <1>9, <1>10 DEF CallInv

\* A transaction that changed the access rules commits.
LEMMA FinishChangeKeeps ==
  ASSUME CallInv, NEW s \in Sessions, FinishChange(s), pc[s] \notin Shut
  PROVE  CallInv'
<1>1. /\ conn' = [conn EXCEPT ![s] = NoConn] /\ guc' = [guc EXCEPT ![conn[s]] = NoOne]
      /\ pc' = [pc EXCEPT ![s] = "idle"] /\ job' = [job EXCEPT ![s] = NoJob]
      /\ hidden' = {x \in Unhide : x[1] # s}
  BY DEF FinishChange
<1>2. conn[s] # NoConn /\ "idle" \in Shut /\ "idle" \in Stages
  BY DEF CallInv, OwnConnection, Shut, Stages
<1>3. Shaped'
  BY <1>1, <1>2, NoJobTyped DEF CallInv, Shaped, Unhide
<1>4. /\ \A t \in Sessions : t # s => pc'[t] = pc[t] /\ job'[t] = job[t] /\ conn'[t] = conn[t]
      /\ pc'[s] = "idle" /\ job'[s] = NoJob /\ conn'[s] = NoConn
  BY <1>1 DEF CallInv, Shaped
<1>5. \A t \in Sessions : t # s /\ conn[t] # NoConn => guc'[conn[t]] = guc[conn[t]]
  BY <1>1 DEF CallInv, Shaped, OwnConnection
<1>6. OwnConnection'
  BY <1>2, <1>4, <1>5 DEF CallInv, OwnConnection
<1>7. \A t \in Sessions, n \in Nodes : <<t, n>> \in hidden' =>
        /\ t # s /\ <<t, n>> \in hidden
        /\ NodeScope[n] \notin ReadableIn(job[t].who, level', owner', closed', grants')
  BY <1>1 DEF Unhide
<1>8. HiddenUnread'
  BY <1>4, <1>7 DEF CallInv, HiddenUnread, Readable
<1>9. GotLate'
  BY <1>4, NoJobTyped DEF CallInv, GotLate
<1>10. \A t \in Sessions : \A n \in job'[t].got : t # s /\ n \in job[t].got /\ n \in Nodes
  BY <1>4, NoJobTyped DEF CallInv, Shaped, Jobs
<1>11. HiddenStaysHidden'
  BY <1>7, <1>10 DEF CallInv, HiddenStaysHidden
<1> QED BY <1>3, <1>6, <1>8, <1>9, <1>11 DEF CallInv

-----------------------------------------------------------------------------
(* The statements.                                                         *)

LEMMA Caller ==
  ASSUME CallInv, NEW s \in Sessions, pc[s] \notin Shut
  PROVE  Me(s) = job[s].who
BY DEF CallInv, OwnConnection, Me, Identity

LEMMA SeenReadable ==
  ASSUME NEW p
  PROVE  Readable(p) \subseteq Scopes /\ \A n \in Seen(p) : n \in Nodes /\ NodeScope[n] \in Readable(p)
BY DEF Seen, Readable, ReadableIn

\* A search finds its scopes, its hits and its rows.
LEMMA SearchKeeps ==
  ASSUME CallInv, NEW s \in Sessions,
         \/ ResolveReadable(s) \/ ResolveAmbient(s) \/ VectorLeg(s) \/ LexicalLeg(s)
         \/ Hydrate(s) \/ BumpRecall(s)
  PROVE  CallInv'
<1>1. pc[s] \in Stages \ Shut
  BY DEF ResolveReadable, ResolveAmbient, VectorLeg, LexicalLeg, Hydrate, BumpRecall, Shut, Stages
<1>2. job[s] \in Jobs /\ Me(s) = job[s].who
  BY <1>1, Caller DEF CallInv, Shaped
<1>3. ASSUME NEW a, Fail(s, a) \/ (Finish(s, a) /\ UNCHANGED access) PROVE CallInv'
  BY <1>1, <1>3, FailKeeps, FinishKeeps
<1>4. {"vector", "ambient", "lexical", "hydrate", "bump"} \subseteq Stages \ Shut
  BY DEF Stages, Shut
<1>5. CASE ResolveReadable(s)
  <2>1. CASE \E a : Fail(s, a)
    BY <1>3, <2>1
  <2>2. CASE ~\E a : Fail(s, a)
    <3> DEFINE j == [job[s] EXCEPT !.scopes = Readable(Me(s))]
    <3>1. PICK l \in {"vector", "ambient"} : Next1(s, l)
      BY <1>5, <2>2 DEF ResolveReadable
    <3>2. UNCHANGED access /\ job' = [job EXCEPT ![s] = j] /\ pc[s] = "readable"
      BY <1>5, <2>2 DEF ResolveReadable, ReadOnly
    <3>3. j \in Jobs /\ j.who = job[s].who /\ j.got = job[s].got
      BY <1>2, SeenReadable DEF Jobs
    <3>4. job[s].got = {}
      BY <3>2 DEF CallInv, GotLate
    <3> HIDE DEF j
    <3> QED BY <1>1, <1>4, <3>1, <3>2, <3>3, <3>4, MovesOnKeeps
  <2> QED BY <2>1, <2>2
<1>6. CASE ResolveAmbient(s)
  <2> DEFINE j == [job[s] EXCEPT !.scopes = @ \cap ({Req(s).scope} \cup (Ambient \cap Listed(Me(s))))]
  <2>1. UNCHANGED access /\ job' = [job EXCEPT ![s] = j] /\ pc[s] = "ambient" /\ Next1(s, "vector")
    BY <1>6 DEF ResolveAmbient, ReadOnly
  <2>2. j \in Jobs /\ j.who = job[s].who /\ j.got = job[s].got
    BY <1>2 DEF Jobs
  <2>3. job[s].got = {}
    BY <2>1 DEF CallInv, GotLate
  <2> HIDE DEF j
  <2> QED BY <1>1, <1>4, <2>1, <2>2, <2>3, MovesOnKeeps
<1>7. Hits(s) \subseteq Nodes
  BY SeenReadable DEF Hits
<1>8. CASE VectorLeg(s)
  <2> DEFINE j == [job[s] EXCEPT !.hits = Hits(s)]
  <2>1. UNCHANGED access /\ job' = [job EXCEPT ![s] = j] /\ pc[s] = "vector" /\ Next1(s, "lexical")
    BY <1>8 DEF VectorLeg, ReadOnly
  <2>2. j \in Jobs /\ j.who = job[s].who /\ j.got = job[s].got
    BY <1>2, <1>7 DEF Jobs
  <2>3. job[s].got = {}
    BY <2>1 DEF CallInv, GotLate
  <2> HIDE DEF j
  <2> QED BY <1>1, <1>4, <2>1, <2>2, <2>3, MovesOnKeeps
<1>9. CASE LexicalLeg(s)
  <2> DEFINE all == job[s].hits \cup (Hits(s) \cap Matching)
             j == [job[s] EXCEPT !.hits = all]
  <2>1. CASE all = {}
    BY <1>3, <1>9, <2>1 DEF LexicalLeg, ReadOnly
  <2>2. CASE all # {}
    <3>1. UNCHANGED access /\ job' = [job EXCEPT ![s] = j] /\ pc[s] = "lexical" /\ Next1(s, "hydrate")
      BY <1>9, <2>2 DEF LexicalLeg, ReadOnly
    <3>2. all \subseteq Nodes
      BY <1>2, <1>7 DEF Jobs
    <3>3. j \in Jobs /\ j.who = job[s].who /\ j.got = job[s].got
      BY <1>2, <3>2 DEF Jobs
    <3>4. job[s].got = {}
      BY <3>1 DEF CallInv, GotLate
    <3> HIDE DEF j
    <3> QED BY <1>1, <1>4, <3>1, <3>3, <3>4, MovesOnKeeps
  <2> QED BY <2>1, <2>2
<1>10. CASE Hydrate(s)
  <2>1. PICK top \in SUBSET job[s].hits :
          IF top \subseteq Seen(Me(s))
          THEN job' = [job EXCEPT ![s].got = top] /\ Next1(s, "bump") /\ ReadOnly
          ELSE Fail(s, "internal")
    BY <1>10 DEF Hydrate
  <2> DEFINE j == [job[s] EXCEPT !.got = top]
  <2>2. CASE top \subseteq Seen(Me(s))
    <3>1. UNCHANGED access /\ job' = [job EXCEPT ![s] = j] /\ Next1(s, "bump")
      BY <2>1, <2>2 DEF ReadOnly
    <3>2. \A n \in top : n \in Nodes /\ NodeScope[n] \in Readable(job[s].who)
      BY <1>2, <2>2, SeenReadable
    <3>3. j \in Jobs /\ j.who = job[s].who /\ j.got = top
      BY <1>2, <3>2 DEF Jobs
    <3> HIDE DEF j
    <3> QED BY <1>1, <1>4, <3>1, <3>2, <3>3, MovesOnKeeps
  <2> QED BY <1>3, <2>1, <2>2
<1>11. CASE BumpRecall(s)
  BY <1>3, <1>11 DEF BumpRecall
<1> QED BY <1>5, <1>6, <1>8, <1>9, <1>10, <1>11

\* get and link.
LEMMA GetLinkKeeps ==
  ASSUME CallInv, NEW s \in Sessions,
         GetRow(s) \/ GetEdges(s) \/ GetDone(s) \/ LinkEndpoint(s) \/ LinkAttach(s)
  PROVE  CallInv'
<1>1. pc[s] \in Stages \ Shut
  BY DEF GetRow, GetEdges, GetDone, LinkEndpoint, LinkAttach, Shut, Stages
<1>2. job[s] \in Jobs /\ Me(s) = job[s].who
  BY <1>1, Caller DEF CallInv, Shaped
<1>3. ASSUME NEW a, Fail(s, a) \/ (Finish(s, a) /\ UNCHANGED access) PROVE CallInv'
  BY <1>1, <1>3, FailKeeps, FinishKeeps
<1>4. {"edges", "shown", "attach", "link"} \subseteq Stages \ Shut
  BY DEF Stages, Shut
<1>5. CASE GetRow(s)
  <2> DEFINE n == Req(s).node
             j == [job[s] EXCEPT !.got = {n}]
  <2>1. CASE n \in Seen(Me(s))
    <3>1. UNCHANGED access /\ job' = [job EXCEPT ![s] = j] /\ Next1(s, "edges")
      BY <1>5, <2>1 DEF GetRow, ReadOnly
    <3>2. n \in Nodes /\ NodeScope[n] \in Readable(job[s].who)
      BY <1>2, <2>1, SeenReadable
    <3> HIDE DEF n
    <3>3. j \in Jobs /\ j.who = job[s].who /\ j.got = {n}
      BY <1>2, <3>2 DEF Jobs
    <3> HIDE DEF j
    <3> QED BY <1>1, <1>4, <3>1, <3>2, <3>3, MovesOnKeeps
  <2>2. CASE n \notin Seen(Me(s))
    BY <1>3, <1>5, <2>2 DEF GetRow, ReadOnly
  <2> QED BY <2>1, <2>2
<1>6. CASE GetEdges(s)
  <2> DEFINE shown == {e \in SeenEdges(Me(s)) : Req(s).node \in {e[1], e[2]}}
             peers == {e[1] : e \in shown} \cup {e[2] : e \in shown}
             j == [job[s] EXCEPT !.got = @ \cup {e[1] : e \in shown} \cup {e[2] : e \in shown}]
  <2>1. UNCHANGED access /\ job' = [job EXCEPT ![s] = j] /\ Next1(s, "shown")
    BY <1>6 DEF GetEdges, ReadOnly
  <2>2. \A n \in peers : n \in Nodes /\ NodeScope[n] \in Readable(job[s].who)
    BY <1>2, SeenReadable DEF SeenEdges
  <2>3. j.got = job[s].got \cup peers /\ j.who = job[s].who
    BY <1>2 DEF Jobs
  <2>4. j \in Jobs
    BY <1>2, <2>2 DEF Jobs
  <2> HIDE DEF j, peers
  <2> QED BY <1>1, <1>4, <2>1, <2>2, <2>3, <2>4, MovesOnKeeps
<1>7. CASE GetDone(s)
  BY <1>3, <1>7 DEF GetDone, ReadOnly
<1>8. CASE LinkEndpoint(s)
  <2>1. CASE Batch(s) = <<>> \/ Endpoint(s) \notin Seen(Me(s)) \/ status[Endpoint(s)] = "archived"
    BY <1>3, <1>8, <2>1 DEF LinkEndpoint, ReadOnly
  <2>2. CASE ~(Batch(s) = <<>> \/ Endpoint(s) \notin Seen(Me(s)) \/ status[Endpoint(s)] = "archived")
    <3> DEFINE j == [job[s] EXCEPT !.todo = Append(@, Endpoint(s))]
    <3>1. UNCHANGED access /\ job' = [job EXCEPT ![s] = j] /\ pc[s] = "link"
      BY <1>8, <2>2 DEF LinkEndpoint, ReadOnly
    <3>2. PICK l \in {"attach", "link"} : Next1(s, l)
      BY <1>8, <2>2 DEF LinkEndpoint
    <3>3. Append(job[s].todo, Endpoint(s)) \in Seq(Nodes)
      BY <1>2, <2>2, SeenReadable DEF Jobs
    <3>4. j \in Jobs /\ j.who = job[s].who /\ j.got = job[s].got
      BY <1>2, <3>3 DEF Jobs
    <3>5. job[s].got = {}
      BY <3>1 DEF CallInv, GotLate
    <3> HIDE DEF j
    <3> QED BY <1>1, <1>4, <3>1, <3>2, <3>4, <3>5, MovesOnKeeps
  <2> QED BY <2>1, <2>2
<1>9. CASE LinkAttach(s)
  <2>1. pc[s] = "attach" /\ job[s].got = {}
    BY <1>9 DEF LinkAttach, CallInv, GotLate
  <2>2. \/ \E a : Fail(s, a) \/ (Finish(s, a) /\ UNCHANGED access)
        \/ Next1(s, "link") /\ UNCHANGED <<access, job>>
    BY <1>9 DEF LinkAttach, ReadOnly
  <2>3. CASE Next1(s, "link") /\ UNCHANGED <<access, job>>
    BY <1>1, <1>4, <2>1, <2>3, SameJobKeeps
  <2> QED BY <1>3, <2>2, <2>3
<1> QED BY <1>5, <1>6, <1>7, <1>8, <1>9

\* write and the inbox.
LEMMA StoreKeeps ==
  ASSUME CallInv, NEW s \in Sessions,
         \/ CheckScope(s) \/ StoreFact(s) \/ Capture(s) \/ LoadActionable(s)
         \/ FlipPromoted(s) \/ DiscardItem(s)
  PROVE  CallInv'
<1>1. pc[s] \in {"check", "insert", "capture", "load", "flipping", "drop"}
  BY DEF CheckScope, StoreFact, Capture, LoadActionable, FlipPromoted, DiscardItem
<1>2. pc[s] \notin Shut /\ conn[s] # NoConn /\ job[s].got = {} /\ job[s] \in Jobs
  BY <1>1 DEF CallInv, GotLate, OwnConnection, Shut, Shaped
<1>3. \/ \E a : Fail(s, a) \/ (Finish(s, a) /\ UNCHANGED access)
      \/ \E l \in {"insert", "drop"} : Next1(s, l) /\ UNCHANGED <<access, job>>
      \/ \E l \in {"flip", "embed"} : /\ Close(s) /\ pc' = [pc EXCEPT ![s] = l]
                                      /\ UNCHANGED <<access, job>>
  BY DEF CheckScope, StoreFact, Stored, Capture, LoadActionable, FlipPromoted, DiscardItem, ReadOnly
<1>4. ASSUME NEW a, Fail(s, a) \/ (Finish(s, a) /\ UNCHANGED access) PROVE CallInv'
  BY <1>2, <1>4, FailKeeps, FinishKeeps
<1>5. ASSUME NEW l \in {"insert", "drop"}, Next1(s, l) /\ UNCHANGED <<access, job>> PROVE CallInv'
  <2>1. l \in Stages \ Shut
    BY DEF Stages, Shut
  <2> QED BY <1>2, <1>5, <2>1, SameJobKeeps
<1>6. ASSUME NEW l \in {"flip", "embed"}, Close(s), pc' = [pc EXCEPT ![s] = l], UNCHANGED <<access, job>>
      PROVE  CallInv'
  <2>1. l \in Shut /\ job' = [job EXCEPT ![s] = job[s]]
    BY <1>6 DEF Shut, CallInv, Shaped
  <2> QED BY <1>2, <1>6, <2>1, CloseKeeps
<1> QED BY <1>3, <1>4, <1>5, <1>6

\* The calls that begin, and those that begin their next transaction.
LEMMA BeginKeeps ==
  ASSUME CallInv, NEW s \in Sessions,
         (\E p \in Principals : Call(s, p)) \/ PromoteWrite(s) \/ PromoteFlip(s)
  PROVE  CallInv'
<1>1. ASSUME NEW p \in Principals, Call(s, p) PROVE CallInv'
  <2>1. PICK r \in Asked :
          /\ Open(s, p) /\ pc' = [pc EXCEPT ![s] = FirstStage(r.op)]
          /\ job' = [job EXCEPT ![s] = [NoJob EXCEPT !.who = p, !.req = r]]
    BY <1>1 DEF Call
  <2> DEFINE j == [NoJob EXCEPT !.who = p, !.req = r]
  <2>2. NoJob \in Jobs /\ NoJob.got = {}
    BY NoJobTyped
  <2>5. job' = [job EXCEPT ![s] = j]
    BY <2>1
  <2>6. j \in Jobs
    BY <2>2 DEF Jobs
  <2>7. j.got = {} /\ j.who = p
    BY <2>2 DEF Jobs
  <2>3. FirstStage(r.op) \in Stages \ Shut
    BY DEF FirstStage, Stages, Shut
  <2>4. UNCHANGED access
    BY <1>1 DEF Call
  <2> HIDE DEF j
  <2> QED BY <2>1, <2>3, <2>4, <2>5, <2>6, <2>7, OpenKeeps
<1>2. CASE PromoteWrite(s) \/ PromoteFlip(s)
  <2>1. PICK l \in {"check", "flipping"} : Open(s, job[s].who) /\ pc' = [pc EXCEPT ![s] = l]
    BY <1>2 DEF PromoteWrite, PromoteFlip
  <2>2. UNCHANGED <<access, job>> /\ pc[s] \in {"embed", "flip"}
    BY <1>2 DEF PromoteWrite, PromoteFlip, ReadOnly
  <2>3. /\ job' = [job EXCEPT ![s] = job[s]] /\ job[s] \in Jobs
        /\ job[s].who \in Principals \cup {NoOne} /\ job[s].got = {} /\ l \in Stages \ Shut
    BY <2>2 DEF CallInv, Shaped, GotLate, Jobs, Stages, Shut
  <2> QED BY <2>1, <2>2, <2>3, OpenKeeps
<1> QED BY <1>1, <1>2

\* scope_create and the admin tools.
LEMMA AdminKeeps ==
  ASSUME CallInv, NEW s \in Sessions,
         \/ ScopeCreate(s) \/ AssertAdmin(s) \/ SetVisibility(s) \/ Grant(s)
         \/ MemberAdd(s) \/ MemberArchive(s)
  PROVE  CallInv'
<1>1. pc[s] \in {"scope_create", "assert", "change"}
  BY DEF ScopeCreate, AssertAdmin, SetVisibility, Grant, MemberAdd, MemberArchive
<1>2. pc[s] \notin Shut /\ job[s].got = {} /\ "change" \in Stages \ Shut
  BY <1>1 DEF CallInv, GotLate, Shut, Stages
<1>3. \/ \E a : Fail(s, a) \/ (Finish(s, a) /\ UNCHANGED access)
      \/ FinishChange(s)
      \/ Next1(s, "change") /\ UNCHANGED <<access, job>>
  BY DEF ScopeCreate, AssertAdmin, SetVisibility, Grant, MemberAdd, MemberArchive, ReadOnly
<1> QED BY <1>2, <1>3, FailKeeps, FinishKeeps, FinishChangeKeeps, SameJobKeeps

LEMMA DropKeeps ==
  ASSUME CallInv, NEW s \in Sessions, Drop(s)
  PROVE  CallInv'
<1>1. /\ pc' = [pc EXCEPT ![s] = "idle"] /\ job' = [job EXCEPT ![s] = NoJob] /\ UNCHANGED access
      /\ "idle" \in Shut /\ "idle" \in Stages
  BY DEF Drop, Shut, Stages
<1>2. CASE conn[s] # NoConn
  BY <1>1, <1>2, NoJobTyped, CloseKeeps DEF Drop
<1>3. CASE conn[s] = NoConn
  <2>1. UNCHANGED <<conn, guc, hidden>>
    BY <1>3 DEF Drop
  <2>2. /\ \A t \in Sessions : t # s => pc'[t] = pc[t] /\ job'[t] = job[t]
        /\ pc'[s] = "idle" /\ job'[s] = NoJob
    BY <1>1 DEF CallInv, Shaped
  <2>3. Shaped'
    BY <1>1, <2>1, NoJobTyped DEF CallInv, Shaped
  <2>4. OwnConnection'
    BY <1>1, <1>3, <2>1, <2>2 DEF CallInv, OwnConnection
  <2>5. HiddenUnread'
    BY <1>1, <1>3, <2>1, <2>2 DEF CallInv, HiddenUnread, Readable, access
  <2>6. GotLate' /\ HiddenStaysHidden'
    BY <2>1, <2>2, NoJobTyped DEF CallInv, GotLate, HiddenStaysHidden
  <2> QED BY <2>3, <2>4, <2>5, <2>6 DEF CallInv
<1> QED BY <1>2, <1>3

LEMMA SharingInit == Init => CallInv
<1> SUFFICES ASSUME Init PROVE CallInv OBVIOUS
<1>1. Shaped
  BY NoJobTyped DEF Init, Shaped, Stages
<1>2. OwnConnection /\ GotLate
  BY NoJobTyped DEF Init, OwnConnection, GotLate, Shut
<1>3. HiddenUnread /\ HiddenStaysHidden
  BY DEF Init, HiddenUnread, HiddenStaysHidden
<1> QED BY <1>1, <1>2, <1>3 DEF CallInv

LEMMA SharingStep == CallInv /\ [Next]_vars => CallInv'
<1> SUFFICES ASSUME CallInv, [Next]_vars PROVE CallInv' OBVIOUS
<1>1. ASSUME NEW s \in Sessions, (\E p \in Principals : Call(s, p)) \/ Statement(s) \/ Drop(s)
      PROVE  CallInv'
  BY <1>1, SearchKeeps, GetLinkKeeps, StoreKeeps, BeginKeeps, AdminKeeps, DropKeeps DEF Statement
<1>2. CASE ScopeArchive
  \* A scope less to read: what was hidden still is.
  <2>1. UNCHANGED <<conn, guc, pc, job, hidden, level, owner, grants>> /\ closed \subseteq closed'
    BY <1>2 DEF ScopeArchive
  <2>2. \A p : Readable(p)' \subseteq Readable(p)
    BY <2>1 DEF Readable, ReadableIn
  <2>3. HiddenUnread'
    BY <2>1, <2>2 DEF CallInv, HiddenUnread
  <2> QED BY <2>1, <2>3 DEF CallInv, Shaped, OwnConnection, GotLate, HiddenStaysHidden
<1>3. CASE OperatorArchive \/ Done \/ UNCHANGED vars
  <2>1. UNCHANGED <<conn, guc, pc, job, hidden, access>>
    BY <1>3 DEF OperatorArchive, Done, vars
  <2>2. HiddenUnread'
    BY <2>1 DEF CallInv, HiddenUnread, Readable, access
  <2> QED BY <2>1, <2>2 DEF CallInv, Shaped, OwnConnection, GotLate, HiddenStaysHidden
<1> QED BY <1>1, <1>2, <1>3 DEF Next

-----------------------------------------------------------------------------
\* Whatever connection a call runs on and whatever admins change meanwhile, it
\* holds no node its principal could not read at any moment of its transaction
\* (server/db.py, the SELECT policies of db/migrations).
THEOREM NothingHiddenShown == Spec => []HiddenStaysHidden
<1>1. CallInv => HiddenStaysHidden
  BY DEF CallInv
<1> QED BY <1>1, SharingInit, SharingStep, PTL DEF Spec

\* A new node is its author's to write when it is stored, though the tool looked
\* before the lock wait (core/dedup.py, the INSERT policy of nodes).
THEOREM OnlyWritableStored == Spec => StoresOnlyWritable
<1>1. ASSUME CallInv, [Next]_vars, NEW n \in Nodes, status[n] = "absent", status'[n] # "absent"
      PROVE  \E s \in Sessions : pc[s] = "insert" /\ Req(s).node = n
                                   /\ NodeScope[n] \in Writable(job[s].who)
  <2>1. ASSUME NEW s \in Sessions, StoreFact(s)
        PROVE  pc[s] = "insert" /\ Req(s).node = n /\ NodeScope[n] \in Writable(job[s].who)
    <3>0. pc[s] = "insert" /\ pc[s] \notin Shut
      BY <2>1 DEF StoreFact, Shut
    <3>1. pc[s] = "insert" /\ Me(s) = job[s].who
      BY <1>1, <3>0, Caller
    <3>2. CASE UNCHANGED status
      BY <1>1, <3>2
    <3>3. CASE ~UNCHANGED status
      <4>1. /\ Req(s).node \in NodesInsert(Me(s))
            /\ status' = [status EXCEPT ![Req(s).node] = "active"]
        BY <2>1, <3>3 DEF StoreFact, Fail, graph
      <4>2. Req(s).node = n
        BY <1>1, <4>1
      <4> QED BY <3>1, <4>1, <4>2 DEF NodesInsert
    <3> QED BY <3>2, <3>3
  <2>2. ASSUME NEW s \in Sessions, NEW p \in Principals, Call(s, p) PROVE FALSE
    BY <1>1, <2>2 DEF Call, graph
  <2>3. ASSUME NEW s \in Sessions, Drop(s) PROVE FALSE
    BY <1>1, <2>3 DEF Drop, graph
  <2>4. ASSUME NEW s \in Sessions,
               \/ ResolveReadable(s) \/ ResolveAmbient(s) \/ VectorLeg(s) \/ LexicalLeg(s)
               \/ Hydrate(s) \/ BumpRecall(s) \/ GetRow(s) \/ GetEdges(s) \/ GetDone(s)
               \/ LinkEndpoint(s) \/ LinkAttach(s)
        PROVE  FALSE
    BY <1>1, <2>4 DEF ResolveReadable, ResolveAmbient, VectorLeg, LexicalLeg, Hydrate, BumpRecall,
       GetRow, GetEdges, GetDone, LinkEndpoint, LinkAttach, Fail, ReadOnly, graph
  <2>5. ASSUME NEW s \in Sessions,
               \/ CheckScope(s) \/ Capture(s) \/ LoadActionable(s) \/ PromoteWrite(s)
               \/ PromoteFlip(s) \/ FlipPromoted(s) \/ DiscardItem(s)
        PROVE  FALSE
    BY <1>1, <2>5 DEF CheckScope, Capture, LoadActionable, PromoteWrite, PromoteFlip,
       FlipPromoted, DiscardItem, Fail, ReadOnly, graph
  <2>6. ASSUME NEW s \in Sessions,
               \/ ScopeCreate(s) \/ AssertAdmin(s) \/ SetVisibility(s) \/ Grant(s)
               \/ MemberAdd(s) \/ MemberArchive(s)
        PROVE  FALSE
    BY <1>1, <2>6 DEF ScopeCreate, AssertAdmin, SetVisibility, Grant, MemberAdd, MemberArchive,
       Fail, ReadOnly, graph
  <2>7. CASE OperatorArchive
    BY <1>1, <2>7 DEF OperatorArchive
  <2>8. CASE ScopeArchive \/ Done \/ UNCHANGED vars
    BY <1>1, <2>8 DEF ScopeArchive, Done, vars, graph
  <2> QED BY <1>1, <2>1, <2>2, <2>3, <2>4, <2>5, <2>6, <2>7, <2>8 DEF Next, Statement
<1>2. CallInv /\ [Next]_vars =>
        [\A n \in Nodes : status[n] = "absent" /\ status'[n] # "absent" =>
           \E s \in Sessions : pc[s] = "insert" /\ Req(s).node = n
                                 /\ NodeScope[n] \in Writable(job[s].who)]_vars
  BY <1>1
<1> QED BY <1>2, SharingInit, SharingStep, PTL DEF Spec, StoresOnlyWritable

-----------------------------------------------------------------------------
(* What a promote has stored.                                              *)

StoreStages == {"load", "embed", "check", "insert", "flip", "flipping"}

\* A call in the stages of a write or of the inbox is one of theirs, and a promote
\* past its write has stored a fact.
Storing ==
  \A s \in Sessions :
    /\ pc[s] \in StoreStages => Req(s) \in Asked
    /\ pc[s] = "load" => Req(s).op \in {"promote", "discard"}
    /\ pc[s] \in {"embed", "flip", "flipping"} => Req(s).op = "promote"
    /\ pc[s] \in {"check", "insert"} => Req(s).op \in {"write", "promote"}
    /\ pc[s] \in {"flip", "flipping"} => facts[Req(s).item] > 0

FactsInv == facts \in [Items -> Nat] /\ DOMAIN inbox = Items /\ Storing /\ PromotedHasFact

LEMMA PromotedItem ==
  ASSUME NEW r \in Asked, r.op = "promote"
  PROVE  r.item \in Items
BY SharingAssumption DEF Requests

\* A step of one call that ends outside those stages, and stores nothing.
LEMMA ElsewhereKeeps ==
  ASSUME CallInv, FactsInv, NEW s \in Sessions, UNCHANGED <<facts, inbox>>,
         \A t \in Sessions : t # s => pc'[t] = pc[t] /\ job'[t] = job[t],
         pc'[s] \notin StoreStages
  PROVE  FactsInv'
<1>1. Storing'
  BY DEF FactsInv, Storing, Req, StoreStages
<1> QED BY <1>1 DEF FactsInv, PromotedHasFact

\* A step that leaves the call's request and moves it on among those stages.
LEMMA StageKeeps ==
  ASSUME CallInv, FactsInv, NEW s \in Sessions, UNCHANGED <<facts, inbox, job>>,
         NEW l, pc' = [pc EXCEPT ![s] = l],
         \/ pc[s] = "check" /\ l = "insert"
         \/ pc[s] = "load" /\ Req(s).op # "discard" /\ l = "embed"
         \/ pc[s] = "embed" /\ l = "check"
         \/ pc[s] = "flip" /\ l = "flipping"
  PROVE  FactsInv'
<1>1. pc'[s] = l /\ \A t \in Sessions : t # s => pc'[t] = pc[t]
  BY DEF CallInv, Shaped
<1>2. Storing'
  BY <1>1 DEF FactsInv, Storing, Req, StoreStages
<1> QED BY <1>2 DEF FactsInv, PromotedHasFact

\* Whoever ends a call leaves the others where they are.
LEMMA EndsElsewhere ==
  ASSUME CallInv, NEW s \in Sessions, NEW l, pc' = [pc EXCEPT ![s] = l],
         \/ UNCHANGED job
         \/ \E j : job' = [job EXCEPT ![s] = j]
  PROVE  /\ \A t \in Sessions : t # s => pc'[t] = pc[t] /\ job'[t] = job[t]
         /\ pc'[s] = l
BY DEF CallInv, Shaped

LEMMA FactsEnd ==
  ASSUME CallInv, FactsInv, NEW s \in Sessions, UNCHANGED <<facts, inbox>>,
         \E a : Finish(s, a) \/ Fail(s, a)
  PROVE  FactsInv'
<1>1. pc' = [pc EXCEPT ![s] = "idle"] /\ job' = [job EXCEPT ![s] = NoJob]
  BY DEF Fail, Finish
<1>2. "idle" \notin StoreStages
  BY DEF StoreStages
<1>3. /\ \A t \in Sessions : t # s => pc'[t] = pc[t] /\ job'[t] = job[t]
      /\ pc'[s] = "idle"
  BY <1>1, EndsElsewhere
<1> QED BY <1>2, <1>3, ElsewhereKeeps

LEMMA StoreFactFacts ==
  ASSUME CallInv, FactsInv, NEW s \in Sessions, StoreFact(s)
  PROVE  FactsInv'
<1>1. CASE Fail(s, "denied")
  BY <1>1, FactsEnd DEF Fail
<1>2. CASE ~Fail(s, "denied")
  <2>1. PICK o \in {"inserted", "merged", "needs_confirmation"} :
          /\ facts' = IF Req(s).op = "promote" /\ o # "needs_confirmation"
                      THEN [facts EXCEPT ![Req(s).item] = @ + 1] ELSE facts
          /\ Stored(s, o) /\ UNCHANGED inbox
    BY <1>2 DEF StoreFact, Outcomes
  <2>2. pc[s] = "insert" /\ Req(s).op \in {"write", "promote"} /\ Req(s) \in Asked
    BY DEF StoreFact, FactsInv, Storing, StoreStages
  <2>3. CASE Req(s).op = "write" \/ o = "needs_confirmation"
    BY <2>1, <2>3, FactsEnd DEF Stored
  <2>4. CASE Req(s).op = "promote" /\ o # "needs_confirmation"
    <3>1. Req(s).item \in Items
      BY <2>2, <2>4, PromotedItem
    <3>2. /\ facts' \in [Items -> Nat] /\ facts'[Req(s).item] > 0
          /\ \A i \in Items : facts[i] > 0 => facts'[i] > 0
      BY <2>1, <2>4, <3>1 DEF FactsInv
    <3>3. pc' = [pc EXCEPT ![s] = "flip"] /\ job' = job
      BY <2>1, <2>4 DEF Stored
    <3>4. pc'[s] = "flip" /\ \A t \in Sessions : t # s => pc'[t] = pc[t]
      BY <3>3 DEF CallInv, Shaped
    <3>5. \A t \in Sessions : pc[t] \in {"flip", "flipping"} => Req(t).item \in Items
      BY PromotedItem DEF FactsInv, Storing, StoreStages
    <3>6. Storing'
      BY <2>2, <2>4, <3>2, <3>3, <3>4, <3>5 DEF FactsInv, Storing, Req, StoreStages
    <3> QED BY <2>1, <3>2, <3>6 DEF FactsInv, PromotedHasFact
  <2> QED BY <2>2, <2>3, <2>4
<1> QED BY <1>1, <1>2

\* The three statements that change an inbox row.
LEMMA InboxFacts ==
  ASSUME CallInv, FactsInv, NEW s \in Sessions, Capture(s) \/ FlipPromoted(s) \/ DiscardItem(s)
  PROVE  FactsInv'
<1>1. CASE Fail(s, "denied")
  BY <1>1, FactsEnd DEF Fail
<1>2. CASE ~Fail(s, "denied")
  <2>1. Finish(s, "ok") /\ UNCHANGED facts
    BY <1>2 DEF Capture, FlipPromoted, DiscardItem
  <2>2. DOMAIN inbox' = Items /\ PromotedHasFact'
    <3>1. CASE UNCHANGED inbox
      BY <2>1, <3>1 DEF FactsInv, PromotedHasFact
    <3>2. CASE inbox' = [inbox EXCEPT ![Req(s).item] = "pending"] \/ inbox' = [inbox EXCEPT ![Req(s).item] = "discarded"]
      BY <2>1, <3>2 DEF FactsInv, PromotedHasFact
    <3>3. CASE FlipPromoted(s) /\ inbox' = [inbox EXCEPT ![Req(s).item] = "promoted"]
      <4>1. facts[Req(s).item] > 0
        BY <3>3 DEF FlipPromoted, FactsInv, Storing
      <4> QED BY <2>1, <3>3, <4>1 DEF FactsInv, PromotedHasFact
    <3> QED BY <1>2, <3>1, <3>2, <3>3 DEF Capture, FlipPromoted, DiscardItem, SetInbox
  <2>3. pc' = [pc EXCEPT ![s] = "idle"] /\ job' = [job EXCEPT ![s] = NoJob]
    BY <2>1 DEF Finish
  <2>4. pc'[s] = "idle" /\ \A t \in Sessions : t # s => pc'[t] = pc[t] /\ job'[t] = job[t]
    BY <2>3, EndsElsewhere
  <2>5. Storing'
    BY <2>1, <2>4 DEF FactsInv, Storing, Req, StoreStages
  <2> QED BY <2>1, <2>2, <2>5 DEF FactsInv
<1> QED BY <1>1, <1>2

LEMMA FactsStep == CallInv /\ FactsInv /\ [Next]_vars => FactsInv'
<1> SUFFICES ASSUME CallInv, FactsInv, [Next]_vars PROVE FactsInv' OBVIOUS
<1>1. ASSUME NEW s \in Sessions, NEW p \in Principals, Call(s, p) PROVE FactsInv'
  <2>1. PICK r \in Asked :
          /\ pc' = [pc EXCEPT ![s] = FirstStage(r.op)]
          /\ job' = [job EXCEPT ![s] = [NoJob EXCEPT !.who = p, !.req = r]]
    BY <1>1 DEF Call
  <2>2. /\ \A t \in Sessions : t # s => pc'[t] = pc[t] /\ job'[t] = job[t]
        /\ pc'[s] = FirstStage(r.op) /\ job'[s].req = r
    BY <2>1, NoJobTyped DEF CallInv, Shaped, Jobs
  <2>3. /\ FirstStage(r.op) = "load" => r.op \in {"promote", "discard"}
        /\ FirstStage(r.op) = "check" => r.op = "write"
        /\ FirstStage(r.op) \notin {"embed", "insert", "flip", "flipping"}
    BY DEF FirstStage
  <2>4. UNCHANGED <<facts, inbox>>
    BY <1>1 DEF Call
  <2>5. Storing'
    BY <2>2, <2>3, <2>4 DEF FactsInv, Storing, Req, StoreStages
  <2> QED BY <2>4, <2>5 DEF FactsInv, PromotedHasFact
<1>2. ASSUME NEW s \in Sessions, CheckScope(s) \/ LoadActionable(s) \/ PromoteWrite(s) \/ PromoteFlip(s)
      PROVE  FactsInv'
  <2>1. UNCHANGED <<facts, inbox>>
    BY <1>2 DEF CheckScope, LoadActionable, PromoteWrite, PromoteFlip, ReadOnly, Fail
  <2>2. CASE \E a : Fail(s, a)
    BY <2>1, <2>2, FactsEnd
  <2>3. CASE Next1(s, "drop") /\ UNCHANGED job
    <3>1. pc' = [pc EXCEPT ![s] = "drop"] /\ "drop" \notin StoreStages
      BY <2>3 DEF Next1, StoreStages
    <3> QED BY <2>1, <2>3, <3>1, EndsElsewhere, ElsewhereKeeps
  <2>4. CASE ~(\E a : Fail(s, a)) /\ ~(Next1(s, "drop") /\ UNCHANGED job)
    <3>1. /\ UNCHANGED job
          /\ \/ pc[s] = "check" /\ pc' = [pc EXCEPT ![s] = "insert"]
             \/ pc[s] = "load" /\ Req(s).op # "discard" /\ pc' = [pc EXCEPT ![s] = "embed"]
             \/ pc[s] = "embed" /\ pc' = [pc EXCEPT ![s] = "check"]
             \/ pc[s] = "flip" /\ pc' = [pc EXCEPT ![s] = "flipping"]
      BY <1>2, <2>4 DEF CheckScope, LoadActionable, PromoteWrite, PromoteFlip, Next1
    <3> QED BY <2>1, <3>1, StageKeeps
  <2> QED BY <2>2, <2>3, <2>4
<1>3. ASSUME NEW s \in Sessions, StoreFact(s) \/ Capture(s) \/ FlipPromoted(s) \/ DiscardItem(s)
      PROVE  FactsInv'
  BY <1>3, StoreFactFacts, InboxFacts
<1>4. ASSUME NEW s \in Sessions,
             \/ ResolveReadable(s) \/ ResolveAmbient(s) \/ VectorLeg(s) \/ LexicalLeg(s)
             \/ Hydrate(s) \/ BumpRecall(s) \/ GetRow(s) \/ GetEdges(s) \/ GetDone(s)
             \/ LinkEndpoint(s) \/ LinkAttach(s)
      PROVE  FactsInv'
  <2>1. UNCHANGED <<facts, inbox>>
    BY <1>4 DEF ResolveReadable, ResolveAmbient, VectorLeg, LexicalLeg, Hydrate, BumpRecall,
       GetRow, GetEdges, GetDone, LinkEndpoint, LinkAttach, Fail, ReadOnly
  <2>2. PICK l \in {"idle", "ambient", "vector", "lexical", "hydrate", "bump", "edges", "shown",
                    "attach", "link"} : pc' = [pc EXCEPT ![s] = l]
    BY <1>4 DEF ResolveReadable, ResolveAmbient, VectorLeg, LexicalLeg, Hydrate, BumpRecall,
       GetRow, GetEdges, GetDone, LinkEndpoint, LinkAttach, Fail, Finish, Next1
  <2>3. UNCHANGED job \/ \E j : job' = [job EXCEPT ![s] = j]
    BY <1>4 DEF ResolveReadable, ResolveAmbient, VectorLeg, LexicalLeg, Hydrate, BumpRecall,
       GetRow, GetEdges, GetDone, LinkEndpoint, LinkAttach, Fail, Finish
  <2>4. l \notin StoreStages
    BY DEF StoreStages
  <2> QED BY <2>1, <2>2, <2>3, <2>4, EndsElsewhere, ElsewhereKeeps
<1>5. ASSUME NEW s \in Sessions,
             \/ ScopeCreate(s) \/ AssertAdmin(s) \/ SetVisibility(s) \/ Grant(s)
             \/ MemberAdd(s) \/ MemberArchive(s) \/ Drop(s)
      PROVE  FactsInv'
  <2>1. UNCHANGED <<facts, inbox>>
    BY <1>5 DEF ScopeCreate, AssertAdmin, SetVisibility, Grant, MemberAdd, MemberArchive, Drop,
       Fail, ReadOnly
  <2>2. PICK l \in {"idle", "change"} : pc' = [pc EXCEPT ![s] = l]
    BY <1>5 DEF ScopeCreate, AssertAdmin, SetVisibility, Grant, MemberAdd, MemberArchive, Drop,
       Fail, Finish, FinishChange, Next1
  <2>3. UNCHANGED job \/ \E j : job' = [job EXCEPT ![s] = j]
    BY <1>5 DEF ScopeCreate, AssertAdmin, SetVisibility, Grant, MemberAdd, MemberArchive, Drop,
       Fail, Finish, FinishChange
  <2>4. l \notin StoreStages
    BY DEF StoreStages
  <2> QED BY <2>1, <2>2, <2>3, <2>4, EndsElsewhere, ElsewhereKeeps
<1>6. CASE OperatorArchive \/ ScopeArchive \/ Done \/ UNCHANGED vars
  <2>1. UNCHANGED <<pc, job, facts, inbox>>
    BY <1>6 DEF OperatorArchive, ScopeArchive, Done, vars
  <2> QED BY <2>1 DEF FactsInv, Storing, Req, PromotedHasFact
<1> QED BY <1>1, <1>2, <1>3, <1>4, <1>5, <1>6 DEF Next, Statement

\* An inbox item ends up promoted only when a promote of it has stored its fact,
\* however promotes, discards and grants interleave (core/inbox.py).
THEOREM NoCaptureLost == Spec => []PromotedHasFact
<1>1. Init => FactsInv
  BY DEF Init, FactsInv, Storing, StoreStages, PromotedHasFact
<1>2. FactsInv => PromotedHasFact
  BY DEF FactsInv
<1> QED BY <1>1, <1>2, FactsStep, SharingInit, SharingStep, PTL DEF Spec

-----------------------------------------------------------------------------
(* What every variable holds, and how far a link call is.                  *)

\* A call in flight has a request and a caller, and its stage is of its tool.
NamedAt(s) ==
  /\ pc[s] # "idle" => Req(s) \in Asked /\ job[s].who \in Principals
  /\ pc[s] \in {"link", "attach"} => Req(s).op = "link"
  /\ pc[s] = "capture" => Req(s).op = "capture"
  /\ pc[s] = "drop" => Req(s).op = "discard"
  /\ pc[s] = "scope_create" => Req(s).op = "scope_create"

Named == \A s \in Sessions : NamedAt(s)

\* A link call has looked at two endpoints of each edge it has inserted, and at
\* no more than its batch has.
HalfwayAt(s) ==
  LET k == Len(job[s].todo)
      n == Len(Batch(s))
  IN /\ pc[s] = "link" => n = 0 \/ k < 2 * n
     /\ pc[s] = "attach" => k % 2 = 0 /\ k <= 2 * n

Halfway == \A s \in Sessions : HalfwayAt(s)

Rows ==
  /\ level \in [Scopes -> Levels \cup {"absent"}]
  /\ owner \in [Scopes -> Principals \cup {NoOne}]
  /\ closed \subseteq Scopes
  /\ grants \subseteq Scopes \X Principals \X {"read", "write"}
  /\ role \in [Principals -> Roles \cup {"absent"}] /\ retired \subseteq Principals
  /\ status \in [Nodes -> {"absent", "active", "archived"}]
  /\ edges \subseteq Nodes \X Nodes /\ recall \in [Nodes -> Nat]
  /\ inbox \in [Items -> {"absent", "pending", "promoted", "discarded"}]

Answers == {"none", "ok", "scope", "internal", "denied", "not_found",
            "validation", "edge_rule", "scope_unknown", "role"}

Counts == answer \in Answers /\ calls \in 0..MaxCalls

SharingInv == CallInv /\ FactsInv /\ Named /\ Halfway /\ Rows /\ Counts

LEMMA RequestFields ==
  ASSUME NEW r \in Asked
  PROVE  /\ r.op = "link" => r.batch \in Seq(Nodes \X Nodes)
         /\ r.op = "visibility" => r.level \in Levels
         /\ r.op = "grant" => /\ r.scope \in Scopes /\ r.to \in Principals
                              /\ r.level \in {"read", "write"}
         /\ r.op = "member_add" => r.id \in Principals /\ r.role \in Roles
         /\ r.op = "member_archive" => r.id \in Principals
<1>1. r \in Requests
  BY SharingAssumption
<1>2. r.op = "link" => r.batch \in Seq(Nodes \X Nodes)
  BY <1>1 DEF Requests
<1>3. r.op = "visibility" => r.level \in Levels
  BY <1>1 DEF Requests
<1>4. r.op = "grant" => /\ r.scope \in Scopes /\ r.to \in Principals
                        /\ r.level \in {"read", "write"}
  BY <1>1 DEF Requests
<1>5. r.op = "member_add" => r.id \in Principals /\ r.role \in Roles
  BY <1>1 DEF Requests
<1>6. r.op = "member_archive" => r.id \in Principals
  BY <1>1 DEF Requests
<1> QED BY <1>2, <1>3, <1>4, <1>5, <1>6

LEMMA Halves ==
  \A k \in Nat : k % 2 = 0 => k \div 2 \in Nat /\ k = 2 * (k \div 2)
OBVIOUS

\* Each table is written by a few statements only.
LEMMA WhoWrites ==
  ASSUME [Next]_vars
  PROVE  /\ \/ UNCHANGED access \/ ScopeArchive
            \/ \E s \in Sessions : ScopeCreate(s) \/ SetVisibility(s) \/ Grant(s)
         /\ UNCHANGED members \/ \E s \in Sessions : MemberAdd(s) \/ MemberArchive(s)
         /\ UNCHANGED status \/ OperatorArchive \/ \E s \in Sessions : StoreFact(s)
         /\ UNCHANGED edges \/ \E s \in Sessions : LinkAttach(s)
         /\ UNCHANGED recall \/ \E s \in Sessions : BumpRecall(s)
         /\ \/ UNCHANGED inbox
            \/ \E s \in Sessions : Capture(s) \/ FlipPromoted(s) \/ DiscardItem(s)
<1> DEFINE Rest == UNCHANGED <<access, members, graph, inbox>>
<1>1. ASSUME NEW s \in Sessions, (\E p \in Principals : Call(s, p)) \/ Drop(s)
      PROVE  Rest
  BY <1>1 DEF Call, Drop
<1>2. ASSUME NEW s \in Sessions,
             \/ ResolveReadable(s) \/ ResolveAmbient(s) \/ VectorLeg(s) \/ LexicalLeg(s)
             \/ Hydrate(s) \/ GetRow(s) \/ GetEdges(s) \/ GetDone(s) \/ LinkEndpoint(s)
      PROVE  Rest
  BY <1>2 DEF ResolveReadable, ResolveAmbient, VectorLeg, LexicalLeg, Hydrate, GetRow,
     GetEdges, GetDone, LinkEndpoint, Fail, ReadOnly
<1>3. ASSUME NEW s \in Sessions,
             \/ CheckScope(s) \/ LoadActionable(s) \/ PromoteWrite(s) \/ PromoteFlip(s)
             \/ AssertAdmin(s)
      PROVE  Rest
  BY <1>3 DEF CheckScope, LoadActionable, PromoteWrite, PromoteFlip, AssertAdmin, Fail, ReadOnly
<1>4. ASSUME NEW s \in Sessions, BumpRecall(s) \/ LinkAttach(s) \/ StoreFact(s)
      PROVE  /\ UNCHANGED <<access, members, inbox>>
             /\ UNCHANGED status \/ StoreFact(s)
             /\ UNCHANGED edges \/ LinkAttach(s)
             /\ UNCHANGED recall \/ BumpRecall(s)
  BY <1>4 DEF BumpRecall, LinkAttach, StoreFact, Fail, ReadOnly, graph
<1>5. ASSUME NEW s \in Sessions, Capture(s) \/ FlipPromoted(s) \/ DiscardItem(s)
      PROVE  UNCHANGED <<access, members, graph>>
  BY <1>5 DEF Capture, FlipPromoted, DiscardItem, Fail
<1>6. ASSUME NEW s \in Sessions, ScopeCreate(s) \/ SetVisibility(s) \/ Grant(s)
      PROVE  UNCHANGED <<members, graph, inbox>>
  BY <1>6 DEF ScopeCreate, SetVisibility, Grant, Fail
<1>7. ASSUME NEW s \in Sessions, MemberAdd(s) \/ MemberArchive(s)
      PROVE  UNCHANGED <<access, graph, inbox>>
  BY <1>7 DEF MemberAdd, MemberArchive, Fail
<1>8. CASE OperatorArchive \/ ScopeArchive \/ Done \/ UNCHANGED vars
  BY <1>8 DEF OperatorArchive, ScopeArchive, Done, vars, graph
<1>9. Rest => UNCHANGED <<access, members, status, edges, recall, inbox>>
  BY DEF graph
<1> HIDE DEF Rest
<1>10. ASSUME NEW s \in Sessions, Statement(s)
       PROVE  \/ Rest
              \/ BumpRecall(s) \/ LinkAttach(s) \/ StoreFact(s)
              \/ Capture(s) \/ FlipPromoted(s) \/ DiscardItem(s)
              \/ ScopeCreate(s) \/ SetVisibility(s) \/ Grant(s)
              \/ MemberAdd(s) \/ MemberArchive(s)
  BY <1>2, <1>3, <1>10 DEF Statement
<1>11. UNCHANGED graph => UNCHANGED <<status, edges, recall>>
  BY DEF graph
<1> QED BY <1>1, <1>4, <1>5, <1>6, <1>7, <1>8, <1>9, <1>10, <1>11 DEF Next

-----------------------------------------------------------------------------
\* The tables keep their types.
LEMMA AccessTyped ==
  ASSUME CallInv, Named, Rows, [Next]_vars
  PROVE  /\ level' \in [Scopes -> Levels \cup {"absent"}]
         /\ owner' \in [Scopes -> Principals \cup {NoOne}]
         /\ closed' \subseteq Scopes
         /\ grants' \subseteq Scopes \X Principals \X {"read", "write"}
<1> USE DEF Rows
<1>1. CASE UNCHANGED access
  BY <1>1 DEF access
<1>2. CASE ScopeArchive
  BY <1>2 DEF ScopeArchive
<1>3. ASSUME NEW s \in Sessions, ScopeCreate(s) \/ SetVisibility(s) \/ Grant(s), ~UNCHANGED access
      PROVE  /\ level' \in [Scopes -> Levels \cup {"absent"}]
             /\ owner' \in [Scopes -> Principals \cup {NoOne}]
             /\ closed' \subseteq Scopes
             /\ grants' \subseteq Scopes \X Principals \X {"read", "write"}
  <2>1. pc[s] \notin Shut /\ Req(s) \in Asked
    BY <1>3 DEF ScopeCreate, SetVisibility, Grant, Named, NamedAt, Shut
  <2>2. Me(s) \in Principals
    BY <1>3, <2>1, Caller DEF Named, NamedAt, Shut
  <2>3. CASE ScopeCreate(s)
    <3>1. /\ level' = [level EXCEPT ![Req(s).scope] = "private"]
          /\ owner' = [owner EXCEPT ![Req(s).scope] = Me(s)]
          /\ UNCHANGED <<closed, grants>>
      BY <1>3, <2>3 DEF ScopeCreate, Fail
    <3> HIDE DEF Req, Me
    <3> QED BY <2>2, <3>1 DEF Levels
  <2>4. CASE SetVisibility(s)
    <3>1. /\ level' = [level EXCEPT ![Req(s).scope] = Req(s).level]
          /\ UNCHANGED <<owner, closed, grants>> /\ Req(s).op = "visibility"
      BY <1>3, <2>4 DEF SetVisibility, Fail
    <3>2. Req(s).level \in Levels
      BY <2>1, <3>1, RequestFields
    <3> QED BY <3>1, <3>2
  <2>5. CASE Grant(s)
    <3>1. /\ grants' = grants \cup {<<Req(s).scope, Req(s).to, Req(s).level>>}
          /\ UNCHANGED <<level, owner, closed>> /\ Req(s).op = "grant"
      BY <1>3, <2>5 DEF Grant, Fail
    <3>2. Req(s).scope \in Scopes /\ Req(s).to \in Principals /\ Req(s).level \in {"read", "write"}
      BY <2>1, <3>1, RequestFields
    <3> QED BY <3>1, <3>2
  <2> QED BY <1>3, <2>3, <2>4, <2>5
<1> QED BY <1>1, <1>2, <1>3, WhoWrites

LEMMA MembersTyped ==
  ASSUME CallInv, Named, Rows, [Next]_vars
  PROVE  role' \in [Principals -> Roles \cup {"absent"}] /\ retired' \subseteq Principals
<1> USE DEF Rows
<1>1. CASE UNCHANGED members
  BY <1>1 DEF members
<1>2. ASSUME NEW s \in Sessions, MemberAdd(s) \/ MemberArchive(s), ~UNCHANGED members
      PROVE  role' \in [Principals -> Roles \cup {"absent"}] /\ retired' \subseteq Principals
  <2>1. Req(s) \in Asked
    BY <1>2 DEF MemberAdd, MemberArchive, Named, NamedAt
  <2>2. CASE MemberAdd(s)
    <3>1. /\ role' = [role EXCEPT ![Req(s).id] = Req(s).role] /\ UNCHANGED retired
          /\ Req(s).op = "member_add"
      BY <1>2, <2>2 DEF MemberAdd, Fail
    <3>2. Req(s).role \in Roles
      BY <2>1, <3>1, RequestFields
    <3> QED BY <3>1, <3>2
  <2>3. CASE MemberArchive(s)
    <3>1. /\ retired' \in {retired \cup {Req(s).id}, retired \ {Req(s).id}}
          /\ UNCHANGED role /\ Req(s).op = "member_archive"
      BY <1>2, <2>3 DEF MemberArchive, Fail
    <3>2. Req(s).id \in Principals
      BY <2>1, <3>1, RequestFields
    <3> QED BY <3>1, <3>2
  <2> QED BY <1>2, <2>2, <2>3
<1> QED BY <1>1, <1>2, WhoWrites

LEMMA NodesTyped ==
  ASSUME Rows, [Next]_vars
  PROVE  /\ status' \in [Nodes -> {"absent", "active", "archived"}]
         /\ recall' \in [Nodes -> Nat]
         /\ inbox' \in [Items -> {"absent", "pending", "promoted", "discarded"}]
<1> USE DEF Rows
<1>1. status' \in [Nodes -> {"absent", "active", "archived"}]
  <2>1. CASE UNCHANGED status \/ OperatorArchive
    BY <2>1 DEF OperatorArchive
  <2>2. ASSUME NEW s \in Sessions, StoreFact(s)
        PROVE  status' = status \/ status' = [status EXCEPT ![Req(s).node] = "active"]
    BY <2>2 DEF StoreFact, Fail, graph
  <2> QED BY <2>1, <2>2, WhoWrites
<1>2. recall' \in [Nodes -> Nat]
  <2>1. ASSUME NEW s \in Sessions, BumpRecall(s)
        PROVE  \/ recall' = recall
               \/ recall' = [n \in Nodes |-> IF n \in job[s].got \cap Seen(Me(s))
                                             THEN recall[n] + 1 ELSE recall[n]]
    BY <2>1 DEF BumpRecall, Fail, graph
  <2> QED BY <2>1, WhoWrites
<1>3. inbox' \in [Items -> {"absent", "pending", "promoted", "discarded"}]
  <2>1. ASSUME NEW s \in Sessions, Capture(s) \/ FlipPromoted(s) \/ DiscardItem(s)
        PROVE  inbox' = inbox \/ \E st \in {"pending", "promoted", "discarded"} :
                                   inbox' = [inbox EXCEPT ![Req(s).item] = st]
    BY <2>1 DEF Capture, FlipPromoted, DiscardItem, SetInbox, Fail
  <2> QED BY <2>1, WhoWrites
<1> QED BY <1>1, <1>2, <1>3

\* The last endpoint of a batch looked at, all of its edges are inserted.
LEMMA WholeBatch ==
  ASSUME Named, Halfway, CallInv, NEW s \in Sessions, LinkAttach(s), edges' # edges
  PROVE  /\ answer' = "ok" /\ pc[s] = "attach" /\ pc'[s] = "idle"
         /\ edges' = edges \cup {Batch(s)[i] : i \in DOMAIN Batch(s)}
         /\ Batch(s) \in Seq(Nodes \X Nodes)
<1> DEFINE n == Len(job[s].todo) \div 2
<1>1. /\ pc[s] = "attach" /\ ~(n < Len(Batch(s)))
      /\ edges' = edges \cup {Batch(s)[i] : i \in 1..n} /\ Finish(s, "ok")
  BY DEF LinkAttach, Fail, ReadOnly, graph
<1>2. Batch(s) \in Seq(Nodes \X Nodes)
  BY <1>1, RequestFields DEF Named, NamedAt, Batch
<1>3. Len(job[s].todo) \in Nat /\ Len(Batch(s)) \in Nat
  <2>1. job[s].todo \in Seq(Nodes)
    BY DEF CallInv, Shaped, Jobs
  <2> QED BY <1>2, <2>1
<1>4. Len(job[s].todo) % 2 = 0 /\ Len(job[s].todo) <= 2 * Len(Batch(s))
  BY <1>1 DEF Halfway, HalfwayAt
<1>5. n \in Nat /\ Len(job[s].todo) = 2 * n
  BY <1>3, <1>4, Halves
<1> HIDE DEF n
<1>6. n = Len(Batch(s))
  BY <1>1, <1>3, <1>4, <1>5
<1>7. 1..n = DOMAIN Batch(s)
  BY <1>2, <1>6
<1>8. answer' = "ok" /\ pc'[s] = "idle"
  BY <1>1 DEF Finish, CallInv, Shaped
<1> QED BY <1>1, <1>2, <1>7, <1>8

LEMMA EdgesTyped ==
  ASSUME CallInv, Named, Halfway, Rows, [Next]_vars
  PROVE  edges' \subseteq Nodes \X Nodes
<1>1. ASSUME NEW s \in Sessions, LinkAttach(s), edges' # edges
      PROVE  edges' \subseteq Nodes \X Nodes
  <2>1. /\ edges' = edges \cup {Batch(s)[i] : i \in DOMAIN Batch(s)}
        /\ Batch(s) \in Seq(Nodes \X Nodes)
    BY <1>1, WholeBatch
  <2>2. \A i \in DOMAIN Batch(s) : Batch(s)[i] \in Nodes \X Nodes
    BY <2>1
  <2> QED BY <2>1, <2>2 DEF Rows
<1> QED BY <1>1, WhoWrites DEF Rows

-----------------------------------------------------------------------------
\* Where a call goes on from one of its statements.
Flow ==
  {<<"readable", "vector">>, <<"readable", "ambient">>, <<"ambient", "vector">>,
   <<"vector", "lexical">>, <<"lexical", "hydrate">>, <<"hydrate", "bump">>,
   <<"row", "edges">>, <<"edges", "shown">>, <<"link", "link">>, <<"link", "attach">>,
   <<"attach", "link">>, <<"check", "insert">>, <<"insert", "flip">>, <<"load", "drop">>,
   <<"load", "embed">>, <<"embed", "check">>, <<"flip", "flipping">>, <<"assert", "change">>}

GoesOn(s) ==
  /\ job'[s].req = job[s].req /\ job'[s].who = job[s].who
  /\ <<pc[s], pc'[s]>> \in Flow
  /\ pc'[s] = "drop" => Req(s).op = "discard"
  /\ job'[s].todo = job[s].todo \/ LinkEndpoint(s)

Ends(s) == pc'[s] = "idle"

LEMMA FinishEnds ==
  ASSUME CallInv, NEW s \in Sessions, \E a : Finish(s, a) \/ Fail(s, a)
  PROVE  Ends(s)
BY DEF Ends, Finish, Fail, CallInv, Shaped

\* A statement of one call moves that call only.
LEMMA Moves ==
  ASSUME CallInv, NEW s \in Sessions,
         (\E p \in Principals : Call(s, p)) \/ Statement(s) \/ Drop(s)
  PROVE  \A t \in Sessions : t # s => pc'[t] = pc[t] /\ job'[t] = job[t]
<1>1. \E l : pc' = [pc EXCEPT ![s] = l]
  <2>1. CASE \/ \E p \in Principals : Call(s, p)
             \/ Drop(s)
    BY <2>1 DEF Call, Drop
  <2>2. CASE Statement(s)
    BY <2>2 DEF Statement, ResolveReadable, ResolveAmbient, VectorLeg, LexicalLeg, Hydrate,
       BumpRecall, GetRow, GetEdges, GetDone, LinkEndpoint, LinkAttach, CheckScope, StoreFact,
       Stored, Capture, LoadActionable, PromoteWrite, PromoteFlip, FlipPromoted, DiscardItem,
       ScopeCreate, AssertAdmin, SetVisibility, Grant, MemberAdd, MemberArchive,
       Fail, Finish, FinishChange, Next1
  <2> QED BY <2>1, <2>2
<1>2. UNCHANGED job \/ \E j : job' = [job EXCEPT ![s] = j]
  <2>1. CASE \/ \E p \in Principals : Call(s, p)
             \/ Drop(s)
    BY <2>1 DEF Call, Drop
  <2>2. CASE Statement(s)
    BY <2>2 DEF Statement, ResolveReadable, ResolveAmbient, VectorLeg, LexicalLeg, Hydrate,
       BumpRecall, GetRow, GetEdges, GetDone, LinkEndpoint, LinkAttach, CheckScope, StoreFact,
       Stored, Capture, LoadActionable, PromoteWrite, PromoteFlip, FlipPromoted, DiscardItem,
       ScopeCreate, AssertAdmin, SetVisibility, Grant, MemberAdd, MemberArchive,
       Fail, Finish, FinishChange
  <2> QED BY <2>1, <2>2
<1> QED BY <1>1, <1>2, EndsElsewhere

LEMMA SearchGoesOn ==
  ASSUME CallInv, NEW s \in Sessions,
         \/ ResolveReadable(s) \/ ResolveAmbient(s) \/ VectorLeg(s) \/ LexicalLeg(s)
         \/ Hydrate(s) \/ BumpRecall(s) \/ GetRow(s) \/ GetEdges(s) \/ GetDone(s)
  PROVE  Ends(s) \/ GoesOn(s)
<1>1. CASE \E a : Finish(s, a) \/ Fail(s, a)
  BY <1>1, FinishEnds
<1>2. CASE ~\E a : Finish(s, a) \/ Fail(s, a)
  <2>1. PICK l \in {"vector", "ambient", "lexical", "hydrate", "bump", "edges", "shown"} :
          pc' = [pc EXCEPT ![s] = l] /\ <<pc[s], l>> \in Flow
    BY <1>2 DEF Flow, ResolveReadable, ResolveAmbient, VectorLeg, LexicalLeg, Hydrate, BumpRecall,
       GetRow, GetEdges, GetDone, Next1
  <2>2. \E x \in {"scopes", "hits", "got"} : \E v : job' = [job EXCEPT ![s] = [@ EXCEPT ![x] = v]]
    BY <1>2 DEF ResolveReadable, ResolveAmbient, VectorLeg, LexicalLeg, Hydrate, BumpRecall,
       GetRow, GetEdges, GetDone
  <2>3. pc'[s] = l /\ pc'[s] # "drop"
    BY <2>1 DEF CallInv, Shaped
  <2>4. job'[s].req = job[s].req /\ job'[s].who = job[s].who /\ job'[s].todo = job[s].todo
    BY <2>2 DEF CallInv, Shaped, Jobs
  <2> QED BY <2>1, <2>3, <2>4 DEF GoesOn
<1> QED BY <1>1, <1>2

LEMMA LinkGoesOn ==
  ASSUME CallInv, NEW s \in Sessions, LinkEndpoint(s) \/ LinkAttach(s)
  PROVE  Ends(s) \/ GoesOn(s)
<1>1. CASE \E a : Finish(s, a) \/ Fail(s, a)
  BY <1>1, FinishEnds
<1>2. CASE ~\E a : Finish(s, a) \/ Fail(s, a)
  <2>1. PICK l \in {"link", "attach"} : pc' = [pc EXCEPT ![s] = l] /\ <<pc[s], l>> \in Flow
    BY <1>2 DEF Flow, LinkEndpoint, LinkAttach, Next1
  <2>2. \/ UNCHANGED job
        \/ LinkEndpoint(s) /\ job' = [job EXCEPT ![s].todo = Append(@, Endpoint(s))]
    BY <1>2 DEF LinkEndpoint, LinkAttach
  <2>3. pc'[s] = l /\ pc'[s] # "drop"
    BY <2>1 DEF CallInv, Shaped
  <2>4. /\ job'[s].req = job[s].req /\ job'[s].who = job[s].who
        /\ job'[s].todo = job[s].todo \/ LinkEndpoint(s)
    BY <2>2 DEF CallInv, Shaped, Jobs
  <2> QED BY <2>1, <2>3, <2>4 DEF GoesOn
<1> QED BY <1>1, <1>2

LEMMA StoreGoesOn ==
  ASSUME CallInv, NEW s \in Sessions,
         \/ CheckScope(s) \/ StoreFact(s) \/ Capture(s) \/ LoadActionable(s)
         \/ PromoteWrite(s) \/ PromoteFlip(s) \/ FlipPromoted(s) \/ DiscardItem(s)
         \/ ScopeCreate(s) \/ AssertAdmin(s) \/ SetVisibility(s) \/ Grant(s)
         \/ MemberAdd(s) \/ MemberArchive(s)
  PROVE  Ends(s) \/ GoesOn(s)
<1>1. CASE \E a : Finish(s, a) \/ Fail(s, a)
  BY <1>1, FinishEnds
<1>2. CASE FinishChange(s)
  BY <1>2 DEF FinishChange, Ends, CallInv, Shaped
<1>3. CASE ~(\E a : Finish(s, a) \/ Fail(s, a)) /\ ~FinishChange(s)
  <2>1. UNCHANGED job /\ \E l : /\ pc' = [pc EXCEPT ![s] = l] /\ <<pc[s], l>> \in Flow
                                /\ l = "drop" => Req(s).op = "discard"
    BY <1>3 DEF Flow, CheckScope, StoreFact, Stored, Capture, LoadActionable, PromoteWrite,
       PromoteFlip, FlipPromoted, DiscardItem, ScopeCreate, AssertAdmin, SetVisibility, Grant,
       MemberAdd, MemberArchive, Next1
  <2> QED BY <2>1 DEF GoesOn, CallInv, Shaped
<1> QED BY <1>1, <1>2, <1>3

LEMMA Goes ==
  ASSUME CallInv, NEW s \in Sessions, Statement(s) \/ Drop(s)
  PROVE  Ends(s) \/ GoesOn(s)
<1>1. Drop(s) => Ends(s)
  BY DEF Drop, Ends, CallInv, Shaped
<1> QED BY <1>1, SearchGoesOn, LinkGoesOn, StoreGoesOn DEF Statement

-----------------------------------------------------------------------------
\* A call begins at the first stage of its tool.
LEMMA Begins ==
  ASSUME CallInv, NEW s \in Sessions, NEW p \in Principals, Call(s, p)
  PROVE  \E r \in Asked : /\ job'[s].req = r /\ job'[s].who = p /\ job'[s].todo = <<>>
                          /\ pc'[s] = FirstStage(r.op)
<1>1. PICK r \in Asked :
        /\ pc' = [pc EXCEPT ![s] = FirstStage(r.op)]
        /\ job' = [job EXCEPT ![s] = [NoJob EXCEPT !.who = p, !.req = r]]
  BY DEF Call
<1>2. pc'[s] = FirstStage(r.op) /\ job'[s] = [NoJob EXCEPT !.who = p, !.req = r]
  BY <1>1 DEF CallInv, Shaped
<1>3. job'[s].req = r /\ job'[s].who = p /\ job'[s].todo = <<>>
  BY <1>2 DEF NoJob
<1> QED BY <1>2, <1>3

LEMMA NamedStep == CallInv /\ Named /\ [Next]_vars => Named'
<1> SUFFICES ASSUME CallInv, Named, [Next]_vars PROVE Named' OBVIOUS
<1>1. \A s \in Sessions : NamedAt(s)
  BY DEF Named
<1>2. (\A s \in Sessions : NamedAt(s)') => Named'
  BY DEF Named
<1>3. ASSUME NEW s \in Sessions, pc'[s] = pc[s], job'[s] = job[s] PROVE NamedAt(s)'
  BY <1>1, <1>3 DEF NamedAt, Req
<1>4. ASSUME NEW s \in Sessions, NEW p \in Principals, Call(s, p) PROVE NamedAt(s)'
  <2>1. PICK r \in Asked : /\ job'[s].req = r /\ job'[s].who = p
                           /\ pc'[s] = FirstStage(r.op)
    BY <1>4, Begins
  <2>2. /\ FirstStage(r.op) \in {"link", "attach"} => r.op = "link"
        /\ FirstStage(r.op) = "capture" => r.op = "capture"
        /\ FirstStage(r.op) = "scope_create" => r.op = "scope_create"
        /\ FirstStage(r.op) # "drop"
    BY DEF FirstStage
  <2> QED BY <2>1, <2>2 DEF NamedAt, Req
<1>5. ASSUME NEW s \in Sessions, Statement(s) \/ Drop(s) PROVE NamedAt(s)'
  <2>1. CASE Ends(s)
    BY <2>1 DEF Ends, NamedAt
  <2>2. CASE GoesOn(s)
    BY <1>1, <2>2 DEF GoesOn, Flow, NamedAt, Req
  <2> QED BY <1>5, <2>1, <2>2, Goes
<1>6. ASSUME NEW s \in Sessions, (\E p \in Principals : Call(s, p)) \/ Statement(s) \/ Drop(s)
      PROVE  Named'
  <2>1. \A t \in Sessions : t # s => pc'[t] = pc[t] /\ job'[t] = job[t]
    BY <1>6, Moves
  <2>2. NamedAt(s)'
    BY <1>4, <1>5, <1>6
  <2> QED BY <1>2, <1>3, <2>1, <2>2
<1>7. CASE OperatorArchive \/ ScopeArchive \/ Done \/ UNCHANGED vars
  <2>1. UNCHANGED <<pc, job>>
    BY <1>7 DEF OperatorArchive, ScopeArchive, Done, vars
  <2> QED BY <1>2, <1>3, <2>1
<1> QED BY <1>6, <1>7 DEF Next

LEMMA LinkTyped ==
  ASSUME CallInv, Named, NEW s \in Sessions, pc[s] \in {"link", "attach"}
  PROVE  /\ Batch(s) \in Seq(Nodes \X Nodes) /\ Len(Batch(s)) \in Nat
         /\ job[s].todo \in Seq(Nodes) /\ Len(job[s].todo) \in Nat
<1>1. Batch(s) \in Seq(Nodes \X Nodes)
  BY RequestFields DEF Named, NamedAt, Batch
<1>2. job[s].todo \in Seq(Nodes)
  BY DEF CallInv, Shaped, Jobs
<1> QED BY <1>1, <1>2

LEMMA EndpointHalfway ==
  ASSUME CallInv, Named, NEW s \in Sessions, HalfwayAt(s), LinkEndpoint(s), ~Ends(s)
  PROVE  HalfwayAt(s)'
<1> DEFINE k == Len(job[s].todo)
           n == Len(Batch(s))
<1>1. /\ pc[s] = "link" /\ Batch(s) # <<>>
      /\ Endpoint(s) \in Seen(Me(s))
      /\ job' = [job EXCEPT ![s].todo = Append(@, Endpoint(s))]
      /\ pc' = [pc EXCEPT ![s] = IF k % 2 = 1 THEN "attach" ELSE "link"]
  BY FinishEnds DEF LinkEndpoint, Next1
<1>2. k \in Nat /\ n \in Nat /\ job[s].todo \in Seq(Nodes) /\ Batch(s) \in Seq(Nodes \X Nodes)
  BY <1>1, LinkTyped
<1>3. n # 0
  BY <1>1, <1>2
<1>4. k < 2 * n
  BY <1>1, <1>3 DEF HalfwayAt
<1>5. /\ job'[s].todo = Append(job[s].todo, Endpoint(s)) /\ job'[s].req = job[s].req
      /\ pc'[s] = IF k % 2 = 1 THEN "attach" ELSE "link"
  BY <1>1 DEF CallInv, Shaped, Jobs
<1>6. Len(job'[s].todo) = k + 1
  BY <1>2, <1>5
<1>7. Batch(s)' = Batch(s)
  BY <1>5 DEF Batch, Req
<1> HIDE DEF k, n
<1>8. /\ k % 2 = 1 => (k + 1) % 2 = 0 /\ k + 1 <= 2 * n
      /\ k % 2 # 1 => k + 1 < 2 * n
  BY <1>2, <1>4
<1> QED BY <1>5, <1>6, <1>7, <1>8 DEF HalfwayAt, n

LEMMA AttachHalfway ==
  ASSUME CallInv, Named, NEW s \in Sessions, HalfwayAt(s), LinkAttach(s), ~Ends(s)
  PROVE  HalfwayAt(s)'
<1> DEFINE k == Len(job[s].todo)
           n == Len(Batch(s))
<1>1. /\ pc[s] = "attach" /\ k \div 2 < n /\ UNCHANGED job
      /\ pc' = [pc EXCEPT ![s] = "link"]
  BY FinishEnds DEF LinkAttach, Next1
<1>2. k \in Nat /\ n \in Nat
  BY <1>1, LinkTyped
<1>3. k % 2 = 0
  BY <1>1 DEF HalfwayAt
<1>4. pc'[s] = "link" /\ Batch(s)' = Batch(s)
  BY <1>1 DEF CallInv, Shaped, Batch, Req
<1> HIDE DEF n, k
<1>5. k < 2 * n
  BY <1>1, <1>2, <1>3, Halves
<1> QED BY <1>1, <1>4, <1>5 DEF HalfwayAt, n, k

LEMMA HalfwayStep == CallInv /\ Named /\ Halfway /\ [Next]_vars => Halfway'
<1> SUFFICES ASSUME CallInv, Named, Halfway, [Next]_vars PROVE Halfway' OBVIOUS
<1>1. \A s \in Sessions : HalfwayAt(s)
  BY DEF Halfway
<1>2. (\A s \in Sessions : HalfwayAt(s)') => Halfway'
  BY DEF Halfway
<1>3. ASSUME NEW s \in Sessions, pc'[s] = pc[s], job'[s] = job[s] PROVE HalfwayAt(s)'
  BY <1>1, <1>3 DEF HalfwayAt, Batch, Req
<1>4. ASSUME NEW s \in Sessions, NEW p \in Principals, Call(s, p) PROVE HalfwayAt(s)'
  <2>1. PICK r \in Asked : /\ job'[s].req = r /\ job'[s].todo = <<>>
                           /\ pc'[s] = FirstStage(r.op)
    BY <1>4, Begins
  <2>2. FirstStage(r.op) # "attach" /\ (FirstStage(r.op) = "link" => r.op = "link")
    BY DEF FirstStage
  <2>3. CASE pc'[s] # "link"
    BY <2>1, <2>2, <2>3 DEF HalfwayAt
  <2>4. CASE pc'[s] = "link"
    <3>1. Batch(s)' \in Seq(Nodes \X Nodes)
      BY <2>1, <2>2, <2>4, RequestFields DEF Batch, Req
    <3>2. Len(Batch(s)') \in Nat /\ Len(job'[s].todo) = 0
      BY <2>1, <3>1
    <3>3. \A n \in Nat : n = 0 \/ 0 < 2 * n
      OBVIOUS
    <3> QED BY <2>4, <3>2, <3>3 DEF HalfwayAt
  <2> QED BY <2>3, <2>4
<1>5. ASSUME NEW s \in Sessions, Statement(s) \/ Drop(s) PROVE HalfwayAt(s)'
  <2>1. CASE Ends(s) \/ pc'[s] \notin {"link", "attach"}
    BY <2>1 DEF Ends, HalfwayAt
  <2>2. CASE ~Ends(s) /\ pc'[s] \in {"link", "attach"}
    <3>1. pc[s] \in {"link", "attach"}
      BY <1>5, <2>2, Goes DEF GoesOn, Flow
    <3>2. LinkEndpoint(s) \/ LinkAttach(s)
      BY <1>5, <2>2, <3>1 DEF Statement, Drop, ResolveReadable, ResolveAmbient, VectorLeg,
         LexicalLeg, Hydrate, BumpRecall, GetRow, GetEdges, GetDone, CheckScope, StoreFact,
         Capture, LoadActionable, PromoteWrite, PromoteFlip, FlipPromoted, DiscardItem,
         ScopeCreate, AssertAdmin, SetVisibility, Grant, MemberAdd, MemberArchive,
         Ends, CallInv, Shaped
    <3> QED BY <1>1, <2>2, <3>2, EndpointHalfway, AttachHalfway
  <2> QED BY <2>1, <2>2
<1>6. ASSUME NEW s \in Sessions, (\E p \in Principals : Call(s, p)) \/ Statement(s) \/ Drop(s)
      PROVE  Halfway'
  <2>1. \A t \in Sessions : t # s => pc'[t] = pc[t] /\ job'[t] = job[t]
    BY <1>6, Moves
  <2>2. HalfwayAt(s)'
    BY <1>4, <1>5, <1>6
  <2> QED BY <1>2, <1>3, <2>1, <2>2
<1>7. CASE OperatorArchive \/ ScopeArchive \/ Done \/ UNCHANGED vars
  <2>1. UNCHANGED <<pc, job>>
    BY <1>7 DEF OperatorArchive, ScopeArchive, Done, vars
  <2> QED BY <1>2, <1>3, <2>1
<1> QED BY <1>6, <1>7 DEF Next

-----------------------------------------------------------------------------
LEMMA CountsStep == CallInv /\ Counts /\ [Next]_vars => Counts'
<1> SUFFICES ASSUME CallInv, Counts, [Next]_vars PROVE Counts' OBVIOUS
<1>1. calls' = calls \/ (calls < MaxCalls /\ calls' = calls + 1)
  <2>1. ASSUME NEW s \in Sessions, (\E p \in Principals : Call(s, p)) \/ Drop(s)
        PROVE  calls' = calls \/ (calls < MaxCalls /\ calls' = calls + 1)
    BY <2>1 DEF Call, Drop
  <2>2. ASSUME NEW s \in Sessions, Statement(s) PROVE calls' = calls
    BY <2>2 DEF Statement, ResolveReadable, ResolveAmbient, VectorLeg, LexicalLeg, Hydrate,
       BumpRecall, GetRow, GetEdges, GetDone, LinkEndpoint, LinkAttach, CheckScope, StoreFact,
       Stored, Capture, LoadActionable, PromoteWrite, PromoteFlip, FlipPromoted, DiscardItem,
       ScopeCreate, AssertAdmin, SetVisibility, Grant, MemberAdd, MemberArchive,
       Fail, Finish, FinishChange, Next1
  <2>3. CASE OperatorArchive \/ ScopeArchive \/ Done \/ UNCHANGED vars
    BY <2>3 DEF OperatorArchive, ScopeArchive, Done, vars
  <2> QED BY <2>1, <2>2, <2>3 DEF Next
<1>2. answer' \in Answers
  <2>1. ASSUME NEW s \in Sessions, (\E p \in Principals : Call(s, p)) \/ Drop(s)
        PROVE  answer' = "none"
    BY <2>1 DEF Call, Drop
  <2>2. ASSUME NEW s \in Sessions, Statement(s) PROVE answer' \in Answers
    BY <2>2 DEF Statement, ResolveReadable, ResolveAmbient, VectorLeg, LexicalLeg, Hydrate,
       BumpRecall, GetRow, GetEdges, GetDone, LinkEndpoint, LinkAttach, CheckScope, StoreFact,
       Stored, Capture, LoadActionable, PromoteWrite, PromoteFlip, FlipPromoted, DiscardItem,
       ScopeCreate, AssertAdmin, SetVisibility, Grant, MemberAdd, MemberArchive,
       Fail, Finish, FinishChange, Next1, Answers
  <2>3. CASE OperatorArchive \/ ScopeArchive \/ Done \/ UNCHANGED vars
    BY <2>3 DEF OperatorArchive, ScopeArchive, Done, vars, Counts, Answers
  <2>4. "none" \in Answers
    BY DEF Answers
  <2> QED BY <2>1, <2>2, <2>3, <2>4 DEF Next
<1> QED BY <1>1, <1>2, SharingAssumption DEF Counts

LEMMA SharingInvInit == Init => SharingInv
<1> SUFFICES ASSUME Init PROVE SharingInv OBVIOUS
<1>1. FactsInv
  BY DEF Init, FactsInv, Storing, StoreStages, PromotedHasFact
<1>2. Named /\ Halfway
  BY DEF Init, Named, NamedAt, Halfway, HalfwayAt
<1>3. Rows
  BY SharingAssumption DEF Init, Rows
<1>4. Counts
  BY SharingAssumption DEF Init, Counts, Answers
<1> QED BY <1>1, <1>2, <1>3, <1>4, SharingInit DEF SharingInv

LEMMA SharingInvStep == SharingInv /\ [Next]_vars => SharingInv'
<1> SUFFICES ASSUME SharingInv, [Next]_vars PROVE SharingInv' OBVIOUS
<1>1. CallInv /\ FactsInv /\ Named /\ Halfway /\ Rows /\ Counts
  BY DEF SharingInv
<1>2. Rows'
  BY <1>1, AccessTyped, MembersTyped, NodesTyped, EdgesTyped DEF Rows
<1>3. CallInv' /\ FactsInv' /\ Named' /\ Halfway' /\ Counts'
  BY <1>1, SharingStep, FactsStep, NamedStep, HalfwayStep, CountsStep
<1> QED BY <1>2, <1>3 DEF SharingInv

\* Whatever calls, operators and failures interleave, every variable holds what
\* its table or its caller can hold.  For the edges this needs that a link call
\* never runs past its batch, for the access tables that a stage is only reached
\* by the tool whose request it reads (core/link.py, server/tools/admin.py).
THEOREM AllTyped == Spec => []TypeOK
<1>1. SharingInv => TypeOK
  BY DEF SharingInv, CallInv, Shaped, Jobs, FactsInv, Rows, Counts, Answers, TypeOK
<1> QED BY <1>1, SharingInvInit, SharingInvStep, PTL DEF Spec

\* The graph only grows by whole batches: a link call answered with an error, or
\* dropped, has attached none of its edges (core/link.py).
THEOREM WholeBatchesOnly == Spec => BatchesWhole
<1> DEFINE Whole == edges' # edges => \E s \in Sessions :
                      /\ answer' = "ok" /\ pc[s] = "attach" /\ pc'[s] = "idle"
                      /\ edges' = edges \cup {Batch(s)[i] : i \in DOMAIN Batch(s)}
<1>1. ASSUME SharingInv, [Next]_vars PROVE Whole
  <2>1. CallInv /\ Named /\ Halfway
    BY <1>1 DEF SharingInv
  <2>2. edges' = edges \/ \E s \in Sessions : LinkAttach(s)
    BY <1>1, WhoWrites
  <2> QED BY <2>1, <2>2, WholeBatch
<1>2. SharingInv /\ [Next]_vars => [Whole]_vars
  BY <1>1
<1>3. [][Whole]_vars => BatchesWhole
  BY DEF BatchesWhole
<1> HIDE DEF Whole
<1> QED BY <1>2, <1>3, SharingInvInit, SharingInvStep, PTL DEF Spec
=============================================================================
