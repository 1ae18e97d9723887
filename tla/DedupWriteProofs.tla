-------------------------- MODULE DedupWriteProofs --------------------------
(***************************************************************************)
(* What holds of DedupWrite for every set of sessions, facts and nodes.    *)
(*                                                                         *)
(* The argument has three layers, each an invariant proved from the one    *)
(* below: WellFormed (types, and every id a session or a row mentions      *)
(* names an existing row), Exclusive (who is between the lock and COMMIT   *)
(* holds the lock of its type) and Fresh (until it commits, the holder's   *)
(* best candidate is still the nearest of the rows inserted under the      *)
(* lock).  TwinsAreLinked follows from the third, SupersedeAtomic from the *)
(* first, ParkedLinksApplied from the first and Payload (a resolution runs *)
(* with the fact and the link that were parked).                           *)
(***************************************************************************)
EXTENDS DedupWrite, FiniteSetTheorems, TLAPS

Exists(n) == n \in NodeIds /\ status[n] # "none"

\* A committed row holds a fact.
RowsOK == \A n \in NodeIds : status[n] # "none" => content[n] \in Facts

\* A parked payload holds a fact, and its snapshot and link name rows.
PendingOK ==
  \A p \in PendIds : pending[p].state # "none" =>
    /\ pending[p].fact \in Facts
    /\ \A c \in pending[p].cands : Exists(c)
    /\ pending[p].peer # NoNode => Exists(pending[p].peer)

\* The call of a session past its validation names a fact and existing rows.
ReqOK ==
  \A s \in Sessions : pc[s] # "idle" =>
    /\ req[s].op \in OpKinds
    /\ req[s].fact \in Facts
    /\ req[s].op = "supersede" => Exists(req[s].target)
    /\ req[s].op \in {"distinct", "merge"} =>
         /\ req[s].pid \in PendIds
         /\ pending[req[s].pid].state # "none"
    /\ req[s].peer # NoNode => Exists(req[s].peer)

\* What the candidate query returned are rows, and a merge has a canonical.
FoundOK ==
  \A s \in Sessions : pc[s] \in {"banded", "row", "judged"} =>
    /\ found[s].best # NoNode => Exists(found[s].best)
    /\ \A c \in found[s].cands : Exists(c)
    /\ req[s].op = "merge" \/ pc[s] \in {"row", "judged"}
         => found[s].best # NoNode

\* resolve_duplicate's merge path never goes through the lock.
MergeUnlocked ==
  \A s \in Sessions : pc[s] \in {"waiting", "locked"} => req[s].op # "merge"

WellFormed ==
  TypeOK /\ RowsOK /\ PendingOK /\ ReqOK /\ FoundOK /\ MergeUnlocked

-----------------------------------------------------------------------------
\* The bands partition the similarities: a call is in exactly one of them.
LEMMA BandRange ==
  ASSUME NEW sim \in 0..100
  PROVE  /\ SelectBand(sim) \in {"merge", "pending", "insert"}
         /\ SelectBand(sim) = "merge" <=> sim >= THigh
         /\ SelectBand(sim) = "insert" <=> sim < TLow
BY BandAssumption DEF SelectBand

\* What a band says of the similarity it was chosen for.
LEMMA BandEdges ==
  \A sim \in 0..100 :
    /\ SelectBand(sim) = "merge" => sim >= THigh
    /\ SelectBand(sim) = "pending" => TLow <= sim /\ sim < THigh
    /\ SelectBand(sim) = "insert" => sim < TLow
    /\ SelectBand(sim) # "merge" => sim < THigh
BY BandAssumption DEF SelectBand

\* Without a candidate nothing reaches the merge band.
LEMMA MergeHasBest ==
  ASSUME WellFormed, NEW s \in Sessions, pc[s] = "banded", Band(s) = "merge"
  PROVE  found[s].best \in NodeIds
<1>1. CASE req[s].op = "merge"
  BY <1>1 DEF WellFormed, FoundOK, Exists
<1>2. CASE req[s].op # "merge" /\ found[s].best = NoNode
  <2>1. SelectBand(Similarity(s)) = "insert"
    BY <1>2, BandAssumption DEF Similarity, SelectBand
  <2> QED BY <1>2, <2>1 DEF Band
<1>3. CASE found[s].best # NoNode
  BY <1>3 DEF WellFormed, FoundOK, Exists
<1> QED BY <1>1, <1>2, <1>3

-----------------------------------------------------------------------------
\* The empty space is well-formed.
LEMMA InitWellFormed == Init => WellFormed
<1> SUFFICES ASSUME Init PROVE WellFormed OBVIOUS
<1>1. NoReq \in Requests BY DEF NoReq, Requests, OpKinds
<1>2. NoPending \in PendingRows BY DEF NoPending, PendingRows
<1>3. TypeOK
  BY <1>1, <1>2, BoundAssumption
     DEF Init, TypeOK, NoFound, NoRead, Pcs, Statuses
<1> QED
  BY <1>3 DEF Init, WellFormed, RowsOK, PendingOK, ReqOK, FoundOK, NoPending,
              MergeUnlocked

\* Well-formedness of a step that leaves the rows alone: it is enough that the
\* moving session's call and candidates are well-formed afterwards.
LEMMA BeginWellFormed ==
  ASSUME WellFormed, NEW s \in Sessions, Call(s)
  PROVE  WellFormed'
<1> USE DEF WellFormed
<1>1. ASSUME NEW r \in Requests, NEW next \in {"waiting", "banded"},
             Begin(s, r, next), r.op \in OpKinds, r.fact \in Facts,
             r.op = "supersede" => Exists(r.target),
             r.op \in {"distinct", "merge"} =>
               r.pid \in PendIds /\ pending[r.pid].state # "none",
             r.peer # NoNode => Exists(r.peer),
             r.op = "merge" => next = "banded",
             \/ next = "waiting" /\ UNCHANGED found
             \/ \E t \in NodeIds : /\ Exists(t)
                                   /\ found' = [found EXCEPT ![s] =
                                        [best |-> t, cands |-> {}]]
      PROVE  WellFormed'
  <2>1. TypeOK'
    <3>1. pc' \in [Sessions -> Pcs] /\ req' \in [Sessions -> Requests]
      BY <1>1 DEF TypeOK, Begin, Pcs
    <3>2. calls' \in 0..MaxCalls
      BY <1>1, BoundAssumption DEF TypeOK, Begin
    <3>3. found' \in [Sessions -> [best : NodeIds \cup {NoNode},
                                   cands : SUBSET NodeIds]]
      <4>1. CASE UNCHANGED found BY <4>1 DEF TypeOK
      <4>2. ASSUME NEW t \in NodeIds,
                   found' = [found EXCEPT ![s] = [best |-> t, cands |-> {}]]
            PROVE  found' \in [Sessions -> [best : NodeIds \cup {NoNode},
                                            cands : SUBSET NodeIds]]
        BY <4>2 DEF TypeOK
      <4> QED BY <1>1, <4>1, <4>2
    <3> QED BY <1>1, <3>1, <3>2, <3>3 DEF TypeOK, Begin
  <2>2. RowsOK' /\ PendingOK'
    BY <1>1 DEF Begin, RowsOK, PendingOK, Exists
  <2>3. ReqOK'
    BY <1>1 DEF Begin, ReqOK, Exists, TypeOK
  <2>4. FoundOK'
    BY <1>1, NullAssumption DEF Begin, FoundOK, Exists, TypeOK
  <2>5. MergeUnlocked'
    BY <1>1 DEF Begin, MergeUnlocked, TypeOK
  <2> QED BY <2>1, <2>2, <2>3, <2>4, <2>5
<1>2. ASSUME NEW op \in {"write", "import"}, NEW f \in Facts,
             NEW peer \in LinkPeers, BeginWrite(s, op, f, peer)
      PROVE  WellFormed'
  <2> DEFINE r == [op |-> op, fact |-> f, target |-> NoNode, pid |-> NoPend,
                   peer |-> peer]
  <2>1. r \in Requests
    BY <1>2 DEF Requests, OpKinds, LinkPeers
  <2>2. r.peer # NoNode => Exists(r.peer)
    BY <1>2 DEF LinkPeers, Exists
  <2> QED BY <1>1, <1>2, <2>1, <2>2 DEF BeginWrite, OpKinds
<1>3. ASSUME NEW p \in PendIds, BeginDistinct(s, p) PROVE WellFormed'
  <2> DEFINE r == [op |-> "distinct", fact |-> pending[p].fact,
                   target |-> NoNode, pid |-> p, peer |-> pending[p].peer]
  <2>1. r \in Requests
    BY <1>3 DEF Requests, OpKinds, TypeOK, PendingRows
  <2>2. r.fact \in Facts /\ (r.peer # NoNode => Exists(r.peer))
    BY <1>3 DEF BeginDistinct, PendingOK
  <2> QED BY <1>1, <1>3, <2>1, <2>2 DEF BeginDistinct, OpKinds
<1>4. ASSUME NEW p \in PendIds, NEW target \in NodeIds, BeginMerge(s, p, target)
      PROVE  WellFormed'
  <2> DEFINE r == [op |-> "merge", fact |-> pending[p].fact,
                   target |-> target, pid |-> p, peer |-> pending[p].peer]
  <2>1. r \in Requests
    BY <1>4 DEF Requests, OpKinds, TypeOK, PendingRows
  <2>2. r.fact \in Facts /\ (r.peer # NoNode => Exists(r.peer))
    BY <1>4 DEF BeginMerge, PendingOK
  <2>3. Exists(target)
    BY <1>4 DEF BeginMerge, Exists
  <2> QED BY <1>1, <1>4, <2>1, <2>2, <2>3 DEF BeginMerge, OpKinds
<1>5. ASSUME NEW old \in NodeIds, NEW f \in Facts, NEW peer \in LinkPeers,
             BeginSupersede(s, old, f, peer)
      PROVE  WellFormed'
  <2> DEFINE r == [op |-> "supersede", fact |-> f, target |-> old,
                   pid |-> NoPend, peer |-> peer]
  <2>1. r \in Requests
    BY <1>5 DEF Requests, OpKinds, LinkPeers
  <2>2. Exists(r.target) /\ (r.peer # NoNode => Exists(r.peer))
    BY <1>5 DEF LinkPeers, Exists, BeginSupersede
  <2> QED BY <1>1, <1>5, <2>1, <2>2 DEF BeginSupersede, OpKinds
<1> QED BY <1>2, <1>3, <1>4, <1>5 DEF Call

\* The steps between the lock and the verdict, and the ends of a call, change
\* no row.
LEMMA QuietWellFormed ==
  ASSUME WellFormed, NEW s \in Sessions,
         \/ Acquire(s) \/ SelectCandidates(s) \/ ReadCanonical(s)
         \/ JudgeNovelty(s) \/ Rollback(s) \/ Report(s)
  PROVE  WellFormed'
<1> USE DEF WellFormed
<1>0. UNCHANGED rowVars /\ UNCHANGED <<pending, acked, calls>>
  BY DEF Acquire, SelectCandidates, ReadCanonical, JudgeNovelty, Rollback,
         Report
<1>1. RowsOK' /\ PendingOK'
  BY <1>0 DEF rowVars, RowsOK, PendingOK, Exists
<1>2. CASE Acquire(s)
  <2>1. TypeOK'
    BY <1>0, <1>2, FactAssumption DEF rowVars, TypeOK, Acquire, ReqOK, LockKey, Pcs
  <2>2. ReqOK' /\ FoundOK' /\ MergeUnlocked'
    BY <1>0, <1>2 DEF MergeUnlocked, rowVars, Acquire, TypeOK, ReqOK, FoundOK, Exists
  <2> QED BY <1>1, <2>1, <2>2
<1>3. CASE SelectCandidates(s)
  <2> DEFINE S == Candidates(req[s].fact, Exclude(s))
  <2>1. PICK C \in SUBSET S, b \in NodeIds \cup {NoNode} :
          /\ IsBest(b, C, req[s].fact)
          /\ found' = [found EXCEPT ![s] = [best |-> b, cands |-> C]]
    BY <1>3 DEF SelectCandidates
  <2>2. \A c \in C : Exists(c)
    BY <2>1 DEF Candidates, Exists
  <2>3. b # NoNode => Exists(b)
    BY <2>1, <2>2 DEF IsBest
  <2>4. C \subseteq NodeIds
    BY <2>2 DEF Exists
  <2>5. TypeOK'
    <3>1. found' \in [Sessions -> [best : NodeIds \cup {NoNode},
                                   cands : SUBSET NodeIds]]
      BY <2>1, <2>4 DEF TypeOK
    <3> QED
      BY <1>0, <1>3, <3>1 DEF rowVars, TypeOK, SelectCandidates, Pcs
  <2>6. ReqOK' /\ MergeUnlocked'
    BY <1>0, <1>3 DEF rowVars, SelectCandidates, TypeOK, ReqOK, Exists,
                      MergeUnlocked
  <2>7. FoundOK'
    <3> SUFFICES ASSUME NEW u \in Sessions, pc'[u] \in {"banded", "row", "judged"}
                 PROVE  /\ found'[u].best # NoNode => Exists(found'[u].best)
                        /\ \A c \in found'[u].cands : Exists(c)
                        /\ req[u].op = "merge" \/ pc'[u] \in {"row", "judged"}
                             => found'[u].best # NoNode
      BY <1>0, <1>3 DEF rowVars, FoundOK, Exists, SelectCandidates
    <3>1. CASE u # s
      BY <1>3, <2>1, <3>1 DEF SelectCandidates, FoundOK, TypeOK
    <3>2. CASE u = s
      <4>1. pc'[u] = "banded" /\ found'[u] = [best |-> b, cands |-> C]
        BY <1>3, <2>1, <3>2 DEF SelectCandidates, TypeOK
      <4>2. req[s].op # "merge"
        BY <1>3 DEF SelectCandidates, MergeUnlocked
      <4> QED BY <2>2, <2>3, <3>2, <4>1, <4>2
    <3> QED BY <3>1, <3>2
  <2> QED BY <1>1, <2>5, <2>6, <2>7
<1>4. CASE ReadCanonical(s)
  <2>1. found[s].best \in NodeIds
    BY <1>4, MergeHasBest DEF ReadCanonical
  <2>2. addenda[found[s].best] \in Seq(Facts)
    BY <2>1 DEF TypeOK
  <2>3. TypeOK'
    BY <1>0, <1>4, <2>2 DEF rowVars, TypeOK, ReadCanonical, Pcs
  <2>4. ReqOK' /\ FoundOK' /\ MergeUnlocked'
    BY <1>0, <1>4, <2>1, NullAssumption
       DEF MergeUnlocked, rowVars, ReadCanonical, TypeOK, ReqOK, FoundOK, Exists
  <2> QED BY <1>1, <2>3, <2>4
<1>5. CASE JudgeNovelty(s)
  <2>1. IsNovel(FTokens[req[s].fact], CorpusOf(found[s].best, read[s].addenda))
          \in BOOLEAN
    BY DEF IsNovel
  <2>2. TypeOK'
    BY <1>0, <1>5, <2>1 DEF rowVars, TypeOK, JudgeNovelty, Pcs
  <2>3. ReqOK' /\ FoundOK' /\ MergeUnlocked'
    BY <1>0, <1>5 DEF MergeUnlocked, rowVars, JudgeNovelty, TypeOK, ReqOK, FoundOK, Exists
  <2> QED BY <1>1, <2>2, <2>3
<1>6. CASE Rollback(s)
  <2>1. NoReq \in Requests BY DEF NoReq, Requests, OpKinds
  <2>2. lock' \in [NodeTypes -> Sessions \cup {NoSession}]
    BY <1>6 DEF Rollback, ReleaseLocks, TypeOK
  <2>3. TypeOK'
    BY <1>0, <1>6, <2>1, <2>2 DEF rowVars, TypeOK, Rollback, Pcs, NoFound, NoRead
  <2>4. ReqOK' /\ FoundOK' /\ MergeUnlocked'
    BY <1>0, <1>6 DEF MergeUnlocked, rowVars, Rollback, TypeOK, ReqOK, FoundOK, Exists
  <2> QED BY <1>1, <2>3, <2>4
<1>7. CASE Report(s)
  <2>1. NoReq \in Requests BY DEF NoReq, Requests, OpKinds
  <2>2. metric' \in [{"facts_stored", "duplicates_prevented"} -> Nat]
    BY <1>7 DEF Report, TypeOK, MetricOf
  <2>3. TypeOK'
    BY <1>0, <1>7, <2>1, <2>2 DEF rowVars, TypeOK, Report, Pcs, NoFound, NoRead
  <2>4. ReqOK' /\ FoundOK' /\ MergeUnlocked'
    BY <1>0, <1>7 DEF MergeUnlocked, rowVars, Report, TypeOK, ReqOK, FoundOK, Exists
  <2> QED BY <1>1, <2>3, <2>4
<1> QED BY <1>2, <1>3, <1>4, <1>5, <1>6, <1>7

\* A commit that adds rows and edges: nothing that existed disappears.
LEMMA GrowingCommit ==
  ASSUME WellFormed, NEW s \in Sessions, NEW outcome \in Outcomes,
         Commit(s, outcome), pc[s] \in {"banded", "judged"},
         status' \in [NodeIds -> Statuses \cup {"none"}],
         content' \in [NodeIds -> Facts \cup {NoFact}],
         origin' \in [NodeIds -> {"none", "insert", "merge_linked"}],
         addenda' \in [NodeIds -> Seq(Facts)],
         edges' \subseteq NodeIds \X NodeIds \X EdgeTypes,
         pending' \in [PendIds -> PendingRows],
         acked' \subseteq Facts,
         RowsOK', PendingOK',
         \A n \in NodeIds : status[n] # "none" => status'[n] # "none",
         \A p \in PendIds : pending[p].state # "none" => pending'[p].state # "none"
  PROVE  WellFormed'
<1> USE DEF WellFormed
<1>1. lock' \in [NodeTypes -> Sessions \cup {NoSession}]
  BY DEF Commit, ReleaseLocks, TypeOK
<1>2. TypeOK'
  BY <1>1 DEF TypeOK, Commit, Pcs
<1>3. ReqOK'
  BY DEF Commit, ReqOK, TypeOK, Exists
<1>4. FoundOK' /\ MergeUnlocked'
  BY DEF Commit, FoundOK, TypeOK, Exists, MergeUnlocked
<1> QED BY <1>2, <1>3, <1>4

\* The edges a commit adds join rows that exist.
LEMMA CommitEdgesTyped ==
  ASSUME WellFormed, NEW s \in Sessions, pc[s] # "idle", NEW n \in NodeIds
  PROVE  /\ LinkEdges(s, n) \subseteq NodeIds \X NodeIds \X EdgeTypes
         /\ ReplacementEdges(s, n) \subseteq NodeIds \X NodeIds \X EdgeTypes
         /\ \A c \in NodeIds :
              ClusterEdges(s, n, c) \subseteq NodeIds \X NodeIds \X EdgeTypes
         /\ \A es \in InsertEdges(s, n) :
              es \subseteq NodeIds \X NodeIds \X EdgeTypes
<1>1. LinkEdges(s, n) \subseteq NodeIds \X NodeIds \X EdgeTypes
  BY DEF LinkEdges, EdgeTypes, WellFormed, ReqOK, Exists
<1>2. ReplacementEdges(s, n) \subseteq NodeIds \X NodeIds \X EdgeTypes
  BY DEF ReplacementEdges, Replaces, CrossType, EdgeTypes, WellFormed, ReqOK, Exists
<1>3. \A c \in NodeIds :
        ClusterEdges(s, n, c) \subseteq NodeIds \X NodeIds \X EdgeTypes
  BY DEF ClusterEdges, EdgeTypes
<1>4. req[s].op = "distinct" => NearestActive(s) \subseteq NodeIds
  BY DEF NearestActive, WellFormed, ReqOK, PendingOK, Exists
<1>5. \A es \in InsertEdges(s, n) : es \subseteq NodeIds \X NodeIds \X EdgeTypes
  BY <1>2, <1>4 DEF InsertEdges, EdgeTypes
<1> QED BY <1>1, <1>2, <1>3, <1>5

\* Marking a parked row keeps its payload.
LEMMA MarkedRow ==
  ASSUME NEW row \in PendingRows, NEW st \in {"expired", "resolved"}
  PROVE  [row EXCEPT !.state = st] \in PendingRows
BY DEF PendingRows

\* Stored(s) touches pending_writes and the history only as typed.
LEMMA StoredTyped ==
  ASSUME WellFormed, NEW s \in Sessions, pc[s] # "idle", Stored(s)
  PROVE  /\ acked' \subseteq Facts
         /\ pending' \in [PendIds -> PendingRows]
         /\ \A p \in PendIds :
              /\ pending[p].state # "none" <=> pending'[p].state # "none"
              /\ pending'[p].fact = pending[p].fact
              /\ pending'[p].cands = pending[p].cands
              /\ pending'[p].peer = pending[p].peer
<1> USE DEF WellFormed
<1>1. acked' \subseteq Facts
  BY DEF Stored, ReqOK, TypeOK
<1>2. CASE Resolves(s)
  <2>1. req[s].pid \in PendIds /\ pending[req[s].pid].state # "none"
    BY <1>2 DEF Resolves, ReqOK
  <2>2. pending' = [pending EXCEPT ![req[s].pid].state = "resolved"]
    BY <1>2 DEF Stored
  <2>3. pending' \in [PendIds -> PendingRows]
    <3>1. [pending[req[s].pid] EXCEPT !.state = "resolved"] \in PendingRows
      BY <2>1, MarkedRow DEF TypeOK
    <3> QED BY <2>1, <2>2, <3>1 DEF TypeOK
  <2>4. \A p \in PendIds :
          /\ pending'[p].state =
               IF p = req[s].pid THEN "resolved" ELSE pending[p].state
          /\ pending'[p].fact = pending[p].fact
          /\ pending'[p].cands = pending[p].cands
          /\ pending'[p].peer = pending[p].peer
    BY <2>2 DEF TypeOK, PendingRows
  <2> QED BY <1>1, <2>1, <2>3, <2>4, Zenon
<1>3. CASE ~Resolves(s)
  BY <1>1, <1>3 DEF Stored, TypeOK
<1> QED BY <1>2, <1>3

\* _do_insert of a fresh row keeps every row, edge and request well-formed.
LEMMA StoreWellFormed ==
  ASSUME WellFormed, NEW s \in Sessions, NEW n \in NodeIds,
         NEW band \in {"insert", "merge_linked"}, NEW outcome \in Outcomes,
         NEW es \in SUBSET (NodeIds \X NodeIds \X EdgeTypes),
         pc[s] \in {"banded", "judged"},
         StoreNode(s, n, band, es), Stored(s), Commit(s, outcome)
  PROVE  WellFormed'
<1> USE DEF WellFormed
<1>1. req[s].fact \in Facts
  BY DEF ReqOK
<1>2. /\ status' \in [NodeIds -> Statuses \cup {"none"}]
      /\ \A m \in NodeIds : status[m] # "none" => status'[m] # "none"
      /\ \A m \in NodeIds : m # n /\ status[m] = "none" => status'[m] = "none"
  <2>1. Replaces(s) => status[req[s].target] # "none"
    BY DEF Replaces, ReqOK, Exists
  <2> QED BY <2>1 DEF StoreNode, TypeOK, Statuses
<1>3. /\ content' \in [NodeIds -> Facts \cup {NoFact}]
      /\ origin' \in [NodeIds -> {"none", "insert", "merge_linked"}]
      /\ addenda' \in [NodeIds -> Seq(Facts)]
      /\ edges' \subseteq NodeIds \X NodeIds \X EdgeTypes
  BY <1>1 DEF StoreNode, TypeOK
<1>4. RowsOK'
  BY <1>1, <1>2 DEF StoreNode, RowsOK, TypeOK
<1>5. PendingOK'
  BY <1>2, StoredTyped DEF PendingOK, Exists
<1> QED BY <1>2, <1>3, <1>4, <1>5, StoredTyped, GrowingCommit

\* Each of the five ways a transaction commits keeps the state well-formed.
LEMMA CommitWellFormed ==
  ASSUME WellFormed, NEW s \in Sessions,
         \/ \E n \in NodeIds : CommitInsert(s, n) \/ CommitMergeLink(s, n)
         \/ CommitAbsorb(s)
         \/ \E p \in PendIds : CommitPark(s, p)
         \/ CommitReview(s)
  PROVE  WellFormed'
<1> USE DEF WellFormed
<1>1. ASSUME NEW n \in NodeIds, CommitInsert(s, n) PROVE WellFormed'
  <2>1. PICK es \in InsertEdges(s, n) :
          StoreNode(s, n, "insert", LinkEdges(s, n) \cup es)
    BY <1>1 DEF CommitInsert
  <2>2. LinkEdges(s, n) \cup es \subseteq NodeIds \X NodeIds \X EdgeTypes
    BY <1>1, CommitEdgesTyped DEF CommitInsert
  <2>3. "inserted" \in Outcomes BY DEF Outcomes
  <2> QED BY <1>1, <2>1, <2>2, <2>3, StoreWellFormed DEF CommitInsert
<1>2. ASSUME NEW n \in NodeIds, CommitMergeLink(s, n) PROVE WellFormed'
  <2> DEFINE es == LinkEdges(s, n) \cup ClusterEdges(s, n, found[s].best)
                     \cup ReplacementEdges(s, n)
  <2>1. StoreNode(s, n, "merge_linked", es)
    BY <1>2 DEF CommitMergeLink
  <2>2. found[s].best \in NodeIds
    BY <1>2 DEF CommitMergeLink, FoundOK, Exists
  <2>3. es \subseteq NodeIds \X NodeIds \X EdgeTypes
    BY <1>2, <2>2, CommitEdgesTyped DEF CommitMergeLink
  <2>4. "merged_linked" \in Outcomes BY DEF Outcomes
  <2> HIDE DEF es
  <2> QED BY <1>2, <2>1, <2>3, <2>4, StoreWellFormed DEF CommitMergeLink
<1>3. CASE CommitAbsorb(s)
  <2>1. found[s].best \in NodeIds /\ req[s].fact \in Facts
    BY <1>3 DEF CommitAbsorb, FoundOK, ReqOK, Exists
  <2>2. Append(read[s].addenda, req[s].fact) \in Seq(Facts)
    BY <2>1 DEF TypeOK
  <2>3. addenda' \in [NodeIds -> Seq(Facts)]
    BY <1>3, <2>1, <2>2 DEF CommitAbsorb, TypeOK
  <2>4. edges' \subseteq NodeIds \X NodeIds \X EdgeTypes
    BY <1>3, <2>1, CommitEdgesTyped DEF CommitAbsorb, TypeOK
  <2>5. PendingOK'
    BY <1>3, StoredTyped DEF CommitAbsorb, PendingOK, Exists
  <2>6. RowsOK' /\ "merged" \in Outcomes
    BY <1>3 DEF CommitAbsorb, RowsOK, Outcomes
  <2> QED
    BY <1>3, <2>3, <2>4, <2>5, <2>6, StoredTyped, GrowingCommit
       DEF CommitAbsorb, TypeOK
<1>4. ASSUME NEW p \in PendIds, CommitPark(s, p) PROVE WellFormed'
  <2> DEFINE row == [state |-> "parked", fact |-> req[s].fact,
                     cands |-> found[s].cands, peer |-> req[s].peer]
  <2>1. row \in PendingRows /\ req[s].fact \in Facts
    BY <1>4 DEF CommitPark, TypeOK, ReqOK, FoundOK, PendingRows, Exists, Requests
  <2>2. pending' \in [PendIds -> PendingRows]
    BY <1>4, <2>1 DEF CommitPark, TypeOK
  <2>3. PendingOK'
    BY <1>4, <2>1 DEF CommitPark, PendingOK, TypeOK, ReqOK, FoundOK, rowVars, Exists
  <2>4. RowsOK' /\ "needs_confirmation" \in Outcomes
    BY <1>4 DEF CommitPark, RowsOK, Outcomes, rowVars
  <2>5. \A q \in PendIds : pending[q].state # "none" => pending'[q].state # "none"
    BY <1>4 DEF CommitPark, TypeOK
  <2> QED
    BY <1>4, <2>2, <2>3, <2>4, <2>5, GrowingCommit
       DEF CommitPark, TypeOK, rowVars
<1>5. CASE CommitReview(s)
  <2>1. RowsOK' /\ PendingOK' /\ "review_queued" \in Outcomes
    BY <1>5 DEF CommitReview, RowsOK, PendingOK, Outcomes, rowVars, Exists
  <2> QED BY <1>5, <2>1, GrowingCommit DEF CommitReview, TypeOK, rowVars
<1> QED BY <1>1, <1>2, <1>3, <1>4, <1>5

\* Well-formedness is inductive.
LEMMA StepWellFormed == WellFormed /\ [Next]_vars => WellFormed'
<1> SUFFICES ASSUME WellFormed, [Next]_vars PROVE WellFormed'
  OBVIOUS
<1> USE DEF WellFormed
<1>1. ASSUME NEW s \in Sessions, Call(s) PROVE WellFormed'
  BY <1>1, BeginWellFormed
<1>2. ASSUME NEW s \in Sessions, Progress(s) PROVE WellFormed'
  BY <1>2, QuietWellFormed, CommitWellFormed DEF Progress, Raise
<1>3. ASSUME NEW s \in Sessions, Crash(s) PROVE WellFormed'
  BY <1>3, QuietWellFormed DEF Crash
<1>4. ASSUME NEW p \in PendIds, Expire(p) PROVE WellFormed'
  <2>1. pending' \in [PendIds -> PendingRows]
    <3>1. [pending[p] EXCEPT !.state = "expired"] \in PendingRows
      BY MarkedRow DEF TypeOK
    <3> QED BY <1>4, <3>1 DEF Expire, TypeOK
  <2>2. TypeOK'
    BY <1>4, <2>1 DEF Expire, TypeOK, rowVars
  <2>3. \A q \in PendIds :
          /\ pending'[q].state # "none" <=> pending[q].state # "none"
          /\ pending'[q].fact = pending[q].fact
          /\ pending'[q].cands = pending[q].cands
          /\ pending'[q].peer = pending[q].peer
    BY <1>4 DEF Expire, TypeOK, PendingRows
  <2>4. RowsOK' /\ PendingOK' /\ ReqOK' /\ FoundOK' /\ MergeUnlocked'
    BY <1>4, <2>3
       DEF Expire, rowVars, RowsOK, PendingOK, ReqOK, FoundOK, Exists, MergeUnlocked
  <2> QED BY <2>2, <2>4
<1>5. ASSUME NEW n \in NodeIds, OperatorArchive(n) PROVE WellFormed'
  <2>1. \A m \in NodeIds : status'[m] # "none" <=> status[m] # "none"
    BY <1>5 DEF OperatorArchive, TypeOK
  <2>2. TypeOK'
    BY <1>5 DEF OperatorArchive, TypeOK, Statuses
  <2>3. RowsOK' /\ PendingOK' /\ ReqOK' /\ FoundOK' /\ MergeUnlocked'
    BY <1>5, <2>1
       DEF OperatorArchive, RowsOK, PendingOK, ReqOK, FoundOK, Exists, MergeUnlocked
  <2> QED BY <2>2, <2>3
<1>6. CASE UNCHANGED vars
  BY <1>6 DEF vars, TypeOK, RowsOK, PendingOK, ReqOK, FoundOK, Exists, MergeUnlocked
<1> QED BY <1>1, <1>2, <1>3, <1>4, <1>5, <1>6 DEF Next, Done

\* Type correctness of the write path, and that no session or parked row ever
\* names a node that does not exist, for any number of sessions and facts.
THEOREM TypeCorrect == Spec => []TypeOK
<1>1. WellFormed => TypeOK BY DEF WellFormed
<1> QED BY <1>1, InitWellFormed, StepWellFormed, PTL DEF Spec

-----------------------------------------------------------------------------
\* What a step may do to rows: they are never deleted, rewritten or made
\* active again, and only an insert or a merge-link adds one.
RowStep ==
  /\ \A n \in NodeIds : status[n] # "none" =>
       /\ status'[n] # "none"
       /\ status'[n] = "active" => status[n] = "active"
       /\ content'[n] = content[n]
       /\ origin'[n] = origin[n]
  /\ \A n \in NodeIds : status[n] = "none" /\ status'[n] # "none" =>
       \E s \in Sessions : CommitInsert(s, n) \/ CommitMergeLink(s, n)

\* Storing a row changes statuses only from none to active, or to superseded.
LEMMA StoreRowStep ==
  ASSUME WellFormed, NEW s \in Sessions, NEW n \in NodeIds, NEW band, NEW es,
         pc[s] # "idle", StoreNode(s, n, band, es),
         CommitInsert(s, n) \/ CommitMergeLink(s, n)
  PROVE  RowStep
<1>1. Replaces(s) => status[req[s].target] # "none"
  BY DEF Replaces, WellFormed, ReqOK, Exists
<1> QED BY <1>1 DEF StoreNode, RowStep, WellFormed, TypeOK

LEMMA NextRowStep == WellFormed /\ [Next]_vars => RowStep
<1> SUFFICES ASSUME WellFormed, [Next]_vars PROVE RowStep
  OBVIOUS
<1>1. CASE UNCHANGED <<status, content, origin>>
  BY <1>1 DEF RowStep
<1>2. ASSUME NEW s \in Sessions, NEW n \in NodeIds, CommitInsert(s, n)
      PROVE  RowStep
  <2>1. PICK es \in InsertEdges(s, n) :
          StoreNode(s, n, "insert", LinkEdges(s, n) \cup es)
    BY <1>2 DEF CommitInsert
  <2>2. pc[s] # "idle" BY <1>2 DEF CommitInsert
  <2> QED BY <1>2, <2>1, <2>2, StoreRowStep
<1>3. ASSUME NEW s \in Sessions, NEW n \in NodeIds, CommitMergeLink(s, n)
      PROVE  RowStep
  <2>1. PICK es : StoreNode(s, n, "merge_linked", es)
    BY <1>3 DEF CommitMergeLink
  <2>2. pc[s] # "idle" BY <1>3 DEF CommitMergeLink
  <2> QED BY <1>3, <2>1, <2>2, StoreRowStep
<1>4. ASSUME NEW n \in NodeIds, OperatorArchive(n) PROVE RowStep
  BY <1>4 DEF OperatorArchive, RowStep, WellFormed, TypeOK
<1>5. ASSUME NEW s \in Sessions, Call(s) PROVE RowStep
  BY <1>1, <1>5 DEF Call, BeginWrite, BeginDistinct, BeginMerge,
                    BeginSupersede, Begin
<1>6. ASSUME NEW s \in Sessions, Progress(s) PROVE RowStep
  <2>1. CASE \/ Acquire(s) \/ SelectCandidates(s) \/ ReadCanonical(s)
             \/ JudgeNovelty(s) \/ Raise(s) \/ Report(s) \/ CommitAbsorb(s)
             \/ CommitReview(s) \/ \E p \in PendIds : CommitPark(s, p)
    BY <1>1, <2>1
       DEF rowVars, Acquire, SelectCandidates, ReadCanonical, JudgeNovelty,
           Raise, Rollback, Report, CommitAbsorb, CommitReview, CommitPark
  <2> QED BY <1>2, <1>3, <1>6, <2>1 DEF Progress
<1>7. ASSUME NEW s \in Sessions, Crash(s) PROVE RowStep
  BY <1>1, <1>7 DEF Crash, Rollback, rowVars
<1>8. ASSUME NEW p \in PendIds, Expire(p) PROVE RowStep
  BY <1>1, <1>8 DEF Expire, rowVars
<1>9. CASE UNCHANGED vars
  BY <1>1, <1>9 DEF vars
<1> QED BY <1>4, <1>5, <1>6, <1>7, <1>8, <1>9 DEF Next, Done

\* A node that left 'active' is never made active again by the write path.
NeverReactivated ==
  [][\A n \in NodeIds :
       status[n] \in {"superseded", "archived"} => status'[n] # "active"]_vars

\* No interleaving of calls, crashes and archivals makes a node active again
\* once it was superseded or archived.
THEOREM NoReactivation == Spec => NeverReactivated
<1>1. WellFormed /\ [Next]_vars
        => [\A n \in NodeIds : status[n] \in {"superseded", "archived"}
              => status'[n] # "active"]_vars
  BY NextRowStep DEF RowStep
<1> QED
  BY <1>1, InitWellFormed, StepWellFormed, PTL DEF Spec, NeverReactivated

-----------------------------------------------------------------------------
(* The advisory lock and the candidate snapshot.                           *)

Holding == {"locked", "banded", "row", "judged"}

\* A session between the lock and COMMIT holds the lock of its type.
Exclusive ==
  \A s \in Sessions : pc[s] \in Holding /\ req[s].op # "merge" =>
    lock[LockKey(s)] = s

\* The holder's best candidate is still at least as near as every node that
\* was not merge-linked: nobody else inserts in its type.
Fresh ==
  \A s \in Sessions : pc[s] = "banded" /\ req[s].op # "merge" =>
    \A n \in Candidates(req[s].fact, Exclude(s)) :
      origin[n] # "merge_linked" =>
        Sim[req[s].fact][content[n]] <= Similarity(s)

\* A session's step leaves the other sessions and their locks alone.
LEMMA Others ==
  ASSUME WellFormed, NEW u \in Sessions, Call(u) \/ Progress(u) \/ Crash(u),
         NEW s \in Sessions, s # u
  PROVE  /\ pc'[s] = pc[s] /\ req'[s] = req[s] /\ found'[s] = found[s]
         /\ \A t \in NodeTypes : lock[t] = s => lock'[t] = s
<1> USE DEF WellFormed, TypeOK
<1>1. CASE Call(u)
  BY <1>1 DEF Call, BeginWrite, BeginDistinct, BeginMerge, BeginSupersede, Begin
<1>2. CASE Acquire(u)
  BY <1>2, NullAssumption DEF Acquire
<1>3. CASE SelectCandidates(u) \/ ReadCanonical(u) \/ JudgeNovelty(u) \/ Report(u)
  BY <1>3 DEF SelectCandidates, ReadCanonical, JudgeNovelty, Report
<1>4. CASE Rollback(u)
  BY <1>4 DEF Rollback, ReleaseLocks
<1>5. ASSUME NEW outcome, Commit(u, outcome)
      PROVE  /\ pc'[s] = pc[s] /\ req'[s] = req[s] /\ found'[s] = found[s]
             /\ \A t \in NodeTypes : lock[t] = s => lock'[t] = s
  BY <1>5 DEF Commit, ReleaseLocks
<1>6. CASE \/ \E n \in NodeIds : CommitInsert(u, n) \/ CommitMergeLink(u, n)
           \/ CommitAbsorb(u) \/ CommitReview(u)
           \/ \E p \in PendIds : CommitPark(u, p)
  BY <1>5, <1>6 DEF CommitInsert, CommitMergeLink, CommitAbsorb, CommitReview,
                    CommitPark
<1> QED BY <1>1, <1>2, <1>3, <1>4, <1>6 DEF Progress, Raise, Crash

\* The stepping session itself: it holds the lock from Acquire to its end.
LEMMA OwnLock ==
  ASSUME WellFormed, Exclusive, NEW u \in Sessions,
         Call(u) \/ Progress(u) \/ Crash(u),
         pc'[u] \in Holding, req'[u].op # "merge"
  PROVE  lock'[FType[req'[u].fact]] = u
<1> USE DEF WellFormed, TypeOK, Holding
<1>1. CASE Call(u)
  BY <1>1 DEF Call, BeginWrite, BeginDistinct, BeginMerge, BeginSupersede, Begin
<1>2. CASE Acquire(u)
  <2>1. LockKey(u) \in NodeTypes
    BY <1>2, FactAssumption DEF Acquire, LockKey, ReqOK
  <2> QED BY <1>2, <2>1 DEF Acquire, LockKey
<1>3. CASE SelectCandidates(u) \/ ReadCanonical(u) \/ JudgeNovelty(u)
  BY <1>3 DEF SelectCandidates, ReadCanonical, JudgeNovelty, Exclusive, LockKey
<1>4. CASE Report(u) \/ Rollback(u)
  BY <1>4 DEF Report, Rollback
<1>5. CASE \/ \E n \in NodeIds : CommitInsert(u, n) \/ CommitMergeLink(u, n)
           \/ CommitAbsorb(u) \/ CommitReview(u)
           \/ \E p \in PendIds : CommitPark(u, p)
  BY <1>5 DEF CommitInsert, CommitMergeLink, CommitAbsorb, CommitReview,
              CommitPark, Commit
<1> QED BY <1>1, <1>2, <1>3, <1>4, <1>5 DEF Progress, Raise, Crash

\* Exclusive is inductive: whoever reads candidates under a key holds its lock.
LEMMA StepExclusive == WellFormed /\ Exclusive /\ [Next]_vars => Exclusive'
<1> SUFFICES ASSUME WellFormed, Exclusive, [Next]_vars,
                    NEW s \in Sessions, pc'[s] \in Holding, req'[s].op # "merge"
             PROVE  lock'[FType[req'[s].fact]] = s
  BY DEF Exclusive, LockKey
<1>1. ASSUME NEW u \in Sessions, Call(u) \/ Progress(u) \/ Crash(u)
      PROVE  lock'[FType[req'[s].fact]] = s
  <2>1. CASE u = s
    BY <1>1, <2>1, OwnLock
  <2>2. CASE u # s
    <3>1. FType[req[s].fact] \in NodeTypes
      BY <1>1, <2>2, Others, FactAssumption DEF WellFormed, ReqOK, Holding
    <3> QED BY <1>1, <2>2, <3>1, Others DEF Exclusive, LockKey
  <2> QED BY <2>1, <2>2
<1>2. ASSUME UNCHANGED <<lock, pc, req>>
      PROVE  lock'[FType[req'[s].fact]] = s
  BY <1>2 DEF Exclusive, LockKey
<1>3. ASSUME NEW p \in PendIds, Expire(p)
      PROVE  lock'[FType[req'[s].fact]] = s
  BY <1>2, <1>3 DEF Expire
<1>4. ASSUME NEW n \in NodeIds, OperatorArchive(n)
      PROVE  lock'[FType[req'[s].fact]] = s
  BY <1>2, <1>4 DEF OperatorArchive
<1>5. CASE UNCHANGED vars BY <1>2, <1>5 DEF vars
<1> QED BY <1>1, <1>3, <1>4, <1>5 DEF Next, Done

\* Similarities are percentages, and symmetric.
LEMMA SimRange ==
  \A f, g \in Facts : Sim[f][g] \in 0..100 /\ Sim[f][g] = Sim[g][f]
BY FactAssumption

\* The candidate query's best row is the nearest of all rows it could return,
\* whatever its LIMIT.
LEMMA NearestBest ==
  ASSUME NEW f \in Facts, NEW S \in SUBSET NodeIds, NEW C \in SUBSET S,
         NEW b, NEW d \in S, \A n \in S : content[n] \in Facts,
         IsNearest(C, S, f), IsBest(b, C, f)
  PROVE  b \in S /\ Sim[f][content[d]] <= Sim[f][content[b]]
<1>1. IsFiniteSet(S) /\ Cardinality(S) \in Nat
  BY BoundAssumption, FS_Subset, FS_CardinalityType
<1>2. Cardinality(S) # 0
  BY <1>1, FS_EmptySet
<1>3. C # {}
  <2>1. Cardinality(C) # 0
    BY <1>1, <1>2, BoundAssumption DEF IsNearest
  <2> QED BY <2>1, FS_EmptySet
<1>4. b \in C /\ \A c \in C : Sim[f][content[b]] >= Sim[f][content[c]]
  BY <1>3 DEF IsBest
<1>5. \A n \in S : Sim[f][content[n]] \in Int
  <2>1. \A n \in S : Sim[f][content[n]] \in 0..100
    BY SimRange, Zenon
  <2>2. 0..100 \subseteq Int
    OBVIOUS
  <2> QED BY <2>1, <2>2, Zenon
<1>6. CASE d \in C
  <2>1. Sim[f][content[b]] >= Sim[f][content[d]]
    BY <1>4, <1>6, Zenon
  <2>2. Sim[f][content[b]] \in Int /\ Sim[f][content[d]] \in Int
    BY <1>4, <1>5, Zenon
  <2> QED BY <1>4, <2>1, <2>2
<1>7. CASE d \notin C
  <2>1. Sim[f][content[b]] >= Sim[f][content[d]]
    BY <1>4, <1>7, Zenon DEF IsNearest
  <2>2. Sim[f][content[b]] \in Int /\ Sim[f][content[d]] \in Int
    BY <1>4, <1>5, Zenon
  <2> QED BY <1>4, <2>1, <2>2
<1> QED BY <1>4, <1>6, <1>7

\* What the holder is compared against does not change while others move.
LEMMA SameView ==
  ASSUME WellFormed, RowStep, NEW s \in Sessions, pc[s] = "banded",
         req'[s] = req[s], found'[s] = found[s]
  PROVE  /\ Similarity(s)' = Similarity(s)
         /\ Exclude(s)' = Exclude(s)
<1> USE DEF WellFormed
<1>1. found[s].best # NoNode => content'[found[s].best] = content[found[s].best]
  BY DEF FoundOK, Exists, RowStep
<1>2. req[s].op = "supersede"
        => content'[req[s].target] = content[req[s].target]
  BY DEF ReqOK, Exists, RowStep
<1> QED BY <1>1, <1>2 DEF Similarity, Exclude, Replaces

\* Fresh is inductive: while a session holds the lock nothing it did not see is
\* inserted under that type, so its candidate verdict still stands at commit.
LEMMA StepFresh ==
  WellFormed /\ Exclusive /\ Fresh /\ [Next]_vars => Fresh'
<1> SUFFICES ASSUME WellFormed, Exclusive, Fresh, [Next]_vars,
                    NEW s \in Sessions, pc'[s] = "banded", req'[s].op # "merge",
                    NEW n \in Candidates(req[s].fact, Exclude(s))',
                    origin'[n] # "merge_linked"
             PROVE  Sim[req'[s].fact][content'[n]] <= Similarity(s)'
  BY DEF Fresh
<1>1. RowStep /\ n \in NodeIds
  BY NextRowStep DEF Candidates
<1>2. ASSUME pc[s] = "banded", req'[s] = req[s], found'[s] = found[s],
             ~ \E m \in NodeIds : CommitInsert(s, m)
      PROVE  Sim[req'[s].fact][content'[n]] <= Similarity(s)'
  <2>1. Similarity(s)' = Similarity(s) /\ Exclude(s)' = Exclude(s)
    BY <1>1, <1>2, SameView
  <2>2. CASE status[n] # "none"
    <3>1. n \in Candidates(req[s].fact, Exclude(s))
      BY <1>1, <1>2, <2>1, <2>2 DEF Candidates, RowStep
    <3> QED BY <1>1, <1>2, <2>1, <2>2, <3>1 DEF Fresh, RowStep
  <2>3. CASE status[n] = "none"
    <3>1. PICK v \in Sessions : CommitInsert(v, n) \/ CommitMergeLink(v, n)
      BY <1>1, <2>3 DEF RowStep, Candidates
    <3>2. ~CommitMergeLink(v, n)
      BY <1>1 DEF CommitMergeLink, StoreNode, WellFormed, TypeOK
    <3>3. v # s
      BY <1>1, <1>2, <3>1, <3>2
    <3>4. content'[n] = req[v].fact
      BY <1>1, <3>1, <3>2 DEF CommitInsert, StoreNode, WellFormed, TypeOK
    <3>5. pc[v] = "banded" /\ req[v].op # "merge"
      BY <3>1, <3>2 DEF CommitInsert, Band
    <3>6. FType[req[v].fact] # FType[req[s].fact]
      BY <1>2, <3>3, <3>5 DEF Exclusive, Holding, LockKey
    <3> QED BY <1>2, <3>4, <3>6 DEF Candidates
  <2> QED BY <2>2, <2>3
<1>3. CASE SelectCandidates(s)
  <2> DEFINE f == req[s].fact
             S == Candidates(f, Exclude(s))
  <2>1. /\ UNCHANGED <<status, content, origin, req>>
        /\ f \in Facts
    BY <1>3 DEF SelectCandidates, rowVars, WellFormed, ReqOK
  <2>2. PICK C \in SUBSET S, b \in NodeIds \cup {NoNode} :
          /\ IsNearest(C, S, f)
          /\ IsBest(b, C, f)
          /\ found' = [found EXCEPT ![s] = [best |-> b, cands |-> C]]
    BY <1>3 DEF SelectCandidates
  <2>3. n \in S
    BY <2>1 DEF Candidates, Exclude, Replaces
  <2>4. S \subseteq NodeIds /\ \A m \in S : content[m] \in Facts
    BY DEF Candidates, WellFormed, RowsOK
  <2>5. b \in S /\ Sim[f][content[n]] <= Sim[f][content[b]]
    <3> HIDE DEF f, S
    <3> QED BY <2>1, <2>2, <2>3, <2>4, NearestBest
  <2>6. found'[s].best = b
    BY <2>2 DEF WellFormed, TypeOK
  <2>7. b # NoNode
    BY <2>4, <2>5, NullAssumption
  <2> QED BY <2>1, <2>5, <2>6, <2>7 DEF Similarity
<1>4. ASSUME NEW u \in Sessions, Call(u) \/ Progress(u) \/ Crash(u)
      PROVE  Sim[req'[s].fact][content'[n]] <= Similarity(s)'
  <2>1. CASE u # s
    <3>1. /\ pc'[s] = pc[s] /\ req'[s] = req[s] /\ found'[s] = found[s]
      BY <1>4, <2>1, Others
    <3>2. ~ \E m \in NodeIds : CommitInsert(s, m)
      BY <3>1 DEF CommitInsert, Commit, WellFormed, TypeOK
    <3> QED BY <1>2, <3>1, <3>2
  <2>2. CASE u = s /\ ~SelectCandidates(s)
    <3> USE DEF WellFormed, TypeOK
    <3>1. ~Call(s)
      BY DEF Call, BeginWrite, BeginDistinct, BeginMerge, BeginSupersede, Begin
    <3>2. ~Crash(s) /\ ~Raise(s) /\ ~Report(s)
      BY DEF Crash, Raise, Rollback, Report
    <3>3. ~Acquire(s) /\ ~ReadCanonical(s) /\ ~JudgeNovelty(s)
      BY DEF Acquire, ReadCanonical, JudgeNovelty
    <3>4. \A o : ~Commit(s, o)
      BY DEF Commit
    <3>5. ~CommitAbsorb(s) /\ ~CommitReview(s)
      BY <3>4 DEF CommitAbsorb, CommitReview
    <3>6. /\ \A m \in NodeIds : ~CommitInsert(s, m) /\ ~CommitMergeLink(s, m)
          /\ \A p \in PendIds : ~CommitPark(s, p)
      BY <3>4 DEF CommitInsert, CommitMergeLink, CommitPark
    <3> QED BY <1>4, <2>2, <3>1, <3>2, <3>3, <3>5, <3>6 DEF Progress
  <2> QED BY <1>3, <2>1, <2>2
<1>5. ASSUME UNCHANGED <<pc, req, found>>
      PROVE  Sim[req'[s].fact][content'[n]] <= Similarity(s)'
  <2>1. ~ \E m \in NodeIds : CommitInsert(s, m)
    BY <1>5 DEF CommitInsert, Commit, WellFormed, TypeOK
  <2> QED BY <1>2, <1>5, <2>1
<1>6. ASSUME NEW p \in PendIds, Expire(p)
      PROVE  Sim[req'[s].fact][content'[n]] <= Similarity(s)'
  BY <1>5, <1>6 DEF Expire
<1>7. ASSUME NEW m \in NodeIds, OperatorArchive(m)
      PROVE  Sim[req'[s].fact][content'[n]] <= Similarity(s)'
  BY <1>5, <1>7 DEF OperatorArchive
<1>8. CASE UNCHANGED vars BY <1>5, <1>8 DEF vars
<1> QED BY <1>4, <1>6, <1>7, <1>8 DEF Next, Done

-----------------------------------------------------------------------------
\* A row inserted under the lock has no active twin that was also inserted.
LEMMA InsertedHasNoTwin ==
  ASSUME WellFormed, Fresh, RowStep, NEW s \in Sessions, NEW a \in NodeIds,
         CommitInsert(s, a), NEW b \in NodeIds, b # a, status'[b] = "active",
         origin'[b] # "merge_linked",
         FType[content'[a]] = FType[content'[b]],
         FScope[content'[a]] = FScope[content'[b]]
  PROVE  Sim[content'[a]][content'[b]] < THigh
<1> USE DEF WellFormed
<1> DEFINE f == req[s].fact
<1>1. PICK es : StoreNode(s, a, "insert", es)
  BY DEF CommitInsert
<1>2. pc[s] = "banded" /\ Band(s) = "insert" /\ f \in Facts
  BY DEF CommitInsert, ReqOK
<1>3. content'[a] = f
  BY <1>1 DEF StoreNode, TypeOK
<1>4. status[b] = "active"
  <2>1. status[b] # "none"
    BY <1>1 DEF StoreNode, TypeOK
  <2> QED BY <2>1 DEF RowStep
<1>5. content'[b] = content[b] /\ origin'[b] = origin[b] /\ content[b] \in Facts
  BY <1>4 DEF RowStep, RowsOK
<1>6. b # Exclude(s)
  BY <1>1, NullAssumption DEF StoreNode, Exclude, TypeOK
<1>7. b \in Candidates(f, Exclude(s))
  BY <1>3, <1>4, <1>5, <1>6 DEF Candidates
<1>8. Sim[f][content[b]] <= Similarity(s)
  BY <1>2, <1>5, <1>7 DEF Fresh, Band
<1>9. Similarity(s) \in 0..100 /\ Sim[f][content[b]] \in 0..100
  <2>1. found[s].best # NoNode => content[found[s].best] \in Facts
    BY <1>2 DEF FoundOK, RowsOK, Exists
  <2>2. Sim[f][content[b]] \in 0..100
    BY <1>2, <1>5, SimRange
  <2>3. CASE found[s].best = NoNode
    <3>1. Similarity(s) = 0
      BY <2>3, Zenon DEF Similarity
    <3>2. 0 \in 0..100
      OBVIOUS
    <3> QED BY <2>2, <3>1, <3>2, Zenon
  <2>4. CASE found[s].best # NoNode
    <3>1. Sim[f][content[found[s].best]] \in 0..100
      BY <1>2, <2>1, <2>4, SimRange
    <3>2. Similarity(s) = Sim[f][content[found[s].best]]
      BY <2>4 DEF Similarity
    <3> QED BY <2>2, <3>1, <3>2
  <2> QED BY <2>3, <2>4
<1>10. Similarity(s) < THigh
  <2>1. SelectBand(Similarity(s)) # "merge"
    BY <1>2 DEF Band
  <2> QED BY <1>9, <2>1, BandEdges, Zenon
<1>11. Sim[f][content[b]] < THigh
  <2>1. \A x \in 0..100, y \in 0..100, z \in Nat : x <= y /\ y < z => x < z
    OBVIOUS
  <2>2. THigh \in Nat
    BY BandAssumption
  <2> HIDE DEF f
  <2> QED BY <1>8, <1>9, <1>10, <2>1, <2>2, Zenon
<1> QED BY <1>3, <1>5, <1>11

\* No step leaves two active twins of which neither is a cluster member.
LEMMA StepTwins ==
  WellFormed /\ Fresh /\ TwinsAreLinked /\ [Next]_vars => TwinsAreLinked'
<1> SUFFICES ASSUME WellFormed, Fresh, TwinsAreLinked, [Next]_vars,
                    NEW a \in NodeIds, NEW b \in NodeIds, Twins(a, b)',
                    origin'[a] # "merge_linked", origin'[b] # "merge_linked"
             PROVE  FALSE
  BY DEF TwinsAreLinked
<1>1. RowStep
  BY NextRowStep
<1>2. a # b /\ status'[a] = "active" /\ status'[b] = "active"
  BY DEF Twins
<1>3. CASE status[a] # "none" /\ status[b] # "none"
  BY <1>1, <1>2, <1>3 DEF TwinsAreLinked, Twins, RowStep
<1>4. ASSUME NEW x \in NodeIds, NEW y \in NodeIds, x # y, status[x] = "none",
             status'[x] = "active", status'[y] = "active",
             origin'[x] # "merge_linked", origin'[y] # "merge_linked",
             FType[content'[x]] = FType[content'[y]],
             FScope[content'[x]] = FScope[content'[y]]
      PROVE  /\ Sim[content'[x]][content'[y]] < THigh
             /\ content'[x] \in Facts /\ content'[y] \in Facts
  <2>1. PICK s \in Sessions : CommitInsert(s, x) \/ CommitMergeLink(s, x)
    BY <1>1, <1>4 DEF RowStep
  <2>2. CommitInsert(s, x)
    BY <1>4, <2>1 DEF CommitMergeLink, StoreNode, WellFormed, TypeOK
  <2>3. RowsOK'
    BY StepWellFormed DEF WellFormed
  <2>4. content'[x] \in Facts /\ content'[y] \in Facts
    BY <1>4, <2>3 DEF RowsOK
  <2> QED BY <1>1, <1>4, <2>2, <2>4, InsertedHasNoTwin
<1>5. CASE status[a] = "none"
  <2>1. Sim[content'[a]][content'[b]] < THigh
    BY <1>2, <1>4, <1>5 DEF Twins
  <2>2. content'[a] \in Facts /\ content'[b] \in Facts
    BY <1>2, <1>4, <1>5 DEF Twins
  <2>3. Sim[content'[a]][content'[b]] \in 0..100
    BY <2>2, SimRange
  <2> QED BY <2>1, <2>3, BandAssumption DEF Twins
<1>6. CASE status[b] = "none"
  <2>1. Sim[content'[b]][content'[a]] < THigh
    BY <1>2, <1>4, <1>6 DEF Twins
  <2>2. content'[a] \in Facts /\ content'[b] \in Facts
    BY <1>2, <1>4, <1>6 DEF Twins
  <2>3. /\ Sim[content'[b]][content'[a]] \in 0..100
        /\ Sim[content'[a]][content'[b]] = Sim[content'[b]][content'[a]]
    BY <2>2, SimRange
  <2> QED BY <2>1, <2>3, BandAssumption DEF Twins
<1> QED BY <1>3, <1>5, <1>6

\* The concurrent-duplicate race is closed: whatever the sessions, the facts,
\* their similarities and the interleaving, two active twins were never both
\* plain inserts.  The advisory lock and the candidate query under it are what
\* the proof rests on; resolve_duplicate's unlocked merge is in Next.
THEOREM NoUnlinkedTwins == Spec => []TwinsAreLinked
<1> DEFINE Inv == WellFormed /\ Exclusive /\ Fresh /\ TwinsAreLinked
<1>1. Init => Inv
  BY InitWellFormed
     DEF Init, Exclusive, Fresh, TwinsAreLinked, Twins, Holding
<1>2. Inv /\ [Next]_vars => Inv'
  BY StepWellFormed, StepExclusive, StepFresh, StepTwins
<1>3. Inv => TwinsAreLinked
  OBVIOUS
<1> HIDE DEF Inv
<1> QED BY <1>1, <1>2, <1>3, PTL DEF Spec

-----------------------------------------------------------------------------
(* supersede is atomic.                                                    *)

\* Every edge joins rows that exist.
EdgesExist ==
  \A e \in edges : Exists(e[1]) /\ Exists(e[2])

Replaced(old) == \E n \in NodeIds : <<n, old, "supersedes">> \in edges

\* The edges of an inserted or merge-linked row n, and which of them are
\* supersedes edges.
LEMMA StoredEdges ==
  ASSUME WellFormed, NEW s \in Sessions, NEW n \in NodeIds,
         CommitInsert(s, n) \/ CommitMergeLink(s, n)
  PROVE  \E es, band :
           /\ StoreNode(s, n, band, es)
           /\ \A e \in es : e[1] = n /\ Exists(e[2])
           /\ \A e \in es : e[3] = "supersedes"
                => Replaces(s) /\ e = <<n, req[s].target, "supersedes">>
           /\ Replaces(s) => <<n, req[s].target, "supersedes">> \in es
<1> USE DEF WellFormed
<1>0. pc[s] # "idle"
  BY DEF CommitInsert, CommitMergeLink
<1>1. \A e \in LinkEdges(s, n) :
        e[1] = n /\ Exists(e[2]) /\ e[3] # "supersedes"
  BY <1>0 DEF LinkEdges, ReqOK
<1>2. \A e \in ReplacementEdges(s, n) :
        /\ e[1] = n /\ Exists(e[2])
        /\ e[3] = "supersedes"
             => Replaces(s) /\ e = <<n, req[s].target, "supersedes">>
  BY <1>0 DEF ReplacementEdges, Replaces, CrossType, ReqOK
<1>3. Replaces(s) => <<n, req[s].target, "supersedes">> \in ReplacementEdges(s, n)
  BY DEF ReplacementEdges
<1>4. CASE CommitInsert(s, n)
  <2>1. PICK es \in InsertEdges(s, n) :
          StoreNode(s, n, "insert", LinkEdges(s, n) \cup es)
    BY <1>4 DEF CommitInsert
  <2>2. CASE req[s].op = "distinct" /\ NearestActive(s) # {}
    <3>1. PICK c \in NearestActive(s) : es = {<<n, c, "relates_to">>}
      BY <2>1, <2>2 DEF InsertEdges
    <3>2. Exists(c)
      BY <1>0, <2>2 DEF NearestActive, ReqOK, PendingOK
    <3>3. ~Replaces(s)
      BY <2>2 DEF Replaces
    <3> QED BY <1>1, <2>1, <3>1, <3>2, <3>3
  <2>3. CASE es = ReplacementEdges(s, n)
    BY <1>1, <1>2, <1>3, <2>1, <2>3
  <2> QED BY <2>1, <2>2, <2>3 DEF InsertEdges
<1>5. CASE CommitMergeLink(s, n)
  <2> DEFINE es == LinkEdges(s, n) \cup ClusterEdges(s, n, found[s].best)
                     \cup ReplacementEdges(s, n)
  <2>1. StoreNode(s, n, "merge_linked", es)
    BY <1>5 DEF CommitMergeLink
  <2>2. \A e \in ClusterEdges(s, n, found[s].best) :
          e[1] = n /\ Exists(e[2]) /\ e[3] # "supersedes"
    BY <1>5 DEF ClusterEdges, CommitMergeLink, FoundOK
  <2> QED BY <1>1, <1>2, <1>3, <2>1, <2>2
<1> QED BY <1>4, <1>5

\* A stored replacement and the flip of the row it replaces come together.
LEMMA StoreAtomic ==
  ASSUME WellFormed, EdgesExist, SupersedeAtomic, NEW s \in Sessions,
         NEW n \in NodeIds, CommitInsert(s, n) \/ CommitMergeLink(s, n)
  PROVE  EdgesExist' /\ SupersedeAtomic'
<1> USE DEF WellFormed
<1>1. PICK es, band :
        /\ StoreNode(s, n, band, es)
        /\ \A e \in es : e[1] = n /\ Exists(e[2])
        /\ \A e \in es : e[3] = "supersedes"
             => Replaces(s) /\ e = <<n, req[s].target, "supersedes">>
        /\ Replaces(s) => <<n, req[s].target, "supersedes">> \in es
  BY StoredEdges
<1>2. /\ status' = [m \in NodeIds |->
            IF m = n THEN "active"
            ELSE IF Replaces(s) /\ m = req[s].target THEN "superseded"
            ELSE status[m]]
      /\ edges' = edges \cup es
      /\ status[n] = "none"
  BY <1>1 DEF StoreNode
<1>3. EdgesExist'
  BY <1>1, <1>2 DEF EdgesExist, Exists
<1>4. Replaces(s) => Exists(req[s].target)
  BY DEF Replaces, CommitInsert, CommitMergeLink, ReqOK
<1>5. ASSUME NEW old \in NodeIds
      PROVE  /\ status'[old] = "superseded" => Replaced(old)'
             /\ Replaced(old)' => status'[old] # "active"
  <2>1. CASE Replaces(s) /\ old = req[s].target
    BY <1>1, <1>2, <1>4, <2>1 DEF Replaced, Exists
  <2>2. CASE old = n
    <3>1. ~Replaced(n)'
      <4> SUFFICES ASSUME NEW m \in NodeIds, <<m, n, "supersedes">> \in edges'
                   PROVE  FALSE
        BY DEF Replaced
      <4>1. CASE <<m, n, "supersedes">> \in edges
        BY <1>2, <4>1 DEF EdgesExist, Exists
      <4>2. CASE <<m, n, "supersedes">> \in es
        BY <1>1, <1>2, <1>4, <4>2 DEF Exists
      <4> QED BY <1>2, <4>1, <4>2
    <3> QED BY <1>2, <2>2, <3>1
  <2>3. CASE old # n /\ ~(Replaces(s) /\ old = req[s].target)
    <3>1. status'[old] = status[old]
      BY <1>2, <2>3
    <3>2. \A m \in NodeIds : <<m, old, "supersedes">> \notin es
      BY <1>1, <2>3
    <3>3. Replaced(old)' <=> Replaced(old)
      BY <1>2, <3>2 DEF Replaced
    <3> QED BY <3>1, <3>3 DEF SupersedeAtomic, Replaced
  <2> QED BY <2>1, <2>2, <2>3
<1> QED BY <1>3, <1>5 DEF SupersedeAtomic, Replaced

\* SupersedeAtomic is inductive, given that edges join existing rows.
LEMMA StepAtomic ==
  WellFormed /\ EdgesExist /\ SupersedeAtomic /\ [Next]_vars
    => EdgesExist' /\ SupersedeAtomic'
<1> SUFFICES ASSUME WellFormed, EdgesExist, SupersedeAtomic, [Next]_vars
             PROVE  EdgesExist' /\ SupersedeAtomic'
  OBVIOUS
<1>1. ASSUME UNCHANGED <<status, edges>> PROVE EdgesExist' /\ SupersedeAtomic'
  BY <1>1 DEF EdgesExist, Exists, SupersedeAtomic
<1>2. ASSUME NEW s \in Sessions, CommitAbsorb(s)
      PROVE  EdgesExist' /\ SupersedeAtomic'
  <2>1. \A e \in LinkEdges(s, found[s].best) :
          Exists(e[1]) /\ Exists(e[2]) /\ e[3] # "supersedes"
    BY <1>2 DEF CommitAbsorb, LinkEdges, WellFormed, ReqOK, FoundOK
  <2>2. /\ edges' = edges \cup LinkEdges(s, found[s].best)
        /\ status' = status
    BY <1>2 DEF CommitAbsorb
  <2>3. EdgesExist'
    BY <2>1, <2>2 DEF EdgesExist, Exists
  <2>4. \A m, o \in NodeIds :
          <<m, o, "supersedes">> \in edges' <=> <<m, o, "supersedes">> \in edges
    BY <2>1, <2>2
  <2> QED BY <2>2, <2>3, <2>4 DEF SupersedeAtomic
<1>3. ASSUME NEW n \in NodeIds, OperatorArchive(n)
      PROVE  EdgesExist' /\ SupersedeAtomic'
  BY <1>3 DEF OperatorArchive, EdgesExist, Exists, SupersedeAtomic, WellFormed, TypeOK
<1>4. ASSUME NEW s \in Sessions, Call(s) PROVE EdgesExist' /\ SupersedeAtomic'
  BY <1>1, <1>4 DEF Call, BeginWrite, BeginDistinct, BeginMerge,
                    BeginSupersede, Begin
<1>5. ASSUME NEW s \in Sessions, Progress(s) PROVE EdgesExist' /\ SupersedeAtomic'
  <2>1. CASE \/ Acquire(s) \/ SelectCandidates(s) \/ ReadCanonical(s)
             \/ JudgeNovelty(s) \/ Raise(s) \/ Report(s)
             \/ CommitReview(s) \/ \E p \in PendIds : CommitPark(s, p)
    BY <1>1, <2>1
       DEF rowVars, Acquire, SelectCandidates, ReadCanonical, JudgeNovelty,
           Raise, Rollback, Report, CommitReview, CommitPark
  <2> QED BY <1>2, <1>5, <2>1, StoreAtomic DEF Progress
<1>6. ASSUME NEW s \in Sessions, Crash(s) PROVE EdgesExist' /\ SupersedeAtomic'
  BY <1>1, <1>6 DEF Crash, Rollback, rowVars
<1>7. ASSUME NEW p \in PendIds, Expire(p) PROVE EdgesExist' /\ SupersedeAtomic'
  BY <1>1, <1>7 DEF Expire, rowVars
<1>8. CASE UNCHANGED vars BY <1>1, <1>8 DEF vars
<1> QED BY <1>3, <1>4, <1>5, <1>6, <1>7, <1>8 DEF Next, Done

\* No crash, rollback or race leaves a supersede half applied: a superseded
\* node has a replacement's edge and a replaced node is not active, for every
\* number of sessions.
THEOREM SupersedeIsAtomic == Spec => []SupersedeAtomic
<1>1. Init => EdgesExist /\ SupersedeAtomic
  BY DEF Init, EdgesExist, SupersedeAtomic
<1> QED
  BY <1>1, InitWellFormed, StepWellFormed, StepAtomic, PTL DEF Spec
-----------------------------------------------------------------------------
(* What was parked.                                                        *)

\* A commit that stores the fact of session s.
Stores(s) ==
  \/ \E n \in NodeIds : CommitInsert(s, n) \/ CommitMergeLink(s, n)
  \/ CommitAbsorb(s)

\* What a step may do to parked rows, edges and the history: a payload stays
\* as it was parked, edges and acknowledgements stay, and a fact is
\* acknowledged, a row resolved, by the commit that stores it.
ParkStep ==
  /\ \A p \in PendIds : pending[p].state # "none" =>
       /\ pending'[p].state # "none"
       /\ pending'[p].fact = pending[p].fact
       /\ pending'[p].peer = pending[p].peer
  /\ edges \subseteq edges' /\ acked \subseteq acked'
  /\ \A f \in acked' \ acked :
       \E s \in Sessions : Stores(s) /\ f = req[s].fact
  /\ \A p \in PendIds :
       pending[p].state # "resolved" /\ pending'[p].state = "resolved" =>
         \E s \in Sessions : Stores(s) /\ Resolves(s) /\ p = req[s].pid

\* A commit that stores a fact is a ParkStep.
LEMMA StoresParkStep ==
  ASSUME WellFormed, NEW s \in Sessions, Stores(s)
  PROVE  ParkStep /\ Stored(s) /\ pc[s] \in {"banded", "judged"}
<1>1. Stored(s) /\ edges \subseteq edges' /\ pc[s] \in {"banded", "judged"}
  BY DEF Stores, CommitInsert, CommitMergeLink, CommitAbsorb, StoreNode
<1>2. \A p \in PendIds : pending[p].state # "none" =>
        /\ pending'[p].state # "none"
        /\ pending'[p].fact = pending[p].fact
        /\ pending'[p].peer = pending[p].peer
  BY <1>1, StoredTyped
<1>3. acked \subseteq acked' /\ \A f \in acked' \ acked : f = req[s].fact
  BY <1>1 DEF Stored
<1>4. ASSUME NEW p \in PendIds, pending[p].state # "resolved",
             pending'[p].state = "resolved"
      PROVE  Resolves(s) /\ p = req[s].pid
  <2>1. CASE ~Resolves(s)
    BY <1>1, <1>4, <2>1 DEF Stored
  <2>2. CASE Resolves(s) /\ p # req[s].pid
    BY <1>1, <1>4, <2>2 DEF Stored, WellFormed, TypeOK
  <2> QED BY <2>1, <2>2
<1> QED BY <1>1, <1>2, <1>3, <1>4 DEF ParkStep

\* Every step is a ParkStep.
LEMMA NextParkStep == WellFormed /\ [Next]_vars => ParkStep
<1> SUFFICES ASSUME WellFormed, [Next]_vars PROVE ParkStep
  OBVIOUS
<1>1. CASE UNCHANGED <<pending, edges, acked>>
  BY <1>1 DEF ParkStep
<1>2. ASSUME NEW s \in Sessions, NEW p \in PendIds, CommitPark(s, p)
      PROVE  ParkStep
  <2>1. /\ UNCHANGED <<edges, acked>> /\ pending[p].state = "none"
        /\ \A q \in PendIds : q # p => pending'[q] = pending[q]
        /\ pending'[p].state = "parked"
    BY <1>2 DEF CommitPark, rowVars, WellFormed, TypeOK
  <2> QED BY <2>1 DEF ParkStep
<1>3. ASSUME NEW p \in PendIds, Expire(p) PROVE ParkStep
  <2>1. pending[p] \in PendingRows
    BY DEF WellFormed, TypeOK
  <2>2. pending' = [pending EXCEPT ![p].state = "expired"]
    BY <1>3 DEF Expire
  <2>3. \A q \in PendIds :
          /\ pending'[q].fact = pending[q].fact
          /\ pending'[q].peer = pending[q].peer
          /\ pending'[q].state \in {pending[q].state, "expired"}
    BY <2>1, <2>2 DEF WellFormed, TypeOK, PendingRows
  <2> QED BY <1>3, <2>3 DEF ParkStep, Expire, rowVars
<1>4. ASSUME NEW s \in Sessions, Call(s) PROVE ParkStep
  BY <1>1, <1>4 DEF Call, BeginWrite, BeginDistinct, BeginMerge,
                    BeginSupersede, Begin
<1>5. ASSUME NEW s \in Sessions, Progress(s) PROVE ParkStep
  <2>1. CASE \/ Acquire(s) \/ SelectCandidates(s) \/ ReadCanonical(s)
             \/ JudgeNovelty(s) \/ Raise(s) \/ Report(s) \/ CommitReview(s)
    BY <1>1, <2>1
       DEF rowVars, Acquire, SelectCandidates, ReadCanonical, JudgeNovelty,
           Raise, Rollback, Report, CommitReview
  <2>2. CASE Stores(s)
    BY <2>2, StoresParkStep
  <2> QED BY <1>2, <1>5, <2>1, <2>2 DEF Progress, Stores
<1>6. ASSUME NEW s \in Sessions, Crash(s) PROVE ParkStep
  BY <1>1, <1>6 DEF Crash, Rollback, rowVars
<1>7. ASSUME NEW n \in NodeIds, OperatorArchive(n) PROVE ParkStep
  BY <1>1, <1>7 DEF OperatorArchive
<1>8. CASE UNCHANGED vars
  BY <1>1, <1>8 DEF vars
<1> QED BY <1>3, <1>4, <1>5, <1>6, <1>7, <1>8 DEF Next, Done

\* A resolution runs with the fact and the link of its parked row.
Payload ==
  \A s \in Sessions : pc[s] # "idle" /\ Resolves(s) =>
    /\ req[s].fact = pending[req[s].pid].fact
    /\ req[s].peer = pending[req[s].pid].peer

\* Payload is inductive: parked rows are never rewritten.
LEMMA StepPayload == WellFormed /\ Payload /\ [Next]_vars => Payload'
<1> SUFFICES ASSUME WellFormed, Payload, [Next]_vars, NEW s \in Sessions,
                    pc'[s] # "idle", Resolves(s)'
             PROVE  /\ req'[s].fact = pending'[req'[s].pid].fact
                    /\ req'[s].peer = pending'[req'[s].pid].peer
  BY DEF Payload
<1>1. ParkStep
  BY NextParkStep
<1>2. ASSUME pc[s] # "idle", req'[s] = req[s]
      PROVE  /\ req'[s].fact = pending'[req'[s].pid].fact
             /\ req'[s].peer = pending'[req'[s].pid].peer
  <2>1. Resolves(s)
    BY <1>2 DEF Resolves
  <2>2. req[s].pid \in PendIds /\ pending[req[s].pid].state # "none"
    BY <1>2, <2>1 DEF Resolves, WellFormed, ReqOK
  <2> QED BY <1>1, <1>2, <2>1, <2>2 DEF Payload, ParkStep
<1>3. CASE Call(s)
  <2>1. CASE \E p \in PendIds : BeginDistinct(s, p)
    BY <2>1 DEF BeginDistinct, Begin, WellFormed, TypeOK
  <2>2. CASE \E p \in PendIds, target \in NodeIds : BeginMerge(s, p, target)
    BY <2>2 DEF BeginMerge, Begin, WellFormed, TypeOK
  <2>3. CASE \E op \in {"write", "import"}, f \in Facts, peer \in LinkPeers :
               BeginWrite(s, op, f, peer)
    BY <2>3 DEF BeginWrite, Begin, WellFormed, TypeOK, Resolves
  <2>4. CASE \E old \in NodeIds, f \in Facts, peer \in LinkPeers :
               BeginSupersede(s, old, f, peer)
    BY <2>4 DEF BeginSupersede, Begin, WellFormed, TypeOK, Resolves
  <2> QED BY <1>3, <2>1, <2>2, <2>3, <2>4 DEF Call
<1>4. CASE Progress(s) \/ Crash(s)
  <2>1. ~Rollback(s) /\ ~Report(s)
    BY DEF Rollback, Report, WellFormed, TypeOK
  <2>2. pc[s] # "idle" /\ req'[s] = req[s]
    BY <1>4, <2>1
       DEF Progress, Crash, Raise, Acquire, SelectCandidates, ReadCanonical,
           JudgeNovelty, CommitInsert, CommitMergeLink, CommitAbsorb,
           CommitPark, CommitReview, Commit
  <2> QED BY <1>2, <2>2
<1>5. ASSUME NEW u \in Sessions, u # s, Call(u) \/ Progress(u) \/ Crash(u)
      PROVE  pc'[s] = pc[s] /\ req'[s] = req[s]
  BY <1>5, Others
<1>6. CASE UNCHANGED <<pc, req>>
  BY <1>2, <1>6
<1> QED
  BY <1>2, <1>3, <1>4, <1>5, <1>6
     DEF Next, Expire, OperatorArchive, Done, vars

\* A resolved row's link is applied in the commit that resolves it.
LEMMA StepParkedLinks ==
  WellFormed /\ Payload /\ ParkedLinksApplied /\ [Next]_vars
    => ParkedLinksApplied'
<1> SUFFICES ASSUME WellFormed, Payload, ParkedLinksApplied, [Next]_vars,
                    NEW p \in PendIds, pending'[p].state = "resolved",
                    pending'[p].peer # NoNode
             PROVE  \E n \in NodeIds : <<n, pending'[p].peer, "link">> \in edges'
  BY DEF ParkedLinksApplied
<1>1. ParkStep
  BY NextParkStep
<1>2. CASE pending[p].state = "resolved"
  <2>1. pending'[p].peer = pending[p].peer /\ edges \subseteq edges'
    BY <1>1, <1>2 DEF ParkStep
  <2> QED BY <1>2, <2>1 DEF ParkedLinksApplied
<1>3. CASE pending[p].state # "resolved"
  <2>1. PICK s \in Sessions : Stores(s) /\ Resolves(s) /\ p = req[s].pid
    BY <1>1, <1>3 DEF ParkStep
  <2>2. pc[s] \in {"banded", "judged"}
    BY <2>1, StoresParkStep
  <2>3. pending[p].state # "none" /\ req[s].peer = pending[p].peer
    BY <2>1, <2>2 DEF Resolves, WellFormed, ReqOK, Payload
  <2>4. pending'[p].peer = req[s].peer
    BY <1>1, <2>3 DEF ParkStep
  <2>5. \E n \in NodeIds : LinkEdges(s, n) \subseteq edges'
    <3>1. CASE CommitAbsorb(s)
      <4>1. found[s].best \in NodeIds
        BY <3>1 DEF CommitAbsorb, WellFormed, FoundOK, Exists
      <4> QED BY <3>1, <4>1 DEF CommitAbsorb
    <3>2. CASE \E n \in NodeIds : CommitInsert(s, n) \/ CommitMergeLink(s, n)
      BY <3>2 DEF CommitInsert, CommitMergeLink, StoreNode
    <3> QED BY <2>1, <3>1, <3>2 DEF Stores
  <2> QED BY <2>4, <2>5 DEF LinkEdges
<1> QED BY <1>2, <1>3

\* The links of a parked write are not lost by the detour through
\* pending_writes (trap 8 in dedup.py): whichever way it is resolved, and
\* whatever crashes meanwhile, the commit that resolves it applies them.
THEOREM ParkedLinksSurvive == Spec => []ParkedLinksApplied
<1>1. Init => Payload /\ ParkedLinksApplied
  BY DEF Init, Payload, ParkedLinksApplied, NoPending
<1> QED
  BY <1>1, InitWellFormed, StepWellFormed, StepPayload, StepParkedLinks, PTL
     DEF Spec
=============================================================================
