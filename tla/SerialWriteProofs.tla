------------------------- MODULE SerialWriteProofs --------------------------
(***************************************************************************)
(* What the advisory lock buys, for every set of sessions, facts and rows: *)
(* the calls that decide under it (write, import, distinct, supersede) are *)
(* serializable and lose no word of a fact they reported as stored.        *)
(*                                                                         *)
(* NoMerge excludes resolve_duplicate's merge, which takes no lock and for *)
(* which none of this holds.  Under it View is inductive: while a session  *)
(* decides, the addenda and the cluster of the row it is about to join are *)
(* those it read, because a row is touched under the lock of its type.     *)
(* From View follow AckedFactsKept, ParkedFactsKept and AddendaGrow.  With *)
(* NoArchive, which excludes the operator's UPDATE outside every lock, the *)
(* candidates stay what they were too (Nearby), and each commit is a step  *)
(* of SerialWrite.                                                         *)
(***************************************************************************)
EXTENDS DedupWriteProofs, SequenceTheorems

NoMerge == "merge" \notin Ops
NoArchive == "archive" \notin Ops

Deciding == {"banded", "row", "judged"}

\* Every call in flight is one of the locked kinds.
Locked == \A s \in Sessions : pc[s] # "idle" => req[s].op # "merge"

\* The candidate a session found has the type it holds the lock of.
BestTyped ==
  \A s \in Sessions : pc[s] \in Deciding /\ found[s].best # NoNode =>
    FType[content[found[s].best]] = LockKey(s)

\* The novelty verdict on the rows as they are.
Verdict(s) == IsNovel(FTokens[req[s].fact], Corpus(found[s].best))

\* What _merge_branch read of the canonical is still so, and its verdict is
\* the one it would reach now.
Judged ==
  \A s \in Sessions :
    /\ pc[s] \in {"row", "judged"} =>
         read[s].addenda = addenda[found[s].best]
    /\ pc[s] = "judged" => read[s].novel = Verdict(s)

Base == WellFormed /\ Exclusive /\ EdgesExist
View == Locked /\ BestTyped /\ Judged

-----------------------------------------------------------------------------
(* What a step of one session does to the rows.                            *)

\* The row a call stores and the edges it gives it, by their type.
LEMMA StoredRow ==
  ASSUME WellFormed, NEW s \in Sessions, NEW n \in NodeIds,
         CommitInsert(s, n) \/ CommitMergeLink(s, n)
  PROVE  \E es :
           /\ status[n] = "none" /\ UNCHANGED addenda
           /\ status' = [m \in NodeIds |->
                IF m = n THEN "active"
                ELSE IF Replaces(s) /\ m = req[s].target THEN "superseded"
                ELSE status[m]]
           /\ content' = [content EXCEPT ![n] = req[s].fact]
           /\ edges' = edges \cup es
           /\ \A m, k : <<m, k, "supersedes">> \in es <=>
                Replaces(s) /\ m = n /\ k = req[s].target
           /\ \A m, k : <<m, k, "same_topic">> \in es <=>
                /\ pc[s] = "judged" /\ m = n /\ k = found[s].best
                /\ RuleExists("same_topic", LockKey(s), FType[content[k]])
<1>1. \A m, k : <<m, k, "supersedes">> \notin LinkEdges(s, n)
             /\ <<m, k, "same_topic">> \notin LinkEdges(s, n)
  BY DEF LinkEdges
<1>2. \A m, k :
        /\ <<m, k, "supersedes">> \in ReplacementEdges(s, n) <=>
             Replaces(s) /\ m = n /\ k = req[s].target
        /\ <<m, k, "same_topic">> \notin ReplacementEdges(s, n)
  BY DEF ReplacementEdges
<1>3. CASE CommitInsert(s, n)
  <2>1. PICK es \in InsertEdges(s, n) :
          StoreNode(s, n, "insert", LinkEdges(s, n) \cup es)
    BY <1>3 DEF CommitInsert
  <2>2. \A m, k : /\ <<m, k, "supersedes">> \in es <=>
                       Replaces(s) /\ m = n /\ k = req[s].target
                  /\ <<m, k, "same_topic">> \notin es
    <3>1. CASE req[s].op = "distinct" /\ NearestActive(s) # {}
      <4>1. PICK c \in NearestActive(s) : es = {<<n, c, "relates_to">>}
        BY <2>1, <3>1 DEF InsertEdges
      <4>2. ~Replaces(s)
        BY <3>1 DEF Replaces
      <4> QED BY <4>1, <4>2
    <3>2. CASE es = ReplacementEdges(s, n)
      BY <1>2, <3>2
    <3> QED BY <2>1, <3>1, <3>2 DEF InsertEdges
  <2>3. pc[s] # "judged"
    BY <1>3 DEF CommitInsert
  <2> DEFINE all == LinkEdges(s, n) \cup es
  <2>4. \A m, k : /\ <<m, k, "supersedes">> \in all <=>
                       Replaces(s) /\ m = n /\ k = req[s].target
                  /\ <<m, k, "same_topic">> \notin all
    BY <1>1, <2>2
  <2>5. StoreNode(s, n, "insert", all)
    BY <2>1
  <2> HIDE DEF all
  <2> QED BY <2>3, <2>4, <2>5 DEF StoreNode
<1>4. CASE CommitMergeLink(s, n)
  <2> DEFINE all == LinkEdges(s, n) \cup ClusterEdges(s, n, found[s].best)
                      \cup ReplacementEdges(s, n)
  <2>1. \A m, k :
          /\ <<m, k, "supersedes">> \notin ClusterEdges(s, n, found[s].best)
          /\ <<m, k, "same_topic">> \in ClusterEdges(s, n, found[s].best) <=>
               /\ m = n /\ k = found[s].best
               /\ RuleExists("same_topic", LockKey(s), FType[content[k]])
    BY DEF ClusterEdges
  <2>2. StoreNode(s, n, "merge_linked", all) /\ pc[s] = "judged"
    BY <1>4 DEF CommitMergeLink
  <2>3. \A m, k :
          /\ <<m, k, "supersedes">> \in all <=>
               Replaces(s) /\ m = n /\ k = req[s].target
          /\ <<m, k, "same_topic">> \in all <=>
               /\ m = n /\ k = found[s].best
               /\ RuleExists("same_topic", LockKey(s), FType[content[k]])
    BY <1>1, <1>2, <2>1
  <2> HIDE DEF all
  <2> QED BY <2>2, <2>3 DEF StoreNode
<1> QED BY <1>3, <1>4

\* What does not store leaves the rows alone.
LEMMA StoresOrNot ==
  ASSUME NEW u \in Sessions, Call(u) \/ Progress(u) \/ Crash(u), ~Stores(u)
  PROVE  UNCHANGED rowVars
BY DEF Stores, Call, BeginWrite, BeginDistinct, BeginMerge, BeginSupersede,
       Begin, Progress, Acquire, SelectCandidates, ReadCanonical, JudgeNovelty,
       CommitPark, CommitReview, Raise, Report, Crash, Rollback, rowVars

\* An absorb adds to one list and no cluster edge.
LEMMA AbsorbedRow ==
  ASSUME WellFormed, NEW s \in Sessions, CommitAbsorb(s)
  PROVE  /\ UNCHANGED <<status, content>>
         /\ found[s].best \in NodeIds /\ Exists(found[s].best)
         /\ \A n \in NodeIds : n # found[s].best => addenda'[n] = addenda[n]
         /\ addenda'[found[s].best] =
              IF Reoccurs(s, found[s].best)
              THEN Append(read[s].addenda, req[s].fact)
              ELSE addenda[found[s].best]
         /\ \A m, k : <<m, k, "same_topic">> \in edges'
                        <=> <<m, k, "same_topic">> \in edges
         /\ \A m, k : <<m, k, "supersedes">> \in edges'
                        <=> <<m, k, "supersedes">> \in edges
<1>1. found[s].best \in NodeIds /\ Exists(found[s].best)
  BY DEF CommitAbsorb, WellFormed, FoundOK, Exists
<1>2. \A m, k : <<m, k, "supersedes">> \notin LinkEdges(s, found[s].best)
             /\ <<m, k, "same_topic">> \notin LinkEdges(s, found[s].best)
  BY DEF LinkEdges
<1> QED BY <1>1, <1>2 DEF CommitAbsorb, WellFormed, TypeOK

\* A row is as it was for those who read it.
SameRow(n) ==
  /\ status'[n] = status[n] /\ addenda'[n] = addenda[n]
  /\ \A m \in NodeIds :
       /\ <<n, m, "same_topic">> \in edges' <=> <<n, m, "same_topic">> \in edges
       /\ <<m, n, "same_topic">> \in edges' <=> <<m, n, "same_topic">> \in edges

\* A session touches the rows of the type it holds the lock of, and no others.
LEMMA Untouched ==
  ASSUME WellFormed, Locked, BestTyped, NEW u \in Sessions,
         Call(u) \/ Progress(u) \/ Crash(u),
         NEW n \in NodeIds, status[n] # "none",
         pc[u] \in Deciding => FType[content[n]] # LockKey(u)
  PROVE  SameRow(n)
<1>1. CASE ~Stores(u)
  BY <1>1, StoresOrNot DEF rowVars, SameRow
<1>2. CASE CommitAbsorb(u)
  <2>1. pc[u] = "judged"
    BY <1>2 DEF CommitAbsorb
  <2>2. found[u].best # n
    BY <2>1, <1>2, AbsorbedRow, NullAssumption DEF Deciding, BestTyped
  <2> QED BY <1>2, <2>2, AbsorbedRow DEF SameRow
<1>3. ASSUME NEW x \in NodeIds, CommitInsert(u, x) \/ CommitMergeLink(u, x)
      PROVE  SameRow(n)
  <2>1. PICK es :
          /\ status[x] = "none" /\ UNCHANGED addenda
          /\ status' = [m \in NodeIds |->
               IF m = x THEN "active"
               ELSE IF Replaces(u) /\ m = req[u].target THEN "superseded"
               ELSE status[m]]
          /\ edges' = edges \cup es
          /\ \A m, k : <<m, k, "same_topic">> \in es <=>
               /\ pc[u] = "judged" /\ m = x /\ k = found[u].best
               /\ RuleExists("same_topic", LockKey(u), FType[content[k]])
    BY <1>3, StoredRow
  <2>2. pc[u] \in {"banded", "judged"} /\ n # x
    BY <1>3, <2>1 DEF CommitInsert, CommitMergeLink
  <2>3. ~(Replaces(u) /\ n = req[u].target)
    BY <2>2 DEF Replaces, LockKey, Deciding
  <2>4. pc[u] = "judged" => found[u].best # n
    BY NullAssumption DEF Deciding, BestTyped
  <2>5. \A m : <<n, m, "same_topic">> \notin es /\ <<m, n, "same_topic">> \notin es
    BY <2>1, <2>2, <2>4
  <2>6. status'[n] = status[n]
    BY <2>1, <2>2, <2>3
  <2> QED BY <2>1, <2>5, <2>6 DEF SameRow
<1> QED BY <1>1, <1>2, <1>3 DEF Stores

-----------------------------------------------------------------------------
(* View is inductive.                                                      *)

\* A session that decides after its own step has just read something.
LEMMA OwnDecision ==
  ASSUME WellFormed, NoMerge, NEW s \in Sessions,
         Call(s) \/ Progress(s) \/ Crash(s), pc'[s] \in Deciding
  PROVE  SelectCandidates(s) \/ ReadCanonical(s) \/ JudgeNovelty(s)
<1> USE DEF WellFormed, TypeOK, Deciding
<1>1. ~Call(s)
  <2>1. \A p \in PendIds, target \in NodeIds : ~BeginMerge(s, p, target)
    BY DEF BeginMerge, Begin, NoMerge
  <2> QED
    BY <2>1 DEF Call, BeginWrite, BeginDistinct, BeginSupersede, Begin
<1>2. ~Rollback(s) /\ ~Report(s) /\ ~Acquire(s)
  BY DEF Rollback, Report, Acquire
<1>3. \A o : ~Commit(s, o)
  BY DEF Commit
<1> QED
  BY <1>1, <1>2, <1>3
     DEF Progress, Crash, Raise, CommitInsert, CommitMergeLink, CommitAbsorb,
         CommitPark, CommitReview

\* What a session has read changes by its own steps only.
LEMMA OthersRead ==
  ASSUME WellFormed, NEW u \in Sessions, Call(u) \/ Progress(u) \/ Crash(u),
         NEW s \in Sessions, s # u
  PROVE  read'[s] = read[s]
BY DEF WellFormed, TypeOK, Call, BeginWrite, BeginDistinct, BeginMerge,
       BeginSupersede, Begin, Progress, Acquire, SelectCandidates,
       ReadCanonical, JudgeNovelty, CommitInsert, CommitMergeLink,
       CommitAbsorb, CommitPark, CommitReview, Commit, Raise, Report, Crash,
       Rollback

\* Without merge no call in flight is one.
LEMMA StepLocked == NoMerge /\ WellFormed /\ Locked /\ [Next]_vars => Locked'
<1> SUFFICES ASSUME NoMerge, WellFormed, Locked, [Next]_vars,
                    NEW s \in Sessions, pc'[s] # "idle"
             PROVE  req'[s].op # "merge"
  BY DEF Locked
<1>1. CASE Call(s)
  BY <1>1 DEF NoMerge, WellFormed, TypeOK, Call, BeginWrite, BeginDistinct,
              BeginMerge, BeginSupersede, Begin
<1>2. CASE Progress(s) \/ Crash(s)
  BY <1>2 DEF WellFormed, TypeOK, Locked, Progress, Acquire, SelectCandidates,
              ReadCanonical, JudgeNovelty, CommitInsert, CommitMergeLink,
              CommitAbsorb, CommitPark, CommitReview, Commit, Raise, Report,
              Crash, Rollback
<1>3. ASSUME NEW u \in Sessions, u # s, Call(u) \/ Progress(u) \/ Crash(u)
      PROVE  pc'[s] = pc[s] /\ req'[s] = req[s]
  BY <1>3, Others
<1>4. CASE UNCHANGED <<pc, req>>
  BY <1>4 DEF Locked
<1> QED
  BY <1>1, <1>2, <1>3, <1>4
     DEF Locked, Next, Expire, OperatorArchive, Done, vars

\* Two sessions that decide hold the locks of different types.
LEMMA DifferentKeys ==
  ASSUME Exclusive, Locked, NEW s \in Sessions, NEW u \in Sessions, s # u,
         pc[s] \in Deciding, pc[u] \in Deciding
  PROVE  LockKey(s) # LockKey(u)
BY DEF Exclusive, Holding, Locked, Deciding

\* What s found is still what it found, while it keeps deciding.
LEMMA DecidingView ==
  ASSUME WellFormed, RowStep, NEW s \in Sessions, pc[s] \in Deciding,
         req'[s] = req[s], found'[s] = found[s]
  PROVE  /\ LockKey(s)' = LockKey(s) /\ Band(s)' = Band(s)
         /\ Similarity(s)' = Similarity(s) /\ Exclude(s)' = Exclude(s)
         /\ found[s].best # NoNode =>
              /\ Exists(found[s].best)
              /\ content'[found[s].best] = content[found[s].best]
<1> USE DEF WellFormed, Deciding
<1>1. found[s].best # NoNode =>
        /\ Exists(found[s].best)
        /\ content'[found[s].best] = content[found[s].best]
  BY DEF FoundOK, Exists, RowStep
<1>2. req[s].op = "supersede"
        => content'[req[s].target] = content[req[s].target]
  BY DEF ReqOK, Exists, RowStep
<1>3. Similarity(s)' = Similarity(s) /\ Exclude(s)' = Exclude(s)
  BY <1>1, <1>2 DEF Similarity, Exclude, Replaces
<1> QED BY <1>1, <1>3 DEF LockKey, Band

\* How s comes to decide after a step: it kept deciding, or it just read.
LEMMA DecidesAfter ==
  ASSUME WellFormed, Exclusive, Locked, BestTyped, NoMerge, [Next]_vars,
         NEW s \in Sessions, pc'[s] \in Deciding
  PROVE  \/ SelectCandidates(s) \/ ReadCanonical(s) \/ JudgeNovelty(s)
         \/ /\ pc[s] = pc'[s] /\ req'[s] = req[s] /\ found'[s] = found[s]
            /\ read'[s] = read[s]
            /\ \/ \E n \in NodeIds : OperatorArchive(n)
               \/ \A n \in NodeIds :
                    status[n] # "none" /\ FType[content[n]] = LockKey(s)
                      => SameRow(n)
<1>1. ASSUME NEW u \in Sessions, u # s, Call(u) \/ Progress(u) \/ Crash(u)
      PROVE  /\ pc[s] = pc'[s] /\ req'[s] = req[s] /\ found'[s] = found[s]
             /\ read'[s] = read[s]
             /\ \A n \in NodeIds :
                  status[n] # "none" /\ FType[content[n]] = LockKey(s)
                    => SameRow(n)
  <2>1. /\ pc[s] = pc'[s] /\ req'[s] = req[s] /\ found'[s] = found[s]
        /\ read'[s] = read[s]
    BY <1>1, Others, OthersRead
  <2>2. pc[u] \in Deciding => LockKey(s) # LockKey(u)
    BY <1>1, <2>1, DifferentKeys
  <2>3. ASSUME NEW n \in NodeIds, status[n] # "none",
               FType[content[n]] = LockKey(s)
        PROVE  SameRow(n)
    BY <1>1, <2>2, <2>3, Untouched
  <2> QED BY <2>1, <2>3
<1>2. CASE UNCHANGED <<rowVars, pc, req, found, read>>
  BY <1>2 DEF rowVars, SameRow
<1>3. ASSUME NEW p \in PendIds, Expire(p)
      PROVE  UNCHANGED <<rowVars, pc, req, found, read>>
  BY <1>3 DEF Expire, rowVars
<1>4. ASSUME NEW n \in NodeIds, OperatorArchive(n)
      PROVE  UNCHANGED <<pc, req, found, read>>
  BY <1>4 DEF OperatorArchive
<1>5. CASE UNCHANGED vars
  BY <1>2, <1>5 DEF vars, rowVars
<1>6. CASE \E u \in Sessions : Call(u) \/ Progress(u) \/ Crash(u)
  <2>1. CASE Call(s) \/ Progress(s) \/ Crash(s)
    BY <2>1, OwnDecision
  <2> QED BY <1>1, <1>6, <2>1
<1>7. CASE \E n \in NodeIds : OperatorArchive(n)
  BY <1>4, <1>7
<1> QED BY <1>2, <1>3, <1>5, <1>6, <1>7 DEF Next, Done

\* A cluster whose edges and addenda stay keeps its words.
LEMMA SameCorpus ==
  ASSUME WellFormed, EdgesExist, RowStep, NEW n \in NodeIds,
         status[n] # "none", addenda'[n] = addenda[n],
         \A m \in NodeIds :
           /\ <<n, m, "same_topic">> \in edges' <=>
                <<n, m, "same_topic">> \in edges
           /\ <<m, n, "same_topic">> \in edges' <=>
                <<m, n, "same_topic">> \in edges
  PROVE  Corpus(n)' = Corpus(n)
<1>1. Peers(n)' = Peers(n)
  BY DEF Peers
<1>2. \A m \in Peers(n) : content'[m] = content[m]
  BY DEF Peers, EdgesExist, Exists, RowStep
<1>3. content'[n] = content[n]
  BY DEF RowStep
<1>4. {FTokens[content'[m]] : m \in Peers(n)'}
        = {FTokens[content[m]] : m \in Peers(n)}
  BY <1>1, <1>2
<1>5. AddendaTokens(addenda'[n]) = AddendaTokens(addenda[n])
  OBVIOUS
<1> QED BY <1>3, <1>4, <1>5 DEF Corpus, CorpusOf

\* The canonical of a locked call keeps its type, and what was read of it.
LEMMA StepView ==
  NoMerge /\ Base /\ View /\ [Next]_vars => View'
<1> SUFFICES ASSUME NoMerge, Base, View, [Next]_vars
             PROVE  BestTyped' /\ Judged'
  BY StepLocked DEF Base, View
<1> USE DEF Base, View
<1>1. RowStep
  BY NextRowStep
<1>2. ASSUME NEW s \in Sessions, pc'[s] \in Deciding
      PROVE  /\ found'[s].best # NoNode =>
                  FType[content'[found'[s].best]] = LockKey(s)'
             /\ pc'[s] \in {"row", "judged"} =>
                  read'[s].addenda = addenda'[found'[s].best]
             /\ pc'[s] = "judged" => read'[s].novel = Verdict(s)'
  <2>1. CASE SelectCandidates(s)
    <3>1. PICK C \in SUBSET Candidates(req[s].fact, Exclude(s)),
               b \in NodeIds \cup {NoNode} :
            /\ IsBest(b, C, req[s].fact)
            /\ found' = [found EXCEPT ![s] = [best |-> b, cands |-> C]]
      BY <2>1 DEF SelectCandidates
    <3>2. found'[s].best = b /\ pc'[s] = "banded"
      BY <2>1, <3>1 DEF SelectCandidates, WellFormed, TypeOK
    <3>3. UNCHANGED <<content, req>>
      BY <2>1 DEF SelectCandidates, rowVars
    <3>4. b # NoNode => FType[content[b]] = LockKey(s)
      BY <3>1 DEF IsBest, Candidates, LockKey
    <3> QED BY <3>2, <3>3, <3>4 DEF LockKey
  <2>2. CASE ReadCanonical(s)
    <3>1. /\ UNCHANGED <<content, addenda, req, found>> /\ pc[s] = "banded"
          /\ pc'[s] = "row" /\ read'[s].addenda = addenda[found[s].best]
      BY <2>2 DEF ReadCanonical, rowVars, WellFormed, TypeOK
    <3> QED BY <3>1 DEF BestTyped, LockKey, Deciding
  <2>3. CASE JudgeNovelty(s)
    <3>1. /\ UNCHANGED rowVars /\ UNCHANGED <<req, found>>
          /\ pc[s] = "row" /\ pc'[s] = "judged"
          /\ read'[s].addenda = read[s].addenda
          /\ read'[s].novel = IsNovel(FTokens[req[s].fact],
                                CorpusOf(found[s].best, read[s].addenda))
      BY <2>3 DEF JudgeNovelty, WellFormed, TypeOK
    <3>2. read[s].addenda = addenda[found[s].best]
      BY <3>1 DEF Judged
    <3>3. Verdict(s)' = Verdict(s)
      BY <3>1 DEF rowVars, Verdict, Corpus, CorpusOf, Peers
    <3>4. read'[s].novel = Verdict(s)
      BY <3>1, <3>2 DEF Verdict, Corpus
    <3> QED
      BY <3>1, <3>2, <3>3, <3>4 DEF BestTyped, LockKey, Deciding, rowVars
  <2>4. CASE /\ pc[s] = pc'[s] /\ req'[s] = req[s] /\ found'[s] = found[s]
             /\ read'[s] = read[s]
             /\ \/ \E n \in NodeIds : OperatorArchive(n)
                \/ \A n \in NodeIds :
                     status[n] # "none" /\ FType[content[n]] = LockKey(s)
                       => SameRow(n)
    <3> DEFINE b == found[s].best
    <3>1. /\ LockKey(s)' = LockKey(s)
          /\ b # NoNode => Exists(b) /\ content'[b] = content[b]
      BY <1>1, <1>2, <2>4, DecidingView
    <3>2. pc[s] \in {"row", "judged"} => b # NoNode
      BY DEF WellFormed, FoundOK
    <3>3. CASE b = NoNode
      BY <2>4, <3>2, <3>3
    <3>4. CASE b # NoNode
      <4>1. Exists(b) /\ FType[content[b]] = LockKey(s)
        BY <1>2, <2>4, <3>1, <3>4 DEF BestTyped
      <4>2. /\ addenda'[b] = addenda[b]
            /\ \A m \in NodeIds :
                 /\ <<b, m, "same_topic">> \in edges' <=>
                      <<b, m, "same_topic">> \in edges
                 /\ <<m, b, "same_topic">> \in edges' <=>
                      <<m, b, "same_topic">> \in edges
        BY <2>4, <4>1 DEF SameRow, OperatorArchive, Exists
      <4>3. Verdict(s)' = Verdict(s)
        <5>1. PICK n \in NodeIds : n = b
          BY <4>1 DEF Exists
        <5>2. Corpus(n)' = Corpus(n)
          BY <1>1, <4>1, <4>2, <5>1, SameCorpus DEF Exists
        <5>3. found'[s].best = n /\ found[s].best = n
          BY <2>4, <5>1
        <5> QED BY <2>4, <5>2, <5>3 DEF Verdict
      <4>4. FType[content'[found'[s].best]] = LockKey(s)'
        BY <2>4, <3>1, <3>4, <4>1
      <4>5. pc'[s] \in {"row", "judged"} =>
              read'[s].addenda = addenda'[found'[s].best]
        BY <2>4, <4>2 DEF Judged
      <4>6. pc'[s] = "judged" => read'[s].novel = Verdict(s)'
        BY <2>4, <4>3 DEF Judged
      <4> QED BY <4>4, <4>5, <4>6
    <3> QED BY <3>3, <3>4
  <2> QED BY <1>2, <2>1, <2>2, <2>3, <2>4, DecidesAfter
<1>3. BestTyped'
  BY <1>2 DEF BestTyped
<1>4. Judged'
  BY <1>2 DEF Judged, Deciding
<1> QED BY <1>3, <1>4

-----------------------------------------------------------------------------
(* No word is lost.                                                        *)

Family(g, I) == UNION {g[i] : i \in I}

\* A union over a finite index set of finite sets is finite.
LEMMA FamilyFinite ==
  ASSUME NEW I, IsFiniteSet(I), NEW g, g = [i \in I |-> g[i]],
         \A i \in I : IsFiniteSet(g[i])
  PROVE  IsFiniteSet(Family(g, I))
<1> DEFINE T == {g[i] : i \in I}
<1>1. g \in Surjection(I, T)
  BY DEF Surjection
<1>2. IsFiniteSet(T)
  BY <1>1, FS_Surjection
<1>3. \A t \in T : IsFiniteSet(t)
  OBVIOUS
<1> HIDE DEF T
<1>4. IsFiniteSet(UNION T)
  BY <1>2, <1>3, FS_UNION
<1> QED BY <1>4 DEF T, Family

\* The words of addenda are finitely many.
LEMMA AddendaFinite ==
  ASSUME NEW as \in Seq(Facts)
  PROVE  IsFiniteSet(AddendaTokens(as))
<1> DEFINE g == [i \in 1..Len(as) |-> FTokens[as[i]]]
<1>1. Len(as) \in Nat
  BY LenProperties, Zenon
<1>2. IsFiniteSet(1..Len(as))
  <2>1. \A k \in Nat : IsFiniteSet(1..k)
    BY FS_Interval
  <2> QED BY <1>1, <2>1, Zenon
<1>3. \A i \in 1..Len(as) : as[i] \in Facts
  BY ElementOfSeq, Zenon
<1>4. \A i \in 1..Len(as) : IsFiniteSet(g[i])
  BY <1>3, FactAssumption
<1>5. g = [i \in 1..Len(as) |-> g[i]]
  OBVIOUS
<1>6. AddendaTokens(as) = UNION {g[i] : i \in 1..Len(as)}
  BY DEF AddendaTokens
<1> DEFINE I == 1..Len(as)
<1>7. IsFiniteSet(I) /\ g = [i \in I |-> g[i]]
        /\ \A i \in I : IsFiniteSet(g[i])
  BY <1>2, <1>4, <1>5
<1> HIDE DEF g, I
<1>8. IsFiniteSet(Family(g, I))
  BY <1>7, FamilyFinite
<1> QED BY <1>6, <1>8 DEF I, Family

\* So are those of a cluster.
LEMMA CorpusFinite ==
  ASSUME WellFormed, EdgesExist, NEW n \in NodeIds, status[n] # "none"
  PROVE  IsFiniteSet(Corpus(n))
<1> DEFINE g == [m \in Peers(n) |-> FTokens[content[m]]]
<1>1. IsFiniteSet(Peers(n))
  <2>1. Peers(n) \in SUBSET NodeIds
    BY DEF Peers
  <2> QED BY <2>1, FS_Subset, BoundAssumption
<1>2. \A m \in Peers(n) : content[m] \in Facts
  BY DEF Peers, EdgesExist, Exists, WellFormed, RowsOK
<1>3. \A m \in Peers(n) : IsFiniteSet(g[m])
  BY <1>2, FactAssumption
<1>4. g = [m \in Peers(n) |-> g[m]]
  OBVIOUS
<1>5. UNION {FTokens[content[m]] : m \in Peers(n)}
        = UNION {g[m] : m \in Peers(n)}
  OBVIOUS
<1> DEFINE I == Peers(n)
<1>9. IsFiniteSet(I) /\ g = [m \in I |-> g[m]]
        /\ \A m \in I : IsFiniteSet(g[m])
  BY <1>1, <1>3, <1>4
<1> HIDE DEF g, I
<1>10. IsFiniteSet(Family(g, I))
  BY <1>9, FamilyFinite
<1>6. IsFiniteSet(UNION {FTokens[content[m]] : m \in Peers(n)})
  BY <1>5, <1>10 DEF I, Family
<1>7. IsFiniteSet(AddendaTokens(addenda[n]))
  BY AddendaFinite DEF WellFormed, TypeOK
<1>8. IsFiniteSet(FTokens[content[n]])
  BY FactAssumption DEF WellFormed, RowsOK
<1> QED BY <1>6, <1>7, <1>8, FS_Union DEF Corpus, CorpusOf

\* Set C holds four fifths of the words of fact f.
Covered(f, C) ==
  10 * Cardinality(FTokens[f] \cap C) >= 8 * Cardinality(FTokens[f])

\* What is not novel against a finite corpus is covered by it (is_novel).
LEMMA NotNovelCovered ==
  ASSUME NEW f \in Facts, NEW C, IsFiniteSet(C), ~IsNovel(FTokens[f], C)
  PROVE  Covered(f, C)
<1> DEFINE a == FTokens[f]
<1>1. IsFiniteSet(a) /\ IsFiniteSet(a \cup C)
  BY FactAssumption, FS_Union
<1>2. /\ Cardinality(a) \in Nat /\ Cardinality(a \cup C) \in Nat
      /\ Cardinality(a) <= Cardinality(a \cup C)
  <2>1. a \in SUBSET (a \cup C) OBVIOUS
  <2> HIDE DEF a
  <2> QED BY <1>1, <2>1, FS_Subset, FS_CardinalityType
<1>3. IsFiniteSet(a \cap C) /\ Cardinality(a \cap C) \in Nat
  BY <1>1, FS_Intersection, FS_CardinalityType
<1>4. CASE a \cup C = {}
  <2>1. Cardinality(a) = 0
    BY <1>4, FS_EmptySet
  <2> HIDE DEF a
  <2> QED BY <1>3, <2>1 DEF Covered, a
<1>5. CASE ~(10 * Cardinality(a \cap C) < 8 * Cardinality(a \cup C))
  <2> HIDE DEF a
  <2>1. 10 * Cardinality(a \cap C) >= 8 * Cardinality(a)
    BY <1>2, <1>3, <1>5
  <2> QED BY <2>1 DEF Covered, a
<1> QED BY <1>4, <1>5 DEF IsNovel

\* Coverage stays when the corpus grows, and a fact covers itself.
LEMMA CoveredMore ==
  ASSUME NEW f \in Facts, NEW C, NEW D,
         (Covered(f, C) /\ C \subseteq D) \/ FTokens[f] \subseteq D
  PROVE  Covered(f, D)
<1> DEFINE a == FTokens[f]
<1>1. IsFiniteSet(a) /\ IsFiniteSet(a \cap D)
  BY FactAssumption, FS_Intersection
<1>2. /\ Cardinality(a) \in Nat /\ Cardinality(a \cap D) \in Nat
      /\ Cardinality(a \cap C) \in Nat
  BY <1>1, FS_Intersection, FS_CardinalityType
<1>3. CASE Covered(f, C) /\ C \subseteq D
  <2>1. a \cap C \in SUBSET (a \cap D)
    BY <1>3
  <2>2. Cardinality(a \cap C) <= Cardinality(a \cap D)
    BY <1>1, <2>1, FS_Subset
  <2>3. 10 * Cardinality(a \cap C) >= 8 * Cardinality(a)
    BY <1>3 DEF Covered
  <2> HIDE DEF a
  <2>4. 10 * Cardinality(a \cap D) >= 8 * Cardinality(a)
    BY <1>2, <2>2, <2>3
  <2> QED BY <2>4 DEF Covered, a
<1>4. CASE a \subseteq D
  <2>1. a \cap D = a
    BY <1>4
  <2> HIDE DEF a
  <2>2. 10 * Cardinality(a) >= 8 * Cardinality(a)
    BY <1>2
  <2> QED BY <2>1, <2>2 DEF Covered, a
<1> QED BY <1>3, <1>4

\* A list is kept, or extended by the fact of the absorb that commits.
LEMMA StepAddenda ==
  ASSUME WellFormed, View, [Next]_vars, NEW n \in NodeIds
  PROVE  \/ addenda'[n] = addenda[n]
         \/ \E s \in Sessions : /\ CommitAbsorb(s) /\ n = found[s].best
                                /\ req[s].fact \in Facts
                                /\ addenda'[n] = Append(addenda[n], req[s].fact)
<1>1. ASSUME NEW s \in Sessions, CommitAbsorb(s)
      PROVE  \/ addenda'[n] = addenda[n]
             \/ /\ n = found[s].best /\ req[s].fact \in Facts
                /\ addenda'[n] = Append(addenda[n], req[s].fact)
  <2>1. req[s].fact \in Facts /\ read[s].addenda = addenda[found[s].best]
    BY <1>1 DEF CommitAbsorb, View, Judged, WellFormed, ReqOK
  <2>2. CASE n = found[s].best /\ Reoccurs(s, n)
    BY <1>1, <2>1, <2>2, AbsorbedRow, Zenon
  <2>3. CASE ~(n = found[s].best /\ Reoccurs(s, n))
    BY <1>1, <2>3, AbsorbedRow, Zenon
  <2> QED BY <2>2, <2>3
<1>2. ASSUME NEW s \in Sessions, NEW m \in NodeIds,
             CommitInsert(s, m) \/ CommitMergeLink(s, m)
      PROVE  UNCHANGED addenda
  BY <1>2 DEF CommitInsert, CommitMergeLink, StoreNode
<1>3. ASSUME NEW s \in Sessions, Call(s) \/ Progress(s) \/ Crash(s), ~Stores(s)
      PROVE  UNCHANGED addenda
  BY <1>3, StoresOrNot DEF rowVars
<1> QED
  BY <1>1, <1>2, <1>3
     DEF Next, Stores, Expire, OperatorArchive, Done, vars, rowVars

\* One more addendum adds its words.
LEMMA AppendTokens ==
  ASSUME NEW as \in Seq(Facts), NEW f \in Facts
  PROVE  AddendaTokens(as) \subseteq AddendaTokens(Append(as, f))
<1>1. Len(as) \in Nat
  BY LenProperties, Zenon
<1>2. Len(Append(as, f)) = Len(as) + 1
  BY AppendProperties, Zenon
<1>3. \A i \in 1..Len(as) : Append(as, f)[i] = as[i]
  BY <1>1
<1>4. 1..Len(as) \subseteq 1..(Len(as) + 1)
  <2>1. \A k \in Nat : 1..k \subseteq 1..(k + 1)
    OBVIOUS
  <2> QED BY <1>1, <2>1, Zenon
<1> QED BY <1>2, <1>3, <1>4, Zenon DEF AddendaTokens

\* The words of a cluster are only ever added to.
LEMMA CorpusGrows ==
  ASSUME WellFormed, EdgesExist, View, [Next]_vars, NEW n \in NodeIds,
         status[n] # "none"
  PROVE  Corpus(n) \subseteq Corpus(n)'
<1>1. RowStep /\ ParkStep
  BY NextRowStep, NextParkStep
<1>2. Peers(n) \subseteq Peers(n)'
  BY <1>1 DEF Peers, ParkStep
<1>3. \A m \in Peers(n) : content'[m] = content[m]
  BY <1>1 DEF Peers, EdgesExist, Exists, RowStep
<1>4. content'[n] = content[n]
  BY <1>1 DEF RowStep
<1>5. AddendaTokens(addenda[n]) \subseteq AddendaTokens(addenda'[n])
  <2>1. addenda[n] \in Seq(Facts)
    BY DEF WellFormed, TypeOK
  <2> QED BY <2>1, StepAddenda, AppendTokens
<1>6. UNION {FTokens[content[m]] : m \in Peers(n)}
        \subseteq UNION {FTokens[content'[m]] : m \in Peers(n)'}
  BY <1>2, <1>3
<1> QED BY <1>4, <1>5, <1>6 DEF Corpus, CorpusOf

\* KeptSomewhere is stable.
LEMMA KeptStays ==
  ASSUME WellFormed, EdgesExist, View, [Next]_vars, NEW f \in Facts,
         KeptSomewhere(f)
  PROVE  KeptSomewhere(f)'
<1>1. PICK n \in NodeIds : status[n] # "none" /\ Covered(f, Corpus(n))
  BY DEF KeptSomewhere, Covered
<1>2. Corpus(n) \subseteq Corpus(n)'
  BY <1>1, CorpusGrows
<1>3. Covered(f, Corpus(n)')
  BY <1>1, <1>2, CoveredMore
<1>4. status'[n] # "none"
  BY <1>1, NextRowStep DEF RowStep
<1> QED BY <1>3, <1>4 DEF KeptSomewhere, Covered

\* The commit that stores a fact leaves a cluster that covers it: its own row,
\* or the canonical that was judged to have its words.
LEMMA StoredKept ==
  ASSUME WellFormed, EdgesExist, View, [Next]_vars, NEW s \in Sessions, Stores(s)
  PROVE  KeptSomewhere(req[s].fact)'
<1> DEFINE f == req[s].fact
<1>1. f \in Facts /\ req'[s] = req[s]
  BY DEF Stores, CommitInsert, CommitMergeLink, CommitAbsorb, Commit,
         WellFormed, ReqOK
<1>2. PICK g \in Facts : g = f
  BY <1>1
<1>3. CASE CommitAbsorb(s)
  <2>1. /\ found[s].best \in NodeIds /\ Exists(found[s].best)
        /\ ~IsNovel(FTokens[f], Corpus(found[s].best))
    BY <1>3, AbsorbedRow DEF CommitAbsorb, View, Judged, Verdict
  <2>2. PICK n \in NodeIds : n = found[s].best
    BY <2>1
  <2>3. status[n] # "none" /\ ~IsNovel(FTokens[g], Corpus(n))
    BY <1>2, <2>1, <2>2 DEF Exists
  <2>4. Covered(g, Corpus(n))
    BY <2>3, CorpusFinite, NotNovelCovered
  <2>5. KeptSomewhere(g)
    BY <2>3, <2>4 DEF KeptSomewhere, Covered
  <2>6. KeptSomewhere(g)'
    BY <2>5, KeptStays
  <2> QED BY <1>1, <1>2, <2>6
<1>4. ASSUME NEW n \in NodeIds, CommitInsert(s, n) \/ CommitMergeLink(s, n)
      PROVE  KeptSomewhere(req[s].fact)'
  <2>1. status'[n] = "active" /\ content'[n] = g
    BY <1>2, <1>4, StoredRow DEF WellFormed, TypeOK
  <2>2. FTokens[g] \subseteq Corpus(n)'
    BY <2>1 DEF Corpus, CorpusOf
  <2>3. Covered(g, Corpus(n)')
    BY <2>2, CoveredMore
  <2>4. KeptSomewhere(g)'
    BY <2>1, <2>3 DEF KeptSomewhere, Covered
  <2> QED BY <1>1, <1>2, <2>4
<1> QED BY <1>3, <1>4 DEF Stores

\* Nothing acknowledged is lost in a step.
LEMMA StepAckedKept ==
  WellFormed /\ EdgesExist /\ View /\ AckedFactsKept /\ [Next]_vars
    => AckedFactsKept'
<1> SUFFICES ASSUME WellFormed, EdgesExist, View, AckedFactsKept, [Next]_vars,
                    NEW f \in acked'
             PROVE  KeptSomewhere(f)'
  BY DEF AckedFactsKept
<1>1. CASE f \in acked
  <2>1. f \in Facts /\ KeptSomewhere(f)
    BY <1>1 DEF AckedFactsKept, WellFormed, TypeOK
  <2> QED BY <2>1, KeptStays
<1>2. CASE f \notin acked
  <2>1. PICK s \in Sessions : Stores(s) /\ f = req[s].fact
    BY <1>2, NextParkStep DEF ParkStep
  <2>2. req'[s] = req[s]
    BY <2>1 DEF Stores, CommitInsert, CommitMergeLink, CommitAbsorb, Commit
  <2>3. KeptSomewhere(req[s].fact)'
    BY <2>1, StoredKept
  <2> QED BY <2>1, <2>2, <2>3
<1> QED BY <1>1, <1>2

\* A parked row leaves with its fact acknowledged.
ResolvedAcked ==
  \A p \in PendIds : pending[p].state = "resolved" => pending[p].fact \in acked

\* ResolvedAcked is inductive.
LEMMA StepResolvedAcked ==
  WellFormed /\ Payload /\ ResolvedAcked /\ [Next]_vars => ResolvedAcked'
<1> SUFFICES ASSUME WellFormed, Payload, ResolvedAcked, [Next]_vars,
                    NEW p \in PendIds, pending'[p].state = "resolved"
             PROVE  pending'[p].fact \in acked'
  BY DEF ResolvedAcked
<1>1. ParkStep
  BY NextParkStep
<1>2. CASE pending[p].state = "resolved"
  BY <1>1, <1>2 DEF ParkStep, ResolvedAcked
<1>3. CASE pending[p].state # "resolved"
  <2>1. PICK s \in Sessions : Stores(s) /\ Resolves(s) /\ p = req[s].pid
    BY <1>1, <1>3 DEF ParkStep
  <2>2. pc[s] \in {"banded", "judged"} /\ Stored(s)
    BY <2>1, StoresParkStep
  <2>3. pending[p].state # "none" /\ req[s].fact = pending[p].fact
    BY <2>1, <2>2 DEF Resolves, WellFormed, ReqOK, Payload
  <2> QED BY <1>1, <2>2, <2>3 DEF ParkStep, Stored
<1> QED BY <1>2, <1>3

\* Everything the theorems below rest on.
Inv == Base /\ SupersedeAtomic /\ View /\ Payload /\ ResolvedAcked
         /\ AckedFactsKept

\* The empty space satisfies it ...
LEMMA InitInv == Init => Inv
<1>1. Init => Payload /\ ResolvedAcked /\ AckedFactsKept
  BY DEF Init, Payload, ResolvedAcked, AckedFactsKept, NoPending
<1>2. Init => View
  BY DEF Init, View, Locked, BestTyped, Judged, Deciding
<1>3. Init => Exclusive /\ EdgesExist /\ SupersedeAtomic
  BY DEF Init, Exclusive, Holding, EdgesExist, SupersedeAtomic
<1> QED BY <1>1, <1>2, <1>3, InitWellFormed DEF Inv, Base

\* ... and every step of locked calls keeps it.
LEMMA StepInv == NoMerge /\ Inv /\ [Next]_vars => Inv'
BY StepWellFormed, StepExclusive, StepAtomic, StepView, StepPayload,
   StepResolvedAcked, StepAckedKept
   DEF Inv, Base

\* I1 of the write path: a fact that a locked call reported as stored stays
\* represented, in its own row or in the cluster that absorbed it, whatever
\* the other sessions do and wherever they crash.
THEOREM AckedStayKept == NoMerge => (Spec => []AckedFactsKept)
<1> SUFFICES ASSUME NoMerge PROVE Spec => []AckedFactsKept
  OBVIOUS
<1>1. Inv /\ [Next]_vars => Inv'
  BY StepInv
<1>2. Inv => AckedFactsKept
  BY DEF Inv
<1> QED BY <1>1, <1>2, InitInv, PTL DEF Spec

\* A parked payload is never dropped: it leaves pending_writes only in the
\* commit that stores its fact, or expires.
THEOREM ParkedStayKept == NoMerge => (Spec => []ParkedFactsKept)
<1> SUFFICES ASSUME NoMerge PROVE Spec => []ParkedFactsKept
  OBVIOUS
<1>1. Inv /\ [Next]_vars => Inv'
  BY StepInv
<1>2. Inv => ParkedFactsKept
  BY DEF Inv, ResolvedAcked, AckedFactsKept, ParkedFactsKept
<1> QED BY <1>1, <1>2, InitInv, PTL DEF Spec

-----------------------------------------------------------------------------
(* The occurrence log.                                                     *)

\* A list extended by one entry begins with what it was.
LEMMA AppendPrefix ==
  ASSUME NEW as \in Seq(Facts), NEW f \in Facts
  PROVE  /\ Len(Append(as, f)) = Len(as) + 1 /\ Len(as) \in Nat
         /\ SubSeq(Append(as, f), 1, Len(as)) = as
<1> DEFINE k == Len(as)
           bs == Append(as, f)
<1>1. k \in Nat
  BY LenProperties, Zenon
<1>2. Len(bs) = k + 1 /\ bs \in Seq(Facts)
  BY AppendProperties, Zenon
<1>3. \A i \in 1..k : bs[i] = as[i]
  BY <1>1
<1>4. \A i \in 1..k : as[i] \in Facts
  BY ElementOfSeq, Zenon
<1>5. 1 \in Int /\ k \in Int
  BY <1>1
<1>6. \A i \in 1..k : bs[i] \in Facts
  BY <1>3, <1>4, Zenon
<1> DEFINE cs == SubSeq(bs, 1, k)
<1> HIDE DEF bs, k
<1>7. /\ cs \in Seq(Facts)
      /\ Len(cs) = IF 1 <= k THEN k - 1 + 1 ELSE 0
      /\ \A i \in 1..k - 1 + 1 : cs[i] = bs[1 + i - 1]
  BY <1>5, <1>6, SubSeqProperties
<1> HIDE DEF cs
<1>8. Len(cs) = k
  BY <1>1, <1>7
<1>9. \A i \in 1..k : cs[i] = as[i]
  <2>1. \A i \in 1..k : cs[i] = bs[i]
    BY <1>1, <1>7
  <2> QED BY <1>3, <2>1, Zenon
<1>10. cs = as
  BY <1>7, <1>8, <1>9, SeqEqual, Zenon DEF k
<1> QED BY <1>1, <1>2, <1>10 DEF cs, bs, k

\* Who commits a merge has just absorbed.
LEMMA MergedAbsorbs ==
  ASSUME WellFormed, [Next]_vars, NEW s \in Sessions, Commits(s),
         result'[s] = "merged"
  PROVE  CommitAbsorb(s)
<1> USE DEF WellFormed, TypeOK, Commits
<1>1. \A o : Commit(s, o) => o = "merged"
  BY DEF Commit
<1>2. ~Rollback(s) /\ ~Report(s) /\ ~Acquire(s) /\ ~SelectCandidates(s)
      /\ ~ReadCanonical(s) /\ ~JudgeNovelty(s)
  BY DEF Rollback, Report, Acquire, SelectCandidates, ReadCanonical,
         JudgeNovelty
<1>3. ~Call(s)
  BY DEF Call, BeginWrite, BeginDistinct, BeginMerge, BeginSupersede, Begin
<1>4. \E u \in Sessions : Call(u) \/ Progress(u) \/ Crash(u)
  BY DEF Next, Expire, OperatorArchive, Done, vars
<1>5. Call(s) \/ Progress(s) \/ Crash(s)
  BY <1>4, Others
<1> QED
  BY <1>1, <1>2, <1>3, <1>5
     DEF Progress, Crash, Raise, CommitInsert, CommitMergeLink, CommitPark,
         CommitReview

\* Neither half of AddendaGrow is broken by a step of locked calls.
LEMMA StepLog ==
  ASSUME WellFormed, View, [Next]_vars
  PROVE  OnlyExtended /\ RecurrenceLogged
<1>1. ASSUME NEW n \in NodeIds
      PROVE  /\ Len(addenda'[n]) >= Len(addenda[n])
             /\ SubSeq(addenda'[n], 1, Len(addenda[n])) = addenda[n]
  <2>1. addenda[n] \in Seq(Facts)
    BY DEF WellFormed, TypeOK
  <2>2. CASE addenda'[n] = addenda[n]
    <3>1. Len(addenda[n]) \in Nat
      BY <2>1, LenProperties, Zenon
    <3>2. SubSeq(addenda[n], 1, Len(addenda[n])) = addenda[n]
      BY <2>1, SubSeqFull, Zenon
    <3> QED BY <2>2, <3>1, <3>2
  <2>3. CASE \E f \in Facts : addenda'[n] = Append(addenda[n], f)
    <3>1. PICK f \in Facts : addenda'[n] = Append(addenda[n], f)
      BY <2>3
    <3>2. /\ Len(Append(addenda[n], f)) = Len(addenda[n]) + 1
          /\ Len(addenda[n]) \in Nat
          /\ SubSeq(Append(addenda[n], f), 1, Len(addenda[n])) = addenda[n]
      BY <2>1, AppendPrefix
    <3> QED BY <3>1, <3>2
  <2> QED BY <2>2, <2>3, StepAddenda
<1>2. ASSUME NEW s \in Sessions, Commits(s), result'[s] = "merged",
             Reoccurs(s, found[s].best)
      PROVE  addenda'[found[s].best] = Append(addenda[found[s].best], req[s].fact)
  <2>1. CommitAbsorb(s)
    BY <1>2, MergedAbsorbs
  <2>2. read[s].addenda = addenda[found[s].best]
    BY <2>1 DEF CommitAbsorb, View, Judged
  <2> QED BY <1>2, <2>1, <2>2, AbsorbedRow
<1> QED BY <1>1, <1>2 DEF OnlyExtended, RecurrenceLogged

\* The occurrence log of an error loses no entry to a concurrent merge: the
\* list an absorb writes back is the committed one with its own entry added.
THEOREM AddendaOnlyGrow == NoMerge => (Spec => AddendaGrow)
<1> SUFFICES ASSUME NoMerge PROVE Spec => AddendaGrow
  OBVIOUS
<1>1. Inv /\ [Next]_vars => Inv'
  BY StepInv
<1>2. Inv /\ [Next]_vars => [OnlyExtended /\ RecurrenceLogged]_vars
  BY StepLog DEF Inv, Base
<1> QED BY <1>1, <1>2, InitInv, PTL DEF Spec, AddendaGrow

-----------------------------------------------------------------------------
(* The candidates stay what they were.                                     *)

\* Of the rows fact f may be compared with, when it is to replace x, none is
\* nearer than b.
NearestIn(f, x, b) ==
  LET S == Candidates(f, x) IN
  IF S = {} THEN b = NoNode
  ELSE b \in S /\ \A d \in S : Sim[f][content[d]] <= Sim[f][content[b]]

\* A session that decides found the nearest of the rows as they are, and goes
\* on past its band only to merge.
Nearby ==
  \A s \in Sessions : pc[s] \in Deciding =>
    /\ NearestIn(req[s].fact, Exclude(s), found[s].best)
    /\ pc[s] # "banded" => Band(s) = "merge"

\* No other session adds, replaces or changes a row of the type s has locked.
LEMMA SameCandidates ==
  ASSUME WellFormed, Exclusive, Locked, RowStep, NEW s \in Sessions,
         pc[s] \in Deciding, pc'[s] = pc[s],
         NEW f \in Facts, FType[f] = LockKey(s), NEW x,
         \A n \in NodeIds :
           status[n] # "none" /\ FType[content[n]] = LockKey(s) => SameRow(n)
  PROVE  Candidates(f, x)' = Candidates(f, x)
<1> SUFFICES ASSUME NEW n \in NodeIds
             PROVE  n \in Candidates(f, x)' <=> n \in Candidates(f, x)
  BY DEF Candidates
<1>1. CASE status[n] # "none"
  BY <1>1 DEF RowStep, SameRow, Candidates
<1>2. CASE status[n] = "none" /\ status'[n] # "none"
  <2>1. PICK u \in Sessions : CommitInsert(u, n) \/ CommitMergeLink(u, n)
    BY <1>2 DEF RowStep
  <2>2. content'[n] = req[u].fact
    BY <2>1, StoredRow DEF WellFormed, TypeOK
  <2>3. pc[u] \in Deciding /\ u # s
    BY <2>1 DEF CommitInsert, CommitMergeLink, Commit, Deciding, WellFormed,
                TypeOK
  <2>4. LockKey(u) # LockKey(s)
    BY <2>3, DifferentKeys
  <2> QED BY <1>2, <2>2, <2>4 DEF Candidates, LockKey
<1>3. CASE status[n] = "none" /\ status'[n] = "none"
  BY <1>3 DEF Candidates
<1> QED BY <1>1, <1>2, <1>3

\* What the candidate query returns first is the nearest.
LEMMA SelectNearest ==
  ASSUME WellFormed, NEW s \in Sessions, SelectCandidates(s)
  PROVE  /\ NearestIn(req[s].fact, Exclude(s), found'[s].best)
         /\ UNCHANGED <<status, content, req>> /\ pc'[s] = "banded"
<1> DEFINE f == req[s].fact
           S == Candidates(f, Exclude(s))
<1>1. /\ UNCHANGED <<status, content, req>> /\ pc'[s] = "banded"
      /\ f \in Facts
  BY DEF SelectCandidates, rowVars, WellFormed, ReqOK, TypeOK
<1>2. PICK C \in SUBSET S, b \in NodeIds \cup {NoNode} :
        /\ IsNearest(C, S, f)
        /\ IsBest(b, C, f)
        /\ found' = [found EXCEPT ![s] = [best |-> b, cands |-> C]]
  BY DEF SelectCandidates
<1>3. found'[s].best = b
  BY <1>2 DEF WellFormed, TypeOK
<1>4. S \subseteq NodeIds /\ \A m \in S : content[m] \in Facts
  BY DEF Candidates, WellFormed, RowsOK
<1>5. CASE S = {}
  <2>1. b = NoNode
    BY <1>2, <1>5 DEF IsBest
  <2> QED BY <1>1, <1>3, <1>5, <2>1 DEF NearestIn
<1>6. CASE S # {}
  <2>1. \A d \in S : b \in S /\ Sim[f][content[d]] <= Sim[f][content[b]]
    <3> HIDE DEF f, S
    <3> QED BY <1>1, <1>2, <1>4, NearestBest
  <2> QED BY <1>1, <1>3, <1>6, <2>1 DEF NearestIn
<1> QED BY <1>5, <1>6

\* Nearby is inductive when nobody archives.
LEMMA StepNearby ==
  NoMerge /\ NoArchive /\ Base /\ View /\ Nearby /\ [Next]_vars => Nearby'
<1> SUFFICES ASSUME NoMerge, NoArchive, Base, View, Nearby, [Next]_vars,
                    NEW s \in Sessions, pc'[s] \in Deciding
             PROVE  /\ NearestIn(req[s].fact, Exclude(s), found[s].best)'
                    /\ pc'[s] # "banded" => Band(s)' = "merge"
  BY DEF Nearby
<1> USE DEF Base, View
<1>1. RowStep
  BY NextRowStep
<1>2. ASSUME pc[s] \in Deciding, req'[s] = req[s], found'[s] = found[s],
             pc'[s] # "banded" => Band(s) = "merge",
             Candidates(req[s].fact, Exclude(s))' =
               Candidates(req[s].fact, Exclude(s))
      PROVE  /\ NearestIn(req[s].fact, Exclude(s), found[s].best)'
             /\ pc'[s] # "banded" => Band(s)' = "merge"
  <2>1. Band(s)' = Band(s)
    BY <1>1, <1>2, DecidingView
  <2>2. \A d \in Candidates(req[s].fact, Exclude(s)) :
          content'[d] = content[d]
    BY <1>1 DEF Candidates, RowStep
  <2>3. NearestIn(req[s].fact, Exclude(s), found[s].best)
    BY <1>2 DEF Nearby
  <2> QED BY <1>2, <2>1, <2>2, <2>3 DEF NearestIn
<1>3. CASE SelectCandidates(s)
  <2>1. /\ NearestIn(req[s].fact, Exclude(s), found'[s].best)
        /\ UNCHANGED <<status, content, req>> /\ pc'[s] = "banded"
    BY <1>3, SelectNearest
  <2> QED BY <2>1 DEF NearestIn, Candidates, Exclude, Replaces
<1>4. CASE ReadCanonical(s) \/ JudgeNovelty(s)
  <2>1. /\ UNCHANGED <<status, content, req, found>> /\ pc[s] \in Deciding
        /\ pc[s] # "banded" \/ Band(s) = "merge"
    BY <1>4 DEF ReadCanonical, JudgeNovelty, rowVars, Deciding
  <2>2. Candidates(req[s].fact, Exclude(s))' =
          Candidates(req[s].fact, Exclude(s))
    BY <2>1 DEF Candidates, Exclude, Replaces
  <2> QED BY <1>2, <2>1, <2>2 DEF Nearby
<1>5. CASE /\ pc[s] = pc'[s] /\ req'[s] = req[s] /\ found'[s] = found[s]
           /\ \A n \in NodeIds :
                status[n] # "none" /\ FType[content[n]] = LockKey(s)
                  => SameRow(n)
  <2>1. Exclude(s)' = Exclude(s)
    BY <1>1, <1>5, DecidingView
  <2>2. PICK f \in Facts : f = req[s].fact
    BY <1>5 DEF WellFormed, ReqOK, Deciding
  <2>3. PICK x : x = Exclude(s)
    OBVIOUS
  <2>4. Candidates(f, x)' = Candidates(f, x)
    BY <1>1, <1>5, <2>2, SameCandidates DEF LockKey
  <2>5. Candidates(req[s].fact, Exclude(s))' =
          Candidates(req[s].fact, Exclude(s))
    BY <1>5, <2>1, <2>2, <2>3, <2>4 DEF Candidates
  <2> QED BY <1>2, <1>5, <2>5 DEF Nearby
<1>6. ~ \E n \in NodeIds : OperatorArchive(n)
  BY DEF OperatorArchive, NoArchive
<1> QED BY <1>3, <1>4, <1>5, <1>6, DecidesAfter

-----------------------------------------------------------------------------
(* Every commit is a serial write.                                         *)

Cluster == EdgesOf("same_topic")
Replacements == EdgesOf("supersedes")
Asked == {pending[p].fact : p \in {q \in PendIds : pending[q].state # "none"}}

\* The pairs of a set of edges, by type.
LEMMA Pairs ==
  ASSUME NEW E, E \subseteq NodeIds \X NodeIds \X EdgeTypes, NEW type,
         NEW P, P = {<<e[1], e[2]>> : e \in {x \in E : x[3] = type}}
  PROVE  /\ P \subseteq NodeIds \X NodeIds
         /\ \A m, k : <<m, k>> \in P <=> <<m, k, type>> \in E
<1>1. \A e \in E : e = <<e[1], e[2], e[3]>>
  OBVIOUS
<1> QED BY <1>1

\* The same of the edges before and after a step.
LEMMA EdgePairs ==
  ASSUME WellFormed, WellFormed'
  PROVE  /\ Cluster \subseteq NodeIds \X NodeIds
         /\ Cluster' \subseteq NodeIds \X NodeIds
         /\ Replacements \subseteq NodeIds \X NodeIds
         /\ Replacements' \subseteq NodeIds \X NodeIds
         /\ \A m, k :
              /\ <<m, k>> \in Cluster <=> <<m, k, "same_topic">> \in edges
              /\ <<m, k>> \in Cluster' <=> <<m, k, "same_topic">> \in edges'
              /\ <<m, k>> \in Replacements
                   <=> <<m, k, "supersedes">> \in edges
              /\ <<m, k>> \in Replacements'
                   <=> <<m, k, "supersedes">> \in edges'
<1>1. /\ edges \subseteq NodeIds \X NodeIds \X EdgeTypes
      /\ edges' \subseteq NodeIds \X NodeIds \X EdgeTypes
  BY DEF WellFormed, TypeOK
<1>2. /\ Cluster = {<<e[1], e[2]>> : e \in {x \in edges : x[3] = "same_topic"}}
      /\ Cluster' = {<<e[1], e[2]>> : e \in {x \in edges' : x[3] = "same_topic"}}
  BY DEF Cluster, EdgesOf
<1>3. /\ Replacements =
           {<<e[1], e[2]>> : e \in {x \in edges : x[3] = "supersedes"}}
      /\ Replacements' =
           {<<e[1], e[2]>> : e \in {x \in edges' : x[3] = "supersedes"}}
  BY DEF Replacements, EdgesOf
<1>4. /\ Cluster \subseteq NodeIds \X NodeIds
      /\ \A m, k : <<m, k>> \in Cluster <=> <<m, k, "same_topic">> \in edges
  BY <1>1, <1>2, Pairs
<1>5. /\ Cluster' \subseteq NodeIds \X NodeIds
      /\ \A m, k : <<m, k>> \in Cluster' <=> <<m, k, "same_topic">> \in edges'
  BY <1>1, <1>2, Pairs
<1>6. /\ Replacements \subseteq NodeIds \X NodeIds
      /\ \A m, k : <<m, k>> \in Replacements
                     <=> <<m, k, "supersedes">> \in edges
  BY <1>1, <1>3, Pairs
<1>7. /\ Replacements' \subseteq NodeIds \X NodeIds
      /\ \A m, k : <<m, k>> \in Replacements'
                     <=> <<m, k, "supersedes">> \in edges'
  BY <1>1, <1>3, Pairs
<1> QED BY <1>4, <1>5, <1>6, <1>7

\* The pairs are kept when the edges of their type are.
LEMMA SamePairs ==
  ASSUME WellFormed, WellFormed'
  PROVE  /\ (\A m, k : <<m, k, "same_topic">> \in edges'
                         <=> <<m, k, "same_topic">> \in edges)
              => Cluster' = Cluster
         /\ (\A m, k : <<m, k, "supersedes">> \in edges'
                         <=> <<m, k, "supersedes">> \in edges)
              => Replacements' = Replacements
<1>1. \A P, Q : P \subseteq NodeIds \X NodeIds /\ Q \subseteq NodeIds \X NodeIds
        /\ (\A m, k : <<m, k>> \in P <=> <<m, k>> \in Q) => P = Q
  OBVIOUS
<1>2. ASSUME \A m, k : <<m, k, "same_topic">> \in edges'
                         <=> <<m, k, "same_topic">> \in edges
      PROVE  Cluster' = Cluster
  <2>1. /\ Cluster \subseteq NodeIds \X NodeIds
        /\ Cluster' \subseteq NodeIds \X NodeIds
        /\ \A m, k : <<m, k>> \in Cluster' <=> <<m, k>> \in Cluster
    BY <1>2, EdgePairs
  <2> QED BY <1>1, <2>1
<1>3. ASSUME \A m, k : <<m, k, "supersedes">> \in edges'
                         <=> <<m, k, "supersedes">> \in edges
      PROVE  Replacements' = Replacements
  <2>1. /\ Replacements \subseteq NodeIds \X NodeIds
        /\ Replacements' \subseteq NodeIds \X NodeIds
        /\ \A m, k : <<m, k>> \in Replacements' <=> <<m, k>> \in Replacements
    BY <1>3, EdgePairs
  <2> QED BY <1>1, <2>1
<1> QED BY <1>2, <1>3

\* The facts clients were asked about change with a park only.
LEMMA SameAsked ==
  ASSUME WellFormed, [Next]_vars,
         ~ \E s \in Sessions, p \in PendIds : CommitPark(s, p)
  PROVE  Asked' = Asked
<1>1. \A p \in PendIds :
        /\ pending[p].state # "none" <=> pending'[p].state # "none"
        /\ pending[p].state # "none" => pending'[p].fact = pending[p].fact
  <2>1. CASE UNCHANGED pending
    BY <2>1
  <2>2. ASSUME NEW s \in Sessions, Stores(s)
        PROVE  pending' = IF Resolves(s)
                 THEN [pending EXCEPT ![req[s].pid].state = "resolved"]
                 ELSE pending
    BY <2>2, StoresParkStep DEF Stored
  <2>3. ASSUME NEW s \in Sessions, Stores(s)
        PROVE  Resolves(s) => /\ req[s].pid \in PendIds
                              /\ pending[req[s].pid].state # "none"
    BY <2>3, StoresParkStep DEF WellFormed, ReqOK, Resolves
  <2>4. CASE \E s \in Sessions : Stores(s)
    <3>1. PICK s \in Sessions : Stores(s)
      BY <2>4
    <3>2. CASE ~Resolves(s)
      BY <2>2, <3>1, <3>2
    <3>3. CASE Resolves(s)
      <4>1. PICK q \in PendIds : q = req[s].pid
        BY <2>3, <3>1, <3>3
      <4>2. /\ pending[q].state # "none"
            /\ pending' = [pending EXCEPT ![q].state = "resolved"]
        BY <2>2, <2>3, <3>1, <3>3, <4>1
      <4> QED BY <4>2 DEF WellFormed, TypeOK, PendingRows
    <3> QED BY <3>2, <3>3
  <2>5. CASE \E p \in PendIds : Expire(p)
    BY <2>5 DEF Expire, WellFormed, TypeOK, PendingRows
  <2>6. ASSUME NEW s \in Sessions, Call(s) \/ Progress(s) \/ Crash(s),
               ~Stores(s)
        PROVE  UNCHANGED pending
    BY <2>6 DEF Stores, Call, BeginWrite, BeginDistinct, BeginMerge,
                BeginSupersede, Begin, Progress, Acquire, SelectCandidates,
                ReadCanonical, JudgeNovelty, CommitReview, Raise, Report, Crash,
                Rollback
  <2> QED
    BY <2>1, <2>4, <2>5, <2>6 DEF Next, OperatorArchive, Done, vars
<1> QED BY <1>1 DEF Asked

\* The two specifications compare a fact with the same rows.
LEMMA SameComparable ==
  ASSUME NEW f, NEW x
  PROVE  Serial!Comparable(f, x) = Candidates(f, x)
BY DEF Serial!Comparable, Candidates

\* They count alike ...
LEMMA SameCardinality ==
  ASSUME NEW S
  PROVE  Serial!Cardinality(S) = Cardinality(S)
BY DEF Serial!Cardinality, Cardinality

\* ... and reach the same verdict on its words.
LEMMA SameNovel ==
  ASSUME WellFormed, WellFormed', EdgesExist, NEW f \in Facts,
         NEW n \in NodeIds, status[n] # "none"
  PROVE  Serial!Novel(f, n) <=> IsNovel(FTokens[f], Corpus(n))
<1>1. addenda[n] \in Seq(Facts)
  BY DEF WellFormed, TypeOK
<1>2. DOMAIN addenda[n] = 1..Len(addenda[n])
  BY <1>1
<1>3. {k \in NodeIds : Cluster \cap {<<k, n>>, <<n, k>>} # {}} = Peers(n)
  BY EdgePairs DEF Peers
<1>4. Serial!Words(n) = Corpus(n)
  BY <1>2, <1>3 DEF Serial!Words, Corpus, CorpusOf, AddendaTokens, Cluster
<1> DEFINE a == FTokens[f]
           C == Corpus(n)
<1>5. CASE a \cup C = {}
  <2>1. a \cap C = {} /\ Cardinality({}) = 0
    BY <1>5, FS_EmptySet
  <2> HIDE DEF a, C
  <2>2. ~(10 * Cardinality(a \cap C) < 8 * Cardinality(a \cup C))
    BY <1>5, <2>1
  <2> QED BY <1>4, <1>5, <2>2, SameCardinality DEF Serial!Novel, IsNovel, a, C
<1>6. CASE a \cup C # {}
  BY <1>4, <1>6, SameCardinality DEF Serial!Novel, IsNovel
<1> QED BY <1>5, <1>6

\* The rows a deciding session may be compared with, and the one it found.
LEMMA FoundNearest ==
  ASSUME WellFormed, Nearby, NEW s \in Sessions, pc[s] \in Deciding
  PROVE  /\ req[s].fact \in Facts /\ Similarity(s) \in 0..100
         /\ found[s].best # NoNode =>
              /\ found[s].best \in Candidates(req[s].fact, Exclude(s))
              /\ Similarity(s) = Sim[req[s].fact][content[found[s].best]]
         /\ found[s].best = NoNode => Similarity(s) = 0
         /\ \A d \in Candidates(req[s].fact, Exclude(s)) :
              /\ found[s].best # NoNode
              /\ Sim[req[s].fact][content[d]] \in 0..100
              /\ Sim[req[s].fact][content[d]] <= Similarity(s)
<1> DEFINE f == req[s].fact
           S == Candidates(f, Exclude(s))
           b == found[s].best
<1>1. f \in Facts
  BY DEF WellFormed, ReqOK, Deciding
<1>2. S \subseteq NodeIds /\ \A d \in S : content[d] \in Facts
  BY DEF Candidates, WellFormed, RowsOK
<1>3. \A d \in S : Sim[f][content[d]] \in 0..100
  BY <1>1, <1>2, SimRange
<1>4. IF S = {} THEN b = NoNode
      ELSE b \in S /\ \A d \in S : Sim[f][content[d]] <= Sim[f][content[b]]
  BY DEF Nearby, NearestIn
<1>5. b # NoNode <=> S # {}
  BY <1>2, <1>4, NullAssumption
<1>6. Similarity(s) = IF b = NoNode THEN 0 ELSE Sim[f][content[b]]
  BY DEF Similarity
<1> HIDE DEF f, S, b
<1>7. Similarity(s) \in 0..100
  BY <1>3, <1>4, <1>5, <1>6
<1>8. \A d \in S : Sim[f][content[d]] <= Similarity(s)
  BY <1>4, <1>5, <1>6
<1> QED BY <1>1, <1>3, <1>4, <1>5, <1>6, <1>7, <1>8 DEF f, S, b

\* A replacement takes the place of a row of its type.
LEMMA MayReplaceTarget ==
  ASSUME WellFormed, NEW s \in Sessions, pc[s] # "idle"
  PROVE  /\ Serial!MayReplace(Exclude(s), req[s].fact)
         /\ Exclude(s) \in NodeIds \cup {NoNode}
BY NullAssumption DEF Serial!MayReplace, Exclude, Replaces, WellFormed, ReqOK,
       Exists

\* A commit that stores a row is a Store, and a merge link joins the cluster.
LEMMA SerialStore ==
  ASSUME WellFormed, WellFormed', [Next]_vars, NEW s \in Sessions,
         NEW n \in NodeIds, CommitInsert(s, n) \/ CommitMergeLink(s, n)
  PROVE  /\ Serial!Store(n, req[s].fact, Exclude(s))
         /\ Cluster' =
              IF /\ pc[s] = "judged"
                 /\ RuleExists("same_topic", LockKey(s),
                               FType[content[found[s].best]])
              THEN Cluster \cup {<<n, found[s].best>>} ELSE Cluster
<1> DEFINE x == Exclude(s)
           b == found[s].best
           t == req[s].target
<1>1. PICK es :
        /\ status[n] = "none" /\ UNCHANGED addenda
        /\ status' = [m \in NodeIds |->
             IF m = n THEN "active"
             ELSE IF Replaces(s) /\ m = t THEN "superseded" ELSE status[m]]
        /\ content' = [content EXCEPT ![n] = req[s].fact]
        /\ edges' = edges \cup es
        /\ \A m, k : <<m, k, "supersedes">> \in es <=>
             Replaces(s) /\ m = n /\ k = t
        /\ \A m, k : <<m, k, "same_topic">> \in es <=>
             /\ pc[s] = "judged" /\ m = n /\ k = b
             /\ RuleExists("same_topic", LockKey(s), FType[content[k]])
  BY StoredRow
<1>2. pc[s] \in {"banded", "judged"}
  BY DEF CommitInsert, CommitMergeLink
<1>3. /\ Replaces(s) => x = t /\ t \in NodeIds
      /\ ~Replaces(s) => x = NoNode
      /\ pc[s] = "judged" => b \in NodeIds
  BY <1>2 DEF Exclude, Replaces, WellFormed, ReqOK, FoundOK, Exists
<1>4. status' = [m \in NodeIds |-> IF m = n THEN "active"
                                   ELSE IF m = x THEN "superseded" ELSE status[m]]
  BY <1>1, <1>3, NullAssumption
<1> HIDE DEF x, b, t
<1>5. /\ \A m, k : <<m, k, "supersedes">> \in edges' <=>
           \/ <<m, k, "supersedes">> \in edges
           \/ Replaces(s) /\ m = n /\ k = t
      /\ \A m, k : <<m, k, "same_topic">> \in edges' <=>
           \/ <<m, k, "same_topic">> \in edges
           \/ /\ pc[s] = "judged" /\ m = n /\ k = b
              /\ RuleExists("same_topic", LockKey(s), FType[content[b]])
  BY <1>1
<1>6. \A P, Q : P \subseteq NodeIds \X NodeIds /\ Q \subseteq NodeIds \X NodeIds
        /\ (\A m, k : <<m, k>> \in P <=> <<m, k>> \in Q) => P = Q
  OBVIOUS
<1>7. Replacements' = IF x = NoNode THEN Replacements
                      ELSE Replacements \cup {<<n, x>>}
  <2> DEFINE Q == IF x = NoNode THEN Replacements
                  ELSE Replacements \cup {<<n, x>>}
  <2>1. /\ Replacements' \subseteq NodeIds \X NodeIds
        /\ Replacements \subseteq NodeIds \X NodeIds
        /\ \A m, k : /\ <<m, k>> \in Replacements' <=>
                          <<m, k, "supersedes">> \in edges'
                     /\ <<m, k>> \in Replacements <=>
                          <<m, k, "supersedes">> \in edges
    BY EdgePairs
  <2>2. Q \subseteq NodeIds \X NodeIds
    BY <1>3, <2>1
  <2>3. \A m, k : <<m, k>> \in Replacements' <=> <<m, k>> \in Q
    BY <1>3, <1>5, <2>1, NullAssumption
  <2> HIDE DEF Q
  <2>4. Replacements' = Q
    BY <1>6, <2>1, <2>2, <2>3
  <2> QED BY <2>4 DEF Q
<1>8. Cluster' = IF /\ pc[s] = "judged"
                    /\ RuleExists("same_topic", LockKey(s), FType[content[b]])
                 THEN Cluster \cup {<<n, b>>} ELSE Cluster
  <2> DEFINE joins == /\ pc[s] = "judged"
                      /\ RuleExists("same_topic", LockKey(s),
                                    FType[content[b]])
             Q == IF joins THEN Cluster \cup {<<n, b>>} ELSE Cluster
  <2>1. /\ Cluster' \subseteq NodeIds \X NodeIds
        /\ Cluster \subseteq NodeIds \X NodeIds
        /\ \A m, k : /\ <<m, k>> \in Cluster' <=>
                          <<m, k, "same_topic">> \in edges'
                     /\ <<m, k>> \in Cluster <=>
                          <<m, k, "same_topic">> \in edges
    BY EdgePairs
  <2>2. Q \subseteq NodeIds \X NodeIds
    BY <1>3, <2>1
  <2>3. \A m, k : <<m, k>> \in Cluster' <=> <<m, k>> \in Q
    BY <1>5, <2>1
  <2> HIDE DEF Q
  <2>4. Cluster' = Q
    BY <1>6, <2>1, <2>2, <2>3
  <2> QED BY <2>4 DEF Q
<1>9. Asked' = Asked
  <2>1. \A u \in Sessions, p \in PendIds : ~CommitPark(u, p)
    BY <1>1 DEF CommitPark, rowVars, WellFormed, TypeOK
  <2> QED BY <2>1, SameAsked
<1> QED
  BY <1>1, <1>4, <1>7, <1>8, <1>9
     DEF Serial!Store, Replacements, Asked, x, b

\* What a serial write does, if it leaves a trace or not.
SerialMove ==
  \E f \in Facts, old \in NodeIds \cup {NoNode} :
    \/ Serial!Ask(f, old)
    \/ \E n \in NodeIds : Serial!Insert(n, f, old)
    \/ \E n, c \in NodeIds : Serial!Join(n, f, c, old)
    \/ \E c \in NodeIds : Serial!Recur(f, c, old)

\* A fact of a resolution is one a client was asked about.
LEMMA ResolutionAsked ==
  ASSUME WellFormed, Payload, NEW s \in Sessions, pc[s] # "idle",
         req[s].op = "distinct"
  PROVE  req[s].fact \in Asked
BY DEF WellFormed, ReqOK, Payload, Resolves, Asked

\* An insert is one that nothing near forbids.
LEMMA InsertIsSerial ==
  ASSUME WellFormed, WellFormed', Locked, Nearby, Payload, [Next]_vars,
         NEW s \in Sessions, NEW n \in NodeIds, CommitInsert(s, n)
  PROVE  SerialMove
<1> DEFINE f == req[s].fact
           x == Exclude(s)
<1>1. pc[s] = "banded" /\ Band(s) = "insert" /\ req[s].op # "merge"
  BY DEF CommitInsert, Locked
<1>2. f \in Facts /\ Similarity(s) \in 0..100
  BY <1>1, FoundNearest DEF Deciding
<1>3. /\ SelectBand(Similarity(s)) # "merge"
      /\ SelectBand(Similarity(s)) = "insert" \/ req[s].op = "distinct"
  BY <1>1 DEF Band
<1>4. Similarity(s) < THigh /\ (Similarity(s) < TLow \/ req[s].op = "distinct")
  <2>1. Similarity(s) \in 0..100
    BY <1>2
  <2> QED BY <1>3, <2>1, BandEdges, Zenon
<1>5. ASSUME NEW c \in Serial!Comparable(f, x)
      PROVE  Sim[f][content[c]] < THigh /\ (Sim[f][content[c]] >= TLow => f \in Asked)
  <2>1. Sim[f][content[c]] \in 0..100 /\ Sim[f][content[c]] <= Similarity(s)
    BY <1>1, <1>5, SameComparable, FoundNearest DEF Deciding
  <2>2. req[s].op = "distinct" => f \in Asked
    BY <1>1, ResolutionAsked
  <2>3. \A m, sim \in 0..100 :
          sim <= m => /\ m < THigh => sim < THigh
                      /\ sim >= TLow => ~(m < TLow)
    BY BandAssumption
  <2> HIDE DEF f
  <2> QED BY <1>2, <1>4, <2>1, <2>2, <2>3, Zenon
<1>6. Serial!Store(n, f, x) /\ Cluster' = Cluster
  BY <1>1, SerialStore
<1>7. Serial!MayReplace(x, f) /\ x \in NodeIds \cup {NoNode}
  BY <1>1, MayReplaceTarget
<1> HIDE DEF f, x
<1>8. Serial!Insert(n, f, x)
  BY <1>5, <1>6, <1>7 DEF Serial!Insert, Cluster, Asked
<1> QED BY <1>2, <1>7, <1>8 DEF SerialMove

\* What _merge_branch works on is the nearest row, at or above t_high, and its
\* verdict is that of the serial specification.
LEMMA MergeIsSerial ==
  ASSUME WellFormed, WellFormed', EdgesExist, View, Nearby,
         NEW s \in Sessions, pc[s] = "judged"
  PROVE  /\ req[s].fact \in Facts /\ found[s].best \in NodeIds
         /\ Serial!Nearest(found[s].best, req[s].fact, Exclude(s))
         /\ Sim[req[s].fact][content[found[s].best]] >= THigh
         /\ Serial!Novel(req[s].fact, found[s].best) <=> read[s].novel
         /\ FType[content[found[s].best]] = FType[req[s].fact]
<1> DEFINE f == req[s].fact
           x == Exclude(s)
           b == found[s].best
<1>1. b # NoNode /\ Exists(b) /\ req[s].op # "merge"
  BY DEF WellFormed, FoundOK, View, Locked
<1>2. /\ f \in Facts /\ Similarity(s) \in 0..100
      /\ b \in Candidates(f, x) /\ Similarity(s) = Sim[f][content[b]]
      /\ \A d \in Candidates(f, x) :
           /\ Sim[f][content[d]] \in 0..100
           /\ Sim[f][content[d]] <= Similarity(s)
  BY <1>1, FoundNearest DEF Deciding
<1>3. SelectBand(Similarity(s)) = "merge"
  BY <1>1 DEF Nearby, Deciding, Band
<1>4. Similarity(s) >= THigh
  <2>1. Similarity(s) \in 0..100
    BY <1>2
  <2> QED BY <1>3, <2>1, BandEdges, Zenon
<1>5. Serial!Nearest(b, f, x)
  BY <1>2, SameComparable DEF Serial!Nearest
<1>6. read[s].novel = IsNovel(FTokens[f], Corpus(b))
  BY DEF View, Judged, Verdict
<1>7. Serial!Novel(f, b) <=> IsNovel(FTokens[f], Corpus(b))
  BY <1>1, <1>2, SameNovel DEF Exists
<1>8. FType[content[b]] = FType[f]
  BY <1>1 DEF View, BestTyped, LockKey, Deciding
<1> QED BY <1>1, <1>2, <1>4, <1>5, <1>6, <1>7, <1>8 DEF Exists

\* A merge link is a Join.
LEMMA MergeLinkIsSerial ==
  ASSUME WellFormed, WellFormed', EdgesExist, View, Nearby, [Next]_vars,
         NEW s \in Sessions, NEW n \in NodeIds, CommitMergeLink(s, n)
  PROVE  SerialMove
<1> DEFINE f == req[s].fact
           x == Exclude(s)
           b == found[s].best
           SameTopic == {t \in NodeTypes : RuleExists("same_topic", t, t)}
<1>1. pc[s] = "judged" /\ read[s].novel
  BY DEF CommitMergeLink
<1>2. /\ f \in Facts /\ b \in NodeIds /\ Serial!Nearest(b, f, x)
      /\ Sim[f][content[b]] >= THigh /\ Serial!Novel(f, b)
      /\ FType[content[b]] = FType[f]
  BY <1>1, MergeIsSerial
<1>3. /\ Serial!Store(n, f, x)
      /\ Cluster' = IF RuleExists("same_topic", FType[f], FType[f])
                    THEN Cluster \cup {<<n, b>>} ELSE Cluster
  BY <1>1, <1>2, SerialStore DEF LockKey
<1>4. FType[f] \in SameTopic <=> RuleExists("same_topic", FType[f], FType[f])
  BY <1>2, FactAssumption
<1>5. Serial!MayReplace(x, f) /\ x \in NodeIds \cup {NoNode}
  BY <1>1, MayReplaceTarget
<1> HIDE DEF f, x, b
<1>6. Serial!Join(n, f, b, x)
  BY <1>2, <1>3, <1>4, <1>5 DEF Serial!Join, Cluster
<1> QED BY <1>2, <1>5, <1>6 DEF SerialMove

\* An absorb is a Recur, or leaves no trace.
LEMMA AbsorbIsSerial ==
  ASSUME WellFormed, WellFormed', EdgesExist, View, Nearby, [Next]_vars,
         NEW s \in Sessions, CommitAbsorb(s)
  PROVE  SerialMove \/ UNCHANGED Serial!vars
<1> DEFINE f == req[s].fact
           x == Exclude(s)
           b == found[s].best
<1>1. pc[s] = "judged" /\ ~read[s].novel
  BY DEF CommitAbsorb
<1>2. /\ f \in Facts /\ b \in NodeIds /\ Serial!Nearest(b, f, x)
      /\ Sim[f][content[b]] >= THigh /\ ~Serial!Novel(f, b)
      /\ FType[content[b]] = FType[f]
  BY <1>1, MergeIsSerial
<1>3. /\ UNCHANGED <<status, content>>
      /\ Cluster' = Cluster /\ Replacements' = Replacements
  BY AbsorbedRow, SamePairs
<1>4. Asked' = Asked
  <2>1. \A u \in Sessions, p \in PendIds : ~CommitPark(u, p)
    <3>1. ASSUME NEW u \in Sessions, NEW p \in PendIds, CommitPark(u, p)
          PROVE  FALSE
      <4>1. u = s
        BY <1>1, <3>1 DEF CommitPark, CommitAbsorb, Commit, WellFormed, TypeOK
      <4> QED BY <1>1, <3>1, <4>1 DEF CommitPark
    <3> QED BY <3>1
  <2> QED BY <2>1, SameAsked
<1>5. x \in NodeIds \cup {NoNode}
  BY <1>1, MayReplaceTarget
<1>6. CASE Reoccurs(s, b)
  <2>1. addenda' = [addenda EXCEPT ![b] = Append(addenda[b], f)]
    BY <1>1, <1>6 DEF CommitAbsorb, View, Judged
  <2>2. FType[f] = ErrorType /\ FWhen[f] \notin {NoDate, FWhen[content[b]]}
    BY <1>2, <1>6 DEF Reoccurs
  <2> HIDE DEF f, x, b
  <2>3. Serial!Recur(f, b, x)
    BY <1>2, <1>3, <1>4, <2>1, <2>2
       DEF Serial!Recur, Cluster, Replacements, Asked
  <2> QED BY <1>2, <1>5, <2>3 DEF SerialMove
<1>7. CASE ~Reoccurs(s, b)
  <2>1. UNCHANGED addenda
    BY <1>7 DEF CommitAbsorb
  <2> QED
    BY <1>3, <1>4, <2>1 DEF Serial!vars, Cluster, Replacements, Asked
<1> QED BY <1>6, <1>7

\* A park is a question about a fact in the confirm band.
LEMMA ParkIsSerial ==
  ASSUME WellFormed, WellFormed', Locked, Nearby,
         NEW s \in Sessions, NEW p \in PendIds, CommitPark(s, p)
  PROVE  SerialMove
<1> DEFINE f == req[s].fact
           x == Exclude(s)
           b == found[s].best
<1>1. /\ pc[s] = "banded" /\ Band(s) = "pending" /\ req[s].op # "merge"
      /\ pending[p].state = "none" /\ UNCHANGED rowVars
  BY DEF CommitPark, Locked
<1>2. /\ f \in Facts /\ Similarity(s) \in 0..100
      /\ b # NoNode =>
           b \in Candidates(f, x) /\ Similarity(s) = Sim[f][content[b]]
      /\ b = NoNode => Similarity(s) = 0
      /\ \A d \in Candidates(f, x) :
           /\ Sim[f][content[d]] \in 0..100
           /\ Sim[f][content[d]] <= Similarity(s)
  BY <1>1, FoundNearest DEF Deciding
<1>3. SelectBand(Similarity(s)) = "pending"
  BY <1>1 DEF Band
<1>4. TLow <= Similarity(s) /\ Similarity(s) < THigh
  <2>1. Similarity(s) \in 0..100
    BY <1>2
  <2> QED BY <1>3, <2>1, BandEdges, Zenon
<1>5. b # NoNode
  <2>1. ~(TLow <= 0)
    BY BandAssumption
  <2> QED BY <1>2, <1>4, <2>1, Zenon
<1>6. pending' = [pending EXCEPT ![p] =
         [state |-> "parked", fact |-> f, cands |-> found[s].cands,
          peer |-> req[s].peer]]
  BY DEF CommitPark
<1> HIDE DEF f, x, b
<1>7. /\ \E c \in Serial!Comparable(f, x) : Sim[f][content[c]] >= TLow
      /\ \A c \in Serial!Comparable(f, x) : Sim[f][content[c]] < THigh
  <2>1. Serial!Comparable(f, x) = Candidates(f, x)
    BY SameComparable
  <2>2. \A m, sim \in 0..100 : sim <= m /\ m < THigh => sim < THigh
    BY BandAssumption
  <2>3. \A d \in Candidates(f, x) : Sim[f][content[d]] < THigh
    BY <1>2, <1>4, <2>2, Zenon
  <2>4. b \in Candidates(f, x) /\ Similarity(s) = Sim[f][content[b]]
    BY <1>2, <1>5, Zenon
  <2>5. Sim[f][content[b]] >= TLow
    BY <1>4, <2>4
  <2> QED BY <2>1, <2>3, <2>4, <2>5, Zenon
<1>8. Asked' = Asked \cup {f}
  BY <1>1, <1>6 DEF Asked, WellFormed, TypeOK
<1>9. Cluster' = Cluster /\ Replacements' = Replacements
  BY <1>1, SamePairs DEF rowVars
<1>10. x \in NodeIds \cup {NoNode}
  BY <1>1, MayReplaceTarget DEF x
<1>11. PICK g \in Facts, old \in NodeIds \cup {NoNode} : g = f /\ old = x
  BY <1>2, <1>10
<1>12. Serial!Ask(g, old)
  BY <1>1, <1>7, <1>8, <1>9, <1>11
     DEF Serial!Ask, rowVars, Cluster, Replacements, Asked
<1> QED BY <1>12 DEF SerialMove

\* Every step of the sessions is one serial write or none.
LEMMA StepSerial ==
  NoMerge /\ NoArchive /\ Inv /\ Nearby /\ [Next]_vars
    => [Serial!Next]_(Serial!vars)
<1> SUFFICES ASSUME NoMerge, NoArchive, Inv, Nearby, [Next]_vars
             PROVE  SerialMove \/ UNCHANGED Serial!vars
  BY DEF Serial!Next, SerialMove
<1> USE DEF Inv, Base
<1>1. WellFormed'
  BY StepWellFormed
<1>2. ASSUME UNCHANGED rowVars,
             ~ \E s \in Sessions, p \in PendIds : CommitPark(s, p)
      PROVE  UNCHANGED Serial!vars
  <2>1. Asked' = Asked
    BY <1>2, SameAsked
  <2>2. Cluster' = Cluster /\ Replacements' = Replacements
    BY <1>1, <1>2, SamePairs DEF rowVars
  <2> QED
    BY <1>2, <2>1, <2>2 DEF rowVars, Serial!vars, Cluster, Replacements, Asked
<1>3. CASE \E s \in Sessions : Stores(s)
  BY <1>1, <1>3, InsertIsSerial, MergeLinkIsSerial, AbsorbIsSerial
     DEF Stores, View
<1>4. CASE \E s \in Sessions, p \in PendIds : CommitPark(s, p)
  BY <1>1, <1>4, ParkIsSerial DEF View
<1>5. CASE ~ \E s \in Sessions : Stores(s)
  <2>1. ~ \E n \in NodeIds : OperatorArchive(n)
    BY DEF OperatorArchive, NoArchive
  <2>2. UNCHANGED rowVars
    BY <1>5, <2>1, StoresOrNot DEF Next, Expire, Done, vars, rowVars
  <2> QED BY <1>2, <1>4, <2>2
<1> QED BY <1>3, <1>5

\* The empty space is the empty serial space.
LEMMA InitSerial == Init => Serial!Init
BY DEF Init, Serial!Init, EdgesOf, NoPending

\* The locked calls are serializable: whatever the interleaving of their
\* statements, crashes and rollbacks, each commit is one write judged against
\* the rows committed when it takes effect.
THEOREM WritesAreSerial == NoMerge /\ NoArchive => (Spec => SerialWrites)
<1> SUFFICES ASSUME NoMerge, NoArchive PROVE Spec => SerialWrites
  OBVIOUS
<1>1. Inv /\ Nearby /\ [Next]_vars => Inv' /\ Nearby'
  BY StepInv, StepNearby DEF Inv
<1>2. Inv /\ Nearby /\ [Next]_vars => [Serial!Next]_(Serial!vars)
  BY StepSerial
<1>3. Init => Inv /\ Nearby
  <2>1. Init => Nearby
    BY DEF Init, Nearby, Deciding
  <2> QED BY <2>1, InitInv
<1> QED
  BY <1>1, <1>2, <1>3, InitSerial, PTL DEF Spec, SerialWrites, Serial!Spec

=============================================================================
