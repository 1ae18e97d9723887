----------------------------- MODULE ReadProofs -----------------------------
(***************************************************************************)
(* Proofs about the calls that read and the hooks that pass on what they   *)
(* return: a search loses nothing but restatements, a briefing shows what  *)
(* its sections promise and counts what it shows, a session is told        *)
(* everything once, a walk of the graph is answered with exact depths and  *)
(* nothing missing that it does not say it cut.                            *)
(***************************************************************************)
EXTENDS Retrieval, Briefing, Hooks, Traverse, TLAPS, FiniteSetTheorems, SequenceTheorems, WellFoundedInduction

-----------------------------------------------------------------------------
(* Retrieval: what a search answers.                                       *)

LateSteps == {"collapse", "answered"}

SearchShaped ==
  /\ step \in {"vector", "lexical", "hydrate", "near", "declared", "collapse", "answered"}
  /\ live \subseteq HitIds /\ shown \subseteq HitIds
  /\ leg1 \subseteq HitIds /\ leg2 \subseteq HitIds /\ coming \subseteq LegUnion
  /\ near \subseteq NearPairs /\ declared0 \subseteq declared
  /\ kept \in Seq(HitIds) /\ Kept \subseteq LegUnion \ coming
  /\ step \notin LateSteps => kept = <<>> /\ coming = {}

\* What a statement has returned and no later commit takes back: the readable ids
\* are hydrated; the near pairs of readable ids are there, until those declared
\* distinct go.
ReadSoFar ==
  /\ step \in {"near", "declared"} \cup LateSteps => LegUnion \cap shown \subseteq hydrated
  /\ step = "declared" => \A p \in NearPairs : p \subseteq LegUnion \cap shown => p \in near
  /\ step \in LateSteps =>
       /\ \A p \in NearPairs : p \subseteq LegUnion \cap shown => p \in near \cup declared
       /\ \A p \in near : p \in declared0 => ~(p \subseteq shown)

\* The collapse keeps its ids in rank order, no two near each other, and has
\* dropped an id for one that it keeps and that ranks before it.
Collapsed ==
  step \in LateSteps =>
    /\ \A i, j \in DOMAIN kept : i < j => RanksBefore(kept[i], kept[j])
    /\ \A n \in LegUnion \ coming, m \in coming : RanksBefore(n, m)
    /\ \A a, b \in Kept : {a, b} \notin near
    /\ \A n \in (LegUnion \ coming) \ Kept : \E m \in Kept : RanksBefore(m, n) /\ {m, n} \in near

TopOf(limit) == SubSeq(kept, 1, IF Len(kept) < limit THEN Len(kept) ELSE limit)

AnswerTop ==
  step = "answered" =>
    /\ coming = {} /\ hits.limit \in HitLimits /\ hits.kept = TopOf(hits.limit)
    /\ hits.failed <=> \E i \in DOMAIN hits.kept : hits.kept[i] \notin hydrated

SearchInv == SearchShaped /\ ReadSoFar /\ Collapsed /\ AnswerTop

-----------------------------------------------------------------------------
(* Ranks are a strict total order of the hits.                             *)

LEMMA ShareNat ==
  ASSUME NEW leg, IsFiniteSet(leg), NEW order, NEW n PROVE Share(leg, order, n) \in Nat
<1> DEFINE c == Cardinality(Before(n, leg, order))
<1>1. IsFiniteSet(Before(n, leg, order))
  <2>1. Before(n, leg, order) \in SUBSET leg
    BY DEF Before
  <2> QED BY <2>1, FS_Subset
<1>2. c \in Nat
  BY <1>1, FS_CardinalityType
<1> HIDE DEF c
<1>3. RankK + 1 + c \in Nat /\ RankK + 1 + c > 0 /\ Scale \in Nat
  BY <1>2, FusionAssumption
<1>4. Scale \div (RankK + 1 + c) \in Nat
  BY <1>3
<1> QED BY <1>4 DEF Share, c

LEMMA FusedNat ==
  ASSUME SearchShaped, NEW n PROVE Fused(n) \in Nat
<1>1. IsFiniteSet(leg1) /\ IsFiniteSet(leg2)
  BY RetrievalAssumption, FS_Subset DEF SearchShaped
<1>2. /\ Share(leg1, ListOrder(VectorOrder), n) \in Nat
      /\ Share(leg2, ListOrder(LexicalOrder), n) \in Nat
  BY <1>1, ShareNat
<1> QED BY <1>2 DEF Fused

LEMMA RankOrder ==
  ASSUME SearchShaped
  PROVE  /\ \A a \in HitIds : ~RanksBefore(a, a)
         /\ \A a, b \in HitIds : a # b => RanksBefore(a, b) \/ RanksBefore(b, a)
         /\ \A a, b, c \in HitIds : RanksBefore(a, b) /\ RanksBefore(b, c) => RanksBefore(a, c)
<1>1. \A n \in HitIds : Fused(n) \in Nat /\ DateOf(n) \in Nat /\ n \in Nat
  BY FusedNat, RetrievalAssumption DEF DateOf
<1>2. ASSUME NEW a \in HitIds PROVE ~RanksBefore(a, a)
  BY <1>1 DEF RanksBefore
<1>3. ASSUME NEW a \in HitIds, NEW b \in HitIds, a # b PROVE RanksBefore(a, b) \/ RanksBefore(b, a)
  BY <1>1, <1>3 DEF RanksBefore
<1>4. ASSUME NEW a \in HitIds, NEW b \in HitIds, NEW c \in HitIds, RanksBefore(a, b), RanksBefore(b, c)
      PROVE  RanksBefore(a, c)
  BY <1>1, <1>4 DEF RanksBefore
<1> QED BY <1>2, <1>3, <1>4

LEMMA SameRanks ==
  ASSUME UNCHANGED <<leg1, leg2, hydrated>>
  PROVE  LegUnion' = LegUnion /\ \A a, b : RanksBefore(a, b)' = RanksBefore(a, b)
BY DEF LegUnion, RanksBefore, Fused, Share, DateOf

-----------------------------------------------------------------------------
(* The steps of a search.                                                  *)

LEMMA SearchInitInv == RetrievalInit => SearchInv
<1> SUFFICES ASSUME RetrievalInit PROVE SearchInv
  OBVIOUS
<1>1. kept = <<>> /\ Kept = {} /\ step = "vector" /\ live \subseteq HitIds
  BY DEF RetrievalInit, Kept
<1>2. SearchShaped
  BY <1>1, EmptySeq DEF RetrievalInit, SearchShaped, LegUnion, LateSteps
<1> QED BY <1>1, <1>2 DEF SearchInv, ReadSoFar, Collapsed, AnswerTop, LateSteps

\* What other transactions commit.
LEMMA ChangeInv ==
  ASSUME SearchInv, Change, live' \subseteq live, shown' \subseteq shown, declared \subseteq declared'
  PROVE  SearchInv'
<1>1. /\ SearchShaped /\ ReadSoFar /\ step \notin LateSteps /\ step' = step
      /\ UNCHANGED <<leg1, leg2, hydrated, near, declared0, coming, kept, hits>>
  BY DEF SearchInv, Change, LateSteps
<1>2. LegUnion' = LegUnion /\ Kept' = Kept
  BY <1>1 DEF LegUnion, Kept
<1>3. SearchShaped'
  BY <1>1, <1>2 DEF SearchShaped
<1>4. ReadSoFar'
  BY <1>1, <1>2 DEF ReadSoFar
<1> QED BY <1>1, <1>3, <1>4 DEF SearchInv, Collapsed, AnswerTop, LateSteps

LEMMA LegsInv ==
  ASSUME SearchInv, VectorLeg \/ LexicalLeg \/ HydrateUnion \/ ReadNearPairs PROVE SearchInv'
<1>1. /\ SearchShaped /\ ReadSoFar /\ step \notin LateSteps /\ step' \notin LateSteps
      /\ UNCHANGED <<live, shown, declared, declared0, coming, kept, hits>>
  BY DEF SearchInv, VectorLeg, LexicalLeg, HydrateUnion, ReadNearPairs, LateSteps
<1>2. kept = <<>> /\ coming = {} /\ Kept = {} /\ Kept' = {} /\ HitIds \cap live \cap shown \subseteq HitIds /\ Worded \subseteq HitIds
  BY <1>1, RetrievalAssumption DEF SearchShaped, Kept
<1>3. CASE VectorLeg
  <2>1. leg1' \subseteq HitIds /\ UNCHANGED <<leg2, near>> /\ step' = "lexical" /\ step = "vector"
    BY <1>3 DEF VectorLeg, FirstOf
  <2>2. SearchShaped'
    BY <1>1, <1>2, <2>1 DEF SearchShaped, LegUnion
  <2> QED BY <1>1, <2>1, <2>2 DEF SearchInv, ReadSoFar, Collapsed, AnswerTop, LateSteps
<1>4. CASE LexicalLeg
  <2>1. leg2' \subseteq HitIds /\ UNCHANGED <<leg1, near>> /\ step' = "hydrate" /\ step = "lexical"
    BY <1>2, <1>4 DEF LexicalLeg, FirstOf
  <2>2. SearchShaped'
    BY <1>1, <1>2, <2>1 DEF SearchShaped, LegUnion
  <2> QED BY <1>1, <2>1, <2>2 DEF SearchInv, ReadSoFar, Collapsed, AnswerTop, LateSteps
<1>5. CASE HydrateUnion
  <2>1. UNCHANGED <<leg1, leg2, near>> /\ step' = "near" /\ hydrated' = LegUnion \cap shown /\ LegUnion' = LegUnion
    BY <1>5 DEF HydrateUnion, LegUnion
  <2>2. SearchShaped'
    BY <1>1, <1>2, <2>1 DEF SearchShaped
  <2> QED BY <1>1, <2>1, <2>2 DEF SearchInv, ReadSoFar, Collapsed, AnswerTop, LateSteps
<1>6. CASE ReadNearPairs
  <2>1. /\ UNCHANGED <<leg1, leg2, hydrated>> /\ step = "near" /\ step' = "declared" /\ LegUnion' = LegUnion
        /\ near' = {p \in NearPairs : p \subseteq LegUnion \cap shown}
    BY <1>6 DEF ReadNearPairs, LegUnion
  <2>2. SearchShaped'
    BY <1>1, <1>2, <2>1 DEF SearchShaped
  <2>3. ReadSoFar'
    BY <1>1, <2>1 DEF ReadSoFar, LateSteps
  <2> QED BY <1>1, <2>1, <2>2, <2>3 DEF SearchInv, Collapsed, AnswerTop, LateSteps
<1> QED BY <1>3, <1>4, <1>5, <1>6

LEMMA DeclaredInv ==
  ASSUME SearchInv, ReadDeclared PROVE SearchInv'
<1>1. /\ SearchShaped /\ ReadSoFar /\ step = "declared" /\ step' = "collapse"
      /\ near' = near \ {p \in declared : p \subseteq shown} /\ coming' = LegUnion
      /\ UNCHANGED <<live, shown, declared, declared0, leg1, leg2, hydrated, kept, hits>>
  BY DEF SearchInv, ReadDeclared, Collapsible
<1>2. LegUnion' = LegUnion /\ kept = <<>> /\ kept' = <<>> /\ Kept' = {}
  BY <1>1 DEF LegUnion, Kept, SearchShaped, LateSteps
<1>3. SearchShaped'
  BY <1>1, <1>2 DEF SearchShaped, LateSteps
<1>4. ReadSoFar'
  BY <1>1, <1>2 DEF ReadSoFar, LateSteps, SearchShaped
<1>5. Collapsed'
  BY <1>1, <1>2 DEF Collapsed
<1> QED BY <1>1, <1>3, <1>4, <1>5 DEF SearchInv, AnswerTop

\* The id that comes next ranks after all that came, and before all that come.
LEMMA CollapsesInv ==
  ASSUME SearchInv, Collapses PROVE SearchInv'
<1>1. PICK n \in coming :
        /\ \A m \in coming \ {n} : RanksBefore(n, m)
        /\ coming' = coming \ {n}
        /\ kept' = IF \E m \in Kept : {m, n} \in near THEN kept ELSE Append(kept, n)
  BY DEF Collapses
<1>2. /\ SearchShaped /\ ReadSoFar /\ Collapsed /\ step = "collapse" /\ step' = step
      /\ UNCHANGED <<live, shown, declared, declared0, leg1, leg2, hydrated, near, hits>>
      /\ kept \in Seq(HitIds) /\ n \in LegUnion /\ n \in HitIds /\ n \notin Kept
  BY <1>1 DEF SearchInv, Collapses, SearchShaped, LegUnion
<1>3. LegUnion' = LegUnion /\ \A a, b : RanksBefore(a, b)' = RanksBefore(a, b)
  BY <1>2, SameRanks
<1>4. ReadSoFar' /\ AnswerTop'
  BY <1>2, <1>3 DEF ReadSoFar, AnswerTop
<1>5. /\ \A i, j \in DOMAIN kept : i < j => RanksBefore(kept[i], kept[j])
      /\ \A a \in LegUnion \ coming, m \in coming : RanksBefore(a, m)
      /\ \A a, b \in Kept : {a, b} \notin near
      /\ \A a \in (LegUnion \ coming) \ Kept : \E m \in Kept : RanksBefore(m, a) /\ {m, a} \in near
      /\ Kept \subseteq LegUnion \ coming
  BY <1>2 DEF Collapsed, LateSteps, SearchShaped
<1>6. \A a \in LegUnion \ coming', m \in coming' : RanksBefore(a, m)
  BY <1>1, <1>5
<1>7. CASE \E m \in Kept : {m, n} \in near
  <2>1. kept' = kept /\ Kept' = Kept
    BY <1>1, <1>7 DEF Kept
  <2>2. SearchShaped'
    BY <1>1, <1>2, <1>3, <1>5, <2>1 DEF SearchShaped
  <2>3. \A m \in Kept : RanksBefore(m, n)
    BY <1>5
  <2>4. \A a \in (LegUnion \ coming') \ Kept : \E m \in Kept : RanksBefore(m, a) /\ {m, a} \in near
    BY <1>1, <1>5, <1>7, <2>3
  <2>5. Collapsed'
    BY <1>2, <1>3, <1>5, <1>6, <2>1, <2>4 DEF Collapsed
  <2> QED BY <1>4, <2>2, <2>5 DEF SearchInv
<1>8. CASE ~\E m \in Kept : {m, n} \in near
  <2>1. /\ kept' = Append(kept, n) /\ kept' \in Seq(HitIds) /\ DOMAIN kept' = 1..(Len(kept) + 1)
        /\ DOMAIN kept = 1..Len(kept) /\ Len(kept) \in Nat
        /\ kept'[Len(kept) + 1] = n /\ \A i \in 1..Len(kept) : kept'[i] = kept[i]
    BY <1>1, <1>2, <1>8, AppendProperties, LenProperties
  <2>2. Kept' = Kept \cup {n}
    BY <2>1 DEF Kept
  <2>3. SearchShaped'
    BY <1>1, <1>2, <1>3, <1>5, <2>1, <2>2 DEF SearchShaped, LateSteps
  <2>4. \A m \in Kept : RanksBefore(m, n)
    BY <1>5
  <2>5. ASSUME NEW i \in DOMAIN kept', NEW j \in DOMAIN kept', i < j
        PROVE  RanksBefore(kept'[i], kept'[j])
    <3>1. i \in DOMAIN kept
      BY <2>1, <2>5
    <3>2. CASE j = Len(kept) + 1
      BY <2>1, <2>4, <3>1, <3>2 DEF Kept
    <3>3. CASE j \in DOMAIN kept
      BY <1>5, <2>1, <2>5, <3>1, <3>3
    <3> QED BY <2>1, <3>2, <3>3
  <2>6. \A a, b \in Kept' : {a, b} \notin near
    <3>1. {n, n} \notin near
      BY <1>2, RetrievalAssumption DEF SearchShaped
    <3>2. \A m \in Kept : {m, n} \notin near /\ {n, m} \notin near
      <4>1. \A m \in Kept : {m, n} = {n, m}
        OBVIOUS
      <4> QED BY <1>8, <4>1
    <3> QED BY <1>5, <2>2, <3>1, <3>2
  <2>7. \A a \in (LegUnion \ coming') \ Kept' : \E m \in Kept' : RanksBefore(m, a) /\ {m, a} \in near
    BY <1>1, <1>5, <2>2
  <2>8. Collapsed'
    BY <1>2, <1>3, <1>6, <2>5, <2>6, <2>7 DEF Collapsed
  <2> QED BY <1>4, <2>3, <2>8 DEF SearchInv
<1> QED BY <1>7, <1>8

LEMMA AnswerInv ==
  ASSUME SearchInv, NEW limit \in HitLimits, AnswerHits(limit) PROVE SearchInv'
<1>1. /\ SearchShaped /\ ReadSoFar /\ Collapsed /\ step = "collapse" /\ step' = "answered" /\ coming = {}
      /\ hits' = [kept |-> TopOf(limit), truncated |-> Len(kept) > limit,
                  failed |-> \E i \in DOMAIN TopOf(limit) : TopOf(limit)[i] \notin hydrated, limit |-> limit]
      /\ UNCHANGED <<live, shown, declared, declared0, leg1, leg2, hydrated, near, coming, kept>>
  BY DEF SearchInv, AnswerHits, TopOf
<1>2. LegUnion' = LegUnion /\ Kept' = Kept /\ \A a, b : RanksBefore(a, b)' = RanksBefore(a, b)
  BY <1>1, SameRanks DEF Kept
<1>3. SearchShaped' /\ ReadSoFar'
  BY <1>1, <1>2 DEF SearchShaped, ReadSoFar, LateSteps
<1>4. Collapsed'
  BY <1>1, <1>2 DEF Collapsed, LateSteps
<1>5. AnswerTop'
  <2>1. TopOf(limit)' = TopOf(limit)
    BY <1>1 DEF TopOf
  <2>2. hits'.kept = TopOf(limit) /\ hits'.limit = limit
        /\ (hits'.failed <=> \E i \in DOMAIN TopOf(limit) : TopOf(limit)[i] \notin hydrated)
    BY <1>1
  <2>3. hits'.kept = SubSeq(kept', 1, IF Len(kept') < hits'.limit THEN Len(kept') ELSE hits'.limit)
    BY <1>1, <2>2 DEF TopOf
  <2> QED BY <1>1, <2>2, <2>3 DEF AnswerTop, TopOf
<1> QED BY <1>3, <1>4, <1>5 DEF SearchInv

LEMMA SearchStepInv ==
  ASSUME SearchInv, [RetrievalNext]_retrievalVars PROVE SearchInv'
<1>1. CASE UNCHANGED retrievalVars
  <2>1. LegUnion' = LegUnion /\ Kept' = Kept /\ \A a, b : RanksBefore(a, b)' = RanksBefore(a, b)
    BY <1>1, SameRanks DEF retrievalVars, Kept
  <2> QED BY <1>1, <2>1 DEF retrievalVars, SearchInv, SearchShaped, ReadSoFar, Collapsed, AnswerTop, TopOf
<1>2. ASSUME NEW n \in HitIds, Retired(n) \/ Withdrawn(n) PROVE SearchInv'
  BY <1>2, ChangeInv DEF Retired, Withdrawn
<1>3. ASSUME NEW pair \in NearPairs, Related(pair) PROVE SearchInv'
  BY <1>3, ChangeInv DEF Related
<1> QED BY <1>1, <1>2, <1>3, LegsInv, DeclaredInv, CollapsesInv, AnswerInv DEF RetrievalNext

LEMMA SearchSound == SearchInv => SearchLosesNothing
<1> SUFFICES ASSUME SearchInv, step = "answered" PROVE SearchLosesNothing
  BY DEF SearchLosesNothing
<1> DEFINE k == Len(hits.kept)
<1>1. /\ SearchShaped /\ coming = {} /\ hits.limit \in Nat /\ hits.limit > 0 /\ kept \in Seq(HitIds)
      /\ Len(kept) \in Nat /\ DOMAIN kept = 1..Len(kept) /\ Kept \subseteq LegUnion /\ LegUnion \subseteq HitIds
      /\ hits.kept = SubSeq(kept, 1, IF Len(kept) < hits.limit THEN Len(kept) ELSE hits.limit)
      /\ hits.failed <=> \E i \in DOMAIN hits.kept : hits.kept[i] \notin hydrated
      /\ LegUnion \cap shown \subseteq hydrated
  <2>1. SearchShaped /\ AnswerTop /\ LegUnion \cap shown \subseteq hydrated
    BY DEF SearchInv, ReadSoFar, LateSteps
  <2>2. kept \in Seq(HitIds) /\ Kept \subseteq LegUnion /\ LegUnion \subseteq HitIds
    BY <2>1 DEF SearchShaped, LegUnion
  <2>3. Len(kept) \in Nat /\ DOMAIN kept = 1..Len(kept)
    BY <2>2, LenProperties
  <2>4. /\ coming = {} /\ hits.limit \in HitLimits
        /\ hits.kept = SubSeq(kept, 1, IF Len(kept) < hits.limit THEN Len(kept) ELSE hits.limit)
        /\ hits.failed <=> \E i \in DOMAIN hits.kept : hits.kept[i] \notin hydrated
    BY <2>1 DEF AnswerTop, TopOf
  <2>5. hits.limit \in Nat /\ hits.limit > 0
    <3>1. HitLimits \subseteq Nat \ {0}
      BY RetrievalAssumption
    <3>2. ASSUME NEW x \in HitLimits PROVE x \in Nat /\ x > 0
      BY <3>1
    <3>3. hits.limit \in HitLimits
      BY <2>4
    <3> QED BY <3>2, <3>3
  <2> QED BY <2>1, <2>2, <2>3, <2>4, <2>5
<1>2. /\ \A i, j \in DOMAIN kept : i < j => RanksBefore(kept[i], kept[j])
      /\ \A a, b \in Kept : {a, b} \notin near
      /\ \A n \in LegUnion \ Kept : \E m \in Kept : RanksBefore(m, n) /\ {m, n} \in near
  BY <1>1 DEF SearchInv, Collapsed, LateSteps
<1>3. /\ \A p \in NearPairs : p \subseteq LegUnion \cap shown => p \in near \cup declared
      /\ \A p \in near : p \in NearPairs /\ (p \in declared0 => ~(p \subseteq shown))
  BY DEF SearchInv, ReadSoFar, LateSteps, SearchShaped
<1>4. /\ k \in Nat /\ k <= Len(kept) /\ (k < Len(kept) => k = hits.limit)
      /\ DOMAIN hits.kept = 1..k /\ \A i \in 1..k : hits.kept[i] = kept[i]
  <2> DEFINE e == IF Len(kept) < hits.limit THEN Len(kept) ELSE hits.limit
  <2>1. e \in 0..Len(kept) /\ (e < Len(kept) => e = hits.limit)
    BY <1>1
  <2> HIDE DEF e
  <2>2. /\ Len(SubSeq(kept, 1, e)) = e /\ DOMAIN SubSeq(kept, 1, e) = 1..e
        /\ \A i \in 1..e : SubSeq(kept, 1, e)[i] = kept[i]
    BY <1>1, <2>1, SubSeqProperties
  <2>3. hits.kept = SubSeq(kept, 1, e)
    BY <1>1 DEF e
  <2> QED BY <1>1, <2>1, <2>2, <2>3
<1> HIDE DEF k
<1>5. \A m \in InAnswer : \E i \in 1..k : m = kept[i]
  BY <1>4 DEF InAnswer
<1>6. \A i \in 1..k : kept[i] \in InAnswer
  BY <1>4 DEF InAnswer
<1>7. InAnswer \subseteq Kept
  BY <1>1, <1>4, <1>5 DEF Kept
\* Whatever the limit cuts off ranks below a full answer.
<1>8. ASSUME NEW m \in Kept \ InAnswer
      PROVE  k = hits.limit /\ \A a \in InAnswer : RanksBefore(a, m)
  <2>1. PICK j \in DOMAIN kept : m = kept[j]
    BY <1>8 DEF Kept
  <2>2. j \in Nat /\ j > k /\ k < Len(kept)
    BY <1>1, <1>4, <1>6, <1>8, <2>1
  <2>3. ASSUME NEW a \in InAnswer PROVE RanksBefore(a, m)
    <3>1. PICK i \in 1..k : a = kept[i]
      BY <1>5
    <3>2. i \in DOMAIN kept /\ i < j
      BY <1>1, <1>4, <2>2, <3>1
    <3> QED BY <1>2, <2>1, <3>1, <3>2
  <2> QED BY <1>4, <2>2, <2>3
<1>9. ASSUME NEW n \in LegUnion \ InAnswer
      PROVE  \/ k = hits.limit /\ \A m \in InAnswer : RanksBefore(m, n)
             \/ \E m \in InAnswer : RanksBefore(m, n) /\ Restates(m, n)
  <2>1. CASE n \in Kept
    BY <1>8, <1>9, <2>1
  <2>2. CASE n \notin Kept
    <3>1. PICK m \in Kept : RanksBefore(m, n) /\ {m, n} \in near
      BY <1>2, <1>9, <2>2
    <3>2. CASE m \in InAnswer
      BY <1>3, <3>1, <3>2 DEF Restates
    <3>3. CASE m \notin InAnswer
      <4>1. k = hits.limit /\ \A a \in InAnswer : RanksBefore(a, m)
        BY <1>8, <3>1, <3>3
      <4>2. ASSUME NEW a \in InAnswer PROVE RanksBefore(a, n)
        <5>1. a \in HitIds /\ m \in HitIds /\ n \in HitIds
          BY <1>1, <1>7, <1>9, <3>1
        <5> QED BY <1>1, <3>1, <4>1, <5>1, RankOrder
      <4> QED BY <4>1, <4>2
    <3> QED BY <3>2, <3>3
  <2> QED BY <2>1, <2>2
<1>10. ASSUME NEW a \in InAnswer \cap shown, NEW b \in InAnswer \cap shown, {a, b} \in NearPairs
       PROVE  {a, b} \in declared
  <2>1. {a, b} \subseteq LegUnion \cap shown
    BY <1>1, <1>7, <1>10
  <2>2. {a, b} \notin near
    BY <1>2, <1>7, <1>10
  <2> QED BY <1>3, <1>10, <2>1, <2>2
<1>11. hits.failed => ~(InAnswer \subseteq shown)
  <2> SUFFICES ASSUME hits.failed PROVE ~(InAnswer \subseteq shown)
    OBVIOUS
  <2>1. PICK i \in DOMAIN hits.kept : hits.kept[i] \notin hydrated
    BY <1>1
  <2>2. hits.kept[i] \in InAnswer /\ hits.kept[i] \in LegUnion
    BY <1>1, <1>7 DEF InAnswer
  <2> QED BY <1>1, <2>1, <2>2
<1> QED BY <1>9, <1>10, <1>11 DEF SearchLosesNothing, k

\* For any store, order of the legs and limit, whatever is retired, withdrawn or
\* linked between the statements of a search: a hit is answered, ranks below a full
\* answer or restates a hit that the answer ranks above it.
THEOREM NoHitLost == RetrievalSpec => []SearchLosesNothing
<1>1. SearchInv /\ [RetrievalNext]_retrievalVars => SearchInv'
  BY SearchStepInv
<1> QED BY SearchInitInv, <1>1, SearchSound, PTL DEF RetrievalSpec

-----------------------------------------------------------------------------
(* ORDER BY and LIMIT.                                                     *)

LEMMA LeastNumber ==
  ASSUME NEW T, T \subseteq Nat, T # {} PROVE \E m \in T : \A k \in T : m <= k
<1> DEFINE R == OpToRel(<, Nat)
<1>1. IsWellFoundedOn(R, Nat)
  BY NatLessThanWellFounded
<1>2. \A k, m \in Nat : k < m => <<k, m>> \in R
  BY DEF OpToRel
<1> HIDE DEF R
<1>3. PICK m \in T : \A y \in T : ~ (<<y, m>> \in R)
  BY <1>1, WFMin
<1>4. ASSUME NEW k \in T PROVE m <= k
  <2>1. k \in Nat /\ m \in Nat /\ ~(k < m)
    BY <1>2, <1>3
  <2> QED BY <2>1
<1> QED BY <1>4

StrictOrder(rows, order) ==
  /\ \A a \in rows : <<a, a>> \notin order
  /\ \A a, b \in rows : a # b => <<a, b>> \in order \/ <<b, a>> \in order
  /\ \A a, b, c \in rows : <<a, b>> \in order /\ <<b, c>> \in order => <<a, c>> \in order

\* The first rows of a total order come before the others, and there are as many
\* as the limit when one is left out.
LEMMA FirstRowsKept ==
  ASSUME NEW rows, IsFiniteSet(rows), NEW order, StrictOrder(rows, order), NEW limit \in Nat
  PROVE  LET first == FirstOf(limit, rows, order)
         IN /\ first \subseteq rows /\ IsFiniteSet(first) /\ Cardinality(first) <= limit
            /\ \A n \in rows \ first : /\ Cardinality(first) = limit
                                       /\ \A m \in first : <<m, n>> \in order
<1> DEFINE rank(n) == Cardinality(Before(n, rows, order))
           first == FirstOf(limit, rows, order)
<1>1. /\ \A a \in rows : <<a, a>> \notin order
      /\ \A a, b \in rows : a # b => <<a, b>> \in order \/ <<b, a>> \in order
      /\ \A a, b, c \in rows : <<a, b>> \in order /\ <<b, c>> \in order => <<a, c>> \in order
  BY DEF StrictOrder
<1>2. ASSUME NEW n PROVE IsFiniteSet(Before(n, rows, order)) /\ rank(n) \in Nat
  <2>1. Before(n, rows, order) \in SUBSET rows
    BY DEF Before
  <2>2. IsFiniteSet(Before(n, rows, order))
    BY <2>1, FS_Subset
  <2> QED BY <2>2, FS_CardinalityType
<1>3. ASSUME NEW a \in rows, NEW b \in rows, <<a, b>> \in order PROVE rank(a) < rank(b)
  <2> DEFINE A == Before(a, rows, order)  B == Before(b, rows, order)
  <2>1. A \subseteq B /\ a \in B /\ a \notin A
    BY <1>1, <1>3 DEF Before
  <2>2. A \in SUBSET B /\ A # B
    BY <2>1
  <2>3. IsFiniteSet(B) /\ Cardinality(A) \in Nat /\ Cardinality(B) \in Nat
    BY <1>2
  <2> HIDE DEF A, B
  <2>4. Cardinality(A) <= Cardinality(B) /\ Cardinality(A) # Cardinality(B)
    BY <2>2, <2>3, FS_Subset
  <2>5. Cardinality(A) < Cardinality(B)
    BY <2>3, <2>4
  <2> QED BY <2>5 DEF A, B
<1>4. first = {n \in rows : rank(n) < limit}
  BY DEF FirstOf
<1> HIDE DEF rank, first
<1>5. first \subseteq rows /\ IsFiniteSet(first)
  <2>1. first \in SUBSET rows
    BY <1>4
  <2> QED BY <2>1, FS_Subset
<1>6. Cardinality(first) <= limit
  <2> DEFINE f == [n \in first |-> rank(n) + 1]
  <2>1. f \in [first -> 1..limit]
    BY <1>2, <1>4
  <2>2. ASSUME NEW a \in first, NEW b \in first, f[a] = f[b] PROVE a = b
    <3>1. rank(a) = rank(b) /\ rank(a) \in Nat
      BY <1>2, <2>2
    <3>2. ~(rank(a) < rank(b)) /\ ~(rank(b) < rank(a))
      BY <3>1
    <3> QED BY <1>1, <1>3, <1>5, <3>2
  <2> HIDE DEF f
  <2>3. f \in Injection(first, 1..limit)
    BY <2>1, <2>2 DEF Injection, IsInjective
  <2>4. IsFiniteSet(1..limit) /\ Cardinality(1..limit) = limit
    BY FS_Interval
  <2> QED BY <2>3, <2>4, FS_Injection
<1>7. ASSUME NEW n \in rows \ first, NEW m \in first PROVE <<m, n>> \in order
  <2>1. rank(m) < limit /\ ~(rank(n) < limit) /\ rank(m) \in Nat /\ rank(n) \in Nat
    BY <1>2, <1>4, <1>7
  <2>2. rank(m) < rank(n) /\ ~(rank(n) < rank(m))
    BY <2>1
  <2> QED BY <1>1, <1>3, <1>5, <2>2
\* The least of the others has nothing but first ones before it.
<1>8. ASSUME NEW n \in rows \ first PROVE ~(Cardinality(first) < limit)
  <2> SUFFICES ASSUME Cardinality(first) < limit PROVE FALSE
    OBVIOUS
  <2> DEFINE T == {rank(m) : m \in rows \ first}
  <2>1. T \subseteq Nat /\ T # {}
    BY <1>2, <1>8
  <2>2. PICK r \in T : \A k \in T : r <= k
    BY <2>1, LeastNumber
  <2>3. PICK m \in rows \ first : r = rank(m)
    OBVIOUS
  <2>4. Before(m, rows, order) \in SUBSET first
    <3>1. ASSUME NEW a \in Before(m, rows, order) PROVE a \in first
      <4>1. a \in rows /\ <<a, m>> \in order
        BY DEF Before
      <4>2. rank(a) < rank(m) /\ rank(a) \in Nat /\ rank(m) \in Nat
        BY <1>2, <1>3, <4>1
      <4>3. ~(r <= rank(a))
        BY <2>3, <4>2
      <4> QED BY <2>2, <4>1, <4>3
    <3> QED BY <3>1
  <2>5. rank(m) <= Cardinality(first)
    BY <1>5, <2>4, FS_Subset DEF rank
  <2>6. rank(m) < limit
    BY <1>2, <1>5, <2>5, FS_CardinalityType
  <2> QED BY <1>4, <2>6
<1>9. \A n \in rows \ first : Cardinality(first) = limit
  <2>1. Cardinality(first) \in Nat
    BY <1>5, FS_CardinalityType
  <2> QED BY <1>6, <1>8, <2>1
<1> QED BY <1>5, <1>6, <1>7, <1>9 DEF first

-----------------------------------------------------------------------------
(* Dates are totally ordered as texts, and a text that comes before another  *)
(* starts a period that does not start after the other's, nor after its end. *)

LEMMA Wholes ==
  ASSUME NEW d \in Dates
  PROVE  /\ DOMAIN d \subseteq 1..DateParts /\ \A i \in DOMAIN d : i \in Nat /\ i > 0 /\ d[i] \in 1..LastOfPart
         /\ \A i \in DOMAIN d : \A j \in 1..i : j \in DOMAIN d
         /\ \A i \in 1..DateParts :
              /\ FirstDay(d)[i] = IF i \in DOMAIN d THEN d[i] ELSE 1
              /\ LastDay(d)[i] = IF i \in DOMAIN d THEN d[i] ELSE LastOfPart
         /\ DOMAIN FirstDay(d) = 1..DateParts /\ DOMAIN LastDay(d) = 1..DateParts
         /\ DateParts \in Nat /\ LastOfPart \in Nat /\ LastOfPart > 0
<1>1. PICK k \in 0..DateParts : d \in [1..k -> 1..LastOfPart]
  BY DEF Dates
<1>2. DateParts \in Nat /\ LastOfPart \in Nat /\ LastOfPart > 0
  BY BriefingAssumption
<1>3. DOMAIN d = 1..k /\ \A i \in 1..k : d[i] \in 1..LastOfPart
  BY <1>1
<1>4. DOMAIN d \subseteq 1..DateParts /\ \A i \in DOMAIN d : i \in Nat /\ i > 0
  BY <1>2, <1>3
<1>5. \A i \in DOMAIN d : \A j \in 1..i : j \in DOMAIN d
  BY <1>2, <1>3
<1> QED BY <1>2, <1>3, <1>4, <1>5 DEF FirstDay, LastDay

LEMMA DatesApart ==
  ASSUME NEW a \in Dates, NEW b \in Dates
  PROVE  ~DateBefore(a, a) /\ (a # b => DateBefore(a, b) \/ DateBefore(b, a))
<1>1. /\ \A i \in DOMAIN a : i \in Nat /\ i > 0 /\ a[i] \in Nat /\ \A j \in 1..i : j \in DOMAIN a
      /\ \A i \in DOMAIN b : i \in Nat /\ i > 0 /\ b[i] \in Nat /\ \A j \in 1..i : j \in DOMAIN b
  BY Wholes
<1>2. ~DateBefore(a, a)
  BY <1>1 DEF DateBefore
<1>3. ASSUME a # b PROVE DateBefore(a, b) \/ DateBefore(b, a)
  <2> DEFINE T == {i \in DOMAIN a \cup DOMAIN b : ~(i \in DOMAIN a /\ i \in DOMAIN b /\ a[i] = b[i])}
  <2>1. T \subseteq Nat
    BY <1>1
  <2>2. T # {}
    <3> SUFFICES ASSUME T = {} PROVE FALSE
      OBVIOUS
    <3>1. DOMAIN a = DOMAIN b /\ \A i \in DOMAIN a : a[i] = b[i]
      OBVIOUS
    <3>2. a = [i \in DOMAIN a |-> a[i]] /\ b = [i \in DOMAIN b |-> b[i]]
      <4>1. \A d \in Dates : d = [i \in DOMAIN d |-> d[i]]
        BY DEF Dates
      <4> QED BY <4>1
    <3> QED BY <1>3, <3>1, <3>2
  <2>3. PICK i \in T : \A k \in T : i <= k
    BY <2>1, <2>2, LeastNumber
  <2>4. \A j \in 1..(i - 1) : j \in DOMAIN a /\ j \in DOMAIN b /\ a[j] = b[j]
    <3> SUFFICES ASSUME NEW j \in 1..(i - 1) PROVE j \in DOMAIN a \cup DOMAIN b /\ j \notin T
      OBVIOUS
    <3>1. i \in Nat /\ j \in Nat /\ ~(i <= j) /\ j \in 1..i
      BY <2>1
    <3>2. j \in DOMAIN a \/ j \in DOMAIN b
      BY <1>1, <3>1
    <3> QED BY <2>3, <3>1, <3>2
  <2>5. CASE i \notin DOMAIN a
    BY <2>4, <2>5 DEF DateBefore
  <2>6. CASE i \notin DOMAIN b
    BY <2>4, <2>6 DEF DateBefore
  <2>7. CASE i \in DOMAIN a /\ i \in DOMAIN b
    <3>1. a[i] < b[i] \/ b[i] < a[i]
      BY <1>1, <2>7
    <3> QED BY <2>4, <2>7, <3>1 DEF DateBefore
  <2> QED BY <2>5, <2>6, <2>7
<1> QED BY <1>2, <1>3

LEMMA DatesChain ==
  ASSUME NEW a \in Dates, NEW b \in Dates, NEW c \in Dates, DateBefore(a, b), DateBefore(b, c)
  PROVE  DateBefore(a, c)
<1>1. /\ \A i \in DOMAIN a : i \in Nat /\ i > 0 /\ a[i] \in Nat /\ \A j \in 1..i : j \in DOMAIN a
      /\ \A i \in DOMAIN b : i \in Nat /\ i > 0 /\ b[i] \in Nat /\ \A j \in 1..i : j \in DOMAIN b
      /\ \A i \in DOMAIN c : i \in Nat /\ i > 0 /\ c[i] \in Nat /\ \A j \in 1..i : j \in DOMAIN c
  BY Wholes
<1>2. PICK i \in DOMAIN b : /\ \A j \in 1..(i - 1) : j \in DOMAIN a /\ a[j] = b[j]
                            /\ i \in DOMAIN a => a[i] < b[i]
  BY DEF DateBefore
<1>3. PICK k \in DOMAIN c : /\ \A j \in 1..(k - 1) : j \in DOMAIN b /\ b[j] = c[j]
                            /\ k \in DOMAIN b => b[k] < c[k]
  BY DEF DateBefore
<1>4. i \in Nat /\ k \in Nat /\ i > 0 /\ k > 0
  BY <1>1
<1>5. CASE i < k
  <2>1. i \in 1..(k - 1) /\ i \in DOMAIN c
    BY <1>1, <1>4, <1>5
  <2>2. \A j \in 1..(i - 1) : j \in 1..(k - 1)
    BY <1>4, <1>5
  <2> QED BY <1>2, <1>3, <2>1, <2>2 DEF DateBefore
<1>6. CASE k < i
  <2>1. k \in 1..(i - 1)
    BY <1>4, <1>6
  <2>2. \A j \in 1..(k - 1) : j \in 1..(i - 1)
    BY <1>4, <1>6
  <2>3. k \in DOMAIN b
    BY <1>2, <2>1, <1>1, <1>4, <1>6
  <2> QED BY <1>2, <1>3, <2>1, <2>2, <2>3 DEF DateBefore
<1>7. CASE i = k
  <2>1. i \in DOMAIN a => a[i] \in Nat /\ b[i] \in Nat /\ c[i] \in Nat /\ a[i] < b[i] /\ b[i] < c[i]
    BY <1>1, <1>2, <1>3, <1>7
  <2>2. i \in DOMAIN a => a[i] < c[i]
    BY <2>1
  <2> QED BY <1>2, <1>3, <1>7, <2>2 DEF DateBefore
<1> QED BY <1>4, <1>5, <1>6, <1>7

LEMMA Periods ==
  ASSUME NEW a \in Dates, NEW b \in Dates, DateBefore(a, b)
  PROVE  /\ ~DateBefore(FirstDay(b), FirstDay(a))
         /\ ~DateBefore(LastDay(b), FirstDay(a))
<1>1. PICK i \in DOMAIN b : /\ \A j \in 1..(i - 1) : j \in DOMAIN a /\ a[j] = b[j]
                            /\ i \in DOMAIN a => a[i] < b[i]
  BY DEF DateBefore
<1>2. /\ \A m \in DOMAIN a : m \in Nat /\ m > 0 /\ a[m] \in Nat /\ a[m] >= 1 /\ \A j \in 1..m : j \in DOMAIN a
      /\ \A m \in DOMAIN b : m \in Nat /\ m > 0 /\ b[m] \in Nat /\ b[m] >= 1 /\ \A j \in 1..m : j \in DOMAIN b
      /\ DOMAIN b \subseteq 1..DateParts
      /\ DateParts \in Nat /\ LastOfPart \in Nat /\ LastOfPart > 0
  BY Wholes
<1>3. /\ \A m \in 1..DateParts : FirstDay(a)[m] = IF m \in DOMAIN a THEN a[m] ELSE 1
      /\ \A m \in 1..DateParts : FirstDay(b)[m] = IF m \in DOMAIN b THEN b[m] ELSE 1
      /\ \A m \in 1..DateParts : LastDay(b)[m] = IF m \in DOMAIN b THEN b[m] ELSE LastOfPart
      /\ DOMAIN FirstDay(a) = 1..DateParts /\ DOMAIN FirstDay(b) = 1..DateParts
      /\ DOMAIN LastDay(b) = 1..DateParts
  BY Wholes
\* d is either whole date of b.
<1>4. ASSUME NEW d, DOMAIN d = 1..DateParts, \A m \in DOMAIN b : d[m] = b[m],
             \A m \in 1..DateParts : d[m] \in Nat /\ d[m] >= 1, DateBefore(d, FirstDay(a))
      PROVE  FALSE
  <2>1. PICK k \in 1..DateParts : /\ \A j \in 1..(k - 1) : d[j] = FirstDay(a)[j]
                                  /\ d[k] < FirstDay(a)[k]
    BY <1>3, <1>4 DEF DateBefore
  <2>2. k \in Nat /\ i \in Nat /\ i \in 1..DateParts /\ k > 0 /\ i > 0
    BY <1>2, <2>1
  <2>3. CASE k < i
    <3>1. k \in 1..(i - 1) /\ k \in DOMAIN a /\ k \in DOMAIN b
      BY <1>1, <1>2, <2>2, <2>3
    <3> QED BY <1>1, <1>2, <1>3, <1>4, <2>1, <3>1
  <2>4. CASE k = i
    <3>1. d[i] = b[i] /\ d[i] < FirstDay(a)[i]
      BY <1>4, <2>1, <2>4
    <3>2. CASE i \in DOMAIN a
      BY <1>1, <1>2, <1>3, <2>2, <3>1, <3>2
    <3>3. CASE i \notin DOMAIN a
      BY <1>2, <1>3, <2>2, <3>1, <3>3
    <3> QED BY <3>2, <3>3
  <2>5. CASE k > i
    <3>1. i \in 1..(k - 1)
      BY <2>2, <2>5
    <3>2. b[i] = FirstDay(a)[i] /\ b[i] \in Nat
      BY <1>2, <1>4, <2>1, <3>1
    <3>3. i \notin DOMAIN a
      BY <1>1, <1>2, <1>3, <2>2, <3>2
    <3>4. k \notin DOMAIN a
      BY <1>2, <2>2, <2>5, <3>3
    <3> QED BY <1>3, <1>4, <2>1, <3>4
  <2> QED BY <2>2, <2>3, <2>4, <2>5
<1>5. \A m \in DOMAIN b : FirstDay(b)[m] = b[m] /\ LastDay(b)[m] = b[m]
  BY <1>2, <1>3
<1>6. \A m \in 1..DateParts : /\ FirstDay(b)[m] \in Nat /\ FirstDay(b)[m] >= 1
                              /\ LastDay(b)[m] \in Nat /\ LastDay(b)[m] >= 1
  BY <1>2, <1>3
<1> QED BY <1>3, <1>4, <1>5, <1>6

\* A period that ends before a text comes before it; none ends before it starts.
LEMMA PeriodEnds ==
  ASSUME NEW d \in Dates
  PROVE  /\ ~DateBefore(LastDay(d), FirstDay(d))
         /\ \A b \in Dates : DateBefore(LastDay(d), b) => DateBefore(d, b)
<1>1. /\ \A m \in DOMAIN d : m \in Nat /\ m > 0 /\ d[m] \in Nat /\ \A j \in 1..m : j \in DOMAIN d
      /\ \A m \in 1..DateParts : FirstDay(d)[m] = IF m \in DOMAIN d THEN d[m] ELSE 1
      /\ \A m \in 1..DateParts : LastDay(d)[m] = IF m \in DOMAIN d THEN d[m] ELSE LastOfPart
      /\ DOMAIN FirstDay(d) = 1..DateParts /\ DOMAIN LastDay(d) = 1..DateParts
      /\ DateParts \in Nat /\ LastOfPart \in Nat /\ LastOfPart > 0
  BY Wholes
<1>2. \A m \in 1..DateParts : ~(LastDay(d)[m] < FirstDay(d)[m])
  BY <1>1
<1>3. ~DateBefore(LastDay(d), FirstDay(d))
  BY <1>1, <1>2 DEF DateBefore
<1>4. ASSUME NEW b \in Dates, DateBefore(LastDay(d), b) PROVE DateBefore(d, b)
  <2>1. PICK i \in DOMAIN b : /\ \A j \in 1..(i - 1) : j \in 1..DateParts /\ LastDay(d)[j] = b[j]
                              /\ i \in 1..DateParts => LastDay(d)[i] < b[i]
    BY <1>1, <1>4 DEF DateBefore
  <2>2. i \in Nat /\ i > 0 /\ i \in 1..DateParts /\ \A j \in 1..i : j \in DOMAIN b
    BY Wholes
  <2>3. CASE \A j \in 1..(i - 1) : j \in DOMAIN d
    <3>1. \A j \in 1..(i - 1) : j \in DOMAIN d /\ d[j] = b[j]
      BY <1>1, <2>1, <2>3
    <3>2. i \in DOMAIN d => d[i] < b[i]
      BY <1>1, <2>1, <2>2
    <3> QED BY <3>1, <3>2 DEF DateBefore
  <2>4. CASE ~\A j \in 1..(i - 1) : j \in DOMAIN d
    <3> DEFINE T == {j \in 1..(i - 1) : j \notin DOMAIN d}
    <3>1. T \subseteq Nat /\ T # {}
      BY <2>2, <2>4
    <3>2. PICK k \in T : \A j \in T : k <= j
      BY <3>1, LeastNumber
    <3>3. k \in 1..i /\ k \notin DOMAIN d /\ k \in DOMAIN b
      BY <2>2
    <3>4. ASSUME NEW j \in 1..(k - 1) PROVE j \in DOMAIN d /\ d[j] = b[j]
      <4>1. j \in 1..(i - 1) /\ ~(k <= j)
        BY <2>2
      <4>2. j \in DOMAIN d
        BY <3>2, <4>1
      <4> QED BY <1>1, <2>1, <4>1, <4>2
    <3> QED BY <3>3, <3>4 DEF DateBefore
  <2> QED BY <2>3, <2>4
<1> QED BY <1>3, <1>4

\* A period that starts after one has ended comes after it.
LEMMA PeriodStarts ==
  ASSUME NEW a \in Dates, NEW b \in Dates, DateBefore(LastDay(a), FirstDay(b)) PROVE DateBefore(a, b)
<1>1. /\ \A m \in DOMAIN a : m \in Nat /\ m > 0 /\ a[m] \in 1..LastOfPart /\ \A j \in 1..m : j \in DOMAIN a
      /\ \A m \in DOMAIN b : m \in Nat /\ m > 0 /\ b[m] \in 1..LastOfPart /\ \A j \in 1..m : j \in DOMAIN b
      /\ \A m \in 1..DateParts : LastDay(a)[m] = IF m \in DOMAIN a THEN a[m] ELSE LastOfPart
      /\ \A m \in 1..DateParts : FirstDay(b)[m] = IF m \in DOMAIN b THEN b[m] ELSE 1
      /\ DOMAIN LastDay(a) = 1..DateParts /\ DOMAIN FirstDay(b) = 1..DateParts
      /\ DateParts \in Nat /\ LastOfPart \in Nat /\ LastOfPart > 0
  BY Wholes
<1>2. PICK i \in 1..DateParts : /\ \A j \in 1..(i - 1) : LastDay(a)[j] = FirstDay(b)[j]
                                /\ LastDay(a)[i] < FirstDay(b)[i]
  BY <1>1 DEF DateBefore
<1>3. i \in DOMAIN a /\ i \in DOMAIN b
  <2>1. i \notin DOMAIN a => LastDay(a)[i] = LastOfPart
    BY <1>1
  <2>2. i \notin DOMAIN b => FirstDay(b)[i] = 1
    BY <1>1
  <2>3. LastDay(a)[i] \in 1..LastOfPart /\ FirstDay(b)[i] \in 1..LastOfPart
    BY <1>1
  <2> QED BY <1>1, <1>2, <2>1, <2>2, <2>3
<1>4. \A j \in 1..(i - 1) : j \in 1..i /\ j \in 1..DateParts
  BY <1>1
<1>5. \A j \in 1..(i - 1) : j \in DOMAIN a /\ j \in DOMAIN b
  BY <1>1, <1>3, <1>4
<1>6. \A j \in 1..(i - 1) : a[j] = b[j]
  BY <1>1, <1>2, <1>4, <1>5
<1>7. a[i] < b[i]
  BY <1>1, <1>2, <1>3
<1> QED BY <1>3, <1>5, <1>6, <1>7 DEF DateBefore

\* where_attr compares texts: what it lets in meets the bounds, and it lets in what
\* lies within them.
LEMMA BoundsMet ==
  ASSUME BriefingAssumption, NEW s \in BriefSection, NEW n, shelf[n].due \in Dates
  PROVE  /\ Dated(s, n) => MeetsBounds(s, shelf[n].due)
         /\ Within(s, shelf[n].due) => Dated(s, n)
<1> DEFINE due == shelf[n].due
<1>1. s.before \in Dates /\ s.after \in Dates /\ due \in Dates
  BY DEF BriefSection
<1> HIDE DEF due
<1>2. /\ DateBefore(due, s.before) => ~DateBefore(FirstDay(s.before), FirstDay(due))
      /\ DateBefore(s.after, due) => ~DateBefore(FirstDay(due), FirstDay(s.after))
      /\ DateBefore(LastDay(due), s.before) => DateBefore(due, s.before)
      /\ DateBefore(LastDay(s.after), FirstDay(due)) => DateBefore(s.after, due)
  BY <1>1, Periods, PeriodEnds, PeriodStarts
<1>3. s.after # <<>> /\ DateBefore(LastDay(s.after), FirstDay(due)) => due # <<>>
  <2> SUFFICES ASSUME DateBefore(LastDay(s.after), FirstDay(due)) PROVE due # <<>>
    OBVIOUS
  <2>1. DateBefore(s.after, due)
    BY <1>2
  <2>2. DOMAIN due # {}
    BY <2>1 DEF DateBefore
  <2> QED BY <2>2
<1>4. Dated(s, n) <=> /\ s.before # <<>> => due # <<>> /\ DateBefore(due, s.before)
                      /\ s.after # <<>> => due # <<>> /\ DateBefore(s.after, due)
                      /\ s.equals # <<>> => due = s.equals
  BY DEF Dated, due
<1>5. Dated(s, n) => MeetsBounds(s, due)
  BY <1>2, <1>4 DEF MeetsBounds
<1>6. Within(s, due) => Dated(s, n)
  BY <1>2, <1>3, <1>4 DEF Within
<1> QED BY <1>5, <1>6 DEF due

-----------------------------------------------------------------------------
(* Briefing: what a briefing shows and counts.                             *)

PageEntry ==
  [shown : SUBSET ShelfIds, linked : SUBSET ShelfIds, section : BriefSection,
   pool : UNION {[rows -> Dates] : rows \in SUBSET ShelfIds}]

HintSteps == {"lexical", "hydrate", "near", "declared"}

BriefShaped ==
  /\ brief \in [at : BriefingOpen \cup {"none", "refused", "answered", "failed"},
                scope : {"all"} \cup ReadScopes, hint : BOOLEAN, restricted : BOOLEAN,
                layout : Seq(BriefSection), scopes : SUBSET ReadScopes]
  /\ sight \subseteq ReadScopes /\ shelf \in [ShelfIds -> StoredRow]
  /\ page \in Seq(PageEntry) /\ recalls \in [ShelfIds -> Nat]
  /\ hunt \in [vector : SUBSET ShelfIds, lexical : SUBSET ShelfIds, hydrated : SUBSET ShelfIds,
              near : SUBSET HintPairs]

\* A hint finds no sentinel, and is searched for in a semantic section.
HintsSound ==
  /\ \A n \in HintUnion : shelf[n].type # HiddenType
  /\ brief.at \in HintSteps => Len(page) < Len(brief.layout) /\ NextSection.semantic

\* A section is as its statement found it; of the store only the types stay.
SoundSection(p, store) ==
  LET s == p.section
      out == (DOMAIN p.pool) \ p.shown
  IN /\ \A n \in p.shown : store[n].type # HiddenType
     /\ Cardinality(p.shown) <= SectionCap
     /\ ~s.semantic => \A n \in p.shown : MeetsBounds(s, p.pool[n])
     /\ (\E n \in out : Within(s, p.pool[n])) => Cardinality(p.shown) = SectionCap
     /\ ~s.semantic /\ s.byDue => \A n \in out, m \in p.shown :
          Within(s, p.pool[n]) /\ p.pool[n] # <<>> =>
            p.pool[m] # <<>> /\ ~DateBefore(LastDay(p.pool[n]), FirstDay(p.pool[m]))

\* Nothing is counted before the answer; with it, all that may still be read.
RecallsCounted ==
  /\ \A n \in ShelfIds :
       recalls[n] = IF brief.at = "answered" /\ n \in Surfaced /\ Visible(n) THEN 1 ELSE 0
  /\ logged = IF brief.at = "answered" /\ brief.scope = "all" THEN 1 ELSE 0

PageSound == \A i \in DOMAIN page : SoundSection(page[i], shelf)

BriefInv == BriefShaped /\ HintsSound /\ PageSound /\ RecallsCounted

LEMMA BriefStart == BriefingInit => BriefInv
<1> SUFFICES ASSUME BriefingInit PROVE BriefInv
  OBVIOUS
<1>1. brief = NoBriefing /\ page = <<>> /\ recalls = [n \in ShelfIds |-> 0] /\ logged = 0
      /\ sight = ReadScopes /\ shelf \in Shelves /\ Shelves \subseteq [ShelfIds -> StoredRow]
      /\ hunt = NoHunt
  BY BriefingAssumption DEF BriefingInit
<1>2. <<>> \in Seq(BriefSection) /\ <<>> \in Seq(PageEntry) /\ DOMAIN <<>> = {}
  BY EmptySeq
<1>3. brief.at = "none" /\ HintUnion = {}
  BY <1>1 DEF NoBriefing, NoHunt, HintUnion
<1>4. BriefShaped
  BY <1>1, <1>2 DEF BriefShaped, NoBriefing, NoHunt
<1>5. PageSound /\ HintsSound
  BY <1>1, <1>2, <1>3 DEF PageSound, HintsSound, HintSteps
<1> QED BY <1>1, <1>3, <1>4, <1>5 DEF BriefInv, RecallsCounted

-----------------------------------------------------------------------------
(* What a section shows.                                                   *)

LEMMA RowsOrdered ==
  ASSUME BriefShaped, NEW byDue \in BOOLEAN, NEW rows \in SUBSET ShelfIds
  PROVE  StrictOrder(rows, {p \in rows \X rows : IF byDue THEN Sooner(p[1], p[2]) ELSE Newer(p[1], p[2])})
<1> DEFINE order == {p \in rows \X rows : IF byDue THEN Sooner(p[1], p[2]) ELSE Newer(p[1], p[2])}
<1>1. \A n \in rows : n \in Nat /\ shelf[n].due \in Dates /\ shelf[n].stamp \in Nat
  BY BriefingAssumption DEF BriefShaped, StoredRow
<1>2. /\ \A a \in rows : ~Newer(a, a)
      /\ \A a, b \in rows : a # b => Newer(a, b) \/ Newer(b, a)
      /\ \A a, b, c \in rows : Newer(a, b) /\ Newer(b, c) => Newer(a, c)
  BY <1>1 DEF Newer
<1>3. /\ \A a \in rows : ~DateBefore(shelf[a].due, shelf[a].due)
      /\ \A a, b \in rows : shelf[a].due # shelf[b].due =>
           DateBefore(shelf[a].due, shelf[b].due) \/ DateBefore(shelf[b].due, shelf[a].due)
  BY <1>1, DatesApart
<1>4. \A a, b, c \in rows : DateBefore(shelf[a].due, shelf[b].due) /\ DateBefore(shelf[b].due, shelf[c].due)
        => DateBefore(shelf[a].due, shelf[c].due)
  BY <1>1, DatesChain
<1>5. /\ \A a \in rows : ~Sooner(a, a)
      /\ \A a, b \in rows : a # b => Sooner(a, b) \/ Sooner(b, a)
      /\ \A a, b, c \in rows : Sooner(a, b) /\ Sooner(b, c) => Sooner(a, c)
  <2>1. \A a \in rows : ~Sooner(a, a)
    BY <1>2, <1>3 DEF Sooner
  <2>2. ASSUME NEW a \in rows, NEW b \in rows, a # b PROVE Sooner(a, b) \/ Sooner(b, a)
    BY <1>2, <1>3, <2>2 DEF Sooner
  <2>3. ASSUME NEW a \in rows, NEW b \in rows, NEW c \in rows, Sooner(a, b), Sooner(b, c)
        PROVE  Sooner(a, c)
    BY <1>2, <1>4, <2>3 DEF Sooner
  <2> QED BY <2>1, <2>2, <2>3
<1>6. \A a, b \in rows : <<a, b>> \in order <=> IF byDue THEN Sooner(a, b) ELSE Newer(a, b)
  OBVIOUS
<1> HIDE DEF order
<1>7. StrictOrder(rows, order)
  BY <1>2, <1>5, <1>6 DEF StrictOrder
<1> QED BY <1>7 DEF order

LEMMA FilterSection ==
  ASSUME BriefShaped, NEW s \in BriefSection
  PROVE  LET pool == {n \in ShelfIds : Eligible(s, n)}
         IN /\ FilterRows(s) \subseteq pool /\ Cardinality(FilterRows(s)) <= SectionCap
            /\ \A n \in FilterRows(s) : Dated(s, n)
            /\ \A n \in pool \ FilterRows(s) : Dated(s, n) =>
                 /\ Cardinality(FilterRows(s)) = SectionCap
                 /\ s.byDue => \A m \in FilterRows(s) : Sooner(m, n)
<1> DEFINE rows == {n \in ShelfIds : Eligible(s, n) /\ Dated(s, n)}
           byDue == s.byDue
           order == {p \in rows \X rows : IF byDue THEN Sooner(p[1], p[2]) ELSE Newer(p[1], p[2])}
           first == FirstOf(SectionCap, rows, order)
<1>1. FilterRows(s) = first
  BY DEF FilterRows
<1>2. rows \in SUBSET ShelfIds /\ byDue \in BOOLEAN /\ SectionCap \in Nat
  BY BriefingAssumption DEF BriefSection
<1>3. IsFiniteSet(rows)
  BY <1>2, BriefingAssumption, FS_Subset
<1>4. \A a, b \in rows : byDue /\ <<a, b>> \in order => Sooner(a, b)
  OBVIOUS
<1>5. \A n \in rows : n \in ShelfIds /\ Eligible(s, n) /\ Dated(s, n)
  OBVIOUS
<1>6. \A n \in ShelfIds : Eligible(s, n) /\ Dated(s, n) => n \in rows
  OBVIOUS
<1> HIDE DEF rows, byDue
<1>7. StrictOrder(rows, order)
  BY <1>2, RowsOrdered
<1> HIDE DEF order
<1>8. /\ first \subseteq rows /\ Cardinality(first) <= SectionCap
      /\ \A n \in rows \ first : Cardinality(first) = SectionCap /\ \A m \in first : <<m, n>> \in order
  BY <1>2, <1>3, <1>7, FirstRowsKept
<1> HIDE DEF first
<1> QED BY <1>1, <1>4, <1>5, <1>6, <1>8 DEF byDue

\* The fused hits are in a total order.
LEMMA HintsOrdered ==
  ASSUME BriefShaped, NEW rows \in SUBSET ShelfIds
  PROVE  StrictOrder(rows, {p \in rows \X rows : HintBefore(p[1], p[2])})
<1> DEFINE order == {p \in rows \X rows : HintBefore(p[1], p[2])}
<1>1. IsFiniteSet(hunt.vector) /\ IsFiniteSet(hunt.lexical)
  BY BriefingAssumption, FS_Subset DEF BriefShaped
<1>2. ASSUME NEW n \in rows PROVE HintScore(n) \in Nat /\ BornOf(n) \in Nat /\ n \in Nat
  <2>1. /\ Share(hunt.vector, ListOrder(HintVector), n) \in Nat
        /\ Share(hunt.lexical, ListOrder(HintLexical), n) \in Nat
    BY <1>1, ShareNat
  <2>2. n \in ShelfIds /\ n \in Nat /\ Born[n] \in Nat
    BY BriefingAssumption
  <2> QED BY <2>1, <2>2 DEF HintScore, BornOf
<1>3. \A a \in rows : ~HintBefore(a, a)
  BY <1>2 DEF HintBefore
<1>4. ASSUME NEW a \in rows, NEW b \in rows, a # b PROVE HintBefore(a, b) \/ HintBefore(b, a)
  BY <1>2, <1>4 DEF HintBefore
<1>5. ASSUME NEW a \in rows, NEW b \in rows, NEW c \in rows, HintBefore(a, b), HintBefore(b, c)
      PROVE  HintBefore(a, c)
  BY <1>2, <1>5 DEF HintBefore
<1>6. \A a, b \in rows : <<a, b>> \in order <=> HintBefore(a, b)
  OBVIOUS
<1> HIDE DEF order
<1>7. StrictOrder(rows, order)
  BY <1>3, <1>4, <1>5, <1>6 DEF StrictOrder
<1> QED BY <1>7 DEF order

\* What a leg finds is in the store and no sentinel.
LEMMA LegSound ==
  ASSUME NEW s \in BriefSection, NEW list \in Seq(ShelfIds)
  PROVE  HintLeg(s, list) \subseteq {n \in ShelfIds : shelf[n].type # HiddenType}
<1>1. \A i \in DOMAIN list : list[i] \in ShelfIds
  BY ElementOfSeq, LenProperties
<1> QED BY <1>1 DEF HintLeg, FirstOf

\* The entry that a section adds for these rows of a pool.
SectionEntry(s, rows, pool) ==
  [shown |-> rows, linked |-> {}, section |-> s, pool |-> [n \in pool |-> shelf[n].due]]

LEMMA EntryShaped ==
  ASSUME BriefShaped, NEW s \in BriefSection, NEW rows \in SUBSET ShelfIds, NEW pool \in SUBSET ShelfIds
  PROVE  /\ SectionEntry(s, rows, pool) \in PageEntry
         /\ DOMAIN SectionEntry(s, rows, pool).pool = pool
         /\ \A n \in pool : SectionEntry(s, rows, pool).pool[n] = shelf[n].due
<1>1. [n \in pool |-> shelf[n].due] \in [pool -> Dates]
  BY DEF BriefShaped, StoredRow
<1> QED BY <1>1 DEF SectionEntry, PageEntry

\* A section without a pool: a semantic one, or one that nothing was asked of.
LEMMA PoollessSound ==
  ASSUME BriefShaped, NEW s \in BriefSection, NEW rows \in SUBSET ShelfIds,
         s.semantic \/ rows = {}, Cardinality(rows) <= SectionCap,
         \A n \in rows : shelf[n].type # HiddenType
  PROVE  SectionEntry(s, rows, {}) \in PageEntry /\ SoundSection(SectionEntry(s, rows, {}), shelf)
<1> DEFINE p == SectionEntry(s, rows, {})
<1>1. p \in PageEntry /\ DOMAIN p.pool = {}
  BY EntryShaped
<1>2. p.shown = rows /\ p.section = s
  BY DEF SectionEntry
<1> HIDE DEF p
<1>3. SoundSection(p, shelf)
  BY <1>1, <1>2 DEF SoundSection
<1> QED BY <1>1, <1>3 DEF p

LEMMA EmptySound ==
  ASSUME BriefShaped, NEW s \in BriefSection
  PROVE  SectionEntry(s, {}, {}) \in PageEntry /\ SoundSection(SectionEntry(s, {}, {}), shelf)
<1>1. Cardinality({}) <= SectionCap
  BY BriefingAssumption, FS_EmptySet
<1> QED BY <1>1, PoollessSound

LEMMA SectionSound ==
  ASSUME BriefShaped, NEW s \in BriefSection, ~s.semantic
  PROVE  LET p == SectionEntry(s, FilterRows(s), {n \in ShelfIds : Eligible(s, n)})
         IN p \in PageEntry /\ SoundSection(p, shelf)
<1> DEFINE rows == FilterRows(s)  pool == {n \in ShelfIds : Eligible(s, n)}
           p == SectionEntry(s, rows, pool)
<1>1. \A n \in ShelfIds : shelf[n].due \in Dates
  BY DEF BriefShaped, StoredRow
<1>2. /\ rows \subseteq pool /\ Cardinality(rows) <= SectionCap
      /\ \A n \in rows : Dated(s, n)
      /\ \A n \in pool \ rows : Dated(s, n) =>
           /\ Cardinality(rows) = SectionCap
           /\ s.byDue => \A m \in rows : Sooner(m, n)
  BY FilterSection
<1>3. pool \subseteq ShelfIds /\ \A n \in pool : shelf[n].type # HiddenType
  BY DEF Eligible
<1> HIDE DEF rows, pool
<1>4. rows \in SUBSET ShelfIds /\ pool \in SUBSET ShelfIds
  BY <1>2, <1>3
<1>5. p \in PageEntry /\ DOMAIN p.pool = pool /\ \A n \in pool : p.pool[n] = shelf[n].due
  BY <1>4, EntryShaped
<1>6. p.shown = rows /\ p.section = s
  BY DEF SectionEntry
<1> HIDE DEF p
<1>7. \A n \in pool : /\ Dated(s, n) => MeetsBounds(s, p.pool[n])
                      /\ Within(s, p.pool[n]) => Dated(s, n)
  BY <1>1, <1>3, <1>5, BoundsMet, BriefingAssumption
<1>8. ASSUME s.byDue, NEW n \in pool \ rows, NEW m \in rows, Within(s, p.pool[n]), p.pool[n] # <<>>
      PROVE  p.pool[m] # <<>> /\ ~DateBefore(LastDay(p.pool[n]), FirstDay(p.pool[m]))
  <2>1. Sooner(m, n) /\ m \in pool /\ n \in pool
    BY <1>2, <1>7, <1>8
  <2>2. p.pool[m] = shelf[m].due /\ p.pool[n] = shelf[n].due /\ p.pool[m] \in Dates /\ p.pool[n] \in Dates
    BY <1>1, <1>3, <1>5, <2>1
  <2>3. p.pool[m] # <<>> /\ (DateBefore(p.pool[m], p.pool[n]) \/ p.pool[m] = p.pool[n])
    BY <1>8, <2>1, <2>2 DEF Sooner
  <2> QED BY <2>2, <2>3, Periods, PeriodEnds
<1>9. SoundSection(p, shelf)
  <2>1. \A n \in p.shown : shelf[n].type # HiddenType /\ MeetsBounds(s, p.pool[n])
    BY <1>2, <1>3, <1>6, <1>7
  <2>2. \A n \in (DOMAIN p.pool) \ p.shown : Within(s, p.pool[n]) => Cardinality(p.shown) = SectionCap
    BY <1>2, <1>5, <1>6, <1>7
  <2>3. s.byDue => \A n \in (DOMAIN p.pool) \ p.shown, m \in p.shown :
          Within(s, p.pool[n]) /\ p.pool[n] # <<>> =>
            p.pool[m] # <<>> /\ ~DateBefore(LastDay(p.pool[n]), FirstDay(p.pool[m]))
    BY <1>5, <1>6, <1>8
  <2> QED BY <1>2, <1>6, <2>1, <2>2, <2>3 DEF SoundSection
<1> QED BY <1>5, <1>9 DEF p, rows, pool

-----------------------------------------------------------------------------
(* The steps of a briefing.                                                *)

\* A section is added, and nothing but the step changes beside it.
LEMMA AddsInv ==
  ASSUME BriefInv, NEW rows \in SUBSET ShelfIds, NEW pool \in SUBSET ShelfIds, Adds(rows, pool),
         brief.at # "answered", Len(page) < Len(brief.layout),
         SoundSection(SectionEntry(NextSection, rows, pool), shelf)
  PROVE  BriefInv'
<1> DEFINE p == SectionEntry(NextSection, rows, pool)
<1>1. /\ BriefShaped /\ HintsSound /\ PageSound /\ RecallsCounted /\ page \in Seq(PageEntry)
      /\ Len(page) \in Nat /\ DOMAIN page = 1..Len(page)
  BY LenProperties DEF BriefInv, BriefShaped
<1>2. NextSection \in BriefSection
  <2>1. brief.layout \in Seq(BriefSection) /\ Len(brief.layout) \in Nat
    BY <1>1, LenProperties DEF BriefShaped
  <2>2. Len(page) + 1 \in 1..Len(brief.layout)
    BY <1>1, <2>1
  <2> QED BY <2>1, <2>2, ElementOfSeq DEF NextSection
<1>3. p \in PageEntry
  BY <1>1, <1>2, EntryShaped
<1>4. /\ page' = Append(page, p) /\ UNCHANGED <<shelf, sight, hunt, recalls, logged>>
      /\ brief' = [brief EXCEPT !.at = IF NextSection.linked # "none" /\ rows # {} THEN "linked" ELSE "sections"]
  BY DEF Adds, SectionEntry
<1> HIDE DEF p
<1>5. /\ page' \in Seq(PageEntry) /\ DOMAIN page' = 1..(Len(page) + 1)
      /\ page'[Len(page) + 1] = p /\ \A i \in 1..Len(page) : page'[i] = page[i]
  BY <1>1, <1>3, <1>4, AppendProperties, LenProperties
<1>6. PICK at \in {"linked", "sections"} : brief' = [brief EXCEPT !.at = at]
  BY <1>4
<1>7. BriefShaped' /\ brief'.at \in {"linked", "sections"}
  BY <1>1, <1>4, <1>5, <1>6 DEF BriefShaped, BriefingOpen
<1>8. PageSound'
  <2>1. SoundSection(p, shelf)
    BY DEF p
  <2> QED BY <1>1, <1>4, <1>5, <2>1 DEF PageSound
<1>9. HintsSound'
  BY <1>1, <1>4, <1>7 DEF HintsSound, HintSteps, HintUnion
<1>10. RecallsCounted'
  BY <1>1, <1>4, <1>7 DEF RecallsCounted
<1> QED BY <1>7, <1>8, <1>9, <1>10 DEF BriefInv

LEMMA SectionInv ==
  ASSUME BriefInv, ShowsSection PROVE BriefInv'
<1>1. BriefShaped /\ brief.at = "sections" /\ Len(page) < Len(brief.layout)
  BY DEF BriefInv, ShowsSection, AtSections
<1>2. NextSection \in BriefSection
  <2>1. brief.layout \in Seq(BriefSection) /\ Len(brief.layout) \in Nat /\ Len(page) \in Nat
    BY <1>1, LenProperties DEF BriefShaped
  <2>2. Len(page) + 1 \in 1..Len(brief.layout)
    BY <1>1, <2>1
  <2> QED BY <2>1, <2>2, ElementOfSeq DEF NextSection
<1>3. CASE NextSection.semantic \/ brief.scopes = {}
  <2>1. Adds({}, {})
    BY <1>3 DEF ShowsSection
  <2> QED BY <1>1, <1>2, <2>1, EmptySound, AddsInv
<1>4. CASE ~(NextSection.semantic \/ brief.scopes = {})
  <2>1. Adds(FilterRows(NextSection), {n \in ShelfIds : Eligible(NextSection, n)})
    BY <1>4 DEF ShowsSection
  <2>2. FilterRows(NextSection) \in SUBSET ShelfIds
    BY DEF FilterRows, FirstOf
  <2>3. SoundSection(SectionEntry(NextSection, FilterRows(NextSection),
                                  {n \in ShelfIds : Eligible(NextSection, n)}), shelf)
    BY <1>1, <1>2, <1>4, SectionSound
  <2> QED BY <1>1, <2>1, <2>2, <2>3, AddsInv
<1> QED BY <1>3, <1>4

LEMMA HuntsInv ==
  ASSUME BriefInv, NEW stage \in HintSteps, NEW found, Hunts(stage, found),
         found \in [vector : SUBSET ShelfIds, lexical : SUBSET ShelfIds, hydrated : SUBSET ShelfIds,
                    near : SUBSET HintPairs],
         \A n \in found.vector \cup found.lexical : shelf[n].type # HiddenType,
         brief.at # "answered", Len(page) < Len(brief.layout), NextSection.semantic
  PROVE  BriefInv'
<1>1. BriefShaped /\ HintsSound /\ PageSound /\ RecallsCounted
  BY DEF BriefInv
<1>2. /\ hunt' = found /\ brief' = [brief EXCEPT !.at = stage]
      /\ UNCHANGED <<shelf, sight, page, recalls, logged>>
  BY DEF Hunts
<1>3. BriefShaped' /\ brief'.at = stage /\ brief'.layout = brief.layout /\ brief'.scope = brief.scope
  BY <1>1, <1>2 DEF BriefShaped, HintSteps, BriefingOpen
<1>4. HintsSound'
  BY <1>2, <1>3 DEF HintsSound, HintUnion, NextSection
<1>5. PageSound' /\ RecallsCounted'
  BY <1>1, <1>2, <1>3 DEF PageSound, RecallsCounted, HintSteps
<1> QED BY <1>3, <1>4, <1>5 DEF BriefInv

LEMMA HintInv ==
  ASSUME BriefInv, VectorHints \/ LexicalHints \/ HydratesHints \/ NearHints PROVE BriefInv'
<1> DEFINE Found == [vector : SUBSET ShelfIds, lexical : SUBSET ShelfIds, hydrated : SUBSET ShelfIds,
                     near : SUBSET HintPairs]
<1>1. /\ BriefShaped /\ HintsSound /\ hunt \in Found
      /\ \A n \in hunt.vector \cup hunt.lexical : shelf[n].type # HiddenType
      /\ HintVector \in Seq(ShelfIds) /\ HintLexical \in Seq(ShelfIds)
  BY BriefingAssumption DEF BriefInv, BriefShaped, HintsSound, HintUnion
<1>2. brief.at # "answered" /\ Len(page) < Len(brief.layout) /\ NextSection.semantic
  BY <1>1 DEF VectorHints, LexicalHints, HydratesHints, NearHints, AtSections, Hunting, HintsSound, HintSteps
<1>3. NextSection \in BriefSection
  <2>1. brief.layout \in Seq(BriefSection) /\ Len(brief.layout) \in Nat /\ Len(page) \in Nat
    BY <1>1, LenProperties DEF BriefShaped
  <2>2. Len(page) + 1 \in 1..Len(brief.layout)
    BY <1>2, <2>1
  <2> QED BY <2>1, <2>2, ElementOfSeq DEF NextSection
<1>4. CASE VectorHints
  <2> DEFINE leg == HintLeg(NextSection, HintVector) \cap HintNear
             found == [NoHunt EXCEPT !.vector = leg]
  <2>1. Hunts("lexical", found)
    BY <1>4 DEF VectorHints
  <2>2. leg \subseteq {n \in ShelfIds : shelf[n].type # HiddenType}
    BY <1>1, <1>3, LegSound
  <2> HIDE DEF leg
  <2>3. found \in Found /\ \A n \in found.vector \cup found.lexical : shelf[n].type # HiddenType
    BY <2>2 DEF NoHunt
  <2> HIDE DEF found
  <2> QED BY <1>2, <2>1, <2>3, HuntsInv DEF HintSteps
<1>5. CASE LexicalHints
  <2> DEFINE leg == HintLeg(NextSection, HintLexical)
             found == [hunt EXCEPT !.lexical = leg]
  <2>1. Hunts("hydrate", found)
    BY <1>5 DEF LexicalHints
  <2>2. leg \subseteq {n \in ShelfIds : shelf[n].type # HiddenType}
    BY <1>1, <1>3, LegSound
  <2> HIDE DEF leg
  <2>3. found \in Found /\ \A n \in found.vector \cup found.lexical : shelf[n].type # HiddenType
    BY <1>1, <2>2
  <2> HIDE DEF found
  <2> QED BY <1>2, <2>1, <2>3, HuntsInv DEF HintSteps
<1>6. CASE HydratesHints
  <2> DEFINE rows == {n \in HintUnion : Visible(n)}
             found == [hunt EXCEPT !.hydrated = rows]
  <2>1. Hunts("near", found)
    BY <1>6 DEF HydratesHints
  <2>2. rows \subseteq ShelfIds
    BY <1>1 DEF HintUnion
  <2> HIDE DEF rows
  <2>3. found \in Found /\ \A n \in found.vector \cup found.lexical : shelf[n].type # HiddenType
    BY <1>1, <2>2
  <2> HIDE DEF found
  <2> QED BY <1>2, <2>1, <2>3, HuntsInv DEF HintSteps
<1>7. CASE NearHints
  <2> DEFINE pairs == {p \in HintPairs : \A n \in p : n \in HintUnion /\ Visible(n)}
             found == [hunt EXCEPT !.near = pairs]
  <2>1. Hunts("declared", found)
    BY <1>7 DEF NearHints
  <2>2. pairs \subseteq HintPairs
    OBVIOUS
  <2> HIDE DEF pairs
  <2>3. found \in Found /\ \A n \in found.vector \cup found.lexical : shelf[n].type # HiddenType
    BY <1>1, <2>2
  <2> HIDE DEF found
  <2> QED BY <1>2, <2>1, <2>3, HuntsInv DEF HintSteps
<1> QED BY <1>4, <1>5, <1>6, <1>7

LEMMA CollapseInv ==
  ASSUME BriefInv, CollapsesHints PROVE BriefInv'
<1>1. /\ BriefShaped /\ brief.at = "declared" /\ Len(page) < Len(brief.layout) /\ NextSection.semantic
      /\ HintUnion \subseteq ShelfIds /\ \A n \in HintUnion : shelf[n].type # HiddenType
  BY DEF BriefInv, BriefShaped, CollapsesHints, HintsSound, HintSteps, HintUnion
<1>2. NextSection \in BriefSection
  <2>1. brief.layout \in Seq(BriefSection) /\ Len(brief.layout) \in Nat /\ Len(page) \in Nat
    BY <1>1, LenProperties DEF BriefShaped
  <2>2. Len(page) + 1 \in 1..Len(brief.layout)
    BY <1>1, <2>1
  <2> QED BY <2>1, <2>2, ElementOfSeq DEF NextSection
<1>3. PICK top \in SUBSET HintUnion :
        Adds(FirstOf(SectionCap, top, {p \in top \X top : HintBefore(p[1], p[2])}), {})
  BY DEF CollapsesHints
<1> DEFINE order == {p \in top \X top : HintBefore(p[1], p[2])}
           rows == FirstOf(SectionCap, top, order)
<1>4. top \in SUBSET ShelfIds /\ IsFiniteSet(top) /\ SectionCap \in Nat
  <2>1. top \in SUBSET ShelfIds
    BY <1>1
  <2> QED BY <2>1, BriefingAssumption, FS_Subset
<1>5. StrictOrder(top, order)
  BY <1>1, <1>4, HintsOrdered
<1> HIDE DEF order
<1>6. rows \subseteq top /\ Cardinality(rows) <= SectionCap
  BY <1>4, <1>5, FirstRowsKept
<1>7. Adds(rows, {})
  BY <1>3 DEF order
<1> HIDE DEF rows
<1>8. rows \in SUBSET ShelfIds /\ \A n \in rows : shelf[n].type # HiddenType
  BY <1>1, <1>4, <1>6
<1>9. SoundSection(SectionEntry(NextSection, rows, {}), shelf)
  BY <1>1, <1>2, <1>6, <1>8, PoollessSound
<1> QED BY <1>1, <1>7, <1>8, <1>9, AddsInv

LEMMA BriefStepInv ==
  ASSUME BriefInv, [BriefingNext]_briefingVars PROVE BriefInv'
<1>1. /\ BriefShaped /\ HintsSound /\ PageSound /\ RecallsCounted
      /\ page \in Seq(PageEntry) /\ Len(page) \in Nat /\ DOMAIN page = 1..Len(page)
      /\ \A i \in DOMAIN page : page[i] \in PageEntry
      /\ shelf \in [ShelfIds -> StoredRow] /\ recalls \in [ShelfIds -> Nat]
  BY LenProperties, ElementOfSeq DEF BriefInv, BriefShaped
<1>2. CASE UNCHANGED briefingVars
  <2>1. BriefShaped'
    BY <1>1, <1>2 DEF briefingVars, BriefShaped
  <2>2. PageSound' /\ RecallsCounted' /\ HintsSound'
    BY <1>1, <1>2
       DEF briefingVars, PageSound, RecallsCounted, Surfaced, Visible, HintsSound, HintUnion, NextSection
  <2> QED BY <2>1, <2>2 DEF BriefInv
<1>3. CASE BriefingBegins
  <2>1. PICK scope \in {"all"} \cup ReadScopes, hint \in BOOLEAN, restricted \in BOOLEAN, layout \in Layouts :
          brief' = [at |-> IF scope = "all" /\ restricted THEN "refused" ELSE "scopes", scope |-> scope,
                    hint |-> hint, restricted |-> restricted, layout |-> layout, scopes |-> {}]
    BY <1>3 DEF BriefingBegins
  <2>2. layout \in Seq(BriefSection) /\ brief'.at # "answered" /\ brief.at # "answered"
        /\ UNCHANGED <<shelf, sight, page, hunt, recalls, logged>> /\ brief'.at \notin HintSteps
    BY <1>3, <2>1, BriefingAssumption DEF BriefingBegins, HintSteps
  <2>3. BriefShaped'
    BY <1>1, <2>1, <2>2 DEF BriefShaped, BriefingOpen
  <2> QED BY <1>1, <2>2, <2>3 DEF BriefInv, PageSound, RecallsCounted, HintsSound, HintUnion
<1>4. CASE ResolvesScopes
  <2>1. /\ brief.at = "scopes" /\ UNCHANGED <<shelf, sight, page, hunt, recalls, logged>>
        /\ brief' = [brief EXCEPT !.at = "sections",
             !.scopes = IF brief.scope = "all" THEN sight ELSE ({brief.scope} \cup AmbientScopes) \cap sight]
    BY <1>4 DEF ResolvesScopes
  <2>2. BriefShaped' /\ brief'.at = "sections"
    BY <1>1, <2>1 DEF BriefShaped, BriefingOpen
  <2> QED BY <1>1, <2>1, <2>2 DEF BriefInv, PageSound, RecallsCounted, HintsSound, HintUnion, HintSteps
<1>5. CASE ShowsSection \/ VectorHints \/ LexicalHints \/ HydratesHints \/ NearHints \/ CollapsesHints
  BY <1>5, SectionInv, HintInv, CollapseInv
<1>6. CASE ShowsLinked
  <2> DEFINE rows == LinkedTo(page[Len(page)].shown, page[Len(page)].section.linked)
  <2>1. /\ brief.at = "linked" /\ page' = [page EXCEPT ![Len(page)].linked = rows]
        /\ brief' = [brief EXCEPT !.at = "sections"] /\ UNCHANGED <<shelf, sight, hunt, recalls, logged>>
    BY <1>6 DEF ShowsLinked
  <2>2. rows \in SUBSET ShelfIds
    BY BriefingAssumption DEF LinkedTo
  <2> HIDE DEF rows
  <2>3. /\ DOMAIN page' = DOMAIN page
        /\ \A i \in DOMAIN page : page'[i] = IF i = Len(page) THEN [page[i] EXCEPT !.linked = rows] ELSE page[i]
    BY <1>1, <2>1
  <2>4. ASSUME NEW i \in DOMAIN page PROVE page'[i] \in PageEntry /\ SoundSection(page'[i], shelf)
    <3>1. page[i] \in PageEntry /\ SoundSection(page[i], shelf)
      BY <1>1 DEF PageSound
    <3>2. /\ page'[i].shown = page[i].shown /\ page'[i].section = page[i].section
          /\ page'[i].pool = page[i].pool /\ page'[i] \in PageEntry
      BY <2>2, <2>3, <3>1 DEF PageEntry
    <3> QED BY <3>1, <3>2 DEF SoundSection
  <2>5. page' \in Seq(PageEntry)
    <3>1. page' = [i \in 1..Len(page) |-> page'[i]]
      BY <1>1, <2>1
    <3> QED BY <1>1, <2>4, <3>1, SeqDef
  <2>6. BriefShaped' /\ brief'.at = "sections"
    BY <1>1, <2>1, <2>5 DEF BriefShaped, BriefingOpen
  <2>7. PageSound'
    BY <2>1, <2>3, <2>4 DEF PageSound
  <2> QED BY <1>1, <2>1, <2>6, <2>7 DEF BriefInv, RecallsCounted, HintsSound, HintUnion, HintSteps
<1>7. CASE BriefingEnds
  <2>1. /\ brief.at = "sections" /\ brief' = [brief EXCEPT !.at = "answered"]
        /\ recalls' = [n \in ShelfIds |-> recalls[n] + (IF n \in Surfaced /\ Visible(n) THEN 1 ELSE 0)]
        /\ logged' = logged + (IF brief.scope = "all" THEN 1 ELSE 0)
        /\ UNCHANGED <<shelf, sight, page, hunt>>
    BY <1>7 DEF BriefingEnds
  <2>2. \A n \in ShelfIds : recalls[n] = 0
    BY <1>1, <2>1 DEF RecallsCounted
  <2>3. logged = 0
    BY <1>1, <2>1 DEF RecallsCounted
  <2>4. brief'.at = "answered" /\ brief'.scope = brief.scope /\ Surfaced' = Surfaced
        /\ \A n : Visible(n)' = Visible(n)
    BY <1>1, <2>1 DEF BriefShaped, Surfaced, Visible
  <2>5. BriefShaped'
    <3>1. recalls' \in [ShelfIds -> Nat]
      BY <1>1, <2>1
    <3> QED BY <1>1, <2>1, <3>1 DEF BriefShaped
  <2>6. PageSound' /\ HintsSound'
    BY <1>1, <2>1, <2>4 DEF PageSound, HintsSound, HintUnion, HintSteps
  <2>7. RecallsCounted'
    <3>1. \A n \in ShelfIds : recalls'[n] = IF n \in Surfaced /\ Visible(n) THEN 1 ELSE 0
      BY <2>1, <2>2
    <3>2. logged' = IF brief.scope = "all" THEN 1 ELSE 0
      BY <2>1, <2>3
    <3> QED BY <2>4, <3>1, <3>2 DEF RecallsCounted
  <2> QED BY <2>5, <2>6, <2>7 DEF BriefInv
<1>8. CASE BriefingFails
  <2>1. /\ brief.at # "answered" /\ brief' = [brief EXCEPT !.at = "failed"]
        /\ UNCHANGED <<shelf, sight, page, hunt, recalls, logged>>
    BY <1>8 DEF BriefingFails, BriefingOpen
  <2>2. BriefShaped' /\ brief'.at = "failed"
    BY <1>1, <2>1 DEF BriefShaped
  <2> QED BY <1>1, <2>1, <2>2 DEF BriefInv, PageSound, RecallsCounted, HintsSound, HintUnion, HintSteps
<1>9. CASE ShelfChanges
  <2>1. brief.at # "answered" /\ UNCHANGED <<brief, page, hunt, recalls, logged>>
    BY <1>9 DEF ShelfChanges, BriefingOpen
  <2>2. /\ sight' \subseteq ReadScopes /\ shelf' \in [ShelfIds -> StoredRow]
        /\ \A n \in ShelfIds : shelf'[n].type = shelf[n].type
    <3>1. << 1 >> \in Dates
      <4>1. 1 \in 0..DateParts /\ << 1 >> \in [1..1 -> 1..LastOfPart]
        BY BriefingAssumption
      <4> QED BY <4>1 DEF Dates
    <3>2. ASSUME NEW n \in ShelfIds, shelf' = [shelf EXCEPT ![n].status = "archived"], UNCHANGED sight
          PROVE  <2>2!:
      <4>1. shelf[n] \in StoredRow /\ [shelf[n] EXCEPT !.status = "archived"] \in StoredRow
        BY <1>1 DEF StoredRow, Statuses
      <4>2. shelf' = [shelf EXCEPT ![n] = [shelf[n] EXCEPT !.status = "archived"]]
        BY <1>1, <3>2
      <4>3. [shelf[n] EXCEPT !.status = "archived"].type = shelf[n].type
        BY <4>1 DEF StoredRow
      <4> DEFINE row == [shelf[n] EXCEPT !.status = "archived"]
      <4> HIDE DEF row
      <4>4. shelf' = [shelf EXCEPT ![n] = row] /\ row \in StoredRow /\ row.type = shelf[n].type
        BY <4>1, <4>2, <4>3 DEF row
      <4> QED BY <1>1, <3>2, <4>4 DEF BriefShaped
    <3>3. ASSUME NEW n \in ShelfIds, shelf' = [shelf EXCEPT ![n].due = << 1 >>], UNCHANGED sight
          PROVE  <2>2!:
      <4>1. shelf[n] \in StoredRow /\ [shelf[n] EXCEPT !.due = << 1 >>] \in StoredRow
        BY <3>1, <1>1 DEF StoredRow
      <4>2. shelf' = [shelf EXCEPT ![n] = [shelf[n] EXCEPT !.due = << 1 >>]]
        BY <1>1, <3>3
      <4>3. [shelf[n] EXCEPT !.due = << 1 >>].type = shelf[n].type
        BY <4>1 DEF StoredRow
      <4> DEFINE row == [shelf[n] EXCEPT !.due = << 1 >>]
      <4> HIDE DEF row
      <4>4. shelf' = [shelf EXCEPT ![n] = row] /\ row \in StoredRow /\ row.type = shelf[n].type
        BY <4>1, <4>2, <4>3 DEF row
      <4> QED BY <1>1, <3>3, <4>4 DEF BriefShaped
    <3>4. ASSUME NEW sc \in sight, sight' = sight \ {sc}, UNCHANGED shelf
          PROVE  <2>2!:
      BY <1>1, <3>4 DEF BriefShaped
    <3> QED BY <1>9, <3>2, <3>3, <3>4 DEF ShelfChanges
  <2>3. BriefShaped'
    BY <1>1, <2>1, <2>2 DEF BriefShaped
  <2>4. ASSUME NEW i \in DOMAIN page PROVE SoundSection(page[i], shelf')
    <3>1. SoundSection(page[i], shelf) /\ page[i].shown \subseteq ShelfIds
      BY <1>1 DEF PageSound, PageEntry
    <3> QED BY <2>2, <3>1 DEF SoundSection
  <2>5. PageSound'
    BY <2>1, <2>4 DEF PageSound
  <2>6. HintUnion \subseteq ShelfIds /\ HintUnion' = HintUnion
    BY <1>1, <2>1 DEF BriefShaped, HintUnion
  <2>7. HintsSound'
    BY <1>1, <2>1, <2>2, <2>6 DEF HintsSound, NextSection
  <2> QED BY <1>1, <2>1, <2>3, <2>5, <2>7 DEF BriefInv, RecallsCounted
<1> QED BY <1>2, <1>3, <1>4, <1>5, <1>6, <1>7, <1>8, <1>9 DEF BriefingNext

LEMMA BriefSound == BriefInv => BriefingFaithful
<1> SUFFICES ASSUME BriefInv PROVE BriefingFaithful
  OBVIOUS
<1>1. \A n \in ShelfIds : n \in Surfaced <=> \E i \in DOMAIN page : n \in page[i].shown \cup page[i].linked
  BY DEF Surfaced
<1>2. \A i \in DOMAIN page : SoundSection(page[i], shelf)
  BY DEF BriefInv, PageSound
<1> QED BY <1>1, <1>2 DEF BriefInv, RecallsCounted, BriefingFaithful, SoundSection

\* For any store, layout, hint, caps and dates, whatever is archived, dated or
\* withdrawn between the statements of a briefing: its sections keep what they
\* promise, and what an answered briefing showed is counted once, unless it was
\* withdrawn from the caller by then.
THEOREM BriefingsFaithful == BriefingSpec => []BriefingFaithful
<1>1. BriefInv /\ [BriefingNext]_briefingVars => BriefInv'
  BY BriefStepInv
<1> QED BY BriefStart, <1>1, BriefSound, PTL DEF BriefingSpec

-----------------------------------------------------------------------------
(* Hooks: what a session is told.                                          *)

HintStages == {"hint", "render hint"}
StartStages == {"register", "unreachable", "scopes", "unscoped", "brief", "pending", "render", "emit"}
LateStages == {"render", "emit", "render hint"}
HookStages == {"idle"} \cup HintStages \cup StartStages

DraftRecord ==
  [section : Nat \ {0}, node : Nat, already : SUBSET HookNodes, shown : SUBSET HookNodes,
   dropped : Seq(HookNodes), room : Int, lines : BOOLEAN]

HookRecord ==
  [at : HookStages, brief : {<<>>} \cup {<<b>> : b \in Briefings},
   parked : {<<>>} \cup {<<b>> : b \in BOOLEAN}, draft : DraftRecord]

ToldRecord ==
  [shown : [HookNodes -> Nat], named : SUBSET HookNodes, unnamed : SUBSET HookNodes,
   fetched : SUBSET HookNodes,
   said : SUBSET {"start", "fetch", "unreachable", "ask", "briefing", "briefing text", "parked",
                  "parked text", "hinted"},
   cut : BOOLEAN]

HookShaped ==
  /\ hook \in HookRecord /\ told \in ToldRecord
  /\ stateWritable \in BOOLEAN
  /\ marker \in [shown : SUBSET HookNodes, hinted : BOOLEAN]
  /\ ~stateWritable => marker.shown = {} /\ marker.hinted = FALSE

\* The nodes a draft has passed by are among those it has met, and it opened a
\* section of a briefing only.
Drafted ==
  LET d == hook.draft IN
  /\ \A i \in DOMAIN Briefing : i < d.section => ToSet(Briefing[i]) \subseteq d.already
  /\ d.node # 0 => /\ d.section \in DOMAIN Briefing /\ d.node \in DOMAIN AtSection
                   /\ \A k \in DOMAIN AtSection : k < d.node => AtSection[k] \in d.already
  /\ d.lines => hook.brief # <<>>
  /\ hook.at \notin LateStages => d.section = 1 /\ d.node = 0 /\ ~d.lines
  /\ hook.at = "emit" => d.section > Len(Briefing)

\* A start begins with nothing told and an empty draft, and shows or drops what
\* it meets; the marker forgets first and then says what will be shown.
Starting ==
  hook.at \in StartStages =>
    /\ told = [NothingTold EXCEPT !.said = {"start"}]
    /\ hook.draft.already \subseteq hook.draft.shown \cup ToSet(hook.draft.dropped)
    /\ hook.at \in {"unscoped", "brief", "pending", "render"} => marker = Blank
    /\ hook.at = "emit" => /\ marker.shown \subseteq hook.draft.shown
                           /\ stateWritable => hook.draft.shown \subseteq marker.shown

\* A prompt adds to what is in the session: nothing the marker knows of twice, and
\* the marker knows all of it while the hint is not claimed.
Hinting ==
  ~told.cut /\ hook.at \notin StartStages =>
    /\ \A n \in marker.shown : told.shown[n] > 0
    /\ hook.at \in HintStages =>
         \A n \in hook.draft.already :
           told.shown[n] > 0 \/ n \in hook.draft.shown \cup ToSet(hook.draft.dropped)
    /\ stateWritable =>
         /\ \A n \in HookNodes : told.shown[n] <= 1
         /\ hook.at = "idle" /\ ~marker.hinted =>
              \A n \in HookNodes : told.shown[n] > 0 => n \in marker.shown
         /\ hook.at \in HintStages =>
              /\ marker.hinted
              /\ \A n \in HookNodes :
                   told.shown[n] > 0 => n \in hook.draft.already \ hook.draft.shown

Accounts ==
  ~told.cut /\ hook.at \notin StartStages =>
    /\ \A n \in told.fetched : told.shown[n] > 0 \/ n \in told.named \cup told.unnamed
    /\ "start" \in told.said =>
         \/ {"fetch", "unreachable"} \cap told.said # {}
         \/ {"briefing", "parked text"} \cap told.said # {} /\ {"parked", "briefing text"} \cap told.said # {}

HookInv == HookShaped /\ Drafted /\ Starting /\ Hinting /\ Accounts

LEMMA HookStart == HooksInit => HookInv
<1> SUFFICES ASSUME HooksInit PROVE HookInv
  OBVIOUS
<1> USE DEF HooksInit
<1>1. ContextCap \in Int /\ <<>> \in Seq(HookNodes)
  BY HookBounds
<1>2. FreshDraft({}) \in DraftRecord
  BY <1>1 DEF FreshDraft, DraftRecord
<1>3. hook \in HookRecord /\ hook.at = "idle" /\ hook.draft = FreshDraft({}) /\ hook.brief = <<>>
  BY <1>2 DEF Idle, HookRecord, HookStages
<1>4. told \in ToldRecord /\ told.said = {} /\ told.fetched = {} /\ told.shown = [n \in HookNodes |-> 0]
  BY DEF NothingTold, ToldRecord
<1>5. HookShaped
  BY <1>3, <1>4 DEF HookShaped, Blank
<1>6. Drafted
  BY <1>3 DEF Drafted, FreshDraft, Briefing
<1> QED BY <1>3, <1>4, <1>5, <1>6 DEF HookInv, Starting, Hinting, Accounts, StartStages, HintStages, Blank

-----------------------------------------------------------------------------
\* A step that moves the process on and keeps its draft.
LEMMA HookGoes ==
  ASSUME HookInv, NEW st \in HookStages, hook' = [hook EXCEPT !.at = st]
  PROVE  hook' \in HookRecord /\ hook'.at = st /\ hook'.draft = hook.draft /\ hook'.brief = hook.brief
         /\ hook'.parked = hook.parked
<1>1. hook \in HookRecord
  BY DEF HookInv, HookShaped
<1> QED BY <1>1 DEF HookRecord

LEMMA SameDraft ==
  ASSUME HookInv, hook'.draft = hook.draft, hook'.brief = hook.brief,
         hook.at \in LateStages => hook'.at \in LateStages,
         hook'.at = "emit" => hook.draft.section > Len(Briefing)
  PROVE  Drafted'
<1>1. Briefing' = Briefing
  BY DEF Briefing
<1> QED BY <1>1 DEF HookInv, Drafted, AtSection

\* A process that ends, or has not begun, has an empty draft.
LEMMA IdleDrafted ==
  ASSUME HookInv, hook' = Idle
  PROVE  Drafted' /\ hook' \in HookRecord /\ hook'.at = "idle"
<1>1. ContextCap \in Int /\ <<>> \in Seq(HookNodes)
  BY HookBounds
<1>2. FreshDraft({}) \in DraftRecord
  BY <1>1 DEF FreshDraft, DraftRecord
<1>3. hook' \in HookRecord /\ hook'.at = "idle" /\ hook'.draft = FreshDraft({}) /\ hook'.brief = <<>>
  BY <1>2 DEF Idle, HookRecord, HookStages
<1> QED BY <1>3 DEF Drafted, FreshDraft, Briefing

LEMMA HookStands ==
  ASSUME HookInv, UNCHANGED <<stateWritable, marker, hook, told>> PROVE HookInv'
<1>1. HookShaped'
  BY DEF HookInv, HookShaped
<1>2. Drafted'
  <2>1. hook.at = "emit" => hook.draft.section > Len(Briefing)
    BY DEF HookInv, Drafted
  <2> QED BY <2>1, SameDraft
<1>3. Starting' /\ Hinting' /\ Accounts'
  BY DEF HookInv, Starting, Hinting, Accounts
<1> QED BY <1>1, <1>2, <1>3 DEF HookInv

\* The marker holds what is written, or is blank for good.
LEMMA Written ==
  ASSUME HookInv, NEW state \in [shown : SUBSET HookNodes, hinted : BOOLEAN], Write(state)
  PROVE  /\ marker' \in [shown : SUBSET HookNodes, hinted : BOOLEAN]
         /\ stateWritable => marker' = state
         /\ ~stateWritable => marker' = Blank
<1>1. marker \in [shown : SUBSET HookNodes, hinted : BOOLEAN]
  BY DEF HookInv, HookShaped
<1>2. ~stateWritable => marker = Blank
  BY <1>1 DEF HookInv, HookShaped, Blank
<1> QED BY <1>1, <1>2 DEF Write

LEMMA BlankState == Blank \in [shown : SUBSET HookNodes, hinted : BOOLEAN]
BY DEF Blank

\* What a session hears is added to what it knows.
LEMMA Heard ==
  ASSUME HookInv, NEW w \in SUBSET {"start", "fetch", "unreachable", "ask", "briefing",
                                   "briefing text", "parked", "parked text", "hinted"}, Tells(w)
  PROVE  /\ told' \in ToldRecord /\ told'.said = told.said \cup w /\ told'.shown = told.shown
         /\ told'.fetched = told.fetched /\ told'.named = told.named /\ told'.unnamed = told.unnamed
         /\ told'.cut = told.cut
<1>1. told \in ToldRecord
  BY DEF HookInv, HookShaped
<1> QED BY <1>1 DEF Tells, ToldRecord

\* At a start nothing is in the session yet.
LEMMA NothingYet ==
  ASSUME HookInv, hook.at \in StartStages
  PROVE  /\ told.shown = [n \in HookNodes |-> 0] /\ told.named = {} /\ told.unnamed = {}
         /\ told.fetched = {} /\ told.said = {"start"} /\ told.cut = FALSE
<1>1. told = [NothingTold EXCEPT !.said = {"start"}]
  BY DEF HookInv, Starting
<1> QED BY <1>1 DEF NothingTold

\* A start that ends with nothing fetched: the session has been told to fetch, or
\* that memory is unreachable.
LEMMA StartGivesUp ==
  ASSUME HookInv, hook.at \in StartStages, hook' = Idle, stateWritable' = stateWritable,
         NEW w \in SUBSET {"fetch", "ask", "unreachable"}, Tells(w), {"fetch", "unreachable"} \cap w # {},
         marker' = Blank
  PROVE  HookInv'
<1>1. /\ told' \in ToldRecord /\ told'.shown = [n \in HookNodes |-> 0] /\ told'.fetched = {}
      /\ {"fetch", "unreachable"} \cap told'.said # {}
  BY Heard, NothingYet
<1>2. HookShaped'
  BY <1>1, IdleDrafted, BlankState DEF HookInv, HookShaped, Blank
<1>3. hook'.at = "idle" /\ marker'.shown = {} /\ \A n \in HookNodes : told'.shown[n] = 0
  BY <1>1, IdleDrafted DEF Blank
<1>4. Hinting'
  BY <1>3 DEF Hinting, HintStages
<1>5. Accounts'
  BY <1>1, <1>3 DEF Accounts
<1>6. Starting'
  BY <1>3 DEF Starting, StartStages
<1> QED BY <1>2, <1>4, <1>5, <1>6, IdleDrafted DEF HookInv

LEMMA HookMovesInv ==
  ASSUME HookInv, \/ StartsSession \/ Unregistered \/ Lists \/ Unreachable \/ Resolves
                  \/ AsksForScope \/ Fetches \/ ListsParked
  PROVE  HookInv'
<1>1. hook \in HookRecord /\ told \in ToldRecord /\ stateWritable \in BOOLEAN
      /\ marker \in [shown : SUBSET HookNodes, hinted : BOOLEAN] /\ Drafted
  BY DEF HookInv, HookShaped
<1>2. CASE StartsSession
  <2>1. hook' = [hook EXCEPT !.at = "register"] /\ hook = Idle /\ UNCHANGED <<stateWritable, marker>>
        /\ told' = [NothingTold EXCEPT !.said = {"start"}]
    BY <1>2 DEF StartsSession, Goto
  <2>2. hook' \in HookRecord /\ hook'.at = "register" /\ hook'.draft = FreshDraft({}) /\ hook'.draft = hook.draft
        /\ hook'.brief = hook.brief
    BY <2>1, HookGoes DEF HookStages, StartStages, Idle
  <2>3. told' \in ToldRecord
    BY <2>1 DEF NothingTold, ToldRecord
  <2>4. HookShaped' /\ Drafted'
    BY <2>1, <2>2, <2>3, SameDraft DEF HookInv, HookShaped, LateStages, Idle
  <2>5. Hinting' /\ Accounts'
    BY <2>2 DEF Hinting, Accounts, StartStages
  <2>6. hook'.draft.already = {}
    BY <2>2 DEF FreshDraft
  <2>7. Starting'
    BY <2>1, <2>2, <2>6 DEF Starting
  <2> QED BY <2>4, <2>5, <2>7 DEF HookInv
<1>3. CASE Unregistered \/ Unreachable
  <2>1. /\ hook.at \in StartStages /\ Write(Blank) /\ hook' = Idle /\ stateWritable' = stateWritable
        /\ Tells({"fetch"}) \/ Tells({"unreachable"})
    BY <1>3 DEF Unregistered, Unreachable, StartStages, Ends
  <2>2. marker' = Blank
    BY <2>1, <1>1, Written, BlankState
  <2> QED BY <2>1, <2>2, StartGivesUp
<1>4. CASE AsksForScope
  <2>1. hook.at = "unscoped" /\ Tells({"ask", "fetch"}) /\ hook' = Idle /\ UNCHANGED <<stateWritable, marker>>
    BY <1>4 DEF AsksForScope, Ends
  <2>2. hook.at \in StartStages /\ marker' = Blank
    BY <2>1 DEF HookInv, Starting, StartStages
  <2> QED BY <2>1, <2>2, StartGivesUp
<1>5. ASSUME hook.at \in StartStages, hook'.at \in StartStages \ {"emit"}, hook' \in HookRecord,
             Drafted', hook'.draft = hook.draft,
             UNCHANGED <<stateWritable, told>>, marker' = Blank \/ marker' = marker,
             hook'.at \in {"unscoped", "brief", "pending", "render"} => marker' = Blank
      PROVE  HookInv'
  <2>1. HookShaped'
    BY <1>1, <1>5, BlankState DEF HookInv, HookShaped, Blank
  <2> QED BY <1>5, <2>1 DEF HookInv, Starting, Hinting, Accounts
<1>6. CASE Lists
  <2>1. PICK st \in {"unreachable", "scopes"} : hook' = [hook EXCEPT !.at = st]
    BY <1>6 DEF Lists
  <2>2. hook.at \in StartStages /\ st \in StartStages \cap HookStages /\ UNCHANGED <<stateWritable, told, marker>>
    BY <1>6 DEF Lists, StartStages, HookStages
  <2>3. hook.at \notin LateStages
    BY <1>6 DEF Lists, LateStages
  <2> QED BY <1>5, <2>1, <2>2, <2>3, HookGoes, SameDraft DEF StartStages
<1>7. CASE Resolves
  <2>1. hook.at \in StartStages \ LateStages /\ UNCHANGED <<stateWritable, told>>
    BY <1>7 DEF Resolves, StartStages, LateStages
  <2>2. CASE Goto("unreachable") /\ UNCHANGED marker
    <3>1. hook' = [hook EXCEPT !.at = "unreachable"] /\ "unreachable" \in HookStages \cap StartStages
      BY <2>2 DEF Goto, HookStages, StartStages
    <3> QED BY <1>5, <2>1, <2>2, <3>1, HookGoes, SameDraft
  <2>3. CASE Write(Blank) /\ (Goto("unscoped") \/ Goto("brief"))
    <3>1. marker' = Blank
      BY <2>3, <1>1, Written, BlankState
    <3>2. PICK st \in {"unscoped", "brief"} : hook' = [hook EXCEPT !.at = st]
      BY <2>3 DEF Goto
    <3>3. st \in HookStages \cap StartStages
      BY DEF HookStages, StartStages
    <3> QED BY <1>5, <2>1, <3>1, <3>2, <3>3, HookGoes, SameDraft
  <2> QED BY <1>7, <2>2, <2>3 DEF Resolves
<1>8. CASE Fetches
  <2>1. PICK r \in Replies(Briefings) : hook' = [hook EXCEPT !.at = "pending", !.brief = r]
    BY <1>8 DEF Fetches
  <2>2. hook.at = "brief" /\ UNCHANGED <<stateWritable, told, marker>>
    BY <1>8 DEF Fetches
  <2>3. r \in {<<>>} \cup {<<b>> : b \in Briefings}
    BY DEF Replies
  <2>4. /\ hook' \in HookRecord /\ hook'.at = "pending" /\ hook'.draft = hook.draft
        /\ hook.draft.section = 1 /\ hook.draft.node = 0 /\ ~hook.draft.lines
    BY <1>1, <2>1, <2>2, <2>3 DEF HookRecord, HookStages, StartStages, Drafted, LateStages
  <2>5. Briefing' \in Seq(Seq(HookNodes))
    <3>1. r = <<>> \/ r[1] \in Seq(Seq(HookNodes))
      BY <2>3, HookBounds
    <3> QED BY <1>1, <2>1, <3>1 DEF Briefing, HookRecord
  <2>6. Drafted'
    BY <2>4, <2>5 DEF Drafted
  <2>7. marker' = Blank
    BY <2>2 DEF HookInv, Starting, StartStages
  <2> QED BY <1>5, <2>2, <2>4, <2>6, <2>7 DEF StartStages
<1>9. CASE ListsParked
  <2>1. PICK r \in Replies(BOOLEAN) : hook' = [hook EXCEPT !.at = "render", !.parked = r]
    BY <1>9 DEF ListsParked
  <2>2. hook.at = "pending" /\ UNCHANGED <<stateWritable, told, marker>>
    BY <1>9 DEF ListsParked
  <2>3. r \in {<<>>} \cup {<<b>> : b \in BOOLEAN}
    BY DEF Replies
  <2>4. hook' \in HookRecord /\ hook'.at = "render" /\ hook'.draft = hook.draft /\ hook'.brief = hook.brief
    BY <1>1, <2>1, <2>3 DEF HookRecord, HookStages, StartStages
  <2>5. marker' = Blank
    BY <2>2 DEF HookInv, Starting, StartStages
  <2> QED BY <1>5, <2>2, <2>4, <2>5, SameDraft DEF StartStages, LateStages
<1> QED BY <1>2, <1>3, <1>4, <1>6, <1>7, <1>8, <1>9

LEMMA BriefingSeq == HookInv => Briefing \in Seq(Seq(HookNodes))
<1> SUFFICES ASSUME HookInv PROVE Briefing \in Seq(Seq(HookNodes))
  OBVIOUS
<1>1. hook.brief \in {<<>>} \cup {<<b>> : b \in Briefings}
  BY DEF HookInv, HookShaped, HookRecord
<1>2. CASE hook.brief = <<>>
  BY <1>2 DEF Briefing
<1>3. CASE hook.brief # <<>>
  <2>1. PICK b \in Briefings : hook.brief = <<b>>
    BY <1>1, <1>3
  <2> QED BY <1>3, <2>1, HookBounds DEF Briefing
<1> QED BY <1>2, <1>3

\* A node is met, and shown or dropped unless it was met before.
LEMMA PlacedSound ==
  ASSUME NEW d \in DraftRecord, NEW n \in HookNodes
  PROVE  /\ WithNode(d, n) \in DraftRecord
         /\ WithNode(d, n).section = d.section /\ WithNode(d, n).node = d.node /\ WithNode(d, n).lines = d.lines
         /\ WithNode(d, n).already = d.already \cup {n}
         /\ d.shown \subseteq WithNode(d, n).shown /\ WithNode(d, n).shown \subseteq d.shown \cup ({n} \ d.already)
         /\ ToSet(d.dropped) \subseteq ToSet(WithNode(d, n).dropped)
         /\ n \in d.already \cup WithNode(d, n).shown \cup ToSet(WithNode(d, n).dropped)
<1> DEFINE dropped == Append(d.dropped, n)
<1>1. d.room \in Int /\ EntryCost[n] \in Nat /\ d.dropped \in Seq(HookNodes)
  BY HookBounds DEF DraftRecord
<1>2. dropped \in Seq(HookNodes) /\ ToSet(d.dropped) \subseteq ToSet(dropped) /\ n \in ToSet(dropped)
  <2>1. /\ dropped \in Seq(HookNodes) /\ Len(dropped) = Len(d.dropped) + 1
        /\ \A i \in 1..Len(d.dropped) : dropped[i] = d.dropped[i]
        /\ dropped[Len(d.dropped) + 1] = n
    BY <1>1, AppendProperties
  <2> HIDE DEF dropped
  <2>2. Len(d.dropped) \in Nat /\ DOMAIN d.dropped = 1..Len(d.dropped) /\ DOMAIN dropped = 1..Len(dropped)
    BY <1>1, <2>1, LenProperties
  <2>3. DOMAIN d.dropped \subseteq DOMAIN dropped /\ Len(d.dropped) + 1 \in DOMAIN dropped
    BY <2>1, <2>2
  <2> QED BY <2>1, <2>2, <2>3 DEF ToSet
<1> HIDE DEF dropped
<1>3. CASE n \in d.already
  BY <1>3 DEF WithNode
<1>4. CASE n \notin d.already /\ EntryCost[n] > d.room
  <2>1. WithNode(d, n) = [d EXCEPT !.already = @ \cup {n}, !.dropped = dropped]
    BY <1>4 DEF WithNode, dropped
  <2>2. d.already \cup {n} \in SUBSET HookNodes
    BY DEF DraftRecord
  <2>3. WithNode(d, n) \in DraftRecord
    BY <1>2, <2>1, <2>2 DEF DraftRecord
  <2>4. /\ WithNode(d, n).section = d.section /\ WithNode(d, n).node = d.node /\ WithNode(d, n).lines = d.lines
        /\ WithNode(d, n).already = d.already \cup {n} /\ WithNode(d, n).shown = d.shown
        /\ WithNode(d, n).dropped = dropped
    BY <2>1 DEF DraftRecord
  <2> QED BY <1>2, <2>3, <2>4
<1>5. CASE n \notin d.already /\ ~(EntryCost[n] > d.room)
  <2>1. WithNode(d, n) = [d EXCEPT !.already = @ \cup {n}, !.shown = @ \cup {n}, !.room = @ - EntryCost[n]]
    BY <1>5 DEF WithNode
  <2>2. d.already \cup {n} \in SUBSET HookNodes /\ d.shown \cup {n} \in SUBSET HookNodes
        /\ d.room - EntryCost[n] \in Int
    BY <1>1 DEF DraftRecord
  <2>3. WithNode(d, n) \in DraftRecord
    BY <2>1, <2>2 DEF DraftRecord
  <2>4. /\ WithNode(d, n).section = d.section /\ WithNode(d, n).node = d.node /\ WithNode(d, n).lines = d.lines
        /\ WithNode(d, n).already = d.already \cup {n} /\ WithNode(d, n).shown = d.shown \cup {n}
        /\ WithNode(d, n).dropped = d.dropped
    BY <2>1 DEF DraftRecord
  <2> QED BY <1>5, <2>3, <2>4
<1> QED BY <1>3, <1>4, <1>5

\* The draft grows: what it meets more, it shows or drops, and shows nothing that
\* was met before.
Grows(d, e) ==
  /\ e \in DraftRecord
  /\ d.already \subseteq e.already /\ d.shown \subseteq e.shown
  /\ ToSet(d.dropped) \subseteq ToSet(e.dropped)
  /\ e.already \subseteq d.already \cup e.shown \cup ToSet(e.dropped)
  /\ e.shown \subseteq d.shown \cup (e.already \ d.already)

LEMMA DraftGrows ==
  ASSUME HookInv, NEW e, Grows(hook.draft, e), Drafting(e), hook.at \in {"render", "render hint"}, Drafted'
  PROVE  HookInv'
<1>1. /\ hook \in HookRecord /\ hook' = [hook EXCEPT !.draft = e]
      /\ UNCHANGED <<stateWritable, marker, told>>
  BY DEF HookInv, HookShaped, Drafting
<1>2. hook' \in HookRecord /\ hook'.at = hook.at /\ hook'.draft = e
  BY <1>1 DEF HookRecord, Grows
<1>3. HookShaped'
  BY <1>1, <1>2 DEF HookInv, HookShaped
<1>4. Starting'
  <2>1. hook.at \in StartStages => hook.at = "render"
    BY DEF StartStages
  <2> QED BY <1>1, <1>2, <2>1 DEF HookInv, Starting, Grows
<1>5. Hinting'
  <2>1. hook.at \notin StartStages => hook.at = "render hint" /\ hook.at # "idle"
    BY DEF StartStages
  <2> SUFFICES ASSUME ~told.cut, hook.at \notin StartStages PROVE Hinting'
    BY <1>1, <1>2 DEF Hinting
  <2>2. /\ \A n \in marker.shown : told.shown[n] > 0
        /\ \A n \in hook.draft.already :
             told.shown[n] > 0 \/ n \in hook.draft.shown \cup ToSet(hook.draft.dropped)
    BY <2>1 DEF HookInv, Hinting, HintStages
  <2>3. \A n \in e.already : told.shown[n] > 0 \/ n \in e.shown \cup ToSet(e.dropped)
    BY <2>2 DEF Grows
  <2>4. stateWritable =>
         /\ \A n \in HookNodes : told.shown[n] <= 1
         /\ marker.hinted
         /\ \A n \in HookNodes : told.shown[n] > 0 => n \in e.already \ e.shown
    BY <2>1 DEF HookInv, Hinting, HintStages, Grows
  <2> QED BY <1>1, <1>2, <2>1, <2>2, <2>3, <2>4 DEF Hinting
<1>6. Accounts'
  BY <1>1, <1>2 DEF HookInv, Accounts
<1> QED BY <1>3, <1>4, <1>5, <1>6 DEF HookInv

LEMMA OpensInv == ASSUME HookInv, OpensSection PROVE HookInv'
<1> DEFINE d == hook.draft
           e == IF ToSet(AtSection) \subseteq d.already THEN [d EXCEPT !.section = @ + 1]
                ELSE [d EXCEPT !.node = 1, !.room = @ - 1, !.lines = TRUE]
<1>1. d \in DraftRecord /\ hook \in HookRecord /\ Drafted
  BY DEF HookInv, HookShaped, HookRecord
<1>2. d.node = 0 /\ Drafting(e) /\ hook.at \in {"render", "render hint"} /\ d.section <= Len(Briefing)
  BY DEF OpensSection, Rendering
<1>3. d.section \in DOMAIN Briefing /\ AtSection \in Seq(HookNodes)
  <2>1. Len(Briefing) \in Nat /\ DOMAIN Briefing = 1..Len(Briefing)
    BY BriefingSeq, LenProperties
  <2>2. d.section \in Nat /\ d.section >= 1
    BY <1>1 DEF DraftRecord
  <2>3. d.section \in DOMAIN Briefing
    <3>1. d.section <= Len(Briefing)
      BY <1>2
    <3>2. \A x \in Nat : x >= 1 /\ x <= Len(Briefing) => x \in DOMAIN Briefing
      BY <2>1
    <3> QED BY <2>2, <3>1, <3>2
  <2> QED BY <2>3, BriefingSeq DEF AtSection
<1>4. /\ e \in DraftRecord /\ e.already = d.already /\ e.shown = d.shown /\ e.dropped = d.dropped
      /\ \/ e.section = d.section + 1 /\ e.node = 0 /\ e.lines = d.lines /\ ToSet(AtSection) \subseteq d.already
         \/ e.section = d.section /\ e.node = 1 /\ ~(ToSet(AtSection) \subseteq d.already)
  <2>1. d.section + 1 \in Nat \ {0} /\ d.room - 1 \in Int /\ 1 \in Nat
    BY <1>1 DEF DraftRecord
  <2>2. CASE ToSet(AtSection) \subseteq d.already
    <3>1. e = [d EXCEPT !.section = @ + 1]
      BY <2>2
    <3>2. e \in DraftRecord
      BY <1>1, <2>1, <3>1 DEF DraftRecord
    <3>3. /\ e.already = d.already /\ e.shown = d.shown /\ e.dropped = d.dropped
          /\ e.section = d.section + 1 /\ e.node = d.node /\ e.lines = d.lines
      BY <1>1, <3>1 DEF DraftRecord
    <3> QED BY <1>2, <2>2, <3>2, <3>3
  <2>3. CASE ~(ToSet(AtSection) \subseteq d.already)
    <3>1. e = [d EXCEPT !.node = 1, !.room = @ - 1, !.lines = TRUE]
      BY <2>3
    <3>2. e \in DraftRecord
      BY <1>1, <2>1, <3>1 DEF DraftRecord
    <3>3. /\ e.already = d.already /\ e.shown = d.shown /\ e.dropped = d.dropped
          /\ e.section = d.section /\ e.node = 1
      BY <1>1, <3>1 DEF DraftRecord
    <3> QED BY <2>3, <3>2, <3>3
  <2> QED BY <2>2, <2>3
<1> HIDE DEF e
<1>5. hook' = [hook EXCEPT !.draft = e] /\ Grows(d, e)
  BY <1>2, <1>4 DEF Drafting, Grows
<1>6. hook'.draft = e /\ hook'.brief = hook.brief /\ hook'.at = hook.at /\ Briefing' = Briefing
  BY <1>1, <1>5 DEF HookRecord, Briefing
<1>7. hook.brief # <<>>
  BY <1>3 DEF Briefing
<1>8. Drafted'
  <2>1. ASSUME NEW i \in DOMAIN Briefing, i < e.section PROVE ToSet(Briefing[i]) \subseteq e.already
    <3>0. i \in Nat /\ d.section \in Nat
      BY <1>1, BriefingSeq, LenProperties DEF DraftRecord
    <3>1. i < d.section \/ (i = d.section /\ ToSet(AtSection) \subseteq d.already)
      BY <1>4, <2>1, <3>0
    <3> QED BY <1>1, <1>4, <3>1 DEF Drafted, AtSection
  <2>2. e.node # 0 => /\ e.section \in DOMAIN Briefing /\ e.node \in DOMAIN Briefing[e.section]
                     /\ \A k \in DOMAIN Briefing[e.section] : k < e.node => Briefing[e.section][k] \in e.already
    <3> SUFFICES ASSUME e.node # 0 PROVE e.node \in DOMAIN AtSection /\ \A k \in DOMAIN AtSection : ~(k < 1)
      BY <1>3, <1>4 DEF AtSection
    <3>1. e.node = 1 /\ ToSet(AtSection) # {}
      BY <1>4
    <3> QED BY <1>3, <3>1, LenProperties DEF ToSet
  <2>3. hook.at \in LateStages /\ hook.at # "emit"
    BY <1>2 DEF LateStages
  <2> QED BY <1>6, <1>7, <2>1, <2>2, <2>3 DEF Drafted, AtSection
<1> QED BY <1>2, <1>5, <1>8, DraftGrows

LEMMA PlacesInv == ASSUME HookInv, PlacesNode PROVE HookInv'
<1> DEFINE d == hook.draft
           n == AtSection[d.node]
           p == WithNode(d, n)
           e == IF p.node < Len(AtSection) THEN [p EXCEPT !.node = @ + 1]
                ELSE [p EXCEPT !.section = @ + 1, !.node = 0]
<1>1. d \in DraftRecord /\ hook \in HookRecord /\ Drafted
  BY DEF HookInv, HookShaped, HookRecord
<1>2. d.node # 0 /\ Drafting(e) /\ hook.at \in {"render", "render hint"}
  BY DEF PlacesNode, Rendering
<1>3. /\ d.section \in DOMAIN Briefing /\ AtSection \in Seq(HookNodes) /\ d.node \in DOMAIN AtSection
      /\ \A k \in DOMAIN AtSection : k < d.node => AtSection[k] \in d.already
  <2>1. d.section \in DOMAIN Briefing /\ d.node \in DOMAIN AtSection
        /\ \A k \in DOMAIN AtSection : k < d.node => AtSection[k] \in d.already
    BY <1>1, <1>2 DEF Drafted
  <2> QED BY <2>1, BriefingSeq DEF AtSection
<1>4. n \in HookNodes
  BY <1>3
<1>5. /\ p \in DraftRecord /\ p.section = d.section /\ p.node = d.node /\ p.lines = d.lines
      /\ p.already = d.already \cup {n} /\ d.shown \subseteq p.shown
      /\ p.shown \subseteq d.shown \cup ({n} \ d.already)
      /\ ToSet(d.dropped) \subseteq ToSet(p.dropped)
      /\ n \in d.already \cup p.shown \cup ToSet(p.dropped)
  <2> HIDE DEF d, n
  <2> QED BY <1>1, <1>4, PlacedSound
<1> HIDE DEF p
<1>6. DOMAIN AtSection = 1..Len(AtSection) /\ Len(AtSection) \in Nat /\ d.node \in Nat /\ d.section \in Nat
  BY <1>1, <1>3, LenProperties DEF DraftRecord
<1>7. /\ e \in DraftRecord /\ e.already = p.already /\ e.shown = p.shown /\ e.dropped = p.dropped
      /\ e.lines = d.lines
      /\ \/ e.section = d.section /\ e.node = d.node + 1 /\ d.node < Len(AtSection)
         \/ e.section = d.section + 1 /\ e.node = 0 /\ d.node = Len(AtSection)
  <2>1. d.section + 1 \in Nat \ {0} /\ d.node + 1 \in Nat /\ 0 \in Nat
    BY <1>6
  <2>2. CASE p.node < Len(AtSection)
    <3>1. e = [p EXCEPT !.node = @ + 1]
      BY <2>2
    <3>2. e \in DraftRecord
      BY <1>5, <2>1, <3>1 DEF DraftRecord
    <3>3. /\ e.already = p.already /\ e.shown = p.shown /\ e.dropped = p.dropped
          /\ e.section = p.section /\ e.node = p.node + 1 /\ e.lines = p.lines
      BY <1>5, <3>1 DEF DraftRecord
    <3> QED BY <1>5, <2>2, <3>2, <3>3
  <2>3. CASE ~(p.node < Len(AtSection))
    <3>1. e = [p EXCEPT !.section = @ + 1, !.node = 0]
      BY <2>3
    <3>2. e \in DraftRecord
      BY <1>5, <2>1, <3>1 DEF DraftRecord
    <3>3. /\ e.already = p.already /\ e.shown = p.shown /\ e.dropped = p.dropped
          /\ e.section = p.section + 1 /\ e.node = 0 /\ e.lines = p.lines
      BY <1>5, <3>1 DEF DraftRecord
    <3>4. d.node = Len(AtSection)
      BY <1>3, <1>5, <1>6, <2>3
    <3> QED BY <1>5, <3>2, <3>3, <3>4
  <2> QED BY <2>2, <2>3
<1> HIDE DEF e
<1>8. hook' = [hook EXCEPT !.draft = e] /\ Grows(d, e)
  BY <1>2, <1>5, <1>7 DEF Drafting, Grows
<1>9. hook'.draft = e /\ hook'.brief = hook.brief /\ hook'.at = hook.at /\ Briefing' = Briefing
  BY <1>1, <1>8 DEF HookRecord, Briefing
<1>10. \A k \in DOMAIN AtSection : k <= d.node => AtSection[k] \in e.already
  BY <1>3, <1>5, <1>6, <1>7
<1>11. Drafted'
  <2>1. ASSUME NEW i \in DOMAIN Briefing, i < e.section PROVE ToSet(Briefing[i]) \subseteq e.already
    <3>0. i \in Nat
      BY BriefingSeq, LenProperties
    <3>1. CASE i < d.section
      BY <1>1, <1>5, <1>7, <3>1 DEF Drafted
    <3>2. CASE ~(i < d.section)
      <4>1. i = d.section /\ d.node = Len(AtSection)
        BY <1>6, <1>7, <2>1, <3>0, <3>2
      <4> QED BY <1>6, <1>10, <4>1 DEF ToSet, AtSection
    <3> QED BY <3>1, <3>2
  <2>2. e.node # 0 => /\ e.section \in DOMAIN Briefing /\ e.node \in DOMAIN Briefing[e.section]
                     /\ \A k \in DOMAIN Briefing[e.section] : k < e.node => Briefing[e.section][k] \in e.already
    <3> SUFFICES ASSUME e.node # 0
        PROVE  /\ e.section = d.section /\ e.node \in DOMAIN AtSection
               /\ \A k \in DOMAIN AtSection : k < e.node => AtSection[k] \in e.already
      BY <1>3 DEF AtSection
    <3>1. e.section = d.section /\ e.node = d.node + 1 /\ d.node < Len(AtSection)
      BY <1>7
    <3>2. \A k \in DOMAIN AtSection : k < d.node + 1 => k <= d.node
      BY <1>6
    <3> QED BY <1>6, <1>10, <3>1, <3>2
  <2>3. hook.at \in LateStages /\ hook.at # "emit"
    BY <1>2 DEF LateStages
  <2>4. e.lines => hook.brief # <<>>
    BY <1>1, <1>7 DEF Drafted
  <2> QED BY <1>9, <2>1, <2>2, <2>3, <2>4 DEF Drafted, AtSection
<1> QED BY <1>2, <1>8, <1>11, DraftGrows

LEMMA MarksInv == ASSUME HookInv, Marks PROVE HookInv'
<1> DEFINE state == [shown |-> hook.draft.shown, hinted |-> FALSE]
<1>1. /\ hook.at = "render" /\ hook.draft.section > Len(Briefing) /\ Write(state) /\ hook' = [hook EXCEPT !.at = "emit"]
      /\ UNCHANGED <<stateWritable, told>>
  BY DEF Marks, Rendered, Goto
<1>2. hook.draft \in DraftRecord /\ told \in ToldRecord /\ stateWritable \in BOOLEAN
  BY DEF HookInv, HookShaped, HookRecord
<1>3. state \in [shown : SUBSET HookNodes, hinted : BOOLEAN]
  BY <1>2 DEF DraftRecord
<1>4. /\ marker' \in [shown : SUBSET HookNodes, hinted : BOOLEAN]
      /\ stateWritable => marker' = state
      /\ ~stateWritable => marker' = Blank
  BY <1>1, <1>3, Written
<1>5. hook' \in HookRecord /\ hook'.at = "emit" /\ hook'.draft = hook.draft /\ hook'.brief = hook.brief
  BY <1>1, HookGoes DEF HookStages, StartStages
<1>6. /\ marker'.shown \subseteq hook.draft.shown
      /\ stateWritable => hook.draft.shown \subseteq marker'.shown
      /\ ~stateWritable => marker'.shown = {} /\ marker'.hinted = FALSE
  BY <1>4 DEF Blank
<1>7. HookShaped'
  BY <1>1, <1>2, <1>4, <1>5, <1>6 DEF HookShaped
<1>8. Drafted'
  BY <1>1, <1>5, SameDraft DEF LateStages
<1>9. Starting'
  BY <1>1, <1>5, <1>6 DEF HookInv, Starting, StartStages
<1> QED BY <1>5, <1>7, <1>8, <1>9 DEF HookInv, Hinting, Accounts, StartStages

\* Once a draft is through, it has met all the briefing has.
LEMMA AllMet ==
  ASSUME HookInv, hook.draft.section > Len(Briefing), NEW n \in UNION {ToSet(Briefing[i]) : i \in DOMAIN Briefing}
  PROVE  n \in hook.draft.already
<1>1. PICK i \in DOMAIN Briefing : n \in ToSet(Briefing[i])
  OBVIOUS
<1>2. DOMAIN Briefing = 1..Len(Briefing) /\ Len(Briefing) \in Nat
  BY BriefingSeq, LenProperties
<1>3. hook.draft.section \in Nat /\ hook.draft.section > Len(Briefing)
  BY DEF HookInv, HookShaped, HookRecord, DraftRecord
<1>4. i < hook.draft.section
  BY <1>2, <1>3
<1> QED BY <1>1, <1>4 DEF HookInv, Drafted

\* A count goes on by one or stays.
LEMMA CountsOn == \A c \in Nat : c + 1 \in Nat /\ c + 0 \in Nat
OBVIOUS

\* What an injection adds to a context.
LEMMA InjectedIs ==
  ASSUME HookInv, NEW w \in SUBSET {"start", "fetch", "unreachable", "ask", "briefing",
                                   "briefing text", "parked", "parked text", "hinted"},
         told' = Injected(w)
  PROVE  /\ told' \in ToldRecord
         /\ \A n \in HookNodes : told'.shown[n] = told.shown[n] + (IF n \in hook.draft.shown THEN 1 ELSE 0)
         /\ told'.named \cup told'.unnamed = told.named \cup told.unnamed \cup ToSet(hook.draft.dropped)
         /\ told'.fetched = told.fetched \cup UNION {ToSet(Briefing[i]) : i \in DOMAIN Briefing}
         /\ told'.said = told.said \cup w /\ told'.cut = told.cut
<1> DEFINE counts == [n \in HookNodes |-> told.shown[n] + IF n \in hook.draft.shown THEN 1 ELSE 0]
           fetched == UNION {ToSet(Briefing[i]) : i \in DOMAIN Briefing}
<1>1. told \in ToldRecord /\ hook.draft.dropped \in Seq(HookNodes)
  BY DEF HookInv, HookShaped, HookRecord, DraftRecord
<1>2. ToSet(hook.draft.dropped) \subseteq HookNodes /\ Named \subseteq ToSet(hook.draft.dropped)
  <2>1. \A i \in DOMAIN hook.draft.dropped : hook.draft.dropped[i] \in HookNodes
    BY <1>1, ElementOfSeq, LenProperties
  <2> QED BY <2>1 DEF ToSet, Named
<1>3. fetched \subseteq HookNodes
  <2>1. ASSUME NEW i \in DOMAIN Briefing PROVE ToSet(Briefing[i]) \subseteq HookNodes
    <3>1. Briefing[i] \in Seq(HookNodes)
      BY BriefingSeq, ElementOfSeq, LenProperties
    <3>2. \A k \in DOMAIN Briefing[i] : Briefing[i][k] \in HookNodes
      BY <3>1, ElementOfSeq, LenProperties
    <3> QED BY <3>2 DEF ToSet
  <2> QED BY <2>1
<1>4. counts \in [HookNodes -> Nat]
  <2>1. \A n \in HookNodes : told.shown[n] \in Nat
    BY <1>1 DEF ToldRecord
  <2>2. ASSUME NEW n \in HookNodes
        PROVE  told.shown[n] + (IF n \in hook.draft.shown THEN 1 ELSE 0) \in Nat
    BY <2>1, CountsOn
  <2> QED BY <2>2
<1>5. told' = [told EXCEPT !.shown = counts, !.named = @ \cup Named,
                           !.unnamed = @ \cup (ToSet(hook.draft.dropped) \ Named),
                           !.fetched = @ \cup fetched, !.said = @ \cup w]
  BY DEF Injected
<1> HIDE DEF counts, fetched
<1>6. told' \in ToldRecord
  <2>1. /\ told.named \cup Named \in SUBSET HookNodes
        /\ told.unnamed \cup (ToSet(hook.draft.dropped) \ Named) \in SUBSET HookNodes
        /\ told.fetched \cup fetched \in SUBSET HookNodes
        /\ told.said \cup w \in SUBSET {"start", "fetch", "unreachable", "ask", "briefing",
                                       "briefing text", "parked", "parked text", "hinted"}
    BY <1>1, <1>2, <1>3 DEF ToldRecord
  <2> HIDE DEF Injected
  <2> QED BY <1>1, <1>4, <1>5, <2>1 DEF ToldRecord
<1>7. /\ told'.shown = counts /\ told'.named = told.named \cup Named
      /\ told'.unnamed = told.unnamed \cup (ToSet(hook.draft.dropped) \ Named)
      /\ told'.fetched = told.fetched \cup fetched /\ told'.said = told.said \cup w /\ told'.cut = told.cut
  BY <1>1, <1>5 DEF ToldRecord
<1> QED BY <1>2, <1>6, <1>7 DEF counts, fetched

LEMMA BriefsInv == ASSUME HookInv, Briefs PROVE HookInv'
<1> DEFINE got == {w \in {"briefing", "briefing text", "parked", "parked text"} :
                     CASE w = "briefing" -> hook.brief # <<>>
                       [] w = "briefing text" -> hook.draft.lines
                       [] w = "parked" -> hook.parked # <<>>
                       [] w = "parked text" -> hook.parked = <<TRUE>>}
           w == IF got \cap {"briefing text", "parked text"} = {} THEN {"fetch"} ELSE got
<1>1. /\ hook.at = "emit" /\ told' = Injected(w) /\ hook' = Idle /\ UNCHANGED <<stateWritable, marker>>
  BY DEF Briefs, Ends
<1>2. w \in SUBSET {"start", "fetch", "unreachable", "ask", "briefing", "briefing text", "parked",
                    "parked text", "hinted"}
  OBVIOUS
<1>3. \/ {"fetch", "unreachable"} \cap w # {}
      \/ {"briefing", "parked text"} \cap w # {} /\ {"parked", "briefing text"} \cap w # {}
  <2>1. ASSUME "briefing text" \in got PROVE "briefing" \in got
    BY <2>1 DEF HookInv, Drafted
  <2>2. ASSUME "parked text" \in got PROVE "parked" \in got
    BY <2>2
  <2>3. CASE got \cap {"briefing text", "parked text"} = {}
    BY <2>3
  <2>4. CASE got \cap {"briefing text", "parked text"} # {}
    <3>1. w = got
      BY <2>4
    <3> HIDE DEF got, w
    <3> QED BY <2>1, <2>2, <2>4, <3>1
  <2> QED BY <2>3, <2>4
<1> HIDE DEF w
<1>4. /\ told' \in ToldRecord
      /\ \A n \in HookNodes : told'.shown[n] = told.shown[n] + (IF n \in hook.draft.shown THEN 1 ELSE 0)
      /\ told'.named \cup told'.unnamed = told.named \cup told.unnamed \cup ToSet(hook.draft.dropped)
      /\ told'.fetched = told.fetched \cup UNION {ToSet(Briefing[i]) : i \in DOMAIN Briefing}
      /\ told'.said = told.said \cup w /\ told'.cut = told.cut
  BY <1>1, <1>2, InjectedIs
<1>5. told.cut = FALSE /\ told.said = {"start"} /\ told.fetched = {} /\ \A n \in HookNodes : told.shown[n] = 0
  BY <1>1, NothingYet DEF StartStages
<1>6. /\ hook.draft.already \subseteq hook.draft.shown \cup ToSet(hook.draft.dropped)
      /\ marker.shown \subseteq hook.draft.shown
      /\ stateWritable => hook.draft.shown \subseteq marker.shown
      /\ hook.draft.section > Len(Briefing)
  BY <1>1 DEF HookInv, Starting, StartStages, Drafted
<1>7. hook'.at = "idle" /\ hook' \in HookRecord /\ Drafted'
  BY <1>1, IdleDrafted
<1>8. \A n \in HookNodes : told'.shown[n] = IF n \in hook.draft.shown THEN 1 ELSE 0
  BY <1>4, <1>5
<1>9. HookShaped'
  BY <1>1, <1>4, <1>7 DEF HookInv, HookShaped
<1>10. marker.shown \subseteq HookNodes
  BY DEF HookInv, HookShaped
<1>11. Hinting'
  BY <1>1, <1>6, <1>7, <1>8, <1>10 DEF Hinting, HintStages
<1>12. \A n \in told'.fetched : told'.shown[n] > 0 \/ n \in told'.named \cup told'.unnamed
  <2> SUFFICES ASSUME NEW n \in UNION {ToSet(Briefing[i]) : i \in DOMAIN Briefing}
               PROVE  told'.shown[n] > 0 \/ n \in told'.named \cup told'.unnamed
    BY <1>4, <1>5
  <2>1. n \in hook.draft.already
    BY <1>6, AllMet
  <2>2. n \in HookNodes
    BY <2>1 DEF HookInv, HookShaped, HookRecord, DraftRecord
  <2> QED BY <1>4, <1>6, <1>8, <2>1, <2>2
<1>13. Accounts'
  BY <1>3, <1>4, <1>12 DEF Accounts
<1>14. Starting'
  BY <1>7 DEF Starting, StartStages
<1> QED BY <1>7, <1>9, <1>11, <1>13, <1>14 DEF HookInv

LEMMA PromptInv == ASSUME HookInv, Prompts \/ Hints PROVE HookInv'
<1>1. /\ hook \in HookRecord /\ told \in ToldRecord /\ stateWritable \in BOOLEAN /\ Drafted
      /\ marker \in [shown : SUBSET HookNodes, hinted : BOOLEAN]
  BY DEF HookInv, HookShaped
<1>2. CASE Prompts
  <2>1. hook = Idle /\ UNCHANGED <<stateWritable, told>>
    BY <1>2 DEF Prompts
  <2>2. CASE UNCHANGED <<marker, hook>>
    BY <2>1, <2>2, HookStands
  <2>3. CASE ~UNCHANGED <<marker, hook>>
    <3>1. /\ ~marker.hinted /\ Write(Claim(marker))
          /\ hook' = [hook EXCEPT !.at = "hint", !.draft = FreshDraft(marker.shown)]
      BY <1>2, <2>3 DEF Prompts
    <3>2. Claim(marker) \in [shown : SUBSET HookNodes, hinted : BOOLEAN]
          /\ Claim(marker).shown = marker.shown /\ Claim(marker).hinted = TRUE
      BY <1>1 DEF Claim
    <3>3. /\ marker' \in [shown : SUBSET HookNodes, hinted : BOOLEAN] /\ marker'.shown = marker.shown
          /\ stateWritable => marker'.hinted = TRUE
          /\ ~stateWritable => marker'.shown = {} /\ marker'.hinted = FALSE
      <4>1. CASE stateWritable
        BY <3>1, <3>2, <4>1, Written
      <4>2. CASE ~stateWritable
        BY <1>1, <3>1, <4>2 DEF Write, HookInv, HookShaped
      <4> QED BY <4>1, <4>2
    <3>4. FreshDraft(marker.shown) \in DraftRecord
      <4>1. ContextCap \in Int /\ <<>> \in Seq(HookNodes) /\ marker.shown \in SUBSET HookNodes
        BY <1>1, HookBounds
      <4> QED BY <4>1 DEF FreshDraft, DraftRecord
    <3>5. hook' \in HookRecord /\ hook'.at = "hint" /\ hook'.draft = FreshDraft(marker.shown) /\ hook'.brief = <<>>
      BY <1>1, <2>1, <3>1, <3>4 DEF HookRecord, HookStages, HintStages, Idle
    <3>6. HookShaped'
      BY <1>1, <2>1, <3>3, <3>5 DEF HookShaped
    <3>7. /\ hook'.draft.already = marker.shown /\ hook'.draft.shown = {} /\ hook'.draft.section = 1
          /\ hook'.draft.node = 0 /\ hook'.draft.lines = FALSE
      BY <3>5 DEF FreshDraft
    <3>8. Drafted'
      BY <3>5, <3>7 DEF Drafted, Briefing
    <3>9. Hinting'
      <4>1. hook.at = "idle"
        BY <2>1 DEF Idle
      <4> SUFFICES ASSUME ~told.cut PROVE Hinting'
        BY <2>1 DEF Hinting
      <4>2. /\ \A n \in marker.shown : told.shown[n] > 0
            /\ stateWritable => /\ \A n \in HookNodes : told.shown[n] <= 1
                                /\ \A n \in HookNodes : told.shown[n] > 0 => n \in marker.shown
        BY <3>1, <4>1 DEF HookInv, Hinting, StartStages
      <4> QED BY <2>1, <3>3, <3>5, <3>7, <4>2 DEF Hinting
    <3>10. Starting' /\ Accounts'
      BY <2>1, <3>5 DEF HookInv, Starting, Accounts, StartStages, Idle
    <3> QED BY <3>6, <3>8, <3>9, <3>10 DEF HookInv
  <2> QED BY <2>2, <2>3
<1>3. CASE Hints
  <2>1. PICK r \in Replies(Briefings) :
          IF r = <<>> THEN Tells({"fetch"}) /\ Ends
          ELSE hook' = [hook EXCEPT !.at = "render hint", !.brief = r] /\ UNCHANGED told
    BY <1>3 DEF Hints
  <2>2. hook.at = "hint" /\ UNCHANGED <<stateWritable, marker>>
    BY <1>3 DEF Hints
  <2>3. hook.at \in HintStages /\ hook.at \notin StartStages /\ hook.at \notin LateStages
    BY <2>2 DEF HintStages, StartStages, LateStages
  <2>4. CASE r = <<>>
    <3>1. /\ told' \in ToldRecord /\ told'.said = told.said \cup {"fetch"} /\ told'.shown = told.shown
          /\ told'.fetched = told.fetched /\ told'.named = told.named /\ told'.unnamed = told.unnamed
          /\ told'.cut = told.cut
      BY <2>1, <2>4, Heard
    <3>2. hook'.at = "idle" /\ hook' \in HookRecord /\ Drafted'
      BY <2>1, <2>4, IdleDrafted DEF Ends
    <3>3. HookShaped'
      BY <1>1, <2>2, <3>1, <3>2 DEF HookInv, HookShaped
    <3>4. Hinting'
      BY <2>2, <2>3, <3>1, <3>2 DEF HookInv, Hinting, HintStages
    <3>5. Accounts' /\ Starting'
      BY <2>3, <3>1, <3>2 DEF HookInv, Accounts, Starting, StartStages
    <3> QED BY <3>2, <3>3, <3>4, <3>5 DEF HookInv
  <2>5. CASE r # <<>>
    <3>1. hook' = [hook EXCEPT !.at = "render hint", !.brief = r] /\ UNCHANGED told
      BY <2>1, <2>5
    <3>2. r \in {<<>>} \cup {<<b>> : b \in Briefings}
      BY DEF Replies
    <3>3. /\ hook' \in HookRecord /\ hook'.at = "render hint" /\ hook'.draft = hook.draft
          /\ hook.draft.section = 1 /\ hook.draft.node = 0 /\ ~hook.draft.lines
      BY <1>1, <2>3, <3>1, <3>2 DEF HookRecord, HookStages, HintStages, Drafted
    <3>4. Briefing' \in Seq(Seq(HookNodes))
      <4>1. r[1] \in Seq(Seq(HookNodes)) /\ hook'.brief = r
        BY <1>1, <2>5, <3>1, <3>2, HookBounds DEF HookRecord
      <4> QED BY <2>5, <4>1 DEF Briefing
    <3>5. Drafted'
      <4>1. hook'.draft.section = 1 /\ hook'.draft.node = 0 /\ ~hook'.draft.lines
            /\ hook'.at \in LateStages /\ hook'.at # "emit"
        BY <3>3 DEF LateStages
      <4>2. \A i \in DOMAIN Briefing' : ~(i < 1)
        BY <3>4, LenProperties
      <4> QED BY <4>1, <4>2 DEF Drafted
    <3>6. HookShaped'
      BY <1>1, <2>2, <3>1, <3>3 DEF HookInv, HookShaped
    <3>7. Hinting' /\ Accounts' /\ Starting'
      BY <2>2, <2>3, <3>1, <3>3 DEF HookInv, Hinting, Accounts, Starting, HintStages, StartStages
    <3> QED BY <3>5, <3>6, <3>7 DEF HookInv
  <2> QED BY <2>4, <2>5
<1> QED BY <1>2, <1>3

LEMMA AddsHintedInv == ASSUME HookInv, AddsHinted PROVE HookInv'
<1>1. /\ hook.at = "render hint" /\ hook.draft.section > Len(Briefing) /\ told' = Injected({"hinted"})
      /\ hook' = Idle /\ UNCHANGED <<stateWritable, marker>>
  BY DEF AddsHinted, Rendered, Ends
<1>2. /\ told' \in ToldRecord
      /\ \A n \in HookNodes : told'.shown[n] = told.shown[n] + (IF n \in hook.draft.shown THEN 1 ELSE 0)
      /\ told'.named \cup told'.unnamed = told.named \cup told.unnamed \cup ToSet(hook.draft.dropped)
      /\ told'.fetched = told.fetched \cup UNION {ToSet(Briefing[i]) : i \in DOMAIN Briefing}
      /\ told'.said = told.said \cup {"hinted"} /\ told'.cut = told.cut
  BY <1>1, InjectedIs
<1>3. hook'.at = "idle" /\ hook' \in HookRecord /\ Drafted'
  BY <1>1, IdleDrafted
<1>4. /\ told.shown \in [HookNodes -> Nat] /\ marker.shown \subseteq HookNodes
      /\ told.fetched \subseteq HookNodes /\ hook.draft.already \subseteq HookNodes
  BY DEF HookInv, HookShaped, ToldRecord, HookRecord, DraftRecord
<1>5. HookShaped'
  BY <1>1, <1>2, <1>3 DEF HookInv, HookShaped
<1>6. \A n \in HookNodes : /\ told'.shown[n] >= told.shown[n]
                           /\ n \in hook.draft.shown => told'.shown[n] > 0
                           /\ told.shown[n] = 0 => told'.shown[n] <= 1
                           /\ n \notin hook.draft.shown => told'.shown[n] = told.shown[n]
  BY <1>2, <1>4
<1>7. Hinting'
  <2> SUFFICES ASSUME ~told.cut PROVE Hinting'
    BY <1>2 DEF Hinting
  <2>1. /\ \A n \in marker.shown : told.shown[n] > 0
        /\ stateWritable =>
             /\ \A n \in HookNodes : told.shown[n] <= 1
             /\ marker.hinted
             /\ \A n \in HookNodes : told.shown[n] > 0 => n \in hook.draft.already \ hook.draft.shown
    BY <1>1 DEF HookInv, Hinting, HintStages, StartStages
  <2>2. \A n \in marker.shown : told'.shown[n] > 0
    BY <1>2, <1>4, <2>1
  <2>3. stateWritable => \A n \in HookNodes : told'.shown[n] <= 1
    BY <1>4, <1>6, <2>1
  <2> QED BY <1>1, <1>3, <2>1, <2>2, <2>3 DEF Hinting, HintStages
<1>8. Accounts'
  <2> SUFFICES ASSUME ~told.cut PROVE Accounts'
    BY <1>2 DEF Accounts
  <2>1. /\ \A n \in told.fetched : told.shown[n] > 0 \/ n \in told.named \cup told.unnamed
        /\ "start" \in told.said =>
             \/ {"fetch", "unreachable"} \cap told.said # {}
             \/ {"briefing", "parked text"} \cap told.said # {} /\ {"parked", "briefing text"} \cap told.said # {}
    BY <1>1 DEF HookInv, Accounts, StartStages
  <2>2. \A n \in hook.draft.already :
          told.shown[n] > 0 \/ n \in hook.draft.shown \cup ToSet(hook.draft.dropped)
    BY <1>1 DEF HookInv, Hinting, HintStages, StartStages
  <2>3. \A n \in HookNodes : told.shown[n] > 0 => told'.shown[n] > 0
    BY <1>2, <1>4
  <2>4. \A n \in told'.fetched : told'.shown[n] > 0 \/ n \in told'.named \cup told'.unnamed
    <3> SUFFICES ASSUME NEW n \in told'.fetched PROVE told'.shown[n] > 0 \/ n \in told'.named \cup told'.unnamed
      OBVIOUS
    <3>1. CASE n \in told.fetched
      BY <1>2, <1>4, <2>1, <2>3, <3>1
    <3>2. CASE n \in UNION {ToSet(Briefing[i]) : i \in DOMAIN Briefing}
      <4>1. n \in hook.draft.already
        BY <1>1, <3>2, AllMet
      <4> QED BY <1>2, <1>4, <1>6, <2>2, <2>3, <4>1
    <3> QED BY <1>2, <3>1, <3>2
  <2>5. /\ told.said \subseteq told'.said
        /\ "start" \in told'.said => "start" \in told.said
    BY <1>2
  <2> QED BY <2>1, <2>4, <2>5 DEF Accounts
<1>9. Starting'
  BY <1>3 DEF Starting, StartStages
<1> QED BY <1>3, <1>5, <1>7, <1>8, <1>9 DEF HookInv

\* A process that ends by an error it does not handle: a start's is left out of what
\* is claimed, a prompt's leaves the session and the marker as they were.
LEMMA HttpFailsInv == ASSUME HookInv, HttpFails PROVE HookInv'
<1>1. /\ told' = [told EXCEPT !.cut = @ \/ hook.at # "hint"] /\ hook' = Idle
      /\ UNCHANGED <<stateWritable, marker>>
  BY DEF HttpFails, Ends
<1>2. hook'.at = "idle" /\ hook' \in HookRecord /\ Drafted'
  BY <1>1, IdleDrafted
<1>3. told \in ToldRecord
  BY DEF HookInv, HookShaped
<1>4. /\ told' \in ToldRecord /\ told'.cut = (told.cut \/ hook.at # "hint")
      /\ told'.shown = told.shown /\ told'.fetched = told.fetched /\ told'.said = told.said
      /\ told'.named = told.named /\ told'.unnamed = told.unnamed
  BY <1>1, <1>3 DEF ToldRecord
<1>5. HookShaped' /\ Starting'
  BY <1>1, <1>2, <1>4 DEF HookInv, HookShaped, Starting, StartStages
<1>6. CASE told'.cut
  BY <1>2, <1>5, <1>6 DEF HookInv, Hinting, Accounts
<1>7. CASE ~told'.cut
  <2>1. hook.at = "hint" /\ ~told.cut
    BY <1>4, <1>7
  <2>2. Hinting'
    BY <1>1, <1>2, <1>4, <2>1 DEF HookInv, Hinting, StartStages, HintStages
  <2>3. Accounts'
    BY <1>4, <2>1 DEF HookInv, Accounts, StartStages
  <2> QED BY <1>2, <1>5, <2>2, <2>3 DEF HookInv
<1> QED BY <1>6, <1>7

LEMMA HookStepInv == ASSUME HookInv, [HooksNext]_hookVars PROVE HookInv'
<1>1. CASE HookKilled
  <2>1. told' = [told EXCEPT !.cut = TRUE] /\ hook' = Idle /\ UNCHANGED <<stateWritable, marker>>
    BY <1>1 DEF HookKilled, Ends
  <2>2. hook'.at = "idle" /\ hook' \in HookRecord /\ Drafted'
    BY <2>1, IdleDrafted
  <2>3. told' \in ToldRecord /\ told'.cut
    BY <2>1 DEF HookInv, HookShaped, ToldRecord
  <2> QED BY <2>1, <2>2, <2>3 DEF HookInv, HookShaped, Starting, Hinting, Accounts, StartStages
<1>2. CASE UNCHANGED hookVars
  BY <1>2, HookStands DEF hookVars
<1>3. CASE HttpFails
  BY <1>3, HttpFailsInv
<1> QED BY <1>1, <1>2, <1>3, HookMovesInv, OpensInv, PlacesInv, MarksInv, BriefsInv, PromptInv, AddsHintedInv
        DEF HooksNext

LEMMA HookSound == HookInv => HookHonest
<1> SUFFICES ASSUME HookInv PROVE HookHonest
  OBVIOUS
<1>1. ASSUME stateWritable, ~told.cut, NEW n \in HookNodes PROVE told.shown[n] <= 1
  <2>1. CASE hook.at \in StartStages
    <3>1. told.shown = [m \in HookNodes |-> 0]
      BY <2>1, NothingYet
    <3>2. told.shown[n] = 0
      BY <3>1
    <3> QED BY <3>2
  <2>2. CASE hook.at \notin StartStages
    BY <1>1, <2>2 DEF HookInv, Hinting
  <2> QED BY <2>1, <2>2
<1>2. hook = Idle => hook.at \notin StartStages
  BY DEF Idle, StartStages
<1> QED BY <1>1, <1>2 DEF HookInv, Accounts, HookHonest

\* For any scope listings, briefings, links, costs, budgets and kills: a session whose
\* processes were let finish, and whose start did not end by an HTTPException, is
\* shown no node twice, each node in a section of a briefing is shown or named or
\* counted among the unnamed, and a start leaves nothing unread without saying so,
\* as far as HookHonest excepts.
THEOREM SessionsToldOnce == HooksSpec => []HookHonest
<1>1. HookInv /\ [HooksNext]_hookVars => HookInv'
  BY HookStepInv
<1> QED BY HookStart, <1>1, HookSound, PTL DEF HooksSpec

-----------------------------------------------------------------------------
(* Traverse: the walk, level by level.                                     *)

CallShaped(q) ==
  /\ q.start \in WNodes /\ q.depth \in 1..DepthCap /\ q.limit \in 1..LimitCap
  /\ q.edges \subseteq WNodes \X WNodes \X Nat /\ IsFiniteSet(q.edges)
  /\ \A e \in q.edges : e[1] # e[2] /\ e[1] \in q.rows.readable /\ e[2] \in q.rows.readable

\* One step of a walk, and a walk of j steps.
Arc(q, m, n) ==
  q.rows.status[n] # "archived" /\ \E e \in q.edges : Walkable(q, e, m) /\ Across(e, m) = n
WalkOf(q, p, j) == p[1] = q.start /\ \A i \in 1..j : Arc(q, p[i], p[i + 1])

\* A row of the query: a walk that never returns to the start, and its last edge.
RowOf(q, r) ==
  LET k == DepthOf(r)
  IN /\ k \in Nat \ {0} /\ Len(r.path) = k + 1 /\ r.path \in [1..(k + 1) -> WNodes]
     /\ WalkOf(q, r.path, k) /\ \A i \in 2..(k + 1) : r.path[i] # q.start
     /\ r.via \in Seq(q.edges)
     /\ \/ EdgeOf(r)[1] = r.path[k] /\ EdgeOf(r)[2] = r.path[k + 1]
        \/ EdgeOf(r)[2] = r.path[k] /\ EdgeOf(r)[1] = r.path[k + 1]

\* Its path without the last step is that of a row, one step shorter.
Continues(r, rows) ==
  DepthOf(r) > 1 =>
    \E t \in rows : DepthOf(t) = DepthOf(r) - 1 /\ Reaches(t) = r.path[DepthOf(r)]

\* The rows reach, no later, whatever a walk of at most k steps leads to.
ReachesAll(q, rows, k) ==
  \A j \in 1..k : \A p \in [1..(j + 1) -> WNodes] :
    WalkOf(q, p, j) /\ p[j + 1] # q.start =>
      \E t \in rows : DepthOf(t) \in 1..j /\ Reaches(t) = p[j + 1]

RowsUpTo(q, rows, k) ==
  /\ IsFiniteSet(rows)
  /\ \A r \in rows : RowOf(q, r) /\ DepthOf(r) <= k /\ Continues(r, rows)
  /\ ReachesAll(q, rows, k)

LEMMA AsSequence ==
  ASSUME NEW S, NEW k \in Nat, NEW p \in [1..k -> S]
  PROVE  p \in Seq(S) /\ Len(p) = k /\ DOMAIN p = 1..k
<1>1. p \in Seq(S)
  BY IsASeq
<1>2. DOMAIN p = 1..k /\ DOMAIN p = 1..Len(p) /\ Len(p) \in Nat
  BY <1>1, LenProperties
<1>3. Len(p) = k
  BY <1>2
<1> QED BY <1>1, <1>2, <1>3

LEMMA ArcEnds ==
  ASSUME NEW q, CallShaped(q), NEW m, NEW e \in q.edges, Walkable(q, e, m)
  PROVE  /\ Across(e, m) \in WNodes /\ Across(e, m) # m /\ m \in WNodes
         /\ (e[1] = m /\ e[2] = Across(e, m)) \/ (e[2] = m /\ e[1] = Across(e, m))
<1>1. e[1] \in WNodes /\ e[2] \in WNodes /\ e[1] # e[2]
  BY DEF CallShaped
<1>2. e[1] = m \/ e[2] = m
  BY DEF Walkable
<1> QED BY <1>1, <1>2 DEF Across

LEMMA OneEdge ==
  ASSUME NEW S, NEW e \in S
  PROVE  << e >> \in Seq(S) /\ Len(<< e >>) = 1 /\ << e >>[1] = e
OBVIOUS

LEMMA TwoNodes ==
  ASSUME NEW m \in WNodes, NEW n \in WNodes
  PROVE  /\ << m, n >> \in [1..2 -> WNodes] /\ Len(<< m, n >>) = 2
         /\ << m, n >>[1] = m /\ << m, n >>[2] = n
OBVIOUS

LEMMA FiniteImage ==
  ASSUME NEW S, IsFiniteSet(S), NEW f, DOMAIN f = S, f = [x \in S |-> f[x]]
  PROVE  IsFiniteSet({f[x] : x \in S})
<1> DEFINE T == {f[x] : x \in S}
<1>1. f \in [S -> T]
  OBVIOUS
<1>2. f \in Surjection(S, T)
  BY <1>1 DEF Surjection
<1> QED BY <1>2, FS_Surjection

LEMMA FirstRow ==
  ASSUME NEW q, CallShaped(q), NEW e \in q.edges, Walkable(q, e, q.start),
         q.rows.status[Across(e, q.start)] # "archived",
         NEW r, r = [via |-> << e >>, path |-> << q.start, Across(e, q.start) >>]
  PROVE  RowOf(q, r) /\ DepthOf(r) = 1 /\ Reaches(r) = Across(e, q.start)
<1> DEFINE n == Across(e, q.start)
<1>1. /\ n \in WNodes /\ n # q.start /\ q.start \in WNodes
      /\ (e[1] = q.start /\ e[2] = n) \/ (e[2] = q.start /\ e[1] = n)
  BY ArcEnds
<1>2. /\ r.via = << e >> /\ r.path = << q.start, n >>
      /\ r.via \in Seq(q.edges) /\ Len(r.via) = 1 /\ r.via[1] = e
  BY OneEdge
<1>3. /\ r.path \in [1..2 -> WNodes] /\ Len(r.path) = 2
      /\ r.path[1] = q.start /\ r.path[2] = n
  BY <1>1, <1>2, TwoNodes
<1>4. Arc(q, q.start, n)
  BY DEF Arc
<1> HIDE DEF n
<1>5. DepthOf(r) = 1 /\ Reaches(r) = n /\ EdgeOf(r) = e
  BY <1>2, <1>3 DEF DepthOf, Reaches, EdgeOf
<1>6. WalkOf(q, r.path, 1)
  BY <1>3, <1>4 DEF WalkOf
<1>7. \A i \in 2..2 : r.path[i] # q.start
  BY <1>1, <1>3
<1>8. RowOf(q, r)
  BY <1>1, <1>2, <1>3, <1>5, <1>6, <1>7 DEF RowOf
<1> QED BY <1>5, <1>8 DEF n

LEMMA FirstLevel ==
  ASSUME NEW q, CallShaped(q)
  PROVE  RowsUpTo(q, FirstRows(q), 1)
<1> DEFINE row(e) == [via |-> << e >>, path |-> << q.start, Across(e, q.start) >>]
           E == {e \in q.edges : /\ Walkable(q, e, q.start)
                                 /\ q.rows.status[Across(e, q.start)] # "archived"}
           f == [e \in E |-> row(e)]
<1>1. FirstRows(q) = {f[e] : e \in E}
  BY DEF FirstRows
<1>2. IsFiniteSet(FirstRows(q))
  <2>1. IsFiniteSet(E)
    BY FS_Subset DEF CallShaped
  <2> HIDE DEF E
  <2>2. DOMAIN f = E /\ f = [e \in E |-> f[e]]
    OBVIOUS
  <2> HIDE DEF f
  <2> QED BY <1>1, <2>1, <2>2, FiniteImage
<1>3. \A e \in E : RowOf(q, row(e)) /\ DepthOf(row(e)) = 1 /\ Reaches(row(e)) = Across(e, q.start)
  BY FirstRow
<1>4. FirstRows(q) = {row(e) : e \in E}
  BY DEF FirstRows
<1> HIDE DEF row
<1>5. \A r \in FirstRows(q) : RowOf(q, r) /\ DepthOf(r) <= 1 /\ Continues(r, FirstRows(q))
  BY <1>3, <1>4 DEF Continues
<1>6. ReachesAll(q, FirstRows(q), 1)
  <2> SUFFICES ASSUME NEW j \in 1..1, NEW p \in [1..(j + 1) -> WNodes],
                      WalkOf(q, p, j), p[j + 1] # q.start
               PROVE  \E t \in FirstRows(q) : DepthOf(t) \in 1..j /\ Reaches(t) = p[j + 1]
    BY DEF ReachesAll
  <2>1. j = 1
    OBVIOUS
  <2>2. p[1] = q.start /\ Arc(q, p[1], p[2])
    BY <2>1 DEF WalkOf
  <2>3. PICK e \in q.edges : Walkable(q, e, q.start) /\ Across(e, q.start) = p[2]
    BY <2>2 DEF Arc
  <2>4. e \in E
    BY <2>2, <2>3 DEF Arc
  <2> HIDE DEF E
  <2> QED BY <1>3, <1>4, <2>1, <2>3, <2>4
<1> QED BY <1>2, <1>5, <1>6 DEF RowsUpTo

LEMMA RowParts ==
  ASSUME NEW q, NEW r, RowOf(q, r)
  PROVE  /\ DepthOf(r) \in Nat \ {0} /\ Len(r.path) = DepthOf(r) + 1
         /\ r.path \in [1..(DepthOf(r) + 1) -> WNodes] /\ r.path \in Seq(WNodes)
         /\ DepthOf(r) = Len(r.via) /\ r.via \in Seq(q.edges)
         /\ Reaches(r) = r.path[DepthOf(r) + 1] /\ Reaches(r) \in WNodes /\ Reaches(r) # q.start
         /\ WalkOf(q, r.path, DepthOf(r)) /\ r.path[1] = q.start
         /\ EdgeOf(r) \in q.edges
<1> DEFINE k == DepthOf(r)
<1>1. /\ k \in Nat \ {0} /\ Len(r.path) = k + 1 /\ r.path \in [1..(k + 1) -> WNodes]
      /\ WalkOf(q, r.path, k) /\ \A i \in 2..(k + 1) : r.path[i] # q.start
      /\ r.via \in Seq(q.edges)
  BY DEF RowOf
<1>2. Len(r.via) = k
  BY DEF DepthOf
<1> HIDE DEF k
<1>3. k + 1 \in Nat /\ k + 1 \in 2..(k + 1) /\ k + 1 \in 1..(k + 1)
  BY <1>1
<1>4. r.path \in Seq(WNodes)
  BY <1>1, <1>3, AsSequence
<1>5. Reaches(r) = r.path[k + 1]
  BY <1>1 DEF Reaches
<1>6. EdgeOf(r) \in q.edges
  <2>1. k \in 1..Len(r.via)
    BY <1>1, <1>2
  <2>2. r.via[k] \in q.edges
    BY <1>1, <2>1, ElementOfSeq
  <2> QED BY <1>2, <2>2 DEF EdgeOf
<1>7. r.path[1] = q.start
  BY <1>1 DEF WalkOf
<1> QED BY <1>1, <1>2, <1>3, <1>4, <1>5, <1>6, <1>7 DEF k

\* The row one step further over edge e.
Further(r, e) == [via |-> Append(r.via, e), path |-> Append(r.path, Across(e, Reaches(r)))]

LEMMA EdgeAppended ==
  ASSUME NEW S, NEW s \in Seq(S), NEW e \in S
  PROVE  /\ Append(s, e) \in Seq(S) /\ Len(Append(s, e)) = Len(s) + 1
         /\ Append(s, e)[Len(s) + 1] = e
BY AppendProperties

LEMMA NextRow ==
  ASSUME NEW q, CallShaped(q), NEW r, RowOf(q, r), NEW e \in q.edges,
         Walkable(q, e, Reaches(r)), ~Contains(r.path, Across(e, Reaches(r))),
         q.rows.status[Across(e, Reaches(r))] # "archived",
         NEW s, s = Further(r, e)
  PROVE  /\ RowOf(q, s) /\ DepthOf(s) = DepthOf(r) + 1
         /\ Reaches(s) = Across(e, Reaches(r)) /\ s.path[DepthOf(s)] = Reaches(r)
<1> DEFINE n == Across(e, Reaches(r))
           k == DepthOf(r)
<1>1. /\ k \in Nat \ {0} /\ Len(r.path) = k + 1 /\ r.path \in [1..(k + 1) -> WNodes]
      /\ r.path \in Seq(WNodes) /\ k = Len(r.via) /\ r.via \in Seq(q.edges)
      /\ Reaches(r) = r.path[k + 1] /\ r.path[1] = q.start
  BY RowParts
<1>2. WalkOf(q, r.path, k) /\ \A i \in 2..(k + 1) : r.path[i] # q.start
  BY DEF RowOf
<1>3. /\ n \in WNodes
      /\ (e[1] = Reaches(r) /\ e[2] = n) \/ (e[2] = Reaches(r) /\ e[1] = n)
  BY ArcEnds
<1>4. Arc(q, Reaches(r), n) /\ ~Contains(r.path, n)
  BY DEF Arc
<1>5. s.via = Append(r.via, e) /\ s.path = Append(r.path, n)
  BY DEF Further
<1> HIDE DEF n, k
<1>6. s.via \in Seq(q.edges) /\ Len(s.via) = k + 1 /\ s.via[k + 1] = e
  <2>1. /\ Append(r.via, e) \in Seq(q.edges) /\ Len(Append(r.via, e)) = Len(r.via) + 1
        /\ Append(r.via, e)[Len(r.via) + 1] = e
    <3>1. r.via \in Seq(q.edges) /\ e \in q.edges
      BY <1>1
    <3> DEFINE v == r.via
    <3> HIDE DEF v
    <3>2. v \in Seq(q.edges)
      BY <3>1 DEF v
    <3>3. Append(v, e) \in Seq(q.edges) /\ Len(Append(v, e)) = Len(v) + 1 /\ Append(v, e)[Len(v) + 1] = e
      BY <3>1, <3>2, EdgeAppended
    <3> QED BY <3>3 DEF v
  <2> QED BY <1>1, <1>5, <2>1
<1>7. /\ s.path \in Seq(WNodes) /\ Len(s.path) = k + 2 /\ s.path[k + 2] = n
      /\ \A i \in 1..(k + 1) : s.path[i] = r.path[i]
  <2>1. /\ s.path \in Seq(WNodes) /\ Len(s.path) = Len(r.path) + 1
        /\ s.path[Len(r.path) + 1] = n
        /\ \A i \in 1..Len(r.path) : s.path[i] = r.path[i]
    BY <1>1, <1>3, <1>5, AppendProperties
  <2>2. Len(r.path) = k + 1 /\ Len(r.path) + 1 = k + 2
    BY <1>1
  <2>3. Len(s.path) = k + 2 /\ s.path[k + 2] = n
    BY <2>1, <2>2
  <2>4. \A i \in 1..(k + 1) : s.path[i] = r.path[i]
    BY <2>1, <2>2
  <2> QED BY <2>1, <2>3, <2>4
<1>8. DepthOf(s) = k + 1 /\ EdgeOf(s) = e /\ Reaches(s) = n
  BY <1>6, <1>7 DEF DepthOf, EdgeOf, Reaches
<1>9. s.path \in [1..(k + 2) -> WNodes]
  BY <1>1, <1>7, LenProperties
<1>10. WalkOf(q, s.path, k + 1)
  <2>1. s.path[1] = q.start
    BY <1>1, <1>7
  <2>2. ASSUME NEW i \in 1..(k + 1) PROVE Arc(q, s.path[i], s.path[i + 1])
    <3>1. CASE i = k + 1
      <4>1. s.path[i] = Reaches(r) /\ s.path[i + 1] = n
        BY <1>1, <1>7, <3>1
      <4> QED BY <1>4, <4>1
    <3>2. CASE i # k + 1
      <4>1. i \in 1..k /\ i \in 1..(k + 1) /\ i + 1 \in 1..(k + 1)
        BY <1>1, <3>2
      <4>2. Arc(q, r.path[i], r.path[i + 1])
        BY <1>2, <4>1 DEF WalkOf
      <4> QED BY <1>7, <4>1, <4>2
    <3> QED BY <3>1, <3>2
  <2> QED BY <2>1, <2>2 DEF WalkOf
<1>11. ASSUME NEW i \in 2..(k + 2) PROVE s.path[i] # q.start
  <2>1. CASE i = k + 2
    <3>1. 1 \in 1..Len(r.path) /\ n # r.path[1]
      BY <1>1, <1>4 DEF Contains
    <3> QED BY <1>1, <1>7, <2>1, <3>1
  <2>2. CASE i # k + 2
    <3>1. i \in 2..(k + 1) /\ i \in 1..(k + 1)
      BY <1>1, <2>2
    <3> QED BY <1>2, <1>7, <3>1
  <2> QED BY <2>1, <2>2
<1>12. s.path[k + 1] = Reaches(r)
  BY <1>1, <1>7
<1>13. RowOf(q, s)
  <2>1. k + 1 \in Nat \ {0} /\ (k + 1) + 1 = k + 2
    BY <1>1
  <2> QED BY <1>3, <1>6, <1>7, <1>8, <1>9, <1>10, <1>11, <1>12, <2>1 DEF RowOf
<1> QED BY <1>8, <1>12, <1>13 DEF n, k

\* A shorter walk is part of a walk, and one more step makes a longer one.
LEMMA WalkPrefix ==
  ASSUME NEW q, NEW k \in Nat, NEW p \in [1..(k + 1) -> WNodes], WalkOf(q, p, k),
         NEW j \in 0..k
  PROVE  \E s \in [1..(j + 1) -> WNodes] : WalkOf(q, s, j) /\ s[j + 1] = p[j + 1]
<1> DEFINE s == [i \in 1..(j + 1) |-> p[i]]
<1>1. j \in Nat /\ j <= k /\ 1..(j + 1) \subseteq 1..(k + 1) /\ j + 1 \in 1..(j + 1) /\ 1 \in 1..(j + 1)
  OBVIOUS
<1>2. s \in [1..(j + 1) -> WNodes] /\ s[j + 1] = p[j + 1] /\ s[1] = p[1]
  BY <1>1
<1>3. ASSUME NEW i \in 1..j PROVE Arc(q, s[i], s[i + 1])
  <2>1. i \in 1..k /\ i \in 1..(j + 1) /\ i + 1 \in 1..(j + 1)
    BY <1>1
  <2>2. s[i] = p[i] /\ s[i + 1] = p[i + 1]
    BY <2>1
  <2> QED BY <2>1, <2>2 DEF WalkOf
<1> HIDE DEF s
<1>4. WalkOf(q, s, j)
  BY <1>2, <1>3 DEF WalkOf
<1> QED BY <1>2, <1>4

LEMMA WalkExtended ==
  ASSUME NEW q, NEW k \in Nat, NEW p \in [1..(k + 1) -> WNodes], WalkOf(q, p, k),
         NEW n \in WNodes, Arc(q, p[k + 1], n)
  PROVE  \E s \in [1..(k + 2) -> WNodes] : WalkOf(q, s, k + 1) /\ s[k + 2] = n
<1> DEFINE s == [i \in 1..(k + 2) |-> IF i = k + 2 THEN n ELSE p[i]]
<1>1. \A i \in 1..(k + 1) : i \in 1..(k + 2) /\ i # k + 2
  OBVIOUS
<1>2. s \in [1..(k + 2) -> WNodes] /\ s[k + 2] = n
  <2>1. \A i \in 1..(k + 2) : (IF i = k + 2 THEN n ELSE p[i]) \in WNodes
    OBVIOUS
  <2>2. k + 2 \in 1..(k + 2)
    OBVIOUS
  <2> QED BY <2>1, <2>2
<1>3. \A i \in 1..(k + 1) : s[i] = p[i]
  BY <1>1
<1> HIDE DEF s
<1>4. ASSUME NEW i \in 1..(k + 1) PROVE Arc(q, s[i], s[i + 1])
  <2>1. CASE i = k + 1
    <3>1. s[i] = p[k + 1] /\ s[i + 1] = n
      BY <1>2, <1>3, <2>1
    <3> QED BY <3>1
  <2>2. CASE i # k + 1
    <3>1. i \in 1..k /\ i + 1 \in 1..(k + 1)
      BY <2>2
    <3> QED BY <1>3, <3>1 DEF WalkOf
  <2> QED BY <2>1, <2>2
<1>5. s[1] = q.start
  BY <1>3 DEF WalkOf
<1>6. WalkOf(q, s, k + 1)
  BY <1>4, <1>5 DEF WalkOf
<1> QED BY <1>2, <1>6

\* So a node that no walk of at most k steps leads to is on none of them, and follows
\* none that is shorter.
LEMMA BeyondWalks ==
  ASSUME NEW q, NEW k \in Nat, NEW n \in WNodes,
         \A i \in 1..k : \A s \in [1..(i + 1) -> WNodes] : WalkOf(q, s, i) => s[i + 1] # n,
         NEW d \in Nat, NEW p \in [1..(d + 1) -> WNodes], WalkOf(q, p, d)
  PROVE  /\ Arc(q, p[d + 1], n) => d >= k
         /\ d <= k => \A i \in 2..(d + 1) : p[i] # n
<1>1. ASSUME Arc(q, p[d + 1], n), ~(d >= k) PROVE FALSE
  <2>1. PICK s \in [1..(d + 2) -> WNodes] : WalkOf(q, s, d + 1) /\ s[d + 2] = n
    BY <1>1, WalkExtended
  <2>2. d + 1 \in 1..k /\ d + 2 = (d + 1) + 1
    BY <1>1
  <2> QED BY <2>1, <2>2
<1>2. ASSUME d <= k, NEW i \in 2..(d + 1), p[i] = n PROVE FALSE
  <2>1. PICK h \in 1..d : h + 1 = i
    <3>1. i - 1 \in 1..d /\ (i - 1) + 1 = i
      OBVIOUS
    <3> QED BY <3>1
  <2>2. h \in 0..d /\ h \in 1..k
    BY <1>2
  <2>3. PICK s \in [1..(h + 1) -> WNodes] : WalkOf(q, s, h) /\ s[h + 1] = p[h + 1]
    BY <2>2, WalkPrefix
  <2> QED BY <1>2, <2>1, <2>2, <2>3
<1> QED BY <1>1, <1>2

LEMMA NextLevel ==
  ASSUME NEW q, CallShaped(q), NEW k \in Nat \ {0}, NEW rows, RowsUpTo(q, rows, k)
  PROVE  RowsUpTo(q, rows \cup NextRows(q, {r \in rows : DepthOf(r) = k}), k + 1)
<1> DEFINE last == {r \in rows : DepthOf(r) = k}
           E == {s \in last \X q.edges :
                   LET n == Across(s[2], Reaches(s[1]))
                   IN /\ Walkable(q, s[2], Reaches(s[1]))
                      /\ ~Contains(s[1].path, n)
                      /\ q.rows.status[n] # "archived"}
           row(s) == Further(s[1], s[2])
           new == NextRows(q, last)
           f == [s \in E |-> row(s)]
<1>1. new = {f[s] : s \in E} /\ new = {row(s) : s \in E}
  BY DEF NextRows, Further
<1>2. /\ IsFiniteSet(rows) /\ ReachesAll(q, rows, k)
      /\ \A r \in rows : RowOf(q, r) /\ DepthOf(r) <= k /\ Continues(r, rows)
  BY DEF RowsUpTo
<1>3. IsFiniteSet(rows \cup new)
  <2>1. IsFiniteSet(E)
    <3>1. IsFiniteSet(last) /\ IsFiniteSet(q.edges)
      BY <1>2, FS_Subset DEF CallShaped
    <3>2. IsFiniteSet(last \X q.edges)
      BY <3>1, FS_Product
    <3> QED BY <3>2, FS_Subset
  <2> HIDE DEF E
  <2>2. DOMAIN f = E /\ f = [e \in E |-> f[e]]
    OBVIOUS
  <2> HIDE DEF f, new
  <2>3. IsFiniteSet({f[s] : s \in E})
    BY <2>1, <2>2, FiniteImage
  <2>4. IsFiniteSet(new)
    BY <1>1, <2>3
  <2> QED BY <1>2, <2>4, FS_Union
<1>4. \A s \in E : /\ RowOf(q, row(s)) /\ DepthOf(row(s)) = k + 1
                   /\ Reaches(row(s)) = Across(s[2], Reaches(s[1]))
                   /\ row(s).path[k + 1] = Reaches(s[1])
                   /\ s[1] \in rows /\ DepthOf(s[1]) = k
  <2> TAKE s \in E
  <2>1. /\ s[1] \in rows /\ DepthOf(s[1]) = k /\ s[2] \in q.edges /\ RowOf(q, s[1])
        /\ Walkable(q, s[2], Reaches(s[1])) /\ ~Contains(s[1].path, Across(s[2], Reaches(s[1])))
        /\ q.rows.status[Across(s[2], Reaches(s[1]))] # "archived"
    BY <1>2
  <2> HIDE DEF E
  <2> DEFINE r == s[1]
             e == s[2]
  <2>2. row(s) = Further(r, e)
    OBVIOUS
  <2> DEFINE w == row(s)
  <2> HIDE DEF row, r, e, w
  <2>3. /\ e \in q.edges /\ RowOf(q, r) /\ Walkable(q, e, Reaches(r)) /\ ~Contains(r.path, Across(e, Reaches(r)))
        /\ q.rows.status[Across(e, Reaches(r))] # "archived"
    BY <2>1 DEF r, e
  <2>4. w = Further(r, e)
    BY <2>2 DEF w
  <2>5. /\ RowOf(q, w) /\ DepthOf(w) = DepthOf(r) + 1
        /\ Reaches(w) = Across(e, Reaches(r)) /\ w.path[DepthOf(w)] = Reaches(r)
    BY <2>3, <2>4, NextRow
  <2>6. /\ RowOf(q, row(s)) /\ DepthOf(row(s)) = DepthOf(s[1]) + 1
        /\ Reaches(row(s)) = Across(s[2], Reaches(s[1])) /\ row(s).path[DepthOf(row(s))] = Reaches(s[1])
    BY <2>5 DEF r, e, w
  <2> QED BY <2>1, <2>6
<1>5. \A r \in rows, e \in q.edges :
        /\ DepthOf(r) = k /\ Walkable(q, e, Reaches(r)) /\ ~Contains(r.path, Across(e, Reaches(r)))
        /\ q.rows.status[Across(e, Reaches(r))] # "archived"
        => << r, e >> \in E /\ << r, e >>[1] = r /\ << r, e >>[2] = e
  OBVIOUS
<1> HIDE DEF E, row, f, new
<1>6. \A r \in rows \cup new : RowOf(q, r) /\ DepthOf(r) <= k + 1 /\ Continues(r, rows \cup new)
  <2> TAKE r \in rows \cup new
  <2>1. CASE r \in rows
    <3>1. RowOf(q, r) /\ DepthOf(r) <= k /\ Continues(r, rows) /\ DepthOf(r) \in Nat
      BY <1>2, <2>1 DEF RowOf
    <3> QED BY <3>1 DEF Continues
  <2>2. CASE r \in new
    <3>1. PICK s \in E : r = row(s)
      BY <1>1, <2>2
    <3>2. /\ RowOf(q, r) /\ DepthOf(r) = k + 1 /\ r.path[k + 1] = Reaches(s[1])
          /\ s[1] \in rows /\ DepthOf(s[1]) = k
      BY <1>4, <3>1
    <3>3. DepthOf(r) - 1 = k
      BY <3>2
    <3> QED BY <3>2, <3>3 DEF Continues
  <2> QED BY <2>1, <2>2
<1>7. ReachesAll(q, rows \cup new, k + 1)
  <2> SUFFICES ASSUME NEW j \in 1..(k + 1), NEW p \in [1..(j + 1) -> WNodes],
                      WalkOf(q, p, j), p[j + 1] # q.start
               PROVE  \E t \in rows \cup new : DepthOf(t) \in 1..j /\ Reaches(t) = p[j + 1]
    BY DEF ReachesAll
  <2> DEFINE m == p[j]
             n == p[j + 1]
  <2>0. /\ j \in Nat \ {0} /\ j \in 1..(j + 1) /\ j + 1 \in 1..(j + 1) /\ m \in WNodes /\ n \in WNodes
        /\ j \in 1..j /\ 1..k \subseteq 1..(k + 1)
    OBVIOUS
  <2>1. CASE \E t \in rows : Reaches(t) = n /\ DepthOf(t) \in 1..k
    <3>1. PICK t \in rows : Reaches(t) = n /\ DepthOf(t) \in 1..k
      BY <2>1
    <3>2. CASE j = k + 1
      <4>1. DepthOf(t) \in 1..j
        BY <3>1, <3>2
      <4> QED BY <3>1, <4>1
    <3>3. CASE j # k + 1
      <4>1. j \in 1..k
        BY <3>3
      <4>2. \E u \in rows : DepthOf(u) \in 1..j /\ Reaches(u) = p[j + 1]
        BY <1>2, <4>1 DEF ReachesAll
      <4> QED BY <4>2
    <3> QED BY <3>2, <3>3
  <2>2. CASE ~\E t \in rows : Reaches(t) = n /\ DepthOf(t) \in 1..k
    <3>1. \A i \in 1..k : \A s \in [1..(i + 1) -> WNodes] : WalkOf(q, s, i) => s[i + 1] # n
      <4> SUFFICES ASSUME NEW i \in 1..k, NEW s \in [1..(i + 1) -> WNodes], WalkOf(q, s, i), s[i + 1] = n
                   PROVE  FALSE
        OBVIOUS
      <4>1. PICK t \in rows : DepthOf(t) \in 1..i /\ Reaches(t) = n
        BY <1>2 DEF ReachesAll
      <4>2. DepthOf(t) \in 1..k
        BY <4>1
      <4> QED BY <2>2, <4>1, <4>2
    <3>2. j = k + 1
      <4> SUFFICES ASSUME j # k + 1 PROVE FALSE
        OBVIOUS
      <4>1. j \in 1..k
        OBVIOUS
      <4> QED BY <3>1, <4>1
    <3>3. Arc(q, m, n)
      BY <2>0 DEF WalkOf
    <3>4. m # q.start
      <4> SUFFICES ASSUME m = q.start PROVE FALSE
        OBVIOUS
      <4> DEFINE s == << q.start, n >>
      <4>1. s \in [1..2 -> WNodes] /\ s[1] = q.start /\ s[2] = n
        BY <2>0
      <4> HIDE DEF s
      <4>2. WalkOf(q, s, 1)
        BY <3>3, <4>1 DEF WalkOf
      <4>3. 1 \in 1..k /\ s \in [1..(1 + 1) -> WNodes] /\ s[1 + 1] = n
        BY <4>1
      <4> QED BY <3>1, <4>2, <4>3
    <3>5. PICK r \in rows : DepthOf(r) \in 1..k /\ Reaches(r) = m
      <4>1. k \in 0..j /\ k + 1 = j /\ k \in 1..k
        BY <3>2
      <4>2. PICK s \in [1..(k + 1) -> WNodes] : WalkOf(q, s, k) /\ s[k + 1] = p[k + 1]
        BY <2>0, <4>1, WalkPrefix
      <4> QED BY <1>2, <3>4, <4>1, <4>2 DEF ReachesAll
    <3>6. /\ RowOf(q, r) /\ DepthOf(r) \in Nat \ {0} /\ Len(r.path) = DepthOf(r) + 1
          /\ r.path \in [1..(DepthOf(r) + 1) -> WNodes]
          /\ WalkOf(q, r.path, DepthOf(r)) /\ r.path[1] = q.start
          /\ m = r.path[DepthOf(r) + 1]
      BY <1>2, <3>5, RowParts
    <3>7. DepthOf(r) = k /\ \A i \in 2..(k + 1) : r.path[i] # n
      <4> DEFINE d == DepthOf(r)
                 u == r.path
      <4>1. /\ d \in Nat /\ u \in [1..(d + 1) -> WNodes] /\ WalkOf(q, u, d)
            /\ n \in WNodes /\ Arc(q, u[d + 1], n) /\ d <= k
        BY <2>0, <3>3, <3>5, <3>6
      <4> HIDE DEF d, u, n
      <4>2. d >= k /\ \A i \in 2..(d + 1) : u[i] # n
        BY <3>1, <4>1, BeyondWalks
      <4>3. d = k
        BY <4>1, <4>2
      <4> QED BY <4>2, <4>3 DEF d, u
    <3>8. ~Contains(r.path, n)
      <4> SUFFICES ASSUME NEW i \in 1..Len(r.path), r.path[i] = n PROVE FALSE
        BY DEF Contains
      <4>1. i \in 2..(k + 1)
        BY <3>6, <3>7
      <4> QED BY <3>7, <4>1
    <3>9. PICK e \in q.edges : Walkable(q, e, m) /\ Across(e, m) = n
      BY <3>3 DEF Arc
    <3>10. << r, e >> \in E /\ << r, e >>[1] = r /\ << r, e >>[2] = e
      BY <1>5, <3>3, <3>5, <3>7, <3>8, <3>9 DEF Arc
    <3>11. row(<< r, e >>) \in new
      BY <1>1, <3>10
    <3>12. DepthOf(row(<< r, e >>)) = k + 1 /\ Reaches(row(<< r, e >>)) = n
      BY <1>4, <3>5, <3>9, <3>10
    <3>13. DepthOf(row(<< r, e >>)) \in 1..j
      BY <3>2, <3>12
    <3> QED BY <3>11, <3>12, <3>13
  <2> QED BY <2>1, <2>2
<1> QED BY <1>3, <1>6, <1>7 DEF RowsUpTo, new, last

\* The cut at `limit` rows: what comes before a row kept is kept.
LEMMA EdgeOrder ==
  ASSUME NEW a \in Nat, NEW a1 \in Nat, NEW a2 \in Nat, NEW a3 \in Nat,
         NEW b \in Nat, NEW b1 \in Nat, NEW b2 \in Nat, NEW b3 \in Nat,
         NEW c \in Nat, NEW c1 \in Nat, NEW c2 \in Nat, NEW c3 \in Nat,
         a < b \/ (a = b /\ (a1 < b1 \/ (a1 = b1 /\ a2 < b2) \/ (a1 = b1 /\ a2 = b2 /\ a3 < b3)))
  PROVE  \/ a < c \/ (a = c /\ (a1 < c1 \/ (a1 = c1 /\ a2 < c2) \/ (a1 = c1 /\ a2 = c2 /\ a3 < c3)))
         \/ c < b \/ (c = b /\ (c1 < b1 \/ (c1 = b1 /\ c2 < b2) \/ (c1 = b1 /\ c2 = b2 /\ c3 < b3)))
OBVIOUS

LEMMA EdgeOrderTransitive ==
  ASSUME NEW a \in Nat, NEW a1 \in Nat, NEW a2 \in Nat, NEW a3 \in Nat,
         NEW b \in Nat, NEW b1 \in Nat, NEW b2 \in Nat, NEW b3 \in Nat,
         NEW c \in Nat, NEW c1 \in Nat, NEW c2 \in Nat, NEW c3 \in Nat,
         a < b \/ (a = b /\ (a1 < b1 \/ (a1 = b1 /\ a2 < b2) \/ (a1 = b1 /\ a2 = b2 /\ a3 < b3))),
         b < c \/ (b = c /\ (b1 < c1 \/ (b1 = c1 /\ b2 < c2) \/ (b1 = c1 /\ b2 = c2 /\ b3 < c3)))
  PROVE  a < c \/ (a = c /\ (a1 < c1 \/ (a1 = c1 /\ a2 < c2) \/ (a1 = c1 /\ a2 = c2 /\ a3 < c3)))
OBVIOUS

Ordered(rows) == \A r \in rows : DepthOf(r) \in Nat /\ EdgeOf(r) \in Nat \X Nat \X Nat

LEMMA OrderOfRows ==
  ASSUME NEW rows, Ordered(rows), NEW r \in rows, NEW t \in rows, NEW u \in rows, RowBefore(t, r)
  PROVE  RowBefore(t, u) \/ RowBefore(u, r)
<1>1. /\ DepthOf(r) \in Nat /\ EdgeOf(r)[1] \in Nat /\ EdgeOf(r)[2] \in Nat /\ EdgeOf(r)[3] \in Nat
      /\ DepthOf(t) \in Nat /\ EdgeOf(t)[1] \in Nat /\ EdgeOf(t)[2] \in Nat /\ EdgeOf(t)[3] \in Nat
      /\ DepthOf(u) \in Nat /\ EdgeOf(u)[1] \in Nat /\ EdgeOf(u)[2] \in Nat /\ EdgeOf(u)[3] \in Nat
  BY DEF Ordered
<1> QED BY <1>1, EdgeOrder DEF RowBefore

LEMMA OrderTransitive ==
  ASSUME NEW rows, Ordered(rows), NEW r \in rows, NEW t \in rows, NEW u \in rows,
         RowBefore(t, r), RowBefore(r, u)
  PROVE  RowBefore(t, u)
<1>1. /\ DepthOf(r) \in Nat /\ EdgeOf(r)[1] \in Nat /\ EdgeOf(r)[2] \in Nat /\ EdgeOf(r)[3] \in Nat
      /\ DepthOf(t) \in Nat /\ EdgeOf(t)[1] \in Nat /\ EdgeOf(t)[2] \in Nat /\ EdgeOf(t)[3] \in Nat
      /\ DepthOf(u) \in Nat /\ EdgeOf(u)[1] \in Nat /\ EdgeOf(u)[2] \in Nat /\ EdgeOf(u)[3] \in Nat
  BY DEF Ordered
<1> QED BY <1>1, EdgeOrderTransitive DEF RowBefore

LEMMA CutsDown ==
  ASSUME NEW rows, IsFiniteSet(rows), Ordered(rows), NEW limit \in Nat, NEW cut \in Cuts(rows, limit)
  PROVE  /\ cut \subseteq rows /\ IsFiniteSet(cut)
         /\ \A r \in cut, t \in rows : RowBefore(t, r) => t \in cut
         /\ ~(Cardinality(rows) > limit) => cut = rows
<1> DEFINE surely == {r \in rows : Cardinality({t \in rows : ~RowBefore(r, t)}) <= limit}
           tied == {r \in rows \ surely : Cardinality({t \in rows : RowBefore(t, r)}) < limit}
<1>0. Cardinality(rows) \in Nat
  BY FS_CardinalityType
<1>1. CASE Cardinality(rows) <= limit
  <2>1. cut = rows
    BY <1>1 DEF Cuts
  <2> QED BY <2>1
<1>2. CASE ~(Cardinality(rows) <= limit)
  <2>1. PICK s \in SUBSET tied : cut = surely \cup s
    BY <1>2 DEF Cuts
  <2>2. cut \subseteq rows
    BY <2>1
  <2>3. ASSUME NEW r \in cut, NEW t \in rows, RowBefore(t, r) PROVE t \in surely
    <3> DEFINE after(x) == {u \in rows : ~RowBefore(x, u)}
               before(x) == {u \in rows : RowBefore(u, x)}
    <3>1. r \in surely \/ r \in tied
      BY <2>1
    <3>2. r \in rows
      BY <2>2
    <3>3. IsFiniteSet(after(r)) /\ IsFiniteSet(before(r))
      BY FS_Subset
    <3>4. IsFiniteSet(after(t)) /\ Cardinality(after(t)) \in Nat
      BY FS_Subset, FS_CardinalityType
    <3>5. CASE r \in surely
      <4>1. after(t) \subseteq after(r)
        BY <2>3, <3>2, OrderTransitive
      <4>2. Cardinality(after(t)) <= Cardinality(after(r)) /\ Cardinality(after(r)) \in Nat
        BY <3>3, <4>1, FS_Subset, FS_CardinalityType
      <4>3. Cardinality(after(r)) <= limit
        BY <3>5
      <4> HIDE DEF after
      <4>4. Cardinality(after(t)) <= limit
        BY <3>4, <4>2, <4>3
      <4> QED BY <4>4 DEF after
    <3>6. CASE r \in tied
      <4>1. after(t) \subseteq before(r)
        BY <2>3, <3>2, OrderOfRows
      <4>2. Cardinality(after(t)) <= Cardinality(before(r)) /\ Cardinality(before(r)) \in Nat
        BY <3>3, <4>1, FS_Subset, FS_CardinalityType
      <4>3. Cardinality(before(r)) < limit
        BY <3>6
      <4> HIDE DEF after, before
      <4>4. Cardinality(after(t)) <= limit
        BY <3>4, <4>2, <4>3
      <4> QED BY <4>4 DEF after
    <3> QED BY <3>1, <3>5, <3>6
  <2>4. IsFiniteSet(cut)
    BY <2>2, FS_Subset
  <2>5. \A r \in cut, t \in rows : RowBefore(t, r) => t \in cut
    BY <2>1, <2>3
  <2>6. Cardinality(rows) > limit
    BY <1>0, <1>2
  <2> QED BY <2>2, <2>4, <2>5, <2>6
<1> QED BY <1>1, <1>2

\* So the rows kept reach what they reach by the shortest walks, and each row's way
\* there is among them.
RowsKept(q, rows, truncated) ==
  /\ \A r \in rows : /\ RowOf(q, r) /\ DepthOf(r) <= q.depth /\ Continues(r, rows)
                     /\ ReachesAll(q, rows, DepthOf(r) - 1)
  /\ ~truncated => ReachesAll(q, rows, q.depth)

LEMMA CutKeeps ==
  ASSUME TraverseAssumption, NEW q, CallShaped(q), NEW rows, RowsUpTo(q, rows, q.depth),
         NEW cut \in Cuts(rows, q.limit)
  PROVE  RowsKept(q, cut, Cardinality(rows) > q.limit)
<1>1. /\ IsFiniteSet(rows) /\ ReachesAll(q, rows, q.depth)
      /\ \A r \in rows : RowOf(q, r) /\ DepthOf(r) <= q.depth /\ Continues(r, rows)
  BY DEF RowsUpTo
<1>2. \A r \in rows : DepthOf(r) \in Nat \ {0} /\ EdgeOf(r) \in q.edges /\ EdgeOf(r) \in Nat \X Nat \X Nat
  <2>1. q.edges \subseteq Nat \X Nat \X Nat
    BY DEF CallShaped, TraverseAssumption
  <2> QED BY <1>1, <2>1, RowParts
<1>3. Ordered(rows)
  BY <1>2 DEF Ordered
<1>4. q.limit \in Nat /\ q.depth \in Nat
  BY DEF CallShaped, TraverseAssumption
<1>5. /\ cut \subseteq rows /\ \A r \in cut, t \in rows : RowBefore(t, r) => t \in cut
      /\ ~(Cardinality(rows) > q.limit) => cut = rows
  BY <1>1, <1>3, <1>4, CutsDown
<1>6. \A r \in cut, t \in rows : DepthOf(t) < DepthOf(r) => t \in cut
  BY <1>5 DEF RowBefore
<1>7. ASSUME NEW r \in cut PROVE Continues(r, cut)
  <2> SUFFICES ASSUME DepthOf(r) > 1
               PROVE  \E t \in cut : DepthOf(t) = DepthOf(r) - 1 /\ Reaches(t) = r.path[DepthOf(r)]
    BY DEF Continues
  <2>1. PICK t \in rows : DepthOf(t) = DepthOf(r) - 1 /\ Reaches(t) = r.path[DepthOf(r)]
    BY <1>1, <1>5 DEF Continues
  <2>2. DepthOf(t) < DepthOf(r)
    BY <1>2, <1>5, <2>1
  <2> QED BY <1>6, <2>1, <2>2
<1>8. ASSUME NEW r \in cut PROVE ReachesAll(q, cut, DepthOf(r) - 1)
  <2> SUFFICES ASSUME NEW j \in 1..(DepthOf(r) - 1), NEW p \in [1..(j + 1) -> WNodes],
                      WalkOf(q, p, j), p[j + 1] # q.start
               PROVE  \E t \in cut : DepthOf(t) \in 1..j /\ Reaches(t) = p[j + 1]
    BY DEF ReachesAll
  <2>1. DepthOf(r) \in Nat /\ DepthOf(r) <= q.depth
    BY <1>1, <1>2, <1>5
  <2>2. j \in 1..q.depth /\ j < DepthOf(r) /\ j \in Nat
    BY <1>4, <2>1
  <2>3. PICK t \in rows : DepthOf(t) \in 1..j /\ Reaches(t) = p[j + 1]
    BY <1>1, <2>2 DEF ReachesAll
  <2>4. DepthOf(t) < DepthOf(r)
    BY <2>1, <2>2, <2>3
  <2> QED BY <1>6, <2>3, <2>4
<1> QED BY <1>1, <1>5, <1>7, <1>8 DEF RowsKept

\* The rows against the walks of the reference.
LEMMA LeastOf ==
  ASSUME NEW S, S \subseteq Nat, S # {}
  PROVE  MinOver(S) \in S /\ \A k \in S : MinOver(S) <= k
<1>1. \E m \in S : \A k \in S : m <= k
  BY LeastNumber
<1> QED BY <1>1 DEF MinOver

LEMMA ReferenceWalk ==
  ASSUME NEW q, CallShaped(q), TraverseAssumption, NEW p
  PROVE  p \in Walks(q) <=> \E j \in 0..q.depth : p \in [1..(j + 1) -> WNodes] /\ WalkOf(q, p, j)
<1>0. q.depth \in Nat
  BY DEF CallShaped, TraverseAssumption
<1>1. ASSUME NEW j \in 0..q.depth, p \in [1..(j + 1) -> WNodes]
      PROVE  Len(p) - 1 = j /\ (IsWalk(q, p) <=> WalkOf(q, p, j))
  <2>1. j + 1 \in Nat /\ (j + 1) - 1 = j
    BY <1>0
  <2>2. Len(p) = j + 1
    BY <1>1, <2>1, AsSequence
  <2>3. Len(p) - 1 = j
    BY <2>1, <2>2
  <2> QED BY <2>3 DEF IsWalk, WalkOf, Arc
<1>2. ASSUME p \in Walks(q)
      PROVE  \E j \in 0..q.depth : p \in [1..(j + 1) -> WNodes] /\ WalkOf(q, p, j)
  <2>1. PICK k \in 1..(q.depth + 1) : p \in [1..k -> WNodes] /\ IsWalk(q, p)
    BY <1>2 DEF Walks
  <2>2. PICK j \in 0..q.depth : k = j + 1
    <3>1. k - 1 \in 0..q.depth /\ k = (k - 1) + 1
      BY <1>0
    <3> QED BY <3>1
  <2> QED BY <1>1, <2>1, <2>2
<1>3. ASSUME NEW j \in 0..q.depth, p \in [1..(j + 1) -> WNodes], WalkOf(q, p, j)
      PROVE  p \in Walks(q)
  <2>1. j + 1 \in 1..(q.depth + 1)
    BY <1>0
  <2>2. IsWalk(q, p)
    BY <1>1, <1>3
  <2> QED BY <1>3, <2>1, <2>2 DEF Walks
<1> QED BY <1>2, <1>3

LEMMA WalkEnds ==
  ASSUME NEW q, CallShaped(q), TraverseAssumption, NEW j \in 0..q.depth,
         NEW p \in [1..(j + 1) -> WNodes]
  PROVE  p[Len(p)] = p[j + 1] /\ Len(p) - 1 = j
<1>1. j \in Nat /\ j + 1 \in Nat
  OBVIOUS
<1>2. Len(p) = j + 1
  BY <1>1, AsSequence
<1> QED BY <1>1, <1>2

LEMMA NearestWalk ==
  ASSUME NEW q, CallShaped(q), TraverseAssumption, NEW n \in WithinReach(q)
  PROVE  /\ Away(q, n) \in 1..q.depth /\ n # q.start /\ n \in WNodes
         /\ \E p \in [1..(Away(q, n) + 1) -> WNodes] : WalkOf(q, p, Away(q, n)) /\ p[Away(q, n) + 1] = n
         /\ \A j \in 0..q.depth : \A p \in [1..(j + 1) -> WNodes] :
              WalkOf(q, p, j) /\ p[j + 1] = n => Away(q, n) <= j
<1> DEFINE D == {Len(p) - 1 : p \in {p \in Walks(q) : p[Len(p)] = n}}
<1>0. q.depth \in Nat
  BY DEF CallShaped, TraverseAssumption
<1>1. \A p : p \in Walks(q) =>
        \E j \in 0..q.depth : /\ p \in [1..(j + 1) -> WNodes] /\ WalkOf(q, p, j)
                              /\ Len(p) - 1 = j /\ p[Len(p)] = p[j + 1]
  BY ReferenceWalk, WalkEnds
<1>2. \A j \in 0..q.depth : \A p \in [1..(j + 1) -> WNodes] :
        WalkOf(q, p, j) => p \in Walks(q) /\ Len(p) - 1 = j /\ p[Len(p)] = p[j + 1]
  BY ReferenceWalk, WalkEnds
<1>3. n # q.start /\ \E p \in Walks(q) : p[Len(p)] = n
  BY DEF WithinReach
<1>4. D \subseteq 0..q.depth /\ D # {}
  BY <1>1, <1>3
<1>5. D \subseteq Nat /\ Away(q, n) = MinOver(D)
  BY <1>0, <1>4 DEF Away
<1> HIDE DEF D
<1>6. Away(q, n) \in D /\ \A d \in D : Away(q, n) <= d
  <2>1. MinOver(D) \in D /\ \A k \in D : MinOver(D) <= k
    BY <1>4, <1>5, LeastOf
  <2> QED BY <1>5, <2>1
<1>7. PICK p \in Walks(q) : p[Len(p)] = n /\ Away(q, n) = Len(p) - 1
  BY <1>6 DEF D
<1>8. PICK j \in 0..q.depth : /\ p \in [1..(j + 1) -> WNodes] /\ WalkOf(q, p, j)
                              /\ Len(p) - 1 = j /\ p[Len(p)] = p[j + 1]
  BY <1>1
<1>9. Away(q, n) = j /\ p[j + 1] = n
  BY <1>7, <1>8
<1>10. j # 0
  <2> SUFFICES ASSUME j = 0 PROVE FALSE
    OBVIOUS
  <2>1. p[1] = n /\ p[1] = q.start
    BY <1>8, <1>9 DEF WalkOf
  <2> QED BY <1>3, <2>1
<1>11. Away(q, n) \in 1..q.depth
  BY <1>0, <1>9, <1>10
<1>12. n \in WNodes
  <2>1. j + 1 \in 1..(j + 1)
    BY <1>0
  <2> QED BY <1>8, <1>9, <2>1
<1>13. \A i \in 0..q.depth : \A s \in [1..(i + 1) -> WNodes] :
         WalkOf(q, s, i) /\ s[i + 1] = n => Away(q, n) <= i
  BY <1>2, <1>6 DEF D
<1> QED BY <1>3, <1>8, <1>9, <1>11, <1>12, <1>13

LEMMA RowWithinReach ==
  ASSUME NEW q, CallShaped(q), TraverseAssumption, NEW r, RowOf(q, r), DepthOf(r) <= q.depth
  PROVE  Reaches(r) \in WithinReach(q) /\ Away(q, Reaches(r)) <= DepthOf(r)
<1> DEFINE k == DepthOf(r)
<1>1. /\ k \in Nat \ {0} /\ r.path \in [1..(k + 1) -> WNodes] /\ WalkOf(q, r.path, k)
      /\ Reaches(r) = r.path[k + 1] /\ Reaches(r) # q.start /\ k <= q.depth
  BY RowParts
<1>2. k \in 0..q.depth
  BY <1>1 DEF CallShaped, TraverseAssumption
<1> HIDE DEF k
<1>3. r.path \in Walks(q) /\ r.path[Len(r.path)] = Reaches(r)
  BY <1>1, <1>2, ReferenceWalk, WalkEnds
<1>4. Reaches(r) \in WithinReach(q)
  BY <1>1, <1>3 DEF WithinReach
<1>5. Away(q, Reaches(r)) <= k
  BY <1>1, <1>2, <1>4, NearestWalk
<1> QED BY <1>4, <1>5 DEF k

LEMMA KeptWithinReach ==
  ASSUME NEW q, CallShaped(q), TraverseAssumption, NEW rows, NEW truncated,
         RowsKept(q, rows, truncated), NEW n \in WithinReach(q)
  PROVE  /\ \A r \in rows : DepthOf(r) > Away(q, n) =>
              \E t \in rows : Reaches(t) = n /\ DepthOf(t) <= Away(q, n)
         /\ ~truncated => \E t \in rows : Reaches(t) = n
<1>1. /\ Away(q, n) \in 1..q.depth /\ n # q.start /\ q.depth \in Nat
  BY NearestWalk DEF CallShaped, TraverseAssumption
<1>2. PICK p \in [1..(Away(q, n) + 1) -> WNodes] : WalkOf(q, p, Away(q, n)) /\ p[Away(q, n) + 1] = n
  BY NearestWalk
<1>3. ASSUME NEW r \in rows, DepthOf(r) > Away(q, n)
      PROVE  \E t \in rows : Reaches(t) = n /\ DepthOf(t) <= Away(q, n)
  <2>1. ReachesAll(q, rows, DepthOf(r) - 1) /\ DepthOf(r) \in Nat
    BY RowParts DEF RowsKept
  <2>2. Away(q, n) \in 1..(DepthOf(r) - 1)
    BY <1>1, <1>3, <2>1
  <2>3. PICK t \in rows : DepthOf(t) \in 1..Away(q, n) /\ Reaches(t) = n
    BY <1>1, <1>2, <2>1, <2>2 DEF ReachesAll
  <2> QED BY <2>3
<1>4. ASSUME ~truncated PROVE \E t \in rows : Reaches(t) = n
  <2>1. ReachesAll(q, rows, q.depth)
    BY <1>4 DEF RowsKept
  <2> QED BY <1>1, <1>2, <2>1 DEF ReachesAll
<1> QED BY <1>3, <1>4

-----------------------------------------------------------------------------
(* The chase of a merged node to its canonical.                            *)

\* k reads lead from one row to another; and every complete chain goes that way.
Leads(from, at, k) ==
  \E p \in [1..(k + 1) -> WNodes] :
    /\ p[1] = from /\ p[k + 1] = at
    /\ \A i \in 1..k : Merged(p[i]) /\ p[i + 1] = rowsNow.next[p[i]]
OnlyWay(from, at, k) ==
  \A p \in MergeChains : p[1] = from /\ ~Merged(p[Len(p)]) => Len(p) > k /\ p[k + 1] = at

ResolvesTo(n, c) == MergesInto(n, c) /\ \A d \in WNodes : MergesInto(n, d) => d = c

LEMMA ChainParts ==
  ASSUME NEW p \in MergeChains
  PROVE  /\ Len(p) \in 1..ChainCap /\ p \in [1..Len(p) -> WNodes] /\ Len(p) \in Nat \ {0}
         /\ p[Len(p)] \in WNodes
         /\ \A i \in 1..(Len(p) - 1) : Merged(p[i]) /\ p[i + 1] = rowsNow.next[p[i]]
<1>1. PICK k \in 1..ChainCap : p \in [1..k -> WNodes]
  BY DEF MergeChains
<1>2. Len(p) = k /\ k \in Nat
  BY <1>1, AsSequence
<1>3. k \in 1..k
  BY <1>1
<1> QED BY <1>1, <1>2, <1>3 DEF MergeChains

LEMMA ChainOf ==
  ASSUME TraverseAssumption, NEW from, NEW at, NEW k \in Nat, k < ChainCap, Leads(from, at, k)
  PROVE  \E p \in MergeChains : p[1] = from /\ p[Len(p)] = at /\ Len(p) = k + 1
<1>1. PICK p \in [1..(k + 1) -> WNodes] :
        /\ p[1] = from /\ p[k + 1] = at
        /\ \A i \in 1..k : Merged(p[i]) /\ p[i + 1] = rowsNow.next[p[i]]
  BY DEF Leads
<1>2. k + 1 \in 1..ChainCap /\ k + 1 \in Nat /\ (k + 1) - 1 = k
  BY DEF TraverseAssumption
<1>3. Len(p) = k + 1
  BY <1>1, <1>2, AsSequence
<1>4. p \in MergeChains
  BY <1>1, <1>2, <1>3 DEF MergeChains
<1> QED BY <1>1, <1>3, <1>4

LEMMA ChainStart ==
  ASSUME NEW n \in WNodes
  PROVE  Leads(n, n, 0) /\ OnlyWay(n, n, 0)
<1> DEFINE p == [i \in 1..1 |-> n]
<1>1. p \in [1..(0 + 1) -> WNodes] /\ p[1] = n /\ p[0 + 1] = n
  OBVIOUS
<1> HIDE DEF p
<1>2. Leads(n, n, 0)
  <2>1. 1..0 = {}
    OBVIOUS
  <2> QED BY <1>1, <2>1 DEF Leads
<1>3. OnlyWay(n, n, 0)
  BY ChainParts DEF OnlyWay
<1> QED BY <1>2, <1>3

LEMMA ChainStep ==
  ASSUME NEW from, NEW at, NEW k \in Nat, Leads(from, at, k), OnlyWay(from, at, k), Merged(at),
         rowsNow.next[at] \in WNodes
  PROVE  Leads(from, rowsNow.next[at], k + 1) /\ OnlyWay(from, rowsNow.next[at], k + 1)
<1> DEFINE n == rowsNow.next[at]
<1>1. PICK p \in [1..(k + 1) -> WNodes] :
        /\ p[1] = from /\ p[k + 1] = at
        /\ \A i \in 1..k : Merged(p[i]) /\ p[i + 1] = rowsNow.next[p[i]]
  BY DEF Leads
<1>2. n \in WNodes /\ n = rowsNow.next[at]
  OBVIOUS
<1> HIDE DEF n
<1> DEFINE s == [i \in 1..(k + 2) |-> IF i = k + 2 THEN n ELSE p[i]]
<1>3. \A i \in 1..(k + 1) : i \in 1..(k + 2) /\ i # k + 2
  OBVIOUS
<1>4. s \in [1..(k + 2) -> WNodes] /\ s[k + 2] = n
  <2>1. \A i \in 1..(k + 2) : (IF i = k + 2 THEN n ELSE p[i]) \in WNodes
    BY <1>2
  <2>2. k + 2 \in 1..(k + 2)
    OBVIOUS
  <2> QED BY <2>1, <2>2
<1>5. \A i \in 1..(k + 1) : s[i] = p[i]
  BY <1>3
<1> HIDE DEF s
<1>6. s[1] = from
  BY <1>1, <1>5
<1>7. ASSUME NEW i \in 1..(k + 1) PROVE Merged(s[i]) /\ s[i + 1] = rowsNow.next[s[i]]
  <2>1. CASE i = k + 1
    <3>1. s[i] = at /\ s[i + 1] = n
      BY <1>1, <1>4, <1>5, <2>1
    <3> QED BY <1>2, <3>1
  <2>2. CASE i # k + 1
    <3>1. i \in 1..k /\ i + 1 \in 1..(k + 1)
      BY <2>2
    <3> QED BY <1>1, <1>5, <3>1
  <2> QED BY <2>1, <2>2
<1>8. Leads(from, n, k + 1)
  <2>1. k + 2 = (k + 1) + 1
    OBVIOUS
  <2> QED BY <1>4, <1>6, <1>7, <2>1 DEF Leads
<1>9. OnlyWay(from, n, k + 1)
  <2> SUFFICES ASSUME NEW t \in MergeChains, t[1] = from, ~Merged(t[Len(t)])
               PROVE  Len(t) > k + 1 /\ t[(k + 1) + 1] = n
    BY DEF OnlyWay
  <2>1. Len(t) > k /\ t[k + 1] = at /\ Len(t) \in Nat
    BY ChainParts DEF OnlyWay
  <2>2. Len(t) > k + 1
    BY <2>1
  <2>3. k + 1 \in 1..(Len(t) - 1)
    BY <2>1, <2>2
  <2>4. t[(k + 1) + 1] = rowsNow.next[t[k + 1]]
    BY <2>3, ChainParts
  <2> QED BY <1>2, <2>1, <2>2, <2>4
<1> QED BY <1>8, <1>9 DEF n

LEMMA ChainEnd ==
  ASSUME TraverseAssumption, NEW from, NEW at, NEW k \in Nat, k < ChainCap,
         Leads(from, at, k), OnlyWay(from, at, k), ~Merged(at)
  PROVE  ResolvesTo(from, at)
<1>1. MergesInto(from, at)
  BY ChainOf DEF MergesInto
<1>2. ASSUME NEW d \in WNodes, MergesInto(from, d) PROVE d = at
  <2>1. PICK p \in MergeChains : p[1] = from /\ p[Len(p)] = d /\ ~Merged(d)
    BY <1>2 DEF MergesInto
  <2>2. Len(p) > k /\ p[k + 1] = at /\ Len(p) \in Nat
    BY <2>1, ChainParts DEF OnlyWay
  <2>3. ~(k + 1 \in 1..(Len(p) - 1))
    BY <2>2, ChainParts
  <2>4. Len(p) = k + 1
    BY <2>2, <2>3
  <2> QED BY <2>1, <2>2, <2>4
<1> QED BY <1>1, <1>2 DEF ResolvesTo

-----------------------------------------------------------------------------
(* The invariant.                                                          *)

WalkSteps == {"idle", "walk", "resolve", "recall", "answered"}

RowsLinked ==
  /\ rowsNow \in RowStates
  /\ \A n \in WNodes : rowsNow.status[n] = "merged" <=> rowsNow.next[n] # 0

Unasked ==
  /\ walkAt \in {"idle", "walk"} => DOMAIN standsFor = {} /\ chase = NoChase /\ walked = NoAnswer
  /\ walkAt # "answered" => recalled = {}

Asked ==
  walkAt # "idle" => /\ CallShaped(asked) /\ asked.edges \subseteq UNION WGraphs
                     /\ rowsNow.readable \subseteq asked.rows.readable

Walking == walkAt = "walk" => walkLevel \in 1..asked.depth /\ RowsUpTo(asked, walkRows, walkLevel)

\* The rows are cut and the call has not failed.
Resolving == walkAt \in {"resolve", "recall"} \/ (walkAt = "answered" /\ ~walked.failed)

Resolved ==
  /\ RowsKept(asked, walkRows, walked.truncated)
  /\ DOMAIN standsFor \subseteq Reached
  /\ \A n \in DOMAIN standsFor :
       standsFor[n] \in WNodes /\ standsFor[n] \in asked.rows.readable /\ ResolvesTo(n, standsFor[n])
  /\ ~walked.failed

Chased ==
  /\ chase.from \in Reached \ DOMAIN standsFor /\ chase.at \in WNodes
  /\ chase.hops \in Nat /\ chase.hops < ChainCap
  /\ Leads(chase.from, chase.at, chase.hops) /\ OnlyWay(chase.from, chase.at, chase.hops)

\* The rows read and not hidden are shown, each no farther than what it stands for.
Canonicals == {asked.start} \cup {standsFor[n] : n \in Reached}
Shown(c) == c \in AnswerIds \cup (WNodes \ rowsNow.readable)

Answered ==
  /\ chase = NoChase /\ DOMAIN standsFor = Reached
  /\ \A a \in walked.nodes : /\ a.id \in Canonicals /\ a.id \in asked.rows.readable
                             /\ a.depth = Nearest(a.id)
                             /\ a.status = "archived" => a.id = asked.start
  /\ \A c \in Canonicals \cap rowsNow.readable : c \in AnswerIds \/ rowsNow.status[c] = "archived"
  /\ Shown(asked.start)
  /\ \A e \in walked.edges :
       /\ \E r \in walkRows : e = EdgeOf(r)
       /\ \A i \in {1, 2} : e[i] \in Reached => Shown(standsFor[e[i]])

Counted == recalled \subseteq AnswerIds /\ AnswerIds \cap rowsNow.readable \subseteq recalled

WalkInv ==
  /\ RowsLinked /\ walkAt \in WalkSteps /\ Unasked /\ Asked /\ Walking
  /\ Resolving => Resolved
  /\ walkAt = "resolve" => /\ walked = [NoAnswer EXCEPT !.truncated = walked.truncated]
                           /\ chase # NoChase => Chased
  /\ walkAt = "recall" \/ (walkAt = "answered" /\ ~walked.failed) => Answered
  /\ walkAt = "answered" => IF walked.failed THEN FailsForCause ELSE Counted

LEMMA WalkInitInv ==
  ASSUME TraverseAssumption, TraverseInit PROVE WalkInv
<1>1. RowsLinked
  BY DEF TraverseInit, TraverseAssumption, RowsLinked
<1>2. Unasked /\ Asked /\ Walking /\ walkAt \in WalkSteps
  BY DEF TraverseInit, Unasked, Asked, Walking, WalkSteps
<1> QED BY <1>1, <1>2 DEF WalkInv, Resolving, TraverseInit

LEMMA ClampIn ==
  ASSUME NEW high \in Nat \ {0}, NEW x \in Int PROVE Clamp(1, x, high) \in 1..high
BY DEF Clamp

LEMMA CallInv ==
  ASSUME TraverseAssumption, WalkInv, NEW start \in WNodes, NEW direction, NEW edges \in WGraphs,
         NEW depth \in WDepths, NEW limit \in WLimits, Call(start, direction, edges, depth, limit)
  PROVE  WalkInv'
<1>1. /\ walkAt = "idle" /\ walkAt' = "walk" /\ walkLevel' = 1 /\ walkRows' = FirstRows(asked')
      /\ asked' = [start |-> start, direction |-> direction,
                   edges |-> {e \in edges : e[1] \in rowsNow.readable /\ e[2] \in rowsNow.readable},
                   rows |-> rowsNow, depth |-> Clamp(1, depth, DepthCap),
                   limit |-> Clamp(1, limit, LimitCap)]
      /\ UNCHANGED <<rowsNow, rowChanges, standsFor, chase, walked, recalled>>
  BY DEF Call, answerVars
<1>2. RowsLinked /\ Unasked
  BY DEF WalkInv
<1>3. asked'.depth \in 1..DepthCap /\ asked'.limit \in 1..LimitCap
  BY <1>1, ClampIn DEF TraverseAssumption
<1>4. CallShaped(asked')
  <2>1. asked'.edges \subseteq WNodes \X WNodes \X Nat /\ IsFiniteSet(asked'.edges)
    <3>1. asked'.edges \subseteq edges
      BY <1>1
    <3>2. edges \subseteq WNodes \X WNodes \X Nat /\ IsFiniteSet(edges)
      BY DEF TraverseAssumption
    <3> QED BY <3>1, <3>2, FS_Subset
  <2>2. ASSUME NEW e \in asked'.edges
        PROVE  e[1] # e[2] /\ e[1] \in asked'.rows.readable /\ e[2] \in asked'.rows.readable
    <3>1. e \in edges /\ e[1] \in rowsNow.readable /\ e[2] \in rowsNow.readable /\ asked'.rows = rowsNow
      BY <1>1
    <3> QED BY <3>1 DEF TraverseAssumption
  <2>3. asked'.start \in WNodes
    BY <1>1
  <2> QED BY <1>3, <2>1, <2>2, <2>3 DEF CallShaped
<1>5. Asked'
  <2>1. asked'.edges \subseteq UNION WGraphs /\ rowsNow' = rowsNow /\ asked'.rows = rowsNow
    BY <1>1
  <2> QED BY <1>4, <2>1 DEF Asked
<1>6. Walking'
  <2>1. RowsUpTo(asked', walkRows', walkLevel')
    BY <1>1, <1>4, FirstLevel
  <2>2. 1 \in 1..asked'.depth
    BY <1>3 DEF TraverseAssumption
  <2> QED BY <1>1, <2>1, <2>2 DEF Walking
<1>7. RowsLinked' /\ Unasked'
  BY <1>1, <1>2 DEF RowsLinked, Unasked
<1> QED BY <1>1, <1>5, <1>6, <1>7 DEF WalkInv, WalkSteps, Resolving

LEMMA WalksOnInv ==
  ASSUME TraverseAssumption, WalkInv, WalksOn PROVE WalkInv'
<1>1. /\ walkAt = "walk" /\ walkAt' = "walk" /\ walkLevel < asked.depth /\ walkLevel' = walkLevel + 1
      /\ walkRows' = walkRows \cup NextRows(asked, {r \in walkRows : DepthOf(r) = walkLevel})
      /\ UNCHANGED <<rowsNow, rowChanges, asked, standsFor, chase, walked, recalled>>
  BY DEF WalksOn, answerVars
<1>2. /\ RowsLinked /\ Unasked /\ Asked /\ walkLevel \in 1..asked.depth
      /\ RowsUpTo(asked, walkRows, walkLevel) /\ CallShaped(asked)
  BY <1>1 DEF WalkInv, Asked, Walking
<1>3. walkLevel \in Nat \ {0} /\ asked.depth \in Nat
  BY <1>2 DEF CallShaped, TraverseAssumption
<1>4. RowsUpTo(asked', walkRows', walkLevel')
  BY <1>1, <1>2, <1>3, NextLevel
<1>5. walkLevel' \in 1..asked'.depth
  BY <1>1, <1>3
<1>6. Walking'
  BY <1>4, <1>5 DEF Walking
<1>7. RowsLinked' /\ Unasked' /\ Asked'
  BY <1>1, <1>2 DEF RowsLinked, Unasked, Asked
<1> QED BY <1>1, <1>6, <1>7 DEF WalkInv, WalkSteps, Resolving

LEMMA CutsRowsInv ==
  ASSUME TraverseAssumption, WalkInv, CutsRows PROVE WalkInv'
<1>1. /\ walkAt = "walk" /\ walkAt' = "resolve" /\ walkLevel = asked.depth
      /\ walkRows' \in Cuts(walkRows, asked.limit)
      /\ walked' = [walked EXCEPT !.truncated = Cardinality(walkRows) > asked.limit]
      /\ UNCHANGED <<rowsNow, rowChanges, asked, walkLevel, standsFor, chase, recalled>>
  BY DEF CutsRows
<1>2. /\ RowsLinked /\ Unasked /\ Asked /\ RowsUpTo(asked, walkRows, asked.depth) /\ CallShaped(asked)
      /\ DOMAIN standsFor = {} /\ chase = NoChase /\ walked = NoAnswer
  BY <1>1 DEF WalkInv, Asked, Walking, Unasked
<1>3. /\ walked'.truncated = (Cardinality(walkRows) > asked.limit) /\ ~walked'.failed
      /\ walked' = [NoAnswer EXCEPT !.truncated = walked'.truncated]
  BY <1>1, <1>2 DEF NoAnswer
<1>4. RowsKept(asked', walkRows', walked'.truncated)
  <2>1. RowsKept(asked, walkRows', Cardinality(walkRows) > asked.limit)
    BY <1>1, <1>2, CutKeeps
  <2> QED BY <1>1, <1>3, <2>1
<1>5. Resolved'
  BY <1>1, <1>2, <1>3, <1>4 DEF Resolved
<1>6. RowsLinked' /\ Unasked' /\ Asked' /\ Walking'
  BY <1>1, <1>2 DEF RowsLinked, Unasked, Asked, Walking
<1> QED BY <1>1, <1>2, <1>3, <1>5, <1>6 DEF WalkInv, WalkSteps

LEMMA ChainsUnchanged ==
  ASSUME UNCHANGED rowsNow
  PROVE  /\ \A n, c : ResolvesTo(n, c)' <=> ResolvesTo(n, c)
         /\ \A n, c, k : Leads(n, c, k)' <=> Leads(n, c, k)
         /\ \A n, c, k : OnlyWay(n, c, k)' <=> OnlyWay(n, c, k)
         /\ MergeChains' = MergeChains /\ \A n : Merged(n)' <=> Merged(n)
<1>1. \A n : Merged(n)' <=> Merged(n)
  BY DEF Merged
<1>2. MergeChains' = MergeChains
  BY <1>1 DEF MergeChains
<1>3. \A n, c : MergesInto(n, c)' <=> MergesInto(n, c)
  BY <1>1, <1>2 DEF MergesInto
<1>4. \A n, c : ResolvesTo(n, c)' <=> ResolvesTo(n, c)
  BY <1>3 DEF ResolvesTo
<1>5. \A n, c, k : Leads(n, c, k)' <=> Leads(n, c, k)
  BY <1>1 DEF Leads
<1>6. \A n, c, k : OnlyWay(n, c, k)' <=> OnlyWay(n, c, k)
  BY <1>1, <1>2 DEF OnlyWay
<1> QED BY <1>1, <1>2, <1>4, <1>5, <1>6

LEMMA ReadsRowInv ==
  ASSUME TraverseAssumption, WalkInv, walkAt = "resolve",
         NEW from, from \in Reached \ DOMAIN standsFor, NEW at \in WNodes,
         NEW hops \in Nat, hops < ChainCap, Leads(from, at, hops), OnlyWay(from, at, hops),
         ReadsRow(from, at, hops), UNCHANGED <<rowsNow, rowChanges, asked, walkLevel, walkRows>>
  PROVE  WalkInv'
<1>1. /\ RowsLinked /\ Unasked /\ Asked /\ Resolved /\ CallShaped(asked) /\ recalled = {}
      /\ walked = [NoAnswer EXCEPT !.truncated = walked.truncated]
      /\ rowsNow.readable \subseteq asked.rows.readable
  BY DEF WalkInv, Resolving, Asked, Unasked
<1>2. /\ rowsNow' = rowsNow /\ asked' = asked /\ walkRows' = walkRows
      /\ Reached' = Reached
  BY DEF Reached
<1>3. RowsLinked' /\ Asked' /\ CallShaped(asked')
  <2>1. CallShaped(asked') /\ asked'.edges \subseteq UNION WGraphs /\ rowsNow'.readable \subseteq asked'.rows.readable
    BY <1>1, <1>2 DEF WalkInv, Asked
  <2> QED BY <1>1, <1>2, <2>1 DEF RowsLinked, Asked
<1>4. /\ \A n, c : ResolvesTo(n, c)' <=> ResolvesTo(n, c)
      /\ \A n, c, k : Leads(n, c, k)' <=> Leads(n, c, k)
      /\ \A n, c, k : OnlyWay(n, c, k)' <=> OnlyWay(n, c, k)
      /\ MergeChains' = MergeChains /\ \A n : Merged(n)' <=> Merged(n)
  BY <1>2, ChainsUnchanged
<1>5. CASE /\ at \in rowsNow.readable /\ ~Merged(at) /\ chase' = NoChase
           /\ standsFor' = [n \in DOMAIN standsFor \cup {from} |-> IF n = from THEN at ELSE standsFor[n]]
           /\ walkAt' = walkAt /\ walked' = walked /\ recalled' = recalled
  <2>1. ResolvesTo(from, at)
    BY <1>5, ChainEnd
  <2>2. DOMAIN standsFor' = DOMAIN standsFor \cup {from} /\ DOMAIN standsFor' \subseteq Reached'
    BY <1>1, <1>2, <1>5 DEF Resolved
  <2>3. ASSUME NEW n \in DOMAIN standsFor'
        PROVE  /\ standsFor'[n] \in WNodes /\ standsFor'[n] \in asked'.rows.readable
               /\ ResolvesTo(n, standsFor'[n])
    <3>1. CASE n = from
      <4>1. standsFor'[n] = at
        BY <1>5, <2>2, <3>1
      <4> QED BY <1>1, <1>2, <1>5, <2>1, <3>1, <4>1
    <3>2. CASE n # from
      <4>1. n \in DOMAIN standsFor /\ standsFor'[n] = standsFor[n]
        BY <1>5, <2>2, <3>2
      <4> QED BY <1>1, <1>2, <4>1 DEF Resolved
    <3> QED BY <3>1, <3>2
  <2>4. (\A n \in DOMAIN standsFor : ResolvesTo(n, standsFor[n]))'
    BY <1>2, <1>4, <2>3 DEF ResolvesTo, MergesInto, Merged
  <2>5. RowsKept(asked', walkRows', walked'.truncated) /\ ~walked'.failed
    BY <1>1, <1>2, <1>5 DEF Resolved
  <2>6. Resolved'
    BY <2>2, <2>3, <2>4, <2>5 DEF Resolved
  <2>7. Unasked' /\ Walking'
    BY <1>1, <1>5 DEF Unasked, Walking
  <2>8. walkAt' = "resolve" /\ walked' = [NoAnswer EXCEPT !.truncated = walked'.truncated]
    BY <1>1, <1>5
  <2> QED BY <1>3, <1>5, <2>6, <2>7, <2>8 DEF WalkInv, WalkSteps
<1>6. CASE /\ at \in rowsNow.readable /\ Merged(at) /\ hops + 1 < ChainCap
           /\ chase' = [from |-> from, at |-> rowsNow.next[at], hops |-> hops + 1]
           /\ standsFor' = standsFor /\ walkAt' = walkAt /\ walked' = walked /\ recalled' = recalled
  <2>1. rowsNow.next[at] \in WNodes
    BY <1>1, <1>6 DEF RowsLinked, RowStates, Merged
  <2>2. Leads(from, rowsNow.next[at], hops + 1) /\ OnlyWay(from, rowsNow.next[at], hops + 1)
    BY <1>6, <2>1, ChainStep
  <2>3. chase'.from = from /\ chase'.at = rowsNow.next[at] /\ chase'.hops = hops + 1
    BY <1>6
  <2>4. (Leads(chase.from, chase.at, chase.hops))' /\ (OnlyWay(chase.from, chase.at, chase.hops))'
    <3>1. Leads(chase'.from, chase'.at, chase'.hops) /\ OnlyWay(chase'.from, chase'.at, chase'.hops)
      BY <2>2, <2>3
    <3>2. (Leads(chase.from, chase.at, chase.hops))'
      <4>1. PICK p \in [1..(chase'.hops + 1) -> WNodes] :
              /\ p[1] = chase'.from /\ p[chase'.hops + 1] = chase'.at
              /\ \A i \in 1..chase'.hops : Merged(p[i]) /\ p[i + 1] = rowsNow.next[p[i]]
        BY <3>1 DEF Leads
      <4>2. \A i \in 1..chase'.hops : (Merged(p[i]))' /\ p[i + 1] = rowsNow'.next[p[i]]
        BY <1>2, <4>1 DEF Merged
      <4> QED BY <4>1, <4>2 DEF Leads, Merged
    <3>3. (OnlyWay(chase.from, chase.at, chase.hops))'
      BY <1>2, <1>4, <3>1 DEF OnlyWay, Merged
    <3> QED BY <3>2, <3>3
  <2>5. Chased'
    BY <1>2, <1>6, <2>1, <2>3, <2>4 DEF Chased
  <2>6. Resolved'
    BY <1>1, <1>2, <1>4, <1>6 DEF Resolved
  <2>7. Unasked' /\ Walking'
    BY <1>1, <1>6 DEF Unasked, Walking
  <2>8. walkAt' = "resolve" /\ walked' = [NoAnswer EXCEPT !.truncated = walked'.truncated]
    BY <1>1, <1>6
  <2> QED BY <1>3, <1>6, <2>5, <2>6, <2>7, <2>8 DEF WalkInv, WalkSteps
<1>7. CASE /\ at \notin rowsNow.readable \/ (Merged(at) /\ hops + 1 = ChainCap)
           /\ walked' = [NoAnswer EXCEPT !.failed = TRUE] /\ walkAt' = "answered" /\ recalled' = recalled
  <2>1. walked'.failed
    BY <1>7 DEF NoAnswer
  <2>2. PICK p \in MergeChains : p[1] = from /\ p[Len(p)] = at /\ Len(p) = hops + 1
    BY ChainOf
  <2>3. from \in WithinReach(asked)
    <3>1. PICK r \in walkRows : from = Reaches(r)
      BY DEF Reached
    <3>2. RowOf(asked, r) /\ DepthOf(r) <= asked.depth
      BY <1>1 DEF Resolved, RowsKept
    <3> QED BY <1>1, <3>1, <3>2, RowWithinReach
  <2>4. p \in MergeChains' /\ p[1] = from /\ from \in WithinReach(asked')
    BY <1>2, <1>4, <2>2, <2>3
  <2>5. p[Len(p)] \notin rowsNow'.readable \/ (Len(p) = ChainCap /\ Merged(p[Len(p)])')
    BY <1>2, <1>4, <1>7, <2>2
  <2>6. recalled' = {}
    BY <1>1, <1>7
  <2>7. FailsForCause'
    BY <1>7, <2>4, <2>5, <2>6 DEF FailsForCause
  <2>8. Unasked' /\ Walking'
    BY <1>7 DEF Unasked, Walking
  <2> QED BY <1>3, <1>7, <2>1, <2>7, <2>8 DEF WalkInv, WalkSteps, Resolving
<1> QED BY <1>5, <1>6, <1>7 DEF ReadsRow, WalkFails, answerVars

LEMMA ReadsNextInv ==
  ASSUME TraverseAssumption, WalkInv, ReadsNext PROVE WalkInv'
<1>1. walkAt = "resolve" /\ UNCHANGED <<rowsNow, rowChanges, asked, walkLevel, walkRows>>
  BY DEF ReadsNext
<1>2. Resolved /\ (chase # NoChase => Chased)
  BY <1>1 DEF WalkInv, Resolving
<1>3. CASE chase = NoChase /\ \E n \in Reached \ DOMAIN standsFor : ReadsRow(n, n, 0)
  <2>1. PICK n \in Reached \ DOMAIN standsFor : ReadsRow(n, n, 0)
    BY <1>3
  <2>2. n \in WNodes
    BY <1>2, RowParts DEF Reached, Resolved, RowsKept
  <2>3. Leads(n, n, 0) /\ OnlyWay(n, n, 0)
    BY <2>2, ChainStart
  <2>4. 0 \in Nat /\ 0 < ChainCap
    BY DEF TraverseAssumption
  <2> QED BY <1>1, <2>1, <2>2, <2>3, <2>4, ReadsRowInv
<1>4. CASE chase # NoChase /\ ReadsRow(chase.from, chase.at, chase.hops)
  <2>1. Chased
    BY <1>2, <1>4
  <2>2. /\ chase.from \in Reached \ DOMAIN standsFor /\ chase.at \in WNodes
        /\ chase.hops \in Nat /\ chase.hops < ChainCap
        /\ Leads(chase.from, chase.at, chase.hops) /\ OnlyWay(chase.from, chase.at, chase.hops)
    BY <2>1 DEF Chased
  <2> QED BY <1>1, <1>4, <2>2, ReadsRowInv
<1> QED BY <1>3, <1>4 DEF ReadsNext

LEMMA HydratesInv ==
  ASSUME TraverseAssumption, WalkInv, Hydrates PROVE WalkInv'
<1> DEFINE hidden == {c \in Canonicals \cap rowsNow.readable :
                        rowsNow.status[c] = "archived" /\ c # asked.start}
           given == (Canonicals \cap rowsNow.readable) \ hidden
           entry(c) == [id |-> c, depth |-> Nearest(c), status |-> rowsNow.status[c]]
           out(n) == n \in Reached /\ standsFor[n] \in hidden
<1>1. /\ walkAt = "resolve" /\ walkAt' = "recall" /\ chase = NoChase /\ DOMAIN standsFor = Reached
      /\ walked' = [walked EXCEPT !.nodes = {entry(c) : c \in given},
                      !.edges = {EdgeOf(r) : r \in {r \in walkRows : ~out(EdgeOf(r)[1]) /\ ~out(EdgeOf(r)[2])}}]
      /\ UNCHANGED <<rowsNow, rowChanges, asked, walkLevel, walkRows, standsFor, chase, recalled>>
  BY DEF Hydrates, Canonicals
<1>2. /\ RowsLinked /\ Unasked /\ Asked /\ Resolved /\ CallShaped(asked) /\ recalled = {}
      /\ walked = [NoAnswer EXCEPT !.truncated = walked.truncated]
      /\ rowsNow.readable \subseteq asked.rows.readable
  BY <1>1 DEF WalkInv, Resolving, Asked, Unasked
<1>3. /\ walked'.nodes = {entry(c) : c \in given} /\ walked'.truncated = walked.truncated
      /\ walked'.edges = {EdgeOf(r) : r \in {r \in walkRows : ~out(EdgeOf(r)[1]) /\ ~out(EdgeOf(r)[2])}}
      /\ ~walked'.failed
  <2> DEFINE N == {entry(c) : c \in given}
             E == {EdgeOf(r) : r \in {r \in walkRows : ~out(EdgeOf(r)[1]) /\ ~out(EdgeOf(r)[2])}}
  <2>1. walked' = [walked EXCEPT !.nodes = N, !.edges = E]
    BY <1>1
  <2> HIDE DEF N, E
  <2>2. walked' = [nodes |-> N, edges |-> E, truncated |-> walked.truncated, failed |-> FALSE]
    BY <1>2, <2>1 DEF NoAnswer
  <2>3. walked'.nodes = N /\ walked'.edges = E /\ walked'.truncated = walked.truncated /\ ~walked'.failed
    BY <2>2
  <2> QED BY <2>3 DEF N, E
<1>4. AnswerIds' = given
  <2>1. AnswerIds' = {a.id : a \in walked'.nodes}
    BY DEF AnswerIds
  <2>2. \A c \in given : entry(c).id = c
    OBVIOUS
  <2> HIDE DEF given, entry
  <2> QED BY <1>3, <2>1, <2>2
<1>5. /\ \A c : Nearest(c)' = Nearest(c)
      /\ Canonicals' = Canonicals /\ Reached' = Reached
  <2>1. \A c : Nearest(c)' = Nearest(c)
    BY <1>1 DEF Nearest
  <2>2. Reached' = Reached
    BY <1>1 DEF Reached
  <2> QED BY <1>1, <2>1, <2>2 DEF Canonicals
<1>6. ASSUME NEW a \in walked'.nodes
      PROVE  /\ a.id \in Canonicals /\ a.id \in asked.rows.readable /\ a.depth = Nearest(a.id)
             /\ a.status = "archived" => a.id = asked.start
  <2>1. PICK c \in given : a = entry(c)
    BY <1>3
  <2>2. a.id = c /\ a.depth = Nearest(c) /\ a.status = rowsNow.status[c]
    BY <2>1
  <2>3. c \in Canonicals \cap rowsNow.readable /\ ~(rowsNow.status[c] = "archived" /\ c # asked.start)
    BY <2>1
  <2> QED BY <1>2, <2>2, <2>3
<1>7. \A c \in Canonicals \cap rowsNow.readable : c \in given \/ rowsNow.status[c] = "archived"
  OBVIOUS
<1>8. \A c \in WNodes \cap Canonicals : c \notin hidden => c \in given \/ c \in WNodes \ rowsNow.readable
  OBVIOUS
<1>9. asked.start \in WNodes /\ asked.start \in Canonicals /\ asked.start \notin hidden
  BY <1>2 DEF CallShaped, Canonicals
<1>10. ASSUME NEW e \in walked'.edges
       PROVE  /\ \E r \in walkRows : e = EdgeOf(r)
              /\ \A i \in {1, 2} : e[i] \in Reached => standsFor[e[i]] \in given \cup (WNodes \ rowsNow.readable)
  <2>1. PICK r \in walkRows : e = EdgeOf(r) /\ ~out(EdgeOf(r)[1]) /\ ~out(EdgeOf(r)[2])
    BY <1>3
  <2>2. ASSUME NEW i \in {1, 2}, e[i] \in Reached
        PROVE  standsFor[e[i]] \in given \cup (WNodes \ rowsNow.readable)
    <3>1. ~out(e[i])
      BY <2>1
    <3>2. standsFor[e[i]] \notin hidden
      BY <2>2, <3>1
    <3>3. standsFor[e[i]] \in WNodes /\ standsFor[e[i]] \in Canonicals
      BY <1>1, <1>2, <2>2 DEF Resolved, Canonicals
    <3> QED BY <1>8, <3>2, <3>3
  <2> QED BY <2>1, <2>2
<1> HIDE DEF hidden, given, entry, out
<1>11. Answered'
  <2>1. \A a \in walked'.nodes : a.id \in Canonicals' /\ a.id \in asked'.rows.readable
                                 /\ (a.status = "archived" => a.id = asked'.start)
    BY <1>1, <1>5, <1>6
  <2>2. (\A a \in walked.nodes : a.depth = Nearest(a.id))'
    BY <1>1, <1>6 DEF Nearest
  <2>3. \A c \in Canonicals' \cap rowsNow'.readable : c \in AnswerIds' \/ rowsNow'.status[c] = "archived"
    BY <1>1, <1>4, <1>5, <1>7
  <2>4. asked'.start \in AnswerIds' \cup (WNodes \ rowsNow'.readable)
    BY <1>1, <1>4, <1>8, <1>9
  <2>5. \A e \in walked'.edges :
          /\ \E r \in walkRows' : e = EdgeOf(r)
          /\ \A i \in {1, 2} : e[i] \in Reached' => standsFor'[e[i]] \in AnswerIds' \cup (WNodes \ rowsNow'.readable)
    BY <1>1, <1>4, <1>5, <1>10
  <2>6. chase' = NoChase /\ DOMAIN standsFor' = Reached'
    BY <1>1, <1>5
  <2> QED BY <2>1, <2>2, <2>3, <2>4, <2>5, <2>6 DEF Answered, Shown
<1>12. Resolved'
  <2>1. (\A n \in DOMAIN standsFor : ResolvesTo(n, standsFor[n]))'
    BY <1>1, <1>2, ChainsUnchanged DEF Resolved, ResolvesTo, MergesInto, Merged
  <2>2. RowsKept(asked', walkRows', walked'.truncated) /\ ~walked'.failed
    BY <1>1, <1>2, <1>3 DEF Resolved
  <2> QED BY <1>1, <1>2, <1>5, <2>1, <2>2 DEF Resolved
<1>13. RowsLinked' /\ Unasked' /\ Asked' /\ Walking'
  BY <1>1, <1>2 DEF RowsLinked, Unasked, Asked, Walking
<1> QED BY <1>1, <1>11, <1>12, <1>13 DEF WalkInv, WalkSteps

LEMMA BumpsRecallInv ==
  ASSUME TraverseAssumption, WalkInv, BumpsRecall PROVE WalkInv'
<1>1. /\ walkAt = "recall" /\ walkAt' = "answered" /\ recalled' = AnswerIds \cap rowsNow.readable
      /\ UNCHANGED <<rowsNow, rowChanges, asked, walkLevel, walkRows, standsFor, chase, walked>>
  BY DEF BumpsRecall
<1>2. RowsLinked /\ Unasked /\ Asked /\ Resolved /\ Answered /\ ~walked.failed
  BY <1>1 DEF WalkInv, Resolving, Resolved
<1>3. AnswerIds' = AnswerIds /\ Reached' = Reached /\ Canonicals' = Canonicals
  BY <1>1 DEF AnswerIds, Reached, Canonicals
<1>4. Counted'
  BY <1>1, <1>3 DEF Counted
<1>5. Answered'
  <2>1. (\A a \in walked.nodes : a.depth = Nearest(a.id))'
    BY <1>1, <1>2 DEF Nearest, Answered
  <2> QED BY <1>1, <1>2, <1>3, <2>1 DEF Answered, Shown
<1>6. Resolved'
  <2>1. (\A n \in DOMAIN standsFor : ResolvesTo(n, standsFor[n]))'
    BY <1>1, <1>2, ChainsUnchanged DEF Resolved, ResolvesTo, MergesInto, Merged
  <2> QED BY <1>1, <1>2, <1>3, <2>1 DEF Resolved
<1>7. RowsLinked' /\ Unasked' /\ Asked' /\ Walking'
  BY <1>1, <1>2 DEF RowsLinked, Unasked, Asked, Walking
<1> QED BY <1>1, <1>2, <1>4, <1>5, <1>6, <1>7 DEF WalkInv, WalkSteps

\* What another transaction commits leaves the chains as they are; a row archived
\* stays so and a grant withdrawn too.
LEMMA RowChangeInv ==
  ASSUME TraverseAssumption, WalkInv, RowChange, rowsNow' \in RowStates,
         rowsNow'.next = rowsNow.next, rowsNow'.readable \subseteq rowsNow.readable,
         \A n \in WNodes : /\ rowsNow'.status[n] = "merged" <=> rowsNow.status[n] = "merged"
                           /\ rowsNow.status[n] = "archived" => rowsNow'.status[n] = "archived"
  PROVE  WalkInv'
<1>1. /\ walkAt \in {"resolve", "recall"} /\ walkAt' = walkAt /\ asked' = asked /\ walkLevel' = walkLevel
      /\ walkRows' = walkRows /\ standsFor' = standsFor /\ chase' = chase /\ walked' = walked
      /\ recalled' = recalled
  BY DEF RowChange, answerVars
<1>2. /\ RowsLinked /\ Unasked /\ Asked /\ Resolved /\ CallShaped(asked)
      /\ rowsNow.readable \subseteq asked.rows.readable
  BY <1>1 DEF WalkInv, Resolving, Asked
<1>3. AnswerIds' = AnswerIds /\ Reached' = Reached /\ Canonicals' = Canonicals
  BY <1>1 DEF AnswerIds, Reached, Canonicals
<1>4. \A n \in WNodes : Merged(n)' <=> Merged(n)
  BY DEF Merged
<1>5. MergeChains' = MergeChains
  <2> DEFINE P == UNION {[1..k -> WNodes] : k \in 1..ChainCap}
  <2>1. ASSUME NEW p \in P, NEW i \in 1..(Len(p) - 1)
        PROVE  (Merged(p[i]))' <=> Merged(p[i])
    <3>1. PICK k \in 1..ChainCap : p \in [1..k -> WNodes]
      OBVIOUS
    <3>2. k \in Nat /\ Len(p) = k
      BY <3>1, AsSequence
    <3>3. p[i] \in WNodes
      BY <3>1, <3>2
    <3> QED BY <3>3 DEF Merged
  <2>2. MergeChains = {p \in P : \A i \in 1..(Len(p) - 1) : Merged(p[i]) /\ p[i + 1] = rowsNow.next[p[i]]}
    BY DEF MergeChains
  <2>3. MergeChains' =
          {p \in P : \A i \in 1..(Len(p) - 1) : Merged(p[i])' /\ p[i + 1] = rowsNow'.next[p[i]]}
    BY DEF MergeChains
  <2> HIDE DEF P
  <2> QED BY <2>1, <2>2, <2>3
<1>6. \A n, c : c \in WNodes => (MergesInto(n, c)' <=> MergesInto(n, c))
  BY <1>4, <1>5 DEF MergesInto
<1>7. Resolved'
  <2>1. ASSUME NEW n \in DOMAIN standsFor PROVE (ResolvesTo(n, standsFor[n]))'
    <3>1. standsFor[n] \in WNodes /\ ResolvesTo(n, standsFor[n])
      BY <1>2 DEF Resolved
    <3>2. (MergesInto(n, standsFor[n]))' <=> MergesInto(n, standsFor[n])
      BY <1>1, <1>5, <3>1 DEF MergesInto, Merged
    <3>3. \A d \in WNodes : MergesInto(n, d)' => d = standsFor[n]
      BY <1>6, <3>1 DEF ResolvesTo
    <3> QED BY <1>1, <3>1, <3>2, <3>3 DEF ResolvesTo
  <2>2. (\A n \in DOMAIN standsFor : ResolvesTo(n, standsFor[n]))'
    BY <1>1, <2>1
  <2> QED BY <1>1, <1>2, <1>3, <2>2 DEF Resolved
<1>8. walkAt = "resolve" /\ chase # NoChase => Chased'
  <2> SUFFICES ASSUME walkAt = "resolve", chase # NoChase PROVE Chased'
    OBVIOUS
  <2>1. Chased
    BY DEF WalkInv
  <2>2. (Leads(chase.from, chase.at, chase.hops))'
    <3>1. PICK p \in [1..(chase.hops + 1) -> WNodes] :
            /\ p[1] = chase.from /\ p[chase.hops + 1] = chase.at
            /\ \A i \in 1..chase.hops : Merged(p[i]) /\ p[i + 1] = rowsNow.next[p[i]]
      BY <2>1 DEF Chased, Leads
    <3>2. ASSUME NEW i \in 1..chase.hops PROVE (Merged(p[i]))' /\ p[i + 1] = rowsNow'.next[p[i]]
      <4>1. chase.hops \in Nat
        BY <2>1 DEF Chased
      <4>2. i \in 1..(chase.hops + 1)
        BY <4>1
      <4>3. p[i] \in WNodes
        BY <4>2
      <4> QED BY <3>1, <4>3 DEF Merged
    <3> QED BY <1>1, <3>1, <3>2 DEF Leads, Merged
  <2>3. (OnlyWay(chase.from, chase.at, chase.hops))'
    <3>1. \A p \in MergeChains : p[Len(p)] \in WNodes
      BY ChainParts
    <3>2. \A p \in MergeChains : p[1] = chase.from /\ ~Merged(p[Len(p)]) =>
                                   Len(p) > chase.hops /\ p[chase.hops + 1] = chase.at
      BY <2>1 DEF Chased, OnlyWay
    <3>3. \A p \in MergeChains : Merged(p[Len(p)])' <=> Merged(p[Len(p)])
      BY <3>1 DEF Merged
    <3>4. \A p \in MergeChains : p[1] = chase.from /\ ~(Merged(p[Len(p)])') =>
                                   Len(p) > chase.hops /\ p[chase.hops + 1] = chase.at
      BY <3>2, <3>3
    <3> QED BY <1>1, <1>5, <3>4 DEF OnlyWay
  <2> QED BY <1>1, <1>3, <2>1, <2>2, <2>3 DEF Chased
<1>9. walkAt = "recall" => Answered'
  <2> SUFFICES ASSUME walkAt = "recall" PROVE Answered'
    OBVIOUS
  <2>1. Answered
    BY DEF WalkInv
  <2>2. (\A a \in walked.nodes : a.depth = Nearest(a.id))'
    BY <1>1, <2>1 DEF Nearest, Answered
  <2>3. Canonicals \subseteq WNodes
    BY <1>2, <2>1 DEF Canonicals, CallShaped, Resolved, Answered
  <2>4. \A c \in Canonicals' \cap rowsNow'.readable : c \in AnswerIds' \/ rowsNow'.status[c] = "archived"
    BY <1>3, <2>1, <2>3 DEF Answered
  <2>5. (Shown(asked.start))' /\ (\A e \in walked.edges : \A i \in {1, 2} :
                                    e[i] \in Reached => Shown(standsFor[e[i]]))'
    BY <1>1, <1>3, <2>1 DEF Answered, Shown
  <2> QED BY <1>1, <1>3, <2>1, <2>2, <2>4, <2>5 DEF Answered
<1>10. RowsLinked' /\ Unasked' /\ Asked' /\ Walking'
  <2>1. RowsLinked'
    BY <1>2 DEF RowsLinked
  <2> QED BY <1>1, <1>2, <2>1 DEF Unasked, Asked, Walking
<1>11. walkAt' = "resolve" => walked' = [NoAnswer EXCEPT !.truncated = walked'.truncated]
  BY <1>1 DEF WalkInv
<1> QED BY <1>1, <1>7, <1>8, <1>9, <1>10, <1>11 DEF WalkInv, WalkSteps

LEMMA WalkStutters ==
  ASSUME WalkInv, UNCHANGED walkVars PROVE WalkInv'
<1>1. /\ rowsNow' = rowsNow /\ asked' = asked /\ walkAt' = walkAt /\ walkLevel' = walkLevel
      /\ walkRows' = walkRows /\ standsFor' = standsFor /\ chase' = chase /\ walked' = walked
      /\ recalled' = recalled
  BY DEF walkVars, answerVars
<1>2. AnswerIds' = AnswerIds /\ Reached' = Reached /\ Canonicals' = Canonicals /\ MergeChains' = MergeChains
  BY <1>1, ChainsUnchanged DEF AnswerIds, Reached, Canonicals
<1>3. Resolved => Resolved'
  BY <1>1, <1>2 DEF Resolved, ResolvesTo, MergesInto, Merged
<1>4. Chased => Chased'
  BY <1>1, <1>2 DEF Chased, Leads, OnlyWay, Merged
<1>5. Answered => Answered'
  BY <1>1, <1>2 DEF Answered, Shown, Nearest
<1>6. FailsForCause => FailsForCause'
  BY <1>1, <1>2 DEF FailsForCause, Merged
<1>7. (RowsLinked => RowsLinked') /\ (Unasked => Unasked') /\ (Asked => Asked') /\ (Walking => Walking')
      /\ (Counted => Counted') /\ (Resolving' <=> Resolving)
  BY <1>1, <1>2 DEF RowsLinked, Unasked, Asked, Walking, Counted, Resolving
<1> QED BY <1>1, <1>3, <1>4, <1>5, <1>6, <1>7 DEF WalkInv

LEMMA WalkStepInv ==
  ASSUME TraverseAssumption PROVE WalkInv /\ [TraverseNext]_walkVars => WalkInv'
<1> SUFFICES ASSUME WalkInv, [TraverseNext]_walkVars PROVE WalkInv'
  OBVIOUS
<1>1. ASSUME NEW start \in WNodes, NEW direction \in {"out", "in", "both"}, NEW edges \in WGraphs,
             NEW depth \in WDepths, NEW limit \in WLimits, Call(start, direction, edges, depth, limit)
      PROVE  WalkInv'
  BY <1>1, CallInv
<1>2. CASE WalksOn
  BY <1>2, WalksOnInv
<1>3. CASE CutsRows
  BY <1>3, CutsRowsInv
<1>4. CASE ReadsNext
  BY <1>4, ReadsNextInv
<1>5. CASE Hydrates
  BY <1>5, HydratesInv
<1>6. CASE BumpsRecall
  BY <1>6, BumpsRecallInv
<1>7. ASSUME NEW n \in WNodes, Archives(n) PROVE WalkInv'
  <2>1. /\ RowChange /\ rowsNow.status[n] \in {"active", "superseded"}
        /\ rowsNow' = [rowsNow EXCEPT !.status[n] = "archived"] /\ rowsNow \in RowStates
    BY <1>7 DEF Archives, WalkInv, RowsLinked
  <2>2. /\ rowsNow' \in RowStates /\ rowsNow'.next = rowsNow.next
        /\ rowsNow'.readable = rowsNow.readable
        /\ rowsNow'.status = [rowsNow.status EXCEPT ![n] = "archived"]
    BY <2>1 DEF RowStates
  <2>3. ASSUME NEW m \in WNodes
        PROVE  /\ rowsNow'.status[m] = "merged" <=> rowsNow.status[m] = "merged"
               /\ rowsNow.status[m] = "archived" => rowsNow'.status[m] = "archived"
    BY <2>1, <2>2 DEF RowStates
  <2> QED BY <2>1, <2>2, <2>3, RowChangeInv
<1>8. ASSUME NEW n \in WNodes, Withdraws(n) PROVE WalkInv'
  <2>1. /\ RowChange /\ rowsNow' = [rowsNow EXCEPT !.readable = @ \ {n}] /\ rowsNow \in RowStates
    BY <1>8 DEF Withdraws, WalkInv, RowsLinked
  <2>2. /\ rowsNow' \in RowStates /\ rowsNow'.next = rowsNow.next
        /\ rowsNow'.readable \subseteq rowsNow.readable /\ rowsNow'.status = rowsNow.status
    BY <2>1 DEF RowStates
  <2> QED BY <2>1, <2>2, RowChangeInv
<1>9. CASE UNCHANGED walkVars
  BY <1>9, WalkStutters
<1> QED BY <1>1, <1>2, <1>3, <1>4, <1>5, <1>6, <1>7, <1>8, <1>9 DEF TraverseNext

-----------------------------------------------------------------------------
(* What the answer says.                                                   *)

LEMMA NearestIs ==
  ASSUME TraverseAssumption, CallShaped(asked), Resolved, DOMAIN standsFor = Reached,
         NEW c \in Canonicals
  PROVE  /\ Nearest(c) \in 0..asked.depth /\ (c = asked.start => Nearest(c) = 0)
         /\ c # asked.start => \E r \in walkRows : standsFor[Reaches(r)] = c /\ Nearest(c) = DepthOf(r)
         /\ \A r \in walkRows : standsFor[Reaches(r)] = c => Nearest(c) <= DepthOf(r)
<1> DEFINE S == {DepthOf(r) : r \in {r \in walkRows : standsFor[Reaches(r)] = c}}
           T == S \cup IF c = asked.start THEN {0} ELSE {}
<1>0. asked.depth \in Nat
  BY DEF CallShaped, TraverseAssumption
<1>1. \A r \in walkRows : DepthOf(r) \in Nat \ {0} /\ DepthOf(r) <= asked.depth
  BY RowParts DEF Resolved, RowsKept
<1>2. S \subseteq 1..asked.depth
  BY <1>0, <1>1
<1>3. c # asked.start => S # {}
  <2> SUFFICES ASSUME c # asked.start PROVE S # {}
    OBVIOUS
  <2>1. PICK n \in Reached : c = standsFor[n]
    BY DEF Canonicals
  <2>2. PICK r \in walkRows : n = Reaches(r)
    BY DEF Reached
  <2>3. DepthOf(r) \in S
    BY <2>1, <2>2
  <2> QED BY <2>3
<1>4. T \subseteq 0..asked.depth /\ T \subseteq Nat /\ T # {}
  <2>1. 1..asked.depth \subseteq 0..asked.depth /\ 0 \in 0..asked.depth
    BY <1>0
  <2> HIDE DEF S
  <2> QED BY <1>2, <1>3, <2>1
<1>5. Nearest(c) = MinOver(T)
  BY DEF Nearest
<1>6. MinOver(T) \in T /\ \A k \in T : MinOver(T) <= k
  <2> HIDE DEF T
  <2> QED BY <1>4, LeastOf
<1>7. Nearest(c) \in 0..asked.depth
  BY <1>4, <1>5, <1>6
<1>8. c = asked.start => Nearest(c) = 0
  <2> SUFFICES ASSUME c = asked.start PROVE Nearest(c) = 0
    OBVIOUS
  <2>1. 0 \in T
    OBVIOUS
  <2>2. Nearest(c) <= 0
    BY <1>5, <1>6, <2>1
  <2> QED BY <1>7, <2>2
<1>9. c # asked.start => \E r \in walkRows : standsFor[Reaches(r)] = c /\ Nearest(c) = DepthOf(r)
  <2> SUFFICES ASSUME c # asked.start
               PROVE  \E r \in walkRows : standsFor[Reaches(r)] = c /\ Nearest(c) = DepthOf(r)
    OBVIOUS
  <2>1. Nearest(c) \in S
    BY <1>5, <1>6
  <2> QED BY <2>1
<1>10. \A r \in walkRows : standsFor[Reaches(r)] = c => Nearest(c) <= DepthOf(r)
  BY <1>5, <1>6
<1> QED BY <1>7, <1>8, <1>9, <1>10

LEMMA AnswerExact ==
  ASSUME TraverseAssumption, CallShaped(asked), Resolved, Answered PROVE WalkExact
<1>1. DOMAIN standsFor = Reached /\ RowsKept(asked, walkRows, walked.truncated)
  BY DEF Resolved, Answered
<1> SUFFICES ASSUME NEW a \in walked.nodes
             PROVE  /\ IF a.id = asked.start THEN a.depth = 0
                       ELSE \E n \in WithinReach(asked) : MergesInto(n, a.id) /\ a.depth = Away(asked, n)
                    /\ \A n \in WithinReach(asked) : MergesInto(n, a.id) => a.depth <= Away(asked, n)
  BY DEF WalkExact
<1> DEFINE c == a.id
<1>2. c \in Canonicals /\ a.depth = Nearest(c)
  BY DEF Answered
<1> HIDE DEF c
<1>3. /\ a.depth \in 0..asked.depth /\ (c = asked.start => a.depth = 0)
      /\ c # asked.start => \E r \in walkRows : standsFor[Reaches(r)] = c /\ a.depth = DepthOf(r)
      /\ \A r \in walkRows : standsFor[Reaches(r)] = c => a.depth <= DepthOf(r)
  BY <1>1, <1>2, NearestIs
<1>4. asked.depth \in Nat
  BY DEF CallShaped, TraverseAssumption
<1>5. c \in WNodes
  BY <1>1, <1>2 DEF Canonicals, Resolved, CallShaped
<1>6. \A r \in walkRows : /\ Reaches(r) \in Reached /\ DepthOf(r) \in Nat
                          /\ Reaches(r) \in WithinReach(asked) /\ Away(asked, Reaches(r)) <= DepthOf(r)
  BY <1>1, RowWithinReach, RowParts DEF RowsKept, Reached
<1>7. \A n \in Reached : MergesInto(n, c) => standsFor[n] = c
  BY <1>1, <1>5 DEF Resolved, ResolvesTo
<1>8. ASSUME NEW n \in WithinReach(asked), MergesInto(n, c) PROVE a.depth <= Away(asked, n)
  <2>1. Away(asked, n) \in Nat
    BY <1>4, NearestWalk
  <2>2. CASE c = asked.start
    BY <1>3, <2>1, <2>2
  <2>3. CASE c # asked.start
    <3>1. PICK r \in walkRows : standsFor[Reaches(r)] = c /\ a.depth = DepthOf(r)
      BY <1>3, <2>3
    <3> SUFFICES ASSUME DepthOf(r) > Away(asked, n) PROVE FALSE
      BY <1>6, <2>1, <3>1
    <3>2. PICK t \in walkRows : Reaches(t) = n /\ DepthOf(t) <= Away(asked, n)
      BY <1>1, KeptWithinReach
    <3>3. standsFor[Reaches(t)] = c
      BY <1>6, <1>7, <1>8, <3>2
    <3>4. a.depth <= DepthOf(t) /\ DepthOf(t) \in Nat /\ DepthOf(r) \in Nat
      BY <1>3, <1>6, <3>3
    <3> QED BY <2>1, <3>1, <3>2, <3>4
  <2> QED BY <2>2, <2>3
<1>9. ASSUME c # asked.start
      PROVE  \E n \in WithinReach(asked) : MergesInto(n, c) /\ a.depth = Away(asked, n)
  <2>1. PICK r \in walkRows : standsFor[Reaches(r)] = c /\ a.depth = DepthOf(r)
    BY <1>3, <1>9
  <2>2. MergesInto(Reaches(r), c)
    BY <1>1, <1>6, <2>1 DEF Resolved, ResolvesTo
  <2>3. a.depth <= Away(asked, Reaches(r)) /\ Away(asked, Reaches(r)) <= DepthOf(r)
    BY <1>6, <1>8, <2>2
  <2>4. Away(asked, Reaches(r)) \in Nat /\ DepthOf(r) \in Nat
    BY <1>4, <1>6, NearestWalk
  <2>5. a.depth = Away(asked, Reaches(r))
    BY <2>1, <2>3, <2>4
  <2> QED BY <1>6, <2>2, <2>5
<1> QED BY <1>3, <1>8, <1>9 DEF c

LEMMA AnswerComplete ==
  ASSUME TraverseAssumption, CallShaped(asked), RowsLinked, Resolved, Answered PROVE WalkComplete
<1> SUFFICES ASSUME ~walked.truncated, NEW n \in WithinReach(asked), NEW c \in rowsNow.readable,
                    MergesInto(n, c)
             PROVE  c \in AnswerIds \/ rowsNow.status[c] = "archived"
  BY DEF WalkComplete
<1>1. PICK t \in walkRows : Reaches(t) = n
  BY KeptWithinReach DEF Resolved
<1>2. n \in Reached /\ c \in WNodes
  BY <1>1 DEF Reached, RowsLinked, RowStates
<1>3. standsFor[n] = c
  BY <1>2 DEF Resolved, ResolvesTo, Answered
<1>4. c \in Canonicals
  BY <1>2, <1>3 DEF Canonicals
<1> QED BY <1>4 DEF Answered

LEMMA AnswerIsClosed ==
  ASSUME TraverseAssumption, CallShaped(asked), Resolved, Answered, Counted PROVE AnswerClosed
<1>1. AnswerIds \subseteq asked.rows.readable
  BY DEF AnswerIds, Answered
<1>2. ASSUME NEW e \in walked.edges, NEW i \in {1, 2}
      PROVE  \E c \in AnswerIds \cup (WNodes \ rowsNow.readable) :
               IF e[i] = asked.start THEN c = e[i] ELSE MergesInto(e[i], c)
  <2>1. CASE e[i] = asked.start
    BY <2>1 DEF Answered, Shown
  <2>2. CASE e[i] # asked.start
    <3>1. PICK r \in walkRows : e = EdgeOf(r)
      BY DEF Answered
    <3>2. RowOf(asked, r) /\ Continues(r, walkRows)
      BY DEF Resolved, RowsKept
    <3>3. /\ DepthOf(r) \in Nat \ {0} /\ Reaches(r) = r.path[DepthOf(r) + 1]
          /\ r.path[1] = asked.start
      BY <3>2, RowParts
    <3>4. e[i] = r.path[DepthOf(r)] \/ e[i] = r.path[DepthOf(r) + 1]
      BY <3>1, <3>2 DEF RowOf
    <3>5. e[i] \in Reached
      <4>1. CASE e[i] = r.path[DepthOf(r) + 1]
        BY <3>3, <4>1 DEF Reached
      <4>2. CASE e[i] = r.path[DepthOf(r)]
        <5>1. DepthOf(r) > 1
          BY <2>2, <3>3, <4>2
        <5>2. PICK t \in walkRows : Reaches(t) = r.path[DepthOf(r)]
          BY <3>2, <5>1 DEF Continues
        <5> QED BY <4>2, <5>2 DEF Reached
      <4> QED BY <3>4, <4>1, <4>2
    <3>6. Shown(standsFor[e[i]]) /\ MergesInto(e[i], standsFor[e[i]])
      BY <3>5 DEF Answered, Resolved, ResolvesTo
    <3> QED BY <2>2, <3>6 DEF Shown
  <2> QED BY <2>1, <2>2
<1> QED BY <1>1, <1>2 DEF AnswerClosed, Answered, Counted

LEMMA WalkSound ==
  ASSUME TraverseAssumption PROVE WalkInv => WalkFaithful
<1> SUFFICES ASSUME WalkInv, walkAt = "answered"
             PROVE  IF walked.failed THEN FailsForCause ELSE WalkExact /\ WalkComplete /\ AnswerClosed
  BY DEF WalkFaithful
<1>1. CallShaped(asked) /\ RowsLinked
  BY DEF WalkInv, Asked
<1>2. CASE walked.failed
  BY <1>2 DEF WalkInv
<1>3. CASE ~walked.failed
  <2>1. Resolved /\ Answered /\ Counted
    BY <1>3 DEF WalkInv, Resolving
  <2> QED BY <1>1, <1>3, <2>1, AnswerExact, AnswerComplete, AnswerIsClosed
<1> QED BY <1>2, <1>3

\* For any edges, rows, directions, depths and limits, whatever is archived or withdrawn
\* between the statements of a traverse: its depths are those of shortest walks even
\* when the limit cut the rows, an answer not said to be truncated lacks nothing, no
\* edge dangles, what is shown is counted, and a call fails only over a chain that
\* leads out of what the caller may read or past the cap.
THEOREM WalksAreFaithful == TraverseSpec => []WalkFaithful
<1>1. TraverseInit => WalkInv
  BY TraverseAssumption, WalkInitInv
<1>2. WalkInv /\ [TraverseNext]_walkVars => WalkInv'
  BY TraverseAssumption, WalkStepInv
<1>3. WalkInv => WalkFaithful
  BY TraverseAssumption, WalkSound
<1> QED BY <1>1, <1>2, <1>3, PTL DEF TraverseSpec

LEMMA WalkTyped ==
  ASSUME TraverseAssumption PROVE WalkInv => TraverseTypeOK
<1> SUFFICES ASSUME WalkInv PROVE TraverseTypeOK
  OBVIOUS
<1>1. walkAt \in WalkSteps
  BY DEF WalkInv
<1>2. CASE walkAt \in {"idle", "walk", "resolve"} \/ (walkAt = "answered" /\ walked.failed)
  <2>1. walked.nodes = {} /\ walked.edges = {} /\ recalled = {}
    BY <1>2 DEF WalkInv, Unasked, FailsForCause, NoAnswer
  <2> QED BY <1>1, <2>1 DEF TraverseTypeOK, WalkSteps
<1>3. CASE walkAt = "recall" \/ (walkAt = "answered" /\ ~walked.failed)
  <2>1. /\ Resolved /\ Answered /\ CallShaped(asked) /\ asked.edges \subseteq UNION WGraphs
        /\ recalled \subseteq AnswerIds
    BY <1>3 DEF WalkInv, Resolving, Asked, Unasked, Counted
  <2>2. ASSUME NEW a \in walked.nodes PROVE a.id \in WNodes /\ a.depth \in 0..DepthCap
    <3>1. a.id \in Canonicals /\ a.depth = Nearest(a.id) /\ DOMAIN standsFor = Reached
      BY <2>1 DEF Answered
    <3> DEFINE c == a.id
    <3> HIDE DEF c
    <3>2. c \in Canonicals /\ a.depth = Nearest(c)
      BY <3>1 DEF c
    <3>3. Nearest(c) \in 0..asked.depth
      BY <2>1, <3>1, <3>2, NearestIs
    <3>4. asked.depth \in Nat /\ asked.depth <= DepthCap /\ DepthCap \in Nat
      BY <2>1 DEF CallShaped, TraverseAssumption
    <3>5. a.id \in WNodes
      BY <2>1, <3>1 DEF Canonicals, Resolved, CallShaped
    <3> QED BY <3>2, <3>3, <3>4, <3>5
  <2>3. walked.edges \subseteq UNION WGraphs
    <3>1. \A e \in walked.edges : \E r \in walkRows : e = EdgeOf(r)
      BY <2>1 DEF Answered
    <3>2. \A r \in walkRows : EdgeOf(r) \in asked.edges
      BY <2>1, RowParts DEF Resolved, RowsKept
    <3> QED BY <2>1, <3>1, <3>2
  <2>4. recalled \subseteq WNodes
    BY <2>1, <2>2 DEF AnswerIds
  <2> QED BY <1>1, <2>2, <2>3, <2>4 DEF TraverseTypeOK, WalkSteps
<1> QED BY <1>1, <1>2, <1>3 DEF WalkSteps

\* The ids, depths, edges and counts of an answer are of the graph and within the cap.
THEOREM WalksWellTyped == TraverseSpec => []TraverseTypeOK
<1>1. TraverseInit => WalkInv
  BY TraverseAssumption, WalkInitInv
<1>2. WalkInv /\ [TraverseNext]_walkVars => WalkInv'
  BY TraverseAssumption, WalkStepInv
<1>3. WalkInv => TraverseTypeOK
  BY TraverseAssumption, WalkTyped
<1> QED BY <1>1, <1>2, <1>3, PTL DEF TraverseSpec
=============================================================================
