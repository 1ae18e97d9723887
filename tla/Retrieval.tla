----------------------------- MODULE Retrieval -----------------------------
(***************************************************************************)
(* hybrid_fuse (engraphy/core/search.py): the two legs of a search, their  *)
(* fusion by reciprocal rank, and the collapse of near-duplicates.  Each   *)
(* query is a statement of its own under READ COMMITTED, so the rows may   *)
(* change between two of them.  How near a node is to the query, how well  *)
(* it matches the words and which nodes are near each other are given.     *)
(***************************************************************************)
EXTENDS Integers, Sequences, FiniteSets, Fusion

CONSTANTS
  VectorOrder,  \* the node ids, nearest to the query first
  LexicalOrder, \* those the words match, best first
  CreatedAt,    \* [id -> its created_at, a positive number]
  NearPairs,    \* the sets {a, b} at or above the read band
  HitLimits,    \* the limits asked for, clamped
  MaxChanges    \* bound: changes to the rows during a search

HitIds == {VectorOrder[i] : i \in DOMAIN VectorOrder}
Worded == {LexicalOrder[i] : i \in DOMAIN LexicalOrder}

ASSUME RetrievalAssumption ==
  /\ HitIds \subseteq Nat /\ IsFiniteSet(HitIds) /\ Worded \subseteq HitIds
  /\ MaxChanges \in Nat /\ HitLimits \subseteq Nat \ {0}
  /\ \A n \in HitIds : CreatedAt[n] \in Nat \ {0} /\ {n} \notin NearPairs

VARIABLES
  live, shown, declared, \* the store: active rows, rows the caller may read,
                         \* pairs joined by same_topic or relates_to
  step, changes,         \* the statement coming next, the changes made so far
  declared0,             \* declared, when the search began
  leg1, leg2, hydrated, near, \* what the statements returned
  coming, kept,             \* the collapse: the fused ids to come, those it keeps
  hits                   \* the answer

retrievalVars == <<live, shown, declared, step, changes, declared0, leg1, leg2,
                   hydrated, near, coming, kept, hits>>

NoHits == [kept |-> <<>>, truncated |-> FALSE, failed |-> FALSE, limit |-> 0]

RetrievalInit ==
  /\ live \in {HitIds} \cup {HitIds \ {n} : n \in HitIds} /\ shown = HitIds
  /\ declared \in SUBSET NearPairs /\ declared0 = declared
  /\ step = "vector" /\ changes = 0
  /\ leg1 = {} /\ leg2 = {} /\ hydrated = {} /\ near = {} /\ coming = {} /\ kept = <<>>
  /\ hits = NoHits

-----------------------------------------------------------------------------
(* What other transactions may commit between two statements.              *)

\* After the last statement a search sees nothing of what commits.
Change ==
  /\ step \notin {"vector", "collapse", "answered"} /\ changes < MaxChanges
  /\ changes' = changes + 1
  /\ UNCHANGED <<step, declared0, leg1, leg2, hydrated, near, coming, kept, hits>>

\* A write supersedes a node, a grant is withdrawn, two nodes are linked.
Retired(n) == Change /\ n \in live /\ live' = live \ {n} /\ UNCHANGED <<shown, declared>>
Withdrawn(n) == Change /\ n \in shown /\ shown' = shown \ {n} /\ UNCHANGED <<live, declared>>
Related(pair) ==
  /\ Change /\ pair \notin declared /\ pair \subseteq shown
  /\ declared' = declared \cup {pair}
  /\ UNCHANGED <<live, shown>>

-----------------------------------------------------------------------------
\* A leg: the eligible ids in its order, at most LegCap of them.
VectorLeg ==
  /\ step = "vector" /\ step' = "lexical"
  /\ leg1' = FirstOf(LegCap, HitIds \cap live \cap shown, ListOrder(VectorOrder))
  /\ UNCHANGED <<live, shown, declared, changes, declared0, leg2, hydrated, near, coming, kept, hits>>

LexicalLeg ==
  /\ step = "lexical" /\ step' = "hydrate"
  /\ leg2' = FirstOf(LegCap, Worded \cap live \cap shown, ListOrder(LexicalOrder))
  /\ UNCHANGED <<live, shown, declared, changes, declared0, leg1, hydrated, near, coming, kept, hits>>

LegUnion == leg1 \cup leg2

HydrateUnion ==
  /\ step = "hydrate" /\ step' = "near"
  /\ hydrated' = LegUnion \cap shown
  /\ UNCHANGED <<live, shown, declared, changes, declared0, leg1, leg2, near, coming, kept, hits>>

Fused(n) == Share(leg1, ListOrder(VectorOrder), n) + Share(leg2, ListOrder(LexicalOrder), n)

\* A row that was not hydrated has no date.
DateOf(n) == IF n \in hydrated THEN CreatedAt[n] ELSE 0

\* rrf_fuse's order: score, then the newer, then the id.
RanksBefore(a, b) ==
  \/ Fused(a) > Fused(b)
  \/ Fused(a) = Fused(b) /\ DateOf(a) > DateOf(b)
  \/ Fused(a) = Fused(b) /\ DateOf(a) = DateOf(b) /\ a < b

\* The near pairs, bounded by what the caller may read; none are looked for
\* among fewer than two ids.
ReadNearPairs ==
  /\ step = "near" /\ step' = "declared"
  /\ near' = {p \in NearPairs : p \subseteq LegUnion \cap shown}
  /\ UNCHANGED <<live, shown, declared, changes, declared0, leg1, leg2, hydrated, coming, kept, hits>>

\* Mutant: the pairs declared distinct collapse too.
CollapsibleNoExempt == near

Collapsible == near \ {p \in declared : p \subseteq shown}

ReadDeclared ==
  /\ step = "declared" /\ step' = "collapse"
  /\ near' = Collapsible
  /\ coming' = LegUnion
  /\ UNCHANGED <<live, shown, declared, changes, declared0, leg1, leg2, hydrated, kept, hits>>

Kept == {kept[i] : i \in DOMAIN kept}

\* _collapse_by_pairs, in rank order: a node near one already kept is dropped.
Collapses ==
  /\ step = "collapse"
  /\ \E n \in coming :
       /\ \A m \in coming \ {n} : RanksBefore(n, m)
       /\ coming' = coming \ {n}
       /\ kept' = IF \E m \in Kept : {m, n} \in near THEN kept ELSE Append(kept, n)
  /\ UNCHANGED <<live, shown, declared, step, changes, declared0, leg1, leg2, hydrated, near, hits>>

\* The answer: the first `limit` of what is left.  The envelope of a row that
\* was not hydrated raises.
AnswerHits(limit) ==
  /\ step = "collapse" /\ coming = {} /\ step' = "answered"
  /\ LET top == SubSeq(kept, 1, IF Len(kept) < limit THEN Len(kept) ELSE limit)
     IN hits' = [kept |-> top, truncated |-> Len(kept) > limit,
                 failed |-> \E i \in DOMAIN top : top[i] \notin hydrated, limit |-> limit]
  /\ UNCHANGED <<live, shown, declared, changes, declared0, leg1, leg2, hydrated, near, coming, kept>>

RetrievalNext ==
  \/ VectorLeg \/ LexicalLeg \/ HydrateUnion \/ ReadNearPairs \/ ReadDeclared \/ Collapses
  \/ \E limit \in HitLimits : AnswerHits(limit)
  \/ \E n \in HitIds : Retired(n) \/ Withdrawn(n)
  \/ \E pair \in NearPairs : Related(pair)

RetrievalSpec == RetrievalInit /\ [][RetrievalNext]_retrievalVars

RetrievalOver == step = "answered"

-----------------------------------------------------------------------------
(* Properties.                                                             *)

InAnswer == {hits.kept[i] : i \in DOMAIN hits.kept}

RetrievalTypeOK ==
  /\ shown \subseteq HitIds /\ live \subseteq HitIds /\ hydrated \subseteq HitIds
  /\ InAnswer \subseteq HitIds /\ Len(hits.kept) <= hits.limit

\* May m stand for n in the answer: they are near, and were not declared
\* distinct when the search began, unless one was withdrawn meanwhile, which
\* hides the declaration too.
Restates(m, n) ==
  /\ {m, n} \in NearPairs
  /\ {m, n} \in declared0 => ~({m, n} \subseteq shown)

\* A search loses nothing but restatements.  Whatever other transactions do
\* between its statements, each fused hit is in the answer, or ranks below a
\* full answer, or restates a hit the answer ranks above it; no two hits of
\* the answer are near each other unless declared distinct by now, or
\* withdrawn since; and the call fails only over a row withdrawn since
\* (search.hybrid_fuse, search._collapse_near_dupes).
SearchLosesNothing ==
  step = "answered" =>
    LET full == Len(hits.kept) = hits.limit
    IN /\ \A n \in LegUnion \ InAnswer :
            \/ full /\ \A m \in InAnswer : RanksBefore(m, n)
            \/ \E m \in InAnswer : RanksBefore(m, n) /\ Restates(m, n)
       /\ \A a, b \in InAnswer \cap shown : {a, b} \in NearPairs => {a, b} \in declared
       /\ hits.failed => ~(InAnswer \subseteq shown)

=============================================================================
