------------------------------- MODULE Fusion -------------------------------
(***************************************************************************)
(* Reciprocal rank fusion (engraphy/core/search.py), of which every hybrid *)
(* search has the cap of its legs and the score of a hit in one of them.   *)
(***************************************************************************)
EXTENDS OrderedRows

CONSTANTS
  LegCap,       \* _LEG_CAP
  RankK,        \* rrf_fuse's k
  Scale         \* a common multiple of every k + rank: the unit of a score is 1 / Scale

ASSUME FusionAssumption ==
  /\ LegCap \in Nat \ {0} /\ RankK \in Nat
  /\ Scale \in Nat /\ \A i \in 1..LegCap : Scale % (RankK + i) = 0

\* 1 / (k + rank), in units of 1 / Scale.
Share(leg, order, n) ==
  IF n \in leg THEN Scale \div (RankK + 1 + Cardinality(Before(n, leg, order))) ELSE 0
=============================================================================
