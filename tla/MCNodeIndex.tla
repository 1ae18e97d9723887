---------------------------- MODULE MCNodeIndex -----------------------------
(* Small instances of NodeIndex. *)
EXTENDS NodeIndex, TLC

Symmetry == Permutations(Clients) \cup Permutations(Nodes \ {Sentinel})
              \cup Permutations(Texts) \cup Permutations(Stamps)
=============================================================================
