---------------------------- MODULE MCDedupWrite ----------------------------
(***************************************************************************)
(* A small space for DedupWrite.  Facts a and b are the same error on two  *)
(* dates; c is above t_high against a and novel in its words; d is in the  *)
(* confirm band of a; n and m are notes, of another type, n in the ambient *)
(* scope and m novel against it.                                           *)
(***************************************************************************)
EXTENDS DedupWrite, TLC

FactTable ==
  [a |-> [type |-> "error", scope |-> "work", when |-> "mon",
          tokens |-> {1, 2, 3, 4}],
   b |-> [type |-> "error", scope |-> "work", when |-> "tue",
          tokens |-> {1, 2, 3, 4}],
   c |-> [type |-> "error", scope |-> "work", when |-> "none",
          tokens |-> {3, 4, 5, 6}],
   d |-> [type |-> "error", scope |-> "work", when |-> "none",
          tokens |-> {1, 2, 9}],
   m |-> [type |-> "note", scope |-> "work", when |-> "none",
          tokens |-> {5, 6, 7}],
   n |-> [type |-> "note", scope |-> "shared", when |-> "none",
          tokens |-> {1, 2, 3, 4, 5}]]

\* The pairs that are neither equal in meaning (100) nor unrelated (40).
Close ==
  {<<{"a", "b"}, 100>>, <<{"a", "c"}, 96>>, <<{"b", "c"}, 96>>,
   <<{"a", "d"}, 85>>, <<{"b", "d"}, 85>>, <<{"c", "d"}, 80>>,
   <<{"m", "n"}, 96>>}

Score(f, g) ==
  IF f = g THEN 100
  ELSE LET close == {c \in Close : c[1] = {f, g}}
       IN  IF close = {} THEN 40 ELSE (CHOOSE c \in close : TRUE)[2]

MCFType == [f \in Facts |-> FactTable[f].type]
MCFScope == [f \in Facts |-> FactTable[f].scope]
MCFTokens == [f \in Facts |-> FactTable[f].tokens]
MCFWhen == [f \in Facts |-> FactTable[f].when]
MCSim == [f \in Facts |-> [g \in Facts |-> Score(f, g)]]

\* Errors have every rule; notes may only relate to errors, so a note can
\* neither supersede a note nor link to anything, and forms no cluster edge.
MCEdgeRules ==
  (EdgeTypes \X {"error"} \X {"error"}) \cup {<<"relates_to", "note", "error">>}

Symmetry == Permutations(Sessions) \cup Permutations(NodeIds)
              \cup Permutations(PendIds)
=============================================================================
