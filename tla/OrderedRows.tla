---------------------------- MODULE OrderedRows ----------------------------
(***************************************************************************)
(* What SQL's ORDER BY and LIMIT keep, without the order in which the rows *)
(* come: a row is kept when fewer than the limit come before it.           *)
(***************************************************************************)
EXTENDS Integers, Sequences, FiniteSets

\* The order of a list without repetitions.
ListOrder(list) == UNION {{<<list[i], list[j]>> : i \in 1..(j - 1)} : j \in DOMAIN list}

Before(n, rows, order) == {m \in rows : <<m, n>> \in order}

FirstOf(limit, rows, order) == {n \in rows : Cardinality(Before(n, rows, order)) < limit}
=============================================================================
