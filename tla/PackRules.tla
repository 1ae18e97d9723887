----------------------------- MODULE PackRules -----------------------------
(***************************************************************************)
(* What a pack file stands for in the registry: the runtime check of an    *)
(* edge is a plain lookup, so the wildcards are expanded when it is        *)
(* applied, upgraded to, or compared with (engraphy/admin/packs.py).       *)
(***************************************************************************)

\* expand_edge_rules: an end that is no wildcard is taken as written.
Expand(pack) ==
  LET ends(x) == IF x = "*" THEN DOMAIN pack.types ELSE {x}
  IN UNION {{r[1]} \X ends(r[2]) \X ends(r[3]) : r \in pack.rules}

\* What a pack's registry is once applied (apply).
Registry(pack) ==
  [types |-> pack.types, edgeTypes |-> pack.edgeTypes, rules |-> Expand(pack)]
=============================================================================
