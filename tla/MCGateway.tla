------------------------------ MODULE MCGateway ------------------------------
(* A space with an admin and a member, a pack alias of write and a name that *)
(* no tool has.                                                              *)
EXTENDS Gateway, TLC

MCHolder == [t \in Tokens |-> IF t = "rw" THEN "ann" ELSE "bob"]
MCRole == [t \in Tokens |-> IF t = "rw" THEN "readwrite" ELSE "readonly"]
MCBinds == [n \in Names |-> CASE n = "log_error" -> "write"
                              [] n = "nope" -> NoTool
                              [] OTHER -> n]
MCLimit == [k \in Kinds |-> IF k = "write" THEN 1 ELSE 2]
=============================================================================
