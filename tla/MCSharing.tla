----------------------------- MODULE MCSharing -----------------------------
(* A space of two members: work is one's; shared is ambient and writable by *)
(* the team, until its admin says otherwise.                                *)
EXTENDS Sharing, TLC

MCNodeScope == [n \in Nodes |-> IF n = "n1" THEN "work" ELSE "shared"]
MCItemScope == [i \in Items |-> "work"]
MCLevel0 == [sc \in Scopes |-> CASE sc = "work" -> "private"
                                 [] sc = "shared" -> "team-write"
                                 [] OTHER -> "absent"]
MCOwner0 == [sc \in Scopes |-> IF sc = "new" THEN NoOne ELSE "ann"]
MCRole0 == [p \in Principals |-> IF p = "ann" THEN "space_admin"
                                 ELSE IF p = "bob" THEN "member" ELSE "absent"]
MCRules == {<<"n2", "n1">>, <<"n1", "n2">>}
MCAsked ==
  {[op |-> "search", scope |-> "work", restricted |-> FALSE],
   [op |-> "search", scope |-> All, restricted |-> FALSE],
   [op |-> "search", scope |-> All, restricted |-> TRUE],
   [op |-> "get", node |-> "n1"],
   [op |-> "write", node |-> "n3"],
   [op |-> "link", batch |-> << <<"n2", "n1">>, <<"n2", "n2">> >>],
   [op |-> "link", batch |-> << <<"n1", "n2">>, <<"n2", "n1">> >>],
   [op |-> "capture", item |-> "i2"],
   [op |-> "discard", item |-> "i1"],
   [op |-> "promote", item |-> "i1", node |-> "n3"],
   [op |-> "scope_create", scope |-> "new", confirm |-> TRUE],
   [op |-> "visibility", scope |-> "work", level |-> "team-write"],
   [op |-> "visibility", scope |-> "shared", level |-> "team-read"],
   [op |-> "visibility", scope |-> "shared", level |-> "private"],
   [op |-> "grant", scope |-> "work", to |-> "bob", level |-> "read"],
   [op |-> "member_add", id |-> "cat", role |-> "member"],
   [op |-> "member_archive", id |-> "bob", archived |-> TRUE]}

Symmetry == Permutations(Sessions) \cup Permutations(Conns)
=============================================================================
