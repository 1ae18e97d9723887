------------------------------- MODULE Sharing -------------------------------
(***************************************************************************)
(* Several principals over one space: who may read and write which scope   *)
(* (the row policies of engraphy/db/migrations), the tools whose answers   *)
(* depend on it (search, get, link, write, inbox, scope_create)            *)
(* and the admin tools that change it, running at the same time over the   *)
(* pooled connections of server/db.py.                                     *)
(*                                                                         *)
(* A tool call is one or more transactions and a transaction several       *)
(* statements.  READ COMMITTED: each statement sees what is committed when *)
(* it runs, so each is a step; a transaction's writes are in its last one. *)
(***************************************************************************)
EXTENDS Integers, Sequences, FiniteSets

CONSTANTS
  Sessions,     \* calls the process can have in flight
  Conns,        \* connections of the pool
  Principals, Scopes, Nodes, Items,
  Ambient,      \* scopes with ambient = true
  NodeScope,    \* [Nodes -> Scopes]: where a node is written
  ItemScope,    \* [Items -> Scopes or NoScope]: scope of an inbox capture
  Matching,     \* nodes whose text the query's words match
  TopLimit,     \* limit of a search
  Rules,        \* node pairs an edge_rules row allows
  Asked,        \* the requests clients make
  Level0,       \* initial visibility of each scope, "absent" for one not created
  Owner0,       \* initial owner of each scope
  Role0,        \* initial role of each principal, "absent" for one not added
  Stored0,      \* nodes stored initially
  Captured0,    \* inbox items pending initially
  MaxCalls,     \* bound on calls
  NoOne, NoConn, NoScope

Levels == {"private", "team-read", "team-write"}
Roles == {"member", "space_admin"}
All == "all"

Requests ==
  [op : {"search"}, scope : Scopes \cup {All}, restricted : BOOLEAN]
    \cup [op : {"get", "write"}, node : Nodes]
    \cup [op : {"link"}, batch : Seq(Nodes \X Nodes)]
    \cup [op : {"capture", "discard"}, item : Items]
    \cup [op : {"promote"}, item : Items, node : Nodes]
    \cup [op : {"scope_create"}, scope : Scopes, confirm : BOOLEAN]
    \cup [op : {"visibility"}, scope : Scopes, level : Levels]
    \cup [op : {"grant"}, scope : Scopes, to : Principals, level : {"read", "write"}]
    \cup [op : {"member_add"}, id : Principals, role : Roles]
    \cup [op : {"member_archive"}, id : Principals, archived : BOOLEAN]

ASSUME SharingAssumption ==
  /\ NoOne \notin Principals /\ NoConn \notin Conns /\ NoScope \notin Scopes
  /\ All \notin Scopes
  /\ NodeScope \in [Nodes -> Scopes]
  /\ ItemScope \in [Items -> Scopes \cup {NoScope}]
  /\ Ambient \subseteq Scopes /\ Matching \subseteq Nodes /\ Stored0 \subseteq Nodes
  /\ Captured0 \subseteq Items
  /\ TopLimit \in Nat \ {0} /\ MaxCalls \in Nat
  /\ Rules \subseteq Nodes \X Nodes
  /\ Asked \subseteq Requests
  /\ Level0 \in [Scopes -> Levels \cup {"absent"}]
  /\ Owner0 \in [Scopes -> Principals \cup {NoOne}]
  /\ Role0 \in [Principals -> Roles \cup {"absent"}]

VARIABLES
  level, owner,  \* scopes: visibility ("absent": no row) and owner_principal
  closed,        \* scopes with archived = true
  grants,        \* scope_grants: <<scope, principal, level>>
  role, retired, \* principals: role ("absent": no row), archived ones
  status,        \* nodes: "absent", "active" or "archived"
  edges,         \* <<src, dst>>
  recall,        \* nodes.recall_count
  inbox,         \* status of each item, "absent" before its capture
  guc,           \* engraphy.principal of each connection
  conn,          \* the connection each session's transaction runs on
  pc, job,       \* each session's next statement and what it holds
  answer,        \* what the last step answered, if it answered a call
  hidden,        \* history: <<session, node>> unreadable to the caller ever
                 \* since the session's transaction began
  facts,         \* history: facts each inbox item's promotes have stored
  calls

access == <<level, owner, closed, grants>>
members == <<role, retired>>
graph == <<status, edges, recall>>
vars == <<access, members, graph, inbox, guc, conn, pc, job, answer, hidden,
          facts, calls>>

NoReq == [op |-> "none"]
NoJob == [who |-> NoOne, req |-> NoReq, scopes |-> {}, hits |-> {}, got |-> {},
          todo |-> <<>>]

-----------------------------------------------------------------------------
(* The row policies.                                                       *)

\* engraphy_readable_scopes() for principal p.
ReadableIn(p, lv, ow, cl, gr) ==
  {sc \in Scopes \ cl :
     \/ lv[sc] \in {"team-read", "team-write"}
     \/ lv[sc] # "absent" /\ ow[sc] = p
     \/ \E g \in gr : g[1] = sc /\ g[2] = p}

Readable(p) == ReadableIn(p, level, owner, closed, grants)

\* engraphy_writable_scopes() for principal p.
Writable(p) ==
  {sc \in Scopes \ closed :
     \/ level[sc] = "team-write"
     \/ level[sc] # "absent" /\ owner[sc] = p
     \/ <<sc, p, "write">> \in grants}

\* The scopes SELECT policies: a space_admin sees every row.
Listed(p) ==
  IF p \in Principals /\ role[p] = "space_admin"
  THEN {sc \in Scopes : level[sc] # "absent"} ELSE Readable(p)

\* Who the statements of session s run as.
Identity(s) == guc[conn[s]]

\* Mutant: nodes has no SELECT policy.
SeenAll(p) == {n \in Nodes : status[n] # "absent"}

\* The nodes and the edges a statement run as principal p sees.
Seen(p) == {n \in Nodes : status[n] # "absent" /\ NodeScope[n] \in Readable(p)}
SeenEdges(p) == {e \in edges : e[1] \in Seen(p) /\ e[2] \in Seen(p)}

\* Mutant: the INSERT policy of nodes asks for readability only.
NodesInsertLax(p) == {n \in Nodes : NodeScope[n] \in Readable(p)}

\* The nodes the INSERT policy lets p store.
NodesInsert(p) == {n \in Nodes : NodeScope[n] \in Writable(p)}

\* UPDATE of a set of nodes as p: rows p cannot read are left out; a row p
\* cannot write fails the statement.
UpdateDenied(p, ns) == \E n \in ns \cap Seen(p) : NodeScope[n] \notin Writable(p)

\* The INSERT policy of edges.
EdgesInsert(p) ==
  {e \in Nodes \X Nodes :
     /\ e[1] \in Seen(p) /\ e[2] \in Seen(p)
     /\ NodeScope[e[1]] \in Writable(p) \/ NodeScope[e[2]] \in Writable(p)}

\* Inbox rows p may insert or update, and those it sees.
InboxWrite(p) == {i \in Items : ItemScope[i] \in Writable(p) \cup {NoScope}}
InboxSeen(p) ==
  {i \in Items : inbox[i] # "absent" /\ ItemScope[i] \in Readable(p) \cup {NoScope}}

IsAdmin(p) == p \in Principals /\ role[p] = "space_admin"

-----------------------------------------------------------------------------
Init ==
  /\ level = Level0 /\ owner = Owner0 /\ closed = {} /\ grants = {}
  /\ role = Role0 /\ retired = {}
  /\ status = [n \in Nodes |-> IF n \in Stored0 THEN "active" ELSE "absent"]
  /\ edges = {} /\ recall = [n \in Nodes |-> 0]
  /\ inbox = [i \in Items |-> IF i \in Captured0 THEN "pending" ELSE "absent"]
  /\ guc = [c \in Conns |-> NoOne]
  /\ conn = [s \in Sessions |-> NoConn]
  /\ pc = [s \in Sessions |-> "idle"]
  /\ job = [s \in Sessions |-> NoJob]
  /\ answer = "none" /\ hidden = {}
  /\ facts = [i \in Items |-> 0]
  /\ calls = 0

Free == Conns \ {conn[s] : s \in Sessions}

\* The transaction of session s starts, as principal p, on a free connection.
Open(s, p) ==
  \E c \in Free :
    /\ conn' = [conn EXCEPT ![s] = c]
    /\ guc' = [guc EXCEPT ![c] = p]
    /\ hidden' = {x \in hidden : x[1] # s} \cup
                   {<<s, n>> : n \in {m \in Nodes : NodeScope[m] \notin Readable(p)}}

\* The transaction of s ends, by COMMIT or ROLLBACK: its settings go with it.
Close(s) ==
  /\ conn' = [conn EXCEPT ![s] = NoConn]
  /\ guc' = [guc EXCEPT ![conn[s]] = NoOne]
  /\ hidden' = {x \in hidden : x[1] # s}

\* The statement of s done, the next one of the same transaction is at l.
Next1(s, l) ==
  /\ pc' = [pc EXCEPT ![s] = l]
  /\ answer' = "none"
  /\ UNCHANGED <<guc, conn, hidden, calls>>

\* The call of s is answered a.
Finish(s, a) ==
  /\ Close(s)
  /\ pc' = [pc EXCEPT ![s] = "idle"]
  /\ job' = [job EXCEPT ![s] = NoJob]
  /\ answer' = a
  /\ UNCHANGED calls

\* The call of s is answered with the error a, its transaction rolled back.
Fail(s, a) == Finish(s, a) /\ UNCHANGED <<access, members, graph, inbox, facts>>

\* The first statement of each tool.
FirstStage(op) ==
  CASE op = "search" -> "readable" [] op = "get" -> "row" [] op = "link" -> "link"
    [] op = "write" -> "check"
    [] op = "capture" -> "capture" [] op \in {"promote", "discard"} -> "load"
    [] op = "scope_create" -> "scope_create" [] OTHER -> "assert"

\* A tool called by p, past the door: its first transaction starts.
Call(s, p) ==
  /\ pc[s] = "idle" /\ calls < MaxCalls
  /\ role[p] # "absent" /\ p \notin retired
  /\ \E r \in Asked :
       /\ Open(s, p)
       /\ pc' = [pc EXCEPT ![s] = FirstStage(r.op)]
       /\ job' = [job EXCEPT ![s] = [NoJob EXCEPT !.who = p, !.req = r]]
  /\ answer' = "none" /\ calls' = calls + 1
  /\ UNCHANGED <<access, members, graph, inbox, facts>>

\* The process dies, or the client goes away, in the middle of a call.
Drop(s) ==
  /\ pc[s] # "idle"
  /\ IF conn[s] = NoConn THEN UNCHANGED <<conn, guc, hidden>> ELSE Close(s)
  /\ pc' = [pc EXCEPT ![s] = "idle"]
  /\ job' = [job EXCEPT ![s] = NoJob]
  /\ answer' = "none"
  /\ UNCHANGED <<access, members, graph, inbox, facts, calls>>

-----------------------------------------------------------------------------
(* search: scope set, two legs, hydration, recall bump.                    *)

Req(s) == job[s].req
Me(s) == Identity(s)

\* What a statement that only reads leaves alone.
ReadOnly == UNCHANGED <<access, members, graph, inbox, facts>>

\* refuse_scope_all, then engraphy_readable_scopes().
ResolveReadable(s) ==
  /\ pc[s] = "readable"
  /\ IF Req(s).scope = All /\ Req(s).restricted
     THEN Fail(s, "scope")
     ELSE /\ Next1(s, IF Req(s).scope = All THEN "vector" ELSE "ambient")
          /\ job' = [job EXCEPT ![s].scopes = Readable(Me(s))]
          /\ ReadOnly

\* The named scope and the ambient ones, within the readable set just read.
ResolveAmbient(s) ==
  /\ pc[s] = "ambient"
  /\ job' = [job EXCEPT ![s].scopes =
               @ \cap ({Req(s).scope} \cup (Ambient \cap Listed(Me(s))))]
  /\ Next1(s, "vector")
  /\ ReadOnly

\* The active nodes of the scope set that a leg's statement sees.
Hits(s) == {n \in Seen(Me(s)) : status[n] = "active" /\ NodeScope[n] \in job[s].scopes}

\* The vector leg ranks every active node of the scope set.
VectorLeg(s) ==
  /\ pc[s] = "vector"
  /\ job' = [job EXCEPT ![s].hits = Hits(s)]
  /\ Next1(s, "lexical")
  /\ ReadOnly

\* The lexical leg returns those the words match.  No hit at all: an empty
\* answer.
LexicalLeg(s) ==
  LET all == job[s].hits \cup (Hits(s) \cap Matching)
  IN /\ pc[s] = "lexical"
     /\ IF all = {} THEN Finish(s, "ok") /\ ReadOnly
        ELSE /\ job' = [job EXCEPT ![s].hits = all]
             /\ Next1(s, "hydrate")
             /\ ReadOnly

\* The rows of the union are fetched; fusion, collapse and the limit choose the
\* top ones.  A top one whose row is gone has no entry in node_map.
Hydrate(s) ==
  /\ pc[s] = "hydrate"
  /\ \E top \in SUBSET job[s].hits :
       /\ top # {} /\ Cardinality(top) <= TopLimit
       /\ IF top \subseteq Seen(Me(s))
          THEN /\ job' = [job EXCEPT ![s].got = top]
               /\ Next1(s, "bump")
               /\ ReadOnly
          ELSE Fail(s, "internal")

\* bump_recall on the surfaced nodes, then COMMIT and the answer.
BumpRecall(s) ==
  /\ pc[s] = "bump"
  /\ IF UpdateDenied(Me(s), job[s].got)
     THEN Fail(s, "denied")
     ELSE /\ recall' = [n \in Nodes |-> IF n \in job[s].got \cap Seen(Me(s))
                                        THEN recall[n] + 1 ELSE recall[n]]
          /\ Finish(s, "ok")
          /\ UNCHANGED <<access, members, status, edges, inbox, facts>>

-----------------------------------------------------------------------------
(* get and link.                                                           *)

\* The row of the node asked for, or "missing".
GetRow(s) ==
  /\ pc[s] = "row"
  /\ IF Req(s).node \in Seen(Me(s))
     THEN /\ job' = [job EXCEPT ![s].got = {Req(s).node}]
          /\ Next1(s, "edges")
          /\ ReadOnly
     ELSE Finish(s, "ok") /\ ReadOnly

\* Its edges, with the peers they show.
GetEdges(s) ==
  /\ pc[s] = "edges"
  /\ LET shown == {e \in SeenEdges(Me(s)) : Req(s).node \in {e[1], e[2]}}
     IN job' = [job EXCEPT ![s].got = @ \cup {e[1] : e \in shown} \cup {e[2] : e \in shown}]
  /\ Next1(s, "shown")
  /\ ReadOnly

\* get commits.
GetDone(s) == pc[s] = "shown" /\ Finish(s, "ok") /\ ReadOnly

\* The edges of the batch: all of them, in one transaction.
Batch(s) == Req(s).batch

\* The endpoint a link call looks at next: two for each edge.
Endpoint(s) == LET k == Len(job[s].todo) IN Batch(s)[(k \div 2) + 1][(k % 2) + 1]

\* One endpoint's status; after the second one of an edge the edge is inserted,
\* under the policy and the edge rules.
LinkEndpoint(s) ==
  /\ pc[s] = "link"
  /\ IF Batch(s) = <<>> THEN Finish(s, "ok") /\ ReadOnly
     ELSE IF Endpoint(s) \notin Seen(Me(s)) THEN Fail(s, "not_found")
     ELSE IF status[Endpoint(s)] = "archived" THEN Fail(s, "validation")
     ELSE /\ job' = [job EXCEPT ![s].todo = Append(@, Endpoint(s))]
          /\ Next1(s, IF Len(job[s].todo) % 2 = 1 THEN "attach" ELSE "link")
          /\ ReadOnly

\* Mutant: each edge is committed as it is inserted.
LinkAttachEach(s) ==
  LET n == Len(job[s].todo) \div 2
      e == Batch(s)[n]
  IN /\ pc[s] = "attach"
     /\ IF e \notin EdgesInsert(Me(s)) THEN Fail(s, "denied")
        ELSE IF e \notin Rules THEN Fail(s, "edge_rule")
        ELSE /\ edges' = edges \cup {e}
             /\ IF n = Len(Batch(s)) THEN Finish(s, "ok")
                ELSE Next1(s, "link") /\ UNCHANGED job
             /\ UNCHANGED <<access, members, status, recall, inbox, facts>>

\* The INSERT of an edge; the last one is followed by COMMIT.
LinkAttach(s) ==
  LET n == Len(job[s].todo) \div 2
      e == Batch(s)[n]
  IN /\ pc[s] = "attach"
     /\ IF e \notin EdgesInsert(Me(s)) THEN Fail(s, "denied")
        ELSE IF e \notin Rules THEN Fail(s, "edge_rule")
        ELSE IF n < Len(Batch(s)) THEN Next1(s, "link") /\ UNCHANGED job /\ ReadOnly
        ELSE /\ edges' = edges \cup {Batch(s)[i] : i \in 1..n}
             /\ Finish(s, "ok")
             /\ UNCHANGED <<access, members, status, recall, inbox, facts>>

-----------------------------------------------------------------------------
(* Storing: write, the promotion of an inbox capture, archive.             *)

\* The scope a write names must be writable.
CheckScope(s) ==
  /\ pc[s] = "check"
  /\ IF NodeScope[Req(s).node] \in Writable(Me(s))
     THEN Next1(s, "insert") /\ UNCHANGED job /\ ReadOnly
     ELSE Fail(s, "scope_unknown")

\* What the dedup decision of a write can be: a new node, a merge into a node
\* of the scope set (its content is DedupWrite's), or a parked write.
Outcomes(s) ==
  {o \in {"inserted", "merged", "needs_confirmation"} :
     \/ o = "inserted" /\ status[Req(s).node] = "absent"
     \/ o # "inserted" /\ \E n \in Seen(Me(s)) :
           status[n] = "active" /\ NodeScope[n] = NodeScope[Req(s).node]}

\* Mutant: the promote goes on to its flip whatever the outcome.
StoredAny(s, o) ==
  IF Req(s).op = "write" THEN Finish(s, "ok")
  ELSE /\ Close(s) /\ pc' = [pc EXCEPT ![s] = "flip"]
       /\ answer' = "none" /\ UNCHANGED <<job, calls>>

\* A write's answer; a promote whose fact was stored goes on to its flip.
Stored(s, o) ==
  IF Req(s).op = "write" \/ o = "needs_confirmation" THEN Finish(s, "ok")
  ELSE /\ Close(s) /\ pc' = [pc EXCEPT ![s] = "flip"]
       /\ answer' = "none" /\ UNCHANGED <<job, calls>>

\* After the lock wait: the decision and its writes, under the INSERT policy.
StoreFact(s) ==
  /\ pc[s] = "insert"
  /\ \/ \E o \in Outcomes(s) :
          /\ o = "inserted" => Req(s).node \in NodesInsert(Me(s))
          /\ o = "merged" => NodeScope[Req(s).node] \in Writable(Me(s))
          /\ status' = IF o = "inserted" THEN [status EXCEPT ![Req(s).node] = "active"]
                       ELSE status
          /\ facts' = IF Req(s).op = "promote" /\ o # "needs_confirmation"
                      THEN [facts EXCEPT ![Req(s).item] = @ + 1] ELSE facts
          /\ Stored(s, o)
          /\ UNCHANGED <<access, members, edges, recall, inbox>>
     \/ /\ NodeScope[Req(s).node] \notin Writable(Me(s))
        /\ Outcomes(s) \ {"needs_confirmation"} # {}
        /\ Fail(s, "denied")

\* An operator archives a node; no tool does.
OperatorArchive ==
  /\ calls < MaxCalls
  /\ \E n \in Nodes : status[n] = "active" /\ status' = [status EXCEPT ![n] = "archived"]
  /\ answer' = "none" /\ calls' = calls + 1
  /\ UNCHANGED <<access, members, edges, recall, inbox, guc, conn, pc, job, hidden, facts>>

\* An import that has brought an archived scope over archives it.
ScopeArchive ==
  /\ calls < MaxCalls
  /\ \E sc \in Scopes \ closed : level[sc] # "absent" /\ closed' = closed \cup {sc}
  /\ answer' = "none" /\ calls' = calls + 1
  /\ UNCHANGED <<level, owner, grants, members, graph, inbox, guc, conn, pc, job,
                 hidden, facts>>

-----------------------------------------------------------------------------
(* The inbox.                                                              *)

\* capture: one INSERT, of a row no one else has.
Capture(s) ==
  /\ pc[s] = "capture" /\ inbox[Req(s).item] = "absent"
  /\ IF Req(s).item \in InboxWrite(Me(s))
     THEN /\ inbox' = [inbox EXCEPT ![Req(s).item] = "pending"]
          /\ Finish(s, "ok")
          /\ UNCHANGED <<access, members, graph, facts>>
     ELSE Fail(s, "denied")

\* _load_actionable; promote ends this transaction, discard goes on in it.
LoadActionable(s) ==
  /\ pc[s] = "load"
  /\ LET i == Req(s).item
     IN IF i \notin InboxSeen(Me(s)) THEN Fail(s, "not_found")
        ELSE IF i \notin InboxWrite(Me(s)) THEN Fail(s, "scope_unknown")
        ELSE IF inbox[i] # "pending" THEN Fail(s, "validation")
        ELSE IF Req(s).op = "discard"
             THEN Next1(s, "drop") /\ UNCHANGED job /\ ReadOnly
        ELSE /\ Close(s) /\ pc' = [pc EXCEPT ![s] = "embed"]
             /\ answer' = "none" /\ UNCHANGED <<job, calls>> /\ ReadOnly

\* The rest of promote, each in a transaction of its own: write, then the flip.
PromoteWrite(s) ==
  /\ pc[s] = "embed" /\ conn[s] = NoConn
  /\ Open(s, job[s].who)
  /\ pc' = [pc EXCEPT ![s] = "check"]
  /\ answer' = "none" /\ UNCHANGED <<job, calls>> /\ ReadOnly

PromoteFlip(s) ==
  /\ pc[s] = "flip" /\ conn[s] = NoConn
  /\ Open(s, job[s].who)
  /\ pc' = [pc EXCEPT ![s] = "flipping"]
  /\ answer' = "none" /\ UNCHANGED <<job, calls>> /\ ReadOnly

\* Mutant: the new status is the verb of the call.
SetInboxVerb(p, i, st) ==
  inbox' = IF i \in InboxSeen(p) \cap InboxWrite(p)
           THEN [inbox EXCEPT ![i] = IF st = "promoted" THEN "promote" ELSE st]
           ELSE inbox

\* An UPDATE of the item as p: no row, no error, where the policy hides it.
SetInbox(p, i, st) ==
  inbox' = IF i \in InboxSeen(p) \cap InboxWrite(p) THEN [inbox EXCEPT ![i] = st]
           ELSE inbox

\* The flip to promoted, whatever the item's status is by now.
FlipPromoted(s) ==
  /\ pc[s] = "flipping"
  /\ SetInbox(Me(s), Req(s).item, "promoted")
  /\ Finish(s, "ok")
  /\ UNCHANGED <<access, members, graph, facts>>

\* The second statement of discard.
DiscardItem(s) ==
  /\ pc[s] = "drop"
  /\ SetInbox(Me(s), Req(s).item, "discarded")
  /\ Finish(s, "ok")
  /\ UNCHANGED <<access, members, graph, facts>>

-----------------------------------------------------------------------------
(* scope_create and the admin tools.                                       *)

\* hidden once access has changed: what became readable is no longer in it.
Unhide ==
  {x \in hidden : NodeScope[x[2]] \notin
     ReadableIn(job[x[1]].who, level', owner', closed', grants')}

\* The change commits: Finish, with the history brought up to date.
FinishChange(s) ==
  /\ conn' = [conn EXCEPT ![s] = NoConn]
  /\ guc' = [guc EXCEPT ![conn[s]] = NoOne]
  /\ pc' = [pc EXCEPT ![s] = "idle"]
  /\ job' = [job EXCEPT ![s] = NoJob]
  /\ hidden' = {x \in Unhide : x[1] # s}
  /\ answer' = "ok"
  /\ UNCHANGED calls

\* scope_create: confirmed, an unused id; the caller owns a private scope.
ScopeCreate(s) ==
  /\ pc[s] = "scope_create"
  /\ IF ~Req(s).confirm \/ level[Req(s).scope] # "absent" THEN Fail(s, "validation")
     ELSE /\ level' = [level EXCEPT ![Req(s).scope] = "private"]
          /\ owner' = [owner EXCEPT ![Req(s).scope] = Me(s)]
          /\ UNCHANGED <<closed, grants, members, graph, inbox, facts>>
          /\ FinishChange(s)

\* _assert_space_admin.
AssertAdmin(s) ==
  /\ pc[s] = "assert"
  /\ IF IsAdmin(Me(s)) THEN Next1(s, "change") /\ UNCHANGED job /\ ReadOnly
     ELSE Fail(s, "role")

\* admin_scope_visibility.
SetVisibility(s) ==
  /\ pc[s] = "change" /\ Req(s).op = "visibility"
  /\ IF Req(s).scope \notin Listed(Me(s)) THEN Fail(s, "not_found")
     ELSE /\ level' = [level EXCEPT ![Req(s).scope] = Req(s).level]
          /\ UNCHANGED <<owner, closed, grants, members, graph, inbox, facts>>
          /\ FinishChange(s)

\* admin_grant: an INSERT only; a second grant on the scope is refused.
Grant(s) ==
  /\ pc[s] = "change" /\ Req(s).op = "grant"
  /\ LET sc == Req(s).scope  p == Req(s).to
     IN IF \/ level[sc] = "absent" \/ role[p] = "absent"
           \/ \E g \in grants : g[1] = sc /\ g[2] = p
        THEN Fail(s, "validation")
        ELSE /\ grants' = grants \cup {<<sc, p, Req(s).level>>}
             /\ UNCHANGED <<level, owner, closed, members, graph, inbox, facts>>
             /\ FinishChange(s)

\* admin_member_add.
MemberAdd(s) ==
  /\ pc[s] = "change" /\ Req(s).op = "member_add"
  /\ IF role[Req(s).id] # "absent" THEN Fail(s, "validation")
     ELSE /\ role' = [role EXCEPT ![Req(s).id] = Req(s).role]
          /\ Finish(s, "ok")
          /\ UNCHANGED <<access, retired, graph, inbox, facts>>

\* admin_member_archive: any member but oneself.
MemberArchive(s) ==
  /\ pc[s] = "change" /\ Req(s).op = "member_archive"
  /\ LET p == Req(s).id
     IN IF Req(s).archived /\ p = job[s].who THEN Fail(s, "validation")
        ELSE IF role[p] = "absent" THEN Fail(s, "not_found")
        ELSE /\ retired' = IF Req(s).archived THEN retired \cup {p} ELSE retired \ {p}
             /\ Finish(s, "ok")
             /\ UNCHANGED <<access, role, graph, inbox, facts>>

\* Every call used and answered.
Done == calls = MaxCalls /\ (\A s \in Sessions : pc[s] = "idle") /\ UNCHANGED vars

\* The next statement of session s.
Statement(s) ==
  \/ ResolveReadable(s) \/ ResolveAmbient(s) \/ VectorLeg(s) \/ LexicalLeg(s)
  \/ Hydrate(s) \/ BumpRecall(s)
  \/ GetRow(s) \/ GetEdges(s) \/ GetDone(s)
  \/ LinkEndpoint(s) \/ LinkAttach(s)
  \/ CheckScope(s) \/ StoreFact(s)
  \/ Capture(s) \/ LoadActionable(s) \/ PromoteWrite(s) \/ PromoteFlip(s)
  \/ FlipPromoted(s) \/ DiscardItem(s)
  \/ ScopeCreate(s) \/ AssertAdmin(s) \/ SetVisibility(s) \/ Grant(s)
  \/ MemberAdd(s) \/ MemberArchive(s)

Next ==
  \/ \E s \in Sessions : (\E p \in Principals : Call(s, p)) \/ Statement(s) \/ Drop(s)
  \/ OperatorArchive \/ ScopeArchive
  \/ Done

Spec == Init /\ [][Next]_vars

-----------------------------------------------------------------------------
Stages == {"idle", "readable", "ambient", "vector", "lexical", "hydrate", "bump",
           "row", "edges", "shown", "link", "attach", "check", "insert", "capture",
           "load", "drop", "embed", "flip", "flipping", "scope_create", "assert",
           "change"}

\* Every variable is of its type.
TypeOK ==
  /\ level \in [Scopes -> Levels \cup {"absent"}]
  /\ owner \in [Scopes -> Principals \cup {NoOne}]
  /\ closed \subseteq Scopes
  /\ grants \subseteq Scopes \X Principals \X {"read", "write"}
  /\ role \in [Principals -> Roles \cup {"absent"}] /\ retired \subseteq Principals
  /\ status \in [Nodes -> {"absent", "active", "archived"}]
  /\ edges \subseteq Nodes \X Nodes /\ recall \in [Nodes -> Nat]
  /\ inbox \in [Items -> {"absent", "pending", "promoted", "discarded"}]
  /\ guc \in [Conns -> Principals \cup {NoOne}]
  /\ conn \in [Sessions -> Conns \cup {NoConn}]
  /\ pc \in [Sessions -> Stages]
  /\ job \in [Sessions ->
       [who : Principals \cup {NoOne}, req : Asked \cup {NoReq},
        scopes : SUBSET Scopes, hits : SUBSET Nodes, got : SUBSET Nodes,
        todo : Seq(Nodes)]]
  /\ answer \in {"none", "ok", "scope", "internal", "denied", "not_found",
                 "validation", "edge_rule", "scope_unknown", "role"}
  /\ hidden \subseteq Sessions \X Nodes
  /\ facts \in [Items -> Nat] /\ calls \in 0..MaxCalls

\* No call, whoever used its connection before and whatever admins change
\* meanwhile, holds a node that its principal could not read at any moment of
\* its transaction: the pooled identity of server/db.py and the row policies.
HiddenStaysHidden ==
  \A s \in Sessions : \A n \in job[s].got : <<s, n>> \notin hidden

\* A new node is in a scope its author may write at that moment, though the
\* tool looked at the writable scopes before the lock wait (core/dedup.py).
StoresOnlyWritable ==
  [][\A n \in Nodes : status[n] = "absent" /\ status'[n] # "absent" =>
       \E s \in Sessions : pc[s] = "insert" /\ Req(s).node = n
                             /\ NodeScope[n] \in Writable(job[s].who)]_vars

\* A link call that is answered with an error, or never answered, has attached
\* none of its edges: the graph only grows by whole batches (core/link.py).
BatchesWhole ==
  [][edges' # edges => \E s \in Sessions :
       /\ answer' = "ok" /\ pc[s] = "attach" /\ pc'[s] = "idle"
       /\ edges' = edges \cup {Batch(s)[i] : i \in DOMAIN Batch(s)}]_vars

\* An inbox item ends up promoted only when a promote of it has stored its fact:
\* nothing a client captured is lost to a parked or failed write (core/inbox.py).
PromotedHasFact == \A i \in Items : inbox[i] = "promoted" => facts[i] > 0

\* docs/05-deployment.md: "team-read - every principal in the space may read":
\* a search over what its caller may read is not refused by a policy.
ReadersAnswered ==
  [][\A s \in Sessions : pc[s] = "bump" /\ pc'[s] = "idle" => answer' # "denied"]_vars
=============================================================================
