------------------------------ MODULE Transfer ------------------------------
(***************************************************************************)
(* Moving a space: `space export` (engraphy/admin/export_.py) writes a     *)
(* bundle, `space import` (engraphy/admin/space_import.py) replays it      *)
(* through the write pipeline and `link`, one statement at a time on an    *)
(* autocommit connection, so that a kill leaves what was done so far.  The *)
(* principal resolves what an import parked and runs it again.             *)
(*                                                                         *)
(* A content stands for a type, scope, title and body.  The engine's write *)
(* (DedupWrite) is given by how near two contents are: "high" (t_high and  *)
(* above) absorbs or stores a member row, as the novelty of the content    *)
(* against the row, its addenda and its peers decides, "near" parks,       *)
(* "far" inserts.  Even a content that a row holds may read as novel.      *)
(***************************************************************************)
EXTENDS Integers, Sequences, FiniteSets

CONSTANTS
  Sources,    \* the source spaces: [nodes, edges, wanted]; nodes oldest first,
              \* each [content, status, canon, addenda], canon an index or 0;
              \* an edge <<src, dst, does the destination have a rule for it>>;
              \* wanted the scopes exported
  Contents, ScopeOf,        \* contents, [content -> its scope]
  Compare,                  \* [content -> [content -> "high", "near" or "far"]]
  HeldBefore,               \* the contents the destination holds beforehand
  ArchivedBefore, Unwritable, \* its scopes archived, or not the principal's
  ArchivedSource,           \* the source scopes that are archived
  Reserved,                 \* contents of engine-reserved types (the sentinel)
  MaxRuns, MaxKills         \* bounds: imports of the bundle, kills

ImportScopes == {ScopeOf[c] : c \in Contents}

Node == [content : Contents, canon : Nat, addenda : SUBSET Contents,
         status : {"active", "superseded", "archived", "merged"}]

ASSUME TransferAssumption ==
  /\ MaxRuns \in Nat /\ MaxKills \in Nat
  /\ HeldBefore \in Seq(Contents)
  /\ \A k, l \in DOMAIN HeldBefore : HeldBefore[k] = HeldBefore[l] => k = l
  /\ \A s \in Sources :
       /\ s.nodes \in Seq(Node)
       /\ \A i \in DOMAIN s.nodes : (s.nodes[i].status = "merged") = (s.nodes[i].canon # 0)

VARIABLES
  bundle,
  \* the destination: rows [content, status, addenda, by], parked payloads
  \* [content, open], edges <<row, row>>, scopes
  rows, parkedRows, links, scopeState,
  \* an import in progress; ahead are the nodes its present pass has not met
  at, ahead, rowFor, created, touched, closed, made,
  \* bounds of the model
  runs, kills

destVars == <<rows, parkedRows, links, scopeState>>
importVars == <<at, ahead, rowFor, created, touched, closed, made>>
transferVars == <<bundle, destVars, importVars, runs, kills>>

\* export_space: the nodes of the wanted scopes but the reserved ones, by id,
\* and the edges that join two of them.
Export(s) ==
  LET exported == {i \in DOMAIN s.nodes : /\ s.nodes[i].content \notin Reserved
                                          /\ ScopeOf[s.nodes[i].content] \in s.wanted}
  IN [nodes |-> [i \in exported |-> s.nodes[i]],
      edges |-> {e \in s.edges : {e[1], e[2]} \subseteq exported}]

TransferInit ==
  /\ bundle \in {Export(s) : s \in Sources}
  /\ rows = [k \in DOMAIN HeldBefore |->
               [content |-> HeldBefore[k], status |-> "active", addenda |-> {}, by |-> "before"]]
  /\ parkedRows = <<>> /\ links = {}
  /\ scopeState \in [ImportScopes -> {"none", "open", "archived"}]
  /\ \A k \in DOMAIN HeldBefore : scopeState[ScopeOf[HeldBefore[k]]] # "none"
  /\ \A sc \in ImportScopes : scopeState[sc] = "archived" <=> sc \in ArchivedBefore
  /\ at = "idle" /\ ahead = {} /\ rowFor = <<>> /\ created = {} /\ touched = {}
  /\ closed = {} /\ made = {}
  /\ runs = 0 /\ kills = 0

-----------------------------------------------------------------------------
BundleNodes == DOMAIN bundle.nodes
Targets == {ScopeOf[bundle.nodes[i].content] : i \in BundleNodes}

\* Is n the node that a pass over the bundle meets now.
Meets(n) == n \in ahead /\ \A m \in ahead : n <= m

Begin ==
  /\ at = "idle" /\ runs < MaxRuns /\ runs' = runs + 1
  /\ at' = "scopes" /\ ahead' = {}
  /\ rowFor' = [i \in BundleNodes |-> 0] /\ created' = {} /\ touched' = {}
  /\ closed' = {sc \in Targets : scopeState[sc] = "archived"} /\ made' = {}
  /\ UNCHANGED <<bundle, destVars, kills>>

\* A destination scope that does not exist is created, before the principal's
\* right to write all of them is checked.
CreateScope(sc) ==
  /\ at = "scopes" /\ sc \in Targets /\ scopeState[sc] = "none"
  /\ scopeState' = [scopeState EXCEPT ![sc] = "open"]
  /\ made' = made \cup {sc}
  /\ UNCHANGED <<bundle, rows, parkedRows, links, at, ahead, rowFor, created,
                 touched, closed, runs, kills>>

CheckWritable ==
  /\ at = "scopes" /\ \A sc \in Targets : scopeState[sc] # "none"
  /\ at' = IF Targets \cap Unwritable \subseteq closed \cup made THEN "nodes" ELSE "idle"
  /\ ahead' = BundleNodes
  /\ UNCHANGED <<bundle, destVars, rowFor, created, touched, closed, made, runs,
                 kills>>

-----------------------------------------------------------------------------
(* The nodes, oldest first.                                                *)

\* The rows that hold the content already, whatever their status.
Matches(c) == {r \in DOMAIN rows : rows[r].content = c}

Content(n) == bundle.nodes[n].content

NextNode(n) == ahead' = ahead \ {n} /\ at' = "nodes"

\* Source node n is row r of the destination.
Take(n, r) == rowFor' = [rowFor EXCEPT ![n] = r] /\ touched' = touched \cup {r}

SkipNode(n) ==
  /\ at = "nodes" /\ Meets(n)
  /\ \/ bundle.nodes[n].status = "merged"
     \/ Matches(Content(n)) = {} /\ ScopeOf[Content(n)] \in closed
  /\ NextNode(n)
  /\ UNCHANGED <<bundle, destVars, rowFor, created, touched, closed, made, runs,
                 kills>>

\* The oldest row of the content is the node's.
MatchNode(n) ==
  /\ at = "nodes" /\ Meets(n) /\ bundle.nodes[n].status # "merged"
  /\ \E r \in Matches(Content(n)) : (\A t \in Matches(Content(n)) : r <= t) /\ Take(n, r)
  /\ NextNode(n)
  /\ UNCHANGED <<bundle, destVars, created, closed, made, runs, kills>>

ActiveRows == {r \in DOMAIN rows : rows[r].status = "active"}

\* What a write of c meets: the active rows at that distance.
Judged(c, how) == {r \in ActiveRows : Compare[c][rows[r].content] = how}

\* The engine's write of content c: it becomes a row, or row r absorbs it.
Stores(c, by) ==
  rows' = Append(rows, [content |-> c, status |-> "active", addenda |-> {}, by |-> by])

Absorbs(c, r) ==
  \/ UNCHANGED rows
  \/ rows' = [rows EXCEPT ![r].addenda = @ \cup {c}]

WriteDue(n) ==
  /\ at = "nodes" /\ Meets(n) /\ bundle.nodes[n].status # "merged"
  /\ Matches(Content(n)) = {} /\ ScopeOf[Content(n)] \notin closed

\* A write far from all rows inserts; one at or above t_high and novel against the
\* nearest row's cluster is stored as a member of it.
WriteInserts(n) ==
  /\ WriteDue(n)
  /\ Judged(Content(n), "high") # {} \/ Judged(Content(n), "near") = {}
  /\ Stores(Content(n), "import")
  /\ Take(n, Len(rows) + 1) /\ created' = created \cup {Len(rows) + 1}
  /\ NextNode(n)
  /\ UNCHANGED <<bundle, parkedRows, links, scopeState, closed, made, runs, kills>>

WriteMerges(n, r) ==
  /\ WriteDue(n)
  /\ r \in Judged(Content(n), "high")
  /\ Absorbs(Content(n), r)
  /\ Take(n, r) /\ NextNode(n)
  /\ UNCHANGED <<bundle, parkedRows, links, scopeState, created, closed, made,
                 runs, kills>>

\* A near write parks with its nearest rows, farther ones among them.  It is resolved
\* as distinct when this import has met all of those, and left for the principal
\* otherwise.
WriteParks(n) ==
  /\ WriteDue(n)
  /\ Judged(Content(n), "high") = {} /\ Judged(Content(n), "near") # {}
  /\ parkedRows' = Append(parkedRows, [content |-> Content(n), open |-> TRUE])
  /\ \/ Judged(Content(n), "near") \subseteq touched /\ at' = "resolve" /\ UNCHANGED ahead
     \/ ~(ActiveRows \subseteq touched) /\ NextNode(n)
  /\ UNCHANGED <<bundle, rows, links, scopeState, rowFor, created, touched,
                 closed, made, runs, kills>>

ResolveDistinct(n) ==
  /\ at = "resolve" /\ Meets(n)
  /\ Stores(Content(n), "import")
  /\ parkedRows' = [parkedRows EXCEPT ![Len(parkedRows)].open = FALSE]
  /\ Take(n, Len(rows) + 1) /\ created' = created \cup {Len(rows) + 1}
  /\ NextNode(n)
  /\ UNCHANGED <<bundle, links, scopeState, closed, made, runs, kills>>

-----------------------------------------------------------------------------
(* The passes that follow, in their order.                                 *)

\* A pass over the nodes is through, and the next one begins.
NextPass ==
  /\ ahead = {} /\ ahead' = BundleNodes
  /\ \/ at = "nodes" /\ at' = "merged"
     \/ at = "merged" /\ at' = "attrs"
     \/ at = "attrs" /\ at' = "edges"
  /\ UNCHANGED <<bundle, destVars, rowFor, created, touched, closed, made, runs,
                 kills>>

\* A merged node stands for the row of its canonical.
MapMerged(n) ==
  LET canon == bundle.nodes[n].canon
  IN /\ at = "merged" /\ Meets(n) /\ ahead' = ahead \ {n}
     /\ rowFor' = IF /\ bundle.nodes[n].status = "merged"
                     /\ canon \in BundleNodes /\ rowFor[canon] # 0
                  THEN [rowFor EXCEPT ![n] = rowFor[canon]] ELSE rowFor
     /\ UNCHANGED <<bundle, destVars, at, created, touched, closed, made, runs,
                    kills>>

\* The attributes that a write does not take, of rows this import made.
RestoreAttrs(n) ==
  /\ at = "attrs" /\ Meets(n) /\ ahead' = ahead \ {n}
  /\ rows' = IF rowFor[n] \in created /\ bundle.nodes[n].addenda # {}
             THEN [rows EXCEPT ![rowFor[n]].addenda = bundle.nodes[n].addenda] ELSE rows
  /\ UNCHANGED <<bundle, parkedRows, links, scopeState, at, rowFor, created,
                 touched, closed, made, runs, kills>>

\* link attaches an edge of the bundle, and refuses an archived endpoint.
Attachable(e) ==
  LET s == rowFor[e[1]]
      d == rowFor[e[2]]
  IN /\ s # 0 /\ d # 0 /\ s # d /\ e[3]
     /\ rows[s].status # "archived" /\ rows[d].status # "archived"

Placed(e) == <<rowFor[e[1]], rowFor[e[2]]>>

AttachEdge(e) ==
  /\ at = "edges" /\ e \in bundle.edges
  /\ Attachable(e) /\ Placed(e) \notin links
  /\ links' = links \cup {Placed(e)}
  /\ UNCHANGED <<bundle, rows, parkedRows, scopeState, importVars, runs, kills>>

EdgesDone ==
  /\ at = "edges"
  /\ \A e \in bundle.edges : Attachable(e) => Placed(e) \in links
  /\ at' = "statuses" /\ ahead' = BundleNodes
  /\ UNCHANGED <<bundle, destVars, rowFor, created, touched, closed, made, runs,
                 kills>>

\* Mutant: the status of a matched row is restored too.
RestoreAny(r) == r # 0

Restorable(r) == r \in created

\* Mutant: any status but active is restored.
OwedAny(n) == bundle.nodes[n].status # "active"

Owed(n) == bundle.nodes[n].status \in {"superseded", "archived"}

RestoreStatus(n) ==
  /\ at = "statuses" /\ Meets(n) /\ ahead' = ahead \ {n}
  /\ rows' = IF /\ Owed(n) /\ Restorable(rowFor[n])
                /\ rows[rowFor[n]].status = "active"
             THEN [rows EXCEPT ![rowFor[n]].status = bundle.nodes[n].status] ELSE rows
  /\ UNCHANGED <<bundle, parkedRows, links, scopeState, at, rowFor, created,
                 touched, closed, made, runs, kills>>

ArchiveScopes ==
  /\ at = "statuses" /\ ahead = {}
  /\ scopeState' = [sc \in ImportScopes |->
                      IF sc \in made \cap ArchivedSource THEN "archived"
                      ELSE scopeState[sc]]
  /\ at' = "ended"
  /\ UNCHANGED <<bundle, rows, parkedRows, links, ahead, rowFor, created, touched,
                 closed, made, runs, kills>>

Leave ==
  /\ at = "ended" /\ at' = "idle"
  /\ UNCHANGED <<bundle, destVars, ahead, rowFor, created, touched, closed, made,
                 runs, kills>>

\* The import dies between two statements, or a write raises.
ImportDies ==
  /\ at \in {"scopes", "nodes", "resolve", "merged", "attrs", "edges", "statuses"}
  /\ kills < MaxKills /\ kills' = kills + 1
  /\ at' = "idle"
  /\ UNCHANGED <<bundle, destVars, ahead, rowFor, created, touched, closed, made,
                 runs>>

-----------------------------------------------------------------------------
\* Between imports the principal resolves a parked payload: distinct stores it, and so
\* does a merge into an active row, or a distinct that meets one at t_high, when the
\* content is novel against that row's cluster; otherwise the row absorbs it.
PrincipalResolves(p) ==
  /\ at = "idle" /\ p \in DOMAIN parkedRows /\ parkedRows[p].open
  /\ LET c == parkedRows[p].content
     IN Stores(c, "principal") \/ \E r \in ActiveRows : Absorbs(c, r)
  /\ parkedRows' = [parkedRows EXCEPT ![p].open = FALSE]
  /\ UNCHANGED <<bundle, links, scopeState, importVars, runs, kills>>

TransferNext ==
  \/ Begin \/ (\E sc \in ImportScopes : CreateScope(sc)) \/ CheckWritable
  \/ \E n \in ahead :
       \/ SkipNode(n) \/ MatchNode(n) \/ WriteInserts(n) \/ WriteParks(n)
       \/ (\E r \in DOMAIN rows : WriteMerges(n, r)) \/ ResolveDistinct(n)
       \/ MapMerged(n) \/ RestoreAttrs(n) \/ RestoreStatus(n)
  \/ NextPass \/ (\E e \in bundle.edges : AttachEdge(e)) \/ EdgesDone
  \/ ArchiveScopes \/ Leave \/ ImportDies
  \/ \E p \in DOMAIN parkedRows : PrincipalResolves(p)

TransferSpec == TransferInit /\ [][TransferNext]_transferVars

TransferOver == at = "idle" /\ runs = MaxRuns

-----------------------------------------------------------------------------
(* Properties.                                                             *)

TransferTypeOK ==
  /\ created \subseteq DOMAIN rows /\ touched \subseteq DOMAIN rows
  /\ \A r \in DOMAIN rows :
       /\ rows[r].content \in Contents /\ rows[r].addenda \subseteq Contents
       /\ rows[r].status \in {"active", "superseded", "archived"}
  /\ \A l \in links : {l[1], l[2]} \subseteq DOMAIN rows
  /\ scopeState \in [ImportScopes -> {"none", "open", "archived"}]

\* However often imports are killed and run again, with the principal's
\* resolutions between them, a row that an import made is the first of its content:
\* imports store a content once, and never one the destination already held, in
\* whatever status (space_import.run_space_import, the match before each write).
ImportOnce ==
  \A r \in DOMAIN rows : rows[r].by = "import" =>
    \A t \in DOMAIN rows : rows[t].content = rows[r].content => t >= r

\* The source nodes that became row r.
Origins(r) == {i \in BundleNodes : rowFor[i] = r /\ bundle.nodes[i].status # "merged"}

\* Row r holds content c, or is near enough to have absorbed it.
Keeps(c, r) == rows[r].content = c \/ Compare[c][rows[r].content] = "high"

\* When an import ends: every source node is a row that keeps it, or is parked, or was
\* bound for an archived scope; every edge between two rows it mapped is there unless
\* no rule allows it or an end is archived; the rows that were there before are still
\* active; and a row this run created has the status its source nodes agree on, and is
\* inactive where they disagree: rows of a run that was cut off are not made up for
\* (space_import.run_space_import).
ImportFaithful ==
  at = "ended" =>
    /\ \A i \in BundleNodes : LET n == bundle.nodes[i] IN
         \/ n.status = "merged"
         \/ rowFor[i] # 0 /\ Keeps(n.content, rowFor[i])
         \/ \E p \in DOMAIN parkedRows : parkedRows[p].content = n.content
         \/ ScopeOf[n.content] \in closed
    /\ \A e \in bundle.edges :
         LET ends == {rowFor[e[1]], rowFor[e[2]]}
         IN e[3] /\ 0 \notin ends /\ Cardinality(ends) = 2 =>
              \/ Placed(e) \in links
              \/ \E r \in ends : rows[r].status = "archived"
    /\ \A r \in DOMAIN rows : rows[r].by = "before" => rows[r].status = "active"
    /\ \A r \in created :
         (rows[r].status = "active") <=> (\A i \in Origins(r) : bundle.nodes[i].status = "active")

\* A bundle arrives whole and once, in as many runs as it takes.
ImportSafe == ImportOnce /\ ImportFaithful

=============================================================================
