------------------------------ MODULE Traverse ------------------------------
(***************************************************************************)
(* traverse (engraphy/core/traverse.py): the recursive walk of the graph   *)
(* from one node, level by level, its cut at `limit` rows, the resolution  *)
(* of merged nodes to their canonicals by one read per hop, the rows and   *)
(* edges of the answer, and the recall counts.  The walk is one statement, *)
(* each read another under READ COMMITTED, so the rows may change between  *)
(* them.                                                                   *)
(***************************************************************************)
EXTENDS Integers, Sequences, FiniteSets, SequencesExt

CONSTANTS
  WNodes,          \* node ids, positive numbers: the walk's rows are ordered by id
  WBidirectional,  \* the edge types walkable both ways
  WGraphs,         \* the sets of edges <<src, dst, type>> a call may meet
  WStates,         \* what it may meet of the rows: [status, next, readable]
  ChainCap,        \* _MAX_CANONICAL_CHAIN
  DepthCap,        \* _MAX_DEPTH_CAP
  LimitCap,        \* _LIMIT_CAP
  WLimits, WDepths, \* the limits and depths asked for
  MaxRowChanges    \* bound: changes to the rows during a walk

RowStates ==
  [status : [WNodes -> {"active", "superseded", "merged", "archived"}],
   next : [WNodes -> WNodes \cup {0}], readable : SUBSET WNodes]

\* An edge joins two nodes and a merged row names its canonical (the CHECKs of
\* edges and nodes).
ASSUME TraverseAssumption ==
  /\ WNodes \subseteq Nat \ {0} /\ IsFiniteSet(WNodes)
  /\ DepthCap \in Nat \ {0} /\ LimitCap \in Nat \ {0} /\ ChainCap \in Nat \ {0}
  /\ WDepths \subseteq Int /\ WLimits \subseteq Int /\ MaxRowChanges \in Nat
  /\ \A g \in WGraphs : /\ g \subseteq WNodes \X WNodes \X Nat /\ IsFiniteSet(g)
                        /\ \A e \in g : e[1] # e[2]
  /\ WStates \subseteq RowStates
  /\ \A s \in WStates, n \in WNodes : s.status[n] = "merged" <=> s.next[n] # 0

VARIABLES
  rowsNow,     \* the rows, as they are now
  rowChanges,  \* the changes made so far
  asked,       \* the call: start, direction, edges, depth, limit, and the rows as
               \* the walk's statement sees them
  walkAt,      \* the statement coming next
  walkLevel,   \* the depth the recursive query has reached
  walkRows,    \* its rows: the edges taken and the nodes passed
  standsFor,   \* the canonicals found so far, by node
  chase,       \* the one being looked for: from where, at which row, after how many reads
  walked,      \* the answer: nodes (a set of [id, depth, status]), edges, truncated, or
               \* failed: the call raised
  recalled     \* the nodes whose recall was counted

answerVars == <<walked, recalled>>
walkVars == <<rowsNow, rowChanges, asked, walkAt, walkLevel, walkRows, standsFor, chase, answerVars>>

NoCall == [start |-> 0]
NoChase == [from |-> 0, at |-> 0, hops |-> 0]
NoAnswer == [nodes |-> {}, edges |-> {}, truncated |-> FALSE, failed |-> FALSE]

TraverseInit ==
  /\ rowsNow \in WStates /\ rowChanges = 0
  /\ asked = NoCall /\ walkAt = "idle" /\ walkLevel = 0 /\ walkRows = {}
  /\ standsFor = [n \in {} |-> n] /\ chase = NoChase
  /\ walked = NoAnswer /\ recalled = {}

-----------------------------------------------------------------------------
(* What other transactions may commit between two statements: a node is    *)
(* archived, a grant is withdrawn.  Merged and archived rows stay as they  *)
(* are.                                                                    *)

RowChange ==
  /\ walkAt \in {"resolve", "recall"} /\ rowChanges < MaxRowChanges
  /\ rowChanges' = rowChanges + 1
  /\ UNCHANGED <<asked, walkAt, walkLevel, walkRows, standsFor, chase, answerVars>>

Archives(n) ==
  /\ RowChange /\ rowsNow.status[n] \in {"active", "superseded"}
  /\ rowsNow' = [rowsNow EXCEPT !.status[n] = "archived"]

Withdraws(n) ==
  /\ RowChange /\ n \in rowsNow.readable
  /\ rowsNow' = [rowsNow EXCEPT !.readable = @ \ {n}]

-----------------------------------------------------------------------------
(* The recursive query.                                                    *)

Clamp(low, x, high) == IF x < low THEN low ELSE IF x > high THEN high ELSE x

\* Can edge e be walked from node n, and to where.
Walkable(q, e, n) ==
  LET fwd == q.direction \in {"out", "both"} \/ e[3] \in WBidirectional
      rev == q.direction \in {"in", "both"} \/ e[3] \in WBidirectional
  IN (e[1] = n /\ fwd) \/ (e[2] = n /\ rev)

Across(e, n) == IF e[1] = n THEN e[2] ELSE e[1]

DepthOf(row) == Len(row.via)
EdgeOf(row) == row.via[Len(row.via)]
Reaches(row) == row.path[Len(row.path)]

\* The rows of the recursive query: a step reaches a node that is not archived
\* and, past the first step, not yet on its path.
FirstRows(q) ==
  {[via |-> <<e>>, path |-> <<q.start, Across(e, q.start)>>] :
     e \in {e \in q.edges : /\ Walkable(q, e, q.start)
                            /\ q.rows.status[Across(e, q.start)] # "archived"}}

NextRows(q, rows) ==
  {[via |-> Append(s[1].via, s[2]), path |-> Append(s[1].path, Across(s[2], Reaches(s[1])))] :
     s \in {s \in rows \X q.edges :
              LET n == Across(s[2], Reaches(s[1]))
              IN /\ Walkable(q, s[2], Reaches(s[1]))
                 /\ ~Contains(s[1].path, n)
                 /\ q.rows.status[n] # "archived"}}

\* A call, and the first level of its query; both ends of an edge are readable.
Call(start, direction, edges, depth, limit) ==
  /\ walkAt = "idle" /\ walkAt' = "walk"
  /\ asked' = [start |-> start, direction |-> direction,
               edges |-> {e \in edges : e[1] \in rowsNow.readable /\ e[2] \in rowsNow.readable},
               rows |-> rowsNow, depth |-> Clamp(1, depth, DepthCap),
               limit |-> Clamp(1, limit, LimitCap)]
  /\ walkLevel' = 1 /\ walkRows' = FirstRows(asked')
  /\ UNCHANGED <<rowsNow, rowChanges, standsFor, chase, answerVars>>

WalksOn ==
  /\ walkAt = "walk" /\ walkLevel < asked.depth
  /\ walkLevel' = walkLevel + 1
  /\ walkRows' = walkRows \cup NextRows(asked, {r \in walkRows : DepthOf(r) = walkLevel})
  /\ UNCHANGED <<rowsNow, rowChanges, asked, walkAt, standsFor, chase, answerVars>>

\* Mutant: the rows are cut in the order of their edges, not of their depth.
RowBeforeByEdge(r, t) ==
  EdgeOf(r)[1] < EdgeOf(t)[1] \/ (EdgeOf(r)[1] = EdgeOf(t)[1] /\ EdgeOf(r)[2] < EdgeOf(t)[2])

\* ORDER BY depth, src_id, dst_id, type.
RowBefore(r, t) ==
  LET e == EdgeOf(r)
      f == EdgeOf(t)
  IN \/ DepthOf(r) < DepthOf(t)
     \/ /\ DepthOf(r) = DepthOf(t)
        /\ \/ e[1] < f[1]
           \/ e[1] = f[1] /\ e[2] < f[2]
           \/ e[1] = f[1] /\ e[2] = f[2] /\ e[3] < f[3]

\* LIMIT limit: the rows kept.  Rows that tie may be kept in any order.
Cuts(rows, limit) ==
  IF Cardinality(rows) <= limit THEN {rows}
  ELSE LET surely == {r \in rows : Cardinality({t \in rows : ~RowBefore(r, t)}) <= limit}
           tied == {r \in rows \ surely : Cardinality({t \in rows : RowBefore(t, r)}) < limit}
       IN {surely \cup s : s \in {s \in SUBSET tied :
                                    Cardinality(s) = limit - Cardinality(surely)}}

CutsRows ==
  /\ walkAt = "walk" /\ walkLevel = asked.depth /\ walkAt' = "resolve"
  /\ walkRows' \in Cuts(walkRows, asked.limit)
  /\ walked' = [walked EXCEPT !.truncated = Cardinality(walkRows) > asked.limit]
  /\ UNCHANGED <<rowsNow, rowChanges, asked, walkLevel, standsFor, chase, recalled>>

-----------------------------------------------------------------------------
(* _resolve_canonical, for each node reached: one read per hop, which      *)
(* raises on a row the caller may not read and after ChainCap reads.       *)

Reached == {Reaches(r) : r \in walkRows}

Merged(n) == rowsNow.status[n] = "merged" /\ rowsNow.next[n] # 0

WalkFails ==
  /\ walked' = [NoAnswer EXCEPT !.failed = TRUE] /\ walkAt' = "answered"
  /\ UNCHANGED <<standsFor, chase, recalled>>

ReadsRow(from, at, hops) ==
  \/ /\ at \in rowsNow.readable /\ ~Merged(at)
     /\ standsFor' = [n \in DOMAIN standsFor \cup {from} |-> IF n = from THEN at ELSE standsFor[n]]
     /\ chase' = NoChase
     /\ UNCHANGED <<walkAt, answerVars>>
  \/ /\ at \in rowsNow.readable /\ Merged(at) /\ hops + 1 < ChainCap
     /\ chase' = [from |-> from, at |-> rowsNow.next[at], hops |-> hops + 1]
     /\ UNCHANGED <<standsFor, walkAt, answerVars>>
  \/ (at \notin rowsNow.readable \/ (Merged(at) /\ hops + 1 = ChainCap)) /\ WalkFails

ReadsNext ==
  /\ walkAt = "resolve"
  /\ \/ chase = NoChase /\ \E n \in Reached \ DOMAIN standsFor : ReadsRow(n, n, 0)
     \/ chase # NoChase /\ ReadsRow(chase.from, chase.at, chase.hops)
  /\ UNCHANGED <<rowsNow, rowChanges, asked, walkLevel, walkRows>>

-----------------------------------------------------------------------------
(* The answer.                                                             *)

MinOver(S) == CHOOSE x \in S : \A y \in S : x <= y

\* The least depth of what c stands for; the start is given, at depth 0.
Nearest(c) ==
  MinOver({DepthOf(r) : r \in {r \in walkRows : standsFor[Reaches(r)] = c}}
          \cup IF c = asked.start THEN {0} ELSE {})

\* The rows of the canonicals are read; one that is archived is left out with the
\* edges of what it stands for.
Hydrates ==
  /\ walkAt = "resolve" /\ chase = NoChase /\ DOMAIN standsFor = Reached
  /\ LET ids == {asked.start} \cup {standsFor[n] : n \in Reached}
         hidden == {c \in ids \cap rowsNow.readable :
                      rowsNow.status[c] = "archived" /\ c # asked.start}
         out(n) == n \in Reached /\ standsFor[n] \in hidden
     IN walked' = [walked EXCEPT
          !.nodes = {[id |-> c, depth |-> Nearest(c), status |-> rowsNow.status[c]] :
                       c \in (ids \cap rowsNow.readable) \ hidden},
          !.edges = {EdgeOf(r) : r \in {r \in walkRows : ~out(EdgeOf(r)[1]) /\ ~out(EdgeOf(r)[2])}}]
  /\ walkAt' = "recall"
  /\ UNCHANGED <<rowsNow, rowChanges, asked, walkLevel, walkRows, standsFor, chase, recalled>>

AnswerIds == {a.id : a \in walked.nodes}

\* The UPDATE meets the rows the caller may still read (one who may not write them is
\* refused here: module Sharing).
BumpsRecall ==
  /\ walkAt = "recall" /\ walkAt' = "answered"
  /\ recalled' = AnswerIds \cap rowsNow.readable
  /\ UNCHANGED <<rowsNow, rowChanges, asked, walkLevel, walkRows, standsFor, chase, walked>>

TraverseNext ==
  \/ \E start \in WNodes, direction \in {"out", "in", "both"}, edges \in WGraphs,
        depth \in WDepths, limit \in WLimits : Call(start, direction, edges, depth, limit)
  \/ WalksOn \/ CutsRows \/ ReadsNext \/ Hydrates \/ BumpsRecall
  \/ \E n \in WNodes : Archives(n) \/ Withdraws(n)

TraverseSpec == TraverseInit /\ [][TraverseNext]_walkVars

TraverseOver == walkAt = "answered"

-----------------------------------------------------------------------------
(* Properties.                                                             *)

TraverseTypeOK ==
  /\ walkAt \in {"idle", "walk", "resolve", "recall", "answered"}
  /\ \A a \in walked.nodes : a.id \in WNodes /\ a.depth \in 0..DepthCap
  /\ walked.edges \subseteq UNION WGraphs
  /\ recalled \subseteq WNodes

\* The reference: walks along the edges, over nodes that are not archived, of at
\* most the depth asked for; and chains of merged rows.
IsWalk(q, p) ==
  /\ p[1] = q.start
  /\ \A i \in 1..(Len(p) - 1) :
       /\ q.rows.status[p[i + 1]] # "archived"
       /\ \E e \in q.edges : Walkable(q, e, p[i]) /\ Across(e, p[i]) = p[i + 1]

Walks(q) == {p \in UNION {[1..k -> WNodes] : k \in 1..(q.depth + 1)} : IsWalk(q, p)}

\* Where a walk leads, and how far the nearest one goes.
WithinReach(q) == {p[Len(p)] : p \in Walks(q)} \ {q.start}
Away(q, n) == MinOver({Len(p) - 1 : p \in {p \in Walks(q) : p[Len(p)] = n}})

MergeChains ==
  {p \in UNION {[1..k -> WNodes] : k \in 1..ChainCap} :
     \A i \in 1..(Len(p) - 1) : Merged(p[i]) /\ p[i + 1] = rowsNow.next[p[i]]}

MergesInto(n, c) == ~Merged(c) /\ \E p \in MergeChains : p[1] = n /\ p[Len(p)] = c

\* Each node of the answer is as far as the shortest walk to it or to a node
\* merged into it, even when `limit` cut the rows; and an answer that does not
\* say it is truncated has every such node within the depth that was neither
\* archived nor withdrawn (traverse._WALK_SQL, entries).
WalkExact ==
  \A a \in walked.nodes :
    /\ IF a.id = asked.start THEN a.depth = 0
       ELSE \E n \in WithinReach(asked) : MergesInto(n, a.id) /\ a.depth = Away(asked, n)
    /\ \A n \in WithinReach(asked) : MergesInto(n, a.id) => a.depth <= Away(asked, n)

WalkComplete ==
  ~walked.truncated =>
    \A n \in WithinReach(asked), c \in rowsNow.readable :
      MergesInto(n, c) => c \in AnswerIds \/ rowsNow.status[c] = "archived"

\* An answer shows no archived row but the start's and nothing the caller could
\* not read when it asked; each of its edges joins nodes of the answer, a merged
\* node standing for its canonical, unless one was withdrawn meanwhile; and what
\* it shows is counted, unless withdrawn (traverse: hidden, edges_out, bump_recall).
AnswerClosed ==
  /\ AnswerIds \subseteq asked.rows.readable
  /\ \A a \in walked.nodes : a.status = "archived" => a.id = asked.start
  /\ \A e \in walked.edges, i \in {1, 2} :
       \E c \in AnswerIds \cup (WNodes \ rowsNow.readable) :
         IF e[i] = asked.start THEN c = e[i] ELSE MergesInto(e[i], c)
  /\ recalled \subseteq AnswerIds /\ AnswerIds \cap rowsNow.readable \subseteq recalled

\* A walk fails only over a chain that ends in a row the caller may not read or
\* goes on past the cap, and then it counts nothing.
FailsForCause ==
  /\ recalled = {} /\ walked = [NoAnswer EXCEPT !.failed = TRUE]
  /\ \E n \in WithinReach(asked), p \in MergeChains :
       /\ p[1] = n
       /\ p[Len(p)] \notin rowsNow.readable \/ (Len(p) = ChainCap /\ Merged(p[Len(p)]))

\* traverse answers with the graph as its query saw it: exact depths, nothing
\* missing that it does not say it cut, no dangling edge, and no failure without
\* a cause, whatever is committed between its statements.
WalkFaithful ==
  walkAt = "answered" =>
    IF walked.failed THEN FailsForCause ELSE WalkExact /\ WalkComplete /\ AnswerClosed

=============================================================================
