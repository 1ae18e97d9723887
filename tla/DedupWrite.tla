----------------------------- MODULE DedupWrite -----------------------------
(***************************************************************************)
(* The dedup write path of engraphy/core/dedup.py: write, its import mode, *)
(* resolve_duplicate (distinct and merge) and supersede, as the sessions   *)
(* of one space run them concurrently against PostgreSQL.                  *)
(*                                                                         *)
(* Every call is one READ COMMITTED transaction.  A step of the model is   *)
(* one statement whose snapshot matters (the validation reads, the         *)
(* advisory lock, the candidate query, the canonical row, the same_topic   *)
(* peers); the writes of a transaction become visible together, in its     *)
(* commit step.  A session may crash or raise at any point before that.    *)
(*                                                                         *)
(* A fact abstracts one write request: its type, its scope, the tokens of  *)
(* its body, its happened_at and its embedding, the last through Sim.      *)
(***************************************************************************)
EXTENDS Integers, Sequences, FiniteSets

CONSTANTS
  Sessions,        \* concurrent callers, each on its own pooled connection
  NodeIds,         \* uuids the database may hand out for nodes rows
  PendIds,         \* uuids for pending_writes rows
  Facts,           \* the write requests clients may issue
  NodeTypes,       \* registered node types
  Scopes,          \* scopes of the space
  Ambient,         \* the readable scopes flagged ambient
  Writable,        \* the scopes the caller may write
  FType, FScope,   \* [Facts -> NodeTypes], [Facts -> Scopes]
  FTokens,         \* [Facts -> SUBSET tokens]: jaccard.tokenize of the body
  FWhen,           \* [Facts -> occurrence dates or NoDate]: attrs.happened_at
  Sim,             \* [Facts -> [Facts -> 0..100]]: cosine similarity, percent
  TLow, THigh,     \* the band thresholds, percent
  ErrorType,       \* the node type "error", whose re-occurrences are data
  EdgeRules,       \* rows <<type, src_type, dst_type>> of edge_rules
  CandidateLimit,  \* LIMIT of the candidate query (5 in the code)
  Ops,             \* the kinds of call the clients issue
  WithLinks,       \* whether requests carry a link
  MaxCalls,        \* bound on the number of calls
  NoNode, NoPend, NoSession, NoFact, NoDate

OpKinds == {"write", "import", "distinct", "merge", "supersede"}
EdgeTypes == {"same_topic", "relates_to", "supersedes", "link"}
Statuses == {"active", "superseded", "archived"}

ASSUME BandAssumption ==
  /\ TLow \in Nat /\ THigh \in Nat
  /\ 0 < TLow /\ TLow <= THigh /\ THigh <= 100

ASSUME FactAssumption ==
  /\ FType \in [Facts -> NodeTypes]
  /\ FScope \in [Facts -> Scopes]
  /\ Sim \in [Facts -> [Facts -> 0..100]]
  /\ \A f, g \in Facts : Sim[f][g] = Sim[g][f]
  /\ \A f \in Facts : IsFiniteSet(FTokens[f])

ASSUME NullAssumption ==
  /\ NoNode \notin NodeIds
  /\ NoPend \notin PendIds
  /\ NoSession \notin Sessions
  /\ NoFact \notin Facts

ASSUME BoundAssumption ==
  /\ CandidateLimit \in Nat \ {0}
  /\ IsFiniteSet(NodeIds)
  /\ MaxCalls \in Nat
  /\ Ops \subseteq OpKinds \cup {"archive"}
  /\ WithLinks \in BOOLEAN
  /\ Ambient \subseteq Scopes /\ Writable \subseteq Scopes

VARIABLES
  status,   \* [NodeIds -> status of the committed row, "none" before it exists]
  content,  \* [NodeIds -> the fact stored in the row]
  origin,   \* [NodeIds -> dedup_log.band of the call that created the row]
  addenda,  \* [NodeIds -> attrs.addenda of the row]
  edges,    \* set of <<src, dst, type>>
  pending,  \* [PendIds -> row of pending_writes]
  lock,     \* [NodeTypes -> holder of the advisory lock on (space, type)]
  pc,       \* [Sessions -> where its transaction stands]
  req,      \* [Sessions -> the call it runs]
  found,    \* [Sessions -> what the candidate query returned]
  read,     \* [Sessions -> addenda and novelty verdict read in _merge_branch]
  result,   \* [Sessions -> outcome of the committed transaction]
  metric,   \* metrics_rollup totals for facts_stored, duplicates_prevented
  acked,    \* history: the facts some committed call reported as stored
  calls     \* number of calls begun, bounded by MaxCalls

rowVars == <<status, content, origin, addenda, edges>>
vars == <<status, content, origin, addenda, edges, pending, lock, pc, req,
          found, read, result, metric, acked, calls>>

-----------------------------------------------------------------------------
(* Pure parts: bands, novelty, candidates, clusters.                       *)

\* select_band: >= on both lower bounds.
SelectBand(sim) ==
  IF sim >= THigh THEN "merge"
  ELSE IF sim >= TLow THEN "pending" ELSE "insert"

\* Mutant: a lower novelty threshold, 0.2.
LaxNovel(a, b) ==
  /\ a \cup b # {}
  /\ 10 * Cardinality(a \cap b) < 2 * Cardinality(a \cup b)

\* jaccard.is_novel: J(a, b) < 0.8 on token sets, J = 1 when both are empty.
IsNovel(a, b) ==
  /\ a \cup b # {}
  /\ 10 * Cardinality(a \cap b) < 8 * Cardinality(a \cup b)

\* The nodes the candidate query may return for fact f, trap 2's exclusion
\* included.
Candidates(f, exclude) ==
  {n \in NodeIds : /\ status[n] = "active"
                   /\ n # exclude
                   /\ FType[content[n]] = FType[f]
                   /\ FScope[content[n]] \in {FScope[f]} \cup Ambient}

\* ORDER BY distance LIMIT CandidateLimit, ties in any order.
IsNearest(C, S, f) ==
  /\ C \subseteq S
  /\ Cardinality(C) = IF Cardinality(S) < CandidateLimit
                      THEN Cardinality(S) ELSE CandidateLimit
  /\ \A c \in C, d \in S \ C : Sim[f][content[c]] >= Sim[f][content[d]]

\* The element of a candidate list with the smallest distance.
IsBest(b, C, f) ==
  IF C = {} THEN b = NoNode
  ELSE b \in C /\ \A c \in C : Sim[f][content[b]] >= Sim[f][content[c]]

\* _same_topic_peer_bodies: both directions, whatever the peer's status.
Peers(n) == {m \in NodeIds : \/ <<n, m, "same_topic">> \in edges
                             \/ <<m, n, "same_topic">> \in edges}

AddendaTokens(as) == UNION {FTokens[as[i]] : i \in 1..Len(as)}

\* canonical body + addenda bodies + peer bodies, as tokens.
CorpusOf(n, as) ==
  FTokens[content[n]] \cup AddendaTokens(as)
    \cup UNION {FTokens[content[m]] : m \in Peers(n)}

Corpus(n) == CorpusOf(n, addenda[n])

RuleExists(type, srcType, dstType) == <<type, srcType, dstType>> \in EdgeRules

\* edges_validate and CHECK (src_id <> dst_id): what the database accepts from
\* a source node of type t.
EdgeAllowed(e, t) ==
  e[1] # e[2] /\ RuleExists(e[3], t, FType[content[e[2]]])

-----------------------------------------------------------------------------
(* The call a session runs.                                                *)

NoReq == [op |-> "none", fact |-> NoFact, target |-> NoNode,
          pid |-> NoPend, peer |-> NoNode]
NoFound == [best |-> NoNode, cands |-> {}]
NoRead == [addenda |-> <<>>, novel |-> FALSE]
NoPending == [state |-> "none", fact |-> NoFact, cands |-> {}, peer |-> NoNode]

\* A supersede whose replacement has the type of the old node.  The other
\* kind is downgraded to a plain write (supersede's cross-type branch).
Replaces(s) ==
  /\ req[s].op = "supersede"
  /\ FType[content[req[s].target]] = FType[req[s].fact]

CrossType(s) == req[s].op = "supersede" /\ ~Replaces(s)

Exclude(s) == IF Replaces(s) THEN req[s].target ELSE NoNode

LockKey(s) == FType[req[s].fact]

\* max_similarity, 0 without a candidate.
Similarity(s) ==
  IF found[s].best = NoNode THEN 0
  ELSE Sim[req[s].fact][content[found[s].best]]

\* The band a call acts on: distinct collapses pending to insert, an explicit
\* merge skips banding.
Band(s) ==
  IF req[s].op = "merge" THEN "merge"
  ELSE IF req[s].op = "distinct" /\ SelectBand(Similarity(s)) = "pending"
       THEN "insert"
       ELSE SelectBand(Similarity(s))

\* Whether the transaction resolves a parked row, and so deletes it.
Resolves(s) == req[s].op \in {"distinct", "merge"}

\* The canonical's row is a re-occurrence of an error: same words, other date.
Reoccurs(s, c) ==
  /\ FType[content[c]] = ErrorType
  /\ FWhen[req[s].fact] # NoDate
  /\ FWhen[req[s].fact] # FWhen[content[c]]

\* The nearest candidates of the parked snapshot that are still active.
NearestActive(s) ==
  LET live == {c \in pending[req[s].pid].cands : status[c] = "active"}
  IN  {c \in live : IsBest(c, live, req[s].fact)}

LinkEdges(s, src) ==
  IF req[s].peer = NoNode THEN {} ELSE {<<src, req[s].peer, "link">>}

\* supersede's edges from the replacement n: supersedes for a completed one, a
\* best-effort relates_to for a cross-type one.
ReplacementEdges(s, n) ==
  IF Replaces(s) THEN {<<n, req[s].target, "supersedes">>}
  ELSE IF CrossType(s) /\ RuleExists("relates_to", LockKey(s),
                                     FType[content[req[s].target]])
  THEN {<<n, req[s].target, "relates_to">>}
  ELSE {}

\* The edge sets a freshly inserted node n may get beside its links:
\* _attach_relates_to_nearest_active for distinct, else supersede's.
InsertEdges(s, n) ==
  IF req[s].op = "distinct" /\ NearestActive(s) # {}
  THEN {{<<n, c, "relates_to">>} : c \in NearestActive(s)}
  ELSE {ReplacementEdges(s, n)}

\* same_topic member -> canonical, when the pack has the rule.
ClusterEdges(s, n, c) ==
  IF RuleExists("same_topic", LockKey(s), FType[content[c]])
  THEN {<<n, c, "same_topic">>} ELSE {}

\* An INSERT the edges_validate trigger refuses, which rolls the call back: a
\* link from a node of type t, or a supersedes edge without a rule.
LinkFault(s, src, t) == \E e \in LinkEdges(s, src) : ~EdgeAllowed(e, t)
ReplaceFault(s) ==
  Replaces(s) /\ ~RuleExists("supersedes", LockKey(s), LockKey(s))
InsertFault(s) ==
  \/ LinkFault(s, NoNode, LockKey(s)) \/ ReplaceFault(s)
  \/ /\ req[s].op = "distinct"
     /\ \E c \in NearestActive(s) :
          ~RuleExists("relates_to", LockKey(s), FType[content[c]])

-----------------------------------------------------------------------------
Init ==
  /\ status = [n \in NodeIds |-> "none"]
  /\ content = [n \in NodeIds |-> NoFact]
  /\ origin = [n \in NodeIds |-> "none"]
  /\ addenda = [n \in NodeIds |-> <<>>]
  /\ edges = {}
  /\ pending = [p \in PendIds |-> NoPending]
  /\ lock = [t \in NodeTypes |-> NoSession]
  /\ pc = [s \in Sessions |-> "idle"]
  /\ req = [s \in Sessions |-> NoReq]
  /\ found = [s \in Sessions |-> NoFound]
  /\ read = [s \in Sessions |-> NoRead]
  /\ result = [s \in Sessions |-> "none"]
  /\ metric = [facts_stored |-> 0, duplicates_prevented |-> 0]
  /\ acked = {}
  /\ calls = 0

\* Begin a transaction: the call r was validated and goes to step next.
Begin(s, r, next) ==
  /\ pc[s] = "idle"
  /\ r.op \in Ops
  /\ calls < MaxCalls
  /\ calls' = calls + 1
  /\ pc' = [pc EXCEPT ![s] = next]
  /\ req' = [req EXCEPT ![s] = r]
  /\ UNCHANGED <<status, content, origin, addenda, edges, pending, lock,
                 read, result, metric, acked>>

LinkPeers == {NoNode} \cup {n \in NodeIds : WithLinks /\ status[n] # "none"}

\* write(): the writable-scope precheck, then on to the lock.
BeginWrite(s, op, f, peer) ==
  /\ op \in {"write", "import"}
  /\ FScope[f] \in Writable
  /\ Begin(s, [op |-> op, fact |-> f, target |-> NoNode, pid |-> NoPend,
               peer |-> peer], "waiting")
  /\ UNCHANGED found

\* Mutant: the resolution forgets the links parked with the payload.
BeginDistinctUnlinked(s, p) ==
  /\ pending[p].state = "parked"
  /\ FScope[pending[p].fact] \in Writable
  /\ Begin(s, [op |-> "distinct", fact |-> pending[p].fact, target |-> NoNode,
               pid |-> p, peer |-> NoNode], "waiting")
  /\ UNCHANGED found

\* resolve_duplicate(distinct): the parked row exists and has not expired.
BeginDistinct(s, p) ==
  /\ pending[p].state = "parked"
  /\ FScope[pending[p].fact] \in Writable
  /\ Begin(s, [op |-> "distinct", fact |-> pending[p].fact, target |-> NoNode,
               pid |-> p, peer |-> pending[p].peer], "waiting")
  /\ UNCHANGED found

\* resolve_duplicate(merge): the target is active; no advisory lock follows.
BeginMerge(s, p, target) ==
  /\ pending[p].state = "parked"
  /\ FScope[pending[p].fact] \in Writable
  /\ status[target] = "active"
  /\ Begin(s, [op |-> "merge", fact |-> pending[p].fact, target |-> target,
               pid |-> p, peer |-> pending[p].peer], "banded")
  /\ found' = [found EXCEPT ![s] = [best |-> target, cands |-> {}]]

\* supersede(): the old node is active and both scopes are writable.
BeginSupersede(s, old, f, peer) ==
  /\ status[old] = "active"
  /\ {FScope[content[old]], FScope[f]} \subseteq Writable
  /\ Begin(s, [op |-> "supersede", fact |-> f, target |-> old, pid |-> NoPend,
               peer |-> peer], "waiting")
  /\ UNCHANGED found

\* Mutant: no advisory lock.
AcquireNothing(s) ==
  /\ pc[s] = "waiting"
  /\ pc' = [pc EXCEPT ![s] = "locked"]
  /\ UNCHANGED <<rowVars, pending, lock, req, found, read, result, metric,
                 acked, calls>>

\* pg_advisory_xact_lock on (space, type).
Acquire(s) ==
  /\ pc[s] = "waiting"
  /\ lock[LockKey(s)] = NoSession
  /\ lock' = [lock EXCEPT ![LockKey(s)] = s]
  /\ pc' = [pc EXCEPT ![s] = "locked"]
  /\ UNCHANGED <<rowVars, pending, req, found, read, result, metric, acked,
                 calls>>

\* The candidate query of _locked_core.
SelectCandidates(s) ==
  /\ pc[s] = "locked"
  /\ LET f == req[s].fact
         S == Candidates(f, Exclude(s))
     IN  \E C \in SUBSET S, b \in NodeIds \cup {NoNode} :
           /\ IsNearest(C, S, f)
           /\ IsBest(b, C, f)
           /\ found' = [found EXCEPT ![s] = [best |-> b, cands |-> C]]
  /\ pc' = [pc EXCEPT ![s] = "banded"]
  /\ UNCHANGED <<rowVars, pending, lock, req, read, result, metric, acked,
                 calls>>

\* _merge_branch's first read: the canonical row, with its addenda.
ReadCanonical(s) ==
  /\ pc[s] = "banded" /\ Band(s) = "merge"
  /\ read' = [read EXCEPT ![s] = [addenda |-> addenda[found[s].best],
                                  novel |-> FALSE]]
  /\ pc' = [pc EXCEPT ![s] = "row"]
  /\ UNCHANGED <<rowVars, pending, lock, req, found, result, metric, acked,
                 calls>>

\* _merge_branch's second read, the peers, and the novelty verdict.
JudgeNovelty(s) ==
  /\ pc[s] = "row"
  /\ read' = [read EXCEPT ![s] =
       [addenda |-> read[s].addenda,
        novel |-> IsNovel(FTokens[req[s].fact],
                          CorpusOf(found[s].best, read[s].addenda))]]
  /\ pc' = [pc EXCEPT ![s] = "judged"]
  /\ UNCHANGED <<rowVars, pending, lock, req, found, result, metric, acked,
                 calls>>

\* Mutant: a session-level lock, which a rollback does not release.
KeepLocks(s) == s \in Sessions /\ lock' = lock

ReleaseLocks(s) ==
  lock' = [t \in NodeTypes |-> IF lock[t] = s THEN NoSession ELSE lock[t]]

\* COMMIT: locks go, the outcome is known.
Commit(s, outcome) ==
  /\ pc' = [pc EXCEPT ![s] = "committed"]
  /\ result' = [result EXCEPT ![s] = outcome]
  /\ ReleaseLocks(s)
  /\ UNCHANGED <<req, found, read, metric, calls>>

\* Outcomes that stored the fact.  A resolved row is deleted; the model keeps
\* its payload in state "resolved".
Stored(s) ==
  /\ acked' = acked \cup {req[s].fact}
  /\ pending' = IF Resolves(s)
                THEN [pending EXCEPT ![req[s].pid].state = "resolved"]
                ELSE pending

\* Mutant: the replacement is stored and the old row is never flipped.
StoreWithoutFlip(s, n, band, es) ==
  /\ status[n] = "none"
  /\ status' = [status EXCEPT ![n] = "active"]
  /\ content' = [content EXCEPT ![n] = req[s].fact]
  /\ origin' = [origin EXCEPT ![n] = band]
  /\ edges' = edges \cup es
  /\ UNCHANGED addenda

\* Mutant: dedup_log gets the similarity band, not the refined one.
StoreRawBand(s, n, band, es) ==
  /\ status[n] = "none"
  /\ status' = [m \in NodeIds |->
       IF m = n THEN "active"
       ELSE IF Replaces(s) /\ m = req[s].target THEN "superseded"
       ELSE status[m]]
  /\ content' = [content EXCEPT ![n] = req[s].fact]
  /\ origin' = [origin EXCEPT ![n] = IF band = "insert" THEN band ELSE Band(s)]
  /\ edges' = edges \cup es
  /\ UNCHANGED addenda

\* _do_insert of row n with its edges, and supersede's flip of the old row.
StoreNode(s, n, band, es) ==
  /\ status[n] = "none"
  /\ status' = [m \in NodeIds |->
       IF m = n THEN "active"
       ELSE IF Replaces(s) /\ m = req[s].target THEN "superseded"
       ELSE status[m]]
  /\ content' = [content EXCEPT ![n] = req[s].fact]
  /\ origin' = [origin EXCEPT ![n] = band]
  /\ edges' = edges \cup es
  /\ UNCHANGED addenda

CommitInsert(s, n) ==
  /\ pc[s] = "banded" /\ Band(s) = "insert"
  /\ ~InsertFault(s)
  /\ \E es \in InsertEdges(s, n) :
       StoreNode(s, n, "insert", LinkEdges(s, n) \cup es)
  /\ Stored(s)
  /\ Commit(s, "inserted")

CommitMergeLink(s, n) ==
  /\ pc[s] = "judged" /\ read[s].novel
  /\ ~LinkFault(s, n, LockKey(s)) /\ ~ReplaceFault(s)
  /\ StoreNode(s, n, "merge_linked",
               LinkEdges(s, n) \cup ClusterEdges(s, n, found[s].best)
                 \cup ReplacementEdges(s, n))
  /\ Stored(s)
  /\ Commit(s, "merged_linked")

\* _do_absorb: an addendum only for an error's re-occurrence, written from the
\* list read earlier.
CommitAbsorb(s) ==
  LET c == found[s].best IN
  /\ pc[s] = "judged" /\ ~read[s].novel
  /\ ~LinkFault(s, c, FType[content[c]])
  /\ addenda' = IF Reoccurs(s, c)
                THEN [addenda EXCEPT ![c] = Append(read[s].addenda, req[s].fact)]
                ELSE addenda
  /\ edges' = edges \cup LinkEdges(s, c)
  /\ Stored(s)
  /\ Commit(s, "merged")
  /\ UNCHANGED <<status, content, origin>>

\* _do_pending: the payload is parked with the candidate snapshot.
CommitPark(s, p) ==
  /\ pc[s] = "banded" /\ Band(s) = "pending" /\ req[s].op # "import"
  /\ pending[p].state = "none"
  /\ pending' = [pending EXCEPT ![p] =
       [state |-> "parked", fact |-> req[s].fact, cands |-> found[s].cands,
        peer |-> req[s].peer]]
  /\ Commit(s, "needs_confirmation")
  /\ UNCHANGED <<rowVars, acked>>

\* _do_review_queue: an import's pending band goes to the report only.
CommitReview(s) ==
  /\ pc[s] = "banded" /\ Band(s) = "pending" /\ req[s].op = "import"
  /\ Commit(s, "review_queued")
  /\ UNCHANGED <<rowVars, pending, acked>>

\* Mutant: the pending row was deleted in a transaction of its own.
RollbackAllButTheRow(s) ==
  /\ pc' = [pc EXCEPT ![s] = "idle"]
  /\ req' = [req EXCEPT ![s] = NoReq]
  /\ found' = [found EXCEPT ![s] = NoFound]
  /\ read' = [read EXCEPT ![s] = NoRead]
  /\ pending' = IF Resolves(s)
                THEN [pending EXCEPT ![req[s].pid].state = "resolved"]
                ELSE pending
  /\ ReleaseLocks(s)
  /\ UNCHANGED <<rowVars, result, metric, acked, calls>>

\* Rollback: every lock goes and nothing was written.
Rollback(s) ==
  /\ pc' = [pc EXCEPT ![s] = "idle"]
  /\ req' = [req EXCEPT ![s] = NoReq]
  /\ found' = [found EXCEPT ![s] = NoFound]
  /\ read' = [read EXCEPT ![s] = NoRead]
  /\ ReleaseLocks(s)
  /\ UNCHANGED <<rowVars, pending, result, metric, acked, calls>>

\* An edge without a rule fails the statement and with it the transaction.
Raise(s) ==
  /\ \/ pc[s] = "banded" /\ Band(s) = "insert" /\ InsertFault(s)
     \/ /\ pc[s] = "judged" /\ read[s].novel
        /\ LinkFault(s, NoNode, LockKey(s)) \/ ReplaceFault(s)
     \/ /\ pc[s] = "judged" /\ ~read[s].novel
        /\ LinkFault(s, found[s].best, FType[content[found[s].best]])
  /\ Rollback(s)

\* The backend is killed or the client gives up before COMMIT.
Crash(s) ==
  /\ pc[s] \in {"waiting", "locked", "banded", "row", "judged"}
  /\ Rollback(s)

\* The counter a committed call bumps: write by its outcome, distinct only
\* when it inserted, import and supersede never.
MetricOf(op, outcome) ==
  CASE op \in {"write", "distinct"} /\ outcome = "inserted" -> "facts_stored"
    [] op = "write" /\ outcome # "inserted" -> "duplicates_prevented"
    [] OTHER -> "none"

\* The tail after COMMIT: bump_safe in its own transaction, which may fail
\* without failing the call, then the answer to the client.
Report(s) ==
  /\ pc[s] = "committed"
  /\ LET m == MetricOf(req[s].op, result[s]) IN
       \/ m # "none" /\ metric' = [metric EXCEPT ![m] = @ + 1]
       \/ metric' = metric
  /\ pc' = [pc EXCEPT ![s] = "idle"]
  /\ req' = [req EXCEPT ![s] = NoReq]
  /\ found' = [found EXCEPT ![s] = NoFound]
  /\ read' = [read EXCEPT ![s] = NoRead]
  /\ result' = [result EXCEPT ![s] = "none"]
  /\ UNCHANGED <<rowVars, pending, lock, acked, calls>>

\* A parked row passes its expires_at; resolve_duplicate then refuses it.
Expire(p) ==
  /\ pending[p].state = "parked"
  /\ pending' = [pending EXCEPT ![p].state = "expired"]
  /\ UNCHANGED <<rowVars, lock, pc, req, found, read, result, metric, acked,
                 calls>>

\* The operator archives a node (no verb under engraphy/ does it yet).
OperatorArchive(n) ==
  /\ "archive" \in Ops
  /\ status[n] \in {"active", "superseded"}
  /\ status' = [status EXCEPT ![n] = "archived"]
  /\ UNCHANGED <<content, origin, addenda, edges, pending, lock, pc, req,
                 found, read, result, metric, acked, calls>>

\* The clients have made their MaxCalls calls and all were answered.
Done ==
  /\ calls = MaxCalls
  /\ \A s \in Sessions : pc[s] = "idle"
  /\ UNCHANGED vars

\* What a session does once its call is validated.
Progress(s) ==
  \/ Acquire(s) \/ SelectCandidates(s) \/ ReadCanonical(s) \/ JudgeNovelty(s)
  \/ \E n \in NodeIds : CommitInsert(s, n) \/ CommitMergeLink(s, n)
  \/ CommitAbsorb(s)
  \/ \E p \in PendIds : CommitPark(s, p)
  \/ CommitReview(s) \/ Raise(s) \/ Report(s)

Call(s) ==
  \/ \E op \in {"write", "import"}, f \in Facts, peer \in LinkPeers :
       BeginWrite(s, op, f, peer)
  \/ \E p \in PendIds : BeginDistinct(s, p)
  \/ \E p \in PendIds, target \in NodeIds : BeginMerge(s, p, target)
  \/ \E old \in NodeIds, f \in Facts, peer \in LinkPeers :
       BeginSupersede(s, old, f, peer)

Next ==
  \/ \E s \in Sessions : Call(s) \/ Progress(s) \/ Crash(s)
  \/ \E p \in PendIds : Expire(p)
  \/ \E n \in NodeIds : OperatorArchive(n)
  \/ Done

Spec == Init /\ [][Next]_vars

\* Every session that entered a transaction keeps going: the event loop runs
\* it and the lock manager queues its waiters.  Nothing makes clients call.
FairSpec == Spec /\ \A s \in Sessions : WF_vars(Progress(s))

-----------------------------------------------------------------------------
(* Properties.                                                             *)

Pcs == {"idle", "waiting", "locked", "banded", "row", "judged", "committed"}
Outcomes == {"inserted", "merged_linked", "merged", "needs_confirmation",
             "review_queued"}

Requests == [op : OpKinds \cup {"none"}, fact : Facts \cup {NoFact},
             target : NodeIds \cup {NoNode}, pid : PendIds \cup {NoPend},
             peer : NodeIds \cup {NoNode}]
PendingRows == [state : {"none", "parked", "expired", "resolved"},
                fact : Facts \cup {NoFact}, cands : SUBSET NodeIds,
                peer : NodeIds \cup {NoNode}]

\* Every variable has its type: the rows of nodes, edges and pending_writes,
\* the advisory locks and each session's progress through _locked_core.
TypeOK ==
  /\ status \in [NodeIds -> Statuses \cup {"none"}]
  /\ content \in [NodeIds -> Facts \cup {NoFact}]
  /\ origin \in [NodeIds -> {"none", "insert", "merge_linked"}]
  /\ addenda \in [NodeIds -> Seq(Facts)]
  /\ edges \subseteq NodeIds \X NodeIds \X EdgeTypes
  /\ pending \in [PendIds -> PendingRows]
  /\ lock \in [NodeTypes -> Sessions \cup {NoSession}]
  /\ pc \in [Sessions -> Pcs]
  /\ req \in [Sessions -> Requests]
  /\ found \in [Sessions -> [best : NodeIds \cup {NoNode},
                             cands : SUBSET NodeIds]]
  /\ read \in [Sessions -> [addenda : Seq(Facts), novel : BOOLEAN]]
  /\ result \in [Sessions -> Outcomes \cup {"none"}]
  /\ metric \in [{"facts_stored", "duplicates_prevented"} -> Nat]
  /\ acked \subseteq Facts
  /\ calls \in 0..MaxCalls

\* Two active nodes of one type and scope at or above t_high.
Twins(a, b) ==
  /\ a # b
  /\ status[a] = "active" /\ status[b] = "active"
  /\ FType[content[a]] = FType[content[b]]
  /\ FScope[content[a]] = FScope[content[b]]
  /\ Sim[content[a]][content[b]] >= THigh

\* The concurrent-duplicate race never wins: of two active twins at least one
\* went through the merge band, so no two writers both inserted the same fact
\* because neither saw the other (the reason for _locked_core's advisory lock).
TwinsAreLinked ==
  \A a, b \in NodeIds : Twins(a, b) =>
    "merge_linked" \in {origin[a], origin[b]}

\* supersede is all or nothing whatever crashes or races: a superseded node
\* has its replacement's edge, and a node with such an edge is active no more.
SupersedeAtomic ==
  \A old \in NodeIds :
    LET replaced == \E n \in NodeIds : <<n, old, "supersedes">> \in edges
    IN  /\ status[old] = "superseded" => replaced
        /\ replaced => status[old] # "active"

\* Some node's cluster holds at least 80% of the fact's tokens.
KeptSomewhere(f) ==
  \E n \in NodeIds :
    /\ status[n] # "none"
    /\ 10 * Cardinality(FTokens[f] \cap Corpus(n))
         >= 8 * Cardinality(FTokens[f])

\* A fact the write path reported as stored stays represented in the space,
\* by its own row or by the cluster that absorbed it (I1 of the write path).
AckedFactsKept == \A f \in acked : KeptSomewhere(f)

\* A parked payload leaves pending_writes only once its fact is stored.
ParkedFactsKept ==
  \A p \in PendIds :
    pending[p].state = "resolved" => KeptSomewhere(pending[p].fact)

\* A step in which session s commits its transaction.
Commits(s) == pc[s] # "committed" /\ pc'[s] = "committed"

\* No entry of attrs.addenda is dropped or moved.
OnlyExtended ==
  \A n \in NodeIds :
    /\ Len(addenda'[n]) >= Len(addenda[n])
    /\ SubSeq(addenda'[n], 1, Len(addenda[n])) = addenda[n]

\* An error re-occurrence that was merged adds its own entry.
RecurrenceLogged ==
  \A s \in Sessions :
    LET c == found[s].best IN
    Commits(s) /\ result'[s] = "merged" /\ Reoccurs(s, c)
      => addenda'[c] = Append(addenda[c], req[s].fact)

\* attrs.addenda is a log that loses nothing: it is only ever extended, and each
\* error re-occurrence a caller is told was merged adds its own entry, though
\* _do_absorb writes back the list _merge_branch read two statements earlier.
\* Stated for the locked paths: resolve_duplicate's merge takes no lock.
AddendaGrow == [][OnlyExtended /\ RecurrenceLogged]_vars

\* One parked payload becomes at most one node: a resolution that adds a node
\* finds its pending row still there when it commits.
PayloadBecomesOneNode ==
  [][\A s \in Sessions :
       /\ Commits(s) /\ Resolves(s)
       /\ result'[s] \in {"inserted", "merged_linked"}
       => pending[req[s].pid].state # "resolved"]_vars

\* What was merge-linked once is absorbed when it is restated: no two active
\* members of one type and scope hold the very same body.
RestatedFactAbsorbed ==
  \A a, b \in NodeIds :
    /\ a # b
    /\ status[a] = "active" /\ status[b] = "active"
    => content[a] # content[b]

\* supersede only ever replaces a node that is active when it commits.
SupersedeReplacesActive ==
  [][\A s \in Sessions :
       /\ Commits(s) /\ Replaces(s)
       /\ result'[s] \in {"inserted", "merged_linked"}
       => status[req[s].target] = "active"]_vars

\* The links parked with a payload survive the park: once it is resolved, some
\* node carries its link (trap 8: applied on resolution).
ParkedLinksApplied ==
  \A p \in PendIds :
    /\ pending[p].state = "resolved"
    /\ pending[p].peer # NoNode
    => \E n \in NodeIds : <<n, pending[p].peer, "link">> \in edges

EdgesOf(type) == {<<e[1], e[2]>> : e \in {x \in edges : x[3] = type}}

\* One write at a time, without the sessions, the statements and the locks.
Serial == INSTANCE SerialWrite WITH
  SameTopic <- {t \in NodeTypes : RuleExists("same_topic", t, t)},
  cluster <- EdgesOf("same_topic"),
  replaced <- EdgesOf("supersedes"),
  asked <- {pending[p].fact : p \in {q \in PendIds : pending[q].state # "none"}}

\* The writes are serializable: what each one decided from statements that ran
\* earlier is what it would decide on the rows committed when it takes effect.
\* Stated for write, distinct and supersede, which decide under the lock.
SerialWrites == Serial!Spec

\* Every call that waits for the advisory lock is answered or rolled back.
WaitersServed ==
  \A s \in Sessions : pc[s] = "waiting" ~> pc[s] = "idle"
=============================================================================
