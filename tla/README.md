# Formal models of engraphy

TLA+ models of engraphy: the dedup write path, sharing and row-level security, the
searchable surface of nodes and its maintenance, the door of the server, and the
programs around them (reads, packs, import and export, restore drill, the Windows
stack, the agent hooks and the benchmark harness). TLC checks them on small
instances; TLAPS proves the central claims for every instance. Source paths below
are relative to `engraphy/` unless they start with `bench/`, `deploy/` or `agent/`.

## 1. Inventory of the system

engraphy is a memory server: agents store facts ("nodes") in a space and search
them. One Python process (asyncio, Starlette) serves MCP tools and `POST /inbox`
over PostgreSQL with pgvector; an operator runs `engraphy-admin` against the same
database; agents reach it through hooks; a benchmark harness measures it.

| component | state it keeps | operations | hard part | what makes it correct | module |
|---|---|---|---|---|---|
| dedup write path (`core/dedup.py`) | nodes, edges, pending_writes, dedup_log, advisory locks | write, import, resolve_duplicate, supersede | check-then-insert races, crashes before COMMIT, parked writes meeting a changed world | no unlinked duplicates, nothing acknowledged is lost, supersede all or nothing, serializable | `DedupWrite`, `SerialWrite` |
| novelty (`core/jaccard.py`) | none | is_novel | the 0.8 boundary | what is dropped is already represented | `DedupWrite` |
| update, surface rebuild, reembed, addenda promote (`core/update.py`, `admin/`) | text, attrs, extra_search, vector, stamp | edits in two transactions, batches | state read before the embedding, kills half-way | text and vector agree, archived rows frozen, completed commands reach every row | `NodeIndex` |
| gateway (`server/app.py`, `auth.py`, `db.py`, `tool_registry.py`) | rate windows, failure lists, pool queue | authenticate, dispatch, gate, throttle | several transactions per request, a bounded pool, restarts | revocation bites at once, exact windows, no pool deadlock | `Gateway` |
| visibility, row policies, network administration (`core/visibility.py`, `server/tools/admin.py`, `db/migrations`) | scopes, grants, principals, identity of a pooled connection | scope_create, visibility, grant, member add and archive | rules that change in mid-call, pooled identities | nothing unreadable held, nothing stored where it may not be | `Sharing` |
| link, inbox (`core/link.py`, `core/inbox.py`) | edges, inbox | link, capture, promote, discard | a promote is three transactions | whole batches, no capture lost | `Sharing` |
| search, traverse, get, recall, briefing (`core/`) | recall counters | the reads | several statements per read, caps, ties, partial dates | answers agree with their reference definitions | `Retrieval`, `Traverse`, `Briefing`, `OrderedRows`, `Fusion`, `Sharing` |
| attr_spec (`core/attr_spec.py`, migration 0028) | none | validate, sanitize | conditional keys, quarantine | a bad value never costs a memory | `AttrSpec`, `Packs` |
| packs (`admin/packs.py`, `doctor.py`, `server/aliases.py`) | registry tables, config | validate, apply, upgrade | scans that go stale, two operators | rows, rules and edges fit the registry | `Packs`, `PackFile`, `PackRules` |
| export, space import (`admin/export_.py`, `space_import.py`) | a bundle, id maps | passes over nodes, attributes, edges, statuses | kills and reruns over autocommit | the bundle arrives whole and once | `Transfer` |
| bulk import (`admin/import_.py`) | a report file | batches in import mode | bad lines, reruns | rerunning is safe | `BulkImport` |
| restore drill (`admin/verify_restore.py`) | a scratch database | restore, five checks, drop | lossy restores, kills | "ok" is earned | `RestoreDrill` |
| migrations, Windows stack (`admin/migrate.py`, `deploy/windows`) | the cluster on disk, pid files, dumps | bootstrap, upgrade, start, stop | power cuts at any step | no server on a foreign schema | `Stack` |
| agent hooks (`agent/claude-code/hooks`) | a marker file | session-start, prompt | timeouts, kills, one budget | what a session is told is whole and said once | `Hooks` |
| benchmark harness (`bench/`) | JSONL checkpoints, manifest, a run space | ingest, answer, judge, calibrate, report, supervise | kills, quotas, resumption | nothing twice, complete means graded | `Bench`, `RunMain`, `Providers` |
| metrics, pending list, tool registry | rollups | counters, listings | own transactions | - | in the above, partly |
| desktop application, VS Code extension | - | user interfaces | - | - | not modelled |

How they interact: every tool runs inside `db.transaction` on a pooled connection
(`Gateway` has the borrowing, `Sharing` the identity, `DedupWrite` the commit);
promote and the importers call the write path; the write path, the triggers and
pack upgrade read the registry; administration changes the rows that the gateway
and the policies read; the harness drives the engine as a library, its supervisor
drives the harness.

## 2. Modules

| module | models | checked by |
|---|---|---|
| `DedupWrite` | the write path | `dedup_*`, with `MCDedupWrite` |
| `SerialWrite` | its abstract specification | `dedup_race` |
| `Sharing` | policies, the tools that depend on them, administration | `sharing*`, with `MCSharing` |
| `NodeIndex` | update, the insert and absorb ends, maintenance | `index_*`, with `MCNodeIndex` |
| `Gateway` | the door | `gateway`, with `MCGateway` |
| `Retrieval`, `Traverse`, `Briefing` | the reads; `OrderedRows` is ORDER BY with LIMIT, `Fusion` the score of a hit | `programs`, with `MCPrograms` |
| `AttrSpec`, `PackRules` | operators of `Packs` and `PackFile` | `programs` |
| `Packs`, `PackFile` | upgrade against writes; validate, apply, doctor, aliases | `programs` |
| `Transfer`, `BulkImport`, `RestoreDrill` | the operator's batches | `programs` |
| `Stack`, `Hooks` | the Windows stack, the hooks | `programs` |
| `Bench`, `RunMain`, `Providers` | the harness's supervised run, its main, its model clients | `programs` |
| `DedupWriteProofs`, `SerialWriteProofs` | theorems about `DedupWrite` and its refinement | TLAPS |
| `SharingProofs`, `NodeIndexProofs`, `GatewayProofs` | theorems about the module each is named for | TLAPS |
| `OperatorProofs` | theorems about `RestoreDrill`, `Stack`, `BulkImport`, `Transfer`, `Packs`, `PackFile` | TLAPS |
| `HarnessProofs` | theorems about `RunMain`, `Bench`, `Providers` | TLAPS |
| `ReadProofs` | theorems about `Retrieval`, `Briefing`, `Hooks`, `Traverse` | TLAPS |

Definitions marked `Mutant:` are plausible bugs; no specification uses them.
Each stands before the definition it could replace.

### DedupWrite and SerialWrite

A session is a caller on its own pooled connection. Its transaction is cut where
a READ COMMITTED snapshot matters:

    BeginX (validation reads) -> Acquire (advisory lock on (space, type))
      -> SelectCandidates -> [ReadCanonical -> JudgeNovelty]
      -> one Commit action per outcome -> Report (bump_safe, the answer)

`BeginMerge` skips Acquire and SelectCandidates, as `resolve_duplicate(merge)`
does. The writes of a transaction become visible with its commit step, so `Crash`
and `Raise` (an edge the `edges_validate` trigger refuses) roll back everything.
`found` and `read` hold what earlier statements returned: they can be stale when
used, which is where the races live. Only `Report` follows COMMIT, and may lose
its bump.

A fact is one write request: type, scope, token set, happened_at and its
similarity to the other facts (`Sim`). Titles, attributes and bodies are only
what the code tells apart: bands (`SelectBand`), token overlap (`IsNovel`),
re-occurrence (`Reoccurs`). A resolved pending row is deleted by the code; the
model keeps it in state `resolved` so that properties can speak of its payload.
`acked` and `origin` (dedup_log's band) are history.

`SerialWrite` says what the write path promises: one write at a time, each judged
against the rows that are there when it takes effect. `DedupWrite` instantiates it
(`Serial`) with a refinement mapping that hides sessions, locks and stale reads;
`SerialWrites` is `Serial!Spec` as a property. It is stated for write, distinct and
supersede, which decide under the lock; the merge resolution does not refine it.

### Sharing

A tool call is a chain of statements, each a step under the rules committed when
it runs; the policies of `db/migrations` are the operators `Seen`, `NodesInsert`,
`EdgesInsert`, `InboxSeen`, `Listed`. `guc` is the identity that
`server/db.py` sets on a connection and that ends with the transaction. What the
write decides is only which of its outcomes is possible (`Outcomes`); how is
`DedupWrite`'s. `hidden` is history: what a transaction's caller could not read
at any moment of it so far.

### NodeIndex

A vector is the document it was computed from and the stamp of its model, so
"the vector agrees with the row" is an equation. `update` is `BeginUpdate`
(the read, which decides whether the text changed) followed by `UpdateInPlace` or
`UpdateReembedded`; even the in-place path has two statements, a SELECT without
FOR UPDATE and an UPDATE of whole columns. Absorbs of one row may overlap: a merge
resolution takes no lock (`dedup.py:1224`). Maintenance commands scan in one
transaction (`AdminStart` takes a snapshot) and write in batches of `BatchSize`;
`AdminCrash` leaves the committed batches. `quiet` is an operator's policy fixed
initially: edits one at a time, and maintenance while no call is in flight.

### Gateway

A worker is a request in flight. Each stage (token, principal, lookup, limits,
run) asks the pool for a connection after giving back the last one, as the
`async with` blocks do; `queue` is the pool's waiting list, first in first out.
Between two awaits asyncio runs one request only, so a stage is one action:
prune, compare and append in `RateLimiter.check` cannot be interleaved, while
`is_banned` and `record_failure` of one request can, having two lookups between
them. `barred` remembers why a request's bearer was already refused on arrival.
The stamp on `api_tokens.last_used_at` is left out: nothing reads it.

### The programs

The components of `MCPrograms` share no state. Each is a module with an Init, a
next-state relation and an `Over`; `focus` picks the one that runs, so that one
run checks them all and the state space is their sum.

* `Retrieval`, `Briefing`: every query is a statement of its own and rows change
  between them, those of a briefing's semantic section too, which runs the same search. How near nodes are is given; ranks, fusion, collapse, date
  bounds, caps and order are computed. A query that orders and cuts returns the set
  `FirstOf(rows, order, limit)`; the collapse takes one id per step, in rank order,
  and `Scale` is the common multiple that makes 1/(k + rank) an integer.
* `Traverse`: one call over a given graph, statement by statement. The recursive query
  is one statement under one snapshot (`asked.rows`); its levels are steps (`WalksOn`)
  that nothing can come between. A row has the edges it took and the nodes it passed,
  so two ways over parallel edges are two rows, as UNION ALL counts them for LIMIT.
  Then come the cut, one read per hop of a merge chain (`ReadsRow`, which may fail the
  call), the hydration and the recall bump, with commits of others between them. The
  answer is compared with walks and merge chains as sequences of nodes (`Walks`,
  `MergeChains`), which know nothing of levels, rows or limits.
* `Packs`: an upgrade's statements against writes, updates and links, with the waits that
  foreign keys cause: an insert waits on a registry row the upgrade deleted, a DELETE on
  an insert not committed. The trigger runs at the insert; at the commit nothing is
  checked again, and an upgrade may run in between. `PackFile`: validate, apply
  by operators that interleave, doctor, aliases, sections.
* `Transfer`, `BulkImport`: autocommit passes with kills, reruns, and clients who
  change the target. `Transfer` is given how near two contents are; whether a write at or
  above t_high absorbs or stores a member is left open there, as novelty against a
  cluster decides it and may go either way even for a content the cluster holds.
  `BulkImport` has the words and decides it: a row keeps the facts of its addenda and of
  its same_topic peers, and a line is stored when too few of the words are shared.
  A pass of `Transfer` goes node by node and keys what it made by source id, as the
  importer's id map does.
* `RestoreDrill`: what a restore loses is nondeterministic; the checks are steps. Each
  reads the restored database alone, so that the drill skips what it does not find there:
  a space, a sentinel's config row, the registry the CHECKs of nodes are probed with.
* `Stack`: what is on disk survives a kill at any step; verbs are re-run.
* `Hooks`: calls answer, fail, answer late or hang against one budget of the process, or
  end it by an HTTPException, which the client does not catch. The text is drafted
  section by section, node by node, and goes out whole.
* `RunMain`: main around the harness's phases, with provisioning, attaching,
  calibration, manifest and teardown. `Providers`: pacing, retries and launch waits of
  clients that threads share; a window is the set of its numbered, timed posts.

### Bench

A supervisor relaunches runs over append-only files; kills may tear a line. The run
directory is new or holds what a smaller command left when it completed
(`EarlierRuns`): main reads that manifest again and keeps it, skips its scopes and
answers, and its report stands until a report phase renders another (`manifest.own`).
An answer row carries the key the code gives it, (arm_id, question_id), and the place
of the arm that asked: two arms that differ in their categories alone have one arm_id
(`ArmCells` may overlap), and each of them asks a question they share.

## 3. Runs and what they show

| run | instance | result |
|---|---|---|
| `dedup_all` | 2 sessions, 3 node ids, 2 parked rows, 4 facts, 3 calls of any kind, links, refusing edge rules, archival | `TwinsAreLinked`, `SupersedeAtomic`, `ParkedLinksApplied` hold |
| `dedup_race` | 2 sessions, 3 calls of write, distinct, supersede over a re-occurring error, fairness | `AckedFactsKept`, `ParkedFactsKept`, `AddendaGrow`, `WaitersServed` and the refinement `SerialWrites` hold |
| `index_all` | 2 clients, 3 nodes and the sentinel, 3 calls, 2 commands, 1 change | `QuietIndexMatchesRow`, `PromotedOnce`, `MaintenanceComplete`, `ArchivedFrozen` hold |
| `gateway` | 2 workers, pool of 1, 2 tokens, 3 requests, window of 2 ticks | `LimitsExact`, `RunsAuthorized`, `EveryRequestAnswered` hold |
| `sharing` | 2 sessions and connections, 3 principals, 3 scopes, 3 nodes, 2 captures, 3 calls out of 17 | `HiddenStaysHidden`, `StoresOnlyWritable`, `BatchesWhole`, `PromotedHasFact` hold |
| `programs` | the instances at the head of `MCPrograms` | the sixteen properties of the thirteen programs hold |
| `dedup_v_payload` | merge resolutions | one parked payload becomes two nodes |
| `dedup_v_restated` | one session, two near facts | a fact restated after another joined its row becomes a second member |
| `dedup_v_supersede` | 2 supersedes | a node no longer active is replaced |
| `index_v_dual` | 2 clients | text and vector of a row part |
| `index_v_addenda` | an update and an absorb | an addendum is lost |
| `sharing_v_teamread` | a reader of a team-read scope | its search is refused by the UPDATE policy of the recall bump |

Every passing run checks a type invariant too, except `dedup_race`, whose module's
is checked by `dedup_all`.

The programs of `programs` share no state; `focus` picks the one that runs. Of the
supervised run (`Bench`): nothing is stored, asked by an arm or graded twice
(`NothingTwice`); a run read as complete from its own manifest is
(`CompleteMeansGraded`); usage limits and launch outages pause a run until it completes
or the supervisor says it gives up (`PausedNotBroken`, liveness, checked there as
`RunPausedNotBroken`; it excepts a run that fewer judge errors than the breaker's left
judged in part, where the supervisor halts). The others, each in full in its module:
`RunGrounded` (answers, verdicts and the quota mark rest on what they name),
`ClientsKeepTerms` (the providers' windows), `WalkFaithful` (`Traverse`),
`SearchLosesNothing` (`Retrieval`), `BriefingFaithful` (`Briefing`), `ImportSafe`,
`BulkRerunSafe`, `DrillHonest`, `PackSound`, `ValuesNeverRefuse`, `PackFileHonest`,
`StackReady`, `HookHonest`.

The bounds. Two actors are enough for every hazard listed, which are all of one
actor's stale read against another's commit; three node ids give a canonical, its
member and a newcomer, which is what a cluster verdict needs; three calls
let one call park, a second change the world and a third resolve. `CandidateLimit`
is 2 rather than 5 so that the LIMIT cuts with three nodes. The facts of
`MCDedupWrite` sit on both sides of each boundary: equal words on another date, above
`t_high` with new words, between the thresholds, another type without edge rules,
an ambient scope. `BatchSize` is 2 so that three rows need a partial last batch.
A pool of one makes any waiting while holding a deadlock. Times 0..2 with a window
of 2 ticks reach the cutoff exactly. In `programs`: of the supervised run two arms,
two windows, a new directory or an earlier run's, two cycles and two faults, where the
errors of one outage count as one fault, so that both of the supervisor's limits
(`MaxCycles`, and more than one outage in a row) are reached; a graph with a
cycle, parallel edges, merged chains longer than `ChainCap` and limits below 1 and above the cap; five
hits on two legs with a chain of near-duplicates; one commit of another transaction
between the statements of a read, at every place (`MaxRowChanges` and `MaxChanges` are 1); sources with each status an
import must restore; two runs of an import with a kill anywhere in the first;
two deaths in the life of the Windows stack, so that a recovery is cut off too; a hook
budget that the second slow call exhausts. Counters the code does not have
(`MaxCalls`, `MaxRuns`, `MaxKills`, `MaxTime` and the like) are bounded by those
constants; `Done` lets a run end where they are used up. Permuting sessions, connections,
ids and, in NodeIndex, texts and stamps maps behaviours to behaviours, so
symmetry is sound there; no run with a liveness property uses it.

Fairness. `DedupWrite!FairSpec` asks weak fairness of each session's `Progress`:
the event loop resumes a coroutine whose query returned, and PostgreSQL queues
the waiters of a lock first in first out. `Crash` may still happen at any
time. Weak fairness is enough because the run has boundedly many calls: a lock
cannot be taken over and over ahead of a waiter, which in the database the queue
guarantees. `Gateway!FairSpec` asks it of `Serve`: a request that was handed its
connection goes on. The pool's order is in the model, so nothing is assumed about
when a connection comes. `Bench!FairBenchSpec` asks it of `Unattended`: a supervisor
that runs and the run it launched go on, while an operator need not rerun it; faults
and kills are bounded, so they end. `MCPrograms!Spec` asks the same of that program
(`Goes`). No fairness is asked of clients, operators, clocks or failures elsewhere.

What the violation runs show. The advisory lock protects what runs under it:
properties of the locked paths hold. What is checked before the lock (supersede's
status check) or never takes it (the merge resolution) races. `update` has no lock
or row version at all, and `surface rebuild` none against `update`. The restated fact
needs no concurrency:
novelty is the share of words a body has in common with the nearest row's body and
those of its same_topic peers together, so once a peer has joined, the row's own
body written again shares too little with the enlarged corpus (4 of 6 words in the
trace, below 0.8) and becomes a second member. `AddendaGrow` and `SerialWrites` are therefore stated for the
locked paths only, and `QuietIndexMatchesRow` for one edit at a time. A search
bumps the recall counters of what it found, which a principal with a read grant,
or in a team-read scope, may not do.

### Known divergences

Where a doc, a comment or an intention and the code part and no run is spent on it,
the property is stated with the exception named. They are, by component:

* gateway: of a request whose principal is archived and whose token is revoked before
  the principal is restored, the token can be found valid first and the principal active
  later (two transactions), so `RunsAuthorized` is stated per cause. A rate limit of
  zero or less refuses through an `IndexError`. Two space admins can archive each other
  in overlapping transactions.
* packs: an upgrade's scan does not see the writes that commit after it; rows let in by
  `--allow-nonconforming` fail the trigger again at the recall bump of a read; a bad value of
  a key that another key requires refuses the write.
* pack files: validate accepts a link section without `edge` and an attribute bound
  without `key`, which fail at every briefing, an alias named like a core tool, which
  fails every tool list and every call of any alias of the file, and ISO dates in the basic form as bounds. doctor compares edge
  types by name only.
* reads: traverse raises on a canonical the caller cannot read; a briefing's linked
  nodes ignore status and the requested scope, and a node withdrawn between its section
  and the recall bump is shown and not counted, where `briefing.py:27` counts what was shown.
* space import: statuses and archived scopes are restored only for rows created in
  that run, so what a killed run made stays active and `ImportSafe` asks statuses only of
  the rows of the run that ends; a parked row is parked
  again by a rerun, where the module's docstring says it writes nothing new; the principal may store a content twice, as
  `dedup_v_restated` shows; a quarantined required attribute in the source aborts. The export
  reads nodes and edges in separate statements.
* bulk import: a bad line is found when its batch is read, after earlier batches
  were written; a rerun is no no-op, as `import_.py:20-22` has it: a line whose row was
  joined by another is judged against the words of both and may be stored again, without
  bound, since each copy is linked to the first, whose corpus stays too large.
* restore drill: a space that is not in the restored database, or whose config row was
  lost, is not missed, where `verify_restore.py:188-190` calls that the failure the drill
  exists to catch; an error of `pg_restore` in another locale is unseen.
* Windows stack: a kill between the space and its pack leaves a space without
  ontology for good (`cut`); a second `run` that cannot bind stops the database
  under the first.
* hooks: nodes dropped beyond ten are unnamed, and linked ones always: they
  are fetched and counted, and rendered nowhere; a start where one of two reads failed is taken for a briefing; one
  that an HTTPException ends says nothing, where `engraphy_cue.py:26-29` wants no quiet
  gap; a prompt that ends so, or is
  killed after its claim, loses what it would have shown.
* harness: a usage limit during ingest marks the scope done; fewer than eight reader
  errors in a row leave questions open that completeness ignores; a torn line or
  manifest makes later runs raise; the supervisor's lock is a check and a write;
  the limiter of the Gemini client is not shared between rows, and that of a shared one
  is raced: two threads in the throttle together post more than `rpm` in a minute; the
  output-cap switch costs the calls in flight, and an attempt, which `bench/core/providers.py:995`
  denies. A half-provisioned or half-torn space is attached to as whole (`halfDone`),
  where `bench/core/run.py:1218` has its pack applied; a kill after a stop, before the manifest,
  forgets the stop, and so does a judging with errors (`bench/core/run.py:1681`); a probe of an arm
  the command does not name ends the run (`bench/core/run.py:1158`).
* supervisor: a report and a manifest that a smaller command left in the directory are
  read as the completion of a larger one that died in its first cycle
  (`bench/supervise.py:227`); a launch outage or a rate limit that fewer than five judge calls
  in a row meet halts it, where a relaunch would grade the rows (`bench/core/run.py:784`).
* maintenance: a surface rebuild gives a row edited since its scan the vector of its old
  text, and the equal `extra_search` hides it from the next rebuild (`surface.py:94`).

## 4. Proofs

Every theorem is about every value of the constants, from the named assumptions of the
modules, which TLC evaluates in the runs. Each has the same form: an inductive invariant
that the runs' small instances agree with, a lemma that `Init` implies it, a lemma (one
step per action) that every step keeps it, and a lemma that it implies the property.
What follows says why the property alone is not inductive and what was added.

### The write path (`DedupWriteProofs`, `SerialWriteProofs`)

`TypeCorrect` (`[]TypeOK`), `NoReactivation` (no step makes a superseded or archived node
active again, stated there as an action property), `NoUnlinkedTwins` (`[]TwinsAreLinked`),
`SupersedeIsAtomic` (`[]SupersedeAtomic`), `ParkedLinksSurvive` (`[]ParkedLinksApplied`), for
every set of sessions, nodes, facts, types and scopes, every similarity and every bound.

* `WellFormed` is inductive by itself: types, and every id held by a session or a parked
  row names an existing row. `Exclusive`: whoever is between the lock and COMMIT holds the
  lock of its type. `Fresh`: until it commits, the best candidate of a lock holder is at
  least as near as any row it would twin with. The step that could break
  `TwinsAreLinked` is an insert decided on candidates read earlier; `Fresh`, kept because
  nobody else inserts in that type while the lock is held, rules it out. The unlocked
  merge may insert meanwhile, but only as `merge_linked`, which `TwinsAreLinked` allows.
* `SupersedeAtomic` needs `WellFormed` only: replacement, edge and flip are in one commit.
* `ParkedLinksApplied` needs `Payload`: a resolution runs with the fact and the link of its
  parked row, which is never rewritten.

`SerialWriteProofs` proves what holds of the calls that decide under the advisory lock:
`AckedStayKept` (`AckedFactsKept`), `ParkedStayKept` (`ParkedFactsKept`), `AddendaOnlyGrow`
(`AddendaGrow`), and the refinement `WritesAreSerial` (`SerialWrites`). They have a
hypothesis on the constant `Ops`, the kinds of call there are. `NoMerge` leaves out the merge
resolution, which never takes the lock: with it the statements are false of the code, as
`dedup_v_payload` shows. `NoArchive`, for the refinement only, leaves out the operator's
UPDATE outside every lock: one between a candidate query and its commit makes the
verdict one about a row that is no longer active. `dedup_race` has the `Ops` of the refinement.

* `View`: who waits for the lock or holds it is one of the locked kinds (`Locked`), its
  best candidate is of the type it holds the lock of (`BestTyped`), and what it read of
  the canonical is still so (`Judged`): the novelty verdict is the one it would reach
  now. Kept because addenda and cluster edges of a type change under its lock only.
* `ResolvedAcked` ties a pending row that left to its fact. Words once covered by a row and
  its cluster stay covered, since rows, edges and addenda only grow.
* `Nearby`: the candidate found is the nearest of the rows as they are now. The refinement
  maps a commit to the one write of `SerialWrite` with that verdict, every other step to
  a stutter; one lemma per commit.

### Sharing (`SharingProofs`)

`AllTyped` (`[]TypeOK`), `NothingHiddenShown` (`[]HiddenStaysHidden`), `OnlyWritableStored`
(`StoresOnlyWritable`), `NoCaptureLost` (`[]PromotedHasFact`), `WholeBatchesOnly`
(`BatchesWhole`), for any principals, scopes, connections and calls.

`HiddenStaysHidden` is not inductive: a statement could read as somebody else.
`CallInv` adds that a connection serves one transaction at a time and carries its
principal's identity (`OwnConnection`), that what `hidden` holds is unreadable now
(`HiddenUnread`), and that nodes are held only in the last stages of a read (`GotLate`). The
steps are grouped by what they do to a call: it moves on, a transaction ends, one begins,
the rules change; a lemma each. `Storing` says which request is at which stage and that a
promote past its write has stored. For types and batches, `Named` gives each stage its
tool, `Halfway` that a link call has looked at two endpoints of each edge it has inserted,
`Rows` and `Counts` the rest.

### Nodes and their surface (`NodeIndexProofs`)

`TypeCorrect` (`[]TypeOK`), `ArchivedStaysFrozen` (`ArchivedFrozen`), `QuietIndexConsistent`
(`[]QuietIndexMatchesRow`), `CompletedMaintenance` (`MaintenanceComplete`),
`PromotedAtMostOnce` (`[]PromotedOnce`), for any clients, nodes, texts, batch size and crashes.

`WellFormed` is typing with what a call in flight plans (`PlanOK`), what a command still has
to rewrite (`TodoOK`), and the profile that stands still under both (`StampOK`).
`ReembedLeft`: all that is left of other vector spaces is in the running reembed's list, so
an empty list is completeness, though clients write meanwhile. `QuietSurface`: in a
quiet window what a command scanned of a row is what the row shows. `QuietAddenda`: an
addendum has one row, has no member until it is marked, and the one an absorb is about to
add is new; a list only ever descends from the one before it (`Descends`).

### The door (`GatewayProofs`)

`OnlyAuthorizedRun` (`RunsAuthorized`), `PoolNeverOverdrawn` (`[]TypeOK`, which says who may hold
and who may wait), `WindowsExact` (`LimitsExact`), for any workers, tokens, names, pool size,
limits, window and restarts. `GateInv` is a conjunction of parts proved one on another:

* `DoorInv`: what the stages passed have established of a request (`Gated`), and that
  one which must not run is still before the lookup that refuses it (`Barring`);
* `PoolInv`: the requests in flight are those that hold a connection or wait for one,
  never both, at most `PoolSize` of them the former, the queue without repetition;
* `WindowInv` and `RateWindow`: a limiter's deque holds the last entries of the history,
  and every entry it has lost is out of the window, so no window of the history
  holds more than its limit, counted by cardinality;
* `BanInv`: a source overshoots its ban by the requests judged before the last refusal,
  each a worker's; `Ledger`: what the operator writes.

### What an operator runs (`OperatorProofs`)

* `OkIsEarned` (`[]DrillHonest`): `Established` is what each step of the drill has found when
  it hands over to the next, `Passed` what it is for a space to be passed by.
* `StackComesUpWhole` (`[]StackReady`): a step of a verb stands on those before it, whoever
  took them (`StoodOn`); the ledger never passes the build, and a migration begins once
  the ledger it leaves is dumped (`Dumped`). `Kept` and `Around` say what any step may do to
  the disk and to the processes, so that the 26 actions are not split again per conjunct.
* `RerunsAreSafe` (`[]BulkRerunSafe`): the lines read are good and in whole batches
  (`ReadInv`), a row a run made stays a candidate while nobody else changes the store, and
  whatever is said with it is within t_high of it (`MadeInv`), so a rerun finds it and only
  another fact's words can make it novel. A text that is not novel has four fifths of its
  words in the corpus (`NotNovel`), which only grows (`CoverGrows`).
* `BundleArrives` (`[]ImportSafe`): what an import is about to insert as distinct is in no row
  (`Unheld`), so every row it makes is the first of its content; a node the first pass has met is held, parked or refused (`NodesMet`); the
  status pass touches rows of its own run only, each by the nodes met so far
  (`StatusesDue`); edges that could be placed are (`EdgesPlaced`).
* `RegistrySound` (`[]PackSound`) and `BadValuesStored` (`[]ValuesNeverRefuse`): an upgrade may
  commit after any of its statements, so the draft it has built fits what is stored by
  then (`DraftFits`). That is the strengthening: writes and statements of the upgrade
  interleave, and neither sees the other's.
* `ValidFilesLive` (`[]PackFileHonest`): an apply that is alone is the only one in flight,
  over a bare registry (`AloneInv`), and what is registered is one whole file and the hand
  edits since (`HeldInv`).

### The harness (`HarnessProofs`)

* `ReportsRest` (`[]RunGrounded`): `Provisioned` (a space no cut-off left behind is whole)
  carries `Ingested` (a scope marked done has its facts); `Stopped` relates the stop in the
  process, the debt and the manifest.
* `NothingRunTwice` (`[]NothingTwice`) and `CompleteIsGraded` (`[]CompleteMeansGraded`): one
  process at a time (`Supervised`); how far the scope at hand is cleared and written
  again (`StoreInv`); what a phase has in flight is not in the file yet (`CellsInv`, row
  by row, since arms may share an arm_id); a manifest of the command's own that reads as
  complete is one the supervisor can read only from the run that earned it
  (`CompleteInv`). `BenchDistinct` assumes that a scope and a draft of a window are each
  listed once; `EarlierAssumption`, that an earlier run was itself exact.
* `TermsKept` (`[]ClientsKeepTerms`): but for an overlap, what a thread in the throttle has
  read of the window is the window still (`Alone`); `Bounded`, `Counted` and `Learned` are the
  per-minute limit, the daily count and the name of the output cap.

### The reads and the hooks (`ReadProofs`)

* `NoHitLost` (`[]SearchLosesNothing`): ranks are a strict total order of the hits; the readable
  hits are hydrated and their near pairs read (`ReadSoFar`); the collapse keeps its ids in
  rank order, no two near, and has dropped an id for a kept one that ranks before it
  (`Collapsed`); an answer is the top of that (`AnswerTop`). What a commit between two
  statements takes away is the only other way for a hit to be missing.
* `BriefingsFaithful` (`[]BriefingFaithful`): `PageSound` says of each section shown what it
  promised of the rows as it read them, `RecallsCounted` that what is shown and still
  readable is what was bumped, `HintsSound` that a hint finds no sentinel.
  The lemmas say what ORDER BY with LIMIT returns of any finite set under a strict total
  order (`FirstRowsKept`), that partial ISO dates compared as texts are one
  (`DatesApart`, `DatesChain`), and where the days of a period lie in it (`Periods`,
  `PeriodEnds`, `PeriodStarts`, and for a section's bounds `BoundsMet`).
* `SessionsToldOnce` (`[]HookHonest`): a node the draft has passed is met, and what a start
  meets is shown or dropped (`Drafted`, `Starting`). Until the hint is claimed the marker
  knows every node injected since the start, and a draft that leaves those out repeats
  none (`Hinting`); between processes what was fetched is accounted for (`Accounts`). The
  marker is written one step before the text it speaks of, so all of this holds only of a
  start that no kill and no unhandled error cut short (`cut`).
* `WalksAreFaithful` (`[]WalkFaithful`), with `WalksWellTyped` from the same invariant. At level
  k the rows reach, no later, whatever a walk of at most k steps leads to (`ReachesAll`):
  the last step of a shortest walk extends a row of depth exactly k, whose path cannot
  hold the node already (`NextLevel`). The rows are weakly ordered, so what comes before a
  row kept is kept, ties or not (`CutsDown`): hence the depths stay exact after the cut, and
  the node an edge came from is there (`RowsKept`). During the chase one chain leads from
  the node to the row at hand, and every complete chain goes that way (`Leads`, `OnlyWay`),
  so the canonical found is the only one (`ResolvesTo`). Commits between statements leave
  the chains alone, and an archive or a withdrawal stands (`RowChangeInv`), so what was
  hydrated still answers for what was walked (`Answered`).

### Only model-checked

`MCPrograms!TypeOK`, which puts the thirteen programs' types together; the
proofs about them carry the types they need in their invariants. `WaitersServed`, `EveryRequestAnswered` and `PausedNotBroken`: liveness, and the
fairness it rests on, are outside the prover's reach. No module uses a RECURSIVE operator.

## 5. Not modelled

The desktop application and the VS Code extension (user interfaces around calls
modelled here), the container files, dataset adapters, prompts and scoring
arithmetic of the benchmarks, `core/rerank.py` (called from nowhere in the engine),
the embedding computation. In what is modelled: the resonance report, audit rows, listings
and statistics that only read, wire validation (`wire_types.validate`, a pure check
before any state), doctor's other checks (counts), `--dry-run` and argument parsing.
`PROJECT.json` has the status and the reason for each component.

## 6. Plan

1. The merge resolution under the lock, or with a version check, would lift `NoMerge`:
   state what the code would have to do for it.
2. Composition: `Packs` with `Transfer`, an upgrade between two passes of an import.
3. The divergences of section 3 as violation runs when the code or its docs are about to
   change.
