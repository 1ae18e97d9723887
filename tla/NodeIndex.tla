------------------------------ MODULE NodeIndex ------------------------------
(***************************************************************************)
(* The searchable surface of nodes: what update (engraphy/core/update.py), *)
(* the insert and absorb ends of the write path, and the maintenance       *)
(* commands of engraphy-admin (surface rebuild, reembed, addenda promote)  *)
(* do to a row's text, attrs, extra_search, vector and addenda.            *)
(*                                                                         *)
(* The embedding is computed outside every transaction, so each operation  *)
(* here reads in one transaction and writes in a later one.  A vector is   *)
(* modelled by the document it was computed from and the stamp of the      *)
(* model that computed it.                                                 *)
(***************************************************************************)
EXTENDS Integers, Sequences, FiniteSets

CONSTANTS
  Clients,      \* agents calling the server concurrently
  Nodes,        \* uuids of nodes rows
  Sentinel,     \* the row `space create` mints, archived from birth
  Texts,        \* title + body, as one value
  Values,       \* values of the type's searchable attr
  Blank,        \* the empty text: a missing attr, an empty extra_search
  Keep,         \* an update argument that is not given
  Stamps,       \* MODEL_STAMPs of the embedding profiles
  ConstStamp,   \* the sentinel's embedding_model marker
  BatchSize,    \* _BATCH, 100 in the code
  Windows,      \* the operator policies considered, see quiet
  MaxCalls,     \* bound on client calls
  MaxCommands,  \* bound on admin commands
  MaxChanges,   \* bound on flag flips, profile switches and archivals
  NoNode

ASSUME IndexAssumption ==
  /\ Sentinel \in Nodes /\ NoNode \notin Nodes
  /\ Keep \notin Texts \cup Values /\ Blank \notin Texts \cup Values
  /\ ConstStamp \notin Stamps
  /\ BatchSize \in Nat \ {0}
  /\ Windows \subseteq BOOLEAN
  /\ MaxCalls \in Nat /\ MaxCommands \in Nat /\ MaxChanges \in Nat

VARIABLES
  node,       \* [Nodes -> row]
  surfaceOn,  \* config write.attr_surface
  profile,    \* MODEL_STAMP of the running engine
  quiet,      \* the operator's policy: one edit at a time, and maintenance
              \* only while no call is in flight
  pc,         \* [Clients -> where its call stands]
  plan,       \* [Clients -> what the first transaction of its call decided]
  admin,      \* the running engraphy-admin command
  calls, commands, changes

vars == <<node, surfaceOn, profile, quiet, pc, plan, admin, calls, commands,
          changes>>

NoRow == [status |-> "none", text |-> Blank, value |-> Blank, extra |-> Blank,
          doc |-> <<Blank, Blank>>, stamp |-> ConstStamp, addenda |-> <<>>,
          source |-> 0]
SentinelRow == [NoRow EXCEPT !.status = "archived"]

NoPlan == [node |-> NoNode, text |-> Blank, value |-> Blank, extra |-> Blank,
           addenda |-> <<>>, stamp |-> ConstStamp, id |-> 0]
IdleAdmin == [cmd |-> "none", pc |-> "idle", todo |-> {}, on |-> FALSE,
              snap |-> [n \in Nodes |-> NoRow], target |-> ConstStamp]

\* render_attr_surface behind the write.attr_surface flag.
Render(value, on) == IF on THEN value ELSE Blank

Exists(n) == node[n].status # "none"
Unmarked(as) == {i \in 1..Len(as) : ~as[i].promoted}

Init ==
  /\ node = [n \in Nodes |-> IF n = Sentinel THEN SentinelRow ELSE NoRow]
  /\ surfaceOn \in BOOLEAN
  /\ profile \in Stamps
  /\ quiet \in Windows
  /\ pc = [c \in Clients |-> "idle"]
  /\ plan = [c \in Clients |-> NoPlan]
  /\ admin = IdleAdmin
  /\ calls = 0 /\ commands = 0 /\ changes = 0

-----------------------------------------------------------------------------
(* Client calls: write, update, and the absorb of a duplicate.             *)

Editing(c) == pc[c] \in {"inplace", "embedding"}

\* The first transaction of a call: p is decided, the call goes to step next.
Begin(c, next, p) ==
  /\ pc[c] = "idle"
  /\ calls < MaxCalls
  /\ quiet => admin.pc # "running"
  /\ calls' = calls + 1
  /\ pc' = [pc EXCEPT ![c] = next]
  /\ plan' = [plan EXCEPT ![c] = [p EXCEPT !.id = calls']]
  /\ UNCHANGED <<node, surfaceOn, profile, quiet, admin, commands, changes>>

End(c) ==
  /\ pc' = [pc EXCEPT ![c] = "idle"]
  /\ plan' = [plan EXCEPT ![c] = NoPlan]
  /\ UNCHANGED <<surfaceOn, profile, quiet, admin, calls, commands, changes>>

\* embed_with_attr_surface, before the write transaction.
BeginWrite(c, t, v) ==
  Begin(c, "writing", [NoPlan EXCEPT !.text = t, !.value = v,
                                     !.extra = Render(v, surfaceOn),
                                     !.stamp = profile])

\* _do_insert: text, attrs, extra_search and vector in one INSERT.
CommitWrite(c, n) ==
  LET p == plan[c] IN
  /\ pc[c] = "writing" /\ ~Exists(n)
  /\ node' = [node EXCEPT ![n] =
       [status |-> "active", text |-> p.text, value |-> p.value,
        extra |-> p.extra, doc |-> <<p.text, p.extra>>, stamp |-> p.stamp,
        addenda |-> <<>>, source |-> 0]]
  /\ End(c)

\* Mutant: an attrs-only change never re-embeds.
BeginUpdateTextOnly(c, n, t, v) ==
  LET r == node[n]
      text == IF t = Keep THEN r.text ELSE t
      value == IF v = Keep THEN r.value ELSE v
      extra == Render(value, surfaceOn)
      reembed == text # r.text
  IN  /\ r.status = "active"
      /\ quiet => \A d \in Clients : ~Editing(d)
      /\ Begin(c, IF reembed THEN "embedding" ELSE "inplace",
               [node |-> n, text |-> text, value |-> value, extra |-> extra,
                addenda |-> r.addenda, stamp |-> profile, id |-> 0])

\* Mutant: an argument not given is stored as it is.
BeginUpdateVerbatim(c, n, t, v) ==
  LET r == node[n]
      text == t
      value == IF v = Keep THEN r.value ELSE v
      extra == Render(value, surfaceOn)
      reembed == <<text, extra>> # <<r.text, r.extra>>
  IN  /\ r.status = "active"
      /\ quiet => \A d \in Clients : ~Editing(d)
      /\ Begin(c, IF reembed THEN "embedding" ELSE "inplace",
               [node |-> n, text |-> text, value |-> value, extra |-> extra,
                addenda |-> r.addenda, stamp |-> profile, id |-> 0])

\* update, phase 1: the current row decides the new one, and whether the
\* searchable text changed.  An archived row is refused.
BeginUpdate(c, n, t, v) ==
  LET r == node[n]
      text == IF t = Keep THEN r.text ELSE t
      value == IF v = Keep THEN r.value ELSE v
      extra == Render(value, surfaceOn)
      reembed == <<text, extra>> # <<r.text, r.extra>>
  IN  /\ r.status = "active"
      /\ quiet => \A d \in Clients : ~Editing(d)
      /\ Begin(c, IF reembed THEN "embedding" ELSE "inplace",
               [node |-> n, text |-> text, value |-> value, extra |-> extra,
                addenda |-> r.addenda, stamp |-> profile, id |-> 0])

\* The row an UPDATE of the planned text and attrs leaves.  The addenda go
\* with attrs, as they were read.
Replaced(r, p) ==
  [r EXCEPT !.text = p.text, !.value = p.value, !.extra = p.extra,
            !.addenda = p.addenda]

\* The searchable text did not change: same transaction, no vector.
UpdateInPlace(c) ==
  LET p == plan[c] IN
  /\ pc[c] = "inplace"
  /\ node' = IF node[p.node].status = "archived" THEN node
             ELSE [node EXCEPT ![p.node] = Replaced(@, p)]
  /\ End(c)

\* Mutant: phase 2 without `status <> 'archived'`.
UpdateArchivedToo(c) ==
  LET p == plan[c] IN
  /\ pc[c] = "embedding"
  /\ node' = [node EXCEPT ![p.node] =
       [Replaced(@, p) EXCEPT !.doc = <<p.text, p.extra>>, !.stamp = p.stamp]]
  /\ End(c)

\* update, phase 2: the vector of the planned text goes with it.
UpdateReembedded(c) ==
  LET p == plan[c] IN
  /\ pc[c] = "embedding"
  /\ node' = IF node[p.node].status = "archived" THEN node
             ELSE [node EXCEPT ![p.node] =
                     [Replaced(@, p) EXCEPT !.doc = <<p.text, p.extra>>,
                                            !.stamp = p.stamp]]
  /\ End(c)

\* _merge_branch reads the canonical's addenda, for a write that holds the advisory
\* lock of its type or for resolve_duplicate's merge, which takes none: absorbs of
\* one row may overlap ...
BeginAbsorb(c, n, t) ==
  /\ node[n].status = "active"
  /\ Begin(c, "absorbing", [NoPlan EXCEPT !.node = n, !.text = t,
                                          !.addenda = node[n].addenda])

\* ... and _do_absorb writes the list back with one more.
CommitAbsorb(c) ==
  LET p == plan[c]
      addendum == [id |-> p.id, text |-> p.text, promoted |-> FALSE]
  IN  /\ pc[c] = "absorbing"
      /\ node' = [node EXCEPT ![p.node].addenda = Append(p.addenda, addendum)]
      /\ End(c)

\* The call fails between its transactions.
Abandon(c) ==
  /\ pc[c] # "idle"
  /\ UNCHANGED node
  /\ End(c)

-----------------------------------------------------------------------------
(* Maintenance: one engraphy-admin command at a time.                      *)

Commands == {"rebuild", "reembed", "promote"}

\* The rows a command reads: every status for rebuild and reembed, except the
\* sentinel; the active rows with addenda for promote.
Scanned(cmd) ==
  IF cmd = "promote"
  THEN {n \in Nodes : node[n].status = "active" /\ node[n].addenda # <<>>}
  ELSE {n \in Nodes : Exists(n) /\ n # Sentinel}

\* The rows it will rewrite.
Selected(cmd) ==
  CASE cmd = "rebuild" ->
         {n \in Scanned(cmd) : Render(node[n].value, surfaceOn) # node[n].extra}
    [] cmd = "reembed" -> {n \in Scanned(cmd) : node[n].stamp # profile}
    [] OTHER -> Scanned(cmd)

\* The scan, in a read transaction of its own.
AdminStart(cmd) ==
  /\ admin.pc # "running"
  /\ commands < MaxCommands
  /\ quiet => \A c \in Clients : pc[c] = "idle"
  /\ admin' = [cmd |-> cmd, pc |-> "running", todo |-> Selected(cmd),
               on |-> surfaceOn, snap |-> node, target |-> profile]
  /\ commands' = commands + 1
  /\ UNCHANGED <<node, surfaceOn, profile, quiet, pc, plan, calls, changes>>

IsBatch(B) ==
  /\ B \subseteq admin.todo
  /\ Cardinality(B) = IF Cardinality(admin.todo) < BatchSize
                      THEN Cardinality(admin.todo) ELSE BatchSize

AdminStep ==
  UNCHANGED <<surfaceOn, profile, quiet, pc, plan, calls, commands, changes>>

\* Mutant: the rebuild renders the attrs whatever the flag says.
RebuildIgnoringFlag(B) ==
  /\ admin.pc = "running" /\ admin.cmd = "rebuild" /\ B # {} /\ IsBatch(B)
  /\ node' = [n \in Nodes |->
       IF n \notin B THEN node[n]
       ELSE [node[n] EXCEPT !.extra = admin.snap[n].value,
                            !.doc = <<admin.snap[n].text, admin.snap[n].value>>,
                            !.stamp = profile]]
  /\ admin' = [admin EXCEPT !.todo = @ \ B]
  /\ AdminStep

\* surface rebuild: one batch of rows, from the scanned text and attrs.
RebuildBatch(B) ==
  /\ admin.pc = "running" /\ admin.cmd = "rebuild" /\ B # {} /\ IsBatch(B)
  /\ node' = [n \in Nodes |->
       IF n \notin B THEN node[n]
       ELSE LET extra == Render(admin.snap[n].value, admin.on)
            IN  [node[n] EXCEPT !.extra = extra,
                                !.doc = <<admin.snap[n].text, extra>>,
                                !.stamp = profile]]
  /\ admin' = [admin EXCEPT !.todo = @ \ B]
  /\ AdminStep

\* reembed: one batch of rows, from the scanned text and extra_search.
ReembedBatch(B) ==
  /\ admin.pc = "running" /\ admin.cmd = "reembed" /\ B # {} /\ IsBatch(B)
  /\ node' = [n \in Nodes |->
       IF n \notin B THEN node[n]
       ELSE [node[n] EXCEPT !.doc = <<admin.snap[n].text, admin.snap[n].extra>>,
                            !.stamp = admin.target]]
  /\ admin' = [admin EXCEPT !.todo = @ \ B]
  /\ AdminStep

\* A member row for a promoted addendum.  Of the attrs it carries happened_at
\* alone, which Values does not stand for.
Member(a) ==
  [NoRow EXCEPT !.status = "active", !.text = a.text, !.doc = <<a.text, Blank>>,
                !.stamp = profile, !.source = a.id]

\* Mutant: the members are inserted and the markers never written.
PromoteUnmarked(n, J, f) ==
  LET as == admin.snap[n].addenda IN
  /\ admin.pc = "running" /\ admin.cmd = "promote" /\ n \in admin.todo
  /\ J \subseteq Unmarked(as)
  /\ \A i, j \in J : ~Exists(f[i]) /\ (f[i] = f[j] => i = j)
  /\ node' = [m \in Nodes |-> IF \E i \in J : f[i] = m
                              THEN Member(as[CHOOSE i \in J : f[i] = m])
                              ELSE node[m]]
  /\ admin' = [admin EXCEPT !.todo = @ \ {n}]
  /\ AdminStep

\* addenda promote, one row: the addenda J judged novel become the members f,
\* and the scanned list is written back with their markers.
PromoteNode(n, J, f) ==
  LET as == admin.snap[n].addenda IN
  /\ admin.pc = "running" /\ admin.cmd = "promote" /\ n \in admin.todo
  /\ J \subseteq Unmarked(as)
  /\ \A i, j \in J : ~Exists(f[i]) /\ (f[i] = f[j] => i = j)
  /\ node' = [m \in Nodes |->
       IF \E i \in J : f[i] = m THEN Member(as[CHOOSE i \in J : f[i] = m])
       ELSE IF m = n /\ J # {}
       THEN [node[n] EXCEPT !.addenda =
               [i \in 1..Len(as) |->
                  IF i \in J THEN [as[i] EXCEPT !.promoted = TRUE] ELSE as[i]]]
       ELSE node[m]]
  /\ admin' = [admin EXCEPT !.todo = @ \ {n}]
  /\ AdminStep

AdminFinish ==
  /\ admin.pc = "running" /\ admin.todo = {}
  /\ admin' = [IdleAdmin EXCEPT !.pc = "done", !.cmd = admin.cmd,
                                !.on = admin.on, !.target = admin.target]
  /\ UNCHANGED node
  /\ AdminStep

\* A killed command: its committed batches stay.
AdminCrash ==
  /\ admin.pc = "running"
  /\ admin' = IdleAdmin
  /\ UNCHANGED node
  /\ AdminStep

-----------------------------------------------------------------------------
(* The operator.                                                           *)

Change ==
  /\ changes < MaxChanges
  /\ changes' = changes + 1
  /\ UNCHANGED <<quiet, pc, plan, admin, calls, commands>>

\* `config set write.attr_surface`.
FlipSurface ==
  /\ surfaceOn' = ~surfaceOn
  /\ Change
  /\ UNCHANGED <<node, profile>>

\* The engine restarts on another embedding profile.
SwitchProfile(s) ==
  /\ admin.pc # "running" /\ \A c \in Clients : pc[c] = "idle"
  /\ profile' = s /\ s # profile
  /\ Change
  /\ UNCHANGED <<node, surfaceOn>>

\* A node is archived (by hand: no verb does it).
Archive(n) ==
  /\ node[n].status = "active"
  /\ node' = [node EXCEPT ![n].status = "archived"]
  /\ Change
  /\ UNCHANGED <<surfaceOn, profile>>

\* Every bounded call, command and change was made and all of them ended.
Done ==
  /\ calls = MaxCalls /\ commands = MaxCommands /\ changes = MaxChanges
  /\ \A c \in Clients : pc[c] = "idle"
  /\ admin.pc # "running"
  /\ UNCHANGED vars

ClientStep(c) ==
  \/ \E t \in Texts, v \in Values \cup {Blank} : BeginWrite(c, t, v)
  \/ \E n \in Nodes, t \in Texts \cup {Keep}, v \in Values \cup {Blank, Keep} :
       BeginUpdate(c, n, t, v)
  \/ \E n \in Nodes, t \in Texts : BeginAbsorb(c, n, t)
  \/ \E n \in Nodes : CommitWrite(c, n)
  \/ UpdateInPlace(c) \/ UpdateReembedded(c) \/ CommitAbsorb(c) \/ Abandon(c)

Maintain ==
  \/ \E cmd \in Commands : AdminStart(cmd)
  \/ \E B \in SUBSET admin.todo : RebuildBatch(B) \/ ReembedBatch(B)
  \/ \E n \in admin.todo :
       \E J \in SUBSET Unmarked(admin.snap[n].addenda) :
         \E f \in [J -> Nodes] : PromoteNode(n, J, f)
  \/ AdminFinish \/ AdminCrash

Next ==
  \/ \E c \in Clients : ClientStep(c)
  \/ Maintain
  \/ FlipSurface
  \/ \E s \in Stamps : SwitchProfile(s)
  \/ \E n \in Nodes : Archive(n)
  \/ Done

Spec == Init /\ [][Next]_vars

-----------------------------------------------------------------------------
(* Properties.                                                             *)

Surfaces == Values \cup {Blank}
Documents == (Texts \cup {Blank}) \X Surfaces
AllStamps == Stamps \cup {ConstStamp}
Addenda == Seq([id : Nat, text : Texts, promoted : BOOLEAN])
Rows == [status : {"none", "active", "archived"}, text : Texts \cup {Blank},
         value : Surfaces, extra : Surfaces, doc : Documents,
         stamp : AllStamps, addenda : Addenda, source : Nat]

\* Every variable has its type: rows, the plan of an update between its two
\* transactions, and the command in progress.
TypeOK ==
  /\ node \in [Nodes -> Rows]
  /\ surfaceOn \in BOOLEAN /\ profile \in Stamps /\ quiet \in BOOLEAN
  /\ pc \in [Clients -> {"idle", "writing", "inplace", "embedding",
                         "absorbing"}]
  /\ plan \in [Clients -> [node : Nodes \cup {NoNode}, text : Texts \cup {Blank},
                           value : Surfaces, extra : Surfaces,
                           addenda : Addenda, stamp : AllStamps, id : Nat]]
  /\ admin \in [cmd : Commands \cup {"none"}, pc : {"idle", "running", "done"},
                todo : SUBSET Nodes, on : BOOLEAN, snap : [Nodes -> Rows],
                target : AllStamps]
  /\ calls \in 0..MaxCalls /\ commands \in 0..MaxCommands
  /\ changes \in 0..MaxChanges

\* I4, dual-index consistency: the vector of every row is that of the text and
\* surface the row holds, so what the graph reaches search finds.
IndexMatchesRow ==
  \A n \in Nodes : node[n].doc = <<node[n].text, node[n].extra>>

\* I4 holds through crashes, resumed commands, flag flips and profile switches
\* as long as edits come one at a time and maintenance has its quiet window.
QuietIndexMatchesRow == quiet => IndexMatchesRow

\* The step in which a command says it is done.
Completes(cmd) == admin.cmd = cmd /\ admin.pc = "running" /\ admin'.pc = "done"

ReembedReaches ==
  Completes("reembed") =>
    \A n \in Nodes \ {Sentinel} : Exists(n) => node[n].stamp = profile

RebuildReaches ==
  quiet /\ Completes("rebuild") /\ admin.on = surfaceOn =>
    \A n \in Nodes : node[n].extra = Render(node[n].value, surfaceOn)

\* A maintenance command that says it is done has reached every row: a reembed
\* leaves no row of another vector space, sentinel aside, whatever crashed
\* before it and whoever writes meanwhile; a surface rebuild in a quiet window
\* leaves every row, archived ones included, with the surface its attrs render
\* to.
MaintenanceComplete == [][ReembedReaches /\ RebuildReaches]_vars

KeepsArchived ==
  \A n \in Nodes : node[n].status = "archived" =>
    node'[n].text = node[n].text /\ node'[n].value = node[n].value

\* An archived node is read-only to agents: its text and attrs stay, whenever
\* between the phases of an update it was archived.
ArchivedFrozen == [][KeepsArchived]_vars

\* In a quiet window an addendum becomes at most one member row, however often
\* the promotion is killed and run again.
PromotedOnce ==
  quiet => \A m, n \in Nodes :
    node[m].source = node[n].source /\ node[m].source # 0 => m = n

KeepsAddenda ==
  \A n \in Nodes : \A i \in 1..Len(node[n].addenda) :
    \E j \in 1..Len(node'[n].addenda) : node'[n].addenda[j].id = node[n].addenda[i].id

\* An update loses no addendum: "attrs.addenda is preserved across any attrs
\* replacement" (update.py).
AddendaKept == [][(\E c \in Clients : Editing(c) /\ pc'[c] = "idle") => KeepsAddenda]_vars
=============================================================================
