-------------------------- MODULE NodeIndexProofs ---------------------------
(***************************************************************************)
(* What holds of NodeIndex for every set of clients, nodes and texts.      *)
(*                                                                         *)
(* WellFormed has the types and what the ids in plans and work lists name. *)
(* On it rest the three arguments of the module: ArchivedFrozen and        *)
(* ReembedReaches hold whoever edits meanwhile; QuietSurface (in a quiet   *)
(* window what a call or a command read is still what the row holds) gives *)
(* QuietIndexMatchesRow and RebuildReaches; and QuietAddenda (an addendum  *)
(* belongs to one row, and has no member row until it is marked) gives     *)
(* PromotedOnce.                                                           *)
(***************************************************************************)
EXTENDS NodeIndex, SequenceTheorems, TLAPS

\* The calls that read a row and will write it back.
Bound == {"inplace", "embedding", "absorbing"}

\* A row that was never inserted is blank, and so is what the sentinel shows.
RowsOK ==
  /\ \A n \in Nodes : ~Exists(n) => node[n] = NoRow
  /\ node[Sentinel].status = "archived"
  /\ node[Sentinel].value = Blank /\ node[Sentinel].extra = Blank

\* A call in flight plans for an existing row.
PlanOK ==
  \A c \in Clients : pc[c] \in Bound =>
    /\ plan[c].node \in Nodes /\ Exists(plan[c].node)
    /\ pc[c] = "absorbing" => plan[c].text \in Texts

\* A running command will rewrite existing rows, never the sentinel.
TodoOK ==
  admin.pc = "running" =>
    /\ admin.cmd \in Commands
    /\ \A n \in admin.todo : Exists(n) /\ n # Sentinel

\* The profile does not change under a call or a command.
StampOK ==
  /\ \A c \in Clients : pc[c] \in {"writing", "embedding"} =>
       plan[c].stamp = profile
  /\ admin.pc = "running" => admin.target = profile

WellFormed == TypeOK /\ RowsOK /\ PlanOK /\ TodoOK /\ StampOK

Plans == [node : Nodes \cup {NoNode}, text : Texts \cup {Blank},
          value : Surfaces, extra : Surfaces, addenda : Addenda,
          stamp : AllStamps, id : Nat]
AddendumRecords == [id : Nat, text : Texts, promoted : BOOLEAN]

-----------------------------------------------------------------------------
(* Types.                                                                  *)

\* The absent row, the sentinel and the empty plan are typed.
LEMMA NoRowTyped == NoRow \in Rows /\ SentinelRow \in Rows /\ NoPlan \in Plans
<1>1. <<>> \in Addenda BY DEF Addenda
<1> QED
  BY <1>1 DEF NoRow, SentinelRow, NoPlan, Rows, Plans, Surfaces, Documents,
              AllStamps

\* The space as `space create` leaves it is well-formed.
LEMMA InitWellFormed == Init => WellFormed
<1> SUFFICES ASSUME Init PROVE WellFormed OBVIOUS
<1>1. TypeOK
  BY NoRowTyped, IndexAssumption
     DEF Init, TypeOK, IdleAdmin, AllStamps, Plans
<1> QED
  BY <1>1, IndexAssumption
     DEF Init, WellFormed, RowsOK, PlanOK, TodoOK, StampOK, Bound, Exists,
         SentinelRow, NoRow, IdleAdmin

\* What the surface renders to is a surface.
LEMMA RenderTyped ==
  ASSUME NEW v \in Surfaces, NEW on \in BOOLEAN
  PROVE  Render(v, on) \in Surfaces
BY DEF Render, Surfaces

\* The rows the writing steps leave are rows.
LEMMA ReplacedTyped ==
  ASSUME NEW r \in Rows, NEW p \in Plans
  PROVE  /\ Replaced(r, p) \in Rows
         /\ [Replaced(r, p) EXCEPT !.doc = <<p.text, p.extra>>,
                                   !.stamp = p.stamp] \in Rows
BY DEF Rows, Plans, Replaced, Documents

\* So is the row a write inserts.
LEMMA WrittenTyped ==
  ASSUME NEW p \in Plans
  PROVE  [status |-> "active", text |-> p.text, value |-> p.value,
          extra |-> p.extra, doc |-> <<p.text, p.extra>>, stamp |-> p.stamp,
          addenda |-> <<>>, source |-> 0] \in Rows
<1>1. <<>> \in Addenda BY DEF Addenda
<1> QED BY <1>1 DEF Rows, Plans, Documents

\* The member row of an addendum, field by field.
LEMMA MemberTyped ==
  ASSUME NEW a \in AddendumRecords, profile \in Stamps
  PROVE  /\ Member(a) \in Rows /\ Member(a).status = "active"
         /\ Member(a).text = a.text /\ Member(a).doc = <<a.text, Blank>>
         /\ Member(a).extra = Blank /\ Member(a).value = Blank
         /\ Member(a).stamp = profile /\ Member(a).addenda = <<>>
         /\ Member(a).source = a.id
<1>1. <<>> \in Addenda BY DEF Addenda
<1> QED
  BY <1>1 DEF Rows, Member, NoRow, AddendumRecords, Documents, Surfaces, AllStamps

\* The parts of a row a batch leaves alone.
SameButVector(r, q) ==
  /\ q \in Rows /\ q.status = r.status /\ q.text = r.text
  /\ q.value = r.value /\ q.addenda = r.addenda /\ q.source = r.source

\* A row with extra_search own and the vector of a document.
Revectored(r, own, text, extra, stamp) ==
  [r EXCEPT !.extra = own, !.doc = <<text, extra>>, !.stamp = stamp]

\* What a rebuild rewrites of a row, and what it leaves.
LEMMA BatchTyped ==
  ASSUME NEW r \in Rows, NEW own \in Surfaces, NEW text \in Texts \cup {Blank},
         NEW extra \in Surfaces, NEW stamp \in AllStamps
  PROVE  LET q == Revectored(r, own, text, extra, stamp)
         IN  /\ SameButVector(r, q) /\ q.extra = own
             /\ q.doc = <<text, extra>> /\ q.stamp = stamp
BY DEF Rows, Documents, SameButVector, Revectored

\* A row with the vector of row q's document.
Reembedded(r, q, stamp) ==
  [r EXCEPT !.doc = <<q.text, q.extra>>, !.stamp = stamp]

\* What a reembed rewrites of a row, and what it leaves.
LEMMA ReembedTyped ==
  ASSUME NEW r \in Rows, NEW q \in Rows, NEW stamp \in AllStamps
  PROVE  /\ SameButVector(r, Reembedded(r, q, stamp))
         /\ Reembedded(r, q, stamp).extra = r.extra
         /\ Reembedded(r, q, stamp).doc = <<q.text, q.extra>>
         /\ Reembedded(r, q, stamp).stamp = stamp
<1>1. <<q.text, q.extra>> \in Documents
  BY DEF Rows, Documents
<1> QED BY <1>1 DEF Rows, SameButVector, Reembedded

\* A function on 1..n is a sequence of length n.
LEMMA FunctionIsSeq ==
  ASSUME NEW S, NEW n \in Nat, NEW f \in [1..n -> S]
  PROVE  f \in Seq(S) /\ Len(f) = n
OBVIOUS

\* Marking the addenda J keeps a list of addenda.
Marked(as, J) ==
  [i \in 1..Len(as) |-> IF i \in J THEN [as[i] EXCEPT !.promoted = TRUE]
                                   ELSE as[i]]

\* Marking addenda keeps the list: its length, its ids, its old markers.
LEMMA MarkedTyped ==
  ASSUME NEW as \in Addenda, NEW J
  PROVE  /\ Marked(as, J) \in Addenda /\ Len(Marked(as, J)) = Len(as)
         /\ \A i \in 1..Len(as) :
              /\ as[i] \in AddendumRecords
              /\ Marked(as, J)[i] \in AddendumRecords
              /\ Marked(as, J)[i].id = as[i].id
              /\ Marked(as, J)[i].promoted = (as[i].promoted \/ i \in J)
<1>0. Addenda = Seq(AddendumRecords)
  BY DEF Addenda, AddendumRecords
<1>1. as \in Seq(AddendumRecords)
  BY <1>0
<1>2. /\ Len(as) \in Nat
      /\ \A i \in 1..Len(as) : as[i] \in AddendumRecords
  BY <1>1, LenProperties
<1>3. \A i \in 1..Len(as) :
        /\ Marked(as, J)[i] \in AddendumRecords
        /\ Marked(as, J)[i].id = as[i].id
        /\ Marked(as, J)[i].promoted = (as[i].promoted \/ i \in J)
  BY <1>2 DEF Marked, AddendumRecords
<1>4. Marked(as, J) \in [1..Len(as) -> AddendumRecords]
  BY <1>3 DEF Marked
<1>5. Marked(as, J) \in Seq(AddendumRecords) /\ Len(Marked(as, J)) = Len(as)
  BY <1>2, <1>4, FunctionIsSeq
<1> QED BY <1>0, <1>2, <1>3, <1>5

-----------------------------------------------------------------------------
(* WellFormed is inductive.                                                *)

\* No step takes a row away, and a blank row stays blank until it is inserted.
RowsKept ==
  /\ node' \in [Nodes -> Rows]
  /\ \A n \in Nodes : Exists(n) => node'[n].status # "none"
  /\ RowsOK'

\* The first transaction of a call.
LEMMA BeginWellFormed ==
  ASSUME WellFormed, NEW c \in Clients, NEW next \in {"writing"} \cup Bound,
         NEW p \in Plans, Begin(c, next, p),
         next \in Bound => p.node \in Nodes /\ Exists(p.node),
         next = "absorbing" => p.text \in Texts,
         next \in {"writing", "embedding"} => p.stamp = profile
  PROVE  WellFormed'
<1> USE DEF WellFormed
<1>1. calls' \in Nat /\ calls' \in 0..MaxCalls
  BY IndexAssumption DEF Begin, TypeOK
<1>2. [p EXCEPT !.id = calls'] \in Plans
  BY <1>1 DEF Plans
<1>3. plan' \in [Clients -> Plans]
  BY <1>2 DEF Begin, TypeOK, Plans
<1>4. TypeOK'
  BY <1>1, <1>3 DEF Begin, TypeOK, Bound, Plans
<1>5. \A d \in Clients :
        pc'[d] \in {"writing"} \cup Bound =>
          \/ d # c /\ pc'[d] = pc[d] /\ plan'[d] = plan[d]
          \/ d = c /\ pc'[d] = next /\ plan'[d].node = p.node
                   /\ plan'[d].stamp = p.stamp /\ plan'[d].text = p.text
  BY DEF Begin, TypeOK, Plans
<1>6. RowsOK' /\ TodoOK'
  BY DEF Begin, RowsOK, TodoOK, Exists
<1>7. PlanOK' /\ StampOK'
  BY <1>5 DEF Begin, PlanOK, StampOK, Exists, Bound
<1> QED BY <1>4, <1>6, <1>7

\* The end of a call, whatever it did to rows.
LEMMA EndWellFormed ==
  ASSUME WellFormed, NEW c \in Clients, End(c), RowsKept
  PROVE  WellFormed'
<1> USE DEF WellFormed
<1>1. plan' \in [Clients -> Plans]
  BY NoRowTyped DEF End, TypeOK, Plans
<1>2. TypeOK'
  BY <1>1 DEF End, TypeOK, RowsKept, Plans
<1>3. \A d \in Clients : pc'[d] \in {"writing"} \cup Bound =>
        d # c /\ pc'[d] = pc[d] /\ plan'[d] = plan[d]
  BY DEF End, TypeOK, Bound
<1>4. PlanOK' /\ StampOK' /\ TodoOK'
  BY <1>3 DEF End, PlanOK, StampOK, TodoOK, RowsKept, Exists, Bound, TypeOK
<1> QED BY <1>2, <1>4 DEF RowsKept

\* One row replaced by another of its own surface, or any but the sentinel.
LEMMA OneRowKept ==
  ASSUME WellFormed, NEW n \in Nodes, NEW r \in Rows, r.status # "none",
         node' = [node EXCEPT ![n] = r],
         n = Sentinel => /\ r.status = "archived"
                         /\ r.value = Blank /\ r.extra = Blank
  PROVE  RowsKept
BY IndexAssumption
   DEF WellFormed, TypeOK, RowsOK, RowsKept, Exists

\* What writes no row keeps them all.
LEMMA SameRowsKept == WellFormed /\ UNCHANGED node => RowsKept
BY DEF WellFormed, TypeOK, RowsOK, RowsKept, Exists

\* The plan of a call in flight, and the row it names.
LEMMA PlanTyped ==
  ASSUME WellFormed, NEW c \in Clients, pc[c] \in Bound
  PROVE  /\ plan[c] \in Plans /\ plan[c].node \in Nodes
         /\ Exists(plan[c].node) /\ node[plan[c].node] \in Rows
BY DEF WellFormed, TypeOK, PlanOK, Plans

\* A client's step keeps the state well-formed.
LEMMA ClientWellFormed ==
  ASSUME WellFormed, NEW c \in Clients, ClientStep(c)
  PROVE  WellFormed'
<1>1. ASSUME NEW t \in Texts, NEW v \in Values \cup {Blank},
             BeginWrite(c, t, v)
      PROVE  WellFormed'
  <2>1. Render(v, surfaceOn) \in Surfaces /\ v \in Surfaces
    BY RenderTyped DEF WellFormed, TypeOK, Surfaces
  <2>2. [NoPlan EXCEPT !.text = t, !.value = v,
           !.extra = Render(v, surfaceOn), !.stamp = profile] \in Plans
    BY <2>1, NoRowTyped DEF Plans, WellFormed, TypeOK, AllStamps
  <2> QED BY <1>1, <2>2, BeginWellFormed DEF BeginWrite, NoPlan, Bound
<1>2. ASSUME NEW n \in Nodes, NEW t \in Texts \cup {Keep},
             NEW v \in Values \cup {Blank, Keep}, BeginUpdate(c, n, t, v)
      PROVE  WellFormed'
  <2> DEFINE text == IF t = Keep THEN node[n].text ELSE t
             value == IF v = Keep THEN node[n].value ELSE v
             extra == Render(value, surfaceOn)
             p == [node |-> n, text |-> text, value |-> value, extra |-> extra,
                   addenda |-> node[n].addenda, stamp |-> profile, id |-> 0]
  <2>1. node[n] \in Rows BY DEF WellFormed, TypeOK
  <2>2. text \in Texts \cup {Blank} /\ value \in Surfaces
    BY <2>1 DEF Rows, Surfaces
  <2>3. extra \in Surfaces
    BY <2>2, RenderTyped DEF WellFormed, TypeOK
  <2>4. p \in Plans
    BY <2>1, <2>2, <2>3 DEF Plans, Rows, WellFormed, TypeOK, AllStamps
  <2>5. Exists(n) BY <1>2 DEF BeginUpdate, Exists
  <2>6. PICK next \in {"embedding", "inplace"} : Begin(c, next, p)
    BY <1>2 DEF BeginUpdate
  <2> QED BY <2>4, <2>5, <2>6, BeginWellFormed DEF Bound
<1>3. ASSUME NEW n \in Nodes, NEW t \in Texts, BeginAbsorb(c, n, t)
      PROVE  WellFormed'
  <2>1. [NoPlan EXCEPT !.node = n, !.text = t, !.addenda = node[n].addenda]
          \in Plans
    BY NoRowTyped DEF Plans, WellFormed, TypeOK, Rows
  <2> QED
    BY <1>3, <2>1, BeginWellFormed DEF BeginAbsorb, NoPlan, Bound, Exists
<1>4. ASSUME NEW n \in Nodes, CommitWrite(c, n) PROVE WellFormed'
  <2>1. plan[c] \in Plans BY DEF WellFormed, TypeOK, Plans
  <2>2. n # Sentinel BY <1>4 DEF CommitWrite, WellFormed, RowsOK, Exists
  <2> QED
    BY <1>4, <2>1, <2>2, WrittenTyped, OneRowKept, EndWellFormed DEF CommitWrite
<1>5. CASE UpdateInPlace(c)
  <2>1. pc[c] \in Bound BY <1>5 DEF UpdateInPlace, Bound
  <2>2. Replaced(node[plan[c].node], plan[c]).status
          = node[plan[c].node].status
    BY <2>1, PlanTyped DEF Replaced, Rows
  <2> QED
    BY <1>5, <2>1, <2>2, PlanTyped, ReplacedTyped, OneRowKept, SameRowsKept,
       EndWellFormed DEF UpdateInPlace, WellFormed, RowsOK, Exists
<1>6. CASE UpdateReembedded(c)
  <2> DEFINE p == plan[c]
             r == [Replaced(node[p.node], p) EXCEPT !.doc = <<p.text, p.extra>>,
                                                    !.stamp = p.stamp]
  <2>1. pc[c] \in Bound BY <1>6 DEF UpdateReembedded, Bound
  <2>2. r \in Rows
    BY <2>1, PlanTyped, ReplacedTyped
  <2>3. r.status = node[p.node].status
    BY <2>1, PlanTyped DEF Replaced, Rows
  <2>4. node' = IF node[p.node].status = "archived" THEN node
                ELSE [node EXCEPT ![p.node] = r]
    BY <1>6 DEF UpdateReembedded
  <2> QED
    BY <1>6, <2>1, <2>2, <2>3, <2>4, PlanTyped, OneRowKept, SameRowsKept,
       EndWellFormed DEF UpdateReembedded, WellFormed, RowsOK, Exists
<1>7. CASE CommitAbsorb(c)
  <2> DEFINE p == plan[c]
             a == [id |-> p.id, text |-> p.text, promoted |-> FALSE]
             r == [node[p.node] EXCEPT !.addenda = Append(p.addenda, a)]
  <2>1. pc[c] = "absorbing" /\ pc[c] \in Bound
    BY <1>7 DEF CommitAbsorb, Bound
  <2>2. a \in AddendumRecords
    BY <2>1, PlanTyped DEF AddendumRecords, Plans, WellFormed, PlanOK
  <2>3. p.addenda \in Seq(AddendumRecords)
    BY <2>1, PlanTyped DEF Plans, Addenda, AddendumRecords
  <2>4. Append(p.addenda, a) \in Addenda
    <3>1. Append(p.addenda, a) \in Seq(AddendumRecords)
      <4> HIDE DEF a
      <4> QED BY <2>2, <2>3
    <3> QED BY <3>1 DEF Addenda, AddendumRecords
  <2>5. r \in Rows /\ r.status = node[p.node].status
          /\ r.value = node[p.node].value /\ r.extra = node[p.node].extra
    BY <2>1, <2>4, PlanTyped DEF Rows
  <2>6. node' = [node EXCEPT ![p.node] = r]
    BY <1>7 DEF CommitAbsorb
  <2>7. RowsKept
    <3>1. p.node \in Nodes /\ Exists(p.node)
      BY <2>1, PlanTyped
    <3>2. r.status # "none"
      BY <2>5, <3>1 DEF Exists
    <3>3. p.node = Sentinel => /\ r.status = "archived"
                               /\ r.value = Blank /\ r.extra = Blank
      BY <2>5 DEF WellFormed, RowsOK
    <3> HIDE DEF p, r
    <3> QED BY <2>5, <2>6, <3>1, <3>2, <3>3, OneRowKept
  <2> QED BY <1>7, <2>7, EndWellFormed DEF CommitAbsorb
<1>8. CASE Abandon(c)
  BY <1>8, SameRowsKept, EndWellFormed DEF Abandon
<1> QED
  BY <1>1, <1>2, <1>3, <1>4, <1>5, <1>6, <1>7, <1>8 DEF ClientStep

\* A command's step: fewer rows left to rewrite, or no command.
LEMMA AdminWellFormed ==
  ASSUME WellFormed, RowsKept, AdminStep,
         \/ \E T \in SUBSET admin.todo : admin' = [admin EXCEPT !.todo = T]
         \/ admin'.pc # "running" /\ TypeOK'
  PROVE  WellFormed'
<1> USE DEF WellFormed
<1>1. TypeOK'
  BY DEF TypeOK, AdminStep, RowsKept
<1>2. PlanOK' /\ StampOK'
  BY DEF PlanOK, StampOK, AdminStep, RowsKept, Exists, TypeOK
<1>3. TodoOK'
  BY DEF TodoOK, RowsKept, Exists, TypeOK
<1> QED BY <1>1, <1>2, <1>3 DEF RowsKept

\* A batch: the rows in B get an extra_search, vector and stamp, no other part.
BatchStep(B) ==
  /\ B \subseteq admin.todo
  /\ node' \in [Nodes -> Rows]
  /\ \A n \in Nodes : n \notin B => node'[n] = node[n]
  /\ \A n \in Nodes :
       /\ node'[n].status = node[n].status
       /\ node'[n].text = node[n].text /\ node'[n].value = node[n].value
       /\ node'[n].addenda = node[n].addenda
       /\ node'[n].source = node[n].source

\* What a batch of either command does to a row and to the work left.
LEMMA BatchEffect ==
  ASSUME WellFormed, NEW B \in SUBSET admin.todo,
         RebuildBatch(B) \/ ReembedBatch(B)
  PROVE  /\ admin.pc = "running" /\ BatchStep(B) /\ AdminStep
         /\ admin' = [admin EXCEPT !.todo = @ \ B]
         /\ admin.cmd \in {"rebuild", "reembed"}
         /\ admin.cmd = "rebuild" => \A n \in B :
              /\ node'[n].extra = Render(admin.snap[n].value, admin.on)
              /\ node'[n].doc = <<admin.snap[n].text, node'[n].extra>>
         /\ admin.cmd = "reembed" => \A n \in B :
              /\ node'[n].extra = node[n].extra
              /\ node'[n].doc = <<admin.snap[n].text, admin.snap[n].extra>>
              /\ node'[n].stamp = admin.target
<1> USE DEF WellFormed
<1>1. /\ admin.snap \in [Nodes -> Rows] /\ admin.on \in BOOLEAN
      /\ admin.target \in AllStamps /\ profile \in AllStamps
      /\ node \in [Nodes -> Rows] /\ admin.todo \in SUBSET Nodes
  BY DEF TypeOK, AllStamps
<1>2. \A n \in Nodes : Render(admin.snap[n].value, admin.on) \in Surfaces
  BY <1>1, RenderTyped DEF Rows
<1>3. CASE RebuildBatch(B)
  <2>1. \A n \in Nodes : n \in B =>
          node'[n] = [node[n] EXCEPT
            !.extra = Render(admin.snap[n].value, admin.on),
            !.doc = <<admin.snap[n].text,
                      Render(admin.snap[n].value, admin.on)>>,
            !.stamp = profile]
    BY <1>3 DEF RebuildBatch
  <2>2. \A n \in Nodes : n \notin B => node'[n] = node[n]
    BY <1>3 DEF RebuildBatch
  <2>3. \A n \in Nodes : n \in B =>
          /\ SameButVector(node[n], node'[n])
          /\ node'[n].extra = Render(admin.snap[n].value, admin.on)
          /\ node'[n].doc = <<admin.snap[n].text, node'[n].extra>>
    <3> TAKE n \in Nodes
    <3>1. node[n] \in Rows /\ admin.snap[n] \in Rows
      BY <1>1
    <3>2. admin.snap[n].text \in Texts \cup {Blank}
      BY <3>1 DEF Rows
    <3> DEFINE extra == Render(admin.snap[n].value, admin.on)
    <3>3. n \in B => node'[n] = Revectored(node[n], extra, admin.snap[n].text,
                                          extra, profile)
      BY <2>1 DEF Revectored
    <3>4. extra \in Surfaces /\ profile \in AllStamps
      BY <1>1, <1>2
    <3> HIDE DEF extra
    <3>5. n \in B => /\ SameButVector(node[n], node'[n])
                     /\ node'[n].extra = extra
                     /\ node'[n].doc = <<admin.snap[n].text, extra>>
      BY <3>1, <3>2, <3>3, <3>4, BatchTyped
    <3> QED BY <3>5 DEF extra
  <2>4. node' \in [Nodes -> Rows]
    BY <1>1, <1>3, <2>2, <2>3 DEF RebuildBatch, SameButVector
  <2> QED
    BY <1>1, <1>3, <2>2, <2>3, <2>4 DEF BatchStep, RebuildBatch, SameButVector
<1>4. CASE ReembedBatch(B)
  <2>1. \A n \in Nodes : n \in B =>
          node'[n] = [node[n] EXCEPT
            !.doc = <<admin.snap[n].text, admin.snap[n].extra>>,
            !.stamp = admin.target]
    BY <1>4 DEF ReembedBatch
  <2>2. \A n \in Nodes : n \notin B => node'[n] = node[n]
    BY <1>4 DEF ReembedBatch
  <2>3. \A n \in Nodes : n \in B =>
          /\ SameButVector(node[n], node'[n])
          /\ node'[n].extra = node[n].extra
          /\ node'[n].doc = <<admin.snap[n].text, admin.snap[n].extra>>
          /\ node'[n].stamp = admin.target
    <3> TAKE n \in Nodes
    <3>1. node[n] \in Rows /\ admin.snap[n] \in Rows
      BY <1>1
    <3>2. n \in B => node'[n] = Reembedded(node[n], admin.snap[n], admin.target)
      BY <2>1 DEF Reembedded
    <3>3. admin.target \in AllStamps BY <1>1
    <3> QED BY <3>1, <3>2, <3>3, ReembedTyped
  <2>4. node' \in [Nodes -> Rows]
    BY <1>1, <1>4, <2>2, <2>3 DEF ReembedBatch, SameButVector
  <2> QED
    BY <1>1, <1>4, <2>2, <2>3, <2>4 DEF BatchStep, ReembedBatch, SameButVector
<1> QED BY <1>3, <1>4

\* A batch deletes no row.
LEMMA BatchRowsKept ==
  ASSUME WellFormed, NEW B \in SUBSET admin.todo, admin.pc = "running",
         BatchStep(B)
  PROVE  RowsKept
<1>1. \A n \in B : Exists(n) /\ n # Sentinel
  BY DEF WellFormed, TodoOK
<1> QED
  BY <1>1, IndexAssumption
     DEF WellFormed, RowsOK, RowsKept, BatchStep, Exists, TypeOK

\* A promotion: the members J become rows of their own, n's list is marked.
PromoteStep(n, J, f) ==
  LET as == admin.snap[n].addenda IN
  /\ n \in Nodes /\ as \in Addenda /\ J \subseteq Unmarked(as)
  /\ \A i, j \in J : ~Exists(f[i]) /\ (f[i] = f[j] => i = j)
  /\ \A i \in J : /\ f[i] \in Nodes
                  /\ as[i] \in AddendumRecords /\ ~as[i].promoted
                  /\ node'[f[i]] = Member(as[i])
  /\ \A m \in Nodes : (\A i \in J : f[i] # m) =>
       IF m = n /\ J # {}
       THEN node'[m] = [node[m] EXCEPT !.addenda = Marked(as, J)]
       ELSE node'[m] = node[m]

\* What a promotion does, without its CHOOSE: the members, the markers and
\* nothing else.
LEMMA PromoteEffect ==
  ASSUME WellFormed, NEW n \in admin.todo,
         NEW J \in SUBSET Unmarked(admin.snap[n].addenda),
         NEW f \in [J -> Nodes], PromoteNode(n, J, f)
  PROVE  /\ PromoteStep(n, J, f) /\ admin.pc = "running"
         /\ admin.cmd = "promote" /\ RowsKept /\ AdminStep
         /\ admin' = [admin EXCEPT !.todo = @ \ {n}]
<1> DEFINE as == admin.snap[n].addenda
<1>1. /\ n \in Nodes /\ admin.snap \in [Nodes -> Rows] /\ profile \in Stamps
      /\ node \in [Nodes -> Rows] /\ n # Sentinel /\ Exists(n)
  BY DEF WellFormed, TypeOK, TodoOK, PromoteNode
<1>2. as \in Addenda
  BY <1>1 DEF Rows
<1>3. \A i \in J : i \in 1..Len(as) /\ as[i] \in AddendumRecords
                     /\ ~as[i].promoted
  BY <1>2, MarkedTyped DEF Unmarked
<1>4. \A i, j \in J : ~Exists(f[i]) /\ (f[i] = f[j] => i = j)
  BY DEF PromoteNode
<1>5. \A i \in J : node'[f[i]] = Member(as[i])
  <2> TAKE i \in J
  <2>1. (CHOOSE j \in J : f[j] = f[i]) = i
    BY <1>4
  <2> QED BY <2>1 DEF PromoteNode
<1>6. \A m \in Nodes : (\A i \in J : f[i] # m) =>
        IF m = n /\ J # {}
        THEN node'[m] = [node[m] EXCEPT !.addenda = Marked(as, J)]
        ELSE node'[m] = node[m]
  BY DEF PromoteNode, Marked
<1>7. PromoteStep(n, J, f)
  BY <1>1, <1>2, <1>3, <1>4, <1>5, <1>6 DEF PromoteStep
<1>8. \A i \in J : node'[f[i]] \in Rows /\ node'[f[i]].status = "active"
  BY <1>1, <1>3, <1>5, MemberTyped
<1>9. \A m \in Nodes : (\A i \in J : f[i] # m) =>
        /\ node'[m] \in Rows /\ node'[m].status = node[m].status
        /\ node'[m] = node[m] \/ m = n
  <2> TAKE m \in Nodes
  <2>1. Marked(as, J) \in Addenda BY <1>2, MarkedTyped
  <2>2. [node[m] EXCEPT !.addenda = Marked(as, J)] \in Rows
    BY <1>1, <2>1 DEF Rows
  <2>3. [node[m] EXCEPT !.addenda = Marked(as, J)].status = node[m].status
    BY <1>1 DEF Rows
  <2> HIDE DEF as
  <2> QED BY <1>1, <1>6, <2>2, <2>3
<1>10. node' \in [Nodes -> Rows]
  <2>1. node' = [m \in Nodes |-> node'[m]]
    BY DEF PromoteNode
  <2> QED BY <2>1, <1>8, <1>9
<1>11. RowsKept
  <2>1. \A m \in Nodes : Exists(m) => \A i \in J : f[i] # m
    BY <1>4
  <2>2. Sentinel \in Nodes /\ Exists(Sentinel)
    BY IndexAssumption DEF WellFormed, RowsOK, Exists
  <2> QED
    BY <1>1, <1>8, <1>9, <1>10, <2>1, <2>2
       DEF RowsKept, WellFormed, RowsOK, Exists
<1> QED BY <1>7, <1>11 DEF PromoteNode

AdminStates ==
  [cmd : Commands \cup {"none"}, pc : {"idle", "running", "done"},
   todo : SUBSET Nodes, on : BOOLEAN, snap : [Nodes -> Rows],
   target : AllStamps]

\* The last step of a command.
LEMMA EndEffect ==
  ASSUME AdminFinish \/ AdminCrash
  PROVE  /\ admin'.pc \in {"done", "idle"}
         /\ admin'.pc = "done" => AdminFinish
<1> DEFINE blank == [n \in Nodes |-> NoRow]
<1>1. CASE AdminFinish
  <2>1. admin' = [cmd |-> admin.cmd, pc |-> "done", todo |-> {},
                  on |-> admin.on, snap |-> blank, target |-> admin.target]
    BY <1>1 DEF AdminFinish, IdleAdmin
  <2> HIDE DEF blank
  <2> QED BY <1>1, <2>1
<1>2. CASE AdminCrash
  <2>1. admin' = [cmd |-> "none", pc |-> "idle", todo |-> {}, on |-> FALSE,
                  snap |-> blank, target |-> ConstStamp]
    BY <1>2 DEF AdminCrash, IdleAdmin
  <2> HIDE DEF blank
  <2> QED BY <2>1
<1> QED BY <1>1, <1>2

\* A maintenance step keeps the state well-formed.
LEMMA MaintainWellFormed ==
  ASSUME WellFormed, Maintain
  PROVE  WellFormed'
<1>1. ASSUME NEW cmd \in Commands, AdminStart(cmd) PROVE WellFormed'
  <2>1. Selected(cmd) \in SUBSET Nodes
          /\ \A n \in Selected(cmd) : Exists(n) /\ n # Sentinel
    <3>1. \A n \in Scanned(cmd) : n \in Nodes /\ Exists(n) /\ n # Sentinel
      BY DEF Scanned, Exists, WellFormed, RowsOK
    <3> QED BY <3>1 DEF Selected
  <2>2. commands' \in 0..MaxCommands
    BY <1>1, IndexAssumption DEF AdminStart, WellFormed, TypeOK
  <2>3. /\ admin'.pc = "running" /\ admin'.cmd = cmd
        /\ admin'.todo = Selected(cmd) /\ admin'.target = profile
    BY <1>1 DEF AdminStart
  <2>4. TypeOK'
    BY <1>1, <2>1, <2>2 DEF AdminStart, WellFormed, TypeOK, AllStamps
  <2>5. RowsOK' /\ PlanOK' /\ StampOK'
    BY <1>1, <2>3
       DEF AdminStart, WellFormed, RowsOK, PlanOK, StampOK, Exists
  <2>6. TodoOK'
    BY <1>1, <2>1, <2>3 DEF AdminStart, TodoOK, Exists
  <2> QED BY <2>4, <2>5, <2>6 DEF WellFormed
<1>2. ASSUME NEW B \in SUBSET admin.todo, RebuildBatch(B) \/ ReembedBatch(B)
      PROVE  WellFormed'
  <2>1. RowsKept BY <1>2, BatchEffect, BatchRowsKept
  <2> QED BY <1>2, <2>1, BatchEffect, AdminWellFormed
<1>3. ASSUME NEW n \in admin.todo,
             NEW J \in SUBSET Unmarked(admin.snap[n].addenda),
             NEW f \in [J -> Nodes], PromoteNode(n, J, f)
      PROVE  WellFormed'
  <2>1. RowsKept BY <1>3, PromoteEffect
  <2> QED BY <1>3, <2>1, AdminWellFormed DEF PromoteNode
<1>4. CASE AdminFinish \/ AdminCrash
  <2>1. RowsKept BY <1>4, SameRowsKept DEF AdminFinish, AdminCrash
  <2>2. AdminStep
    BY <1>4 DEF AdminFinish, AdminCrash
  <2> DEFINE blank == [n \in Nodes |-> NoRow]
  <2>3. \/ admin' = [cmd |-> "none", pc |-> "idle", todo |-> {}, on |-> FALSE,
                     snap |-> blank, target |-> ConstStamp]
        \/ admin' = [cmd |-> admin.cmd, pc |-> "done", todo |-> {},
                     on |-> admin.on, snap |-> blank, target |-> admin.target]
    BY <1>4 DEF AdminFinish, AdminCrash, IdleAdmin
  <2>4. blank \in [Nodes -> Rows]
    BY NoRowTyped
  <2> HIDE DEF blank
  <2>5. admin'.pc # "running"
    BY <2>3
  <2>6. admin' \in AdminStates
    <3>1. /\ admin.cmd \in Commands \cup {"none"} /\ admin.on \in BOOLEAN
          /\ admin.target \in AllStamps /\ ConstStamp \in AllStamps
      BY DEF WellFormed, TypeOK, AllStamps
    <3>2. CASE admin' = [cmd |-> "none", pc |-> "idle", todo |-> {},
                         on |-> FALSE, snap |-> blank, target |-> ConstStamp]
      BY <2>4, <3>1, <3>2 DEF AdminStates
    <3>3. CASE admin' = [cmd |-> admin.cmd, pc |-> "done", todo |-> {},
                         on |-> admin.on, snap |-> blank,
                         target |-> admin.target]
      BY <2>4, <3>1, <3>3 DEF AdminStates
    <3> QED BY <2>3, <3>2, <3>3
  <2>7. TypeOK'
    BY <2>1, <2>2, <2>6 DEF WellFormed, TypeOK, AdminStep, RowsKept, AdminStates
  <2> QED BY <2>1, <2>2, <2>5, <2>7, AdminWellFormed
<1> QED BY <1>1, <1>2, <1>3, <1>4 DEF Maintain

\* An operator's change keeps the state well-formed.
LEMMA OperatorWellFormed ==
  ASSUME WellFormed,
         \/ FlipSurface \/ \E s \in Stamps : SwitchProfile(s)
         \/ \E n \in Nodes : Archive(n)
  PROVE  WellFormed'
<1> USE DEF WellFormed
<1>0. ASSUME Change PROVE changes' \in 0..MaxChanges
  BY <1>0, IndexAssumption DEF Change, TypeOK
<1>1. CASE FlipSurface
  BY <1>0, <1>1
     DEF FlipSurface, Change, TypeOK, RowsOK, PlanOK, TodoOK, StampOK, Exists
<1>2. ASSUME NEW s \in Stamps, SwitchProfile(s) PROVE WellFormed'
  BY <1>0, <1>2
     DEF SwitchProfile, Change, TypeOK, RowsOK, PlanOK, TodoOK, StampOK, Exists
<1>3. ASSUME NEW n \in Nodes, Archive(n) PROVE WellFormed'
  <2> DEFINE r == [node[n] EXCEPT !.status = "archived"]
  <2>1. node[n] \in Rows /\ n # Sentinel
    BY <1>3 DEF TypeOK, Archive, RowsOK
  <2>2. r \in Rows /\ r.status = "archived"
    BY <2>1 DEF Rows
  <2>3. node' = [node EXCEPT ![n] = r]
    BY <1>3 DEF Archive
  <2>4. RowsKept
    <3> HIDE DEF r
    <3> QED BY <2>1, <2>2, <2>3, OneRowKept
  <2> QED
    BY <1>0, <1>3, <2>4
       DEF Archive, Change, TypeOK, RowsKept, PlanOK, TodoOK, StampOK, Exists
<1> QED BY <1>1, <1>2, <1>3

\* Well-formedness is inductive.
LEMMA StepWellFormed == WellFormed /\ [Next]_vars => WellFormed'
<1> SUFFICES ASSUME WellFormed, [Next]_vars PROVE WellFormed'
  OBVIOUS
<1>1. CASE UNCHANGED vars
  BY <1>1 DEF vars, WellFormed, TypeOK, RowsOK, PlanOK, TodoOK, StampOK, Exists
<1> QED
  BY <1>1, ClientWellFormed, MaintainWellFormed, OperatorWellFormed
     DEF Next, Done

\* Every behaviour of the surface keeps the types, for any number of clients,
\* nodes and calls (update.py and the maintenance commands of admin/).
THEOREM TypeCorrect == Spec => []TypeOK
<1>1. WellFormed => TypeOK BY DEF WellFormed
<1> QED BY <1>1, InitWellFormed, StepWellFormed, PTL DEF Spec

-----------------------------------------------------------------------------
(* Whoever edits meanwhile: archived rows and the reembed.                 *)

\* The row an update leaves keeps its status and carries the planned text.
LEMMA UpdateEffect ==
  ASSUME WellFormed, NEW c \in Clients, UpdateInPlace(c) \/ UpdateReembedded(c)
  PROVE  /\ pc[c] \in Bound /\ plan[c].node \in Nodes /\ Exists(plan[c].node)
         /\ \A n \in Nodes : node'[n] # node[n] =>
              /\ n = plan[c].node /\ node[n].status # "archived"
              /\ node'[n].status = node[n].status
              /\ node'[n].source = node[n].source
              /\ node'[n].text = plan[c].text
              /\ node'[n].value = plan[c].value
              /\ node'[n].extra = plan[c].extra
              /\ node'[n].addenda = plan[c].addenda
              /\ pc[c] = "inplace" => /\ node'[n].doc = node[n].doc
                                     /\ node'[n].stamp = node[n].stamp
              /\ pc[c] = "embedding" =>
                   /\ node'[n].doc = <<plan[c].text, plan[c].extra>>
                   /\ node'[n].stamp = plan[c].stamp
<1>1. pc[c] \in Bound
  BY DEF UpdateInPlace, UpdateReembedded, Bound
<1>2. /\ plan[c] \in Plans /\ plan[c].node \in Nodes
      /\ Exists(plan[c].node) /\ node[plan[c].node] \in Rows
      /\ node \in [Nodes -> Rows]
  BY <1>1, PlanTyped DEF WellFormed, TypeOK
<1>3. CASE UpdateInPlace(c)
  BY <1>1, <1>2, <1>3 DEF UpdateInPlace, Replaced, Rows
<1>4. CASE UpdateReembedded(c)
  BY <1>1, <1>2, <1>4 DEF UpdateReembedded, Replaced, Rows
<1> QED BY <1>3, <1>4

\* Rows r and q differ in their addenda at most.
SameButAddenda(r, q) ==
  /\ q.status = r.status /\ q.text = r.text /\ q.value = r.value
  /\ q.extra = r.extra /\ q.doc = r.doc /\ q.stamp = r.stamp
  /\ q.source = r.source

\* An absorb touches one row's addenda.
LEMMA AbsorbEffect ==
  ASSUME WellFormed, NEW c \in Clients, CommitAbsorb(c)
  PROVE  /\ pc[c] = "absorbing" /\ plan[c].node \in Nodes
         /\ Exists(plan[c].node)
         /\ \A n \in Nodes : n # plan[c].node => node'[n] = node[n]
         /\ \A n \in Nodes : SameButAddenda(node[n], node'[n])
         /\ node'[plan[c].node].addenda =
              Append(plan[c].addenda,
                     [id |-> plan[c].id, text |-> plan[c].text,
                      promoted |-> FALSE])
<1> DEFINE as == Append(plan[c].addenda,
                        [id |-> plan[c].id, text |-> plan[c].text,
                         promoted |-> FALSE])
<1>1. pc[c] = "absorbing" /\ pc[c] \in Bound
  BY DEF CommitAbsorb, Bound
<1>2. /\ plan[c].node \in Nodes /\ Exists(plan[c].node)
      /\ node \in [Nodes -> Rows]
  BY <1>1, PlanTyped DEF WellFormed, TypeOK
<1>3. node' = [node EXCEPT ![plan[c].node].addenda = as]
  BY DEF CommitAbsorb
<1> HIDE DEF as
<1>4. \A n \in Nodes : node[n] \in Rows
  BY <1>2
<1>5. /\ \A n \in Nodes : n # plan[c].node => node'[n] = node[n]
      /\ \A n \in Nodes : SameButAddenda(node[n], node'[n])
      /\ node'[plan[c].node].addenda = as
  BY <1>2, <1>3, <1>4 DEF Rows, SameButAddenda
<1> QED BY <1>1, <1>2, <1>5 DEF as

\* A promotion adds rows, and else touches one row's addenda.
LEMMA PromoteRows ==
  ASSUME WellFormed, NEW n, NEW J, NEW f, PromoteStep(n, J, f)
  PROVE  /\ \A m \in Nodes : Exists(m) => SameButAddenda(node[m], node'[m])
         /\ \A m \in Nodes : SameButAddenda(node[m], node'[m])
              \/ \E i \in J : m = f[i]
<1>1. \A m \in Nodes : node[m] \in Rows
  BY DEF WellFormed, TypeOK
<1>2. \A m \in Nodes : (\A i \in J : f[i] # m) =>
        SameButAddenda(node[m], node'[m])
  <2>1. ASSUME NEW m \in Nodes, \A i \in J : f[i] # m
        PROVE  \/ node'[m] = node[m]
               \/ node'[m] = [node[m] EXCEPT !.addenda = Marked(admin.snap[n].addenda, J)]
    BY <2>1, Zenon DEF PromoteStep
  <2>2. \A r \in Rows : \A q, as : q = r \/ q = [r EXCEPT !.addenda = as] => SameButAddenda(r, q)
    BY DEF SameButAddenda, Rows
  <2> QED BY <1>1, <2>1, <2>2, Zenon
<1>3. \A m \in Nodes : Exists(m) => \A i \in J : f[i] # m
  BY DEF PromoteStep
<1> QED BY <1>2, <1>3

\* An archived row keeps its text and attrs in every step, also when it was
\* archived between the read and the write of an update.
LEMMA StepFrozen ==
  ASSUME WellFormed, [Next]_vars, NEW n \in Nodes, node[n].status = "archived"
  PROVE  node'[n].text = node[n].text /\ node'[n].value = node[n].value
<1> USE DEF WellFormed
<1>0. Exists(n) BY DEF Exists
<1>1. ASSUME UNCHANGED node
      PROVE  node'[n].text = node[n].text /\ node'[n].value = node[n].value
  BY <1>1
<1>2. ASSUME NEW c \in Clients, ClientStep(c)
      PROVE  node'[n].text = node[n].text /\ node'[n].value = node[n].value
  <2>1. CASE UpdateInPlace(c) \/ UpdateReembedded(c)
    BY <2>1, UpdateEffect
  <2>2. CASE CommitAbsorb(c)
    BY <2>2, AbsorbEffect DEF SameButAddenda
  <2>3. ASSUME NEW m \in Nodes, CommitWrite(c, m)
        PROVE  node'[n].text = node[n].text /\ node'[n].value = node[n].value
    BY <1>0, <2>3 DEF CommitWrite, TypeOK
  <2> QED
    BY <1>1, <1>2, <2>1, <2>2, <2>3
       DEF ClientStep, BeginWrite, BeginUpdate, BeginAbsorb, Begin, Abandon
<1>3. ASSUME Maintain
      PROVE  node'[n].text = node[n].text /\ node'[n].value = node[n].value
  <2>1. ASSUME NEW B \in SUBSET admin.todo, RebuildBatch(B) \/ ReembedBatch(B)
        PROVE  node'[n].text = node[n].text /\ node'[n].value = node[n].value
    BY <2>1, BatchEffect DEF BatchStep
  <2>2. ASSUME NEW m \in admin.todo,
               NEW J \in SUBSET Unmarked(admin.snap[m].addenda),
               NEW f \in [J -> Nodes], PromoteNode(m, J, f)
        PROVE  node'[n].text = node[n].text /\ node'[n].value = node[n].value
    BY <1>0, <2>2, PromoteEffect, PromoteRows DEF SameButAddenda
  <2> QED
    BY <1>1, <1>3, <2>1, <2>2 DEF Maintain, AdminStart, AdminFinish, AdminCrash
<1>4. ASSUME NEW m \in Nodes, Archive(m)
      PROVE  node'[n].text = node[n].text /\ node'[n].value = node[n].value
  BY <1>4 DEF Archive, TypeOK, Rows
<1> QED
  BY <1>1, <1>2, <1>3, <1>4 DEF Next, FlipSurface, SwitchProfile, Done, vars

\* An archived node is read-only to agents (update.py refuses it in its first
\* transaction and, were it archived since, in its second).
THEOREM ArchivedStaysFrozen == Spec => ArchivedFrozen
<1>1. WellFormed /\ [Next]_vars => [KeepsArchived]_vars
  BY StepFrozen DEF KeepsArchived
<1> QED
  BY <1>1, InitWellFormed, StepWellFormed, PTL DEF Spec, ArchivedFrozen

\* What a running reembed still has to do is all that is left of other
\* vector spaces.
ReembedLeft ==
  admin.pc = "running" /\ admin.cmd = "reembed" =>
    \A n \in Nodes \ {Sentinel} :
      Exists(n) /\ n \notin admin.todo => node[n].stamp = profile

\* ReembedLeft is inductive: who writes meanwhile writes the running stamp.
LEMMA StepReembed == WellFormed /\ ReembedLeft /\ [Next]_vars => ReembedLeft'
<1> SUFFICES ASSUME WellFormed, ReembedLeft, [Next]_vars,
                    admin'.pc = "running", admin'.cmd = "reembed",
                    NEW n \in Nodes \ {Sentinel}, Exists(n)',
                    n \notin admin'.todo
             PROVE  node'[n].stamp = profile'
  BY DEF ReembedLeft
<1> USE DEF WellFormed
<1>1. ASSUME UNCHANGED <<admin, profile>>,
             node'[n].stamp = node[n].stamp, Exists(n)
      PROVE  node'[n].stamp = profile'
  BY <1>1 DEF ReembedLeft
<1>2. ASSUME NEW c \in Clients, ClientStep(c)
      PROVE  node'[n].stamp = profile'
  <2>0. UNCHANGED <<admin, profile>>
    BY <1>2 DEF ClientStep, BeginWrite, BeginUpdate, BeginAbsorb, Begin, End,
                Abandon, CommitWrite, UpdateInPlace, UpdateReembedded,
                CommitAbsorb
  <2>1. CASE UpdateInPlace(c) \/ UpdateReembedded(c)
    <3>1. CASE node'[n] = node[n]
      BY <1>1, <2>0, <3>1 DEF Exists
    <3>2. CASE node'[n] # node[n]
      <4>1. Exists(n)
        BY <2>1, <3>2, UpdateEffect
      <4>2. pc[c] \in {"inplace", "embedding"}
        BY <2>1 DEF UpdateInPlace, UpdateReembedded
      <4> QED BY <1>1, <2>0, <2>1, <3>2, <4>1, <4>2, UpdateEffect DEF StampOK
    <3> QED BY <3>1, <3>2
  <2>2. CASE CommitAbsorb(c)
    BY <1>1, <2>0, <2>2, AbsorbEffect DEF SameButAddenda, Exists
  <2>3. ASSUME NEW m \in Nodes, CommitWrite(c, m)
        PROVE  node'[n].stamp = profile'
    <3>1. CASE n = m
      BY <2>0, <2>3, <3>1 DEF CommitWrite, TypeOK, StampOK
    <3>2. CASE n # m
      BY <1>1, <2>0, <2>3, <3>2 DEF CommitWrite, TypeOK, Exists
    <3> QED BY <3>1, <3>2
  <2>4. CASE UNCHANGED node
    BY <1>1, <2>0, <2>4 DEF Exists
  <2> QED
    BY <1>2, <2>1, <2>2, <2>3, <2>4, Zenon
       DEF ClientStep, BeginWrite, BeginUpdate, BeginAbsorb, Begin, End, Abandon
<1>3. ASSUME NEW cmd \in Commands, AdminStart(cmd)
      PROVE  node'[n].stamp = profile'
  <2>1. cmd = "reembed" /\ n \notin Selected(cmd) /\ Exists(n)
    BY <1>3 DEF AdminStart, Exists
  <2> QED BY <1>3, <2>1 DEF AdminStart, Selected, Scanned
<1>4. ASSUME NEW B \in SUBSET admin.todo, RebuildBatch(B) \/ ReembedBatch(B)
      PROVE  node'[n].stamp = profile'
  <2>1. /\ admin.pc = "running" /\ BatchStep(B) /\ UNCHANGED profile
        /\ admin' = [admin EXCEPT !.todo = @ \ B]
    BY <1>4, BatchEffect DEF AdminStep
  <2>2. admin.cmd = "reembed" /\ (n \in B \/ n \notin admin.todo)
    BY <2>1 DEF TypeOK
  <2>3. CASE n \in B
    BY <1>4, <2>1, <2>2, <2>3, BatchEffect DEF StampOK
  <2>4. CASE n \notin admin.todo
    BY <2>1, <2>2, <2>4 DEF ReembedLeft, BatchStep, Exists
  <2> QED BY <2>2, <2>3, <2>4
<1>5. ASSUME NEW m \in admin.todo,
             NEW J \in SUBSET Unmarked(admin.snap[m].addenda),
             NEW f \in [J -> Nodes], PromoteNode(m, J, f)
      PROVE  FALSE
  <2>1. admin.cmd = "promote" /\ admin' = [admin EXCEPT !.todo = @ \ {m}]
    BY <1>5, PromoteEffect
  <2> QED BY <2>1 DEF TypeOK
<1>6. ASSUME AdminFinish \/ AdminCrash PROVE FALSE
  <2>1. admin'.pc \in {"done", "idle"}
    BY <1>6, EndEffect
  <2> QED BY <2>1
<1>7. ASSUME NEW s \in Stamps, SwitchProfile(s) PROVE FALSE
  BY <1>7 DEF SwitchProfile, Change
<1>8. ASSUME FlipSurface \/ UNCHANGED vars \/ \E m \in Nodes : Archive(m)
      PROVE  node'[n].stamp = profile'
  BY <1>1, <1>8 DEF FlipSurface, Change, vars, Archive, TypeOK, Rows, Exists
<1> QED
  BY <1>2, <1>3, <1>4, <1>5, <1>6, <1>7, <1>8 DEF Next, Maintain, Done
-----------------------------------------------------------------------------
(* The quiet window: what was read is still what the row holds.            *)

\* What a command scanned of a row is what the row shows.
Scan(n) ==
  /\ admin.snap[n].text = node[n].text /\ admin.snap[n].value = node[n].value
  /\ admin.snap[n].extra = node[n].extra
  /\ admin.snap[n].addenda = node[n].addenda

QuietSurface ==
  quiet =>
    /\ IndexMatchesRow
    /\ \A c, d \in Clients : Editing(c) /\ Editing(d) => c = d
    /\ \A c \in Clients : pc[c] = "inplace" =>
         /\ plan[c].text = node[plan[c].node].text
         /\ plan[c].extra = node[plan[c].node].extra
    /\ admin.pc = "running" =>
         /\ \A c \in Clients : pc[c] = "idle"
         /\ \A n \in admin.todo : Scan(n)
         /\ admin.cmd = "rebuild" => \A n \in Nodes \ admin.todo :
              node[n].extra = Render(node[n].value, admin.on)

\* A row without the attr has no surface, whatever the flag.
LEMMA RenderBlank == \A on : Render(Blank, on) = Blank
BY DEF Render

\* The first transaction of a call plans what the row it read calls for.
LEMMA BeginQuietSurface ==
  ASSUME WellFormed, QuietSurface, NEW c \in Clients, NEW next, NEW p \in Plans,
         Begin(c, next, p),
         quiet /\ next \in {"inplace", "embedding"}
           => \A d \in Clients : ~Editing(d),
         next = "inplace" => /\ p.text = node[p.node].text
                             /\ p.extra = node[p.node].extra
  PROVE  QuietSurface'
<1> SUFFICES ASSUME quiet PROVE QuietSurface'
  BY DEF QuietSurface, Begin
<1>1. UNCHANGED <<node, admin, quiet>> /\ admin.pc # "running"
  BY DEF Begin
<1>2. \A d \in Clients : d # c => pc'[d] = pc[d] /\ plan'[d] = plan[d]
  BY DEF Begin, WellFormed, TypeOK
<1>3. /\ pc'[c] = next /\ plan'[c].node = p.node /\ plan'[c].text = p.text
      /\ plan'[c].extra = p.extra
  BY DEF Begin, WellFormed, TypeOK, Plans
<1> QED
  BY <1>1, <1>2, <1>3 DEF QuietSurface, IndexMatchesRow, Editing

\* A call that ends leaves the others' plans in force when it kept the surface
\* of every row they plan for.
LEMMA EndQuietSurface ==
  ASSUME WellFormed, QuietSurface, NEW c \in Clients, End(c), pc[c] # "idle",
         quiet => IndexMatchesRow',
         \A d \in Clients : d # c /\ pc[d] = "inplace" /\ quiet =>
           /\ node'[plan[d].node].text = node[plan[d].node].text
           /\ node'[plan[d].node].extra = node[plan[d].node].extra
  PROVE  QuietSurface'
<1> SUFFICES ASSUME quiet PROVE QuietSurface'
  BY DEF QuietSurface, End
<1>1. UNCHANGED <<admin, quiet>> /\ admin.pc # "running"
  BY DEF QuietSurface, End
<1>2. pc'[c] = "idle"
        /\ \A d \in Clients : d # c => pc'[d] = pc[d] /\ plan'[d] = plan[d]
  BY DEF End, WellFormed, TypeOK
<1> QED
  BY <1>1, <1>2 DEF QuietSurface, Editing

\* A client's step in a quiet window leaves vectors that match their rows.
LEMMA ClientQuietSurface ==
  ASSUME WellFormed, QuietSurface, NEW c \in Clients, ClientStep(c)
  PROVE  QuietSurface'
<1>1. ASSUME NEW t \in Texts, NEW v \in Values \cup {Blank},
             BeginWrite(c, t, v)
      PROVE  QuietSurface'
  <2>1. Render(v, surfaceOn) \in Surfaces /\ v \in Surfaces
    BY RenderTyped DEF WellFormed, TypeOK, Surfaces
  <2>2. [NoPlan EXCEPT !.text = t, !.value = v,
           !.extra = Render(v, surfaceOn), !.stamp = profile] \in Plans
    BY <2>1, NoRowTyped DEF Plans, WellFormed, TypeOK, AllStamps
  <2> QED BY <1>1, <2>2, BeginQuietSurface DEF BeginWrite
<1>2. ASSUME NEW n \in Nodes, NEW t \in Texts \cup {Keep},
             NEW v \in Values \cup {Blank, Keep}, BeginUpdate(c, n, t, v)
      PROVE  QuietSurface'
  <2> DEFINE text == IF t = Keep THEN node[n].text ELSE t
             value == IF v = Keep THEN node[n].value ELSE v
             extra == Render(value, surfaceOn)
             p == [node |-> n, text |-> text, value |-> value, extra |-> extra,
                   addenda |-> node[n].addenda, stamp |-> profile, id |-> 0]
  <2>1. node[n] \in Rows BY DEF WellFormed, TypeOK
  <2>2. text \in Texts \cup {Blank} /\ value \in Surfaces
    BY <2>1 DEF Rows, Surfaces
  <2>3. extra \in Surfaces
    BY <2>2, RenderTyped DEF WellFormed, TypeOK
  <2>4. p \in Plans
    BY <2>1, <2>2, <2>3 DEF Plans, Rows, WellFormed, TypeOK, AllStamps
  <2>5. /\ p.node = n /\ p.text = text /\ p.extra = extra
    OBVIOUS
  <2>6. PICK next \in {"embedding", "inplace"} :
          /\ Begin(c, next, p)
          /\ next = "inplace" => <<text, extra>> = <<node[n].text, node[n].extra>>
    BY <1>2 DEF BeginUpdate
  <2>7. quiet => \A d \in Clients : ~Editing(d)
    BY <1>2 DEF BeginUpdate
  <2> HIDE DEF text, extra, p
  <2> QED BY <2>4, <2>5, <2>6, <2>7, BeginQuietSurface
<1>3. ASSUME NEW n \in Nodes, NEW t \in Texts, BeginAbsorb(c, n, t)
      PROVE  QuietSurface'
  <2>1. [NoPlan EXCEPT !.node = n, !.text = t, !.addenda = node[n].addenda]
          \in Plans
    BY NoRowTyped DEF Plans, WellFormed, TypeOK, Rows
  <2> QED BY <1>3, <2>1, BeginQuietSurface DEF BeginAbsorb
<1>4. ASSUME NEW n \in Nodes, CommitWrite(c, n) PROVE QuietSurface'
  <2>1. /\ \A m \in Nodes : m # n => node'[m] = node[m]
        /\ node'[n].doc = <<node'[n].text, node'[n].extra>>
        /\ ~Exists(n) /\ pc[c] = "writing" /\ End(c)
    BY <1>4 DEF CommitWrite, WellFormed, TypeOK
  <2>2. quiet => IndexMatchesRow'
    BY <2>1 DEF QuietSurface, IndexMatchesRow
  <2>3. \A d \in Clients : pc[d] = "inplace" => plan[d].node \in Nodes \ {n}
    BY <2>1 DEF WellFormed, PlanOK, Bound
  <2> QED BY <2>1, <2>2, <2>3, EndQuietSurface
<1>5. CASE UpdateInPlace(c) \/ UpdateReembedded(c)
  <2>1. End(c) /\ Editing(c) /\ pc[c] \in {"inplace", "embedding"}
    BY <1>5 DEF UpdateInPlace, UpdateReembedded, Editing
  <2>2. quiet => IndexMatchesRow'
    <3> SUFFICES ASSUME quiet, NEW n \in Nodes
                 PROVE  node'[n].doc = <<node'[n].text, node'[n].extra>>
      BY DEF IndexMatchesRow
    <3>1. CASE node'[n] = node[n]
      BY <3>1 DEF QuietSurface, IndexMatchesRow
    <3>2. CASE node'[n] # node[n] /\ pc[c] = "embedding"
      BY <1>5, <3>2, UpdateEffect
    <3>3. CASE node'[n] # node[n] /\ pc[c] = "inplace"
      BY <1>5, <3>3, UpdateEffect DEF QuietSurface, IndexMatchesRow
    <3> QED BY <2>1, <3>1, <3>2, <3>3
  <2>3. quiet => \A d \in Clients : d # c => pc[d] # "inplace"
    BY <2>1 DEF QuietSurface, Editing
  <2> QED BY <2>1, <2>2, <2>3, EndQuietSurface
<1>6. CASE CommitAbsorb(c)
  <2>1. End(c) /\ pc[c] # "idle"
    BY <1>6 DEF CommitAbsorb
  <2>2. quiet => IndexMatchesRow'
    BY <1>6, AbsorbEffect DEF QuietSurface, IndexMatchesRow, SameButAddenda
  <2>3. \A d \in Clients : pc[d] = "inplace" => plan[d].node \in Nodes
    BY DEF WellFormed, PlanOK, Bound
  <2> QED
    BY <1>6, <2>1, <2>2, <2>3, AbsorbEffect, EndQuietSurface DEF SameButAddenda
<1>7. CASE Abandon(c)
  BY <1>7, EndQuietSurface DEF Abandon, QuietSurface, IndexMatchesRow
<1> QED
  BY <1>1, <1>2, <1>3, <1>4, <1>5, <1>6, <1>7 DEF ClientStep

\* A maintenance step leaves vectors that match their rows.
LEMMA MaintainQuietSurface ==
  ASSUME WellFormed, QuietSurface, Maintain
  PROVE  QuietSurface'
<1> SUFFICES ASSUME quiet PROVE QuietSurface'
  BY DEF QuietSurface, Maintain, AdminStart, RebuildBatch, ReembedBatch,
         PromoteNode, AdminFinish, AdminCrash, AdminStep
<1>1. ASSUME NEW cmd \in Commands, AdminStart(cmd) PROVE QuietSurface'
  <2>1. /\ UNCHANGED <<node, pc, plan, surfaceOn>>
        /\ admin'.snap = node /\ admin'.on = surfaceOn /\ admin'.cmd = cmd
        /\ admin'.todo = Selected(cmd)
        /\ \A c \in Clients : pc[c] = "idle"
    BY <1>1 DEF AdminStart
  <2>2. cmd = "rebuild" => \A n \in Nodes \ Selected(cmd) :
          node[n].extra = Render(node[n].value, surfaceOn)
    <3> SUFFICES ASSUME cmd = "rebuild", NEW n \in Nodes, n \notin Selected(cmd)
                 PROVE  node[n].extra = Render(node[n].value, surfaceOn)
      OBVIOUS
    <3>1. CASE n \in Scanned(cmd)
      BY <3>1 DEF Selected
    <3>2. CASE n \notin Scanned(cmd)
      BY <3>2, RenderBlank DEF Scanned, WellFormed, RowsOK, NoRow
    <3> QED BY <3>1, <3>2
  <2> QED
    BY <2>1, <2>2 DEF QuietSurface, IndexMatchesRow, Editing, Scan
<1>2. ASSUME NEW B \in SUBSET admin.todo, RebuildBatch(B) \/ ReembedBatch(B)
      PROVE  QuietSurface'
  <2>1. /\ admin.pc = "running" /\ BatchStep(B) /\ UNCHANGED <<pc, plan>>
        /\ admin' = [admin EXCEPT !.todo = @ \ B]
        /\ admin.cmd \in {"rebuild", "reembed"}
    BY <1>2, BatchEffect DEF AdminStep, RebuildBatch, ReembedBatch
  <2>2. /\ admin'.todo = admin.todo \ B /\ admin'.snap = admin.snap
        /\ admin'.on = admin.on /\ admin'.cmd = admin.cmd
        /\ admin'.pc = "running" /\ admin.todo \subseteq Nodes
    BY <2>1 DEF WellFormed, TypeOK
  <2>3. \A c \in Clients : pc[c] = "idle"
    BY <2>1 DEF QuietSurface
  <2>4. \A n \in B : Scan(n)
    BY <2>1 DEF QuietSurface
  <2>5. IndexMatchesRow'
    <3> SUFFICES ASSUME NEW n \in Nodes
                 PROVE  node'[n].doc = <<node'[n].text, node'[n].extra>>
      BY DEF IndexMatchesRow
    <3>1. CASE n \notin B
      BY <2>1, <3>1 DEF BatchStep, QuietSurface, IndexMatchesRow
    <3>2. CASE n \in B
      <4>1. node'[n].doc = <<admin.snap[n].text, node'[n].extra>>
              \/ /\ node'[n].doc = <<admin.snap[n].text, admin.snap[n].extra>>
                 /\ node'[n].extra = node[n].extra
        BY <1>2, <3>2, BatchEffect
      <4>2. /\ admin.snap[n].text = node'[n].text
            /\ admin.snap[n].extra = node[n].extra
        BY <2>1, <2>4, <3>2 DEF BatchStep, Scan
      <4> QED BY <4>1, <4>2
    <3> QED BY <3>1, <3>2
  <2>6. \A n \in admin'.todo : Scan(n)'
    BY <2>1, <2>2 DEF QuietSurface, Scan, BatchStep
  <2>7. admin.cmd = "rebuild" => \A n \in Nodes \ admin'.todo :
          node'[n].extra = Render(node'[n].value, admin.on)
    <3> SUFFICES ASSUME admin.cmd = "rebuild", NEW n \in Nodes \ admin'.todo
                 PROVE  node'[n].extra = Render(node'[n].value, admin.on)
      OBVIOUS
    <3>1. CASE n \in B
      <4>1. node'[n].extra = Render(admin.snap[n].value, admin.on)
        BY <1>2, <3>1, BatchEffect
      <4>2. admin.snap[n].value = node'[n].value
        BY <2>1, <2>4, <3>1 DEF BatchStep, Scan
      <4> QED BY <4>1, <4>2
    <3>2. CASE n \notin admin.todo
      BY <2>1, <3>2 DEF BatchStep, QuietSurface
    <3> QED BY <2>2, <3>1, <3>2
  <2> QED
    BY <2>1, <2>2, <2>3, <2>5, <2>6, <2>7 DEF QuietSurface, Editing
<1>3. ASSUME NEW n \in admin.todo,
             NEW J \in SUBSET Unmarked(admin.snap[n].addenda),
             NEW f \in [J -> Nodes], PromoteNode(n, J, f)
      PROVE  QuietSurface'
  <2>1. /\ PromoteStep(n, J, f) /\ admin.pc = "running" /\ UNCHANGED <<pc, plan>>
        /\ admin' = [admin EXCEPT !.todo = @ \ {n}] /\ admin.cmd = "promote"
    BY <1>3, PromoteEffect DEF AdminStep
  <2>2. /\ admin'.todo = admin.todo \ {n} /\ admin'.snap = admin.snap
        /\ admin'.cmd = "promote" /\ admin.todo \subseteq Nodes
    BY <2>1 DEF WellFormed, TypeOK
  <2>3. IndexMatchesRow'
    <3> SUFFICES ASSUME NEW m \in Nodes
                 PROVE  node'[m].doc = <<node'[m].text, node'[m].extra>>
      BY DEF IndexMatchesRow
    <3>1. CASE SameButAddenda(node[m], node'[m])
      BY <3>1 DEF SameButAddenda, QuietSurface, IndexMatchesRow
    <3>2. ASSUME NEW i \in J, m = f[i]
          PROVE  node'[m].doc = <<node'[m].text, node'[m].extra>>
      BY <2>1, <3>2, MemberTyped DEF PromoteStep, WellFormed, TypeOK
    <3> QED BY <2>1, <3>1, <3>2, PromoteRows
  <2>4. \A m \in admin'.todo : Scan(m)'
    <3> TAKE m \in admin'.todo
    <3>1. m # n /\ m \in Nodes /\ Exists(m) /\ m \in admin.todo
      BY <2>1, <2>2 DEF WellFormed, TodoOK
    <3>2. node'[m] = node[m]
      BY <2>1, <3>1 DEF PromoteStep
    <3> QED BY <2>1, <2>2, <3>1, <3>2 DEF QuietSurface, Scan
  <2> QED
    BY <2>1, <2>2, <2>3, <2>4 DEF QuietSurface, Editing
<1>4. CASE AdminFinish \/ AdminCrash
  <2>1. admin'.pc # "running" BY <1>4, EndEffect
  <2> QED
    BY <1>4, <2>1 DEF AdminFinish, AdminCrash, AdminStep, QuietSurface,
                      IndexMatchesRow, Editing
<1> QED BY <1>1, <1>2, <1>3, <1>4 DEF Maintain

\* QuietSurface is inductive.
LEMMA StepQuietSurface ==
  WellFormed /\ QuietSurface /\ [Next]_vars => QuietSurface'
<1> SUFFICES ASSUME WellFormed, QuietSurface, [Next]_vars PROVE QuietSurface'
  OBVIOUS
<1>1. ASSUME UNCHANGED <<quiet, pc, plan, node, admin>> PROVE QuietSurface'
  BY <1>1 DEF QuietSurface, IndexMatchesRow, Editing, Scan
<1>2. ASSUME NEW s \in Stamps, SwitchProfile(s) PROVE QuietSurface'
  BY <1>1, <1>2 DEF SwitchProfile, Change
<1>3. ASSUME NEW n \in Nodes, Archive(n) PROVE QuietSurface'
  <2>1. /\ UNCHANGED <<quiet, pc, plan, admin>>
        /\ \A m \in Nodes : /\ node'[m].text = node[m].text
                            /\ node'[m].value = node[m].value
                            /\ node'[m].extra = node[m].extra
                            /\ node'[m].doc = node[m].doc
                            /\ node'[m].addenda = node[m].addenda
    BY <1>3 DEF Archive, Change, WellFormed, TypeOK, Rows
  <2>2. admin.todo \subseteq Nodes
          /\ \A c \in Clients : pc[c] = "inplace" => plan[c].node \in Nodes
    BY DEF WellFormed, TypeOK, PlanOK, Bound
  <2> QED BY <2>1, <2>2 DEF QuietSurface, IndexMatchesRow, Editing, Scan
<1> QED
  BY <1>1, <1>2, <1>3, ClientQuietSurface, MaintainQuietSurface
     DEF Next, FlipSurface, Change, Done, vars

\* No row of the empty space has a vector of another text.
LEMMA InitQuietSurface == Init => QuietSurface
BY IndexAssumption
   DEF Init, QuietSurface, IndexMatchesRow, Editing, IdleAdmin, NoRow, SentinelRow

\* I4, dual-index consistency: as long as edits come one at a time and
\* maintenance has its quiet window, every row's vector is that of the text and
\* surface it holds, through crashes, resumed commands and profile switches.
THEOREM QuietIndexConsistent == Spec => []QuietIndexMatchesRow
<1>1. QuietSurface => QuietIndexMatchesRow
  BY DEF QuietSurface, QuietIndexMatchesRow
<1> QED
  BY <1>1, InitWellFormed, StepWellFormed, InitQuietSurface, StepQuietSurface,
     PTL DEF Spec

\* At the step that says done the work list is empty.
LEMMA StepReaches ==
  ASSUME WellFormed, ReembedLeft, QuietSurface, [Next]_vars
  PROVE  ReembedReaches /\ RebuildReaches
<1> SUFFICES ASSUME admin.pc = "running", admin'.pc = "done"
             PROVE  ReembedReaches /\ RebuildReaches
  BY DEF ReembedReaches, RebuildReaches, Completes
<1>1. AdminFinish
  <2>1. ~ UNCHANGED admin
    OBVIOUS
  <2>2. admin'.pc \notin {"running", "idle"}
    OBVIOUS
  <2>3. ASSUME NEW T, admin' = [admin EXCEPT !.todo = T] PROVE FALSE
    BY <2>3 DEF WellFormed, TypeOK
  <2>4. ASSUME NEW c \in Clients, ClientStep(c) PROVE UNCHANGED admin
    BY <2>4 DEF ClientStep, BeginWrite, BeginUpdate, BeginAbsorb, Begin, End,
                Abandon, CommitWrite, UpdateInPlace, UpdateReembedded,
                CommitAbsorb
  <2>5. \A cmd \in Commands : ~AdminStart(cmd)
    BY DEF AdminStart
  <2>6. \A B \in SUBSET admin.todo : ~RebuildBatch(B) /\ ~ReembedBatch(B)
    BY <2>3 DEF RebuildBatch, ReembedBatch
  <2>7. \A n, J, f : ~PromoteNode(n, J, f)
    BY <2>3 DEF PromoteNode
  <2>8. AdminFinish \/ AdminCrash
    BY <2>1, <2>4, <2>5, <2>6, <2>7
       DEF Next, Maintain, FlipSurface, SwitchProfile, Archive, Change, Done,
           vars
  <2> QED BY <2>8, EndEffect
<1>2. admin.todo = {}
  BY <1>1 DEF AdminFinish
<1>3. ReembedReaches
  BY <1>2 DEF ReembedReaches, Completes, ReembedLeft
<1>4. RebuildReaches
  BY <1>2 DEF RebuildReaches, Completes, QuietSurface
<1> QED BY <1>3, <1>4

\* A maintenance command that completes has reached every row (surface.py,
\* reembed.py), for every batch size and whatever crashed before it.
THEOREM CompletedMaintenance == Spec => MaintenanceComplete
<1> DEFINE Inv == WellFormed /\ ReembedLeft /\ QuietSurface
<1>1. Init => Inv
  BY InitWellFormed, InitQuietSurface DEF Init, IdleAdmin, ReembedLeft
<1>2. Inv /\ [Next]_vars => Inv'
  BY StepWellFormed, StepReembed, StepQuietSurface
<1>3. Inv /\ [Next]_vars => [ReembedReaches /\ RebuildReaches]_vars
  BY StepReaches
<1> QED BY <1>1, <1>2, <1>3, PTL DEF Spec, MaintenanceComplete

-----------------------------------------------------------------------------
(* The quiet window: addenda and their members.                            *)

\* The addenda that row n has, or that a call in flight will write back to it.
Planned(c, n) == pc[c] \in Bound /\ plan[c].node = n
Elems(as) == {as[i] : i \in 1..Len(as)}
Known(n) ==
  Elems(node[n].addenda)
    \cup UNION {Elems(plan[c].addenda) : c \in {d \in Clients : Planned(d, n)}}

IdsDistinct(as) ==
  \A i, j \in 1..Len(as) : as[i].id = as[j].id => i = j

\* An addendum has one row; it has no member row until it is marked; the one
\* that an absorb is about to add is new.
QuietAddenda ==
  quiet =>
    /\ PromotedOnce
    /\ \A n \in Nodes : IdsDistinct(node[n].addenda)
    /\ \A c \in Clients : pc[c] \in Bound => IdsDistinct(plan[c].addenda)
    /\ \A m, n \in Nodes : \A a \in Known(m), b \in Known(n) :
         a.id = b.id => m = n
    /\ \A m, n \in Nodes : \A a \in Known(n) :
         ~a.promoted => node[m].source # a.id
    /\ \A c \in Clients : pc[c] # "idle" =>
         /\ plan[c].id \notin {0}
         /\ \A n \in Nodes : node[n].source # plan[c].id
         /\ \A n \in Nodes : \A a \in Known(n) : a.id # plan[c].id
         /\ \A d \in Clients : pc[d] # "idle" /\ plan[d].id = plan[c].id
              => c = d
    /\ \A c \in Clients : plan[c].id <= calls
    /\ \A n \in Nodes : node[n].source <= calls
    /\ \A n \in Nodes : \A a \in Known(n) : a.id \in 1..calls

\* Addendum a is b, perhaps marked since.
Descends(a, b) == a.id = b.id /\ (b.promoted => a.promoted)

\* An addendum is known to a row that holds it or to a call that will write it.
LEMMA KnownParts ==
  ASSUME NEW n, NEW a
  PROVE  a \in Known(n) <=>
           \/ a \in Elems(node[n].addenda)
           \/ \E c \in Clients : Planned(c, n) /\ a \in Elems(plan[c].addenda)
BY DEF Known

\* What only drops or marks addenda, and adds no member, keeps QuietAddenda.
LEMMA ShrinkingStep ==
  ASSUME QuietAddenda, UNCHANGED <<quiet, calls>>,
         \A n \in Nodes : node'[n].source = node[n].source,
         \A c \in Clients : pc'[c] # "idle" =>
           pc'[c] = pc[c] /\ plan'[c] = plan[c],
         \A c \in Clients : plan'[c].id \in {0, plan[c].id},
         calls \in Nat,
         quiet => \A n \in Nodes :
           /\ IdsDistinct(node'[n].addenda)
           /\ \A a \in Elems(node'[n].addenda) :
                \E b \in Known(n) : Descends(a, b)
  PROVE  QuietAddenda'
<1> SUFFICES ASSUME quiet PROVE QuietAddenda'
  BY DEF QuietAddenda
<1>1. ASSUME NEW n \in Nodes, NEW a \in Known(n)'
      PROVE  \E b \in Known(n) : Descends(a, b)
  <2>1. CASE a \in Elems(node'[n].addenda)
    BY <2>1
  <2>2. ASSUME NEW c \in Clients, Planned(c, n)', a \in Elems(plan'[c].addenda)
        PROVE  a \in Known(n)
    BY <2>2, KnownParts DEF Planned, Bound
  <2>3. a \in Elems(node'[n].addenda)
          \/ \E c \in Clients : Planned(c, n)' /\ a \in Elems(plan'[c].addenda)
    BY <1>1 DEF Known
  <2> QED BY <2>1, <2>2, <2>3 DEF Descends
<1>2. PromotedOnce'
  BY DEF QuietAddenda, PromotedOnce
<1>3. \A c \in Clients : pc'[c] \in Bound => IdsDistinct(plan'[c].addenda)
  BY DEF QuietAddenda, Bound
<1>4. \A m, n \in Nodes : \A a \in Known(m)', b \in Known(n)' :
        a.id = b.id => m = n
  BY <1>1 DEF QuietAddenda, Descends
<1>5. \A m, n \in Nodes : \A a \in Known(n)' :
        ~a.promoted => node'[m].source # a.id
  BY <1>1 DEF QuietAddenda, Descends
<1>6. \A c \in Clients : pc'[c] # "idle" =>
        /\ plan'[c].id \notin {0}
        /\ \A n \in Nodes : node'[n].source # plan'[c].id
        /\ \A n \in Nodes : \A a \in Known(n)' : a.id # plan'[c].id
        /\ \A d \in Clients : pc'[d] # "idle" /\ plan'[d].id = plan'[c].id
             => c = d
  BY <1>1 DEF QuietAddenda, Descends
<1>7. /\ \A c \in Clients : plan'[c].id <= calls'
      /\ \A n \in Nodes : node'[n].source <= calls'
      /\ \A n \in Nodes : \A a \in Known(n)' : a.id \in 1..calls'
  BY <1>1 DEF QuietAddenda, Descends
<1> QED BY <1>2, <1>3, <1>4, <1>5, <1>6, <1>7 DEF QuietAddenda

\* A call that begins plans a list its row has, and gets an id of its own.
LEMMA BeginQuietAddenda ==
  ASSUME WellFormed, QuietAddenda, NEW c \in Clients,
         NEW next \in {"writing"} \cup Bound, NEW p \in Plans, Begin(c, next, p),
         next \in Bound =>
           p.node \in Nodes /\ p.addenda = node[p.node].addenda
  PROVE  QuietAddenda'
<1> SUFFICES ASSUME quiet PROVE QuietAddenda'
  BY DEF QuietAddenda, Begin
<1>1. /\ UNCHANGED <<node, quiet>> /\ calls \in Nat /\ calls' = calls + 1
      /\ pc[c] = "idle"
  BY IndexAssumption DEF Begin, WellFormed, TypeOK
<1>2. \A d \in Clients : d # c => pc'[d] = pc[d] /\ plan'[d] = plan[d]
  BY DEF Begin, WellFormed, TypeOK
<1>3. /\ pc'[c] = next /\ plan'[c].node = p.node /\ plan'[c].id = calls'
      /\ plan'[c].addenda = p.addenda
  BY DEF Begin, WellFormed, TypeOK, Plans
<1>4. \A n \in Nodes : Known(n)' \subseteq Known(n)
  <2> SUFFICES ASSUME NEW n \in Nodes, NEW a \in Known(n)' PROVE a \in Known(n)
    OBVIOUS
  <2>1. a \in Elems(node'[n].addenda)
          \/ \E d \in Clients : Planned(d, n)' /\ a \in Elems(plan'[d].addenda)
    BY DEF Known
  <2>2. CASE a \in Elems(node'[n].addenda)
    BY <1>1, <2>2, KnownParts
  <2>3. ASSUME NEW d \in Clients, Planned(d, n)', a \in Elems(plan'[d].addenda)
        PROVE  a \in Known(n)
    <3>1. CASE d = c
      BY <1>3, <2>3, <3>1, KnownParts DEF Planned
    <3>2. CASE d # c
      BY <1>2, <2>3, <3>2, KnownParts DEF Planned
    <3> QED BY <3>1, <3>2
  <2> QED BY <2>1, <2>2, <2>3
<1>5. /\ \A d \in Clients : plan[d].id \in Nat /\ plan[d].id <= calls
      /\ \A n \in Nodes : node[n].source \in Nat /\ node[n].source <= calls
      /\ \A n \in Nodes : \A a \in Known(n) : a.id \in 1..calls
  BY DEF QuietAddenda, WellFormed, TypeOK, Rows
<1>6. PromotedOnce'
  BY <1>1 DEF QuietAddenda, PromotedOnce
<1>7. \A d \in Clients : pc'[d] \in Bound => IdsDistinct(plan'[d].addenda)
  BY <1>2, <1>3 DEF QuietAddenda
<1>8. \A d \in Clients : pc'[d] # "idle" =>
        /\ plan'[d].id \notin {0}
        /\ \A n \in Nodes : node'[n].source # plan'[d].id
        /\ \A n \in Nodes : \A a \in Known(n)' : a.id # plan'[d].id
        /\ \A e \in Clients : pc'[e] # "idle" /\ plan'[e].id = plan'[d].id
             => d = e
  <2> SUFFICES ASSUME NEW d \in Clients, pc'[d] # "idle"
               PROVE  /\ plan'[d].id \notin {0}
                      /\ \A n \in Nodes : node'[n].source # plan'[d].id
                      /\ \A n \in Nodes : \A a \in Known(n)' :
                           a.id # plan'[d].id
                      /\ \A e \in Clients :
                           pc'[e] # "idle" /\ plan'[e].id = plan'[d].id => d = e
    OBVIOUS
  <2>1. \A n \in Nodes : \A a \in Known(n)' : a.id \in 1..calls
    BY <1>4, <1>5
  <2>2. CASE d = c
    BY <1>1, <1>2, <1>3, <1>5, <2>1, <2>2
  <2>3. CASE d # c
    BY <1>1, <1>2, <1>3, <1>4, <1>5, <2>3 DEF QuietAddenda
  <2> QED BY <2>2, <2>3
<1>9. /\ \A d \in Clients : plan'[d].id <= calls'
      /\ \A n \in Nodes : node'[n].source <= calls'
      /\ \A n \in Nodes : \A a \in Known(n)' : a.id \in 1..calls'
  BY <1>1, <1>2, <1>3, <1>4, <1>5
<1>10. /\ \A n \in Nodes : IdsDistinct(node'[n].addenda)
       /\ \A m, n \in Nodes : \A a \in Known(m)', b \in Known(n)' :
            a.id = b.id => m = n
       /\ \A m, n \in Nodes : \A a \in Known(n)' :
            ~a.promoted => node'[m].source # a.id
  BY <1>1, <1>4 DEF QuietAddenda
<1> QED BY <1>6, <1>7, <1>8, <1>9, <1>10 DEF QuietAddenda

\* The interval of the indices of a list with one more element.
LEMMA NextInterval == \A n \in Nat : 1..(n + 1) = 1..n \cup {n + 1}
OBVIOUS

\* What a list with one more element holds.
LEMMA ElemsAppend ==
  ASSUME NEW S, NEW as \in Seq(S), NEW e \in S
  PROVE  /\ Elems(Append(as, e)) = Elems(as) \cup {e}
         /\ Len(Append(as, e)) = Len(as) + 1
         /\ \A i \in 1..Len(as) : Append(as, e)[i] = as[i]
         /\ Append(as, e)[Len(as) + 1] = e
         /\ Len(as) \in Nat
<1>1. /\ Len(Append(as, e)) = Len(as) + 1
      /\ \A i \in 1..Len(as) : Append(as, e)[i] = as[i]
      /\ Append(as, e)[Len(as) + 1] = e
  <2>1. Len(Append(as, e)) = Len(as) + 1
    BY AppendProperties, Zenon
  <2>2. \A i \in 1..Len(as) : Append(as, e)[i] = as[i]
    <3>1. Len(as) \in Nat
      BY LenProperties, Zenon
    <3> QED BY <3>1
  <2>3. Append(as, e)[Len(as) + 1] = e
    BY AppendProperties, Zenon
  <2> QED BY <2>1, <2>2, <2>3
<1>2. Len(as) \in Nat
  BY LenProperties, Zenon
<1>3. 1..(Len(as) + 1) = 1..Len(as) \cup {Len(as) + 1}
  BY <1>2, NextInterval, Zenon
<1>4. Elems(Append(as, e)) = Elems(as) \cup {e}
  BY <1>1, <1>3, Zenon DEF Elems
<1> QED BY <1>1, <1>2, <1>4

\* An absorb commits: its list, with one addendum of a new id, becomes the
\* row's.
LEMMA AbsorbQuietAddenda ==
  ASSUME WellFormed, QuietAddenda, NEW c \in Clients, CommitAbsorb(c)
  PROVE  QuietAddenda'
<1> DEFINE p == plan[c]
           k == p.node
           new == [id |-> p.id, text |-> p.text, promoted |-> FALSE]
<1> SUFFICES ASSUME quiet PROVE QuietAddenda'
  BY DEF QuietAddenda, CommitAbsorb, End
<1>1. /\ UNCHANGED <<quiet, calls>> /\ pc[c] = "absorbing" /\ pc'[c] = "idle"
      /\ plan'[c].id = 0 /\ calls \in Nat
      /\ \A d \in Clients : d # c => pc'[d] = pc[d] /\ plan'[d] = plan[d]
  BY IndexAssumption DEF CommitAbsorb, End, NoPlan, WellFormed, TypeOK
<1>2. /\ k \in Nodes
      /\ \A n \in Nodes : n # k => node'[n] = node[n]
      /\ \A n \in Nodes : node'[n].source = node[n].source
      /\ node'[k].addenda = Append(p.addenda, new)
  BY AbsorbEffect DEF SameButAddenda
<1>3. new \in AddendumRecords /\ p.addenda \in Seq(AddendumRecords)
  BY <1>1, PlanTyped DEF AddendumRecords, Plans, Addenda, WellFormed, PlanOK, Bound
<1>4. new.id = p.id /\ ~new.promoted
  OBVIOUS
<1>5. /\ p.id # 0 /\ p.id <= calls /\ p.id \in Nat
      /\ \A n \in Nodes : node[n].source # p.id
      /\ \A n \in Nodes : \A a \in Known(n) : a.id # p.id
      /\ \A d \in Clients : pc[d] # "idle" /\ plan[d].id = p.id => d = c
  BY <1>1 DEF QuietAddenda, WellFormed, TypeOK
<1>6. Elems(p.addenda) \subseteq Known(k)
  BY <1>1, KnownParts DEF Planned, Bound
<1> HIDE DEF new
<1>7. /\ Elems(Append(p.addenda, new)) = Elems(p.addenda) \cup {new}
      /\ Len(Append(p.addenda, new)) = Len(p.addenda) + 1
      /\ \A i \in 1..Len(p.addenda) : Append(p.addenda, new)[i] = p.addenda[i]
      /\ Append(p.addenda, new)[Len(p.addenda) + 1] = new
      /\ Len(p.addenda) \in Nat
  BY <1>3, ElemsAppend
<1>8. IdsDistinct(node'[k].addenda)
  <2>1. IdsDistinct(p.addenda)
    BY <1>1 DEF QuietAddenda, Bound
  <2>2. \A i \in 1..Len(p.addenda) : p.addenda[i].id # p.id
    BY <1>5, <1>6, <1>2 DEF Elems
  <2> HIDE DEF p, k
  <2>3. \A i \in 1..(Len(p.addenda) + 1) :
          i \in 1..Len(p.addenda) \/ i = Len(p.addenda) + 1
    BY <1>7
  <2> QED BY <1>2, <1>4, <1>7, <2>1, <2>2, <2>3 DEF IdsDistinct
<1>9. ASSUME NEW n \in Nodes, NEW a \in Known(n)'
      PROVE  a \in Known(n) \/ (n = k /\ a = new)
  <2>1. a \in Elems(node'[n].addenda)
          \/ \E d \in Clients : Planned(d, n)' /\ a \in Elems(plan'[d].addenda)
    BY <1>9 DEF Known
  <2>2. CASE a \in Elems(node'[n].addenda)
    <3>1. CASE n = k
      <4>1. a \in Elems(p.addenda) \/ a = new
        <5>1. Elems(node'[n].addenda) = Elems(p.addenda) \cup {new}
          BY <1>2, <1>7, <3>1, Zenon
        <5> QED BY <5>1, <2>2, Zenon
      <4> QED BY <1>6, <3>1, <4>1, Zenon
    <3>2. CASE n # k
      <4>1. a \in Elems(node[n].addenda)
        BY <1>2, <2>2, <3>2, Zenon
      <4> QED BY <4>1, KnownParts, Zenon
    <3> QED BY <3>1, <3>2, Zenon
  <2>3. ASSUME NEW d \in Clients, Planned(d, n)', a \in Elems(plan'[d].addenda)
        PROVE  a \in Known(n)
    BY <1>1, <2>3, KnownParts DEF Planned, Bound
  <2> HIDE DEF p, k
  <2>4. CASE \E d \in Clients : Planned(d, n)' /\ a \in Elems(plan'[d].addenda)
    BY <2>3, <2>4
  <2> QED BY <2>1, <2>2, <2>4, Zenon
<1> HIDE DEF p, k
<1>10. PromotedOnce'
  BY <1>1, <1>2 DEF QuietAddenda, PromotedOnce
<1>11. /\ \A n \in Nodes : IdsDistinct(node'[n].addenda)
       /\ \A d \in Clients : pc'[d] \in Bound => IdsDistinct(plan'[d].addenda)
  BY <1>1, <1>2, <1>8 DEF QuietAddenda, Bound
<1>12. \A m, n \in Nodes : \A a \in Known(m)', b \in Known(n)' :
         a.id = b.id => m = n
  BY <1>4, <1>5, <1>9 DEF QuietAddenda
<1>13. \A m, n \in Nodes : \A a \in Known(n)' :
         ~a.promoted => node'[m].source # a.id
  BY <1>2, <1>4, <1>5, <1>9 DEF QuietAddenda
<1>14. \A d \in Clients : pc'[d] # "idle" =>
         /\ plan'[d].id \notin {0}
         /\ \A n \in Nodes : node'[n].source # plan'[d].id
         /\ \A n \in Nodes : \A a \in Known(n)' : a.id # plan'[d].id
         /\ \A e \in Clients : pc'[e] # "idle" /\ plan'[e].id = plan'[d].id
              => d = e
  BY <1>1, <1>2, <1>4, <1>5, <1>9 DEF QuietAddenda
<1>15. /\ \A d \in Clients : plan'[d].id <= calls'
       /\ \A n \in Nodes : node'[n].source <= calls'
       /\ \A n \in Nodes : \A a \in Known(n)' : a.id \in 1..calls'
  BY <1>1, <1>2, <1>4, <1>5, <1>9 DEF QuietAddenda
<1> QED BY <1>10, <1>11, <1>12, <1>13, <1>14, <1>15 DEF QuietAddenda

\* A client's step keeps each addendum in one row.
LEMMA ClientQuietAddenda ==
  ASSUME WellFormed, QuietAddenda, NEW c \in Clients, ClientStep(c)
  PROVE  QuietAddenda'
<1>1. ASSUME NEW t \in Texts, NEW v \in Values \cup {Blank},
             BeginWrite(c, t, v)
      PROVE  QuietAddenda'
  <2>1. Render(v, surfaceOn) \in Surfaces /\ v \in Surfaces
    BY RenderTyped DEF WellFormed, TypeOK, Surfaces
  <2>2. [NoPlan EXCEPT !.text = t, !.value = v,
           !.extra = Render(v, surfaceOn), !.stamp = profile] \in Plans
    BY <2>1, NoRowTyped DEF Plans, WellFormed, TypeOK, AllStamps
  <2> QED BY <1>1, <2>2, BeginQuietAddenda DEF BeginWrite, Bound
<1>2. ASSUME NEW n \in Nodes, NEW t \in Texts \cup {Keep},
             NEW v \in Values \cup {Blank, Keep}, BeginUpdate(c, n, t, v)
      PROVE  QuietAddenda'
  <2> DEFINE text == IF t = Keep THEN node[n].text ELSE t
             value == IF v = Keep THEN node[n].value ELSE v
             extra == Render(value, surfaceOn)
             p == [node |-> n, text |-> text, value |-> value, extra |-> extra,
                   addenda |-> node[n].addenda, stamp |-> profile, id |-> 0]
  <2>1. node[n] \in Rows BY DEF WellFormed, TypeOK
  <2>2. text \in Texts \cup {Blank} /\ value \in Surfaces
    BY <2>1 DEF Rows, Surfaces
  <2>3. extra \in Surfaces
    BY <2>2, RenderTyped DEF WellFormed, TypeOK
  <2>4. p \in Plans
    BY <2>1, <2>2, <2>3 DEF Plans, Rows, WellFormed, TypeOK, AllStamps
  <2>5. p.node = n /\ p.addenda = node[n].addenda
    OBVIOUS
  <2>6. PICK next \in {"embedding", "inplace"} : Begin(c, next, p)
    BY <1>2 DEF BeginUpdate
  <2> HIDE DEF p
  <2> QED BY <2>4, <2>5, <2>6, BeginQuietAddenda DEF Bound
<1>3. ASSUME NEW n \in Nodes, NEW t \in Texts, BeginAbsorb(c, n, t)
      PROVE  QuietAddenda'
  <2> DEFINE p == [NoPlan EXCEPT !.node = n, !.text = t,
                                 !.addenda = node[n].addenda]
  <2>1. p \in Plans
    BY NoRowTyped DEF Plans, WellFormed, TypeOK, Rows
  <2>2. p.node = n /\ p.addenda = node[n].addenda /\ Begin(c, "absorbing", p)
    BY <1>3 DEF BeginAbsorb, NoPlan
  <2> HIDE DEF p
  <2> QED BY <2>1, <2>2, BeginQuietAddenda DEF Bound
<1>4. ASSUME End(c), \A n \in Nodes : node'[n].source = node[n].source,
             \A n \in Nodes : node'[n].addenda \in
               {<<>>, node[n].addenda}
                 \cup {plan[d].addenda : d \in {e \in Clients : Planned(e, n)}}
      PROVE  QuietAddenda'
  <2>1. /\ UNCHANGED <<quiet, calls>> /\ pc'[c] = "idle" /\ plan'[c].id = 0
        /\ \A d \in Clients : d # c => pc'[d] = pc[d] /\ plan'[d] = plan[d]
        /\ calls \in Nat
    BY <1>4, IndexAssumption DEF End, NoPlan, WellFormed, TypeOK
  <2>2. ASSUME quiet, NEW n \in Nodes
        PROVE  /\ IdsDistinct(node'[n].addenda)
               /\ \A a \in Elems(node'[n].addenda) :
                    \E b \in Known(n) : Descends(a, b)
    <3>1. CASE node'[n].addenda = <<>>
      BY <3>1 DEF IdsDistinct, Elems
    <3>2. CASE node'[n].addenda = node[n].addenda
      BY <2>2, <3>2, KnownParts DEF QuietAddenda, Descends
    <3>3. ASSUME NEW d \in Clients, Planned(d, n),
                 node'[n].addenda = plan[d].addenda
          PROVE  /\ IdsDistinct(node'[n].addenda)
                 /\ \A a \in Elems(node'[n].addenda) :
                      \E b \in Known(n) : Descends(a, b)
      BY <2>2, <3>3, KnownParts DEF QuietAddenda, Descends, Planned
    <3> QED BY <1>4, <3>1, <3>2, <3>3
  <2>3. /\ \A d \in Clients : pc'[d] # "idle" =>
             pc'[d] = pc[d] /\ plan'[d] = plan[d]
        /\ \A d \in Clients : plan'[d].id \in {0, plan[d].id}
    BY <2>1
  <2> QED BY <1>4, <2>1, <2>2, <2>3, ShrinkingStep
<1>5. ASSUME NEW n \in Nodes, CommitWrite(c, n) PROVE QuietAddenda'
  <2>1. /\ \A m \in Nodes : m # n => node'[m] = node[m]
        /\ node'[n].addenda = <<>> /\ node'[n].source = 0
        /\ node[n].source = 0 /\ End(c)
    BY <1>5 DEF CommitWrite, WellFormed, TypeOK, RowsOK, NoRow
  <2> QED BY <1>4, <2>1
<1>6. CASE UpdateInPlace(c) \/ UpdateReembedded(c)
  <2>1. End(c)
    BY <1>6 DEF UpdateInPlace, UpdateReembedded
  <2>2. \A n \in Nodes : node'[n] # node[n] =>
          /\ Planned(c, n) /\ node'[n].addenda = plan[c].addenda
          /\ node'[n].source = node[n].source
    BY <1>6, UpdateEffect DEF Planned
  <2> QED BY <1>4, <2>1, <2>2
<1>7. CASE Abandon(c)
  BY <1>4, <1>7 DEF Abandon
<1> QED
  BY <1>1, <1>2, <1>3, <1>5, <1>6, <1>7, AbsorbQuietAddenda DEF ClientStep

\* A promotion in its quiet window: the members it adds have sources of their
\* own, and their addenda are marked in the same step.
LEMMA PromoteQuietAddenda ==
  ASSUME WellFormed, QuietSurface, QuietAddenda, quiet, NEW n \in admin.todo,
         NEW J \in SUBSET Unmarked(admin.snap[n].addenda),
         NEW f \in [J -> Nodes], PromoteNode(n, J, f)
  PROVE  QuietAddenda'
<1> DEFINE as == node[n].addenda
<1>1. /\ PromoteStep(n, J, f) /\ admin.pc = "running"
      /\ UNCHANGED <<pc, plan, calls, quiet>>
  BY PromoteEffect DEF AdminStep
<1>2. /\ \A c \in Clients : pc[c] = "idle"
      /\ admin.snap[n].addenda = as
  BY <1>1 DEF QuietSurface, Scan
<1>3. /\ n \in Nodes /\ as \in Addenda /\ Exists(n)
      /\ \A i \in J : i \in 1..Len(as) /\ ~as[i].promoted
      /\ \A i, j \in J : ~Exists(f[i]) /\ (f[i] = f[j] => i = j)
  BY <1>1, <1>2 DEF PromoteStep, WellFormed, TodoOK, Unmarked
<1>4. \A i \in J : /\ f[i] \in Nodes
                  /\ node'[f[i]].addenda = <<>>
                  /\ node'[f[i]].source = as[i].id
  BY <1>1, <1>2, MemberTyped DEF PromoteStep, WellFormed, TypeOK
<1>5. \A m \in Nodes : (\A i \in J : f[i] # m) =>
        /\ node'[m].source = node[m].source
        /\ node'[m].addenda = IF m = n /\ J # {} THEN Marked(as, J)
                              ELSE node[m].addenda
  <2>1. \A m \in Nodes : node[m] \in Rows BY DEF WellFormed, TypeOK
  <2> HIDE DEF as
  <2> QED BY <1>1, <1>2, <2>1 DEF PromoteStep, Rows
<1>6. /\ Len(Marked(as, J)) = Len(as)
      /\ \A i \in 1..Len(as) :
           /\ Marked(as, J)[i].id = as[i].id
           /\ Marked(as, J)[i].promoted = (as[i].promoted \/ i \in J)
  BY <1>3, MarkedTyped
<1>7. \A m \in Nodes : /\ Known(m) = Elems(node[m].addenda)
                      /\ Known(m)' = Elems(node'[m].addenda)
  BY <1>1, <1>2 DEF Known, Planned, Bound
<1>8. \A i \in 1..Len(as) : as[i] \in Known(n)
  BY <1>3, <1>7 DEF Elems
<1>9. IdsDistinct(as) /\ \A m \in Nodes : IdsDistinct(node[m].addenda)
  BY <1>3 DEF QuietAddenda
<1>q1. \A x, y \in Nodes : \A a \in Known(x), b \in Known(y) :
         a.id = b.id => x = y
  BY DEF QuietAddenda
<1>q2. \A x, y \in Nodes : \A a \in Known(y) :
         ~a.promoted => node[x].source # a.id
  BY DEF QuietAddenda
<1>q3. /\ \A m \in Nodes : \A a \in Known(m) : a.id \in 1..calls
       /\ \A m \in Nodes : node[m].source <= calls
       /\ \A c \in Clients : plan[c].id <= calls
  BY DEF QuietAddenda
<1> HIDE DEF as
<1>10. ASSUME NEW m \in Nodes, NEW a \in Known(m)'
       PROVE  \E b \in Known(m) :
                /\ Descends(a, b)
                /\ m = n => \E i \in 1..Len(as) :
                              b = as[i] /\ (i \in J => a.promoted)
  <2>1. a \in Elems(node'[m].addenda)
    BY <1>7, <1>10
  <2>2. ASSUME NEW i \in J, f[i] = m PROVE FALSE
    <3>1. node'[m].addenda = <<>>
      BY <1>4, <2>2
    <3>2. Elems(<<>>) = {}
      BY DEF Elems
    <3> QED BY <2>1, <3>1, <3>2
  <2>3. CASE m = n /\ J # {}
    <3>1. a \in Elems(Marked(as, J))
      BY <1>5, <2>1, <2>2, <2>3
    <3>2. PICK i \in 1..Len(as) : a = Marked(as, J)[i]
      BY <1>6, <3>1 DEF Elems
    <3>3. Descends(a, as[i]) /\ (i \in J => a.promoted)
      BY <1>6, <3>2 DEF Descends
    <3> QED BY <1>8, <2>3, <3>3
  <2>4. CASE m = n /\ J = {}
    <3>1. a \in Elems(as)
      BY <1>5, <2>1, <2>2, <2>4 DEF as
    <3>2. PICK i \in 1..Len(as) : a = as[i]
      BY <3>1 DEF Elems
    <3> QED BY <1>8, <2>4, <3>2 DEF Descends
  <2>5. CASE m # n
    <3>1. a \in Known(m)
      BY <1>5, <1>7, <2>1, <2>2, <2>5
    <3> QED BY <2>5, <3>1 DEF Descends
  <2> QED BY <2>3, <2>4, <2>5
<1>11. ASSUME NEW i \in J, NEW m \in Nodes
       PROVE  node[m].source # as[i].id /\ as[i] \in Known(n)
  BY <1>3, <1>8, <1>q2
<1>12. ASSUME NEW m \in Nodes
       PROVE  \/ /\ node'[m].source = node[m].source
                 /\ \A i \in J : f[i] # m
              \/ \E i \in J : f[i] = m /\ node'[m].source = as[i].id
  BY <1>4, <1>5
<1>13. PromotedOnce'
  <2> SUFFICES ASSUME NEW x \in Nodes, NEW y \in Nodes,
                      node'[x].source = node'[y].source, node'[x].source # 0
               PROVE  x = y
    BY DEF PromotedOnce
  <2>1. ASSUME NEW i \in J, x = f[i], node'[x].source = as[i].id,
               NEW j \in J, y = f[j], node'[y].source = as[j].id
        PROVE  x = y
    <3>1. as[i].id = as[j].id BY <2>1
    <3>2. i \in 1..Len(as) /\ j \in 1..Len(as) BY <1>3
    <3>3. i = j BY <1>9, <3>1, <3>2 DEF IdsDistinct
    <3> QED BY <2>1, <3>3
  <2>2. ASSUME NEW i \in J, node'[x].source = as[i].id,
               node'[y].source = node[y].source
        PROVE  FALSE
    <3>1. node[y].source = as[i].id BY <2>2
    <3> QED BY <1>11, <3>1
  <2>3. ASSUME NEW i \in J, node'[y].source = as[i].id,
               node'[x].source = node[x].source
        PROVE  FALSE
    <3>1. node[x].source = as[i].id BY <2>3
    <3> QED BY <1>11, <3>1
  <2>4. CASE /\ node'[x].source = node[x].source
             /\ node'[y].source = node[y].source
    <3>1. PromotedOnce BY DEF QuietAddenda
    <3> QED BY <2>4, <3>1 DEF PromotedOnce
  <2> QED BY <1>12, <2>1, <2>2, <2>3, <2>4
<1>14. ASSUME NEW m \in Nodes PROVE IdsDistinct(node'[m].addenda)
  <2>1. CASE \E i \in J : f[i] = m
    <3>1. node'[m].addenda = <<>>
      BY <1>4, <2>1
    <3>2. IdsDistinct(<<>>)
      BY DEF IdsDistinct
    <3> QED BY <3>1, <3>2
  <2>2. CASE m = n /\ J # {} /\ \A i \in J : f[i] # m
    <3>1. node'[m].addenda = Marked(as, J)
      BY <1>5, <2>2
    <3>2. IdsDistinct(Marked(as, J))
      BY <1>6, <1>9 DEF IdsDistinct
    <3> QED BY <3>1, <3>2
  <2>3. CASE (m # n \/ J = {}) /\ \A i \in J : f[i] # m
    BY <1>5, <1>9, <2>3
  <2> QED BY <2>1, <2>2, <2>3
<1>15. ASSUME NEW x \in Nodes, NEW y \in Nodes, NEW a \in Known(x)',
              NEW b \in Known(y)', a.id = b.id
       PROVE  x = y
  <2>1. PICK u \in Known(x) : Descends(a, u)
    BY <1>10
  <2>2. PICK v \in Known(y) : Descends(b, v)
    BY <1>10
  <2> QED BY <1>15, <1>q1, <2>1, <2>2 DEF Descends
<1>16. ASSUME NEW x \in Nodes, NEW y \in Nodes, NEW a \in Known(y)',
              ~a.promoted
       PROVE  node'[x].source # a.id
  <2>1. PICK b \in Known(y) :
          /\ Descends(a, b)
          /\ y = n => \E i \in 1..Len(as) :
                        b = as[i] /\ (i \in J => a.promoted)
    BY <1>10
  <2>2. a.id = b.id /\ ~b.promoted
    BY <1>16, <2>1 DEF Descends
  <2>3. ASSUME NEW i \in J, as[i].id = a.id PROVE FALSE
    <3>1. as[i].id = b.id BY <2>2, <2>3
    <3>2. y = n BY <1>11, <1>3, <1>q1, <3>1
    <3>3. PICK j \in 1..Len(as) : b = as[j] /\ j \notin J
      BY <1>16, <2>1, <3>2
    <3>4. i \in 1..Len(as) BY <1>3
    <3>5. i = j BY <1>9, <3>1, <3>3, <3>4 DEF IdsDistinct
    <3> QED BY <3>3, <3>5
  <2>4. node[x].source # a.id
    BY <1>q2, <2>2
  <2>5. \A i \in J : as[i].id # a.id
    BY <2>3
  <2>6. node'[x].source = node[x].source \/ \E i \in J : node'[x].source = as[i].id
    BY <1>12, Zenon
  <2> QED BY <2>4, <2>5, <2>6, Zenon
<1>17. ASSUME NEW m \in Nodes, NEW a \in Known(m)' PROVE a.id \in 1..calls'
  BY <1>1, <1>10, <1>q3 DEF Descends
<1>18. ASSUME NEW m \in Nodes PROVE node'[m].source <= calls'
  <2>1. ASSUME NEW i \in J PROVE as[i].id <= calls
    <3>1. as[i].id \in 1..calls BY <1>3, <1>11, <1>q3
    <3>2. \A k \in 1..calls : k <= calls
      BY IndexAssumption DEF WellFormed, TypeOK
    <3> QED BY <3>1, <3>2, Zenon
  <2> QED BY <1>1, <1>12, <1>q3, <2>1
<1>19. \A c \in Clients : pc'[c] = "idle" /\ plan'[c].id <= calls'
  BY <1>1, <1>2, <1>q3
<1> QED
  BY <1>13, <1>14, <1>15, <1>16, <1>17, <1>18, <1>19 DEF QuietAddenda, Bound

\* QuietAddenda is inductive.
LEMMA StepQuietAddenda ==
  WellFormed /\ QuietSurface /\ QuietAddenda /\ [Next]_vars => QuietAddenda'
<1> SUFFICES ASSUME WellFormed, QuietSurface, QuietAddenda, [Next]_vars
             PROVE  QuietAddenda'
  OBVIOUS
<1>1. ASSUME UNCHANGED <<quiet, calls, pc, plan>>,
             \A n \in Nodes : /\ node'[n].source = node[n].source
                              /\ node'[n].addenda = node[n].addenda
      PROVE  QuietAddenda'
  <2>1. calls \in Nat
    BY IndexAssumption DEF WellFormed, TypeOK
  <2>2. quiet => \A n \in Nodes :
          /\ IdsDistinct(node'[n].addenda)
          /\ \A a \in Elems(node'[n].addenda) :
               \E b \in Known(n) : Descends(a, b)
    BY <1>1, KnownParts DEF QuietAddenda, Descends
  <2> QED BY <1>1, <2>1, <2>2, ShrinkingStep
<1>2. CASE Maintain
  <2>1. ASSUME NEW B \in SUBSET admin.todo, RebuildBatch(B) \/ ReembedBatch(B)
        PROVE  QuietAddenda'
    BY <1>1, <2>1, BatchEffect DEF BatchStep, AdminStep
  <2>2. ASSUME NEW n \in admin.todo,
               NEW J \in SUBSET Unmarked(admin.snap[n].addenda),
               NEW f \in [J -> Nodes], PromoteNode(n, J, f)
        PROVE  QuietAddenda'
    <3>1. CASE quiet BY <2>2, <3>1, PromoteQuietAddenda
    <3>2. CASE ~quiet
      BY <2>2, <3>2, PromoteEffect DEF AdminStep, QuietAddenda
    <3> QED BY <3>1, <3>2
  <2> QED
    BY <1>1, <1>2, <2>1, <2>2
       DEF Maintain, AdminStart, AdminFinish, AdminCrash, AdminStep
<1>3. ASSUME NEW n \in Nodes, Archive(n) PROVE QuietAddenda'
  BY <1>1, <1>3 DEF Archive, Change, WellFormed, TypeOK, Rows
<1> QED
  BY <1>1, <1>2, <1>3, ClientQuietAddenda
     DEF Next, FlipSurface, SwitchProfile, Change, Done, vars

\* The empty space has no addenda.
LEMMA InitQuietAddenda == Init => QuietAddenda
<1> SUFFICES ASSUME Init PROVE QuietAddenda
  OBVIOUS
<1>1. \A n \in Nodes : node[n].addenda = <<>> /\ node[n].source = 0
  BY DEF Init, NoRow, SentinelRow
<1>2. \A c \in Clients : pc[c] = "idle" /\ plan[c].id = 0
  BY DEF Init, NoPlan
<1>3. \A n \in Nodes : Known(n) = {}
  BY <1>1, <1>2 DEF Known, Elems, Planned, Bound
<1> QED
  BY <1>1, <1>2, <1>3
     DEF Init, QuietAddenda, PromotedOnce, IdsDistinct, Bound

\* In a quiet window an addendum becomes at most one member row (promote in
\* addenda.py), whatever batch it was killed after and however often it reruns.
THEOREM PromotedAtMostOnce == Spec => []PromotedOnce
<1>1. QuietAddenda => PromotedOnce
  BY DEF QuietAddenda, PromotedOnce
<1> QED
  BY <1>1, InitWellFormed, StepWellFormed, InitQuietSurface, StepQuietSurface,
     InitQuietAddenda, StepQuietAddenda, PTL DEF Spec
=============================================================================
