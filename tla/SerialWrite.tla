---------------------------- MODULE SerialWrite ----------------------------
(***************************************************************************)
(* What the write path promises of a space: one write at a time, each      *)
(* judged against the rows that are there when it takes effect.  DedupWrite *)
(* is how the code keeps that promise with READ COMMITTED statements, an   *)
(* advisory lock on (space, type) and several sessions.                    *)
(***************************************************************************)
EXTENDS Integers, Sequences, FiniteSets

CONSTANTS
  NodeIds, Facts, FType, FScope, FTokens, FWhen,
  Sim,               \* [Facts -> [Facts -> similarity in percent]]
  TLow, THigh,       \* confirm and merge thresholds
  Ambient, ErrorType,
  SameTopic,         \* types whose pack lets two of their nodes form a cluster
  NoNode, NoFact, NoDate

VARIABLES
  status, content, addenda,
  cluster,   \* <<member, canonical>>
  replaced,  \* <<replacement, old>>
  asked      \* facts a client was asked to confirm

vars == <<status, content, addenda, cluster, replaced, asked>>

\* The rows a fact is compared with when it is to replace row old.
Comparable(f, old) ==
  {n \in NodeIds : /\ status[n] = "active" /\ n # old
                   /\ FType[content[n]] = FType[f]
                   /\ FScope[content[n]] \in {FScope[f]} \cup Ambient}

\* No comparable row is nearer than c.
Nearest(c, f, old) ==
  /\ c \in Comparable(f, old)
  /\ \A d \in Comparable(f, old) : Sim[f][content[c]] >= Sim[f][content[d]]

\* All the words c's cluster holds.
Words(c) ==
  FTokens[content[c]]
    \cup (UNION {FTokens[addenda[c][i]] : i \in DOMAIN addenda[c]})
    \cup (UNION {FTokens[content[m]] :
                   m \in {k \in NodeIds : cluster \cap {<<k, c>>, <<c, k>>} # {}}})

\* Fewer than four fifths of the words of the two together are common.
Novel(f, c) ==
  LET both == FTokens[f] \cup Words(c)
  IN 10 * Cardinality(FTokens[f] \cap Words(c)) < 8 * Cardinality(both)

Init ==
  /\ status = [n \in NodeIds |-> "none"]
  /\ content = [n \in NodeIds |-> NoFact]
  /\ addenda = [n \in NodeIds |-> <<>>]
  /\ cluster = {} /\ replaced = {} /\ asked = {}

\* Row n is stored with fact f, in the place of row old if there is one.
Store(n, f, old) ==
  /\ status[n] = "none"
  /\ status' = [m \in NodeIds |-> IF m = n THEN "active"
                                  ELSE IF m = old THEN "superseded" ELSE status[m]]
  /\ content' = [content EXCEPT ![n] = f]
  /\ replaced' = IF old = NoNode THEN replaced ELSE replaced \cup {<<n, old>>}
  /\ UNCHANGED <<addenda, asked>>

\* A row is replaced by one of its type only.
MayReplace(old, f) ==
  \/ old = NoNode
  \/ old # NoNode /\ status[old] # "none" /\ FType[content[old]] = FType[f]

\* Nothing is near: a row of its own.  In the confirm band, only when a client
\* was asked about this fact.
Insert(n, f, old) ==
  /\ MayReplace(old, f)
  /\ \A c \in Comparable(f, old) :
       /\ Sim[f][content[c]] < THigh
       /\ Sim[f][content[c]] >= TLow => f \in asked
  /\ Store(n, f, old)
  /\ UNCHANGED cluster

\* Near c, with words of its own: a row in c's cluster.
Join(n, f, c, old) ==
  /\ MayReplace(old, f)
  /\ Nearest(c, f, old) /\ Sim[f][content[c]] >= THigh /\ Novel(f, c)
  /\ Store(n, f, old)
  /\ cluster' = IF FType[f] \in SameTopic THEN cluster \cup {<<n, c>>} ELSE cluster

\* Near c and nothing new in it, but the error happened again: an addendum.
Recur(f, c, old) ==
  /\ Nearest(c, f, old) /\ Sim[f][content[c]] >= THigh /\ ~Novel(f, c)
  /\ FType[f] = ErrorType /\ FWhen[f] \notin {NoDate, FWhen[content[c]]}
  /\ addenda' = [addenda EXCEPT ![c] = Append(@, f)]
  /\ UNCHANGED <<status, content, cluster, replaced, asked>>

\* In the confirm band: a question.
Ask(f, old) ==
  /\ \E c \in Comparable(f, old) : Sim[f][content[c]] >= TLow
  /\ \A c \in Comparable(f, old) : Sim[f][content[c]] < THigh
  /\ asked' = asked \cup {f}
  /\ UNCHANGED <<status, content, addenda, cluster, replaced>>

\* One write that leaves a trace.
Next ==
  /\ vars' # vars
  /\ \E f \in Facts, old \in NodeIds \cup {NoNode} :
       \/ Ask(f, old)
       \/ \E n \in NodeIds : Insert(n, f, old)
       \/ \E n, c \in NodeIds : Join(n, f, c, old)
       \/ \E c \in NodeIds : Recur(f, c, old)

Spec == Init /\ [][Next]_vars
=============================================================================
