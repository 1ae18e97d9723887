----------------------------- MODULE BulkImport -----------------------------
(***************************************************************************)
(* engraphy-admin import (admin/import_.py): the lines of a JSONL file     *)
(* through the write path in import mode, one transaction each, the pending*)
(* band to a review report written at the end.  A run may be killed, fail  *)
(* on a bad line or a refused write, and is run again over what it left;   *)
(* clients and reviewers change the store meanwhile.                       *)
(*                                                                         *)
(* A fact is a title, body and attrs of one type and scope.  What a line   *)
(* becomes is decided by its nearest row and by how many of its words that *)
(* row, its addenda and the rows linked to it by same_topic already have.  *)
(***************************************************************************)
EXTENDS Integers, FiniteSets, Sequences

CONSTANTS
  Exports,        \* the files: sequences of facts and BadLine
  BadLine,        \* a line parse_jsonl refuses
  Likeness,       \* the similarity of two facts against t_low and t_high
  Words,          \* the words of a fact's body
  Recurring,      \* the facts of type error
  TopicRule,      \* whether the pack has a same_topic rule for the type
  HeldFacts,      \* the facts stored before the first run, in a sequence
  BatchOf,        \* batch_size
  MaxImports,     \* bound: runs of the command
  MaxBreaks,      \* bound: kills and failed writes
  MaxOutside      \* bound: steps of clients and reviewers

StoredBefore == {HeldFacts[i] : i \in DOMAIN HeldFacts}
Facts == (UNION {{e[i] : i \in DOMAIN e} : e \in Exports} \ {BadLine}) \cup StoredBefore

\* Equal texts have equal vectors: nothing is nearer to a fact than the fact itself.
ASSUME BulkBounds ==
  /\ BatchOf \in Nat \ {0} /\ {MaxImports, MaxBreaks, MaxOutside} \subseteq Nat
  /\ HeldFacts \in Seq(Facts) /\ \A e \in Exports : e \in Seq(Facts \cup {BadLine})
  /\ \A f, g \in Facts : Likeness[f][g] \in {"high", "near", "far"}
  /\ \A f, g \in Facts : Likeness[f][g] = Likeness[g][f] /\ Likeness[f][f] = "high"
  /\ IsFiniteSet(UNION {Words[f] : f \in Facts})
  /\ TopicRule \in BOOLEAN

VARIABLES
  file,           \* the file imported
  held,           \* the rows: their fact, whether they are active, and the
                  \*   facts of their addenda and same_topic peers
  csv,            \* the review report on disk: facts, or none yet
  pos,            \* lines read so far
  batch,          \* the lines embedded and not yet written
  review,         \* what this run queued for review
  importing,      \* whether a run is under way
  imports, breaks, outside,
  rowsMade,       \* how many rows the runs made of each fact
  whole,          \* whether the last run went through the file
  moved           \* whether anyone else touched the store since the first run

bulkVars == <<file, held, csv, pos, batch, review, importing, imports, breaks,
              outside, rowsMade, whole, moved>>

NoReport == {"no report"}

BulkInit ==
  /\ file \in Exports
  /\ held = [i \in 1..Len(HeldFacts) |-> [fact |-> HeldFacts[i], active |-> TRUE, said |-> {}]]
  /\ csv = NoReport /\ pos = 0 /\ batch = <<>> /\ review = {} /\ importing = FALSE
  /\ imports = 0 /\ breaks = 0 /\ outside = 0
  /\ rowsMade = [f \in Facts |-> 0] /\ whole = FALSE /\ moved = FALSE

BulkStart ==
  /\ ~importing /\ imports < MaxImports
  /\ importing' = TRUE /\ imports' = imports + 1
  /\ pos' = 0 /\ batch' = <<>> /\ review' = {} /\ whole' = FALSE
  /\ UNCHANGED <<file, held, csv, breaks, outside, rowsMade, moved>>

-----------------------------------------------------------------------------
(* The file is read a batch at a time, after the batches before it have    *)
(* been written.                                                           *)

Due == importing /\ batch = <<>> /\ pos < Len(file)
Upto == IF pos + BatchOf < Len(file) THEN pos + BatchOf ELSE Len(file)
NextLines == SubSeq(file, pos + 1, Upto)

ReadsBatch ==
  /\ Due /\ \A i \in DOMAIN NextLines : NextLines[i] # BadLine
  /\ batch' = NextLines /\ pos' = Upto
  /\ UNCHANGED <<file, held, csv, review, importing, imports, breaks, outside, rowsMade, whole, moved>>

\* A bad line ends the run: nothing of its batch is written, no report either.
MeetsBadLine ==
  /\ Due /\ \E i \in DOMAIN NextLines : NextLines[i] = BadLine
  /\ importing' = FALSE
  /\ UNCHANGED <<file, held, csv, pos, batch, review, imports, breaks, outside, rowsMade, whole, moved>>

-----------------------------------------------------------------------------
(* write(import_mode=True) of the next line of the batch.                  *)

\* Mutant: rows of an earlier import are not candidates.
CandidatesForeign == {i \in 1..Len(HeldFacts) : held[i].active}

Candidates == {i \in 1..Len(held) : held[i].active}

Above(f) == {i \in Candidates : Likeness[f][held[i].fact] = "high"}
Between(f) == {i \in Candidates : Likeness[f][held[i].fact] = "near"}

\* The nearest row at t_high or above: one of this very fact, if there is one.
NearestRows(f) ==
  {i \in Above(f) : held[i].fact = f \/ ~\E j \in Candidates : held[j].fact = f}

\* The words of a row, of its addenda and, one hop away and whatever their status,
\* of its same_topic peers; a text is novel to them below a Jaccard index of 0.8.
Corpus(i) == Words[held[i].fact] \cup UNION {Words[g] : g \in held[i].said}
NovelTo(words, corpus) ==
  5 * Cardinality(words \cap corpus) < 4 * Cardinality(words \cup corpus)

\* A new row of fact f, linked to row i when it joins one under a rule.
Grown(f, i) ==
  LET joined == i # 0 /\ TopicRule
      peers == IF joined THEN [held EXCEPT ![i].said = @ \cup {f}] ELSE held
  IN Append(peers, [fact |-> f, active |-> TRUE,
                    said |-> IF joined THEN {held[i].fact} ELSE {}])

Item == batch[1]
NextItem == batch' = Tail(batch)

\* Item is stored: inserted below t_low, merged_linked when it is novel to its
\* nearest row.
Stored(i) ==
  /\ held' = Grown(Item, i)
  /\ rowsMade' = [rowsMade EXCEPT ![Item] = @ + 1] /\ NextItem
  /\ UNCHANGED <<file, csv, pos, review, importing, imports, breaks, outside, whole, moved>>

Inserts ==
  /\ importing /\ batch # <<>> /\ Above(Item) = {} /\ Between(Item) = {}
  /\ Stored(0)

JoinsCluster ==
  /\ importing /\ batch # <<>>
  /\ \E i \in NearestRows(Item) : NovelTo(Words[Item], Corpus(i)) /\ Stored(i)

\* merged: the row stands for it, and what its wording adds is dropped, but for
\* an error that occurred at another time, which becomes an addendum.
Merges ==
  /\ importing /\ batch # <<>>
  /\ \E i \in NearestRows(Item) :
       /\ ~NovelTo(Words[Item], Corpus(i))
       /\ \/ held' = held
          \/ Item \in Recurring /\ held' = [held EXCEPT ![i].said = @ \cup {Item}]
  /\ NextItem
  /\ UNCHANGED <<file, csv, pos, review, importing, imports, breaks, outside, rowsMade, whole, moved>>

\* review_queued: nothing is stored, the pair goes to the report.
Queues ==
  /\ importing /\ batch # <<>> /\ Above(Item) = {} /\ Between(Item) # {}
  /\ review' = review \cup {Item} /\ NextItem
  /\ UNCHANGED <<file, held, csv, pos, importing, imports, breaks, outside, rowsMade, whole, moved>>

\* The process dies, or a write is refused and the exception ends the run: the
\* rows stay, the report of the run is lost.
Breaks ==
  /\ importing /\ breaks < MaxBreaks
  /\ breaks' = breaks + 1 /\ importing' = FALSE
  /\ UNCHANGED <<file, held, csv, pos, batch, review, imports, outside, rowsMade, whole, moved>>

\* The report is written only when there is something to review: one that an
\* earlier run left is not removed.
BulkFinish ==
  /\ importing /\ batch = <<>> /\ pos = Len(file)
  /\ csv' = IF review = {} THEN csv ELSE review
  /\ importing' = FALSE
  /\ whole' = TRUE
  /\ UNCHANGED <<file, held, pos, batch, review, imports, breaks, outside, rowsMade, moved>>

-----------------------------------------------------------------------------
(* Clients and the reviewer of the report.                                 *)

Outside ==
  /\ outside < MaxOutside /\ imports > 0
  /\ outside' = outside + 1 /\ moved' = TRUE
  /\ \/ \E i \in Candidates : held' = [held EXCEPT ![i].active = FALSE]
     \/ \E f \in Facts, i \in Candidates \cup {0} : held' = Grown(f, i)
  /\ UNCHANGED <<file, csv, pos, batch, review, importing, imports, breaks, rowsMade, whole>>

BulkNext ==
  \/ BulkStart \/ ReadsBatch \/ MeetsBadLine \/ Inserts \/ JoinsCluster \/ Merges \/ Queues \/ Breaks
  \/ BulkFinish \/ Outside

BulkSpec == BulkInit /\ [][BulkNext]_bulkVars

BulkOver == ~importing /\ imports = MaxImports

-----------------------------------------------------------------------------
BulkTypeOK ==
  /\ held \in Seq([fact : Facts, active : BOOLEAN, said : SUBSET Facts])
  /\ csv = NoReport \/ csv \subseteq Facts
  /\ pos \in 0..Len(file) /\ review \subseteq Facts
  /\ importing \in BOOLEAN /\ whole \in BOOLEAN /\ moved \in BOOLEAN

InFile == {file[i] : i \in DOMAIN file} \ {BadLine}

\* Is line i in a batch before that of any bad line.
BeforeBad(i) ==
  \A b \in DOMAIN file : file[b] = BadLine => i <= ((b - 1) \div BatchOf) * BatchOf

\* A text of which a row's corpus has four words in five.
Covered(f, i) ==
  /\ held[i].active /\ Likeness[f][held[i].fact] = "high"
  /\ 5 * Cardinality(Words[f] \cap Corpus(i)) >= 4 * Cardinality(Words[f])

\* Running the file again is safe.  While nobody else changes the store, a fact
\* becomes a second row only if another fact of the file or the store is within
\* t_high of it and has words it lacks, however many runs were cut off; after a
\* run that went through, every line is in the report on disk, or a row within
\* t_high stands for it whose corpus has four fifths of its words; and a bad line
\* stops the run before any line of its own batch.
BulkRerunSafe ==
  /\ ~moved =>
       \A f \in Facts : rowsMade[f] > 1 =>
         \E g \in InFile \cup StoredBefore : Likeness[f][g] = "high" /\ ~Words[g] \subseteq Words[f]
  /\ whole /\ ~moved =>
       \A f \in InFile : f \in csv \/ \E i \in 1..Len(held) : Covered(f, i)
  /\ \A f \in Facts : rowsMade[f] > 0 => \E i \in DOMAIN file : file[i] = f /\ BeforeBad(i)

=============================================================================
