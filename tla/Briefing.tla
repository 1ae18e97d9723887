------------------------------ MODULE Briefing ------------------------------
(***************************************************************************)
(* The briefing engine (engraphy/core/briefing.py): the sections of the    *)
(* applied pack, one statement each, or those of a search for the hint,    *)
(* and another for the nodes linked to what it shows, in one READ          *)
(* COMMITTED transaction that ends with the recall counts.  Other          *)
(* transactions commit between two statements.                             *)
(* Dates are text in the database: a sequence of parts, most significant   *)
(* first, of which a partial date lacks the last ones.                     *)
(***************************************************************************)
EXTENDS Integers, Sequences, FiniteSets, Fusion

CONSTANTS
  Shelves,       \* stores: [id -> [type, scope, status, due, stamp, recent]];
                 \* due = <<>> for none, stamp orders updated_at
  ShelfEdges,    \* <<type, near, far>>, a type for each direction asked for
  Layouts,       \* pack layouts: sequences of [semantic, types, status, before,
                 \* after, equals, byDue, recent, without, linked]
  HintVector,    \* the nodes, nearest to the hint first, and those of them at
  HintNear,      \* or above briefing.semantic_floor
  HintLexical,   \* those its words match, best first
  HintPairs,     \* the pairs {a, b} at or above the read band
  Born,          \* [id -> its created_at, a positive number]
  SectionCap,    \* _SECTION_CAP, and the top_k of a semantic section
  ReadScopes,    \* the caller's readable scopes, and the ambient ones of them
  AmbientScopes,
  WriteScopes,   \* and those the caller may write
  HiddenType,    \* SENTINEL_NODE_TYPE
  DateParts, LastOfPart, \* the parts of a whole date, the last value of each
  MaxShelfChanges        \* bound: changes to the store during a briefing

ShelfIds == UNION {DOMAIN s : s \in Shelves}
Dates == UNION {[1..k -> 1..LastOfPart] : k \in 0..DateParts}
Statuses == {"active", "superseded", "archived"}

StoredRow ==
  [type : STRING, scope : STRING, status : Statuses, due : Dates, stamp : Nat, recent : BOOLEAN]
BriefSection ==
  [semantic : BOOLEAN, types : SUBSET STRING, status : Statuses, before : Dates, after : Dates,
   equals : Dates, byDue : BOOLEAN, recent : BOOLEAN, without : STRING, linked : STRING]

ASSUME BriefingAssumption ==
  /\ {SectionCap, DateParts, LastOfPart} \subseteq Nat \ {0} /\ MaxShelfChanges \in Nat
  /\ AmbientScopes \subseteq ReadScopes
  /\ ShelfIds \subseteq Nat /\ IsFiniteSet(ShelfIds) /\ Shelves \subseteq [ShelfIds -> StoredRow]
  /\ Layouts \subseteq Seq(BriefSection)
  /\ \A e \in ShelfEdges : e[3] \in ShelfIds
  /\ HintVector \in Seq(ShelfIds) /\ HintLexical \in Seq(ShelfIds)
  /\ Born \in [ShelfIds -> Nat \ {0}]

VARIABLES
  shelf, sight,   \* the store, and the scopes the caller may read by now
  brief,          \* the briefing: [at, scope, hint, restricted, layout, scopes]
  page,           \* the sections so far: [shown, linked, section, pool], pool with
                  \* the dates of the rows that the other filters let in
  hunt,           \* what the statements of a semantic section returned
  recalls, logged,\* times each node was counted, audit rows for scope 'all'
  shelfChanges

briefingVars == <<shelf, sight, brief, page, hunt, recalls, logged, shelfChanges>>

NoBriefing == [at |-> "none", scope |-> "all", hint |-> FALSE, restricted |-> FALSE, layout |-> <<>>,
           scopes |-> {}]
NoHunt == [vector |-> {}, lexical |-> {}, hydrated |-> {}, near |-> {}]

BriefingInit ==
  /\ shelf \in Shelves /\ sight = ReadScopes /\ hunt = NoHunt
  /\ brief = NoBriefing /\ page = <<>> /\ shelfChanges = 0
  /\ recalls = [n \in ShelfIds |-> 0] /\ logged = 0

-----------------------------------------------------------------------------
(* Dates.                                                                  *)

\* Text order: a prefix comes first.
DateBefore(a, b) ==
  \E i \in DOMAIN b : /\ \A j \in 1..(i - 1) : j \in DOMAIN a /\ a[j] = b[j]
                      /\ i \in DOMAIN a => a[i] < b[i]

FirstDay(d) == [i \in 1..DateParts |-> IF i \in DOMAIN d THEN d[i] ELSE 1]
LastDay(d) == [i \in 1..DateParts |-> IF i \in DOMAIN d THEN d[i] ELSE LastOfPart]

-----------------------------------------------------------------------------
(* A section.                                                              *)

Visible(n) == shelf[n].scope \in sight
InReach(n) == Visible(n) /\ shelf[n].scope \in brief.scopes

HasEdge(n, type) == \E e \in ShelfEdges : e[1] = type /\ e[2] = n /\ Visible(e[3])

\* Every filter of _compile_section but where_attr.
Eligible(s, n) ==
  /\ InReach(n) /\ shelf[n].type # HiddenType
  /\ s.types # {} => shelf[n].type \in s.types
  /\ shelf[n].status = s.status
  /\ s.recent => shelf[n].recent
  /\ ~HasEdge(n, s.without)

\* where_attr.  A missing attribute compares to nothing.
Dated(s, n) ==
  LET due == shelf[n].due IN
  /\ s.before # <<>> => due # <<>> /\ DateBefore(due, s.before)
  /\ s.after # <<>> => due # <<>> /\ DateBefore(s.after, due)
  /\ s.equals # <<>> => due = s.equals

Newer(a, b) == shelf[a].stamp > shelf[b].stamp \/ (shelf[a].stamp = shelf[b].stamp /\ a < b)
Sooner(a, b) ==
  LET da == shelf[a].due  db == shelf[b].due IN
  \/ da # <<>> /\ (db = <<>> \/ DateBefore(da, db))
  \/ da = db /\ Newer(a, b)

FilterRows(s) ==
  LET rows == {n \in ShelfIds : Eligible(s, n) /\ Dated(s, n)}
      order == {p \in rows \X rows : IF s.byDue THEN Sooner(p[1], p[2]) ELSE Newer(p[1], p[2])}
  IN FirstOf(SectionCap, rows, order)

\* A leg of the hint's search, over active memory.
HintLeg(s, list) ==
  FirstOf(LegCap, {n \in {list[i] : i \in DOMAIN list} :
            /\ InReach(n) /\ shelf[n].type # HiddenType /\ shelf[n].status = "active"
            /\ s.types # {} => shelf[n].type \in s.types}, ListOrder(list))

HintUnion == hunt.vector \cup hunt.lexical
HintScore(n) ==
  Share(hunt.vector, ListOrder(HintVector), n) + Share(hunt.lexical, ListOrder(HintLexical), n)
BornOf(n) == IF n \in hunt.hydrated THEN Born[n] ELSE 0

\* The order of the fused hits: score, then the newer, then the id.
HintBefore(a, b) ==
  \/ HintScore(a) > HintScore(b)
  \/ HintScore(a) = HintScore(b) /\ BornOf(a) > BornOf(b)
  \/ HintScore(a) = HintScore(b) /\ BornOf(a) = BornOf(b) /\ a < b

DeclaredDistinct(a, b) ==
  \E e \in ShelfEdges : /\ e[1] \in {"same_topic", "relates_to"} /\ {e[2], e[3]} = {a, b}
                        /\ Visible(a) /\ Visible(b)

\* include_linked: whole, whatever their status, whatever scope was asked for.
LinkedTo(rows, type) ==
  {e[3] : e \in {x \in ShelfEdges : /\ x[1] = type /\ x[2] \in rows
                                    /\ Visible(x[2]) /\ Visible(x[3])}}

-----------------------------------------------------------------------------
BriefingBegins ==
  /\ brief.at = "none"
  /\ \E scope \in {"all"} \cup ReadScopes, hint, restricted \in BOOLEAN, layout \in Layouts :
       brief' = [at |-> IF scope = "all" /\ restricted THEN "refused" ELSE "scopes", scope |-> scope,
                hint |-> hint, restricted |-> restricted, layout |-> layout, scopes |-> {}]
  /\ UNCHANGED <<shelf, sight, page, hunt, recalls, logged, shelfChanges>>

\* resolve_scope_set: everything, or the scope with the ambient ones.
ResolvesScopes ==
  /\ brief.at = "scopes"
  /\ brief' = [brief EXCEPT
       !.at = "sections",
       !.scopes = IF brief.scope = "all" THEN sight ELSE ({brief.scope} \cup AmbientScopes) \cap sight]
  /\ UNCHANGED <<shelf, sight, page, hunt, recalls, logged, shelfChanges>>

NextSection == brief.layout[Len(page) + 1]
AtSections == brief.at = "sections" /\ Len(page) < Len(brief.layout)

\* A hint is searched for; without one a semantic section is empty.
Hunting == NextSection.semantic /\ brief.hint /\ brief.scopes # {}

Adds(rows, pool) ==
  /\ page' = Append(page, [shown |-> rows, linked |-> {}, section |-> NextSection,
                           pool |-> [n \in pool |-> shelf[n].due]])
  /\ brief' = [brief EXCEPT !.at = IF NextSection.linked # "none" /\ rows # {} THEN "linked" ELSE "sections"]
  /\ UNCHANGED <<shelf, sight, hunt, recalls, logged, shelfChanges>>

\* The section's rows ...
ShowsSection ==
  /\ AtSections /\ ~Hunting
  /\ IF NextSection.semantic \/ brief.scopes = {} THEN Adds({}, {})
     ELSE Adds(FilterRows(NextSection), {n \in ShelfIds : Eligible(NextSection, n)})

Hunts(step, found) ==
  /\ hunt' = found /\ brief' = [brief EXCEPT !.at = step]
  /\ UNCHANGED <<shelf, sight, page, recalls, logged, shelfChanges>>

\* ... or hybrid_fuse, a statement each.  The floor is for the vector leg only.
VectorHints ==
  /\ AtSections /\ Hunting
  /\ Hunts("lexical", [NoHunt EXCEPT !.vector = HintLeg(NextSection, HintVector) \cap HintNear])

LexicalHints ==
  /\ brief.at = "lexical"
  /\ Hunts("hydrate", [hunt EXCEPT !.lexical = HintLeg(NextSection, HintLexical)])

HydratesHints ==
  /\ brief.at = "hydrate"
  /\ Hunts("near", [hunt EXCEPT !.hydrated = {n \in HintUnion : Visible(n)}])

NearHints ==
  /\ brief.at = "near"
  /\ Hunts("declared", [hunt EXCEPT !.near = {p \in HintPairs : \A n \in p : n \in HintUnion /\ Visible(n)}])

\* The pairs declared distinct are read, and of the others the one that ranks
\* below is dropped.  A row that was not hydrated raises.
CollapsesHints ==
  /\ brief.at = "declared"
  /\ \E kept \in SUBSET HintUnion :
       LET rows == FirstOf(SectionCap, kept, {p \in kept \X kept : HintBefore(p[1], p[2])})
           restates(n, m) == {m, n} \in hunt.near /\ ~DeclaredDistinct(m, n)
       IN /\ \A n \in HintUnion : n \in kept <=> ~\E m \in kept : HintBefore(m, n) /\ restates(n, m)
          /\ rows \subseteq hunt.hydrated
          /\ Adds(rows, {})

\* ... and what is linked to them, in the next statement.
ShowsLinked ==
  /\ brief.at = "linked"
  /\ page' = [page EXCEPT ![Len(page)].linked =
                LinkedTo(page[Len(page)].shown, page[Len(page)].section.linked)]
  /\ brief' = [brief EXCEPT !.at = "sections"]
  /\ UNCHANGED <<shelf, sight, hunt, recalls, logged, shelfChanges>>

\* Mutant: the nodes linked to those of a section are not counted.
SurfacedRows == UNION {page[i].shown : i \in DOMAIN page}

Surfaced == UNION {page[i].shown \cup page[i].linked : i \in DOMAIN page}

\* The recall counts and the audit row are committed with the answer.  The UPDATE
\* meets the rows the caller may still read, and fails over one not to be written.
BriefingEnds ==
  /\ brief.at = "sections" /\ Len(page) = Len(brief.layout)
  /\ \A n \in Surfaced : Visible(n) => shelf[n].scope \in WriteScopes
  /\ brief' = [brief EXCEPT !.at = "answered"]
  /\ recalls' = [n \in ShelfIds |-> recalls[n] + (IF n \in Surfaced /\ Visible(n) THEN 1 ELSE 0)]
  /\ logged' = logged + (IF brief.scope = "all" THEN 1 ELSE 0)
  /\ UNCHANGED <<shelf, sight, page, hunt, shelfChanges>>

BriefingOpen == {"scopes", "sections", "lexical", "hydrate", "near", "declared", "linked"}

\* A statement fails or the client goes away: nothing of it stays.
BriefingFails ==
  /\ brief.at \in BriefingOpen
  /\ brief' = [brief EXCEPT !.at = "failed"]
  /\ UNCHANGED <<shelf, sight, page, hunt, recalls, logged, shelfChanges>>

\* Another session archives a node, sets its date, or withdraws a scope.
ShelfChanges ==
  /\ brief.at \in BriefingOpen /\ shelfChanges < MaxShelfChanges
  /\ shelfChanges' = shelfChanges + 1
  /\ \/ /\ \E n \in ShelfIds : shelf' = [shelf EXCEPT ![n].status = "archived"]
        /\ UNCHANGED sight
     \/ /\ \E n \in ShelfIds : shelf' = [shelf EXCEPT ![n].due = <<1>>]
        /\ UNCHANGED sight
     \/ /\ \E sc \in sight : sight' = sight \ {sc}
        /\ UNCHANGED shelf
  /\ UNCHANGED <<brief, page, hunt, recalls, logged>>

BriefingNext ==
  \/ BriefingBegins \/ ResolvesScopes \/ ShowsSection \/ ShowsLinked
  \/ VectorHints \/ LexicalHints \/ HydratesHints \/ NearHints \/ CollapsesHints
  \/ BriefingEnds \/ BriefingFails \/ ShelfChanges

BriefingSpec == BriefingInit /\ [][BriefingNext]_briefingVars

BriefingOver == brief.at \in {"answered", "failed", "refused"}

-----------------------------------------------------------------------------
BriefingTypeOK ==
  /\ brief.at \in BriefingOpen \cup {"none", "refused", "answered", "failed"}
  /\ sight \subseteq ReadScopes /\ brief.scopes \subseteq ReadScopes
  /\ shelf \in [ShelfIds -> StoredRow] /\ HintUnion \cup hunt.hydrated \subseteq ShelfIds
  /\ Len(page) <= Len(brief.layout)

\* The whole period of a date lies within the bounds of a section.
Within(s, due) ==
  /\ s.before # <<>> => due # <<>> /\ DateBefore(LastDay(due), s.before)
  /\ s.after # <<>> => due # <<>> /\ DateBefore(LastDay(s.after), FirstDay(due))
  /\ s.equals # <<>> => due = s.equals

\* Some of it does.
MeetsBounds(s, due) ==
  /\ s.before # <<>> => due # <<>> /\ ~DateBefore(FirstDay(s.before), FirstDay(due))
  /\ s.after # <<>> => due # <<>> /\ ~DateBefore(FirstDay(due), FirstDay(s.after))
  /\ s.equals # <<>> => due = s.equals

\* A briefing shows what it says and counts no more than it shows.  The restore
\* sentinel is in no section; a section with bounds on a date shows no node whose
\* whole period lies outside them and, up to the cap, every one whose whole period
\* lies within; a section by due date leaves out none of these that is due sooner
\* than one it shows, or has a date where that has none.  A node is counted when
\* the briefing is answered, once, if it was shown and the caller may still read it
\* when the transaction ends: one withdrawn after its section was read stays
\* uncounted.  The briefing is logged if all was asked for, and one that failed or
\* was refused leaves nothing behind.
BriefingFaithful ==
  /\ \A i \in DOMAIN page :
       LET p == page[i]  s == p.section
           out == (DOMAIN p.pool) \ p.shown
       IN /\ \A n \in p.shown : shelf[n].type # HiddenType
          /\ Cardinality(p.shown) <= SectionCap
          /\ ~s.semantic => \A n \in p.shown : MeetsBounds(s, p.pool[n])
          /\ (\E n \in out : Within(s, p.pool[n])) => Cardinality(p.shown) = SectionCap
          /\ ~s.semantic /\ s.byDue => \A n \in out, m \in p.shown :
               Within(s, p.pool[n]) /\ p.pool[n] # <<>> =>
                 p.pool[m] # <<>> /\ ~DateBefore(LastDay(p.pool[n]), FirstDay(p.pool[m]))
  /\ \A n \in ShelfIds :
       recalls[n] = IF /\ brief.at = "answered" /\ Visible(n)
                       /\ \E i \in DOMAIN page : n \in page[i].shown \cup page[i].linked
                    THEN 1 ELSE 0
  /\ logged = IF brief.at = "answered" /\ brief.scope = "all" THEN 1 ELSE 0
=============================================================================
