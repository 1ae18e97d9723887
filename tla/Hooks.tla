------------------------------- MODULE Hooks -------------------------------
(***************************************************************************)
(* The Claude Code hooks of agent/claude-code/hooks: session-start briefs  *)
(* a session, prompt adds once what a hint returns.  Each is a process of  *)
(* its own that the harness may kill between any two steps; a marker file  *)
(* carries what was shown from one to the next.  A session that starts     *)
(* again (resumed, compacted, cleared) runs session-start again.           *)
(***************************************************************************)
EXTENDS Integers, FiniteSets, Sequences, SequencesExt

CONSTANTS
  ScopeLists,     \* what scope_list may answer: sequences of scope records
  Briefings,      \* what briefing may answer: sequences of sections of nodes
  EntryCost,      \* the length of each node's rendered entry
  ContextCap,     \* MAX_CONTEXT_CHARS, where a header counts 1
  NamedCap,       \* how many dropped nodes are named (10)
  HookBudget,     \* the wall clock all calls of one process share, in ticks
  CallTimeout,    \* the most one call may take
  MaxEvents,      \* bound: hook processes started
  MaxHookKills    \* bound: processes the harness kills

HookNodes == DOMAIN EntryCost

ASSUME HookBounds ==
  /\ {ContextCap, NamedCap, HookBudget, CallTimeout, MaxEvents, MaxHookKills} \subseteq Nat
  /\ \A n \in HookNodes : EntryCost[n] \in Nat
  /\ Briefings \subseteq Seq(Seq(HookNodes))

VARIABLES
  stateWritable,  \* whether the state directory can be written
  marker,         \* the session's state file
  hook,           \* the running process: its step and what its calls answered
  left,           \* what remains of its budget
  told,           \* what the session's context holds since it last started
  events, hookKills

hookVars == <<stateWritable, marker, hook, left, told, events, hookKills>>

\* What is rendered so far: the section and the node at hand (0: its header), the
\* nodes met, and what is left of the length.
FreshDraft(seen) ==
  [section |-> 1, node |-> 0, already |-> seen, shown |-> {}, dropped |-> <<>>,
   room |-> ContextCap, lines |-> FALSE]

Idle == [at |-> "idle", brief |-> <<>>, parked |-> <<>>, draft |-> FreshDraft({})]
Blank == [shown |-> {}, hinted |-> FALSE]

\* How often each node was injected, which dropped ones were named and which not,
\* which nodes sections of a fetched briefing had and what was said; cut: a process
\* was killed since the start, or the start ended by an error it does not handle.
NothingTold ==
  [shown |-> [n \in HookNodes |-> 0], named |-> {}, unnamed |-> {}, fetched |-> {},
   said |-> {}, cut |-> FALSE]

HooksInit ==
  /\ stateWritable \in BOOLEAN
  /\ marker = Blank /\ hook = Idle /\ left = 0 /\ told = NothingTold
  /\ events = 0 /\ hookKills = 0

-----------------------------------------------------------------------------
(* Choosing the scope.                                                     *)

\* The scopes of a listing that may be picked, best first: the proposed id, one
\* whose hints name the repository, one whose id ends in its name and that is
\* nobody's personal scope.
PickScope(scopes) ==
  SelectSeq(scopes, LAMBDA s : s.id = "proposed")
    \o SelectSeq(scopes, LAMBDA s : s.hint)
    \o SelectSeq(scopes, LAMBDA s : s.id = "suffixed" /\ ~s.personal)

-----------------------------------------------------------------------------
(* One call, and all calls of a process share one budget.  A call answers   *)
(* at once or late, is refused, or hangs: None.  An error of the HTTP       *)
(* exchange itself is not handled by the client and ends the process.       *)

\* What a call may come back with when answers are the good ones; <<>> is None.
Replies(answers) == IF left = 0 THEN {<<>>} ELSE {<<a>> : a \in answers} \cup {<<>>}

Waits == \E cost \in 0..(IF left < CallTimeout THEN left ELSE CallTimeout) : left' = left - cost

Write(state) == marker' = IF stateWritable THEN state ELSE marker
Ends == hook' = Idle
Tells(w) == told' = [told EXCEPT !.said = @ \cup w]
Goto(step) == hook' = [hook EXCEPT !.at = step]

-----------------------------------------------------------------------------
(* render_memory, section by section and node by node.  Only a section's   *)
(* own nodes are rendered: the ones linked to them are read past.          *)

Briefing == IF hook.brief = <<>> THEN <<>> ELSE hook.brief[1]

AtSection == Briefing[hook.draft.section]
Rendering == hook.at \in {"render", "render hint"} /\ hook.draft.section <= Len(Briefing)
Rendered(step) == hook.at = step /\ hook.draft.section > Len(Briefing)
Drafting(d) ==
  /\ hook' = [hook EXCEPT !.draft = d]
  /\ UNCHANGED <<stateWritable, marker, left, told, events, hookKills>>

\* A section with nothing new has no header.
OpensSection ==
  /\ Rendering /\ hook.draft.node = 0
  /\ Drafting(IF ToSet(AtSection) \subseteq hook.draft.already
              THEN [hook.draft EXCEPT !.section = @ + 1]
              ELSE [hook.draft EXCEPT !.node = 1, !.room = @ - 1, !.lines = TRUE])

\* The draft with node n placed: skipped when it is there already, dropped when
\* its entry does not fit what is left.
WithNode(d, n) ==
  CASE n \in d.already -> d
    [] n \notin d.already /\ EntryCost[n] > d.room ->
         [d EXCEPT !.already = @ \cup {n}, !.dropped = Append(@, n)]
    [] OTHER ->
         [d EXCEPT !.already = @ \cup {n}, !.shown = @ \cup {n}, !.room = @ - EntryCost[n]]

PlacesNode ==
  /\ Rendering /\ hook.draft.node # 0
  /\ LET d == WithNode(hook.draft, AtSection[hook.draft.node]) IN
     Drafting(IF d.node < Len(AtSection) THEN [d EXCEPT !.node = @ + 1]
              ELSE [d EXCEPT !.section = @ + 1, !.node = 0])

Named == {hook.draft.dropped[i] : i \in {i \in DOMAIN hook.draft.dropped : i <= NamedCap}}

\* The context once the draft is injected, with the words w.
Injected(w) ==
  [told EXCEPT !.shown = [n \in HookNodes |-> @[n] + IF n \in hook.draft.shown THEN 1 ELSE 0],
               !.named = @ \cup Named,
               !.unnamed = @ \cup (ToSet(hook.draft.dropped) \ Named),
               !.fetched = @ \cup UNION {ToSet(Briefing[i]) : i \in DOMAIN Briefing},
               !.said = @ \cup w]

-----------------------------------------------------------------------------
(* session-start.                                                          *)

StartsSession ==
  /\ hook = Idle /\ events < MaxEvents
  /\ events' = events + 1 /\ left' = HookBudget
  /\ told' = [NothingTold EXCEPT !.said = {"start"}]
  /\ Goto("register")
  /\ UNCHANGED <<stateWritable, marker, hookKills>>

\* No registration on this machine: only the contract is said.
Unregistered ==
  /\ hook.at = "register"
  /\ Write(Blank) /\ Tells({"fetch"}) /\ Ends
  /\ UNCHANGED <<stateWritable, left, events, hookKills>>

\* The handshake, then scope_list when the server answered it.
Lists ==
  /\ hook.at = "register" /\ Waits
  /\ \E r \in Replies({"ready"}) :
       hook' = [hook EXCEPT !.at = IF r = <<>> THEN "unreachable" ELSE "scopes"]
  /\ UNCHANGED <<stateWritable, marker, told, events, hookKills>>

Unreachable ==
  /\ hook.at = "unreachable"
  /\ Write(Blank) /\ Tells({"unreachable"}) /\ Ends
  /\ UNCHANGED <<stateWritable, left, events, hookKills>>

Resolves ==
  /\ hook.at = "scopes" /\ Waits
  /\ \E r \in Replies(ScopeLists) :
       IF r = <<>> THEN Goto("unreachable") /\ UNCHANGED marker
       ELSE /\ Write(Blank)
            /\ Goto(IF PickScope(r[1]) = <<>> THEN "unscoped" ELSE "brief")
  /\ UNCHANGED <<stateWritable, told, events, hookKills>>

\* No scope covers the checkout: the user is to be asked.
AsksForScope ==
  /\ hook.at = "unscoped" /\ Tells({"ask", "fetch"}) /\ Ends
  /\ UNCHANGED <<stateWritable, marker, left, events, hookKills>>

Fetches ==
  /\ hook.at = "brief" /\ Waits
  /\ \E r \in Replies(Briefings) : hook' = [hook EXCEPT !.at = "pending", !.brief = r]
  /\ UNCHANGED <<stateWritable, marker, told, events, hookKills>>

ListsParked ==
  /\ hook.at = "pending" /\ Waits
  /\ \E r \in Replies(BOOLEAN) : hook' = [hook EXCEPT !.at = "render", !.parked = r]
  /\ UNCHANGED <<stateWritable, marker, told, events, hookKills>>

\* The marker is written before the text goes out.
Marks ==
  /\ Rendered("render")
  /\ Write([shown |-> hook.draft.shown, hinted |-> FALSE])
  /\ Goto("emit")
  /\ UNCHANGED <<stateWritable, left, told, events, hookKills>>

\* Any text at all counts as a briefing that was fetched.
Briefs ==
  /\ hook.at = "emit"
  /\ LET got == {w \in {"briefing", "briefing text", "parked", "parked text"} :
                   CASE w = "briefing" -> hook.brief # <<>>
                     [] w = "briefing text" -> hook.draft.lines
                     [] w = "parked" -> hook.parked # <<>>
                     [] w = "parked text" -> hook.parked = <<TRUE>>}
     IN told' = Injected(IF got \cap {"briefing text", "parked text"} = {} THEN {"fetch"} ELSE got)
  /\ Ends
  /\ UNCHANGED <<stateWritable, marker, left, events, hookKills>>

-----------------------------------------------------------------------------
(* prompt.                                                                 *)

\* Mutant: the claim is not recorded.
ClaimNever(state) == state

Claim(state) == [state EXCEPT !.hinted = TRUE]

\* A substantive message, the session's first: it is claimed before anything is
\* fetched, and not claimed again when that fails.
Prompts ==
  /\ hook = Idle /\ events < MaxEvents
  /\ events' = events + 1 /\ left' = HookBudget
  /\ IF marker.hinted THEN UNCHANGED <<marker, hook>>
     ELSE /\ Write(Claim(marker))
          /\ hook' = [hook EXCEPT !.at = "hint", !.draft = FreshDraft(marker.shown)]
  /\ UNCHANGED <<stateWritable, told, hookKills>>

\* Handshake and hinted briefing.
Hints ==
  /\ hook.at = "hint" /\ Waits
  /\ \E r \in Replies(Briefings) :
       IF r = <<>> THEN Tells({"fetch"}) /\ Ends
       ELSE hook' = [hook EXCEPT !.at = "render hint", !.brief = r] /\ UNCHANGED told
  /\ UNCHANGED <<stateWritable, marker, events, hookKills>>

\* What an earlier injection showed is left out of what the prompt adds.
AddsHinted ==
  /\ Rendered("render hint")
  /\ told' = Injected({"hinted"})
  /\ Ends
  /\ UNCHANGED <<stateWritable, marker, left, events, hookKills>>

\* An HTTPException of a request in flight (a status line or a body cut short)
\* reaches the top, which exits 0: nothing is said, and nothing more is written.
HttpFails ==
  /\ hook.at \in {"register", "scopes", "brief", "pending", "hint"} /\ left # 0
  /\ told' = [told EXCEPT !.cut = @ \/ hook.at # "hint"]
  /\ Ends
  /\ UNCHANGED <<stateWritable, marker, left, events, hookKills>>

\* The harness kills a process that outlasts its own timeout.
HookKilled ==
  /\ hook # Idle /\ hookKills < MaxHookKills
  /\ hookKills' = hookKills + 1
  /\ told' = [told EXCEPT !.cut = TRUE]
  /\ Ends
  /\ UNCHANGED <<stateWritable, marker, left, events>>

HooksNext ==
  \/ StartsSession \/ Unregistered \/ Lists \/ Unreachable \/ Resolves \/ AsksForScope
  \/ Fetches \/ ListsParked \/ OpensSection \/ PlacesNode \/ Marks \/ Briefs
  \/ Prompts \/ Hints \/ AddsHinted
  \/ HttpFails \/ HookKilled

HooksSpec == HooksInit /\ [][HooksNext]_hookVars

HooksOver == hook = Idle /\ events = MaxEvents

-----------------------------------------------------------------------------
HooksTypeOK ==
  /\ marker \in [shown : SUBSET HookNodes, hinted : BOOLEAN]
  /\ left \in 0..HookBudget
  /\ events \in 0..MaxEvents /\ hookKills \in 0..MaxHookKills

\* What a session is told is whole and said once.  No node is injected twice
\* between two starts; a node in a section of a briefing is shown, or dropped with
\* its id named up to the cap (the nodes linked to it are rendered nowhere); and
\* after a start each of its two reads was made, or the session is told to fetch or
\* that memory is unreachable.  Out of this: a state directory that cannot be
\* written (for what is said once), a process that was killed, a start that ended by
\* an HTTPException, and one where one read failed and the other had
\* text, which is taken for a briefing.
HookHonest ==
  /\ stateWritable /\ ~told.cut => \A n \in HookNodes : told.shown[n] <= 1
  /\ hook = Idle /\ ~told.cut =>
       \A n \in told.fetched : told.shown[n] > 0 \/ n \in told.named \cup told.unnamed
  /\ hook = Idle /\ ~told.cut /\ "start" \in told.said =>
       \/ {"fetch", "unreachable"} \cap told.said # {}
       \/ {"briefing", "parked text"} \cap told.said # {} /\ {"parked", "briefing text"} \cap told.said # {}

=============================================================================
