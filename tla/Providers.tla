----------------------------- MODULE Providers -----------------------------
(***************************************************************************)
(* The benchmark's model clients (bench/core/providers.py): a REST client  *)
(* that paces itself and retries, and the CLI client that waits out a      *)
(* binary being replaced.  One client is shared by the reader's threads:   *)
(* its window and its output-cap field have no lock.                       *)
(***************************************************************************)
EXTENDS Integers, FiniteSets

CONSTANTS
  Threads,        \* threads that share the client (--concurrency)
  Rpm, Rpd,       \* requests a minute, and a day where the client counts them
  Minute,         \* the length of the window, in ticks
  Attempts,       \* max_retries
  LaunchBudget,   \* _CLI_LAUNCH_RETRY_BUDGET_S
  FirstDelay, LastDelay,   \* the CLI's waits: 3 s, doubled up to 20 s
  MaxCalls,       \* bound: calls placed
  MaxTime         \* bound: the clock

ASSUME ProviderBounds ==
  /\ IsFiniteSet(Threads)
  /\ {Rpm, Rpd, Minute, Attempts, LaunchBudget, FirstDelay, LastDelay} \subseteq Nat \ {0}
  /\ {MaxCalls, MaxTime} \subseteq Nat

VARIABLES
  client,         \* which client: "gemini", "openai" or "cli"
  accepts,        \* the output-cap field the endpoint accepts
  capField,       \* the client's _max_tokens_field
  minute,         \* its _minute_window: requests <<time, number>>
  today,          \* its requests_today
  call,           \* each thread's call
  clock, placed,
  posts,          \* how many requests were posted
  sent,           \* those of the minute that ends with the last one
  spoiled,        \* how many calls died of the output-cap field's name
  overlapped      \* whether two threads were ever in the throttle together

providerVars ==
  <<client, accepts, capField, minute, today, call, clock, placed, posts, sent, spoiled, overlapped>>

Fields == {"max_tokens", "max_completion_tokens"}
Other(f) == CHOOSE g \in Fields : g # f

Resting == [at |-> "idle", attempt |-> 0, body |-> "max_tokens", seen |-> {},
            until |-> 0, waited |-> 0, delay |-> FirstDelay]

ProvidersInit ==
  /\ client \in {"gemini", "openai", "cli"} /\ accepts \in Fields
  /\ client # "openai" => accepts = "max_tokens"
  /\ capField = "max_tokens" /\ minute = {} /\ today = 0
  /\ call = [t \in Threads |-> Resting]
  /\ clock = 0 /\ placed = 0 /\ posts = 0 /\ sent = {} /\ spoiled = 0 /\ overlapped = FALSE

Step(t, c) == call' = [call EXCEPT ![t] = c]
InThrottle(t) == call[t].at \in {"count", "asleep", "recount", "append"}

\* Gemini's clients and the CLI's are driven by one thread at a time.
Starts(t) ==
  /\ call[t].at = "idle" /\ placed < MaxCalls
  /\ client # "openai" => \A u \in Threads : call[u].at = "idle"
  /\ placed' = placed + 1
  /\ Step(t, [Resting EXCEPT !.at = IF client = "cli" THEN "launch" ELSE "throttle",
                             !.body = capField])
  /\ UNCHANGED <<client, accepts, capField, minute, today, clock, posts, sent, spoiled, overlapped>>

Finishes(t) == Step(t, Resting)

-----------------------------------------------------------------------------
(* _throttle.                                                              *)

\* Mutant: an entry counts as aged a tick early.
FreshEarly(w) == {r \in w : clock - r[1] < Minute - 1}

Fresh(w) == {r \in w : clock - r[1] < Minute}
Recent(w) == {r \in w : clock - r[1] < Minute}

DayOver(t) ==
  /\ call[t].at = "throttle" /\ client = "gemini" /\ today >= Rpd
  /\ Finishes(t)
  /\ UNCHANGED <<client, accepts, capField, minute, today, clock, placed, posts, sent, spoiled, overlapped>>

\* The window is read and filtered; it is assigned in a later step.
Prunes(t) ==
  /\ call[t].at = "throttle" /\ (client = "gemini" => today < Rpd)
  /\ Step(t, [call[t] EXCEPT !.at = "count", !.seen = Fresh(minute)])
  /\ overlapped' = (overlapped \/ \E u \in Threads : u # t /\ InThrottle(u))
  /\ UNCHANGED <<client, accepts, capField, minute, today, clock, placed, posts, sent, spoiled>>

\* Full: sleep as long as the oldest entry needs to age out.
Counts(t) ==
  /\ call[t].at = "count"
  /\ minute' = call[t].seen
  /\ \/ /\ Cardinality(call[t].seen) < Rpm
        /\ Step(t, [call[t] EXCEPT !.at = "append"])
     \/ /\ Cardinality(call[t].seen) >= Rpm
        /\ \E r \in call[t].seen :
             /\ \A s \in call[t].seen : r[1] <= s[1]
             /\ Step(t, [call[t] EXCEPT !.at = "asleep", !.until = r[1] + Minute])
  /\ UNCHANGED <<client, accepts, capField, today, clock, placed, posts, sent, spoiled, overlapped>>

Wakes(t) ==
  /\ call[t].at = "asleep" /\ clock >= call[t].until
  /\ Step(t, [call[t] EXCEPT !.at = "recount", !.seen = Fresh(minute), !.until = 0])
  /\ overlapped' = (overlapped \/ \E u \in Threads : u # t /\ InThrottle(u))
  /\ UNCHANGED <<client, accepts, capField, minute, today, clock, placed, posts, sent, spoiled>>

Recounts(t) ==
  /\ call[t].at = "recount"
  /\ minute' = call[t].seen
  /\ Step(t, [call[t] EXCEPT !.at = "append"])
  /\ UNCHANGED <<client, accepts, capField, today, clock, placed, posts, sent, spoiled, overlapped>>

Appends(t) ==
  /\ call[t].at = "append"
  /\ minute' = minute \cup {<<clock, posts>>}
  /\ sent' = Recent(sent) \cup {<<clock, posts>>} /\ posts' = posts + 1
  /\ today' = IF client = "gemini" THEN today + 1 ELSE today
  /\ Step(t, [call[t] EXCEPT !.at = "sent", !.seen = {}])
  /\ UNCHANGED <<client, accepts, capField, clock, placed, spoiled, overlapped>>

-----------------------------------------------------------------------------
(* _post: the answer to one attempt.                                       *)

LastAttempt(t) == call[t].attempt = Attempts - 1
Refuses(t) == client = "openai" /\ call[t].body # accepts

\* Nothing more is tried: the reply came, good or one that complete refuses (cut
\* off at the cap, filtered, declined, not the JSON asked for); the quota is gone,
\* the key is wrong, the request is; or a read timed out, which is not caught.
CallEnds(t) ==
  /\ call[t].at = "sent" /\ Finishes(t)
  /\ UNCHANGED <<client, accepts, capField, minute, today, clock, placed, posts, sent, spoiled, overlapped>>

\* The range over attempts gives out.
Retries(t, wait) ==
  IF LastAttempt(t) THEN Finishes(t)
  ELSE Step(t, [call[t] EXCEPT !.at = "backoff", !.attempt = @ + 1, !.until = clock + wait])

\* _switch_max_tokens_field: the cap moves to the other name, once, when the body
\* still holds the name the client has.  The attempt is spent.
Switches(t) ==
  /\ call[t].at = "sent" /\ Refuses(t) /\ call[t].body = capField
  /\ capField' = Other(capField)
  /\ IF LastAttempt(t) THEN Finishes(t) /\ spoiled' = spoiled + 1
     ELSE /\ Step(t, [call[t] EXCEPT !.at = "throttle", !.attempt = @ + 1, !.body = Other(capField)])
          /\ UNCHANGED spoiled
  /\ UNCHANGED <<client, accepts, minute, today, clock, placed, posts, sent, overlapped>>

\* Another thread has switched since this body was built: HTTP 400 is final.
SwitchedAway(t) ==
  /\ call[t].at = "sent" /\ Refuses(t) /\ call[t].body # capField
  /\ Finishes(t) /\ spoiled' = spoiled + 1
  /\ UNCHANGED <<client, accepts, capField, minute, today, clock, placed, posts, sent, overlapped>>

\* 429, 5xx, no connection: after a wait, the endpoint's own or the next delay.
BacksOff(t) ==
  /\ call[t].at = "sent"
  /\ \E wait \in 0..1 : Retries(t, wait)
  /\ UNCHANGED <<client, accepts, capField, minute, today, clock, placed, posts, sent, spoiled, overlapped>>

Again(t) ==
  /\ call[t].at = "backoff" /\ clock >= call[t].until
  /\ Step(t, [call[t] EXCEPT !.at = "throttle", !.until = 0])
  /\ UNCHANGED <<client, accepts, capField, minute, today, clock, placed, posts, sent, spoiled, overlapped>>

-----------------------------------------------------------------------------
(* _launch and complete of the CLI client.                                 *)

\* The binary runs: a reply, a cap (in words, or by saying nothing), an error; a
\* hang or an over-long command line is not retried either.
Launched(t) ==
  /\ call[t].at = "launch" /\ Finishes(t)
  /\ UNCHANGED <<client, accepts, capField, minute, today, clock, placed, posts, sent, spoiled, overlapped>>

FitsBudget(waited, delay) == waited + delay < LaunchBudget

Doubled(delay) == IF 2 * delay < LastDelay THEN 2 * delay ELSE LastDelay

\* The binary is missing or locked: wait and resolve it again, within the budget.
LaunchFails(t) ==
  /\ call[t].at = "launch"
  /\ LET c == call[t] IN
     IF FitsBudget(c.waited, c.delay)
     THEN Step(t, [c EXCEPT !.waited = @ + c.delay, !.delay = Doubled(@)])
     ELSE Finishes(t)
  /\ UNCHANGED <<client, accepts, capField, minute, today, clock, placed, posts, sent, spoiled, overlapped>>

-----------------------------------------------------------------------------
\* Time passes while every thread waits: code between two waits takes none.
Tick ==
  /\ clock < MaxTime
  /\ \A t \in Threads : call[t].at \in {"idle", "asleep", "backoff", "sent"}
  /\ \E t \in Threads : call[t].at # "idle"
  /\ clock' = clock + 1
  /\ UNCHANGED <<client, accepts, capField, minute, today, call, placed, posts, sent, spoiled, overlapped>>

ProvidersNext ==
  \/ \E t \in Threads :
       \/ Starts(t) \/ DayOver(t) \/ Prunes(t) \/ Counts(t) \/ Wakes(t) \/ Recounts(t)
       \/ Appends(t) \/ CallEnds(t) \/ Switches(t) \/ SwitchedAway(t)
       \/ BacksOff(t) \/ Again(t) \/ Launched(t) \/ LaunchFails(t)
  \/ Tick

ProvidersSpec == ProvidersInit /\ [][ProvidersNext]_providerVars

ProvidersOver ==
  \/ placed = MaxCalls /\ \A t \in Threads : call[t].at = "idle"
  \/ clock = MaxTime

-----------------------------------------------------------------------------
ProvidersTypeOK ==
  /\ capField \in Fields /\ today \in Nat /\ clock \in 0..MaxTime /\ placed \in 0..MaxCalls
  /\ \A t \in Threads : call[t].attempt \in Nat /\ call[t].waited \in Nat

\* While no two threads were in the throttle together (only then),
\* no minute holds more than rpm requests, retries and waits included, and no day of
\* a client that counts them more than rpd.  The output-cap field is learned once and costs at most one
\* call a thread, however many calls are made.  The CLI never waits out more than
\* its budget.
ClientsKeepTerms ==
  /\ ~overlapped => Cardinality(sent) <= Rpm
  /\ today <= Rpd
  /\ capField = "max_tokens" \/ capField = accepts
  /\ spoiled <= Cardinality(Threads)
  /\ \A t \in Threads : call[t].waited < LaunchBudget

=============================================================================
