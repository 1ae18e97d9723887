------------------------------- MODULE Gateway -------------------------------
(***************************************************************************)
(* The door of the server: BearerAuthMiddleware and the gates of           *)
(* handle_call_tool (engraphy/server/app.py), the token lookup, role gate, *)
(* RateLimiter and FailureTracker of engraphy/server/auth.py, and the pool *)
(* of database connections every one of those steps borrows from.          *)
(*                                                                         *)
(* One process serves all requests.  A worker is one request in flight; it *)
(* runs a chain of stages, each with a pooled connection of its own that   *)
(* it gives back before it asks for the next:                              *)
(*   token -> principal -> (lookup ->) limits -> run                        *)
(* Between two awaits a worker runs alone, so a stage is one step.         *)
(* POST /inbox passes the same gates as a core write tool and is one of    *)
(* Tools.                                                                  *)
(***************************************************************************)
EXTENDS Integers, Sequences, FiniteSets

CONSTANTS
  Workers,      \* requests the process can have in flight
  Sources,      \* client addresses
  Tokens,       \* minted bearers
  Forged,       \* a bearer no api_tokens row matches
  Principals,   \* members of the space
  Admins,       \* those whose principals.role is space_admin
  Holder,       \* [Tokens -> Principals]
  Role,         \* [Tokens -> {"readwrite", "readonly"}]
  Tools,        \* core tools, admin tools and POST /inbox
  CoreTools,    \* those resolved without a lookup
  WriteTools,   \* WRITE_TOOLS
  ArchiveTool,  \* admin_member_archive
  Names,        \* names clients call: tools, aliases, unknown names
  Binds,        \* [Names -> Tools or NoTool]: what a name resolves to
  Limit,        \* [Kinds -> Int]: rate.read_per_min, rate.write_per_min
  Window,       \* _WINDOW_SECONDS and _FAIL_WINDOW_SECONDS, in ticks
  Threshold,    \* _FAIL_THRESHOLD
  PoolSize,     \* connections of the pool
  MaxTime, MaxRequests,
  MaxChanges,   \* bound on operator commands and restarts together
  NoTool

Kinds == {"read", "write"}
Bearers == Tokens \cup {Forged}

ASSUME GatewayAssumption ==
  /\ Forged \notin Tokens /\ NoTool \notin Tools
  /\ Admins \subseteq Principals
  /\ Holder \in [Tokens -> Principals]
  /\ Role \in [Tokens -> {"readwrite", "readonly"}]
  /\ WriteTools \subseteq Tools /\ ArchiveTool \in WriteTools \ CoreTools
  /\ CoreTools \subseteq Tools
  /\ Binds \in [Names -> Tools \cup {NoTool}]
  /\ \A n \in Names \cap Tools : Binds[n] = n
  /\ Limit \in [Kinds -> Int]
  /\ Window \in Nat \ {0} /\ Threshold \in Nat \ {0} /\ PoolSize \in Nat \ {0}
  /\ IsFiniteSet(Workers)
  /\ {MaxTime, MaxRequests, MaxChanges} \subseteq Nat

VARIABLES
  revoked,   \* tokens whose row has revoked = true
  archived,  \* principals whose row has archived = true
  now,       \* time.monotonic, in ticks
  pc,        \* [Workers -> stage of its request]
  job,       \* [Workers -> the request]
  barred,    \* history: <<worker, why>> when its request arrived with a token
             \* already revoked, or of a principal archived ever since
  answer,    \* what the last step answered, if it answered a request
  queue,     \* workers waiting for a connection, first in first out
  busy,      \* workers holding one
  events,    \* RateLimiter._events: [Tokens -> [Kinds -> times]]
  fails,     \* FailureTracker._fails: [Sources -> times]
  admitted,  \* history: every time this process let a call through the gates
  requests, changes

pool == <<queue, busy>>
limiter == <<events, admitted>>
door == <<revoked, archived>>
vars == <<revoked, archived, barred, now, pc, job, answer, queue, busy, events,
          fails, admitted, requests, changes>>

NoJob == [source |-> "none", bearer |-> "none", name |-> "none",
          tool |-> NoTool]

Kind(tool) == IF tool \in WriteTools THEN "write" ELSE "read"

\* Why the door refuses a bearer as things stand.
Faults(b) ==
  {why \in {"token", "principal"} :
     IF b = Forged THEN why = "token"
     ELSE IF why = "token" THEN b \in revoked ELSE Holder[b] \in archived}

\* How many entries popleft takes: all before the first one after the cutoff.
Popped(times, cutoff) ==
  CHOOSE k \in 0..Len(times) :
    /\ \A i \in 1..k : times[i] <= cutoff
    /\ k < Len(times) => times[k + 1] > cutoff

\* What is left of the deque.
After(times, cutoff) == SubSeq(times, Popped(times, cutoff) + 1, Len(times))

Pruned(times) == After(times, now - Window)

\* Mutant: one call more than the limit.
Overfull(bucket, kind) == Len(bucket) > Limit[kind]

\* Whether one more call would exceed the window's limit.
Full(bucket, kind) == Len(bucket) >= Limit[kind]

\* FailureTracker.is_banned.
Banned(s) == Len(Pruned(fails[s])) >= Threshold

-----------------------------------------------------------------------------
(* The pool: who holds a connection, who waits.                            *)

InLine(q) == {q[i] : i \in 1..Len(q)}
Waits(w) == w \in InLine(queue)

\* The line without the place of worker w, if it has one.
Without(q, w) ==
  LET i == CHOOSE i \in 1..Len(q) : q[i] = w
  IN  IF w \in InLine(q)
      THEN SubSeq(q, 1, i - 1) \o SubSeq(q, i + 1, Len(q)) ELSE q

\* Worker w has the connection its stage asked for.
Running(w) == pc[w] # "idle" /\ w \in busy /\ ~Waits(w)

\* A free connection goes to the first waiter.
Handover(q, b) ==
  IF q # <<>> /\ Cardinality(b) < PoolSize
  THEN queue' = Tail(q) /\ busy' = b \cup {Head(q)}
  ELSE queue' = q /\ busy' = b

\* Mutant: the next connection is asked for inside the block of the last one.
EnterHolding(w, stage) ==
  /\ pc' = [pc EXCEPT ![w] = stage]
  /\ answer' = "none"
  /\ Handover(Append(queue, w), busy)

\* Leave the connection of the last stage, if any, and ask for the next one.
Enter(w, stage) ==
  /\ pc' = [pc EXCEPT ![w] = stage]
  /\ answer' = "none"
  /\ Handover(Append(queue, w), busy \ {w})

\* Enter, for a request already past the first stage.
Advance(w, stage) == Enter(w, stage) /\ UNCHANGED barred

\* The request is answered a; whatever it holds or waits for is given up.
Respond(w, a) ==
  /\ pc' = [pc EXCEPT ![w] = "idle"]
  /\ job' = [job EXCEPT ![w] = NoJob]
  /\ answer' = a
  /\ Handover(Without(queue, w), busy \ {w})

Answer(w, a) == Respond(w, a) /\ barred' = {x \in barred : x[1] # w}

-----------------------------------------------------------------------------
Init ==
  /\ revoked = {} /\ archived = {} /\ barred = {}
  /\ now = 0
  /\ pc = [w \in Workers |-> "idle"]
  /\ job = [w \in Workers |-> NoJob]
  /\ answer = "none"
  /\ queue = <<>> /\ busy = {}
  /\ events = [t \in Tokens |-> [k \in Kinds |-> <<>>]]
  /\ fails = [s \in Sources |-> <<>>]
  /\ admitted = [t \in Tokens |-> [k \in Kinds |-> <<>>]]
  /\ requests = 0 /\ changes = 0

\* A request from source s arrives: refused while s is banned, else on to the
\* token lookup.
Arrive(w, s, b) ==
  /\ pc[w] = "idle" /\ requests < MaxRequests
  /\ requests' = requests + 1
  /\ fails' = [fails EXCEPT ![s] = Pruned(@)]
  /\ IF Banned(s) THEN Answer(w, "banned")
     ELSE /\ Enter(w, "token")
          /\ job' = [job EXCEPT ![w] =
               [source |-> s, bearer |-> b, name |-> "none", tool |-> NoTool]]
          /\ barred' = barred \cup ({w} \X Faults(b))
  /\ UNCHANGED <<revoked, archived, now, limiter, changes>>

\* Unauthorized: recorded against the source, 401.
Refuse(w) ==
  /\ fails' = [fails EXCEPT ![job[w].source] = Append(Pruned(@), now)]
  /\ Answer(w, "unauthorized")

\* resolve_token: the row is read again for every request.
LookUpToken(w) ==
  /\ pc[w] = "token" /\ Running(w)
  /\ IF job[w].bearer = Forged \/ job[w].bearer \in revoked THEN Refuse(w)
     ELSE Advance(w, "principal") /\ UNCHANGED <<job, fails>>
  /\ UNCHANGED <<door, now, limiter, requests, changes>>

\* require_write on the resolved tool, then on to the rate limits.
Authorize(w, name, tool) ==
  IF Kind(tool) = "write" /\ Role[job[w].bearer] # "readwrite"
  THEN Answer(w, "role")
  ELSE /\ Advance(w, "limits")
       /\ job' = [job EXCEPT ![w].name = name, ![w].tool = tool]

\* resolve_dispatch of the name the request turns out to call: a core name is its
\* own tool; an admin tool or an alias costs a lookup in config.
Dispatch(w, n) ==
  IF n \in CoreTools THEN Authorize(w, n, n)
  ELSE Advance(w, "lookup") /\ job' = [job EXCEPT ![w].name = n]

\* Mutant: the principal's row is not consulted.
TrustToken(w, n) ==
  /\ pc[w] = "principal" /\ Running(w)
  /\ Dispatch(w, n) /\ UNCHANGED fails
  /\ UNCHANGED <<door, now, limiter, requests, changes>>

\* require_active_principal, in a transaction of its own.
CheckPrincipal(w, n) ==
  /\ pc[w] = "principal" /\ Running(w)
  /\ IF Holder[job[w].bearer] \in archived THEN Refuse(w)
     ELSE Dispatch(w, n) /\ UNCHANGED fails
  /\ UNCHANGED <<door, now, limiter, requests, changes>>

\* admin_tools_enabled or load_aliases: an unknown name is answered before any
\* gate.
LookUpName(w) ==
  /\ pc[w] = "lookup" /\ Running(w)
  /\ IF Binds[job[w].name] = NoTool THEN Answer(w, "unknown")
     ELSE Authorize(w, job[w].name, Binds[job[w].name])
  /\ UNCHANGED <<door, now, limiter, fails, requests, changes>>

\* read_rate_limits, then RateLimiter.check: its retry_after reads bucket[0],
\* which an empty bucket (a limit of 0 or less) does not have.
CheckRate(w) ==
  LET t == job[w].bearer
      k == Kind(job[w].tool)
      bucket == Pruned(events[t][k])
  IN  /\ pc[w] = "limits" /\ Running(w)
      /\ IF Full(bucket, k)
         THEN /\ events' = [events EXCEPT ![t][k] = bucket]
              /\ Answer(w, IF bucket = <<>> THEN "error" ELSE "rate_limited")
              /\ UNCHANGED admitted
         ELSE /\ events' = [events EXCEPT ![t][k] = Append(bucket, now)]
              /\ Advance(w, "run") /\ UNCHANGED job
              /\ admitted' = [admitted EXCEPT ![t][k] = Append(@, now)]
      /\ UNCHANGED <<door, now, fails, requests, changes>>

\* The request is in its tool, on a connection of its own.
InTool(w) == pc[w] = "run" /\ Running(w)
AfterTool == UNCHANGED <<revoked, now, fails, limiter, requests, changes>>

\* The tool's own transaction commits.
RunTool(w) ==
  /\ InTool(w) /\ job[w].tool # ArchiveTool
  /\ Answer(w, "done")
  /\ UNCHANGED archived /\ AfterTool

\* principals.archived of p is set to flag.
SetArchived(p, flag) ==
  IF flag THEN archived' = archived \cup {p} /\ UNCHANGED barred
  ELSE /\ archived' = archived \ {p}
       /\ barred' = {x \in barred :
            ~ /\ x[2] = "principal" /\ job[x[1]].bearer \in Tokens
              /\ Holder[job[x[1]].bearer] = p}

\* admin_member_archive of p, by a space_admin and never of itself.
RunArchive(w, p, flag) ==
  LET actor == Holder[job[w].bearer] IN
  /\ InTool(w) /\ job[w].tool = ArchiveTool
  /\ IF actor \in Admins /\ ~(flag /\ actor = p)
     THEN Respond(w, "done") /\ SetArchived(p, flag)
     ELSE Answer(w, "refused") /\ UNCHANGED archived
  /\ AfterTool

\* The connection fails, the client hangs up, or PoolTimeout fires.
Abort(w) ==
  /\ pc[w] # "idle"
  /\ Answer(w, "error")
  /\ UNCHANGED <<door, now, fails, limiter, requests, changes>>

-----------------------------------------------------------------------------
(* The operator and the clock.                                             *)

Change ==
  /\ changes < MaxChanges
  /\ changes' = changes + 1
  /\ answer' = "none"
  /\ UNCHANGED <<now, pc, job, pool, limiter, fails, requests>>

\* `token revoke`; nothing restores a revoked token.
Revoke(t) ==
  /\ t \notin revoked
  /\ revoked' = revoked \cup {t}
  /\ Change /\ UNCHANGED <<archived, barred>>

\* `principal archive` and `principal unarchive`.
OperatorArchives(p, flag) ==
  /\ flag # (p \in archived)
  /\ SetArchived(p, flag)
  /\ Change /\ UNCHANGED revoked

Tick ==
  /\ now < MaxTime
  /\ now' = now + 1
  /\ answer' = "none"
  /\ UNCHANGED <<door, barred, pc, job, pool, limiter, fails, requests,
                 changes>>

\* The process restarts: in-memory windows are forgotten, requests dropped.
Restart ==
  /\ changes < MaxChanges
  /\ changes' = changes + 1
  /\ pc' = [w \in Workers |-> "idle"]
  /\ job' = [w \in Workers |-> NoJob]
  /\ answer' = "none"
  /\ queue' = <<>> /\ busy' = {}
  /\ events' = [t \in Tokens |-> [k \in Kinds |-> <<>>]]
  /\ fails' = [s \in Sources |-> <<>>]
  /\ admitted' = [t \in Tokens |-> [k \in Kinds |-> <<>>]]
  /\ barred' = {}
  /\ UNCHANGED <<revoked, archived, now, requests>>

\* Every bounded request was made and answered.
Done ==
  /\ requests = MaxRequests /\ \A w \in Workers : pc[w] = "idle"
  /\ UNCHANGED vars

\* What the event loop does for a request once it has its connection.
Serve(w) ==
  \/ LookUpToken(w)
  \/ \E n \in Names : CheckPrincipal(w, n)
  \/ LookUpName(w) \/ CheckRate(w) \/ RunTool(w)
  \/ \E p \in Principals, flag \in BOOLEAN : RunArchive(w, p, flag)

Next ==
  \/ \E w \in Workers :
       \/ \E s \in Sources, b \in Bearers : Arrive(w, s, b)
       \/ Serve(w) \/ Abort(w)
  \/ \E t \in Tokens : Revoke(t)
  \/ \E p \in Principals, flag \in BOOLEAN : OperatorArchives(p, flag)
  \/ Tick \/ Restart \/ Done

Spec == Init /\ [][Next]_vars

\* A request whose connection was granted is served.
FairSpec == Spec /\ \A w \in Workers : WF_vars(Serve(w))

-----------------------------------------------------------------------------
(* Properties.                                                             *)

Stages == {"idle", "token", "principal", "lookup", "limits", "run"}
Answers == {"none", "done", "unauthorized", "banned", "role", "unknown",
            "rate_limited", "refused", "error"}
Buckets == [Tokens -> [Kinds -> Seq(0..MaxTime)]]

\* Every variable has its type; connections are held by requests in flight, at
\* most PoolSize of them, and no request holds one while it waits for another.
TypeOK ==
  /\ revoked \subseteq Tokens /\ archived \subseteq Principals
  /\ now \in 0..MaxTime
  /\ pc \in [Workers -> Stages]
  /\ job \in [Workers -> [source : Sources \cup {"none"},
                          bearer : Bearers \cup {"none"},
                          name : Names \cup {"none"},
                          tool : Tools \cup {NoTool}]]
  /\ barred \subseteq Workers \X {"token", "principal"}
  /\ answer \in Answers
  /\ queue \in Seq(Workers) /\ busy \subseteq Workers
  /\ \A w \in Workers : pc[w] # "idle" => w \in busy \/ Waits(w)
  /\ \A w \in busy : pc[w] # "idle" /\ ~Waits(w)
  /\ Cardinality(busy) <= PoolSize
  /\ events \in Buckets /\ admitted \in Buckets
  /\ fails \in [Sources -> Seq(0..MaxTime)]
  /\ requests \in 0..MaxRequests /\ changes \in 0..MaxChanges

\* How many calls of one kind a token got through in the window ending at t.
AdmittedIn(token, kind, t) ==
  Cardinality({i \in 1..Len(admitted[token][kind]) :
                 admitted[token][kind][i] \in (t - Window + 1)..t})

\* In any window, wherever it starts, a token gets no more calls of a kind than
\* the limit, however its requests interleave (RateLimiter's sliding window).
RateWindow ==
  \A token \in Tokens, kind \in Kinds, t \in 0..now :
    AdmittedIn(token, kind, t) <= IF Limit[kind] < 0 THEN 0 ELSE Limit[kind]

\* Worker w's request is answered a in this step.
Answered(w, a) == pc[w] # "idle" /\ pc'[w] = "idle" /\ answer' = a

\* A request that arrived with a revoked token, or a token of a principal archived
\* from then on, never runs, and a readonly token never runs a write, whatever
\* name the call came under ("no cache window", "an alias is pure sugar").
RunsAuthorized ==
  [][\A w \in Workers : Answered(w, "done") =>
       /\ \A x \in barred : x[1] # w
       /\ Binds[job[w].name] \in WriteTools
            => Role[job[w].bearer] = "readwrite"]_vars

\* The sliding windows are exact, however requests interleave and whatever a
\* restart forgets: no window of the limiter lets more through than the limit, a
\* call is refused only while its window is full, and requests already past
\* is_banned are the only overshoot of the ban (at most Threshold - 1 + |Workers|
\* bad bearers of a source are judged per window).
LimitsExact ==
  [][/\ RateWindow'
     /\ \A w \in Workers : Answered(w, "rate_limited") =>
          LET kind == Kind(job[w].tool)
          IN  AdmittedIn(job[w].bearer, kind, now) >= Limit[kind]
     /\ \A s \in Sources :
          Len(Pruned(fails[s]))' <= Threshold - 1 + Cardinality(Workers)]_vars

\* Every request is answered, with a pool at capacity too: no request waits for
\* a connection that only waiting requests hold.
EveryRequestAnswered ==
  \A w \in Workers : pc[w] # "idle" ~> pc[w] = "idle"
=============================================================================
