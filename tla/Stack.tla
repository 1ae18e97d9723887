------------------------------- MODULE Stack -------------------------------
(***************************************************************************)
(* The Windows stack (deploy/windows/engraphy_win.py): the bootstrap and   *)
(* upgrade an installer runs, the migrations they apply                    *)
(* (engraphy/admin/migrate.py), the servers the logon task or an operator  *)
(* starts, and `stop`.  What is on disk survives a kill or a power cut at  *)
(* any step; a re-run must take up where the last one ended.               *)
(***************************************************************************)
EXTENDS Integers, FiniteSets

CONSTANTS
  Launches,             \* process ids of `engraphy-win run`, numbers from 1
  FirstBuild, MaxBuild, \* the last migration of the first and the last build laid
  MaxDeaths, MaxStops   \* bounds

ASSUME StackAssumption ==
  /\ Launches \subseteq Nat \ {0} /\ IsFiniteSet(Launches)
  /\ FirstBuild \in Nat \ {0} /\ MaxBuild \in Nat /\ FirstBuild <= MaxBuild
  /\ MaxDeaths \in Nat /\ MaxStops \in Nat

VARIABLES
  disk,     \* [config, cluster, tuned, database, ledger, role, space, pack]:
            \* config and cluster "none", "torn" or "whole", ledger the last
            \* migration applied
  dumps,    \* the ledgers of the dumps taken
  postgres, \* is the cluster up
  build,    \* the last migration the installed files hold
  verb,     \* the bootstrap or upgrade under way: [name, at]
  serving,  \* per launch: "none", "starting", "recorded", "serving"
  pidFile,  \* the recorded launch, 0: none
  stopping, \* has `stop` ended the server and not yet the database
  ready,    \* has a bootstrap completed
  cut,      \* did one end between the space and its pack
  served,   \* the ledgers a server ever served under
  deaths, stops

stackVars == <<disk, dumps, postgres, build, verb, serving, pidFile, stopping,
               ready, cut, served, deaths, stops>>

NoVerb == [name |-> "none", at |-> "none"]

StackInit ==
  /\ disk = [config |-> "none", cluster |-> "none", tuned |-> FALSE, database |-> FALSE,
             ledger |-> 0, role |-> FALSE, space |-> FALSE, pack |-> FALSE]
  /\ dumps = {} /\ postgres = FALSE /\ build = FirstBuild /\ verb = NoVerb
  /\ serving = [p \in Launches |-> "none"] /\ pidFile = 0 /\ stopping = FALSE
  /\ ready = FALSE /\ cut = FALSE /\ served = {} /\ deaths = 0 /\ stops = 0

-----------------------------------------------------------------------------
(* The verbs.                                                              *)

At(step) == verb.at = step
GoTo(step) == verb' = [verb EXCEPT !.at = step]
Makes(field, value) == disk' = [disk EXCEPT ![field] = value]
Elsewhere == UNCHANGED <<dumps, postgres, build, serving, pidFile, stopping, ready,
                         cut, served, deaths, stops>>

\* cmd_bootstrap reads the configuration, or starts to write one.  One torn by
\* a kill is never read again.
BootstrapBegins ==
  /\ verb = NoVerb /\ disk.config # "torn"
  /\ IF disk.config = "whole"
     THEN verb' = [name |-> "bootstrap", at |-> "cluster"] /\ UNCHANGED disk
     ELSE verb' = [name |-> "bootstrap", at |-> "config"] /\ Makes("config", "torn")
  /\ Elsewhere

ConfigWritten == At("config") /\ Makes("config", "whole") /\ GoTo("cluster") /\ Elsewhere

\* initdb, skipped when PG_VERSION is there: it is among its first files.
InitdbBegins ==
  /\ At("cluster") /\ disk.cluster = "none"
  /\ Makes("cluster", "torn") /\ GoTo("initdb") /\ Elsewhere

InitdbSkipped ==
  At("cluster") /\ disk.cluster # "none" /\ GoTo("start") /\ UNCHANGED disk /\ Elsewhere

InitdbDone == At("initdb") /\ Makes("cluster", "whole") /\ GoTo("tune") /\ Elsewhere

Tuned == At("tune") /\ Makes("tuned", TRUE) /\ GoTo("start") /\ Elsewhere

SchemaUpgradeBegins ==
  /\ verb = NoVerb /\ disk.config = "whole"
  /\ verb' = [name |-> "upgrade", at |-> "start"] /\ UNCHANGED disk /\ Elsewhere

\* pg_start and wait_for_pg; a torn cluster, or none, does
\* not start.
PostgresStarts ==
  /\ At("start") /\ disk.cluster = "whole"
  /\ postgres' = TRUE
  /\ GoTo(IF verb.name = "bootstrap" THEN "database" ELSE "dump")
  /\ UNCHANGED <<disk, dumps, build, serving, pidFile, stopping, ready, cut, served,
                 deaths, stops>>

EnsureDatabase ==
  At("database") /\ postgres /\ Makes("database", TRUE) /\ GoTo("dump") /\ Elsewhere

PreDump ==
  /\ At("dump") /\ postgres /\ disk.database
  /\ dumps' = dumps \cup {disk.ledger} /\ GoTo("migrate")
  /\ UNCHANGED <<disk, postgres, build, serving, pidFile, stopping, ready, cut, served,
                 deaths, stops>>

\* One migration, in a transaction with its ledger row.
ApplyMigration ==
  /\ At("migrate") /\ postgres /\ disk.ledger < build
  /\ Makes("ledger", disk.ledger + 1) /\ UNCHANGED verb /\ Elsewhere

\* None is left and the smoke test agrees.
Migrated ==
  /\ At("migrate") /\ postgres /\ disk.ledger = build
  /\ IF verb.name = "bootstrap" THEN GoTo("role") ELSE verb' = NoVerb
  /\ UNCHANGED disk /\ Elsewhere

ProvisionRole == At("role") /\ postgres /\ Makes("role", TRUE) /\ GoTo("space") /\ Elsewhere

\* _ensure_space: space_create is one transaction, pack_apply the next, and a
\* space that is there skips both.
CreateSpace ==
  /\ At("space") /\ postgres /\ ~disk.space
  /\ Makes("space", TRUE) /\ GoTo("pack") /\ Elsewhere

Complete ==
  /\ ready' = TRUE /\ verb' = NoVerb
  /\ UNCHANGED <<dumps, postgres, build, serving, pidFile, stopping, cut, served,
                 deaths, stops>>

SpaceThere == At("space") /\ postgres /\ disk.space /\ UNCHANGED disk /\ Complete
ApplyPack == At("pack") /\ postgres /\ Makes("pack", TRUE) /\ Complete

\* A step raises: the cluster does not start, or it was stopped meanwhile.
VerbFails ==
  /\ \/ At("start") /\ disk.cluster # "whole"
     \/ At("dump") /\ ~disk.database
     \/ verb.at \in {"database", "dump", "migrate", "role", "space", "pack"} /\ ~postgres
  /\ verb' = NoVerb /\ cut' = (cut \/ At("pack"))
  /\ UNCHANGED <<disk, dumps, postgres, build, serving, pidFile, stopping, ready,
                 served, deaths, stops>>

-----------------------------------------------------------------------------
(* The servers.                                                            *)

\* Mutant: the server boots whatever schema it finds.
BootsUngated(p) == postgres /\ disk.role

\* The pool opens as the app role, the schema is the build's, the port free.
Boots(p) ==
  /\ postgres /\ disk.role /\ disk.ledger = build
  /\ \A o \in Launches : serving[o] # "serving"

ServerSame == UNCHANGED <<disk, dumps, build, verb, stopping, ready, cut, stops>>

RunBegins(p) ==
  /\ serving[p] = "none" /\ disk.config = "whole" /\ disk.cluster = "whole"
  /\ postgres' = TRUE /\ serving' = [serving EXCEPT ![p] = "starting"]
  /\ UNCHANGED <<pidFile, served, deaths>> /\ ServerSame

RunRecords(p) ==
  /\ serving[p] = "starting"
  /\ pidFile' = p /\ serving' = [serving EXCEPT ![p] = "recorded"]
  /\ UNCHANGED <<postgres, served, deaths>> /\ ServerSame

RunServes(p) ==
  /\ serving[p] = "recorded" /\ Boots(p)
  /\ serving' = [serving EXCEPT ![p] = "serving"]
  /\ served' = served \cup {disk.ledger}
  /\ UNCHANGED <<postgres, pidFile, deaths>> /\ ServerSame

\* main returned or raised: the pid file, whosever it is, and the cluster go.
RunLeaves(p) ==
  /\ serving[p] = "serving" \/ (serving[p] = "recorded" /\ ~Boots(p))
  /\ deaths < MaxDeaths /\ deaths' = deaths + 1
  /\ serving' = [serving EXCEPT ![p] = "none"] /\ pidFile' = 0 /\ postgres' = FALSE
  /\ UNCHANGED served /\ ServerSame

\* stop: the recorded process is ended if it is still one of ours, then the
\* cluster is stopped.
StopServer ==
  /\ ~stopping /\ stops < MaxStops /\ disk.config = "whole"
  /\ stopping' = TRUE /\ stops' = stops + 1 /\ pidFile' = 0
  /\ serving' = [p \in Launches |-> IF p = pidFile THEN "none" ELSE serving[p]]
  /\ UNCHANGED <<disk, dumps, postgres, build, verb, ready, cut, served, deaths>>

StopPostgres ==
  /\ stopping
  /\ stopping' = FALSE /\ postgres' = FALSE
  /\ UNCHANGED <<disk, dumps, build, verb, serving, pidFile, ready, cut, served,
                 deaths, stops>>

-----------------------------------------------------------------------------
(* The environment.                                                        *)

\* The verb is killed, or the power goes.
VerbDies ==
  /\ verb # NoVerb /\ deaths < MaxDeaths /\ deaths' = deaths + 1
  /\ verb' = NoVerb /\ cut' = (cut \/ At("pack"))
  /\ UNCHANGED <<disk, dumps, postgres, build, serving, pidFile, stopping, ready,
                 served, stops>>

PowerCut ==
  /\ deaths < MaxDeaths /\ deaths' = deaths + 1
  /\ verb' = NoVerb /\ cut' = (cut \/ At("pack"))
  /\ serving' = [p \in Launches |-> "none"] /\ postgres' = FALSE /\ stopping' = FALSE
  /\ UNCHANGED <<disk, dumps, build, pidFile, ready, served, stops>>

\* The installer replaces the files, which no server or verb may hold open.
LayDownBuild ==
  /\ verb = NoVerb /\ build < MaxBuild /\ \A p \in Launches : serving[p] = "none"
  /\ build' = build + 1
  /\ UNCHANGED <<disk, dumps, postgres, verb, serving, pidFile, stopping, ready, cut,
                 served, deaths, stops>>

StackNext ==
  \/ BootstrapBegins \/ ConfigWritten \/ InitdbBegins \/ InitdbSkipped \/ InitdbDone
  \/ Tuned \/ SchemaUpgradeBegins \/ PostgresStarts \/ EnsureDatabase \/ PreDump
  \/ ApplyMigration \/ Migrated \/ ProvisionRole \/ CreateSpace \/ SpaceThere
  \/ ApplyPack \/ VerbFails \/ VerbDies \/ PowerCut \/ LayDownBuild
  \/ StopServer \/ StopPostgres
  \/ \E p \in Launches : RunBegins(p) \/ RunRecords(p) \/ RunServes(p) \/ RunLeaves(p)

StackSpec == StackInit /\ [][StackNext]_stackVars

StackOver == deaths = MaxDeaths

-----------------------------------------------------------------------------
(* Properties.                                                             *)

StackTypeOK ==
  /\ disk.ledger \in 0..build /\ build \in FirstBuild..MaxBuild
  /\ dumps \cup served \subseteq 0..MaxBuild
  /\ serving \in [Launches -> {"none", "starting", "recorded", "serving"}]
  /\ pidFile \in Launches \cup {0} /\ deaths \in 0..MaxDeaths /\ stops \in 0..MaxStops

\* However often a bootstrap was killed and run again: once one completed, the
\* database, its schema, role and space are there, and so is the ontology
\* unless one ended between the space and the pack; no server serves a schema
\* other than its build's; and any schema a server served under is in a dump
\* before a migration leaves it behind (cmd_bootstrap, check_schema_version,
\* migrate.run).
StackReady ==
  /\ ready => /\ disk.cluster = "whole" /\ disk.database /\ disk.role /\ disk.space
              /\ disk.pack \/ cut
              /\ disk.ledger >= FirstBuild
  /\ \A p \in Launches : serving[p] = "serving" => disk.ledger = build
  /\ \A v \in served : v < disk.ledger => v \in dumps

=============================================================================
