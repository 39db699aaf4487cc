------------------------------ MODULE Process ------------------------------
(***************************************************************************)
(* The lives of the process in cmd/spangen: parse, catch signals, open the *)
(* sink with NewClickHouse or NewOTLP, run the engine, close the sink; and *)
(* again, because the Deployment restarts the container in its pod however *)
(* the process has ended.                                                  *)
(* The engine is seen from outside: while it runs its workers use          *)
(* connections of the sink, and it returns when it has been cancelled, or  *)
(* of itself at a cap or a duration, with no worker left (Engine's         *)
(* CancelEndsRun and ReturnSettled).  The backend may come and go.         *)
(* The operators named Slip_... are mistakes the code could have made.     *)
(***************************************************************************)
EXTENDS Config

CONSTANTS
  Workers,   \* how many workers the engine starts
  LateUses,  \* attempts that still begin after a signal: those of workers
             \* past the last look at the context, and their retries
  SeedOf,    \* the seed of each worker, from seedFor (module Seeds)
  MaxLives   \* bound: lives of the process in one pod

WorkerIDs == 0 .. Workers - 1

ASSUME ProcessAssumption ==
  /\ Workers \in Nat \ {0} /\ LateUses \in Nat /\ MaxLives \in Nat \ {0}
  /\ SeedOf \in [WorkerIDs -> Nat]

VARIABLES
  cfg,     \* the configuration: the pod's, the same in every life
  pc,      \* where main is
  up,      \* backend: the endpoints that answer
  table,   \* backend: the table exists
  opened,  \* connections of the sink that have been opened, in order
  closed,  \* those that have been closed
  busy,    \* those a worker is using
  late,    \* attempts begun since the signal
  ctxDone, \* the signal context is cancelled
  exit,    \* how the process ended
  seen,    \* history: what the backend was when the sink was checked
  life,    \* the life of the process
  streams  \* history: how often the ID stream of each seed was begun

vars == <<cfg, pc, up, table, opened, closed, busy, late, ctxDone, exit, seen, life, streams>>

backend == <<up, table>>
pod     == <<cfg, life, streams>>

Sharded == cfg.mode = "shard-roundrobin"

Alive == exit = "none"
All   == 1 .. 2  \* there are at most two endpoints

\* How many connections the sink opens, and the endpoints of the i-th.
Wanted == CASE cfg.sink = "otlp"                -> IF cfg.pool < 1 THEN 1 ELSE cfg.pool
            [] cfg.sink # "otlp" /\ Sharded     -> cfg.endpoints
            [] cfg.sink # "otlp" /\ ~Sharded    -> 1
Behind(i) == CASE cfg.sink = "otlp"             -> {1}
               [] cfg.sink # "otlp" /\ Sharded  -> {i}
               [] cfg.sink # "otlp" /\ ~Sharded -> 1 .. cfg.endpoints

Conns == 1 .. opened

Init ==
  /\ cfg \in Parsed
  /\ up \in SUBSET All /\ table \in BOOLEAN
  /\ pc = "parse" /\ exit = "none" /\ ctxDone = FALSE
  /\ opened = 0 /\ closed = {} /\ busy = {} /\ late = 0
  /\ seen = [up |-> All, table |-> TRUE]
  /\ life = 1 /\ streams = [s \in {SeedOf[w] : w \in WorkerIDs} |-> 0]

\* log.Fatalf or a panic: no deferred call of main runs.
End(how) == exit' = how /\ pc' = "over"
Fatal    == End("failed")

Parse ==
  /\ Alive /\ pc = "parse"
  /\ IF Valid(cfg) THEN pc' = "catch" /\ UNCHANGED exit ELSE Fatal
  /\ UNCHANGED <<pod, backend, opened, closed, busy, late, ctxDone, seen>>

\* From here on a signal cancels the context and does nothing else.
Catch ==
  /\ Alive /\ pc = "catch"
  /\ pc' = "open"
  /\ UNCHANGED <<pod, backend, opened, closed, busy, late, ctxDone, exit, seen>>

Caught == pc \in {"open", "ping", "start", "run", "close"}

Signal ==
  /\ Alive
  /\ IF Caught THEN ctxDone' = TRUE /\ UNCHANGED <<pc, exit>>
               ELSE exit' = "killed" /\ pc' = "over" /\ UNCHANGED ctxDone
  /\ UNCHANGED <<pod, backend, opened, closed, busy, late, seen>>
-----------------------------------------------------------------------------
(* NewClickHouse and NewOTLP.                                              *)

Slip_Open ==  \* <= for < in the loop
  /\ Alive /\ pc = "open" /\ opened <= Wanted
  /\ opened' = opened + 1
  /\ UNCHANGED <<pc, pod, backend, closed, busy, late, ctxDone, exit, seen>>

Open ==
  /\ Alive /\ pc = "open" /\ opened < Wanted
  /\ opened' = opened + 1
  /\ UNCHANGED <<pc, pod, backend, closed, busy, late, ctxDone, exit, seen>>

Slip_OpenFails ==  \* NewOTLP returns without closeConns
  /\ Alive /\ pc = "open" /\ opened < Wanted
  /\ Fatal
  /\ UNCHANGED <<pod, backend, opened, closed, busy, late, ctxDone, seen>>

\* NewOTLP closes what it has opened; NewClickHouse leaves that to the exit.
OpenFails ==
  /\ Alive /\ pc = "open" /\ opened < Wanted
  /\ closed' = IF cfg.sink = "otlp" THEN Conns ELSE closed
  /\ Fatal
  /\ UNCHANGED <<pod, backend, opened, busy, late, ctxDone, seen>>

Opened ==
  /\ Alive /\ pc = "open" /\ opened = Wanted
  /\ pc' = IF cfg.sink = "otlp" THEN "start" ELSE "ping"
  /\ UNCHANGED <<pod, backend, opened, closed, busy, late, ctxDone, exit, seen>>

Slip_Ping ==  \* pings until somebody answers
  /\ Alive /\ pc = "ping"
  /\ seen' = [up |-> up, table |-> table]
  /\ Behind(1) \intersect up # {}
  /\ pc' = "start"
  /\ UNCHANGED <<pod, backend, opened, closed, busy, late, ctxDone, exit>>

\* Ping asks the first connection, and nothing of the table.  With several
\* endpoints behind that connection it is enough that one answers.
Ping ==
  /\ Alive /\ pc = "ping"
  /\ seen' = [up |-> up, table |-> table]
  /\ CASE opened = 0                         -> End("panicked")  \* conns[0]
       [] Behind(1) \intersect up = {}        -> Fatal
       [] Behind(1) \intersect up # {}        -> pc' = "start" /\ UNCHANGED exit
  /\ UNCHANGED <<pod, backend, opened, closed, busy, late, ctxDone>>
-----------------------------------------------------------------------------
(* The engine as main sees it, and the end.                                *)

\* New builds the catalog and Run starts the workers; unless the signal came
\* first, each draws from the beginning of the ID stream of its seed.
StartRun ==
  /\ Alive /\ pc = "start"
  /\ IF ctxDone THEN UNCHANGED streams
     ELSE streams' = [s \in DOMAIN streams |->
                       streams[s] + Cardinality({w \in WorkerIDs : SeedOf[w] = s})]
  /\ IF DrawsFromNothing(cfg) \/ opened = 0
     THEN End("panicked")  \* IntN, or clients[0]
     ELSE pc' = "run" /\ UNCHANGED exit
  /\ UNCHANGED <<cfg, life, backend, opened, closed, busy, late, ctxDone, seen>>

\* A worker's attempt on one of the connections, and its end.
Use(i) ==
  /\ Alive /\ pc = "run" /\ i \in Conns \ busy
  /\ IF ctxDone THEN late < LateUses /\ late' = late + 1 ELSE UNCHANGED late
  /\ busy' = busy \union {i}
  /\ UNCHANGED <<pc, pod, backend, opened, closed, ctxDone, exit, seen>>

Leave(i) ==
  /\ Alive /\ i \in busy
  /\ busy' = busy \ {i}
  /\ UNCHANGED <<pc, pod, backend, opened, closed, late, ctxDone, exit, seen>>

Slip_RunReturns ==  \* Run does not wait for its workers
  /\ Alive /\ pc = "run"
  /\ pc' = "close"
  /\ UNCHANGED <<pod, backend, opened, closed, busy, late, ctxDone, exit, seen>>

\* Cancelled, capped or timed out, Run returns when its workers have.
RunReturns ==
  /\ Alive /\ pc = "run" /\ busy = {}
  /\ pc' = "close"
  /\ UNCHANGED <<pod, backend, opened, closed, busy, late, ctxDone, exit, seen>>

\* The deferred Close closes every connection, whatever errors it meets.
Close ==
  /\ Alive /\ pc = "close"
  /\ closed' = Conns
  /\ exit' = "ok" /\ pc' = "over"
  /\ UNCHANGED <<pod, backend, opened, busy, late, ctxDone, seen>>

\* SIGKILL, or no memory left.
Kill ==
  /\ Alive
  /\ busy' = {} /\ End("killed")
  /\ UNCHANGED <<pod, backend, opened, closed, late, ctxDone, seen>>

\* The restart policy of a Deployment is Always; the host name, and with it
\* the host's hash, is the pod's.
Restart ==
  /\ ~Alive /\ life < MaxLives
  /\ life' = life + 1
  /\ pc' = "parse" /\ exit' = "none" /\ ctxDone' = FALSE
  /\ opened' = 0 /\ closed' = {} /\ busy' = {} /\ late' = 0
  /\ seen' = [up |-> All, table |-> TRUE]
  /\ UNCHANGED <<cfg, backend, streams>>

\* The backend changes at any time.
BackendChanges ==
  /\ up' \in SUBSET All /\ table' \in BOOLEAN
  /\ UNCHANGED <<pc, pod, opened, closed, busy, late, ctxDone, exit, seen>>

Over == ~Alive /\ life = MaxLives /\ UNCHANGED vars

MainStep == Parse \/ Catch \/ Open \/ OpenFails \/ Opened \/ Ping \/ StartRun
              \/ RunReturns \/ Close

Next ==
  \/ MainStep \/ Signal \/ Kill \/ Restart \/ BackendChanges \/ Over
  \/ \E i \in 1 .. Wanted : Use(i) \/ Leave(i)

Spec == Init /\ [][Next]_vars

\* main runs, and an attempt ends within its timeout; Run returns once it has
\* been cancelled and its workers are done (Engine's CancelEndsRun).
Fairness ==
  /\ WF_vars(Parse \/ Catch \/ Open \/ OpenFails \/ Opened \/ Ping \/ StartRun \/ Close)
  /\ WF_vars(ctxDone /\ RunReturns)
  /\ \A i \in All \union UNION {1 .. n : n \in OTLPPools} : WF_vars(i \in Conns /\ Leave(i))

FairSpec == Spec /\ Fairness
-----------------------------------------------------------------------------
\* No worker ever holds a connection that has been closed.
NoUseAfterClose == busy \cap closed = {}

\* A process that ends in order leaves no connection open, nor does one that
\* fails to open an OTLP sink half way.
NothingLeftOpen ==
  /\ exit = "ok" => closed = Conns
  /\ exit = "failed" /\ cfg.sink = "otlp" => closed = Conns

\* (NewClickHouse: "Fail fast if the cluster is unreachable / table is
\* missing.")  The engine only starts with every connection reachable and
\* the table there.
FailsFast ==
  pc = "run" /\ cfg.sink = "clickhouse" =>
    seen.table /\ \A i \in Conns : Behind(i) \cap seen.up # {}

\* No configuration that Parse accepts takes the process down by an index or a
\* draw out of range: what the sink and the generator are built from is there.
AcceptedFits == exit # "panicked"

\* The workers of one life draw their IDs from streams of their own, and a
\* stream is begun again by a restart only.
StreamsApart == \A s \in DOMAIN streams : streams[s] <= life

\* (README: "Each (replica, worker) gets a unique RNG seed", hence "no duplicate
\* IDs".)  No ID stream is ever begun a second time.
IdsNeverRepeat == \A s \in DOMAIN streams : streams[s] <= 1

\* A signal ends the process, whenever it comes.
SignalEnds == ctxDone ~> ~Alive
=============================================================================
