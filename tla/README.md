# A verification of spangen

spangen is a load generator: it synthesises OpenTelemetry traces and pushes them,
at a paced rate, into ClickHouse (native or HTTP protocol) or into an
OpenTelemetry collector (OTLP/gRPC). Its output is used to benchmark the ingest
path, so what matters is that its books are right: what it says it sent is what
the table got, the rate is the rate that was asked for, the spans are well-formed
traces, and a run ends when it should, with nothing hanging or lost silently.

This directory models that program in TLA+, checks the models with TLC on small
instances and proves the main results for every instance with TLAPS. Line numbers
are those of the sources in `src/`.

## 1. The system

| part | source | state | operations | talks to |
|---|---|---|---|---|
| process life cycle | `cmd/spangen/main.go` | signal context, sink handle | parse, start metrics, open sink, run, close | everything |
| configuration | `internal/config/config.go` | one `Config`, read-only afterwards | flags and environment, `validate`, `EffectiveBatchSize`, replica index, host id | read by all |
| engine | `internal/generate/engine.go` | `runCtx`, three atomic counters, the limiter | `Run`, `worker`, `send` | generator, limiter, sink, metrics |
| pacer and ramp | `engine.go` (`New`, `ramp`) and `x/time/rate` | token bucket, its limit | `WaitN` by the workers, `SetLimit` by `ramp` | shared by the workers and `ramp` |
| samplers | `engine.go` (`sampleRate`, `logStatus`) | previous sample | read `sent` on a ticker | read the atomics |
| trace generator | `internal/model/generator.go` | RNG, spans per service, last span id | `FillBatch`, `genTrace`, `addChildren`, `emitSpan` | one per worker; reads the catalog |
| catalog | `internal/model/catalog.go` | services and operations, immutable | `BuildCatalog` | read by all generators |
| ClickHouse sink | `internal/sink/clickhouse.go` | connections, `next` counter | `NewClickHouse`, `pick`, `Send`, `Close`; batches over native or `database/sql` | called by all workers at once |
| OTLP sink | `internal/sink/otlp.go` | clients, `next` counter | `NewOTLP`, `Send`, `Close` | called by all workers at once |
| metrics | `internal/metrics/metrics.go` | Prometheus collectors | `New`, `Serve` | written by the workers, `ramp` and samplers |
| deployment | `deploy/`, `Makefile` | none | Helm chart, Dockerfiles, DDL, collector configuration | restarts the container in its pod |

How they interact. `main` starts the metrics server in a goroutine, opens the sink
(which pings one connection) and calls `Run`. `Run` derives `runCtx`, arms a timer
if there is a duration, starts the workers and three helper goroutines, and waits
for the workers only. A worker loops: look at the context; fill a batch; add it to
`generated` and cancel `runCtx` if the sum reaches the cap; wait for as many tokens
as there are spans; look at the context again; send. `send` detaches itself from
the context, so that an insert under way is never cut, and makes up to two
attempts with a 50 ms sleep between them.

What is hard. Workers share three counters, a context, a token bucket and a sink,
and every pair of accesses interleaves. A cancel can come from a signal, the timer
or any worker, at any point. A failed attempt says nothing of what the server did.
The trace generator is a recursion over a shared budget. The rotation counter is
shared, wraps, and starts from an index the environment chooses. A generator keeps a
map into a batch that it has already given away. A row is built by position in one
function and named in another. The container is restarted however it ended.

What makes each part correct:

* engine: every span generated is settled once; the cap is strict; a shutdown
  neither hangs, nor cuts an accepted insert, nor abandons more than a batch per
  worker; the metrics agree with all that;
* pacer: no interval admits more spans than the burst and the rate allow, and the
  ramp only ever raises the rate, up to the target;
* rotation and delivery: shards get equal shares, whatever the interleaving, replicas
  start on different shards, one sick shard costs no batch by itself, and what is
  counted as sent is there whole;
* insert: a batch is committed whole or not at all, and every connection taken
  comes back to the pool;
* generator: a batch has exactly the size asked for, and every span of a trace but
  the root has its parent in the same trace and lies within it;
* catalog and rows: every span becomes one row under its own service, the columns of a
  row tell one story, and a call meets the service it names;
* process and configuration: what `validate` lets pass fits what is built from it, the
  sink is closed after the last use, a signal ends the process, and ID streams are the
  worker's own.

## 2. Modules

| module | models | composed with |
|---|---|---|
| `SpanLedger` | what one run owes: produced spans are settled once | target of `Engine`'s refinement |
| `Engine` | `Run`, `worker`, `send` | instantiates `SpanLedger` |
| `EngineProofs` | theorems about `Engine` | extends `Engine` |
| `EngineTableProofs` | theorems about its table and metrics | extends `EngineProofs` |
| `SinkContract` | what a sink owes the engine | target of `Insert`'s refinement |
| `Insert` | `chSink.Send`, both protocols, the pool | instantiates `SinkContract` |
| `InsertProofs` | theorems about `Insert` | extends `Insert` |
| `ShardRotation` | `pick` and the OTLP client choice | |
| `Delivery` | the two attempts of `Engine.send` over a rotation, with a sick connection | extends `ShardRotation` |
| `DeliveryProofs` | theorems about `ShardRotation` and `Delivery` | extends `Delivery` |
| `Pacer` | token bucket, `WaitN`, `ramp` | |
| `PacerProofs` | theorems about it | extends `Pacer` |
| `TraceTree` | `FillBatch`, `genTrace`, `addChildren` | |
| `TraceTreeProofs` | theorems about it | extends `TraceTree` |
| `Catalog` | `BuildCatalog` | |
| `Rows` | `emitSpan`, the grouping by service, the encoders and INSERT texts | extends `Catalog` |
| `RowsProofs` | theorems about `Catalog` and `Rows` | extends `Rows` |
| `Config` | `Parse`, `validate` as operators | |
| `Seeds` | `seedFor` on words of `Width` values | given to `Process` by `MCProcess` |
| `Process` | `main`, opening and closing of sinks, kills and restarts | extends `Config` |
| `ProcessProofs` | theorems about it | extends `Process` |
| `MC...` | constants for TLC | extends the module it is named after |

Operators named `Slip_...` are mistakes the code could have made (a dropped guard,
a missing reset, an order swapped). No behaviour of a module uses them: the
mutation entries of `PROJECT.json` replace a definition by its slip, and the named
property must then fail. They are the evidence that each property says something.

### Engine

| variable | code |
|---|---|
| `pc`, `total`, `attempt` | a worker's place in `worker()`/`send()`, the result of its last `generated.Add`, its attempt number |
| `generated`, `sent`, `errors` | the atomics of `Engine` |
| `inflight`, `batchesOK`, `batchesErr`, `sendErrors` | the Prometheus collectors the send path writes |
| `runDone`, `returned`, `panicked` | `runCtx` cancelled, `Run` returned, process dead by a panic |
| `landed`, `rows`, `orphans` | the backend: this attempt committed, spans in the table, attempts that may still be committed |
| `abandoned` | history: spans a worker returned with |

A worker goes `loop` (108) → `fill` (112-122) → `capped` (117) → `pace` / `waiting`
(124-128) → `check` (132) → `send` / `backoff` (155-169) → `loop`. A step is what
happens between two accesses to shared state; the counters one exit of `send`
writes move together, because only the final log line and the gauges read them.
`WaitN` appears as "returns at once", "waits" and "gives up on a cancelled
context"; when it may return is `Pacer`'s subject. An attempt is modelled by what
can be known of it: it may be committed while it is in flight, it may fail although
it was, and a failed one may be committed later. `Insert` justifies this view for
ClickHouse. Batches have one size because `FillBatch` returns exactly what it is
asked for (theorem `BatchIsExact`).

### Insert and SinkContract

`Insert` is one call of `chSink.Send` per attempt and worker: `Acquire`/`Prepare`
(`newBatch`), `AppendSpan` per row, `Flush` and the commit (`batch.Send`), each
with its failure (`return`, `Rollback`, `Abort`) and all under the timeout of line
179. The protocol is chosen in `Init`, as `NewClickHouse` chooses it once. The two
differ in when they hold a connection of the pool: native gives it back after
preparing and takes one again to send; HTTP keeps it for the transaction, and `database/sql` takes it back by itself when the context is done,
perhaps after `Send` has returned (`lost`). That a server commits a block whole is
assumed of ClickHouse.

### ShardRotation and Delivery

`next` is the counter of `chSink`/`otlpSink`, `picked` the history of choices. The
start from the replica index keeps Go's sign rule for `%` and the conversion to an
unsigned word, so a negative index starts the counter just below its maximum.
`Width` stands for 2^64. Replicas in `Offset` are ClickHouse sinks in
shard-roundrobin mode, the others OTLP sinks, whose counter starts from zero.

`Delivery` puts `send` on top: a worker's first attempt and its retry each pick a
connection, and the workers of one replica share its counter. One connection may be
sick for good. ClickHouse takes a batch whole or not at all, and a sick one may still
commit what it does not answer for; a collector may take a part, which
`PartialSuccess` reports and `otlpSink.Send` turns into an error. `tries` remembers
which picks a batch went with, `copies` how many of its spans were taken.

### Pacer

Discrete time; `limit` and `tokens` are the limiter's, `due` is when the timer of a
worker's reservation fires. A reservation takes its tokens at once and computes its
wait from the limit in force, which is what `x/time/rate` does and what the engine's
use of it depends on. Timers and the ticker may be late. Fractions of spans are
rounded as if the clock had no finer unit than one tick.

### TraceTree

The recursion of `addChildren` is a stack of frames (parent, service, depth,
iterations left); `remaining` is the budget passed by pointer. Each iteration of its
loop is `Leaf`, `Call` (client and server span, then recursion into the callee) or
`Compute` (an internal operation with children of the same service). Durations are
integers in nanoseconds with the code's rounding: offset below 70 % of the parent,
the cut to the remaining time, server start at 10 % and length 85 % of the client.
`float64` arithmetic is taken as exact.

### Catalog and Rows

`Catalog` has one action per iteration of each loop of `BuildCatalog`. A name is a pair
of a base name and the number of times the list was gone through; operations are their
type, their callee and the name they copied from it.

`Rows` emits the spans of a batch one by one (`Root`, `Child`, `Callee`) over any such
catalog, into the groups of `td` through the map `scopes`, as `scopeFor` does, and then
turns them into rows (`Send`): `rows` has one for each place of a span, that is a group
and a position in it. A row is what the server makes of an Append: the arguments of
`AppendSpanMap` (22) or `AppendSpanJSON` (23), listed in the code's order, each under the
column that has its position in the text of `buildInsertSQL`. Columns swapped in one of the two lists give
rows in which the properties find the wrong story. `NextBatch` gives the next
`ptrace.Traces` a new identity, so that a group of the old one can be told from a group
of the new one. Which spans get which children is `TraceTree`'s subject.

### Config and Process

`Config` has what `Parse` may produce (the values that some other part looks at),
`validate` clause by clause, and how many pieces `splitCSV` finds.

In `Process`, `pc` walks `main`; the backend's endpoints and table come and go in any
step; a signal or a SIGKILL may come in any step; and a container that has ended, in
whichever way, is started again in its pod with the same configuration and host name,
as the restart policy of a Deployment has it. The engine is two facts: workers use
connections while `Run` runs, and `Run` returns only with no worker left
(`ReturnSettled`, `CancelEndsRun` of `Engine`). `streams` counts how often the random
stream of each seed was begun; the seed of a worker is the constant `SeedOf`, to which
`MCProcess` assigns what `Seeds` computes with the code's XOR and multiplication. An index out of range or a draw from nothing ends the
process as "panicked".

## 3. Runs

| run | what it shows | states |
|---|---|---|
| `engine_capped` | 3 workers race to a cap of 6 with batches of 2, on a server that may commit late: accounting, strict cap, metrics against workers, table bracketed by the counters; `Engine` refines `SpanLedger`; accepted batches are settled; a capped run ends by itself | 476 346 |
| `engine_shutdown` | 2 paced workers, no cap, exact server, stopped at any moment by a signal or the timer: the table holds what was counted as sent, one batch abandoned per worker at most, books closed when `Run` returns, and it returns | 44 970 |
| `engine_panic` | finding: a batch size of zero | |
| `insert` | 2 workers, 2 rows, 2 attempts each, a pool of 1, both protocols: `Insert` refines `SinkContract`, no attempt keeps a connection, every `Send` returns | 17 297 |
| `delivery` | 4 workers of 3 replicas (one index negative, one OTLP), 2 connections, one sick, a counter that wraps: no number used twice, full cycles, even shares, spread first picks; what is counted as sent is there whole, and both attempts fail on one shard only if others moved the rotation a full cycle | 933 924 |
| `pacer` | 2 workers wait during a ramp with a late ticker: no interval admits too much, the admitted spans stay under the ramp's line, the debt is owed by waiting workers, the limit only rises and arrives | 125 433 |
| `trace_deep` | chain of 8 services, 14 spans, latest offsets, shortest durations: nesting at full depth | 191 065 |
| `trace_wide` | branching over 3 services, several traces per batch: exact size, spans mirror the calls, `FillBatch` returns | 68 616 |
| `rows` | every catalog of 2 services that share a base name, every batch of 3 spans over it, in both schemas, batch after batch: one row per span, rows that read back, calls that land | 367 310 |
| `process` | two lives, from parse to exit, every configuration of a small set, signals, kills, the backend coming and going | 47 280 |
| `process_failfast` | finding: the ping | |
| `process_restart` | finding: the IDs of a restarted container | |

### Bounds and why they suffice

* `MaxGenerated` stops workers from starting new batches. In the capped runs it is
  at or above the cap plus a batch per worker, the most a run can generate, so it
  cuts nothing off; in the others every worker still gets several batches.
* `engine_capped` has three workers and a cap of three batches, so that all three can
  cross the cap at the same time. It is unpaced and untimed, which lets the workers run
  freely; the waits and the timer are in `engine_shutdown`.
* `SendAttempts` and the depth caps 6 and 3, the floor of 1 µs, the 70/10/85 per cent
  rules are the code's own numbers, not reduced.
* The ramp starts from a quarter instead of a hundredth of the target, so that the
  whole ramp fits into ten ticks; the floor and the line still both occur.
* In `delivery`, `Width` is 10 instead of 2^64; the replica with index -1 starts just
  below it and passes zero at once. Five picks per replica are two full cycles and let
  a retry of one worker fall on either side of another's attempts; the second of two
  workers is what it takes to bring a retry back to the sick shard. The theorems hold
  for every width, number of connections and index.
* `trace_deep` takes one child per call and the shortest durations: that is what
  makes durations vanish. `trace_wide` takes one or three children and a duration
  below and above the floor. The theorems hold for every choice.
* `insert` gives each worker two attempts, so that a retry meets what the first one
  left; the pool of one is smaller than the number of workers, so that they wait for
  each other.
* `rows` takes 2 services and 1 base name, so that the second service is named in a second
  round through the list; 3 spans are a root, a call and its callee. The number of
  batches is not bounded.
* `process` takes 2 endpoints at most, lists with blank pieces among them, 3 workers, and
  seeds of 4 bits with a multiplier that keeps them apart. Two lives are one restart.
* `MaxTime`, `MaxPicks`, `LateUses` end the clock, the picks, and the attempts begun
  after a signal (a worker past its last look at the context, and its retry).
* No run uses symmetry.

### Fairness

* `Engine`: weak fairness of each worker. A goroutine that can run does; a bucket
  refills; an attempt is bounded by the sink's timeout (`EverySendReturns` shows that
  for ClickHouse, `context.WithTimeout` does it for OTLP); the retry sleep ends.
  Nothing is assumed about which outcome an attempt has, and no signal is owed.
  `DurationElapses` is fair because `time.AfterFunc` fires.
* `Insert`: the timeout fires, local steps are taken, and a call whose context is
  done returns with an error. The server is not fair: it may never answer.
* `Pacer`: the clock, the ticker and the timers.
* `TraceTree`: the sequential program goes on, whatever it draws.
* `Process`: `main` goes on, an attempt ends, and `Run` returns once cancelled. A
  `Run` that nobody cancels need not return.

## 4. Proofs

Every invariant and every action property that a passing run checks is stated by a
theorem, and so are the three refinements (`KeepsLedger`, `KeepsContract`, and that the
workers of `Delivery` behave as a `ShardRotation`). The assumptions are those on the
constants, stated with each module (`EngineAssumption`, `InsertAssumption`,
`RotationAssumption`, `DeliveryAssumption`, `PacerAssumption`, `TraceTreeAssumption`,
`CatalogAssumption`, `RowsAssumption`, `ConfigAssumption`, `ProcessAssumption`); they say
what `validate` or the type of a value guarantees, and every one is evaluated by TLC in
the runs of its module. `PacerAssumption` also has the unit of rate fine enough for the
ramp's first hundredth to be one at least. Two theorems have a hypothesis of their own,
`Consecutive` and `DistinctSeeds`, explained below.

**Engine** (`EngineProofs`, any number of workers, any batch size, cap and mode).
`TypeInv` adds to the types that the gauge equals the number of workers inside
`send`, without which `inflight - 1` could leave the naturals. `Conservation`,
`CrossedWorkersLeave`, `Overshoot`, `CapHolds` and `AbandonIsBounded` are each
inductive over it: the lemmas on cardinalities say how `Holding`, `Crossed`,
`Exited` and `Sending` change when one worker moves, and `QuietStep` covers the
steps that touch none of them. `CapHolds` also needs `CrossedLeave` and
`Conserved`: a worker whose Add stayed below the cap bounds the whole sum at that
moment, because everything not crossed was counted then. `EndInv` (workers leave
only a cancelled run, and `Run` returns only after them) gives `ReturnIsSettled`.
`BookInv`, their conjunction, carries every step to a step of `SpanLedger` or to a
stutter: `EngineKeepsLedger`.

**Table and metrics** (`EngineTableProofs`, over `TypeInv`). `Bracket` is `RowsBracketed`
written as a sum of spans, so that a commit, a failure and a success each move both
sides by one batch: `TableIsBracketed`. `Exact` adds that no attempt is left to commit
late: `CancelIsLossless`. `MetricInv` needs `Begun`, that a worker in `send` has counted
its first attempt; otherwise the return from the sleep would not be known to be a retry:
`MetricsAgree`. `AcceptedSettles` is an action property and follows step by step.

**Insert** (`InsertProofs`, any number of workers, rows and connections). `SendInv`
says that a batch on its way to the server has all its rows, that only a worker in
the commit has anything landed, and that connections are held inside `Send` only.
From it `NothingIsKept`, and step by step `SendKeepsContract`. `PoolInv` adds that the
connections held and those `database/sql` has still to take back are `MaxOpenConns` at
most; it is the pool's own waiting that keeps it, so the proof is how each step moves a
connection between the two sets: `PoolIsNeverOverdrawn`.

**Rotation** (`DeliveryProofs`, any width, number of connections and index). `InStep` is
inductive with the arithmetic of `%` written out as lemmas; `RotationCycles` follows,
since two picks of one connection are a multiple of n apart. For `SharesAreEven` the
invariant `ShareInv` says exactly how often a connection was picked: `Upto(x, c)` counts
the numbers 0..x that fall on it, and a share is the difference of two of these, or,
after the wrap, a rest of the first round and the beginning of a second
(`Expected`). Two differences of such floors differ by one at most, and each round adds
one. `FirstPicksAreSpread` maps the pods of one shard, injectively, to their quotients
by n. It has the hypothesis `Consecutive`: the indices are an interval of integers that
begins at -1 or above (a StatefulSet's ordinals begin at 0; the run `delivery` has -1 and
0). Arbitrary indices may all have one remainder, and below -1 the first pick falls
before the wrap of the counter.

**Delivery** (`DeliveryProofs`, any replicas, workers, connections and width).
`BatchInv` says of one worker that its tries are picks of its replica in growing order,
that a first attempt starts from nothing, and that a try which failed on a shard went
to a sick one; other workers only append to the picks (`PickAppends`), which keeps it.
`SentIsWhole` reads it off; `DropsTakeOthers` puts it together with `CyclesApart` and
with there being one sick connection at most: two tries that failed picked the same one.
`WorkersRotate` shows that every step of `Delivery` is a pick or leaves the rotation
alone, which makes the theorems about the rotation theorems about the workers
(`SharesAreEvenInDelivery`).

**Pacer** (`PacerProofs`, any workers, batch, rate, ramp and lateness). The hard part is
that a reservation computes its wait from a limit that changes afterwards. `DebtInv` is
the strengthening of `DebtIsOwed` that is inductive: at *every* moment t to come, what the
limit now in force produces until t pays for all reservations due by t. A new
reservation keeps it by the rounding up of its wait (`Reserved`), and the ramp because
it only rises. That is `LimitInv`: the limit is the floor or lies under the line at the
ramp's last tick; it gives `RampOnlyRises`, of which `RampArrives` is the other half,
too. `BudgetInv` balances what was let through, what waits and what is in the bucket
against what was produced: with `DebtIsAlwaysOwed` it gives `NeverOverBudget`. `AreaInv`
bounds what the ramp has produced by the triangle under its line, in integers, and
`StaysUnderTheLine` combines the two. The proofs have no bound on the clock.

**TraceTree** (`TraceTreeProofs`, any catalog with calls to later services, any
batch, limits, durations and offsets). `BatchInv` ties the spans written to the
budget; it gives `BatchIsExact`. `TreeInv` is why children lie inside their parents:
`ChildDur` cuts a child to the parent's remaining time only if there is some, so a
parent of a call at depth d must be long enough, at least 1000, 255, 65, 17, 5, 1 ns
for d = 1..6 (`MinDur`, lemma `Ladder`). A child begun as late as possible keeps 30 %
of its parent and its server span 85 % of that, about a quarter per level. One level
more would reach zero, and the floor of 1 µs is what the ladder starts from: with a
lower floor or a deeper cap the theorem is false, which the mutant of `MaxDepth` shows.
`MatchInv` is for `CallsAreMatched`: every frame of the stack belongs to a span that may
have children and to its service (`Hosted`), and a client span is followed at once by its
server span (`Followed`), unless the budget ended there (`EndsInCall`).

**Catalog and Rows** (`RowsProofs`, any number of services, base names and spans, both
schemas). `CatInv` says that operations call later services only and that an RPC has the
name its callee really has; the second loop could not copy it if the first had not
finished. `Descends` places every span of the batch under its parent, with its callee's
service. `Grouped` and `Scoped` say that the groups hold every span of this batch once,
under its own service, and that the generator's map names groups of this batch only, each
of the right service; this is where a stale group would break the proof. `SentInv` says
what `rows` is of the groups, so that places and spans are in bijection: `SpansAreRows`.
For `RowsTellOneStory` the lemmas `MapRow` and `JsonRow` compute a row of either schema
column by column from the two lists. `CallsReachTheirService` joins the rows, `Descends`
and `CatInv`; different services have different names (`NamesDiffer`).

**Process** (`ProcessProofs`, any number of workers, lives, seeds and pool sizes).
`ProcInv` says what is known at each place of `main`: the configuration is valid behind
`parse`, the sink is complete behind `open`, nothing is closed while the process is alive,
and only `Run` uses connections. From it `SinkOutlivesItsUse`, `SinkIsClosedWhole` and
`AcceptedConfigurationsFit`. `StreamInv` counts the streams begun against the lives: none
is begun oftener than there were lives. That gives `WorkersDrawApart` and is inductive
only if no two workers share a seed. Its hypothesis `DistinctSeeds` says that workers have
different seeds, as `seedFor` gives them: XOR with one number is injective, and the
multiples of 2654435761 are different below 2^64 for fewer than 2^32 workers. The operator
XOR of the library is recursive and out of the provers' reach, so that this stays an
argument on paper, and a check with four bits in the run `process`.

What stays model-checked only: liveness (`CapEndsRun`, `CancelEndsRun`, `BatchFills`,
`RampArrives`, `SignalEnds`, `EverySendReturns`), because fairness and ENABLED are beyond
these provers; and the three findings, which are counterexamples.

## 5. Where code and words differ

Shown by a run that TLC must find violated:

* `engine_panic`: a batch size of 0 is accepted, and the modulus of the sampled log
  line (engine.go:174, "roughly every ~20 batches' worth") is then zero: the first
  dropped batch panics.
* `process_failfast`: "Fail fast if the cluster is unreachable / table is missing"
  (clickhouse.go:143). One connection is pinged, and a ping asks nothing of the table.
* `process_restart`: "Each (replica, worker) gets a unique RNG seed → no duplicate IDs"
  (README.md:29). A seed depends on the configuration, the host name and the worker's
  number, none of which a restart in the pod changes: the second life emits the trace
  and span IDs of the first one again.

The models follow the code, not the words, in these places too:

* "last batch still sent below" (engine.go:117): the batch whose Add reaches the cap is
  never sent; a capped run sends strictly less than the cap (theorems
  `CrossedWorkersLeave` and `CapHolds`).
* "shutting down; don't retry" (engine.go:165): the context is looked at before the
  50 ms sleep, not after it, so a retry may start on a stopping run (`Backoff`).
* "min spans per trace" (config.go:107) is the lower end of a limit, not a minimum
  (`StartTrace`); "internal compute (leaf)" (catalog.go:194) gets children near the
  root (`Compute`).
* "linearly raises the limiter's rate" (engine.go:178, README.md:140): waits computed at
  the low initial limit are not shortened when it rises, so what is admitted lags
  behind the line (`Reserve`; `UnderTheLine` is therefore an upper bound only).
* "sink and replica become constant labels" (metrics.go:30): only the sink does.
* "so the 10 replicas still differ" (config.go, `detectReplicaIndex`): trailing digits of
  two names, or two hashes modulo 1024, may coincide; the index is a constant here.

## 6. Not modelled

* Values and wording: the pools that attributes, routes and names are drawn from, random
  IDs themselves, latency parameters, the rendering of times and identifiers, log lines,
  Prometheus exposition.
* Where a setting comes from (flag or environment) and the parsing of numbers; the hash
  of the host name and `detectReplicaIndex`, which are constants of the models.
* `sampleRate` and `logStatus`: they read one atomic on a ticker and write a gauge or a
  line that nothing reads back; nothing says what the gauge should show once a run ends.
* The metrics server, whose error is discarded: the restart a failing liveness probe
  leads to is a step of `Process`.
* The tokens the limiter gives back for a cancelled wait (the run is over then).
* The goroutines of the gRPC and ClickHouse clients. Clocks that go backwards.
* Dockerfiles, DDL and collector configuration, and of the chart all but the restarts.

## 7. Plan

No safety property is left without a theorem. What could follow:

1. the safety half of the liveness properties: what decreases with each step until
   `FillBatch` or `Send` returns, stated as action properties and proved;
2. shorter proofs where one lemma about changing one entry of a function would do for
   several, as in `EngineProofs` and `TraceTreeProofs`.
