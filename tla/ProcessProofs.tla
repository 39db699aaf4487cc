--------------------------- MODULE ProcessProofs ---------------------------
(* What the life cycle of the process guarantees for any number of workers, *)
(* lives and retries, whatever the backend does and whenever signals, kills *)
(* and restarts come.                                                       *)
EXTENDS Process, FiniteSetTheorems, TLAPS

Places == {"parse", "catch", "open", "ping", "start", "run", "close", "over"}

\* What each place of main knows: behind parse the configuration is valid, behind
\* the opening the sink is whole, and only a run uses it.
ProcInv ==
  /\ cfg \in Parsed /\ pc \in Places /\ opened \in Nat
  /\ Alive <=> pc # "over"
  /\ pc = "parse" => opened = 0
  /\ pc \notin {"parse", "over"} => Valid(cfg)
  /\ pc \in {"ping", "start"} => opened = Wanted
  /\ pc = "ping" => cfg.sink # "otlp"
  /\ Alive => closed = {}
  /\ pc # "run" => busy = {}

\* A list has a number of pieces.
LEMMA PiecesCount == \A list \in EndpointLists : SplitCSV(list) \in Nat
<1> SUFFICES ASSUME NEW list \in EndpointLists
             PROVE  SplitCSV(list) \in Nat
  OBVIOUS
<1>1. \E n \in Nat : DOMAIN list = 1 .. n
  <2>1. DOMAIN <<"">> = 1 .. 1 /\ DOMAIN <<"a">> = 1 .. 1
    OBVIOUS
  <2>2. DOMAIN <<"a", "", "b">> = 1 .. 3
    OBVIOUS
  <2>3. DOMAIN <<"a", "b">> = 1 .. 2
    OBVIOUS
  <2>4. \/ list = <<"">> \/ list = <<"a">>
        \/ list = <<"a", "", "b">> \/ list = <<"a", "b">>
    BY DEF EndpointLists
  <2>5. QED
    BY <2>1, <2>2, <2>3, <2>4
<1>2. PICK n \in Nat : DOMAIN list = 1 .. n
  BY <1>1
<1>3. IsFiniteSet(1 .. n)
  BY FS_Interval
<1>4. QED
  BY <1>2, <1>3, FS_Subset, FS_CardinalityType DEF SplitCSV

LEMMA ParsedFacts ==
  ASSUME NEW c \in Parsed
  PROVE  /\ c.endpoints \in Nat /\ c.pool \in Nat
         /\ c.services \in Nat /\ c.fewest \in Nat /\ c.most \in Nat
<1>1. ASSUME NEW choices, c \in Settings(choices),
             choices.lists \subseteq EndpointLists, choices.pool \subseteq Nat
      PROVE  /\ c.endpoints \in Nat /\ c.pool \in Nat
             /\ c.services \in Nat /\ c.fewest \in Nat /\ c.most \in Nat
  <2>1. /\ c.endpoints \in {SplitCSV(list) : list \in choices.lists}
        /\ c.pool \in choices.pool
        /\ c.services \in 0 .. 1 /\ c.fewest \in 0 .. 1 /\ c.most \in 0 .. 1
    BY <1>1 DEF Settings
  <2>2. QED
    BY <1>1, <2>1, PiecesCount
<1>2. {<<"a">>} \subseteq EndpointLists
  BY DEF EndpointLists
<1> DEFINE house == [sink |-> {"clickhouse", "kafka"}, wire |-> BOOLEAN, lists |-> EndpointLists,
                     mode |-> {"local", "distributed", "shard-roundrobin", "random"},
                     target |-> {TRUE}, pool |-> {4}]
           otlp  == [sink |-> {"otlp"}, wire |-> {TRUE}, lists |-> {<<"a">>}, mode |-> {"local"},
                     target |-> BOOLEAN, pool |-> OTLPPools]
<1>3. house.lists \subseteq EndpointLists /\ house.pool \subseteq Nat
  OBVIOUS
<1>4. otlp.lists \subseteq EndpointLists /\ otlp.pool \subseteq Nat
  BY <1>2, ConfigAssumption
<1>5. c \in Settings(house) \/ c \in Settings(otlp)
  BY DEF Parsed
<1> HIDE DEF house, otlp
<1>6. QED
  BY <1>1, <1>3, <1>4, <1>5

\* What validate lets pass makes a sink of at least one connection.
LEMMA SomeConnection == cfg \in Parsed /\ Valid(cfg) => Wanted \in Nat \ {0}
<1> SUFFICES ASSUME cfg \in Parsed, Valid(cfg)
             PROVE  Wanted \in Nat \ {0}
  OBVIOUS
<1>1. CASE cfg.sink = "otlp"
  BY <1>1, ParsedFacts DEF Wanted
<1>2. CASE cfg.sink = "clickhouse"
  BY <1>2, ParsedFacts DEF Wanted, Valid
<1>3. QED
  BY <1>1, <1>2 DEF Valid

LEMMA InitProc == Init => ProcInv
  BY DEF Init, ProcInv, Places, Alive

LEMMA MainProc ==
  ASSUME ProcInv, MainStep
  PROVE  ProcInv'
<1> USE DEF ProcInv, Places, Alive, pod, backend
<1>1. CASE Parse
  BY <1>1 DEF Parse, Fatal, End
<1>2. CASE Catch
  BY <1>2 DEF Catch
<1>3. CASE Open
  BY <1>3 DEF Open
<1>4. CASE OpenFails
  BY <1>4 DEF OpenFails, Fatal, End
<1>5. CASE Opened
  BY <1>5 DEF Opened, Wanted, Sharded
<1>6. CASE Ping
  BY <1>6 DEF Ping, Fatal, End, Wanted, Sharded
<1>7. CASE StartRun
  BY <1>7 DEF StartRun, End
<1>8. CASE RunReturns
  BY <1>8 DEF RunReturns
<1>9. CASE Close
  BY <1>9 DEF Close
<1>10. QED
  BY <1>1, <1>2, <1>3, <1>4, <1>5, <1>6, <1>7, <1>8, <1>9 DEF MainStep

LEMMA NextProc == ProcInv /\ [Next]_vars => ProcInv'
<1> SUFFICES ASSUME ProcInv, [Next]_vars
             PROVE  ProcInv'
  OBVIOUS
<1> USE DEF ProcInv, Places, Alive, pod, backend
<1>1. CASE Signal
  BY <1>1 DEF Signal, Caught, Wanted, Sharded
<1>2. CASE Kill
  BY <1>2 DEF Kill, End
<1>3. CASE Restart
  BY <1>3 DEF Restart
<1>4. CASE BackendChanges
  BY <1>4 DEF BackendChanges, Wanted, Sharded
<1>5. ASSUME NEW i \in 1 .. Wanted, Use(i) \/ Leave(i)
      PROVE  ProcInv'
  BY <1>5 DEF Use, Leave, Wanted, Sharded
<1>6. CASE UNCHANGED vars
  BY <1>6 DEF vars, Wanted, Sharded
<1>7. QED
  BY <1>1, <1>2, <1>3, <1>4, <1>5, <1>6, MainProc DEF Next, Over

LEMMA ProcInvariance == Spec => []ProcInv
  BY InitProc, NextProc, PTL DEF Spec

\* The sink outlives its last use: no worker holds a connection that main's
\* deferred Close, or a failed NewOTLP, has closed.
THEOREM SinkOutlivesItsUse == Spec => []NoUseAfterClose
<1>1. ProcInv => NoUseAfterClose
  BY DEF ProcInv, NoUseAfterClose
<1>2. QED
  BY <1>1, ProcInvariance, PTL
-----------------------------------------------------------------------------
(* The ends of the process.                                                *)

LEMMA InitEnd == Init => NothingLeftOpen /\ AcceptedFits
  BY DEF Init, NothingLeftOpen, AcceptedFits

LEMMA NextEnd ==
  ProcInv /\ NothingLeftOpen /\ AcceptedFits /\ [Next]_vars =>
    NothingLeftOpen' /\ AcceptedFits'
<1> SUFFICES ASSUME ProcInv, NothingLeftOpen, AcceptedFits, [Next]_vars
             PROVE  NothingLeftOpen' /\ AcceptedFits'
  OBVIOUS
<1> USE DEF ProcInv, NothingLeftOpen, AcceptedFits, Alive, Conns, pod, backend
<1>1. CASE Parse
  BY <1>1 DEF Parse, Fatal, End
<1>2. CASE OpenFails
  BY <1>2 DEF OpenFails, Fatal, End
<1>3. CASE Ping
  <2>1. opened # 0
    BY <1>3, SomeConnection DEF Ping
  <2>2. QED
    BY <1>3, <2>1 DEF Ping, Fatal, End
<1>4. CASE StartRun
  <2>1. opened # 0
    BY <1>4, SomeConnection DEF StartRun
  <2>2. ~DrawsFromNothing(cfg)
    BY <1>4, ParsedFacts DEF StartRun, DrawsFromNothing, Valid
  <2>3. QED
    BY <1>4, <2>1, <2>2 DEF StartRun
<1>5. CASE Close
  BY <1>5 DEF Close
<1>6. CASE Catch \/ Open \/ Opened \/ RunReturns \/ BackendChanges \/ UNCHANGED vars
  BY <1>6 DEF Catch, Open, Opened, RunReturns, BackendChanges, vars
<1>7. CASE Signal \/ Kill \/ Restart
  BY <1>7 DEF Signal, Kill, End, Restart
<1>8. ASSUME NEW i \in 1 .. Wanted, Use(i) \/ Leave(i)
      PROVE  NothingLeftOpen' /\ AcceptedFits'
  BY <1>8 DEF Use, Leave
<1>9. QED
  BY <1>1, <1>2, <1>3, <1>4, <1>5, <1>6, <1>7, <1>8 DEF Next, MainStep, Over

\* A process that ends in order has closed what it opened, and so has one whose
\* NewOTLP failed half way.
THEOREM SinkIsClosedWhole == Spec => []NothingLeftOpen
  BY InitEnd, NextEnd, ProcInvariance, PTL DEF Spec

\* No configuration that validate lets pass makes the sink index an empty list or
\* the generator draw from an empty range.
THEOREM AcceptedConfigurationsFit == Spec => []AcceptedFits
  BY InitEnd, NextEnd, ProcInvariance, PTL DEF Spec
-----------------------------------------------------------------------------
(* The ID streams.                                                         *)

BeforeRun == {"parse", "catch", "open", "ping", "start"}

\* Until its run starts a life has not begun any stream.
StreamInv ==
  /\ life \in Nat /\ streams \in [{SeedOf[w] : w \in WorkerIDs} -> Nat]
  /\ \A s \in DOMAIN streams :
       streams[s] <= life /\ (pc \in BeforeRun => streams[s] < life)

\* seedFor gives no two workers of a pod the same seed.
DistinctSeeds == \A v, w \in WorkerIDs : SeedOf[v] = SeedOf[w] => v = w

LEMMA OneWorker ==
  ASSUME DistinctSeeds, NEW w \in WorkerIDs
  PROVE  Cardinality({v \in WorkerIDs : SeedOf[v] = SeedOf[w]}) = 1
<1>1. {v \in WorkerIDs : SeedOf[v] = SeedOf[w]} = {w}
  BY DEF DistinctSeeds
<1>2. QED
  BY <1>1, FS_Singleton

LEMMA InitStreams == Init => StreamInv
  BY DEF Init, StreamInv

LEMMA StartStreams ==
  ASSUME DistinctSeeds, StreamInv, StartRun
  PROVE  StreamInv'
<1>1. pc = "start" /\ pc' \notin BeforeRun /\ life' = life
  BY DEF StartRun, End, BeforeRun, pod
<1>2. CASE ctxDone
  BY <1>1, <1>2 DEF StartRun, StreamInv
<1>3. CASE ~ctxDone
  <2>1. streams' = [s \in DOMAIN streams |->
                     streams[s] + Cardinality({w \in WorkerIDs : SeedOf[w] = s})]
    BY <1>3 DEF StartRun
  <2>2. \A s \in DOMAIN streams : Cardinality({w \in WorkerIDs : SeedOf[w] = s}) = 1
    BY OneWorker DEF StreamInv
  <2>3. streams' = [s \in DOMAIN streams |-> streams[s] + 1]
    BY <2>1, <2>2
  <2>4. \A s \in DOMAIN streams : streams[s] \in Nat /\ streams[s] + 1 <= life
    BY <1>1 DEF StreamInv, BeforeRun
  <2>5. QED
    BY <1>1, <2>3, <2>4 DEF StreamInv
<1>4. QED
  BY <1>2, <1>3

LEMMA NextStreams == DistinctSeeds /\ ProcInv /\ StreamInv /\ [Next]_vars => StreamInv'
<1> SUFFICES ASSUME DistinctSeeds, ProcInv, StreamInv, [Next]_vars
             PROVE  StreamInv'
  OBVIOUS
<1>1. ASSUME life' = life, streams' = streams, pc' \in BeforeRun => pc \in BeforeRun
      PROVE  StreamInv'
  BY <1>1 DEF StreamInv
<1>2. CASE Parse \/ Catch \/ Open \/ OpenFails \/ Opened \/ Ping \/ RunReturns \/ Close
  BY <1>1, <1>2 DEF Parse, Catch, Open, OpenFails, Opened, Ping, RunReturns, Close,
       Fatal, End, pod, BeforeRun
<1>3. CASE Signal \/ Kill \/ BackendChanges \/ UNCHANGED vars
  BY <1>1, <1>3 DEF Signal, Kill, End, BackendChanges, vars, pod, BeforeRun
<1>4. ASSUME NEW i \in 1 .. Wanted, Use(i) \/ Leave(i)
      PROVE  StreamInv'
  BY <1>1, <1>4 DEF Use, Leave, pod
<1>5. CASE Restart
  BY <1>5 DEF Restart, StreamInv
<1>6. QED
  BY <1>2, <1>3, <1>4, <1>5, StartStreams DEF Next, MainStep, Over

\* Where the seeds of the workers differ, no life of the process begins an ID
\* stream twice: a stream is begun again by a restart only.
THEOREM WorkersDrawApart == DistinctSeeds => (Spec => []StreamsApart)
<1> SUFFICES ASSUME DistinctSeeds
             PROVE  Spec => []StreamsApart
  OBVIOUS
<1>1. ProcInv /\ StreamInv /\ [Next]_vars => StreamInv'
  BY NextStreams
<1>2. StreamInv => StreamsApart
  BY DEF StreamInv, StreamsApart
<1>3. QED
  BY <1>1, <1>2, InitStreams, ProcInvariance, PTL DEF Spec
=============================================================================
