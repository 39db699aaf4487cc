------------------------------- MODULE Config -------------------------------
(***************************************************************************)
(* The configuration of one pod: what Parse of internal/config makes of    *)
(* flags and environment, and what validate lets pass.  The sources of a   *)
(* setting are not told apart: each may come out as any of a few values.   *)
(* Settings that no other part of the life of the process looks at are     *)
(* left out.                                                               *)
(* The operators named Slip_... are mistakes the code could have made.     *)
(***************************************************************************)
EXTENDS Integers, FiniteSets

CONSTANT OTLPPools  \* what cfg.OTLP.Connections may be

ASSUME ConfigAssumption == OTLPPools \subseteq Nat

\* The pieces of a comma-separated list that are not blank; how many there are
\* is all that matters of them.
SplitCSV(list) == Cardinality({i \in DOMAIN list : list[i] # ""})

EndpointLists == {<<"">>, <<"a">>, <<"a", "", "b">>, <<"a", "b">>}

\* wire: protocol, schema and compression are known, and gzip goes over HTTP;
\* target: cfg.OTLP.Endpoint is not empty.  The settings of the other sink
\* stay at their defaults.
Settings(choices) ==
  [sink      : choices.sink,
   mode      : choices.mode,
   wire      : choices.wire,
   endpoints : {SplitCSV(list) : list \in choices.lists},
   target    : choices.target,
   pool      : choices.pool,
   fewest    : 0 .. 1,  \* cfg.Gen.SpansPerTraceMin and Max
   most      : 0 .. 1,
   services  : 0 .. 1]

Parsed ==
  Settings([sink |-> {"clickhouse", "kafka"}, wire |-> BOOLEAN, lists |-> EndpointLists,
            mode |-> {"local", "distributed", "shard-roundrobin", "random"},
            target |-> {TRUE}, pool |-> {4}])
  \union
  Settings([sink |-> {"otlp"}, wire |-> {TRUE}, lists |-> {<<"a">>}, mode |-> {"local"},
            target |-> BOOLEAN, pool |-> OTLPPools])

Slip_Valid(c) ==  \* an empty list of endpoints is not looked for
  /\ c.sink \in {"clickhouse", "otlp"}
  /\ c.sink = "clickhouse" => c.wire /\ c.mode \in {"local", "distributed", "shard-roundrobin"}
  /\ c.sink = "otlp" => c.target
  /\ c.fewest >= 1 /\ c.most >= c.fewest
  /\ c.services >= 1

\* validate looks at the settings of a sink only when that sink is chosen.
Valid(c) ==
  /\ c.sink \in {"clickhouse", "otlp"}
  /\ c.sink = "clickhouse" =>
       /\ c.wire /\ c.endpoints > 0
       /\ c.mode \in {"local", "distributed", "shard-roundrobin"}
  /\ c.sink = "otlp" => c.target
  /\ c.fewest >= 1 /\ c.most >= c.fewest
  /\ c.services >= 1

\* A generator with such a configuration draws from an empty range.
DrawsFromNothing(c) == c.services < 1 \/ c.most < c.fewest
=============================================================================
