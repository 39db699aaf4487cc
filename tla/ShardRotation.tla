--------------------------- MODULE ShardRotation ---------------------------
(* How a sink spreads its attempts over its connections.  Each replica     *)
(* keeps one unsigned counter; pick() adds one to it and takes the         *)
(* connection at the sum modulo the number of connections.  The ClickHouse *)
(* sink in shard-roundrobin mode starts the counter from the replica       *)
(* index, so that replicas do not begin on the same shard; the OTLP sink   *)
(* rotates over its clients the same way, from zero.                       *)
(* The operators named Slip_... are mistakes the code could have made.     *)
EXTENDS Integers, Sequences, FiniteSets

CONSTANTS
  Replicas,  \* the replica indices
  N,         \* connections of a sink: shard endpoints, or OTLP clients
  Width,     \* the counter counts modulo Width (2^64 in the code)
  Offset,    \* the replicas in shard-roundrobin mode, which start the counter
             \* from their index; the others use OTLP
  MaxPicks   \* bound: attempts made by one replica

ASSUME RotationAssumption ==
  /\ Replicas \subseteq Int
  /\ N \in Nat \ {0} /\ Width \in Nat \ {0} /\ N < Width
  /\ Offset \subseteq Replicas /\ MaxPicks \in Nat

VARIABLES
  next,   \* the counter of each replica
  picked  \* history: the connections each replica has picked, in order

vars == <<next, picked>>

Conns == 0 .. N - 1

\* Go's % takes the sign of its left operand; uint64() of a negative wraps.
Rem(a, b)   == IF a >= 0 THEN a % b ELSE -((-a) % b)
Unsigned(a) == a % Width

Slip_StartAt(r) == 0  \* the offset is forgotten

StartAt(r) == IF r \in Offset THEN Unsigned(Rem(r, N)) ELSE 0

Init ==
  /\ next = [r \in Replicas |-> StartAt(r)]
  /\ picked = [r \in Replicas |-> <<>>]

Take(r, c) == picked' = [picked EXCEPT ![r] = Append(@, c)]

Slip_Counted(r) == Unsigned(next[r] + 2)  \* one Add to look, another to pick

\* The next value of a replica's counter; with one connection it stays.
Counted(r) == IF N = 1 THEN next[r] ELSE Unsigned(next[r] + 1)

Slip_Pick(r) ==  \* loads the counter before the Add, or after others'
  /\ Len(picked[r]) < MaxPicks
  /\ next' = [next EXCEPT ![r] = Counted(r)]
  /\ \E i \in {next[r], next'[r]} : Take(r, i % N)

\* The Add is atomic and its result is the worker's own.
Pick(r) ==
  /\ Len(picked[r]) < MaxPicks
  /\ next' = [next EXCEPT ![r] = Counted(r)]
  /\ Take(r, IF N = 1 THEN 0 ELSE next'[r] % N)

Done == (\A r \in Replicas : Len(picked[r]) = MaxPicks) /\ UNCHANGED vars

Next == (\E r \in Replicas : Pick(r)) \/ Done

Spec == Init /\ [][Next]_vars
-----------------------------------------------------------------------------
\* The counter of a replica has passed its maximum and started again from 0.
Wrapped(r) == StartAt(r) + Len(picked[r]) >= Width

\* How many of a replica's attempts went to one connection.
Share(r, c) == Cardinality({i \in DOMAIN picked[r] : picked[r][i] = c})

\* The counter is the number of attempts away from where it started, and every
\* attempt went where the rotation says: no two workers got the same number.
InStep ==
  /\ picked \in [Replicas -> Seq(Conns)]
  /\ next \in [Replicas -> 0 .. Width - 1]
  /\ \A r \in Replicas :
       /\ N > 1 => next[r] = Unsigned(StartAt(r) + Len(picked[r]))
       /\ \A i \in 1 .. Len(picked[r]) : picked[r][i] = Unsigned(StartAt(r) + i) % N

\* A connection is used again only after every other has had its turn, so a
\* retry goes elsewhere unless a whole cycle has passed; until the counter wraps.
CyclesApart ==
  \A r \in Replicas : ~Wrapped(r) =>
    \A i, j \in 1 .. Len(picked[r]) : i < j /\ picked[r][i] = picked[r][j] => j - i >= N

\* The shards of a replica get equal shares of its attempts, to within one, and
\* the first wrap costs the balance at most one more.  A negative replica index
\* starts the counter just below its maximum, so that it wraps at once.
EvenShares ==
  \A r \in Replicas : StartAt(r) + Len(picked[r]) < 2 * Width =>
    \A a, b \in Conns :
      Share(r, a) - Share(r, b) <= IF Wrapped(r) THEN 2 ELSE 1

\* Replicas with consecutive indices begin on different shards: no shard gets
\* more than its share of the first attempts.
FirstPicksSpread ==
  \A c \in Conns :
    Cardinality({r \in Offset : picked[r] # <<>> /\ picked[r][1] = c})
      <= (Cardinality(Offset) + N - 1) \div N
=============================================================================
