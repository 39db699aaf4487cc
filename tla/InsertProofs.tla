---------------------------- MODULE InsertProofs ----------------------------
(* What Insert guarantees for any number of workers, batch size and pool:   *)
(* no attempt leaves with a connection, the pool is never overdrawn, and    *)
(* the contract of a sink is kept.  They rest on where in Send a worker can *)
(* be when it holds a connection and when the server commits.               *)
EXTENDS Insert, FiniteSetTheorems, TLAPS

Labels == {"idle", "acquire", "prepare", "append", "flush", "commit"}

\* Only a batch that has all its rows gets to the server, and what has been
\* committed is in the hands of its worker until Send returns.
SendInv ==
  /\ pc \in [Workers -> Labels]
  /\ appended \in [Workers -> Nat]
  /\ held \subseteq Workers /\ landed \subseteq Workers
  /\ held \subseteq Inside
  /\ \A w \in Workers : pc[w] \in {"flush", "commit"} => appended[w] = Batch
  /\ \A w \in landed : pc[w] = "commit"

LEMMA InitInv == Init => SendInv
  BY DEF Init, SendInv, Inside, Labels

\* The steps of a worker up to the hand-over to the server.
Before(w) ==
  \/ Start(w) \/ Expire(w) \/ Acquire(w) \/ Prepare(w) \/ AppendSpan(w) \/ Appended(w)
  \/ Flush(w) \/ RollBack(w)

\* Its returns from there with an error.
GivesUp(w) == pc[w] # "commit" /\ GiveUp(w)

LEMMA StepCases ==
  ASSUME [Next]_vars
  PROVE  \/ \E w \in Workers :
              Before(w) \/ GivesUp(w) \/ Commit(w) \/ SendOK(w) \/ SendFails(w)
         \/ LateCommit \/ TakeBack \/ UNCHANGED vars
  BY DEF Next, Call, Error, Before, GivesUp, AcquireFails, PrepareFails, AppendFails,
         FlushFails, Rest

LEMMA BeforeInv ==
  ASSUME SendInv, NEW w \in Workers, Before(w)
  PROVE  SendInv'
<1> USE InsertAssumption DEF SendInv, Inside, Labels, Goto
<1>1. CASE Start(w)
  BY <1>1 DEF Start, tableVars, poolVars
<1>2. CASE Expire(w)
  BY <1>2 DEF Expire, tableVars, poolVars, attemptVars
<1>3. CASE Acquire(w)
  BY <1>3 DEF Acquire, tableVars, attemptVars
<1>4. CASE Prepare(w)
  BY <1>4 DEF Prepare, tableVars, attemptVars
<1>5. CASE AppendSpan(w)
  BY <1>5 DEF AppendSpan, tableVars, poolVars
<1>6. CASE Appended(w)
  BY <1>6 DEF Appended, tableVars, poolVars, attemptVars
<1>7. CASE Flush(w)
  BY <1>7 DEF Flush, tableVars, attemptVars
<1>8. CASE RollBack(w)
  BY <1>8 DEF RollBack, tableVars, attemptVars
<1>9. QED
  BY <1>1, <1>2, <1>3, <1>4, <1>5, <1>6, <1>7, <1>8 DEF Before

LEMMA NextInv == SendInv /\ [Next]_vars => SendInv'
<1> SUFFICES ASSUME SendInv, [Next]_vars
             PROVE  SendInv'
  OBVIOUS
<1>1. ASSUME NEW w \in Workers, Before(w)
      PROVE  SendInv'
  BY <1>1, BeforeInv
<1>2. ASSUME NEW w \in Workers, GivesUp(w)
      PROVE  SendInv'
  BY <1>2 DEF GivesUp, GiveUp, Goto, SendInv, Inside, Labels, attemptVars, tableVars
<1>3. ASSUME NEW w \in Workers, Commit(w)
      PROVE  SendInv'
  BY <1>3 DEF Commit, SendInv, Inside, Labels, poolVars, attemptVars
<1>4. ASSUME NEW w \in Workers, SendOK(w) \/ SendFails(w)
      PROVE  SendInv'
  BY <1>4 DEF SendOK, SendFails, Leave, Goto, SendInv, Inside, Labels, attemptVars
<1>5. CASE LateCommit \/ TakeBack
  BY <1>5 DEF LateCommit, TakeBack, SendInv, Inside, poolVars, attemptVars, tableVars
<1>6. CASE UNCHANGED vars
  BY <1>6 DEF vars, SendInv, Inside, poolVars, attemptVars, tableVars
<1>7. QED
  BY <1>1, <1>2, <1>3, <1>4, <1>5, <1>6, StepCases

LEMMA Invariance == Spec => []SendInv
  BY InitInv, NextInv, PTL DEF Spec

\* No attempt that has returned holds a connection of the pool, whichever of
\* its calls failed (the Rollbacks of newBatch and Abort, the deferred cancel).
THEOREM NothingIsKept == Spec => []NothingKept
<1>1. SendInv => NothingKept
  BY DEF SendInv, NothingKept
<1>2. QED
  BY <1>1, Invariance, PTL
-----------------------------------------------------------------------------
(* The pool.                                                               *)

\* The connections in use and those still to be taken back are of the pool.
PoolInv ==
  /\ IsFiniteSet(held) /\ lost \in Nat
  /\ Cardinality(held) + lost <= MaxOpen

\* A connection is lent to one worker at a time, and only while there is one.
LEMMA Lent ==
  ASSUME PoolInv, NEW w \in Workers, Free > 0
  PROVE  /\ IsFiniteSet(held \union {w})
         /\ Cardinality(held \union {w}) + lost <= MaxOpen
<1>1. /\ IsFiniteSet(held \union {w})
      /\ \/ Cardinality(held \union {w}) = Cardinality(held)
         \/ Cardinality(held \union {w}) = Cardinality(held) + 1
  BY FS_AddElement DEF PoolInv
<1>2. Cardinality(held) \in Nat
  BY FS_CardinalityType DEF PoolInv
<1>3. QED
  BY <1>1, <1>2, InsertAssumption DEF PoolInv, Free

\* A connection given back makes room for one the library takes back later.
LEMMA GivenBack ==
  ASSUME PoolInv, NEW w \in Workers
  PROVE  /\ IsFiniteSet(held \ {w})
         /\ Cardinality(held \ {w}) + lost <= MaxOpen
         /\ w \in held => Cardinality(held \ {w}) + (lost + 1) <= MaxOpen
<1>1. /\ IsFiniteSet(held \ {w})
      /\ Cardinality(held \ {w}) = IF w \in held THEN Cardinality(held) - 1
                                     ELSE Cardinality(held)
  BY FS_RemoveElement DEF PoolInv
<1>2. Cardinality(held) \in Nat
  BY FS_CardinalityType DEF PoolInv
<1>3. QED
  BY <1>1, <1>2, InsertAssumption DEF PoolInv

LEMMA InitPool == Init => PoolInv
  BY FS_EmptySet, InsertAssumption DEF Init, PoolInv

LEMMA NextPool == PoolInv /\ [Next]_vars => PoolInv'
<1> SUFFICES ASSUME PoolInv, [Next]_vars
             PROVE  PoolInv'
  OBVIOUS
<1>1. ASSUME NEW w \in Workers,
             held' = held \union {w}, lost' = lost, Free > 0
      PROVE  PoolInv'
  BY <1>1, Lent DEF PoolInv
<1>2. ASSUME NEW w \in Workers,
             held' = held \ {w}, lost' = lost \/ (w \in held /\ lost' = lost + 1)
      PROVE  PoolInv'
  BY <1>2, GivenBack DEF PoolInv
<1>3. ASSUME held' = held, lost' = lost
      PROVE  PoolInv'
  BY <1>3 DEF PoolInv
<1>4. ASSUME NEW w \in Workers, Before(w)
      PROVE  PoolInv'
  <2>1. CASE Acquire(w)
    BY <1>1, <2>1 DEF Acquire
  <2>2. CASE Prepare(w)
    BY <1>2, <1>3, <2>2 DEF Prepare
  <2>3. CASE Flush(w)
    BY <1>1, <1>3, <2>3 DEF Flush
  <2>4. CASE RollBack(w)
    BY <1>2, <2>4 DEF RollBack
  <2>5. CASE Start(w) \/ Expire(w) \/ AppendSpan(w) \/ Appended(w)
    BY <1>3, <2>5 DEF Start, Expire, AppendSpan, Appended, poolVars
  <2>6. QED
    BY <1>4, <2>1, <2>2, <2>3, <2>4, <2>5 DEF Before
<1>5. ASSUME NEW w \in Workers, GivesUp(w)
      PROVE  PoolInv'
  BY <1>2, <1>5 DEF GivesUp, GiveUp
<1>6. ASSUME NEW w \in Workers, Commit(w) \/ SendOK(w) \/ SendFails(w)
      PROVE  PoolInv'
  BY <1>2, <1>3, <1>6 DEF Commit, SendOK, SendFails, Leave, poolVars
<1>7. CASE TakeBack
  <2>1. lost' \in Nat /\ lost' <= lost /\ held' = held
    BY <1>7 DEF TakeBack, PoolInv
  <2>2. Cardinality(held) \in Nat
    BY FS_CardinalityType DEF PoolInv
  <2>3. QED
    BY <2>1, <2>2, InsertAssumption DEF PoolInv
<1>8. CASE LateCommit \/ UNCHANGED vars
  BY <1>3, <1>8 DEF LateCommit, vars, poolVars
<1>9. QED
  BY <1>4, <1>5, <1>6, <1>7, <1>8, StepCases

\* The history and the bounds; with them SendInv and PoolInv give TypeOK.
CountInv ==
  /\ protocol \in {"native", "http"} /\ expired \subseteq Inside
  /\ appended \in [Workers -> 0 .. Batch] /\ begun \in [Workers -> 0 .. MaxAttempts]
  /\ orphans \in Nat /\ rows \in Nat /\ acked \in Nat

LEMMA InitCount == Init => CountInv
  BY InsertAssumption DEF Init, CountInv, Inside

LEMMA NextCount == SendInv /\ CountInv /\ [Next]_vars => CountInv'
<1> SUFFICES ASSUME SendInv, CountInv, [Next]_vars
             PROVE  CountInv'
  OBVIOUS
<1> USE InsertAssumption DEF SendInv, CountInv, Inside, Labels, Goto
<1>1. ASSUME NEW w \in Workers, Start(w) \/ Expire(w) \/ RollBack(w)
      PROVE  CountInv'
  <2>1. CASE Start(w)
    BY <2>1 DEF Start, tableVars
  <2>2. CASE Expire(w) \/ RollBack(w)
    BY <2>2 DEF Expire, RollBack, tableVars, attemptVars
  <2>3. QED
    BY <1>1, <2>1, <2>2
<1>2. ASSUME NEW w \in Workers,
             Acquire(w) \/ Prepare(w) \/ AppendSpan(w) \/ Appended(w) \/ Flush(w)
      PROVE  CountInv'
  <2>1. CASE AppendSpan(w)
    BY <2>1 DEF AppendSpan, tableVars
  <2>2. CASE Acquire(w) \/ Prepare(w) \/ Appended(w) \/ Flush(w)
    BY <2>2 DEF Acquire, Prepare, Appended, Flush, tableVars, attemptVars
  <2>3. QED
    BY <1>2, <2>1, <2>2
<1>3. ASSUME NEW w \in Workers, GivesUp(w)
      PROVE  CountInv'
  BY <1>3 DEF GivesUp, GiveUp, tableVars, attemptVars
<1>4. ASSUME NEW w \in Workers, Commit(w) \/ SendOK(w) \/ SendFails(w)
      PROVE  CountInv'
  <2>1. CASE Commit(w)
    BY <2>1 DEF Commit, attemptVars
  <2>2. CASE SendOK(w) \/ SendFails(w)
    BY <2>2 DEF SendOK, SendFails, Leave, attemptVars
  <2>3. QED
    BY <1>4, <2>1, <2>2
<1>5. CASE LateCommit \/ TakeBack
  BY <1>5 DEF LateCommit, TakeBack, attemptVars, tableVars
<1>6. CASE UNCHANGED vars
  BY <1>6 DEF vars, poolVars, attemptVars, tableVars
<1>7. QED
  BY <1>1, <1>2, <1>3, <1>4, <1>5, <1>6, StepCases DEF Before

\* The pool is never overdrawn: the connections the workers hold and those the
\* library has still to take back are at most MaxOpenConns, whatever fails or
\* times out between newBatch and batch.Send.
THEOREM PoolIsNeverOverdrawn == Spec => []TypeOK
<1>1. SendInv /\ PoolInv /\ CountInv => TypeOK
  <2> SUFFICES ASSUME SendInv, PoolInv, CountInv
               PROVE  TypeOK
    OBVIOUS
  <2>1. Cardinality(held) \in Nat
    BY FS_CardinalityType DEF PoolInv
  <2>2. Free \in 0 .. MaxOpen
    BY <2>1, InsertAssumption DEF PoolInv, Free
  <2>3. landed \subseteq Inside
    BY DEF SendInv, Inside
  <2>4. QED
    BY <2>2, <2>3 DEF TypeOK, SendInv, PoolInv, CountInv, Labels
<1>2. Spec => []PoolInv
  BY InitPool, NextPool, PTL DEF Spec
<1>3. Spec => []CountInv
  BY InitCount, NextCount, Invariance, PTL DEF Spec
<1>4. QED
  BY <1>1, <1>2, <1>3, Invariance, PTL
-----------------------------------------------------------------------------
(* The contract.                                                           *)

LEMMA ContractInit == Init => Contract!SinkInit
  BY DEF Init, Contract!SinkInit, Inside

\* Up to the hand-over nothing happens that the contract knows of, but that an
\* attempt begins or ends in failure.
LEMMA ContractBefore ==
  ASSUME SendInv, NEW w \in Workers, Before(w) \/ GivesUp(w)
  PROVE  \/ Contract!Begin(w) \/ Contract!Fail(w)
         \/ UNCHANGED Contract!sinkVars
<1> USE DEF SendInv, Inside, Labels, Goto, tableVars
<1>1. CASE Start(w)
  <2>1. Inside' = Inside \union {w} /\ w \notin Inside
    BY <1>1 DEF Start
  <2>2. QED
    BY <1>1, <2>1 DEF Start, Contract!Begin
<1>2. CASE GivesUp(w) /\ w \in Inside
  <2>1. Inside' = Inside \ {w}
    BY <1>2 DEF GivesUp, GiveUp
  <2>2. w \notin landed
    BY <1>2 DEF GivesUp
  <2>3. QED
    BY <1>2, <2>1, <2>2 DEF GivesUp, GiveUp, Contract!Fail, Contract!End
<1>3. CASE GivesUp(w) /\ w \notin Inside
  BY <1>3 DEF GivesUp, GiveUp, Contract!sinkVars
<1>4. CASE Expire(w) \/ RollBack(w) \/ AppendSpan(w)
  BY <1>4 DEF Expire, RollBack, AppendSpan, Contract!sinkVars
<1>5. CASE Acquire(w) \/ Prepare(w) \/ Appended(w) \/ Flush(w)
  <2>1. Inside' = Inside
    BY <1>5 DEF Acquire, Prepare, Appended, Flush
  <2>2. QED
    BY <1>5, <2>1 DEF Acquire, Prepare, Appended, Flush, Contract!sinkVars
<1>6. QED
  BY <1>1, <1>2, <1>3, <1>4, <1>5 DEF Before

\* From there on Send and the server do what the contract says.
LEMMA ContractAfter ==
  ASSUME SendInv, NEW w \in Workers, Commit(w) \/ SendOK(w) \/ SendFails(w)
  PROVE  Contract!Commit(w) \/ Contract!Succeed(w) \/ Contract!Fail(w)
<1> USE DEF SendInv, Inside, Labels, Goto
<1>1. CASE Commit(w)
  BY <1>1 DEF Commit, Contract!Commit
<1>2. ASSUME Leave(w), pc[w] = "commit"
      PROVE  Contract!End(w)
  <2>1. Inside' = Inside \ {w}
    BY <1>2 DEF Leave
  <2>2. QED
    BY <1>2, <2>1 DEF Leave, Contract!End
<1>3. CASE SendOK(w)
  BY <1>2, <1>3 DEF SendOK, Contract!Succeed
<1>4. CASE SendFails(w)
  BY <1>2, <1>4 DEF SendFails, Contract!Fail
<1>5. QED
  BY <1>1, <1>3, <1>4

LEMMA ContractStep == SendInv /\ [Next]_vars => [Contract!SinkNext]_(Contract!sinkVars)
<1> SUFFICES ASSUME SendInv, [Next]_vars
             PROVE  [Contract!SinkNext]_(Contract!sinkVars)
  OBVIOUS
<1>1. ASSUME NEW w \in Workers, Before(w) \/ GivesUp(w)
      PROVE  [Contract!SinkNext]_(Contract!sinkVars)
  BY <1>1, ContractBefore DEF Contract!SinkNext
<1>2. ASSUME NEW w \in Workers, Commit(w) \/ SendOK(w) \/ SendFails(w)
      PROVE  Contract!SinkNext
  BY <1>2, ContractAfter DEF Contract!SinkNext
<1>3. CASE LateCommit
  BY <1>3 DEF LateCommit, Contract!SinkNext, Contract!LateCommit, Inside
<1>4. CASE TakeBack \/ UNCHANGED vars
  BY <1>4 DEF TakeBack, vars, tableVars, Inside, Contract!sinkVars
<1>5. QED
  BY <1>1, <1>2, <1>3, <1>4, StepCases

\* Send, over either protocol, implements the contract of a sink.
THEOREM SendKeepsContract == Spec => KeepsContract
<1>1. QED
  BY ContractInit, ContractStep, Invariance, PTL DEF Spec, KeepsContract, Contract!SinkSpec
=============================================================================
