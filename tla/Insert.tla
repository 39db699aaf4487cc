------------------------------- MODULE Insert -------------------------------
(***************************************************************************)
(* chSink.Send of internal/sink on one of its connections: newBatch, one   *)
(* append per span, then Send or Abort, all under the timeout of the       *)
(* attempt.  A connection of the sink is a pool; the native protocol takes *)
(* from it to prepare and again to send, HTTP (database/sql) holds what it *)
(* took for the whole transaction.  The libraries, the pool and the server *)
(* are external: any of their calls may fail, and the server may not       *)
(* answer.  The rows are known by their number.                            *)
(* The operators named Slip_... are mistakes the code could have made.     *)
(***************************************************************************)
EXTENDS Integers, FiniteSets

CONSTANTS
  Workers,     \* the callers of Send
  Batch,       \* spans in a batch
  MaxOpen,     \* cfg.CH.MaxOpenConns: the size of the pool
  AckOnCommit, \* FALSE is async_insert without wait
  MaxAttempts  \* bound: attempts begun by one worker

ASSUME InsertAssumption ==
  /\ IsFiniteSet(Workers) /\ Batch \in Nat /\ MaxAttempts \in Nat
  /\ MaxOpen \in Nat \ {0}
  /\ AckOnCommit \in BOOLEAN

VARIABLES
  protocol, \* cfg.CH.Protocol
  pc,       \* where each worker is in Send
  expired,  \* the attempts whose context is done
  held,     \* the workers that hold a connection of the pool
  lost,     \* connections of finished attempts the library will take back
  appended, \* rows of each attempt that are in its batch
  begun,    \* attempts each worker has begun
  landed,   \* the workers whose attempt has been committed
  orphans,  \* finished attempts the server may still commit
  rows,     \* rows in the table
  acked     \* attempts that ended in success

attemptVars == <<appended, begun>>
poolVars    == <<held, lost>>
tableVars   == <<landed, orphans, rows>>
vars == <<protocol, pc, expired, poolVars, attemptVars, tableVars, acked>>

Goto(w, label) == pc' = [pc EXCEPT ![w] = label]
Inside == {w \in Workers : pc[w] # "idle"}
Free   == MaxOpen - Cardinality(held) - lost

Init ==
  /\ protocol \in {"native", "http"}
  /\ pc = [w \in Workers |-> "idle"] /\ expired = {}
  /\ held = {} /\ lost = 0
  /\ appended = [w \in Workers |-> 0] /\ begun = [w \in Workers |-> 0]
  /\ landed = {} /\ orphans = 0 /\ rows = 0 /\ acked = 0

\* Send begins: the timeout starts to run, and a batch is asked for.
Start(w) ==
  /\ pc[w] = "idle" /\ begun[w] < MaxAttempts
  /\ begun' = [begun EXCEPT ![w] = @ + 1]
  /\ appended' = [appended EXCEPT ![w] = 0]
  /\ Goto(w, "acquire")
  /\ UNCHANGED <<protocol, expired, poolVars, tableVars, acked>>

Slip_Expire(w) == FALSE  \* no WithTimeout

\* The timeout of the attempt.
Expire(w) ==
  /\ w \in Inside \ expired
  /\ expired' = expired \union {w}
  /\ UNCHANGED <<protocol, pc, poolVars, attemptVars, tableVars, acked>>

Slip_GiveUp(w) ==  \* one timeout for all attempts of a batch
  /\ Goto(w, "idle")
  /\ held' = held \ {w}
  /\ UNCHANGED <<protocol, expired, lost, attemptVars, tableVars, acked>>

\* Send returns an error before the server has got the batch.  When a context
\* is done, database/sql takes the connection back itself, perhaps a bit later.
GiveUp(w) ==
  /\ Goto(w, "idle")
  /\ held' = held \ {w} /\ expired' = expired \ {w}
  /\ lost' \in IF protocol = "http" /\ w \in held \intersect expired
                THEN {lost, lost + 1} ELSE {lost}
  /\ UNCHANGED <<protocol, attemptVars, tableVars, acked>>
-----------------------------------------------------------------------------
(* newBatch: PrepareBatch, or BeginTx and PrepareContext.                  *)

Acquire(w) ==
  /\ pc[w] = "acquire" /\ w \notin expired /\ Free > 0
  /\ held' = held \union {w}
  /\ Goto(w, "prepare")
  /\ UNCHANGED <<protocol, expired, lost, attemptVars, tableVars, acked>>

AcquireFails(w) == pc[w] = "acquire" /\ GiveUp(w)

\* WithReleaseConnection: the native batch goes on without a connection.
Prepare(w) ==
  /\ pc[w] = "prepare" /\ w \notin expired
  /\ held' = IF protocol = "native" THEN held \ {w} ELSE held
  /\ Goto(w, "append")
  /\ UNCHANGED <<protocol, expired, lost, attemptVars, tableVars, acked>>

Slip_PrepareFails(w) ==  \* returns without Rollback
  /\ pc[w] = "prepare"
  /\ Goto(w, "idle") /\ expired' = expired \ {w}
  /\ UNCHANGED <<protocol, poolVars, attemptVars, tableVars, acked>>

\* Rollback, or what PrepareBatch itself does, gives the connection back.
PrepareFails(w) == pc[w] = "prepare" /\ GiveUp(w)
-----------------------------------------------------------------------------
(* The rows.                                                               *)

\* A native row goes into memory, a row over HTTP through the transaction.
AppendSpan(w) ==
  /\ pc[w] = "append" /\ appended[w] < Batch
  /\ protocol = "http" => w \notin expired
  /\ appended' = [appended EXCEPT ![w] = @ + 1]
  /\ UNCHANGED <<protocol, pc, expired, poolVars, begun, tableVars, acked>>

Slip_AppendFails(w) ==  \* breaks out of the loop, and goes on to Send
  /\ pc[w] = "append" /\ appended[w] < Batch
  /\ Goto(w, "flush")
  /\ UNCHANGED <<protocol, expired, poolVars, attemptVars, tableVars, acked>>

\* Abort drops the rows so far.
AppendFails(w) == pc[w] = "append" /\ appended[w] < Batch /\ GiveUp(w)

Appended(w) ==
  /\ pc[w] = "append" /\ appended[w] = Batch
  /\ Goto(w, "flush")
  /\ UNCHANGED <<protocol, expired, poolVars, attemptVars, tableVars, acked>>
-----------------------------------------------------------------------------
(* batch.Send.                                                             *)

\* The native batch takes a connection again; Commit uses the transaction's.
Flush(w) ==
  /\ pc[w] = "flush" /\ w \notin expired
  /\ IF protocol = "native" THEN Free > 0 /\ held' = held \union {w} ELSE UNCHANGED held
  /\ Goto(w, "commit")
  /\ UNCHANGED <<protocol, expired, lost, attemptVars, tableVars, acked>>

\* No connection to be had; or Commit finds its context done.
FlushFails(w) == pc[w] = "flush" /\ (protocol = "http" => w \in expired) /\ GiveUp(w)

\* The server commits a batch as one block.
Commit(w) ==
  /\ pc[w] = "commit" /\ w \notin landed
  /\ landed' = landed \union {w}
  /\ rows' = rows + appended[w]
  /\ UNCHANGED <<protocol, pc, expired, poolVars, attemptVars, orphans, acked>>

\* The attempt is over for the client, for the server perhaps not.
Leave(w) ==
  /\ Goto(w, "idle")
  /\ held' = held \ {w} /\ expired' = expired \ {w}
  /\ landed' = landed \ {w}
  /\ orphans' \in IF w \in landed THEN {orphans} ELSE {orphans, orphans + 1}
  /\ UNCHANGED <<protocol, lost, attemptVars, rows>>

SendOK(w) ==
  /\ pc[w] = "commit" /\ (AckOnCommit => w \in landed)
  /\ Leave(w)
  /\ acked' = acked + 1

SendFails(w) ==
  /\ pc[w] = "commit"
  /\ Leave(w)
  /\ UNCHANGED acked

LateCommit ==
  /\ orphans > 0
  /\ orphans' = orphans - 1
  /\ rows' = rows + Batch
  /\ UNCHANGED <<protocol, pc, expired, poolVars, attemptVars, landed, acked>>

\* database/sql rolls a transaction back when its context is done.
RollBack(w) ==
  /\ protocol = "http" /\ w \in held \intersect expired
  /\ pc[w] \in {"prepare", "append", "flush"}
  /\ held' = held \ {w}
  /\ UNCHANGED <<protocol, pc, expired, lost, attemptVars, tableVars, acked>>

TakeBack ==
  /\ lost > 0
  /\ lost' = lost - 1
  /\ UNCHANGED <<protocol, pc, expired, held, attemptVars, tableVars, acked>>

Rest == Inside = {} /\ (\A w \in Workers : begun[w] = MaxAttempts) /\ UNCHANGED vars

Call(w) ==
  \/ Acquire(w) \/ Prepare(w) \/ AppendSpan(w) \/ Appended(w) \/ Flush(w) \/ SendOK(w)

Error(w) ==
  \/ AcquireFails(w) \/ PrepareFails(w) \/ AppendFails(w) \/ FlushFails(w) \/ SendFails(w)

Next ==
  \/ \E w \in Workers :
       Start(w) \/ Expire(w) \/ Call(w) \/ Error(w) \/ Commit(w) \/ RollBack(w)
  \/ LateCommit \/ TakeBack \/ Rest

Spec == Init /\ [][Next]_vars

\* Rows are appended and finished batches handed on without the server, and
\* every other call returns once its context is done; the server itself may
\* never answer.  The library takes back what it has to.
Fairness ==
  /\ \A w \in Workers :
       /\ WF_vars(Expire(w))
       /\ WF_vars(AppendSpan(w) \/ Appended(w))
       /\ WF_vars(w \in expired /\ Error(w))
  /\ WF_vars(TakeBack)

FairSpec == Spec /\ Fairness
-----------------------------------------------------------------------------
TypeOK ==
  /\ protocol \in {"native", "http"}
  /\ pc \in [Workers -> {"idle", "acquire", "prepare", "append", "flush", "commit"}]
  /\ expired \subseteq Inside /\ held \subseteq Workers /\ landed \subseteq Inside
  /\ lost \in Nat /\ Free \in 0 .. MaxOpen
  /\ appended \in [Workers -> 0 .. Batch] /\ begun \in [Workers -> 0 .. MaxAttempts]
  /\ orphans \in Nat /\ rows \in Nat /\ acked \in Nat

\* Nobody leaves Send with a connection of the pool in his hands, whichever
\* call it was that failed: the next attempt would miss it.
NothingKept == held \subseteq Inside

\* Every attempt comes to an end, with a pool that is too small for the
\* workers and a server that does not answer ("The sink still bounds each
\* attempt with its own send timeout, so this can't hang", says Engine.send).
EverySendReturns == \A w \in Workers : w \in Inside ~> w \notin Inside

Contract == INSTANCE SinkContract WITH sending <- Inside

\* Send keeps the contract of a sink: the whole batch or nothing of it, at most
\* once, and a success only for a batch that is there.
KeepsContract == Contract!SinkSpec
=============================================================================
