---------------------------- MODULE SinkContract ----------------------------
(***************************************************************************)
(* What the engine may rely on when it hands a batch to a sink: an attempt *)
(* puts the whole batch into the table or nothing of it, at most once, and *)
(* perhaps only after the caller has been told that it failed.  A success  *)
(* means the batch is there, unless inserts are fire-and-forget.           *)
(***************************************************************************)
EXTENDS Integers

CONSTANTS
  Workers,     \* the callers of Send
  Batch,       \* rows in a batch
  AckOnCommit  \* a success means committed

VARIABLES
  sending,  \* the workers inside Send
  landed,   \* those whose attempt has been committed
  orphans,  \* attempts that are over and may still be committed
  rows,     \* rows in the table
  acked     \* attempts that ended in success

sinkVars == <<sending, landed, orphans, rows, acked>>

SinkInit == sending = {} /\ landed = {} /\ orphans = 0 /\ rows = 0 /\ acked = 0

Begin(w) ==
  /\ w \notin sending
  /\ sending' = sending \union {w}
  /\ UNCHANGED <<landed, orphans, rows, acked>>

Commit(w) ==
  /\ w \in sending \ landed
  /\ landed' = landed \union {w}
  /\ rows' = rows + Batch
  /\ UNCHANGED <<sending, orphans, acked>>

\* An attempt that has not been committed may leave the server still at work.
End(w) ==
  /\ w \in sending
  /\ sending' = sending \ {w} /\ landed' = landed \ {w}
  /\ orphans' \in IF w \in landed THEN {orphans} ELSE {orphans, orphans + 1}
  /\ UNCHANGED rows

Succeed(w) == (AckOnCommit => w \in landed) /\ End(w) /\ acked' = acked + 1

Fail(w) == End(w) /\ UNCHANGED acked

LateCommit ==
  /\ orphans > 0
  /\ orphans' = orphans - 1
  /\ rows' = rows + Batch
  /\ UNCHANGED <<sending, landed, acked>>

SinkNext == LateCommit \/ \E w \in Workers : Begin(w) \/ Commit(w) \/ Succeed(w) \/ Fail(w)

SinkSpec == SinkInit /\ [][SinkNext]_sinkVars
=============================================================================
