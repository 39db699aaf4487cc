------------------------------ MODULE Delivery ------------------------------
(***************************************************************************)
(* The two attempts of Engine.send over the connections of its sink, while *)
(* the run goes on (Engine has its end).  The workers of a replica share   *)
(* one rotation, and some connection may be sick.  ClickHouse takes a      *)
(* batch whole or not at all; a collector may take a part of it, which     *)
(* otlpSink.Send reports as an error, so that the whole batch goes again.  *)
(* The operators named Slip_... are mistakes the code could have made.     *)
(***************************************************************************)
EXTENDS ShardRotation

CONSTANTS
  Workers,  \* the workers of all replicas
  Owner,    \* the replica of each
  Batch     \* spans in a batch

ASSUME DeliveryAssumption == Owner \in [Workers -> Replicas] /\ Batch \in Nat \ {0}

VARIABLES
  sick,    \* backend: connections on which every attempt fails
  at,      \* where each worker is in send()
  tries,   \* the attempts for its batch, as positions in its replica's picks
  copies   \* spans the backend has accepted in those attempts, in all

sendVars == <<at, tries, copies>>
deliveryVars == <<vars, sick, sendVars>>

SendAttempts == 2

DeliveryInit ==
  /\ Init
  /\ sick \in {{}} \union {{c} : c \in Conns}
  /\ at = [w \in Workers |-> "fill"]
  /\ tries = [w \in Workers |-> <<>>]
  /\ copies = [w \in Workers |-> 0]

Whole(w)  == Owner[w] \in Offset
Target(w) == picked[Owner[w]][tries[w][Len(tries[w])]]

Slip_Begin(w) ==  \* a retry stays on its connection
  /\ IF tries[w] = <<>> THEN Pick(Owner[w]) ELSE UNCHANGED vars
  /\ tries' = [tries EXCEPT ![w] =
                 Append(@, IF @ = <<>> THEN Len(picked'[Owner[w]]) ELSE @[1])]
  /\ at' = [at EXCEPT ![w] = "sending"]
  /\ UNCHANGED <<sick, copies>>

\* snk.Send picks a connection for every attempt.
Begin(w) ==
  /\ Pick(Owner[w])
  /\ tries' = [tries EXCEPT ![w] = Append(@, Len(picked'[Owner[w]]))]
  /\ at' = [at EXCEPT ![w] = "sending"]
  /\ UNCHANGED <<sick, copies>>

First(w) == at[w] = "fill" /\ Begin(w)

Retry(w) == at[w] = "failed" /\ Len(tries[w]) < SendAttempts /\ Begin(w)

Slip_Verdict(w, taken) == Target(w) \notin sick  \* PartialSuccess is not looked at

\* What Send returns when so many spans were taken.
Verdict(w, taken) == Target(w) \notin sick /\ taken = Batch

\* What the backend may take of an attempt: a sick ClickHouse may time out
\* before or after the commit.
Takes(w) ==
  CASE ~Whole(w)                         -> 0 .. Batch
    [] Whole(w) /\ Target(w) \in sick    -> {0, Batch}
    [] Whole(w) /\ Target(w) \notin sick -> {Batch}

Answer(w) ==
  /\ at[w] = "sending"
  /\ \E taken \in Takes(w) :
       /\ copies' = [copies EXCEPT ![w] = @ + taken]
       /\ at' = [at EXCEPT ![w] = IF Verdict(w, taken) THEN "ok" ELSE "failed"]
  /\ UNCHANGED <<vars, sick, tries>>

\* The batch is counted as sent, or as dropped, and forgotten.
Settle(w) ==
  /\ at' = [at EXCEPT ![w] = "fill"]
  /\ tries' = [tries EXCEPT ![w] = <<>>]
  /\ copies' = [copies EXCEPT ![w] = 0]
  /\ UNCHANGED <<vars, sick>>

Sent(w) == at[w] = "ok" /\ Settle(w)

Dropped(w) == at[w] = "failed" /\ Len(tries[w]) = SendAttempts /\ Settle(w)

\* The bound on the picks ends a behaviour.
Bounded == (\E r \in Replicas : Len(picked[r]) = MaxPicks) /\ UNCHANGED deliveryVars

DeliveryNext ==
  \/ \E w \in Workers : First(w) \/ Answer(w) \/ Retry(w) \/ Sent(w) \/ Dropped(w)
  \/ Bounded

DeliverySpec == DeliveryInit /\ [][DeliveryNext]_deliveryVars
-----------------------------------------------------------------------------
\* A batch counted as sent is there whole: what a collector took of a first
\* attempt and a success together make no batch of a part; and a batch that
\* needed no retry is there once.
SentIsThere ==
  \A w \in Workers : at[w] = "ok" =>
    /\ copies[w] >= Batch
    /\ Len(tries[w]) = 1 => copies[w] = Batch

\* One sick shard costs no batch by itself: when both attempts failed, other
\* workers of the replica have been to every other shard in between.
DropTakesOthers ==
  \A w \in Workers :
    /\ at[w] = "failed" /\ Len(tries[w]) = SendAttempts
    /\ Whole(w) /\ ~Wrapped(Owner[w])
    => tries[w][2] - tries[w][1] >= N
=============================================================================
