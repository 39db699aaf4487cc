----------------------------- MODULE SpanLedger -----------------------------
(***************************************************************************)
(* What one run of the generator owes its operator, whatever the workers,  *)
(* the pacer and the sink do: a book in which every span produced is       *)
(* settled once, as sent, as an error, or as abandoned by the shutdown.    *)
(* The figures are the ones the run logs when it stops (generated, sent,   *)
(* errors).  Spans move in batches of Batch.                               *)
(***************************************************************************)
EXTENDS Integers

CONSTANTS
  Batch,    \* spans in a batch
  MaxSpans  \* span cap of the run, 0 for none

VARIABLES
  generated, sent, errors,  \* the three counters of the run
  abandoned,                \* spans produced and given up by the shutdown
  closing,                  \* the run has been told to stop
  closed                    \* the run is over

ledgerVars == <<generated, sent, errors, abandoned, closing, closed>>

Outstanding == generated - (sent + errors + abandoned)

LedgerInit ==
  /\ generated = 0 /\ sent = 0 /\ errors = 0 /\ abandoned = 0
  /\ closing = FALSE /\ closed = FALSE

\* A batch is produced; producers that have not seen the stop may still do it.
Produce ==
  /\ ~closed
  /\ generated' = generated + Batch
  /\ UNCHANGED <<sent, errors, abandoned, closing, closed>>

\* A batch may be offered to the sink only while the total stays under the cap.
UnderCap == MaxSpans > 0 => sent + errors + Batch < MaxSpans

Deliver ==
  /\ ~closed /\ Outstanding >= Batch /\ UnderCap
  /\ sent' = sent + Batch
  /\ UNCHANGED <<generated, errors, abandoned, closing, closed>>

Fail ==
  /\ ~closed /\ Outstanding >= Batch /\ UnderCap
  /\ errors' = errors + Batch
  /\ UNCHANGED <<generated, sent, abandoned, closing, closed>>

\* Only a shutdown gives a batch up without offering it to the sink.
Abandon ==
  /\ closing /\ ~closed /\ Outstanding >= Batch
  /\ abandoned' = abandoned + Batch
  /\ UNCHANGED <<generated, sent, errors, closing, closed>>

Stop ==
  /\ ~closing
  /\ closing' = TRUE
  /\ UNCHANGED <<generated, sent, errors, abandoned, closed>>

\* The run ends once, when told to, with nothing outstanding.
Close ==
  /\ closing /\ ~closed /\ Outstanding = 0
  /\ closed' = TRUE
  /\ UNCHANGED <<generated, sent, errors, abandoned, closing>>

LedgerNext == Produce \/ Deliver \/ Fail \/ Abandon \/ Stop \/ Close

LedgerSpec == LedgerInit /\ [][LedgerNext]_ledgerVars
=============================================================================
