------------------------------- MODULE Engine -------------------------------
(***************************************************************************)
(* The engine of internal/generate: a pool of workers that fill batches of *)
(* spans, wait for the pacer and hand each batch to the sink, until the    *)
(* run context is cancelled by a signal, by the run duration or by the     *)
(* span cap.  One action per step of a worker between two accesses to the  *)
(* state the workers share.  The sink and its backend are external: an     *)
(* attempt may commit on the backend at any time while it is in flight,    *)
(* and the client learns an outcome that need not tell whether it did.     *)
(* The operators named Slip_... are mistakes the code could have made; no  *)
(* behaviour uses them, and a property each would break names them in      *)
(* PROJECT.json.                                                           *)
(***************************************************************************)
EXTENDS Integers, FiniteSets

CONSTANTS
  Workers,      \* the worker goroutines
  Batch,        \* cfg.EffectiveBatchSize(): what FillBatch returns
  MaxSpans,     \* cfg.Gen.MaxSpans, 0 = unlimited
  Paced,        \* cfg.Gen.Rate > 0: there is a limiter
  Timed,        \* cfg.Gen.Duration > 0: a timer cancels the run
  AckOnCommit,  \* a success means committed; FALSE is async_insert without wait
  LateCommits,  \* the backend may commit an attempt the client saw fail
  MaxGenerated  \* bound: no worker starts a new batch from here on

ASSUME EngineAssumption ==
  /\ IsFiniteSet(Workers) /\ Workers # {}
  /\ Batch \in Nat /\ MaxSpans \in Nat /\ MaxGenerated \in Nat
  /\ Paced \in BOOLEAN /\ Timed \in BOOLEAN
  /\ AckOnCommit \in BOOLEAN /\ LateCommits \in BOOLEAN

VARIABLES
  pc,         \* where each worker is in worker() and send()
  total,      \* what the worker's last generated.Add returned
  attempt,    \* number of the send attempt the worker is making
  landed,     \* that attempt has been committed by the backend
  runDone,    \* runCtx is cancelled
  returned,   \* Run has returned
  panicked,   \* a goroutine panicked and took the process down
  generated, sent, errors,                      \* the engine's atomics
  inflight, batchesOK, batchesErr, sendErrors,  \* exported metrics
  abandoned,  \* history: spans a worker returned with, neither sent nor dropped
  rows,       \* backend: spans committed to the table
  orphans     \* backend: finished attempts that may still be committed

workerVars  == <<pc, total, attempt, landed>>
runVars     == <<runDone, returned, panicked>>
countVars   == <<generated, sent, errors, abandoned>>
metricVars  == <<inflight, batchesOK, batchesErr, sendErrors>>
backendVars == <<rows, orphans>>
vars == <<workerVars, runVars, countVars, metricVars, backendVars>>

SendAttempts == 2

\* A worker holds a batch from the end of FillBatch until the batch is settled.
Held    == {"capped", "pace", "waiting", "check", "send", "backoff"}
Labels  == Held \union {"loop", "fill", "exit"}
At(L)   == {w \in Workers : pc[w] \in L}
Holding == At(Held)
Sending == At({"send", "backoff"})
Exited  == At({"exit"})
Landed  == {w \in Workers : landed[w]}

\* The workers one of whose attempts for the current batch has failed.
Retried == {w \in Sending : pc[w] = "backoff" \/ attempt[w] > 1}

\* The workers whose last Add reached the cap.
Crossed == {w \in Workers : MaxSpans > 0 /\ total[w] >= MaxSpans}

Goto(w, label) == pc' = [pc EXCEPT ![w] = label]

Init ==
  /\ pc = [w \in Workers |-> "loop"]
  /\ total = [w \in Workers |-> 0]
  /\ attempt = [w \in Workers |-> 0]
  /\ landed = [w \in Workers |-> FALSE]
  /\ runDone = FALSE /\ returned = FALSE /\ panicked = FALSE
  /\ generated = 0 /\ sent = 0 /\ errors = 0 /\ abandoned = 0
  /\ inflight = 0 /\ batchesOK = 0 /\ batchesErr = 0 /\ sendErrors = 0
  /\ rows = 0 /\ orphans = 0
-----------------------------------------------------------------------------
(* worker(): produce, pace, re-check.                                      *)

LoopTop(w) ==
  /\ pc[w] = "loop"
  /\ \/ runDone /\ Goto(w, "exit")
     \/ ~runDone /\ generated < MaxGenerated /\ Goto(w, "fill")
  /\ UNCHANGED <<total, attempt, landed, runVars, countVars, metricVars, backendVars>>

Fill(w) ==
  /\ pc[w] = "fill"
  /\ generated' = generated + Batch
  /\ total' = [total EXCEPT ![w] = generated']
  /\ Goto(w, IF MaxSpans > 0 /\ generated' >= MaxSpans THEN "capped" ELSE "pace")
  /\ UNCHANGED <<attempt, landed, runVars, sent, errors, abandoned, metricVars, backendVars>>

Slip_CapGoesOn(w) ==  \* the call to cancel is missing
  /\ pc[w] = "capped"
  /\ Goto(w, "pace")
  /\ UNCHANGED <<total, attempt, landed, runVars, countVars, metricVars, backendVars>>

Slip_CapWaits(w) ==  \* leaves it to somebody else to cancel
  /\ pc[w] = "capped" /\ runDone
  /\ Goto(w, "pace")
  /\ UNCHANGED <<total, attempt, landed, runVars, countVars, metricVars, backendVars>>

Cap(w) ==
  /\ pc[w] = "capped"
  /\ runDone' = TRUE
  /\ Goto(w, "pace")
  /\ UNCHANGED <<total, attempt, landed, returned, panicked, countVars, metricVars, backendVars>>

Slip_GiveUpGoesOn(w) ==  \* continue for return
  /\ runDone
  /\ abandoned' = abandoned + Batch
  /\ Goto(w, "loop")
  /\ UNCHANGED <<total, attempt, landed, runVars, generated, sent, errors, metricVars, backendVars>>

\* The worker returns with a batch in its hands.
GiveUp(w) ==
  /\ runDone
  /\ abandoned' = abandoned + Batch
  /\ Goto(w, "exit")
  /\ UNCHANGED <<total, attempt, landed, runVars, generated, sent, errors, metricVars, backendVars>>

\* limiter.WaitN looks at the context before it reserves tokens.
Pace(w) ==
  /\ pc[w] = "pace"
  /\ \/ Paced /\ GiveUp(w)
     \/ /\ Paced => ~runDone
        /\ Goto(w, IF Paced THEN "waiting" ELSE "check")
        /\ UNCHANGED <<total, attempt, landed, runVars, countVars, metricVars, backendVars>>

Slip_WaitDeaf(w) ==  \* a wait the context has ended is begun again
  /\ pc[w] = "waiting"
  /\ Goto(w, IF runDone THEN "waiting" ELSE "check")
  /\ UNCHANGED <<total, attempt, landed, runVars, countVars, metricVars, backendVars>>

\* The tokens come due, or the context does; when both have, either wins.
Wait(w) ==
  /\ pc[w] = "waiting"
  /\ \/ GiveUp(w)
     \/ /\ Goto(w, "check")
        /\ UNCHANGED <<total, attempt, landed, runVars, countVars, metricVars, backendVars>>

Slip_RecheckNot(w) ==  \* straight from the pacer to send
  /\ pc[w] = "check"
  /\ Goto(w, "send")
  /\ inflight' = inflight + 1
  /\ attempt' = [attempt EXCEPT ![w] = 1]
  /\ UNCHANGED <<total, landed, runVars, countVars,
                 batchesOK, batchesErr, sendErrors, backendVars>>

Slip_RecheckNoInc(w) ==  \* Inflight.Inc is missing
  /\ pc[w] = "check"
  /\ \/ GiveUp(w)
     \/ /\ ~runDone
        /\ Goto(w, "send")
        /\ attempt' = [attempt EXCEPT ![w] = 1]
        /\ UNCHANGED <<total, landed, runVars, countVars, metricVars, backendVars>>

Recheck(w) ==
  /\ pc[w] = "check"
  /\ \/ GiveUp(w)
     \/ /\ ~runDone
        /\ Goto(w, "send")
        /\ inflight' = inflight + 1
        /\ attempt' = [attempt EXCEPT ![w] = 1]
        /\ UNCHANGED <<total, landed, runVars, countVars,
                       batchesOK, batchesErr, sendErrors, backendVars>>
-----------------------------------------------------------------------------
(* send(): the attempts, on a context detached from runCtx.                *)

Slip_SendOKEarly(w) ==  \* success before the server has answered
  /\ pc[w] = "send"
  /\ sent' = sent + Batch
  /\ batchesOK' = batchesOK + 1
  /\ inflight' = inflight - 1
  /\ landed' = [landed EXCEPT ![w] = FALSE]
  /\ Goto(w, "loop")
  /\ UNCHANGED <<total, attempt, runVars, generated, errors, abandoned,
                 batchesErr, sendErrors, backendVars>>

\* An insert that does not wait for the asynchronous flush succeeds uncommitted.
SendOK(w) ==
  /\ pc[w] = "send"
  /\ AckOnCommit => landed[w]
  /\ orphans' \in IF landed[w] THEN {orphans} ELSE {orphans, orphans + 1}
  /\ sent' = sent + Batch
  /\ batchesOK' = batchesOK + 1
  /\ inflight' = inflight - 1
  /\ landed' = [landed EXCEPT ![w] = FALSE]
  /\ Goto(w, "loop")
  /\ UNCHANGED <<total, attempt, runVars, generated, errors, abandoned,
                 batchesErr, sendErrors, rows>>

Slip_AttemptCut(w) ==  \* the run context reaches the sink and cuts the insert
  /\ pc[w] = "send"
  /\ landed[w] => LateCommits \/ runDone
  /\ sendErrors' = sendErrors + 1
  /\ landed' = [landed EXCEPT ![w] = FALSE]
  /\ orphans' \in IF LateCommits /\ ~landed[w] THEN {orphans, orphans + 1} ELSE {orphans}
  /\ UNCHANGED <<total, attempt, runDone, returned, generated, sent, abandoned, batchesOK, rows>>

\* The attempt is over for the client.  A timeout leaves the client ignorant
\* of what the backend did with it, or will still do.
AttemptFails(w) ==
  /\ pc[w] = "send"
  /\ landed[w] => LateCommits
  /\ sendErrors' = sendErrors + 1
  /\ landed' = [landed EXCEPT ![w] = FALSE]
  /\ orphans' \in IF LateCommits /\ ~landed[w] THEN {orphans, orphans + 1} ELSE {orphans}
  /\ UNCHANGED <<total, attempt, runDone, returned, generated, sent, abandoned, batchesOK, rows>>

SendRetry(w) ==
  /\ ~runDone /\ attempt[w] < SendAttempts
  /\ AttemptFails(w)
  /\ Goto(w, "backoff")
  /\ UNCHANGED <<panicked, errors, inflight, batchesErr>>

Slip_DropUncounted(w) ==  \* return for break: the drop is not counted
  /\ runDone \/ attempt[w] >= SendAttempts
  /\ AttemptFails(w)
  /\ inflight' = inflight - 1
  /\ Goto(w, "loop")
  /\ UNCHANGED <<errors, batchesErr, panicked>>

Slip_DropLeaks(w) ==  \* Inflight.Dec is not deferred and misses this path
  /\ runDone \/ attempt[w] >= SendAttempts
  /\ AttemptFails(w)
  /\ errors' = errors + Batch
  /\ batchesErr' = batchesErr + 1
  /\ Goto(w, "loop")
  /\ UNCHANGED <<inflight, panicked>>

\* The modulus of the sampled log line is the batch size times 20: the
\* division panics when the batch size is zero.
SendDrop(w) ==
  /\ runDone \/ attempt[w] >= SendAttempts
  /\ AttemptFails(w)
  /\ errors' = errors + Batch
  /\ batchesErr' = batchesErr + 1
  /\ inflight' = inflight - 1
  /\ panicked' = (Batch * 20 = 0)
  /\ Goto(w, "loop")

Slip_BackoffQuits(w) ==  \* a select on the context that returns, not breaks
  /\ pc[w] = "backoff"
  /\ attempt' = [attempt EXCEPT ![w] = @ + 1]
  /\ Goto(w, IF runDone THEN "loop" ELSE "send")
  /\ UNCHANGED <<total, landed, runVars, countVars, metricVars, backendVars>>

\* time.Sleep between the attempts does not watch the context.
Backoff(w) ==
  /\ pc[w] = "backoff"
  /\ attempt' = [attempt EXCEPT ![w] = @ + 1]
  /\ Goto(w, "send")
  /\ UNCHANGED <<total, landed, runVars, countVars, metricVars, backendVars>>
-----------------------------------------------------------------------------
(* The backend, the causes of cancellation, and the end of Run.            *)

Commit(w) ==
  /\ pc[w] = "send" /\ ~landed[w]
  /\ landed' = [landed EXCEPT ![w] = TRUE]
  /\ rows' = rows + Batch
  /\ UNCHANGED <<pc, total, attempt, runVars, countVars, metricVars, orphans>>

LateCommit ==
  /\ orphans > 0
  /\ orphans' = orphans - 1
  /\ rows' = rows + Batch
  /\ UNCHANGED <<workerVars, runVars, countVars, metricVars>>

CancelRun ==
  /\ ~runDone
  /\ runDone' = TRUE
  /\ UNCHANGED <<workerVars, returned, panicked, countVars, metricVars, backendVars>>

Signal == CancelRun

DurationElapses == Timed /\ CancelRun

Slip_RunReturnsEarly ==  \* does not wait for every worker
  /\ ~returned /\ Exited # {}
  /\ returned' = TRUE /\ runDone' = TRUE
  /\ UNCHANGED <<workerVars, panicked, countVars, metricVars, backendVars>>

RunReturns ==
  /\ ~returned /\ Exited = Workers
  /\ returned' = TRUE /\ runDone' = TRUE
  /\ UNCHANGED <<workerVars, panicked, countVars, metricVars, backendVars>>

WorkerStep(w) ==
  \/ LoopTop(w) \/ Fill(w) \/ Cap(w) \/ Pace(w) \/ Wait(w) \/ Recheck(w)
  \/ SendOK(w) \/ SendRetry(w) \/ SendDrop(w) \/ Backoff(w)

\* The process is over: Run has returned, or a panic has killed it.
Over == (returned \/ panicked) /\ UNCHANGED vars

Next ==
  \/ /\ ~panicked
     /\ \/ \E w \in Workers : WorkerStep(w) \/ Commit(w)
        \/ LateCommit \/ Signal \/ DurationElapses \/ RunReturns
  \/ Over

Spec == Init /\ [][Next]_vars

\* Runnable goroutines run, a token bucket refills, every attempt is bounded
\* by the sink's timeout, and the duration timer fires.
Fairness ==
  /\ \A w \in Workers : WF_vars(WorkerStep(w))
  /\ WF_vars(DurationElapses)
  /\ WF_vars(RunReturns)

FairSpec == Spec /\ Fairness
-----------------------------------------------------------------------------
(* Invariants.                                                             *)

\* Every variable stays in its range; a gauge or counter never goes below zero.
TypeOK ==
  /\ pc \in [Workers -> Labels]
  /\ total \in [Workers -> Nat]
  /\ attempt \in [Workers -> 0 .. SendAttempts]
  /\ landed \in [Workers -> BOOLEAN]
  /\ \A w \in Workers : landed[w] => pc[w] = "send"
  /\ runDone \in BOOLEAN /\ returned \in BOOLEAN /\ panicked \in BOOLEAN
  /\ generated \in Nat /\ sent \in Nat /\ errors \in Nat /\ abandoned \in Nat
  /\ inflight \in Nat /\ batchesOK \in Nat /\ batchesErr \in Nat /\ sendErrors \in Nat
  /\ rows \in Nat /\ orphans \in Nat

\* The figures of the final log line add up: every span that was generated is
\* sent, dropped, given up by a worker that returned, or in a worker's hands.
Conserved ==
  generated = sent + errors + abandoned + Batch * Cardinality(Holding)

\* A worker that has reached the cap is on its way out: it cancels the run
\* before it does anything else and never gets to the sink.
CrossedLeave ==
  \A w \in Crossed : \/ pc[w] = "capped"
                     \/ runDone /\ pc[w] \in {"pace", "check", "exit"}

\* The span cap is strict: what is settled with the sink, together with all
\* that may still be, stays below MaxSpans, however the workers interleave.
SentBelowCap ==
  MaxSpans > 0 =>
    sent + errors + Batch * Cardinality(Holding \ Crossed) < MaxSpans

\* Generation overshoots the cap by at most one batch for each worker that
\* saw its own Add reach it, and no worker does so twice.
GeneratedOvershoot ==
  MaxSpans > 0 => generated < MaxSpans + Batch * Cardinality(Crossed)

\* A shutdown costs at most one generated batch per worker.
AbandonBounded == abandoned <= Batch * Cardinality(Exited)

\* The table against the counters.  With acknowledged inserts, every span
\* counted as sent is in the table; always, what the table holds beyond that,
\* now or later, is accounted for by the attempts that failed.
RowsBracketed ==
  /\ AckOnCommit => sent + Batch * Cardinality(Landed) <= rows
  /\ rows + Batch * orphans <= sent + Batch * (sendErrors + Cardinality(Landed))

\* Stopping the run never splits the counters from the table: if only the
\* client could have cut an insert short, the table holds what was counted
\* as sent and nothing else (the reason send() detaches its context).
CancelLosesNothing ==
  AckOnCommit /\ ~LateCommits => rows = sent + Batch * Cardinality(Landed)

\* The exported metrics agree with the engine's counters and with the
\* workers: the gauge counts the workers inside send(), batches are counted
\* with their spans, a dropped batch has cost one to SendAttempts send errors
\* and a delivered one fewer than SendAttempts.
MetricsConsistent ==
  /\ inflight = Cardinality(Sending)
  /\ sent = Batch * batchesOK /\ errors = Batch * batchesErr
  /\ batchesErr + Cardinality(Retried) <= sendErrors
  /\ sendErrors <= SendAttempts * batchesErr
                    + (SendAttempts - 1) * (batchesOK + Cardinality(Retried))

\* Run returns only after every worker has, so nothing is in the sink's hands
\* and the books of the final log line are closed.
ReturnSettled ==
  returned => runDone /\ inflight = 0 /\ generated = sent + errors + abandoned
-----------------------------------------------------------------------------
(* What a step may never do.                                               *)

\* A batch accepted for sending is settled as sent or dropped whatever
\* happens to the run context meanwhile; it is never just given up.
AcceptedIsSettled ==
  [][\A w \in Sending : w \notin Sending' => sent' + errors' = sent + errors + Batch]_vars

\* (comment in send: a failed batch is logged "roughly every ~20 batches'
\* worth".)  Counting a dropped batch never takes the process down.
DropNeverPanics == ~panicked
-----------------------------------------------------------------------------
(* What must happen, under FairSpec.                                       *)

\* Once the run is told to stop, Run returns, whatever the sink answers and
\* wherever its workers wait; and a timed run is told so by its timer.
CancelEndsRun == (runDone ~> returned) /\ (Timed => <>returned)

\* A capped run ends by itself: the workers reach the cap and see it.
CapEndsRun == MaxSpans > 0 /\ Batch > 0 => <>returned

-----------------------------------------------------------------------------
(* The engine keeps the ledger of one run.                                 *)

Ledger == INSTANCE SpanLedger WITH closing <- runDone, closed <- returned

\* Every step of the engine is a step of the ledger, or leaves it alone.
KeepsLedger == Ledger!LedgerSpec
=============================================================================
