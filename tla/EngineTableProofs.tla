------------------------- MODULE EngineTableProofs -------------------------
(* What the table and the exported metrics say of the books, for any       *)
(* number of workers, any batch size and any cap.  Only an attempt, the    *)
(* backend, and the way into send() touch what is counted here; TableCases *)
(* and MetricCases set all other steps aside.                              *)
EXTENDS EngineProofs

USE EngineAssumption

\* The steps that concern neither the table nor the attempts.
LEMMA TableCases ==
  ASSUME [Next]_vars
  PROVE  \/ UNCHANGED <<landed, rows, orphans, sent, sendErrors>>
         \/ \E w \in Workers : SendOK(w) \/ Commit(w) \/ (pc[w] = "send" /\ AttemptFails(w))
         \/ LateCommit
<1>1. ASSUME NEW w \in Workers,
             \/ LoopTop(w) \/ Fill(w) \/ Cap(w) \/ Pace(w) \/ Wait(w)
             \/ Recheck(w) \/ Backoff(w)
      PROVE  UNCHANGED <<landed, rows, orphans, sent, sendErrors>>
  BY <1>1 DEF LoopTop, Fill, Cap, Pace, Wait, Recheck, GiveUp, Backoff,
              countVars, metricVars, backendVars
<1>2. ASSUME CancelRun \/ RunReturns \/ UNCHANGED vars
      PROVE  UNCHANGED <<landed, rows, orphans, sent, sendErrors>>
  BY <1>2 DEF CancelRun, RunReturns, vars, workerVars, countVars, metricVars, backendVars
<1>3. ASSUME NEW w \in Workers, SendRetry(w) \/ SendDrop(w)
      PROVE  pc[w] = "send" /\ AttemptFails(w)
  BY <1>3 DEF SendRetry, SendDrop, AttemptFails
<1>4. QED
  BY <1>1, <1>2, <1>3, StepCases

\* What the changes of landed do to the set of workers it names.
LEMMA LandedClears ==
  ASSUME TypeOK, NEW w \in Workers, landed' = [landed EXCEPT ![w] = FALSE]
  PROVE  /\ ~landed[w] => Landed' = Landed
         /\ landed[w] => /\ Cardinality(Landed) = Cardinality(Landed') + 1
                         /\ Batch * Cardinality(Landed) = Batch * Cardinality(Landed') + Batch
<1>1. Landed' = Landed \ {w} /\ Landed \in SUBSET Workers
  BY DEF TypeOK, Landed
<1>2. CASE landed[w]
  <2>1. w \in Landed
    BY <1>2 DEF Landed
  <2>2. QED
    BY <1>1, <1>2, <2>1, Leaves
<1>3. CASE ~landed[w]
  BY <1>1, <1>3 DEF Landed
<1>4. QED
  BY <1>2, <1>3

LEMMA LandedSets ==
  ASSUME TypeOK, NEW w \in Workers, Commit(w)
  PROVE  /\ Cardinality(Landed') = Cardinality(Landed) + 1
         /\ Batch * Cardinality(Landed') = Batch * Cardinality(Landed) + Batch
<1>1. Landed' = Landed \union {w} /\ Landed \in SUBSET Workers /\ w \notin Landed
  BY DEF TypeOK, Landed, Commit
<1>2. QED
  BY <1>1, Joins

LEMMA LandedCounts ==
  /\ Cardinality(Landed) \in Nat /\ Batch * Cardinality(Landed) \in Nat
  /\ Cardinality(Landed') \in Nat /\ Batch * Cardinality(Landed') \in Nat
<1>1. Landed \in SUBSET Workers /\ Landed' \in SUBSET Workers
  BY DEF Landed
<1>2. QED
  BY <1>1, Countable, SpansOf

\* Counting batches in spans.
LEMMA BatchTimes ==
  /\ \A a \in Nat : Batch * a \in Nat /\ Batch * (a + 1) = Batch * a + Batch
  /\ \A a, b \in Nat : Batch * (a + b) = Batch * a + Batch * b
BY EngineAssumption

\* RowsBracketed, as sums of spans.
Bracket ==
  /\ AckOnCommit => sent + Batch * Cardinality(Landed) <= rows
  /\ rows + Batch * orphans <= sent + Batch * sendErrors + Batch * Cardinality(Landed)

LEMMA BracketIs == TypeOK => (RowsBracketed <=> Bracket)
<1> SUFFICES ASSUME TypeOK PROVE RowsBracketed <=> Bracket
  OBVIOUS
<1>1. Batch * (sendErrors + Cardinality(Landed))
        = Batch * sendErrors + Batch * Cardinality(Landed)
  BY BatchTimes, LandedCounts DEF TypeOK
<1>2. sent \in Nat /\ Batch * sendErrors \in Nat /\ Batch * Cardinality(Landed) \in Nat
  BY BatchTimes, LandedCounts DEF TypeOK
<1>3. QED
  BY <1>1, <1>2 DEF RowsBracketed, Bracket

LEMMA BracketStep ==
  ASSUME TypeOK, TypeOK', Bracket, [Next]_vars
  PROVE  Bracket'
<1>0. PICK c \in Nat, d \in Nat, o \in Nat, p \in Nat, e \in Nat, f \in Nat :
         /\ c = Batch * Cardinality(Landed) /\ d = Batch * Cardinality(Landed')
         /\ o = Batch * orphans /\ p = Batch * orphans'
         /\ e = Batch * sendErrors /\ f = Batch * sendErrors'
  BY LandedCounts, BatchTimes DEF TypeOK
<1>1. sent \in Nat /\ rows \in Nat /\ sent' \in Nat /\ rows' \in Nat /\ Batch \in Nat
  BY DEF TypeOK
<1>2. /\ AckOnCommit => sent + c <= rows
      /\ rows + o <= sent + e + c
  BY <1>0 DEF Bracket
<1> DEFINE Goal == /\ AckOnCommit => sent' + d <= rows'
                   /\ rows' + p <= sent' + f + d
<1>3. Goal => Bracket'
  BY <1>0 DEF Bracket
<1>4. CASE UNCHANGED <<landed, rows, orphans, sent, sendErrors>>
  <2>1. d = c /\ p = o /\ f = e
    BY <1>0, <1>4 DEF Landed
  <2>2. QED
    BY <1>2, <1>3, <1>4, <2>1
<1>5. ASSUME NEW w \in Workers, SendOK(w) PROVE Goal
  <2>1. /\ sent' = sent + Batch /\ rows' = rows /\ sendErrors' = sendErrors
        /\ landed' = [landed EXCEPT ![w] = FALSE]
        /\ orphans' \in IF landed[w] THEN {orphans} ELSE {orphans, orphans + 1}
        /\ AckOnCommit => landed[w]
    BY <1>5 DEF SendOK
  <2>2. f = e
    BY <1>0, <2>1
  <2>3. CASE landed[w]
    <3>1. c = d + Batch /\ p = o
      BY <1>0, <2>1, <2>3, LandedClears
    <3>2. QED
      BY <1>1, <1>2, <2>1, <2>2, <3>1
  <2>4. CASE ~landed[w]
    <3>1. d = c /\ (p = o \/ p = o + Batch) /\ ~AckOnCommit
      BY <1>0, <2>1, <2>4, LandedClears, BatchTimes DEF TypeOK
    <3>2. QED
      BY <1>1, <1>2, <2>1, <2>2, <3>1
  <2>5. QED
    BY <2>3, <2>4
<1>6. ASSUME NEW w \in Workers, AttemptFails(w) PROVE Goal
  <2>1. /\ sent' = sent /\ rows' = rows /\ sendErrors' = sendErrors + 1
        /\ landed' = [landed EXCEPT ![w] = FALSE]
        /\ landed[w] => orphans' = orphans
        /\ orphans' = orphans \/ orphans' = orphans + 1
    BY <1>6 DEF AttemptFails
  <2>2. f = e + Batch
    BY <1>0, <2>1, BatchTimes DEF TypeOK
  <2>3. CASE landed[w]
    <3>1. c = d + Batch /\ p = o
      BY <1>0, <2>1, <2>3, LandedClears
    <3>2. QED
      BY <1>1, <1>2, <2>1, <2>2, <3>1
  <2>4. CASE ~landed[w]
    <3>1. d = c /\ (p = o \/ p = o + Batch)
      BY <1>0, <2>1, <2>4, LandedClears, BatchTimes DEF TypeOK
    <3>2. QED
      BY <1>1, <1>2, <2>1, <2>2, <3>1
  <2>5. QED
    BY <2>3, <2>4
<1>7. ASSUME NEW w \in Workers, Commit(w) PROVE Goal
  <2>1. d = c + Batch
    BY <1>0, <1>7, LandedSets
  <2>2. rows' = rows + Batch /\ sent' = sent /\ p = o /\ f = e
    BY <1>0, <1>7 DEF Commit, countVars, metricVars
  <2>3. QED
    BY <1>1, <1>2, <2>1, <2>2
<1>8. CASE LateCommit
  <2>1. orphans' \in Nat /\ orphans = orphans' + 1
    BY <1>8 DEF LateCommit, TypeOK
  <2>2. o = p + Batch
    BY <1>0, <2>1, BatchTimes
  <2>3. rows' = rows + Batch /\ sent' = sent /\ d = c /\ f = e
    BY <1>0, <1>8 DEF LateCommit, countVars, metricVars, workerVars, Landed
  <2>4. Goal
    BY <1>1, <1>2, <2>2, <2>3
  <2>5. QED
    BY <1>3, <2>4
<1>9. QED
  BY <1>3, <1>4, <1>5, <1>6, <1>7, <1>8, TableCases

LEMMA LandedInit == Init => Landed = {} /\ Sending = {} /\ Retried = {}
BY DEF Init, Landed, Sending, Retried, At

\* The table holds at least what was counted as sent, if inserts are
\* acknowledged, and beyond it no more than the failed attempts account for.
THEOREM TableIsBracketed == Spec => []RowsBracketed
<1>1. Init => Bracket
  <2> SUFFICES ASSUME Init PROVE Bracket
    OBVIOUS
  <2>1. Cardinality(Landed) = 0 /\ Batch * 0 = 0
    BY LandedInit, FS_EmptySet, EngineAssumption
  <2>2. QED
    BY <2>1 DEF Init, Bracket
<1>2. TypeInv /\ TypeInv' /\ Bracket /\ [Next]_vars => Bracket'
  BY BracketStep DEF TypeInv
<1>3. TypeInv /\ Bracket => RowsBracketed
  BY BracketIs DEF TypeInv
<1>4. QED
  BY <1>1, <1>2, <1>3, TypeInit, TypeStep, PTL DEF Spec
-----------------------------------------------------------------------------
\* Where only the client could cut an insert short nothing is left behind.
Exact ==
  AckOnCommit /\ ~LateCommits =>
    orphans = 0 /\ rows = sent + Batch * Cardinality(Landed)

LEMMA ExactStep ==
  ASSUME TypeOK, Exact, [Next]_vars
  PROVE  Exact'
<1> SUFFICES ASSUME AckOnCommit, ~LateCommits
             PROVE  orphans' = 0 /\ rows' = sent' + Batch * Cardinality(Landed')
  BY DEF Exact
<1> DEFINE c == Batch * Cardinality(Landed)
<1>0. c \in Nat /\ c' \in Nat /\ sent \in Nat /\ rows \in Nat /\ Batch \in Nat
  BY LandedCounts DEF TypeOK
<1>00. orphans = 0 /\ rows = sent + c
  BY DEF Exact
<1>1. CASE UNCHANGED <<landed, rows, orphans, sent, sendErrors>>
  BY <1>00, <1>1 DEF Landed
<1>2. ASSUME NEW w \in Workers, SendOK(w) PROVE orphans' = 0 /\ rows' = sent' + c'
  <2>1. /\ sent' = sent + Batch /\ rows' = rows /\ orphans' = orphans
        /\ landed' = [landed EXCEPT ![w] = FALSE] /\ landed[w]
    BY <1>2 DEF SendOK
  <2>2. c = c' + Batch
    BY <2>1, LandedClears
  <2>3. QED
    <3> HIDE DEF c
    <3>1. QED
      BY <1>0, <1>00, <2>1, <2>2
<1>3. ASSUME NEW w \in Workers, AttemptFails(w) PROVE orphans' = 0 /\ rows' = sent' + c'
  <2>1. /\ sent' = sent /\ rows' = rows /\ orphans' = orphans
        /\ landed' = [landed EXCEPT ![w] = FALSE] /\ ~landed[w]
    BY <1>3 DEF AttemptFails
  <2>2. c' = c
    BY <2>1, LandedClears
  <2>3. QED
    BY <1>00, <2>1, <2>2
<1>4. ASSUME NEW w \in Workers, Commit(w) PROVE orphans' = 0 /\ rows' = sent' + c'
  <2>1. rows' = rows + Batch /\ sent' = sent /\ orphans' = orphans
    BY <1>4 DEF Commit, countVars
  <2>2. c' = c + Batch
    BY <1>4, LandedSets
  <2>3. QED
    <3> HIDE DEF c
    <3>1. QED
      BY <1>0, <1>00, <2>1, <2>2
<1>5. ASSUME LateCommit PROVE FALSE
  BY <1>00, <1>5 DEF LateCommit
<1>6. QED
  BY <1>1, <1>2, <1>3, <1>4, <1>5, TableCases

\* Stopping the run never splits the counters from the table: send() works on
\* a detached context, so no cancellation reaches an insert under way.
THEOREM CancelIsLossless == Spec => []CancelLosesNothing
<1>1. Init => Exact
  <2> SUFFICES ASSUME Init PROVE Exact
    OBVIOUS
  <2>1. Cardinality(Landed) = 0 /\ Batch * 0 = 0
    BY LandedInit, FS_EmptySet, EngineAssumption
  <2>2. QED
    BY <2>1 DEF Init, Exact
<1>2. TypeInv /\ Exact /\ [Next]_vars => Exact'
  BY ExactStep DEF TypeInv
<1>3. Exact => CancelLosesNothing
  BY DEF Exact, CancelLosesNothing
<1>4. QED
  BY <1>1, <1>2, <1>3, TypeInit, TypeStep, PTL DEF Spec
-----------------------------------------------------------------------------
(* The metrics against the books.                                          *)

\* The equations and bounds of MetricsConsistent; and a worker in send() has
\* begun an attempt, so that one that comes back from its sleep is a retry.
Begun == \A w \in Sending : attempt[w] >= 1

MetricInv ==
  /\ sent = Batch * batchesOK /\ errors = Batch * batchesErr
  /\ batchesErr + Cardinality(Retried) <= sendErrors
  /\ sendErrors <= 2 * batchesErr + (batchesOK + Cardinality(Retried))

\* The steps that leave all counters alone leave the set of retries alone, too.
LEMMA MetricCases ==
  ASSUME TypeOK, Begun, [Next]_vars
  PROVE  \/ \E w \in Workers : SendOK(w) \/ SendRetry(w) \/ SendDrop(w)
         \/ /\ UNCHANGED <<sent, errors, batchesOK, batchesErr, sendErrors>>
            /\ Retried' = Retried /\ Begun'
<1> USE DEF Retried, Sending, At, Begun
<1> DEFINE Same == /\ UNCHANGED <<sent, errors, batchesOK, batchesErr, sendErrors>>
                   /\ Retried' = Retried /\ Begun'
<1>0. pc \in [Workers -> Labels] /\ attempt \in [Workers -> 0 .. SendAttempts]
  BY DEF TypeOK
<1>1. ASSUME NEW w \in Workers, NEW l \in {"exit", "fill", "capped", "pace", "waiting", "check", "loop"},
             pc[w] \notin {"send", "backoff"}, Goto(w, l), attempt' = attempt
      PROVE  Retried' = Retried /\ Begun'
  BY <1>0, <1>1 DEF Goto
<1>2. ASSUME NEW w \in Workers,
             LoopTop(w) \/ Fill(w) \/ Cap(w) \/ Pace(w) \/ Wait(w) \/ (Recheck(w) /\ GiveUp(w))
      PROVE  Same
  <2>1. /\ UNCHANGED <<sent, errors, batchesOK, batchesErr, sendErrors>> /\ attempt' = attempt
        /\ pc[w] \notin {"send", "backoff"}
        /\ \E l \in {"exit", "fill", "capped", "pace", "waiting", "check", "loop"} : Goto(w, l)
    BY <1>2 DEF LoopTop, Fill, Cap, Pace, Wait, Recheck, GiveUp, countVars, metricVars
  <2>2. QED
    BY <1>1, <2>1
<1>3. ASSUME NEW w \in Workers, Recheck(w), ~GiveUp(w) PROVE Same
  <2>1. /\ pc[w] = "check" /\ pc' = [pc EXCEPT ![w] = "send"]
        /\ attempt' = [attempt EXCEPT ![w] = 1]
        /\ UNCHANGED <<sent, errors, batchesOK, batchesErr, sendErrors>>
    BY <1>3 DEF Recheck, Goto, countVars
  <2>2. QED
    BY <1>0, <2>1
<1>4. ASSUME NEW w \in Workers, Backoff(w) PROVE Same
  <2>1. /\ pc[w] = "backoff" /\ pc' = [pc EXCEPT ![w] = "send"]
        /\ attempt' = [attempt EXCEPT ![w] = attempt[w] + 1]
        /\ UNCHANGED <<sent, errors, batchesOK, batchesErr, sendErrors>>
    BY <1>4 DEF Backoff, Goto, countVars, metricVars
  <2>2. attempt[w] >= 1 /\ attempt[w] \in Int
    BY <1>0, <2>1
  <2>3. QED
    BY <1>0, <2>1, <2>2
<1>5. ASSUME \/ \E w \in Workers : Commit(w)
             \/ LateCommit \/ CancelRun \/ RunReturns \/ UNCHANGED vars
      PROVE  Same
  BY <1>5 DEF Commit, LateCommit, CancelRun, RunReturns, vars,
              workerVars, countVars, metricVars
<1>6. QED
  BY <1>2, <1>3, <1>4, <1>5, StepCases

\* A worker that leaves send() is no retry any more.
LEMMA RetriedLeaves ==
  ASSUME TypeOK, NEW w \in Workers, pc[w] = "send", Goto(w, "loop"), attempt' = attempt
  PROVE  /\ attempt[w] > 1 => Cardinality(Retried) = Cardinality(Retried') + 1
         /\ ~(attempt[w] > 1) => Cardinality(Retried') = Cardinality(Retried)
<1>1. Retried' = Retried \ {w} /\ Retried \in SUBSET Workers
  BY DEF TypeOK, Retried, Sending, At, Goto
<1>2. attempt[w] > 1 <=> w \in Retried
  BY DEF Retried, Sending, At
<1>3. CASE w \in Retried
  BY <1>1, <1>2, <1>3, Leaves
<1>4. CASE w \notin Retried
  BY <1>1, <1>2, <1>4
<1>5. QED
  BY <1>3, <1>4

LEMMA MetricStep ==
  ASSUME TypeOK, TypeOK', Begun, MetricInv, [Next]_vars
  PROVE  MetricInv' /\ Begun'
<1>0. PICK n \in Nat, m \in Nat : n = Cardinality(Retried) /\ m = Cardinality(Retried')
  <2>1. Retried \in SUBSET Workers /\ Retried' \in SUBSET Workers
    BY DEF Retried, Sending, At
  <2>2. QED
    BY <2>1, Countable
<1>1. /\ batchesOK \in Nat /\ batchesErr \in Nat /\ sendErrors \in Nat
      /\ sent \in Nat /\ errors \in Nat /\ Batch \in Nat
  BY DEF TypeOK
<1>2. /\ sent = Batch * batchesOK /\ errors = Batch * batchesErr
      /\ batchesErr + n <= sendErrors /\ sendErrors <= 2 * batchesErr + (batchesOK + n)
  BY <1>0 DEF MetricInv
<1>3. SUFFICES /\ sent' = Batch * batchesOK' /\ errors' = Batch * batchesErr'
               /\ batchesErr' + m <= sendErrors'
               /\ sendErrors' <= 2 * batchesErr' + (batchesOK' + m)
               /\ Begun'
  BY <1>0 DEF MetricInv
<1>4. CASE /\ UNCHANGED <<sent, errors, batchesOK, batchesErr, sendErrors>>
           /\ Retried' = Retried /\ Begun'
  BY <1>0, <1>2, <1>4
<1>5. ASSUME NEW w \in Workers, SendOK(w)
      PROVE  /\ sent' = Batch * batchesOK' /\ errors' = Batch * batchesErr'
             /\ batchesErr' + m <= sendErrors'
             /\ sendErrors' <= 2 * batchesErr' + (batchesOK' + m)
             /\ Begun'
  <2>1. /\ pc[w] = "send" /\ Goto(w, "loop") /\ attempt' = attempt
        /\ sent' = sent + Batch /\ batchesOK' = batchesOK + 1
        /\ errors' = errors /\ batchesErr' = batchesErr /\ sendErrors' = sendErrors
    BY <1>5 DEF SendOK
  <2>2. n = m + 1 \/ m = n
    BY <1>0, <2>1, RetriedLeaves
  <2>3. sent' = Batch * batchesOK' /\ errors' = Batch * batchesErr'
    BY <1>1, <1>2, <2>1, BatchTimes
  <2>4. /\ batchesErr' + m <= sendErrors'
        /\ sendErrors' <= 2 * batchesErr' + (batchesOK' + m)
    BY <1>1, <1>2, <2>1, <2>2
  <2>5. Begun'
    BY <2>1 DEF TypeOK, Begun, Sending, At, Goto
  <2>6. QED
    BY <2>3, <2>4, <2>5
<1>6. ASSUME NEW w \in Workers, SendDrop(w)
      PROVE  /\ sent' = Batch * batchesOK' /\ errors' = Batch * batchesErr'
             /\ batchesErr' + m <= sendErrors'
             /\ sendErrors' <= 2 * batchesErr' + (batchesOK' + m)
             /\ Begun'
  <2>1. /\ pc[w] = "send" /\ Goto(w, "loop") /\ attempt' = attempt
        /\ sent' = sent /\ batchesOK' = batchesOK
        /\ errors' = errors + Batch /\ batchesErr' = batchesErr + 1
        /\ sendErrors' = sendErrors + 1
    BY <1>6 DEF SendDrop, AttemptFails
  <2>2. n = m + 1 \/ m = n
    BY <1>0, <2>1, RetriedLeaves
  <2>3. sent' = Batch * batchesOK' /\ errors' = Batch * batchesErr'
    BY <1>1, <1>2, <2>1, BatchTimes
  <2>4. /\ batchesErr' + m <= sendErrors'
        /\ sendErrors' <= 2 * batchesErr' + (batchesOK' + m)
    BY <1>1, <1>2, <2>1, <2>2
  <2>5. Begun'
    BY <2>1 DEF TypeOK, Begun, Sending, At, Goto
  <2>6. QED
    BY <2>3, <2>4, <2>5
<1>7. ASSUME NEW w \in Workers, SendRetry(w)
      PROVE  /\ sent' = Batch * batchesOK' /\ errors' = Batch * batchesErr'
             /\ batchesErr' + m <= sendErrors'
             /\ sendErrors' <= 2 * batchesErr' + (batchesOK' + m)
             /\ Begun'
  <2>1. /\ pc[w] = "send" /\ Goto(w, "backoff") /\ attempt' = attempt /\ attempt[w] < 2
        /\ sent' = sent /\ batchesOK' = batchesOK
        /\ errors' = errors /\ batchesErr' = batchesErr
        /\ sendErrors' = sendErrors + 1
    BY <1>7 DEF SendRetry, AttemptFails, SendAttempts
  <2>2. Retried' = Retried \union {w} /\ Retried \in SUBSET Workers
    BY <2>1 DEF TypeOK, Retried, Sending, At, Goto
  <2>3. attempt[w] \in 0 .. 2
    BY DEF TypeOK, SendAttempts
  <2>4. w \notin Retried
    BY <2>1, <2>3 DEF Retried
  <2>5. m = n + 1
    BY <1>0, <2>2, <2>4, Joins
  <2>6. sent' = Batch * batchesOK' /\ errors' = Batch * batchesErr'
    BY <1>2, <2>1
  <2>7. /\ batchesErr' + m <= sendErrors'
        /\ sendErrors' <= 2 * batchesErr' + (batchesOK' + m)
    BY <1>1, <1>2, <2>1, <2>5
  <2>8. Begun'
    BY <2>1 DEF TypeOK, Begun, Sending, At, Goto
  <2>9. QED
    BY <2>6, <2>7, <2>8
<1>8. QED
  BY <1>4, <1>5, <1>6, <1>7, MetricCases

\* The exported metrics agree with the counters and with the workers.
THEOREM MetricsAgree == Spec => []MetricsConsistent
<1>1. Init => MetricInv /\ Begun
  <2> SUFFICES ASSUME Init PROVE MetricInv /\ Begun
    OBVIOUS
  <2>1. Cardinality(Retried) = 0 /\ Batch * 0 = 0 /\ Sending = {}
    BY LandedInit, FS_EmptySet
  <2>2. QED
    BY <2>1 DEF Init, MetricInv, Begun
<1>2. TypeInv /\ TypeInv' /\ MetricInv /\ Begun /\ [Next]_vars => MetricInv' /\ Begun'
  BY MetricStep DEF TypeInv
<1>3. TypeInv /\ MetricInv => MetricsConsistent
  <2> SUFFICES ASSUME TypeInv, MetricInv PROVE MetricsConsistent
    OBVIOUS
  <2>1. Retried \in SUBSET Workers
    BY DEF Retried, Sending, At
  <2>2. Cardinality(Retried) \in Nat /\ batchesOK \in Nat
    BY <2>1, Countable DEF TypeInv, TypeOK
  <2>3. (SendAttempts - 1) * (batchesOK + Cardinality(Retried))
          = batchesOK + Cardinality(Retried)
    BY <2>2 DEF SendAttempts
  <2>4. SendAttempts * batchesErr = 2 * batchesErr
    BY DEF SendAttempts
  <2>5. QED
    BY <2>3, <2>4 DEF TypeInv, MetricInv, MetricsConsistent
<1>4. QED
  BY <1>1, <1>2, <1>3, TypeInit, TypeStep, PTL DEF Spec
-----------------------------------------------------------------------------
\* A worker leaves send() by settling its batch and in no other way.
LEMMA SettledStep ==
  ASSUME TypeOK, [Next]_vars, NEW w \in Sending, w \notin Sending'
  PROVE  sent' + errors' = sent + errors + Batch
<1> USE DEF Sending, At, TypeOK
<1>1. w \in Workers /\ pc[w] \in {"send", "backoff"} /\ pc'[w] \notin {"send", "backoff"}
  OBVIOUS
<1>2. ASSUME NEW v \in Workers, NEW l, Goto(v, l)
      PROVE  v = w /\ l \notin {"send", "backoff"}
  BY <1>1, <1>2 DEF Goto
<1>3. ASSUME NEW v \in Workers, SendOK(v) \/ SendDrop(v)
      PROVE  sent' + errors' = sent + errors + Batch
  BY <1>3 DEF SendOK, SendDrop, AttemptFails
<1>4. ASSUME NEW v \in Workers, SendRetry(v) \/ Backoff(v) PROVE FALSE
  BY <1>2, <1>4 DEF SendRetry, Backoff
<1>5. ASSUME NEW v \in Workers,
             LoopTop(v) \/ Fill(v) \/ Cap(v) \/ Pace(v) \/ Wait(v) \/ Recheck(v)
      PROVE  FALSE
  <2>1. pc[v] \notin {"send", "backoff"} /\ \E l : Goto(v, l)
    BY <1>5 DEF LoopTop, Fill, Cap, Pace, Wait, Recheck, GiveUp
  <2>2. QED
    BY <1>1, <1>2, <2>1
<1>6. ASSUME \/ \E v \in Workers : Commit(v)
             \/ LateCommit \/ CancelRun \/ RunReturns \/ UNCHANGED vars
      PROVE  FALSE
  BY <1>1, <1>6 DEF Commit, LateCommit, CancelRun, RunReturns, vars, workerVars
<1>7. QED
  BY <1>3, <1>4, <1>5, <1>6, StepCases

\* A batch accepted for sending is settled whatever becomes of the run
\* context, because send() and its sleep do not watch it.
THEOREM AcceptedSettles == Spec => AcceptedIsSettled
<1>1. TypeInv /\ [Next]_vars
        => [\A w \in Sending : w \notin Sending' => sent' + errors' = sent + errors + Batch]_vars
  BY SettledStep DEF TypeInv
<1>2. QED
  BY <1>1, TypeInit, TypeStep, PTL DEF Spec, AcceptedIsSettled
=============================================================================
