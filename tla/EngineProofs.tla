---------------------------- MODULE EngineProofs ----------------------------
(* What Engine guarantees for any number of workers, any batch size and    *)
(* any cap.  The counts are of sets of workers that one step changes by at *)
(* most one element, so most of the work is done by Joins and Leaves.      *)
EXTENDS Engine, FiniteSetTheorems, TLAPS

USE EngineAssumption

\* Any set of workers can be counted.
LEMMA Countable ==
  ASSUME NEW S \in SUBSET Workers
  PROVE  IsFiniteSet(S) /\ Cardinality(S) \in Nat
BY FS_Subset, FS_CardinalityType

\* A worker that joins a set adds one to its count, and a batch to its spans.
LEMMA Joins ==
  ASSUME NEW S \in SUBSET Workers, NEW w \in Workers, w \notin S
  PROVE  /\ Cardinality(S \union {w}) = Cardinality(S) + 1
         /\ Batch * Cardinality(S \union {w}) = Batch * Cardinality(S) + Batch
<1>1. Cardinality(S \union {w}) = Cardinality(S) + 1
  BY Countable, FS_AddElement
<1>2. \A c \in Nat : Batch * (c + 1) = Batch * c + Batch
  OBVIOUS
<1>3. QED
  BY <1>1, <1>2, Countable

\* A worker that leaves a set takes one from its count, and a batch.
LEMMA Leaves ==
  ASSUME NEW S \in SUBSET Workers, NEW w \in S
  PROVE  /\ Cardinality(S) = Cardinality(S \ {w}) + 1
         /\ Batch * Cardinality(S) = Batch * Cardinality(S \ {w}) + Batch
<1>1. S = (S \ {w}) \union {w}
  OBVIOUS
<1>2. QED
  BY <1>1, Joins

\* The spans of a set of workers are a natural number.
LEMMA SpansOf ==
  ASSUME NEW S \in SUBSET Workers
  PROVE  Batch * Cardinality(S) \in Nat
<1>1. \A c \in Nat : Batch * c \in Nat
  OBVIOUS
<1>2. QED
  BY <1>1, Countable
-----------------------------------------------------------------------------
\* The sets of workers at given labels, when one worker goes to another label.

LEMMA Stays ==
  ASSUME TypeOK, NEW L, NEW w \in Workers, NEW l, Goto(w, l), pc[w] \in L <=> l \in L
  PROVE  At(L)' = At(L)
BY DEF TypeOK, Goto, At

LEMMA Enters ==
  ASSUME TypeOK, NEW L, NEW w \in Workers, NEW l \in L, Goto(w, l), pc[w] \notin L
  PROVE  /\ Cardinality(At(L)') = Cardinality(At(L)) + 1
         /\ Batch * Cardinality(At(L)') = Batch * Cardinality(At(L)) + Batch
<1>1. At(L)' = At(L) \union {w} /\ w \notin At(L) /\ At(L) \in SUBSET Workers
  BY DEF TypeOK, Goto, At
<1>2. QED
  BY <1>1, Joins

LEMMA GoesOut ==
  ASSUME TypeOK, NEW L, NEW w \in Workers, NEW l, l \notin L, Goto(w, l), pc[w] \in L
  PROVE  /\ Cardinality(At(L)) = Cardinality(At(L)') + 1
         /\ Batch * Cardinality(At(L)) = Batch * Cardinality(At(L)') + Batch
<1>1. At(L)' = At(L) \ {w} /\ w \in At(L) /\ At(L) \in SUBSET Workers
  BY DEF TypeOK, Goto, At
<1>2. QED
  BY <1>1, Leaves

\* Every such set can be counted, before the step and after it.
LEMMA AtCounts ==
  ASSUME NEW L
  PROVE  /\ Cardinality(At(L)) \in Nat /\ Batch * Cardinality(At(L)) \in Nat
         /\ Cardinality(At(L)') \in Nat /\ Batch * Cardinality(At(L)') \in Nat
<1>1. At(L) \in SUBSET Workers /\ At(L)' \in SUBSET Workers
  BY DEF At
<1>2. QED
  BY <1>1, Countable, SpansOf
-----------------------------------------------------------------------------
\* Types are kept because the gauge counts the workers inside send(), so that
\* it never goes below zero, and because only a batch with an attempt left waits
\* for one.
TypeInv ==
  /\ TypeOK
  /\ inflight = Cardinality(Sending)
  /\ \A w \in At({"backoff"}) : attempt[w] < SendAttempts

LEMMA TypeInit == Init => TypeInv
<1> SUFFICES ASSUME Init PROVE TypeInv
  OBVIOUS
<1>1. Sending = {}
  BY DEF Init, Sending, At
<1>2. TypeOK
  <2>1. \A w \in Workers : ~landed[w]
    BY DEF Init
  <2>2. pc \in [Workers -> Labels] /\ attempt \in [Workers -> 0 .. SendAttempts]
    BY DEF Init, Labels, SendAttempts
  <2>3. total \in [Workers -> Nat] /\ landed \in [Workers -> BOOLEAN]
    BY DEF Init
  <2>4. /\ runDone \in BOOLEAN /\ returned \in BOOLEAN /\ panicked \in BOOLEAN
        /\ generated \in Nat /\ sent \in Nat /\ errors \in Nat /\ abandoned \in Nat
        /\ inflight \in Nat /\ batchesOK \in Nat /\ batchesErr \in Nat /\ sendErrors \in Nat
        /\ rows \in Nat /\ orphans \in Nat
    BY DEF Init
  <2>5. QED
    BY <2>1, <2>2, <2>3, <2>4 DEF TypeOK
<1>3. Cardinality(Sending) = 0
  BY <1>1, FS_EmptySet
<1>4. inflight = 0
  BY DEF Init
<1>5. At({"backoff"}) = {}
  BY DEF Init, At
<1>6. QED
  BY <1>2, <1>3, <1>4, <1>5 DEF TypeInv

\* The step of a worker that stays outside send() keeps the types.
LEMMA TypeOutside ==
  ASSUME TypeInv, NEW w \in Workers,
         LoopTop(w) \/ Fill(w) \/ Cap(w) \/ Pace(w) \/ Wait(w) \/ (Recheck(w) /\ GiveUp(w))
  PROVE  TypeInv'
<1> USE DEF TypeInv, TypeOK, At, Goto, GiveUp, workerVars, runVars, countVars, metricVars, backendVars
<1>1. CASE LoopTop(w)
  <2>1. TypeOK'
    BY <1>1 DEF LoopTop, Labels, Held
  <2>2. Sending' = Sending
    BY <1>1 DEF LoopTop, Sending
  <2>3. QED
    BY <1>1, <2>1, <2>2 DEF LoopTop
<1>2. CASE Fill(w)
  <2>1. TypeOK'
    BY <1>2 DEF Fill, Labels, Held
  <2>2. Sending' = Sending
    BY <1>2 DEF Fill, Sending
  <2>3. QED
    BY <1>2, <2>1, <2>2 DEF Fill
<1>3. CASE Cap(w)
  <2>1. TypeOK'
    BY <1>3 DEF Cap, Labels, Held
  <2>2. Sending' = Sending
    BY <1>3 DEF Cap, Sending
  <2>3. QED
    BY <1>3, <2>1, <2>2 DEF Cap
<1>4. CASE Pace(w)
  <2>1. TypeOK'
    BY <1>4 DEF Pace, Labels, Held
  <2>2. Sending' = Sending
    BY <1>4 DEF Pace, Sending
  <2>3. QED
    BY <1>4, <2>1, <2>2 DEF Pace
<1>5. CASE Wait(w)
  <2>1. TypeOK'
    BY <1>5 DEF Wait, Labels, Held
  <2>2. Sending' = Sending
    BY <1>5 DEF Wait, Sending
  <2>3. QED
    BY <1>5, <2>1, <2>2 DEF Wait
<1>6. CASE Recheck(w) /\ GiveUp(w)
  <2>1. TypeOK'
    BY <1>6 DEF Recheck, Labels, Held
  <2>2. Sending' = Sending
    BY <1>6 DEF Recheck, Sending
  <2>3. QED
    BY <1>6, <2>1, <2>2
<1>7. QED
  BY <1>1, <1>2, <1>3, <1>4, <1>5, <1>6

\* So does the step of a worker that enters, works in, or leaves send().
LEMMA TypeSending ==
  ASSUME TypeInv, NEW w \in Workers,
         (Recheck(w) /\ ~GiveUp(w)) \/ SendOK(w) \/ SendRetry(w) \/ SendDrop(w) \/ Backoff(w)
  PROVE  TypeInv'
<1> DEFINE S == {"send", "backoff"}
<1> USE DEF TypeInv, TypeOK, Sending, runVars, countVars, metricVars, backendVars
<1>0. /\ Cardinality(At(S)) \in Nat /\ Cardinality(At(S)') \in Nat
      /\ SendAttempts = 2
      /\ \A v \in Workers : pc[v] = "backoff" => attempt[v] < SendAttempts
  BY AtCounts DEF SendAttempts, At
<1>1. CASE Recheck(w) /\ ~GiveUp(w)
  <2>1. pc[w] = "check" /\ Goto(w, "send")
    BY <1>1 DEF Recheck
  <2>2. Cardinality(At(S)') = Cardinality(At(S)) + 1
    BY <2>1, Enters
  <2>3. \A v \in At({"backoff"})' : attempt'[v] < SendAttempts
    BY <1>0, <1>1, <2>1 DEF Recheck, Goto, At
  <2>4. QED
    BY <1>0, <1>1, <2>1, <2>2, <2>3 DEF Recheck, Goto, Labels, Held
<1>2. CASE SendOK(w)
  <2>1. pc[w] = "send" /\ Goto(w, "loop")
    BY <1>2 DEF SendOK
  <2>2. Cardinality(At(S)) = Cardinality(At(S)') + 1
    BY <2>1, GoesOut
  <2>3. \A v \in At({"backoff"})' : attempt'[v] < SendAttempts
    BY <1>0, <1>2, <2>1 DEF SendOK, Goto, At
  <2>4. QED
    BY <1>0, <1>2, <2>1, <2>2, <2>3 DEF SendOK, Goto, Labels, Held
<1>3. CASE SendRetry(w)
  <2>1. pc[w] = "send" /\ Goto(w, "backoff")
    BY <1>3 DEF SendRetry, AttemptFails
  <2>2. At(S)' = At(S)
    BY <2>1, Stays
  <2>3. \A v \in At({"backoff"})' : attempt'[v] < SendAttempts
    BY <1>0, <1>3, <2>1 DEF SendRetry, AttemptFails, Goto, At
  <2>4. QED
    BY <1>0, <1>3, <2>1, <2>2, <2>3 DEF SendRetry, AttemptFails, Goto, Labels, Held
<1>4. CASE SendDrop(w)
  <2>1. pc[w] = "send" /\ Goto(w, "loop")
    BY <1>4 DEF SendDrop, AttemptFails
  <2>2. Cardinality(At(S)) = Cardinality(At(S)') + 1
    BY <2>1, GoesOut
  <2>3. \A v \in At({"backoff"})' : attempt'[v] < SendAttempts
    BY <1>0, <1>4, <2>1 DEF SendDrop, AttemptFails, Goto, At
  <2>4. QED
    BY <1>0, <1>4, <2>1, <2>2, <2>3 DEF SendDrop, AttemptFails, Goto, Labels, Held
<1>5. CASE Backoff(w)
  <2>1. pc[w] = "backoff" /\ Goto(w, "send")
    BY <1>5 DEF Backoff
  <2>2. At(S)' = At(S)
    BY <2>1, Stays
  <2>3. \A v \in At({"backoff"})' : attempt'[v] < SendAttempts
    BY <1>0, <1>5, <2>1 DEF Backoff, Goto, At
  <2>4. QED
    BY <1>0, <1>5, <2>1, <2>2, <2>3 DEF Backoff, Goto, Labels, Held
<1>6. QED
  BY <1>1, <1>2, <1>3, <1>4, <1>5

\* So do the backend, the causes of cancellation and the end of Run.
LEMMA TypeAround ==
  ASSUME TypeInv,
         \/ \E w \in Workers : Commit(w)
         \/ LateCommit \/ CancelRun \/ RunReturns \/ UNCHANGED vars
  PROVE  TypeInv'
<1> USE DEF TypeInv, TypeOK, workerVars, runVars, countVars, metricVars, backendVars
<1>0. UNCHANGED <<pc, attempt, inflight>> => /\ Sending' = Sending
                                             /\ At({"backoff"})' = At({"backoff"})
  BY DEF Sending, At
<1>1. ASSUME NEW w \in Workers, Commit(w) PROVE TypeInv'
  BY <1>0, <1>1, EngineAssumption DEF Commit
<1>2. CASE LateCommit
  <2>1. orphans - 1 \in Nat /\ rows + Batch \in Nat
    BY <1>2 DEF LateCommit
  <2>2. QED
    BY <1>0, <1>2, <2>1 DEF LateCommit
<1>3. CASE CancelRun
  BY <1>0, <1>3 DEF CancelRun
<1>4. CASE RunReturns
  BY <1>0, <1>4 DEF RunReturns
<1>5. CASE UNCHANGED vars
  BY <1>0, <1>5 DEF vars
<1>6. QED
  BY <1>1, <1>2, <1>3, <1>4, <1>5

\* The ways to take a step, grouped by what they leave alone.
LEMMA StepCases ==
  ASSUME [Next]_vars
  PROVE  \/ \E w \in Workers :
              \/ LoopTop(w) \/ Fill(w) \/ Cap(w) \/ Pace(w) \/ Wait(w)
              \/ Recheck(w) \/ SendOK(w) \/ SendRetry(w) \/ SendDrop(w)
              \/ Backoff(w) \/ Commit(w)
         \/ LateCommit \/ CancelRun \/ RunReturns \/ UNCHANGED vars
BY DEF Next, WorkerStep, Signal, DurationElapses, Over

LEMMA TypeStep == TypeInv /\ [Next]_vars => TypeInv'
BY StepCases, TypeOutside, TypeSending, TypeAround

\* No run leaves the types: in particular the in-flight gauge never goes
\* negative and no batch is attempted more than SendAttempts times.
THEOREM TypeCorrect == Spec => []TypeOK
<1>1. TypeInv => TypeOK
  BY DEF TypeInv
<1>2. QED
  BY <1>1, TypeInit, TypeStep, PTL DEF Spec
-----------------------------------------------------------------------------
(* The books: no span is lost or counted twice.                            *)

\* The steps that neither count spans nor change who holds a batch.
QuietStep ==
  \/ \E w \in Workers :
       \/ LoopTop(w) \/ Cap(w) \/ SendRetry(w) \/ Backoff(w) \/ Commit(w)
       \/ (Pace(w) \/ Wait(w) \/ Recheck(w)) /\ ~GiveUp(w)
  \/ LateCommit \/ CancelRun \/ RunReturns \/ UNCHANGED vars

LEMMA Quiet ==
  ASSUME TypeOK, QuietStep
  PROVE  /\ UNCHANGED <<countVars, total>> /\ Holding' = Holding
         /\ runDone => runDone'
<1> USE DEF Holding, Held, runVars, countVars, workerVars
<1>1. ASSUME NEW w \in Workers, LoopTop(w) PROVE Holding' = Holding
  BY <1>1, Stays DEF LoopTop
<1>2. ASSUME NEW w \in Workers, Cap(w) PROVE Holding' = Holding
  BY <1>2, Stays DEF Cap
<1>3. ASSUME NEW w \in Workers, SendRetry(w) PROVE Holding' = Holding
  BY <1>3, Stays DEF SendRetry, AttemptFails
<1>4. ASSUME NEW w \in Workers, Backoff(w) PROVE Holding' = Holding
  BY <1>4, Stays DEF Backoff
<1>5. ASSUME NEW w \in Workers, Pace(w), ~GiveUp(w) PROVE Holding' = Holding
  BY <1>5, Stays DEF Pace
<1>6. ASSUME NEW w \in Workers, Wait(w), ~GiveUp(w) PROVE Holding' = Holding
  BY <1>6, Stays DEF Wait
<1>7. ASSUME NEW w \in Workers, Recheck(w), ~GiveUp(w) PROVE Holding' = Holding
  BY <1>7, Stays DEF Recheck
<1>8. UNCHANGED pc => Holding' = Holding
  BY DEF At
<1>9. Holding' = Holding
  BY <1>1, <1>2, <1>3, <1>4, <1>5, <1>6, <1>7, <1>8
     DEF QuietStep, Commit, LateCommit, CancelRun, RunReturns, vars
<1>10. UNCHANGED <<countVars, total>>
  BY DEF QuietStep, LoopTop, Cap, SendRetry, AttemptFails, Backoff, Commit, Pace, Wait, Recheck,
         LateCommit, CancelRun, RunReturns, vars
<1>11. runDone => runDone'
  BY DEF QuietStep, LoopTop, Cap, SendRetry, AttemptFails, Backoff, Commit, Pace, Wait, Recheck,
         LateCommit, CancelRun, RunReturns, vars
<1>12. QED
  BY <1>9, <1>10, <1>11

\* A worker gives a batch up only while it holds one.
LEMMA GivesUp ==
  ASSUME NEW w \in Workers, Pace(w) \/ Wait(w) \/ Recheck(w)
  PROVE  pc[w] \in {"pace", "waiting", "check"}
BY DEF Pace, Wait, Recheck

\* The steps of Next, grouped by what they do to the books.
LEMMA BookCases ==
  ASSUME [Next]_vars
  PROVE  \/ QuietStep
         \/ \E w \in Workers :
              \/ Fill(w) \/ SendOK(w) \/ SendDrop(w)
              \/ GiveUp(w) /\ pc[w] \in {"pace", "waiting", "check"}
BY StepCases, GivesUp DEF QuietStep

LEMMA ConservedStep ==
  ASSUME TypeOK, Conserved, [Next]_vars
  PROVE  Conserved'
<1> USE DEF Conserved, Holding, TypeOK
<1>0. /\ Batch * Cardinality(At(Held)) \in Nat /\ Batch * Cardinality(At(Held)') \in Nat
      /\ Batch \in Nat
  BY AtCounts, EngineAssumption
<1>1. CASE QuietStep
  BY <1>1, Quiet DEF countVars
<1>2. ASSUME NEW w \in Workers, Fill(w) PROVE Conserved'
  <2>1. Batch * Cardinality(At(Held)') = Batch * Cardinality(At(Held)) + Batch
    BY <1>2, Enters DEF Fill, Held
  <2>2. QED
    BY <1>0, <1>2, <2>1 DEF Fill
<1>3. ASSUME NEW w \in Workers, SendOK(w) PROVE Conserved'
  <2>1. Batch * Cardinality(At(Held)) = Batch * Cardinality(At(Held)') + Batch
    BY <1>3, GoesOut DEF SendOK, Held
  <2>2. QED
    BY <1>0, <1>3, <2>1 DEF SendOK
<1>4. ASSUME NEW w \in Workers, SendDrop(w) PROVE Conserved'
  <2>1. Batch * Cardinality(At(Held)) = Batch * Cardinality(At(Held)') + Batch
    BY <1>4, GoesOut DEF SendDrop, AttemptFails, Held
  <2>2. QED
    BY <1>0, <1>4, <2>1 DEF SendDrop, AttemptFails
<1>5. ASSUME NEW w \in Workers, GiveUp(w), pc[w] \in {"pace", "waiting", "check"}
      PROVE  Conserved'
  <2>1. Batch * Cardinality(At(Held)) = Batch * Cardinality(At(Held)') + Batch
    BY <1>5, GoesOut DEF GiveUp, Held
  <2>2. QED
    BY <1>0, <1>5, <2>1 DEF GiveUp
<1>6. QED
  BY <1>1, <1>2, <1>3, <1>4, <1>5, BookCases

\* At the start nobody holds a batch.
LEMMA HoldingInit == Init => Holding = {} /\ Crossed = {} /\ Exited = {}
BY EngineAssumption DEF Init, Holding, Crossed, Exited, At, Held

\* Every span generated is sent, dropped, abandoned, or in a worker's hands,
\* whatever the workers, the context and the sink do.
THEOREM Conservation == Spec => []Conserved
<1>1. Init => Conserved
  <2>1. Batch * 0 = 0
    BY EngineAssumption
  <2>2. QED
    BY <2>1, HoldingInit, FS_EmptySet DEF Init, Conserved
<1>2. TypeInv /\ Conserved /\ [Next]_vars => Conserved'
  BY ConservedStep DEF TypeInv
<1>3. QED
  BY <1>1, <1>2, TypeInit, TypeStep, PTL DEF Spec
-----------------------------------------------------------------------------
(* The cap.                                                                *)

LEMMA CrossedLeaveStep ==
  ASSUME TypeOK, CrossedLeave, [Next]_vars
  PROVE  CrossedLeave'
<1> USE DEF TypeOK, CrossedLeave, Crossed, Goto, workerVars, runVars, countVars
<1>1. ASSUME NEW w \in Workers, LoopTop(w) PROVE CrossedLeave'
  BY <1>1 DEF LoopTop
<1>2. ASSUME NEW w \in Workers, Fill(w) PROVE CrossedLeave'
  BY <1>2 DEF Fill
<1>3. ASSUME NEW w \in Workers, Cap(w) PROVE CrossedLeave'
  BY <1>3 DEF Cap
<1>4. ASSUME NEW w \in Workers, Pace(w) PROVE CrossedLeave'
  BY <1>4 DEF Pace, GiveUp
<1>5. ASSUME NEW w \in Workers, Wait(w) PROVE CrossedLeave'
  BY <1>5 DEF Wait, GiveUp
<1>6. ASSUME NEW w \in Workers, Recheck(w) PROVE CrossedLeave'
  BY <1>6 DEF Recheck, GiveUp
<1>7. ASSUME NEW w \in Workers, SendOK(w) PROVE CrossedLeave'
  BY <1>7 DEF SendOK
<1>8. ASSUME NEW w \in Workers, SendRetry(w) PROVE CrossedLeave'
  BY <1>8 DEF SendRetry, AttemptFails
<1>9. ASSUME NEW w \in Workers, SendDrop(w) PROVE CrossedLeave'
  BY <1>9 DEF SendDrop, AttemptFails
<1>10. ASSUME NEW w \in Workers, Backoff(w) PROVE CrossedLeave'
  BY <1>10 DEF Backoff
<1>11. ASSUME NEW w \in Workers, Commit(w) PROVE CrossedLeave'
  BY <1>11 DEF Commit
<1>12. CASE LateCommit \/ CancelRun \/ RunReturns \/ UNCHANGED vars
  BY <1>12 DEF LateCommit, CancelRun, RunReturns, vars
<1>13. QED
  BY <1>1, <1>2, <1>3, <1>4, <1>5, <1>6, <1>7, <1>8, <1>9, <1>10, <1>11, <1>12, StepCases

\* A worker that has reached the cap never gets to the sink again.
THEOREM CrossedWorkersLeave == Spec => []CrossedLeave
<1>1. Init => CrossedLeave
  BY HoldingInit DEF CrossedLeave
<1>2. TypeInv /\ CrossedLeave /\ [Next]_vars => CrossedLeave'
  BY CrossedLeaveStep DEF TypeInv
<1>3. QED
  BY <1>1, <1>2, TypeInit, TypeStep, PTL DEF Spec

LEMMA OvershootStep ==
  ASSUME TypeOK, CrossedLeave, GeneratedOvershoot, [Next]_vars
  PROVE  GeneratedOvershoot'
<1> SUFFICES ASSUME MaxSpans > 0
             PROVE  generated' < MaxSpans + Batch * Cardinality(Crossed')
  BY DEF GeneratedOvershoot
<1>0. /\ Crossed \in SUBSET Workers /\ Crossed' \in SUBSET Workers
      /\ generated < MaxSpans + Batch * Cardinality(Crossed)
  BY DEF GeneratedOvershoot, Crossed
<1>1. ASSUME UNCHANGED <<generated, total>>
      PROVE  generated' < MaxSpans + Batch * Cardinality(Crossed')
  BY <1>0, <1>1 DEF Crossed
<1>2. ASSUME NEW w \in Workers, Fill(w)
      PROVE  generated' < MaxSpans + Batch * Cardinality(Crossed')
  <2>0. /\ w \notin Crossed /\ generated' = generated + Batch /\ generated \in Nat
        /\ Batch \in Nat /\ MaxSpans \in Nat
        /\ total \in [Workers -> Nat] /\ total' = [total EXCEPT ![w] = generated']
    BY <1>2, EngineAssumption DEF Fill, CrossedLeave, TypeOK
  <2>1. CASE generated' >= MaxSpans
    <3>1. Crossed' = Crossed \union {w}
      BY <1>2, <2>0, <2>1 DEF Crossed
    <3>2. Batch * Cardinality(Crossed') = Batch * Cardinality(Crossed) + Batch
      BY <1>0, <2>0, <3>1, Joins
    <3>3. QED
      BY <1>0, <2>0, <3>2, SpansOf
  <2>2. CASE generated' < MaxSpans
    BY <1>0, <2>0, <2>2, SpansOf
  <2>3. QED
    BY <2>0, <2>1, <2>2
<1>3. CASE QuietStep
  BY <1>1, <1>3, Quiet DEF countVars
<1>4. ASSUME NEW w \in Workers, SendOK(w) \/ SendDrop(w) \/ GiveUp(w)
      PROVE  generated' < MaxSpans + Batch * Cardinality(Crossed')
  BY <1>1, <1>4 DEF SendOK, SendDrop, AttemptFails, GiveUp
<1>5. QED
  BY <1>2, <1>3, <1>4, BookCases

\* Generation passes the cap by less than one batch per worker that saw it.
THEOREM Overshoot == Spec => []GeneratedOvershoot
<1>1. Init => GeneratedOvershoot
  <2>1. Batch * 0 = 0
    BY EngineAssumption
  <2>2. ASSUME Init, MaxSpans > 0 PROVE generated < MaxSpans + Batch * Cardinality(Crossed)
    <3>1. Cardinality(Crossed) = 0
      BY <2>2, HoldingInit, FS_EmptySet
    <3>2. generated = 0
      BY <2>2 DEF Init
    <3>3. QED
      BY <2>1, <2>2, <3>1, <3>2, EngineAssumption
  <2>3. QED
    BY <2>2 DEF GeneratedOvershoot
<1>2. TypeInv /\ CrossedLeave /\ GeneratedOvershoot /\ [Next]_vars => GeneratedOvershoot'
  BY OvershootStep DEF TypeInv
<1>3. QED
  BY <1>1, <1>2, TypeInit, TypeStep, CrossedWorkersLeave, PTL DEF Spec

\* More workers hold no fewer spans.
LEMMA SpansMonotone ==
  ASSUME NEW S \in SUBSET Workers, NEW T \in SUBSET S
  PROVE  Batch * Cardinality(T) <= Batch * Cardinality(S)
<1>1. Cardinality(T) <= Cardinality(S)
  BY FS_Subset, Countable
<1>2. \A a, b \in Nat : a <= b => Batch * a <= Batch * b
  BY EngineAssumption
<1>3. QED
  BY <1>1, <1>2, Countable

LEMMA SentBelowCapStep ==
  ASSUME TypeOK, Conserved, CrossedLeave, SentBelowCap, [Next]_vars
  PROVE  SentBelowCap'
<1> DEFINE Live == Holding \ Crossed
<1> SUFFICES ASSUME MaxSpans > 0
             PROVE  sent' + errors' + Batch * Cardinality(Live') < MaxSpans
  BY DEF SentBelowCap
<1>0. /\ Live \in SUBSET Workers /\ Live' \in SUBSET Workers
      /\ sent + errors + Batch * Cardinality(Live) < MaxSpans
      /\ sent \in Nat /\ errors \in Nat /\ generated \in Nat /\ abandoned \in Nat
      /\ Batch \in Nat /\ MaxSpans \in Nat
  BY EngineAssumption DEF SentBelowCap, Holding, At, TypeOK
<1>1. CASE QuietStep
  BY <1>0, <1>1, Quiet DEF Crossed, countVars
<1>2. ASSUME NEW w \in Workers, Fill(w)
      PROVE  sent' + errors' + Batch * Cardinality(Live') < MaxSpans
  <2>0. /\ generated' = generated + Batch
        /\ sent' = sent /\ errors' = errors /\ abandoned' = abandoned
        /\ total \in [Workers -> Nat] /\ total' = [total EXCEPT ![w] = generated']
        /\ pc[w] = "fill"
    BY <1>2 DEF Fill, TypeOK
  <2>1. CASE generated' >= MaxSpans
    <3>1. \A v \in Workers \ {w} : v \in Holding' <=> v \in Holding
      BY <1>2 DEF Fill, Goto, Holding, At, TypeOK
    <3>2. w \in Crossed' /\ w \notin Holding
      BY <2>0, <2>1 DEF Crossed, Holding, At, Held
    <3>3. \A v \in Workers \ {w} : v \in Crossed' <=> v \in Crossed
      BY <2>0 DEF Crossed
    <3>4. Live' = Live
      BY <1>0, <3>1, <3>2, <3>3
    <3>5. QED
      BY <1>0, <2>0, <3>4
  <2>2. CASE generated' < MaxSpans
    <3>1. Conserved'
      BY ConservedStep
    <3>2. Holding' \in SUBSET Workers /\ Live' \in SUBSET Holding'
      BY DEF Holding, At
    <3>3. Batch * Cardinality(Live') <= Batch * Cardinality(Holding')
      BY <3>2, SpansMonotone
    <3>4. Batch * Cardinality(Live') \in Nat /\ Batch * Cardinality(Holding') \in Nat
      BY <1>0, <3>2, SpansOf
    <3>5. generated' = sent + errors + abandoned + Batch * Cardinality(Holding')
      BY <2>0, <3>1 DEF Conserved
    <3>6. QED
      BY <1>0, <2>0, <2>2, <3>3, <3>4, <3>5
  <2>3. QED
    BY <1>0, <2>0, <2>1, <2>2
<1>3. ASSUME NEW w \in Workers, SendOK(w) \/ SendDrop(w)
      PROVE  sent' + errors' + Batch * Cardinality(Live') < MaxSpans
  <2>1. /\ pc[w] = "send" /\ Goto(w, "loop") /\ total' = total
        /\ \/ sent' = sent + Batch /\ errors' = errors
           \/ sent' = sent /\ errors' = errors + Batch
    BY <1>3 DEF SendOK, SendDrop, AttemptFails
  <2>2. w \in Live
    BY <2>1 DEF Holding, At, Held, CrossedLeave
  <2>3. Live' = Live \ {w}
    BY <2>1 DEF Holding, At, Held, Crossed, Goto, TypeOK
  <2>4. /\ Batch * Cardinality(Live) = Batch * Cardinality(Live') + Batch
        /\ Batch * Cardinality(Live') \in Nat
    BY <1>0, <2>2, <2>3, Leaves, SpansOf
  <2>5. CASE sent' = sent + Batch /\ errors' = errors
    BY <1>0, <2>4, <2>5
  <2>6. CASE sent' = sent /\ errors' = errors + Batch
    BY <1>0, <2>4, <2>6
  <2>7. QED
    BY <2>1, <2>5, <2>6
<1>4. ASSUME NEW w \in Workers, GiveUp(w)
      PROVE  sent' + errors' + Batch * Cardinality(Live') < MaxSpans
  <2>1. Goto(w, "exit") /\ UNCHANGED <<total, sent, errors>>
    BY <1>4 DEF GiveUp
  <2>2. Live' \in SUBSET Live
    BY <2>1 DEF Holding, At, Held, Crossed, Goto, TypeOK
  <2>3. Batch * Cardinality(Live') <= Batch * Cardinality(Live)
    BY <1>0, <2>2, SpansMonotone
  <2>4. QED
    BY <1>0, <2>1, <2>3, SpansOf
<1>5. QED
  BY <1>1, <1>2, <1>3, <1>4, BookCases

\* The cap is never reached by what the sink has settled, nor by what it has
\* settled and may still settle.
THEOREM CapHolds == Spec => []SentBelowCap
<1>1. Init => SentBelowCap
  <2>1. Batch * 0 = 0 /\ MaxSpans \in Nat
    BY EngineAssumption
  <2>2. ASSUME Init, MaxSpans > 0
        PROVE  sent + errors + Batch * Cardinality(Holding \ Crossed) < MaxSpans
    <3>1. Cardinality(Holding \ Crossed) = 0
      BY <2>2, HoldingInit, FS_EmptySet
    <3>2. sent = 0 /\ errors = 0
      BY <2>2 DEF Init
    <3>3. QED
      BY <2>1, <2>2, <3>1, <3>2
  <2>3. QED
    BY <2>2 DEF SentBelowCap
<1>2. TypeInv /\ Conserved /\ CrossedLeave /\ SentBelowCap /\ [Next]_vars => SentBelowCap'
  BY SentBelowCapStep DEF TypeInv
<1>3. QED
  BY <1>1, <1>2, TypeInit, TypeStep, Conservation, CrossedWorkersLeave, PTL DEF Spec
-----------------------------------------------------------------------------
(* The end of the run.                                                     *)

LEMMA AbandonBoundedStep ==
  ASSUME TypeOK, AbandonBounded, [Next]_vars
  PROVE  AbandonBounded'
<1> DEFINE X == {"exit"}
<1> USE DEF TypeOK, AbandonBounded, Exited
<1>0. /\ Batch * Cardinality(At(X)) \in Nat /\ Batch * Cardinality(At(X)') \in Nat
      /\ Batch \in Nat
  BY AtCounts, EngineAssumption
<1>1. CASE QuietStep
  <2>1. At(X) \in SUBSET At(X)' /\ At(X)' \in SUBSET Workers
    BY <1>1 DEF At, QuietStep, LoopTop, Cap, SendRetry, AttemptFails, Backoff, Commit,
                Pace, Wait, Recheck, LateCommit, CancelRun, RunReturns, Goto, vars, workerVars
  <2>2. QED
    BY <1>0, <1>1, <2>1, Quiet, SpansMonotone DEF countVars
<1>2. ASSUME NEW w \in Workers, Fill(w) \/ SendOK(w) \/ SendDrop(w) PROVE AbandonBounded'
  <2>1. abandoned' = abandoned
    BY <1>2 DEF Fill, SendOK, SendDrop, AttemptFails
  <2>2. At(X)' = At(X)
    BY <1>2 DEF Fill, SendOK, SendDrop, AttemptFails, Goto, At
  <2>3. QED
    BY <2>1, <2>2
<1>3. ASSUME NEW w \in Workers, GiveUp(w), pc[w] \in {"pace", "waiting", "check"}
      PROVE  AbandonBounded'
  <2>1. Batch * Cardinality(At(X)') = Batch * Cardinality(At(X)) + Batch
    BY <1>3, Enters DEF GiveUp
  <2>2. QED
    BY <1>0, <1>3, <2>1 DEF GiveUp
<1>4. QED
  BY <1>1, <1>2, <1>3, BookCases

\* A shutdown costs at most one generated batch per worker that has returned.
THEOREM AbandonIsBounded == Spec => []AbandonBounded
<1>1. Init => AbandonBounded
  <2>1. Batch * 0 = 0
    BY EngineAssumption
  <2>2. QED
    BY <2>1, HoldingInit, FS_EmptySet DEF Init, AbandonBounded
<1>2. TypeInv /\ AbandonBounded /\ [Next]_vars => AbandonBounded'
  BY AbandonBoundedStep DEF TypeInv
<1>3. QED
  BY <1>1, <1>2, TypeInit, TypeStep, PTL DEF Spec

\* Workers leave only a cancelled run, and Run returns only after all of them.
EndInv ==
  /\ \A w \in Exited : runDone
  /\ returned => Exited = Workers

LEMMA EndStep ==
  ASSUME TypeOK, EndInv, [Next]_vars
  PROVE  EndInv'
<1> USE DEF TypeOK, EndInv, Exited, At, Goto, workerVars, runVars
<1>1. ASSUME NEW w \in Workers, LoopTop(w) \/ Fill(w) \/ Cap(w) PROVE EndInv'
  BY <1>1 DEF LoopTop, Fill, Cap
<1>2. ASSUME NEW w \in Workers, Pace(w) \/ Wait(w) \/ Recheck(w) PROVE EndInv'
  BY <1>2 DEF Pace, Wait, Recheck, GiveUp
<1>3. ASSUME NEW w \in Workers, SendOK(w) \/ SendRetry(w) \/ SendDrop(w) \/ Backoff(w)
      PROVE  EndInv'
  BY <1>3 DEF SendOK, SendRetry, SendDrop, AttemptFails, Backoff
<1>4. ASSUME NEW w \in Workers, Commit(w) PROVE EndInv'
  BY <1>4 DEF Commit
<1>5. CASE LateCommit \/ CancelRun \/ RunReturns \/ UNCHANGED vars
  BY <1>5 DEF LateCommit, CancelRun, RunReturns, vars
<1>6. QED
  BY <1>1, <1>2, <1>3, <1>4, <1>5, StepCases

THEOREM EndInvariant == Spec => []EndInv
<1>1. Init => EndInv
  BY HoldingInit DEF Init, EndInv
<1>2. TypeInv /\ EndInv /\ [Next]_vars => EndInv'
  BY EndStep DEF TypeInv
<1>3. QED
  BY <1>1, <1>2, TypeInit, TypeStep, PTL DEF Spec

\* When all the workers have left, nobody holds a batch or is in send().
LEMMA NobodyLeft ==
  ASSUME TypeOK, Exited = Workers
  PROVE  Holding = {} /\ Sending = {}
BY DEF Exited, Holding, Sending, At, Held

\* When Run returns, nothing is in the sink's hands and the books are closed.
THEOREM ReturnIsSettled == Spec => []ReturnSettled
<1>1. ASSUME TypeInv, Conserved, EndInv PROVE ReturnSettled
  <2>1. Batch * 0 = 0
    BY EngineAssumption
  <2>2. ASSUME returned
        PROVE  runDone /\ inflight = 0 /\ generated = sent + errors + abandoned
    <3>1. Exited = Workers /\ Holding = {} /\ Sending = {}
      BY <1>1, <2>2, NobodyLeft DEF EndInv, TypeInv
    <3>2. runDone
      BY <1>1, <3>1, EngineAssumption DEF EndInv
    <3>3. inflight = 0
      BY <1>1, <3>1, FS_EmptySet DEF TypeInv
    <3>4. generated = sent + errors + abandoned
      BY <1>1, <2>1, <3>1, FS_EmptySet DEF Conserved, TypeInv, TypeOK
    <3>5. QED
      BY <3>2, <3>3, <3>4
  <2>3. QED
    BY <2>2 DEF ReturnSettled
<1>2. QED
  BY <1>1, TypeInit, TypeStep, Conservation, EndInvariant, PTL DEF Spec
-----------------------------------------------------------------------------
(* The engine implements the ledger.                                       *)

\* What the ledger's guards rest on.
BookInv == TypeInv /\ Conserved /\ CrossedLeave /\ SentBelowCap /\ EndInv

\* While a worker holds a batch, the ledger has one outstanding and is open;
\* if the worker may still send it, the cap has room for it.
LEMMA HeldIsOutstanding ==
  ASSUME BookInv, NEW w \in Holding
  PROVE  /\ ~returned /\ Ledger!Outstanding >= Batch
         /\ w \notin Crossed => Ledger!UnderCap
<1> USE DEF BookInv, TypeInv, TypeOK
<1>0. /\ Holding \in SUBSET Workers /\ Holding \ Crossed \in SUBSET Workers
      /\ Batch \in Nat /\ MaxSpans \in Nat
  BY EngineAssumption DEF Holding, At
<1>1. ~returned
  BY <1>0 DEF EndInv, Holding, Exited, At, Held
<1>2. Ledger!Outstanding >= Batch
  <2>1. /\ Batch * Cardinality(Holding) = Batch * Cardinality(Holding \ {w}) + Batch
        /\ Batch * Cardinality(Holding \ {w}) \in Nat
    BY <1>0, Leaves, SpansOf
  <2>2. QED
    BY <1>0, <2>1 DEF Conserved, Ledger!Outstanding
<1>3. ASSUME w \notin Crossed PROVE Ledger!UnderCap
  <2> DEFINE S == Holding \ Crossed
  <2>1. S \in SUBSET Workers /\ w \in S
    BY <1>0, <1>3
  <2>2. /\ Batch * Cardinality(S) = Batch * Cardinality(S \ {w}) + Batch
        /\ Batch * Cardinality(S \ {w}) \in Nat
    BY <2>1, Leaves, SpansOf
  <2>3. QED
    BY <1>0, <2>2 DEF SentBelowCap, Ledger!UnderCap
<1>4. QED
  BY <1>1, <1>2, <1>3

LEMMA LedgerStep ==
  ASSUME BookInv, [Next]_vars
  PROVE  [Ledger!LedgerNext]_Ledger!ledgerVars
<1> USE DEF Ledger!LedgerNext, Ledger!ledgerVars, countVars, runVars
<1>0. TypeOK
  BY DEF BookInv, TypeInv
<1>1. ASSUME NEW w \in Workers, Fill(w) PROVE Ledger!Produce
  BY <1>0, <1>1 DEF BookInv, EndInv, Exited, At, Fill, Ledger!Produce
<1>2. ASSUME NEW w \in Workers, GiveUp(w), pc[w] \in {"pace", "waiting", "check"}
      PROVE  Ledger!Abandon
  <2>1. w \in Holding
    BY <1>2 DEF Holding, At, Held
  <2>2. QED
    BY <1>2, <2>1, HeldIsOutstanding DEF GiveUp, Ledger!Abandon
<1>3. ASSUME NEW w \in Workers, pc[w] = "send" PROVE w \in Holding /\ w \notin Crossed
  BY <1>3 DEF Holding, At, Held, BookInv, CrossedLeave
<1>4. ASSUME NEW w \in Workers, SendOK(w) PROVE Ledger!Deliver
  <2>1. pc[w] = "send"
    BY <1>4 DEF SendOK
  <2>2. QED
    BY <1>3, <1>4, <2>1, HeldIsOutstanding DEF SendOK, Ledger!Deliver
<1>5. ASSUME NEW w \in Workers, SendDrop(w) PROVE Ledger!Fail
  <2>1. pc[w] = "send"
    BY <1>5 DEF SendDrop, AttemptFails
  <2>2. QED
    BY <1>3, <1>5, <2>1, HeldIsOutstanding DEF SendDrop, AttemptFails, Ledger!Fail
<1>6. CASE RunReturns
  <2>1. Exited = Workers /\ runDone
    BY <1>6, EngineAssumption DEF RunReturns, BookInv, EndInv
  <2>2. Holding = {}
    BY <1>0, <2>1, NobodyLeft
  <2>3. Batch * 0 = 0
    BY EngineAssumption
  <2>4. Ledger!Outstanding = 0
    BY <1>0, <2>2, <2>3, FS_EmptySet DEF BookInv, Conserved, Ledger!Outstanding, TypeOK
  <2>5. Ledger!Close
    BY <1>6, <2>1, <2>4 DEF RunReturns, Ledger!Close
  <2>6. QED
    BY <2>5
<1>7. CASE CancelRun
  BY <1>7 DEF CancelRun, Ledger!Stop
<1>8. ASSUME NEW w \in Workers, Cap(w) PROVE [Ledger!LedgerNext]_Ledger!ledgerVars
  BY <1>0, <1>8 DEF Cap, Ledger!Stop, TypeOK
<1>9. CASE LateCommit \/ UNCHANGED vars
  BY <1>9 DEF LateCommit, vars
<1>10. ASSUME NEW w \in Workers,
              \/ LoopTop(w) \/ SendRetry(w) \/ Backoff(w) \/ Commit(w)
              \/ (Pace(w) \/ Wait(w) \/ Recheck(w)) /\ ~GiveUp(w)
       PROVE  UNCHANGED Ledger!ledgerVars
  BY <1>10 DEF LoopTop, SendRetry, AttemptFails, Backoff, Commit, Pace, Wait, Recheck
<1>11. QED
  BY <1>1, <1>2, <1>4, <1>5, <1>6, <1>7, <1>8, <1>9, <1>10, BookCases DEF QuietStep

\* Every behaviour of the engine is a behaviour of the ledger: batches are
\* settled one at a time and once, only under the cap, abandoned only by a
\* shutdown, and the books close with nothing outstanding.
THEOREM EngineKeepsLedger == Spec => KeepsLedger
<1>1. Init => Ledger!LedgerInit
  BY DEF Init, Ledger!LedgerInit
<1>2. BookInv /\ [Next]_vars => [Ledger!LedgerNext]_Ledger!ledgerVars
  BY LedgerStep
<1>3. Spec => []BookInv
  <2>1. TypeInv /\ Conserved /\ CrossedLeave /\ SentBelowCap /\ EndInv => BookInv
    BY DEF BookInv
  <2>2. QED
    BY <2>1, TypeInit, TypeStep, Conservation, CrossedWorkersLeave, CapHolds, EndInvariant,
       PTL DEF Spec
<1>4. QED
  BY <1>1, <1>2, <1>3, PTL DEF Spec, KeepsLedger, Ledger!LedgerSpec
=============================================================================
