------------------------------- MODULE Pacer -------------------------------
(* The pacing of the workers: New's token bucket, its use by the workers   *)
(* through WaitN, and the ramp goroutine that raises its limit.  Time is   *)
(* discrete.  The bucket is x/time/rate: a reservation takes its tokens at *)
(* once, into debt if need be, and waits for as long as the debt takes to  *)
(* be paid at the limit in force at that moment.                           *)
(* The operators named Slip_... are mistakes the code could have made.     *)
EXTENDS Integers, FiniteSets

CONSTANTS
  Workers,
  Batch,       \* spans a worker waits for at a time
  Slack,       \* cfg.Gen.SpansPerTraceMax + 64
  Target,      \* cfg.Gen.Rate, spans per unit of time
  StartShare,  \* the ramp starts from Target / StartShare (100 in the code)
  RampTime,    \* cfg.Gen.Ramp, 0 for none
  MaxTime      \* bound: the clock stops here

ASSUME PacerAssumption ==
  /\ IsFiniteSet(Workers)
  /\ Batch \in Nat \ {0} /\ Slack \in Nat /\ MaxTime \in Nat /\ RampTime \in Nat
  /\ Target \in Nat /\ StartShare \in Nat \ {0} /\ Target >= StartShare

VARIABLES
  now,      \* time
  limit,    \* the limiter's rate
  tokens,   \* the bucket; negative when reservations are waiting for tokens
  due,      \* when each worker's reservation comes due, or Free
  rampAt,   \* when the ramp last set the limit
  ramping,  \* the ramp goroutine is running
  admitted, \* history: spans let through
  supply    \* history: tokens produced by the limits in force so far

vars == <<now, limit, tokens, due, rampAt, ramping, admitted, supply>>

Free    == -1
Waiting == {w \in Workers : due[w] # Free}

Least(a, b)   == IF a <= b THEN a ELSE b
CeilDiv(a, b) == (a + b - 1) \div b

\* The burst has room for whatever FillBatch returns: WaitN never refuses it.
Burst == Batch + Slack
Start == IF RampTime > 0 THEN Target \div StartShare ELSE Target

Init ==
  /\ now = 0 /\ limit = Start /\ tokens = Burst
  /\ due = [w \in Workers |-> Free]
  /\ rampAt = 0 /\ ramping = (RampTime > 0)
  /\ admitted = 0 /\ supply = 0

Tick ==
  /\ now < MaxTime
  /\ now' = now + 1
  /\ tokens' = Least(Burst, tokens + limit)
  /\ supply' = supply + limit
  /\ UNCHANGED <<limit, due, rampAt, ramping, admitted>>

\* There are tokens enough: WaitN returns at once.
PassNow(w) ==
  /\ w \notin Waiting /\ tokens >= Batch
  /\ tokens' = tokens - Batch
  /\ admitted' = admitted + Batch
  /\ UNCHANGED <<now, limit, due, rampAt, ramping, supply>>

Slip_ReserveAtTarget(w) ==  \* waits as long as it would at the target rate
  /\ w \notin Waiting /\ tokens < Batch
  /\ tokens' = tokens - Batch
  /\ due' = [due EXCEPT ![w] = now + CeilDiv(Batch - tokens, Target)]
  /\ UNCHANGED <<now, limit, rampAt, ramping, admitted, supply>>

\* The wait is fixed here: a later change of the limit does not shorten it.
Reserve(w) ==
  /\ w \notin Waiting /\ tokens < Batch
  /\ tokens' = tokens - Batch
  /\ due' = [due EXCEPT ![w] = now + CeilDiv(Batch - tokens, limit)]
  /\ UNCHANGED <<now, limit, rampAt, ramping, admitted, supply>>

\* The worker's timer fires, on time or late.
Pass(w) ==
  /\ w \in Waiting /\ now >= due[w]
  /\ due' = [due EXCEPT ![w] = Free]
  /\ admitted' = admitted + Batch
  /\ UNCHANGED <<now, limit, tokens, rampAt, ramping, supply>>

\* What ramp sets the limit to before the ramp is over.
Slip_RampAdds == limit + (Target * now) \div RampTime  \* added to what it was
RampLimit ==
  LET cur == (Target * now) \div RampTime
  IN  IF cur < Start THEN Start ELSE cur

Slip_RampTick ==  \* a new limiter for each limit: its bucket is full
  /\ ramping /\ rampAt < now
  /\ rampAt' = now
  /\ limit' = IF now >= RampTime THEN Target ELSE RampLimit
  /\ ramping' = (now < RampTime)
  /\ tokens' = Burst
  /\ UNCHANGED <<now, due, admitted, supply>>

Slip_RampTickEnds ==  \* returns at the end without the last SetLimit
  /\ ramping /\ rampAt < now
  /\ rampAt' = now
  /\ limit' = IF now >= RampTime THEN limit ELSE RampLimit
  /\ ramping' = (now < RampTime)
  /\ UNCHANGED <<now, tokens, due, admitted, supply>>

\* The ticker of ramp, on time or late: SetLimit leaves the tokens as they are.
RampTick ==
  /\ ramping /\ rampAt < now
  /\ rampAt' = now
  /\ limit' = IF now >= RampTime THEN Target ELSE RampLimit
  /\ ramping' = (now < RampTime)
  /\ UNCHANGED <<now, tokens, due, admitted, supply>>

\* The clock is bounded, the program is not.
ClockStops == now = MaxTime /\ UNCHANGED vars

Next ==
  \/ Tick \/ RampTick \/ ClockStops
  \/ \E w \in Workers : PassNow(w) \/ Reserve(w) \/ Pass(w)

Spec == Init /\ [][Next]_vars

\* Time passes, the ticker fires, and timers do.
Fairness ==
  /\ WF_vars(Tick) /\ WF_vars(RampTick)
  /\ \A w \in Workers : WF_vars(Pass(w))

FairSpec == Spec /\ Fairness
-----------------------------------------------------------------------------
\* No run lets through more than a full bucket and what the limits in force
\* have produced since, whatever the ramp does to reservations under way.
WithinBudget == admitted <= Burst + supply

\* With a ramp, the spans let through stay under the line the limit is meant to
\* follow: the area below it, the floor and one full bucket.
UnderTheLine ==
  RampTime > 0 =>
    2 * RampTime * (admitted - Burst - Start * now) <= Target * now * now

\* The bucket is in debt only to workers that are still waiting: nobody pays
\* for spans that have already gone through.
DebtIsOwed == tokens + Batch * Cardinality(Waiting) >= 0

\* The ramp only goes up, from the floor, and arrives at the target.
RampArrives == [][limit' >= limit]_vars /\ <>[](limit = Target)
=============================================================================
