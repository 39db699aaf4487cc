---------------------------- MODULE PacerProofs ----------------------------
(* What the pacer guarantees for any number of workers, rate and ramp.  A   *)
(* reservation waits for as long as the limit of that moment needs to pay   *)
(* the debt; since the limit only rises, the debt is paid by then.          *)
EXTENDS Pacer, FiniteSetTheorems, TLAPS

TypeInv ==
  /\ now \in Nat /\ rampAt \in 0 .. now
  /\ tokens \in Int /\ tokens <= Burst
  /\ due \in [Workers -> Nat \union {Free}]
  /\ ramping \in BOOLEAN
  /\ admitted \in Nat /\ supply \in Nat

\* The limit is the floor, or was under the line when the ramp last set it.
LimitInv ==
  /\ limit \in Start .. Target
  /\ limit = Start \/ RampTime * limit <= Target * rampAt

\* The workers whose reservations come due after t.
Later(t) == {w \in Workers : due[w] > t}

\* At every moment to come, the tokens produced until then at the limit in force
\* pay for all reservations that are due by then.
DebtInv ==
  \A t \in Nat : t >= now => tokens + limit * (t - now) + Batch * Cardinality(Later(t)) >= 0

\* What has been let through, is waiting or is in the bucket was once produced.
BudgetInv == admitted + Batch * Cardinality(Waiting) + tokens <= Burst + supply

\* The area below the line, up to now.
AreaInv == 2 * RampTime * (supply - Start * now) <= Target * now * now
-----------------------------------------------------------------------------
(* Arithmetic.                                                             *)

LEMMA Quotient ==
  ASSUME NEW a \in Nat, NEW b \in Nat \ {0}
  PROVE  /\ a \div b \in Nat
         /\ b * (a \div b) <= a
         /\ \A c \in Nat : b * c <= a => c <= a \div b
  OBVIOUS

LEMMA Ceiling ==
  ASSUME NEW a \in Nat, NEW b \in Nat \ {0}
  PROVE  CeilDiv(a, b) \in Nat /\ a <= b * CeilDiv(a, b)
  BY DEF CeilDiv

LEMMA Monotone ==
  ASSUME NEW a \in Nat, NEW b \in Nat, NEW c \in Nat, b <= c
  PROVE  a * b <= a * c
  OBVIOUS

LEMMA Bounds == Start \in 1 .. Target /\ Burst \in Nat /\ Target \in Nat \ {0}
  BY PacerAssumption DEF Start, Burst
-----------------------------------------------------------------------------
(* The limit and the clock.                                                *)

LEMMA InitLimit == Init => TypeInv /\ LimitInv
  BY Bounds, PacerAssumption DEF Init, TypeInv, LimitInv, Free

\* What the ramp sets lies on or under the line, and not below what it set before.
LEMMA Ramp ==
  ASSUME TypeInv, LimitInv, RampTick
  PROVE  /\ limit' \in limit .. Target
         /\ limit' = Start \/ RampTime * limit' <= Target * now
<1> USE PacerAssumption, Bounds DEF TypeInv, LimitInv, RampTick
<1>1. CASE now >= RampTime
  BY <1>1, Monotone
<1>2. CASE now < RampTime
  <2> DEFINE cur == (Target * now) \div RampTime
  <2>1. RampTime \in Nat \ {0} /\ Target * now \in Nat
    BY <1>2
  <2>2. /\ cur \in Nat /\ RampTime * cur <= Target * now
        /\ \A c \in Nat : RampTime * c <= Target * now => c <= cur
    BY <2>1, Quotient
  <2>3. limit' = IF cur < Start THEN Start ELSE cur
    BY <1>2 DEF RampLimit
  <2>4. cur <= Target
    <3>1. Target * now <= Target * RampTime
      BY <1>2, Monotone
    <3>2. cur > Target => RampTime * cur > RampTime * Target
      BY <2>1, <2>2
    <3>3. QED
      BY <2>1, <2>2, <3>1, <3>2
  <2>5. limit = Start \/ limit <= cur
    <3>1. Target * rampAt <= Target * now
      BY Monotone
    <3>2. QED
      BY <2>1, <2>2, <3>1
  <2> HIDE DEF cur
  <2>6. QED
    BY <2>2, <2>3, <2>4, <2>5
<1>3. QED
  BY <1>1, <1>2

LEMMA Time ==
  ASSUME TypeInv, LimitInv, Tick
  PROVE  TypeInv' /\ LimitInv'
<1> USE PacerAssumption, Bounds
<1>1. limit \in Nat /\ tokens + limit \in Int
  BY DEF TypeInv, LimitInv
<1>2. tokens' \in Int /\ tokens' <= Burst
  BY <1>1 DEF TypeInv, Tick, Least
<1>3. QED
  BY <1>1, <1>2 DEF TypeInv, LimitInv, Tick

\* A worker that has to wait waits for as long as the debt takes at this limit.
LEMMA Reserved ==
  ASSUME TypeInv, LimitInv, NEW w \in Workers, Reserve(w)
  PROVE  \E wait \in Nat :
           /\ Batch - tokens <= limit * wait
           /\ due' = [due EXCEPT ![w] = now + wait]
<1>1. Batch - tokens \in Nat /\ limit \in Nat \ {0}
  BY PacerAssumption, Bounds DEF TypeInv, LimitInv, Reserve
<1>2. CeilDiv(Batch - tokens, limit) \in Nat
  BY <1>1, Ceiling
<1>3. Batch - tokens <= limit * CeilDiv(Batch - tokens, limit)
  BY <1>1, Ceiling
<1>4. QED
  BY <1>2, <1>3 DEF Reserve

LEMMA NextLimit == TypeInv /\ LimitInv /\ [Next]_vars => TypeInv' /\ LimitInv'
<1> SUFFICES ASSUME TypeInv, LimitInv, [Next]_vars
             PROVE  TypeInv' /\ LimitInv'
  OBVIOUS
<1> USE PacerAssumption, Bounds
<1>1. CASE RampTick
  BY <1>1, Ramp DEF TypeInv, LimitInv, RampTick
<1>2. ASSUME NEW w \in Workers, PassNow(w)
      PROVE  TypeInv' /\ LimitInv'
  BY <1>2 DEF TypeInv, LimitInv, PassNow
<1>3. ASSUME NEW w \in Workers, Reserve(w)
      PROVE  TypeInv' /\ LimitInv'
  <2>1. PICK wait \in Nat : due' = [due EXCEPT ![w] = now + wait]
    BY <1>3, Reserved
  <2>2. due' \in [Workers -> Nat \union {Free}]
    BY <2>1 DEF TypeInv
  <2>3. QED
    BY <1>3, <2>2 DEF TypeInv, LimitInv, Reserve
<1>4. ASSUME NEW w \in Workers, Pass(w)
      PROVE  TypeInv' /\ LimitInv'
  BY <1>4 DEF TypeInv, LimitInv, Pass
<1>5. CASE UNCHANGED vars
  BY <1>5 DEF TypeInv, LimitInv, vars
<1>6. QED
  BY <1>1, <1>2, <1>3, <1>4, <1>5, Time DEF Next, ClockStops

LEMMA LimitInvariance == Spec => [](TypeInv /\ LimitInv)
  BY InitLimit, NextLimit, PTL DEF Spec

\* The ramp only ever raises the limit, and never above the target.
THEOREM RampOnlyRises == Spec => [][limit' >= limit /\ limit' <= Target]_vars
<1>1. TypeInv /\ LimitInv /\ [Next]_vars => [limit' >= limit /\ limit' <= Target]_vars
  <2> SUFFICES ASSUME TypeInv, LimitInv, Next
               PROVE  limit' >= limit /\ limit' <= Target
    OBVIOUS
  <2> USE Bounds DEF LimitInv
  <2>1. CASE RampTick
    BY <2>1, Ramp
  <2>2. CASE Tick \/ ClockStops
    BY <2>2 DEF Tick, ClockStops, vars
  <2>3. ASSUME NEW w \in Workers, PassNow(w) \/ Reserve(w) \/ Pass(w)
        PROVE  limit' >= limit /\ limit' <= Target
    BY <2>3 DEF PassNow, Reserve, Pass
  <2>4. QED
    BY <2>1, <2>2, <2>3 DEF Next
<1>2. QED
  BY <1>1, LimitInvariance, PTL DEF Spec
-----------------------------------------------------------------------------
(* The debt.                                                               *)

LEMMA Finite ==
  ASSUME NEW t
  PROVE  /\ IsFiniteSet(Later(t)) /\ Cardinality(Later(t)) \in Nat
         /\ IsFiniteSet(Waiting) /\ Cardinality(Waiting) \in Nat
<1>1. Later(t) \subseteq Workers /\ Waiting \subseteq Workers
  BY DEF Later, Waiting
<1>2. QED
  BY <1>1, FS_Subset, FS_CardinalityType, PacerAssumption

\* The tokens to come by t, at a limit that is not lower.
LEMMA Produced ==
  ASSUME NEW l \in Nat, NEW h \in Nat, l <= h, NEW d \in Nat
  PROVE  l * d <= h * d /\ l * d \in Nat
  OBVIOUS

LEMMA InitDebt == Init => DebtInv
<1> SUFFICES ASSUME Init, NEW t \in Nat
             PROVE  tokens + limit * (t - now) + Batch * Cardinality(Later(t)) >= 0
  BY DEF DebtInv, Init
<1>1. limit * (t - now) \in Nat
  BY Bounds DEF Init
<1>2. Batch * Cardinality(Later(t)) \in Nat
  BY Finite, PacerAssumption
<1>3. QED
  BY <1>1, <1>2, Bounds DEF Init

LEMMA TickDebt ==
  ASSUME TypeInv, LimitInv, DebtInv, Tick
  PROVE  DebtInv'
<1> SUFFICES ASSUME NEW t \in Nat, t >= now'
             PROVE  tokens' + limit' * (t - now') + Batch * Cardinality(Later(t))' >= 0
  BY DEF DebtInv
<1>1. Later(t)' = Later(t) /\ limit' = limit
  BY DEF Tick, Later
<1>2. PICK b \in Nat : b = Batch * Cardinality(Later(t))
  BY Finite, PacerAssumption
<1>3. limit \in Nat /\ now \in Nat /\ tokens \in Int /\ now' = now + 1
  BY Bounds DEF TypeInv, LimitInv, Tick
<1>4. PICK d \in Nat : d = t - now'
  BY <1>3
<1>5. t - now = d + 1 /\ t >= now
  BY <1>3, <1>4
<1>6. limit * (d + 1) = limit * d + limit /\ limit * d \in Nat
  BY <1>3
<1>7. tokens + (limit * d + limit) + b >= 0
  BY <1>2, <1>5, <1>6 DEF DebtInv
<1>8. tokens' + limit * d + b >= 0
  BY <1>3, <1>6, <1>7, Bounds DEF Tick, Least
<1>9. QED
  BY <1>1, <1>2, <1>4, <1>8

\* A worker that passes at once leaves no debt.
LEMMA PassNowDebt ==
  ASSUME TypeInv, LimitInv, NEW w \in Workers, PassNow(w)
  PROVE  DebtInv'
<1> SUFFICES ASSUME NEW t \in Nat, t >= now'
             PROVE  tokens' + limit' * (t - now') + Batch * Cardinality(Later(t))' >= 0
  BY DEF DebtInv
<1>1. Later(t)' = Later(t)
  BY DEF PassNow, Later
<1>2. PICK b \in Nat : b = Batch * Cardinality(Later(t))'
  BY <1>1, Finite, PacerAssumption
<1>3. PICK d \in Nat : d = t - now'
  BY DEF TypeInv, PassNow
<1>4. PICK l \in Nat : l = limit'
  BY Bounds DEF LimitInv, PassNow
<1>5. l * d \in Nat
  OBVIOUS
<1>6. tokens' \in Nat
  BY PacerAssumption DEF TypeInv, PassNow
<1>7. QED
  BY <1>2, <1>3, <1>4, <1>5, <1>6

\* A reservation adds what it costs to the debt of every moment before it is
\* due, and from then on its own wait has paid for it.
LEMMA ReserveDebt ==
  ASSUME TypeInv, LimitInv, DebtInv, NEW w \in Workers, Reserve(w)
  PROVE  DebtInv'
<1> SUFFICES ASSUME NEW t \in Nat, t >= now'
             PROVE  tokens' + limit' * (t - now') + Batch * Cardinality(Later(t))' >= 0
  BY DEF DebtInv
<1>1. PICK wait \in Nat :
        Batch - tokens <= limit * wait /\ due' = [due EXCEPT ![w] = now + wait]
  BY Reserved
<1>2. now' = now /\ limit' = limit /\ tokens' = tokens - Batch
  BY DEF Reserve
<1>3. limit \in Nat /\ now \in Nat /\ tokens \in Int /\ Batch \in Nat
  BY Bounds, PacerAssumption DEF TypeInv, LimitInv
<1>4. PICK d \in Nat : d = t - now
  BY <1>2, <1>3
<1>5. limit * d \in Nat
  BY <1>3
<1>6. CASE t < now + wait
  <2>1. Later(t)' = Later(t) \union {w} /\ w \notin Later(t)
    BY <1>1, <1>3, <1>6 DEF Later, Reserve, Waiting, TypeInv, Free
  <2>2. PICK n \in Nat : n = Cardinality(Later(t))
    BY Finite
  <2>3. Cardinality(Later(t))' = n + 1
    BY <2>1, <2>2, FS_AddElement, Finite
  <2>4. tokens + limit * d + Batch * n >= 0
    BY <1>2, <1>4, <2>2 DEF DebtInv
  <2>5. Batch * (n + 1) = Batch * n + Batch /\ Batch * n \in Nat
    BY <1>3
  <2>6. (tokens - Batch) + limit * d + (Batch * n + Batch) >= 0
    BY <1>3, <1>5, <2>4, <2>5
  <2>7. QED
    BY <1>2, <1>4, <2>3, <2>5, <2>6
<1>7. CASE t >= now + wait
  <2>1. limit * wait <= limit * d
    BY <1>3, <1>4, <1>7, Monotone
  <2>2. PICK b \in Nat : b = Batch * Cardinality(Later(t))'
    <3>1. IsFiniteSet(Later(t)')
      BY FS_Subset, PacerAssumption DEF Later
    <3>2. QED
      BY <3>1, FS_CardinalityType, PacerAssumption
  <2>3. limit * wait \in Nat
    BY <1>3
  <2>4. (tokens - Batch) + limit * d + b >= 0
    BY <1>1, <1>3, <1>5, <2>1, <2>3
  <2>5. QED
    BY <1>2, <1>4, <2>2, <2>4
<1>8. QED
  BY <1>3, <1>6, <1>7 DEF TypeInv

\* The ramp produces no fewer tokens than before; a worker that passes was not
\* one of those that come due later.
LEMMA OtherDebt ==
  ASSUME TypeInv, LimitInv, DebtInv, RampTick \/ \E w \in Workers : Pass(w)
  PROVE  DebtInv'
<1> SUFFICES ASSUME NEW t \in Nat, t >= now'
             PROVE  tokens' + limit' * (t - now') + Batch * Cardinality(Later(t))' >= 0
  BY DEF DebtInv
<1>1. now' = now /\ tokens' = tokens
  BY DEF RampTick, Pass
<1>2. Later(t)' = Later(t)
  <2>1. CASE RampTick
    BY <2>1 DEF RampTick, Later
  <2>2. ASSUME NEW w \in Workers, Pass(w)
        PROVE  Later(t)' = Later(t)
    BY <1>1, <2>2 DEF Pass, Waiting, Later, TypeInv, Free
  <2>3. QED
    BY <2>1, <2>2
<1>3. limit \in Nat /\ limit' \in Nat /\ limit <= limit'
  <2>1. CASE RampTick
    BY <2>1, Ramp, Bounds DEF LimitInv
  <2>2. CASE limit' = limit
    BY <2>2, Bounds DEF LimitInv
  <2>3. QED
    BY <2>1, <2>2 DEF Pass
<1>4. now \in Nat /\ tokens \in Int
  BY DEF TypeInv
<1>5. PICK d \in Nat : d = t - now
  BY <1>1, <1>4
<1>6. PICK b \in Nat : b = Batch * Cardinality(Later(t))
  BY Finite, PacerAssumption
<1>7. tokens + limit * d + b >= 0
  BY <1>1, <1>5, <1>6 DEF DebtInv
<1>8. PICK h \in Nat : h = limit'
  BY <1>3
<1>9. limit * d <= h * d /\ limit * d \in Nat /\ h * d \in Nat
  <2>1. limit <= h
    BY <1>3, <1>8
  <2>2. limit \in Nat
    BY <1>3
  <2>3. QED
    BY <2>1, <2>2, Produced
<1>10. tokens + h * d + b >= 0
  BY <1>4, <1>7, <1>9
<1>11. QED
  BY <1>1, <1>2, <1>5, <1>6, <1>8, <1>10

LEMMA NextDebt == TypeInv /\ LimitInv /\ DebtInv /\ [Next]_vars => DebtInv'
<1>1. ASSUME DebtInv, UNCHANGED vars
      PROVE  DebtInv'
  BY <1>1 DEF DebtInv, Later, vars
<1>2. QED
  BY <1>1, TickDebt, PassNowDebt, ReserveDebt, OtherDebt DEF Next, ClockStops

LEMMA DebtInvariance == Spec => []DebtInv
  BY InitDebt, NextDebt, LimitInvariance, PTL DEF Spec

\* Every worker that has not come due yet is waiting.
LEMMA PaidNow == TypeInv /\ LimitInv /\ DebtInv => DebtIsOwed
<1> SUFFICES ASSUME TypeInv, LimitInv, DebtInv
             PROVE  tokens + Batch * Cardinality(Waiting) >= 0
  BY DEF DebtIsOwed
<1>1. now \in Nat /\ tokens \in Int /\ limit \in Nat /\ Batch \in Nat
  BY Bounds, PacerAssumption DEF TypeInv, LimitInv
<1>2. limit * (now - now) = 0
  BY <1>1
<1>3. Later(now) \subseteq Waiting
  BY <1>1 DEF Later, Waiting, Free
<1>4. PICK n \in Nat : n = Cardinality(Later(now))
  BY Finite
<1>5. PICK m \in Nat : m = Cardinality(Waiting)
  BY Finite
<1>6. n <= m
  BY <1>3, <1>4, <1>5, Finite, FS_Subset
<1>7. tokens + Batch * n >= 0
  BY <1>1, <1>2, <1>4 DEF DebtInv
<1>8. Batch * n <= Batch * m /\ Batch * n \in Nat /\ Batch * m \in Nat
  BY <1>1, <1>6, Monotone
<1>9. QED
  BY <1>1, <1>5, <1>7, <1>8

\* The bucket is in debt only to workers that are still waiting in WaitN, late
\* timers and a ramp that changes the limit under their waits included.
THEOREM DebtIsAlwaysOwed == Spec => []DebtIsOwed
  BY PaidNow, LimitInvariance, DebtInvariance, PTL
-----------------------------------------------------------------------------
(* The budget.                                                             *)

LEMMA InitBudget == Init => BudgetInv
<1> SUFFICES ASSUME Init
             PROVE  BudgetInv
  OBVIOUS
<1>1. Waiting = {}
  BY DEF Init, Waiting
<1>2. QED
  BY <1>1, FS_EmptySet, Bounds, PacerAssumption DEF Init, BudgetInv

LEMMA NextBudget == TypeInv /\ LimitInv /\ BudgetInv /\ [Next]_vars => BudgetInv'
<1> SUFFICES ASSUME TypeInv, LimitInv, BudgetInv, [Next]_vars
             PROVE  BudgetInv'
  OBVIOUS
<1>1. PICK n \in Nat : n = Cardinality(Waiting)
  BY Finite
<1>2. Batch \in Nat /\ Batch * n \in Nat
  BY PacerAssumption
<1>3. admitted + Batch * n + tokens <= Burst + supply
  BY <1>1 DEF BudgetInv
<1>4. /\ admitted \in Nat /\ tokens \in Int /\ supply \in Nat
      /\ Burst \in Nat /\ limit \in Nat
  BY Bounds DEF TypeInv, LimitInv
<1>5. ASSUME Waiting' = Waiting,
             admitted' + tokens' - supply' <= admitted + tokens - supply,
             admitted' \in Nat, tokens' \in Int, supply' \in Nat
      PROVE  BudgetInv'
  <2>1. Cardinality(Waiting)' = n
    BY <1>1, <1>5
  <2>2. PICK a \in Nat, k \in Int, s \in Nat :
          a = admitted' /\ k = tokens' /\ s = supply'
    BY <1>5
  <2>3. a + k - s <= admitted + tokens - supply
    BY <1>5, <2>2
  <2>4. a + Batch * n + k <= Burst + s
    BY <1>2, <1>3, <1>4, <2>3
  <2>5. QED
    BY <2>1, <2>2, <2>4 DEF BudgetInv, Burst
<1>6. CASE Tick
  BY <1>4, <1>5, <1>6 DEF Tick, Waiting, Least
<1>7. CASE RampTick \/ UNCHANGED vars
  BY <1>4, <1>5, <1>7 DEF RampTick, Waiting, vars
<1>8. ASSUME NEW w \in Workers, PassNow(w)
      PROVE  BudgetInv'
  BY <1>2, <1>4, <1>5, <1>8 DEF PassNow, Waiting
<1>9. ASSUME NEW w \in Workers, Reserve(w)
      PROVE  BudgetInv'
  <2>1. PICK wait \in Nat : due' = [due EXCEPT ![w] = now + wait]
    BY <1>9, Reserved
  <2>2. Waiting' = Waiting \union {w} /\ w \notin Waiting
    BY <1>9, <2>1 DEF Waiting, Reserve, TypeInv, Free
  <2>3. Cardinality(Waiting)' = n + 1
    BY <1>1, <2>2, FS_AddElement, Finite
  <2>4. Batch * (n + 1) = Batch * n + Batch
    BY <1>2
  <2>5. admitted + (Batch * n + Batch) + (tokens - Batch) <= Burst + supply
    BY <1>2, <1>3, <1>4
  <2>6. QED
    BY <1>9, <2>3, <2>4, <2>5 DEF Reserve, BudgetInv, Burst
<1>10. ASSUME NEW w \in Workers, Pass(w)
      PROVE  BudgetInv'
  <2>1. Waiting' = Waiting \ {w} /\ w \in Waiting
    BY <1>10 DEF Waiting, Pass, TypeInv
  <2>2. Cardinality(Waiting)' = n - 1
    BY <1>1, <2>1, FS_RemoveElement, Finite
  <2>3. Batch * (n - 1) = Batch * n - Batch
    BY <1>2
  <2>4. (admitted + Batch) + (Batch * n - Batch) + tokens <= Burst + supply
    BY <1>2, <1>3, <1>4
  <2>5. QED
    BY <1>10, <2>2, <2>3, <2>4 DEF Pass, BudgetInv, Burst
<1>11. QED
  BY <1>6, <1>7, <1>8, <1>9, <1>10 DEF Next, ClockStops

LEMMA BudgetInvariance == Spec => []BudgetInv
  BY InitBudget, NextBudget, LimitInvariance, PTL DEF Spec

LEMMA NoMoreThanProduced == TypeInv /\ BudgetInv /\ DebtIsOwed => WithinBudget
<1> SUFFICES ASSUME TypeInv, BudgetInv, DebtIsOwed
             PROVE  admitted <= Burst + supply
  BY DEF WithinBudget
<1>1. PICK b \in Nat : b = Batch * Cardinality(Waiting)
  BY Finite, PacerAssumption
<1>2. QED
  BY <1>1, Bounds DEF TypeInv, BudgetInv, DebtIsOwed

\* No run lets through more spans than a full bucket and what the limits in
\* force have produced: neither late timers nor the ramp create tokens.
THEOREM NeverOverBudget == Spec => []WithinBudget
  BY NoMoreThanProduced, LimitInvariance, BudgetInvariance, DebtIsAlwaysOwed, PTL
-----------------------------------------------------------------------------
(* The line.                                                               *)

LEMMA InitArea == Init => AreaInv
  BY PacerAssumption, Bounds DEF Init, AreaInv

\* One more unit of time adds no more than the line has risen to by its end.
LEMMA TickArea ==
  ASSUME TypeInv, LimitInv, AreaInv, Tick
  PROVE  AreaInv'
<1>1. PICK x \in Int : x = supply - Start * now
  BY Bounds DEF TypeInv
<1>2. PICK y \in Nat : y = limit - Start
  BY Bounds DEF LimitInv
<1>3. /\ now \in Nat /\ rampAt \in Nat /\ rampAt <= now /\ supply \in Nat
      /\ RampTime \in Nat /\ Target \in Nat /\ Start \in Nat /\ limit \in Nat
  BY Bounds, PacerAssumption DEF TypeInv, LimitInv
<1>4. RampTime * y <= Target * now
  <2>1. CASE limit = Start
    <3>1. y = 0 /\ RampTime * 0 = 0 /\ Target * now \in Nat
      BY <1>2, <1>3, <2>1
    <3>2. QED
      BY <3>1
  <2>2. CASE RampTime * limit <= Target * rampAt
    <3>1. RampTime * y <= RampTime * limit
      BY <1>2, <1>3, Monotone
    <3>2. Target * rampAt <= Target * now
      BY <1>3, Monotone
    <3>3. QED
      BY <1>2, <1>3, <2>2, <3>1, <3>2
  <2>3. QED
    BY <2>1, <2>2 DEF LimitInv
<1>5. supply' - Start * now' = x + y
  <2>1. Start * (now + 1) = Start * now + Start
    BY <1>3
  <2>2. QED
    BY <1>1, <1>2, <1>3, <2>1 DEF Tick
<1>6. 2 * RampTime * x <= Target * now * now
  BY <1>1 DEF AreaInv
<1>7. 2 * RampTime * (x + y) <= Target * (now + 1) * (now + 1)
  <2>1. 2 * RampTime * (x + y) = 2 * RampTime * x + 2 * (RampTime * y)
    BY <1>1, <1>2, <1>3
  <2>2. Target * (now + 1) * (now + 1) = Target * now * now + 2 * (Target * now) + Target
    BY <1>3
  <2>3. /\ 2 * RampTime * x \in Int /\ RampTime * y \in Int
        /\ Target * now * now \in Int /\ Target * now \in Int
    BY <1>1, <1>2, <1>3
  <2>4. QED
    BY <1>3, <1>4, <1>6, <2>1, <2>2, <2>3
<1>8. now' = now + 1
  BY DEF Tick
<1>9. QED
  BY <1>5, <1>7, <1>8 DEF AreaInv, Start

LEMMA NextArea == TypeInv /\ LimitInv /\ AreaInv /\ [Next]_vars => AreaInv'
<1>1. ASSUME AreaInv, now' = now, supply' = supply
      PROVE  AreaInv'
  BY <1>1 DEF AreaInv, Start
<1>2. QED
  BY <1>1, TickArea DEF Next, RampTick, PassNow, Reserve, Pass, ClockStops, vars

LEMMA AreaInvariance == Spec => []AreaInv
  BY InitArea, NextArea, LimitInvariance, PTL DEF Spec

\* With a ramp, the spans let through stay under the line that ramp follows,
\* but for the floor it starts from and one full bucket.
THEOREM StaysUnderTheLine == Spec => []UnderTheLine
<1>1. TypeInv /\ AreaInv /\ WithinBudget => UnderTheLine
  <2> SUFFICES ASSUME TypeInv, AreaInv, WithinBudget
               PROVE  2 * RampTime * (admitted - Burst - Start * now) <= Target * now * now
    BY DEF UnderTheLine
  <2>1. PICK x \in Int : x = supply - Start * now
    BY Bounds DEF TypeInv
  <2>2. PICK y \in Int : y = admitted - Burst - Start * now
    BY Bounds DEF TypeInv
  <2>3. y <= x
    BY <2>1, <2>2, Bounds DEF TypeInv, WithinBudget
  <2>4. PICK r \in Nat : r = 2 * RampTime
    BY PacerAssumption
  <2>5. r * y <= r * x
    BY <2>3, <2>4
  <2>6. r * x <= Target * now * now
    BY <2>1, <2>4 DEF AreaInv
  <2>7. r * x \in Int /\ r * y \in Int /\ Target * now * now \in Int
    BY Bounds, <2>1, <2>2, <2>4 DEF TypeInv
  <2>8. r * y <= Target * now * now
    BY <2>5, <2>6, <2>7
  <2>9. QED
    BY <2>2, <2>4, <2>8
<1>2. QED
  BY <1>1, LimitInvariance, AreaInvariance, NeverOverBudget, PTL
=============================================================================
