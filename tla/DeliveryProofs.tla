--------------------------- MODULE DeliveryProofs ---------------------------
(* The rotation for any number of connections, any width of the counter    *)
(* and any replica index; and Delivery, which stands on it, for any        *)
(* replicas and workers.                                                   *)
EXTENDS Delivery, FiniteSetTheorems, TLAPS

\* The remainder of a natural number is a connection.
LEMMA RemainderIsConn ==
  ASSUME NEW x \in Nat, NEW n \in Nat \ {0}
  PROVE  x % n \in 0 .. n - 1
OBVIOUS

\* A positive multiple of a number is not below it.
LEMMA Multiple ==
  ASSUME NEW n \in Nat, NEW a \in Nat, NEW b \in Nat, a < b
  PROVE  n * b >= n * a + n
<1>1. PICK c \in Nat : b = a + 1 + c
  <2>1. b - a - 1 \in Nat /\ b = a + 1 + (b - a - 1)
    OBVIOUS
  <2>2. QED
    BY <2>1
<1>2. n * b = n * a + n + n * c
  BY <1>1
<1>3. n * c \in Nat /\ n * a \in Nat
  BY <1>1
<1>4. QED
  BY <1>2, <1>3

\* A number's quotient and remainder, and that they are the only ones.
LEMMA Division ==
  ASSUME NEW x \in Nat, NEW n \in Nat, n > 0
  PROVE  x \div n \in Nat /\ x = n * (x \div n) + (x % n)
<1>1. x \div n \in Nat
  OBVIOUS
<1>2. x = n * (x \div n) + (x % n)
  BY Z3
<1>3. QED
  BY <1>1, <1>2

LEMMA Remainder ==
  ASSUME NEW x \in Nat, NEW n \in Nat \ {0}, NEW q \in Int, NEW r \in 0 .. n - 1, x = n * q + r
  PROVE  x % n = r
BY Z3

\* The quotient and the remainder are the only ones.
LEMMA Quotient ==
  ASSUME NEW x \in Nat, NEW n \in Nat \ {0}, NEW k \in Nat, NEW m \in 0 .. n - 1, x = n * k + m
  PROVE  x % n = m /\ x \div n = k
<1>1. x % n = m
  BY Remainder
<1>2. PICK z \in Nat : z = x \div n /\ x = n * z + m
  BY <1>1, Division
<1>3. n * z \in Nat /\ n * k \in Nat
  BY <1>2
<1>4. n * z = n * k
  BY <1>2, <1>3
<1>5. ~(z < k) /\ ~(k < z)
  BY <1>2, <1>3, <1>4, Multiple
<1>6. z = k
  BY <1>2, <1>5
<1>7. QED
  BY <1>1, <1>2, <1>6

\* Numbers with the same remainder are at least the divisor apart.
LEMMA SameRemainder ==
  ASSUME NEW a \in Nat, NEW b \in Nat, NEW n \in Nat \ {0}, a < b, a % n = b % n
  PROVE  b - a >= n
<1> DEFINE p == a \div n
           q == b \div n
<1>1. p \in Nat /\ q \in Nat /\ a = n * p + (a % n) /\ b = n * q + (b % n)
  BY Division
<1>2. a % n \in Nat
  BY RemainderIsConn
<1>3. n * p \in Nat /\ n * q \in Nat
  BY <1>1
<1> HIDE DEF p, q
<1>4. p < q
  <2>1. CASE q < p
    <3>1. n * p >= n * q + n
      BY <1>1, <2>1, Multiple
    <3>2. QED
      BY <1>1, <1>2, <1>3, <3>1
  <2>2. CASE q = p
    BY <1>1, <1>2, <1>3, <2>2
  <2>3. QED
    BY <1>1, <2>1, <2>2
<1>5. n * q >= n * p + n
  BY <1>1, <1>4, Multiple
<1>6. QED
  BY <1>1, <1>2, <1>3, <1>5

\* Counting on from a remainder is counting on and reducing.
LEMMA CountOn ==
  ASSUME NEW x \in Nat, NEW n \in Nat \ {0}
  PROVE  ((x % n) + 1) % n = (x + 1) % n
<1> DEFINE q == x \div n
           r == x % n
<1>1. q \in Nat /\ x = n * q + r
  BY Division
<1>0. r \in 0 .. n - 1
  BY RemainderIsConn
<1>2. n * q \in Nat /\ n * (q + 1) = n * q + n /\ q + 1 \in Int
  <2> HIDE DEF q
  <2>1. QED
    BY <1>1
<1> HIDE DEF q, r
<1>3. CASE r + 1 < n
  <2>1. r + 1 \in 0 .. n - 1 /\ x + 1 = n * q + (r + 1) /\ r + 1 = n * 0 + (r + 1)
    BY <1>0, <1>1, <1>3
  <2>2. (x + 1) % n = r + 1 /\ (r + 1) % n = r + 1
    BY <1>0, <1>1, <2>1, Remainder
  <2>3. QED
    BY <2>2 DEF r
<1>4. CASE r + 1 = n
  <2>1. 0 \in 0 .. n - 1 /\ x + 1 = n * (q + 1) + 0 /\ r + 1 = n * 1 + 0 /\ r + 1 \in Nat
    BY <1>0, <1>1, <1>2, <1>4
  <2>2. (x + 1) % n = 0 /\ (r + 1) % n = 0
    BY <1>2, <2>1, Remainder
  <2>3. QED
    BY <2>2 DEF r
<1>5. QED
  BY <1>0, <1>3, <1>4
-----------------------------------------------------------------------------
\* A counter starts in its range, whatever the replica index.
LEMMA StartInRange ==
  ASSUME NEW r \in Replicas
  PROVE  StartAt(r) \in 0 .. Width - 1
<1>1. Rem(r, N) \in Int
  BY RotationAssumption DEF Rem
<1>2. QED
  BY <1>1, RotationAssumption DEF StartAt, Unsigned

LEMMA InStepInit == Init => InStep
<1> SUFFICES ASSUME Init PROVE InStep
  OBVIOUS
<1>1. ASSUME NEW r \in Replicas PROVE StartAt(r) = Unsigned(StartAt(r) + 0)
  BY StartInRange, RotationAssumption DEF Unsigned
<1>2. QED
  BY <1>1, StartInRange DEF Init, InStep

\* A pick from a sink with one connection, and from one with several.
PickOnly(r) == N = 1 /\ Take(r, 0) /\ UNCHANGED next
PickNext(r) ==
  /\ N > 1
  /\ next' = [next EXCEPT ![r] = Unsigned(next[r] + 1)]
  /\ Take(r, Unsigned(next[r] + 1) % N)

LEMMA PickCases ==
  ASSUME InStep, NEW r \in Replicas, Pick(r)
  PROVE  PickOnly(r) \/ PickNext(r)
<1>1. next' = [next EXCEPT ![r] = Counted(r)] /\ next \in [Replicas -> 0 .. Width - 1]
  BY DEF Pick, InStep
<1>2. CASE N = 1
  BY <1>1, <1>2 DEF Pick, Counted, PickOnly
<1>3. CASE N # 1
  BY <1>1, <1>3, RotationAssumption DEF Pick, Counted, PickNext
<1>4. QED
  BY <1>2, <1>3

LEMMA InStepStep == InStep /\ [Next]_vars => InStep'
<1> SUFFICES ASSUME InStep, [Next]_vars PROVE InStep'
  OBVIOUS
<1> USE RotationAssumption DEF InStep
<1>1. ASSUME NEW r \in Replicas, PickOnly(r) PROVE InStep'
  <2>1. N = 1 /\ 0 \in Conns
    BY <1>1 DEF PickOnly, Conns
  <2>2. picked' = [picked EXCEPT ![r] = Append(picked[r], 0)] /\ next' = next
    BY <1>1 DEF PickOnly, Take
  <2>3. picked' \in [Replicas -> Seq(Conns)]
    BY <2>1, <2>2
  <2>4. ASSUME NEW p \in Replicas, NEW i \in 1 .. Len(picked'[p])
        PROVE  picked'[p][i] = Unsigned(StartAt(p) + i) % N
    <3>1. Unsigned(StartAt(p) + i) % N = 0
      BY <2>1, StartInRange DEF Unsigned
    <3>2. picked'[p][i] \in Conns
      BY <2>3
    <3>3. QED
      BY <2>1, <3>1, <3>2 DEF Conns
  <2>5. QED
    BY <2>1, <2>2, <2>3, <2>4
<1>2. ASSUME NEW r \in Replicas, PickNext(r) PROVE InStep'
  <2>0. PICK n : n = Unsigned(next[r] + 1)
    OBVIOUS
  <2>1. /\ N > 1 /\ next' = [next EXCEPT ![r] = n]
        /\ picked' = [picked EXCEPT ![r] = Append(picked[r], n % N)]
    BY <1>2, <2>0 DEF PickNext, Take
  <2>2. n \in 0 .. Width - 1 /\ n \in Nat
    BY <2>0 DEF Unsigned
  <2>3. n % N \in Conns
    BY <2>2, RemainderIsConn DEF Conns
  <2>4. n = Unsigned(StartAt(r) + (Len(picked[r]) + 1))
    <3>1. StartAt(r) + Len(picked[r]) \in Nat
      BY StartInRange
    <3>2. next[r] = Unsigned(StartAt(r) + Len(picked[r]))
      BY <2>1
    <3>3. Unsigned(next[r] + 1) = Unsigned((StartAt(r) + Len(picked[r])) + 1)
      BY <3>1, <3>2, CountOn DEF Unsigned
    <3>4. (StartAt(r) + Len(picked[r])) + 1 = StartAt(r) + (Len(picked[r]) + 1)
      BY StartInRange
    <3>5. QED
      BY <2>0, <3>3, <3>4
  <2>5. next' \in [Replicas -> 0 .. Width - 1] /\ picked' \in [Replicas -> Seq(Conns)]
    BY <2>1, <2>2, <2>3
  <2>6. ASSUME NEW p \in Replicas
        PROVE  /\ next'[p] = Unsigned(StartAt(p) + Len(picked'[p]))
               /\ \A i \in 1 .. Len(picked'[p]) :
                    picked'[p][i] = Unsigned(StartAt(p) + i) % N
    <3>1. CASE p = r
      <4>1. Len(picked'[r]) = Len(picked[r]) + 1 /\ next'[r] = n
        BY <2>1, <2>3
      <4>2. \A i \in 1 .. Len(picked[r]) : picked'[r][i] = picked[r][i]
        BY <2>1, <2>3
      <4>3. picked'[r][Len(picked[r]) + 1] = n % N
        BY <2>1, <2>3
      <4>4. ASSUME NEW i \in 1 .. Len(picked'[r])
            PROVE  picked'[r][i] = Unsigned(StartAt(r) + i) % N
        <5>1. CASE i = Len(picked[r]) + 1
          BY <2>4, <4>3, <5>1
        <5>2. CASE i # Len(picked[r]) + 1
          <6>1. i \in 1 .. Len(picked[r])
            BY <4>1, <5>2
          <6>2. QED
            BY <4>2, <6>1
        <5>3. QED
          BY <5>1, <5>2
      <4>5. QED
        BY <2>4, <3>1, <4>1, <4>4
    <3>2. CASE p # r
      BY <2>1, <2>3, <3>2
    <3>3. QED
      BY <3>1, <3>2
  <2>7. QED
    BY <2>5, <2>6
<1>3. CASE UNCHANGED vars
  BY <1>3 DEF vars
<1>4. QED
  BY <1>1, <1>2, <1>3, PickCases DEF Next, Done

\* No two workers of a replica ever get the same number from its counter.
THEOREM RotationInStep == Spec => []InStep
BY InStepInit, InStepStep, PTL DEF Spec

\* Until the counter wraps, two picks of one connection are a cycle apart.
LEMMA ApartWhileInStep == InStep => CyclesApart
<1> SUFFICES ASSUME InStep, NEW r \in Replicas, ~Wrapped(r),
                    NEW i \in 1 .. Len(picked[r]), NEW j \in 1 .. Len(picked[r]),
                    i < j, picked[r][i] = picked[r][j]
             PROVE  j - i >= N
  BY DEF CyclesApart
<1> DEFINE a == StartAt(r) + i
           b == StartAt(r) + j
<1>0. N \in Nat \ {0} /\ Width \in Nat \ {0} /\ Len(picked[r]) \in Nat
  BY RotationAssumption DEF InStep
<1>1. a \in Nat /\ b \in Nat /\ a < b /\ a < Width /\ b < Width /\ j - i = b - a
  BY <1>0, StartInRange DEF Wrapped
<1>2. Unsigned(a) = a /\ Unsigned(b) = b
  <2> HIDE DEF a, b
  <2>1. QED
    BY <1>0, <1>1 DEF Unsigned
<1>3. a % N = b % N
  BY <1>2 DEF InStep
<1>4. b - a >= N
  <2> HIDE DEF a, b
  <2>1. QED
    BY <1>0, <1>1, <1>3, SameRemainder
<1>5. QED
  BY <1>1, <1>4

\* A connection is picked again only after all the others have been.
THEOREM RotationCycles == Spec => []CyclesApart
BY RotationInStep, ApartWhileInStep, PTL
-----------------------------------------------------------------------------
(* The shares.                                                             *)

\* A pick adds one to the picks of its replica and changes none before it.
LEMMA PickAppends ==
  ASSUME InStep, NEW r \in Replicas, Pick(r)
  PROVE  /\ Len(picked'[r]) = Len(picked[r]) + 1
         /\ \A p \in Replicas : p # r => picked'[p] = picked[p]
         /\ \A p \in Replicas :
              /\ Len(picked[p]) \in Nat /\ Len(picked[p]) <= Len(picked'[p])
              /\ \A i \in 1 .. Len(picked[p]) : picked'[p][i] = picked[p][i]
<1>1. PICK c \in Conns : picked' = [picked EXCEPT ![r] = Append(picked[r], c)]
  <2>1. CASE PickOnly(r)
    BY <2>1 DEF PickOnly, Take, Conns
  <2>2. CASE PickNext(r)
    <3>1. Unsigned(next[r] + 1) \in Nat
      BY RotationAssumption DEF InStep, Unsigned
    <3>2. Unsigned(next[r] + 1) % N \in Conns
      BY <3>1, RemainderIsConn, RotationAssumption DEF Conns
    <3>3. QED
      BY <2>2, <3>2 DEF PickNext, Take
  <2>3. QED
    BY <2>1, <2>2, PickCases
<1>2. picked \in [Replicas -> Seq(Conns)]
  BY DEF InStep
<1>3. picked'[r] = Append(picked[r], c)
  BY <1>1, <1>2
<1>4. ASSUME NEW p \in Replicas, p # r PROVE picked'[p] = picked[p]
  BY <1>1, <1>2, <1>4
<1>5. QED
  BY <1>2, <1>3, <1>4

\* How many of the numbers from 0 to x leave the remainder c.
Upto(x, c) == x \div N + (IF c <= x % N THEN 1 ELSE 0)

LEMMA NextQuotient ==
  ASSUME NEW x \in Nat
  PROVE  \/ /\ (x % N) + 1 < N
            /\ (x + 1) % N = (x % N) + 1 /\ (x + 1) \div N = x \div N
         \/ /\ (x % N) + 1 = N
            /\ (x + 1) % N = 0 /\ (x + 1) \div N = x \div N + 1
<1> DEFINE q == x \div N
           r == x % N
<1>1. N \in Nat /\ N > 0 /\ N \in Nat \ {0}
  BY RotationAssumption
<1>2. q \in Nat /\ x = N * q + r /\ r \in 0 .. N - 1
  BY <1>1, Division, RemainderIsConn
<1>3. N * (q + 1) = N * q + N
  <2> HIDE DEF q
  <2>1. QED
    BY <1>1, <1>2
<1> DEFINE y == x + 1
<1>4. y \in Nat /\ y \div N \in Nat /\ y = N * (y \div N) + (y % N)
  BY <1>1, Division
<1>5. y % N \in 0 .. N - 1
  BY <1>1, <1>4, RemainderIsConn
<1>6. ASSUME NEW k \in Nat, NEW m \in 0 .. N - 1, y = N * k + m
      PROVE  y % N = m /\ y \div N = k
  <2> HIDE DEF y
  <2>1. QED
    BY <1>1, <1>4, <1>6, Quotient
<1> HIDE DEF q, r
<1>7. CASE r + 1 < N
  <2>1. r + 1 \in 0 .. N - 1 /\ y = N * q + (r + 1)
    <3>1. N * q \in Nat
      BY <1>1, <1>2
    <3>2. QED
      BY <1>1, <1>2, <1>7, <3>1 DEF y
  <2>2. y % N = r + 1 /\ y \div N = q
    BY <1>2, <1>6, <2>1
  <2>3. QED
    BY <1>7, <2>2 DEF y, q, r
<1>8. CASE r + 1 = N
  <2>1. 0 \in 0 .. N - 1 /\ y = N * (q + 1) + 0 /\ q + 1 \in Nat
    <3>1. N * q \in Nat
      BY <1>1, <1>2
    <3>2. QED
      BY <1>1, <1>2, <1>3, <1>8, <3>1 DEF y
  <2>2. y % N = 0 /\ y \div N = q + 1
    BY <1>6, <2>1
  <2>3. QED
    BY <1>8, <2>2 DEF y, q, r
<1>9. QED
  BY <1>1, <1>2, <1>7, <1>8

LEMMA UptoNext ==
  ASSUME NEW x \in Nat, NEW c \in Conns
  PROVE  /\ Upto(x, c) \in Nat
         /\ Upto(x + 1, c) = Upto(x, c) + IF (x + 1) % N = c THEN 1 ELSE 0
<1>1. /\ N \in Nat /\ N > 0 /\ x \div N \in Nat /\ x % N \in 0 .. N - 1
      /\ c \in Nat /\ c >= 0 /\ c < N
  BY RotationAssumption, Division, RemainderIsConn DEF Conns
<1> DEFINE q == x \div N
           r == x % N
           q1 == (x + 1) \div N
           r1 == (x + 1) % N
<1>2. \/ r + 1 < N /\ r1 = r + 1 /\ q1 = q
      \/ r + 1 = N /\ r1 = 0 /\ q1 = q + 1
  BY NextQuotient
<1>3. q \in Nat /\ r \in 0 .. N - 1
  BY <1>1
<1> HIDE DEF q, r, q1, r1
<1>4. q1 + (IF c <= r1 THEN 1 ELSE 0)
        = (q + (IF c <= r THEN 1 ELSE 0)) + IF r1 = c THEN 1 ELSE 0
  BY <1>1, <1>2, <1>3
<1>5. q + (IF c <= r THEN 1 ELSE 0) \in Nat
  BY <1>3
<1>6. QED
  BY <1>4, <1>5 DEF Upto, q, r, q1, r1

\* Two remainders are equally frequent between any two places, to within one.
LEMMA UptoSpread ==
  ASSUME NEW x \in Nat, NEW y \in Nat, NEW a \in Conns, NEW b \in Conns
  PROVE  /\ (Upto(y, a) - Upto(x, a)) - (Upto(y, b) - Upto(x, b)) <= 1
         /\ Upto(y, a) - Upto(y, b) <= 1
<1>1. /\ N \in Nat /\ x \div N \in Nat /\ y \div N \in Nat
      /\ x % N \in Nat /\ y % N \in Nat /\ a \in Nat /\ b \in Nat
  BY RotationAssumption, Division, RemainderIsConn DEF Conns
<1>2. ASSUME NEW q \in Nat, NEW r \in Nat, NEW k \in Nat, NEW m \in Nat
      PROVE  /\ ((k + (IF a <= m THEN 1 ELSE 0)) - (q + (IF a <= r THEN 1 ELSE 0)))
                - ((k + (IF b <= m THEN 1 ELSE 0)) - (q + (IF b <= r THEN 1 ELSE 0))) <= 1
             /\ (k + (IF a <= m THEN 1 ELSE 0)) - (k + (IF b <= m THEN 1 ELSE 0)) <= 1
  BY <1>1
<1>3. QED
  BY <1>1, <1>2 DEF Upto

\* What a connection has got when the count that began at s has come to k: the
\* counter starts again from 0 when it reaches Width.
Expected(s, k, c) ==
  IF k < Width THEN Upto(k, c) - Upto(s, c)
  ELSE (Upto(Width - 1, c) - Upto(s, c)) + Upto(k - Width, c)

LEMMA ExpectedNext ==
  ASSUME NEW s \in 0 .. Width - 1, NEW k \in Nat, k >= s, k + 1 < 2 * Width, NEW c \in Conns
  PROVE  /\ Expected(s, k, c) \in Int
         /\ Expected(s, k + 1, c)
              = Expected(s, k, c) + IF Unsigned(k + 1) % N = c THEN 1 ELSE 0
<1>1. /\ N \in Nat /\ Width \in Nat /\ Width - 1 \in Nat /\ Width > 0 /\ s \in Nat
      /\ c \in Nat /\ c < N /\ N > 0
  BY RotationAssumption DEF Conns
<1>2. Upto(k, c) \in Nat /\ Upto(s, c) \in Nat /\ Upto(Width - 1, c) \in Nat
  BY <1>1, UptoNext
<1>3. k >= Width => k - Width \in Nat /\ Upto(k - Width, c) \in Nat
  <2>1. k >= Width => k - Width \in Nat
    BY <1>1
  <2>2. QED
    BY <2>1, UptoNext
<1>4. Expected(s, k, c) \in Int
  BY <1>1, <1>2, <1>3 DEF Expected
<1>5. CASE k + 1 < Width
  <2>1. Unsigned(k + 1) = k + 1
    BY <1>1, <1>5 DEF Unsigned
  <2>2. Upto(k + 1, c) = Upto(k, c) + IF (k + 1) % N = c THEN 1 ELSE 0
    BY UptoNext
  <2>3. k < Width
    BY <1>1, <1>5
  <2>4. QED
    BY <1>2, <1>4, <1>5, <2>1, <2>2, <2>3 DEF Expected
<1>6. CASE k + 1 = Width
  <2>1. Unsigned(k + 1) = 0 /\ 0 % N = 0 /\ 0 \div N = 0
    BY <1>1, <1>6 DEF Unsigned
  <2>2. Upto(0, c) = IF c = 0 THEN 1 ELSE 0
    BY <1>1, <2>1 DEF Upto
  <2>3. k < Width /\ Width - 1 = k /\ (k + 1) - Width = 0 /\ ~(k + 1 < Width)
    BY <1>1, <1>6
  <2>4. Expected(s, k + 1, c) = (Upto(k, c) - Upto(s, c)) + Upto(0, c)
    BY <2>3 DEF Expected
  <2>5. Expected(s, k, c) = Upto(k, c) - Upto(s, c)
    BY <2>3 DEF Expected
  <2>6. QED
    BY <1>2, <1>4, <2>1, <2>2, <2>4, <2>5
<1>7. CASE k + 1 > Width
  <2>1. k - Width \in Nat /\ (k + 1) - Width = (k - Width) + 1 /\ ~(k + 1 < Width) /\ ~(k < Width)
    BY <1>1, <1>7
  <2>2. Unsigned(k + 1) = (k - Width) + 1
    <3>1. (k - Width) + 1 \in 0 .. Width - 1 /\ k + 1 = Width * 1 + ((k - Width) + 1)
      BY <1>1, <1>7
    <3>2. QED
      BY <1>1, <3>1, Remainder DEF Unsigned
  <2>3. Upto((k - Width) + 1, c)
          = Upto(k - Width, c) + IF ((k - Width) + 1) % N = c THEN 1 ELSE 0
    BY <2>1, UptoNext
  <2>4. /\ Expected(s, k + 1, c)
             = (Upto(Width - 1, c) - Upto(s, c)) + Upto((k - Width) + 1, c)
        /\ Expected(s, k, c) = (Upto(Width - 1, c) - Upto(s, c)) + Upto(k - Width, c)
    BY <2>1 DEF Expected
  <2>5. PICK u \in Nat, v \in Nat, w \in Nat :
          /\ u = Upto(Width - 1, c) /\ v = Upto(s, c) /\ w = Upto(k - Width, c)
    <3>1. Upto(k - Width, c) \in Nat
      BY <2>1, UptoNext
    <3>2. QED
      BY <1>2, <3>1
  <2> DEFINE d == IF Unsigned(k + 1) % N = c THEN 1 ELSE 0
  <2>6. d \in Nat /\ Upto((k - Width) + 1, c) = w + d
    BY <2>2, <2>3, <2>5
  <2>7. /\ Expected(s, k + 1, c) = (u - v) + (w + d)
        /\ Expected(s, k, c) = (u - v) + w
    BY <2>4, <2>5, <2>6
  <2> HIDE DEF d
  <2>8. (u - v) + (w + d) = ((u - v) + w) + d
    BY <2>5, <2>6
  <2>9. QED
    BY <1>4, <2>7, <2>8 DEF d
<1>8. QED
  BY <1>1, <1>4, <1>5, <1>6, <1>7

\* What the rotation promises, of the picks made so far.
ShareInv ==
  \A r \in Replicas : StartAt(r) + Len(picked[r]) < 2 * Width =>
    \A c \in Conns : Share(r, c) = Expected(StartAt(r), StartAt(r) + Len(picked[r]), c)

LEMMA ShareInvInit == Init => ShareInv
<1> SUFFICES ASSUME Init, NEW r \in Replicas, NEW c \in Conns
             PROVE  Share(r, c) = Expected(StartAt(r), StartAt(r) + Len(picked[r]), c)
  BY DEF ShareInv
<1>1. picked[r] = <<>>
  BY DEF Init
<1>2. Share(r, c) = 0
  <2>1. {i \in DOMAIN picked[r] : picked[r][i] = c} = {}
    BY <1>1
  <2>2. QED
    BY <2>1, FS_EmptySet DEF Share
<1>3. StartAt(r) \in Nat /\ StartAt(r) < Width /\ Len(picked[r]) = 0
  BY <1>1, StartInRange, RotationAssumption
<1>4. Upto(StartAt(r), c) \in Nat
  BY <1>3, UptoNext
<1>5. Expected(StartAt(r), StartAt(r), c) = 0
  BY <1>3, <1>4 DEF Expected
<1>6. QED
  BY <1>2, <1>3, <1>5

\* A pick is a share more for the connection picked.
LEMMA ShareGrows ==
  ASSUME InStep, NEW r \in Replicas, Pick(r), NEW c \in Conns
  PROVE  /\ Share(r, c) \in Nat
         /\ Share(r, c)' = Share(r, c)
                             + IF picked'[r][Len(picked[r]) + 1] = c THEN 1 ELSE 0
<1> DEFINE A == {i \in DOMAIN picked[r] : picked[r][i] = c}
           B == {i \in DOMAIN picked'[r] : picked'[r][i] = c}
<1>1. PICK n \in Nat, m \in Nat :
        /\ n = Len(picked[r]) /\ m = n + 1 /\ m = Len(picked'[r]) /\ m \notin 1 .. n
        /\ DOMAIN picked[r] = 1 .. n
  BY PickAppends DEF InStep
<1>2. DOMAIN picked'[r] = (1 .. n) \union {m}
  <2>1. DOMAIN picked'[r] = 1 .. m
    BY <1>1, InStepStep DEF InStep, Next
  <2>2. QED
    BY <1>1, <2>1
<1>3. \A i \in 1 .. n : picked'[r][i] = picked[r][i]
  BY <1>1, PickAppends
<1>4. IsFiniteSet(A) /\ Cardinality(A) \in Nat
  <2>1. IsFiniteSet(1 .. n)
    BY <1>1, FS_Interval
  <2>2. A \subseteq 1 .. n
    BY <1>1
  <2>3. QED
    BY <2>1, <2>2, FS_Subset, FS_CardinalityType
<1>5. CASE picked'[r][m] = c
  <2>1. B = A \union {m} /\ m \notin A
    BY <1>1, <1>2, <1>3, <1>5
  <2>2. Cardinality(B) = Cardinality(A) + 1
    BY <1>4, <2>1, FS_AddElement
  <2>3. QED
    BY <1>1, <1>4, <1>5, <2>2 DEF Share
<1>6. CASE picked'[r][m] # c
  <2>1. B = A
    BY <1>1, <1>2, <1>3, <1>6
  <2>2. Cardinality(B) = Cardinality(A) + 0
    BY <1>4, <2>1
  <2>3. Share(r, c) = Cardinality(A) /\ Share(r, c)' = Cardinality(B)
    BY DEF Share
  <2>4. QED
    BY <1>1, <1>4, <1>6, <2>2, <2>3
<1>7. QED
  BY <1>5, <1>6

LEMMA ShareInvStep == InStep /\ ShareInv /\ [Next]_vars => ShareInv'
<1> SUFFICES ASSUME InStep, ShareInv, [Next]_vars PROVE ShareInv'
  OBVIOUS
<1>1. ASSUME NEW r \in Replicas, Pick(r),
             NEW p \in Replicas, StartAt(p) + Len(picked'[p]) < 2 * Width, NEW c \in Conns
      PROVE  Share(p, c)' = Expected(StartAt(p), StartAt(p) + Len(picked'[p]), c)
  <2>1. CASE p # r
    <3>1. picked'[p] = picked[p]
      BY <1>1, <2>1, PickAppends
    <3>2. Share(p, c) = Expected(StartAt(p), StartAt(p) + Len(picked[p]), c)
      BY <1>1, <3>1 DEF ShareInv
    <3>3. QED
      BY <3>1, <3>2 DEF Share
  <2>2. CASE p = r
    <3>1. PICK n \in Nat, s \in 0 .. Width - 1 :
            /\ n = Len(picked[r]) /\ Len(picked'[r]) = n + 1 /\ s = StartAt(r)
      BY <1>1, PickAppends, StartInRange
    <3>2. InStep'
      BY <1>1, InStepStep DEF Next
    <3>3. picked'[r][n + 1] = Unsigned(s + (n + 1)) % N
      BY <3>1, <3>2 DEF InStep
    <3>4. s + n \in Nat /\ s + n >= s /\ (s + n) + 1 = s + (n + 1) /\ (s + n) + 1 < 2 * Width
      BY <1>1, <2>2, <3>1, RotationAssumption
    <3>5. Share(r, c) = Expected(s, s + n, c)
      BY <3>1, <3>4, RotationAssumption DEF ShareInv
    <3>6. Expected(s, (s + n) + 1, c)
            = Expected(s, s + n, c) + IF Unsigned((s + n) + 1) % N = c THEN 1 ELSE 0
      BY <3>4, ExpectedNext
    <3>7. Share(r, c)' = Share(r, c) + IF picked'[r][n + 1] = c THEN 1 ELSE 0
      BY <1>1, <3>1, ShareGrows
    <3>8. QED
      BY <2>2, <3>1, <3>3, <3>4, <3>5, <3>6, <3>7
  <2>3. QED
    BY <2>1, <2>2
<1>2. CASE UNCHANGED vars
  BY <1>2 DEF vars, ShareInv, Share
<1>3. QED
  BY <1>1, <1>2 DEF Next, Done, ShareInv

LEMMA EvenWhileShared == InStep /\ ShareInv => EvenShares
<1> SUFFICES ASSUME InStep, ShareInv, NEW r \in Replicas,
                    StartAt(r) + Len(picked[r]) < 2 * Width,
                    NEW a \in Conns, NEW b \in Conns
             PROVE  Share(r, a) - Share(r, b) <= IF Wrapped(r) THEN 2 ELSE 1
  BY DEF EvenShares
<1>1. PICK k \in Nat, s \in Nat :
        k = StartAt(r) + Len(picked[r]) /\ s = StartAt(r)
  BY StartInRange, RotationAssumption DEF InStep
<1>2. Share(r, a) = Expected(s, k, a) /\ Share(r, b) = Expected(s, k, b)
  BY <1>1 DEF ShareInv
<1>3. Width \in Nat /\ Width - 1 \in Nat
  BY RotationAssumption
<1>4. \A x \in Nat, c \in Conns : Upto(x, c) \in Nat
  BY UptoNext
<1>5. CASE k < Width
  <2>1. ~Wrapped(r)
    BY <1>1, <1>3, <1>5 DEF Wrapped
  <2>2. (Upto(k, a) - Upto(s, a)) - (Upto(k, b) - Upto(s, b)) <= 1
    BY UptoSpread
  <2>3. QED
    BY <1>2, <1>5, <2>1, <2>2 DEF Expected
<1>6. CASE ~(k < Width)
  <2>1. Wrapped(r) /\ k - Width \in Nat
    BY <1>1, <1>3, <1>6 DEF Wrapped
  <2>2. (Upto(Width - 1, a) - Upto(s, a)) - (Upto(Width - 1, b) - Upto(s, b)) <= 1
    BY <1>3, UptoSpread
  <2>3. Upto(k - Width, a) - Upto(k - Width, b) <= 1
    BY <2>1, UptoSpread
  <2>4. /\ Upto(Width - 1, a) \in Nat /\ Upto(s, a) \in Nat /\ Upto(k - Width, a) \in Nat
        /\ Upto(Width - 1, b) \in Nat /\ Upto(s, b) \in Nat /\ Upto(k - Width, b) \in Nat
    BY <1>3, <1>4, <2>1
  <2>5. /\ Share(r, a) = (Upto(Width - 1, a) - Upto(s, a)) + Upto(k - Width, a)
        /\ Share(r, b) = (Upto(Width - 1, b) - Upto(s, b)) + Upto(k - Width, b)
    BY <1>2, <1>6 DEF Expected
  <2>6. QED
    BY <2>1, <2>2, <2>3, <2>4, <2>5
<1>7. QED
  BY <1>5, <1>6

\* No shard gets more of a replica's attempts than another, but for one, and
\* one more once the counter has wrapped: for any number of shards.
THEOREM SharesAreEven == Spec => []EvenShares
<1>1. Spec => []ShareInv
  BY RotationInStep, ShareInvInit, ShareInvStep, PTL DEF Spec
<1>2. QED
  BY <1>1, RotationInStep, EvenWhileShared, PTL

\* The replicas in shard-roundrobin mode are numbered without a gap, as the
\* pods of a StatefulSet are from 0.
Consecutive == \E lo, hi \in Int : -1 <= lo /\ Offset = lo .. hi

\* The first pick of such a replica is the connection after its index.
LEMMA FirstPick ==
  ASSUME NEW r \in Offset, r \in Int, -1 <= r
  PROVE  Unsigned(StartAt(r) + 1) % N = (r + 1) % N
<1>0. N \in Nat \ {0} /\ Width \in Nat \ {0} /\ N < Width
  BY RotationAssumption
<1>1. StartAt(r) = Unsigned(Rem(r, N))
  BY DEF StartAt
<1>2. CASE r >= 0
  <2>1. PICK m \in 0 .. N - 1 : m = r % N
    <3>1. r \in Nat
      BY <1>2
    <3>2. QED
      BY <1>0, <3>1, RemainderIsConn
  <2>2. Unsigned(m) = m /\ Unsigned(m + 1) = m + 1
    BY <1>0 DEF Unsigned
  <2>3. StartAt(r) = m
    BY <1>1, <1>2, <2>1, <2>2 DEF Rem
  <2>4. (m + 1) % N = (r + 1) % N
    <3>1. r \in Nat
      BY <1>2
    <3>2. QED
      BY <1>0, <2>1, <3>1, CountOn
  <2>5. QED
    BY <2>2, <2>3, <2>4
<1>3. CASE r = -1
  <2>1. 0 % N = 0
    BY <1>0
  <2>2. CASE N = 1
    <3>1. Rem(r, N) = 0 /\ Unsigned(0) = 0 /\ Unsigned(1) = 1 /\ 1 % N = 0
      BY <1>0, <1>3, <2>2 DEF Rem, Unsigned
    <3>2. QED
      BY <1>1, <1>3, <2>1, <3>1
  <2>3. CASE N > 1
    <3>1. Rem(r, N) = -1
      BY <1>0, <1>3, <2>3 DEF Rem
    <3>2. Unsigned(-1) = Width - 1 /\ Unsigned(Width) = 0
      BY <1>0 DEF Unsigned
    <3>3. (Width - 1) + 1 = Width
      BY <1>0
    <3>4. QED
      BY <1>1, <1>3, <2>1, <3>1, <3>2, <3>3
  <2>4. QED
    BY <1>0, <2>2, <2>3
<1>4. QED
  BY <1>2, <1>3

\* Among consecutive numbers a remainder is no more frequent than its share.
LEMMA RemaindersSpread ==
  ASSUME NEW lo \in Int, NEW hi \in Int, -1 <= lo, NEW c,
         NEW P \in SUBSET (lo .. hi), \A r \in P : (r + 1) % N = c
  PROVE  Cardinality(P) <= (Cardinality(lo .. hi) + N - 1) \div N
<1>0. N \in Nat \ {0} /\ N \in Nat /\ N > 0
  BY RotationAssumption
<1>1. IsFiniteSet(P) /\ Cardinality(P) \in Nat
  BY FS_Interval, FS_Subset, FS_CardinalityType
<1>2. CASE hi < lo
  <2>1. lo .. hi = {} /\ P = {}
    BY <1>2
  <2>2. Cardinality(P) = 0 /\ Cardinality(lo .. hi) = 0
    BY <2>1, FS_EmptySet
  <2>3. (0 + N - 1) \div N \in Nat
    BY <1>0
  <2>4. QED
    BY <2>2, <2>3
<1>3. CASE lo <= hi
  <2>1. PICK d \in Nat : d = hi - lo
    BY <1>3
  <2>2. PICK q \in Nat, m \in 0 .. N - 1 : d = N * q + m
    BY <1>0, <2>1, Division, RemainderIsConn
  <2>3. N * q \in Nat /\ N * (q + 1) = N * q + N
    BY <1>0, <2>2
  <2>4. (Cardinality(lo .. hi) + N - 1) \div N = q + 1
    <3>1. Cardinality(lo .. hi) = d + 1
      BY <1>3, <2>1, FS_Interval
    <3>2. PICK x \in Nat : x = (d + 1) + N - 1
      BY <1>0, <2>1
    <3>3. x = N * (q + 1) + m /\ q + 1 \in Nat
      BY <1>0, <2>1, <2>2, <2>3, <3>2
    <3>4. x \div N = q + 1
      BY <1>0, <2>2, <3>2, <3>3, Quotient
    <3>5. QED
      BY <3>1, <3>2, <3>4
  <2> DEFINE f == [r \in P |-> (r - lo) \div N]
  <2>5. ASSUME NEW r \in P
        PROVE  \E k \in 0 .. q, i \in 0 .. N - 1 : f[r] = k /\ r - lo = N * k + i
    <3>1. PICK x \in Nat : x = r - lo /\ x <= d
      BY <2>1
    <3>2. PICK k \in Nat, i \in 0 .. N - 1 : k = x \div N /\ x = N * k + i
      BY <1>0, <3>1, Division, RemainderIsConn
    <3>3. N * k \in Nat
      BY <1>0, <3>2
    <3>4. ~(q < k)
      <4>1. SUFFICES ASSUME q < k PROVE N * k >= N * q + N => FALSE
        BY <1>0, <2>2, <3>2, Multiple
      <4>2. QED
        BY <1>0, <2>1, <2>2, <2>3, <3>1, <3>2, <3>3
    <3>5. k \in 0 .. q
      BY <2>2, <3>2, <3>4
    <3>6. f[r] = k
      BY <3>1, <3>2
    <3>7. QED
      BY <3>1, <3>2, <3>5, <3>6
  <2>6. f \in [P -> 0 .. q]
    BY <2>5
  <2>7. ASSUME NEW r \in P, NEW s \in P, r < s, f[r] = f[s]
        PROVE  FALSE
    <3>1. PICK k \in 0 .. q, i \in 0 .. N - 1, j \in 0 .. N - 1 :
            r - lo = N * k + i /\ s - lo = N * k + j
      BY <2>5, <2>7
    <3>2. N * k \in Nat
      BY <1>0, <2>2, <3>1
    <3>3. s - r < N
      BY <1>0, <3>1, <3>2
    <3>4. PICK a \in Nat, b \in Nat : a = r + 1 /\ b = s + 1
      OBVIOUS
    <3>5. a < b /\ a % N = b % N /\ b - a = s - r
      BY <2>7, <3>4
    <3>6. b - a >= N
      BY <1>0, <3>4, <3>5, SameRemainder
    <3>7. QED
      BY <1>0, <3>3, <3>5, <3>6
  <2>8. f \in Injection(P, 0 .. q)
    <3> HIDE DEF f
    <3>1. ASSUME NEW r \in P, NEW s \in P, f[r] = f[s] PROVE r = s
      <4>1. r \in Int /\ s \in Int
        OBVIOUS
      <4>2. ~(r < s) /\ ~(s < r)
        BY <2>7, <3>1
      <4>3. QED
        BY <4>1, <4>2
    <3>2. QED
      BY <2>6, <3>1 DEF Injection, IsInjective
  <2>9. IsFiniteSet(0 .. q) /\ Cardinality(0 .. q) = q + 1
    BY <2>2, FS_Interval
  <2>10. Cardinality(P) <= q + 1
    BY <2>8, <2>9, FS_Injection
  <2>11. QED
    BY <2>4, <2>10
<1>4. QED
  BY <1>2, <1>3

LEMMA SpreadInStep == Consecutive /\ InStep => FirstPicksSpread
<1> SUFFICES ASSUME Consecutive, InStep, NEW c \in Conns
             PROVE  Cardinality({r \in Offset : picked[r] # <<>> /\ picked[r][1] = c})
                      <= (Cardinality(Offset) + N - 1) \div N
  BY DEF FirstPicksSpread
<1>1. PICK lo \in Int, hi \in Int : -1 <= lo /\ Offset = lo .. hi
  BY DEF Consecutive
<1> DEFINE P == {r \in Offset : picked[r] # <<>> /\ picked[r][1] = c}
<1>2. ASSUME NEW r \in P PROVE (r + 1) % N = c
  <2>1. r \in Replicas /\ r \in Int /\ -1 <= r /\ r \in Offset
    BY <1>1, RotationAssumption
  <2>2. 1 \in 1 .. Len(picked[r])
    BY <2>1 DEF InStep
  <2>3. picked[r][1] = Unsigned(StartAt(r) + 1) % N
    BY <2>1, <2>2 DEF InStep
  <2>4. QED
    BY <2>1, <2>3, FirstPick
<1>3. P \in SUBSET (lo .. hi)
  BY <1>1
<1> HIDE DEF P
<1>4. Cardinality(P) <= (Cardinality(lo .. hi) + N - 1) \div N
  BY <1>1, <1>2, <1>3, RemaindersSpread
<1>5. QED
  BY <1>1, <1>4 DEF P

\* Pods numbered in a row start on different shards: no shard gets more than
\* its share of their first attempts, however many pods and shards there are.
THEOREM FirstPicksAreSpread == Consecutive => (Spec => []FirstPicksSpread)
<1> SUFFICES ASSUME Consecutive PROVE Spec => []FirstPicksSpread
  OBVIOUS
<1>1. InStep => FirstPicksSpread
  BY SpreadInStep
<1>2. QED
  BY <1>1, RotationInStep, PTL
-----------------------------------------------------------------------------
(* The attempts of Delivery over the rotation.                             *)

\* Where the k-th attempt for the worker's batch went.
Went(w, k) == picked[Owner[w]][tries[w][k]]

\* A worker and its batch: an attempt under way and those before it are picks
\* of its replica, in order; what has failed on a shard was sent to a sick one.
BatchInv(w) ==
  /\ at[w] \in {"fill", "sending", "failed", "ok"}
  /\ tries[w] \in Seq(Nat) /\ Len(tries[w]) <= SendAttempts
  /\ copies[w] \in Nat
  /\ at[w] = "fill" <=> Len(tries[w]) = 0
  /\ at[w] = "fill" => copies[w] = 0
  /\ at[w] = "sending" /\ Len(tries[w]) = 1 => copies[w] = 0
  /\ at[w] = "ok" => copies[w] >= Batch /\ (Len(tries[w]) = 1 => copies[w] = Batch)
  /\ \A k \in 1 .. Len(tries[w]) : tries[w][k] \in 1 .. Len(picked[Owner[w]])
  /\ Len(tries[w]) = 2 => tries[w][1] < tries[w][2]
  /\ Whole(w) => \A k \in 1 .. Len(tries[w]) :
       at[w] = "failed" \/ (at[w] = "sending" /\ k < Len(tries[w])) => Went(w, k) \in sick

SendTypes ==
  /\ at \in [Workers -> {"fill", "sending", "failed", "ok"}]
  /\ tries \in [Workers -> Seq(Nat)]
  /\ copies \in [Workers -> Nat]

SendInv ==
  /\ InStep
  /\ SendTypes
  /\ \A c, d \in sick : c = d
  /\ \A w \in Workers : BatchInv(w)

LEMMA SendInvInit == DeliveryInit => SendInv
<1> SUFFICES ASSUME DeliveryInit PROVE SendInv
  OBVIOUS
<1>1. InStep
  BY InStepInit DEF DeliveryInit
<1>2. SendTypes /\ \A c, d \in sick : c = d
  BY DEF DeliveryInit, SendTypes
<1>3. ASSUME NEW w \in Workers PROVE BatchInv(w)
  BY DEF DeliveryInit, BatchInv, SendAttempts
<1>4. QED
  BY <1>1, <1>2, <1>3 DEF SendInv

\* A step that leaves a worker's batch alone, and does not rewrite the picks.
LEMMA BatchKept ==
  ASSUME SendInv, NEW w \in Workers,
         at'[w] = at[w], tries'[w] = tries[w], copies'[w] = copies[w], sick' = sick,
         \A p \in Replicas :
           /\ Len(picked[p]) \in Nat /\ Len(picked'[p]) \in Nat
           /\ Len(picked[p]) <= Len(picked'[p])
           /\ \A i \in 1 .. Len(picked[p]) : picked'[p][i] = picked[p][i]
  PROVE  BatchInv(w)'
<1>1. Owner[w] \in Replicas
  BY DeliveryAssumption
<1>2. BatchInv(w)
  BY DEF SendInv
<1>3. \A k \in 1 .. Len(tries[w]) :
        tries'[w][k] \in 1 .. Len(picked'[Owner[w]]) /\ Went(w, k)' = Went(w, k)
  BY <1>1, <1>2 DEF BatchInv, Went
<1>4. QED
  BY <1>2, <1>3 DEF BatchInv, Whole

\* What every worker but one keeps, the invariant keeps.
LEMMA OneMoves ==
  ASSUME SendInv, NEW w \in Workers, InStep', SendTypes', sick' = sick, BatchInv(w)',
         \A v \in Workers \ {w} :
           at'[v] = at[v] /\ tries'[v] = tries[v] /\ copies'[v] = copies[v],
         \A p \in Replicas :
           /\ Len(picked[p]) \in Nat /\ Len(picked'[p]) \in Nat
           /\ Len(picked[p]) <= Len(picked'[p])
           /\ \A i \in 1 .. Len(picked[p]) : picked'[p][i] = picked[p][i]
  PROVE  SendInv'
<1>1. ASSUME NEW v \in Workers \ {w} PROVE BatchInv(v)'
  BY <1>1, BatchKept
<1>2. \A c, d \in sick' : c = d
  BY DEF SendInv
<1>3. QED
  BY <1>1, <1>2 DEF SendInv

\* Between picks nothing happens to the rotation.
LEMMA PicksStay ==
  ASSUME SendInv, UNCHANGED vars
  PROVE  /\ InStep'
         /\ \A p \in Replicas :
              /\ Len(picked[p]) \in Nat /\ Len(picked'[p]) \in Nat
              /\ Len(picked[p]) <= Len(picked'[p])
              /\ \A i \in 1 .. Len(picked[p]) : picked'[p][i] = picked[p][i]
<1>1. InStep'
  BY InStepStep DEF SendInv
<1>2. picked \in [Replicas -> Seq(Conns)] /\ picked' = picked
  BY DEF SendInv, InStep, vars
<1>3. QED
  BY <1>1, <1>2

LEMMA BeginKeeps ==
  ASSUME SendInv, NEW w \in Workers, First(w) \/ Retry(w)
  PROVE  SendInv'
<1> DEFINE r == Owner[w]
           n == Len(tries[w])
           m == Len(picked[r])
<1>1. r \in Replicas /\ Begin(w) /\ Pick(r)
  BY DeliveryAssumption DEF First, Retry, Begin
<1>2. InStep /\ InStep' /\ BatchInv(w)
  BY <1>1, InStepStep DEF SendInv, Next
<1>3. /\ Len(picked'[r]) = m + 1
      /\ \A p \in Replicas :
           /\ Len(picked[p]) \in Nat /\ Len(picked[p]) <= Len(picked'[p])
           /\ \A i \in 1 .. Len(picked[p]) : picked'[p][i] = picked[p][i]
  BY <1>1, <1>2, PickAppends
<1>4. \A p \in Replicas : Len(picked'[p]) \in Nat
  BY <1>2 DEF InStep
<1>5. /\ tries' = [tries EXCEPT ![w] = Append(tries[w], m + 1)]
      /\ at' = [at EXCEPT ![w] = "sending"] /\ sick' = sick /\ copies' = copies
  BY <1>1, <1>3 DEF Begin
<1>6. SendTypes
  BY DEF SendInv
<1>7. m \in Nat /\ m + 1 \in Nat
  BY <1>1, <1>3
<1> HIDE DEF m
<1>8. SendTypes'
  BY <1>5, <1>6, <1>7 DEF SendTypes
<1>9. tries'[w] = Append(tries[w], m + 1) /\ at'[w] = "sending" /\ copies'[w] = copies[w]
  BY <1>5, <1>6 DEF SendTypes
<1>10. tries[w] \in Seq(Nat) /\ n \in Nat
  BY <1>2 DEF BatchInv
<1>11. Len(tries'[w]) = n + 1 /\ tries'[w][n + 1] = m + 1
       /\ \A k \in 1 .. n : tries'[w][k] = tries[w][k]
  BY <1>7, <1>9, <1>10
<1>12. n < SendAttempts /\ (n = 0 \/ at[w] = "failed") /\ (n = 0 => at[w] = "fill")
  BY <1>2, <1>10 DEF First, Retry, BatchInv, SendAttempts
<1>13. \A k \in 1 .. n : tries[w][k] \in 1 .. m
  BY <1>2 DEF BatchInv, m
<1>14. \A k \in 1 .. n + 1 : tries'[w][k] \in 1 .. Len(picked'[r])
  <2>1. ASSUME NEW k \in 1 .. n + 1 PROVE k = n + 1 \/ k \in 1 .. n
    BY <1>10
  <2>2. m + 1 \in 1 .. Len(picked'[r]) /\ 1 .. m \subseteq 1 .. Len(picked'[r])
    BY <1>3, <1>7
  <2>3. QED
    BY <1>11, <1>13, <2>1, <2>2
<1>15. ASSUME Len(tries'[w]) = 2 PROVE tries'[w][1] < tries'[w][2]
  <2>0. n + 1 = 2
    BY <1>11, <1>15
  <2>1. n = 1
    <3> HIDE DEF n
    <3>1. n \in Nat
      BY <1>10
    <3>2. QED
      BY <2>0, <3>1
  <2>2. tries'[w][1] \in 1 .. m /\ tries'[w][2] = m + 1
    BY <1>11, <1>13, <2>1
  <2>3. QED
    BY <1>7, <2>2
<1>16. \A k \in 1 .. n : Went(w, k)' = Went(w, k)
  BY <1>1, <1>3, <1>11, <1>13 DEF Went, m
<1>17. Whole(w) => \A k \in 1 .. n : Went(w, k)' \in sick'
  BY <1>2, <1>5, <1>10, <1>12, <1>16 DEF BatchInv
<1>18. BatchInv(w)'
  <2>1. Len(tries'[w]) <= SendAttempts /\ tries'[w] \in Seq(Nat)
    BY <1>7, <1>9, <1>10, <1>11, <1>12 DEF SendAttempts
  <2>2. copies'[w] \in Nat /\ (Len(tries'[w]) = 1 => copies'[w] = 0)
    BY <1>2, <1>9, <1>10, <1>11, <1>12 DEF BatchInv
  <2>3. Whole(w) => \A k \in 1 .. Len(tries'[w]) :
          k < Len(tries'[w]) => Went(w, k)' \in sick'
    BY <1>10, <1>11, <1>17
  <2>4. QED
    BY <1>9, <1>10, <1>11, <1>14, <1>15, <2>1, <2>2, <2>3 DEF BatchInv, Whole
<1>19. \A v \in Workers \ {w} :
         at'[v] = at[v] /\ tries'[v] = tries[v] /\ copies'[v] = copies[v]
  BY <1>5, <1>6 DEF SendTypes
<1>20. QED
  BY <1>2, <1>3, <1>4, <1>5, <1>8, <1>18, <1>19, OneMoves

LEMMA AnswerKeeps ==
  ASSUME SendInv, NEW w \in Workers, Answer(w)
  PROVE  SendInv'
<1> DEFINE n == Len(tries[w])
<1>1. PICK taken \in Takes(w) :
        /\ copies' = [copies EXCEPT ![w] = copies[w] + taken]
        /\ at' = [at EXCEPT ![w] = IF Verdict(w, taken) THEN "ok" ELSE "failed"]
  BY DEF Answer
<1>2. at[w] = "sending" /\ UNCHANGED vars /\ sick' = sick /\ tries' = tries /\ picked' = picked
  BY DEF Answer, vars
<1>3. taken \in Nat
  BY <1>1, DeliveryAssumption DEF Takes
<1>4. SendTypes /\ BatchInv(w)
  BY DEF SendInv
<1>5. copies'[w] = copies[w] + taken /\ at'[w] = IF Verdict(w, taken) THEN "ok" ELSE "failed"
  BY <1>1, <1>4 DEF SendTypes
<1>6. SendTypes'
  BY <1>1, <1>2, <1>3, <1>4 DEF SendTypes
<1>7. n \in Nat /\ n >= 1 /\ tries[w] \in Seq(Nat)
  BY <1>2, <1>4 DEF BatchInv
<1>8. ASSUME at'[w] = "ok"
      PROVE  copies'[w] >= Batch /\ (n = 1 => copies'[w] = Batch)
  <2>1. taken = Batch
    BY <1>5, <1>8 DEF Verdict
  <2>2. QED
    BY <1>2, <1>4, <1>5, <2>1, DeliveryAssumption DEF BatchInv
<1>9. ASSUME Whole(w), at'[w] = "failed", NEW k \in 1 .. n
      PROVE  Went(w, k) \in sick
  <2>1. CASE k < n
    BY <1>2, <1>4, <1>9, <2>1 DEF BatchInv
  <2>2. CASE k = n
    <3>1. Went(w, k) = Target(w)
      BY <2>2 DEF Went, Target
    <3>2. Target(w) \in sick
      BY <1>1, <1>5, <1>9 DEF Verdict, Takes
    <3>3. QED
      BY <3>1, <3>2
  <2>3. QED
    BY <1>7, <2>1, <2>2
<1>10. BatchInv(w)'
  <2>1. at'[w] \in {"ok", "failed"} /\ copies'[w] \in Nat
    BY <1>3, <1>4, <1>5 DEF BatchInv
  <2>2. \A k \in 1 .. n : Went(w, k)' = Went(w, k)
    BY <1>2 DEF Went
  <2>3. QED
    BY <1>2, <1>4, <1>7, <1>8, <1>9, <2>1, <2>2 DEF BatchInv, Whole
<1>11. \A v \in Workers \ {w} :
         at'[v] = at[v] /\ tries'[v] = tries[v] /\ copies'[v] = copies[v]
  BY <1>1, <1>2, <1>4 DEF SendTypes
<1>12. QED
  BY <1>2, <1>6, <1>10, <1>11, PicksStay, OneMoves

LEMMA SettleKeeps ==
  ASSUME SendInv, NEW w \in Workers, Settle(w)
  PROVE  SendInv'
<1>1. SendTypes /\ UNCHANGED vars /\ sick' = sick
  BY DEF SendInv, Settle
<1>2. at'[w] = "fill" /\ tries'[w] = <<>> /\ copies'[w] = 0
  BY <1>1 DEF SendTypes, Settle
<1>3. SendTypes'
  BY <1>1 DEF SendTypes, Settle
<1>4. BatchInv(w)'
  BY <1>2 DEF BatchInv, SendAttempts
<1>5. \A v \in Workers \ {w} :
        at'[v] = at[v] /\ tries'[v] = tries[v] /\ copies'[v] = copies[v]
  BY <1>1 DEF SendTypes, Settle
<1>6. QED
  BY <1>1, <1>3, <1>4, <1>5, PicksStay, OneMoves

LEMMA SendInvStep == SendInv /\ [DeliveryNext]_deliveryVars => SendInv'
<1> SUFFICES ASSUME SendInv, [DeliveryNext]_deliveryVars PROVE SendInv'
  OBVIOUS
<1>1. ASSUME NEW w \in Workers, First(w) \/ Retry(w) PROVE SendInv'
  BY <1>1, BeginKeeps
<1>2. ASSUME NEW w \in Workers, Answer(w) PROVE SendInv'
  BY <1>2, AnswerKeeps
<1>3. ASSUME NEW w \in Workers, Sent(w) \/ Dropped(w) PROVE SendInv'
  BY <1>3, SettleKeeps DEF Sent, Dropped
<1>4. CASE UNCHANGED deliveryVars
  <2>1. UNCHANGED vars /\ sick' = sick /\ at' = at /\ tries' = tries /\ copies' = copies
    BY <1>4 DEF deliveryVars, sendVars
  <2>2. InStep'
    BY <2>1, PicksStay
  <2>3. ASSUME NEW w \in Workers PROVE BatchInv(w)'
    BY <2>1, PicksStay, BatchKept
  <2>4. QED
    BY <2>1, <2>2, <2>3 DEF SendInv, SendTypes
<1>5. QED
  BY <1>1, <1>2, <1>3, <1>4 DEF DeliveryNext, Bounded

\* The batches of all workers are as BatchInv says, whatever their order.
THEOREM SendInvHolds == DeliverySpec => []SendInv
BY SendInvInit, SendInvStep, PTL DEF DeliverySpec

\* What send counts as sent is there whole (Engine.send, otlpSink.Send).
THEOREM SentIsWhole == DeliverySpec => []SentIsThere
<1>1. SendInv => SentIsThere
  BY DEF SendInv, BatchInv, SentIsThere
<1>2. QED
  BY <1>1, SendInvHolds, PTL

\* A batch that fails on both attempts to a sharded sink met the one sick
\* shard twice, a full cycle of the shared counter apart.
LEMMA DropsApart == SendInv => DropTakesOthers
<1> SUFFICES ASSUME SendInv, NEW w \in Workers, at[w] = "failed",
                    Len(tries[w]) = SendAttempts, Whole(w), ~Wrapped(Owner[w])
             PROVE  tries[w][2] - tries[w][1] >= N
  BY DEF DropTakesOthers
<1> DEFINE r == Owner[w]
           i == tries[w][1]
           j == tries[w][2]
<1>1. BatchInv(w) /\ InStep /\ r \in Replicas
  BY DeliveryAssumption DEF SendInv
<1>2. i \in 1 .. Len(picked[r]) /\ j \in 1 .. Len(picked[r]) /\ i < j
  BY <1>1 DEF BatchInv, SendAttempts
<1>3. Went(w, 1) \in sick /\ Went(w, 2) \in sick
  BY <1>1 DEF BatchInv, SendAttempts
<1>4. picked[r][i] = picked[r][j]
  BY <1>3 DEF SendInv, Went
<1>5. CyclesApart
  BY <1>1, ApartWhileInStep
<1>6. QED
  BY <1>1, <1>2, <1>4, <1>5 DEF CyclesApart

\* One sick shard costs a replica no batch unless other workers have been to
\* every other shard between its two attempts (chSink.pick under Engine.send).
THEOREM DropsTakeOthers == DeliverySpec => []DropTakesOthers
BY SendInvHolds, DropsApart, PTL

\* Every step of the workers is a pick of their replica's rotation or none at
\* all, so what is proved of the rotation holds while they send and retry.
THEOREM WorkersRotate == DeliverySpec => Spec
<1>1. DeliveryInit => Init
  BY DEF DeliveryInit
<1>2. [DeliveryNext]_deliveryVars => [Next]_vars
  <2> SUFFICES ASSUME [DeliveryNext]_deliveryVars PROVE [Next]_vars
    OBVIOUS
  <2>1. ASSUME NEW w \in Workers, First(w) \/ Retry(w) PROVE Next
    <3>1. Owner[w] \in Replicas /\ Pick(Owner[w])
      BY <2>1, DeliveryAssumption DEF First, Retry, Begin
    <3>2. QED
      BY <3>1 DEF Next
  <2>2. ASSUME NEW w \in Workers, Answer(w) \/ Sent(w) \/ Dropped(w) PROVE UNCHANGED vars
    BY <2>2 DEF Answer, Sent, Dropped, Settle
  <2>3. CASE UNCHANGED deliveryVars
    BY <2>3 DEF deliveryVars
  <2>4. QED
    BY <2>1, <2>2, <2>3 DEF DeliveryNext, Bounded
<1>3. QED
  BY <1>1, <1>2, PTL DEF DeliverySpec, Spec

\* The shares stay even while the workers of a replica share its counter.
THEOREM SharesAreEvenInDelivery == DeliverySpec => []EvenShares
BY WorkersRotate, SharesAreEven, PTL
=============================================================================
