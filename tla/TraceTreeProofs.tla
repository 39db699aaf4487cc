-------------------------- MODULE TraceTreeProofs --------------------------
(* What TraceTree guarantees for any catalog, batch size, span range and    *)
(* random choices.  Of the constants of the code it is the floor of 1 us    *)
(* and the depth cap of 6 that make children lie within their parents: the  *)
(* shortest a span can be halves at least twice with each call, and MinDur  *)
(* is that length, level by level.                                          *)
EXTENDS TraceTree, SequenceTheorems, TLAPS

SpanSet  == [parent : Nat, svc : Service, kind : Kinds, start : Nat, dur : Nat]
FrameSet == [parent : Nat, svc : Service, depth : 1 .. MaxDepth, left : 0 .. 3]

\* The batch, its traces and the budget of the trace under way.
BatchInv ==
  /\ count <= Batch
  /\ ~open => stack = <<>> /\ written = count
  /\ open => /\ Len(spans) = maxSpans - remaining /\ written = count + Len(spans)
             /\ count + maxSpans <= Batch /\ Len(spans) > 0

\* The shortest that the parent of a call of addChildren at each depth can be.
MinDur(d) ==
  CASE d = 1 -> 1000 [] d = 2 -> 255 [] d = 3 -> 65 [] d = 4 -> 17 [] d = 5 -> 5
    [] OTHER -> 1

\* A call of addChildren at depth d has d - 1 calls above it, and its parent is
\* long enough.
Stacked(st, s) ==
  \A i \in 1 .. Len(st) :
    /\ st[i].depth = i
    /\ st[i].parent \in 1 .. Len(s)
    /\ s[st[i].parent].dur >= MinDur(i)

Inside(c, p) == p.start <= c.start /\ c.start + c.dur <= p.start + p.dur

Nested(s) ==
  \A i \in 2 .. Len(s) : s[i].parent \in 1 .. i - 1 /\ Inside(s[i], s[s[i].parent])

TreeInv == Stacked(stack, spans) /\ Nested(spans)

IInv == TypeOK /\ BatchInv /\ TreeInv
-----------------------------------------------------------------------------
\* Durations and offsets.

\* An offset lies between zero and the latest.
LEMMA OffsetRange ==
  ASSUME NEW d \in Nat, NEW off \in Offsets(d)
  PROVE  off \in Nat /\ off <= LatestOffset(d)
<1>1. LatestOffset(d) \in Nat
  BY DEF LatestOffset
<1>2. PICK k \in 0 .. OffsetSteps : off = (LatestOffset(d) * k) \div OffsetSteps
  BY DEF Offsets
<1>3. \A m \in Nat : (m * k) \div OffsetSteps \in Nat /\ (m * k) \div OffsetSteps <= m
  <2>1. TAKE m \in Nat
  <2>2. m * k \in Nat /\ m * k <= m * OffsetSteps
    BY TraceTreeAssumption
  <2>3. \A x \in Nat : x <= m * OffsetSteps =>
          x \div OffsetSteps \in Nat /\ x \div OffsetSteps <= m
    BY TraceTreeAssumption, Z3
  <2>4. QED
    BY <2>2, <2>3
<1>4. QED
  BY <1>1, <1>2, <1>3

\* A sampled duration is at least the floor.
LEMMA SampleRange ==
  ASSUME NEW d \in SampleDur
  PROVE  d \in Nat /\ d >= Floor
BY TraceTreeAssumption DEF SampleDur, Floor

\* A child of a span that has a length has one too, and ends with it at the
\* latest; it is as long as was sampled or takes all that is left.
LEMMA ChildRange ==
  ASSUME NEW p \in SpanSet, p.dur >= 1, NEW off \in Offsets(p.dur), NEW d \in SampleDur
  PROVE  /\ off \in Nat /\ off <= LatestOffset(p.dur)
         /\ ChildDur(p.dur - off, d) \in Nat
         /\ ChildDur(p.dur - off, d) >= 1
         /\ off + ChildDur(p.dur - off, d) <= p.dur
         /\ \/ ChildDur(p.dur - off, d) >= Floor
            \/ ChildDur(p.dur - off, d) = p.dur - off
<1>1. p.dur \in Nat
  BY DEF SpanSet
<1>2. off \in Nat /\ off <= LatestOffset(p.dur)
  BY <1>1, OffsetRange
<1>3. LatestOffset(p.dur) < p.dur
  BY <1>1 DEF LatestOffset
<1>4. d \in Nat /\ d >= Floor
  BY SampleRange
<1>5. LatestOffset(p.dur) \in Nat
  BY <1>1 DEF LatestOffset
<1>6. p.dur - off \in Nat /\ p.dur - off > 0
  BY <1>1, <1>2, <1>3, <1>5
<1>7. /\ ChildDur(p.dur - off, d) \in Nat
      /\ ChildDur(p.dur - off, d) >= 1
      /\ ChildDur(p.dur - off, d) <= p.dur - off
      /\ \/ ChildDur(p.dur - off, d) >= Floor
         \/ ChildDur(p.dur - off, d) = p.dur - off
  BY <1>4, <1>6 DEF ChildDur, Floor
<1>8. QED
  BY <1>1, <1>2, <1>6, <1>7

\* One level of calls takes the shortest length down one step of MinDur.
LEMMA Ladder ==
  ASSUME NEW k \in 1 .. MaxDepth, NEW p \in Nat, p >= MinDur(k),
         NEW off \in Nat, off <= LatestOffset(p),
         NEW c \in Nat, c >= Floor \/ c = p - off, k < MaxDepth
  PROVE  (c * 85) \div 100 >= MinDur(k + 1) /\ c >= MinDur(k + 1)
<1>1. p >= 1
  BY DEF MinDur, MaxDepth
<1>2. c >= 1000 \/ c >= p - (7 * p - 1) \div 10
  BY <1>1 DEF Floor, LatestOffset
<1>3. CASE k = 1
  BY <1>2, <1>3 DEF MinDur
<1>4. CASE k = 2
  BY <1>2, <1>4 DEF MinDur
<1>5. CASE k = 3
  BY <1>2, <1>5 DEF MinDur
<1>6. CASE k = 4
  BY <1>2, <1>6 DEF MinDur
<1>7. CASE k = 5
  BY <1>2, <1>7 DEF MinDur
<1>8. QED
  BY <1>3, <1>4, <1>5, <1>6, <1>7 DEF MaxDepth
-----------------------------------------------------------------------------
\* The spans of a trace, when one is added.

LEMMA Grows ==
  ASSUME NEW s \in Seq(SpanSet), NEW c \in SpanSet
  PROVE  /\ Append(s, c) \in Seq(SpanSet)
         /\ Len(Append(s, c)) = Len(s) + 1
         /\ \A i \in 1 .. Len(s) : Append(s, c)[i] = s[i]
         /\ Append(s, c)[Len(s) + 1] = c
BY AppendProperties

LEMMA NestedGrows ==
  ASSUME NEW s \in Seq(SpanSet), NEW c \in SpanSet, Nested(s),
         c.parent \in 1 .. Len(s), Inside(c, s[c.parent])
  PROVE  Nested(Append(s, c))
<1> DEFINE t == Append(s, c)
<1>1. Len(s) \in Nat /\ Len(t) = Len(s) + 1 /\ t[Len(s) + 1] = c
  BY Grows
<1>2. \A i \in 1 .. Len(s) : t[i] = s[i]
  BY Grows
<1> HIDE DEF t
<1>3. ASSUME NEW i \in 2 .. Len(t)
      PROVE  t[i].parent \in 1 .. i - 1 /\ Inside(t[i], t[t[i].parent])
  <2>1. CASE i = Len(s) + 1
    BY <1>1, <1>2, <2>1
  <2>2. CASE i \in 2 .. Len(s)
    <3>1. s[i].parent \in 1 .. i - 1 /\ Inside(s[i], s[s[i].parent])
      BY <2>2 DEF Nested
    <3>2. t[i] = s[i] /\ t[s[i].parent] = s[s[i].parent]
      BY <1>1, <1>2, <2>2, <3>1
    <3>3. QED
      BY <3>1, <3>2
  <2>3. QED
    BY <1>1, <2>1, <2>2
<1>4. QED
  BY <1>3 DEF Nested, t

LEMMA StackedGrows ==
  ASSUME NEW s \in Seq(SpanSet), NEW c \in SpanSet, NEW st, Stacked(st, s)
  PROVE  Stacked(st, Append(s, c))
<1>1. Len(s) \in Nat /\ Len(Append(s, c)) = Len(s) + 1
  BY Grows
<1>2. \A i \in 1 .. Len(s) : Append(s, c)[i] = s[i]
  BY Grows
<1>3. QED
  BY <1>1, <1>2 DEF Stacked
-----------------------------------------------------------------------------
\* The calls under way, when one counts an iteration, is pushed or returns.

LEMMA TopFacts ==
  ASSUME TypeOK, TreeInv, stack # <<>>
  PROVE  /\ Len(stack) \in 1 .. MaxDepth /\ Top \in FrameSet /\ Top = stack[Len(stack)]
         /\ Top.depth = Len(stack) /\ Top.parent \in 1 .. Len(spans)
         /\ spans[Top.parent] \in SpanSet /\ spans[Top.parent].dur >= MinDur(Len(stack))
         /\ spans[Top.parent].dur >= 1
<1>1. stack \in Seq(FrameSet) /\ spans \in Seq(SpanSet)
  BY DEF TypeOK, FrameSet, SpanSet
<1>2. Len(stack) \in Nat \ {0} /\ Top \in FrameSet
  BY <1>1, EmptySeq, ElementOfSeq DEF Top
<1>3. /\ Top.depth = Len(stack) /\ Top.parent \in 1 .. Len(spans)
      /\ spans[Top.parent].dur >= MinDur(Len(stack))
  BY <1>2 DEF TreeInv, Stacked, Top
<1>4. Len(stack) \in 1 .. MaxDepth
  BY <1>2, <1>3 DEF FrameSet
<1>5. spans[Top.parent] \in SpanSet
  BY <1>1, <1>3, ElementOfSeq
<1>6. MinDur(Len(stack)) \in Nat /\ MinDur(Len(stack)) >= 1
  BY <1>4 DEF MinDur, MaxDepth
<1>7. spans[Top.parent].dur \in Nat
  BY <1>5 DEF SpanSet
<1>8. QED
  BY <1>2, <1>3, <1>4, <1>5, <1>6, <1>7 DEF Top

LEMMA CountedFacts ==
  ASSUME TypeOK, TreeInv, Looping
  PROVE  /\ Counted \in Seq(FrameSet) /\ Len(Counted) = Len(stack)
         /\ Stacked(Counted, spans)
<1>1. stack \in Seq(FrameSet) /\ stack # <<>> /\ Top.left > 0
  BY DEF TypeOK, FrameSet, Looping
<1>2. Len(stack) \in 1 .. MaxDepth /\ Top \in FrameSet
  BY <1>1, TopFacts
<1> DEFINE n == Len(stack)
           f == [Top EXCEPT !.left = @ - 1]
<1>3. f \in FrameSet /\ f.depth = Top.depth /\ f.parent = Top.parent
  <2>1. Top.left - 1 \in 0 .. 3
    BY <1>1, <1>2 DEF FrameSet
  <2>2. f = [parent |-> Top.parent, svc |-> Top.svc, depth |-> Top.depth, left |-> Top.left - 1]
    BY <1>2 DEF FrameSet
  <2>3. QED
    BY <1>2, <2>1, <2>2 DEF FrameSet
<1>4. Counted = [stack EXCEPT ![n] = f]
  BY DEF Counted, Top
<1>5. n \in 1 .. Len(stack)
  BY <1>2
<1> HIDE DEF f
<1>6. /\ Counted \in Seq(FrameSet) /\ Len(Counted) = n
      /\ \A j \in 1 .. n : Counted[j] = IF j = n THEN f ELSE stack[j]
  BY <1>1, <1>3, <1>4, <1>5, ExceptSeq
<1>7. \A j \in 1 .. n : Counted[j].depth = stack[j].depth /\ Counted[j].parent = stack[j].parent
  BY <1>3, <1>6 DEF Top
<1>8. QED
  BY <1>6, <1>7 DEF TreeInv, Stacked

\* The frame that addChildren pushes, or none, on the calls that are under way.
LEMMA EnterType ==
  ASSUME NEW p \in Nat, NEW v \in Service, NEW d \in Nat \ {0}, NEW left \in Int,
         NEW f \in Enter(p, v, d, left)
  PROVE  f \in Seq(FrameSet)
<1>1. CASE f = <<>>
  BY <1>1, EmptySeq
<1>2. ASSUME NEW n \in ChildCounts, d <= MaxDepth,
             f = <<[parent |-> p, svc |-> v, depth |-> d, left |-> n]>>
      PROVE  f \in Seq(FrameSet)
  <2>1. [parent |-> p, svc |-> v, depth |-> d, left |-> n] \in FrameSet
    BY <1>2, TraceTreeAssumption DEF FrameSet, MaxDepth
  <2>2. QED
    BY <1>2, <2>1
<1>3. QED
  BY <1>1, <1>2 DEF Enter, MaxDepth

LEMMA PushedFacts ==
  ASSUME NEW st \in Seq(FrameSet), NEW s \in Seq(SpanSet), Stacked(st, s),
         NEW p \in 1 .. Len(s), NEW v \in Service, NEW left \in Int,
         Len(st) < MaxDepth => s[p].dur >= MinDur(Len(st) + 1),
         NEW f \in Enter(p, v, Len(st) + 1, left)
  PROVE  st \o f \in Seq(FrameSet) /\ Stacked(st \o f, s)
<1>1. Len(st) \in Nat /\ p \in Nat
  BY LenProperties
<1>2. CASE f = <<>>
  BY <1>2, ConcatEmptySeq
<1>3. ASSUME NEW n \in ChildCounts, Len(st) + 1 <= MaxDepth,
             f = <<[parent |-> p, svc |-> v, depth |-> Len(st) + 1, left |-> n]>>
      PROVE  st \o f \in Seq(FrameSet) /\ Stacked(st \o f, s)
  <2> DEFINE g == [parent |-> p, svc |-> v, depth |-> Len(st) + 1, left |-> n]
  <2>1. g \in FrameSet /\ g.depth = Len(st) + 1 /\ g.parent = p
    BY <1>1, <1>3, TraceTreeAssumption DEF FrameSet, MaxDepth
  <2> HIDE DEF g
  <2>2. f = <<g>>
    BY <1>3 DEF g
  <2>3. st \o f = Append(st, g)
    BY <2>1, <2>2
  <2>4. /\ Append(st, g) \in Seq(FrameSet) /\ Len(Append(st, g)) = Len(st) + 1
        /\ \A i \in 1 .. Len(st) : Append(st, g)[i] = st[i]
        /\ Append(st, g)[Len(st) + 1] = g
    BY <2>1, AppendProperties
  <2>5. s[p].dur >= MinDur(Len(st) + 1)
    BY <1>1, <1>3 DEF MaxDepth
  <2>6. ASSUME NEW i \in 1 .. Len(st) + 1
        PROVE  /\ Append(st, g)[i].depth = i
               /\ Append(st, g)[i].parent \in 1 .. Len(s)
               /\ s[Append(st, g)[i].parent].dur >= MinDur(i)
    <3>1. CASE i = Len(st) + 1
      BY <2>1, <2>4, <2>5, <3>1
    <3>2. CASE i \in 1 .. Len(st)
      BY <2>4, <3>2 DEF Stacked
    <3>3. QED
      BY <1>1, <3>1, <3>2
  <2>7. QED
    BY <2>3, <2>4, <2>6 DEF Stacked
<1>4. QED
  BY <1>1, <1>2, <1>3 DEF Enter, MaxDepth

LEMMA PoppedFacts ==
  ASSUME TypeOK, TreeInv, stack # <<>>
  PROVE  Popped \in Seq(FrameSet) /\ Stacked(Popped, spans)
<1>1. stack \in Seq(FrameSet) /\ Len(stack) \in 1 .. MaxDepth
  BY TopFacts DEF TypeOK, FrameSet
<1>2. Len(stack) - 1 \in Int /\ \A i \in 1 .. Len(stack) - 1 : stack[i] \in FrameSet
  BY <1>1, ElementOfSeq DEF MaxDepth
<1>3. /\ Popped \in Seq(FrameSet) /\ Len(Popped) = Len(stack) - 1
      /\ \A i \in 1 .. Len(stack) - 1 : Popped[i] = stack[i]
  <2> DEFINE n == Len(stack) - 1
  <2>1. n \in Nat /\ n \in Int /\ 1 \in Int
    BY <1>1 DEF MaxDepth
  <2>2. \A i \in 1 .. n : stack[i] \in FrameSet
    BY <1>2
  <2> HIDE DEF n
  <2>3. /\ SubSeq(stack, 1, n) \in Seq(FrameSet)
        /\ Len(SubSeq(stack, 1, n)) = IF 1 <= n THEN n - 1 + 1 ELSE 0
        /\ \A i \in 1 .. n - 1 + 1 : SubSeq(stack, 1, n)[i] = stack[1 + i - 1]
    BY <2>1, <2>2, SubSeqProperties
  <2>4. Len(SubSeq(stack, 1, n)) = n /\ \A i \in 1 .. n : SubSeq(stack, 1, n)[i] = stack[i]
    BY <2>1, <2>3
  <2>5. QED
    BY <2>3, <2>4 DEF Popped, n
<1>4. QED
  BY <1>1, <1>3 DEF TreeInv, Stacked, MaxDepth
-----------------------------------------------------------------------------
\* The spans an iteration of addChildren makes.

LEMMA ChildFacts ==
  ASSUME TypeOK, TreeInv, Looping, NEW kind \in Kinds,
         NEW c \in Children(Top.parent, Top.svc, kind)
  PROVE  /\ c \in SpanSet /\ c.parent \in 1 .. Len(spans) /\ c.svc = Top.svc
         /\ Inside(c, spans[c.parent])
         /\ Len(stack) < MaxDepth => /\ c.dur >= MinDur(Len(stack) + 1)
                                     /\ (c.dur * 85) \div 100 >= MinDur(Len(stack) + 1)
<1>1. /\ Len(stack) \in 1 .. MaxDepth /\ Top \in FrameSet
      /\ Top.parent \in 1 .. Len(spans) /\ spans[Top.parent] \in SpanSet
      /\ spans[Top.parent].dur >= MinDur(Len(stack)) /\ spans[Top.parent].dur >= 1
  BY TopFacts DEF Looping
<1> DEFINE p == spans[Top.parent]
<1>2. PICK off \in Offsets(p.dur), d \in SampleDur :
        c = Span(Top.parent, Top.svc, kind, p.start + off, ChildDur(p.dur - off, d))
  BY DEF Children
<1>3. p \in SpanSet /\ p.dur >= 1
  BY <1>1
<1> HIDE DEF p
<1>4. /\ off \in Nat /\ off <= LatestOffset(p.dur)
      /\ ChildDur(p.dur - off, d) \in Nat
      /\ off + ChildDur(p.dur - off, d) <= p.dur
      /\ \/ ChildDur(p.dur - off, d) >= Floor
         \/ ChildDur(p.dur - off, d) = p.dur - off
  BY <1>3, ChildRange
<1>5. /\ c.parent = Top.parent /\ c.svc = Top.svc /\ c.start = p.start + off
      /\ c.dur = ChildDur(p.dur - off, d)
  BY <1>2 DEF Span
<1>6. p.start \in Nat /\ p.dur \in Nat
  BY <1>3 DEF SpanSet
<1>7. c \in SpanSet
  <2>1. Top.parent \in Nat /\ Top.svc \in Service
    BY <1>1 DEF FrameSet
  <2>2. p.start + off \in Nat
    BY <1>4, <1>6
  <2>3. QED
    BY <1>2, <1>4, <2>1, <2>2 DEF Span, SpanSet
<1>8. Inside(c, p)
  BY <1>4, <1>5, <1>6 DEF Inside
<1>9. Len(stack) < MaxDepth => /\ c.dur >= MinDur(Len(stack) + 1)
                               /\ (c.dur * 85) \div 100 >= MinDur(Len(stack) + 1)
  <2>1. p.dur >= MinDur(Len(stack))
    BY <1>1 DEF p
  <2>2. QED
    BY <1>1, <1>4, <1>5, <1>6, <2>1, Ladder
<1>10. QED
  BY <1>1, <1>5, <1>7, <1>8, <1>9 DEF p

LEMMA ServerFacts ==
  ASSUME NEW k \in Nat, NEW call \in SpanSet, NEW callee \in Service
  PROVE  /\ ServerSpan(k, call, callee) \in SpanSet /\ ServerSpan(k, call, callee).parent = k
         /\ Inside(ServerSpan(k, call, callee), call)
         /\ ServerSpan(k, call, callee).dur = (call.dur * 85) \div 100
<1>1. call.start \in Nat /\ call.dur \in Nat
  BY DEF SpanSet
<1>2. /\ call.dur \div 10 \in Nat /\ (call.dur * 85) \div 100 \in Nat
      /\ call.dur \div 10 + (call.dur * 85) \div 100 <= call.dur
  BY <1>1
<1>3. call.start + call.dur \div 10 \in Nat
  BY <1>1, <1>2
<1>4. "server" \in Kinds
  BY DEF Kinds
<1>5. ServerSpan(k, call, callee) =
        [parent |-> k, svc |-> callee, kind |-> "server",
         start |-> call.start + call.dur \div 10, dur |-> (call.dur * 85) \div 100]
  BY DEF ServerSpan, Span
<1>6. QED
  BY <1>1, <1>2, <1>3, <1>4, <1>5 DEF SpanSet, Inside
-----------------------------------------------------------------------------
\* The invariant holds at first, and every action keeps it.

LEMMA InitInv == Init => IInv
<1> SUFFICES ASSUME Init PROVE IInv
  OBVIOUS
<1>1. spans = <<>> /\ stack = <<>> /\ Len(spans) = 0 /\ Len(stack) = 0
  BY DEF Init
<1>2. spans \in Seq(SpanSet) /\ stack \in Seq(FrameSet)
  BY <1>1, EmptySeq
<1>3. TypeOK
  BY <1>2 DEF Init, TypeOK, SpanSet, FrameSet
<1>4. BatchInv
  BY TraceTreeAssumption DEF Init, BatchInv
<1>5. TreeInv
  BY <1>1 DEF TreeInv, Stacked, Nested
<1>6. QED
  BY <1>3, <1>4, <1>5 DEF IInv

LEMMA StartTraceInv ==
  ASSUME IInv, StartTrace
  PROVE  IInv'
<1>1. /\ count \in Nat /\ written \in Nat /\ written = count /\ count < Batch /\ stack = <<>>
      /\ count' = count /\ written' = written + 1 /\ open' = TRUE
      /\ remaining' = maxSpans' - 1 /\ stack' \in Enter(1, spans'[1].svc, 1, remaining')
  BY DEF IInv, TypeOK, BatchInv, StartTrace
<1>2. PICK m \in Nat : maxSpans' = m /\ m >= 1 /\ count + m <= Batch
  <2>1. PICK want \in SpansMin .. SpansMax : maxSpans' = Least(want, Batch - count)
    BY DEF StartTrace
  <2>2. Least(want, Batch - count) \in Nat /\ Least(want, Batch - count) >= 1
        /\ count + Least(want, Batch - count) <= Batch
    BY <1>1, TraceTreeAssumption DEF Least
  <2>3. QED
    BY <2>1, <2>2
<1>3. PICK v \in Service, d \in SampleDur : spans' = <<Span(NoParent, v, "entry", 0, d)>>
  BY DEF StartTrace
<1> DEFINE c == Span(NoParent, v, "entry", 0, d)
<1>4. c \in SpanSet /\ c.svc = v /\ c.dur >= 1000
  BY SampleRange DEF Span, SpanSet, Kinds, NoParent, Floor
<1> HIDE DEF c
<1>5. spans' = <<c>> /\ spans' \in Seq(SpanSet) /\ Len(spans') = 1 /\ spans'[1] = c
  BY <1>3, <1>4 DEF c
<1>6. stack' \in Seq(FrameSet) /\ Stacked(stack', spans')
  <2>1. stack \in Seq(FrameSet) /\ Len(stack) = 0 /\ Stacked(stack, spans')
    BY <1>1, EmptySeq DEF Stacked
  <2>2. 1 \in 1 .. Len(spans') /\ spans'[1].dur >= MinDur(1)
    BY <1>4, <1>5 DEF MinDur
  <2>3. stack' \in Enter(1, v, Len(stack) + 1, remaining')
    BY <1>1, <1>4, <1>5, <2>1
  <2>4. remaining' \in Int
    BY <1>1, <1>2
  <2>5. stack \o stack' \in Seq(FrameSet) /\ Stacked(stack \o stack', spans')
    <3>1. Len(stack) + 1 = 1
      BY <2>1
    <3>2. QED
      BY <1>3, <1>5, <2>1, <2>2, <2>3, <2>4, <3>1, PushedFacts
  <2>6. stack' \in Seq(FrameSet)
    <3>1. stack' \in Enter(1, v, 1, remaining')
      BY <1>1, <1>4, <1>5
    <3>2. QED
      BY <1>3, <2>4, <3>1, EnterType
  <2>7. stack \o stack' = stack'
    BY <1>1, <2>6, EmptySeq, ConcatEmptySeq
  <2>8. QED
    BY <2>5, <2>7
<1>7. Nested(spans')
  BY <1>5 DEF Nested
<1>8. TypeOK'
  <2>1. count' \in Nat /\ maxSpans' \in Nat /\ remaining' \in Nat /\ written' \in Nat
    BY <1>1, <1>2
  <2>2. QED
    BY <1>1, <1>5, <1>6, <2>1 DEF TypeOK, SpanSet, FrameSet
<1>9. BatchInv'
  <2>1. /\ count' <= Batch /\ Len(spans') = maxSpans' - remaining'
        /\ written' = count' + Len(spans') /\ count' + maxSpans' <= Batch /\ Len(spans') > 0
    <3>1. Len(spans') = 1 /\ remaining' = m - 1 /\ maxSpans' = m /\ count' = count
          /\ written' = count + 1
      BY <1>1, <1>2, <1>5
    <3>2. m - (m - 1) = 1 /\ count <= Batch
      BY <1>1, TraceTreeAssumption
    <3>3. QED
      BY <1>2, <3>1, <3>2
  <2>2. QED
    BY <1>1, <2>1 DEF BatchInv
<1>10. QED
  BY <1>6, <1>7, <1>8, <1>9 DEF IInv, TreeInv

\* What Leaf and Compute have in common: one span more below the innermost call.
LEMMA OneMore ==
  ASSUME IInv, Looping, NEW kind \in Kinds, NEW c \in Children(Top.parent, Top.svc, kind),
         spans' = Append(spans, c), remaining' = remaining - 1, written' = written + 1,
         UNCHANGED <<count, maxSpans, open>>,
         stack' \in Seq(FrameSet), Stacked(stack', spans')
  PROVE  IInv'
<1>1. spans \in Seq(SpanSet) /\ Nested(spans) /\ open
  BY DEF IInv, TypeOK, SpanSet, TreeInv, BatchInv, Looping
<1>2. c \in SpanSet /\ c.parent \in 1 .. Len(spans) /\ Inside(c, spans[c.parent])
  BY ChildFacts DEF IInv
<1>3. spans' \in Seq(SpanSet) /\ Len(spans') = Len(spans) + 1 /\ Nested(spans')
  BY <1>1, <1>2, Grows, NestedGrows
<1>4. TypeOK'
  BY <1>3 DEF IInv, TypeOK, SpanSet, FrameSet, Looping
<1>5. BatchInv'
  <2>1. Len(spans) \in Nat
    BY <1>1, LenProperties
  <2>2. /\ count \in Nat /\ maxSpans \in Nat /\ remaining \in Nat /\ count <= Batch
        /\ Len(spans) = maxSpans - remaining /\ written = count + Len(spans)
        /\ count + maxSpans <= Batch
    BY <1>1 DEF IInv, TypeOK, BatchInv
  <2>3. Len(spans) + 1 = maxSpans - (remaining - 1) /\ written + 1 = count + (Len(spans) + 1)
    BY <2>1, <2>2
  <2>4. QED
    BY <1>1, <1>3, <2>1, <2>2, <2>3 DEF BatchInv
<1>6. QED
  BY <1>3, <1>4, <1>5 DEF IInv, TreeInv

LEMMA LeafInv ==
  ASSUME IInv, Leaf
  PROVE  IInv'
<1>1. PICK kind \in {"db", "client", "internal"} :
        \E c \in Children(Top.parent, Top.svc, kind) : spans' = Append(spans, c)
  BY DEF Leaf
<1>2. PICK c \in Children(Top.parent, Top.svc, kind) : spans' = Append(spans, c)
  BY <1>1
<1>3. kind \in Kinds /\ Looping /\ spans \in Seq(SpanSet) /\ stack' = Counted
  BY DEF Leaf, Kinds, IInv, TypeOK, SpanSet
<1>4. c \in SpanSet
  BY <1>3, ChildFacts DEF IInv
<1>5. stack' \in Seq(FrameSet) /\ Stacked(stack', spans')
  BY <1>2, <1>3, <1>4, CountedFacts, StackedGrows DEF IInv
<1>6. QED
  BY <1>2, <1>3, <1>5, OneMore DEF Leaf

LEMMA ComputeInv ==
  ASSUME IInv, Compute
  PROVE  IInv'
<1>1. PICK c \in Children(Top.parent, Top.svc, "internal") :
        /\ spans' = Append(spans, c)
        /\ \E f \in Enter(Len(spans) + 1, Top.svc, Top.depth + 1, remaining - 1) :
             stack' = Counted \o f
  BY DEF Compute
<1>2. PICK f \in Enter(Len(spans) + 1, Top.svc, Top.depth + 1, remaining - 1) :
        stack' = Counted \o f
  BY <1>1
<1>3. "internal" \in Kinds /\ Looping /\ spans \in Seq(SpanSet) /\ remaining \in Nat
  BY DEF Compute, Kinds, IInv, TypeOK, SpanSet
<1>4. c \in SpanSet /\ (Len(stack) < MaxDepth => c.dur >= MinDur(Len(stack) + 1))
  BY <1>3, ChildFacts DEF IInv
<1>5. spans' \in Seq(SpanSet) /\ Len(spans') = Len(spans) + 1 /\ spans'[Len(spans) + 1] = c
  BY <1>1, <1>3, <1>4, Grows
<1>6. /\ Counted \in Seq(FrameSet) /\ Len(Counted) = Len(stack)
      /\ Stacked(Counted, spans')
  BY <1>1, <1>3, <1>4, CountedFacts, StackedGrows DEF IInv
<1>7. Top.svc \in Service /\ Top.depth = Len(stack)
  BY <1>3, TopFacts DEF IInv, FrameSet, Looping
<1>8. stack' \in Seq(FrameSet) /\ Stacked(stack', spans')
  <2>1. Len(spans) + 1 \in 1 .. Len(spans') /\ remaining - 1 \in Int
    BY <1>3, <1>5, LenProperties
  <2>2. f \in Enter(Len(spans) + 1, Top.svc, Len(Counted) + 1, remaining - 1)
    BY <1>6, <1>7
  <2>3. Len(Counted) < MaxDepth => spans'[Len(spans) + 1].dur >= MinDur(Len(Counted) + 1)
    BY <1>4, <1>5, <1>6
  <2>4. QED
    BY <1>2, <1>5, <1>6, <1>7, <2>1, <2>2, <2>3, PushedFacts
<1>9. QED
  BY <1>1, <1>3, <1>8, OneMore DEF Compute

LEMMA CallInv ==
  ASSUME IInv, Call
  PROVE  IInv'
<1> DEFINE n == Len(spans)
<1>1. PICK c \in Children(Top.parent, Top.svc, "client"), peer \in Peers[Top.svc] :
        /\ spans' = spans \o <<c, ServerSpan(n + 1, c, peer)>>
        /\ \E f \in Enter(n + 2, peer, Top.depth + 1, remaining - 2) : stack' = Counted \o f
  BY DEF Call
<1>2. PICK f \in Enter(n + 2, peer, Top.depth + 1, remaining - 2) : stack' = Counted \o f
  BY <1>1
<1>3. /\ "client" \in Kinds /\ Looping /\ spans \in Seq(SpanSet) /\ Nested(spans)
      /\ remaining \in Nat /\ remaining > 1 /\ n \in Nat /\ open
  BY LenProperties DEF Call, Kinds, IInv, TypeOK, SpanSet, TreeInv, BatchInv, Looping
<1>4. Top.svc \in Service /\ Top.depth = Len(stack) /\ Len(stack) \in Nat
  BY <1>3, TopFacts DEF IInv, FrameSet, Looping
<1>5. peer \in Service
  BY <1>4, TraceTreeAssumption
<1>6. /\ c \in SpanSet /\ c.parent \in 1 .. n /\ Inside(c, spans[c.parent])
      /\ Len(stack) < MaxDepth => (c.dur * 85) \div 100 >= MinDur(Len(stack) + 1)
  BY <1>3, ChildFacts DEF IInv
<1> DEFINE t == Append(spans, c)
           s == ServerSpan(n + 1, c, peer)
<1>7. /\ s \in SpanSet /\ s.parent = n + 1 /\ Inside(s, c)
      /\ s.dur = (c.dur * 85) \div 100
  <2>1. n + 1 \in Nat
    BY <1>3
  <2>2. c \in SpanSet
    BY <1>6
  <2> HIDE DEF n, s, t
  <2> DEFINE k == n + 1
  <2> HIDE DEF k
  <2>3. /\ ServerSpan(k, c, peer) \in SpanSet /\ ServerSpan(k, c, peer).parent = k
        /\ Inside(ServerSpan(k, c, peer), c)
        /\ ServerSpan(k, c, peer).dur = (c.dur * 85) \div 100
    BY <1>5, <2>1, <2>2, ServerFacts, Zenon DEF k
  <2>4. QED
    BY <2>3, Zenon DEF k, s
<1>8. spans' = Append(t, s)
  <2> HIDE DEF s
  <2>1. spans \o <<c, s>> = Append(Append(spans, c), s)
    BY <1>3, <1>6, <1>7
  <2>2. QED
    BY <1>1, <2>1 DEF s
<1> HIDE DEF s
<1>9. t \in Seq(SpanSet) /\ Len(t) = n + 1 /\ t[n + 1] = c /\ Nested(t)
  BY <1>3, <1>6, Grows, NestedGrows
<1>10. /\ Counted \in Seq(FrameSet) /\ Len(Counted) = Len(stack) /\ Stacked(Counted, t)
  BY <1>3, <1>6, CountedFacts, StackedGrows DEF IInv
<1> HIDE DEF t
<1>11. /\ spans' \in Seq(SpanSet) /\ Len(spans') = n + 2 /\ spans'[n + 2] = s
       /\ Nested(spans')
  <2>1. s.parent \in 1 .. Len(t) /\ Inside(s, t[s.parent])
    BY <1>3, <1>7, <1>9
  <2>2. Len(t) + 1 = n + 2
    BY <1>3, <1>9
  <2>3. QED
    BY <1>7, <1>8, <1>9, <2>1, <2>2, Grows, NestedGrows
<1>12. stack' \in Seq(FrameSet) /\ Stacked(stack', spans')
  <2>1. Stacked(Counted, spans')
    BY <1>7, <1>8, <1>9, <1>10, StackedGrows
  <2>2. n + 2 \in 1 .. Len(spans') /\ remaining - 2 \in Int
    BY <1>3, <1>11
  <2>3. f \in Enter(n + 2, peer, Len(Counted) + 1, remaining - 2)
    BY <1>4, <1>10
  <2>4. Len(Counted) < MaxDepth => spans'[n + 2].dur >= MinDur(Len(Counted) + 1)
    BY <1>6, <1>7, <1>10, <1>11
  <2>5. QED
    BY <1>2, <1>5, <1>10, <1>11, <2>1, <2>2, <2>3, <2>4, PushedFacts
<1>13. TypeOK'
  BY <1>3, <1>11, <1>12 DEF IInv, TypeOK, SpanSet, FrameSet, Call
<1>14. BatchInv'
  <2>1. /\ count' = count /\ maxSpans' = maxSpans /\ open' = open
        /\ written' = written + 2 /\ remaining' = remaining - 2
    BY DEF Call
  <2>2. /\ count \in Nat /\ maxSpans \in Nat /\ remaining \in Nat /\ count <= Batch
        /\ n = maxSpans - remaining /\ written = count + n /\ count + maxSpans <= Batch
    BY <1>3 DEF IInv, TypeOK, BatchInv
  <2>3. n + 2 = maxSpans - (remaining - 2) /\ written + 2 = count + (n + 2)
    BY <1>3, <2>2
  <2>4. QED
    BY <1>3, <1>11, <2>1, <2>2, <2>3 DEF BatchInv
<1>15. QED
  BY <1>11, <1>12, <1>13, <1>14 DEF IInv, TreeInv

LEMMA ReturnInv ==
  ASSUME IInv, Return
  PROVE  IInv'
<1>1. stack' \in Seq(FrameSet) /\ Stacked(stack', spans)
  BY PoppedFacts DEF IInv, Return
<1>2. TypeOK'
  BY <1>1 DEF IInv, TypeOK, FrameSet, Return
<1>3. BatchInv'
  BY DEF IInv, BatchInv, Return
<1>4. TreeInv'
  BY <1>1 DEF IInv, TreeInv, Return
<1>5. QED
  BY <1>2, <1>3, <1>4 DEF IInv

LEMMA EndTraceInv ==
  ASSUME IInv, EndTrace
  PROVE  IInv'
<1>1. TypeOK'
  <2>1. Len(spans) \in Nat
    BY LenProperties DEF IInv, TypeOK
  <2>2. QED
    BY <2>1 DEF IInv, TypeOK, BatchInv, EndTrace
<1>2. BatchInv'
  <2>1. /\ open /\ open' = FALSE /\ stack' = <<>> /\ written' = written
        /\ count' = count + (maxSpans - remaining)
    BY DEF EndTrace
  <2>2. Len(spans) \in Nat
    BY LenProperties DEF IInv, TypeOK
  <2>3. /\ count \in Nat /\ maxSpans \in Nat /\ remaining \in Nat
        /\ Len(spans) = maxSpans - remaining /\ written = count + Len(spans)
        /\ count + maxSpans <= Batch
    BY <2>1 DEF IInv, TypeOK, BatchInv
  <2>4. count + (maxSpans - remaining) <= Batch /\ written = count + (maxSpans - remaining)
    BY <2>3, TraceTreeAssumption
  <2>5. QED
    BY <2>1, <2>4 DEF BatchInv
<1>3. TreeInv'
  BY DEF IInv, TreeInv, EndTrace
<1>4. QED
  BY <1>1, <1>2, <1>3 DEF IInv

LEMMA NextInv == IInv /\ [Next]_vars => IInv'
<1> SUFFICES ASSUME IInv, [Next]_vars PROVE IInv'
  OBVIOUS
<1>1. CASE StartTrace BY <1>1, StartTraceInv
<1>2. CASE Leaf BY <1>2, LeafInv
<1>3. CASE Call BY <1>3, CallInv
<1>4. CASE Compute BY <1>4, ComputeInv
<1>5. CASE Return BY <1>5, ReturnInv
<1>6. CASE EndTrace BY <1>6, EndTraceInv
<1>7. CASE UNCHANGED vars
  BY <1>7 DEF vars, IInv, TypeOK, BatchInv, TreeInv
<1>8. QED
  BY <1>1, <1>2, <1>3, <1>4, <1>5, <1>6, <1>7 DEF Next, Filled

LEMMA Invariance == Spec => []IInv
BY InitInv, NextInv, PTL DEF Spec
-----------------------------------------------------------------------------
\* The variables keep their types; in particular the budget of a trace is
\* never overdrawn and no frame of addChildren is below the depth cap.
THEOREM TypeCorrect == Spec => []TypeOK
<1>1. IInv => TypeOK
  BY DEF IInv
<1>2. QED
  BY <1>1, Invariance, PTL

\* FillBatch returns the size it was asked for and wrote as many spans,
\* whatever the catalog and the random choices.
THEOREM BatchIsExact == Spec => []ExactBatch
<1>1. IInv => ExactBatch
  <2> SUFFICES ASSUME IInv PROVE ExactBatch
    OBVIOUS
  <2>1. CASE open
    BY <2>1, TraceTreeAssumption DEF IInv, TypeOK, BatchInv, ExactBatch, Full
  <2>2. CASE ~open
    BY <2>2, TraceTreeAssumption DEF IInv, TypeOK, BatchInv, ExactBatch, Full
  <2>3. QED
    BY <2>1, <2>2 DEF IInv, TypeOK
<1>2. QED
  BY <1>1, Invariance, PTL

\* Every child lies within its parent, for any durations the lognormal may
\* give, any offsets and any catalog.
THEOREM ChildrenInside == Spec => []ChildInsideParent
<1>1. IInv => ChildInsideParent
  BY DEF IInv, TreeInv, Nested, Inside, ChildInsideParent
<1>2. QED
  BY <1>1, Invariance, PTL

\* The calls of addChildren nest one level at a time, at most MaxDepth deep.
THEOREM CallsNested == Spec => []CallsNest
<1>1. IInv => CallsNest
  <2> SUFFICES ASSUME IInv PROVE CallsNest
    OBVIOUS
  <2>1. \A i \in 1 .. Len(stack) : stack[i].depth = i
    BY DEF IInv, TreeInv, Stacked
  <2>2. CASE stack = <<>>
    BY <2>1, <2>2 DEF CallsNest, MaxDepth
  <2>3. CASE stack # <<>>
    BY <2>1, <2>3, TopFacts DEF IInv, CallsNest, MaxDepth
  <2>4. QED
    BY <2>2, <2>3
<1>2. QED
  BY <1>1, Invariance, PTL
-----------------------------------------------------------------------------
\* The call graph in the tree.

Serving(p) == p.kind \notin {"client", "db"}

\* What CallsMatch says of a span c in place i and its parent p.
Fits(c, p, i) ==
  IF c.kind = "server"
    THEN p.kind = "client" /\ c.svc \in Peers[p.svc] /\ c.parent = i - 1
    ELSE Serving(p) /\ c.svc = p.svc

Linked(s)   == \A i \in 2 .. Len(s) : Fits(s[i], s[s[i].parent], i)
Followed(s) == \A i \in 1 .. Len(s) - 1 : s[i].kind = "client" => s[i + 1].parent = i
EndsInCall(s) == Len(s) > 0 /\ s[Len(s)].kind = "client"

\* A call of addChildren hangs its children below a span of the service they
\* are drawn for, and never below a remote or a database call.
Hosted(st, s) ==
  \A i \in 1 .. Len(st) :
    LET p == s[st[i].parent]
    IN  Serving(p) /\ p.svc = st[i].svc

\* Only the last span of the budget can be a remote call without its callee.
MatchInv ==
  /\ Linked(spans) /\ Followed(spans) /\ Hosted(stack, spans)
  /\ EndsInCall(spans) => remaining = 0

LEMMA LinkedGrows ==
  ASSUME NEW s \in Seq(SpanSet), NEW c \in SpanSet, Nested(s), Linked(s),
         c.parent \in 1 .. Len(s), Fits(c, s[c.parent], Len(s) + 1)
  PROVE  Linked(Append(s, c))
<1> DEFINE t == Append(s, c)
<1>1. Len(s) \in Nat /\ Len(t) = Len(s) + 1 /\ t[Len(s) + 1] = c
  BY Grows
<1>2. \A i \in 1 .. Len(s) : t[i] = s[i]
  BY Grows
<1> HIDE DEF t
<1>3. ASSUME NEW i \in 2 .. Len(t)
      PROVE  Fits(t[i], t[t[i].parent], i)
  <2>1. CASE i = Len(s) + 1
    BY <1>1, <1>2, <2>1
  <2>2. CASE i \in 2 .. Len(s)
    <3>1. s[i].parent \in 1 .. i - 1 /\ Fits(s[i], s[s[i].parent], i)
      BY <2>2 DEF Nested, Linked
    <3>2. t[i] = s[i] /\ t[s[i].parent] = s[s[i].parent]
      BY <1>1, <1>2, <2>2, <3>1
    <3>3. QED
      BY <3>1, <3>2
  <2>3. QED
    BY <1>1, <2>1, <2>2
<1>4. QED
  BY <1>3 DEF Linked, t

LEMMA FollowedGrows ==
  ASSUME NEW s \in Seq(SpanSet), NEW c \in SpanSet, Followed(s),
         EndsInCall(s) => c.parent = Len(s)
  PROVE  Followed(Append(s, c)) /\ (EndsInCall(Append(s, c)) <=> c.kind = "client")
<1>1. Len(s) \in Nat /\ Len(Append(s, c)) = Len(s) + 1 /\ Append(s, c)[Len(s) + 1] = c
  BY Grows
<1>2. \A i \in 1 .. Len(s) : Append(s, c)[i] = s[i]
  BY Grows
<1>3. QED
  BY <1>1, <1>2 DEF Followed, EndsInCall

\* Hosts stay hosts when a span is added.
LEMMA HostedGrows ==
  ASSUME NEW s \in Seq(SpanSet), NEW c \in SpanSet, NEW st, Stacked(st, s), Hosted(st, s)
  PROVE  Hosted(st, Append(s, c))
<1>1. \A i \in 1 .. Len(s) : Append(s, c)[i] = s[i]
  BY Grows
<1>2. QED
  BY <1>1 DEF Stacked, Hosted

LEMMA CountedHosts ==
  ASSUME TypeOK, TreeInv, Looping, Hosted(stack, spans)
  PROVE  Hosted(Counted, spans)
<1>1. stack \in Seq(FrameSet) /\ stack # <<>> /\ Top.left > 0
  BY DEF TypeOK, FrameSet, Looping
<1>2. Len(stack) \in 1 .. MaxDepth /\ Top \in FrameSet
  BY <1>1, TopFacts
<1> DEFINE n == Len(stack)
           f == [Top EXCEPT !.left = @ - 1]
<1>3. f.svc = Top.svc /\ f.parent = Top.parent /\ f \in FrameSet
  <2>1. Top.left - 1 \in 0 .. 3
    BY <1>1, <1>2 DEF FrameSet
  <2>2. f = [parent |-> Top.parent, svc |-> Top.svc, depth |-> Top.depth, left |-> Top.left - 1]
    BY <1>2 DEF FrameSet
  <2>3. QED
    BY <1>2, <2>1, <2>2 DEF FrameSet
<1>4. Counted = [stack EXCEPT ![n] = f]
  BY DEF Counted, Top
<1>5. n \in 1 .. Len(stack)
  BY <1>2
<1> HIDE DEF f
<1>6. Len(Counted) = n /\ \A j \in 1 .. n : Counted[j] = IF j = n THEN f ELSE stack[j]
  BY <1>1, <1>3, <1>4, <1>5, ExceptSeq
<1>7. \A j \in 1 .. n : Counted[j].svc = stack[j].svc /\ Counted[j].parent = stack[j].parent
  BY <1>3, <1>6 DEF Top
<1>8. QED
  BY <1>6, <1>7 DEF Hosted

\* Entering addChildren below a span that serves.
LEMMA EnteredHosts ==
  ASSUME NEW st \in Seq(FrameSet), NEW s, Hosted(st, s), NEW p \in Nat, NEW v \in Service,
         Serving(s[p]), s[p].svc = v, NEW d \in Nat \ {0}, NEW left \in Int,
         NEW f \in Enter(p, v, d, left)
  PROVE  Hosted(st \o f, s)
<1>1. CASE f = <<>>
  BY <1>1, ConcatEmptySeq
<1>2. ASSUME NEW n \in ChildCounts, d <= MaxDepth,
             f = <<[parent |-> p, svc |-> v, depth |-> d, left |-> n]>>
      PROVE  Hosted(st \o f, s)
  <2> DEFINE g == [parent |-> p, svc |-> v, depth |-> d, left |-> n]
  <2>1. g \in FrameSet /\ g.svc = v /\ g.parent = p
    BY <1>2, TraceTreeAssumption DEF FrameSet, MaxDepth
  <2> HIDE DEF g
  <2>2. f = <<g>>
    BY <1>2 DEF g
  <2>3. st \o f = Append(st, g)
    BY <2>1, <2>2
  <2>4. /\ Len(Append(st, g)) = Len(st) + 1 /\ Len(st) \in Nat
        /\ \A i \in 1 .. Len(st) : Append(st, g)[i] = st[i]
        /\ Append(st, g)[Len(st) + 1] = g
    BY <2>1, AppendProperties
  <2>5. QED
    BY <2>1, <2>3, <2>4 DEF Hosted
<1>3. QED
  BY <1>1, <1>2 DEF Enter, MaxDepth

LEMMA PoppedHosts ==
  ASSUME TypeOK, TreeInv, stack # <<>>, Hosted(stack, spans)
  PROVE  Hosted(Popped, spans)
<1>1. stack \in Seq(FrameSet) /\ Len(stack) \in 1 .. MaxDepth
  BY TopFacts DEF TypeOK, FrameSet
<1> DEFINE n == Len(stack) - 1
<1>2. n \in Nat /\ n \in Int /\ 1 \in Int /\ \A i \in 1 .. n : stack[i] \in FrameSet
  BY <1>1, ElementOfSeq DEF MaxDepth
<1>3. \A i \in 1 .. n : i \in 1 .. Len(stack)
  BY <1>1 DEF MaxDepth
<1>4. Popped = SubSeq(stack, 1, n)
  BY DEF Popped
<1> HIDE DEF n
<1>5. /\ Len(SubSeq(stack, 1, n)) = IF 1 <= n THEN n - 1 + 1 ELSE 0
      /\ \A i \in 1 .. n - 1 + 1 : SubSeq(stack, 1, n)[i] = stack[1 + i - 1]
  BY <1>2, SubSeqProperties
<1>6. Len(Popped) = n /\ \A i \in 1 .. n : Popped[i] = stack[i]
  BY <1>2, <1>4, <1>5
<1>7. QED
  BY <1>3, <1>6 DEF Hosted

\* A child of the innermost call is what the call is for.
LEMMA ChildKind ==
  ASSUME NEW kind, NEW c \in Children(Top.parent, Top.svc, kind)
  PROVE  c.kind = kind /\ c.svc = Top.svc /\ c.parent = Top.parent
  BY DEF Children, Span

LEMMA ServerKind ==
  ASSUME NEW k, NEW call, NEW callee
  PROVE  /\ ServerSpan(k, call, callee).kind = "server"
         /\ ServerSpan(k, call, callee).svc = callee
         /\ ServerSpan(k, call, callee).parent = k
  BY DEF ServerSpan, Span

\* The call under way hangs its children below a span of its service, and while
\* it has an iteration left no remote call waits for its callee.
LEMMA TopHosts ==
  ASSUME TypeOK, TreeInv, MatchInv, Looping
  PROVE  /\ Serving(spans[Top.parent]) /\ spans[Top.parent].svc = Top.svc
         /\ ~EndsInCall(spans)
<1>1. Len(stack) \in 1 .. Len(stack) /\ Top = stack[Len(stack)]
  BY TopFacts DEF Looping
<1>2. remaining > 0 /\ remaining \in Nat
  BY DEF Looping, TypeOK
<1>3. QED
  BY <1>1, <1>2 DEF MatchInv, Hosted

LEMMA InitMatch == Init => MatchInv
  BY DEF Init, MatchInv, Linked, Followed, Hosted, EndsInCall

LEMMA StartTraceMatch ==
  ASSUME IInv, StartTrace
  PROVE  MatchInv'
<1>1. PICK v \in Service, d \in SampleDur : spans' = <<Span(NoParent, v, "entry", 0, d)>>
  BY DEF StartTrace
<1> DEFINE c == Span(NoParent, v, "entry", 0, d)
<1>2. c \in SpanSet /\ c.svc = v /\ c.kind = "entry"
  BY SampleRange DEF Span, SpanSet, Kinds, NoParent, Floor
<1> HIDE DEF c
<1>3. spans' = <<c>> /\ Len(spans') = 1 /\ spans'[1] = c
  BY <1>1, <1>2 DEF c
<1>4. Linked(spans') /\ Followed(spans') /\ ~EndsInCall(spans')
  BY <1>2, <1>3 DEF Linked, Followed, EndsInCall
<1>5. stack' \in Enter(1, v, 1, remaining') /\ remaining' \in Int /\ stack' \in Seq(FrameSet)
  <2>1. stack' \in Enter(1, v, 1, remaining')
    BY <1>2, <1>3 DEF StartTrace
  <2>2. TypeOK'
    BY StartTraceInv DEF IInv
  <2>3. QED
    BY <2>1, <2>2 DEF TypeOK, FrameSet
<1>6. Hosted(stack', spans')
  <2>1. <<>> \in Seq(FrameSet) /\ Hosted(<<>>, spans')
    BY EmptySeq DEF Hosted
  <2>2. Serving(spans'[1]) /\ spans'[1].svc = v
    BY <1>2, <1>3 DEF Serving
  <2>3. Hosted(<<>> \o stack', spans')
    <3>1. PICK left \in Int : stack' \in Enter(1, v, 1, left)
      BY <1>5
    <3>2. 1 \in Nat /\ 1 \in Nat \ {0}
      OBVIOUS
    <3>3. QED
      BY <1>1, <2>1, <2>2, <3>1, <3>2, EnteredHosts
  <2>4. <<>> \o stack' = stack'
    BY <1>5, ConcatEmptySeq
  <2>5. QED
    BY <2>3, <2>4
<1>7. QED
  BY <1>4, <1>6 DEF MatchInv

\* What Leaf and Compute do to the spans.
LEMMA OneMoreMatch ==
  ASSUME IInv, MatchInv, Looping, NEW kind \in {"db", "client", "internal"},
         NEW c \in Children(Top.parent, Top.svc, kind)
  PROVE  /\ Linked(Append(spans, c)) /\ Followed(Append(spans, c))
         /\ EndsInCall(Append(spans, c)) <=> kind = "client"
<1>1. spans \in Seq(SpanSet) /\ Nested(spans)
  BY DEF IInv, TypeOK, SpanSet, TreeInv
<1>2. kind \in Kinds /\ TypeOK /\ TreeInv
  BY DEF Kinds, IInv
<1>3. c \in SpanSet /\ c.parent \in 1 .. Len(spans)
  BY <1>2, ChildFacts
<1>4. c.kind = kind /\ c.svc = Top.svc /\ c.parent = Top.parent
  BY ChildKind
<1>5. Serving(spans[c.parent]) /\ spans[c.parent].svc = c.svc /\ ~EndsInCall(spans)
  BY <1>2, <1>4, TopHosts
<1>6. Fits(c, spans[c.parent], Len(spans) + 1)
  BY <1>4, <1>5 DEF Fits
<1>7. Linked(spans) /\ Followed(spans)
  BY DEF MatchInv
<1>8. Linked(Append(spans, c))
  BY <1>1, <1>3, <1>6, <1>7, LinkedGrows
<1>9. Followed(Append(spans, c)) /\ (EndsInCall(Append(spans, c)) <=> c.kind = "client")
  BY <1>1, <1>3, <1>5, <1>7, FollowedGrows
<1>10. QED
  BY <1>4, <1>8, <1>9

LEMMA LeafMatch ==
  ASSUME IInv, MatchInv, Leaf
  PROVE  MatchInv'
<1>1. PICK kind \in {"db", "client", "internal"} :
        /\ kind = "client" => remaining = 1
        /\ \E c \in Children(Top.parent, Top.svc, kind) : spans' = Append(spans, c)
  BY DEF Leaf
<1>2. PICK c \in Children(Top.parent, Top.svc, kind) : spans' = Append(spans, c)
  BY <1>1
<1>3. /\ Looping /\ spans \in Seq(SpanSet) /\ stack' = Counted /\ remaining' = remaining - 1
      /\ TypeOK /\ TreeInv /\ Hosted(stack, spans) /\ kind \in Kinds
  BY DEF Leaf, IInv, TypeOK, SpanSet, MatchInv, Kinds
<1>4. c \in SpanSet
  BY <1>3, ChildFacts
<1>5. Hosted(stack', spans')
  BY <1>2, <1>3, <1>4, CountedFacts, CountedHosts, HostedGrows
<1>6. /\ Linked(spans') /\ Followed(spans')
      /\ EndsInCall(spans') <=> kind = "client"
  BY <1>2, <1>3, OneMoreMatch
<1>7. QED
  BY <1>1, <1>3, <1>5, <1>6 DEF MatchInv

LEMMA ComputeMatch ==
  ASSUME IInv, MatchInv, Compute
  PROVE  MatchInv'
<1>1. PICK c \in Children(Top.parent, Top.svc, "internal") :
        /\ spans' = Append(spans, c)
        /\ \E f \in Enter(Len(spans) + 1, Top.svc, Top.depth + 1, remaining - 1) :
             stack' = Counted \o f
  BY DEF Compute
<1>2. PICK f \in Enter(Len(spans) + 1, Top.svc, Top.depth + 1, remaining - 1) :
        stack' = Counted \o f
  BY <1>1
<1>3. /\ Looping /\ spans \in Seq(SpanSet) /\ remaining \in Nat /\ TypeOK /\ TreeInv
      /\ Hosted(stack, spans) /\ "internal" \in Kinds
  BY DEF Compute, IInv, TypeOK, SpanSet, MatchInv, Kinds
<1>4. c \in SpanSet /\ c.kind = "internal" /\ c.svc = Top.svc
  BY <1>3, ChildFacts, ChildKind
<1>5. Len(spans) \in Nat /\ Len(spans') = Len(spans) + 1 /\ spans'[Len(spans) + 1] = c
  BY <1>1, <1>3, <1>4, Grows
<1>6. Counted \in Seq(FrameSet) /\ Hosted(Counted, spans')
  BY <1>1, <1>3, <1>4, CountedFacts, CountedHosts, HostedGrows
<1>7. Top.svc \in Service /\ Top.depth + 1 \in Nat \ {0}
  BY <1>3, TopFacts DEF FrameSet, Looping, MaxDepth
<1>8. Hosted(stack', spans')
  <2>1. Serving(spans'[Len(spans) + 1]) /\ spans'[Len(spans) + 1].svc = Top.svc
    BY <1>4, <1>5 DEF Serving
  <2>2. Len(spans) + 1 \in Nat /\ remaining - 1 \in Int
    BY <1>3, <1>5
  <2>3. QED
    BY <1>2, <1>6, <1>7, <2>1, <2>2, EnteredHosts
<1>9. Linked(spans') /\ Followed(spans') /\ ~EndsInCall(spans')
  BY <1>1, <1>3, OneMoreMatch
<1>10. QED
  BY <1>8, <1>9 DEF MatchInv

LEMMA CallMatch ==
  ASSUME IInv, MatchInv, Call
  PROVE  MatchInv'
<1> DEFINE n == Len(spans)
<1>1. PICK c \in Children(Top.parent, Top.svc, "client"), peer \in Peers[Top.svc] :
        /\ spans' = spans \o <<c, ServerSpan(n + 1, c, peer)>>
        /\ \E f \in Enter(n + 2, peer, Top.depth + 1, remaining - 2) : stack' = Counted \o f
  BY DEF Call
<1>2. PICK f \in Enter(n + 2, peer, Top.depth + 1, remaining - 2) : stack' = Counted \o f
  BY <1>1
<1>3. /\ Looping /\ spans \in Seq(SpanSet) /\ Nested(spans) /\ remaining \in Nat /\ n \in Nat
      /\ TypeOK /\ TreeInv /\ Hosted(stack, spans) /\ "client" \in Kinds
  BY LenProperties DEF Call, IInv, TypeOK, SpanSet, TreeInv, MatchInv, Kinds
<1>4. Top.svc \in Service /\ Top.depth + 1 \in Nat \ {0}
  BY <1>3, TopFacts DEF FrameSet, Looping, MaxDepth
<1>5. peer \in Service
  BY <1>4, TraceTreeAssumption
<1>6. c \in SpanSet /\ c.kind = "client" /\ c.svc = Top.svc /\ c.parent \in 1 .. n
  BY <1>3, ChildFacts, ChildKind
<1> DEFINE t == Append(spans, c)
           s == ServerSpan(n + 1, c, peer)
<1>7. s \in SpanSet /\ s.parent = n + 1 /\ s.kind = "server" /\ s.svc = peer
  <2>1. n + 1 \in Nat
    BY <1>3
  <2>2. s \in SpanSet
    BY <1>5, <1>6, <2>1, ServerFacts
  <2>3. QED
    BY <2>2, ServerKind
<1>8. spans' = Append(t, s)
  <2> HIDE DEF s
  <2>1. spans \o <<c, s>> = Append(Append(spans, c), s)
    BY <1>3, <1>6, <1>7
  <2>2. QED
    BY <1>1, <2>1 DEF s
<1> HIDE DEF s
<1>9. t \in Seq(SpanSet) /\ Len(t) = n + 1 /\ t[n + 1] = c /\ Nested(t)
  BY <1>3, <1>6, ChildFacts, Grows, NestedGrows
<1>10. Linked(t) /\ Followed(t) /\ EndsInCall(t)
  BY <1>3, OneMoreMatch
<1>11. Counted \in Seq(FrameSet) /\ Stacked(Counted, t) /\ Hosted(Counted, t)
  BY <1>3, <1>6, CountedFacts, CountedHosts, StackedGrows, HostedGrows
<1> HIDE DEF t
<1>12. Linked(spans') /\ Followed(spans') /\ ~EndsInCall(spans')
  <2>1. s.parent \in 1 .. Len(t) /\ t[s.parent] = c
    BY <1>3, <1>7, <1>9
  <2>2. Fits(s, t[s.parent], Len(t) + 1)
    BY <1>1, <1>3, <1>6, <1>7, <1>9, <2>1 DEF Fits
  <2>3. Linked(Append(t, s))
    BY <1>7, <1>9, <1>10, <2>1, <2>2, LinkedGrows
  <2>4. Followed(Append(t, s)) /\ ~EndsInCall(Append(t, s))
    BY <1>7, <1>9, <1>10, FollowedGrows
  <2>5. QED
    BY <1>8, <2>3, <2>4
<1>13. Hosted(stack', spans')
  <2>1. Hosted(Counted, spans')
    BY <1>7, <1>8, <1>9, <1>11, HostedGrows
  <2>2. Len(t) + 1 = n + 2 /\ Append(t, s)[Len(t) + 1] = s
    BY <1>3, <1>7, <1>9, Grows
  <2>3. Serving(spans'[n + 2]) /\ spans'[n + 2].svc = peer
    BY <1>7, <1>8, <2>2 DEF Serving
  <2>4. n + 2 \in Nat /\ remaining - 2 \in Int
    BY <1>3
  <2>5. QED
    BY <1>2, <1>4, <1>5, <1>11, <2>1, <2>3, <2>4, EnteredHosts
<1>14. QED
  BY <1>12, <1>13 DEF MatchInv

LEMMA NextMatch == IInv /\ MatchInv /\ [Next]_vars => MatchInv'
<1> SUFFICES ASSUME IInv, MatchInv, [Next]_vars PROVE MatchInv'
  OBVIOUS
<1>1. CASE StartTrace BY <1>1, StartTraceMatch
<1>2. CASE Leaf BY <1>2, LeafMatch
<1>3. CASE Call BY <1>3, CallMatch
<1>4. CASE Compute BY <1>4, ComputeMatch
<1>5. CASE Return BY <1>5, PoppedHosts DEF IInv, MatchInv, Return
<1>6. CASE EndTrace BY <1>6 DEF MatchInv, EndTrace
<1>7. CASE UNCHANGED vars BY <1>7 DEF vars, MatchInv
<1>8. QED
  BY <1>1, <1>2, <1>3, <1>4, <1>5, <1>6, <1>7 DEF Next, Filled

\* The call graph can be read off the tree, for any catalog and any random
\* choices: a server span is the one child of a client span of a service that
\* calls its own, every other child stays in the service of its parent, and only
\* the last span of a used-up budget is a call without its callee.
THEOREM CallsAreMatched == Spec => []CallsMatch
<1>1. IInv /\ MatchInv => CallsMatch
  <2> SUFFICES ASSUME IInv, MatchInv PROVE CallsMatch
    OBVIOUS
  <2>1. \A i \in 2 .. Len(spans) :
          spans[i].parent \in 1 .. i - 1 /\ Fits(spans[i], spans[spans[i].parent], i)
    BY DEF IInv, TreeInv, Nested, MatchInv, Linked
  <2>2. Len(spans) \in Nat
    BY LenProperties DEF IInv, TypeOK
  <2>3. \A i \in 1 .. Len(spans) : spans[i].kind = "client" =>
          IF i = Len(spans) THEN remaining = 0 ELSE spans[i + 1].parent = i
    BY <2>2 DEF MatchInv, Followed, EndsInCall
  <2>4. QED
    BY <2>1, <2>3 DEF CallsMatch, Fits, Serving
<1>2. QED
  BY <1>1, InitMatch, NextMatch, Invariance, PTL DEF Spec
=============================================================================
