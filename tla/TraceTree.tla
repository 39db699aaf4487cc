----------------------------- MODULE TraceTree -----------------------------
(***************************************************************************)
(* The generator of internal/model: FillBatch, genTrace and addChildren,   *)
(* with the recursion of addChildren as an explicit stack of frames, one   *)
(* action per iteration of its loop.  Names, attributes, events and ids    *)
(* are left out: a span is known by its place in the trace.  Times are     *)
(* nanoseconds from the start of the trace.  Random choices are            *)
(* nondeterministic; the catalog is any one with calls to later services.  *)
(* The operators named Slip_... are mistakes the code could have made.     *)
(***************************************************************************)
EXTENDS Integers, Sequences

CONSTANTS
  Services,    \* cfg.Gen.Services
  Peers,       \* the services each one has client operations for
  SpansMin,    \* cfg.Gen.SpansPerTraceMin
  SpansMax,    \* cfg.Gen.SpansPerTraceMax
  Batch,       \* the target of FillBatch
  ChildCounts, \* what 1 + rng.IntN(3) may give
  Samples,     \* what the lognormal of sampleDur may give before the floor
  OffsetSteps  \* granularity: how many offsets of a child are tried, less one

Service == 0 .. Services - 1

ASSUME TraceTreeAssumption ==
  /\ Services \in Nat \ {0}
  /\ Peers \in [Service -> SUBSET Service]
  /\ \A s \in Service : \A p \in Peers[s] : p > s
  /\ SpansMin \in Nat \ {0} /\ SpansMax \in Nat /\ SpansMin <= SpansMax
  /\ Batch \in Nat /\ OffsetSteps \in Nat \ {0}
  /\ ChildCounts \subseteq 1 .. 3 /\ Samples \subseteq Nat

VARIABLES
  count,     \* spans of the traces FillBatch has counted
  maxSpans,  \* the span limit of the trace under way
  remaining, \* what is left of it
  spans,     \* the spans of that trace, in the order of emitSpan
  stack,     \* the calls of addChildren under way, outermost first
  open,      \* genTrace has not returned
  written    \* history: spans appended to the batch

vars == <<count, maxSpans, remaining, spans, stack, open, written>>

Slip_MaxDepth == 7  \* > 6 taken on the depth of the caller
MaxDepth      == 6
InternalDepth == 3
Floor         == 1000  \* 1 us

NoParent == 0
Kinds    == {"entry", "server", "client", "db", "internal"}

Least(a, b) == IF a <= b THEN a ELSE b

SampleDur == {IF ns < Floor THEN Floor ELSE ns : ns \in Samples}

\* float64(pDur) * 0.7 * rng.Float64() stays below 0.7 * pDur.
LatestOffset(d) == IF d = 0 THEN 0 ELSE (7 * d - 1) \div 10
Offsets(d)      == {(LatestOffset(d) * k) \div OffsetSteps : k \in 0 .. OffsetSteps}

ChildDur(room, d) == IF d > room /\ room > 0 THEN room ELSE d

Span(parent, svc, kind, start, dur) ==
  [parent |-> parent, svc |-> svc, kind |-> kind, start |-> start, dur |-> dur]

\* The spans a child of span p, in service s, of the given kind may be.
Children(p, s, kind) ==
  {Span(p, s, kind, spans[p].start + off, ChildDur(spans[p].dur - off, d)) :
     off \in Offsets(spans[p].dur), d \in SampleDur}

\* The callee's span within the span c, which has number p: a tenth later, and
\* 85 parts in a hundred as long.
ServerSpan(p, c, peer) ==
  Span(p, peer, "server", c.start + c.dur \div 10, (c.dur * 85) \div 100)

\* Entering addChildren: the frame to push, or none when it returns at once.
Enter(parent, svc, depth, left) ==
  IF left <= 0 \/ depth > MaxDepth
    THEN {<<>>}
    ELSE {<<[parent |-> parent, svc |-> svc, depth |-> depth, left |-> n]>> :
            n \in ChildCounts}

Top    == stack[Len(stack)]
Popped == SubSeq(stack, 1, Len(stack) - 1)
\* The loop of the innermost call has an iteration left.
Looping == stack # <<>> /\ Top.left > 0 /\ remaining > 0
\* The stack with that iteration done.
Counted == [stack EXCEPT ![Len(stack)].left = @ - 1]

Init ==
  /\ count = 0 /\ maxSpans = 0 /\ remaining = 0
  /\ spans = <<>> /\ stack = <<>> /\ open = FALSE /\ written = 0
-----------------------------------------------------------------------------
Slip_StartTrace ==  \* the limit is not cut to what the batch has room for
  /\ ~open /\ count < Batch
  /\ maxSpans' \in SpansMin .. SpansMax
  /\ remaining' = maxSpans' - 1
  /\ \E s \in Service, d \in SampleDur : spans' = <<Span(NoParent, s, "entry", 0, d)>>
  /\ stack' \in Enter(1, spans'[1].svc, 1, remaining')
  /\ open' = TRUE /\ written' = written + 1
  /\ UNCHANGED count

\* The entry span of a new trace.
StartTrace ==
  /\ ~open /\ count < Batch
  /\ \E want \in SpansMin .. SpansMax : maxSpans' = Least(want, Batch - count)
  /\ remaining' = maxSpans' - 1
  /\ \E s \in Service, d \in SampleDur : spans' = <<Span(NoParent, s, "entry", 0, d)>>
  /\ stack' \in Enter(1, spans'[1].svc, 1, remaining')
  /\ open' = TRUE /\ written' = written + 1
  /\ UNCHANGED count

\* A child below which there is nothing: a database call, a remote call that
\* takes the last span, an internal one too deep or with nothing left.
Leaf ==
  /\ Looping
  /\ \E kind \in {"db", "client", "internal"} :
       /\ kind = "client" => remaining = 1 /\ Peers[Top.svc] # {}
       /\ kind = "internal" => remaining = 1 \/ Top.depth >= InternalDepth
       /\ \E c \in Children(Top.parent, Top.svc, kind) : spans' = Append(spans, c)
  /\ remaining' = remaining - 1
  /\ stack' = Counted
  /\ written' = written + 1
  /\ UNCHANGED <<count, maxSpans, open>>

Slip_CallOver ==  \* does not look whether a span is left for the server
  /\ Looping
  /\ \E c \in Children(Top.parent, Top.svc, "client"), peer \in Peers[Top.svc] :
       LET s == ServerSpan(Len(spans) + 1, c, peer)
       IN  /\ spans' = spans \o <<c, s>>
           /\ \E f \in Enter(Len(spans) + 2, peer, Top.depth + 1, remaining - 2) :
                stack' = Counted \o f
  /\ remaining' = remaining - 2
  /\ written' = written + 2
  /\ UNCHANGED <<count, maxSpans, open>>

Slip_CallSibling ==  \* the server span is hung below the caller's parent
  /\ Looping /\ remaining > 1
  /\ \E c \in Children(Top.parent, Top.svc, "client"), peer \in Peers[Top.svc] :
       LET s == ServerSpan(Top.parent, c, peer)
       IN  /\ spans' = spans \o <<c, s>>
           /\ \E f \in Enter(Len(spans) + 2, peer, Top.depth + 1, remaining - 2) :
                stack' = Counted \o f
  /\ remaining' = remaining - 2
  /\ written' = written + 2
  /\ UNCHANGED <<count, maxSpans, open>>

\* A remote call: the client span, the callee's server span, and the callee.
Call ==
  /\ Looping /\ remaining > 1
  /\ \E c \in Children(Top.parent, Top.svc, "client"), peer \in Peers[Top.svc] :
       LET s == ServerSpan(Len(spans) + 1, c, peer)
       IN  /\ spans' = spans \o <<c, s>>
           /\ \E f \in Enter(Len(spans) + 2, peer, Top.depth + 1, remaining - 2) :
                stack' = Counted \o f
  /\ remaining' = remaining - 2
  /\ written' = written + 2
  /\ UNCHANGED <<count, maxSpans, open>>

Slip_ComputeFlat ==  \* depth for depth+1
  /\ Looping /\ remaining > 1 /\ Top.depth < InternalDepth
  /\ \E c \in Children(Top.parent, Top.svc, "internal") :
       /\ spans' = Append(spans, c)
       /\ \E f \in Enter(Len(spans) + 1, Top.svc, Top.depth, remaining - 1) :
            stack' = Counted \o f
  /\ remaining' = remaining - 1
  /\ written' = written + 1
  /\ UNCHANGED <<count, maxSpans, open>>

\* An internal operation, with the children of its own service below it.
Compute ==
  /\ Looping /\ remaining > 1 /\ Top.depth < InternalDepth
  /\ \E c \in Children(Top.parent, Top.svc, "internal") :
       /\ spans' = Append(spans, c)
       /\ \E f \in Enter(Len(spans) + 1, Top.svc, Top.depth + 1, remaining - 1) :
            stack' = Counted \o f
  /\ remaining' = remaining - 1
  /\ written' = written + 1
  /\ UNCHANGED <<count, maxSpans, open>>

Slip_Return ==  \* skips the children there is no budget for without counting them
  /\ stack # <<>> /\ ~Looping
  /\ stack' = IF Top.left = 0 THEN Popped ELSE stack
  /\ UNCHANGED <<count, maxSpans, remaining, spans, open, written>>

\* A call of addChildren returns: its children are done, or the budget is.
Return ==
  /\ stack # <<>> /\ ~Looping
  /\ stack' = Popped
  /\ UNCHANGED <<count, maxSpans, remaining, spans, open, written>>

\* genTrace returns, and FillBatch adds what it returned.
EndTrace ==
  /\ open /\ stack = <<>>
  /\ open' = FALSE
  /\ count' = count + (maxSpans - remaining)
  /\ UNCHANGED <<maxSpans, remaining, spans, stack, written>>

\* FillBatch returns.
Full   == ~open /\ count >= Batch
Filled == Full /\ UNCHANGED vars

Next == StartTrace \/ Leaf \/ Call \/ Compute \/ Return \/ EndTrace \/ Filled

Spec     == Init /\ [][Next]_vars
FairSpec == Spec /\ WF_vars(Next)
-----------------------------------------------------------------------------
TypeOK ==
  /\ count \in Nat /\ maxSpans \in Nat /\ remaining \in Nat /\ written \in Nat
  /\ open \in BOOLEAN
  /\ spans \in Seq([parent : Nat, svc : Service, kind : Kinds, start : Nat, dur : Nat])
  /\ stack \in Seq([parent : Nat, svc : Service, depth : 1 .. MaxDepth, left : 0 .. 3])

\* FillBatch returns exactly the size asked for, and that is how many spans it
\* wrote: the engine paces, counts and reports the batch by the returned size.
ExactBatch ==
  /\ written <= Batch
  /\ Full => count = Batch /\ written = Batch

\* A child starts no earlier than its parent and ends no later.  It takes both
\* the floor of sampleDur and the depth cap: each level of calls leaves a child
\* about a quarter of its parent's time, and one level more would leave none.
ChildInsideParent ==
  \A i \in 2 .. Len(spans) :
    LET c == spans[i]
        p == spans[c.parent]
    IN  p.start <= c.start /\ c.start + c.dur <= p.start + p.dur

\* Every span but the first hangs below an earlier one, and the call graph can
\* be read off the tree: a server span lies in a service its client parent's
\* service calls, any other child in the service of its parent, which is never
\* a database call; a client span without its server span is the last one.
CallsMatch ==
  /\ \A i \in 2 .. Len(spans) :
       LET c == spans[i]
           p == spans[c.parent]
       IN  /\ c.parent \in 1 .. i - 1
           /\ IF c.kind = "server"
                THEN p.kind = "client" /\ c.svc \in Peers[p.svc] /\ c.parent = i - 1
                ELSE p.kind \notin {"client", "db"} /\ c.svc = p.svc
  /\ \A i \in 1 .. Len(spans) :
       spans[i].kind = "client" =>
         IF i = Len(spans) THEN remaining = 0 ELSE spans[i + 1].parent = i

\* The recursion is at most MaxDepth calls deep, and each call is a level
\* below the one that made it; internal spans nest at most twice below their
\* service's entry into the trace or a remote call.
CallsNest ==
  /\ Len(stack) <= MaxDepth
  /\ \A i \in 1 .. Len(stack) : stack[i].depth = i

\* FillBatch returns: every trace adds to the count.
BatchFills == <>Full
=============================================================================
