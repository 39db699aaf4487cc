----------------------------- MODULE RowsProofs -----------------------------
(* From the catalog to the table, for any number of services, of base      *)
(* names and of spans in a batch.                                          *)
EXTENDS Rows, FiniteSetTheorems, TLAPS

(* The catalog.                                                            *)

\* The names services get, and what an operation may look like.
Names == {NoName} \union {NameOf(k) : k \in Service}
Operations == [typ : {"httpServer", "consumer", "rpcServer", "http", "rpc", "db", "internal"},
               peer : Int, callee : Names]

\* What a service may be asked to do below its entry points: the calls go to
\* later services, and an RPC names the one it goes to.
LegalOps(s) ==
  {Op("http", p, NoName) : p \in s + 1 .. Services - 1}
    \union {Op("rpc", p, NameOf(p)) : p \in s + 1 .. Services - 1}
    \union {Op("db", NoPeer, NoName), Op("internal", NoPeer, NoName)}

\* The services have their names as soon as the first loop has been there, so
\* the second loop copies none too early.
CatInv ==
  /\ pass \in 1 .. 3 /\ i \in Service
  /\ cat \in [Service -> [name : Names, entryOps : SUBSET {Server, Consumer},
                          childOps : SUBSET Operations]]
  /\ \A s \in Service :
       /\ pass > 1 \/ s < i => cat[s].name = NameOf(s)
       /\ cat[s].childOps \subseteq LegalOps(s)

LEMMA NextRemainder ==
  ASSUME NEW n \in Nat, NEW k \in 1 .. n
  PROVE  k % n = IF k = n THEN 0 ELSE k
BY Z3

LEMMA CatInvInit == CatInit => CatInv
BY CatalogAssumption DEF CatInit, CatInv, Service, Names

LEMMA LegalOpsAreOperations ==
  ASSUME NEW s \in Service
  PROVE  LegalOps(s) \subseteq Operations
<1>1. \A p \in s + 1 .. Services - 1 : p \in Service /\ p \in Int
  BY CatalogAssumption DEF Service
<1>2. NoName \in Names /\ NoPeer \in Int /\ \A p \in s + 1 .. Services - 1 : NameOf(p) \in Names
  BY <1>1 DEF Names, NoPeer
<1>3. ASSUME NEW p \in s + 1 .. Services - 1
      PROVE  Op("http", p, NoName) \in Operations /\ Op("rpc", p, NameOf(p)) \in Operations
  BY <1>1, <1>2 DEF Op, Operations
<1>4. Op("db", NoPeer, NoName) \in Operations /\ Op("internal", NoPeer, NoName) \in Operations
  BY <1>2 DEF Op, Operations
<1>5. QED
  BY <1>3, <1>4 DEF LegalOps

LEMMA CatInvStep ==
  ASSUME CatInv, BuildStep
  PROVE  CatInv'
<1>0. Services \in Nat /\ Services > 0
  BY CatalogAssumption
<1>1. pass \in {1, 2} /\ Advance
  BY DEF BuildStep, Describe, Populate
<1>2. \/ i + 1 < Services /\ i' = i + 1 /\ pass' = pass
      \/ i + 1 = Services /\ i' = 0 /\ pass' = pass + 1
  <2>1. i + 1 \in 1 .. Services
    BY <1>0 DEF CatInv, Service
  <2>2. (i + 1) % Services = IF i + 1 = Services THEN 0 ELSE i + 1
    BY <1>0, <2>1, NextRemainder
  <2>3. QED
    BY <1>0, <1>1, <2>1, <2>2 DEF Advance
<1>3. pass' \in 1 .. 3 /\ i' \in Service
  BY <1>0, <1>1, <1>2 DEF CatInv, Service
<1>4. CASE Describe
  <2>1. PICK ops \in {{Server}, {Server, Consumer}} :
          cat' = [cat EXCEPT ![i].name = NameOf(i), ![i].entryOps = ops]
    BY <1>4 DEF Describe, Described
  <2>2. NameOf(i) \in Names /\ ops \in SUBSET {Server, Consumer} /\ i \in Service
    BY <2>1 DEF CatInv, Names
  <2>3. cat' \in [Service -> [name : Names, entryOps : SUBSET {Server, Consumer},
                             childOps : SUBSET Operations]]
    BY <2>1, <2>2 DEF CatInv
  <2>4. /\ cat'[i].name = NameOf(i)
        /\ \A s \in Service : /\ cat'[s].childOps = cat[s].childOps
                              /\ s # i => cat'[s].name = cat[s].name
    BY <2>1, <2>2 DEF CatInv
  <2>5. pass = 1
    BY <1>4 DEF Describe
  <2>6. \A s \in Service : pass' > 1 \/ s < i' => s < i \/ s = i
    BY <1>0, <1>2, <2>5 DEF CatInv, Service
  <2>7. QED
    BY <1>3, <2>3, <2>4, <2>6 DEF CatInv
<1>5. CASE Populate
  <2>1. PICK chosen \in Outbound :
          cat' = [cat EXCEPT ![i].childOps =
                    chosen \union {Op("db", NoPeer, NoName), Op("internal", NoPeer, NoName)}]
    BY <1>5 DEF Populate
  <2>2. pass = 2 /\ i \in Service
    BY <1>5 DEF Populate, CatInv
  <2>3. \A p \in i + 1 .. Services - 1 : cat[p].name = NameOf(p)
    BY <1>0, <2>2 DEF CatInv, Service
  <2>4. chosen \union {Op("db", NoPeer, NoName), Op("internal", NoPeer, NoName)} \subseteq LegalOps(i)
    <3>1. chosen \subseteq {Op("http", peer, NoName) : peer \in Callees}
                           \union {Op("rpc", peer, cat[peer].name) : peer \in Callees}
      BY DEF Outbound
    <3>2. {Op("rpc", peer, cat[peer].name) : peer \in Callees}
            \subseteq {Op("rpc", p, NameOf(p)) : p \in i + 1 .. Services - 1}
      BY <2>3 DEF Callees
    <3>3. QED
      BY <3>1, <3>2 DEF LegalOps, Callees
  <2>5. \A s \in Service : /\ cat'[s].name = cat[s].name
                           /\ s # i => cat'[s].childOps = cat[s].childOps
                           /\ cat'[i].childOps \subseteq LegalOps(i)
    BY <2>1, <2>2, <2>4 DEF CatInv
  <2>6. cat' \in [Service -> [name : Names, entryOps : SUBSET {Server, Consumer},
                             childOps : SUBSET Operations]]
    <3>1. LegalOps(i) \subseteq Operations
      BY <2>2, LegalOpsAreOperations
    <3>2. QED
      BY <2>1, <2>2, <2>4, <3>1 DEF CatInv
  <2>7. \A s \in Service : cat[s].name = NameOf(s) /\ cat[s].childOps \subseteq LegalOps(s)
    BY <2>2 DEF CatInv
  <2>8. QED
    BY <1>3, <2>5, <2>6, <2>7 DEF CatInv
<1>6. QED
  BY <1>4, <1>5 DEF BuildStep

-----------------------------------------------------------------------------
(* The generator.                                                          *)

Outcomes == {"error", "event", "plain"}
Spans == [svc : Service, op : Operations, parent : Nat, trace : Nat, outcome : Outcomes]
Groups == [svc : Service, spans : Seq(Nat)]

\* How a span may have come into its trace, below span p or as the root.
IsRoot(sp)      == sp.parent = 0 /\ sp.op \in {Server, Consumer}
IsLocal(sp, p)  == sp.svc = p.svc /\ sp.op \in LegalOps(p.svc)
IsCallee(sp, p) ==
  /\ p.op.typ \in {"http", "rpc"}
  /\ sp.svc = p.op.peer /\ sp.op = Counterpart(p.op)

\* Of span id among the spans ms.
Descends(ms, id) ==
  LET sp == ms[id] IN
  \/ IsRoot(sp)
  \/ /\ sp.parent \in 1 .. id - 1 /\ sp.trace = ms[sp.parent].trace
     /\ IsLocal(sp, ms[sp.parent]) \/ IsCallee(sp, ms[sp.parent])

\* Each of the spans ms is once in the groups gs, in the group of its service.
Grouped(gs, ms) ==
  /\ gs \in Seq(Groups)
  /\ \A g \in 1 .. Len(gs) : \A k \in 1 .. Len(gs[g].spans) :
       gs[g].spans[k] \in 1 .. Len(ms) /\ ms[gs[g].spans[k]].svc = gs[g].svc
  /\ \A id \in 1 .. Len(ms) :
       \E g \in 1 .. Len(gs) : \E k \in 1 .. Len(gs[g].spans) : gs[g].spans[k] = id
  /\ \A g, h \in 1 .. Len(gs) :
       \A k \in 1 .. Len(gs[g].spans), l \in 1 .. Len(gs[h].spans) :
         gs[g].spans[k] = gs[h].spans[l] => g = h /\ k = l

\* What the map names is a group of the current batch, and of that service.
Scoped(map, gs) ==
  \A s \in DOMAIN map :
    /\ s \in Service /\ map[s].td = turn
    /\ map[s].at \in 1 .. Len(gs) /\ gs[map[s].at].svc = s

\* The service of the call is known when its callee's span is due.
CallInv ==
  call # 0 => call \in 1 .. Len(made) /\ made[call].op.typ \in {"http", "rpc"}

RowOf(p) == Row(td[p[1]].spans[p[2]], td[p[1]].svc)

\* What has been sent is what the batch holds, till the next one is begun.
SentInv ==
  rows = <<>> \/ (pass = 3 /\ call = 0 /\ rows = [p \in Places |-> RowOf(p)])

RowsInv ==
  /\ CatInv
  /\ schema \in {"map", "json"} /\ trace \in Nat
  /\ made \in Seq(Spans) /\ \A id \in 1 .. Len(made) : Descends(made, id)
  /\ Grouped(td, made) /\ Scoped(scopes, td)
  /\ CallInv /\ SentInv

\* What the operations below an entry point are.
LEMMA LegalOpsAre ==
  ASSUME NEW s \in Service, NEW op \in LegalOps(s)
  PROVE  /\ op \in Operations
         /\ \/ op.typ \in {"db", "internal"} /\ op.peer = NoPeer
            \/ /\ op.typ \in {"http", "rpc"} /\ op.peer \in Service /\ s < op.peer
               /\ op.callee = IF op.typ = "rpc" THEN NameOf(op.peer) ELSE NoName
<1>1. op \in Operations
  BY LegalOpsAreOperations
<1>2. \A p \in s + 1 .. Services - 1 : p \in Service /\ s < p
  BY CatalogAssumption DEF Service
<1>3. CASE \E p \in s + 1 .. Services - 1 : op = Op("http", p, NoName)
  BY <1>1, <1>2, <1>3 DEF Op
<1>4. CASE \E p \in s + 1 .. Services - 1 : op = Op("rpc", p, NameOf(p))
  BY <1>1, <1>2, <1>4 DEF Op
<1>5. CASE op \in {Op("db", NoPeer, NoName), Op("internal", NoPeer, NoName)}
  BY <1>1, <1>5 DEF Op
<1>6. QED
  BY <1>3, <1>4, <1>5 DEF LegalOps

\* An outbound call comes from the service of its span, and goes to a later one.
LEMMA CallsGoUp ==
  ASSUME RowsInv, NEW id \in 1 .. Len(made), made[id].op.typ \in {"http", "rpc"}
  PROVE  LET op == made[id].op
         IN  /\ op.peer \in Service /\ made[id].svc < op.peer
             /\ op.callee = IF op.typ = "rpc" THEN NameOf(op.peer) ELSE NoName
<1> DEFINE sp == made[id]
           p == made[sp.parent]
<1>1. Descends(made, id) /\ made \in Seq(Spans)
  BY DEF RowsInv
<1>2. ~IsRoot(sp)
  BY DEF IsRoot, Server, Consumer, Op
<1>3. sp.parent \in 1 .. id - 1 /\ (IsLocal(sp, p) \/ IsCallee(sp, p))
  BY <1>1, <1>2 DEF Descends
<1>4. ~IsCallee(sp, p)
  BY DEF IsCallee, Counterpart, Server, Op
<1>5. sp.svc = p.svc /\ sp.op \in LegalOps(p.svc)
  BY <1>3, <1>4 DEF IsLocal
<1>6. p.svc \in Service
  <2>1. sp.parent \in 1 .. Len(made)
    BY <1>1, <1>3
  <2>2. p \in Spans
    BY <1>1, <2>1
  <2>3. QED
    BY <2>2 DEF Spans
<1>7. QED
  BY <1>5, <1>6, LegalOpsAre

LEMMA EntryOpsAreOperations ==
  /\ Server \in Operations /\ Consumer \in Operations
  /\ \A op \in Operations : Counterpart(op) \in Operations
BY DEF Server, Consumer, Counterpart, Op, Operations, Names, NoPeer

\* A new group, and a span more in a group.
LEMMA GroupMade ==
  ASSUME NEW gs, NEW ms, Grouped(gs, ms), NEW s \in Service
  PROVE  Grouped(Append(gs, [svc |-> s, spans |-> <<>>]), ms)
<1> DEFINE new == [svc |-> s, spans |-> <<>>]
<1>1. PICK hs : hs = Append(gs, new)
  OBVIOUS
<1>2. gs \in Seq(Groups) /\ new \in Groups
  BY DEF Grouped, Groups
<1>3. /\ hs \in Seq(Groups) /\ Len(hs) = Len(gs) + 1
      /\ \A g \in 1 .. Len(gs) : hs[g] = gs[g]
      /\ hs[Len(gs) + 1] = new
  BY <1>1, <1>2
<1>4. \A g \in 1 .. Len(hs) : \A k \in 1 .. Len(hs[g].spans) : g \in 1 .. Len(gs) /\ hs[g] = gs[g]
  <2>1. Len(new.spans) = 0
    OBVIOUS
  <2> HIDE DEF new
  <2>2. ASSUME NEW g \in 1 .. Len(hs), NEW k \in 1 .. Len(hs[g].spans)
        PROVE  g \in 1 .. Len(gs)
    <3>1. g # Len(gs) + 1
      BY <1>3, <2>1, <2>2
    <3>2. QED
      BY <1>2, <1>3, <3>1
  <2>3. QED
    BY <1>3, <2>2
<1>5. 1 .. Len(gs) \subseteq 1 .. Len(hs)
  BY <1>2, <1>3
<1> HIDE DEF new
<1>6. Grouped(hs, ms)
  <2>1. \A g \in 1 .. Len(hs) : \A k \in 1 .. Len(hs[g].spans) :
          hs[g].spans[k] \in 1 .. Len(ms) /\ ms[hs[g].spans[k]].svc = hs[g].svc
    BY <1>4 DEF Grouped
  <2>2. ASSUME NEW id \in 1 .. Len(ms)
        PROVE  \E g \in 1 .. Len(hs) : \E k \in 1 .. Len(hs[g].spans) : hs[g].spans[k] = id
    <3>1. PICK g \in 1 .. Len(gs) : \E k \in 1 .. Len(gs[g].spans) : gs[g].spans[k] = id
      BY DEF Grouped
    <3>2. g \in 1 .. Len(hs) /\ hs[g] = gs[g]
      BY <1>3, <1>5
    <3>3. QED
      BY <3>1, <3>2
  <2>3. ASSUME NEW g \in 1 .. Len(hs), NEW h \in 1 .. Len(hs),
               NEW k \in 1 .. Len(hs[g].spans), NEW l \in 1 .. Len(hs[h].spans),
               hs[g].spans[k] = hs[h].spans[l]
        PROVE  g = h /\ k = l
    <3>1. g \in 1 .. Len(gs) /\ hs[g] = gs[g] /\ h \in 1 .. Len(gs) /\ hs[h] = gs[h]
      BY <1>4
    <3>2. QED
      BY <2>3, <3>1 DEF Grouped
  <2>4. QED
    BY <1>3, <2>1, <2>2, <2>3 DEF Grouped
<1>7. QED
  BY <1>1, <1>6 DEF new

\* The groups with span id put into one of them.
WithSpan(gs, at, id) == [gs EXCEPT ![at].spans = Append(@, id)]

LEMMA WithSpanIs ==
  ASSUME NEW gs \in Seq(Groups), NEW at \in 1 .. Len(gs), NEW id \in Nat
  PROVE  /\ WithSpan(gs, at, id) \in Seq(Groups) /\ Len(WithSpan(gs, at, id)) = Len(gs)
         /\ \A g \in 1 .. Len(gs) :
              /\ WithSpan(gs, at, id)[g].svc = gs[g].svc
              /\ g # at => WithSpan(gs, at, id)[g] = gs[g]
         /\ gs[at].spans \in Seq(Nat)
         /\ WithSpan(gs, at, id)[at].spans = Append(gs[at].spans, id)
<1>1. gs[at] \in Groups
  OBVIOUS
<1>2. gs[at].spans \in Seq(Nat)
  BY <1>1 DEF Groups
<1>3. PICK new \in Seq(Nat) : new = Append(gs[at].spans, id)
  <2>1. Append(gs[at].spans, id) \in Seq(Nat)
    BY <1>2
  <2>2. QED
    BY <2>1
<1>4. PICK group : group = [gs[at] EXCEPT !.spans = new]
  OBVIOUS
<1>5. group \in Groups /\ group.svc = gs[at].svc /\ group.spans = new
  BY <1>1, <1>3, <1>4 DEF Groups
<1>6. WithSpan(gs, at, id) = [gs EXCEPT ![at] = group]
  BY <1>3, <1>4 DEF WithSpan
<1>7. /\ [gs EXCEPT ![at] = group] \in Seq(Groups) /\ Len([gs EXCEPT ![at] = group]) = Len(gs)
      /\ \A g \in 1 .. Len(gs) : [gs EXCEPT ![at] = group][g] = IF g = at THEN group ELSE gs[g]
  BY <1>5
<1>8. QED
  BY <1>2, <1>3, <1>5, <1>6, <1>7

\* Span sp, emitted into group at of gs, gives the groups hs and the spans ns.
Added(sp, at, gs, ms, hs, ns) ==
  hs = WithSpan(gs, at, Len(ms) + 1) /\ ns = Append(ms, sp)

LEMMA SpanAdded ==
  ASSUME NEW gs, NEW ms \in Seq(Spans), Grouped(gs, ms),
         NEW at \in 1 .. Len(gs), NEW sp \in Spans, sp.svc = gs[at].svc,
         NEW hs, NEW ns, Added(sp, at, gs, ms, hs, ns)
  PROVE  /\ Grouped(hs, ns) /\ Len(hs) = Len(gs)
         /\ \A g \in 1 .. Len(gs) : hs[g].svc = gs[g].svc
<1>0. hs = WithSpan(gs, at, Len(ms) + 1) /\ ns = Append(ms, sp)
  BY DEF Added
<1>1. PICK n \in Nat : n = Len(ms)
  OBVIOUS
<1>2. ns \in Seq(Spans) /\ Len(ns) = n + 1 /\ ns[n + 1] = sp /\ \A id \in 1 .. n : ns[id] = ms[id]
  BY <1>0, <1>1
<1>4. gs \in Seq(Groups)
  BY DEF Grouped
<1>5. /\ hs \in Seq(Groups) /\ Len(hs) = Len(gs)
      /\ \A g \in 1 .. Len(gs) : hs[g].svc = gs[g].svc /\ (g # at => hs[g] = gs[g])
      /\ gs[at].spans \in Seq(Nat) /\ hs[at].spans = Append(gs[at].spans, n + 1)
  <2>1. n + 1 \in Nat /\ hs = WithSpan(gs, at, n + 1)
    BY <1>0, <1>1
  <2>2. QED
    BY <1>4, <2>1, WithSpanIs
<1>3. PICK m \in Nat : m = Len(gs[at].spans)
  BY <1>5
<1>6. /\ Len(hs[at].spans) = m + 1 /\ hs[at].spans[m + 1] = n + 1
      /\ \A k \in 1 .. m : hs[at].spans[k] = gs[at].spans[k]
  BY <1>1, <1>3, <1>4, <1>5
\* A place is the new one, or an old one with what was there.
<1>7. ASSUME NEW g \in 1 .. Len(hs), NEW k \in 1 .. Len(hs[g].spans)
      PROVE  \/ g = at /\ k = m + 1 /\ hs[g].spans[k] = n + 1
             \/ /\ g \in 1 .. Len(gs) /\ k \in 1 .. Len(gs[g].spans)
                /\ hs[g].spans[k] = gs[g].spans[k]
  <2>1. CASE g = at
    <3>1. k \in 1 .. m + 1
      BY <1>6, <2>1
    <3>2. k = m + 1 \/ k \in 1 .. m
      BY <3>1
    <3>3. QED
      BY <1>3, <1>6, <2>1, <3>2
  <2>2. CASE g # at
    BY <1>5, <2>2
  <2>3. QED
    BY <2>1, <2>2
<1>8. ASSUME NEW g \in 1 .. Len(gs), NEW k \in 1 .. Len(gs[g].spans)
      PROVE  /\ g \in 1 .. Len(hs) /\ k \in 1 .. Len(hs[g].spans)
             /\ hs[g].spans[k] = gs[g].spans[k]
  <2>1. CASE g = at
    <3>1. k \in 1 .. m /\ k \in 1 .. m + 1
      BY <1>3, <2>1
    <3>2. QED
      BY <1>5, <1>6, <2>1, <3>1
  <2>2. CASE g # at
    BY <1>5, <2>2
  <2>3. QED
    BY <2>1, <2>2
<1>9. \A g \in 1 .. Len(hs) : \A k \in 1 .. Len(hs[g].spans) :
        hs[g].spans[k] \in 1 .. n + 1 /\ ns[hs[g].spans[k]].svc = hs[g].svc
  <2> SUFFICES ASSUME NEW g \in 1 .. Len(hs), NEW k \in 1 .. Len(hs[g].spans)
               PROVE  hs[g].spans[k] \in 1 .. n + 1 /\ ns[hs[g].spans[k]].svc = hs[g].svc
    OBVIOUS
  <2>1. CASE g = at /\ k = m + 1 /\ hs[g].spans[k] = n + 1
    BY <1>2, <1>5, <2>1
  <2>2. CASE /\ g \in 1 .. Len(gs) /\ k \in 1 .. Len(gs[g].spans)
             /\ hs[g].spans[k] = gs[g].spans[k]
    <3>1. gs[g].spans[k] \in 1 .. n /\ ms[gs[g].spans[k]].svc = gs[g].svc
      BY <1>1, <2>2 DEF Grouped
    <3>2. QED
      BY <1>2, <1>5, <2>2, <3>1
  <2>3. QED
    BY <1>7, <2>1, <2>2
<1>10. \A id \in 1 .. n + 1 :
         \E g \in 1 .. Len(hs) : \E k \in 1 .. Len(hs[g].spans) : hs[g].spans[k] = id
  <2> SUFFICES ASSUME NEW id \in 1 .. n + 1
               PROVE  \E g \in 1 .. Len(hs) : \E k \in 1 .. Len(hs[g].spans) : hs[g].spans[k] = id
    OBVIOUS
  <2>1. CASE id = n + 1
    <3>1. at \in 1 .. Len(hs) /\ m + 1 \in 1 .. Len(hs[at].spans) /\ hs[at].spans[m + 1] = id
      BY <1>5, <1>6, <2>1
    <3>2. QED
      BY <3>1
  <2>2. CASE id # n + 1
    <3>1. id \in 1 .. n
      BY <2>2
    <3>2. PICK g \in 1 .. Len(gs) : \E k \in 1 .. Len(gs[g].spans) : gs[g].spans[k] = id
      BY <1>1, <3>1 DEF Grouped
    <3>3. PICK k \in 1 .. Len(gs[g].spans) : gs[g].spans[k] = id
      BY <3>2
    <3>4. QED
      BY <1>8, <3>3
  <2>3. QED
    BY <2>1, <2>2
<1>11. \A g, h \in 1 .. Len(hs) :
         \A k \in 1 .. Len(hs[g].spans), l \in 1 .. Len(hs[h].spans) :
           hs[g].spans[k] = hs[h].spans[l] => g = h /\ k = l
  <2> SUFFICES ASSUME NEW g \in 1 .. Len(hs), NEW h \in 1 .. Len(hs),
                      NEW k \in 1 .. Len(hs[g].spans), NEW l \in 1 .. Len(hs[h].spans),
                      hs[g].spans[k] = hs[h].spans[l]
               PROVE  g = h /\ k = l
    OBVIOUS
  <2>1. \A f \in 1 .. Len(gs) : \A j \in 1 .. Len(gs[f].spans) : gs[f].spans[j] # n + 1
    BY <1>1 DEF Grouped
  <2>2. CASE hs[g].spans[k] = n + 1
    <3>1. g = at /\ k = m + 1
      BY <1>7, <2>1, <2>2
    <3>2. h = at /\ l = m + 1
      BY <1>7, <2>1, <2>2
    <3>3. QED
      BY <3>1, <3>2
  <2>3. CASE hs[g].spans[k] # n + 1
    <3>1. /\ g \in 1 .. Len(gs) /\ k \in 1 .. Len(gs[g].spans)
          /\ hs[g].spans[k] = gs[g].spans[k]
      BY <1>7, <2>3
    <3>2. /\ h \in 1 .. Len(gs) /\ l \in 1 .. Len(gs[h].spans)
          /\ hs[h].spans[l] = gs[h].spans[l]
      BY <1>7, <2>3
    <3>3. gs[g].spans[k] = gs[h].spans[l]
      BY <3>1, <3>2
    <3>4. QED
      BY <3>1, <3>2, <3>3 DEF Grouped
  <2>4. QED
    BY <2>2, <2>3
<1>12. Len(ns) = n + 1
  BY <1>2
<1>13. Grouped(hs, ns)
  <2>1. hs \in Seq(Groups)
    BY <1>5
  <2>2. \A g \in 1 .. Len(hs) : \A k \in 1 .. Len(hs[g].spans) :
          hs[g].spans[k] \in 1 .. Len(ns) /\ ns[hs[g].spans[k]].svc = hs[g].svc
    BY <1>9, <1>12
  <2>3. \A id \in 1 .. Len(ns) :
          \E g \in 1 .. Len(hs) : \E k \in 1 .. Len(hs[g].spans) : hs[g].spans[k] = id
    BY <1>10, <1>12
  <2>4. QED
    BY <1>11, <2>1, <2>2, <2>3, Zenon DEF Grouped
<1>14. QED
  BY <1>5, <1>13

\* With its group made if need be, service s is in the map.
LEMMA ScopeForIs ==
  ASSUME RowsInv, NEW s \in Service, NEW gs, NEW map,
         gs = ScopeFor(s).groups, map = ScopeFor(s).map
  PROVE  Grouped(gs, made) /\ Scoped(map, gs) /\ s \in DOMAIN map
<1>1. Grouped(td, made) /\ Scoped(scopes, td) /\ td \in Seq(Groups)
  BY DEF RowsInv, Grouped
<1>2. CASE s \in DOMAIN scopes
  <2>1. gs = td /\ map = scopes
    BY <1>2 DEF ScopeFor
  <2>2. QED
    BY <1>1, <1>2, <2>1
<1>3. CASE s \notin DOMAIN scopes
  <2>1. /\ gs = Append(td, [svc |-> s, spans |-> <<>>])
        /\ map = [k \in DOMAIN scopes \union {s} |->
                    IF k = s THEN [td |-> turn, at |-> Len(td) + 1] ELSE scopes[k]]
    BY <1>3 DEF ScopeFor
  <2>2. Grouped(gs, made)
    BY <1>1, <2>1, GroupMade
  <2>3. [svc |-> s, spans |-> <<>>] \in Groups
    BY DEF Groups
  <2>4. /\ Len(gs) = Len(td) + 1 /\ gs[Len(td) + 1].svc = s
        /\ \A g \in 1 .. Len(td) : gs[g] = td[g]
    BY <1>1, <2>1, <2>3
  <2>5. ASSUME NEW k \in DOMAIN map
        PROVE  /\ k \in Service /\ map[k].td = turn
               /\ map[k].at \in 1 .. Len(gs) /\ gs[map[k].at].svc = k
    <3>1. CASE k = s
      <4>1. map[k].td = turn /\ map[k].at = Len(td) + 1
        BY <2>1, <3>1
      <4>2. QED
        BY <1>1, <2>4, <3>1, <4>1
    <3>2. CASE k # s
      <4>1. k \in DOMAIN scopes /\ map[k] = scopes[k]
        BY <2>1, <2>5, <3>2
      <4>2. k \in Service /\ map[k].td = turn /\ map[k].at \in 1 .. Len(td) /\ td[map[k].at].svc = k
        BY <1>1, <4>1 DEF Scoped
      <4>3. QED
        BY <1>1, <2>4, <4>2
    <3>3. QED
      BY <3>1, <3>2
  <2>6. s \in DOMAIN map
    BY <2>1
  <2>7. QED
    BY <2>2, <2>5, <2>6 DEF Scoped
<1>4. QED
  BY <1>2, <1>3

\* Where a span that is emitted for service s comes from.
Comes(s, op, parent, root) ==
  \/ parent = 0 /\ op \in {Server, Consumer}
  \/ /\ parent \in 1 .. Len(made) /\ root = made[parent].trace
     /\ \/ s = made[parent].svc /\ op \in LegalOps(s)
        \/ /\ made[parent].op.typ \in {"http", "rpc"}
           /\ s = made[parent].op.peer /\ op = Counterpart(made[parent].op)

LEMMA EmitKeeps ==
  ASSUME RowsInv, NEW s \in Service, NEW op \in Operations, NEW parent \in Nat,
         NEW root \in Nat, Emit(s, op, parent, root), Comes(s, op, parent, root)
  PROVE  /\ made' \in Seq(Spans) /\ Len(made') = Len(made) + 1 /\ made'[Len(made) + 1].op = op
         /\ \A id \in 1 .. Len(made) : made'[id] = made[id]
         /\ \A id \in 1 .. Len(made') : Descends(made, id)'
         /\ Grouped(td, made)' /\ Scoped(scopes, td)'
         /\ UNCHANGED <<catVars, schema, turn, rows>>
<1>0. made \in Seq(Spans) /\ Len(made) \in Nat /\ \A id \in 1 .. Len(made) : Descends(made, id)
  BY DEF RowsInv
<1>1. PICK gs, map : gs = ScopeFor(s).groups /\ map = ScopeFor(s).map
  OBVIOUS
<1>2. Grouped(gs, made) /\ Scoped(map, gs) /\ s \in DOMAIN map
  BY <1>1, ScopeForIs
<1>3. PICK at \in 1 .. Len(gs) : at = map[s].at /\ map[s].td = turn /\ gs[at].svc = s
  BY <1>2 DEF Scoped
<1>4. PICK outcome \in Outcomes :
        made' = Append(made, [svc |-> s, op |-> op, parent |-> parent,
                              trace |-> root, outcome |-> outcome])
  BY DEF Emit, Outcomes
<1>5. PICK sp \in Spans :
        /\ sp.svc = s /\ sp.op = op /\ sp.parent = parent /\ sp.trace = root
        /\ made' = Append(made, sp)
  <2>1. [svc |-> s, op |-> op, parent |-> parent, trace |-> root, outcome |-> outcome] \in Spans
    BY DEF Spans
  <2>2. QED
    BY <1>4, <2>1
<1>6. td' = WithSpan(gs, at, Len(made) + 1) /\ scopes' = map
  BY <1>1, <1>3 DEF Emit, WithSpan
<1>7. UNCHANGED <<catVars, schema, turn, rows>>
  BY DEF Emit
<1>8. PICK hs, ns : hs = WithSpan(gs, at, Len(made) + 1) /\ ns = Append(made, sp)
  OBVIOUS
<1>9. /\ Grouped(hs, ns) /\ Len(hs) = Len(gs)
      /\ \A g \in 1 .. Len(gs) : hs[g].svc = gs[g].svc
  <2>1. sp.svc = gs[at].svc
    BY <1>3, <1>5
  <2>2. Added(sp, at, gs, made, hs, ns)
    BY <1>8 DEF Added
  <2>3. QED
    BY <1>0, <1>2, <2>1, <2>2, SpanAdded
<1>10. Grouped(td, made)'
  BY <1>5, <1>6, <1>8, <1>9
<1>11. Scoped(scopes, td)'
  <2>1. Scoped(map, hs)
    BY <1>2, <1>9 DEF Scoped
  <2>2. QED
    BY <1>6, <1>7, <1>8, <2>1 DEF Scoped
<1>12. /\ ns \in Seq(Spans) /\ Len(ns) = Len(made) + 1 /\ ns[Len(made) + 1] = sp
       /\ \A id \in 1 .. Len(made) : ns[id] = made[id]
  BY <1>0, <1>8
<1>13. ASSUME NEW id \in 1 .. Len(made) + 1 PROVE Descends(ns, id)
  <2>1. CASE id = Len(made) + 1
    <3>1. CASE parent = 0 /\ op \in {Server, Consumer}
      BY <1>5, <1>12, <2>1, <3>1 DEF Descends, IsRoot
    <3>2. CASE parent \in 1 .. Len(made)
      <4>1. ns[id] = sp /\ ns[parent] = made[parent] /\ parent \in 1 .. id - 1
        BY <1>0, <1>12, <2>1, <3>2
      <4>2. ~(parent = 0)
        BY <3>2
      <4>3. root = made[parent].trace /\ (IsLocal(sp, made[parent]) \/ IsCallee(sp, made[parent]))
        BY <1>5, <4>2 DEF Comes, IsLocal, IsCallee
      <4>4. QED
        BY <1>5, <4>1, <4>3 DEF Descends
    <3>3. QED
      BY <3>1, <3>2 DEF Comes
  <2>2. CASE id # Len(made) + 1
    <3>1. id \in 1 .. Len(made)
      BY <1>0, <2>2
    <3>2. Descends(made, id) /\ ns[id] = made[id]
      BY <1>0, <1>12, <3>1
    <3>3. \A q \in 1 .. id - 1 : ns[q] = made[q]
      BY <1>0, <1>12, <3>1
    <3>4. QED
      BY <3>2, <3>3 DEF Descends
  <2>3. QED
    BY <2>1, <2>2
<1>14. made' = ns
  BY <1>5, <1>8
<1>15. \A id \in 1 .. Len(made') : Descends(made, id)'
  BY <1>12, <1>13, <1>14 DEF Descends
<1>16. QED
  BY <1>5, <1>7, <1>10, <1>11, <1>12, <1>14, <1>15

LEMMA RowsInvInit == RowsInit => RowsInv
<1> SUFFICES ASSUME RowsInit PROVE RowsInv
  OBVIOUS
<1>1. CatInv
  BY CatInvInit DEF RowsInit
<1>2. td = <<>> /\ made = <<>> /\ scopes = <<>> /\ call = 0 /\ rows = <<>> /\ trace = 0
  BY DEF RowsInit
<1>3. Grouped(td, made) /\ Scoped(scopes, td)
  BY <1>2 DEF Grouped, Scoped
<1>4. QED
  BY <1>1, <1>2, <1>3 DEF RowsInit, RowsInv, CallInv, SentInv

\* What an emission leaves to show of the whole invariant.
LEMMA AfterEmit ==
  ASSUME RowsInv, NEW s \in Service, NEW op \in Operations, NEW parent \in Nat,
         NEW root \in Nat, Emit(s, op, parent, root), Comes(s, op, parent, root),
         rows = <<>>, trace' \in Nat,
         call' = 0 \/ (call' = Len(made') /\ op.typ \in {"http", "rpc"})
  PROVE  RowsInv'
<1>1. /\ made' \in Seq(Spans) /\ Len(made') = Len(made) + 1 /\ made'[Len(made) + 1].op = op
      /\ \A id \in 1 .. Len(made') : Descends(made, id)'
      /\ Grouped(td, made)' /\ Scoped(scopes, td)'
      /\ UNCHANGED <<catVars, schema, turn, rows>>
  BY EmitKeeps
<1>2. CatInv' /\ schema' \in {"map", "json"}
  BY <1>1 DEF RowsInv, CatInv, catVars
<1>3. CallInv'
  <2>1. Len(made) \in Nat
    BY DEF RowsInv
  <2>2. QED
    BY <1>1, <2>1 DEF CallInv
<1>4. SentInv'
  BY <1>1 DEF SentInv
<1>5. QED
  BY <1>1, <1>2, <1>3, <1>4 DEF RowsInv

LEMMA BuildKeeps ==
  ASSUME RowsInv, Build
  PROVE  RowsInv'
<1>1. CatInv'
  BY CatInvStep DEF Build, RowsInv
<1>2. UNCHANGED <<schema, turn, td, scopes, made, trace, call, rows>> /\ pass # 3
  BY DEF Build, spanVars, BuildStep, Describe, Populate
<1>3. Grouped(td, made)' /\ Scoped(scopes, td)' /\ CallInv'
  BY <1>2 DEF RowsInv, Grouped, Scoped, CallInv
<1>4. \A id \in 1 .. Len(made) : Descends(made, id)'
  BY <1>2 DEF RowsInv, Descends
<1>5. SentInv'
  BY <1>2 DEF RowsInv, SentInv
<1>6. QED
  BY <1>1, <1>2, <1>3, <1>4, <1>5 DEF RowsInv

LEMMA RootKeeps ==
  ASSUME RowsInv, Root
  PROVE  RowsInv'
<1>1. PICK s \in Service : \E op \in cat[s].entryOps : Emit(s, op, 0, Len(made) + 1)
  BY DEF Root
<1>2. PICK op \in cat[s].entryOps : Emit(s, op, 0, Len(made) + 1)
  BY <1>1
<1>3. op \in {Server, Consumer}
  BY DEF RowsInv, CatInv
<1>4. op \in Operations /\ Comes(s, op, 0, Len(made) + 1)
  BY <1>3, EntryOpsAreOperations DEF Comes
<1>5. Len(made) + 1 \in Nat /\ trace' \in Nat /\ call' = 0 /\ rows = <<>>
  BY DEF RowsInv, Root, Ready
<1>6. QED
  BY <1>2, <1>4, <1>5, AfterEmit

LEMMA ChildKeeps ==
  ASSUME RowsInv, Child
  PROVE  RowsInv'
<1>0. PICK p \in Parents : \E op \in cat[made[p].svc].childOps :
        /\ Emit(made[p].svc, op, p, trace)
        /\ \/ op.peer # NoPeer /\ Len(made') < Batch
              /\ call' = Len(made') /\ UNCHANGED trace
           \/ trace' = (IF op.peer # NoPeer THEN 0 ELSE trace) /\ UNCHANGED call
  BY DEF Child
<1>1. PICK op \in cat[made[p].svc].childOps :
        /\ Emit(made[p].svc, op, p, trace)
        /\ \/ op.peer # NoPeer /\ Len(made') < Batch
              /\ call' = Len(made') /\ UNCHANGED trace
           \/ trace' = (IF op.peer # NoPeer THEN 0 ELSE trace) /\ UNCHANGED call
  BY <1>0
<1>2. made \in Seq(Spans) /\ trace \in Nat /\ rows = <<>> /\ call = 0 /\ CatInv
  BY DEF RowsInv, Child, Ready
<1>3. p \in 1 .. Len(made) /\ made[p].trace = trace /\ p \in Nat
  BY <1>2 DEF Parents
<1>4. PICK s \in Service : s = made[p].svc
  <2>1. made[p] \in Spans
    BY <1>2, <1>3
  <2>2. QED
    BY <2>1 DEF Spans
<1>5. op \in LegalOps(s)
  BY <1>2, <1>4 DEF CatInv
<1>6. /\ op \in Operations
      /\ op.peer # NoPeer => op.typ \in {"http", "rpc"}
  BY <1>5, LegalOpsAre
<1>7. Comes(s, op, p, trace)
  BY <1>3, <1>4, <1>5 DEF Comes
<1>8. trace' \in Nat /\ (call' = 0 \/ (call' = Len(made') /\ op.typ \in {"http", "rpc"}))
  BY <1>1, <1>2, <1>6
<1>9. QED
  BY <1>1, <1>2, <1>3, <1>4, <1>6, <1>7, <1>8, AfterEmit

LEMMA CalleeKeeps ==
  ASSUME RowsInv, Callee
  PROVE  RowsInv'
<1>1. /\ call # 0 /\ call' = 0 /\ trace' = trace
      /\ Emit(made[call].op.peer, Counterpart(made[call].op), call, made[call].trace)
  BY DEF Callee
<1>2. /\ call \in 1 .. Len(made) /\ call \in Nat /\ made[call].op.typ \in {"http", "rpc"}
      /\ rows = <<>> /\ trace \in Nat /\ made \in Seq(Spans)
  BY <1>1 DEF RowsInv, CallInv, SentInv
<1>3. made[call].op \in Operations /\ made[call].trace \in Nat
  <2>1. made[call] \in Spans
    BY <1>2
  <2>2. QED
    BY <2>1 DEF Spans
<1>4. PICK s \in Service, op \in Operations :
        s = made[call].op.peer /\ op = Counterpart(made[call].op)
  BY <1>2, <1>3, CallsGoUp, EntryOpsAreOperations
<1>5. Comes(s, op, call, made[call].trace)
  BY <1>2, <1>4 DEF Comes
<1>6. QED
  BY <1>1, <1>2, <1>3, <1>4, <1>5, AfterEmit

LEMMA SendKeeps ==
  ASSUME RowsInv, Send
  PROVE  RowsInv'
<1>1. /\ UNCHANGED <<pass, i, cat, schema, turn, td, scopes, made, trace, call>>
      /\ pass = 3 /\ call = 0 /\ rows' = [p \in Places |-> RowOf(p)]
  BY DEF Send, Ready, catVars, spanVars, RowOf
<1>2. CatInv'
  BY <1>1 DEF RowsInv, CatInv
<1>3. Grouped(td, made)' /\ Scoped(scopes, td)' /\ CallInv'
  BY <1>1 DEF RowsInv, Grouped, Scoped, CallInv
<1>4. \A id \in 1 .. Len(made) : Descends(made, id)'
  BY <1>1 DEF RowsInv, Descends
<1>5. SentInv'
  <2>1. Places' = Places
    BY <1>1 DEF Places
  <2>2. UNCHANGED <<cat, schema, td, made>>
    BY <1>1
  <2>3. \A p : RowOf(p)' = RowOf(p)
    BY <2>2 DEF RowOf, Row, Columns, AppendSpanMap, AppendSpanJSON, Resource
  <2>4. QED
    BY <1>1, <2>1, <2>3 DEF SentInv
<1>6. QED
  BY <1>1, <1>2, <1>3, <1>4, <1>5 DEF RowsInv

LEMMA NextBatchKeeps ==
  ASSUME RowsInv, NextBatch
  PROVE  RowsInv'
<1>1. /\ UNCHANGED <<pass, i, cat, schema, call>> /\ call = 0
      /\ td' = <<>> /\ made' = <<>> /\ trace' = 0 /\ rows' = <<>> /\ scopes' = <<>>
  BY DEF NextBatch, catVars, RowsInv, SentInv
<1>2. CatInv'
  BY <1>1 DEF RowsInv, CatInv
<1>3. Grouped(td, made)' /\ Scoped(scopes, td)'
  BY <1>1 DEF Grouped, Scoped
<1>4. QED
  BY <1>1, <1>2, <1>3 DEF RowsInv, CallInv, SentInv

LEMMA RowsInvStep == RowsInv /\ [RowsNext]_rowVars => RowsInv'
<1> SUFFICES ASSUME RowsInv, [RowsNext]_rowVars PROVE RowsInv'
  OBVIOUS
<1>1. CASE UNCHANGED rowVars
  <2>1. UNCHANGED <<pass, i, cat, schema, turn, td, scopes, made, trace, call, rows>>
    BY <1>1 DEF rowVars, catVars, spanVars
  <2>2. CatInv' /\ Grouped(td, made)' /\ Scoped(scopes, td)' /\ CallInv'
    BY <2>1 DEF RowsInv, CatInv, Grouped, Scoped, CallInv
  <2>3. \A id \in 1 .. Len(made) : Descends(made, id)'
    BY <2>1 DEF RowsInv, Descends
  <2>4. SentInv'
    <3>1. Places' = Places
      BY <2>1 DEF Places
    <3>2. \A p : RowOf(p)' = RowOf(p)
      BY <2>1 DEF RowOf, Row, Columns, AppendSpanMap, AppendSpanJSON, Resource
    <3>3. QED
      BY <2>1, <3>1, <3>2 DEF RowsInv, SentInv
  <2>5. QED
    BY <2>1, <2>2, <2>3, <2>4 DEF RowsInv
<1>2. QED
  BY <1>1, BuildKeeps, RootKeeps, ChildKeeps, CalleeKeeps, SendKeeps, NextBatchKeeps
     DEF RowsNext

\* The catalog, the trace and the groups fit together while batches are made
\* and sent.
THEOREM RowsInvHolds == RowsSpec => []RowsInv
BY RowsInvInit, RowsInvStep, PTL DEF RowsSpec
-----------------------------------------------------------------------------
(* The columns.                                                            *)

\* What a row says of the span with number id in a group of service s.
RowTells(r, id, s) ==
  /\ r["Timestamp"] = "start" /\ r["TraceId"] = made[id].trace /\ r["SpanId"] = id
  /\ r["ParentSpanId"] = made[id].parent /\ r["SpanName"] = made[id].op.typ
  /\ r["SpanKind"] = Kind(made[id].op) /\ r["ServiceName"] = cat[s].name
  /\ r["ResourceAttributes"] = Resource(s) /\ r["ScopeName"] = "spangen"
  /\ r["ScopeVersion"] = "1.0.0" /\ r["SpanAttributes"] = Attributes(made[id])
  /\ r["Duration"] = "length" /\ r["StatusCode"] = StatusCode(made[id])
  /\ r["StatusMessage"] = StatusMessage(made[id])
  /\ r["Events.Timestamp"] = EventArrays(made[id]).ts
  /\ r["Events.Name"] = EventArrays(made[id]).names
  /\ r["Events.Attributes"] = EventArrays(made[id]).attrs
  /\ r["Links.TraceId"] = LinkArrays.traceIDs /\ r["Links.SpanId"] = LinkArrays.spanIDs
  /\ r["Links.TraceState"] = LinkArrays.states
  /\ r["Links.Attributes"] = LinkArrays.attrs

LEMMA MapRow ==
  ASSUME schema = "map", NEW id, NEW s
  PROVE  RowTells(Row(id, s), id, s)
<1> DEFINE c == Columns
           a == AppendSpanMap(id, s)
           r == Row(id, s)
<1>1. DOMAIN c = 1 .. 22
  BY DEF Columns
<1>2. /\ c[1] = "Timestamp" /\ c[2] = "TraceId" /\ c[3] = "SpanId"
      /\ c[4] = "ParentSpanId" /\ c[5] = "TraceState" /\ c[6] = "SpanName"
      /\ c[7] = "SpanKind" /\ c[8] = "ServiceName" /\ c[9] = "ResourceAttributes"
      /\ c[10] = "ScopeName" /\ c[11] = "ScopeVersion" /\ c[12] = "SpanAttributes"
      /\ c[13] = "Duration" /\ c[14] = "StatusCode" /\ c[15] = "StatusMessage"
      /\ c[16] = "Events.Timestamp" /\ c[17] = "Events.Name"
      /\ c[18] = "Events.Attributes" /\ c[19] = "Links.TraceId"
      /\ c[20] = "Links.SpanId" /\ c[21] = "Links.TraceState"
      /\ c[22] = "Links.Attributes"
  BY DEF Columns
<1>3. /\ a[1] = "start" /\ a[2] = made[id].trace /\ a[3] = id /\ a[4] = made[id].parent
      /\ a[6] = made[id].op.typ /\ a[7] = Kind(made[id].op) /\ a[8] = cat[s].name
      /\ a[9] = Resource(s) /\ a[10] = "spangen" /\ a[11] = "1.0.0"
      /\ a[12] = Attributes(made[id]) /\ a[13] = "length"
      /\ a[14] = StatusCode(made[id]) /\ a[15] = StatusMessage(made[id])
      /\ a[16] = EventArrays(made[id]).ts /\ a[17] = EventArrays(made[id]).names
      /\ a[18] = EventArrays(made[id]).attrs /\ a[19] = LinkArrays.traceIDs
      /\ a[20] = LinkArrays.spanIDs /\ a[21] = LinkArrays.states
      /\ a[22] = LinkArrays.attrs
  BY DEF AppendSpanMap
<1>4. r = [f \in Range(c) |-> a[CHOOSE k \in DOMAIN c : c[k] = f]]
  BY DEF Row
<1> HIDE DEF c, a, r
<1>5. \A k, l \in 1 .. 22 : c[k] = c[l] => k = l
  BY <1>2
<1>6. \A k \in 1 .. 22 : r[c[k]] = a[k]
  <2> SUFFICES ASSUME NEW k \in 1 .. 22 PROVE r[c[k]] = a[k]
    OBVIOUS
  <2>1. (CHOOSE j \in DOMAIN c : c[j] = c[k]) = k
    BY <1>1, <1>5
  <2>2. c[k] \in Range(c)
    BY <1>1 DEF Range
  <2>3. QED
    BY <1>4, <2>1, <2>2
<1>7. /\ r[c[1]] = a[1] /\ r[c[2]] = a[2] /\ r[c[3]] = a[3] /\ r[c[4]] = a[4]
      /\ r[c[5]] = a[5] /\ r[c[6]] = a[6] /\ r[c[7]] = a[7] /\ r[c[8]] = a[8]
      /\ r[c[9]] = a[9] /\ r[c[10]] = a[10] /\ r[c[11]] = a[11] /\ r[c[12]] = a[12]
      /\ r[c[13]] = a[13] /\ r[c[14]] = a[14] /\ r[c[15]] = a[15] /\ r[c[16]] = a[16]
      /\ r[c[17]] = a[17] /\ r[c[18]] = a[18] /\ r[c[19]] = a[19] /\ r[c[20]] = a[20]
      /\ r[c[21]] = a[21] /\ r[c[22]] = a[22]
  BY <1>6
<1>8. /\ r["Timestamp"] = a[1] /\ r["TraceId"] = a[2] /\ r["SpanId"] = a[3]
      /\ r["ParentSpanId"] = a[4] /\ r["SpanName"] = a[6] /\ r["SpanKind"] = a[7]
      /\ r["ServiceName"] = a[8] /\ r["ResourceAttributes"] = a[9]
      /\ r["ScopeName"] = a[10] /\ r["ScopeVersion"] = a[11]
      /\ r["SpanAttributes"] = a[12] /\ r["Duration"] = a[13]
      /\ r["StatusCode"] = a[14] /\ r["StatusMessage"] = a[15]
      /\ r["Events.Timestamp"] = a[16] /\ r["Events.Name"] = a[17]
      /\ r["Events.Attributes"] = a[18] /\ r["Links.TraceId"] = a[19]
      /\ r["Links.SpanId"] = a[20] /\ r["Links.TraceState"] = a[21]
      /\ r["Links.Attributes"] = a[22]
  BY <1>2, <1>7
<1>9. RowTells(r, id, s)
  BY <1>3, <1>8 DEF RowTells
<1>10. QED
  BY <1>9 DEF r

LEMMA JsonRow ==
  ASSUME schema = "json", NEW id, NEW s
  PROVE  RowTells(Row(id, s), id, s)
<1> DEFINE c == Columns
           a == AppendSpanJSON(id, s)
           r == Row(id, s)
<1>1. DOMAIN c = 1 .. 23
  BY DEF Columns
<1>2. /\ c[1] = "Timestamp" /\ c[2] = "TraceId" /\ c[3] = "SpanId"
      /\ c[4] = "ParentSpanId" /\ c[5] = "TraceState" /\ c[6] = "SpanName"
      /\ c[7] = "SpanKind" /\ c[8] = "ServiceName" /\ c[9] = "Duration"
      /\ c[10] = "StatusCode" /\ c[11] = "StatusMessage"
      /\ c[12] = "ResourceAttributes" /\ c[13] = "SpanAttributes"
      /\ c[14] = "ScopeAttributes" /\ c[15] = "ScopeName" /\ c[16] = "ScopeVersion"
      /\ c[17] = "Links.TraceId" /\ c[18] = "Links.SpanId"
      /\ c[19] = "Links.TraceState" /\ c[20] = "Links.Attributes"
      /\ c[21] = "Events.Timestamp" /\ c[22] = "Events.Name"
      /\ c[23] = "Events.Attributes"
  BY DEF Columns
<1>3. /\ a[1] = "start" /\ a[2] = made[id].trace /\ a[3] = id /\ a[4] = made[id].parent
      /\ a[6] = made[id].op.typ /\ a[7] = Kind(made[id].op) /\ a[8] = cat[s].name
      /\ a[9] = "length" /\ a[10] = StatusCode(made[id])
      /\ a[11] = StatusMessage(made[id]) /\ a[12] = Resource(s)
      /\ a[13] = Attributes(made[id]) /\ a[15] = "spangen" /\ a[16] = "1.0.0"
      /\ a[17] = LinkArrays.traceIDs /\ a[18] = LinkArrays.spanIDs
      /\ a[19] = LinkArrays.states /\ a[20] = LinkArrays.attrs
      /\ a[21] = EventArrays(made[id]).ts /\ a[22] = EventArrays(made[id]).names
      /\ a[23] = EventArrays(made[id]).attrs
  BY DEF AppendSpanJSON
<1>4. r = [f \in Range(c) |-> a[CHOOSE k \in DOMAIN c : c[k] = f]]
  BY DEF Row
<1> HIDE DEF c, a, r
<1>5. \A k, l \in 1 .. 23 : c[k] = c[l] => k = l
  BY <1>2
<1>6. \A k \in 1 .. 23 : r[c[k]] = a[k]
  <2> SUFFICES ASSUME NEW k \in 1 .. 23 PROVE r[c[k]] = a[k]
    OBVIOUS
  <2>1. (CHOOSE j \in DOMAIN c : c[j] = c[k]) = k
    BY <1>1, <1>5
  <2>2. c[k] \in Range(c)
    BY <1>1 DEF Range
  <2>3. QED
    BY <1>4, <2>1, <2>2
<1>7. /\ r[c[1]] = a[1] /\ r[c[2]] = a[2] /\ r[c[3]] = a[3] /\ r[c[4]] = a[4]
      /\ r[c[5]] = a[5] /\ r[c[6]] = a[6] /\ r[c[7]] = a[7] /\ r[c[8]] = a[8]
      /\ r[c[9]] = a[9] /\ r[c[10]] = a[10] /\ r[c[11]] = a[11] /\ r[c[12]] = a[12]
      /\ r[c[13]] = a[13] /\ r[c[14]] = a[14] /\ r[c[15]] = a[15] /\ r[c[16]] = a[16]
      /\ r[c[17]] = a[17] /\ r[c[18]] = a[18] /\ r[c[19]] = a[19] /\ r[c[20]] = a[20]
      /\ r[c[21]] = a[21] /\ r[c[22]] = a[22] /\ r[c[23]] = a[23]
  BY <1>6
<1>8. /\ r["Timestamp"] = a[1] /\ r["TraceId"] = a[2] /\ r["SpanId"] = a[3]
      /\ r["ParentSpanId"] = a[4] /\ r["SpanName"] = a[6] /\ r["SpanKind"] = a[7]
      /\ r["ServiceName"] = a[8] /\ r["Duration"] = a[9] /\ r["StatusCode"] = a[10]
      /\ r["StatusMessage"] = a[11] /\ r["ResourceAttributes"] = a[12]
      /\ r["SpanAttributes"] = a[13] /\ r["ScopeName"] = a[15]
      /\ r["ScopeVersion"] = a[16] /\ r["Links.TraceId"] = a[17]
      /\ r["Links.SpanId"] = a[18] /\ r["Links.TraceState"] = a[19]
      /\ r["Links.Attributes"] = a[20] /\ r["Events.Timestamp"] = a[21]
      /\ r["Events.Name"] = a[22] /\ r["Events.Attributes"] = a[23]
  BY <1>2, <1>7
<1>9. RowTells(r, id, s)
  BY <1>3, <1>8 DEF RowTells
<1>10. QED
  BY <1>9 DEF r
-----------------------------------------------------------------------------
(* The table.                                                              *)

\* The places of the spans, spelt out.
LEMMA PlacesAre ==
  ASSUME RowsInv
  PROVE  /\ \A p \in Places : \E g \in 1 .. Len(td) : \E k \in 1 .. Len(td[g].spans) : p = <<g, k>>
         /\ \A g \in 1 .. Len(td) : \A k \in 1 .. Len(td[g].spans) : <<g, k>> \in Places
<1>1. td \in Seq(Groups) /\ DOMAIN td = 1 .. Len(td)
  BY DEF RowsInv, Grouped
<1>2. ASSUME NEW g \in 1 .. Len(td)
      PROVE  DOMAIN td[g].spans = 1 .. Len(td[g].spans)
  <2>1. td[g] \in Groups
    BY <1>1
  <2>2. td[g].spans \in Seq(Nat)
    BY <2>1 DEF Groups
  <2>3. QED
    BY <2>2
<1>3. Places = UNION {{g} \X (1 .. Len(td[g].spans)) : g \in 1 .. Len(td)}
  BY <1>1, <1>2 DEF Places
<1>4. QED
  BY <1>3

\* A row tells of one of the spans, under the service that emitted it.
LEMMA RowsTell ==
  ASSUME RowsInv, NEW r \in RowSet
  PROVE  /\ pass = 3
         /\ \E id \in 1 .. Len(made) : RowTells(r, id, made[id].svc)
<1>1. pass = 3 /\ rows = [p \in Places |-> RowOf(p)]
  BY DEF RowsInv, SentInv, RowSet, Range
<1>2. PICK p \in Places : r = RowOf(p)
  BY <1>1 DEF RowSet, Range
<1>3. PICK g \in 1 .. Len(td) : \E k \in 1 .. Len(td[g].spans) : p = <<g, k>>
  BY <1>2, PlacesAre
<1>4. PICK k \in 1 .. Len(td[g].spans) : p = <<g, k>>
  BY <1>3
<1>5. PICK id \in 1 .. Len(made) : id = td[g].spans[k] /\ made[id].svc = td[g].svc
  <2>1. td[g].spans[k] \in 1 .. Len(made) /\ made[td[g].spans[k]].svc = td[g].svc
    BY DEF RowsInv, Grouped
  <2>2. QED
    BY <2>1
<1>6. r = Row(id, made[id].svc)
  BY <1>2, <1>4, <1>5 DEF RowOf
<1>7. QED
  BY <1>1, <1>6, MapRow, JsonRow DEF RowsInv

\* Every span has a row, and there are as many rows as spans: the places of
\* the spans are in bijection with them.
LEMMA SpansInTable == RowsInv => EverySpanIsARow
<1> SUFFICES ASSUME RowsInv, rows # <<>>
             PROVE  /\ Cardinality(DOMAIN rows) = Len(made)
                    /\ \A id \in DOMAIN made : \E r \in RowSet :
                         r.SpanId = id /\ r.ServiceName = cat[made[id].svc].name
  BY DEF EverySpanIsARow
<1>1. rows = [p \in Places |-> RowOf(p)]
  BY DEF RowsInv, SentInv
<1>2. PICK n \in Nat : n = Len(made) /\ DOMAIN made = 1 .. n
  BY DEF RowsInv
<1> DEFINE f == [p \in Places |-> td[p[1]].spans[p[2]]]
<1>3. ASSUME NEW p \in Places
      PROVE  \E g \in 1 .. Len(td) : \E k \in 1 .. Len(td[g].spans) :
               p = <<g, k>> /\ f[p] = td[g].spans[k]
  BY PlacesAre
<1>4. f \in [Places -> 1 .. n]
  <2>1. ASSUME NEW p \in Places PROVE f[p] \in 1 .. n
    BY <1>2, <1>3 DEF RowsInv, Grouped
  <2>2. QED
    BY <2>1
<1>5. ASSUME NEW p \in Places, NEW q \in Places, f[p] = f[q] PROVE p = q
  <2> HIDE DEF f
  <2>1. PICK g \in 1 .. Len(td) : \E k \in 1 .. Len(td[g].spans) :
               p = <<g, k>> /\ f[p] = td[g].spans[k]
    BY <1>3
  <2>2. PICK k \in 1 .. Len(td[g].spans) : p = <<g, k>> /\ f[p] = td[g].spans[k]
    BY <2>1
  <2>3. PICK h \in 1 .. Len(td) : \E l \in 1 .. Len(td[h].spans) :
               q = <<h, l>> /\ f[q] = td[h].spans[l]
    BY <1>3
  <2>4. PICK l \in 1 .. Len(td[h].spans) : q = <<h, l>> /\ f[q] = td[h].spans[l]
    BY <2>3
  <2>5. td[g].spans[k] = td[h].spans[l]
    BY <1>5, <2>2, <2>4
  <2>6. g = h /\ k = l
    BY <2>5 DEF RowsInv, Grouped
  <2>7. QED
    BY <2>2, <2>4, <2>6
<1>6. ASSUME NEW id \in 1 .. n
      PROVE  \E p \in Places : f[p] = id /\ RowOf(p) = Row(id, made[id].svc)
  <2>1. PICK g \in 1 .. Len(td) : \E k \in 1 .. Len(td[g].spans) : td[g].spans[k] = id
    BY <1>2 DEF RowsInv, Grouped
  <2>2. PICK k \in 1 .. Len(td[g].spans) : td[g].spans[k] = id
    BY <2>1
  <2>3. made[id].svc = td[g].svc
    BY <2>2 DEF RowsInv, Grouped
  <2>4. PICK p \in Places : p = <<g, k>>
    BY PlacesAre
  <2>5. f[p] = id /\ RowOf(p) = Row(id, made[id].svc)
    BY <2>2, <2>3, <2>4 DEF RowOf
  <2>6. QED
    BY <2>5
<1> HIDE DEF f
<1>7. Cardinality(Places) = n
  <2>1. f \in Injection(Places, 1 .. n)
    BY <1>4, <1>5 DEF Injection, IsInjective
  <2>2. f \in Surjection(Places, 1 .. n)
    BY <1>4, <1>6 DEF Surjection
  <2>3. IsFiniteSet(1 .. n) /\ Cardinality(1 .. n) = n
    BY FS_Interval
  <2>4. QED
    BY <2>1, <2>2, <2>3, FS_Injection
<1>8. ASSUME NEW id \in 1 .. n
      PROVE  \E r \in RowSet : r.SpanId = id /\ r.ServiceName = cat[made[id].svc].name
  <2>1. PICK p \in Places : RowOf(p) = Row(id, made[id].svc)
    BY <1>6
  <2>2. RowOf(p) \in RowSet
    BY <1>1 DEF RowSet, Range
  <2>3. RowTells(RowOf(p), id, made[id].svc)
    BY <2>1, MapRow, JsonRow DEF RowsInv
  <2>4. RowOf(p).SpanId = id /\ RowOf(p).ServiceName = cat[made[id].svc].name
    BY <2>3 DEF RowTells
  <2>5. QED
    BY <2>2, <2>4
<1>9. QED
  BY <1>1, <1>2, <1>7, <1>8

\* No span is lost in a group of an earlier batch (Generator.scopeFor).
THEOREM SpansAreRows == RowsSpec => []EverySpanIsARow
BY RowsInvHolds, SpansInTable, PTL

LEMMA StoriesHold == RowsInv => RowsReadBack
<1> SUFFICES ASSUME RowsInv, NEW r \in RowSet, NEW sp, sp = made[r.SpanId]
             PROVE  /\ r.TraceId = sp.trace /\ r.ParentSpanId = sp.parent
                    /\ r.Timestamp = "start" /\ r.Duration = "length"
                    /\ r.ResourceAttributes.service = r.ServiceName
                    /\ r.ScopeName = "spangen" /\ r.ScopeVersion = "1.0.0"
                    /\ r.StatusCode = "Error" <=> r.StatusMessage # ""
                    /\ r.StatusCode = "Error" <=> "exception" \in Range(r["Events.Name"])
                    /\ r.StatusCode = "Error" => r.SpanAttributes.status # "good"
                    /\ Len(r["Events.Name"]) = Len(r["Events.Timestamp"])
                    /\ Len(r["Events.Name"]) = Len(r["Events.Attributes"])
                    /\ \A c \in {"Links.TraceId", "Links.SpanId", "Links.TraceState", "Links.Attributes"} :
                         r[c] = <<>>
  BY DEF RowsReadBack
<1>1. PICK id \in 1 .. Len(made) : RowTells(r, id, made[id].svc)
  BY RowsTell
<1>2. sp = made[id] /\ sp \in Spans
  BY <1>1 DEF RowTells, RowsInv
<1>3. /\ r.TraceId = sp.trace /\ r.ParentSpanId = sp.parent
      /\ r.Timestamp = "start" /\ r.Duration = "length"
      /\ r.ServiceName = cat[sp.svc].name /\ r.ResourceAttributes = Resource(sp.svc)
      /\ r.ScopeName = "spangen" /\ r.ScopeVersion = "1.0.0"
      /\ r.StatusCode = StatusCode(sp) /\ r.StatusMessage = StatusMessage(sp)
      /\ r.SpanAttributes = Attributes(sp)
      /\ r["Events.Name"] = EventArrays(sp).names
      /\ r["Events.Timestamp"] = EventArrays(sp).ts
      /\ r["Events.Attributes"] = EventArrays(sp).attrs
      /\ r["Links.TraceId"] = LinkArrays.traceIDs /\ r["Links.SpanId"] = LinkArrays.spanIDs
      /\ r["Links.TraceState"] = LinkArrays.states /\ r["Links.Attributes"] = LinkArrays.attrs
  BY <1>1, <1>2 DEF RowTells
<1>4. r.ResourceAttributes.service = r.ServiceName
  BY <1>3 DEF Resource
<1>5. /\ r.StatusCode = "Error" <=> sp.outcome = "error"
      /\ r.StatusMessage # "" <=> sp.outcome = "error"
  BY <1>3 DEF StatusCode, StatusMessage, Failed
<1>6. r.StatusCode = "Error" => r.SpanAttributes.status # "good"
  <2>1. sp.outcome = "error" => Attributes(sp).status # "good"
    BY DEF Attributes, Failed
  <2>2. QED
    BY <1>3, <1>5, <2>1
<1>7. /\ "exception" \in Range(EventArrays(sp).names) <=> sp.outcome = "error"
      /\ Len(EventArrays(sp).names) = Len(EventArrays(sp).ts)
      /\ Len(EventArrays(sp).names) = Len(EventArrays(sp).attrs)
  <2>1. CASE sp.outcome = "error"
    BY <2>1 DEF EventArrays, Range
  <2>2. CASE sp.outcome = "event"
    BY <2>2 DEF EventArrays, Range
  <2>3. CASE sp.outcome = "plain"
    BY <2>3 DEF EventArrays, Range
  <2>4. QED
    BY <1>2, <2>1, <2>2, <2>3 DEF Spans, Outcomes
<1>8. ASSUME NEW c \in {"Links.TraceId", "Links.SpanId", "Links.TraceState", "Links.Attributes"}
      PROVE  r[c] = <<>>
  <2>1. /\ LinkArrays.traceIDs = <<>> /\ LinkArrays.spanIDs = <<>>
        /\ LinkArrays.states = <<>> /\ LinkArrays.attrs = <<>>
    BY DEF LinkArrays
  <2>2. QED
    BY <1>3, <2>1
<1>9. QED
  BY <1>3, <1>4, <1>5, <1>6, <1>7, <1>8

\* Read back by name, the columns tell of one span (both encoders and both
\* INSERT texts).
THEOREM RowsTellOneStory == RowsSpec => []RowsReadBack
BY RowsInvHolds, StoriesHold, PTL

\* However often the list of base names is gone through, no name comes twice.
LEMMA NamesDiffer ==
  ASSUME NEW a \in Service, NEW b \in Service, NameOf(a) = NameOf(b)
  PROVE  a = b
<1>1. BaseNames \in Nat /\ BaseNames > 0 /\ a \in Nat /\ b \in Nat
  BY CatalogAssumption DEF Service
<1>2. a % BaseNames = b % BaseNames /\ a \div BaseNames = b \div BaseNames
  BY DEF NameOf
<1>3. \A x \in Nat : x = BaseNames * (x \div BaseNames) + (x % BaseNames)
  BY <1>1, Z3
<1>4. QED
  BY <1>1, <1>2, <1>3

LEMMA CalleesAnswer == RowsInv => CallsLand
<1> SUFFICES ASSUME RowsInv, NEW caller \in RowSet, NEW callee \in RowSet,
                    callee.ParentSpanId = caller.SpanId, callee.SpanKind = "Server"
             PROVE  /\ caller.SpanKind = "Client" /\ caller.TraceId = callee.TraceId
                    /\ callee.ServiceName # caller.ServiceName
                    /\ callee.SpanAttributes.service = caller.SpanAttributes.service
                    /\ callee.SpanAttributes.service =
                         IF caller.SpanName = "rpc" THEN callee.ServiceName ELSE NoName
  BY DEF CallsLand
<1>1. PICK id \in 1 .. Len(made) : RowTells(caller, id, made[id].svc)
  BY RowsTell
<1>2. PICK jd \in 1 .. Len(made) : RowTells(callee, jd, made[jd].svc)
  BY RowsTell
<1>3. PICK p \in Spans, c \in Spans : p = made[id] /\ c = made[jd]
  BY DEF RowsInv
<1>4. /\ caller.SpanId = id /\ caller.TraceId = p.trace /\ caller.SpanName = p.op.typ
      /\ caller.SpanKind = Kind(p.op) /\ caller.ServiceName = cat[p.svc].name
      /\ caller.SpanAttributes.service = p.op.callee
  BY <1>1, <1>3 DEF RowTells, Attributes
<1>5. /\ callee.ParentSpanId = c.parent /\ callee.TraceId = c.trace
      /\ callee.SpanKind = Kind(c.op) /\ callee.ServiceName = cat[c.svc].name
      /\ callee.SpanAttributes.service = c.op.callee
  BY <1>2, <1>3 DEF RowTells, Attributes
<1>6. c.parent = id /\ c.op.typ \in {"httpServer", "rpcServer"}
  <2>1. c.op.typ \in {"httpServer", "consumer", "rpcServer", "http", "rpc", "db", "internal"}
    BY DEF Spans, Operations
  <2>2. Kind(c.op) = "Server"
    BY <1>5
  <2>3. QED
    BY <1>4, <1>5, <2>1, <2>2 DEF Kind
<1>7. c.trace = p.trace /\ IsCallee(c, p)
  <2>1. Descends(made, jd)
    BY DEF RowsInv
  <2>2. ~IsRoot(c)
    BY <1>6 DEF IsRoot
  <2>3. ~IsLocal(c, p)
    <3>1. p.svc \in Service
      BY DEF Spans
    <3>2. QED
      BY <1>6, <3>1, LegalOpsAre DEF IsLocal
  <2>4. QED
    BY <1>3, <1>6, <2>1, <2>2, <2>3 DEF Descends
<1>8. p.op.typ \in {"http", "rpc"} /\ c.svc = p.op.peer /\ c.op = Counterpart(p.op)
  BY <1>7 DEF IsCallee
<1>9. /\ c.svc \in Service /\ p.svc \in Service /\ p.svc < c.svc
      /\ p.op.callee = IF p.op.typ = "rpc" THEN NameOf(c.svc) ELSE NoName
  <2>1. p.svc \in Service
    BY DEF Spans
  <2>2. QED
    BY <1>3, <1>8, <2>1, CallsGoUp
<1>10. cat[c.svc].name = NameOf(c.svc) /\ cat[p.svc].name = NameOf(p.svc)
  BY <1>9, RowsTell DEF RowsInv, CatInv
<1>11. cat[c.svc].name # cat[p.svc].name
  <2>1. c.svc # p.svc
    BY <1>9 DEF Service
  <2>2. QED
    BY <1>9, <1>10, <2>1, NamesDiffer
<1>12. c.op.callee = p.op.callee
  BY <1>8, <1>9 DEF Counterpart, Server, Op
<1>13. Kind(p.op) = "Client"
  BY <1>8 DEF Kind
<1>14. QED
  BY <1>4, <1>5, <1>7, <1>9, <1>10, <1>11, <1>12, <1>13

\* In the table a call reaches another service, the one it names
\* (BuildCatalog's two loops, serverCounterpart).
THEOREM CallsReachTheirService == RowsSpec => []CallsLand
BY RowsInvHolds, CalleesAnswer, PTL
=============================================================================
