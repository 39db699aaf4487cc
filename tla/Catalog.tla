------------------------------ MODULE Catalog ------------------------------
(***************************************************************************)
(* BuildCatalog of internal/model: the services in a first loop, what they *)
(* do in a second one, so that a service can name one that comes later.    *)
(* One action per iteration.  An operation is its type, the service it     *)
(* calls and that service's name; of several alike one is kept, and        *)
(* latencies, routes and most resource attributes are left out.  The       *)
(* seeded draws are nondeterministic.                                      *)
(***************************************************************************)
EXTENDS Integers, FiniteSets

CONSTANTS
  Services,  \* cfg.Gen.Services
  BaseNames  \* len(serviceNames)

ASSUME CatalogAssumption == Services \in Nat \ {0} /\ BaseNames \in Nat \ {0}

Service == 0 .. Services - 1

VARIABLES
  pass,  \* the loop under way, 3 when BuildCatalog has returned
  i,     \* the service it is at
  cat    \* the services

catVars == <<pass, i, cat>>

NoPeer == -1
NoName == <<>>

Op(typ, peer, callee) == [typ |-> typ, peer |-> peer, callee |-> callee]

\* A base name, and how often the list had been gone through before.
NameOf(k) == <<k % BaseNames, k \div BaseNames>>

CatInit ==
  /\ pass = 1 /\ i = 0
  /\ cat = [s \in Service |-> [name |-> NoName, entryOps |-> {}, childOps |-> {}]]

\* On to the next service, or to the next loop.
Advance ==
  /\ i' = (i + 1) % Services
  /\ pass' = IF i + 1 = Services THEN pass + 1 ELSE pass

Server   == Op("httpServer", NoPeer, NoName)
Consumer == Op("consumer", NoPeer, NoName)

\* The first loop gives service i its name and its entry points.
Described ==
  \E ops \in {{Server}, {Server, Consumer}} :
    cat' = [cat EXCEPT ![i].name = NameOf(i), ![i].entryOps = ops]

Describe == pass = 1 /\ Described /\ Advance

\* The services that may be called from service i.
Callees == i + 1 .. Services - 1

\* What the calls of service i may be: none to two, over HTTP or RPC, which
\* carries the name of the service it reaches.
Outbound ==
  LET calls == {Op("http", peer, NoName) : peer \in Callees}
               \union {Op("rpc", peer, cat[peer].name) : peer \in Callees}
  IN  {chosen \in SUBSET calls : Cardinality(chosen) <= 2}

\* Second loop: the calls, the database calls and the internal operation.
Populate ==
  /\ pass = 2
  /\ \E chosen \in Outbound :
       cat' = [cat EXCEPT ![i].childOps =
                 chosen \union {Op("db", NoPeer, NoName), Op("internal", NoPeer, NoName)}]
  /\ Advance

BuildStep == Describe \/ Populate
=============================================================================
