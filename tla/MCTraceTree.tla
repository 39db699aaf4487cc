---------------------------- MODULE MCTraceTree ----------------------------
(* The generator over two small catalogs: a chain of services, each calling *)
(* the next, for depth; and a fan, each calling all later ones, for breadth. *)
EXTENDS TraceTree

Chain == [s \in Service |-> {s + 1} \cap Service]
Fan   == [s \in Service |-> {p \in Service : p > s}]
One   == {1}
Three == {1, 3}
Short == {1}
Mixed == {1, 1500}
=============================================================================
