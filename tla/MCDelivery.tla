----------------------------- MODULE MCDelivery -----------------------------
(* Two replicas in shard-roundrobin mode, the first with a negative index, *)
(* and a third one that sends to a collector.                              *)
EXTENDS Delivery, TLC

CONSTANTS w1, w2, w3, w4

Indices  == {-1, 0, 5}
Sharded  == {-1, 0}
Pool     == {w1, w2, w3, w4}
PodOf    == w1 :> -1 @@ w2 :> 0 @@ w3 :> 0 @@ w4 :> 5
=============================================================================
