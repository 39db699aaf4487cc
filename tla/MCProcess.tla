----------------------------- MODULE MCProcess -----------------------------
(* The process with the seeds that seedFor gives its workers.              *)
EXTENDS Process, Seeds

WorkerSeeds == [w \in WorkerIDs |-> SeedFor(w)]
=============================================================================
