------------------------------- MODULE Seeds -------------------------------
(***************************************************************************)
(* The seeds that the engine derives from the configuration and the host   *)
(* name, on words of Width values.                                         *)
(* The operators named Slip_... are mistakes the code could have made.     *)
(***************************************************************************)
EXTENDS Integers, Bitwise

CONSTANTS
  Base,        \* cfg.Seed
  HostID,      \* the hash of the host name
  Multiplier,  \* 2654435761
  Width        \* seeds are numbers below Width (2^64)

ASSUME SeedsAssumption ==
  Width \in Nat \ {0} /\ {Base, HostID, Multiplier} \subseteq 0 .. Width - 1

Slip_SeedFor(worker) == Base ^^ HostID  \* one seed for all workers

\* The seed of a worker is a function of the configuration and the host name.
SeedFor(worker) == (Base ^^ HostID) ^^ ((worker + 1) * Multiplier % Width)
=============================================================================
