------------------------------- MODULE MCRows -------------------------------
(* Batches of the services of a catalog with more services than names.     *)
EXTENDS Rows
=============================================================================
