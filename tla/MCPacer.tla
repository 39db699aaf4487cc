------------------------------ MODULE MCPacer ------------------------------
(* The pacer with a few workers.                                           *)
EXTENDS Pacer
=============================================================================
