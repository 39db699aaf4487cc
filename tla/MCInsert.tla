----------------------------- MODULE MCInsert -----------------------------
(* Send by a few workers.                                                  *)
EXTENDS Insert
=============================================================================
