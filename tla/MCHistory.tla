------------------------------- MODULE MCHistory -------------------------------
(* Model values for History. *)
EXTENDS History
================================================================================
