-------------------------------- MODULE MCClient -------------------------------
(* Model values for Client. *)
EXTENDS Client
================================================================================
