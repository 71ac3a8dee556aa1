------------------------------ MODULE MCEnumeration ----------------------------
(* Model values for Enumeration. *)
EXTENDS Enumeration
================================================================================
