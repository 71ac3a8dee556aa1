---------------------------- MODULE MCDutyExchange -----------------------------
(* Model values for DutyExchange.                                          *)
EXTENDS DutyExchange
================================================================================
