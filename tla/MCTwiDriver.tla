------------------------------ MODULE MCTwiDriver ------------------------------
(* Model values for TwiDriver: the lower of the two texts is the shorter   *)
(* one, and the longer one fills the buffer.                               *)
EXTENDS TwiDriver

Texts == {<<1>>, <<2, 1>>}
================================================================================
