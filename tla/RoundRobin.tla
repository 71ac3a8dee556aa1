------------------------------- MODULE RoundRobin -------------------------------
(***************************************************************************)
(* What the exchange of duty cycles promises to the controllers, without   *)
(* bus, flags or delays: the luminaires speak in turn, and everybody       *)
(* stores what was said before the next one speaks.                        *)
(***************************************************************************)
EXTENDS Naturals

CONSTANTS N, Duty, Dark

Node == 0 .. N-1

VARIABLES
  turn,   \* the next to speak
  said,   \* what everybody last said
  view    \* view[n][i]: what n holds for i; nothing for itself

vars == <<turn, said, view>>

Init ==
  /\ turn = 0
  /\ said = [i \in Node |-> Dark]
  /\ view = [n \in Node |-> [i \in Node |-> Dark]]

Previous == IF turn = 0 THEN N-1 ELSE turn - 1
Stored   == \A n \in Node \ {Previous} : view[n][Previous] = said[Previous]

Announce ==
  /\ Stored
  /\ \E v \in Duty : said' = [said EXCEPT ![turn] = v]
  /\ turn' = IF turn = N-1 THEN 0 ELSE turn + 1
  /\ UNCHANGED view

Store(n) ==
  /\ n # Previous
  /\ view' = [view EXCEPT ![n][Previous] = said[Previous]]
  /\ UNCHANGED <<turn, said>>

Next == Announce \/ \E n \in Node : Store(n)

Spec == Init /\ [][Next]_vars

================================================================================
