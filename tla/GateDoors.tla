------------------------------ MODULE GateDoors ------------------------------
(***************************************************************************)
(* The bus master implements DoorService.  The fate of an opening is read  *)
(* off the queues and the wire: a request is pending while its TURN_ON is  *)
(* in a queue, opened once it was written, and lost if it left the queue   *)
(* without being written.                                                  *)
(***************************************************************************)
EXTENDS GateBus

Queued(n) == \/ \E i \in 1..Len(first) : first[i].door = n
             \/ \E i \in 1..Len(second) : second[i].door = n

\* "repeated" is no fate of DoorService: the opening was written twice, or it
\* was written and is still waiting to be written.
Fate(n) == CASE asked < n                   -> "idle"
             [] asked >= n /\ Queued(n) /\ opens[n] = 0  -> "pending"
             [] asked >= n /\ ~Queued(n) /\ opens[n] = 0 -> "lost"
             [] asked >= n /\ ~Queued(n) /\ opens[n] = 1 -> "opened"
             [] OTHER -> "repeated"

Service == INSTANCE DoorService WITH fate <- [n \in Doors |-> Fate(n)]

\* No time-out, late answer, failed write, hang-up or reconnect makes the bus
\* master open a door twice, open it for a request it had dropped, or let a
\* background command or a later request go first (gp_in_cmd, gp_put_cmd).
ServiceSpec == Service!Spec

\* A request does not wait for ever: its command goes out, or is lost with the
\* port, however many answers are lost and however much background work the
\* timers and the cards bring (gp_put_cmd is reached by every path of gp_receiv
\* that is not itself the middle of an exchange).
DoorSettles == \A n \in Doors : (Fate(n) = "pending") ~> (Fate(n) # "pending")
=============================================================================
