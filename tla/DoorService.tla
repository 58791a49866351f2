----------------------------- MODULE DoorService -----------------------------
(***************************************************************************)
(* What the bus master promises about opening doors.  Each request is      *)
(* settled at most once: its command goes out on the wire, or it is lost   *)
(* together with the port; it is never sent a second time.  An operator's  *)
(* request goes before every request a card caused, and requests of the    *)
(* same kind go in the order they were made.                               *)
(***************************************************************************)
EXTENDS Naturals

CONSTANT MaxDoors

VARIABLES fate,    \* what became of each request
          urgent   \* the requests an operator made

vars == <<fate, urgent>>

Doors == 1..MaxDoors
Fates == {"idle", "pending", "opened", "lost"}

Init == fate = [n \in Doors |-> "idle"] /\ urgent = {}

Request(n) ==
    /\ fate[n] = "idle"
    /\ \A m \in 1..n - 1 : fate[m] # "idle"
    /\ fate' = [fate EXCEPT ![n] = "pending"]
    /\ urgent' \in {urgent, urgent \cup {n}}

\* m goes before n.
Before(m, n) == IF (m \in urgent) = (n \in urgent) THEN m < n ELSE m \in urgent

Settle(n) ==
    /\ fate[n] = "pending"
    /\ \A m \in Doors : fate[m] = "pending" => ~Before(m, n)
    /\ \E f \in {"opened", "lost"} : fate' = [fate EXCEPT ![n] = f]
    /\ UNCHANGED urgent

Next == \E n \in Doors : Request(n) \/ Settle(n)

Spec == Init /\ [][Next]_vars
=============================================================================
