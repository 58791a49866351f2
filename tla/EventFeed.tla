------------------------------ MODULE EventFeed ------------------------------
(***************************************************************************)
(* What the reading of a controller's event log promises: the controller   *)
(* is told to forget an event only after the event has been handed to the  *)
(* application, unless the application has the log reset; events are read  *)
(* from the oldest that is not forgotten, without a gap.                   *)
(***************************************************************************)
EXTENDS Naturals, Sequences

CONSTANT Kinds

VARIABLES log,       \* all events that were ever logged
          handled,   \* the numbers of those that were handed over
          freed      \* how many are forgotten

feedVars == <<log, handled, freed>>

Init == log = << >> /\ handled = {} /\ freed = 0

Happen(k) ==
    /\ log' = Append(log, k)
    /\ UNCHANGED <<handled, freed>>

\* A block is handed over, for the first time or again.
Handle(n) ==
    /\ handled' = handled \cup freed + 1..n
    /\ UNCHANGED <<log, freed>>

\* Events are forgotten; a block may be handed over in the same moment.
Release(n, m) ==
    /\ handled' = handled \cup freed + 1..n
    /\ freed' = m
    /\ freed + 1..m \subseteq handled'
    /\ UNCHANGED log

Reset ==
    /\ freed' = Len(log)
    /\ UNCHANGED <<log, handled>>

Next == \/ \E k \in Kinds : Happen(k)
        \/ \E n \in freed..Len(log) : Handle(n)
        \/ \E n \in freed..Len(log) : \E m \in freed..n : Release(n, m)
        \/ Reset

Spec == Init /\ [][Next]_feedVars
=============================================================================
