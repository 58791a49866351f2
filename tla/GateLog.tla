------------------------------- MODULE GateLog -------------------------------
(***************************************************************************)
(* The event log of one controller: its ring of records, which the         *)
(* dialogue GET_BUFF_ADDR, GET_BUFF_DATA, SET_BUFF_ADDR_DOWN of            *)
(* cb_log_read empties, started by the 5 second timer or the application.  *)
(*                                                                         *)
(* Addresses count in records of sizeof(gp_event_t).  A step sends a       *)
(* command and is also what the controller does with it; the answer is     *)
(* what is on the wire afterwards.  A command or its answer may get lost;  *)
(* an answer that comes at all comes before the next command is sent.  A   *)
(* later one would be taken for the answer to that one, as the frames      *)
(* carry the address of the controller only: what then happens to the      *)
(* bounds is not claimed by anything below.                                *)
(***************************************************************************)
EXTENDS Naturals, Sequences

CONSTANTS Kinds,      \* an event without its time: ev_code and addr
          Ring,       \* GP_MAX_LOG_BOUND
          Batch,      \* gp_cfg.ev_block_size
          MaxLog,     \* bound: events that happen
          MaxQueue,   \* bound: length at which no more dialogues are queued
          Faults      \* what may go wrong, or be asked for

ASSUME LogAssumption ==
    /\ 0 \notin Kinds
    /\ Ring \in Nat \ {0} /\ Batch \in Nat \ {0}
    /\ MaxLog \in Nat /\ MaxQueue \in Nat
    /\ Faults \subseteq {"loss", "bad", "restart", "reset"}

VARIABLES ring,        \* the records in the controller
          up, down,    \* its bounds: the next to write, the oldest to read
          asks,        \* GET_BUFF_ADDR in gp_head2
          resets,      \* RESET_BUFF in gp_head
          wire,        \* the answer that is expected
          bound_down,  \* devices[].bound_down
          last,        \* ev_code and addr of devices[].last_ev_rec
          log,         \* history: all events
          handled,     \* history: the numbers of those cb_log_read went through
          reported,    \* history: the numbers of those given to cb_dev_ev_handler
          freed        \* history: how many the controller has forgotten

farVars  == <<ring, up, down>>
feedVars == <<log, handled, reported, freed>>
vars == <<ring, up, down, asks, resets, wire, bound_down, last,
          log, handled, reported, freed>>

Places == 0..Ring - 1
None == [op |-> "none"]
Ack  == [op |-> "ack"]
Bounds(u, d) == [op |-> "bounds", up |-> u, down |-> d]
Data(r) == [op |-> "data", records |-> r]

\* What the wire may carry: the bounds may be any that two bytes hold.
Answers == {None, Ack} \cup [op : {"bounds"}, up : Nat, down : Nat]
           \cup [op : {"data"}, records : Seq(Kinds \cup {0})]

After(a) == IF a + 1 = Ring THEN 0 ELSE a + 1

\* How far a is behind d in the ring.
Behind(a, d) == IF a >= d THEN a - d ELSE Ring - d + a

\* The number of the event at the place a.
Number(a) == freed + Behind(a, down) + 1

\* The answer arrives or does not.
Reply(w) == wire' = w \/ ("loss" \in Faults /\ wire' = None)

-----------------------------------------------------------------------------
(* The controller *)

\* A full log takes no event.
Happen(k) ==
    /\ Len(log) < MaxLog /\ After(up) # down
    /\ ring' = [ring EXCEPT ![up] = k]
    /\ up' = After(up)
    /\ log' = Append(log, k)
    /\ UNCHANGED <<down, asks, resets, wire, bound_down, last, handled, reported, freed>>

-----------------------------------------------------------------------------
(* The queues *)

\* gp_get_dev_logs and cmd_log_read
ScanLog ==
    /\ asks < MaxQueue
    /\ asks' = asks + 1
    /\ UNCHANGED <<farVars, resets, wire, bound_down, last, feedVars>>

\* cmd_reset_dev
AskReset ==
    /\ "reset" \in Faults /\ resets < MaxQueue
    /\ resets' = resets + 1
    /\ UNCHANGED <<farVars, asks, wire, bound_down, last, feedVars>>

SendReset ==
    /\ wire = None /\ resets > 0
    /\ resets' = resets - 1
    /\ \/ up' = 0 /\ down' = 0 /\ freed' = Len(log) /\ Reply(Ack)
       \/ "loss" \in Faults /\ UNCHANGED <<up, down, freed, wire>>
    /\ UNCHANGED <<ring, asks, bound_down, last, log, handled, reported>>

\* A controller that lost its memory answers with bounds behind the log.
SendAsk ==
    /\ wire = None /\ resets = 0 /\ asks > 0
    /\ asks' = asks - 1
    /\ \/ Reply(Bounds(up, down))
       \/ /\ "bad" \in Faults
          /\ \E u, d \in 0..Ring + 1 : Ring + 1 \in {u, d} /\ wire' = Bounds(u, d)
    /\ UNCHANGED <<farVars, resets, bound_down, last, feedVars>>

-----------------------------------------------------------------------------
(* cb_log_read *)

InLog(u, d) == u <= Ring /\ d <= Ring

\* Mutant: a log that has wrapped around looks empty.
LengthUnwrapped(u, d) == IF u < d THEN 0 ELSE IF u - d < Batch THEN u - d ELSE Batch

\* How many records are read at once, at most up to the end of the ring; a
\* negative number is compared as an unsigned one.
Length(u, d) ==
    LET l == IF u < d THEN Ring - d ELSE u - d IN
    IF l >= 0 /\ l < Batch THEN l ELSE Batch

\* GET_BUFF_DATA: the records from d on; behind the ring there is other memory.
Read(d, n) == [i \in 1..n |-> IF d + i - 1 < Ring THEN ring[d + i - 1] ELSE 0]

ReadBounds ==
    /\ wire.op = "bounds"
    /\ IF InLog(wire.up, wire.down)
       THEN /\ bound_down' = wire.down
            /\ IF Length(wire.up, wire.down) = 0 THEN wire' = None
               ELSE Reply(Data(Read(wire.down, Length(wire.up, wire.down))))
       ELSE wire' = None /\ UNCHANGED bound_down
    /\ UNCHANGED <<farVars, asks, resets, last, feedVars>>

\* Mutant: the last event is remembered at the end of the block only.
RepeatedBlock(r, i) == r[i] = last

\* It has the code and the address of the one handled before it.
Repeated(r, i) == r[i] = IF i = 1 THEN last ELSE r[i - 1]

\* Mutant: the new bound is not taken back to the start of the ring.
BoundUnwrapped(n) == bound_down + n

\* Mutant: a block stands for all there was to read.
BoundIsUp(n) == up

NewBound(n) == IF bound_down + n >= Ring THEN 0 ELSE bound_down + n

\* The number of a record of the block, and whether it is an event.
Num(i) == Number(bound_down + i - 1)
IsEvent(r, i) == Num(i) <= Len(log) /\ log[Num(i)] = r[i]

\* SET_BUFF_ADDR_DOWN(b)
SetDown(b) ==
    \/ down' = b /\ freed' = freed + Behind(b, down) /\ Reply(Ack)
    \/ "loss" \in Faults /\ UNCHANGED <<down, freed>> /\ wire' = None

ReadData ==
    /\ wire.op = "data"
    /\ LET r == wire.records IN
       /\ handled' = handled \cup {Num(i) : i \in {j \in 1..Len(r) : IsEvent(r, j)}}
       /\ reported' = reported \cup
              {Num(i) : i \in {j \in 1..Len(r) : IsEvent(r, j) /\ ~Repeated(r, j)}}
       /\ last' = r[Len(r)]
       /\ SetDown(NewBound(Len(r)))
    /\ UNCHANGED <<ring, up, asks, resets, bound_down, log>>

ReadAck ==
    /\ wire.op = "ack"
    /\ wire' = None
    /\ UNCHANGED <<farVars, asks, resets, bound_down, last, feedVars>>

\* The process is started again; opening the port discards what waits in it.
Restart ==
    /\ "restart" \in Faults
    /\ asks' = 0 /\ resets' = 0 /\ wire' = None
    /\ bound_down' = 0 /\ last' = 0
    /\ UNCHANGED <<farVars, feedVars>>

Init ==
    /\ ring = [a \in Places |-> 0]
    /\ up \in Places /\ down = up
    /\ asks = 0 /\ resets = 0 /\ wire = None
    /\ bound_down = 0 /\ last = 0
    /\ log = << >> /\ handled = {} /\ reported = {} /\ freed = 0

Dialogue == SendAsk \/ ReadBounds \/ ReadData \/ ReadAck

Next == \/ \E k \in Kinds : Happen(k)
        \/ ScanLog \/ AskReset \/ SendReset \/ Dialogue \/ Restart

Spec == Init /\ [][Next]_vars

\* The timer fires again and again, a queued command is sent and its answer
\* awaited; a line that is used again and again lets a message through at last.
FairSpec ==
    /\ Spec
    /\ WF_vars(ScanLog) /\ WF_vars(SendReset) /\ WF_vars(Dialogue)
    /\ SF_vars(SendAsk /\ wire' = Bounds(up, down))
    /\ SF_vars(ReadBounds /\ wire'.op = "data")
    /\ SF_vars(ReadData /\ down' # down)
    /\ SF_vars(SendReset /\ freed' = Len(log))

-----------------------------------------------------------------------------
(* Properties *)

\* The records between down and up are the events that are not forgotten.
TypeOK ==
    /\ ring \in [Places -> Kinds \cup {0}] /\ up \in Places /\ down \in Places
    /\ asks \in Nat /\ resets \in Nat /\ wire \in Answers
    /\ bound_down \in 0..Ring /\ last \in Kinds \cup {0}
    /\ log \in Seq(Kinds) /\ handled \subseteq 1..Len(log) /\ reported \subseteq handled
    /\ freed \in 0..Len(log)

\* It is what cb_log_read saw last before the event i: those between the two,
\* if any, were dropped by a reset.
Repeats(i) ==
    \E j \in handled : /\ j < i /\ log[j] = log[i]
                       /\ \A k \in handled : k <= j \/ k >= i

\* Every event that cb_log_read went through was reported, or it repeats the
\* one it went through before: a block that is read again because its
\* SET_BUFF_ADDR_DOWN was lost, a reset in between and the comparison with the
\* last event of all that was read before never make an event disappear.
EachReported == \A i \in handled : i \in reported \/ Repeats(i)

\* Every event is read or dropped in the end, across losses, restarts and
\* resets: none stays in the controller for ever.
AllRead == \A i \in 1..MaxLog : Len(log) >= i ~> freed >= i

\* The dialogue implements the feed.
Feed == INSTANCE EventFeed
FeedSpec == Feed!Spec
=============================================================================
