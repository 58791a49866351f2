------------------------------- MODULE GateBus -------------------------------
(***************************************************************************)
(* The bus master: gp_layer.c, gp_queue.c, gp_port.c and the part of the   *)
(* reply handlers of gp_processor.c that drives the bus.  One process, one *)
(* libevent loop, one serial line.  An action is one run of an event       *)
(* handler (gp_receiv, gp_all_dev_enable, gp_get_dev_logs), one call of an *)
(* application, or a step of the environment.                              *)
(*                                                                         *)
(* A C function that may call write() or open() is an operator F(s): the   *)
(* set of the program states in which F may return when it is called in    *)
(* the program state s.  The field done of a state is TRUE iff the last    *)
(* function returned a positive number.                                    *)
(***************************************************************************)
EXTENDS GateCommands, Integers, FiniteSets

CONSTANTS MaxTimeouts,   \* gp_cfg.max_timeout_count
          RxRoom,        \* parts of an answer that fit in receiv_mess.buf
          MaxLine,       \* bound: parts that wait in the tty, the rest is lost
          MaxQueue,      \* bound: length of gp_head2 at which load stops
          Faults,        \* which faults the environment may produce
          AppCalls,      \* the calls the application may make
          CardKinds      \* the cards the controllers may report

ASSUME BusAssumption ==
    /\ MaxTimeouts \in Nat
    /\ RxRoom \in Nat \ {0, 1}
    /\ MaxLine \in Nat
    /\ MaxQueue \in Nat
    /\ Faults \subseteq {"write", "read", "hangup", "loss"}
    /\ AppCalls \subseteq Calls \cup {"sched_all", "token_all"}
    /\ CardKinds \subseteq {"known", "new"}

VARIABLES first,    \* gp_head
          second,   \* gp_head2
          send,     \* send_mess: dev, target, ev_handler, is_expected
          open,     \* gp_cfg.fd >= 0
          armed,    \* evport is in the event loop
          run,      \* the process has not called exit()
          line,     \* what the controllers have sent and nobody has read
          rx,       \* the incomplete answer in receiv_mess.buf
          unit,     \* devices[]: activ, timeout_count, is_inited
          idle,     \* gp_dst of gp_send_idle
          fresh,    \* last_try was set since the last gp_all_dev_enable
          asked,    \* door openings asked for so far
          urgent,   \* those of them an operator asked for
          opens     \* how often each was put on the wire (2: twice or more)

portVars == <<send, open, armed, run, line, rx, fresh>>
doorVars == <<asked, urgent, opens>>
vars == <<first, second, send, open, armed, run, line, rx, unit, idle, fresh,
          asked, urgent, opens>>

SendMess == [dev : Slots, target : Targets \cup {"NULL"}, handler : Handlers,
             expected : BOOLEAN]

\* timeouts saturates at MaxTimeouts + 1: the code only compares it with the
\* maximum.
Unit == [activ : BOOLEAN, timeouts : 0..MaxTimeouts + 1, inited : BOOLEAN]

State == [first  : Seq(Command), second : Seq(Command), send : SendMess,
          open   : BOOLEAN, armed : BOOLEAN, run : BOOLEAN,
          line   : Seq(Part), rx : Seq(Part),
          unit   : [Slots -> Unit], idle : Slots, fresh : BOOLEAN,
          asked  : 0..MaxDoors, urgent : SUBSET Doors,
          opens  : [Doors -> 0..2], done : BOOLEAN]

Here == [first |-> first, second |-> second, send |-> send, open |-> open,
         armed |-> armed, run |-> run, line |-> line, rx |-> rx,
         unit |-> unit, idle |-> idle, fresh |-> fresh, asked |-> asked,
         urgent |-> urgent, opens |-> opens, done |-> FALSE]

Become(s) ==
    /\ first' = s.first   /\ second' = s.second /\ send' = s.send
    /\ open' = s.open     /\ armed' = s.armed   /\ run' = s.run
    /\ line' = s.line     /\ rx' = s.rx         /\ unit' = s.unit
    /\ idle' = s.idle     /\ fresh' = s.fresh   /\ asked' = s.asked
    /\ urgent' = s.urgent /\ opens' = s.opens

Return(s, positive) == [s EXCEPT !.done = positive]

-----------------------------------------------------------------------------
(* gp_queue.c, gp_port.c *)

\* gp_in_cmd for each command of an operation.
Enqueue(s, o) == [s EXCEPT !.first = @ \o o.first, !.second = @ \o o.second]

\* Mutant: close without event_del.
CloseStillArmed(s) == [s EXCEPT !.open = FALSE]

\* event_del, then close.
gp_close(s) == [s EXCEPT !.open = FALSE, !.armed = FALSE]

\* event_add(evport): epoll refuses a descriptor that is closed.
Arm(s) == [s EXCEPT !.armed = s.open]

\* gp_reconnect(0) while the port is open: it opens nothing, but it moves
\* last_try when the retry window has passed.
Touch(s) == {s, [s EXCEPT !.fresh = TRUE]}

\* The part of gp_reconnect behind its window.  open_port flushes the input.
Reopen(s) ==
    IF s.open THEN {s}
    ELSE {s, Arm([s EXCEPT !.open = TRUE, !.line = << >>])}

-----------------------------------------------------------------------------
(* gp_send, gp_resend, gp_put_cmd, gp_send_idle *)

\* The answers a controller may put on the line.  What finds the tty buffer
\* full is lost.
Replies(s, c) ==
    {<< >>} \cup
    {p \in {Framed(AnswerTo(c)), Framed([AnswerTo(c) EXCEPT !.kind = "refused"])} :
        Len(s.line) + Len(p) <= MaxLine}

Count(s, n) == IF n = 0 \/ s.opens[n] = 2 THEN s
               ELSE [s EXCEPT !.opens[n] = @ + 1]

\* write() succeeds, and the controller answers or not; or it writes nothing;
\* or it fails and the port is closed.
gp_resend(s, c) ==
    IF ~s.open THEN {[s EXCEPT !.run = FALSE, !.done = FALSE]}   \* exit(99)
    ELSE {Return([Count(Arm(s), c.door) EXCEPT !.line = @ \o p], TRUE) :
             p \in Replies(s, c)}
         \cup IF "write" \in Faults
              THEN {Return(Arm(s), FALSE), Return(gp_close(s), FALSE)}
              ELSE {}

\* Mutant: a command without a handler always keeps the one before it.
RememberKeeping(s, c) ==
    [s EXCEPT !.send =
        [dev |-> c.dev, target |-> c.target, expected |-> TRUE,
         handler |-> IF c.handler # "none" THEN c.handler ELSE @.handler]]

Remember(s, c) ==
    [s EXCEPT !.send =
        [dev      |-> c.dev,
         target   |-> c.target,
         handler  |-> IF c.handler # "none" \/ c.queue # SHORT
                      THEN c.handler ELSE @.handler,
         expected |-> TRUE]]

gp_send(s, c) == gp_resend(Remember(s, c), c)

\* Mutant: background commands first.
PutSecondFirst(s) ==
    CASE s.run /\ s.second # << >> ->
            gp_send([s EXCEPT !.second = Tail(@)], Head(s.second))
      [] s.run /\ s.second = << >> /\ s.first # << >>  ->
            gp_send([s EXCEPT !.first = Tail(@)], Head(s.first))
      [] OTHER -> {Return(s, FALSE)}

\* Mutant: an operator's command stays in the queue when it is sent.
PutWithoutRemoving(s) ==
    CASE s.run /\ s.first # << >>  -> gp_send(s, Head(s.first))
      [] s.run /\ s.first = << >> /\ s.second # << >> ->
            gp_send([s EXCEPT !.second = Tail(@)], Head(s.second))
      [] OTHER -> {Return(s, FALSE)}

\* The process is gone after exit(): what follows in the handler does not run.
gp_put_cmd(s) ==
    CASE ~s.run          -> {s}
      [] s.run /\ s.first # << >>  ->
            gp_send([s EXCEPT !.first = Tail(@)], Head(s.first))
      [] s.run /\ s.first = << >> /\ s.second # << >> ->
            gp_send([s EXCEPT !.second = Tail(@)], Head(s.second))
      [] OTHER -> {Return(s, FALSE)}

Silent(s, d) == s.unit[d].timeouts > MaxTimeouts

\* The controllers still to be polled in this round; the next one, if any.
Ahead(s) == {d \in Devices : d > s.idle /\ ~Silent(s, d)}
Turn(s) == {d \in Ahead(s) : \A e \in Ahead(s) : d <= e}

\* Mutant: gp_dst is not set back at the end of a round.
SkipWithoutReset(s, d) ==
    [s EXCEPT !.idle = d,
              !.unit = [e \in Slots |->
                  IF s.idle < e /\ e < d THEN [@[e] EXCEPT !.activ = FALSE]
                                         ELSE @[e]]]

\* The controllers up to (not including) d that are skipped lose activ.
Skip(s, d) ==
    [s EXCEPT !.idle = IF d > MaxDev THEN 0 ELSE d,
              !.unit = [e \in Slots |->
                  IF s.idle < e /\ e < d THEN [@[e] EXCEPT !.activ = FALSE]
                                         ELSE @[e]]]

gp_send_idle(s) ==
    CASE ~s.run -> {s}
      [] s.run /\ Ahead(s) = {} -> {Return(Skip(s, MaxDev + 1), FALSE)}
      [] OTHER -> UNION {gp_send(Skip(s, d), PollCid(d)) : d \in Turn(s)}

-----------------------------------------------------------------------------
(* gp_processor.c: what the reply handlers do to the bus *)

Active(s) == {d \in Devices : s.unit[d].activ}

\* The loops over the controllers run in the order of their numbers.
InOrder(S) == {f \in [1..Cardinality(S) -> S] :
                 \A i, j \in 1..Cardinality(S) : i < j => f[i] < f[j]}

\* Bound: load is added to an empty queue, or up to MaxQueue commands.
Fits(s, o) == /\ o.first = << >> \/ s.first = << >>
                 \/ Len(s.first) + Len(o.first) <= MaxQueue
              /\ o.second = << >> \/ s.second = << >>
                 \/ Len(s.second) + Len(o.second) <= MaxQueue

\* Job 2d writes a token into controller d, job 2d+1 moves its token bound;
\* each is two commands, one per bank.
JobCommand(k) == Plain(SECOND, k \div 2,
                       IF k % 2 = 0 THEN "SET_TOKEN" ELSE "SET_TOKEN_BOUND")
JobOrders(J) ==
    {Orders(<< >>, [i \in 1..2 * Cardinality(J) |-> JobCommand(f[(i + 1) \div 2])]) :
        f \in InOrder(J)}

\* cmd_add_cid: nothing on a conflict; a bound that the address reached moves.
cmd_add_cid(d) == UNION {JobOrders(J) : J \in {{}, {2 * d}, {2 * d, 2 * d + 1}}}

\* cmd_add_cid_to_all and cmd_add_tocken_to_all: the active controllers in
\* turn, up to the first conflict.
cmd_add_cid_to_all(s) ==
    UNION {UNION {JobOrders({2 * d : d \in C} \cup {2 * d + 1 : d \in B}) :
                     B \in SUBSET C} :
              C \in {{d \in Active(s) : d <= last} : last \in Slots}}

\* The next opening gets its number.  Bound: there are MaxDoors of them.
Door(s) == s.asked + 1
MayAsk(s) == s.asked < MaxDoors
Ask(s, operator) ==
    [s EXCEPT !.asked = @ + 1,
              !.urgent = IF operator THEN @ \cup {s.asked + 1} ELSE @]

\* A card whose token is in the database opens the door and is written into
\* the controller, or into all of them under a new address if its own one is
\* taken; an unknown card is written into all of them.
CardOrders(s, d) ==
    (IF "new" \in CardKinds THEN cmd_add_cid_to_all(s) ELSE {})
    \cup
    (IF "known" \in CardKinds /\ MayAsk(s)
     THEN {[o EXCEPT !.second = ad_turn_on(SECOND, d, Door(s)) \o @] :
              o \in cmd_add_cid(d) \cup cmd_add_cid_to_all(s)}
     ELSE {})

OpensDoor(o) == o.second # << >> /\ Head(o.second).target = "TURN_ON"

\* The branch of cb_get_poll_result for the registers: nothing new, a card
\* the controller found itself, or one of the above.
CardSeen(s, d) ==
    {s} \cup {Enqueue(IF OpensDoor(o) THEN Ask(s, FALSE) ELSE s, o) :
                 o \in {o \in CardOrders(s, d) : Fits(s, o)}}

cb_get_poll_result(s, a) ==
    CASE s.send.target = "GET_CID" /\ a.code = 4 -> gp_send(s, PollRegs(a.src))
      [] s.send.target = "GET_REGS" /\ a.code = 6 ->
            {Return(t, TRUE) : t \in CardSeen(s, a.src)}
      [] OTHER -> {Return(s, FALSE)}

\* The pointers of the log are bad or equal, or there is something to read.
cb_log_read(s, a) ==
    CASE s.send.target = "GET_BUFF_ADDR" ->
            {Return(s, FALSE)} \cup gp_send(s, LogData(a.src))
      [] s.send.target = "GET_BUFF_DATA" -> gp_send(s, LogDone(a.src))
      [] s.send.target = "SET_BUFF_ADDR_DOWN" -> {Return(s, TRUE)}
      [] OTHER -> {Return(s, FALSE)}

\* Without a handler the answer is only recorded and reported.
process_port_input(s, a) ==
    CASE s.send.handler = "poll" -> cb_get_poll_result(s, a)
      [] s.send.handler = "log"  -> cb_log_read(s, a)
      [] s.send.handler = "none" -> {Return(s, FALSE)}

-----------------------------------------------------------------------------
(* gp_receiv.  The event is not persistent: it is out of the loop when the *)
(* handler starts.                                                         *)

Fired == [Here EXCEPT !.armed = FALSE]

Ready == run /\ armed

\* The timer fired, but less than gp_timeout after the last send.
TimeoutEarly ==
    /\ Ready
    /\ \E s \in Touch(Fired) : Become(Arm(s))

\* An unanswered command counts against its controller, once.
Expire(s) ==
    IF ~s.send.expected THEN s
    ELSE [s EXCEPT !.send.expected = FALSE,
                   !.unit[s.send.dev].timeouts =
                       IF @ > MaxTimeouts THEN @ ELSE @ + 1]

\* Mutant: commands are only put while an answer is expected.
TimeoutOnlyExpected ==
    /\ Ready
    /\ \E s \in Touch(Fired) :
         \/ send.expected /\ \E t \in gp_put_cmd(Expire(s)) :
              \/ t.done /\ Become(t)
              \/ ~t.done /\ \E u \in gp_send_idle(t) : Become(IF u.done THEN u ELSE Arm(u))
         \/ ~send.expected /\ Become(Arm(s))

TimeoutDue ==
    /\ Ready
    /\ \E s \in Touch(Fired) : \E t \in gp_put_cmd(Expire(s)) :
         \/ t.done /\ Become(t)
         \/ ~t.done /\ \E u \in gp_send_idle(t) : Become(IF u.done THEN u ELSE Arm(u))

\* gp_dev_init
Introduce(s, d) == IF s.unit[d].inited THEN s ELSE Enqueue(s, DevInit(d))

\* What every read does before it looks at a byte: the controller that was
\* addressed last is taken to be alive.
Heard ==
    LET s == Arm(Fired) IN
    [Introduce(s, send.dev) EXCEPT
        !.send.expected = FALSE,
        !.unit[send.dev] = [activ |-> TRUE, timeouts |-> 0, inited |-> TRUE]]

\* read() fails.
ReadError ==
    /\ Ready /\ "read" \in Faults
    /\ \E s \in gp_put_cmd(gp_close(Heard)) : Become(s)

\* Mutant: the branch for 0 bytes does not return.
ReadNothingFallsThrough ==
    /\ Ready
    /\ "hangup" \in Faults \/ (line # << >> /\ Len(rx) = RxRoom)
    /\ \E s \in gp_send(Heard, ResetNow(send.dev)) :
         \E t \in gp_put_cmd(gp_close(s)) : Become(t)

\* read() returns 0: the line is hung up, or the buffer has no room left.
ReadNothing ==
    /\ Ready
    /\ "hangup" \in Faults \/ (line # << >> /\ Len(rx) = RxRoom)
    /\ \E s \in gp_send(Heard, ResetNow(send.dev)) : Become(gp_close(s))

\* The parts a read may return, together with what was kept from before.
Chunks == {n \in 1..Len(line) : n <= RxRoom - Len(rx)}
Got(n) == rx \o SubSeq(line, 1, n)

\* Mutant: a frame that was dealt with stays in the buffer.
TakenKeeps(n) == [Heard EXCEPT !.line = SubSeq(line, n + 1, Len(line)), !.rx = Got(n)]

\* The state after a read of n parts that leaves nothing in the buffer.
Taken(n) == [Heard EXCEPT !.line = SubSeq(line, n + 1, Len(line)), !.rx = << >>]

ReadNoInit ==
    /\ Ready
    /\ \E n \in Chunks :
         /\ Got(n)[1].half = "tail"
         /\ \E s \in Touch(Taken(n)) : Become(s)

ReadPartial ==
    /\ Ready
    /\ \E n \in Chunks :
         /\ \A i \in 1..Len(Got(n)) : Got(n)[i].half = "head"
         /\ Become([Taken(n) EXCEPT !.rx = Got(n)])

\* The first GP_END of p is part k; what follows it in the same read is lost.
EndsAt(p, k) ==
    /\ p[1].half = "head" /\ p[k].half = "tail"
    /\ \A i \in 1..k : p[i].half = "tail" => i = k

\* The check sum of a frame fits if it is one whole answer.
Whole(p, k) == k = 2 /\ p[1].ans = p[2].ans

\* A frame is damaged, or comes from another controller.
ReadBadFrame ==
    /\ Ready
    /\ \E n \in Chunks : \E k \in 1..Len(Got(n)) :
         /\ EndsAt(Got(n), k)
         /\ ~Whole(Got(n), k) \/ Got(n)[k].ans.src # send.dev \/ "loss" \in Faults
         /\ Become(Taken(n))

\* Mutant: the result of process_port_input is ignored for data, too.
HandleAlwaysPuts(s, a) ==
    IF a.kind = "refused" THEN gp_put_cmd(s)
    ELSE UNION {gp_put_cmd(t) : t \in process_port_input(s, a)}

\* The result of process_port_input counts for data only.
Handle(s, a) ==
    CASE a.kind = "refused" -> gp_put_cmd(s)
      [] a.kind = "ack" -> UNION {gp_put_cmd(t) : t \in process_port_input(s, a)}
      [] a.kind = "data" ->
            UNION {IF t.done THEN {t} ELSE gp_put_cmd(t) :
                     t \in process_port_input(s, a)}

ReadAnswer ==
    /\ Ready
    /\ \E n \in Chunks : \E k \in 1..Len(Got(n)) :
         /\ EndsAt(Got(n), k) /\ Whole(Got(n), k)
         /\ Got(n)[k].ans.src = send.dev
         /\ \E s \in Handle(Taken(n), Got(n)[k].ans) : Become(s)

-----------------------------------------------------------------------------
(* The timers, the application and the environment *)

\* Mutant: the timer itself keeps the retry window closed.
ScanDevKeepsWindow ==
    /\ run
    /\ \E s \in Reopen(Here) :
         Become([s EXCEPT !.fresh = TRUE,
                          !.unit = [d \in Slots |->
                              IF d = 0 THEN @[d] ELSE [@[d] EXCEPT !.timeouts = 0]]])

\* gp_all_dev_enable, every 20 seconds.  It skips the attempt to open only
\* when something else set last_try in the meantime.
ScanDev ==
    /\ run
    /\ \E s \in Reopen(Here) :
         Become([s EXCEPT !.fresh = FALSE,
                          !.unit = [d \in Slots |->
                              IF d = 0 THEN @[d] ELSE [@[d] EXCEPT !.timeouts = 0]]])

LogOrders(f) ==
    Orders(<< >>, [i \in DOMAIN f |-> ad_get_buff_addr(SECOND, f[i], "log")[1]])

\* gp_get_dev_logs, every 5 seconds.
ScanLog ==
    /\ run
    /\ \E f \in InOrder(Active(Here)) :
         /\ Fits(Here, LogOrders(f))
         /\ Become(Enqueue(Here, LogOrders(f)))

\* cmd_exchange_dev also marks the controllers.
Marked(s, call, d, e) ==
    IF call # "exchange" THEN s
    ELSE [s EXCEPT !.unit = [c \in Slots |->
            CASE c = d -> [@[c] EXCEPT !.activ = FALSE]
              [] c = e /\ c # d -> [@[c] EXCEPT !.activ = TRUE]
              [] OTHER -> @[c]]]

Call ==
    /\ run
    /\ \E call \in AppCalls \cap Calls, d \in Devices, e \in Devices :
         /\ call # "exchange" => e = d
         /\ call = "open" => MayAsk(Here)
         /\ LET o == CallOrders(call, d, Door(Here))
                s == IF call = "open" THEN Ask(Here, TRUE) ELSE Here
            IN  Fits(Here, o) /\ Become(Enqueue(Marked(s, call, d, e), o))

\* cmd_saving_sched_to_all: one record, both banks of every active controller.
SchedOrders(f) ==
    Orders([i \in 1..2 * Len(f) |->
               ad_set_sched_rec(FIRST, f[(i + 1) \div 2])[1]], << >>)

CallAll ==
    /\ run
    /\ \E o \in (IF "sched_all" \in AppCalls
                  THEN {SchedOrders(f) : f \in InOrder(Active(Here))} ELSE {})
                \cup (IF "token_all" \in AppCalls
                      THEN cmd_add_cid_to_all(Here) ELSE {}) :
         Fits(Here, o) /\ Become(Enqueue(Here, o))

\* A part of an answer is lost on the line.
Lose ==
    /\ "loss" \in Faults
    /\ \E i \in 1..Len(line) :
         line' = SubSeq(line, 1, i - 1) \o SubSeq(line, i + 1, Len(line))
    /\ UNCHANGED <<first, second, send, open, armed, run, rx, unit, idle, fresh,
                   doorVars>>

\* After exit() nothing happens any more.
Exited == ~run /\ UNCHANGED vars

Init ==
    /\ first = << >> /\ second = << >>
    /\ send = [dev |-> 0, target |-> "NULL", handler |-> "none", expected |-> FALSE]
    /\ open \in BOOLEAN /\ armed = open
    /\ run = TRUE
    /\ line = << >> /\ rx = << >>
    /\ unit = [d \in Slots |-> [activ |-> FALSE, timeouts |-> 0, inited |-> FALSE]]
    /\ idle = 0
    /\ fresh = FALSE
    /\ asked = 0 /\ urgent = {} /\ opens = [n \in Doors |-> 0]

Read == \/ ReadError \/ ReadNothing \/ ReadNoInit
        \/ ReadPartial \/ ReadBadFrame \/ ReadAnswer

PortEvent == TimeoutDue \/ Read

Rest == TimeoutEarly \/ ScanDev \/ ScanLog \/ Call \/ CallAll \/ Lose \/ Exited

Next == PortEvent \/ Rest

Spec == Init /\ [][Next]_vars

\* The event loop runs the handler of an armed event, because its timer is set
\* or because bytes wait; the 20 second timer fires, whether the port is open
\* or not; and open() succeeds at last if it is tried again and again.
Tick(o) == ScanDev /\ open = o /\ open' = o
Retry == ScanDev /\ ~open /\ ~fresh /\ open'
Fairness == /\ WF_vars(PortEvent)
            /\ WF_vars(Tick(TRUE)) /\ WF_vars(Tick(FALSE))
            /\ SF_vars(Retry)
FairSpec == Spec /\ Fairness

\* The controllers answer within gp_timeout or not at all: while an answer
\* waits no command is given up.
TimelyNext == (line = << >> /\ TimeoutDue) \/ Read \/ Rest
TimelySpec == Init /\ [][TimelyNext]_vars

-----------------------------------------------------------------------------
(* Properties *)

\* The variables hold what the C objects can hold.
TypeOK == Here \in State

\* Outside a handler the port event is in the loop exactly while the port is
\* open: no path through gp_receiv, with or without a failed write, leaves an
\* open port that nothing will ever wake, or waits on a closed descriptor.
ArmedIffOpen == run => (armed <=> open)

PollTargets == {"GET_CID", "GET_REGS", "SOFT_RESET"}
LogTargets  == {"GET_BUFF_ADDR", "GET_BUFF_DATA", "SET_BUFF_ADDR_DOWN", "SOFT_RESET"}

Fitting(m) ==
    /\ m.handler = "poll" => m.target \in PollTargets
    /\ m.handler = "log"  => m.target \in LogTargets
    /\ m.target \in {"GET_BUFF_DATA", "SET_BUFF_ADDR_DOWN"} => m.handler = "log"

\* A command sent with AD_Q_SHORT keeps the handler of the one before it, so
\* the handler and the target in send_mess are chosen in different places.
\* They fit all the same: no path sends such a command behind one of another
\* dialogue and has it inherit a handler that is not its own.  Nothing is said
\* of the answers here: one that comes late, to a command of the same
\* controller that was given up, does go to the handler of the next command.
HandlerFitsTarget == Fitting(send)

\* The process goes on through hang-ups, lost answers, damaged frames and
\* time-outs ("never exit on error!", gp_layer.c): gp_resend, which calls exit()
\* on a closed port, is never reached with one.
NeverExits == run

\* Nothing but the loss of the line takes an open port away: in a run without
\* hang-ups and errors the "port unexpectedly closed" branch is not entered.
PortKept == [][open => open']_vars

\* A port that was closed is open again in the end: the retries of the 20
\* second timer are not held off for ever by the 15 second window that every
\* other call of gp_reconnect restarts.
PortRecovers == ~open ~> open

\* When the controllers are timely the half-duplex line carries at most one
\* answer, and it is the answer to the command in send_mess: no path through
\* the reply handlers sends twice in one run, or sends while an answer is due.
Outstanding(a) == a.src = send.dev /\ a.code = CmdN[send.target]
OneOutstanding ==
    open => \/ rx \o line = << >>
            \/ \E a \in {line[i].ans : i \in 1..Len(line)} :
                 rx \o line = Framed(a) /\ Outstanding(a)
=============================================================================
