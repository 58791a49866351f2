---------------------------- MODULE GateBusProofs ----------------------------
(***************************************************************************)
(* Type correctness of the bus master, and the safety invariants that do   *)
(* not depend on how timely the controllers are, for any number of         *)
(* controllers, any bounds and any faults.                                 *)
(***************************************************************************)
EXTENDS GateBus, TLAPS, SequenceTheorems, FiniteSetTheorems

\* What may wait in a queue: a command that was not sent at once, and whose
\* handler, if it has one, fits.
QueuedCommand ==
    {c \in Command :
        /\ c.queue # SHORT
        /\ Fitting(c)}

OrderSet == [first : Seq(QueuedCommand), second : Seq(QueuedCommand)]

\* Most orders open no door.
PlainCommand == {c \in QueuedCommand : c.door = 0}
PlainOrders  == [first : Seq(PlainCommand), second : Seq(PlainCommand)]

\* An acknowledgement never carries a code that the reply handlers of
\* gp_processor.c act upon: reads of memory and of the registers are answered
\* with data.
Honest(a) == a.kind = "ack" => a.code \notin {4, 6}
HonestPart == {p \in Part : Honest(p.ans)}

\* The strengthening of the type invariant that is inductive: the queues hold
\* such commands only, the command in send_mess fits as well, and the line
\* carries parts of honest answers.
Sound ==
    {s \in [first  : Seq(QueuedCommand), second : Seq(QueuedCommand),
            send : SendMess, open : BOOLEAN, armed : BOOLEAN, run : BOOLEAN,
            line   : Seq(HonestPart), rx : Seq(HonestPart),
            unit   : [Slots -> Unit], idle : Slots, fresh : BOOLEAN,
            asked  : 0..MaxDoors, urgent : SUBSET Doors,
            opens  : [Doors -> 0..2], done : BOOLEAN] : Fitting(s.send)}

Wired(s) == s.run => (s.armed <=> s.open)

USE CommandsAssumption, BusAssumption

-----------------------------------------------------------------------------
(* Commands and orders *)

LEMMA PlainType ==
    ASSUME NEW q \in {FIRST, SECOND}, NEW d \in Slots,
           NEW t \in Targets \ {"GET_BUFF_DATA", "SET_BUFF_ADDR_DOWN"}
    PROVE  Plain(q, d, t) \in PlainCommand
  BY SMT DEF PlainCommand, QueuedCommand, Command, Plain, Fitting, SHORT, FIRST, SECOND, Handlers

LEMMA PlainOrdersType == PlainOrders \subseteq OrderSet
<1>1. PlainCommand \subseteq QueuedCommand
  BY DEF PlainCommand
<1>2. Seq(PlainCommand) \subseteq Seq(QueuedCommand)
  BY <1>1, SeqMonotonic
<1> QED BY <1>2 DEF PlainOrders, OrderSet

LEMMA TwoType ==
    ASSUME NEW S, NEW c \in S
    PROVE  One(c) \in Seq(S) /\ Both(c) \in Seq(S)
  BY SMT DEF One, Both

LEMMA JoinType ==
    ASSUME NEW S, NEW a \in Seq(S), NEW b \in Seq(S)
    PROVE  a \o b \in Seq(S)
  BY ConcatProperties

LEMMA TurnOnType ==
    ASSUME NEW q \in {FIRST, SECOND}, NEW d \in Slots, NEW n \in 0..MaxDoors
    PROVE  ad_turn_on(q, d, n) \in Seq(QueuedCommand)
<1>1. [Plain(q, d, "TURN_ON") EXCEPT !.door = n] \in QueuedCommand
  BY SMT DEF QueuedCommand, Command, Plain, Fitting, SHORT, FIRST, SECOND, Handlers,
         Targets, Single, PollTargets, LogTargets
<1> QED BY <1>1, TwoType DEF ad_turn_on

LEMMA BuffAddrType ==
    ASSUME NEW q \in {FIRST, SECOND}, NEW d \in Slots, NEW h \in {"none", "log"}
    PROVE  ad_get_buff_addr(q, d, h) \in Seq(PlainCommand)
<1>1. [Plain(q, d, "GET_BUFF_ADDR") EXCEPT !.handler = h] \in PlainCommand
  BY SMT DEF PlainCommand, QueuedCommand, Command, Plain, Fitting, SHORT, FIRST, SECOND, Handlers,
         Targets, Reading, PollTargets, LogTargets
<1> QED BY <1>1, TwoType DEF ad_get_buff_addr

\* A sequence of n commands of a controller.
LEMMA BlocksType ==
    ASSUME NEW d \in Slots, NEW n \in Nat
    PROVE  TokenBlocks(d, n) \in Seq(PlainCommand)
<1>1. Plain(FIRST, d, "SET_TOKEN") \in PlainCommand
  BY PlainType DEF Targets, Writing
<1>2. TokenBlocks(d, n) \in [1..2 * n -> PlainCommand]
  BY <1>1 DEF TokenBlocks
<1> QED BY <1>2, SeqDef

LEMMA BuildersType ==
    ASSUME NEW q \in {FIRST, SECOND}, NEW d \in Slots
    PROVE  /\ ad_get_info(q, d) \in Seq(PlainCommand)
           /\ ad_soft_reset(q, d) \in Seq(PlainCommand)
           /\ ad_turn_off(q, d) \in Seq(PlainCommand)
           /\ ad_exchange(q, d) \in Seq(PlainCommand)
           /\ ad_get_date(q, d) \in Seq(PlainCommand)
           /\ ad_set_date(q, d) \in Seq(PlainCommand)
           /\ ad_reset_buff(q, d) \in Seq(PlainCommand)
           /\ ad_get_regs(q, d) \in Seq(PlainCommand)
           /\ ad_prep_load(q, d) \in Seq(PlainCommand)
           /\ ad_get_token_bound(q, d) \in Seq(PlainCommand)
           /\ ad_set_token_bound(q, d) \in Seq(PlainCommand)
           /\ ad_get_token(q, d) \in Seq(PlainCommand)
           /\ ad_set_token(q, d) \in Seq(PlainCommand)
           /\ ad_get_times(q, d) \in Seq(PlainCommand)
           /\ ad_set_times(q, d) \in Seq(PlainCommand)
           /\ ad_get_sched_table(q, d) \in Seq(PlainCommand)
           /\ ad_set_sched_rec(q, d) \in Seq(PlainCommand)
<1>1. \A t \in Targets \ {"GET_BUFF_DATA", "SET_BUFF_ADDR_DOWN"} :
         /\ One(Plain(q, d, t)) \in Seq(PlainCommand)
         /\ Both(Plain(q, d, t)) \in Seq(PlainCommand)
  BY PlainType, TwoType
<1>2. {"INFO", "SOFT_RESET", "TURN_OFF", "EXCHANGE", "GET_DATE", "SET_DATE",
       "RESET_BUFF", "GET_REGS", "PREP_LOAD", "GET_TOKEN_BOUND",
       "SET_TOKEN_BOUND", "GET_TOKEN", "SET_TOKEN", "GET_TIMES", "SET_TIMES",
       "GET_SCHED", "SET_SCHED"}
         \subseteq Targets \ {"GET_BUFF_DATA", "SET_BUFF_ADDR_DOWN"}
  BY SMT DEF Targets, Reading, Writing, Single
<1>3. ad_exchange(q, d) \in Seq(PlainCommand)
  BY <1>1, <1>2, JoinType DEF ad_exchange, ad_soft_reset
<1> QED
  BY <1>1, <1>2, <1>3 DEF ad_get_info, ad_soft_reset, ad_turn_off, ad_get_date,
     ad_set_date, ad_reset_buff, ad_get_regs, ad_prep_load, ad_get_token_bound,
     ad_set_token_bound, ad_get_token, ad_set_token, ad_get_times, ad_set_times,
     ad_get_sched_table, ad_set_sched_rec

LEMMA NoOrders == << >> \in Seq(PlainCommand)
  BY EmptySeq

LEMMA DevInitType ==
    ASSUME NEW d \in Slots
    PROVE  DevInit(d) \in PlainOrders
  BY BuildersType, JoinType, NoOrders, d \in Slots, SECOND \in {FIRST, SECOND}
     DEF DevInit, PlainOrders, Orders

\* Whatever an application calls puts only such commands into the queues.
LEMMA CallOrdersType ==
    ASSUME NEW call \in Calls, NEW d \in Devices, NEW n \in Nat,
           call = "open" => n \in 0..MaxDoors
    PROVE  /\ CallOrders(call, d, n) \in OrderSet
           /\ call # "open" => CallOrders(call, d, n) \in PlainOrders
<1> DEFINE Q == Seq(PlainCommand)
<1>0. /\ d \in Slots /\ FIRST \in {FIRST, SECOND} /\ SECOND \in {FIRST, SECOND}
      /\ << >> \in Q
  BY NoOrders DEF Devices, Slots
<1>1. \A a, b \in Q : a \o b \in Q /\ Orders(a, b) \in PlainOrders
  BY JoinType DEF PlainOrders, Orders
<1>3. ad_get_buff_addr(FIRST, d, "none") \in Q
  BY <1>0, BuffAddrType
<1>4. TokenBlocks(d, ClearBlocks) \in Q /\ TokenBlocks(d, StoredTokens) \in Q
  BY <1>0, BlocksType
<1>5. cmd_clear_dev(d) \in PlainOrders
  <2> HIDE DEF Q
  <2> QED BY <1>0, <1>1, <1>4, BuildersType DEF cmd_clear_dev, Q
<1>6. cmd_param_dev(d) \in PlainOrders
  BY <1>0, <1>1, <1>3, BuildersType DEF cmd_param_dev
<1>7. cmd_reset_dev(d) \in PlainOrders /\ cmd_reload_dev(d) \in PlainOrders
  BY <1>0, <1>1, <1>4, BuildersType DEF cmd_reset_dev, cmd_reload_dev
<1>8. CASE call # "open"
  <2>1. CallOrders(call, d, n) \in PlainOrders
    BY <1>0, <1>1, <1>5, <1>6, <1>7, <1>8, BuildersType DEF CallOrders, Calls
  <2> QED BY <2>1, PlainOrdersType
<1>9. CASE call = "open"
  <2>1. ad_turn_on(FIRST, d, n) \in Seq(QueuedCommand) /\ << >> \in Seq(QueuedCommand)
    BY <1>0, <1>9, TurnOnType, EmptySeq
  <2> QED BY <1>9, <2>1 DEF CallOrders, OrderSet, Orders
<1> QED BY <1>8, <1>9

LEMMA EnqueueType ==
    ASSUME NEW s \in Sound, NEW o \in OrderSet
    PROVE  /\ Enqueue(s, o) \in Sound
           /\ Enqueue(s, o).run = s.run /\ Enqueue(s, o).open = s.open
           /\ Enqueue(s, o).armed = s.armed /\ Enqueue(s, o).send = s.send
           /\ Enqueue(s, o).done = s.done
<1>1. /\ s.first \in Seq(QueuedCommand) /\ o.first \in Seq(QueuedCommand)
      /\ s.second \in Seq(QueuedCommand) /\ o.second \in Seq(QueuedCommand)
  BY DEF Sound, OrderSet
<1>2. s.first \o o.first \in Seq(QueuedCommand) /\ s.second \o o.second \in Seq(QueuedCommand)
  BY <1>1, JoinType
<1> QED BY <1>2 DEF Enqueue, Sound

-----------------------------------------------------------------------------
(* The port *)

LEMMA PortType ==
    ASSUME NEW s \in Sound
    PROVE  /\ Arm(s) \in Sound /\ gp_close(s) \in Sound
           /\ \A b \in BOOLEAN : Return(s, b) \in Sound
           /\ \A t \in Touch(s) : /\ t \in Sound /\ t.run = s.run /\ t.open = s.open
                                  /\ t.armed = s.armed /\ t.send = s.send
                                  /\ t.done = s.done
<1>1. Arm(s) \in Sound
  BY DEF Sound, Arm
<1>2. gp_close(s) \in Sound
  BY DEF Sound, gp_close
<1>3. \A b \in BOOLEAN : Return(s, b) \in Sound
  BY DEF Sound, Return
<1>4. \A t \in Touch(s) : /\ t \in Sound /\ t.run = s.run /\ t.open = s.open
                          /\ t.armed = s.armed /\ t.send = s.send
                          /\ t.done = s.done
  <2> DEFINE u == [s EXCEPT !.fresh = TRUE]
  <2>1. u \in Sound /\ u.run = s.run /\ u.open = s.open
    BY Zenon DEF Sound
  <2>2. u.armed = s.armed /\ u.send = s.send /\ u.done = s.done
    BY Zenon DEF Sound
  <2>3. \A t \in Touch(s) : t = s \/ t = u
    BY DEF Touch
  <2> HIDE DEF u
  <2> QED BY <2>1, <2>2, <2>3
<1> QED BY <1>1, <1>2, <1>3, <1>4

LEMMA ReopenType ==
    ASSUME NEW s \in Sound, NEW t \in Reopen(s)
    PROVE  t \in Sound /\ t.run = s.run /\ (Wired(s) => Wired(t)) /\ (s.open => t.open)
<1>1. CASE t = s
  BY <1>1 DEF Reopen
<1>2. CASE ~s.open /\ t = Arm([s EXCEPT !.open = TRUE, !.line = << >>])
  <2>1. << >> \in Seq(HonestPart)
    BY EmptySeq
  <2> DEFINE u == [s EXCEPT !.open = TRUE, !.line = << >>]
  <2>2. u \in Sound /\ u.run = s.run
    BY <2>1 DEF Sound
  <2>3. t = Arm(u)
    BY <1>2
  <2> HIDE DEF u
  <2>4. t \in Sound /\ t.open = u.open /\ t.armed = u.open /\ t.run = u.run
    BY <2>2, <2>3 DEF Arm, Sound
  <2> QED BY <1>2, <2>2, <2>4 DEF Wired
<1> QED BY <1>1, <1>2 DEF Reopen

LEMMA CountType ==
    ASSUME NEW s \in Sound, NEW n \in 0..MaxDoors
    PROVE  /\ Count(s, n) \in Sound
           /\ Count(s, n).open = s.open /\ Count(s, n).armed = s.armed
           /\ Count(s, n).run = s.run
<1>1. CASE n = 0 \/ s.opens[n] = 2
  BY <1>1 DEF Count
<1>2. CASE n # 0 /\ s.opens[n] # 2
  <2>1. n \in Doors /\ s.opens \in [Doors -> 0..2]
    BY <1>2 DEF Doors, Sound
  <2>2. s.opens[n] + 1 \in 0..2
    BY <1>2, <2>1
  <2>3. [s.opens EXCEPT ![n] = @ + 1] \in [Doors -> 0..2]
    BY <2>1, <2>2
  <2>4. Count(s, n) = [s EXCEPT !.opens = [s.opens EXCEPT ![n] = @ + 1]]
    BY <1>2 DEF Count
  <2> DEFINE w == [s.opens EXCEPT ![n] = @ + 1]
             t == [s EXCEPT !.opens = w]
  <2> HIDE DEF w
  <2>5. t \in Sound
    BY <2>3 DEF Sound, w
  <2>6. t.open = s.open /\ t.armed = s.armed /\ t.run = s.run
    BY DEF Sound
  <2> QED BY <2>4, <2>5, <2>6 DEF w
<1> QED BY <1>1, <1>2

\* What a controller answers is honest, and so is a refusal.
LEMMA AnswerHonest ==
    ASSUME NEW c \in Command
    PROVE  LET a == AnswerTo(c)
               r == [AnswerTo(c) EXCEPT !.kind = "refused"]
           IN  /\ a \in Answer /\ a.src = c.dev /\ a.code = CmdN[c.target] /\ Honest(a)
               /\ r \in Answer /\ r.src = c.dev /\ r.code = CmdN[c.target] /\ Honest(r)
<1>1. c.target \in Targets /\ c.dev \in Slots
  BY DEF Command
<1>2. c.target \notin Reading \cup {"INFO", "GET_REGS"} => CmdN[c.target] \notin {4, 6}
  BY <1>1 DEF CmdN, Targets, Reading, Writing, Single
<1>3. AnswerTo(c) =
        [src  |-> c.dev,
         kind |-> IF c.target \in Reading \cup {"INFO", "GET_REGS"} THEN "data" ELSE "ack",
         code |-> CmdN[c.target]]
  BY DEF AnswerTo
<1>4. CmdN[c.target] \in {CmdN[t] : t \in Targets}
  BY <1>1
<1> QED
  <2> DEFINE k == CmdN[c.target]
             R == Reading \cup {"INFO", "GET_REGS"}
  <2> HIDE DEF k, R
  <2> QED BY <1>1, <1>2, <1>3, <1>4 DEF Answer, AnswerKinds, Honest, k, R

LEMMA FramedType ==
    ASSUME NEW a \in Answer, Honest(a)
    PROVE  Framed(a) \in Seq(HonestPart)
<1>1. /\ [half |-> "head", ans |-> a] \in HonestPart
      /\ [half |-> "tail", ans |-> a] \in HonestPart
  BY DEF HonestPart, Part
<1> QED BY <1>1 DEF Framed

LEMMA RepliesType ==
    ASSUME NEW s \in Sound, NEW c \in Command, NEW p \in Replies(s, c)
    PROVE  p \in Seq(HonestPart)
<1>1. << >> \in Seq(HonestPart)
  BY EmptySeq
<1>2. CASE p = Framed(AnswerTo(c)) \/ p = Framed([AnswerTo(c) EXCEPT !.kind = "refused"])
  BY <1>2, AnswerHonest, FramedType
<1> QED BY <1>1, <1>2 DEF Replies

\* A command may be sent from a state: it fits once its handler is settled.
MaySend(s, c) == c \in Command /\ Fitting(Remember(s, c).send)

\* gp_send leaves the event in the loop iff it leaves the port open; on an open
\* port without write errors the port stays open and the process goes on.
LEMMA SendType ==
    ASSUME NEW s \in Sound, NEW c, MaySend(s, c), NEW t \in gp_send(s, c)
    PROVE  /\ t \in Sound /\ Wired(t)
           /\ ("write" \notin Faults /\ s.open) => (t.open /\ t.run = s.run)
<1> DEFINE r == Remember(s, c)
<1>1. r \in Sound /\ r.open = s.open /\ r.run = s.run
  BY DEF MaySend, Remember, Sound, SendMess, Command
<1>2. Arm(r) \in Sound /\ Arm(r).open = r.open /\ Arm(r).armed = r.open /\ Arm(r).run = r.run
  BY <1>1, PortType DEF Arm, Sound
<1>3. LET u == Count(Arm(r), c.door) IN
      u \in Sound /\ u.open = r.open /\ u.armed = r.open /\ u.run = r.run
  <2>1. c.door \in 0..MaxDoors
    BY DEF MaySend, Command
  <2> QED BY <2>1, <1>2, CountType
<1>4. r.open = s.open /\ r.run = s.run /\ r \in Sound
  BY <1>1
<1>5. CASE ~r.open
  <2>1. t = [r EXCEPT !.run = FALSE, !.done = FALSE]
    BY <1>5 DEF gp_send, gp_resend
  <2> HIDE DEF r
  <2> QED BY <2>1, <1>4, <1>5 DEF Sound, Wired
<1>6. CASE r.open /\ t \in {Return([Count(Arm(r), c.door) EXCEPT !.line = @ \o p], TRUE) :
                               p \in Replies(r, c)}
  <2> DEFINE u == Count(Arm(r), c.door)
  <2>1. PICK p \in Replies(r, c) : t = Return([u EXCEPT !.line = @ \o p], TRUE)
    BY <1>6
  <2>2. u.line \in Seq(HonestPart) /\ p \in Seq(HonestPart)
    BY <1>1, <1>3, RepliesType DEF Sound, MaySend
  <2>3. u.line \o p \in Seq(HonestPart)
    BY <2>2, JoinType
  <2>4. t \in Sound /\ t.open = u.open /\ t.armed = u.armed /\ t.run = u.run
    <3>1. u \in Sound
      BY <1>3
    <3> HIDE DEF u
    <3> QED BY <2>1, <2>3, <3>1 DEF Sound, Return
  <2> QED BY <2>4, <1>3, <1>4, <1>6 DEF Wired
<1>7. CASE r.open /\ "write" \in Faults /\ t \in {Return(Arm(r), FALSE), Return(gp_close(r), FALSE)}
  <2> HIDE DEF r
  <2>1. CASE t = Return(Arm(r), FALSE)
    BY <2>1, <1>4, <1>7 DEF Sound, Return, Arm, Wired
  <2>2. CASE t = Return(gp_close(r), FALSE)
    BY <2>2, <1>4, <1>7 DEF Sound, Return, gp_close, Wired
  <2> QED BY <2>1, <2>2, <1>7
<1> QED
  <2>1. r.open => \/ t \in {Return([Count(Arm(r), c.door) EXCEPT !.line = @ \o p], TRUE) :
                               p \in Replies(r, c)}
                  \/ "write" \in Faults /\ t \in {Return(Arm(r), FALSE), Return(gp_close(r), FALSE)}
    BY DEF gp_send, gp_resend
  <2> QED BY <1>5, <1>6, <1>7, <2>1

-----------------------------------------------------------------------------
(* gp_put_cmd and gp_send_idle *)

LEMMA MaySendQueued ==
    ASSUME NEW s \in Sound, NEW c \in QueuedCommand
    PROVE  MaySend(s, c)
  BY DEF MaySend, Remember, QueuedCommand, Fitting

LEMMA MaySendPoll ==
    ASSUME NEW s \in Sound, NEW d \in Slots
    PROVE  MaySend(s, PollCid(d)) /\ MaySend(s, ResetNow(d))
<1>1. s.send.handler \in Handlers /\ Fitting(s.send)
  BY DEF Sound, SendMess
<1>2. PollCid(d) = [queue |-> SHORT, dev |-> d, target |-> "GET_CID",
                    handler |-> "poll", door |-> 0]
  BY DEF PollCid, Plain
<1>3. ResetNow(d) = [queue |-> SHORT, dev |-> d, target |-> "SOFT_RESET",
                     handler |-> "none", door |-> 0]
  BY DEF ResetNow, Plain
<1>4. PollCid(d) \in Command /\ ResetNow(d) \in Command
  BY <1>2, <1>3 DEF Command, Targets, Reading, Single, Handlers
<1>5. Fitting(Remember(s, PollCid(d)).send)
  BY <1>2 DEF Remember, Sound, SendMess, Fitting, PollTargets, LogTargets, SHORT
<1>6. Fitting(Remember(s, ResetNow(d)).send)
  BY <1>1, <1>3 DEF Remember, Sound, SendMess, Fitting, PollTargets, LogTargets, SHORT
<1> QED BY <1>4, <1>5, <1>6 DEF MaySend

\* What a function that may send guarantees: types, the wiring of the event,
\* and that without write errors it neither closes the port nor exits.
Kept(s, t) ==
    /\ t \in Sound
    /\ (Wired(s) => Wired(t))
    /\ ("write" \notin Faults /\ s.open) => (t.open /\ t.run = s.run)

LEMMA PutCmdType ==
    ASSUME NEW s \in Sound, NEW t \in gp_put_cmd(s)
    PROVE  Kept(s, t) /\ (s.run /\ t.done => Wired(t))
<1>1. CASE ~s.run
  BY <1>1 DEF gp_put_cmd, Kept
<1>2. CASE s.run /\ s.first # << >>
  <2> DEFINE u == [s EXCEPT !.first = Tail(@)]
  <2>1. s.first \in Seq(QueuedCommand)
    BY DEF Sound
  <2>2. Head(s.first) \in QueuedCommand /\ Tail(s.first) \in Seq(QueuedCommand)
    BY <1>2, <2>1, HeadTailProperties
  <2>3. u \in Sound /\ u.open = s.open /\ u.run = s.run
    BY <2>2 DEF Sound
  <2>4. t \in gp_send(u, Head(s.first))
    BY <1>2 DEF gp_put_cmd
  <2> HIDE DEF u
  <2>5. t \in Sound /\ Wired(t) /\ (("write" \notin Faults /\ u.open) => (t.open /\ t.run = u.run))
    BY <2>2, <2>3, <2>4, MaySendQueued, SendType
  <2> QED BY <2>3, <2>5 DEF Kept
<1>3. CASE s.run /\ s.first = << >> /\ s.second # << >>
  <2> DEFINE u == [s EXCEPT !.second = Tail(@)]
  <2>1. s.second \in Seq(QueuedCommand)
    BY DEF Sound
  <2>2. Head(s.second) \in QueuedCommand /\ Tail(s.second) \in Seq(QueuedCommand)
    BY <1>3, <2>1, HeadTailProperties
  <2>3. u \in Sound /\ u.open = s.open /\ u.run = s.run
    BY <2>2 DEF Sound
  <2>4. t \in gp_send(u, Head(s.second))
    BY <1>3 DEF gp_put_cmd
  <2> HIDE DEF u
  <2>5. t \in Sound /\ Wired(t) /\ (("write" \notin Faults /\ u.open) => (t.open /\ t.run = u.run))
    BY <2>2, <2>3, <2>4, MaySendQueued, SendType
  <2> QED BY <2>3, <2>5 DEF Kept
<1>4. CASE s.run /\ s.first = << >> /\ s.second = << >>
  <2>1. t = Return(s, FALSE)
    BY <1>4 DEF gp_put_cmd
  <2> QED BY <2>1, <1>4 DEF Return, Sound, Kept, Wired
<1> QED BY <1>1, <1>2, <1>3, <1>4 DEF Sound

LEMMA SkipType ==
    ASSUME NEW s \in Sound, NEW d \in 0..MaxDev + 1
    PROVE  /\ Skip(s, d) \in Sound /\ Skip(s, d).open = s.open
           /\ Skip(s, d).run = s.run /\ Skip(s, d).armed = s.armed
<1>1. (IF d > MaxDev THEN 0 ELSE d) \in Slots
  BY DEF Slots
<1>2. s.unit \in [Slots -> Unit]
  BY DEF Sound
<1>3. [e \in Slots |-> IF s.idle < e /\ e < d THEN [s.unit[e] EXCEPT !.activ = FALSE]
                                              ELSE s.unit[e]] \in [Slots -> Unit]
  <2>1. \A e \in Slots : s.unit[e] \in Unit
    BY <1>2
  <2>2. \A u \in Unit : [u EXCEPT !.activ = FALSE] \in Unit
    BY DEF Unit
  <2> QED BY <2>1, <2>2
<1> QED BY <1>1, <1>3 DEF Skip, Sound

LEMMA SendIdleType ==
    ASSUME NEW s \in Sound, NEW t \in gp_send_idle(s)
    PROVE  Kept(s, t) /\ (s.run /\ t.done => Wired(t))
<1>1. CASE ~s.run
  BY <1>1 DEF gp_send_idle, Kept
<1>2. CASE s.run /\ Ahead(s) = {}
  <2>1. t = Return(Skip(s, MaxDev + 1), FALSE)
    BY <1>2 DEF gp_send_idle
  <2>2. MaxDev + 1 \in 0..MaxDev + 1
    OBVIOUS
  <2> DEFINE u == Skip(s, MaxDev + 1)
  <2>3. u \in Sound /\ u.open = s.open /\ u.run = s.run /\ u.armed = s.armed
    BY <2>2, SkipType
  <2>4. t = Return(u, FALSE)
    BY <2>1
  <2> HIDE DEF u
  <2> QED BY <2>3, <2>4 DEF Return, Sound, Kept, Wired
<1>3. CASE s.run /\ Ahead(s) # {}
  <2>1. PICK d \in Turn(s) : t \in gp_send(Skip(s, d), PollCid(d))
    BY <1>3 DEF gp_send_idle
  <2>2. d \in Slots /\ d \in 0..MaxDev + 1
    BY DEF Turn, Ahead, Devices, Slots
  <2> DEFINE u == Skip(s, d)
  <2>3. u \in Sound /\ u.open = s.open /\ u.run = s.run
    BY <2>2, SkipType
  <2>4. t \in gp_send(u, PollCid(d))
    BY <2>1
  <2> HIDE DEF u
  <2>5. MaySend(u, PollCid(d))
    BY <2>2, <2>3, MaySendPoll
  <2>6. t \in Sound /\ Wired(t) /\ (("write" \notin Faults /\ u.open) => (t.open /\ t.run = u.run))
    BY <2>3, <2>4, <2>5, SendType
  <2> QED BY <2>3, <2>6 DEF Kept
<1> QED BY <1>1, <1>2, <1>3 DEF Sound
-----------------------------------------------------------------------------
(* The orders of the reply handlers and of the timers *)

LEMMA CountableType ==
    ASSUME NEW n \in Nat, NEW J \in SUBSET (0..n)
    PROVE  Cardinality(J) \in Nat
<1>1. IsFiniteSet(0..n)
  BY FS_Interval
<1> QED BY <1>1, FS_Subset, FS_CardinalityType

LEMMA InOrderType ==
    ASSUME NEW n \in Nat, NEW J \in SUBSET (0..n), NEW f \in InOrder(J)
    PROVE  /\ f \in [1..Cardinality(J) -> J] /\ Cardinality(J) \in Nat
           /\ f \in Seq(J) /\ Len(f) = Cardinality(J)
<1>1. f \in [1..Cardinality(J) -> J] /\ Cardinality(J) \in Nat
  BY CountableType DEF InOrder
<1>2. f \in Seq(J)
  BY <1>1, SeqDef
<1>3. Len(f) \in Nat /\ DOMAIN f = 1..Len(f)
  BY <1>2, LenProperties
<1>4. DOMAIN f = 1..Cardinality(J)
  BY <1>1
<1> QED BY <1>1, <1>2, <1>3, <1>4

Jobs == 0..2 * MaxDev + 1

LEMMA JobCommandType ==
    ASSUME NEW k \in Jobs
    PROVE  JobCommand(k) \in PlainCommand /\ JobCommand(k).target # "TURN_ON"
<1>1. k \div 2 \in Slots
  BY DEF Jobs, Slots
<1>2. {"SET_TOKEN", "SET_TOKEN_BOUND"} \subseteq Targets \ {"GET_BUFF_DATA", "SET_BUFF_ADDR_DOWN"}
  BY DEF Targets, Writing
<1>3. JobCommand(k) \in PlainCommand
  BY <1>1, <1>2, PlainType DEF JobCommand
<1> QED BY <1>3 DEF JobCommand, Plain

LEMMA JobOrdersType ==
    ASSUME NEW J \in SUBSET Jobs, NEW o \in JobOrders(J)
    PROVE  o \in PlainOrders /\ ~OpensDoor(o)
<1>1. PICK f \in InOrder(J) :
         o = Orders(<< >>, [i \in 1..2 * Cardinality(J) |-> JobCommand(f[(i + 1) \div 2])])
  BY DEF JobOrders
<1> DEFINE n == Cardinality(J)
<1> DEFINE q == [i \in 1..2 * n |-> JobCommand(f[(i + 1) \div 2])]
<1>2. 2 * MaxDev + 1 \in Nat /\ J \in SUBSET (0..2 * MaxDev + 1)
  BY DEF Jobs
<1>3. f \in [1..n -> J] /\ n \in Nat
  BY <1>2, InOrderType
<1> HIDE DEF n
<1>4. \A i \in 1..2 * n : (i + 1) \div 2 \in 1..n
  BY <1>3
<1>5. \A i \in 1..2 * n : q[i] \in PlainCommand /\ q[i].target # "TURN_ON"
  BY <1>3, <1>4, JobCommandType
<1>6. q \in [1..2 * n -> PlainCommand]
  BY <1>5
<1>7. q \in Seq(PlainCommand)
  BY <1>3, <1>6, SeqDef
<1>8. q = << >> \/ Head(q).target # "TURN_ON"
  <2> DEFINE S == {c \in PlainCommand : c.target # "TURN_ON"}
  <2>1. q \in [1..2 * n -> S]
    BY <1>5
  <2>2. q \in Seq(S)
    BY <1>3, <2>1, SeqDef
  <2> HIDE DEF q
  <2>3. q # << >> => Head(q) \in S
    BY <2>2, HeadTailProperties
  <2> QED BY <2>3
<1>9. o = [first |-> << >>, second |-> q]
  BY <1>1 DEF Orders, n
<1> HIDE DEF q
<1> QED BY <1>7, <1>8, <1>9, NoOrders DEF PlainOrders, OpensDoor

LEMMA CardJobsType ==
    ASSUME NEW s \in Sound, NEW d \in Slots,
           NEW o \in cmd_add_cid(d) \cup cmd_add_cid_to_all(s)
    PROVE  o \in PlainOrders /\ ~OpensDoor(o)
<1>1. CASE o \in cmd_add_cid(d)
  <2>1. PICK J \in {{}, {2 * d}, {2 * d, 2 * d + 1}} : o \in JobOrders(J)
    BY <1>1 DEF cmd_add_cid
  <2>2. J \in SUBSET Jobs
    BY DEF Jobs, Slots
  <2> QED BY <2>1, <2>2, JobOrdersType
<1>2. CASE o \in cmd_add_cid_to_all(s)
  <2> DEFINE CC == {{e \in Active(s) : e <= last} : last \in Slots}
             J(C, B) == {2 * e : e \in C} \cup {2 * e + 1 : e \in B}
  <2>0. o \in UNION {UNION {JobOrders(J(C, B)) : B \in SUBSET C} : C \in CC}
    BY <1>2 DEF cmd_add_cid_to_all
  <2>a. \A C \in CC : C \subseteq Active(s)
    OBVIOUS
  <2> HIDE DEF CC, J
  <2>1. PICK C \in CC : o \in UNION {JobOrders(J(C, B)) : B \in SUBSET C}
    BY <2>0
  <2>2. PICK B \in SUBSET C : o \in JobOrders(J(C, B))
    BY <2>1
  <2>3. C \subseteq Devices /\ B \subseteq Devices
    BY <2>1, <2>2, <2>a DEF Active
  <2>4. J(C, B) \in SUBSET Jobs
    BY <2>3 DEF J, Jobs, Devices
  <2> QED BY <2>2, <2>4, JobOrdersType
<1> QED BY <1>1, <1>2

LEMMA AskType ==
    ASSUME NEW s \in Sound, MayAsk(s), NEW b \in BOOLEAN
    PROVE  /\ Ask(s, b) \in Sound /\ Ask(s, b).run = s.run /\ Ask(s, b).open = s.open
           /\ Ask(s, b).armed = s.armed /\ Ask(s, b).done = s.done
<1>1. s.asked + 1 \in 0..MaxDoors /\ s.asked + 1 \in Doors
  BY DEF Sound, MayAsk, Doors
<1>2. (IF b THEN s.urgent \cup {s.asked + 1} ELSE s.urgent) \in SUBSET Doors
  BY <1>1 DEF Sound
<1>3. Ask(s, b) = [s EXCEPT !.asked = s.asked + 1,
                            !.urgent = IF b THEN s.urgent \cup {s.asked + 1} ELSE s.urgent]
  BY DEF Ask
<1> DEFINE w == IF b THEN s.urgent \cup {s.asked + 1} ELSE s.urgent
           k == s.asked + 1
           t == [s EXCEPT !.asked = k]
           u == [t EXCEPT !.urgent = w]
<1> HIDE DEF w, k
<1>4. t \in Sound /\ t.run = s.run /\ t.open = s.open /\ t.armed = s.armed /\ t.done = s.done
  BY <1>1 DEF Sound, k
<1>5. Ask(s, b) = u
  BY <1>3 DEF Sound, w, k
<1> HIDE DEF t
<1>6. u \in Sound /\ u.run = t.run /\ u.open = t.open /\ u.armed = t.armed /\ u.done = t.done
  BY <1>2, <1>4 DEF Sound, w
<1> HIDE DEF u
<1> QED BY <1>4, <1>5, <1>6

LEMMA CardOrdersType ==
    ASSUME NEW s \in Sound, NEW d \in Slots, NEW o \in CardOrders(s, d)
    PROVE  o \in OrderSet /\ (OpensDoor(o) => MayAsk(s))
<1>1. CASE o \in cmd_add_cid_to_all(s)
  BY <1>1, CardJobsType, PlainOrdersType
<1>2. CASE MayAsk(s) /\ o \in {[p EXCEPT !.second = ad_turn_on(SECOND, d, Door(s)) \o @] :
                                 p \in cmd_add_cid(d) \cup cmd_add_cid_to_all(s)}
  <2>1. PICK p \in cmd_add_cid(d) \cup cmd_add_cid_to_all(s) :
           o = [p EXCEPT !.second = ad_turn_on(SECOND, d, Door(s)) \o @]
    BY <1>2
  <2>2. p \in OrderSet
    BY <2>1, CardJobsType, PlainOrdersType
  <2>3. Door(s) \in 0..MaxDoors /\ d \in Slots /\ SECOND \in {FIRST, SECOND}
    <3>1. s.asked \in 0..MaxDoors
      BY DEF Sound
    <3> QED BY <1>2, <3>1 DEF Door, MayAsk
  <2>4. ad_turn_on(SECOND, d, Door(s)) \in Seq(QueuedCommand)
    BY <2>3, TurnOnType
  <2>5. p.second \in Seq(QueuedCommand)
    BY <2>2 DEF OrderSet
  <2>6. ad_turn_on(SECOND, d, Door(s)) \o p.second \in Seq(QueuedCommand)
    BY <2>4, <2>5, JoinType
  <2>7. o = [p EXCEPT !.second = ad_turn_on(SECOND, d, Door(s)) \o p.second]
    BY <2>1
  <2>8. o \in OrderSet
    <3> DEFINE q == ad_turn_on(SECOND, d, Door(s)) \o p.second
    <3>1. q \in Seq(QueuedCommand) /\ o = [p EXCEPT !.second = q]
      BY <2>6, <2>7
    <3> HIDE DEF q
    <3> QED BY <2>2, <3>1 DEF OrderSet
  <2> QED BY <1>2, <2>8
<1> QED BY <1>1, <1>2 DEF CardOrders

LEMMA CardSeenType ==
    ASSUME NEW s \in Sound, NEW d \in Slots, NEW t \in CardSeen(s, d)
    PROVE  t \in Sound /\ t.run = s.run /\ t.open = s.open /\ t.armed = s.armed
<1>1. CASE t = s
  BY <1>1
<1>2. CASE t # s
  <2>1. PICK o \in CardOrders(s, d) : t = Enqueue(IF OpensDoor(o) THEN Ask(s, FALSE) ELSE s, o)
    BY <1>2 DEF CardSeen
  <2>2. o \in OrderSet /\ (OpensDoor(o) => MayAsk(s))
    BY <2>1, CardOrdersType
  <2>3. CASE OpensDoor(o)
    <3>1. Ask(s, FALSE) \in Sound /\ Ask(s, FALSE).run = s.run
          /\ Ask(s, FALSE).open = s.open /\ Ask(s, FALSE).armed = s.armed
      BY <2>2, <2>3, AskType
    <3>2. t = Enqueue(Ask(s, FALSE), o)
      BY <2>1, <2>3
    <3> QED BY <2>2, <3>1, <3>2, EnqueueType
  <2>4. CASE ~OpensDoor(o)
    BY <2>1, <2>2, <2>4, EnqueueType
  <2> QED BY <2>3, <2>4
<1> QED BY <1>1, <1>2
-----------------------------------------------------------------------------
(* The reply handlers *)

LEMMA KeptTrans ==
    ASSUME NEW s, NEW t, NEW u, Kept(s, t), Kept(t, u)
    PROVE  Kept(s, u)
  BY DEF Kept

LEMMA ReturnKept ==
    ASSUME NEW s \in Sound, NEW t \in Sound, NEW b \in BOOLEAN,
           t.run = s.run, t.open = s.open, t.armed = s.armed
    PROVE  Kept(s, Return(t, b))
<1>1. Return(t, b) \in Sound
  BY PortType
<1>2. /\ Return(t, b).run = t.run /\ Return(t, b).open = t.open
      /\ Return(t, b).armed = t.armed
  BY DEF Return, Sound
<1> QED BY <1>1, <1>2 DEF Kept, Wired

LEMMA MaySendReply ==
    ASSUME NEW s \in Sound, NEW d \in Slots
    PROVE  /\ s.send.handler = "poll" => MaySend(s, PollRegs(d))
           /\ s.send.handler = "log" => MaySend(s, LogData(d)) /\ MaySend(s, LogDone(d))
<1>1. /\ PollRegs(d) = [queue |-> SHORT, dev |-> d, target |-> "GET_REGS",
                        handler |-> "none", door |-> 0]
      /\ LogData(d) = [queue |-> SHORT, dev |-> d, target |-> "GET_BUFF_DATA",
                       handler |-> "none", door |-> 0]
      /\ LogDone(d) = [queue |-> SHORT, dev |-> d, target |-> "SET_BUFF_ADDR_DOWN",
                       handler |-> "none", door |-> 0]
  BY DEF PollRegs, LogData, LogDone, Plain
<1>2. PollRegs(d) \in Command /\ LogData(d) \in Command /\ LogDone(d) \in Command
  BY <1>1 DEF Command, Targets, Reading, Writing, Single, Handlers
<1>3. s.send.handler = "poll" => Fitting(Remember(s, PollRegs(d)).send)
  BY <1>1 DEF Remember, Sound, SendMess, Fitting, PollTargets, LogTargets, SHORT
<1>4. s.send.handler = "log" => Fitting(Remember(s, LogData(d)).send)
  BY <1>1 DEF Remember, Sound, SendMess, Fitting, PollTargets, LogTargets, SHORT
<1>5. s.send.handler = "log" => Fitting(Remember(s, LogDone(d)).send)
  BY <1>1 DEF Remember, Sound, SendMess, Fitting, PollTargets, LogTargets, SHORT
<1> QED BY <1>2, <1>3, <1>4, <1>5 DEF MaySend

LEMMA SendKept ==
    ASSUME NEW s \in Sound, NEW c, MaySend(s, c), NEW t \in gp_send(s, c)
    PROVE  Kept(s, t)
  BY SendType DEF Kept

LEMMA PollResultKept ==
    ASSUME NEW s \in Sound, s.send.handler = "poll", NEW a \in Answer,
           NEW t \in cb_get_poll_result(s, a)
    PROVE  Kept(s, t)
<1>1. a.src \in Slots
  BY DEF Answer
<1>2. CASE t \in gp_send(s, PollRegs(a.src))
  BY <1>1, <1>2, MaySendReply, SendKept
<1>3. CASE t \in {Return(u, TRUE) : u \in CardSeen(s, a.src)}
  <2>1. PICK u \in CardSeen(s, a.src) : t = Return(u, TRUE)
    BY <1>3
  <2>2. u \in Sound /\ u.run = s.run /\ u.open = s.open /\ u.armed = s.armed
    BY <1>1, <2>1, CardSeenType
  <2>3. Kept(s, Return(u, TRUE))
    BY <2>2, ReturnKept
  <2> QED BY <2>1, <2>3
<1>4. CASE t = Return(s, FALSE)
  BY <1>4, ReturnKept
<1> QED BY <1>2, <1>3, <1>4 DEF cb_get_poll_result

LEMMA LogReadKept ==
    ASSUME NEW s \in Sound, s.send.handler = "log", NEW a \in Answer,
           NEW t \in cb_log_read(s, a)
    PROVE  Kept(s, t)
<1>1. a.src \in Slots
  BY DEF Answer
<1>2. CASE t \in gp_send(s, LogData(a.src)) \cup gp_send(s, LogDone(a.src))
  BY <1>1, <1>2, MaySendReply, SendKept
<1>3. CASE t = Return(s, FALSE) \/ t = Return(s, TRUE)
  BY <1>3, ReturnKept
<1> QED BY <1>2, <1>3 DEF cb_log_read

LEMMA InputKept ==
    ASSUME NEW s \in Sound, NEW a \in Answer, NEW t \in process_port_input(s, a)
    PROVE  Kept(s, t)
<1>1. s.send.handler \in {"none", "poll", "log"}
  BY DEF Sound, SendMess, Handlers
<1>2. CASE s.send.handler = "none"
  BY <1>2, ReturnKept DEF process_port_input
<1>3. CASE s.send.handler = "poll"
  BY <1>3, PollResultKept DEF process_port_input
<1>4. CASE s.send.handler = "log"
  BY <1>4, LogReadKept DEF process_port_input
<1> QED BY <1>1, <1>2, <1>3, <1>4

LEMMA HandleKept ==
    ASSUME NEW s \in Sound, NEW a \in Answer, NEW t \in Handle(s, a)
    PROVE  Kept(s, t)
<1>1. a.kind \in {"refused", "ack", "data"}
  BY DEF Answer, AnswerKinds
<1>2. CASE t \in gp_put_cmd(s)
  BY <1>2, PutCmdType
<1>3. CASE \E u \in process_port_input(s, a) : t = u \/ t \in gp_put_cmd(u)
  <2>1. PICK u \in process_port_input(s, a) : t = u \/ t \in gp_put_cmd(u)
    BY <1>3
  <2>2. Kept(s, u) /\ u \in Sound
    BY <2>1, InputKept DEF Kept
  <2>3. t # u => Kept(u, t)
    BY <2>1, <2>2, PutCmdType
  <2> QED BY <2>2, <2>3, KeptTrans
<1>4. a.kind = "refused" => t \in gp_put_cmd(s)
  BY DEF Handle
<1>5. a.kind = "ack" => \E u \in process_port_input(s, a) : t \in gp_put_cmd(u)
  BY DEF Handle
<1>6. a.kind = "data" => \E u \in process_port_input(s, a) : t = u \/ t \in gp_put_cmd(u)
  <2> SUFFICES ASSUME a.kind = "data"
               PROVE  \E u \in process_port_input(s, a) : t = u \/ t \in gp_put_cmd(u)
    OBVIOUS
  <2>1. PICK u \in process_port_input(s, a) : t \in (IF u.done THEN {u} ELSE gp_put_cmd(u))
    BY DEF Handle
  <2> QED BY <2>1
<1> QED BY <1>1, <1>2, <1>3, <1>4, <1>5, <1>6
-----------------------------------------------------------------------------
(* The inductive invariant and the event handlers *)

IInv == Here \in Sound /\ Wired(Here)

LEMMA BecomeType ==
    ASSUME NEW s \in Sound, Wired(s), Become(s)
    PROVE  IInv' /\ run' = s.run /\ open' = s.open
  BY DEF Become, IInv, Here, Sound, Wired

LEMMA FiredType ==
    ASSUME IInv
    PROVE  /\ Fired \in Sound /\ Fired.run = run /\ Fired.open = open
           /\ Fired.send = send
  BY DEF IInv, Here, Sound, Fired

LEMMA ArmWired ==
    ASSUME NEW s \in Sound
    PROVE  /\ Arm(s) \in Sound /\ Wired(Arm(s)) /\ Arm(s).run = s.run
           /\ Arm(s).open = s.open /\ Arm(s).send = s.send
<1>1. /\ Arm(s).armed = s.open /\ Arm(s).open = s.open /\ Arm(s).run = s.run
      /\ Arm(s).send = s.send
  BY DEF Arm, Sound
<1> QED BY <1>1, PortType DEF Wired

LEMMA ExpireType ==
    ASSUME NEW s \in Sound
    PROVE  Expire(s) \in Sound /\ Expire(s).run = s.run /\ Expire(s).open = s.open
<1>1. CASE ~s.send.expected
  BY <1>1 DEF Expire
<1>2. CASE s.send.expected
  <2> DEFINE d == s.send.dev
             n == IF s.unit[d].timeouts > MaxTimeouts THEN s.unit[d].timeouts
                  ELSE s.unit[d].timeouts + 1
             v == [s.unit EXCEPT ![d] = [s.unit[d] EXCEPT !.timeouts = n]]
             m == [s.send EXCEPT !.expected = FALSE]
  <2>1. d \in Slots /\ s.unit \in [Slots -> Unit] /\ s.unit[d] \in Unit
    BY DEF Sound, SendMess
  <2>2. n \in 0..MaxTimeouts + 1
    BY <2>1 DEF Unit
  <2>3. v \in [Slots -> Unit]
    <3> HIDE DEF n, d
    <3> QED BY <2>1, <2>2 DEF Unit
  <2>4. m \in SendMess /\ Fitting(m)
    BY DEF Sound, SendMess, Fitting
  <2>5. Expire(s) = [s EXCEPT !.send = m, !.unit = v]
    BY <1>2 DEF Expire, Sound
  <2> HIDE DEF m, v
  <2> DEFINE t == [s EXCEPT !.send = m]
             u == [t EXCEPT !.unit = v]
  <2>6. t \in Sound /\ t.run = s.run /\ t.open = s.open
    BY <2>4 DEF Sound
  <2>7. Expire(s) = u
    BY <2>5 DEF Sound
  <2> HIDE DEF t
  <2>8. u \in Sound /\ u.run = t.run /\ u.open = t.open
    BY <2>3, <2>6 DEF Sound
  <2> HIDE DEF u
  <2> QED BY <2>6, <2>7, <2>8
<1> QED BY <1>1, <1>2

\* Every read starts from a sound state in which the event is wired.
LEMMA HeardType ==
    ASSUME IInv
    PROVE  /\ Heard \in Sound /\ Wired(Heard) /\ Heard.run = run /\ Heard.open = open
<1> DEFINE s == Arm(Fired)
           t == Introduce(s, send.dev)
           v == [t.unit EXCEPT ![send.dev] = [activ |-> TRUE, timeouts |-> 0, inited |-> TRUE]]
           m == [t.send EXCEPT !.expected = FALSE]
<1>1. s \in Sound /\ Wired(s) /\ s.run = run /\ s.open = open /\ s.send = send
  BY FiredType, ArmWired
<1>2. send.dev \in Slots
  BY <1>1 DEF Sound, SendMess
<1> HIDE DEF s
<1>3. /\ t \in Sound /\ t.run = s.run /\ t.open = s.open /\ t.armed = s.armed
      /\ t.send = s.send
  BY <1>1, <1>2, DevInitType, PlainOrdersType, EnqueueType DEF Introduce
<1>4. Heard = [t EXCEPT !.send = m, !.unit = v]
  BY <1>3 DEF Heard, s, Sound
<1> HIDE DEF t
<1>5. [activ |-> TRUE, timeouts |-> 0, inited |-> TRUE] \in Unit
  BY DEF Unit
<1>6. v \in [Slots -> Unit]
  BY <1>2, <1>3, <1>5 DEF Sound
<1>7. m \in SendMess /\ Fitting(m)
  BY <1>3 DEF Sound, SendMess, Fitting
<1> HIDE DEF m, v
<1> QED BY <1>1, <1>3, <1>4, <1>6, <1>7 DEF Sound, Wired

LEMMA GotType ==
    ASSUME IInv, NEW n \in Chunks
    PROVE  /\ Got(n) \in Seq(HonestPart)
           /\ \A k \in 1..Len(Got(n)) : Got(n)[k].ans \in Answer /\ Honest(Got(n)[k].ans)
           /\ SubSeq(line, n + 1, Len(line)) \in Seq(HonestPart)
<1>1. line \in Seq(HonestPart) /\ rx \in Seq(HonestPart)
  BY DEF IInv, Here, Sound
<1>2. n \in 1..Len(line) /\ Len(line) \in Nat
  BY <1>1, LenProperties DEF Chunks
<1>3. SubSeq(line, 1, n) \in Seq(HonestPart)
  BY <1>1, <1>2, SubSeqProperties
<1>4. SubSeq(line, n + 1, Len(line)) \in Seq(HonestPart)
  BY <1>1, <1>2, SubSeqProperties
<1>5. Got(n) \in Seq(HonestPart)
  BY <1>1, <1>3, JoinType DEF Got
<1>6. \A k \in 1..Len(Got(n)) : Got(n)[k] \in HonestPart
  BY <1>5, ElementOfSeq
<1> QED BY <1>4, <1>5, <1>6 DEF HonestPart, Part

LEMMA TakenType ==
    ASSUME IInv, NEW n \in Chunks
    PROVE  /\ Taken(n) \in Sound /\ Wired(Taken(n)) /\ Taken(n).run = run
           /\ Taken(n).open = open
<1> DEFINE l == SubSeq(line, n + 1, Len(line))
           h == Heard
<1>1. l \in Seq(HonestPart) /\ << >> \in Seq(HonestPart)
  BY GotType, EmptySeq
<1>2. h \in Sound /\ Wired(h) /\ h.run = run /\ h.open = open
  BY HeardType
<1>3. Taken(n) = [h EXCEPT !.line = l, !.rx = << >>]
  BY DEF Taken
<1> HIDE DEF l, h
<1> DEFINE t == [h EXCEPT !.line = l]
           u == [t EXCEPT !.rx = << >>]
<1>4. t \in Sound /\ t.run = h.run /\ t.open = h.open /\ t.armed = h.armed
  BY <1>1, <1>2 DEF Sound
<1>5. Taken(n) = u
  BY <1>3, <1>2 DEF Sound
<1> HIDE DEF t
<1>6. u \in Sound /\ u.run = t.run /\ u.open = t.open /\ u.armed = t.armed
  BY <1>1, <1>4 DEF Sound
<1> HIDE DEF u
<1> QED BY <1>2, <1>4, <1>5, <1>6 DEF Wired
-----------------------------------------------------------------------------
(* One lemma per action: the invariant is kept, and the process goes on     *)
(* unless a write or a read fails.                                          *)

Reliable == "write" \notin Faults /\ "read" \notin Faults

LEMMA ReadyOpen ==
    ASSUME IInv, Ready
    PROVE  run = TRUE /\ open = TRUE
  BY DEF IInv, Ready, Here, Wired, Sound

LEMMA InitType == Init => IInv
<1> SUFFICES ASSUME Init PROVE IInv
  OBVIOUS
<1>1. /\ first \in Seq(QueuedCommand) /\ second \in Seq(QueuedCommand)
      /\ line \in Seq(HonestPart) /\ rx \in Seq(HonestPart)
  BY EmptySeq DEF Init
<1>2. send \in SendMess /\ Fitting(send)
  BY DEF Init, SendMess, Slots, Handlers, Fitting
<1>3. unit \in [Slots -> Unit]
  BY DEF Init, Unit
<1>4. idle \in Slots /\ asked \in 0..MaxDoors
  <2>1. idle = 0 /\ asked = 0
    BY DEF Init
  <2> QED BY <2>1 DEF Slots
<1>7. fresh \in BOOLEAN
  BY DEF Init
<1>6. urgent \in SUBSET Doors /\ opens \in [Doors -> 0..2]
  <2>1. urgent = {} /\ opens = [n \in Doors |-> 0]
    BY DEF Init
  <2> QED BY <2>1
<1>5. open \in BOOLEAN /\ armed = open /\ run = TRUE
  BY DEF Init
<1> QED BY <1>1, <1>2, <1>3, <1>4, <1>5, <1>6, <1>7 DEF IInv, Here, Sound, Wired

LEMMA TimeoutEarlyStep ==
    ASSUME IInv, TimeoutEarly
    PROVE  IInv' /\ run'
<1>1. PICK s \in Touch(Fired) : Become(Arm(s))
  BY DEF TimeoutEarly
<1>2. s \in Sound /\ s.run = run
  BY <1>1, FiredType, PortType
<1>3. Arm(s) \in Sound /\ Wired(Arm(s)) /\ Arm(s).run = run
  BY <1>2, ArmWired
<1>4. run = TRUE
  BY ReadyOpen DEF TimeoutEarly
<1>5. IInv' /\ run' = TRUE
  BY <1>1, <1>3, <1>4, BecomeType
<1> QED BY <1>5

LEMMA TimeoutDueStep ==
    ASSUME IInv, TimeoutDue
    PROVE  IInv' /\ (Reliable => run')
<1>0. run = TRUE /\ open = TRUE
  BY ReadyOpen DEF TimeoutDue
<1>a. PICK s \in Touch(Fired) : \E t \in gp_put_cmd(Expire(s)) :
         \/ t.done /\ Become(t)
         \/ ~t.done /\ \E u \in gp_send_idle(t) : Become(IF u.done THEN u ELSE Arm(u))
  BY DEF TimeoutDue
<1>1. PICK t \in gp_put_cmd(Expire(s)) :
         \/ t.done /\ Become(t)
         \/ ~t.done /\ \E u \in gp_send_idle(t) : Become(IF u.done THEN u ELSE Arm(u))
  BY <1>a
<1>2. s \in Sound /\ s.run = run /\ s.open = open
  BY <1>a, FiredType, PortType
<1> DEFINE e == Expire(s)
<1>3. e \in Sound /\ e.run = TRUE /\ e.open = TRUE
  BY <1>0, <1>2, ExpireType
<1>4. Kept(e, t) /\ (t.done => Wired(t))
  BY <1>1, <1>3, PutCmdType
<1>5. t \in Sound /\ (Reliable => t.open /\ t.run)
  BY <1>3, <1>4 DEF Kept, Reliable
<1>6. CASE t.done /\ Become(t)
  BY <1>4, <1>5, <1>6, BecomeType
<1>7. CASE ~t.done /\ \E u \in gp_send_idle(t) : Become(IF u.done THEN u ELSE Arm(u))
  <2>1. PICK u \in gp_send_idle(t) : Become(IF u.done THEN u ELSE Arm(u))
    BY <1>7
  <2>2. Kept(t, u) /\ (t.run /\ u.done => Wired(u))
    BY <1>5, <2>1, SendIdleType
  <2>3. u \in Sound /\ (Reliable => u.run)
    BY <1>5, <2>2 DEF Kept, Reliable
  <2>4. CASE u.done
    <3>1. Wired(u)
      <4>1. CASE t.run
        BY <2>2, <2>4, <4>1
      <4>2. CASE ~t.run
        BY <1>7, <2>1, <2>4, <4>2 DEF gp_send_idle
      <4> QED BY <4>1, <4>2
    <3> QED BY <2>1, <2>3, <2>4, <3>1, BecomeType
  <2>5. CASE ~u.done
    BY <2>1, <2>3, <2>5, ArmWired, BecomeType
  <2> QED BY <2>4, <2>5
<1> QED BY <1>1, <1>6, <1>7

\* Closing the port takes the event out of the loop as well.
LEMMA CloseWired ==
    ASSUME NEW s \in Sound
    PROVE  gp_close(s) \in Sound /\ Wired(gp_close(s)) /\ gp_close(s).run = s.run
<1>1. gp_close(s).run = s.run /\ gp_close(s).open = FALSE /\ gp_close(s).armed = FALSE
  BY DEF gp_close, Sound
<1> QED BY <1>1, PortType DEF Wired

LEMMA ReadErrorStep ==
    ASSUME IInv, ReadError
    PROVE  IInv' /\ (Reliable => run')
<1>1. PICK s \in gp_put_cmd(gp_close(Heard)) : Become(s)
  BY DEF ReadError
<1>2. gp_close(Heard) \in Sound /\ Wired(gp_close(Heard))
  BY HeardType, CloseWired
<1>3. s \in Sound /\ Wired(s)
  BY <1>1, <1>2, PutCmdType DEF Kept
<1>4. ~Reliable
  BY DEF ReadError, Reliable
<1> QED BY <1>1, <1>3, <1>4, BecomeType

LEMMA ReadNothingStep ==
    ASSUME IInv, ReadNothing
    PROVE  IInv' /\ (Reliable => run')
<1>0. run = TRUE /\ open = TRUE
  BY ReadyOpen DEF ReadNothing
<1>1. PICK s \in gp_send(Heard, ResetNow(send.dev)) : Become(gp_close(s))
  BY DEF ReadNothing
<1>2. Heard \in Sound /\ Heard.run = TRUE /\ Heard.open = TRUE
  BY <1>0, HeardType
<1>3. MaySend(Heard, ResetNow(send.dev))
  BY <1>2, MaySendPoll DEF IInv, Here, Sound, SendMess
<1>4. Kept(Heard, s)
  BY <1>1, <1>2, <1>3, SendKept
<1>5. s \in Sound /\ (Reliable => s.run)
  BY <1>2, <1>4 DEF Kept, Reliable
<1>6. gp_close(s) \in Sound /\ Wired(gp_close(s)) /\ gp_close(s).run = s.run
  BY <1>5, CloseWired
<1> QED BY <1>1, <1>5, <1>6, BecomeType

LEMMA ReadNoInitStep ==
    ASSUME IInv, ReadNoInit
    PROVE  IInv' /\ run'
<1>0. run = TRUE
  BY ReadyOpen DEF ReadNoInit
<1>a. PICK n \in Chunks : \E s \in Touch(Taken(n)) : Become(s)
  BY DEF ReadNoInit
<1>1. PICK s \in Touch(Taken(n)) : Become(s)
  BY <1>a
<1>2. /\ Taken(n) \in Sound /\ Wired(Taken(n)) /\ Taken(n).run = run
  BY TakenType
<1>3. s \in Sound /\ s.run = run /\ s.armed = Taken(n).armed /\ s.open = Taken(n).open
  BY <1>1, <1>2, PortType
<1>4. Wired(s) /\ s.run = TRUE
  BY <1>0, <1>2, <1>3 DEF Wired
<1>5. IInv' /\ run' = TRUE
  BY <1>1, <1>3, <1>4, BecomeType
<1> QED BY <1>5

LEMMA ReadPartialStep ==
    ASSUME IInv, ReadPartial
    PROVE  IInv' /\ run'
<1>0. run = TRUE
  BY ReadyOpen DEF ReadPartial
<1>1. PICK n \in Chunks : Become([Taken(n) EXCEPT !.rx = Got(n)])
  BY DEF ReadPartial
<1> DEFINE s == Taken(n)
           r == Got(n)
<1>2. s \in Sound /\ Wired(s) /\ s.run = TRUE /\ r \in Seq(HonestPart)
  BY <1>0, TakenType, GotType
<1> HIDE DEF s, r
<1>3. /\ [s EXCEPT !.rx = r] \in Sound /\ Wired([s EXCEPT !.rx = r])
      /\ [s EXCEPT !.rx = r].run = TRUE
  BY <1>2 DEF Sound, Wired
<1> QED BY <1>1, <1>3, BecomeType DEF s, r

LEMMA ReadBadFrameStep ==
    ASSUME IInv, ReadBadFrame
    PROVE  IInv' /\ run'
<1>0. run = TRUE
  BY ReadyOpen DEF ReadBadFrame
<1>1. PICK n \in Chunks : Become(Taken(n))
  BY DEF ReadBadFrame
<1> QED BY <1>0, <1>1, TakenType, BecomeType

LEMMA ReadAnswerStep ==
    ASSUME IInv, ReadAnswer
    PROVE  IInv' /\ (Reliable => run')
<1>0. run = TRUE /\ open = TRUE
  BY ReadyOpen DEF ReadAnswer
<1>a. PICK n \in Chunks : \E k \in 1..Len(Got(n)) :
         \E s \in Handle(Taken(n), Got(n)[k].ans) : Become(s)
  BY DEF ReadAnswer
<1>1. PICK k \in 1..Len(Got(n)) :
         \E s \in Handle(Taken(n), Got(n)[k].ans) : Become(s)
  BY <1>a
<1>2. PICK s \in Handle(Taken(n), Got(n)[k].ans) : Become(s)
  BY <1>1
<1>3. Got(n)[k].ans \in Answer
  BY <1>1, GotType
<1>4. /\ Taken(n) \in Sound /\ Wired(Taken(n))
      /\ Taken(n).run = TRUE /\ Taken(n).open = TRUE
  BY <1>0, TakenType
<1>5. Kept(Taken(n), s)
  BY <1>2, <1>3, <1>4, HandleKept
<1>6. s \in Sound /\ Wired(s) /\ (Reliable => s.run)
  BY <1>4, <1>5 DEF Kept, Reliable
<1> QED BY <1>2, <1>6, BecomeType
LEMMA EnqueueStep ==
    ASSUME IInv, NEW s \in Sound, s.run = run, s.open = open, s.armed = armed,
           NEW o \in OrderSet, Become(Enqueue(s, o))
    PROVE  IInv' /\ run' = run
<1>1. Enqueue(s, o) \in Sound /\ Wired(Enqueue(s, o)) /\ Enqueue(s, o).run = run
  BY EnqueueType DEF IInv, Here, Wired
<1> QED BY <1>1, BecomeType

LEMMA HereType ==
    ASSUME IInv
    PROVE  /\ Here \in Sound /\ Wired(Here) /\ Here.run = run /\ Here.open = open
           /\ Here.armed = armed
  BY DEF IInv, Here

LEMMA ScanDevStep ==
    ASSUME IInv, ScanDev
    PROVE  IInv' /\ run' = run
<1>1. PICK s \in Reopen(Here) :
         Become([s EXCEPT !.fresh = FALSE,
                          !.unit = [d \in Slots |->
                              IF d = 0 THEN @[d] ELSE [@[d] EXCEPT !.timeouts = 0]]])
  BY DEF ScanDev
<1>2. s \in Sound /\ Wired(s) /\ s.run = run
  BY <1>1, HereType, ReopenType
<1> DEFINE v == [d \in Slots |-> IF d = 0 THEN s.unit[d] ELSE [s.unit[d] EXCEPT !.timeouts = 0]]
           t == [s EXCEPT !.fresh = FALSE, !.unit = v]
<1>3. v \in [Slots -> Unit]
  <2>1. \A d \in Slots : s.unit[d] \in Unit
    BY <1>2 DEF Sound
  <2>2. \A u \in Unit : [u EXCEPT !.timeouts = 0] \in Unit
    BY DEF Unit
  <2> QED BY <2>1, <2>2
<1>4. Become(t)
  BY <1>1
<1> HIDE DEF v
<1>5. t \in Sound /\ Wired(t) /\ t.run = run
  BY <1>2, <1>3 DEF Sound, Wired
<1> HIDE DEF t
<1> QED BY <1>4, <1>5, BecomeType

LEMMA ActiveType ==
    ASSUME NEW s, NEW f \in InOrder(Active(s))
    PROVE  /\ f \in [1..Len(f) -> Slots] /\ Len(f) \in Nat
<1>1. Active(s) \in SUBSET (0..MaxDev) /\ MaxDev \in Nat
  BY DEF Active, Devices
<1>2. /\ f \in [1..Cardinality(Active(s)) -> Active(s)]
      /\ Cardinality(Active(s)) \in Nat /\ Len(f) = Cardinality(Active(s))
  BY <1>1, InOrderType
<1> QED BY <1>1, <1>2 DEF Slots

LEMMA LogOrdersType ==
    ASSUME NEW n \in Nat, NEW f \in [1..n -> Slots]
    PROVE  LogOrders(f) \in PlainOrders
<1> DEFINE c(d) == [Plain(SECOND, d, "GET_BUFF_ADDR") EXCEPT !.handler = "log"]
           q == [i \in 1..n |-> c(f[i])]
<1>1. \A d \in Slots : c(d) \in PlainCommand
  BY DEF PlainCommand, QueuedCommand, Command, Plain, Fitting, SHORT, FIRST, SECOND, Handlers,
         Targets, Reading, PollTargets, LogTargets
<1>2. \A d : ad_get_buff_addr(SECOND, d, "log")[1] = c(d)
  BY DEF ad_get_buff_addr, One
<1>3. LogOrders(f) = [first |-> << >>, second |-> q]
  BY <1>2 DEF LogOrders, Orders
<1> HIDE DEF c
<1>4. q \in [1..n -> PlainCommand]
  BY <1>1
<1>5. q \in Seq(PlainCommand)
  BY <1>4, SeqDef
<1> HIDE DEF q
<1> QED BY <1>3, <1>5, NoOrders DEF PlainOrders

LEMMA SchedOrdersType ==
    ASSUME NEW n \in Nat, NEW f \in [1..n -> Slots], Len(f) = n
    PROVE  SchedOrders(f) \in PlainOrders
<1> DEFINE c(d) == Plain(FIRST, d, "SET_SCHED")
           q == [i \in 1..2 * n |-> c(f[(i + 1) \div 2])]
<1>1. \A d \in Slots : c(d) \in PlainCommand
  BY PlainType DEF Targets, Writing
<1>2. \A d : ad_set_sched_rec(FIRST, d)[1] = c(d)
  BY DEF ad_set_sched_rec, Both
<1>3. SchedOrders(f) = [first |-> q, second |-> << >>]
  BY <1>2 DEF SchedOrders, Orders
<1> HIDE DEF c
<1>4. \A i \in 1..2 * n : (i + 1) \div 2 \in 1..n
  OBVIOUS
<1>5. q \in [1..2 * n -> PlainCommand]
  BY <1>1, <1>4
<1>6. q \in Seq(PlainCommand)
  BY <1>5, SeqDef
<1> HIDE DEF q
<1> QED BY <1>3, <1>6, NoOrders DEF PlainOrders

LEMMA ScanLogStep ==
    ASSUME IInv, ScanLog
    PROVE  IInv' /\ run' = run
<1>1. PICK f \in InOrder(Active(Here)) : Become(Enqueue(Here, LogOrders(f)))
  BY DEF ScanLog
<1>2. LogOrders(f) \in OrderSet
  BY <1>1, ActiveType, LogOrdersType, PlainOrdersType
<1> QED BY <1>1, <1>2, HereType, EnqueueStep

LEMMA MarkedType ==
    ASSUME NEW s \in Sound, NEW call, NEW d, NEW e
    PROVE  /\ Marked(s, call, d, e) \in Sound
           /\ Marked(s, call, d, e).run = s.run
           /\ Marked(s, call, d, e).open = s.open
           /\ Marked(s, call, d, e).armed = s.armed
<1> DEFINE v == [c \in Slots |->
                   CASE c = d -> [s.unit[c] EXCEPT !.activ = FALSE]
                     [] c = e /\ c # d -> [s.unit[c] EXCEPT !.activ = TRUE]
                     [] OTHER -> s.unit[c]]
<1>1. v \in [Slots -> Unit]
  <2>1. \A c \in Slots : s.unit[c] \in Unit
    BY DEF Sound
  <2>2. \A u \in Unit, b \in BOOLEAN : [u EXCEPT !.activ = b] \in Unit
    BY DEF Unit
  <2>3. \A c \in Slots : v[c] \in Unit
    BY <2>1, <2>2
  <2> QED BY <2>3
<1> DEFINE w == [s EXCEPT !.unit = v]
<1> HIDE DEF v
<1>2. w \in Sound /\ w.run = s.run /\ w.open = s.open /\ w.armed = s.armed
  BY <1>1 DEF Sound
<1>3. Marked(s, call, d, e) \in {s, w}
  BY DEF Marked, v
<1> QED BY <1>2, <1>3

LEMMA CallStep ==
    ASSUME IInv, Call
    PROVE  IInv' /\ run' = run
<1>1. PICK call \in AppCalls \cap Calls, d \in Devices, e \in Devices :
         /\ call = "open" => MayAsk(Here)
         /\ Become(Enqueue(Marked(IF call = "open" THEN Ask(Here, TRUE) ELSE Here, call, d, e),
                           CallOrders(call, d, Door(Here))))
  BY DEF Call
<1> DEFINE s == IF call = "open" THEN Ask(Here, TRUE) ELSE Here
<1>2. s \in Sound /\ s.run = run /\ s.open = open /\ s.armed = armed
  BY <1>1, HereType, AskType
<1>6. Become(Enqueue(Marked(s, call, d, e), CallOrders(call, d, Door(Here))))
  BY <1>1
<1> HIDE DEF s
<1>3. /\ Marked(s, call, d, e) \in Sound /\ Marked(s, call, d, e).run = run
      /\ Marked(s, call, d, e).open = open /\ Marked(s, call, d, e).armed = armed
  BY <1>2, MarkedType
<1>4. Door(Here) \in Nat /\ (call = "open" => Door(Here) \in 0..MaxDoors)
  <2>1. Here.asked \in 0..MaxDoors
    BY HereType DEF Sound
  <2> QED BY <1>1, <2>1 DEF Door, MayAsk
<1>5. CallOrders(call, d, Door(Here)) \in OrderSet
  BY <1>4, CallOrdersType
<1> QED BY <1>3, <1>5, <1>6, EnqueueStep

LEMMA CallAllStep ==
    ASSUME IInv, CallAll
    PROVE  IInv' /\ run' = run
<1>1. PICK o \in {SchedOrders(f) : f \in InOrder(Active(Here))} \cup cmd_add_cid_to_all(Here) :
         Become(Enqueue(Here, o))
  BY DEF CallAll
<1>2. CASE o \in {SchedOrders(f) : f \in InOrder(Active(Here))}
  <2>1. PICK f \in InOrder(Active(Here)) : o = SchedOrders(f)
    BY <1>2
  <2>2. o \in OrderSet
    BY <2>1, ActiveType, SchedOrdersType, PlainOrdersType
  <2> QED BY <1>1, <2>2, HereType, EnqueueStep
<1>3. CASE o \in cmd_add_cid_to_all(Here)
  <2>1. 0 \in Slots
    BY DEF Slots
  <2>2. o \in OrderSet
    BY <1>3, <2>1, HereType, CardJobsType, PlainOrdersType
  <2> QED BY <1>1, <2>2, HereType, EnqueueStep
<1> QED BY <1>1, <1>2, <1>3

LEMMA LoseStep ==
    ASSUME IInv, Lose
    PROVE  IInv' /\ run' = run
<1>1. PICK i \in 1..Len(line) :
         line' = SubSeq(line, 1, i - 1) \o SubSeq(line, i + 1, Len(line))
  BY DEF Lose
<1>2. line \in Seq(HonestPart)
  BY DEF IInv, Here, Sound
<1>3. i \in Nat /\ Len(line) \in Nat /\ i <= Len(line) /\ i >= 1
  BY <1>1, <1>2, LenProperties
<1>4. SubSeq(line, 1, i - 1) \in Seq(HonestPart) /\ SubSeq(line, i + 1, Len(line)) \in Seq(HonestPart)
  BY <1>2, <1>3, SubSeqProperties, ElementOfSeq
<1>5. line' \in Seq(HonestPart)
  BY <1>1, <1>4, JoinType
<1>6. UNCHANGED <<first, second, send, open, armed, run, rx, unit, idle, fresh,
                  asked, urgent, opens>>
  BY DEF Lose, doorVars
<1> QED BY <1>5, <1>6 DEF IInv, Here, Sound, Wired

LEMMA StutterStep ==
    ASSUME IInv, UNCHANGED vars
    PROVE  IInv' /\ run' = run
  BY DEF IInv, Here, vars, Sound, Wired

-----------------------------------------------------------------------------
(* The theorems *)

LEMMA NextStep ==
    ASSUME IInv, [Next]_vars
    PROVE  IInv' /\ (Reliable /\ run => run')
<1>1. CASE PortEvent
  BY <1>1, TimeoutDueStep, ReadErrorStep, ReadNothingStep, ReadNoInitStep,
     ReadPartialStep, ReadBadFrameStep, ReadAnswerStep DEF PortEvent, Read
<1>2. CASE Rest
  BY <1>2, TimeoutEarlyStep, ScanDevStep, ScanLogStep, CallStep, CallAllStep,
     LoseStep, StutterStep DEF Rest, Exited
<1>3. CASE UNCHANGED vars
  BY <1>3, StutterStep
<1> QED BY <1>1, <1>2, <1>3 DEF Next

LEMMA SoundState == IInv => TypeOK
<1> SUFFICES ASSUME IInv PROVE Here \in State
  BY DEF TypeOK
<1>1. /\ first \in Seq(QueuedCommand) /\ second \in Seq(QueuedCommand)
      /\ QueuedCommand \subseteq Command
  BY DEF IInv, Here, Sound, QueuedCommand
<1>2. first \in Seq(Command) /\ second \in Seq(Command)
  BY <1>1, SeqMonotonic
<1>3. line \in Seq(Part) /\ rx \in Seq(Part)
  <2>1. line \in Seq(HonestPart) /\ rx \in Seq(HonestPart) /\ HonestPart \subseteq Part
    BY DEF IInv, Here, Sound, HonestPart
  <2> QED BY <2>1, SeqMonotonic
<1> QED BY <1>2, <1>3 DEF IInv, Here, Sound, State

\* IInv is an invariant of the bus master, whatever fails.
THEOREM Inductive == Spec => []IInv
<1>1. Init => IInv
  BY InitType
<1>2. IInv /\ [Next]_vars => IInv'
  BY NextStep
<1> QED BY <1>1, <1>2, PTL DEF Spec

\* The variables of the bus master always hold what the C objects can hold
\* (TypeOK), with any faults and any load on the queues.
THEOREM TypeCorrect == Spec => []TypeOK
  BY Inductive, SoundState, PTL

\* The event loop waits on the port exactly while it is open (ArmedIffOpen):
\* no path of gp_receiv, gp_reconnect or gp_resend leaves an open port that
\* nothing wakes, whichever reads and writes fail.
THEOREM Wiring == Spec => []ArmedIffOpen
<1>1. IInv => ArmedIffOpen
  BY DEF IInv, Wired, Here, ArmedIffOpen
<1> QED BY <1>1, Inductive, PTL

\* The handler gp_send keeps or sets always fits the command it sends
\* (HandlerFitsTarget): none is inherited from a command of another dialogue.
THEOREM HandlersFit == Spec => []HandlerFitsTarget
<1>1. IInv => HandlerFitsTarget
  BY DEF IInv, Sound, Here, HandlerFitsTarget
<1> QED BY <1>1, Inductive, PTL

\* exit() in gp_resend needs a failed write or a failed read: hang-ups, lost
\* answers, damaged frames and time-outs alone never reach it (NeverExits).
THEOREM Survives ==
    ASSUME Faults \cap {"write", "read"} = {}
    PROVE  Spec => []NeverExits
<1>1. Init => run
  BY DEF Init
<1>2. IInv /\ run /\ [Next]_vars => run'
  BY NextStep DEF Reliable
<1>3. run => NeverExits
  BY DEF NeverExits
<1> QED BY <1>1, <1>2, <1>3, Inductive, PTL DEF Spec
=============================================================================
