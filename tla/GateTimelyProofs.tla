-------------------------- MODULE GateTimelyProofs --------------------------
(***************************************************************************)
(* The half-duplex discipline of the bus master: while the controllers are *)
(* timely, the line carries at most one answer, the answer to the command  *)
(* in send_mess.  For any number of controllers and any load; writes may   *)
(* fail and the port may be lost with them.                                *)
(***************************************************************************)
EXTENDS GateBusProofs

Clear(s) == s.rx = << >> /\ s.line = << >>

\* The line and the buffer hold a, the answer to the command in send_mess.
Answered(s, a) ==
    /\ a.src = s.send.dev /\ a.code = CmdN[s.send.target] /\ Honest(a)
    /\ \/ s.rx = << >> /\ s.line = Framed(a)
       \/ s.rx = <<Framed(a)[1]>> /\ s.line = <<Framed(a)[2]>>

\* The inductive invariant: the line is empty, or one answer is on it.
InTurn(s) == Clear(s) \/ (s.open /\ \E a \in Answer : Answered(s, a))

\* What InTurn depends on, in two states.
SameLine(s, t) ==
    /\ t.rx = s.rx /\ t.line = s.line /\ t.open = s.open
    /\ t.send.dev = s.send.dev /\ t.send.target = s.send.target

LEMMA Lone ==
    ASSUME NEW S, NEW q \in Seq(S), Len(q) = 1
    PROVE  q = <<q[1]>>
<1>1. q[1] \in S
  OBVIOUS
<1>2. <<q[1]>> \in Seq(S) /\ Len(<<q[1]>>) = 1 /\ <<q[1]>>[1] = q[1]
  BY <1>1
<1>3. \A i \in 1..Len(q) : q[i] = <<q[1]>>[i]
  BY <1>2
<1> QED BY <1>2, <1>3, SeqEqual

\* The pieces that reads cut out of one answer.
LEMMA Halves ==
    ASSUME NEW S, NEW h \in S, NEW e \in S
    PROVE  /\ SubSeq(<<h, e>>, 1, 1) = <<h>> /\ SubSeq(<<h, e>>, 1, 2) = <<h, e>>
        /\ SubSeq(<<h, e>>, 2, 2) = <<e>> /\ SubSeq(<<h, e>>, 3, 2) = << >>
        /\ SubSeq(<<e>>, 1, 1) = <<e>> /\ SubSeq(<<e>>, 2, 1) = << >>
        /\ << >> \o <<h>> = <<h>> /\ <<h>> \o <<e>> = <<h, e>>
        /\ << >> \o <<h, e>> = <<h, e>>
<1>1. /\ <<h>> \in Seq(S) /\ <<e>> \in Seq(S) /\ <<h, e>> \in Seq(S)
      /\ Len(<<h>>) = 1 /\ Len(<<e>>) = 1 /\ Len(<<h, e>>) = 2
      /\ <<h>>[1] = h /\ <<e>>[1] = e /\ <<h, e>>[1] = h /\ <<h, e>>[2] = e
  OBVIOUS
<1>2. SubSeq(<<h, e>>, 3, 2) = << >> /\ SubSeq(<<e>>, 2, 1) = << >>
  BY SubSeqEmpty
<1>3. SubSeq(<<h, e>>, 1, 2) = <<h, e>> /\ SubSeq(<<e>>, 1, 1) = <<e>>
  BY <1>1, SubSeqFull
<1>4. << >> \o <<h>> = <<h>> /\ << >> \o <<h, e>> = <<h, e>>
  BY <1>1, ConcatEmptySeq
<1>5. <<h>> \o <<e>> = <<h, e>>
  <2> DEFINE p == <<h>>
             r == <<e>>
             q == p \o r
  <2>1. p \in Seq(S) /\ r \in Seq(S) /\ Len(p) = 1 /\ Len(r) = 1 /\ p[1] = h /\ r[1] = e
    BY <1>1
  <2> HIDE DEF p, r
  <2>2. q \in Seq(S) /\ Len(q) = 2 /\ q[1] = h /\ q[2] = e
    <3>1. /\ q \in Seq(S) /\ Len(q) = Len(p) + Len(r)
          /\ \A i \in 1..Len(p) + Len(r) : q[i] = IF i <= Len(p) THEN p[i] ELSE r[i - Len(p)]
      BY <2>1, ConcatProperties
    <3> HIDE DEF q
    <3>2. /\ q \in Seq(S) /\ Len(q) = 2
          /\ \A i \in 1..2 : q[i] = IF i <= 1 THEN p[i] ELSE r[i - 1]
      BY <2>1, <3>1
    <3> QED BY <2>1, <3>2
  <2> HIDE DEF q
  <2>3. \A i \in 1..Len(q) : q[i] = <<h, e>>[i]
    BY <1>1, <2>2
  <2> DEFINE w == <<h, e>>
  <2>4. w \in Seq(S) /\ Len(w) = Len(q) /\ \A i \in 1..Len(q) : q[i] = w[i]
    BY <1>1, <2>2, <2>3
  <2> HIDE DEF w
  <2>5. q = w
    BY <2>2, <2>4, SeqEqual
  <2> QED BY <2>5 DEF p, q, r, w
<1>6. SubSeq(<<h, e>>, 1, 1) = <<h>>
  <2> DEFINE p == <<h, e>>
             q == SubSeq(p, 1, 1)
  <2>1. q \in Seq(S) /\ Len(q) = 1 /\ q[1] = h
    <3>1. \A i \in 1..1 : p[i] \in S
      BY <1>1
    <3> HIDE DEF p
    <3>2. q \in Seq(S) /\ Len(q) = 1 /\ q[1] = p[1]
      BY <3>1, SubSeqProperties
    <3> QED BY <1>1, <3>2 DEF p
  <2> HIDE DEF p, q
  <2> QED BY <2>1, Lone DEF p, q
<1>7. SubSeq(<<h, e>>, 2, 2) = <<e>>
  <2> DEFINE p == <<h, e>>
             q == SubSeq(p, 2, 2)
  <2>1. q \in Seq(S) /\ Len(q) = 1 /\ q[1] = e
    <3>1. \A i \in 2..2 : p[i] \in S
      BY <1>1
    <3> HIDE DEF p
    <3>2. q \in Seq(S) /\ Len(q) = 1 /\ q[1] = p[2]
      BY <3>1, SubSeqProperties
    <3> QED BY <1>1, <3>2 DEF p
  <2> HIDE DEF p, q
  <2> QED BY <2>1, Lone DEF p, q
<1> QED BY <1>2, <1>3, <1>4, <1>5, <1>6, <1>7

USE CommandsAssumption, BusAssumption

LEMMA SameLineInTurn ==
    ASSUME NEW s, NEW t, SameLine(s, t), InTurn(s)
    PROVE  InTurn(t)
  BY DEF SameLine, InTurn, Clear, Answered

LEMMA BecomeInTurn ==
    ASSUME NEW s \in Sound, InTurn(s), Become(s)
    PROVE  InTurn(Here)'
<1>1. /\ Here'.rx = s.rx /\ Here'.line = s.line /\ Here'.open = s.open
      /\ Here'.send = s.send
  BY DEF Become, Here
<1> QED BY <1>1 DEF InTurn, Clear, Answered

-----------------------------------------------------------------------------
(* The functions that send *)

\* A command sent on a clear line leaves at most its own answer there, and
\* nothing when the write failed.
LEMMA SendInTurn ==
    ASSUME NEW s \in Sound, Clear(s), NEW c, MaySend(s, c), NEW t \in gp_send(s, c)
    PROVE  InTurn(t) /\ (~t.done => Clear(t))
<1> DEFINE r == Remember(s, c)
<1>0. c \in Command
  BY DEF MaySend
<1>1. /\ r \in Sound /\ Clear(r)
      /\ r.send.dev = c.dev /\ r.send.target = c.target
  BY <1>0 DEF MaySend, Remember, Sound, SendMess, Command, Clear
<1>2. t \in gp_resend(r, c)
  BY DEF gp_send
<1> HIDE DEF r
<1>3. CASE ~r.open
  BY <1>1, <1>2, <1>3 DEF gp_resend, Sound, Clear, InTurn
<1>4. CASE r.open /\ t \in {Return(Arm(r), FALSE), Return(gp_close(r), FALSE)}
  <2>1. CASE t = Return(Arm(r), FALSE)
    BY <1>1, <2>1 DEF Return, Arm, Sound, Clear, InTurn
  <2>2. CASE t = Return(gp_close(r), FALSE)
    BY <1>1, <2>2 DEF Return, gp_close, Sound, Clear, InTurn
  <2> QED BY <1>4, <2>1, <2>2
<1>5. CASE r.open /\ t \in {Return([Count(Arm(r), c.door) EXCEPT !.line = @ \o p], TRUE) :
                               p \in Replies(r, c)}
  <2> DEFINE u == Count(Arm(r), c.door)
  <2>1. PICK p \in Replies(r, c) : t = Return([u EXCEPT !.line = @ \o p], TRUE)
    BY <1>5
  <2>2. Arm(r) \in Sound /\ c.door \in 0..MaxDoors
    BY <1>0, <1>1, PortType DEF Command
  <2>3. u \in Sound
    BY <2>2, CountType
  <2>4. SameLine(r, Arm(r)) /\ Arm(r).send = r.send
    BY <1>1 DEF SameLine, Arm, Sound
  <2>5. SameLine(Arm(r), u) /\ u.send = Arm(r).send
    BY <2>2 DEF SameLine, Count, Sound
  <2>6. u.line = << >> /\ u.rx = << >> /\ u.open /\ u.send = r.send
    BY <1>1, <1>5, <2>4, <2>5 DEF SameLine, Clear
  <2> HIDE DEF u
  <2>7. p \in Seq(HonestPart)
    BY <1>0, <1>1, <2>1, RepliesType
  <2>8. << >> \o p = p
    BY <2>7, ConcatEmptySeq
  <2>9. /\ t.line = p /\ t.rx = << >> /\ t.open = TRUE /\ t.done = TRUE
        /\ t.send = r.send
    BY <2>1, <2>3, <2>6, <2>8 DEF Return, Sound
  <2>10. CASE p = << >>
    BY <2>9, <2>10 DEF InTurn, Clear
  <2>11. CASE p # << >>
    <3>1. PICK a \in {AnswerTo(c), [AnswerTo(c) EXCEPT !.kind = "refused"]} : p = Framed(a)
      BY <2>1, <2>11 DEF Replies
    <3>2. a \in Answer /\ a.src = c.dev /\ a.code = CmdN[c.target] /\ Honest(a)
      BY <1>0, <3>1, AnswerHonest
    <3>3. Answered(t, a)
      BY <1>1, <2>9, <3>1, <3>2 DEF Answered
    <3> QED BY <2>9, <3>2, <3>3 DEF InTurn
  <2> QED BY <2>10, <2>11
<1>6. r.open => \/ t \in {Return([Count(Arm(r), c.door) EXCEPT !.line = @ \o p], TRUE) :
                               p \in Replies(r, c)}
                \/ t \in {Return(Arm(r), FALSE), Return(gp_close(r), FALSE)}
  BY <1>2 DEF gp_resend
<1> QED BY <1>3, <1>4, <1>5, <1>6

LEMMA PutCmdInTurn ==
    ASSUME NEW s \in Sound, Clear(s), NEW t \in gp_put_cmd(s)
    PROVE  InTurn(t) /\ (~t.done => Clear(t))
<1>1. CASE ~s.run
  BY <1>1 DEF gp_put_cmd, InTurn
<1>2. CASE s.run /\ s.first # << >>
  <2> DEFINE u == [s EXCEPT !.first = Tail(@)]
  <2>1. s.first \in Seq(QueuedCommand)
    BY DEF Sound
  <2>2. Head(s.first) \in QueuedCommand /\ Tail(s.first) \in Seq(QueuedCommand)
    BY <1>2, <2>1, HeadTailProperties
  <2>3. u \in Sound /\ Clear(u)
    BY <2>2 DEF Sound, Clear
  <2>4. t \in gp_send(u, Head(s.first))
    BY <1>2 DEF gp_put_cmd
  <2> HIDE DEF u
  <2> QED BY <2>2, <2>3, <2>4, MaySendQueued, SendInTurn
<1>3. CASE s.run /\ s.first = << >> /\ s.second # << >>
  <2> DEFINE u == [s EXCEPT !.second = Tail(@)]
  <2>1. s.second \in Seq(QueuedCommand)
    BY DEF Sound
  <2>2. Head(s.second) \in QueuedCommand /\ Tail(s.second) \in Seq(QueuedCommand)
    BY <1>3, <2>1, HeadTailProperties
  <2>3. u \in Sound /\ Clear(u)
    BY <2>2 DEF Sound, Clear
  <2>4. t \in gp_send(u, Head(s.second))
    BY <1>3 DEF gp_put_cmd
  <2> HIDE DEF u
  <2> QED BY <2>2, <2>3, <2>4, MaySendQueued, SendInTurn
<1>4. CASE s.run /\ s.first = << >> /\ s.second = << >>
  BY <1>4 DEF gp_put_cmd, Return, Sound, Clear, InTurn
<1> QED BY <1>1, <1>2, <1>3, <1>4 DEF Sound

LEMMA SendIdleInTurn ==
    ASSUME NEW s \in Sound, Clear(s), NEW t \in gp_send_idle(s)
    PROVE  InTurn(t) /\ t \in Sound
<1>0. t \in Sound
  BY SendIdleType DEF Kept
<1>1. CASE ~s.run
  BY <1>0, <1>1 DEF gp_send_idle, InTurn
<1>2. CASE s.run /\ Ahead(s) = {}
  <2>1. t = Return(Skip(s, MaxDev + 1), FALSE)
    BY <1>2 DEF gp_send_idle
  <2>2. Clear(t)
    BY <2>1 DEF Return, Skip, Sound, Clear
  <2> QED BY <1>0, <2>2 DEF InTurn
<1>3. CASE s.run /\ Ahead(s) # {}
  <2>1. PICK d \in Turn(s) : t \in gp_send(Skip(s, d), PollCid(d))
    BY <1>3 DEF gp_send_idle
  <2>2. d \in Slots /\ d \in 0..MaxDev + 1
    BY DEF Turn, Ahead, Devices, Slots
  <2>3. Skip(s, d) \in Sound /\ Clear(Skip(s, d))
    BY <2>2, SkipType DEF Skip, Sound, Clear
  <2> QED BY <1>0, <2>1, <2>2, <2>3, MaySendPoll, SendInTurn
<1> QED BY <1>1, <1>2, <1>3 DEF Sound

-----------------------------------------------------------------------------
(* The reply handlers *)

\* CardSeen puts commands into the queues; it does not touch the line.
LEMMA CardSeenClear ==
    ASSUME NEW s \in Sound, Clear(s), NEW d \in Slots, NEW t \in CardSeen(s, d)
    PROVE  t \in Sound /\ Clear(t)
<1>1. t \in Sound
  BY CardSeenType
<1>2. CASE t = s
  BY <1>1, <1>2
<1>3. CASE t # s
  <2>1. PICK o \in CardOrders(s, d) : t = Enqueue(IF OpensDoor(o) THEN Ask(s, FALSE) ELSE s, o)
    BY <1>3 DEF CardSeen
  <2>2. t.line = s.line /\ t.rx = s.rx
    <3>1. CASE OpensDoor(o)
      <4>1. t = Enqueue(Ask(s, FALSE), o)
        BY <2>1, <3>1
      <4>2. OpensDoor(o) => MayAsk(s)
        BY <2>1, CardOrdersType
      <4>3. Ask(s, FALSE).line = s.line /\ Ask(s, FALSE).rx = s.rx
        BY DEF Ask, Sound
      <4>4. Ask(s, FALSE) \in Sound
        BY <3>1, <4>2, AskType
      <4> QED BY <4>1, <4>3, <4>4 DEF Enqueue, Sound
    <3>2. CASE ~OpensDoor(o)
      BY <2>1, <3>2 DEF Enqueue, Sound
    <3> QED BY <3>1, <3>2
  <2> QED BY <1>1, <2>2 DEF Clear
<1> QED BY <1>2, <1>3

\* A handler that was given data sends at most once, and when it has not sent
\* it leaves the line clear.
LEMMA InputInTurn ==
    ASSUME NEW s \in Sound, Clear(s), NEW a \in Answer,
           NEW t \in process_port_input(s, a)
    PROVE  InTurn(t) /\ (~t.done => Clear(t)) /\ t \in Sound
<1>0. t \in Sound /\ a.src \in Slots
  BY InputKept DEF Kept, Answer
<1>1. CASE \E b \in BOOLEAN : t = Return(s, b)
  BY <1>0, <1>1 DEF Return, Sound, Clear, InTurn
<1>2. CASE s.send.handler = "poll" /\ t \in gp_send(s, PollRegs(a.src))
  BY <1>0, <1>2, MaySendReply, SendInTurn
<1>3. CASE s.send.handler = "log" /\ t \in gp_send(s, LogData(a.src)) \cup gp_send(s, LogDone(a.src))
  BY <1>0, <1>3, MaySendReply, SendInTurn
<1>4. CASE \E u \in CardSeen(s, a.src) : t = Return(u, TRUE)
  <2>1. PICK u \in CardSeen(s, a.src) : t = Return(u, TRUE)
    BY <1>4
  <2>2. u \in Sound /\ Clear(u)
    BY <1>0, <2>1, CardSeenClear
  <2> QED BY <1>0, <2>1, <2>2 DEF Return, Sound, Clear, InTurn
<1>5. s.send.handler \in {"none", "poll", "log"}
  BY DEF Sound, SendMess, Handlers
<1>6. CASE s.send.handler = "none"
  BY <1>1, <1>6 DEF process_port_input
<1>7. CASE s.send.handler = "poll"
  <2>1. t \in cb_get_poll_result(s, a)
    BY <1>7 DEF process_port_input
  <2>2. \/ t \in gp_send(s, PollRegs(a.src))
        \/ \E u \in CardSeen(s, a.src) : t = Return(u, TRUE)
        \/ t = Return(s, FALSE)
    BY <2>1 DEF cb_get_poll_result
  <2> QED BY <1>1, <1>2, <1>4, <1>7, <2>2
<1>8. CASE s.send.handler = "log"
  <2>1. t \in cb_log_read(s, a)
    BY <1>8 DEF process_port_input
  <2>2. \/ t \in gp_send(s, LogData(a.src)) \cup gp_send(s, LogDone(a.src))
        \/ \E b \in BOOLEAN : t = Return(s, b)
    BY <2>1 DEF cb_log_read
  <2> QED BY <1>1, <1>3, <1>8, <2>2
<1> QED BY <1>5, <1>6, <1>7, <1>8

\* A handler that was given an acknowledgement never sends: gp_receiv puts the
\* next command afterwards whatever the handler returns.
LEMMA AckSendsNothing ==
    ASSUME NEW s \in Sound, Clear(s), NEW a \in Answer, a.kind = "ack", Honest(a),
           a.code = CmdN[s.send.target], NEW t \in process_port_input(s, a)
    PROVE  t \in Sound /\ Clear(t)
<1>0. t \in Sound
  BY InputKept DEF Kept
<1>1. CmdN["GET_BUFF_ADDR"] = 4 /\ CmdN["GET_BUFF_DATA"] = 4
  BY DEF CmdN, Targets, Reading, Writing, Single
<1>2. a.code # 4 /\ a.code # 6
  BY DEF Honest
<1>3. s.send.target \notin {"GET_BUFF_ADDR", "GET_BUFF_DATA"}
  BY <1>1, <1>2
<1>4. \E b \in BOOLEAN : t = Return(s, b)
  <2>1. s.send.handler \in {"none", "poll", "log"}
    BY DEF Sound, SendMess, Handlers
  <2>2. s.send.handler = "none" => t = Return(s, FALSE)
    BY DEF process_port_input
  <2>3. s.send.handler = "poll" => t = Return(s, FALSE)
    BY <1>2 DEF process_port_input, cb_get_poll_result
  <2>4. s.send.handler = "log" => t \in {Return(s, TRUE), Return(s, FALSE)}
    BY <1>3 DEF process_port_input, cb_log_read
  <2> QED BY <2>1, <2>2, <2>3, <2>4
<1> QED BY <1>0, <1>4 DEF Return, Sound, Clear

LEMMA HandleInTurn ==
    ASSUME NEW s \in Sound, Clear(s), NEW a \in Answer, Honest(a),
           a.code = CmdN[s.send.target], NEW t \in Handle(s, a)
    PROVE  InTurn(t) /\ t \in Sound
<1>0. t \in Sound
  BY HandleKept DEF Kept
<1>1. a.kind \in {"refused", "ack", "data"}
  BY DEF Answer, AnswerKinds
<1>2. CASE a.kind = "refused"
  <2>1. t \in gp_put_cmd(s)
    BY <1>2 DEF Handle
  <2> QED BY <1>0, <2>1, PutCmdInTurn
<1>3. CASE a.kind = "ack"
  <2>1. PICK u \in process_port_input(s, a) : t \in gp_put_cmd(u)
    BY <1>3 DEF Handle
  <2>2. u \in Sound /\ Clear(u)
    BY <1>3, <2>1, AckSendsNothing
  <2> QED BY <1>0, <2>1, <2>2, PutCmdInTurn
<1>4. CASE a.kind = "data"
  <2>1. PICK u \in process_port_input(s, a) : t \in (IF u.done THEN {u} ELSE gp_put_cmd(u))
    BY <1>4 DEF Handle
  <2>2. InTurn(u) /\ (~u.done => Clear(u)) /\ u \in Sound
    BY <2>1, InputInTurn
  <2>3. CASE u.done
    BY <1>0, <2>1, <2>2, <2>3
  <2>4. CASE ~u.done
    BY <1>0, <2>1, <2>2, <2>4, PutCmdInTurn
  <2> QED BY <2>3, <2>4
<1> QED BY <1>1, <1>2, <1>3, <1>4

-----------------------------------------------------------------------------
(* The event handlers *)

TInv == IInv /\ InTurn(Here)

LEMMA FiredSame == SameLine(Here, Fired)
  BY DEF SameLine, Here, Fired

\* Every read starts with the line as it was: what gp_receiv does before it
\* looks at a byte only fills the queues.
LEMMA HeardSame ==
    ASSUME IInv
    PROVE  SameLine(Here, Heard)
<1> DEFINE s == Arm(Fired)
           t == Introduce(s, send.dev)
<1>0. Fired \in Sound /\ SameLine(Here, Fired) /\ Fired.send = send
  BY FiredType, FiredSame
<1>1. s \in Sound /\ s.rx = rx /\ s.line = line /\ s.open = open /\ s.send = send
  <2> HIDE DEF s
  <2>1. s \in Sound /\ s.open = Fired.open /\ s.send = Fired.send
    BY <1>0, ArmWired DEF s
  <2>2. s.rx = Fired.rx /\ s.line = Fired.line
    BY <1>0 DEF s, Arm, Sound
  <2>3. Here.rx = rx /\ Here.line = line /\ Here.open = open
    BY DEF Here
  <2> QED BY <1>0, <2>1, <2>2, <2>3 DEF SameLine
<1> HIDE DEF s
<1>2. send.dev \in Slots
  BY DEF IInv, Here, Sound, SendMess
<1>3. t \in Sound /\ t.rx = rx /\ t.line = line /\ t.open = open /\ t.send = send
  BY <1>1, <1>2, DevInitType, PlainOrdersType, EnqueueType DEF Introduce, Enqueue, Sound
<1>4. Heard = [t EXCEPT !.send.expected = FALSE,
                        !.unit[send.dev] = [activ |-> TRUE, timeouts |-> 0, inited |-> TRUE]]
  BY DEF Heard, s
<1> HIDE DEF t
<1> DEFINE m == [t.send EXCEPT !.expected = FALSE]
           v == [t.unit EXCEPT ![send.dev] = [activ |-> TRUE, timeouts |-> 0, inited |-> TRUE]]
<1>5. Heard = [t EXCEPT !.send = m, !.unit = v]
  BY <1>3, <1>4 DEF Sound
<1>6. m.dev = send.dev /\ m.target = send.target
  BY <1>3 DEF Sound, SendMess
<1> HIDE DEF m, v
<1>7. Heard.rx = rx /\ Heard.line = line /\ Heard.open = open /\ Heard.send = m
  BY <1>3, <1>5 DEF Sound
<1> QED BY <1>6, <1>7 DEF SameLine, Here

LEMMA TakenSame ==
    ASSUME IInv, NEW n \in Chunks
    PROVE  /\ Taken(n).rx = << >> /\ Taken(n).line = SubSeq(line, n + 1, Len(line))
           /\ Taken(n).open = open /\ Taken(n).send.dev = send.dev
           /\ Taken(n).send.target = send.target
<1> DEFINE h == Heard
<1>1. SameLine(Here, h) /\ h \in Sound
  BY HeardSame, HeardType
<1>2. Taken(n) = [h EXCEPT !.line = SubSeq(line, n + 1, Len(line)), !.rx = << >>]
  BY DEF Taken
<1> HIDE DEF h
<1> QED BY <1>1, <1>2 DEF SameLine, Here, Sound

\* A read finds one answer, whole or only its head: never a piece of another.
LEMMA ChunkInTurn ==
    ASSUME TInv, NEW n \in Chunks
    PROVE  /\ open
           /\ \E a \in Answer :
                /\ a.src = send.dev /\ a.code = CmdN[send.target] /\ Honest(a)
                /\ \/ /\ Got(n) = <<Framed(a)[1]>>
                      /\ SubSeq(line, n + 1, Len(line)) = <<Framed(a)[2]>>
                   \/ /\ Got(n) = Framed(a)
                      /\ SubSeq(line, n + 1, Len(line)) = << >>
<1>1. line \in Seq(HonestPart) /\ rx \in Seq(HonestPart)
  BY DEF TInv, IInv, Here, Sound
<1>2. n \in 1..Len(line)
  BY DEF Chunks
<1>3. ~Clear(Here)
  BY <1>2 DEF Clear, Here
<1>4. open /\ \E a \in Answer : Answered(Here, a)
  BY <1>3 DEF TInv, InTurn, Here
<1>5. PICK a \in Answer : Answered(Here, a)
  BY <1>4
<1> DEFINE h == Framed(a)[1]
           e == Framed(a)[2]
<1>6. Framed(a) = <<h, e>>
  BY DEF Framed
<1>a. h \in Part /\ e \in Part
  BY DEF Framed, Part
<1> HIDE DEF h, e
<1>7. /\ a.src = send.dev /\ a.code = CmdN[send.target] /\ Honest(a)
      /\ \/ rx = << >> /\ line = <<h, e>>
         \/ rx = <<h>> /\ line = <<e>>
  BY <1>5, <1>6 DEF Answered, Here, h, e
<1>11. Len(<<h, e>>) = 2 /\ Len(<<e>>) = 1
  OBVIOUS
<1>12. /\ SubSeq(<<h, e>>, 1, 1) = <<h>> /\ SubSeq(<<h, e>>, 1, 2) = <<h, e>>
       /\ SubSeq(<<h, e>>, 2, 2) = <<e>> /\ SubSeq(<<h, e>>, 3, 2) = << >>
       /\ SubSeq(<<e>>, 1, 1) = <<e>> /\ SubSeq(<<e>>, 2, 1) = << >>
       /\ << >> \o <<h>> = <<h>> /\ <<h>> \o <<e>> = <<h, e>>
       /\ << >> \o <<h, e>> = <<h, e>>
  BY <1>a, Halves
<1>8. CASE rx = << >> /\ line = <<h, e>> /\ n = 1
  <2>1. Got(n) = <<h>> /\ SubSeq(line, n + 1, Len(line)) = <<e>>
    <3>1. n + 1 = 2
      BY <1>8
    <3> QED BY <1>8, <1>11, <1>12, <3>1 DEF Got
  <2> QED BY <1>4, <1>7, <2>1 DEF h, e
<1>9. CASE rx = << >> /\ line = <<h, e>> /\ n = 2
  <2>1. Got(n) = <<h, e>> /\ SubSeq(line, n + 1, Len(line)) = << >>
    <3>1. n + 1 = 3
      BY <1>9
    <3> QED BY <1>9, <1>11, <1>12, <3>1 DEF Got
  <2> QED BY <1>4, <1>6, <1>7, <2>1
<1>10. CASE rx = <<h>> /\ line = <<e>> /\ n = 1
  <2>1. Got(n) = <<h, e>> /\ SubSeq(line, n + 1, Len(line)) = << >>
    <3>1. n + 1 = 2
      BY <1>10
    <3>2. SubSeq(line, 1, n) = <<e>> /\ SubSeq(line, n + 1, Len(line)) = << >>
      BY <1>10, <1>11, <1>12, <3>1
    <3>3. Got(n) = <<h>> \o <<e>>
      BY <1>10, <3>2 DEF Got
    <3>4. Got(n) = <<h, e>>
      BY <1>12, <3>3, Zenon
    <3> QED BY <3>2, <3>4
  <2> QED BY <1>4, <1>6, <1>7, <2>1
<1>13. \/ rx = << >> /\ line = <<h, e>> /\ n \in {1, 2}
       \/ rx = <<h>> /\ line = <<e>> /\ n = 1
  <2>1. line = <<h, e>> => n \in {1, 2}
    BY <1>2, <1>11
  <2>2. line = <<e>> => n = 1
    BY <1>2, <1>11
  <2> QED BY <1>7, <2>1, <2>2
<1> QED BY <1>8, <1>9, <1>10, <1>13

\* The handlers that may not run while the line is in turn, as long as only
\* writes fail.
LEMMA NoStrayRead ==
    ASSUME TInv, Faults \subseteq {"write"}
    PROVE  ~ReadError /\ ~ReadNothing /\ ~ReadNoInit /\ ~ReadBadFrame /\ ~Lose
<1>1. ~ReadError /\ ~Lose
  BY DEF ReadError, Lose
<1>2. \A a \in Answer : /\ Framed(a)[1].half = "head" /\ Framed(a)[1].ans = a
                        /\ Framed(a)[2].half = "tail" /\ Framed(a)[2].ans = a
                        /\ Framed(a) = <<Framed(a)[1], Framed(a)[2]>>
  BY DEF Framed
<1>3. ~ReadNothing
  <2>1. line # << >> => Len(rx) \in {0, 1}
    BY DEF TInv, InTurn, Clear, Answered, Here
  <2>2. RxRoom \in Nat \ {0, 1}
    OBVIOUS
  <2> QED BY <2>1, <2>2 DEF ReadNothing
<1>4. ~ReadNoInit
  <2> SUFFICES ASSUME NEW n \in Chunks
               PROVE  Got(n)[1].half # "tail"
    BY DEF ReadNoInit
  <2>1. PICK a \in Answer : Got(n) = <<Framed(a)[1]>> \/ Got(n) = Framed(a)
    BY ChunkInTurn
  <2> QED BY <1>2, <2>1
<1>5. ~ReadBadFrame
  <2> SUFFICES ASSUME NEW n \in Chunks, NEW k \in 1..Len(Got(n)), EndsAt(Got(n), k)
               PROVE  Whole(Got(n), k) /\ Got(n)[k].ans.src = send.dev
    BY DEF ReadBadFrame
  <2>1. PICK a \in Answer : /\ a.src = send.dev
                            /\ Got(n) = <<Framed(a)[1]>> \/ Got(n) = Framed(a)
    BY ChunkInTurn
  <2>2. Got(n)[k].half = "tail"
    BY DEF EndsAt
  <2> DEFINE h == Framed(a)[1]
             e == Framed(a)[2]
  <2>3. h.half = "head" /\ h.ans = a /\ e.half = "tail" /\ e.ans = a
    BY <1>2
  <2>4. Got(n) = <<h>> \/ Got(n) = <<h, e>>
    BY <1>2, <2>1
  <2> HIDE DEF h, e
  <2>5. CASE Got(n) = <<h>>
    <3>1. k = 1
      BY <2>5
    <3> QED BY <2>2, <2>3, <2>5, <3>1
  <2>6. CASE Got(n) = <<h, e>>
    <3>1. k = 1 \/ k = 2
      BY <2>6
    <3>2. k = 2
      BY <2>2, <2>3, <2>6, <3>1
    <3> QED BY <2>1, <2>3, <2>6, <3>2 DEF Whole
  <2> QED BY <2>4, <2>5, <2>6
<1> QED BY <1>1, <1>3, <1>4, <1>5

LEMMA TouchSame ==
    ASSUME NEW s \in Sound, NEW t \in Touch(s)
    PROVE  SameLine(s, t)
<1>1. CASE t = s
  BY <1>1 DEF SameLine
<1>2. CASE t = [s EXCEPT !.fresh = TRUE]
  BY <1>2 DEF SameLine, Sound
<1> QED BY <1>1, <1>2 DEF Touch

LEMMA TimeoutEarlyInTurn ==
    ASSUME TInv, TimeoutEarly
    PROVE  InTurn(Here)'
<1>1. PICK s \in Touch(Fired) : Become(Arm(s))
  BY DEF TimeoutEarly
<1>2. Fired \in Sound /\ SameLine(Here, Fired)
  BY FiredType, FiredSame DEF TInv
<1>3. s \in Sound /\ SameLine(Fired, s)
  BY <1>1, <1>2, PortType, TouchSame
<1>4. Arm(s) \in Sound /\ SameLine(s, Arm(s))
  BY <1>3, PortType DEF Arm, SameLine, Sound
<1>5. InTurn(Arm(s))
  BY <1>2, <1>3, <1>4, SameLineInTurn DEF TInv
<1> QED BY <1>1, <1>4, <1>5, BecomeInTurn

LEMMA ExpireSame ==
    ASSUME NEW s \in Sound
    PROVE  Expire(s).rx = s.rx /\ Expire(s).line = s.line
  BY DEF Expire, Sound

\* A command is given up only while no answer waits: the next one starts on a
\* clear line.
LEMMA TimeoutDueInTurn ==
    ASSUME TInv, TimeoutDue, line = << >>
    PROVE  InTurn(Here)'
<1>a. PICK s \in Touch(Fired) : \E t \in gp_put_cmd(Expire(s)) :
         \/ t.done /\ Become(t)
         \/ ~t.done /\ \E u \in gp_send_idle(t) : Become(IF u.done THEN u ELSE Arm(u))
  BY DEF TimeoutDue
<1>1. PICK t \in gp_put_cmd(Expire(s)) :
         \/ t.done /\ Become(t)
         \/ ~t.done /\ \E u \in gp_send_idle(t) : Become(IF u.done THEN u ELSE Arm(u))
  BY <1>a
<1>2. Clear(Here)
  <2>1. \A a \in Answer : line # Framed(a) /\ line # <<Framed(a)[2]>>
    BY DEF Framed
  <2> QED BY <2>1 DEF TInv, InTurn, Answered, Here
<1>3. Fired \in Sound /\ Clear(Fired)
  BY <1>2, FiredType DEF Here, Fired, TInv, IInv, Sound, Clear
<1>4. s \in Sound /\ Clear(s)
  BY <1>a, <1>3, PortType DEF Touch, Clear, Sound
<1>5. Expire(s) \in Sound /\ Clear(Expire(s))
  BY <1>4, ExpireType, ExpireSame DEF Clear
<1>6. t \in Sound /\ InTurn(t) /\ (~t.done => Clear(t))
  BY <1>1, <1>5, PutCmdType, PutCmdInTurn DEF Kept
<1>7. CASE t.done /\ Become(t)
  BY <1>6, <1>7, BecomeInTurn
<1>8. CASE ~t.done /\ \E u \in gp_send_idle(t) : Become(IF u.done THEN u ELSE Arm(u))
  <2>1. PICK u \in gp_send_idle(t) : Become(IF u.done THEN u ELSE Arm(u))
    BY <1>8
  <2>2. u \in Sound /\ InTurn(u)
    BY <1>6, <1>8, <2>1, SendIdleInTurn
  <2>3. Arm(u) \in Sound /\ SameLine(u, Arm(u))
    BY <2>2, PortType DEF Arm, SameLine, Sound
  <2>4. InTurn(Arm(u))
    BY <2>2, <2>3, SameLineInTurn
  <2> QED BY <2>1, <2>2, <2>3, <2>4, BecomeInTurn
<1> QED BY <1>1, <1>7, <1>8

LEMMA ReadPartialInTurn ==
    ASSUME TInv, ReadPartial
    PROVE  InTurn(Here)'
<1>1. PICK n \in Chunks : /\ \A i \in 1..Len(Got(n)) : Got(n)[i].half = "head"
                          /\ Become([Taken(n) EXCEPT !.rx = Got(n)])
  BY DEF ReadPartial
<1>2. IInv
  BY DEF TInv
<1>3. Taken(n) \in Sound /\ Got(n) \in Seq(HonestPart)
  BY <1>2, TakenType, GotType
<1> DEFINE s == [Taken(n) EXCEPT !.rx = Got(n)]
<1>4. s \in Sound /\ s.rx = Got(n) /\ s.line = Taken(n).line /\ s.open = Taken(n).open
      /\ s.send = Taken(n).send
  BY <1>3 DEF Sound
<1>5. PICK a \in Answer :
        /\ a.src = send.dev /\ a.code = CmdN[send.target] /\ Honest(a)
        /\ \/ /\ Got(n) = <<Framed(a)[1]>>
              /\ SubSeq(line, n + 1, Len(line)) = <<Framed(a)[2]>>
           \/ /\ Got(n) = Framed(a)
              /\ SubSeq(line, n + 1, Len(line)) = << >>
  BY ChunkInTurn
<1>6. Framed(a)[2].half = "tail" /\ Len(Framed(a)) = 2
  BY DEF Framed
<1>7. Got(n) # Framed(a)
  BY <1>1, <1>6
<1>8. s.open /\ Answered(s, a)
  <2>1. /\ Taken(n).line = SubSeq(line, n + 1, Len(line)) /\ Taken(n).open = open
        /\ Taken(n).send.dev = send.dev /\ Taken(n).send.target = send.target
    BY <1>2, TakenSame
  <2>2. open
    BY ChunkInTurn
  <2> HIDE DEF s
  <2> QED BY <1>4, <1>5, <1>7, <2>1, <2>2 DEF Answered
<1>9. Become(s)
  BY <1>1
<1> HIDE DEF s
<1> QED BY <1>4, <1>8, <1>9, BecomeInTurn DEF InTurn

LEMMA ReadAnswerInTurn ==
    ASSUME TInv, ReadAnswer
    PROVE  InTurn(Here)'
<1>1. PICK n \in Chunks : \E k \in 1..Len(Got(n)) :
         /\ EndsAt(Got(n), k)
         /\ \E s \in Handle(Taken(n), Got(n)[k].ans) : Become(s)
  BY DEF ReadAnswer
<1>2. PICK k \in 1..Len(Got(n)) :
         /\ EndsAt(Got(n), k)
         /\ \E s \in Handle(Taken(n), Got(n)[k].ans) : Become(s)
  BY <1>1
<1>3. IInv
  BY DEF TInv
<1>4. PICK a \in Answer :
        /\ a.src = send.dev /\ a.code = CmdN[send.target] /\ Honest(a)
        /\ \/ Got(n) = <<Framed(a)[1]>>
           \/ Got(n) = Framed(a) /\ SubSeq(line, n + 1, Len(line)) = << >>
  BY ChunkInTurn
<1>5. /\ Framed(a)[1].half = "head" /\ Framed(a)[1].ans = a
      /\ Framed(a)[2].half = "tail" /\ Framed(a)[2].ans = a
      /\ Framed(a) = <<Framed(a)[1], Framed(a)[2]>>
  BY DEF Framed
<1>6. Got(n)[k].half = "tail"
  BY <1>2 DEF EndsAt
<1>7. Got(n) # <<Framed(a)[1]>>
  BY <1>5, <1>6
<1>8. Got(n)[k].ans = a
  <2> DEFINE h == Framed(a)[1]
             e == Framed(a)[2]
  <2>1. Got(n) = <<h, e>> /\ h.half = "head" /\ e.half = "tail" /\ e.ans = a
    BY <1>4, <1>5, <1>7
  <2> HIDE DEF h, e
  <2>2. k = 1 \/ k = 2
    BY <2>1
  <2> QED BY <1>6, <2>1, <2>2
<1>9. Taken(n) \in Sound /\ Clear(Taken(n)) /\ a.code = CmdN[Taken(n).send.target]
  BY <1>3, <1>4, <1>7, TakenType, TakenSame DEF Clear
<1>10. PICK s \in Handle(Taken(n), a) : Become(s)
  BY <1>2, <1>8
<1>11. InTurn(s) /\ s \in Sound
  BY <1>4, <1>9, <1>10, HandleInTurn
<1> QED BY <1>10, <1>11, BecomeInTurn

\* What an action puts into the queues, marks or asks for leaves the line alone.
LEMMA EnqueueInTurn ==
    ASSUME TInv, NEW s \in Sound, SameLine(Here, s), NEW o \in OrderSet,
           Become(Enqueue(s, o))
    PROVE  InTurn(Here)'
<1>1. Enqueue(s, o) \in Sound /\ SameLine(s, Enqueue(s, o))
  BY EnqueueType DEF SameLine, Enqueue, Sound
<1>2. InTurn(Enqueue(s, o))
  BY <1>1, SameLineInTurn DEF TInv
<1> QED BY <1>1, <1>2, BecomeInTurn

LEMMA HereSame == SameLine(Here, Here)
  BY DEF SameLine

LEMMA ScanDevInTurn ==
    ASSUME TInv, ScanDev
    PROVE  InTurn(Here)'
<1>1. PICK s \in Reopen(Here) :
         Become([s EXCEPT !.fresh = FALSE,
                          !.unit = [d \in Slots |->
                              IF d = 0 THEN @[d] ELSE [@[d] EXCEPT !.timeouts = 0]]])
  BY DEF ScanDev
<1>2. Here \in Sound /\ s \in Sound
  BY <1>1, HereType, ReopenType DEF TInv
<1>3. InTurn(s)
  <2>1. CASE s = Here
    BY <2>1 DEF TInv
  <2>2. CASE ~Here.open /\ s = Arm([Here EXCEPT !.open = TRUE, !.line = << >>])
    <3>1. Here.rx = << >>
      BY <2>2 DEF TInv, InTurn, Clear
    <3>2. s.rx = Here.rx /\ s.line = << >>
      BY <2>2 DEF Arm, Here
    <3> QED BY <3>1, <3>2 DEF InTurn, Clear
  <2> QED BY <1>1, <2>1, <2>2 DEF Reopen
<1> DEFINE v == [d \in Slots |-> IF d = 0 THEN s.unit[d] ELSE [s.unit[d] EXCEPT !.timeouts = 0]]
           t == [s EXCEPT !.fresh = FALSE, !.unit = v]
<1>4. Become(t)
  BY <1>1
<1> HIDE DEF v
<1>5. t.rx = s.rx /\ t.line = s.line /\ t.open = s.open /\ t.send = s.send
  BY <1>2 DEF Sound
<1> HIDE DEF t
<1>6. Here'.rx = t.rx /\ Here'.line = t.line /\ Here'.open = t.open /\ Here'.send = t.send
  BY <1>4 DEF Become, Here
<1> QED BY <1>3, <1>5, <1>6 DEF InTurn, Clear, Answered

LEMMA ScanLogInTurn ==
    ASSUME TInv, ScanLog
    PROVE  InTurn(Here)'
<1>1. PICK f \in InOrder(Active(Here)) : Become(Enqueue(Here, LogOrders(f)))
  BY DEF ScanLog
<1>2. LogOrders(f) \in OrderSet
  BY <1>1, ActiveType, LogOrdersType, PlainOrdersType
<1> QED BY <1>1, <1>2, HereType, HereSame, EnqueueInTurn DEF TInv

LEMMA CallInTurn ==
    ASSUME TInv, Call
    PROVE  InTurn(Here)'
<1>1. PICK call \in AppCalls \cap Calls, d \in Devices, e \in Devices :
         /\ call = "open" => MayAsk(Here)
         /\ Become(Enqueue(Marked(IF call = "open" THEN Ask(Here, TRUE) ELSE Here, call, d, e),
                           CallOrders(call, d, Door(Here))))
  BY DEF Call
<1> DEFINE s == IF call = "open" THEN Ask(Here, TRUE) ELSE Here
<1>2. Here \in Sound /\ (call = "open" => Ask(Here, TRUE) \in Sound)
  BY <1>1, HereType, AskType DEF TInv
<1>3. SameLine(Here, Ask(Here, TRUE))
  BY DEF SameLine, Ask, Here
<1>4. s \in Sound /\ SameLine(Here, s)
  BY <1>2, <1>3, HereSame
<1>5. Become(Enqueue(Marked(s, call, d, e), CallOrders(call, d, Door(Here))))
  BY <1>1
<1> HIDE DEF s
<1>6. Marked(s, call, d, e) \in Sound /\ SameLine(s, Marked(s, call, d, e))
  <2> DEFINE v == [c \in Slots |->
                     CASE c = d -> [s.unit[c] EXCEPT !.activ = FALSE]
                       [] c = e /\ c # d -> [s.unit[c] EXCEPT !.activ = TRUE]
                       [] OTHER -> s.unit[c]]
             m == Marked(s, call, d, e)
  <2>1. m = s \/ m = [s EXCEPT !.unit = v]
    BY DEF Marked
  <2>2. m \in Sound
    BY <1>4, MarkedType
  <2> HIDE DEF v, m
  <2> QED BY <1>4, <2>1, <2>2 DEF SameLine, Sound, m
<1>7. SameLine(Here, Marked(s, call, d, e))
  BY <1>4, <1>6 DEF SameLine
<1>8. Door(Here) \in Nat /\ (call = "open" => Door(Here) \in 0..MaxDoors)
  <2>1. Here.asked \in 0..MaxDoors
    BY <1>2 DEF Sound
  <2> QED BY <1>1, <2>1 DEF Door, MayAsk
<1>9. CallOrders(call, d, Door(Here)) \in OrderSet
  BY <1>8, CallOrdersType
<1> QED BY <1>5, <1>6, <1>7, <1>9, EnqueueInTurn

LEMMA CallAllInTurn ==
    ASSUME TInv, CallAll
    PROVE  InTurn(Here)'
<1>1. PICK o \in {SchedOrders(f) : f \in InOrder(Active(Here))} \cup cmd_add_cid_to_all(Here) :
         Become(Enqueue(Here, o))
  BY DEF CallAll
<1>2. Here \in Sound
  BY HereType DEF TInv
<1>3. o \in OrderSet
  <2>1. CASE o \in {SchedOrders(f) : f \in InOrder(Active(Here))}
    BY <2>1, ActiveType, SchedOrdersType, PlainOrdersType
  <2>2. CASE o \in cmd_add_cid_to_all(Here)
    <3>1. 0 \in Slots
      BY DEF Slots
    <3> QED BY <1>2, <2>2, <3>1, CardJobsType, PlainOrdersType
  <2> QED BY <1>1, <2>1, <2>2
<1> QED BY <1>1, <1>2, <1>3, HereSame, EnqueueInTurn

LEMMA StutterInTurn ==
    ASSUME TInv, UNCHANGED vars
    PROVE  InTurn(Here)'
<1>1. Here' = Here
  BY DEF vars, Here
<1> QED BY <1>1 DEF TInv, InTurn, Clear, Answered

-----------------------------------------------------------------------------
(* The theorem *)

LEMMA InitInTurn == Init => TInv
<1>1. Init => InTurn(Here)
  BY DEF Init, InTurn, Clear, Here
<1> QED BY <1>1, InitType DEF TInv

LEMMA TimelyStep ==
    ASSUME Faults \subseteq {"write"}, TInv, [TimelyNext]_vars
    PROVE  TInv'
<1>1. IInv'
  <2>1. [Next]_vars
    BY DEF TimelyNext, Next, PortEvent
  <2> QED BY <2>1, NextStep DEF TInv
<1>2. InTurn(Here)'
  <2>1. CASE line = << >> /\ TimeoutDue
    BY <2>1, TimeoutDueInTurn
  <2>2. CASE Read
    BY <2>2, NoStrayRead, ReadPartialInTurn, ReadAnswerInTurn DEF Read
  <2>3. CASE Rest
    BY <2>3, NoStrayRead, TimeoutEarlyInTurn, ScanDevInTurn, ScanLogInTurn,
       CallInTurn, CallAllInTurn, StutterInTurn DEF Rest, Exited
  <2>4. CASE UNCHANGED vars
    BY <2>4, StutterInTurn
  <2> QED BY <2>1, <2>2, <2>3, <2>4 DEF TimelyNext
<1> QED BY <1>1, <1>2 DEF TInv

LEMMA InTurnOne == TInv => OneOutstanding
<1> SUFFICES ASSUME TInv, open
             PROVE  \/ rx \o line = << >>
                    \/ \E a \in {line[i].ans : i \in 1..Len(line)} :
                         rx \o line = Framed(a) /\ Outstanding(a)
  BY DEF OneOutstanding
<1>1. CASE rx = << >> /\ line = << >>
  <2>1. << >> \in Seq(HonestPart)
    BY EmptySeq
  <2> QED BY <1>1, <2>1, ConcatEmptySeq
<1>2. CASE \E a \in Answer : Answered(Here, a)
  <2>1. PICK a \in Answer : Answered(Here, a)
    BY <1>2
  <2> DEFINE h == Framed(a)[1]
             e == Framed(a)[2]
  <2>2. h \in Part /\ e \in Part /\ Framed(a) = <<h, e>> /\ e.ans = a
    BY DEF Framed, Part
  <2> HIDE DEF h, e
  <2>3. \/ rx = << >> /\ line = <<h, e>>
        \/ rx = <<h>> /\ line = <<e>>
    BY <2>1, <2>2 DEF Answered, Here, h, e
  <2>4. rx \o line = <<h, e>>
    <3>1. << >> \o <<h, e>> = <<h, e>> /\ <<h>> \o <<e>> = <<h, e>>
      BY <2>2, Halves
    <3> QED BY <2>3, <3>1, Zenon
  <2>5. Outstanding(a)
    BY <2>1 DEF Answered, Outstanding, Here
  <2>6. a \in {line[i].ans : i \in 1..Len(line)}
    <3>1. CASE line = <<h, e>>
      <4>1. 2 \in 1..Len(line) /\ line[2].ans = a
        BY <2>2, <3>1
      <4> QED BY <4>1
    <3>2. CASE line = <<e>>
      <4>1. 1 \in 1..Len(line) /\ line[1].ans = a
        BY <2>2, <3>2
      <4> QED BY <4>1
    <3> QED BY <2>3, <3>1, <3>2
  <2> QED BY <2>2, <2>4, <2>5, <2>6
<1> QED BY <1>1, <1>2 DEF TInv, InTurn, Clear, Here

\* While the controllers are timely the half-duplex line carries at most one
\* answer, and it answers the command in send_mess (OneOutstanding): no path
\* through gp_receiv and the reply handlers sends twice or sends while an
\* answer is due, even when writes fail and the port is lost and opened again.
\* With parts lost on the line, or with reads that fail, half an answer may
\* stay in receiv_mess.buf: the statement is about lines that carry all.
THEOREM HalfDuplex ==
    ASSUME Faults \subseteq {"write"}
    PROVE  TimelySpec => []OneOutstanding
<1>1. Init => TInv
  BY InitInTurn
<1>2. TInv /\ [TimelyNext]_vars => TInv'
  BY TimelyStep
<1>3. TInv => OneOutstanding
  BY InTurnOne
<1> QED BY <1>1, <1>2, <1>3, PTL DEF TimelySpec
=============================================================================
