---------------------------- MODULE GatePortProofs ----------------------------
(***************************************************************************)
(* What takes an open port away: on a line that loses nothing the branch   *)
(* "port unexpectedly closed" of gp_receiv is not entered, however late    *)
(* the controllers are and however many answers wait.                      *)
(***************************************************************************)
EXTENDS GateTimelyProofs

\* Every head of an answer is followed by a tail.
Paired(q) ==
    \A i \in 1..Len(q) : q[i].half = "head" => i < Len(q) /\ q[i + 1].half = "tail"

\* The inductive invariant.  The buffer is empty or holds one head, whose tail
\* is the next part on the line; so a read always has room.
Tidy(s) ==
    /\ Paired(s.line)
    /\ s.rx = << >> \/ (s.open /\ Len(s.rx) = 1 /\ s.line # << >> /\ s.line[1].half = "tail")

\* What a function may do to the port that was called in s.
Keeping(s, t) == t \in Sound /\ Tidy(t) /\ (s.open => t.open)

LEMMA PairedAdd ==
    ASSUME NEW q \in Seq(HonestPart), Paired(q), NEW a \in Answer, Honest(a)
    PROVE  Paired(q \o Framed(a))
<1> DEFINE h == Framed(a)[1]
           e == Framed(a)[2]
           p == Framed(a)
           r == q \o p
<1>1. /\ p \in Seq(HonestPart) /\ Len(p) = 2 /\ h.half = "head" /\ e.half = "tail"
      /\ p[1] = h /\ p[2] = e
  BY FramedType DEF Framed
<1> HIDE DEF h, e, p
<1>2. Len(q) \in Nat
  OBVIOUS
<1>3. /\ Len(r) = Len(q) + 2
      /\ \A i \in 1..Len(q) : r[i] = q[i]
      /\ r[Len(q) + 1] = h /\ r[Len(q) + 2] = e
  <2> DEFINE l == Len(q)
  <2>1. /\ Len(r) = l + 2
        /\ \A i \in 1..l + 2 : r[i] = IF i <= l THEN q[i] ELSE p[i - l]
    <3>1. /\ Len(r) = Len(q) + Len(p)
          /\ \A i \in 1..Len(q) + Len(p) : r[i] = IF i <= Len(q) THEN q[i] ELSE p[i - Len(q)]
      BY <1>1, ConcatProperties
    <3> HIDE DEF r
    <3> QED BY <1>1, <3>1
  <2>2. l \in Nat
    BY <1>2
  <2> HIDE DEF l, r
  <2>4. \A i \in 1..l : i \in 1..l + 2 /\ i <= l
    BY <2>2
  <2>5. r[l + 1] = p[1] /\ r[l + 2] = p[2]
    <3> DEFINE i == l + 1
               j == l + 2
    <3>1. /\ i \in 1..l + 2 /\ ~(i <= l) /\ i - l = 1
          /\ j \in 1..l + 2 /\ ~(j <= l) /\ j - l = 2
      BY <2>2
    <3> HIDE DEF i, j
    <3>2. r[i] = p[i - l] /\ r[j] = p[j - l]
      BY <2>1, <3>1
    <3>3. r[i] = p[1] /\ r[j] = p[2]
      BY <3>1, <3>2
    <3> QED BY <3>3 DEF i, j
  <2>6. \A i \in 1..l : r[i] = q[i]
    BY <2>1, <2>4
  <2> QED BY <1>1, <2>1, <2>5, <2>6 DEF l
<1> HIDE DEF r
<1>4. ASSUME NEW i \in 1..Len(r), r[i].half = "head"
      PROVE  i < Len(r) /\ r[i + 1].half = "tail"
  <2>1. CASE i \in 1..Len(q)
    <3>1. i < Len(q) /\ q[i + 1].half = "tail"
      BY <1>3, <1>4, <2>1 DEF Paired
    <3>2. i + 1 \in 1..Len(q)
      BY <1>2, <2>1, <3>1
    <3> QED BY <1>2, <1>3, <2>1, <3>1, <3>2
  <2>2. CASE i = Len(q) + 1
    <3>1. i + 1 = Len(q) + 2
      BY <1>2, <2>2
    <3> QED BY <1>1, <1>2, <1>3, <2>2, <3>1
  <2>3. CASE i = Len(q) + 2
    BY <1>1, <1>3, <1>4, <2>3
  <2> QED BY <1>2, <1>3, <2>1, <2>2, <2>3
<1> QED BY <1>4 DEF Paired, r, p

LEMMA PairedRest ==
    ASSUME NEW q \in Seq(HonestPart), Paired(q), NEW n \in 1..Len(q)
    PROVE  LET r == SubSeq(q, n + 1, Len(q))
           IN  /\ Paired(r)
               /\ q[n].half = "head" => r # << >> /\ r[1].half = "tail"
<1> DEFINE l == Len(q)
           r == SubSeq(q, n + 1, l)
<1>1. l \in Nat /\ \A i \in 1..l : q[i] \in HonestPart
  OBVIOUS
<1>2. Len(r) = l - n /\ \A i \in 1..l - n : r[i] = q[n + i]
  <2> HIDE DEF l
  <2>1. /\ Len(r) = IF n + 1 <= l THEN l - (n + 1) + 1 ELSE 0
        /\ \A i \in 1..l - (n + 1) + 1 : r[i] = q[n + 1 + i - 1]
    <3>1. n + 1 \in Int /\ l \in Int /\ \A i \in n + 1..l : q[i] \in HonestPart
      BY <1>1 DEF l
    <3> QED BY <3>1, SubSeqProperties
  <2>2. n \in 1..l
    BY DEF l
  <2> HIDE DEF r
  <2>3. ASSUME NEW i \in 1..l - n PROVE r[i] = q[n + i]
    <3>1. i \in 1..l - (n + 1) + 1 /\ n + 1 + i - 1 = n + i
      BY <1>1, <2>2
    <3> QED BY <2>1, <3>1
  <2> QED BY <1>1, <2>1, <2>2, <2>3
<1>3. \A i \in 1..l : q[i].half = "head" => i < l /\ q[i + 1].half = "tail"
  BY DEF Paired
<1>n. n \in 1..l
  OBVIOUS
<1> HIDE DEF l, r
<1>4. ASSUME NEW i \in 1..Len(r), r[i].half = "head"
      PROVE  i < Len(r) /\ r[i + 1].half = "tail"
  <2>1. i \in 1..l - n /\ n + i \in 1..l /\ r[i] = q[n + i]
    BY <1>1, <1>2, <1>n
  <2>2. n + i < l /\ q[n + i + 1].half = "tail"
    BY <1>3, <1>4, <2>1
  <2>3. i + 1 \in 1..l - n /\ n + (i + 1) = n + i + 1
    BY <1>1, <1>n, <2>1, <2>2
  <2>4. r[i + 1] = q[n + (i + 1)]
    BY <1>2, <2>3
  <2> QED BY <1>1, <1>2, <1>n, <2>1, <2>2, <2>3, <2>4
<1>5. ASSUME q[n].half = "head" PROVE r # << >> /\ r[1].half = "tail"
  <2>1. n < l /\ q[n + 1].half = "tail"
    BY <1>3, <1>5, <1>n
  <2>2. 1 \in 1..l - n /\ Len(r) # 0
    BY <1>1, <1>2, <1>n, <2>1
  <2> QED BY <1>2, <2>1, <2>2
<1> QED BY <1>4, <1>5 DEF Paired, r, l

USE CommandsAssumption, BusAssumption

LEMMA SameLineTidy ==
    ASSUME NEW s, NEW t \in Sound, SameLine(s, t), Tidy(s)
    PROVE  Keeping(s, t)
  BY DEF SameLine, Tidy, Keeping

LEMMA BecomeTidy ==
    ASSUME NEW s, Become(s), Keeping(Here, s)
    PROVE  Tidy(Here)' /\ (open => open')
<1>1. /\ Here'.rx = s.rx /\ Here'.line = s.line /\ Here'.open = s.open
      /\ open' = s.open /\ Here.open = open
  BY DEF Become, Here
<1> QED BY <1>1 DEF Keeping, Tidy

-----------------------------------------------------------------------------
(* The functions that send *)

LEMMA SendTidy ==
    ASSUME Faults = {}, NEW s \in Sound, Tidy(s), NEW c, MaySend(s, c),
           NEW t \in gp_send(s, c)
    PROVE  Keeping(s, t)
<1> DEFINE r == Remember(s, c)
<1>0. c \in Command /\ t \in Sound
  BY SendType DEF MaySend
<1>1. /\ r \in Sound /\ Tidy(r) /\ r.open = s.open
  BY <1>0 DEF MaySend, Remember, Sound, SendMess, Command, Tidy
<1>2. t \in gp_resend(r, c)
  BY DEF gp_send
<1> HIDE DEF r
<1>3. CASE ~r.open
  <2>1. t = [r EXCEPT !.run = FALSE, !.done = FALSE]
    BY <1>2, <1>3 DEF gp_resend
  <2>2. t.rx = r.rx /\ t.line = r.line /\ t.open = r.open
    BY <1>1, <2>1 DEF Sound
  <2> QED BY <1>0, <1>1, <2>2 DEF Keeping, Tidy
<1>4. CASE r.open
  <2> DEFINE u == Count(Arm(r), c.door)
  <2>1. PICK p \in Replies(r, c) : t = Return([u EXCEPT !.line = @ \o p], TRUE)
    BY <1>2, <1>4 DEF gp_resend
  <2>2. Arm(r) \in Sound /\ c.door \in 0..MaxDoors
    BY <1>0, <1>1, PortType DEF Command
  <2>3. u \in Sound
    BY <2>2, CountType
  <2>4. SameLine(r, Arm(r))
    BY <1>1 DEF SameLine, Arm, Sound
  <2>5. SameLine(Arm(r), u)
    BY <2>2 DEF SameLine, Count, Sound
  <2>6. u.line = r.line /\ u.rx = r.rx /\ u.open = r.open
    BY <2>4, <2>5 DEF SameLine
  <2> HIDE DEF u
  <2>7. t.line = r.line \o p /\ t.rx = r.rx /\ t.open = r.open
    BY <2>1, <2>3, <2>6 DEF Return, Sound
  <2>8. r.line \in Seq(HonestPart) /\ p \in Seq(HonestPart)
    BY <1>0, <1>1, RepliesType DEF Sound
  <2>9. Paired(t.line)
    <3>1. CASE p = << >>
      <4>1. r.line \o p = r.line
        BY <2>8, <3>1, ConcatEmptySeq
      <4> QED BY <1>1, <2>7, <4>1 DEF Tidy
    <3>2. CASE p # << >>
      <4>1. PICK a \in {AnswerTo(c), [AnswerTo(c) EXCEPT !.kind = "refused"]} : p = Framed(a)
        BY <2>1, <3>2 DEF Replies
      <4>2. a \in Answer /\ Honest(a)
        BY <1>0, <4>1, AnswerHonest
      <4> QED BY <1>1, <2>7, <2>8, <4>1, <4>2, PairedAdd DEF Tidy
    <3> QED BY <3>1, <3>2
  <2>10. r.line # << >> => t.line # << >> /\ t.line[1] = r.line[1]
    BY <2>7, <2>8
  <2> QED BY <1>0, <1>1, <2>7, <2>9, <2>10 DEF Keeping, Tidy
<1> QED BY <1>3, <1>4

LEMMA PutCmdTidy ==
    ASSUME Faults = {}, NEW s \in Sound, Tidy(s), NEW t \in gp_put_cmd(s)
    PROVE  Keeping(s, t)
<1>1. CASE ~s.run
  BY <1>1 DEF gp_put_cmd, Keeping
<1>2. CASE s.run /\ s.first # << >>
  <2> DEFINE u == [s EXCEPT !.first = Tail(@)]
  <2>1. s.first \in Seq(QueuedCommand)
    BY DEF Sound
  <2>2. Head(s.first) \in QueuedCommand /\ Tail(s.first) \in Seq(QueuedCommand)
    BY <1>2, <2>1, HeadTailProperties
  <2>3. u \in Sound /\ Tidy(u) /\ u.open = s.open
    BY <2>2 DEF Sound, Tidy
  <2>4. t \in gp_send(u, Head(s.first))
    BY <1>2 DEF gp_put_cmd
  <2> HIDE DEF u
  <2> QED BY <2>2, <2>3, <2>4, MaySendQueued, SendTidy DEF Keeping
<1>3. CASE s.run /\ s.first = << >> /\ s.second # << >>
  <2> DEFINE u == [s EXCEPT !.second = Tail(@)]
  <2>1. s.second \in Seq(QueuedCommand)
    BY DEF Sound
  <2>2. Head(s.second) \in QueuedCommand /\ Tail(s.second) \in Seq(QueuedCommand)
    BY <1>3, <2>1, HeadTailProperties
  <2>3. u \in Sound /\ Tidy(u) /\ u.open = s.open
    BY <2>2 DEF Sound, Tidy
  <2>4. t \in gp_send(u, Head(s.second))
    BY <1>3 DEF gp_put_cmd
  <2> HIDE DEF u
  <2> QED BY <2>2, <2>3, <2>4, MaySendQueued, SendTidy DEF Keeping
<1>4. CASE s.run /\ s.first = << >> /\ s.second = << >>
  <2>1. t = Return(s, FALSE)
    BY <1>4 DEF gp_put_cmd
  <2> QED BY <2>1 DEF Return, Sound, Tidy, Keeping
<1> QED BY <1>1, <1>2, <1>3, <1>4 DEF Sound

LEMMA SendIdleTidy ==
    ASSUME Faults = {}, NEW s \in Sound, Tidy(s), NEW t \in gp_send_idle(s)
    PROVE  Keeping(s, t)
<1>0. t \in Sound
  BY SendIdleType DEF Kept
<1>1. CASE ~s.run
  BY <1>0, <1>1 DEF gp_send_idle, Keeping
<1>2. CASE s.run /\ Ahead(s) = {}
  <2>1. t = Return(Skip(s, MaxDev + 1), FALSE)
    BY <1>2 DEF gp_send_idle
  <2>2. t.rx = s.rx /\ t.line = s.line /\ t.open = s.open
    BY <2>1 DEF Return, Skip, Sound
  <2> QED BY <1>0, <2>2 DEF Keeping, Tidy
<1>3. CASE s.run /\ Ahead(s) # {}
  <2>1. PICK d \in Turn(s) : t \in gp_send(Skip(s, d), PollCid(d))
    BY <1>3 DEF gp_send_idle
  <2>2. d \in Slots /\ d \in 0..MaxDev + 1
    BY DEF Turn, Ahead, Devices, Slots
  <2> DEFINE u == Skip(s, d)
  <2>3. u \in Sound /\ u.rx = s.rx /\ u.line = s.line /\ u.open = s.open
    BY <2>2, SkipType DEF Skip, Sound
  <2>4. t \in gp_send(u, PollCid(d))
    BY <2>1
  <2> HIDE DEF u
  <2>5. Tidy(u)
    BY <2>3 DEF Tidy
  <2> QED BY <2>2, <2>3, <2>4, <2>5, MaySendPoll, SendTidy DEF Keeping
<1> QED BY <1>1, <1>2, <1>3 DEF Sound

-----------------------------------------------------------------------------
(* The reply handlers *)

LEMMA CardSeenTidy ==
    ASSUME NEW s \in Sound, Tidy(s), NEW d \in Slots, NEW t \in CardSeen(s, d)
    PROVE  Keeping(s, t)
<1>1. t \in Sound /\ t.open = s.open
  BY CardSeenType
<1>2. t.line = s.line /\ t.rx = s.rx
  <2>1. CASE t = s
    BY <2>1
  <2>2. CASE t # s
    <3>1. PICK o \in CardOrders(s, d) : t = Enqueue(IF OpensDoor(o) THEN Ask(s, FALSE) ELSE s, o)
      BY <2>2 DEF CardSeen
    <3>2. CASE OpensDoor(o)
      <4>1. t = Enqueue(Ask(s, FALSE), o)
        BY <3>1, <3>2
      <4>2. Ask(s, FALSE).line = s.line /\ Ask(s, FALSE).rx = s.rx
        BY DEF Ask, Sound
      <4>3. Ask(s, FALSE) \in Sound
        BY <3>1, <3>2, CardOrdersType, AskType
      <4> QED BY <4>1, <4>2, <4>3 DEF Enqueue, Sound
    <3>3. CASE ~OpensDoor(o)
      BY <3>1, <3>3 DEF Enqueue, Sound
    <3> QED BY <3>2, <3>3
  <2> QED BY <2>1, <2>2
<1> QED BY <1>1, <1>2 DEF Tidy, Keeping

LEMMA ReturnTidy ==
    ASSUME NEW s \in Sound, Tidy(s), NEW b \in BOOLEAN
    PROVE  Keeping(s, Return(s, b))
  BY PortType DEF Return, Sound, Tidy, Keeping

LEMMA InputTidy ==
    ASSUME Faults = {}, NEW s \in Sound, Tidy(s), NEW a \in Answer,
           NEW t \in process_port_input(s, a)
    PROVE  Keeping(s, t)
<1>0. a.src \in Slots
  BY DEF Answer
<1>1. CASE \E b \in BOOLEAN : t = Return(s, b)
  BY <1>1, ReturnTidy
<1>2. CASE s.send.handler = "poll" /\ t \in gp_send(s, PollRegs(a.src))
  BY <1>0, <1>2, MaySendReply, SendTidy
<1>3. CASE s.send.handler = "log" /\ t \in gp_send(s, LogData(a.src)) \cup gp_send(s, LogDone(a.src))
  BY <1>0, <1>3, MaySendReply, SendTidy
<1>4. CASE \E u \in CardSeen(s, a.src) : t = Return(u, TRUE)
  <2>1. PICK u \in CardSeen(s, a.src) : t = Return(u, TRUE)
    BY <1>4
  <2>2. Keeping(s, u)
    BY <1>0, <2>1, CardSeenTidy
  <2>3. Keeping(u, Return(u, TRUE))
    BY <2>2, ReturnTidy DEF Keeping
  <2> QED BY <2>1, <2>2, <2>3 DEF Keeping
<1>5. s.send.handler \in {"none", "poll", "log"}
  BY DEF Sound, SendMess, Handlers
<1>6. CASE s.send.handler = "none"
  BY <1>1, <1>6 DEF process_port_input
<1>7. CASE s.send.handler = "poll"
  <2>1. t \in cb_get_poll_result(s, a)
    BY <1>7 DEF process_port_input
  <2>2. \/ t \in gp_send(s, PollRegs(a.src))
        \/ \E u \in CardSeen(s, a.src) : t = Return(u, TRUE)
        \/ t = Return(s, FALSE)
    BY <2>1 DEF cb_get_poll_result
  <2> QED BY <1>1, <1>2, <1>4, <1>7, <2>2
<1>8. CASE s.send.handler = "log"
  <2>1. t \in cb_log_read(s, a)
    BY <1>8 DEF process_port_input
  <2>2. \/ t \in gp_send(s, LogData(a.src)) \cup gp_send(s, LogDone(a.src))
        \/ \E b \in BOOLEAN : t = Return(s, b)
    BY <2>1 DEF cb_log_read
  <2> QED BY <1>1, <1>3, <1>8, <2>2
<1> QED BY <1>5, <1>6, <1>7, <1>8

LEMMA HandleTidy ==
    ASSUME Faults = {}, NEW s \in Sound, Tidy(s), NEW a \in Answer, NEW t \in Handle(s, a)
    PROVE  Keeping(s, t)
<1>1. a.kind \in {"refused", "ack", "data"}
  BY DEF Answer, AnswerKinds
<1>2. CASE a.kind = "refused"
  BY <1>2, PutCmdTidy DEF Handle
<1>3. CASE a.kind \in {"ack", "data"}
  <2>1. PICK u \in process_port_input(s, a) : t = u \/ t \in gp_put_cmd(u)
    BY <1>3 DEF Handle
  <2>2. Keeping(s, u)
    BY <2>1, InputTidy
  <2>3. t \in gp_put_cmd(u) => Keeping(u, t)
    BY <2>2, PutCmdTidy DEF Keeping
  <2> QED BY <2>1, <2>2, <2>3 DEF Keeping
<1> QED BY <1>1, <1>2, <1>3

-----------------------------------------------------------------------------
(* The event handlers *)

PInv == IInv /\ Tidy(Here)

LEMMA PInvHere ==
    ASSUME PInv
    PROVE  /\ Here \in Sound /\ Here.open = open /\ Here.rx = rx /\ Here.line = line
           /\ line \in Seq(HonestPart) /\ rx \in Seq(HonestPart)
           /\ Paired(line)
           /\ rx = << >> \/ (Len(rx) = 1 /\ line # << >> /\ line[1].half = "tail")
<1>1. Here \in Sound /\ Here.open = open /\ Here.rx = rx /\ Here.line = line
  BY HereType DEF PInv, Here
<1> QED BY <1>1 DEF PInv, Tidy, Sound

LEMMA FiredTidy ==
    ASSUME PInv
    PROVE  Keeping(Here, Fired)
  BY FiredType, FiredSame, SameLineTidy DEF PInv

LEMMA KeepingTrans ==
    ASSUME NEW s, NEW t, NEW u, Keeping(s, t), Keeping(t, u)
    PROVE  Keeping(s, u)
  BY DEF Keeping

LEMMA TouchTidy ==
    ASSUME NEW s \in Sound, Tidy(s), NEW t \in Touch(s)
    PROVE  Keeping(s, t)
  BY PortType, TouchSame, SameLineTidy

LEMMA ArmTidy ==
    ASSUME NEW s \in Sound, Tidy(s)
    PROVE  Keeping(s, Arm(s))
<1>1. Arm(s) \in Sound /\ SameLine(s, Arm(s))
  BY PortType DEF Arm, SameLine, Sound
<1> QED BY <1>1, SameLineTidy

LEMMA TimeoutEarlyTidy ==
    ASSUME PInv, TimeoutEarly
    PROVE  Tidy(Here)' /\ (open => open')
<1>1. PICK s \in Touch(Fired) : Become(Arm(s))
  BY DEF TimeoutEarly
<1>2. Keeping(Here, Fired)
  BY FiredTidy
<1>3. Keeping(Fired, s)
  BY <1>1, <1>2, TouchTidy DEF Keeping
<1>4. Keeping(s, Arm(s))
  BY <1>3, ArmTidy DEF Keeping
<1>5. Keeping(Here, Arm(s))
  BY <1>2, <1>3, <1>4 DEF Keeping
<1> QED BY <1>1, <1>5, BecomeTidy

LEMMA TimeoutDueTidy ==
    ASSUME Faults = {}, PInv, TimeoutDue
    PROVE  Tidy(Here)' /\ (open => open')
<1>a. PICK s \in Touch(Fired) : \E t \in gp_put_cmd(Expire(s)) :
         \/ t.done /\ Become(t)
         \/ ~t.done /\ \E u \in gp_send_idle(t) : Become(IF u.done THEN u ELSE Arm(u))
  BY DEF TimeoutDue
<1>1. PICK t \in gp_put_cmd(Expire(s)) :
         \/ t.done /\ Become(t)
         \/ ~t.done /\ \E u \in gp_send_idle(t) : Become(IF u.done THEN u ELSE Arm(u))
  BY <1>a
<1>2. Keeping(Here, Fired)
  BY FiredTidy
<1>3. Keeping(Fired, s)
  BY <1>a, <1>2, TouchTidy DEF Keeping
<1>4. Keeping(s, Expire(s))
  <2>1. s \in Sound /\ Tidy(s)
    BY <1>3 DEF Keeping
  <2>2. Expire(s) \in Sound /\ Expire(s).open = s.open
    BY <2>1, ExpireType
  <2>3. Expire(s).rx = s.rx /\ Expire(s).line = s.line
    BY <2>1, ExpireSame
  <2> QED BY <2>1, <2>2, <2>3 DEF Keeping, Tidy
<1>5. Keeping(Expire(s), t)
  BY <1>1, <1>4, PutCmdTidy DEF Keeping
<1>6. Keeping(Here, t)
  BY <1>2, <1>3, <1>4, <1>5 DEF Keeping
<1>7. CASE Become(t)
  BY <1>6, <1>7, BecomeTidy
<1>8. CASE \E u \in gp_send_idle(t) : Become(IF u.done THEN u ELSE Arm(u))
  <2>1. PICK u \in gp_send_idle(t) : Become(IF u.done THEN u ELSE Arm(u))
    BY <1>8
  <2>2. Keeping(t, u)
    BY <1>6, <2>1, SendIdleTidy DEF Keeping
  <2>3. Keeping(u, Arm(u))
    BY <2>2, ArmTidy DEF Keeping
  <2>4. Keeping(Here, u) /\ Keeping(Here, Arm(u))
    BY <1>6, <2>2, <2>3 DEF Keeping
  <2> QED BY <2>1, <2>4, BecomeTidy
<1> QED BY <1>1, <1>7, <1>8

\* What a read leaves on the line begins with no tail but that of the last
\* head it took.
LEMMA TakenTidy ==
    ASSUME PInv, NEW n \in Chunks
    PROVE  Keeping(Here, Taken(n))
<1>1. /\ Taken(n) \in Sound /\ Taken(n).open = open
      /\ Taken(n).rx = << >> /\ Taken(n).line = SubSeq(line, n + 1, Len(line))
  BY TakenType, TakenSame DEF PInv
<1>2. n \in 1..Len(line)
  BY DEF Chunks
<1>3. Paired(SubSeq(line, n + 1, Len(line)))
  BY <1>2, PInvHere, PairedRest
<1>4. Here.open = open
  BY PInvHere
<1> QED BY <1>1, <1>3, <1>4 DEF Keeping, Tidy

LEMMA ReadNoInitTidy ==
    ASSUME PInv, ReadNoInit
    PROVE  Tidy(Here)' /\ (open => open')
<1>1. PICK n \in Chunks : \E s \in Touch(Taken(n)) : Become(s)
  BY DEF ReadNoInit
<1>2. PICK s \in Touch(Taken(n)) : Become(s)
  BY <1>1
<1>3. Keeping(Here, Taken(n))
  BY TakenTidy
<1>4. Keeping(Taken(n), s)
  BY <1>2, <1>3, TouchTidy DEF Keeping
<1> QED BY <1>2, <1>3, <1>4, KeepingTrans, BecomeTidy

LEMMA ReadBadFrameTidy ==
    ASSUME PInv, ReadBadFrame
    PROVE  Tidy(Here)' /\ (open => open')
<1>1. PICK n \in Chunks : Become(Taken(n))
  BY DEF ReadBadFrame
<1> QED BY <1>1, TakenTidy, BecomeTidy

LEMMA ReadAnswerTidy ==
    ASSUME Faults = {}, PInv, ReadAnswer
    PROVE  Tidy(Here)' /\ (open => open')
<1>1. PICK n \in Chunks : \E k \in 1..Len(Got(n)) :
         \E s \in Handle(Taken(n), Got(n)[k].ans) : Become(s)
  BY DEF ReadAnswer
<1>2. PICK k \in 1..Len(Got(n)) : \E s \in Handle(Taken(n), Got(n)[k].ans) : Become(s)
  BY <1>1
<1>3. PICK s \in Handle(Taken(n), Got(n)[k].ans) : Become(s)
  BY <1>2
<1>4. Got(n)[k].ans \in Answer
  BY GotType DEF PInv
<1>5. Keeping(Here, Taken(n))
  BY TakenTidy
<1>6. Keeping(Taken(n), s)
  BY <1>3, <1>4, <1>5, HandleTidy DEF Keeping
<1> QED BY <1>3, <1>5, <1>6, KeepingTrans, BecomeTidy

\* Only heads were read: it was one, and its tail comes next.
LEMMA ReadPartialTidy ==
    ASSUME PInv, ReadPartial
    PROVE  Tidy(Here)' /\ (open => open')
<1>1. PICK n \in Chunks : /\ \A i \in 1..Len(Got(n)) : Got(n)[i].half = "head"
                          /\ Become([Taken(n) EXCEPT !.rx = Got(n)])
  BY DEF ReadPartial
<1> DEFINE r == SubSeq(line, n + 1, Len(line))
           q == SubSeq(line, 1, n)
           g == Got(n)
           s == [Taken(n) EXCEPT !.rx = g]
<1>2. /\ Taken(n) \in Sound /\ g \in Seq(HonestPart) /\ open
      /\ Taken(n).line = r /\ Taken(n).open = open
  <2>1. IInv /\ Ready
    BY DEF PInv, ReadPartial
  <2> QED BY <2>1, TakenType, TakenSame, GotType, ReadyOpen
<1>3. s \in Sound /\ s.rx = g /\ s.line = r /\ s.open = open
  BY <1>2 DEF Sound
<1>4. Become(s)
  BY <1>1
<1> HIDE DEF s
<1>5. /\ line \in Seq(HonestPart) /\ rx \in Seq(HonestPart) /\ Paired(line)
      /\ rx = << >> \/ (Len(rx) = 1 /\ line # << >> /\ line[1].half = "tail")
      /\ n \in 1..Len(line) /\ Len(line) \in Nat
  BY PInvHere DEF Chunks
<1>6. q \in Seq(HonestPart) /\ Len(q) = n /\ \A i \in 1..n : q[i] = line[i]
  <2> DEFINE l == Len(line)
  <2>1. n \in 1..l /\ l \in Nat /\ \A i \in 1..n : line[i] \in HonestPart
    BY <1>5
  <2>2. /\ q \in Seq(HonestPart)
        /\ Len(q) = IF 1 <= n THEN n - 1 + 1 ELSE 0
        /\ \A i \in 1..n - 1 + 1 : q[i] = line[1 + i - 1]
    BY <2>1, SubSeqProperties
  <2> HIDE DEF l, q
  <2>3. ASSUME NEW i \in 1..n PROVE q[i] = line[i]
    <3>1. i \in 1..n - 1 + 1 /\ 1 + i - 1 = i
      BY <2>1
    <3> QED BY <2>2, <3>1
  <2> QED BY <2>1, <2>2, <2>3
<1>7. g = rx \o q
  BY DEF Got
<1>8. \A i \in 1..Len(g) : g[i].half = "head"
  BY <1>1
<1> HIDE DEF g, q
<1>9. rx = << >>
  <2> SUFFICES ASSUME rx # << >> PROVE FALSE
    OBVIOUS
  <2>1. Len(rx) = 1 /\ line[1].half = "tail"
    BY <1>5
  <2>2. g[2] = q[1] /\ Len(g) = n + 1
    <3>1. /\ Len(g) = Len(rx) + Len(q)
          /\ \A i \in 1..Len(rx) + Len(q) :
                g[i] = IF i <= Len(rx) THEN rx[i] ELSE q[i - Len(rx)]
      BY <1>5, <1>6, <1>7, ConcatProperties
    <3>2. Len(g) = n + 1 /\ \A i \in 1..n + 1 : g[i] = IF i <= 1 THEN rx[i] ELSE q[i - 1]
      BY <1>5, <1>6, <2>1, <3>1
    <3> QED BY <1>5, <3>2
  <2>3. 2 \in 1..Len(g) /\ 1 \in 1..n
    BY <1>5, <2>2
  <2>4. g[2].half = "tail"
    BY <1>6, <2>1, <2>2, <2>3
  <2> QED BY <1>8, <2>3, <2>4
<1>10. g = q
  BY <1>6, <1>7, <1>9
<1>11. n = 1
  <2> SUFFICES ASSUME n # 1 PROVE FALSE
    OBVIOUS
  <2>1. 1 \in 1..n /\ 2 \in 1..n /\ 1 \in 1..Len(line) /\ 1 + 1 = 2
    BY <1>5
  <2>2. line[1].half = "head" /\ line[2].half = "head"
    BY <1>6, <1>8, <1>10, <2>1
  <2>3. line[2].half = "tail"
    <3>1. line[1 + 1].half = "tail"
      <4>1. \A i \in 1..Len(line) : line[i].half = "head" => line[i + 1].half = "tail"
        BY <1>5 DEF Paired
      <4> QED BY <2>1, <2>2, <4>1, Zenon
    <3> QED BY <2>1, <3>1
  <2> QED BY <2>2, <2>3
<1>12. Len(g) = 1 /\ line[n].half = "head"
  BY <1>5, <1>6, <1>8, <1>10, <1>11
<1>13. Paired(r) /\ r # << >> /\ r[1].half = "tail"
  BY <1>5, <1>12, PairedRest
<1> HIDE DEF r
<1>14. Keeping(Here, s)
  BY <1>2, <1>3, <1>12, <1>13 DEF Keeping, Tidy
<1> QED BY <1>4, <1>14, BecomeTidy

-----------------------------------------------------------------------------
(* The timers and the application *)

LEMMA EnqueueTidy ==
    ASSUME PInv, NEW s \in Sound, SameLine(Here, s), NEW o \in OrderSet,
           Become(Enqueue(s, o))
    PROVE  Tidy(Here)' /\ (open => open')
<1>1. Enqueue(s, o) \in Sound /\ SameLine(s, Enqueue(s, o))
  BY EnqueueType DEF SameLine, Enqueue, Sound
<1>2. Keeping(Here, s)
  BY SameLineTidy DEF PInv
<1>3. Keeping(s, Enqueue(s, o))
  BY <1>1, <1>2, SameLineTidy DEF Keeping
<1> QED BY <1>2, <1>3, KeepingTrans, BecomeTidy

LEMMA ScanDevTidy ==
    ASSUME PInv, ScanDev
    PROVE  Tidy(Here)' /\ (open => open')
<1>1. PICK s \in Reopen(Here) :
         Become([s EXCEPT !.fresh = FALSE,
                          !.unit = [d \in Slots |->
                              IF d = 0 THEN @[d] ELSE [@[d] EXCEPT !.timeouts = 0]]])
  BY DEF ScanDev
<1>2. Here \in Sound /\ s \in Sound
  BY <1>1, PInvHere, ReopenType
<1>3. Tidy(s) /\ (open => s.open)
  <2>1. CASE s = Here
    BY <2>1, PInvHere DEF PInv
  <2>2. CASE ~Here.open /\ s = Arm([Here EXCEPT !.open = TRUE, !.line = << >>])
    <3>1. Here.rx = << >> /\ ~open
      BY <2>2, PInvHere DEF PInv, Tidy
    <3>2. s.rx = Here.rx /\ s.line = << >>
      BY <2>2 DEF Arm, Here
    <3> QED BY <3>1, <3>2 DEF Tidy, Paired
  <2> QED BY <1>1, <2>1, <2>2 DEF Reopen
<1> DEFINE v == [d \in Slots |-> IF d = 0 THEN s.unit[d] ELSE [s.unit[d] EXCEPT !.timeouts = 0]]
           t == [s EXCEPT !.fresh = FALSE, !.unit = v]
<1>4. Become(t)
  BY <1>1
<1> HIDE DEF v
<1>5. t.rx = s.rx /\ t.line = s.line /\ t.open = s.open
  BY <1>2 DEF Sound
<1> HIDE DEF t
<1>6. Here'.rx = t.rx /\ Here'.line = t.line /\ Here'.open = t.open /\ open' = t.open
  BY <1>4 DEF Become, Here
<1> QED BY <1>3, <1>5, <1>6 DEF Tidy

LEMMA ScanLogTidy ==
    ASSUME PInv, ScanLog
    PROVE  Tidy(Here)' /\ (open => open')
<1>1. PICK f \in InOrder(Active(Here)) : Become(Enqueue(Here, LogOrders(f)))
  BY DEF ScanLog
<1>2. LogOrders(f) \in OrderSet
  BY <1>1, ActiveType, LogOrdersType, PlainOrdersType
<1> QED BY <1>1, <1>2, PInvHere, HereSame, EnqueueTidy

LEMMA CallTidy ==
    ASSUME PInv, Call
    PROVE  Tidy(Here)' /\ (open => open')
<1>1. PICK call \in AppCalls \cap Calls, d \in Devices, e \in Devices :
         /\ call = "open" => MayAsk(Here)
         /\ Become(Enqueue(Marked(IF call = "open" THEN Ask(Here, TRUE) ELSE Here, call, d, e),
                           CallOrders(call, d, Door(Here))))
  BY DEF Call
<1> DEFINE s == IF call = "open" THEN Ask(Here, TRUE) ELSE Here
           m == Marked(s, call, d, e)
<1>2. Here \in Sound /\ (call = "open" => Ask(Here, TRUE) \in Sound)
  BY <1>1, PInvHere, AskType
<1>3. SameLine(Here, Ask(Here, TRUE))
  BY DEF SameLine, Ask, Here
<1>4. s \in Sound /\ SameLine(Here, s)
  BY <1>2, <1>3, HereSame
<1>5. Become(Enqueue(m, CallOrders(call, d, Door(Here))))
  BY <1>1
<1> HIDE DEF s
<1>6. m \in Sound /\ SameLine(s, m)
  <2> DEFINE v == [c \in Slots |->
                     CASE c = d -> [s.unit[c] EXCEPT !.activ = FALSE]
                       [] c = e /\ c # d -> [s.unit[c] EXCEPT !.activ = TRUE]
                       [] OTHER -> s.unit[c]]
  <2>1. m = s \/ m = [s EXCEPT !.unit = v]
    BY DEF Marked
  <2>2. m \in Sound
    BY <1>4, MarkedType
  <2> HIDE DEF v, m
  <2> QED BY <1>4, <2>1, <2>2 DEF SameLine, Sound
<1> HIDE DEF m
<1>7. SameLine(Here, m)
  BY <1>4, <1>6 DEF SameLine
<1>8. Door(Here) \in Nat /\ (call = "open" => Door(Here) \in 0..MaxDoors)
  <2>1. Here.asked \in 0..MaxDoors
    BY <1>2 DEF Sound
  <2> QED BY <1>1, <2>1 DEF Door, MayAsk
<1>9. CallOrders(call, d, Door(Here)) \in OrderSet
  BY <1>8, CallOrdersType
<1> QED BY <1>5, <1>6, <1>7, <1>9, EnqueueTidy

LEMMA CallAllTidy ==
    ASSUME PInv, CallAll
    PROVE  Tidy(Here)' /\ (open => open')
<1>1. PICK o \in {SchedOrders(f) : f \in InOrder(Active(Here))} \cup cmd_add_cid_to_all(Here) :
         Become(Enqueue(Here, o))
  BY DEF CallAll
<1>2. Here \in Sound
  BY PInvHere
<1>3. o \in OrderSet
  <2>1. CASE o \in {SchedOrders(f) : f \in InOrder(Active(Here))}
    BY <2>1, ActiveType, SchedOrdersType, PlainOrdersType
  <2>2. CASE o \in cmd_add_cid_to_all(Here)
    <3>1. 0 \in Slots
      BY DEF Slots
    <3> QED BY <1>2, <2>2, <3>1, CardJobsType, PlainOrdersType
  <2> QED BY <1>1, <2>1, <2>2
<1> QED BY <1>1, <1>2, <1>3, HereSame, EnqueueTidy

LEMMA StutterTidy ==
    ASSUME PInv, UNCHANGED vars
    PROVE  Tidy(Here)' /\ (open => open')
<1>1. Here' = Here /\ open' = open
  BY DEF vars, Here
<1> QED BY <1>1 DEF PInv, Tidy

\* The handlers that close the port do not run.
LEMMA NothingCloses ==
    ASSUME PInv, Faults = {}
    PROVE  ~ReadError /\ ~ReadNothing /\ ~Lose
<1>1. Len(rx) \in {0, 1}
  BY PInvHere
<1>2. Len(rx) # RxRoom
  BY <1>1
<1> QED BY <1>2 DEF ReadError, ReadNothing, Lose

-----------------------------------------------------------------------------
(* The theorem *)

LEMMA InitTidy == Init => PInv
<1>1. Init => Tidy(Here)
  BY DEF Init, Tidy, Paired, Here
<1> QED BY <1>1, InitType DEF PInv

LEMMA PortStep ==
    ASSUME Faults = {}, PInv, [Next]_vars
    PROVE  PInv' /\ (open => open')
<1>1. IInv'
  BY NextStep DEF PInv
<1>2. Tidy(Here)' /\ (open => open')
  <2>1. CASE PortEvent
    BY <2>1, TimeoutDueTidy, NothingCloses, ReadNoInitTidy, ReadPartialTidy,
       ReadBadFrameTidy, ReadAnswerTidy DEF PortEvent, Read
  <2>2. CASE Rest
    BY <2>2, NothingCloses, TimeoutEarlyTidy, ScanDevTidy, ScanLogTidy, CallTidy,
       CallAllTidy, StutterTidy DEF Rest, Exited
  <2>3. CASE UNCHANGED vars
    BY <2>3, StutterTidy
  <2> QED BY <2>1, <2>2, <2>3 DEF Next
<1> QED BY <1>1, <1>2 DEF PInv

\* An open port stays open while nothing is lost on the line and no read or
\* write fails: heads of answers never pile up in receiv_mess.buf, so gp_receiv
\* never reads 0 bytes (PortKept).  The lost parts of the run that violates
\* PortKept are what it takes.
THEOREM PortStays ==
    ASSUME Faults = {}
    PROVE  Spec => PortKept
<1>1. Init => PInv
  BY InitTidy
<1>2. PInv /\ [Next]_vars => PInv' /\ [open => open']_vars
  BY PortStep
<1> QED BY <1>1, <1>2, PTL DEF Spec, PortKept
=============================================================================
