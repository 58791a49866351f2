--------------------------- MODULE GateDoorsProofs ---------------------------
(***************************************************************************)
(* The bus master implements DoorService, for any number of openings, any  *)
(* number of controllers, any load and any faults.                         *)
(***************************************************************************)
EXTENDS GateDoors, GateBusProofs

\* The openings whose TURN_ON waits in a queue.
Waiting(q) == {q[i].door : i \in 1..Len(q)} \ {0}

\* They stand in a queue in the order they were asked for.
Rising(q) ==
    \A i, j \in 1..Len(q) :
        i < j /\ q[i].door # 0 /\ q[j].door # 0 => q[i].door < q[j].door

\* The inductive invariant: gp_head holds what operators asked for, gp_head2
\* what cards asked for, in order and none of it written before; nothing is
\* written twice, and nothing before it was asked for.
DoorsInv(s) ==
    /\ s.urgent \subseteq 1..s.asked
    /\ Waiting(s.first) \subseteq s.urgent /\ Rising(s.first)
    /\ Waiting(s.second) \subseteq (1..s.asked) \ s.urgent /\ Rising(s.second)
    /\ \A n \in Waiting(s.first) \cup Waiting(s.second) : s.opens[n] = 0
    /\ \A n \in Doors : s.opens[n] \in {0, 1} /\ (s.asked < n => s.opens[n] = 0)

\* Fate, in the states the invariant admits.
FateIn(s, n) ==
    CASE s.asked < n -> "idle"
      [] ~(s.asked < n) /\ n \in Waiting(s.first) \cup Waiting(s.second) -> "pending"
      [] ~(s.asked < n) /\ n \notin Waiting(s.first) \cup Waiting(s.second) ->
            IF s.opens[n] = 0 THEN "lost" ELSE "opened"

-----------------------------------------------------------------------------
(* Queues *)

LEMMA PlainMore ==
    ASSUME NEW q \in Seq(QueuedCommand), NEW p \in Seq(PlainCommand)
    PROVE  Waiting(q \o p) = Waiting(q) /\ (Rising(q) => Rising(q \o p))
<1>1. p \in Seq(QueuedCommand)
  <2>1. PlainCommand \subseteq QueuedCommand
    BY DEF PlainCommand
  <2> QED BY <2>1, SeqMonotonic
<1>2. \A i \in 1..Len(p) : p[i].door = 0
  BY ElementOfSeq DEF PlainCommand
<1> DEFINE r == q \o p
<1>3. /\ Len(q) \in Nat /\ Len(p) \in Nat /\ Len(r) = Len(q) + Len(p)
      /\ \A i \in 1..Len(q) + Len(p) : r[i] = IF i <= Len(q) THEN q[i] ELSE p[i - Len(q)]
  BY <1>1, ConcatProperties, LenProperties
<1> HIDE DEF r
<1>4. \A i \in 1..Len(r) : \/ i \in 1..Len(q) /\ r[i] = q[i]
                           \/ i \notin 1..Len(q) /\ r[i].door = 0
  BY <1>2, <1>3
<1>5. \A i \in 1..Len(q) : i \in 1..Len(r) /\ r[i] = q[i]
  BY <1>3
<1>6. Waiting(r) = Waiting(q)
  BY <1>4, <1>5 DEF Waiting
<1>7. Rising(q) => Rising(r)
  BY <1>4 DEF Rising
<1> QED BY <1>6, <1>7 DEF r

\* A request goes to the end of its queue.
LEMMA OneMore ==
    ASSUME NEW q \in Seq(QueuedCommand), NEW c \in QueuedCommand, c.door # 0,
           \A n \in Waiting(q) : n < c.door
    PROVE  /\ Waiting(q \o <<c>>) = Waiting(q) \cup {c.door}
           /\ Rising(q) => Rising(q \o <<c>>)
<1> DEFINE p == <<c>>
           r == q \o p
<1>1. p \in Seq(QueuedCommand) /\ Len(p) = 1 /\ p[1] = c
  OBVIOUS
<1> HIDE DEF p
<1>2. /\ Len(q) \in Nat /\ Len(r) = Len(q) + Len(p)
      /\ \A i \in 1..Len(q) + Len(p) : r[i] = IF i <= Len(q) THEN q[i] ELSE p[i - Len(q)]
  BY <1>1, ConcatProperties, LenProperties
<1> HIDE DEF r
<1>3. \A i \in 1..Len(r) : \/ i \in 1..Len(q) /\ r[i] = q[i]
                           \/ i = Len(r) /\ i \notin 1..Len(q) /\ r[i] = c
  BY <1>1, <1>2
<1>4. \A i \in 1..Len(q) : i \in 1..Len(r) /\ r[i] = q[i]
  BY <1>1, <1>2
<1>5. Len(r) \in 1..Len(r) /\ r[Len(r)] = c
  BY <1>1, <1>2
<1>6. Waiting(r) = Waiting(q) \cup {c.door}
  BY <1>3, <1>4, <1>5 DEF Waiting
<1>7. ASSUME Rising(q) PROVE Rising(r)
  <2> SUFFICES ASSUME NEW i \in 1..Len(r), NEW j \in 1..Len(r), i < j,
                      r[i].door # 0, r[j].door # 0
               PROVE  r[i].door < r[j].door
    BY DEF Rising
  <2>1. CASE j \in 1..Len(q)
    <3>1. i \in 1..Len(q)
      BY <1>2, <2>1
    <3> QED BY <1>4, <1>7, <2>1, <3>1 DEF Rising
  <2>2. CASE j \notin 1..Len(q)
    <3>1. j = Len(r) /\ r[j] = c
      BY <1>3, <2>2
    <3>2. i \in 1..Len(q) /\ r[i] = q[i]
      BY <1>3, <3>1
    <3>3. r[i].door \in Waiting(q)
      BY <3>2 DEF Waiting
    <3> QED BY <3>1, <3>3
  <2> QED BY <2>1, <2>2
<1> QED BY <1>6, <1>7 DEF r, p

\* The head of a queue is the request that waited longest.
LEMMA Popped ==
    ASSUME NEW q \in Seq(QueuedCommand), q # << >>, Rising(q)
    PROVE  /\ Head(q) \in QueuedCommand /\ Tail(q) \in Seq(QueuedCommand)
           /\ Rising(Tail(q))
           /\ Head(q).door = 0 => Waiting(Tail(q)) = Waiting(q)
           /\ Head(q).door # 0 => /\ Waiting(q) = Waiting(Tail(q)) \cup {Head(q).door}
                                  /\ \A n \in Waiting(Tail(q)) : Head(q).door < n
<1> DEFINE h == Head(q)
           t == Tail(q)
<1>1. /\ h \in QueuedCommand /\ t \in Seq(QueuedCommand)
      /\ Len(t) = Len(q) - 1 /\ Len(q) \in Nat /\ Len(q) >= 1
      /\ \A i \in 1..Len(t) : t[i] = q[i + 1]
      /\ h = q[1]
  BY HeadTailProperties, EmptySeq, LenProperties
<1> HIDE DEF h, t
<1>2. /\ \A i \in 1..Len(t) : i + 1 \in 1..Len(q) /\ t[i] = q[i + 1]
      /\ \A i \in 1..Len(q) : i = 1 \/ (i - 1 \in 1..Len(t) /\ q[i] = t[i - 1])
      /\ 1 \in 1..Len(q)
  BY <1>1
<1>3. Rising(t)
  <2> SUFFICES ASSUME NEW i \in 1..Len(t), NEW j \in 1..Len(t), i < j,
                      t[i].door # 0, t[j].door # 0
               PROVE  t[i].door < t[j].door
    BY DEF Rising
  <2>1. i + 1 < j + 1
    OBVIOUS
  <2> QED BY <1>2, <2>1 DEF Rising
<1>4. Waiting(q) = Waiting(t) \cup ({h.door} \ {0})
  BY <1>1, <1>2 DEF Waiting
<1>5. ASSUME h.door # 0, NEW n \in Waiting(t) PROVE h.door < n
  <2>1. PICK i \in 1..Len(t) : n = t[i].door /\ n # 0
    BY <1>5 DEF Waiting
  <2>2. i + 1 \in 1..Len(q) /\ 1 < i + 1 /\ q[i + 1].door = n
    BY <1>2, <2>1
  <2> QED BY <1>1, <1>2, <1>5, <2>1, <2>2 DEF Rising
<1> QED BY <1>1, <1>3, <1>4, <1>5 DEF h, t

LEMMA Regroup ==
    ASSUME NEW a \in Seq(QueuedCommand), NEW b \in Seq(QueuedCommand),
           NEW c \in Seq(QueuedCommand)
    PROVE  a \o (b \o c) = (a \o b) \o c /\ a \o b \in Seq(QueuedCommand)
<1>1. a \o (b \o c) = (a \o b) \o c
  BY ConcatAssociative
<1>2. a \o b \in Seq(QueuedCommand)
  BY JoinType
<1> QED BY <1>1, <1>2

LEMMA WaitingDoors ==
    ASSUME NEW q \in Seq(QueuedCommand)
    PROVE  Waiting(q) \subseteq Doors
<1>1. \A i \in 1..Len(q) : q[i] \in QueuedCommand
  BY ElementOfSeq
<1>2. \A c \in QueuedCommand : c.door \in 0..MaxDoors
  BY DEF QueuedCommand, Command
<1> QED BY <1>1, <1>2 DEF Waiting, Doors

-----------------------------------------------------------------------------
(* What a run of a function may do to the openings *)

USE CommandsAssumption, BusAssumption

SameDoors(s, t) == t.asked = s.asked /\ t.urgent = s.urgent /\ t.opens = s.opens

\* It neither asks for an opening nor settles one.
Quiet(s, t) ==
    /\ SameDoors(s, t)
    /\ Waiting(t.first) = Waiting(s.first) /\ (Rising(s.first) => Rising(t.first))
    /\ Waiting(t.second) = Waiting(s.second) /\ (Rising(s.second) => Rising(t.second))

\* It settles one, the one that is due.
Settles(s, t) ==
    /\ t.urgent = s.urgent
    /\ \E n \in Doors :
         /\ FateIn(s, n) = "pending"
         /\ \A m \in Doors : FateIn(s, m) = "pending" =>
               ~(IF (m \in s.urgent) = (n \in s.urgent) THEN m < n ELSE m \in s.urgent)
         /\ FateIn(t, n) \in {"opened", "lost"}
         /\ \A m \in Doors : m # n => FateIn(t, m) = FateIn(s, m)

\* It asks for the next one.
Requests(s, t) ==
    \E n \in Doors :
       /\ FateIn(s, n) = "idle" /\ \A m \in 1..n - 1 : FateIn(s, m) # "idle"
       /\ FateIn(t, n) = "pending"
       /\ \A m \in Doors : m # n => FateIn(t, m) = FateIn(s, m)
       /\ t.urgent \in {s.urgent, s.urgent \cup {n}}

LEMMA QuietKeeps ==
    ASSUME NEW s, NEW t, Quiet(s, t)
    PROVE  /\ DoorsInv(s) => DoorsInv(t)
           /\ \A n : FateIn(t, n) = FateIn(s, n)
           /\ t.urgent = s.urgent
  BY DEF Quiet, SameDoors, DoorsInv, FateIn

LEMMA QuietTrans ==
    ASSUME NEW s, NEW t, NEW u, Quiet(s, t), Quiet(t, u)
    PROVE  Quiet(s, u)
  BY DEF Quiet, SameDoors

\* A settled request stays settled, whatever quiet steps surround it.
LEMMA QuietAround ==
    ASSUME NEW s, NEW t, NEW u, NEW v, Quiet(s, t), Quiet(u, v)
    PROVE  /\ Settles(t, u) => Settles(s, v)
           /\ Requests(t, u) => Requests(s, v)
<1>1. /\ \A n : FateIn(t, n) = FateIn(s, n) /\ FateIn(v, n) = FateIn(u, n)
      /\ t.urgent = s.urgent /\ v.urgent = u.urgent
  BY QuietKeeps
<1>2. Settles(t, u) => Settles(s, v)
  BY <1>1 DEF Settles
<1>3. Requests(t, u) => Requests(s, v)
  BY <1>1 DEF Requests
<1> QED BY <1>2, <1>3

LEMMA QuietSelf == \A s : Quiet(s, s)
  BY DEF Quiet, SameDoors

\* Nothing the openings depend on differs.
Alike(s, t) == SameDoors(s, t) /\ t.first = s.first /\ t.second = s.second

LEMMA AlikeQuiet ==
    ASSUME NEW s, NEW t, Alike(s, t)
    PROVE  Quiet(s, t)
  BY DEF Alike, Quiet

LEMMA EnqueueQuiet ==
    ASSUME NEW s \in Sound, NEW o \in PlainOrders
    PROVE  Quiet(s, Enqueue(s, o)) /\ Enqueue(s, o) \in Sound
<1> DEFINE t == Enqueue(s, o)
<1>1. /\ s.first \in Seq(QueuedCommand) /\ s.second \in Seq(QueuedCommand)
      /\ o.first \in Seq(PlainCommand) /\ o.second \in Seq(PlainCommand)
  BY DEF Sound, PlainOrders
<1>2. t \in Sound
  BY PlainOrdersType, EnqueueType
<1>3. t.first = s.first \o o.first /\ t.second = s.second \o o.second /\ SameDoors(s, t)
  BY DEF Enqueue, SameDoors, Sound
<1> HIDE DEF t
<1>4. /\ Waiting(t.first) = Waiting(s.first) /\ (Rising(s.first) => Rising(t.first))
      /\ Waiting(t.second) = Waiting(s.second) /\ (Rising(s.second) => Rising(t.second))
  BY <1>1, <1>3, PlainMore
<1> QED BY <1>2, <1>3, <1>4 DEF Quiet, t

\* gp_send leaves the queues alone; it counts the opening it writes, if any.
LEMMA SendDoors ==
    ASSUME NEW s \in Sound, NEW c, MaySend(s, c), NEW t \in gp_send(s, c)
    PROVE  /\ t \in Sound /\ t.first = s.first /\ t.second = s.second
           /\ t.asked = s.asked /\ t.urgent = s.urgent
           /\ \/ t.opens = s.opens
              \/ /\ c.door # 0 /\ c.door \in Doors /\ s.opens[c.door] # 2
                 /\ t.opens = [s.opens EXCEPT ![c.door] = s.opens[c.door] + 1]
<1> DEFINE r == Remember(s, c)
           Same(a, b) == /\ b.first = a.first /\ b.second = a.second
                         /\ b.asked = a.asked /\ b.urgent = a.urgent
<1>0. t \in Sound /\ c \in Command
  BY SendType DEF MaySend
<1>1. r \in Sound /\ Same(s, r) /\ r.opens = s.opens
  BY <1>0 DEF MaySend, Remember, Sound, SendMess, Command
<1>2. t \in gp_resend(r, c)
  BY DEF gp_send
<1> HIDE DEF r
<1>3. CASE t = [r EXCEPT !.run = FALSE, !.done = FALSE]
  BY <1>0, <1>1, <1>3 DEF Sound
<1>4. CASE t = Return(Arm(r), FALSE)
  BY <1>0, <1>1, <1>4 DEF Return, Arm, Sound
<1>5. CASE t = Return(gp_close(r), FALSE)
  BY <1>0, <1>1, <1>5 DEF Return, gp_close, Sound
<1>6. CASE \E p \in Replies(r, c) : t = Return([Count(Arm(r), c.door) EXCEPT !.line = @ \o p], TRUE)
  <2> DEFINE a == Arm(r)
             u == Count(a, c.door)
  <2>1. a \in Sound /\ c.door \in 0..MaxDoors
    BY <1>0, <1>1, PortType DEF Command
  <2>2. Same(r, a) /\ a.opens = r.opens
    BY <1>1 DEF Arm, Sound
  <2> HIDE DEF a
  <2>3. /\ u \in Sound /\ Same(a, u)
        /\ \/ u.opens = a.opens
           \/ /\ c.door # 0 /\ c.door \in Doors /\ a.opens[c.door] # 2
              /\ u.opens = [a.opens EXCEPT ![c.door] = a.opens[c.door] + 1]
    <3>1. u \in Sound
      BY <2>1, CountType
    <3>2. CASE c.door = 0 \/ a.opens[c.door] = 2
      BY <2>1, <3>2 DEF Count
    <3>3. CASE c.door # 0 /\ a.opens[c.door] # 2
      <4> DEFINE w == [a.opens EXCEPT ![c.door] = a.opens[c.door] + 1]
      <4>1. u = [a EXCEPT !.opens = w]
        BY <3>3 DEF Count
      <4> HIDE DEF u, w
      <4>2. Same(a, u) /\ u.opens = w
        BY <2>1, <4>1 DEF Sound
      <4> QED BY <2>1, <3>1, <3>3, <4>2 DEF Doors, u, w
    <3> QED BY <3>1, <3>2, <3>3
  <2> HIDE DEF u
  <2>4. Same(u, t) /\ t.opens = u.opens
    BY <1>6, <2>3 DEF Return, Sound, u, a
  <2> QED BY <1>0, <1>1, <2>2, <2>3, <2>4
<1> QED BY <1>2, <1>3, <1>4, <1>5, <1>6 DEF gp_resend

LEMMA SendQuiet ==
    ASSUME NEW s \in Sound, NEW c, MaySend(s, c), c.door = 0, NEW t \in gp_send(s, c)
    PROVE  Quiet(s, t) /\ t \in Sound
<1>1. t \in Sound /\ Alike(s, t)
  BY SendDoors DEF Alike, SameDoors
<1> QED BY <1>1, AlikeQuiet

-----------------------------------------------------------------------------
(* gp_put_cmd settles the request that is due *)

\* What FateIn says under the invariant, request by request.
LEMMA FateFacts ==
    ASSUME NEW s \in Sound, DoorsInv(s), NEW n \in Doors
    PROVE  /\ FateIn(s, n) = "pending" <=> n \in Waiting(s.first) \cup Waiting(s.second)
           /\ FateIn(s, n) = "idle" <=> s.asked < n
           /\ s.asked < n => n \notin Waiting(s.first) \cup Waiting(s.second)
<1>1. s.asked \in Nat /\ n \in Nat
  BY DEF Sound, Doors
<1>2. Waiting(s.first) \cup Waiting(s.second) \subseteq 1..s.asked
  BY DEF DoorsInv
<1> QED BY <1>1, <1>2 DEF FateIn

\* n left its queue and was written at most once; it was the next one due.
LEMMA SettleStep ==
    ASSUME NEW s \in Sound, DoorsInv(s), NEW t \in Sound, NEW n \in Doors,
           t.asked = s.asked, t.urgent = s.urgent,
           \/ t.opens = s.opens
           \/ t.opens = [s.opens EXCEPT ![n] = s.opens[n] + 1],
           Rising(t.first), Rising(t.second),
           \/ /\ Waiting(s.first) = Waiting(t.first) \cup {n}
              /\ \A m \in Waiting(t.first) : n < m
              /\ Waiting(t.second) = Waiting(s.second)
           \/ /\ Waiting(s.first) = {} /\ Waiting(t.first) = {}
              /\ Waiting(s.second) = Waiting(t.second) \cup {n}
              /\ \A m \in Waiting(t.second) : n < m
    PROVE  DoorsInv(t) /\ Settles(s, t)
<1> DEFINE W == Waiting(s.first) \cup Waiting(s.second)
           V == Waiting(t.first) \cup Waiting(t.second)
<1>1. /\ s.asked \in Nat /\ s.opens \in [Doors -> 0..2] /\ n \in Nat
      /\ W \subseteq 1..s.asked /\ Waiting(s.first) \subseteq s.urgent
      /\ Waiting(s.second) \cap s.urgent = {}
      /\ W \subseteq Doors /\ \A m \in W : s.opens[m] = 0
  <2>1. s.first \in Seq(QueuedCommand) /\ s.second \in Seq(QueuedCommand)
    BY DEF Sound
  <2>2. Waiting(s.first) \subseteq Doors /\ Waiting(s.second) \subseteq Doors
    BY <2>1, WaitingDoors
  <2> QED BY <2>2 DEF Sound, DoorsInv, Doors
<1>2. W = V \cup {n} /\ n \in W /\ n \notin V
  <2>1. n \notin Waiting(t.first) /\ n \notin Waiting(t.second)
    BY <1>1
  <2> QED BY <2>1
<1>3. s.opens[n] = 0 /\ n <= s.asked
  BY <1>1, <1>2
<1>4. /\ \A m \in Doors : m # n => t.opens[m] = s.opens[m]
      /\ t.opens[n] \in {0, 1}
  BY <1>1, <1>3
<1>5. DoorsInv(t)
  <2>1. t.urgent \subseteq 1..t.asked
    BY DEF DoorsInv
  <2>2. Waiting(t.first) \subseteq t.urgent /\ Waiting(t.second) \subseteq (1..t.asked) \ t.urgent
    BY DEF DoorsInv
  <2>3. \A m \in V : t.opens[m] = 0
    BY <1>1, <1>2, <1>4
  <2>4. \A m \in Doors : t.opens[m] \in {0, 1} /\ (t.asked < m => t.opens[m] = 0)
    <3>1. \A m \in Doors : s.opens[m] \in {0, 1} /\ (s.asked < m => s.opens[m] = 0)
      BY DEF DoorsInv
    <3> QED BY <1>1, <1>3, <1>4, <3>1
  <2> QED BY <2>1, <2>2, <2>3, <2>4 DEF DoorsInv
<1>6. Settles(s, t)
  <2>1. FateIn(s, n) = "pending"
    BY <1>2, FateFacts
  <2>2. ASSUME NEW m \in Doors, FateIn(s, m) = "pending"
        PROVE  ~(IF (m \in s.urgent) = (n \in s.urgent) THEN m < n ELSE m \in s.urgent)
    <3>1. m \in W /\ m \in Nat
      BY <2>2, FateFacts DEF Doors
    <3>2. CASE n \in Waiting(s.first)
      <4>1. Waiting(s.first) = Waiting(t.first) \cup {n} /\ \A k \in Waiting(t.first) : n < k
        BY <3>2
      <4>2. n \in s.urgent
        BY <1>1, <3>2
      <4>3. m \in s.urgent => m \in Waiting(s.first)
        BY <1>1, <3>1
      <4> QED BY <1>1, <3>1, <4>1, <4>2, <4>3
    <3>3. CASE n \notin Waiting(s.first)
      <4>1. /\ Waiting(s.first) = {}
            /\ Waiting(s.second) = Waiting(t.second) \cup {n}
            /\ \A k \in Waiting(t.second) : n < k
        BY <3>3
      <4>2. n \notin s.urgent /\ m \notin s.urgent
        BY <1>1, <1>2, <3>1, <4>1
      <4> QED BY <1>1, <3>1, <4>1, <4>2
    <3> QED BY <3>2, <3>3
  <2>3. FateIn(t, n) \in {"opened", "lost"}
    BY <1>1, <1>2, <1>3 DEF FateIn
  <2>4. \A m \in Doors : m # n => FateIn(t, m) = FateIn(s, m)
    <3>1. \A m : m # n => (m \in V <=> m \in W)
      BY <1>2
    <3> QED BY <1>4, <3>1 DEF FateIn
  <2> QED BY <2>1, <2>2, <2>3, <2>4 DEF Settles
<1> QED BY <1>5, <1>6

LEMMA PutCmdDoors ==
    ASSUME NEW s \in Sound, DoorsInv(s), NEW t \in gp_put_cmd(s)
    PROVE  t \in Sound /\ DoorsInv(t) /\ (Quiet(s, t) \/ Settles(s, t))
<1>0. t \in Sound /\ s.run \in BOOLEAN
  BY PutCmdType DEF Kept, Sound
<1>1. ASSUME Quiet(s, t) PROVE DoorsInv(t)
  BY <1>1, QuietKeeps
<1>2. CASE ~s.run
  <2>1. t = s
    BY <1>2 DEF gp_put_cmd
  <2> QED BY <2>1, QuietSelf
<1>3. CASE s.run /\ s.first # << >>
  <2> DEFINE u == [s EXCEPT !.first = Tail(@)]
             c == Head(s.first)
  <2>1. s.first \in Seq(QueuedCommand) /\ Rising(s.first) /\ Rising(s.second)
    BY DEF Sound, DoorsInv
  <2>2. /\ c \in QueuedCommand /\ Tail(s.first) \in Seq(QueuedCommand)
        /\ Rising(Tail(s.first))
        /\ c.door = 0 => Waiting(Tail(s.first)) = Waiting(s.first)
        /\ c.door # 0 => /\ Waiting(s.first) = Waiting(Tail(s.first)) \cup {c.door}
                         /\ \A n \in Waiting(Tail(s.first)) : c.door < n
    BY <1>3, <2>1, Popped
  <2>3. /\ u \in Sound /\ u.first = Tail(s.first) /\ u.second = s.second
        /\ u.asked = s.asked /\ u.urgent = s.urgent /\ u.opens = s.opens
    BY <2>2 DEF Sound
  <2>4. t \in gp_send(u, c)
    BY <1>3 DEF gp_put_cmd
  <2> HIDE DEF u, c
  <2>5. /\ t.first = Tail(s.first) /\ t.second = s.second
        /\ t.asked = s.asked /\ t.urgent = s.urgent
        /\ \/ t.opens = s.opens
           \/ c.door # 0 /\ t.opens = [s.opens EXCEPT ![c.door] = s.opens[c.door] + 1]
    <3>1. MaySend(u, c)
      BY <2>2, <2>3, MaySendQueued
    <3>2. /\ t.first = u.first /\ t.second = u.second
          /\ t.asked = u.asked /\ t.urgent = u.urgent
          /\ \/ t.opens = u.opens
             \/ c.door # 0 /\ t.opens = [u.opens EXCEPT ![c.door] = u.opens[c.door] + 1]
      BY <2>3, <2>4, <3>1, SendDoors
    <3> QED BY <2>3, <3>2
  <2>6. CASE c.door = 0
    BY <1>0, <1>1, <2>1, <2>2, <2>5, <2>6 DEF Quiet, SameDoors
  <2>7. CASE c.door # 0
    <3>1. c.door \in Doors
      BY <2>2, <2>7 DEF QueuedCommand, Command, Doors
    <3>2. DoorsInv(t) /\ Settles(s, t)
      BY <1>0, <2>1, <2>2, <2>5, <2>7, <3>1, SettleStep
    <3> QED BY <1>0, <3>2
  <2> QED BY <2>6, <2>7
<1>4. CASE s.run /\ s.first = << >> /\ s.second # << >>
  <2> DEFINE u == [s EXCEPT !.second = Tail(@)]
             c == Head(s.second)
  <2>1. /\ s.second \in Seq(QueuedCommand) /\ Rising(s.first) /\ Rising(s.second)
        /\ Waiting(s.first) = {}
    BY <1>4 DEF Sound, DoorsInv, Waiting
  <2>2. /\ c \in QueuedCommand /\ Tail(s.second) \in Seq(QueuedCommand)
        /\ Rising(Tail(s.second))
        /\ c.door = 0 => Waiting(Tail(s.second)) = Waiting(s.second)
        /\ c.door # 0 => /\ Waiting(s.second) = Waiting(Tail(s.second)) \cup {c.door}
                         /\ \A n \in Waiting(Tail(s.second)) : c.door < n
    BY <1>4, <2>1, Popped
  <2>3. /\ u \in Sound /\ u.first = s.first /\ u.second = Tail(s.second)
        /\ u.asked = s.asked /\ u.urgent = s.urgent /\ u.opens = s.opens
    BY <2>2 DEF Sound
  <2>4. t \in gp_send(u, c)
    BY <1>4 DEF gp_put_cmd
  <2> HIDE DEF u, c
  <2>5. /\ t.first = s.first /\ t.second = Tail(s.second)
        /\ t.asked = s.asked /\ t.urgent = s.urgent
        /\ \/ t.opens = s.opens
           \/ c.door # 0 /\ t.opens = [s.opens EXCEPT ![c.door] = s.opens[c.door] + 1]
    <3>1. MaySend(u, c)
      BY <2>2, <2>3, MaySendQueued
    <3>2. /\ t.first = u.first /\ t.second = u.second
          /\ t.asked = u.asked /\ t.urgent = u.urgent
          /\ \/ t.opens = u.opens
             \/ c.door # 0 /\ t.opens = [u.opens EXCEPT ![c.door] = u.opens[c.door] + 1]
      BY <2>3, <2>4, <3>1, SendDoors
    <3> QED BY <2>3, <3>2
  <2>6. CASE c.door = 0
    BY <1>0, <1>1, <2>1, <2>2, <2>5, <2>6 DEF Quiet, SameDoors
  <2>7. CASE c.door # 0
    <3>1. c.door \in Doors
      BY <2>2, <2>7 DEF QueuedCommand, Command, Doors
    <3>2. DoorsInv(t) /\ Settles(s, t)
      BY <1>0, <2>1, <2>2, <2>5, <2>7, <3>1, SettleStep
    <3> QED BY <1>0, <3>2
  <2> QED BY <2>6, <2>7
<1>5. CASE s.run /\ s.first = << >> /\ s.second = << >>
  <2>1. t = Return(s, FALSE)
    BY <1>5 DEF gp_put_cmd
  <2>2. Alike(s, t)
    BY <2>1 DEF Return, Alike, SameDoors, Sound
  <2> QED BY <1>0, <1>1, <2>2, AlikeQuiet
<1> QED BY <1>0, <1>2, <1>3, <1>4, <1>5

\* Polling opens no door.
LEMMA SendIdleQuiet ==
    ASSUME NEW s \in Sound, NEW t \in gp_send_idle(s)
    PROVE  Quiet(s, t) /\ t \in Sound
<1>0. t \in Sound /\ s.run \in BOOLEAN
  BY SendIdleType DEF Kept, Sound
<1>1. CASE ~s.run
  <2>1. t = s
    BY <1>1 DEF gp_send_idle
  <2> QED BY <2>1, QuietSelf
<1>2. CASE s.run /\ Ahead(s) = {}
  <2>1. t = Return(Skip(s, MaxDev + 1), FALSE)
    BY <1>2 DEF gp_send_idle
  <2>2. Alike(s, t)
    BY <2>1 DEF Return, Skip, Alike, SameDoors, Sound
  <2> QED BY <1>0, <2>2, AlikeQuiet
<1>3. CASE s.run /\ Ahead(s) # {}
  <2>1. PICK d \in Turn(s) : t \in gp_send(Skip(s, d), PollCid(d))
    BY <1>3 DEF gp_send_idle
  <2>2. d \in Slots /\ d \in 0..MaxDev + 1
    BY DEF Turn, Ahead, Devices, Slots
  <2>3. Skip(s, d) \in Sound /\ Alike(s, Skip(s, d))
    BY <2>2, SkipType DEF Skip, Alike, SameDoors, Sound
  <2>4. PollCid(d).door = 0
    BY DEF PollCid, Plain
  <2>5. Quiet(Skip(s, d), t)
    BY <2>1, <2>2, <2>3, <2>4, MaySendPoll, SendQuiet
  <2> QED BY <1>0, <2>3, <2>5, AlikeQuiet, QuietTrans
<1> QED BY <1>0, <1>1, <1>2, <1>3

-----------------------------------------------------------------------------
(* The reply handlers *)

\* The next request goes to the end of its queue and waits there.
LEMMA RequestStep ==
    ASSUME NEW s \in Sound, DoorsInv(s), NEW t \in Sound, NEW n, n = s.asked + 1,
           n \in Doors, t.asked = n, t.opens = s.opens,
           Rising(t.first), Rising(t.second),
           \/ /\ t.urgent = s.urgent \cup {n}
              /\ Waiting(t.first) = Waiting(s.first) \cup {n}
              /\ Waiting(t.second) = Waiting(s.second)
           \/ /\ t.urgent = s.urgent
              /\ Waiting(t.first) = Waiting(s.first)
              /\ Waiting(t.second) = Waiting(s.second) \cup {n}
    PROVE  DoorsInv(t) /\ Requests(s, t)
<1> DEFINE W == Waiting(s.first) \cup Waiting(s.second)
           V == Waiting(t.first) \cup Waiting(t.second)
<1>1. /\ s.asked \in Nat /\ W \subseteq 1..s.asked /\ s.urgent \subseteq 1..s.asked
      /\ \A m \in W : s.opens[m] = 0
      /\ s.asked < n /\ s.opens[n] = 0
  BY DEF Sound, DoorsInv
<1>2. V = W \cup {n} /\ n \notin W /\ n \notin s.urgent /\ n \in 1..n
  BY <1>1
<1>3. DoorsInv(t)
  <2>1. s.urgent \cup {n} \subseteq 1..n /\ 1..s.asked \subseteq 1..n
    BY <1>1, <1>2
  <2>2. t.urgent \subseteq 1..t.asked
    BY <2>1
  <2>3. Waiting(t.first) \subseteq t.urgent
    BY DEF DoorsInv
  <2>4. Waiting(t.second) \subseteq (1..t.asked) \ t.urgent
    BY <1>1, <1>2, <2>1 DEF DoorsInv
  <2>5. \A m \in V : t.opens[m] = 0
    BY <1>1, <1>2
  <2>6. \A m \in Doors : t.opens[m] \in {0, 1} /\ (t.asked < m => t.opens[m] = 0)
    BY <1>1 DEF DoorsInv, Doors
  <2> QED BY <2>2, <2>3, <2>4, <2>5, <2>6 DEF DoorsInv
<1>4. Requests(s, t)
  <2>1. FateIn(s, n) = "idle"
    BY <1>1, FateFacts
  <2>2. \A m \in 1..n - 1 : FateIn(s, m) # "idle"
    BY <1>1 DEF FateIn
  <2>3. FateIn(t, n) = "pending"
    BY <1>1, <1>2 DEF FateIn
  <2>4. \A m \in Doors : m # n => FateIn(t, m) = FateIn(s, m)
    <3>1. \A m \in Doors : m # n => (m \in V <=> m \in W) /\ (t.asked < m <=> s.asked < m)
      BY <1>1, <1>2 DEF Doors
    <3> QED BY <3>1 DEF FateIn
  <2> QED BY <2>1, <2>2, <2>3, <2>4 DEF Requests
<1> QED BY <1>3, <1>4

LEMMA TurnOnCommand ==
    ASSUME NEW q \in {FIRST, SECOND}, NEW d \in Slots, NEW n \in Doors
    PROVE  LET c == [Plain(q, d, "TURN_ON") EXCEPT !.door = n]
           IN  /\ c \in QueuedCommand /\ c.door = n /\ c.target = "TURN_ON"
               /\ ad_turn_on(q, d, n) = <<c>>
<1>1. [Plain(q, d, "TURN_ON") EXCEPT !.door = n] \in QueuedCommand
  BY SMT DEF QueuedCommand, Command, Plain, Fitting, SHORT, FIRST, SECOND, Handlers,
         Targets, Single, PollTargets, LogTargets, Doors
<1> QED BY <1>1 DEF ad_turn_on, One, Plain

\* A card asks for one opening at most, at the end of gp_head2.
LEMMA CardSeenDoors ==
    ASSUME NEW s \in Sound, DoorsInv(s), NEW d \in Slots, NEW t \in CardSeen(s, d)
    PROVE  t \in Sound /\ DoorsInv(t) /\ (Quiet(s, t) \/ Requests(s, t))
<1>0. t \in Sound
  BY CardSeenType
<1>1. CASE t = s
  BY <1>0, <1>1, QuietSelf
<1>2. CASE t # s
  <2>1. PICK o \in CardOrders(s, d) : t = Enqueue(IF OpensDoor(o) THEN Ask(s, FALSE) ELSE s, o)
    BY <1>2 DEF CardSeen
  <2>2. CASE o \in cmd_add_cid_to_all(s)
    <3>1. o \in PlainOrders /\ ~OpensDoor(o)
      BY <2>2, CardJobsType
    <3>2. t = Enqueue(s, o)
      BY <2>1, <3>1
    <3> QED BY <1>0, <3>1, <3>2, EnqueueQuiet, QuietKeeps
  <2>3. CASE MayAsk(s) /\ o \in {[p EXCEPT !.second = ad_turn_on(SECOND, d, Door(s)) \o @] :
                                 p \in cmd_add_cid(d) \cup cmd_add_cid_to_all(s)}
    <3> DEFINE n == s.asked + 1
               c == [Plain(SECOND, d, "TURN_ON") EXCEPT !.door = n]
               a == Ask(s, FALSE)
    <3>1. n \in Doors /\ s.asked \in Nat
      BY <2>3 DEF MayAsk, Sound, Doors
    <3>2. PICK p \in cmd_add_cid(d) \cup cmd_add_cid_to_all(s) :
             o = [p EXCEPT !.second = ad_turn_on(SECOND, d, n) \o @]
      BY <2>3 DEF Door
    <3>3. p \in PlainOrders
      BY <3>2, CardJobsType
    <3>4. /\ c \in QueuedCommand /\ c.door = n /\ c.target = "TURN_ON"
          /\ ad_turn_on(SECOND, d, n) = <<c>>
      BY <3>1, TurnOnCommand
    <3>5. /\ a \in Sound /\ a.first = s.first /\ a.second = s.second /\ a.asked = n
          /\ a.urgent = s.urgent /\ a.opens = s.opens
      BY <2>3, AskType DEF Ask, Sound
    <3> HIDE DEF n, c, a
    <3>6. o.first = p.first /\ o.second = <<c>> \o p.second
      BY <3>2, <3>3, <3>4 DEF PlainOrders
    <3>7. OpensDoor(o)
      <4> DEFINE q == <<c>> \o p.second
      <4>1. <<c>> \in Seq(QueuedCommand) /\ Len(<<c>>) = 1 /\ <<c>>[1] = c
        BY <3>4
      <4>2. p.second \in Seq(QueuedCommand)
        BY <3>3, PlainOrdersType DEF OrderSet
      <4>3. q \in Seq(QueuedCommand) /\ Len(q) >= 1 /\ q[1] = c
        <5> DEFINE e == <<c>>
        <5>1. e \in Seq(QueuedCommand) /\ Len(e) = 1 /\ e[1] = c
          BY <4>1
        <5> HIDE DEF e
        <5>2. /\ e \o p.second \in Seq(QueuedCommand)
              /\ Len(e \o p.second) = Len(e) + Len(p.second)
              /\ \A i \in 1..Len(e) + Len(p.second) :
                    (e \o p.second)[i] = IF i <= Len(e) THEN e[i] ELSE p.second[i - Len(e)]
          BY <4>2, <5>1, ConcatProperties
        <5>3. Len(p.second) \in Nat
          BY <4>2, LenProperties
        <5> QED BY <5>1, <5>2, <5>3 DEF e
      <4> HIDE DEF q
      <4>4. q # << >> /\ Head(q) = c
        BY <4>3
      <4> QED BY <3>4, <3>6, <4>4 DEF OpensDoor, q
    <3>8. t = Enqueue(a, o)
      BY <2>1, <3>7 DEF a
    <3>9. /\ t.first = s.first \o p.first /\ t.second = s.second \o (<<c>> \o p.second)
          /\ t.asked = n /\ t.urgent = s.urgent /\ t.opens = s.opens
      BY <3>5, <3>6, <3>8 DEF Enqueue, Sound
    <3>10. /\ s.first \in Seq(QueuedCommand) /\ s.second \in Seq(QueuedCommand)
           /\ p.first \in Seq(PlainCommand) /\ p.second \in Seq(PlainCommand)
           /\ <<c>> \in Seq(QueuedCommand) /\ p.second \in Seq(QueuedCommand)
           /\ Rising(s.first) /\ Rising(s.second)
      BY <3>3, <3>4, PlainOrdersType DEF Sound, PlainOrders, OrderSet, DoorsInv
    <3>11. Waiting(t.first) = Waiting(s.first) /\ Rising(t.first)
      BY <3>9, <3>10, PlainMore
    <3>12. t.second = (s.second \o <<c>>) \o p.second /\ s.second \o <<c>> \in Seq(QueuedCommand)
      <4> DEFINE e == <<c>>
                 q == s.second
                 r == p.second
      <4>1. /\ q \in Seq(QueuedCommand) /\ e \in Seq(QueuedCommand)
            /\ r \in Seq(QueuedCommand)
        BY <3>10
      <4>2. t.second = q \o (e \o r)
        BY <3>9
      <4> HIDE DEF e, q, r
      <4>3. q \o (e \o r) = (q \o e) \o r /\ q \o e \in Seq(QueuedCommand)
        BY <4>1, Regroup
      <4>4. t.second = (q \o e) \o r /\ q \o e \in Seq(QueuedCommand)
        BY <4>2, <4>3
      <4> QED BY <4>4 DEF e, q, r
    <3>13. /\ Waiting(s.second \o <<c>>) = Waiting(s.second) \cup {n}
           /\ Rising(s.second \o <<c>>)
      <4>1. \A m \in Waiting(s.second) : m < c.door
        BY <3>1, <3>4 DEF DoorsInv, n
      <4>2. c.door # 0
        BY <3>1, <3>4 DEF Doors
      <4> QED BY <3>4, <3>10, <4>1, <4>2, OneMore
    <3>14. Waiting(t.second) = Waiting(s.second) \cup {n} /\ Rising(t.second)
      BY <3>10, <3>12, <3>13, PlainMore
    <3>15. DoorsInv(t) /\ Requests(s, t)
      BY <1>0, <3>1, <3>9, <3>11, <3>14, RequestStep DEF n
    <3> QED BY <1>0, <3>15
  <2> QED BY <2>1, <2>2, <2>3 DEF CardOrders
<1> QED BY <1>1, <1>2

LEMMA ReturnAlike ==
    ASSUME NEW s \in Sound, NEW b \in BOOLEAN
    PROVE  Alike(s, Return(s, b)) /\ Return(s, b) \in Sound
  BY PortType DEF Alike, SameDoors, Return, Sound

\* What a function may do to the openings when it does not call gp_put_cmd.
Orderly(s, t) == t \in Sound /\ (Quiet(s, t) \/ (DoorsInv(t) /\ Requests(s, t)))

LEMMA ReplyQuiet ==
    ASSUME NEW s \in Sound, NEW d \in Slots, NEW t,
           \/ s.send.handler = "poll" /\ t \in gp_send(s, PollRegs(d))
           \/ s.send.handler = "log" /\ t \in gp_send(s, LogData(d)) \cup gp_send(s, LogDone(d))
    PROVE  Quiet(s, t) /\ t \in Sound
<1>1. PollRegs(d).door = 0 /\ LogData(d).door = 0 /\ LogDone(d).door = 0
  BY DEF PollRegs, LogData, LogDone, Plain
<1>2. CASE s.send.handler = "poll" /\ t \in gp_send(s, PollRegs(d))
  <2>1. MaySend(s, PollRegs(d))
    BY <1>2, MaySendReply
  <2> QED BY <1>1, <1>2, <2>1, SendQuiet
<1>3. CASE s.send.handler = "log" /\ t \in gp_send(s, LogData(d)) \cup gp_send(s, LogDone(d))
  <2>1. MaySend(s, LogData(d)) /\ MaySend(s, LogDone(d))
    BY <1>3, MaySendReply
  <2>2. CASE t \in gp_send(s, LogData(d))
    BY <1>1, <2>1, <2>2, SendQuiet
  <2>3. CASE t \in gp_send(s, LogDone(d))
    BY <1>1, <2>1, <2>3, SendQuiet
  <2> QED BY <1>3, <2>2, <2>3
<1> QED BY <1>2, <1>3

\* A reply handler asks for an opening only when it is shown the registers.
LEMMA InputDoors ==
    ASSUME NEW s \in Sound, DoorsInv(s), NEW a \in Answer, NEW t \in process_port_input(s, a)
    PROVE  /\ Orderly(s, t)
           /\ a.code # 6 \/ ~t.done => Quiet(s, t)
<1>0. a.src \in Slots /\ s.send.handler \in Handlers
  BY DEF Answer, Sound, SendMess
<1>1. ASSUME NEW b \in BOOLEAN, t = Return(s, b) PROVE Quiet(s, t) /\ t \in Sound
  BY <1>1, ReturnAlike, AlikeQuiet
<1>2. CASE s.send.handler = "poll"
  <2>1. t \in cb_get_poll_result(s, a)
    BY <1>2 DEF process_port_input
  <2>2. CASE s.send.target = "GET_CID" /\ a.code = 4
    <3>1. t \in gp_send(s, PollRegs(a.src))
      BY <2>1, <2>2 DEF cb_get_poll_result
    <3> QED BY <1>0, <1>2, <3>1, ReplyQuiet DEF Orderly
  <2>3. CASE s.send.target = "GET_REGS" /\ a.code = 6
    <3>1. PICK u \in CardSeen(s, a.src) : t = Return(u, TRUE)
      BY <2>1, <2>3 DEF cb_get_poll_result
    <3>2. u \in Sound /\ DoorsInv(u) /\ (Quiet(s, u) \/ Requests(s, u))
      BY <1>0, <3>1, CardSeenDoors
    <3>3. Quiet(u, t) /\ t \in Sound
      BY <3>1, <3>2, ReturnAlike, AlikeQuiet
    <3>4. DoorsInv(t)
      BY <3>2, <3>3, QuietKeeps
    <3>5. Quiet(s, t) \/ Requests(s, t)
      BY <3>2, <3>3, QuietTrans, QuietAround, QuietSelf
    <3>6. t.done
      BY <3>1, <3>2 DEF Return, Sound
    <3> QED BY <2>3, <3>3, <3>4, <3>5, <3>6 DEF Orderly
  <2>4. CASE /\ ~(s.send.target = "GET_CID" /\ a.code = 4)
             /\ ~(s.send.target = "GET_REGS" /\ a.code = 6)
    <3>1. t = Return(s, FALSE)
      BY <2>1, <2>4 DEF cb_get_poll_result
    <3> QED BY <1>1, <3>1 DEF Orderly
  <2> QED BY <2>2, <2>3, <2>4
<1>3. CASE s.send.handler = "log"
  <2>1. t \in cb_log_read(s, a)
    BY <1>3 DEF process_port_input
  <2>2. \/ \E b \in BOOLEAN : t = Return(s, b)
        \/ t \in gp_send(s, LogData(a.src)) \cup gp_send(s, LogDone(a.src))
    BY <2>1 DEF cb_log_read
  <2>3. Quiet(s, t) /\ t \in Sound
    BY <1>0, <1>1, <1>3, <2>2, ReplyQuiet
  <2> QED BY <2>3 DEF Orderly
<1>4. CASE s.send.handler = "none"
  <2>1. t = Return(s, FALSE)
    BY <1>4 DEF process_port_input
  <2> QED BY <1>1, <2>1 DEF Orderly
<1> QED BY <1>0, <1>2, <1>3, <1>4 DEF Handlers

\* What one run of an event handler may do: nothing, settle one, ask for one.
OneStep(s, t) ==
    t \in Sound /\ DoorsInv(t) /\ (Quiet(s, t) \/ Settles(s, t) \/ Requests(s, t))

\* A run that is quiet before and after such a step is such a step.
LEMMA StepAround ==
    ASSUME NEW s, DoorsInv(s), NEW t, NEW u, NEW v, Quiet(s, t), Quiet(u, v), v \in Sound,
           DoorsInv(u) /\ (Quiet(t, u) \/ Settles(t, u) \/ Requests(t, u))
    PROVE  OneStep(s, v)
<1>1. DoorsInv(v)
  BY QuietKeeps
<1>2. Quiet(t, u) => Quiet(s, v)
  BY QuietTrans
<1> QED BY <1>1, <1>2, QuietAround DEF OneStep

LEMMA HandleDoors ==
    ASSUME NEW s \in Sound, DoorsInv(s), NEW a \in Answer, Honest(a), NEW t \in Handle(s, a)
    PROVE  OneStep(s, t)
<1>1. ASSUME NEW u \in Sound, Quiet(s, u), t \in gp_put_cmd(u) PROVE OneStep(s, t)
  <2>1. DoorsInv(u)
    BY <1>1, QuietKeeps
  <2>2. t \in Sound /\ DoorsInv(t) /\ (Quiet(u, t) \/ Settles(u, t))
    BY <1>1, <2>1, PutCmdDoors
  <2> QED BY <1>1, <2>2, QuietSelf, StepAround
<1>2. CASE a.kind = "refused"
  <2>1. t \in gp_put_cmd(s)
    BY <1>2 DEF Handle
  <2> QED BY <1>1, <2>1, QuietSelf
<1>3. CASE a.kind = "ack"
  <2>1. PICK u \in process_port_input(s, a) : t \in gp_put_cmd(u)
    BY <1>3 DEF Handle
  <2>2. a.code # 6
    BY <1>3 DEF Honest
  <2>3. Quiet(s, u) /\ u \in Sound
    BY <2>1, <2>2, InputDoors DEF Orderly
  <2> QED BY <1>1, <2>1, <2>3
<1>4. CASE a.kind = "data"
  <2>1. PICK u \in process_port_input(s, a) : t \in IF u.done THEN {u} ELSE gp_put_cmd(u)
    BY <1>4 DEF Handle
  <2>2. Orderly(s, u)
    BY <2>1, InputDoors
  <2>3. CASE u.done
    <3>1. t = u
      BY <2>1, <2>3
    <3>2. Quiet(s, u) => DoorsInv(u)
      BY QuietKeeps
    <3> QED BY <2>2, <3>1, <3>2 DEF Orderly, OneStep
  <2>4. CASE ~u.done
    <3>1. Quiet(s, u) /\ t \in gp_put_cmd(u)
      BY <2>1, <2>4, InputDoors
    <3> QED BY <1>1, <2>2, <3>1 DEF Orderly
  <2> QED BY <2>3, <2>4
<1> QED BY <1>2, <1>3, <1>4 DEF Answer, AnswerKinds

-----------------------------------------------------------------------------
(* One lemma per action: the invariant is kept, and at most one opening     *)
(* changes its fate                                                         *)

Doorly == OneStep(Here, Here')

\* The state a handler ends in is the next state, but for done.
LEMMA BecomeDoors ==
    ASSUME IInv', NEW s, DoorsInv(s), NEW t, OneStep(s, t), Become(t)
    PROVE  OneStep(s, Here')
<1>1. Alike(t, Here')
  BY DEF Become, Here, Alike, SameDoors
<1>2. Quiet(t, Here') /\ Here' \in Sound
  BY <1>1, AlikeQuiet DEF IInv
<1> QED BY <1>2, QuietSelf, StepAround DEF OneStep

LEMMA QuietStep ==
    ASSUME NEW s, DoorsInv(s), NEW t \in Sound, Quiet(s, t)
    PROVE  OneStep(s, t)
  BY QuietKeeps DEF OneStep

LEMMA QuietBefore ==
    ASSUME NEW s, DoorsInv(s), NEW t, Quiet(s, t), NEW u, OneStep(t, u)
    PROVE  OneStep(s, u)
  BY QuietSelf, StepAround DEF OneStep

LEMMA QuietAfter ==
    ASSUME NEW s, DoorsInv(s), NEW t, OneStep(s, t), NEW u \in Sound, Quiet(t, u)
    PROVE  OneStep(s, u)
  BY QuietSelf, StepAround DEF OneStep

LEMMA PortQuiet ==
    ASSUME NEW s \in Sound
    PROVE  /\ Arm(s) \in Sound /\ Quiet(s, Arm(s))
           /\ gp_close(s) \in Sound /\ Quiet(s, gp_close(s))
           /\ Expire(s) \in Sound /\ Quiet(s, Expire(s))
           /\ \A t \in Touch(s) : t \in Sound /\ Quiet(s, t)
           /\ \A t \in Reopen(s) : t \in Sound /\ Quiet(s, t)
<1>1. Alike(s, Arm(s))
  BY DEF Arm, Alike, SameDoors, Sound
<1>2. Alike(s, gp_close(s))
  BY DEF gp_close, Alike, SameDoors, Sound
<1>3. Alike(s, Expire(s))
  BY DEF Expire, Alike, SameDoors, Sound
<1>4. ASSUME NEW t \in Touch(s) PROVE Alike(s, t)
  BY DEF Touch, Alike, SameDoors, Sound
<1>5. ASSUME NEW t \in Reopen(s) PROVE Alike(s, t)
  BY DEF Reopen, Arm, Alike, SameDoors, Sound
<1> QED BY <1>1, <1>2, <1>3, <1>4, <1>5, AlikeQuiet, PortType, ExpireType, ReopenType

LEMMA FiredQuiet ==
    ASSUME IInv
    PROVE  Fired \in Sound /\ Quiet(Here, Fired)
<1>1. Alike(Here, Fired)
  BY DEF Fired, Here, Alike, SameDoors
<1> QED BY <1>1, FiredType, AlikeQuiet

\* gp_dev_init opens no door.
LEMMA HeardQuiet ==
    ASSUME IInv
    PROVE  Heard \in Sound /\ Quiet(Here, Heard)
<1> DEFINE a == Arm(Fired)
           i == Introduce(a, send.dev)
<1>1. a \in Sound /\ Quiet(Here, a)
  BY FiredQuiet, PortQuiet, QuietTrans
<1>2. send.dev \in Slots
  BY DEF IInv, Here, Sound, SendMess
<1> HIDE DEF a
<1>3. i \in Sound /\ Quiet(a, i)
  <2>1. DevInit(send.dev) \in PlainOrders
    BY <1>2, DevInitType
  <2>2. CASE a.unit[send.dev].inited
    BY <1>1, <2>2, QuietSelf DEF Introduce
  <2>3. CASE ~a.unit[send.dev].inited
    BY <1>1, <2>1, <2>3, EnqueueQuiet DEF Introduce
  <2> QED BY <2>2, <2>3
<1> HIDE DEF i
<1>4. Alike(i, Heard)
  <2>1. Heard = [i EXCEPT !.send.expected = FALSE,
                          !.unit[send.dev] = [activ |-> TRUE, timeouts |-> 0, inited |-> TRUE]]
    BY DEF Heard, i, a
  <2> QED BY <1>3, <2>1 DEF Alike, SameDoors, Sound
<1> QED BY <1>1, <1>3, <1>4, HeardType, AlikeQuiet, QuietTrans

LEMMA TakenQuiet ==
    ASSUME IInv, NEW n \in Chunks
    PROVE  Taken(n) \in Sound /\ Quiet(Here, Taken(n))
<1>1. Alike(Heard, Taken(n))
  BY HeardQuiet DEF Taken, Alike, SameDoors, Sound
<1> QED BY <1>1, TakenType, HeardQuiet, AlikeQuiet, QuietTrans

LEMMA TimeoutEarlyDoors ==
    ASSUME IInv, IInv', DoorsInv(Here), TimeoutEarly
    PROVE  Doorly
<1>1. PICK s \in Touch(Fired) : Become(Arm(s))
  BY DEF TimeoutEarly
<1>2. s \in Sound /\ Quiet(Here, s)
  BY <1>1, FiredQuiet, PortQuiet, QuietTrans
<1>3. Arm(s) \in Sound /\ Quiet(Here, Arm(s))
  BY <1>2, PortQuiet, QuietTrans
<1> QED BY <1>1, <1>3, QuietStep, BecomeDoors DEF Doorly

LEMMA TimeoutDueDoors ==
    ASSUME IInv, IInv', DoorsInv(Here), TimeoutDue
    PROVE  Doorly
<1>a. PICK s \in Touch(Fired) : \E t \in gp_put_cmd(Expire(s)) :
         \/ t.done /\ Become(t)
         \/ ~t.done /\ \E u \in gp_send_idle(t) : Become(IF u.done THEN u ELSE Arm(u))
  BY DEF TimeoutDue
<1>1. PICK t \in gp_put_cmd(Expire(s)) :
         \/ t.done /\ Become(t)
         \/ ~t.done /\ \E u \in gp_send_idle(t) : Become(IF u.done THEN u ELSE Arm(u))
  BY <1>a
<1>2. s \in Sound /\ Quiet(Here, s)
  BY <1>a, FiredQuiet, PortQuiet, QuietTrans
<1>3. Expire(s) \in Sound /\ Quiet(Here, Expire(s)) /\ DoorsInv(Expire(s))
  BY <1>2, PortQuiet, QuietTrans, QuietKeeps
<1>4. OneStep(Expire(s), t)
  BY <1>1, <1>3, PutCmdDoors DEF OneStep
<1>5. OneStep(Here, t) /\ t \in Sound
  BY <1>3, <1>4, QuietBefore DEF OneStep
<1>6. CASE t.done /\ Become(t)
  BY <1>5, <1>6, BecomeDoors DEF Doorly
<1>7. CASE ~t.done /\ \E u \in gp_send_idle(t) : Become(IF u.done THEN u ELSE Arm(u))
  <2>1. PICK u \in gp_send_idle(t) : Become(IF u.done THEN u ELSE Arm(u))
    BY <1>7
  <2>2. u \in Sound /\ Quiet(t, u)
    BY <1>5, <2>1, SendIdleQuiet
  <2>3. Arm(u) \in Sound /\ Quiet(t, Arm(u))
    BY <2>2, PortQuiet, QuietTrans
  <2>4. OneStep(Here, u) /\ OneStep(Here, Arm(u))
    BY <1>5, <2>2, <2>3, QuietAfter
  <2> QED BY <2>1, <2>4, BecomeDoors DEF Doorly
<1> QED BY <1>1, <1>6, <1>7

LEMMA ReadErrorDoors ==
    ASSUME IInv, IInv', DoorsInv(Here), ReadError
    PROVE  Doorly
<1>1. PICK s \in gp_put_cmd(gp_close(Heard)) : Become(s)
  BY DEF ReadError
<1> DEFINE h == gp_close(Heard)
<1>2. h \in Sound /\ Quiet(Here, h)
  BY HeardQuiet, PortQuiet, QuietTrans
<1>3. s \in gp_put_cmd(h)
  BY <1>1
<1> HIDE DEF h
<1>4. DoorsInv(h)
  BY <1>2, QuietKeeps
<1>5. OneStep(h, s)
  BY <1>2, <1>3, <1>4, PutCmdDoors DEF OneStep
<1> QED BY <1>1, <1>2, <1>5, QuietBefore, BecomeDoors DEF Doorly

LEMMA ReadNothingDoors ==
    ASSUME IInv, IInv', DoorsInv(Here), ReadNothing
    PROVE  Doorly
<1>1. PICK s \in gp_send(Heard, ResetNow(send.dev)) : Become(gp_close(s))
  BY DEF ReadNothing
<1>2. Heard \in Sound /\ Quiet(Here, Heard)
  BY HeardQuiet
<1>3. MaySend(Heard, ResetNow(send.dev)) /\ ResetNow(send.dev).door = 0
  BY <1>2, MaySendPoll DEF IInv, Here, Sound, SendMess, ResetNow, Plain
<1>4. s \in Sound /\ Quiet(Here, s)
  BY <1>1, <1>2, <1>3, SendQuiet, QuietTrans
<1>5. gp_close(s) \in Sound /\ Quiet(Here, gp_close(s))
  BY <1>4, PortQuiet, QuietTrans
<1> QED BY <1>1, <1>5, QuietStep, BecomeDoors DEF Doorly

LEMMA ReadUnusedDoors ==
    ASSUME IInv, IInv', DoorsInv(Here), ReadNoInit \/ ReadPartial \/ ReadBadFrame
    PROVE  Doorly
<1>1. PICK n \in Chunks : \/ \E s \in Touch(Taken(n)) : Become(s)
                          \/ Become([Taken(n) EXCEPT !.rx = Got(n)])
                          \/ Become(Taken(n))
  BY DEF ReadNoInit, ReadPartial, ReadBadFrame
<1>2. Taken(n) \in Sound /\ Quiet(Here, Taken(n))
  BY TakenQuiet
<1>3. CASE \E s \in Touch(Taken(n)) : Become(s)
  <2>1. PICK s \in Touch(Taken(n)) : Become(s)
    BY <1>3
  <2>2. s \in Sound /\ Quiet(Here, s)
    BY <1>2, <2>1, PortQuiet, QuietTrans
  <2> QED BY <2>1, <2>2, QuietStep, BecomeDoors DEF Doorly
<1>4. CASE Become([Taken(n) EXCEPT !.rx = Got(n)])
  <2> DEFINE t == Taken(n)
             g == Got(n)
             u == [t EXCEPT !.rx = g]
  <2>1. t \in Sound /\ g \in Seq(HonestPart) /\ Quiet(Here, t)
    BY <1>2, GotType
  <2> HIDE DEF t, g
  <2>2. u \in Sound /\ Alike(t, u)
    BY <2>1 DEF Sound, Alike, SameDoors
  <2>3. Become(u)
    BY <1>4 DEF t, g
  <2> HIDE DEF u
  <2>4. Quiet(Here, u)
    BY <2>1, <2>2, AlikeQuiet, QuietTrans
  <2> QED BY <2>2, <2>3, <2>4, QuietStep, BecomeDoors DEF Doorly
<1>5. CASE Become(Taken(n))
  BY <1>2, <1>5, QuietStep, BecomeDoors DEF Doorly
<1> QED BY <1>1, <1>3, <1>4, <1>5

LEMMA ReadAnswerDoors ==
    ASSUME IInv, IInv', DoorsInv(Here), ReadAnswer
    PROVE  Doorly
<1>a. PICK n \in Chunks : \E k \in 1..Len(Got(n)) :
         \E s \in Handle(Taken(n), Got(n)[k].ans) : Become(s)
  BY DEF ReadAnswer
<1>1. PICK k \in 1..Len(Got(n)) :
         \E s \in Handle(Taken(n), Got(n)[k].ans) : Become(s)
  BY <1>a
<1>2. PICK s \in Handle(Taken(n), Got(n)[k].ans) : Become(s)
  BY <1>1
<1>3. Got(n)[k].ans \in Answer /\ Honest(Got(n)[k].ans)
  BY <1>1, GotType
<1>4. Taken(n) \in Sound /\ Quiet(Here, Taken(n)) /\ DoorsInv(Taken(n))
  BY TakenQuiet, QuietKeeps
<1>5. OneStep(Taken(n), s)
  BY <1>2, <1>3, <1>4, HandleDoors
<1> QED BY <1>2, <1>4, <1>5, QuietBefore, BecomeDoors DEF Doorly

LEMMA ScanDevDoors ==
    ASSUME IInv, IInv', DoorsInv(Here), ScanDev
    PROVE  Doorly
<1>1. PICK s \in Reopen(Here) : /\ first' = s.first /\ second' = s.second
                                /\ asked' = s.asked /\ urgent' = s.urgent /\ opens' = s.opens
  <2>1. PICK s \in Reopen(Here) :
         Become([s EXCEPT !.fresh = FALSE,
                          !.unit = [d \in Slots |->
                              IF d = 0 THEN @[d] ELSE [@[d] EXCEPT !.timeouts = 0]]])
    BY DEF ScanDev
  <2>2. s \in Sound
    BY <2>1, HereType, PortQuiet
  <2> QED BY <2>1, <2>2 DEF Become, Sound
<1>2. Quiet(Here, s)
  BY <1>1, HereType, PortQuiet
<1>3. Alike(s, Here')
  BY <1>1 DEF Here, Alike, SameDoors
<1>4. Here' \in Sound /\ Quiet(Here, Here')
  BY <1>2, <1>3, AlikeQuiet, QuietTrans DEF IInv
<1> QED BY <1>4, QuietStep DEF Doorly

\* Orders that open no door.
LEMMA PlainDoors ==
    ASSUME IInv, IInv', DoorsInv(Here), NEW s \in Sound, Alike(Here, s),
           NEW o \in PlainOrders, Become(Enqueue(s, o))
    PROVE  Doorly
<1>1. Enqueue(s, o) \in Sound /\ Quiet(Here, Enqueue(s, o))
  BY AlikeQuiet, EnqueueQuiet, QuietTrans
<1> QED BY <1>1, QuietStep, BecomeDoors DEF Doorly

LEMMA ScanLogDoors ==
    ASSUME IInv, IInv', DoorsInv(Here), ScanLog
    PROVE  Doorly
<1>1. PICK f \in InOrder(Active(Here)) : Become(Enqueue(Here, LogOrders(f)))
  BY DEF ScanLog
<1>2. LogOrders(f) \in PlainOrders
  BY <1>1, ActiveType, LogOrdersType
<1>3. Here \in Sound /\ Alike(Here, Here)
  BY HereType DEF Alike, SameDoors
<1> QED BY <1>1, <1>2, <1>3, PlainDoors

LEMMA CallAllDoors ==
    ASSUME IInv, IInv', DoorsInv(Here), CallAll
    PROVE  Doorly
<1>1. PICK o \in {SchedOrders(f) : f \in InOrder(Active(Here))} \cup cmd_add_cid_to_all(Here) :
         Become(Enqueue(Here, o))
  BY DEF CallAll
<1>2. Here \in Sound /\ Alike(Here, Here)
  BY HereType DEF Alike, SameDoors
<1>3. CASE o \in {SchedOrders(f) : f \in InOrder(Active(Here))}
  <2>1. PICK f \in InOrder(Active(Here)) : o = SchedOrders(f)
    BY <1>3
  <2>2. o \in PlainOrders
    BY <2>1, ActiveType, SchedOrdersType
  <2> QED BY <1>1, <1>2, <2>2, PlainDoors
<1>4. CASE o \in cmd_add_cid_to_all(Here)
  <2>1. 0 \in Slots
    BY DEF Slots
  <2>2. o \in PlainOrders
    BY <1>2, <1>4, <2>1, CardJobsType
  <2> QED BY <1>1, <1>2, <2>2, PlainDoors
<1> QED BY <1>1, <1>3, <1>4

\* An operator's request goes to the end of gp_head; no other call opens a
\* door.
LEMMA CallDoors ==
    ASSUME IInv, IInv', DoorsInv(Here), Call
    PROVE  Doorly
<1>1. PICK call \in AppCalls \cap Calls, d \in Devices, e \in Devices :
         /\ call = "open" => MayAsk(Here)
         /\ Become(Enqueue(Marked(IF call = "open" THEN Ask(Here, TRUE) ELSE Here, call, d, e),
                           CallOrders(call, d, Door(Here))))
  BY DEF Call
<1>2. Here \in Sound
  BY HereType
<1>3. CASE call = "open"
  <2> DEFINE n == Here.asked + 1
             c == [Plain(FIRST, d, "TURN_ON") EXCEPT !.door = n]
             a == Ask(Here, TRUE)
             o == Orders(ad_turn_on(FIRST, d, n), << >>)
             t == Enqueue(a, o)
  <2>1. MayAsk(Here)
    BY <1>1, <1>3
  <2>2. n \in Doors /\ Here.asked \in Nat
    BY <1>2, <2>1 DEF MayAsk, Sound, Doors
  <2>3. /\ c \in QueuedCommand /\ c.door = n /\ ad_turn_on(FIRST, d, n) = <<c>>
    BY <2>2, TurnOnCommand DEF Devices, Slots
  <2>4. /\ a \in Sound /\ a.first = Here.first /\ a.second = Here.second /\ a.asked = n
        /\ a.urgent = Here.urgent \cup {n} /\ a.opens = Here.opens
    BY <1>2, <2>1, AskType DEF Ask, Sound
  <2>5. Marked(a, call, d, e) = a /\ CallOrders(call, d, Door(Here)) = o
    BY <1>3 DEF Marked, CallOrders, Door
  <2>6. Become(t)
    BY <1>1, <1>3, <2>5
  <2>7. o \in OrderSet
    <3>1. <<c>> \in Seq(QueuedCommand) /\ << >> \in Seq(QueuedCommand)
      BY <2>3
    <3> QED BY <2>3, <3>1 DEF Orders, OrderSet
  <2>8. t \in Sound
    BY <2>4, <2>7, EnqueueType
  <2> HIDE DEF c, a
  <2>9. /\ t.first = Here.first \o <<c>> /\ t.second = Here.second \o << >>
        /\ t.asked = n /\ t.urgent = Here.urgent \cup {n} /\ t.opens = Here.opens
    BY <2>3, <2>4 DEF Enqueue, Orders, Sound
  <2> HIDE DEF t, o
  <2>10. /\ Here.first \in Seq(QueuedCommand) /\ Here.second \in Seq(QueuedCommand)
         /\ Rising(Here.first) /\ Rising(Here.second)
    BY <1>2 DEF Sound, DoorsInv
  <2>11. Waiting(t.first) = Waiting(Here.first) \cup {n} /\ Rising(t.first)
    <3>1. \A m \in Waiting(Here.first) : m < c.door
      BY <2>2, <2>3 DEF DoorsInv
    <3>2. c.door # 0
      BY <2>2, <2>3 DEF Doors
    <3> QED BY <2>3, <2>9, <2>10, <3>1, <3>2, OneMore
  <2>12. Waiting(t.second) = Waiting(Here.second) /\ Rising(t.second)
    BY <2>9, <2>10, NoOrders, PlainMore
  <2>13. DoorsInv(t) /\ Requests(Here, t)
    BY <1>2, <2>2, <2>8, <2>9, <2>11, <2>12, RequestStep
  <2> QED BY <2>6, <2>8, <2>13, BecomeDoors DEF OneStep, Doorly
<1>4. CASE call # "open"
  <2> DEFINE s == Marked(Here, call, d, e)
             o == CallOrders(call, d, Door(Here))
  <2>1. s \in Sound /\ Alike(Here, s)
    <3>1. PICK v : s \in {Here, [Here EXCEPT !.unit = v]}
      BY DEF Marked
    <3>2. Alike(Here, s)
      BY <1>2, <3>1 DEF Alike, SameDoors, Sound
    <3> QED BY <1>2, <3>2, MarkedType
  <2>2. o \in PlainOrders
    BY <1>2, <1>4, CallOrdersType DEF Door, Sound
  <2>3. Become(Enqueue(s, o))
    BY <1>1, <1>4
  <2> QED BY <2>1, <2>2, <2>3, PlainDoors
<1> QED BY <1>3, <1>4

LEMMA RestDoors ==
    ASSUME IInv, IInv', DoorsInv(Here), Lose \/ UNCHANGED vars
    PROVE  Doorly
<1>1. UNCHANGED <<first, second, asked, urgent, opens>>
  BY DEF Lose, vars, doorVars
<1>2. Here' \in Sound /\ Alike(Here, Here')
  BY <1>1 DEF IInv, Here, Alike, SameDoors
<1> QED BY <1>2, AlikeQuiet, QuietStep DEF Doorly

LEMMA NextDoors ==
    ASSUME IInv, IInv', DoorsInv(Here), [Next]_vars
    PROVE  Doorly
<1>1. CASE PortEvent
  BY <1>1, TimeoutDueDoors, ReadErrorDoors, ReadNothingDoors, ReadUnusedDoors,
     ReadAnswerDoors DEF PortEvent, Read
<1>2. CASE Rest
  BY <1>2, TimeoutEarlyDoors, ScanDevDoors, ScanLogDoors, CallDoors, CallAllDoors,
     RestDoors DEF Rest, Exited
<1>3. CASE UNCHANGED vars
  BY <1>3, RestDoors
<1> QED BY <1>1, <1>2, <1>3 DEF Next

-----------------------------------------------------------------------------
(* The refinement *)

LEMMA DoorsInit ==
    ASSUME Init
    PROVE  DoorsInv(Here) /\ Service!Init
<1>1. /\ first = << >> /\ second = << >> /\ asked = 0 /\ urgent = {}
      /\ opens = [n \in Doors |-> 0]
  BY DEF Init
<1>2. Len(first) = 0 /\ Len(second) = 0
  BY <1>1, EmptySeq
<1>3. DoorsInv(Here)
  BY <1>1, <1>2 DEF DoorsInv, Here, Waiting, Rising, Doors
<1>4. \A n \in Doors : Fate(n) = "idle"
  BY <1>1 DEF Fate, Doors
<1> QED BY <1>1, <1>3, <1>4 DEF Service!Init, Service!Doors, Doors

Matched == \A n \in Doors : Fate(n) = FateIn(Here, n)

LEMMA FateNow ==
    ASSUME IInv, DoorsInv(Here)
    PROVE  Matched
<1> SUFFICES ASSUME NEW n \in Doors PROVE Fate(n) = FateIn(Here, n)
  BY DEF Matched
<1>1. n # 0 /\ n \in Nat /\ asked \in Nat
  BY DEF IInv, Here, Sound, Doors
<1>2. Queued(n) <=> n \in Waiting(first) \cup Waiting(second)
  BY <1>1 DEF Queued, Waiting
<1>3. /\ opens[n] \in {0, 1}
      /\ n \in Waiting(first) \cup Waiting(second) => opens[n] = 0
  BY DEF DoorsInv, Here
<1>4. FateIn(Here, n) = 
        CASE asked < n -> "idle"
          [] ~(asked < n) /\ Queued(n) -> "pending"
          [] ~(asked < n) /\ ~Queued(n) -> IF opens[n] = 0 THEN "lost" ELSE "opened"
  BY <1>2 DEF FateIn, Here
<1>5. Queued(n) => opens[n] = 0
  BY <1>2, <1>3
<1> HIDE DEF Queued
<1> QED BY <1>1, <1>3, <1>4, <1>5 DEF Fate

ServiceStep == [Service!Next]_(Service!vars)

LEMMA DoorlyService ==
    ASSUME Matched, Matched', Doorly
    PROVE  ServiceStep
<1> DEFINE F == [n \in Doors |-> Fate(n)]
           G == [n \in Doors |-> FateIn(Here, n)]
           H == [n \in Doors |-> FateIn(Here', n)]
<1>1. F = G /\ F' = H /\ Here.urgent = urgent /\ Here'.urgent = urgent'
  BY DEF Matched, Here
<1>2. CASE Quiet(Here, Here')
  <2>1. F' = F /\ urgent' = urgent
    BY <1>1, <1>2, QuietKeeps
  <2> QED BY <2>1 DEF ServiceStep, Service!vars, Doors
<1>3. CASE Settles(Here, Here')
  <2>1. PICK n \in Doors :
          /\ FateIn(Here, n) = "pending"
          /\ \A m \in Doors : FateIn(Here, m) = "pending" =>
                ~(IF (m \in urgent) = (n \in urgent) THEN m < n ELSE m \in urgent)
          /\ FateIn(Here', n) \in {"opened", "lost"}
          /\ \A m \in Doors : m # n => FateIn(Here', m) = FateIn(Here, m)
    BY <1>1, <1>3 DEF Settles
  <2>2. urgent' = urgent
    BY <1>1, <1>3 DEF Settles
  <2>3. H = [G EXCEPT ![n] = FateIn(Here', n)]
    BY <2>1
  <2>4. F' = [F EXCEPT ![n] = FateIn(Here', n)]
    BY <1>1, <2>3
  <2>5. Service!Settle(n)
    BY <1>1, <2>1, <2>2, <2>4 DEF Service!Settle, Service!Before, Service!Doors, Doors
  <2> QED BY <2>5 DEF ServiceStep, Service!Next, Service!Doors, Doors
<1>4. CASE Requests(Here, Here')
  <2>1. PICK n \in Doors :
          /\ FateIn(Here, n) = "idle" /\ \A m \in 1..n - 1 : FateIn(Here, m) # "idle"
          /\ FateIn(Here', n) = "pending"
          /\ \A m \in Doors : m # n => FateIn(Here', m) = FateIn(Here, m)
          /\ urgent' \in {urgent, urgent \cup {n}}
    BY <1>1, <1>4 DEF Requests
  <2>2. H = [G EXCEPT ![n] = "pending"]
    BY <2>1
  <2>3. F' = [F EXCEPT ![n] = "pending"]
    BY <1>1, <2>2
  <2>4. \A m \in 1..n - 1 : m \in Doors
    BY DEF Doors
  <2>5. Service!Request(n)
    BY <1>1, <2>1, <2>3, <2>4 DEF Service!Request, Service!Doors, Doors
  <2> QED BY <2>5 DEF ServiceStep, Service!Next, Service!Doors, Doors
<1> QED BY <1>2, <1>3, <1>4 DEF Doorly, OneStep

\* Whatever fails and however long the queues grow, the bus master keeps what
\* DoorService promises (ServiceSpec): an opening is written once or lost, it
\* is not written again, operators go before cards, and within each kind the
\* openings go in the order they were asked for (gp_in_cmd, gp_put_cmd).
THEOREM ImplementsService == Spec => ServiceSpec
<1>1. Init => DoorsInv(Here) /\ Service!Init
  BY DoorsInit
<1>2. IInv /\ IInv' /\ DoorsInv(Here) /\ [Next]_vars => DoorsInv(Here)' /\ Doorly
  <2> SUFFICES ASSUME IInv, IInv', DoorsInv(Here), [Next]_vars
               PROVE  DoorsInv(Here)' /\ Doorly
    OBVIOUS
  <2>1. Doorly
    BY NextDoors
  <2> QED BY <2>1 DEF Doorly, OneStep
<1>3. IInv /\ DoorsInv(Here) => Matched
  BY FateNow
<1>4. Matched /\ Matched' /\ Doorly => ServiceStep
  BY DoorlyService
<1>5. Spec => []DoorsInv(Here)
  BY <1>1, <1>2, Inductive, PTL DEF Spec
<1>6. Spec => Service!Init /\ [][Service!Next]_(Service!vars)
  BY <1>1, <1>2, <1>3, <1>4, <1>5, Inductive, PTL DEF Spec, ServiceStep
<1> QED BY <1>6 DEF ServiceSpec, Service!Spec
=============================================================================
