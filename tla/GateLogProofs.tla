---------------------------- MODULE GateLogProofs ----------------------------
(***************************************************************************)
(* Proofs about GateLog, for every length of the ring and of a block.      *)
(* The heart of the invariant: the numbers that are not forgotten are      *)
(* those of the records between the bounds of the controller, and the      *)
(* answer on the wire speaks of the oldest of them.                        *)
(***************************************************************************)
EXTENDS GateLog, TLAPS

USE LogAssumption

\* The answer that is on the wire is still true when it is read.
WireOK ==
    /\ wire.op = "bounds" =>
          \/ ~InLog(wire.up, wire.down)
          \/ /\ wire.down = down /\ wire.up \in Places
             /\ Behind(wire.up, down) <= Behind(up, down)
    /\ wire.op = "data" =>
          /\ bound_down = down
          /\ Len(wire.records) \in Nat \ {0}
          /\ Len(wire.records) <= Behind(up, down)
          /\ down + Len(wire.records) <= Ring
          /\ \A i \in 1..Len(wire.records) : wire.records[i] = log[freed + i]

\* The ring holds what is not forgotten.
RingOK ==
    /\ Len(log) = freed + Behind(up, down)
    /\ \A a \in Places : Behind(a, down) < Behind(up, down) => ring[a] = log[Number(a)]

LogInv == TypeOK /\ RingOK /\ WireOK

LEMMA BehindFacts ==
    ASSUME NEW d \in Places
    PROVE  /\ \A a \in Places : Behind(a, d) \in 0..Ring - 1
           /\ \A a \in Places : After(a) \in Places
           /\ \A a \in Places : After(a) # d => Behind(After(a), d) = Behind(a, d) + 1
           /\ \A a, b \in Places : Behind(a, d) = Behind(b, d) => a = b
           /\ Behind(d, d) = 0
BY DEF Places, Behind, After

\* A block never reaches behind the oldest events or the end of the ring.
LEMMA LengthFacts ==
    ASSUME NEW u \in Places, NEW d \in Places
    PROVE  /\ Length(u, d) \in Nat /\ Length(u, d) <= Behind(u, d) /\ d + Length(u, d) <= Ring
           /\ \A i \in 1..Length(u, d) : d + i - 1 \in Places /\ Behind(d + i - 1, d) = i - 1
BY DEF Length, Behind, Places

\* Where the bound goes when n records were read.
LEMMA BoundFacts ==
    ASSUME NEW d \in Places, NEW n \in Nat \ {0}, d + n <= Ring, bound_down = d
    PROVE  /\ NewBound(n) \in Places
           /\ NewBound(n) = d => n = Ring
           /\ NewBound(n) # d => Behind(NewBound(n), d) = n
           /\ \A u \in Places : n <= Behind(u, d) =>
                 Behind(u, NewBound(n)) = Behind(u, d) - n
           /\ \A a \in Places : Behind(a, NewBound(n)) + n < Ring =>
                 Behind(a, d) = Behind(a, NewBound(n)) + n
BY DEF NewBound, Behind, Places

LEMMA InitLog == Init => LogInv
<1> SUFFICES ASSUME Init PROVE LogInv
  OBVIOUS
<1>1. up \in Places /\ down = up /\ Behind(up, down) = 0
  BY BehindFacts DEF Init
<1>2. wire = None /\ wire.op = "none"
  BY DEF Init, None
<1>3. TypeOK
  BY <1>1 DEF Init, TypeOK, Places, Answers
<1>4. RingOK
  BY <1>1, BehindFacts DEF Init, RingOK
<1> QED BY <1>2, <1>3, <1>4 DEF LogInv, WireOK

-----------------------------------------------------------------------------
(* The steps *)

LEMMA AnswerTypes ==
    /\ None \in Answers /\ Ack \in Answers
    /\ None.op = "none" /\ Ack.op = "ack"
    /\ \A u, d \in Nat : Bounds(u, d) \in Answers
    /\ \A u, d : Bounds(u, d).op = "bounds" /\ Bounds(u, d).up = u /\ Bounds(u, d).down = d
    /\ \A r \in Seq(Kinds \cup {0}) : Data(r) \in Answers
    /\ \A r : Data(r).op = "data" /\ Data(r).records = r
BY DEF None, Ack, Bounds, Data, Answers

LEMMA HappenStep ==
    ASSUME LogInv, NEW k \in Kinds, Happen(k)
    PROVE  LogInv'
<1> USE DEF LogInv
<1>1. /\ ring \in [Places -> Kinds \cup {0}] /\ up \in Places /\ down \in Places
      /\ log \in Seq(Kinds) /\ freed \in Nat
  BY DEF TypeOK
<1>2. /\ After(up) # down /\ ring' = [ring EXCEPT ![up] = k] /\ up' = After(up)
      /\ log' = Append(log, k) /\ down' = down /\ freed' = freed
  BY DEF Happen
<1>3. /\ up' \in Places /\ Behind(up', down) = Behind(up, down) + 1 /\ Behind(up, down) \in Nat
  BY <1>1, <1>2, BehindFacts
<1>4. /\ log' \in Seq(Kinds) /\ Len(log') = Len(log) + 1
      /\ \A i \in 1..Len(log) : log'[i] = log[i]
      /\ log'[Len(log) + 1] = k
  BY <1>1, <1>2
<1>5. TypeOK'
  BY <1>1, <1>2, <1>3, <1>4 DEF TypeOK, Happen
<1>6. RingOK'
  <2>1. Len(log') = freed' + Behind(up', down')
    BY <1>1, <1>2, <1>3, <1>4 DEF RingOK
  <2>2. ASSUME NEW a \in Places, Behind(a, down) < Behind(up, down) + 1
        PROVE  ring'[a] = log'[freed + Behind(a, down) + 1]
    <3>1. CASE a = up
      <4>1. freed + Behind(a, down) + 1 = Len(log) + 1
        BY <1>1, <1>3, <3>1 DEF RingOK
      <4> QED BY <1>1, <1>2, <1>4, <3>1, <4>1
    <3>2. CASE a # up
      <4>1. Behind(a, down) \in Nat /\ Behind(a, down) < Behind(up, down)
        BY <1>1, <1>3, <2>2, <3>2, BehindFacts
      <4>2. ring[a] = log[freed + Behind(a, down) + 1]
        BY <4>1 DEF RingOK, Number
      <4>3. freed + Behind(a, down) + 1 \in 1..Len(log)
        BY <1>1, <1>3, <4>1 DEF RingOK
      <4> QED BY <1>1, <1>2, <1>4, <3>2, <4>2, <4>3
    <3> QED BY <3>1, <3>2
  <2> QED BY <1>2, <1>3, <2>1, <2>2 DEF RingOK, Number, Behind
<1>7. WireOK'
  <2>1. wire' = wire /\ bound_down' = bound_down
    BY DEF Happen
  <2>2. ASSUME wire.op = "data", NEW i \in 1..Len(wire.records)
        PROVE  log'[freed + i] = log[freed + i]
    BY <1>1, <1>3, <1>4, <2>2 DEF WireOK, RingOK
  <2>3. ASSUME wire.op = "bounds", InLog(wire.up, wire.down)
        PROVE  /\ wire.down = down /\ wire.up \in Places
               /\ Behind(wire.up, down) <= Behind(up', down)
    <3>1. /\ wire.down = down /\ wire.up \in Places
          /\ Behind(wire.up, down) <= Behind(up, down)
      BY <2>3 DEF WireOK
    <3>2. Behind(wire.up, down) \in Nat
      BY <1>1, <3>1, BehindFacts
    <3> QED BY <1>3, <3>1, <3>2
  <2>4. ASSUME wire.op = "data"
        PROVE  /\ bound_down = down
               /\ Len(wire.records) \in Nat \ {0}
               /\ Len(wire.records) <= Behind(up', down)
               /\ down + Len(wire.records) <= Ring
               /\ \A i \in 1..Len(wire.records) : wire.records[i] = log'[freed + i]
    BY <1>3, <2>2, <2>4 DEF WireOK
  <2>5. Behind(up, down)' = Behind(up', down)
    BY <1>2 DEF Behind
  <2>6. (wire.op = "bounds" =>
            \/ ~InLog(wire.up, wire.down)
            \/ /\ wire.down = down /\ wire.up \in Places
               /\ Behind(wire.up, down) <= Behind(up, down))'
    BY <1>2, <2>1, <2>3, <2>5 DEF InLog, Behind
  <2>7. (wire.op = "data" =>
            /\ bound_down = down
            /\ Len(wire.records) \in Nat \ {0}
            /\ Len(wire.records) <= Behind(up, down)
            /\ down + Len(wire.records) <= Ring
            /\ \A i \in 1..Len(wire.records) : wire.records[i] = log[freed + i])'
    BY <1>2, <2>1, <2>4, <2>5
  <2> QED BY <2>6, <2>7 DEF WireOK
<1> QED BY <1>5, <1>6, <1>7

\* A step that leaves the log and the controller alone.
LEMMA QuietStep ==
    ASSUME LogInv, UNCHANGED <<farVars, feedVars>>, asks' \in Nat, resets' \in Nat,
           wire' \in Answers, bound_down' \in 0..Ring, last' \in Kinds \cup {0}, WireOK'
    PROVE  LogInv'
BY DEF LogInv, TypeOK, RingOK, farVars, feedVars, Behind, Number

LEMMA NoneWire == wire' \in {None, Ack} => WireOK' /\ wire' \in Answers
BY AnswerTypes DEF WireOK

LEMMA ReadLemma ==
    ASSUME LogInv, NEW u \in Places, Behind(u, down) <= Behind(up, down), Length(u, down) # 0
    PROVE  LET r == Read(down, Length(u, down)) IN
           /\ r \in Seq(Kinds \cup {0}) /\ Len(r) = Length(u, down) /\ Len(r) \in Nat \ {0}
           /\ Len(r) <= Behind(up, down) /\ down + Len(r) <= Ring
           /\ \A i \in 1..Len(r) : r[i] = log[freed + i]
<1> DEFINE n == Length(u, down)
           r == Read(down, n)
<1>1. /\ down \in Places /\ up \in Places /\ ring \in [Places -> Kinds \cup {0}] /\ freed \in Nat
      /\ Behind(up, down) \in Nat /\ Behind(u, down) \in Nat
  BY BehindFacts DEF LogInv, TypeOK
<1>2. /\ n \in Nat \ {0} /\ n <= Behind(u, down) /\ down + n <= Ring
      /\ \A i \in 1..n : down + i - 1 \in Places /\ Behind(down + i - 1, down) = i - 1
  BY <1>1, LengthFacts
<1>3. \A i \in 1..n : down + i - 1 < Ring
  BY <1>2 DEF Places
<1>4. r = [i \in 1..n |-> ring[down + i - 1]]
  BY <1>3 DEF Read
<1> HIDE DEF r, n
<1>5. r \in Seq(Kinds \cup {0}) /\ Len(r) = n
  BY <1>1, <1>2, <1>4
<1>6. ASSUME NEW i \in 1..n PROVE r[i] = log[freed + i]
  <2>1. ring[down + i - 1] = log[freed + (i - 1) + 1]
    BY <1>1, <1>2 DEF LogInv, RingOK, Number
  <2>2. freed + (i - 1) + 1 = freed + i
    BY <1>1, <1>2
  <2> QED BY <1>4, <2>1, <2>2
<1> QED BY <1>1, <1>2, <1>5, <1>6 DEF r, n

LEMMA ReadBoundsStep ==
    ASSUME LogInv, ReadBounds
    PROVE  LogInv'
<1>1. /\ UNCHANGED <<farVars, feedVars>> /\ asks' = asks /\ resets' = resets /\ last' = last
      /\ wire.op = "bounds"
  BY DEF ReadBounds
<1>2. TypeOK /\ down \in Places
  BY DEF LogInv, TypeOK
<1>3. CASE wire' = None /\ bound_down' \in 0..Ring
  BY <1>1, <1>2, <1>3, NoneWire, QuietStep DEF TypeOK
<1>4. CASE InLog(wire.up, wire.down)
  <2>1. wire.down = down /\ wire.up \in Places /\ Behind(wire.up, down) <= Behind(up, down)
    BY <1>1, <1>4 DEF LogInv, WireOK
  <2>2. bound_down' = down
    BY <1>4, <2>1 DEF ReadBounds
  <2>3. bound_down' \in 0..Ring
    BY <1>2, <2>2 DEF Places
  <2>4. CASE wire' = None
    BY <1>3, <2>3, <2>4
  <2>5. CASE Length(wire.up, down) # 0 /\ wire' = Data(Read(down, Length(wire.up, down)))
    <3> DEFINE r == Read(down, Length(wire.up, down))
    <3>1. /\ r \in Seq(Kinds \cup {0}) /\ Len(r) \in Nat \ {0}
          /\ Len(r) <= Behind(up, down) /\ down + Len(r) <= Ring
          /\ \A i \in 1..Len(r) : r[i] = log[freed + i]
      BY <2>1, <2>5, ReadLemma
    <3> HIDE DEF r
    <3>2. wire' = Data(r) /\ wire' \in Answers /\ wire'.op = "data" /\ wire'.records = r
      BY <2>5, <3>1, AnswerTypes DEF r
    <3>3. up' = up /\ down' = down /\ freed' = freed /\ log' = log
      BY <1>1 DEF farVars, feedVars
    <3>4. WireOK'
      BY <2>2, <3>1, <3>2, <3>3 DEF WireOK, Behind
    <3> QED BY <1>1, <1>2, <2>3, <3>2, <3>4, QuietStep DEF TypeOK
  <2> QED BY <1>4, <2>1, <2>4, <2>5 DEF ReadBounds, Reply
<1>5. CASE ~InLog(wire.up, wire.down)
  BY <1>2, <1>3, <1>5 DEF ReadBounds, TypeOK
<1> QED BY <1>4, <1>5

LEMMA SendAskStep ==
    ASSUME LogInv, SendAsk
    PROVE  LogInv'
<1>1. /\ UNCHANGED <<farVars, feedVars>> /\ asks' \in Nat /\ resets' = resets /\ last' = last
      /\ bound_down' = bound_down
  BY DEF SendAsk, LogInv, TypeOK
<1>2. TypeOK /\ down \in Places /\ up \in Places /\ up' = up /\ down' = down
  BY <1>1 DEF LogInv, TypeOK, farVars
<1>3. CASE wire' = Bounds(up, down)
  <2>1. wire'.op = "bounds" /\ wire'.up = up /\ wire'.down = down /\ wire' \in Answers
    BY <1>2, <1>3, AnswerTypes DEF Places
  <2>2. Behind(up, down) <= Behind(up, down)
    BY <1>2, BehindFacts
  <2>3. WireOK'
    BY <1>2, <2>1, <2>2 DEF WireOK, Behind
  <2> QED BY <1>1, <1>2, <2>1, <2>3, QuietStep DEF TypeOK
<1>4. ASSUME NEW u \in 0..Ring + 1, NEW d \in 0..Ring + 1, Ring + 1 \in {u, d}, wire' = Bounds(u, d)
      PROVE  LogInv'
  <2>1. wire'.op = "bounds" /\ wire'.up = u /\ wire'.down = d /\ wire' \in Answers
    BY <1>4, AnswerTypes
  <2>2. ~(u <= Ring /\ d <= Ring)
    BY <1>4
  <2>3. WireOK'
    BY <2>1, <2>2 DEF WireOK, InLog
  <2> QED BY <1>1, <1>2, <2>1, <2>3, QuietStep DEF TypeOK
<1>5. CASE wire' = None
  BY <1>1, <1>2, <1>5, NoneWire, QuietStep DEF TypeOK
<1> QED BY <1>3, <1>4, <1>5 DEF SendAsk, Reply

\* A block holds the oldest events.
LEMMA BlockFacts ==
    ASSUME LogInv, wire.op = "data"
    PROVE  LET n == Len(wire.records) IN
           /\ n \in Nat \ {0} /\ freed + n <= Len(log) /\ n <= Behind(up, down)
           /\ bound_down = down /\ down + n <= Ring
           /\ wire.records \in Seq(Kinds \cup {0})
           /\ \A i \in 1..n : Num(i) = freed + i /\ IsEvent(wire.records, i)
           /\ \A i \in 1..n : wire.records[i] = log[freed + i]
<1> DEFINE r == wire.records
           n == Len(r)
<1>1. /\ bound_down = down /\ n \in Nat \ {0} /\ n <= Behind(up, down) /\ down + n <= Ring
      /\ \A i \in 1..n : r[i] = log[freed + i]
  BY DEF LogInv, WireOK
<1>2. /\ freed \in Nat /\ Len(log) \in Nat /\ Len(log) = freed + Behind(up, down)
      /\ down \in Places /\ up \in Places /\ Behind(up, down) \in Nat
  BY BehindFacts DEF LogInv, TypeOK, RingOK
<1>3. r \in Seq(Kinds \cup {0})
  BY AnswerTypes DEF LogInv, TypeOK, Answers, None, Ack
<1>4. ASSUME NEW i \in 1..n PROVE Num(i) = freed + i /\ IsEvent(r, i)
  <2>1. down + i - 1 \in Places /\ Behind(down + i - 1, down) = i - 1
    BY <1>1, <1>2 DEF Behind, Places
  <2>2. Num(i) = freed + i
    BY <1>1, <1>2, <2>1 DEF Num, Number
  <2> QED BY <1>1, <1>2, <2>2 DEF IsEvent
<1> QED BY <1>1, <1>2, <1>3, <1>4

\* All records of a block are handled; some of them are reported.
LEMMA HandledFacts ==
    ASSUME LogInv, ReadData
    PROVE  LET n == Len(wire.records) IN
           /\ handled' = handled \cup (freed + 1)..(freed + n)
           /\ reported' \subseteq handled'
<1> DEFINE r == wire.records
           n == Len(r)
<1>1. wire.op = "data"
  BY DEF ReadData
<1>2. n \in Nat \ {0} /\ \A i \in 1..n : Num(i) = freed + i /\ IsEvent(r, i)
  BY <1>1, BlockFacts
<1>3. freed \in Nat /\ reported \subseteq handled
  BY DEF LogInv, TypeOK
<1>4. /\ handled' = handled \cup {Num(i) : i \in {j \in 1..n : IsEvent(r, j)}}
      /\ reported' = reported \cup
             {Num(i) : i \in {j \in 1..n : IsEvent(r, j) /\ ~Repeated(r, j)}}
  BY DEF ReadData
<1> HIDE DEF r, n
<1>5. {Num(i) : i \in {j \in 1..n : IsEvent(r, j)}} = (freed + 1)..(freed + n)
  <2>1. ASSUME NEW m \in (freed + 1)..(freed + n)
        PROVE  m \in {Num(i) : i \in {j \in 1..n : IsEvent(r, j)}}
    <3>1. m - freed \in 1..n /\ freed + (m - freed) = m
      BY <1>2, <1>3
    <3> QED BY <1>2, <3>1
  <2>2. ASSUME NEW i \in 1..n PROVE Num(i) \in (freed + 1)..(freed + n)
    BY <1>2, <1>3
  <2> QED BY <2>1, <2>2
<1> QED BY <1>3, <1>4, <1>5 DEF r, n

LEMMA ReadDataStep ==
    ASSUME LogInv, ReadData
    PROVE  LogInv'
<1> DEFINE r == wire.records
           n == Len(r)
           b == NewBound(n)
<1>1. /\ n \in Nat \ {0} /\ freed + n <= Len(log) /\ n <= Behind(up, down)
      /\ bound_down = down /\ down + n <= Ring /\ r \in Seq(Kinds \cup {0})
  BY BlockFacts DEF ReadData
<1>2. /\ TypeOK /\ down \in Places /\ up \in Places /\ freed \in Nat /\ Len(log) \in Nat
      /\ Behind(up, down) \in 0..Ring - 1 /\ Len(log) = freed + Behind(up, down)
  BY BehindFacts DEF LogInv, TypeOK, RingOK
<1>3. /\ b \in Places /\ Behind(b, down) = n
      /\ Behind(up, b) = Behind(up, down) - n
      /\ \A a \in Places : Behind(a, b) + n < Ring => Behind(a, down) = Behind(a, b) + n
      /\ \A a \in Places : Behind(a, b) \in Nat
  <2> HIDE DEF n
  <2>1. n # Ring /\ bound_down = down
    BY <1>1, <1>2
  <2>2. /\ b \in Places /\ (b = down => n = Ring) /\ (b # down => Behind(b, down) = n)
        /\ \A u \in Places : n <= Behind(u, down) => Behind(u, b) = Behind(u, down) - n
        /\ \A a \in Places : Behind(a, b) + n < Ring => Behind(a, down) = Behind(a, b) + n
    BY <1>1, <1>2, BoundFacts
  <2>3. \A a \in Places : Behind(a, b) \in Nat
    BY <2>2, BehindFacts
  <2> QED BY <1>1, <1>2, <2>1, <2>2, <2>3
<1>4. handled' = handled \cup (freed + 1)..(freed + n) /\ reported' \subseteq handled'
  BY HandledFacts
<1>5. handled' \subseteq 1..Len(log)
  <2> HIDE DEF n
  <2>1. (freed + 1)..(freed + n) \subseteq 1..Len(log)
    BY <1>1, <1>2
  <2> QED BY <1>2, <1>4, <2>1 DEF TypeOK
<1>6. /\ UNCHANGED <<ring, up, asks, resets, bound_down, log>> /\ last' = r[n]
      /\ SetDown(b)
  BY DEF ReadData
<1>7. last' \in Kinds \cup {0}
  BY <1>1, <1>6
<1> HIDE DEF r, n, b
<1>8. wire' \in {None, Ack}
  BY <1>6 DEF SetDown, Reply
<1>9. WireOK' /\ wire' \in Answers
  BY <1>8, NoneWire
<1>10. CASE down' = b /\ freed' = freed + Behind(b, down)
  <2>1. freed' = freed + n /\ freed' \in 0..Len(log)
    BY <1>1, <1>2, <1>3, <1>10 DEF n
  <2>2. TypeOK'
    BY <1>2, <1>3, <1>4, <1>5, <1>6, <1>7, <1>9, <1>10, <2>1 DEF TypeOK
  <2>3. Len(log) = freed' + Behind(up, b)
    BY <1>1, <1>2, <1>3, <2>1 DEF n
  <2>4. ASSUME NEW a \in Places, Behind(a, b) < Behind(up, b)
        PROVE  ring[a] = log[freed' + Behind(a, b) + 1]
    <3>1. Behind(a, down) = Behind(a, b) + n /\ Behind(a, down) < Behind(up, down)
      BY <1>1, <1>2, <1>3, <2>4 DEF n
    <3>2. ring[a] = log[freed + Behind(a, down) + 1]
      BY <3>1 DEF LogInv, RingOK, Number
    <3>3. freed + Behind(a, down) + 1 = freed' + Behind(a, b) + 1
      BY <1>1, <1>2, <1>3, <2>1, <3>1 DEF n
    <3> QED BY <3>2, <3>3
  <2>5. RingOK'
    BY <1>6, <1>10, <2>3, <2>4 DEF RingOK, Number, Behind
  <2> QED BY <1>9, <2>2, <2>5 DEF LogInv
<1>11. CASE UNCHANGED <<down, freed>>
  <2>1. TypeOK'
    BY <1>2, <1>4, <1>5, <1>6, <1>7, <1>9, <1>11 DEF TypeOK
  <2>2. RingOK'
    BY <1>6, <1>11 DEF LogInv, RingOK, Number, Behind
  <2> QED BY <1>9, <2>1, <2>2 DEF LogInv
<1> QED BY <1>6, <1>10, <1>11 DEF SetDown

LEMMA SendResetStep ==
    ASSUME LogInv, SendReset
    PROVE  LogInv'
<1>1. /\ UNCHANGED <<ring, asks, bound_down, last, log, handled, reported>> /\ resets' \in Nat
      /\ TypeOK
  BY DEF SendReset, LogInv, TypeOK
<1>2. wire' \in {None, Ack} /\ wire = None
  BY DEF SendReset, Reply
<1>3. WireOK' /\ wire' \in Answers
  BY <1>2, NoneWire
<1>4. CASE up' = 0 /\ down' = 0 /\ freed' = Len(log)
  <2>1. 0 \in Places /\ Len(log) \in Nat /\ Behind(0, 0) = 0
    BY <1>1 DEF Places, Behind, TypeOK
  <2>2. TypeOK'
    BY <1>1, <1>3, <1>4, <2>1 DEF TypeOK
  <2>3. \A a \in Places : ~(Behind(a, 0) < 0)
    BY <2>1, BehindFacts
  <2>4. RingOK'
    BY <1>1, <1>4, <2>1, <2>3 DEF RingOK, Behind
  <2> QED BY <1>3, <2>2, <2>4 DEF LogInv
<1>5. CASE UNCHANGED <<up, down, freed, wire>>
  BY <1>1, <1>3, <1>5, QuietStep DEF TypeOK, farVars, feedVars
<1> QED BY <1>4, <1>5 DEF SendReset

LEMMA OtherSteps ==
    ASSUME LogInv, ScanLog \/ AskReset \/ ReadAck \/ Restart
    PROVE  LogInv'
<1>1. TypeOK /\ UNCHANGED <<farVars, feedVars>>
  BY DEF LogInv, ScanLog, AskReset, ReadAck, Restart
<1>2. CASE ScanLog \/ AskReset
  <2>1. WireOK' /\ wire' = wire
    BY <1>1, <1>2 DEF LogInv, WireOK, ScanLog, AskReset, farVars, feedVars, Behind
  <2> QED BY <1>1, <1>2, <2>1, QuietStep DEF TypeOK, ScanLog, AskReset
<1>3. CASE ReadAck \/ Restart
  <2>1. WireOK' /\ wire' \in Answers
    BY <1>3, NoneWire DEF ReadAck, Restart
  <2> QED BY <1>1, <1>3, <2>1, QuietStep DEF TypeOK, ReadAck, Restart
<1> QED BY <1>2, <1>3

LEMMA StepKeepsLogInv == LogInv /\ [Next]_vars => LogInv'
<1> SUFFICES ASSUME LogInv, [Next]_vars PROVE LogInv'
  OBVIOUS
<1>1. CASE UNCHANGED vars
  BY <1>1 DEF LogInv, TypeOK, RingOK, WireOK, InLog, Behind, Number, vars
<1>2. CASE Next
  BY <1>2, HappenStep, OtherSteps, SendResetStep, SendAskStep, ReadBoundsStep, ReadDataStep
     DEF Next, Dialogue
<1> QED BY <1>1, <1>2

-----------------------------------------------------------------------------
(* The theorems *)

\* In every state of every run the records between the bounds are the events
\* that are not forgotten, and an answer that is being read is still true.
THEOREM LogInductive == Spec => []LogInv
BY InitLog, StepKeepsLogInv, PTL DEF Spec

\* The bounds stay in the ring, and what is reported was handled before.
THEOREM LogTyped == Spec => []TypeOK
<1>1. LogInv => TypeOK
  BY DEF LogInv
<1> QED BY <1>1, LogInductive, PTL

\* Handled, Release and Handle as the steps of the feed see them.
LEMMA ReadDataFeeds ==
    ASSUME LogInv, ReadData
    PROVE  Feed!Next
<1> DEFINE n == Len(wire.records)
           b == NewBound(n)
<1>1. /\ n \in Nat \ {0} /\ freed + n <= Len(log) /\ n <= Behind(up, down)
      /\ bound_down = down /\ down + n <= Ring
  BY BlockFacts DEF ReadData
<1>2. /\ down \in Places /\ up \in Places /\ freed \in Nat /\ Len(log) \in Nat
      /\ Behind(up, down) \in 0..Ring - 1
  BY BehindFacts DEF LogInv, TypeOK
<1>3. handled' = handled \cup (freed + 1)..(freed + n)
  BY HandledFacts
<1>4. log' = log /\ SetDown(b)
  BY DEF ReadData
<1> HIDE DEF n
<1>5. Behind(b, down) = n
  <2>1. n # Ring
    BY <1>1, <1>2
  <2> QED BY <1>1, <1>2, <2>1, BoundFacts
<1> HIDE DEF b
<1>6. freed' = freed + n \/ freed' = freed
  BY <1>4, <1>5 DEF SetDown
<1>7. freed + n \in freed..Len(log)
  BY <1>1, <1>2
<1>8. freed' \in freed..(freed + n) /\ (freed + 1)..freed' \subseteq handled'
  BY <1>1, <1>2, <1>3, <1>6
<1>9. PICK m \in freed..Len(log) : m = freed + n
  BY <1>7
<1>10. handled' = handled \cup (freed + 1)..m
  BY <1>3, <1>9
<1>11. Feed!Release(m, freed')
  BY <1>4, <1>8, <1>10 DEF Feed!Release
<1> QED BY <1>8, <1>9, <1>11 DEF Feed!Next

\* The dialogue implements the feed: under losses, restarts, bad bounds and
\* resets the controller forgets nothing that was not handed over.
THEOREM ImplementsFeed == Spec => FeedSpec
<1>1. Init => Feed!Init
  BY DEF Init, Feed!Init
<1>2. LogInv /\ [Next]_vars => [Feed!Next]_(Feed!feedVars)
  <2> SUFFICES ASSUME LogInv, [Next]_vars PROVE Feed!Next \/ UNCHANGED <<log, handled, freed>>
    BY DEF Feed!feedVars
  <2>1. ASSUME NEW k \in Kinds, Happen(k) PROVE Feed!Next
    BY <2>1 DEF Happen, Feed!Next, Feed!Happen
  <2>2. CASE SendReset
    <3>1. CASE freed' = Len(log)
      BY <2>2, <3>1 DEF SendReset, Feed!Next, Feed!Reset
    <3>2. CASE freed' = freed
      BY <2>2, <3>2 DEF SendReset
    <3> QED BY <2>2, <3>1, <3>2 DEF SendReset
  <2>3. CASE ReadData
    BY <2>3, ReadDataFeeds
  <2>4. CASE ScanLog \/ AskReset \/ SendAsk \/ ReadBounds \/ ReadAck \/ Restart \/ UNCHANGED vars
    BY <2>4 DEF ScanLog, AskReset, SendAsk, ReadBounds, ReadAck, Restart, vars, feedVars
  <2> QED BY <2>1, <2>2, <2>3, <2>4 DEF Next, Dialogue
<1> QED BY <1>1, <1>2, LogInductive, PTL DEF Spec, FeedSpec, Feed!Spec

-----------------------------------------------------------------------------
(* No event that was read disappears unreported. *)

\* What was handled lies within n events of those the controller keeps.
Within(n) == \A i \in handled : i <= freed + n

\* Blocks begin with the oldest event and never get shorter, so the events
\* that were handled are known without gaps, and the one that is compared with
\* the next is the newest of them.
SeenInv ==
    /\ \A i \in handled : \A k \in (freed + 1)..i : k \in handled
    /\ last = 0 \/ \E j \in handled : last = log[j] /\ \A k \in handled : k <= j
    /\ Within(Length(up, down))
    /\ wire.op = "bounds" /\ InLog(wire.up, wire.down) => Within(Length(wire.up, wire.down))
    /\ wire.op = "data" =>
          Within(Len(wire.records)) /\ Len(wire.records) <= Length(up, down)

\* A fuller log is never read in shorter blocks.
LEMMA LengthMonotone ==
    ASSUME NEW d \in Places, NEW u \in Places, NEW v \in Places, Behind(u, d) <= Behind(v, d)
    PROVE  Length(u, d) <= Length(v, d)
BY DEF Length, Behind, Places

LEMMA SeenTypes ==
    ASSUME LogInv
    PROVE  /\ freed \in Nat /\ log \in Seq(Kinds) /\ Len(log) \in Nat /\ freed <= Len(log)
           /\ handled \subseteq 1..Len(log) /\ down \in Places /\ up \in Places
           /\ Behind(up, down) \in 0..Ring - 1 /\ Length(up, down) \in Nat
           /\ 0 \in Places
<1>1. down \in Places /\ up \in Places /\ log \in Seq(Kinds) /\ freed \in 0..Len(log)
        /\ handled \subseteq 1..Len(log)
  BY DEF LogInv, TypeOK
<1>2. Behind(up, down) \in 0..Ring - 1 /\ Length(up, down) \in Nat
  BY <1>1, BehindFacts, LengthFacts
<1>3. 0 \in Places
  BY DEF Places
<1> QED BY <1>1, <1>2, <1>3

\* Nothing that is reported, compared or handled changes.
LEMMA SameEvents ==
    ASSUME LogInv, EachReported, UNCHANGED <<log, handled, reported>>
    PROVE  EachReported'
BY DEF EachReported, Repeats

LEMMA HappenSees ==
    ASSUME LogInv, SeenInv, EachReported, NEW e \in Kinds, Happen(e)
    PROVE  SeenInv' /\ EachReported'
<1>1. /\ UNCHANGED <<wire, last, handled, reported, freed, down>> /\ log' = Append(log, e)
      /\ up' = After(up) /\ After(up) # down
  BY DEF Happen
<1>2. \A i \in handled : log'[i] = log[i]
  BY <1>1, SeenTypes
<1>3. up' \in Places /\ Behind(up, down) <= Behind(up', down)
  BY <1>1, SeenTypes, BehindFacts
<1>4. Length(up, down) <= Length(up', down) /\ Length(up', down) \in Nat
  BY <1>3, SeenTypes, LengthMonotone, LengthFacts
<1>5. Within(Length(up, down))'
  <2>1. \A i \in handled : i <= freed + Length(up', down)
    BY <1>4, SeenTypes DEF SeenInv, Within
  <2> QED BY <1>1, <2>1 DEF Within, Length
<1>6. (wire.op = "bounds" /\ InLog(wire.up, wire.down) => Within(Length(wire.up, wire.down)))'
  BY <1>1 DEF SeenInv, Within, InLog, Length
<1>7. (wire.op = "data" => Within(Len(wire.records)) /\ Len(wire.records) <= Length(up, down))'
  <2>1. ASSUME wire.op = "data" PROVE Len(wire.records) <= Length(up', down)
    BY <1>4, <2>1, SeenTypes, BlockFacts DEF SeenInv
  <2> QED BY <1>1, <2>1 DEF SeenInv, Within, Length
<1>8. (last = 0 \/ \E j \in handled : last = log[j] /\ \A k \in handled : k <= j)'
  BY <1>1, <1>2 DEF SeenInv
<1>9. (\A i \in handled : \A k \in (freed + 1)..i : k \in handled)'
  BY <1>1 DEF SeenInv
<1>10. EachReported'
  BY <1>1, <1>2 DEF EachReported, Repeats
<1> QED BY <1>5, <1>6, <1>7, <1>8, <1>9, <1>10 DEF SeenInv

LEMMA SendResetSees ==
    ASSUME LogInv, SeenInv, EachReported, SendReset
    PROVE  SeenInv' /\ EachReported'
<1>1. UNCHANGED <<log, handled, reported, last>> /\ wire' \in {None, Ack}
  BY DEF SendReset, Reply
<1>2. wire'.op # "bounds" /\ wire'.op # "data"
  BY <1>1, AnswerTypes
<1>3. CASE UNCHANGED <<up, down, freed>>
  BY <1>1, <1>2, <1>3, SameEvents DEF SeenInv, Within, Length
<1>4. CASE up' = 0 /\ down' = 0 /\ freed' = Len(log)
  <2>1. Length(up', down') \in Nat
    BY <1>4, SeenTypes, LengthFacts
  <2>2. \A i \in handled : i <= freed' /\ i \in Nat
    BY <1>4, SeenTypes
  <2>3. Within(Length(up, down))'
    <3>1. \A i \in handled : i <= freed' + Length(up', down')
      BY <1>4, <2>1, <2>2, SeenTypes
    <3> QED BY <1>1, <3>1 DEF Within, Length
  <2>4. \A i \in handled : \A k \in (freed' + 1)..i : k \in handled
    BY <1>4, <2>2, SeenTypes
  <2> QED BY <1>1, <1>2, <2>3, <2>4, SameEvents DEF SeenInv
<1> QED BY <1>3, <1>4 DEF SendReset

\* The controller is asked for its bounds, or answers with a block.
LEMMA SendAskSees ==
    ASSUME LogInv, SeenInv, EachReported, SendAsk
    PROVE  SeenInv' /\ EachReported'
<1>1. UNCHANGED <<log, handled, reported, last, freed, up, down>>
  BY DEF SendAsk, farVars, feedVars
<1>2. CASE wire' = None
  BY <1>1, <1>2, AnswerTypes, SameEvents DEF SeenInv, Within, Length
<1>3. CASE wire' = Bounds(up, down)
  <2>1. wire'.op = "bounds" /\ wire'.up = up /\ wire'.down = down
    BY <1>3, AnswerTypes
  <2> QED BY <1>1, <2>1, SameEvents DEF SeenInv, Within, Length
<1>4. ASSUME NEW u \in 0..Ring + 1, NEW d \in 0..Ring + 1, Ring + 1 \in {u, d}, wire' = Bounds(u, d)
      PROVE  SeenInv' /\ EachReported'
  <2>1. wire'.op = "bounds" /\ wire'.up = u /\ wire'.down = d
    BY <1>4, AnswerTypes
  <2>2. ~(u <= Ring /\ d <= Ring)
    BY <1>4
  <2>3. ~InLog(wire.up, wire.down)'
    BY <2>1, <2>2 DEF InLog
  <2> QED BY <1>1, <2>1, <2>3, SameEvents DEF SeenInv, Within, Length
<1> QED BY <1>2, <1>3, <1>4 DEF SendAsk, Reply

LEMMA ReadBoundsSees ==
    ASSUME LogInv, SeenInv, EachReported, ReadBounds
    PROVE  SeenInv' /\ EachReported'
<1>1. UNCHANGED <<log, handled, reported, last, freed, up, down>> /\ wire.op = "bounds"
  BY DEF ReadBounds, farVars, feedVars
<1>2. CASE wire' = None
  BY <1>1, <1>2, AnswerTypes, SameEvents DEF SeenInv, Within, Length
<1>3. CASE /\ InLog(wire.up, wire.down) /\ Length(wire.up, wire.down) # 0
           /\ wire' = Data(Read(wire.down, Length(wire.up, wire.down)))
  <2>1. wire.down = down /\ wire.up \in Places /\ Behind(wire.up, down) <= Behind(up, down)
    BY <1>1, <1>3 DEF LogInv, WireOK
  <2> DEFINE r == Read(down, Length(wire.up, down))
  <2>2. Len(r) = Length(wire.up, down)
    BY <1>3, <2>1, ReadLemma
  <2>3. wire'.op = "data" /\ wire'.records = r
    BY <1>3, <2>1, AnswerTypes
  <2> HIDE DEF r
  <2>4. Length(wire.up, down) <= Length(up, down)
    BY <2>1, SeenTypes, LengthMonotone
  <2>5. Within(Len(r)) /\ Len(r) <= Length(up, down)
    BY <1>1, <1>3, <2>1, <2>2, <2>4 DEF SeenInv
  <2> QED BY <1>1, <2>3, <2>5, SameEvents DEF SeenInv, Within, Length
<1> QED BY <1>1, <1>2, <1>3 DEF ReadBounds, Reply

LEMMA ReadDataSees ==
    ASSUME LogInv, SeenInv, EachReported, ReadData
    PROVE  SeenInv' /\ EachReported'
<1> DEFINE r == wire.records
           n == Len(r)
<1>1. /\ n \in Nat \ {0} /\ freed + n <= Len(log) /\ bound_down = down
      /\ n <= Behind(up, down) /\ down + n <= Ring
      /\ \A i \in 1..n : Num(i) = freed + i /\ IsEvent(r, i)
      /\ \A i \in 1..n : r[i] = log[freed + i]
  BY BlockFacts DEF ReadData
<1>2. /\ freed \in Nat /\ log \in Seq(Kinds) /\ Len(log) \in Nat
      /\ handled \subseteq 1..Len(log) /\ handled \subseteq Nat
      /\ down \in Places /\ up \in Places /\ Behind(up, down) \in 0..Ring - 1
      /\ Length(up, down) \in Nat
  BY SeenTypes
<1>3. /\ handled' = handled \cup (freed + 1)..(freed + n)
      /\ reported' = reported \cup
             {Num(i) : i \in {j \in 1..n : IsEvent(r, j) /\ ~Repeated(r, j)}}
      /\ last' = r[n] /\ log' = log /\ up' = up
      /\ wire' \in {None, Ack}
  BY HandledFacts DEF ReadData, SetDown, Reply
<1>4. freed' = freed + n \/ (freed' = freed /\ down' = down)
  <2>1. n # Ring
    BY <1>1, <1>2
  <2>2. Behind(NewBound(n), down) = n
    BY <1>1, <1>2, <2>1, BoundFacts
  <2> QED BY <2>2 DEF ReadData, SetDown
<1>5. n <= Length(up, down) /\ \A i \in handled : i <= freed + n
  BY DEF SeenInv, Within, ReadData
<1>6. (\A i \in handled : \A k \in (freed + 1)..i : k \in handled)
  BY DEF SeenInv
<1>7. last = 0 \/ \E j \in handled : last = log[j] /\ \A k \in handled : k <= j
  BY DEF SeenInv
<1>8. Length(up', down') \in Nat
  <2>1. LogInv'
    BY ReadDataStep
  <2> QED BY <2>1, LengthFacts DEF LogInv, TypeOK
<1> HIDE DEF n, r
<1>9. \A i \in handled' : i \in Nat /\ i <= freed + n
  BY <1>1, <1>2, <1>3, <1>5
<1>10. SeenInv'
  <2>1. (\A i \in handled : \A k \in (freed + 1)..i : k \in handled)'
    BY <1>1, <1>2, <1>3, <1>4, <1>9
  <2>2. (last = 0 \/ \E j \in handled : last = log[j] /\ \A k \in handled : k <= j)'
    <3>1. freed + n \in handled' /\ r[n] = log[freed + n]
      BY <1>1, <1>2, <1>3
    <3> QED BY <1>3, <1>9, <3>1
  <2>3. Within(Length(up, down))'
    <3>1. CASE freed' = freed + n
      BY <1>1, <1>2, <1>8, <1>9, <3>1 DEF Within, Length
    <3>2. CASE freed' = freed /\ down' = down
      <4>1. Length(up, down)' = Length(up, down)
        BY <1>3, <3>2 DEF Length
      <4> QED BY <1>1, <1>2, <1>5, <1>9, <3>2, <4>1 DEF Within
    <3> QED BY <1>4, <3>1, <3>2
  <2>4. wire'.op # "bounds" /\ wire'.op # "data"
    BY <1>3, AnswerTypes
  <2> QED BY <2>1, <2>2, <2>3, <2>4 DEF SeenInv
<1>11. ASSUME NEW i \in handled' PROVE i \in reported' \/ Repeats(i)'
  <2>1. CASE i \in handled
    <3>1. CASE i \in reported
      BY <1>3, <3>1
    <3>2. ASSUME NEW j \in handled, j < i, log[j] = log[i],
                 \A k \in handled : k <= j \/ k >= i
          PROVE  Repeats(i)'
      <4>1. \A k \in handled' : k <= j \/ k >= i
        BY <1>1, <1>2, <1>3, <1>6, <2>1, <3>2
      <4> QED BY <1>3, <3>2, <4>1 DEF Repeats
    <3> QED BY <2>1, <3>1, <3>2 DEF EachReported, Repeats
  <2>2. CASE i \notin handled
    <3> DEFINE h == i - freed
    <3>1. h \in 1..n /\ freed + h = i /\ i \in Nat
      BY <1>1, <1>2, <1>3, <2>2
    <3> HIDE DEF h
    <3>2. CASE ~Repeated(r, h)
      <4>1. h \in {j \in 1..n : IsEvent(r, j) /\ ~Repeated(r, j)} /\ Num(h) = i
        BY <1>1, <3>1, <3>2
      <4> QED BY <1>3, <4>1
    <3>3. CASE Repeated(r, h) /\ h # 1
      <4>1. h - 1 \in 1..n /\ freed + (h - 1) = i - 1
        BY <1>1, <1>2, <3>1, <3>3
      <4>2. r[h] = r[h - 1]
        BY <3>3 DEF Repeated
      <4>3. i - 1 \in handled' /\ log'[i - 1] = log'[i]
        <5>1. freed + 1 <= i - 1 /\ i - 1 <= freed + n /\ i - 1 \in Nat
          BY <1>1, <1>2, <4>1
        <5>2. i - 1 \in (freed + 1)..(freed + n)
          BY <1>1, <1>2, <5>1
        <5>3. r[h - 1] = log[freed + (h - 1)] /\ r[h] = log[freed + h]
          BY <1>1, <3>1, <4>1
        <5>4. log[i - 1] = log[i]
          BY <3>1, <4>1, <4>2, <5>3
        <5> QED BY <1>3, <5>2, <5>4
      <4>4. i - 1 < i /\ \A k \in handled' : k <= i - 1 \/ k >= i
        BY <1>9, <3>1
      <4> QED BY <4>3, <4>4 DEF Repeats
    <3>4. CASE Repeated(r, h) /\ h = 1
      <4>1. i = freed + 1 /\ last = log[i] /\ log[i] \in Kinds
        BY <1>1, <1>2, <3>1, <3>4 DEF Repeated
      <4>2. PICK j \in handled : last = log[j] /\ \A k \in handled : k <= j
        BY <1>7, <4>1
      <4>3. j < i
        BY <1>2, <1>6, <2>2, <3>1, <4>1, <4>2
      <4>4. \A k \in handled' : k <= j \/ k >= i
        BY <1>1, <1>2, <1>3, <4>1, <4>2
      <4> QED BY <1>3, <4>1, <4>2, <4>3, <4>4 DEF Repeats
    <3> QED BY <3>2, <3>3, <3>4
  <2> QED BY <2>1, <2>2
<1> QED BY <1>10, <1>11 DEF EachReported

LEMMA StepSees ==
    ASSUME LogInv, SeenInv, EachReported, [Next]_vars
    PROVE  SeenInv' /\ EachReported'
<1>1. CASE ScanLog \/ AskReset \/ UNCHANGED vars
  BY <1>1, SameEvents DEF ScanLog, AskReset, vars, farVars, feedVars, SeenInv, Within, Length, InLog
<1>2. CASE ReadAck \/ Restart
  <2>1. /\ UNCHANGED <<farVars, feedVars>> /\ last' \in {last, 0}
        /\ wire'.op # "bounds" /\ wire'.op # "data"
    BY <1>2, AnswerTypes DEF ReadAck, Restart
  <2> QED BY <2>1, SameEvents DEF farVars, feedVars, SeenInv, Within, Length
<1> QED BY <1>1, <1>2, HappenSees, SendResetSees, SendAskSees, ReadBoundsSees, ReadDataSees
        DEF Next, Dialogue

\* Under losses, bad bounds, resets and restarts every event that cb_log_read
\* went through was reported, unless it repeats the one read before it.
THEOREM ReportsEach == Spec => []EachReported
<1>1. Init => SeenInv /\ EachReported
  <2> SUFFICES ASSUME Init PROVE SeenInv /\ EachReported
    OBVIOUS
  <2>1. wire.op = "none" /\ handled = {} /\ last = 0
    BY DEF Init, None
  <2> QED BY <2>1 DEF SeenInv, Within, EachReported
<1>2. LogInv /\ (SeenInv /\ EachReported) /\ [Next]_vars => (SeenInv /\ EachReported)'
  BY StepSees
<1> QED BY <1>1, <1>2, LogInductive, PTL DEF Spec
=============================================================================
