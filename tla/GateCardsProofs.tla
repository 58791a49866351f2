--------------------------- MODULE GateCardsProofs ---------------------------
(***************************************************************************)
(* Proofs about GateCards, for every number of cards and controllers and   *)
(* every memory layout.  What one state of the database leads to is proved *)
(* first, for the functions of db_layer.c; the step of the whole system    *)
(* then needs no more than that its actions call these functions.          *)
(***************************************************************************)
EXTENDS GateCards, FiniteSetTheorems, TLAPS

USE CardsAssumption

-----------------------------------------------------------------------------
(* The states of the database *)

Databases == [token : [Cards -> Addrs \cup {NoAddr}], mapping : [Addrs -> Cards \cup {NoCard}],
              dtoken : [Cards -> Addrs \cup {NoAddr}], dmapping : [Addrs -> Cards \cup {NoCard}],
              up : BOOLEAN]

\* Both pairs of files agree, and the disk is never ahead of the memory.
Consistent(s) ==
    /\ s \in Databases
    /\ \A a \in Addrs : s.mapping[a] # NoCard => s.token[s.mapping[a]] # NoAddr
    /\ \A a \in Addrs : s.dmapping[a] # NoCard => s.dtoken[s.dmapping[a]] # NoAddr
    /\ \A c \in Cards : s.dtoken[c] # NoAddr => s.token[c] # NoAddr
    /\ \A a \in Addrs : s.dmapping[a] # NoCard => s.mapping[a] = s.dmapping[a]

Keeps(s, t) == \A a \in Addrs : s.dmapping[a] # NoCard => t.dmapping[a] = s.dmapping[a]

LEMMA AddrFacts ==
    /\ Addrs \subseteq Nat /\ NoAddr \notin Addrs /\ NoCard \notin Cards
    /\ 0 \in Addrs /\ Start \in Addrs /\ Limit \in Addrs /\ Start - 1 \in Addrs
    /\ \A a \in Nat : After(a) \in Addrs
    /\ \A a \in Start..Limit : a \in Addrs
BY DEF Addrs, NoAddr, NoCard, Cards, After

LEMMA StagesConsistent ==
    ASSUME NEW s, Consistent(s), NEW t \in Stages(s)
    PROVE  Consistent(t) /\ Keeps(s, t) /\ t.up = s.up
<1>1. CASE t = s
  BY <1>1 DEF Keeps
<1>2. CASE t = [s EXCEPT !.dtoken = s.token]
  BY <1>2 DEF Consistent, Databases, Keeps
<1>3. CASE t = [s EXCEPT !.dtoken = s.token, !.dmapping = s.mapping]
  BY <1>3 DEF Consistent, Databases, Keeps
<1> QED BY <1>1, <1>2, <1>3 DEF Stages

LEMMA SyncConsistent ==
    ASSUME NEW s, Consistent(s), NEW t \in db_sync(s)
    PROVE  Consistent(t) /\ Keeps(s, t)
<1>1. t \in Stages(s)
  BY DEF db_sync, Stages
<1> QED BY <1>1, StagesConsistent

LEMMA KilledConsistent ==
    ASSUME NEW s, Consistent(s), NEW t \in Killed(s)
    PROVE  Consistent(t) /\ Keeps(s, t)
<1>1. PICK u \in Stages(s) : t = [u EXCEPT !.up = FALSE]
  BY DEF Killed
<1>2. Consistent(u) /\ Keeps(s, u)
  BY StagesConsistent
<1> QED BY <1>1, <1>2 DEF Consistent, Databases, Keeps

LEMMA AddConsistent ==
    ASSUME NEW s, Consistent(s), NEW c \in Cards, NEW a \in Addrs, NEW t \in db_add_token(s, c, a)
    PROVE  Consistent(t) /\ Keeps(s, t)
<1>1. CASE Conflict(s.mapping, c, a)
  BY <1>1 DEF db_add_token, Keeps
<1>2. CASE ~Conflict(s.mapping, c, a)
  <2> DEFINE v == [s EXCEPT !.token[c] = a]
             u == [v EXCEPT !.mapping[a] = c]
  <2>1. Consistent(v) /\ Keeps(s, v)
    BY AddrFacts DEF Consistent, Databases, Keeps
  <2>2. s.mapping[a] \in {NoCard, c}
    BY <1>2 DEF Conflict
  <2>3. v.mapping[a] \in {NoCard, c} /\ v.token[c] # NoAddr
    BY <2>2, AddrFacts DEF Consistent, Databases
  <2>4. Consistent(u) /\ Keeps(v, u)
    <3> HIDE DEF v
    <3>1. u \in Databases /\ u.token = v.token /\ u.dtoken = v.dtoken /\ u.dmapping = v.dmapping
      BY <2>1 DEF Consistent, Databases
    <3>2. \A b \in Addrs : u.mapping[b] = IF b = a THEN c ELSE v.mapping[b]
      BY <2>1 DEF Consistent, Databases
    <3> HIDE DEF u
    <3> QED BY <2>1, <2>3, <3>1, <3>2, AddrFacts DEF Consistent, Databases, Keeps
  <2>5. Keeps(s, u)
    BY <2>1, <2>4 DEF Keeps
  <2>6. t \in db_sync(u) \cup Killed(v) \cup Killed(u) \cup {s, v}
    BY <1>2 DEF db_add_token
  <2> HIDE DEF u, v
  <2>7. CASE t \in db_sync(u)
    BY <2>4, <2>5, <2>7, SyncConsistent DEF Keeps
  <2>8. CASE t \in Killed(u)
    BY <2>4, <2>5, <2>8, KilledConsistent DEF Keeps
  <2>9. CASE t \in Killed(v)
    BY <2>1, <2>9, KilledConsistent DEF Keeps
  <2> QED BY <2>1, <2>6, <2>7, <2>8, <2>9 DEF Keeps
<1> QED BY <1>1, <1>2

-----------------------------------------------------------------------------
(* One step of the system, seen from the database *)

LEMMA StoreIs ==
    ASSUME NEW s \in Databases, Store(s)
    PROVE  Database' = s
BY DEF Store, Database, Databases

LEMMA BoundType == TypeOK => maxBound \in Addrs /\ \A c \in Cards : token[c] # NoAddr => token[c] \in Addrs
BY DEF TypeOK

\* What every action does to the database, if it does anything.
LEMMA DatabaseStep ==
    ASSUME TypeOK, Consistent(Database), Next
    PROVE  Consistent(Database') /\ Keeps(Database, Database')
<1> DEFINE Fine == Consistent(Database') /\ Keeps(Database, Database')
<1>0. UNCHANGED dbVars => Fine
  <2> SUFFICES ASSUME UNCHANGED dbVars PROVE Fine
    OBVIOUS
  <2>1. Database' = Database
    BY DEF dbVars, Database
  <2> QED BY <2>1 DEF Keeps
<1>1. ASSUME NEW c \in Cards, NEW a \in Addrs, NEW s \in db_add_token(Database, c, a), Store(s)
      PROVE  Fine
  <2>1. Consistent(s) /\ Keeps(Database, s)
    BY <1>1, AddConsistent
  <2>2. Database' = s
    BY <1>1, <2>1, StoreIs DEF Consistent
  <2> QED BY <2>1, <2>2
<1>2. ASSUME NEW c \in Cards, NEW a \in Addrs, cmd_add_cid_to_all(c, a)
      PROVE  Fine
  <2>1. (IF a < Start THEN maxBound ELSE a) \in Addrs
    BY BoundType
  <2> QED BY <1>1, <1>2, <2>1 DEF cmd_add_cid_to_all
<1>3. CASE Shown
  <2> USE AddrFacts
  <2>1. ASSUME NEW d \in Devices, NEW c \in Cards, NewCard(d, c) PROVE Fine
    BY <1>2, <2>1 DEF NewCard
  <2>2. ASSUME NEW d \in Devices, NEW c \in Cards, KnownCard(d, c) PROVE Fine
    BY <1>0, <2>2 DEF KnownCard
  <2>3. ASSUME NEW d \in Devices, NEW c \in Cards, DisplacedCard(d, c) PROVE Fine
    BY <1>2, <2>3 DEF DisplacedCard
  <2> QED BY <1>3, <2>1, <2>2, <2>3 DEF Shown
<1>4. CASE Called
  <2>1. ASSUME NEW c \in Cards, AddToken(c) PROVE Fine
    BY <1>0, <1>1, <2>1, BoundType DEF AddToken
  <2>2. ASSUME NEW c \in Cards, NEW a \in {0} \cup Start..Limit, AddCid(c, a) PROVE Fine
    BY <1>2, <2>2, AddrFacts DEF AddCid
  <2>3. ASSUME NEW d \in Devices, NEW c \in Cards, NEW a \in {0} \cup Start..Limit,
               AddDirect(d, c, a)
        PROVE  Fine
    BY <1>0, <2>3 DEF AddDirect
  <2>4. ASSUME NEW D, Clear(D) PROVE Fine
    BY <1>0, <2>4 DEF Clear
  <2>5. ASSUME NEW d \in Devices, Reset(d) \/ cmd_reload_dev(d) PROVE Fine
    BY <1>0, <2>5 DEF Reset, cmd_reload_dev
  <2> QED BY <1>4, <2>1, <2>2, <2>3, <2>4, <2>5 DEF Called
<1>5. CASE Bus
  <2>1. PICK d \in Devices : Hear(d) \/ Silence(d) \/ SendFirst(d) \/ SendSecond(d) \/ Answer(d)
    BY <1>5 DEF Bus
  <2>2. UNCHANGED dbVars
    BY <2>1 DEF Hear, Silence, SendFirst, SendSecond, Answer
  <2> QED BY <1>0, <2>2
<1>6. CASE ScanDev
  <2>1. PICK s \in db_sync(Database) : Store(s)
    BY <1>6 DEF ScanDev
  <2>2. Consistent(s) /\ Keeps(Database, s)
    BY <2>1, SyncConsistent
  <2> QED BY <2>1, <2>2, StoreIs DEF Consistent
<1>7. CASE Stop
  <2>1. PICK s \in Killed(Database) : Store(s)
    BY <1>7 DEF Stop
  <2>2. Consistent(s) /\ Keeps(Database, s)
    BY <2>1, KilledConsistent
  <2> QED BY <2>1, <2>2, StoreIs DEF Consistent
<1>8. CASE Restart
  <2>1. Database' = [token |-> dtoken, mapping |-> dmapping, dtoken |-> dtoken,
                     dmapping |-> dmapping, up |-> TRUE]
    BY <1>8 DEF Restart, Database
  <2>2. /\ dtoken \in [Cards -> Addrs \cup {NoAddr}] /\ dmapping \in [Addrs -> Cards \cup {NoCard}]
        /\ \A a \in Addrs : dmapping[a] # NoCard => dtoken[dmapping[a]] # NoAddr
    BY DEF Consistent, Databases, Database
  <2>3. Consistent(Database')
    BY <2>1, <2>2 DEF Consistent, Databases
  <2>4. Keeps(Database, Database')
    BY <2>1 DEF Keeps, Database
  <2> QED BY <2>3, <2>4
<1> QED BY <1>3, <1>4, <1>5, <1>6, <1>7, <1>8 DEF Next

-----------------------------------------------------------------------------
(* Types *)

\* The part of TypeOK that is not about the database.
RestOK ==
    /\ maxBound \in Addrs /\ bound \in [Devices -> Addrs]
    /\ active \in [Devices -> BOOLEAN] /\ inited \in [Devices -> BOOLEAN]
    /\ first \in [Devices -> Seq(Command)] /\ second \in [Devices -> Seq(Command)]
    /\ reply \in [Devices -> Addrs \cup {NoAddr}]
    /\ cell \in [Devices -> [Addrs -> Cards \cup {NoCard}]] /\ edge \in [Devices -> Addrs]

LEMMA CommandTypes ==
    /\ \A a \in Addrs : Bound(a) \in Command /\ Blank(a) \in Command
    /\ \A a \in Addrs, c \in Cards : Token(a, c) \in Command
    /\ Ask \in Command
BY DEF Command, Bound, Blank, Token, Ask

\* The queue of a controller that gets a card.
LEMMA CarryStep ==
    ASSUME NEW G, NEW S, NEW c, NEW a, second \in [Devices -> Seq(G)],
           \A d \in Devices : d \in S => Token(At(d, a), c) \in G /\ Bound(After(At(d, a))) \in G,
           Carry(S, c, a)
    PROVE  second' \in [Devices -> Seq(G)]
<1>1. ASSUME NEW d \in Devices
      PROVE  second[d] \o (IF d \notin S THEN << >>
                 ELSE IF d \notin Reached(S, a) THEN <<Token(At(d, a), c)>>
                 ELSE <<Token(At(d, a), c), Bound(After(At(d, a)))>>) \in Seq(G)
  <2>1. CASE d \notin S
    BY <2>1
  <2>2. CASE d \in S /\ d \notin Reached(S, a)
    BY <2>2
  <2>3. CASE d \in S /\ d \in Reached(S, a)
    BY <2>3
  <2> QED BY <2>1, <2>2, <2>3
<1> QED BY <1>1 DEF Carry

LEMMA AddCidTypes ==
    ASSUME RestOK, NEW D \in SUBSET Devices, NEW m, NEW c \in Cards, NEW a \in Addrs,
           cmd_add_cid(D, m, c, a)
    PROVE  RestOK'
<1> DEFINE S == Served(D, m, c, a)
<1>1. \A d \in Devices : At(d, a) \in Addrs /\ After(At(d, a)) \in Addrs
  BY AddrFacts DEF RestOK, At
<1>2. second' \in [Devices -> Seq(Command)]
  <2>1. Carry(S, c, a)
    BY DEF cmd_add_cid
  <2>2. \A d \in Devices : Token(At(d, a), c) \in Command /\ Bound(After(At(d, a))) \in Command
    BY <1>1, CommandTypes
  <2>3. second \in [Devices -> Seq(Command)]
    BY DEF RestOK
  <2> HIDE DEF S
  <2> QED BY ONLY <2>1, <2>2, <2>3, CarryStep
<1>3. bound' \in [Devices -> Addrs]
  BY <1>1 DEF RestOK, cmd_add_cid
<1>4. Reached(S, a) \subseteq Devices
  BY DEF Reached, Served
<1>5. maxBound' \in Addrs
  BY <1>1, <1>4 DEF RestOK, cmd_add_cid, Largest
<1> QED BY <1>2, <1>3, <1>5 DEF RestOK, cmd_add_cid, farVars

\* What is known in one order is a sequence.
LEMMA InOrderTypes ==
    ASSUME NEW S, IsFiniteSet(S), NEW f \in InOrder(S)
    PROVE  Cardinality(S) \in Nat /\ f \in [1..Cardinality(S) -> S]
BY FS_CardinalityType DEF InOrder

LEMMA Finite == IsFiniteSet(Known) /\ IsFiniteSet(Blocks)
<1>1. IsFiniteSet(1..NumCards) /\ IsFiniteSet(Start..Limit - 1)
  BY FS_Interval
<1> QED BY <1>1, FS_Subset DEF Known, Blocks, Cards

LEMMA RecordsTypes ==
    ASSUME NEW G, NEW f \in InOrder(Known), \A c \in Known : Token(token[c], c) \in G
    PROVE  Records(f) \in Seq(G)
BY InOrderTypes, Finite DEF Records

LEMMA BlanksTypes ==
    ASSUME NEW G, NEW f \in InOrder(Blocks), \A a \in Addrs : Blank(a) \in G /\ Bound(a) \in G,
           Ask \in G
    PROVE  BlankAll(f) \in Seq(G)
<1>1. Blocks \subseteq Addrs
  BY AddrFacts DEF Blocks
<1>2. [i \in 1..Cardinality(Blocks) |-> Blank(f[i])] \in Seq(G)
  BY <1>1, InOrderTypes, Finite
<1>3. <<Bound(Limit), Ask>> \in Seq(G)
  BY AddrFacts
<1> QED BY <1>2, <1>3 DEF BlankAll

LEMMA CarriedTypes ==
    ASSUME RestOK, NEW d \in Devices, NEW m \in Command, Carried(d, m)
    PROVE  /\ reply' \in [Devices -> Addrs \cup {NoAddr}]
           /\ cell' \in [Devices -> [Addrs -> Cards \cup {NoCard}]]
           /\ edge' \in [Devices -> Addrs]
<1>1. CASE Obey(d, m)
  <2>1. CASE m.op = "token"
    <3>1. m.addr \in Addrs /\ m.card \in Cards
      BY <2>1 DEF Command
    <3> QED BY <1>1, <2>1, <3>1 DEF Obey, RestOK
  <2>2. CASE m.op = "blank"
    <3>1. \A x \in [Addrs -> Cards \cup {NoCard}] :
              [a \in Addrs |-> IF m.addr <= a /\ a < m.addr + Block THEN NoCard ELSE x[a]]
                  \in [Addrs -> Cards \cup {NoCard}]
      OBVIOUS
    <3>2. cell' = [cell EXCEPT ![d] =
              [a \in Addrs |-> IF m.addr <= a /\ a < m.addr + Block THEN NoCard ELSE cell[d][a]]]
      BY <1>1, <2>2 DEF Obey
    <3> QED BY <1>1, <2>2, <3>1, <3>2 DEF Obey, RestOK
  <2>3. CASE m.op = "bound"
    <3>1. m.addr \in Addrs
      BY <2>3 DEF Command
    <3> QED BY <1>1, <2>3, <3>1 DEF Obey, RestOK
  <2>4. CASE m.op = "ask"
    BY <1>1, <2>4 DEF Obey, RestOK
  <2> QED BY <2>1, <2>2, <2>3, <2>4 DEF Command
<1>2. CASE reply' = [reply EXCEPT ![d] = NoAddr] /\ UNCHANGED farVars
  BY <1>2 DEF RestOK, farVars
<1> QED BY <1>1, <1>2 DEF Carried

LEMMA RestUnchanged ==
    ASSUME RestOK, UNCHANGED <<boundVars, lineVars, farVars>>
    PROVE  RestOK'
BY DEF RestOK, boundVars, lineVars, farVars

LEMMA AddToAllTypes ==
    ASSUME RestOK, NEW c \in Cards, NEW a \in Addrs, cmd_add_cid_to_all(c, a)
    PROVE  RestOK'
<1>1. PICK s \in db_add_token(Database, c, IF a < Start THEN maxBound ELSE a) :
          IF s.up THEN cmd_add_cid(Active, s.mapping, c, IF a < Start THEN maxBound ELSE a)
                  ELSE UNCHANGED <<boundVars, lineVars, farVars>>
  BY DEF cmd_add_cid_to_all
<1>2. (IF a < Start THEN maxBound ELSE a) \in Addrs /\ Active \in SUBSET Devices
  BY DEF RestOK, Active
<1> QED BY <1>1, <1>2, AddCidTypes, RestUnchanged

LEMMA NextFreeTypes == \A m : NextFree(m) \subseteq Addrs
<1>1. \A m : Used(m) \subseteq Nat
  BY AddrFacts DEF Used
<1> QED BY <1>1, AddrFacts DEF NextFree, Largest

LEMMA RestStep ==
    ASSUME TypeOK, Next
    PROVE  RestOK'
<1>0. RestOK
  BY DEF RestOK, TypeOK
<1>1. CASE Shown
  <2>1. ASSUME NEW d \in Devices, NEW c \in Cards, NewCard(d, c) PROVE RestOK'
    BY <1>0, <2>1, AddToAllTypes, AddrFacts DEF NewCard
  <2>2. ASSUME NEW d \in Devices, NEW c \in Cards, KnownCard(d, c) PROVE RestOK'
    BY <1>0, <2>2, AddCidTypes, BoundType DEF KnownCard
  <2>3. ASSUME NEW d \in Devices, NEW c \in Cards, DisplacedCard(d, c) PROVE RestOK'
    BY <1>0, <2>3, AddToAllTypes, AddrFacts DEF DisplacedCard
  <2> QED BY <1>1, <2>1, <2>2, <2>3 DEF Shown
<1>2. CASE Called
  <2>1. ASSUME NEW c \in Cards, AddToken(c) PROVE RestOK'
    <3>1. Active \in SUBSET Devices /\ maxBound \in Addrs
      BY <1>0 DEF Active, RestOK
    <3>2. CASE token[c] = NoAddr
      <4>1. PICK s \in db_add_token(Database, c, maxBound) :
              IF s.up THEN cmd_add_cid(Active, s.mapping, c, maxBound)
                      ELSE UNCHANGED <<boundVars, lineVars, farVars>>
        BY <2>1, <3>2 DEF AddToken
      <4> QED BY <1>0, <3>1, <4>1, AddCidTypes, RestUnchanged
    <3>3. CASE token[c] # NoAddr
      BY <1>0, <2>1, <3>1, <3>3, AddCidTypes, BoundType DEF AddToken
    <3> QED BY <3>2, <3>3
  <2>2. ASSUME NEW c \in Cards, NEW a \in {0} \cup Start..Limit, AddCid(c, a) PROVE RestOK'
    BY <1>0, <2>2, AddToAllTypes, AddrFacts DEF AddCid
  <2>3. ASSUME NEW d \in Devices, NEW c \in Cards, NEW a \in {0} \cup Start..Limit,
               AddDirect(d, c, a)
        PROVE  RestOK'
    BY <1>0, <2>3, AddCidTypes, AddrFacts DEF AddDirect
  <2>4. ASSUME NEW D, Clear(D) PROVE RestOK'
    <3>1. PICK f \in InOrder(Blocks) :
            first' = [d \in Devices |-> IF d \in D THEN first[d] \o BlankAll(f) ELSE first[d]]
      BY <2>4 DEF Clear
    <3>2. BlankAll(f) \in Seq(Command)
      BY BlanksTypes, CommandTypes
    <3>3. first' \in [Devices -> Seq(Command)]
      BY <1>0, <3>1, <3>2 DEF RestOK
    <3>4. maxBound' \in Addrs /\ bound' \in [Devices -> Addrs]
      BY <1>0, <2>4, AddrFacts DEF RestOK, Clear
    <3> QED BY <1>0, <2>4, <3>3, <3>4 DEF RestOK, Clear, farVars
  <2>5. ASSUME NEW d \in Devices, Reset(d) PROVE RestOK'
    <3>1. Bound(Start) \in Command
      BY CommandTypes, AddrFacts
    <3>2. first' \in [Devices -> Seq(Command)]
      BY <1>0, <2>5, <3>1 DEF RestOK, Reset
    <3> QED BY <1>0, <2>5, <3>2 DEF RestOK, Reset, boundVars, farVars
  <2>6. ASSUME NEW d \in Devices, cmd_reload_dev(d) PROVE RestOK'
    <3>1. PICK f \in InOrder(Known) : first' = [first EXCEPT ![d] = @ \o Records(f)]
      BY <2>6 DEF cmd_reload_dev
    <3>2. Records(f) \in Seq(Command)
      BY RecordsTypes, CommandTypes, BoundType DEF Known
    <3>3. first' \in [Devices -> Seq(Command)]
      BY <1>0, <3>1, <3>2 DEF RestOK
    <3> QED BY <1>0, <2>6, <3>3 DEF RestOK, cmd_reload_dev, boundVars, farVars
  <2> QED BY <1>2, <2>1, <2>2, <2>3, <2>4, <2>5, <2>6 DEF Called
<1>3. CASE Bus
  <2>1. ASSUME NEW d \in Devices, Hear(d) PROVE RestOK'
    <3>1. Bound(maxBound) \in Command /\ Ask \in Command
      BY <1>0, CommandTypes DEF RestOK
    <3>2. second' \in [Devices -> Seq(Command)]
      BY <1>0, <2>1, <3>1 DEF RestOK, Hear
    <3> QED BY <1>0, <2>1, <3>2 DEF RestOK, Hear, farVars
  <2>2. ASSUME NEW d \in Devices, Silence(d) PROVE RestOK'
    BY <1>0, <2>2 DEF RestOK, Silence, lineVars, farVars
  <2>3. ASSUME NEW d \in Devices, SendFirst(d) PROVE RestOK'
    <3>1. first[d] \in Seq(Command) /\ first[d] # << >> /\ Carried(d, Head(first[d]))
      BY <1>0, <2>3 DEF RestOK, SendFirst
    <3>2. Head(first[d]) \in Command /\ Tail(first[d]) \in Seq(Command)
      BY <3>1
    <3>3. first' \in [Devices -> Seq(Command)]
      BY <1>0, <2>3, <3>2 DEF RestOK, SendFirst
    <3> QED BY <1>0, <2>3, <3>1, <3>2, <3>3, CarriedTypes DEF RestOK, SendFirst, boundVars
  <2>4. ASSUME NEW d \in Devices, SendSecond(d) PROVE RestOK'
    <3>1. second[d] \in Seq(Command) /\ second[d] # << >> /\ Carried(d, Head(second[d]))
      BY <1>0, <2>4 DEF RestOK, SendSecond
    <3>2. Head(second[d]) \in Command /\ Tail(second[d]) \in Seq(Command)
      BY <3>1
    <3>3. second' \in [Devices -> Seq(Command)]
      BY <1>0, <2>4, <3>2 DEF RestOK, SendSecond
    <3> QED BY <1>0, <2>4, <3>1, <3>2, <3>3, CarriedTypes DEF RestOK, SendSecond, boundVars
  <2>5. ASSUME NEW d \in Devices, Answer(d) PROVE RestOK'
    BY <1>0, <2>5 DEF RestOK, Answer, farVars
  <2> QED BY <1>3, <2>1, <2>2, <2>3, <2>4, <2>5 DEF Bus
<1>4. CASE ScanDev \/ Stop
  BY <1>0, <1>4, RestUnchanged DEF ScanDev, Stop
<1>5. CASE Restart
  BY <1>0, <1>5, NextFreeTypes, AddrFacts DEF RestOK, Restart, farVars
<1> QED BY <1>1, <1>2, <1>3, <1>4, <1>5 DEF Next

-----------------------------------------------------------------------------
(* The theorems *)

CardInv == TypeOK /\ Consistent(Database)

LEMMA TypeParts == TypeOK <=> RestOK /\ Database \in Databases
BY DEF TypeOK, RestOK, Database, Databases

LEMMA InitOK == Init => CardInv
<1> SUFFICES ASSUME Init PROVE CardInv
  OBVIOUS
<1>1. Consistent(Database)
  BY AddrFacts DEF Init, Consistent, Database, Databases
<1>2. RestOK
  BY AddrFacts, NextFreeTypes DEF Init, RestOK
<1> QED BY <1>1, <1>2, TypeParts DEF CardInv, Consistent

LEMMA StepOK == CardInv /\ [Next]_vars => CardInv' /\ Keeps(Database, Database')
<1> SUFFICES ASSUME CardInv, [Next]_vars PROVE CardInv' /\ Keeps(Database, Database')
  OBVIOUS
<1>1. CASE Next
  <2>1. Consistent(Database') /\ Keeps(Database, Database')
    BY <1>1, DatabaseStep DEF CardInv
  <2>2. RestOK'
    BY <1>1, RestStep DEF CardInv
  <2>3. TypeOK'
    BY <2>1, <2>2 DEF TypeOK, RestOK, Database, Databases, Consistent
  <2> QED BY <2>1, <2>3 DEF CardInv
<1>2. CASE UNCHANGED vars
  <2>1. Database' = Database
    BY <1>2 DEF vars, Database
  <2>2. TypeOK'
    BY <1>2 DEF vars, TypeOK, CardInv
  <2> QED BY <2>1, <2>2 DEF CardInv, Keeps
<1> QED BY <1>1, <1>2

\* Every variable keeps its type, and both files of the database agree in
\* memory and on the disk after every failure and every death of the process.
THEOREM CardsInductive == Spec => []CardInv
BY InitOK, StepOK, PTL DEF Spec

\* Types.
THEOREM CardsTyped == Spec => []TypeOK
<1>1. CardInv => TypeOK
  BY DEF CardInv
<1> QED BY <1>1, CardsInductive, PTL

\* A card that has an address on the disk has its record there, whenever the
\* process is killed and whichever write or sync fails.
THEOREM DiskComplete == Spec => []OwnerHasToken
<1>1. CardInv => OwnerHasToken
  BY DEF CardInv, Consistent, Database, OwnerHasToken
<1> QED BY <1>1, CardsInductive, PTL

\* No crash, restart or wrap of the addresses ever gives an address that is on
\* the disk to another card.
THEOREM DiskKept == Spec => NeverReassigned
<1>1. CardInv /\ [Next]_vars => [\A a \in Addrs : dmapping[a] # NoCard => dmapping'[a] = dmapping[a]]_vars
  BY StepOK DEF Keeps, Database
<1> QED BY <1>1, CardsInductive, PTL DEF NeverReassigned, Spec

-----------------------------------------------------------------------------
(* The ledger.  While every put succeeds, the process is not killed and the *)
(* application leaves the addresses to the database, each command that      *)
(* carries a card carries it to its own address.                            *)

OwnedBy(m) == {x \in Command : x.op = "token" => m[x.addr] = x.card}

LedgerInv ==
    /\ up
    /\ maxBound >= Start
    /\ \A c \in Cards : token[c] # NoAddr => token[c] >= Start /\ mapping[token[c]] = c
    /\ first \in [Devices -> Seq(OwnedBy(mapping))]
    /\ second \in [Devices -> Seq(OwnedBy(mapping))]

\* The database with the card c at the address a.
Added(s, c, a) == [s EXCEPT !.token[c] = a, !.mapping[a] = c]

LEMMA AddResult ==
    ASSUME Faults \cap {"stop", "put"} = {}, NEW s \in Databases, NEW c \in Cards, NEW a \in Addrs,
           NEW t \in db_add_token(s, c, a)
    PROVE  \/ Conflict(s.mapping, c, a) /\ t = s
           \/ /\ ~Conflict(s.mapping, c, a)
              /\ t.token = [s.token EXCEPT ![c] = a]
              /\ t.mapping = [s.mapping EXCEPT ![a] = c]
              /\ t.up = s.up
<1>1. CASE Conflict(s.mapping, c, a)
  BY <1>1 DEF db_add_token
<1>2. CASE ~Conflict(s.mapping, c, a)
  <2> DEFINE v == [s EXCEPT !.token[c] = a]
             u == [v EXCEPT !.mapping[a] = c]
  <2>1. t \in db_sync(u)
    BY <1>2 DEF db_add_token, Killed
  <2>2. /\ u.token = [s.token EXCEPT ![c] = a] /\ u.mapping = [s.mapping EXCEPT ![a] = c]
        /\ u.up = s.up /\ u \in Databases
    BY DEF Databases
  <2> HIDE DEF u
  <2>3. t.token = u.token /\ t.mapping = u.mapping /\ t.up = u.up
    <3>1. t \in {u, [u EXCEPT !.dtoken = u.token],
                 [u EXCEPT !.dtoken = u.token, !.dmapping = u.mapping]}
      BY <2>1 DEF db_sync, Stages
    <3> QED BY <2>2, <3>1 DEF Databases
  <2> QED BY <1>2, <2>2, <2>3
<1> QED BY <1>1, <1>2

LEMMA OwnedCommands ==
    ASSUME NEW m
    PROVE  /\ \A a \in Addrs : Bound(a) \in OwnedBy(m) /\ Blank(a) \in OwnedBy(m)
           /\ \A a \in Addrs, c \in Cards : m[a] = c => Token(a, c) \in OwnedBy(m)
           /\ Ask \in OwnedBy(m)
BY DEF OwnedBy, Command, Bound, Blank, Token, Ask

LEMMA OwnedGrows ==
    ASSUME NEW m \in [Addrs -> Cards \cup {NoCard}], NEW c \in Cards, NEW a \in Addrs,
           m[a] \in {NoCard, c}
    PROVE  OwnedBy(m) \subseteq OwnedBy([m EXCEPT ![a] = c])
<1> SUFFICES ASSUME NEW x \in OwnedBy(m), x.op = "token"
             PROVE  [m EXCEPT ![a] = c][x.addr] = x.card
  BY DEF OwnedBy
<1>1. x.addr \in Addrs /\ x.card \in Cards
  BY DEF OwnedBy, Command
<1> QED BY <1>1, AddrFacts DEF OwnedBy

LEMMA SeqGrows ==
    ASSUME NEW G, NEW H, G \subseteq H, NEW q \in [Devices -> Seq(G)]
    PROVE  q \in [Devices -> Seq(H)]
OBVIOUS

\* cmd_add_cid after the database has been asked or changed.
LEMMA AddCidOwned ==
    ASSUME RestOK, NEW D \in SUBSET Devices, NEW m, NEW c \in Cards, NEW a \in Addrs, a >= Start,
           Conflict(m, c, a) \/ m[a] = c,
           maxBound >= Start, second \in [Devices -> Seq(OwnedBy(m))],
           cmd_add_cid(D, m, c, a)
    PROVE  /\ second' \in [Devices -> Seq(OwnedBy(m))] /\ first' = first
           /\ maxBound' >= Start /\ cell' = cell
<1> DEFINE S == Served(D, m, c, a)
<1>1. \A d \in Devices : At(d, a) = a
  BY AddrFacts DEF At
<1>2. \A d \in S : m[a] = c
  <2> SUFFICES ASSUME NEW d \in S PROVE m[a] = c
    OBVIOUS
  <2>1. d \in Devices /\ ~Conflict(m, c, At(d, a))
    BY DEF Served, Devices
  <2> QED BY <1>1, <2>1
<1>3. \A d \in Devices : d \in S => /\ Token(At(d, a), c) \in OwnedBy(m)
                                   /\ Bound(After(At(d, a))) \in OwnedBy(m)
  BY <1>1, <1>2, OwnedCommands, AddrFacts
<1>4. Carry(S, c, a)
  BY DEF cmd_add_cid
<1>5. second' \in [Devices -> Seq(OwnedBy(m))]
  <2> HIDE DEF S
  <2> QED BY <1>3, <1>4, CarryStep
<1>6. maxBound' >= maxBound /\ maxBound' \in Nat
  <2>1. Reached(S, a) \subseteq Devices
    BY DEF Reached, Served
  <2> QED BY <1>1, <2>1, AddrFacts DEF RestOK, cmd_add_cid, Largest
<1> QED BY <1>5, <1>6, AddrFacts DEF RestOK, cmd_add_cid, farVars

LedgerStep == [Ledger!Next]_(Ledger!ledgerVars)

\* A card goes into the database and on to the controllers.
LEMMA AddedStep ==
    ASSUME Faults \cap {"stop", "put"} = {}, CardInv, LedgerInv,
           NEW D \in SUBSET Devices, NEW c \in Cards, NEW a \in Addrs, a >= Start,
           NEW s \in db_add_token(Database, c, a), Store(s),
           IF s.up THEN cmd_add_cid(D, s.mapping, c, a)
                   ELSE UNCHANGED <<boundVars, lineVars, farVars>>
    PROVE  LedgerInv' /\ LedgerStep
<1> USE TypeParts DEF CardInv
<1>1. /\ Database.token = token /\ Database.mapping = mapping /\ Database.up = up
      /\ Database \in Databases
  BY DEF Database
<1>2. /\ mapping \in [Addrs -> Cards \cup {NoCard}] /\ token \in [Cards -> Addrs \cup {NoAddr}]
      /\ token' = s.token /\ mapping' = s.mapping /\ up' = s.up
  BY DEF TypeOK, Store
<1>3. CASE Conflict(mapping, c, a) /\ s = Database
  <2>1. token' = token /\ mapping' = mapping /\ up' = up /\ s.mapping = mapping /\ s.up
    BY <1>1, <1>2, <1>3 DEF LedgerInv
  <2>2. /\ second' \in [Devices -> Seq(OwnedBy(mapping))] /\ first' = first
        /\ maxBound' >= Start /\ cell' = cell
    BY <1>3, <2>1, AddCidOwned DEF LedgerInv
  <2> QED BY <2>1, <2>2 DEF LedgerInv, LedgerStep, Ledger!ledgerVars
<1>4. CASE /\ mapping[a] \in {NoCard, c} /\ up' = up
           /\ token' = [token EXCEPT ![c] = a] /\ mapping' = [mapping EXCEPT ![a] = c]
  <2>1. s.up /\ mapping'[a] = c
    BY <1>2, <1>4 DEF LedgerInv
  <2>2. OwnedBy(mapping) \subseteq OwnedBy(mapping')
    BY <1>2, <1>4, OwnedGrows
  <2>3. second \in [Devices -> Seq(OwnedBy(mapping'))] /\ first \in [Devices -> Seq(OwnedBy(mapping'))]
    BY <2>2, SeqGrows DEF LedgerInv
  <2>4. cmd_add_cid(D, mapping', c, a)
    BY <1>2, <2>1
  <2>5. /\ second' \in [Devices -> Seq(OwnedBy(mapping'))] /\ first' = first
        /\ maxBound' >= Start /\ cell' = cell
    BY <2>1, <2>3, <2>4, AddCidOwned DEF LedgerInv
  <2>6. \A e \in Cards : token'[e] # NoAddr => token'[e] >= Start /\ mapping'[token'[e]] = e
    <3>1. ASSUME NEW e \in Cards, token'[e] # NoAddr
          PROVE  token'[e] >= Start /\ mapping'[token'[e]] = e
      <4>1. CASE e = c
        BY <1>2, <1>4, <4>1
      <4>2. CASE e # c
        <5>1. token'[e] = token[e] /\ token[e] \in Addrs
          BY <1>2, <1>4, <3>1, <4>2
        <5>2. token[e] >= Start /\ mapping[token[e]] = e
          BY <3>1, <5>1 DEF LedgerInv
        <5>3. token[e] # a
          BY <1>4, <4>2, <5>2, AddrFacts
        <5> QED BY <1>2, <1>4, <5>1, <5>2, <5>3
      <4> QED BY <4>1, <4>2
    <3> QED BY <3>1
  <2>7. LedgerInv'
    BY <1>2, <2>1, <2>3, <2>5, <2>6 DEF LedgerInv
  <2>8. LedgerStep
    <3>1. CASE mapping[a] = NoCard
      BY <1>4, <2>5, <3>1 DEF LedgerStep, Ledger!Next, Ledger!Assign
    <3>2. CASE mapping[a] = c
      BY <1>2, <1>4, <2>5, <3>2 DEF LedgerStep, Ledger!ledgerVars
    <3> QED BY <1>4, <3>1, <3>2
  <2> QED BY <2>7, <2>8
<1>5. \/ Conflict(mapping, c, a) /\ s = Database
      \/ /\ mapping[a] \in {NoCard, c} /\ up' = up
         /\ token' = [token EXCEPT ![c] = a] /\ mapping' = [mapping EXCEPT ![a] = c]
  <2>1. \/ Conflict(Database.mapping, c, a) /\ s = Database
        \/ /\ ~Conflict(Database.mapping, c, a)
           /\ s.token = [Database.token EXCEPT ![c] = a]
           /\ s.mapping = [Database.mapping EXCEPT ![a] = c]
           /\ s.up = Database.up
    BY <1>1, AddResult
  <2> QED BY <1>1, <1>2, <2>1 DEF Conflict
<1> QED BY <1>3, <1>4, <1>5

LEMMA AddToAllStep ==
    ASSUME Faults \cap {"stop", "put"} = {}, CardInv, LedgerInv,
           NEW c \in Cards, NEW a \in Addrs, cmd_add_cid_to_all(c, a)
    PROVE  LedgerInv' /\ LedgerStep
<1> DEFINE b == IF a < Start THEN maxBound ELSE a
<1>1. b \in Addrs /\ b >= Start /\ Active \in SUBSET Devices
  BY AddrFacts DEF CardInv, TypeOK, LedgerInv, Active
<1>2. PICK s \in db_add_token(Database, c, b) :
          /\ Store(s)
          /\ IF s.up THEN cmd_add_cid(Active, s.mapping, c, b)
                     ELSE UNCHANGED <<boundVars, lineVars, farVars>>
  BY DEF cmd_add_cid_to_all
<1> HIDE DEF b
<1> QED BY <1>1, <1>2, AddedStep

\* A known card goes to the controllers.
LEMMA KnownStep ==
    ASSUME CardInv, LedgerInv, NEW D \in SUBSET Devices, NEW c \in Cards, token[c] # NoAddr,
           cmd_add_cid(D, mapping, c, token[c]), UNCHANGED dbVars
    PROVE  LedgerInv' /\ LedgerStep
<1>1. token[c] \in Addrs /\ token[c] >= Start /\ mapping[token[c]] = c
  BY DEF CardInv, TypeOK, LedgerInv
<1>2. /\ second' \in [Devices -> Seq(OwnedBy(mapping))] /\ first' = first
      /\ maxBound' >= Start /\ cell' = cell
  BY <1>1, AddCidOwned, TypeParts DEF CardInv, LedgerInv
<1>3. token' = token /\ mapping' = mapping /\ up' = up
  BY DEF dbVars
<1> QED BY <1>2, <1>3 DEF LedgerInv, LedgerStep, Ledger!ledgerVars

\* A command reaches a controller, or is lost.
LEMMA CarriedStep ==
    ASSUME CardInv, LedgerInv, NEW d \in Devices, NEW m \in OwnedBy(mapping), Carried(d, m),
           UNCHANGED mapping
    PROVE  LedgerStep
<1> USE DEF LedgerStep, Ledger!Next
<1>1. CASE UNCHANGED cell
  BY <1>1 DEF Ledger!ledgerVars
<1>2. CASE Obey(d, m) /\ m.op = "token"
  <2>1. m.addr \in Addrs /\ m.card \in Cards /\ mapping[m.addr] = m.card
    BY <1>2 DEF OwnedBy, Command
  <2>2. cell' = [cell EXCEPT ![d][m.addr] = mapping[m.addr]]
    BY <1>2, <2>1 DEF Obey
  <2> QED BY <2>1, <2>2, AddrFacts DEF Ledger!Write
<1>3. CASE Obey(d, m) /\ m.op = "blank"
  <2> DEFINE A == {a \in Addrs : m.addr <= a /\ a < m.addr + Block}
  <2>1. cell' = [cell EXCEPT ![d] =
            [a \in Addrs |-> IF m.addr <= a /\ a < m.addr + Block THEN NoCard ELSE cell[d][a]]]
    BY <1>3 DEF Obey
  <2>2. cell' = [cell EXCEPT ![d] = [a \in Addrs |-> IF a \in A THEN NoCard ELSE cell[d][a]]]
    BY <2>1
  <2>3. A \in SUBSET Addrs
    OBVIOUS
  <2> HIDE DEF A
  <2>4. Ledger!Wipe(d, A)
    BY <2>2 DEF Ledger!Wipe
  <2> QED BY <2>3, <2>4
<1>4. CASE Obey(d, m) /\ m.op \notin {"token", "blank"}
  BY <1>1, <1>4 DEF Obey
<1> QED BY <1>1, <1>2, <1>3, <1>4 DEF Carried, farVars

LEMMA LedgerInit == Init => LedgerInv /\ Ledger!Init
<1> SUFFICES ASSUME Init PROVE LedgerInv /\ Ledger!Init
  OBVIOUS
<1>1. Used(mapping) = {Start - 1}
  BY AddrFacts DEF Init, Used
<1>2. maxBound = After(Start - 1)
  BY <1>1 DEF Init, NextFree, Largest
<1>3. maxBound = Start
  BY <1>2 DEF After
<1>4. \A m : << >> \in Seq(OwnedBy(m))
  OBVIOUS
<1> QED BY <1>3, <1>4, AddrFacts DEF Init, LedgerInv, Ledger!Init

LEMMA LedgerNext ==
    ASSUME Faults \cap {"stop", "put"} = {}, "direct" \notin AppCalls, CardInv, LedgerInv, Next
    PROVE  LedgerInv' /\ LedgerStep
<1> DEFINE Fine == LedgerInv' /\ LedgerStep
<1>0. /\ first \in [Devices -> Seq(OwnedBy(mapping))] /\ second \in [Devices -> Seq(OwnedBy(mapping))]
      /\ maxBound >= Start /\ maxBound \in Addrs /\ up
  BY DEF LedgerInv, CardInv, TypeOK
<1>1. ASSUME UNCHANGED <<token, mapping, up>>, maxBound' >= Start,
             first' \in [Devices -> Seq(OwnedBy(mapping))],
             second' \in [Devices -> Seq(OwnedBy(mapping))]
      PROVE  LedgerInv'
  BY <1>1 DEF LedgerInv
<1>2. ASSUME UNCHANGED <<mapping, cell>> PROVE LedgerStep
  BY <1>2 DEF LedgerStep, Ledger!ledgerVars
<1>3. CASE Shown
  <2>1. ASSUME NEW d \in Devices, NEW c \in Cards, NewCard(d, c) PROVE Fine
    BY <2>1, AddToAllStep, AddrFacts DEF NewCard
  <2>2. ASSUME NEW d \in Devices, NEW c \in Cards, KnownCard(d, c) PROVE Fine
    BY <2>2, KnownStep DEF KnownCard
  <2>3. ASSUME NEW d \in Devices, NEW c \in Cards, DisplacedCard(d, c) PROVE Fine
    BY <2>3, AddToAllStep, AddrFacts DEF DisplacedCard
  <2> QED BY <1>3, <2>1, <2>2, <2>3 DEF Shown
<1>4. CASE Called
  <2>1. ASSUME NEW c \in Cards, AddToken(c) PROVE Fine
    <3>1. Active \in SUBSET Devices
      BY DEF Active
    <3>2. CASE token[c] = NoAddr
      <4>1. PICK s \in db_add_token(Database, c, maxBound) :
              /\ Store(s)
              /\ IF s.up THEN cmd_add_cid(Active, s.mapping, c, maxBound)
                         ELSE UNCHANGED <<boundVars, lineVars, farVars>>
        BY <2>1, <3>2 DEF AddToken
      <4> QED BY <1>0, <3>1, <4>1, AddedStep
    <3>3. CASE token[c] # NoAddr
      BY <2>1, <3>1, <3>3, KnownStep DEF AddToken
    <3> QED BY <3>2, <3>3
  <2>2. ASSUME NEW c \in Cards, NEW a \in {0} \cup Start..Limit, AddCid(c, a) PROVE Fine
    BY <2>2, AddToAllStep, AddrFacts DEF AddCid
  <2>3. ASSUME NEW d \in Devices, NEW c \in Cards, NEW a \in {0} \cup Start..Limit,
               AddDirect(d, c, a)
        PROVE  Fine
    BY <2>3 DEF AddDirect
  <2>4. ASSUME NEW D, Clear(D) PROVE Fine
    <3>1. PICK f \in InOrder(Blocks) :
            first' = [d \in Devices |-> IF d \in D THEN first[d] \o BlankAll(f) ELSE first[d]]
      BY <2>4 DEF Clear
    <3>2. BlankAll(f) \in Seq(OwnedBy(mapping))
      BY BlanksTypes, OwnedCommands
    <3>3. first' \in [Devices -> Seq(OwnedBy(mapping))]
      BY <1>0, <3>1, <3>2
    <3>4. maxBound' >= Start /\ UNCHANGED <<token, mapping, up, second, cell>>
      BY <1>0, <2>4 DEF Clear, dbVars, farVars
    <3> QED BY <1>0, <1>1, <1>2, <3>3, <3>4
  <2>5. ASSUME NEW d \in Devices, Reset(d) PROVE Fine
    <3>1. Bound(Start) \in OwnedBy(mapping)
      BY OwnedCommands, AddrFacts
    <3>2. first' \in [Devices -> Seq(OwnedBy(mapping))]
      BY <1>0, <2>5, <3>1 DEF Reset
    <3>3. UNCHANGED <<token, mapping, up, maxBound, second, cell>>
      BY <2>5 DEF Reset, dbVars, boundVars, farVars
    <3> QED BY <1>0, <1>1, <1>2, <3>2, <3>3
  <2>6. ASSUME NEW d \in Devices, cmd_reload_dev(d) PROVE Fine
    <3>1. PICK f \in InOrder(Known) : first' = [first EXCEPT ![d] = @ \o Records(f)]
      BY <2>6 DEF cmd_reload_dev
    <3>2. \A c \in Known : Token(token[c], c) \in OwnedBy(mapping)
      BY OwnedCommands DEF Known, LedgerInv, CardInv, TypeOK
    <3>3. Records(f) \in Seq(OwnedBy(mapping))
      BY <3>2, RecordsTypes
    <3>4. first' \in [Devices -> Seq(OwnedBy(mapping))]
      BY <1>0, <3>1, <3>3
    <3>5. UNCHANGED <<token, mapping, up, maxBound, second, cell>>
      BY <2>6 DEF cmd_reload_dev, dbVars, boundVars, farVars
    <3> QED BY <1>0, <1>1, <1>2, <3>4, <3>5
  <2> QED BY <1>4, <2>1, <2>2, <2>3, <2>4, <2>5, <2>6 DEF Called
<1>5. CASE Bus
  <2>1. ASSUME NEW d \in Devices, Hear(d) PROVE Fine
    <3>1. Bound(maxBound) \in OwnedBy(mapping) /\ Ask \in OwnedBy(mapping)
      BY <1>0, OwnedCommands
    <3>2. second' \in [Devices -> Seq(OwnedBy(mapping))]
      BY <1>0, <2>1, <3>1 DEF Hear
    <3>3. UNCHANGED <<token, mapping, up, maxBound, first, cell>>
      BY <2>1 DEF Hear, dbVars, farVars
    <3> QED BY <1>0, <1>1, <1>2, <3>2, <3>3
  <2>2. ASSUME NEW d \in Devices, Silence(d) \/ Answer(d) PROVE Fine
    <3>1. UNCHANGED <<token, mapping, up, maxBound, first, second, cell>>
      BY <2>2 DEF Silence, Answer, dbVars, lineVars, farVars
    <3> QED BY <1>0, <1>1, <1>2, <3>1
  <2>3. ASSUME NEW d \in Devices, SendFirst(d) PROVE Fine
    <3>1. /\ first[d] \in Seq(OwnedBy(mapping)) /\ first[d] # << >>
          /\ Carried(d, Head(first[d])) /\ first' = [first EXCEPT ![d] = Tail(@)]
          /\ UNCHANGED <<token, mapping, up, maxBound, second>>
      BY <1>0, <2>3 DEF SendFirst, dbVars, boundVars
    <3>2. Head(first[d]) \in OwnedBy(mapping) /\ Tail(first[d]) \in Seq(OwnedBy(mapping))
      BY <3>1
    <3>3. first' \in [Devices -> Seq(OwnedBy(mapping))]
      BY <1>0, <3>1, <3>2
    <3>4. LedgerStep
      BY <3>1, <3>2, CarriedStep
    <3> QED BY <1>0, <1>1, <3>1, <3>3, <3>4
  <2>4. ASSUME NEW d \in Devices, SendSecond(d) PROVE Fine
    <3>1. /\ second[d] \in Seq(OwnedBy(mapping)) /\ second[d] # << >>
          /\ Carried(d, Head(second[d])) /\ second' = [second EXCEPT ![d] = Tail(@)]
          /\ UNCHANGED <<token, mapping, up, maxBound, first>>
      BY <1>0, <2>4 DEF SendSecond, dbVars, boundVars
    <3>2. Head(second[d]) \in OwnedBy(mapping) /\ Tail(second[d]) \in Seq(OwnedBy(mapping))
      BY <3>1
    <3>3. second' \in [Devices -> Seq(OwnedBy(mapping))]
      BY <1>0, <3>1, <3>2
    <3>4. LedgerStep
      BY <3>1, <3>2, CarriedStep
    <3> QED BY <1>0, <1>1, <3>1, <3>3, <3>4
  <2> QED BY <1>5, <2>1, <2>2, <2>3, <2>4 DEF Bus
<1>6. CASE ScanDev
  <2>1. PICK s \in db_sync(Database) : Store(s)
    BY <1>6 DEF ScanDev
  <2>2. UNCHANGED <<token, mapping, up>>
    <3>1. Database.token = token /\ Database.mapping = mapping /\ Database.up = up
      BY DEF Database
    <3>2. s \in {Database, [Database EXCEPT !.dtoken = Database.token],
                 [Database EXCEPT !.dtoken = Database.token, !.dmapping = Database.mapping]}
      BY <2>1 DEF db_sync, Stages
    <3>3. s.token = token /\ s.mapping = mapping /\ s.up = up
      BY <3>1, <3>2, TypeParts DEF CardInv, Databases
    <3> QED BY <2>1, <3>3 DEF Store
  <2>3. UNCHANGED <<maxBound, first, second, cell>>
    BY <1>6 DEF ScanDev, boundVars, lineVars, farVars
  <2> QED BY <1>0, <1>1, <1>2, <2>2, <2>3
<1>7. CASE Stop
  BY <1>7 DEF Stop, Killed
<1>8. CASE Restart
  BY <1>0, <1>8 DEF Restart
<1> QED BY <1>3, <1>4, <1>5, <1>6, <1>7, <1>8 DEF Next

\* While every put succeeds, the process is not killed and the application
\* leaves the database to give out the addresses, the addresses and the card
\* memories implement the ledger, whatever is lost and whenever a controller
\* falls silent: a controller never holds a card at another card's address.
THEOREM ImplementsLedger ==
    ASSUME Faults \cap {"stop", "put"} = {}, "direct" \notin AppCalls
    PROVE  Spec => LedgerSpec
<1>1. CardInv /\ LedgerInv /\ [Next]_vars => LedgerInv' /\ LedgerStep
  <2> SUFFICES ASSUME CardInv, LedgerInv, [Next]_vars PROVE LedgerInv' /\ LedgerStep
    OBVIOUS
  <2>1. CASE Next
    BY <2>1, LedgerNext
  <2>2. CASE UNCHANGED vars
    BY <2>2 DEF vars, LedgerInv, LedgerStep, Ledger!ledgerVars
  <2> QED BY <2>1, <2>2
<1>2. Spec => []LedgerInv
  BY <1>1, LedgerInit, CardsInductive, PTL DEF Spec
<1>3. Spec => Ledger!Init /\ [][Ledger!Next]_(Ledger!ledgerVars)
  BY <1>1, <1>2, LedgerInit, CardsInductive, PTL DEF Spec, LedgerStep
<1> QED BY <1>3 DEF LedgerSpec, Ledger!Spec
=============================================================================
