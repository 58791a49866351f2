------------------------------ MODULE GateCards ------------------------------
(***************************************************************************)
(* The cards: the token database of db_layer.c (token by card, card by     *)
(* address), the addresses that the operations of ad_cmd.c and the handler *)
(* of a shown card give out, the commands that carry cards into the        *)
(* controllers, and the card memories of the controllers.                  *)
(*                                                                         *)
(* Addresses count in records of sizeof(gp_token_rec_t).  A command goes   *)
(* into the queue of its controller: how the commands to different         *)
(* controllers interleave on the line is left open here (see GateBus).     *)
(* The commands for the two banks of a controller are one command here,    *)
(* carried out in both or lost for both.                                   *)
(* Berkeley DB writes to the disk when it is told to: on a sync or close.  *)
(***************************************************************************)
EXTENDS Naturals, Sequences, FiniteSets

CONSTANTS NumCards,   \* bound: the cids are 1..NumCards
          MaxDev,     \* gp_cfg.max_dev_n
          Start,      \* GP_START_TICKET_BOUND
          Limit,      \* GP_MAX_TICKET_BOUND
          Width,      \* addresses are uint16_t: they wrap around at Width
          Block,      \* GP_MAX_TICKET_NUM: records one command overwrites
          MaxQueue,   \* bound: length at which no more load is added
          Faults,     \* what may go wrong
          AppCalls    \* the calls the application may make

ASSUME CardsAssumption ==
    /\ NumCards \in Nat /\ MaxDev \in Nat /\ MaxQueue \in Nat
    /\ Start \in Nat \ {0} /\ Limit \in Nat /\ Width \in Nat
    /\ Start <= Limit /\ Limit < Width
    /\ Block \in Nat \ {0}
    /\ Faults \subseteq {"loss", "silence", "sync", "put", "stop"}
    /\ AppCalls \subseteq {"token", "cid", "direct", "clear", "reset", "reload"}

VARIABLES token,     \* db_handle_token: the address in the record of a card
          mapping,   \* db_handler_by_addr: the card of an address
          dtoken,    \* what of token is on the disk
          dmapping,  \* what of mapping is on the disk
          up,        \* the process runs
          maxBound,  \* gp_cfg.max_bound_token
          bound,     \* devices[].bound_token
          active,    \* devices[].activ
          inited,    \* devices[].is_inited
          first,     \* the commands to a controller in gp_head
          second,    \* the commands to a controller in gp_head2
          reply,     \* the answer to GET_TOKEN_BOUND that is on its way
          cell,      \* the card memory of a controller
          edge       \* the token bound a controller has

dbVars    == <<token, mapping, dtoken, dmapping, up>>
boundVars == <<maxBound, bound, active, inited>>
lineVars  == <<first, second, reply>>
farVars   == <<cell, edge>>
vars == <<token, mapping, dtoken, dmapping, up, maxBound, bound, active, inited,
          first, second, reply, cell, edge>>

Cards   == 1..NumCards
NoCard  == 0                   \* what db_get_cid_by_a returns for no card
Devices == 1..MaxDev
Addrs   == 0..Width - 1
NoAddr  == Width               \* the card is not in the database

\* A record for one address, a block of blanks, a token bound, a question.
Command == [op : {"token"}, addr : Addrs, card : Cards]
           \cup [op : {"blank", "bound"}, addr : Addrs] \cup [op : {"ask"}]

Token(a, c) == [op |-> "token", addr |-> a, card |-> c]
Blank(a)    == [op |-> "blank", addr |-> a]
Bound(a)    == [op |-> "bound", addr |-> a]
Ask         == [op |-> "ask"]

Largest(S) == {a \in S : \A b \in S : b <= a}

\* Mutant: addresses that never wrap.
AfterUnbounded(a) == a + 1

After(a) == (a + 1) % Width

-----------------------------------------------------------------------------
(* db_layer.c.  A function that may fail, or in which the process may be   *)
(* killed, is the set of the states of the database it may leave behind.   *)

Database == [token |-> token, mapping |-> mapping, dtoken |-> dtoken,
             dmapping |-> dmapping, up |-> up]

Store(s) ==
    /\ token' = s.token /\ mapping' = s.mapping
    /\ dtoken' = s.dtoken /\ dmapping' = s.dmapping /\ up' = s.up

\* Mutant: the addresses are synced before the tokens.
StagesSwapped(s) ==
    {s, [s EXCEPT !.dmapping = s.mapping],
        [s EXCEPT !.dtoken = s.token, !.dmapping = s.mapping]}

\* How far db_sync and db_close get: the tokens come first, and an error ends
\* the function.
Stages(s) ==
    {s, [s EXCEPT !.dtoken = s.token],
        [s EXCEPT !.dtoken = s.token, !.dmapping = s.mapping]}

db_sync(s) ==
    IF "sync" \in Faults THEN Stages(s)
    ELSE {[s EXCEPT !.dtoken = s.token, !.dmapping = s.mapping]}

\* The process dies in the state s, with or without the db_close of the
\* handler of SIGTERM.
Killed(s) ==
    IF "stop" \in Faults THEN {[t EXCEPT !.up = FALSE] : t \in Stages(s)} ELSE {}

\* The address belongs to another card.
Conflict(m, c, a) == m[a] \notin {NoCard, c}

\* Mutant: no look at who has the address.
AddWithoutCheck(s, c, a) ==
    LET t == [s EXCEPT !.token[c] = a]
        u == [t EXCEPT !.mapping[a] = c]
    IN  db_sync(u) \cup Killed(t) \cup Killed(u)
            \cup (IF "put" \in Faults THEN {s, t} ELSE {})

db_add_token(s, c, a) ==
    IF Conflict(s.mapping, c, a) THEN {s}
    ELSE LET t == [s EXCEPT !.token[c] = a]
             u == [t EXCEPT !.mapping[a] = c]
         IN  db_sync(u) \cup Killed(t) \cup Killed(u)
                 \cup (IF "put" \in Faults THEN {s, t} ELSE {})

\* db_get_max_addr, and the next address behind it (one).
Used(m) == {a \in Addrs : m[a] # NoCard} \cup {Start - 1}
NextFree(m) == {After(a) : a \in Largest(Used(m))}

-----------------------------------------------------------------------------
(* cmd_add_cid, for each of the controllers D in the order of their        *)
(* numbers, up to the first conflict.                                      *)

Active == {d \in Devices : active[d]}

\* An address below the card memory asks for the next one of the controller.
At(d, a) == IF a < Start THEN bound[d] ELSE a

\* Mutant: the controllers are served whoever has the address.
ServedAlways(D, m, c, a) == D

Served(D, m, c, a) ==
    {d \in D : \A e \in D : e <= d => ~Conflict(m, c, At(e, a))}

\* Those whose token bound the address has reached.
Reached(S, a) == {d \in S : At(d, a) >= bound[d]}

Carry(S, c, a) ==
    second' = [d \in Devices |->
        second[d] \o IF d \notin S THEN << >>
                     ELSE IF d \notin Reached(S, a) THEN <<Token(At(d, a), c)>>
                     ELSE <<Token(At(d, a), c), Bound(After(At(d, a)))>>]

cmd_add_cid(D, m, c, a) ==
    LET S == Served(D, m, c, a) IN
    /\ Carry(S, c, a)
    /\ bound' = [d \in Devices |->
           IF d \in Reached(S, a) THEN After(At(d, a)) ELSE bound[d]]
    /\ maxBound' \in Largest({maxBound} \cup {After(At(d, a)) : d \in Reached(S, a)})
    /\ UNCHANGED <<active, inited, first, reply, farVars>>

\* Bound: load is only added to short queues.
Room == \A d \in Devices : Len(first[d]) < MaxQueue /\ Len(second[d]) < MaxQueue

\* The process died, or it goes on with the controllers.
cmd_add_cid_to_all(c, a) ==
    \E s \in db_add_token(Database, c, IF a < Start THEN maxBound ELSE a) :
        /\ Store(s)
        /\ IF s.up THEN cmd_add_cid(Active, s.mapping, c, IF a < Start THEN maxBound ELSE a)
                   ELSE UNCHANGED <<boundVars, lineVars, farVars>>

-----------------------------------------------------------------------------
(* A card under the reader of a controller that has just answered:         *)
(* cb_get_poll_result.  The opening of the door is in GateBus.             *)

\* The answer on the line is that of the controller with the card: one to
\* GET_TOKEN_BOUND was there before, or it was given up (lost).
Shows(d) == up /\ Room /\ active[d] /\ \A e \in Devices : reply[e] = NoAddr

\* It is not in the database: cb_push_new_cid_default.
NewCard(d, c) ==
    /\ Shows(d)
    /\ token[c] = NoAddr
    /\ cmd_add_cid_to_all(c, 0)

\* It is, and its address is its own: it is written into this controller.
KnownCard(d, c) ==
    /\ Shows(d)
    /\ token[c] # NoAddr
    /\ Served({d}, mapping, c, token[c]) # {}
    /\ cmd_add_cid({d}, mapping, c, token[c])
    /\ UNCHANGED dbVars

\* It is, but its address belongs to another card by now.
DisplacedCard(d, c) ==
    /\ Shows(d)
    /\ token[c] # NoAddr
    /\ Served({d}, mapping, c, token[c]) = {}
    /\ cmd_add_cid_to_all(c, 0)

-----------------------------------------------------------------------------
(* The application *)

\* cmd_add_tocken_to_all: the address of a known card stays.
AddToken(c) ==
    /\ up /\ Room /\ "token" \in AppCalls
    /\ \/ /\ token[c] = NoAddr
          /\ \E s \in db_add_token(Database, c, maxBound) :
               /\ Store(s)
               /\ IF s.up THEN cmd_add_cid(Active, s.mapping, c, maxBound)
                          ELSE UNCHANGED <<boundVars, lineVars, farVars>>
       \/ /\ token[c] # NoAddr
          /\ cmd_add_cid(Active, mapping, c, token[c])
          /\ UNCHANGED dbVars

\* cmd_add_cid_to_all, at an address of the caller's choice or at the next one.
AddCid(c, a) ==
    /\ up /\ Room /\ "cid" \in AppCalls
    /\ cmd_add_cid_to_all(c, a)

\* cmd_add_cid, for one controller and without the database.
AddDirect(d, c, a) ==
    /\ up /\ Room /\ "direct" \in AppCalls
    /\ cmd_add_cid({d}, mapping, c, a)
    /\ UNCHANGED dbVars

InOrder(S) == {f \in [1..Cardinality(S) -> S] :
                 \A i, j \in 1..Cardinality(S) : i < j => f[i] < f[j]}

\* The addresses at which the blocks of cmd_clear_dev start.
Blocks == {a \in Start..Limit - 1 : (a - Start) % Block = 0}
BlankAll(f) == [i \in 1..Cardinality(Blocks) |-> Blank(f[i])] \o <<Bound(Limit), Ask>>

\* cmd_clear_dev for one, cmd_clear_dev_to_all for every active controller.
Clear(D) ==
    /\ up /\ Room /\ "clear" \in AppCalls
    /\ maxBound' = IF D = {} THEN maxBound ELSE Limit
    /\ bound' = [d \in Devices |-> IF d \in D THEN Limit ELSE bound[d]]
    /\ \E f \in InOrder(Blocks) :
         first' = [d \in Devices |->
             IF d \in D THEN first[d] \o BlankAll(f) ELSE first[d]]
    /\ UNCHANGED <<dbVars, active, inited, second, reply, farVars>>

\* cmd_reset_dev: what is known here of the bound does not change.
Reset(d) ==
    /\ up /\ Room /\ "reset" \in AppCalls
    /\ first' = [first EXCEPT ![d] = Append(@, Bound(Start))]
    /\ UNCHANGED <<dbVars, boundVars, second, reply, farVars>>

Known == {c \in Cards : token[c] # NoAddr}

\* The records of the database, in the order of the cids.
Records(f) == [i \in 1..Cardinality(Known) |-> Token(token[f[i]], f[i])]

cmd_reload_dev(d) ==
    /\ up /\ Room /\ "reload" \in AppCalls
    /\ \E f \in InOrder(Known) : first' = [first EXCEPT ![d] = @ \o Records(f)]
    /\ UNCHANGED <<dbVars, boundVars, second, reply, farVars>>

-----------------------------------------------------------------------------
(* The bus and the controllers *)

\* A controller answers after it was silent; the first time it is set up.
Hear(d) ==
    /\ up /\ ~active[d]
    /\ active' = [active EXCEPT ![d] = TRUE]
    /\ inited' = [inited EXCEPT ![d] = TRUE]
    /\ second' = IF inited[d] THEN second
                 ELSE [second EXCEPT ![d] = @ \o <<Bound(maxBound), Ask>>]
    /\ UNCHANGED <<dbVars, maxBound, bound, first, reply, farVars>>

\* It has missed too many polls.
Silence(d) ==
    /\ up /\ active[d] /\ "silence" \in Faults
    /\ active' = [active EXCEPT ![d] = FALSE]
    /\ UNCHANGED <<dbVars, maxBound, bound, inited, lineVars, farVars>>

\* What a command does in the controller d.
Obey(d, m) ==
    /\ cell' = CASE m.op = "token" -> [cell EXCEPT ![d][m.addr] = m.card]
                 [] m.op = "blank" ->
                      [cell EXCEPT ![d] = [a \in Addrs |->
                          IF m.addr <= a /\ a < m.addr + Block THEN NoCard ELSE @[a]]]
                 [] OTHER -> cell
    /\ edge' = IF m.op = "bound" THEN [edge EXCEPT ![d] = m.addr] ELSE edge
    /\ reply' = [reply EXCEPT ![d] = IF m.op = "ask" THEN edge[d] ELSE NoAddr]

\* Nobody repeats a command that gets lost.  An answer that has not come when
\* the next command is sent is not waited for any longer.
Carried(d, m) ==
    \/ Obey(d, m)
    \/ "loss" \in Faults /\ reply' = [reply EXCEPT ![d] = NoAddr] /\ UNCHANGED farVars

SendFirst(d) ==
    /\ up /\ first[d] # << >>
    /\ first' = [first EXCEPT ![d] = Tail(@)]
    /\ Carried(d, Head(first[d]))
    /\ UNCHANGED <<dbVars, boundVars, second>>

SendSecond(d) ==
    /\ up /\ first[d] = << >> /\ second[d] # << >>
    /\ second' = [second EXCEPT ![d] = Tail(@)]
    /\ Carried(d, Head(second[d]))
    /\ UNCHANGED <<dbVars, boundVars, first>>

\* process_port_input for GET_TOKEN_BOUND.
Answer(d) ==
    /\ up /\ reply[d] # NoAddr
    /\ bound' = [bound EXCEPT ![d] = reply[d]]
    /\ reply' = [reply EXCEPT ![d] = NoAddr]
    /\ UNCHANGED <<dbVars, maxBound, active, inited, first, second, farVars>>

-----------------------------------------------------------------------------
(* The 20 second timer, the end of the process and its next start *)

ScanDev ==
    /\ up
    /\ \E s \in db_sync(Database) : Store(s)
    /\ UNCHANGED <<boundVars, lineVars, farVars>>

Stop ==
    /\ up
    /\ \E s \in Killed(Database) : Store(s)
    /\ UNCHANGED <<boundVars, lineVars, farVars>>

\* db_init and gp_init: what was in memory only is gone.
Restart ==
    /\ ~up
    /\ token' = dtoken /\ mapping' = dmapping /\ up' = TRUE
    /\ maxBound' \in NextFree(dmapping)
    /\ bound' = [d \in Devices |-> Start]
    /\ active' = [d \in Devices |-> FALSE]
    /\ inited' = [d \in Devices |-> FALSE]
    /\ first' = [d \in Devices |-> << >>]
    /\ second' = [d \in Devices |-> << >>]
    /\ reply' = [d \in Devices |-> NoAddr]
    /\ UNCHANGED <<dtoken, dmapping, farVars>>

\* An empty database, blank controllers with any token bound.
Init ==
    /\ token = [c \in Cards |-> NoAddr] /\ dtoken = token
    /\ mapping = [a \in Addrs |-> NoCard] /\ dmapping = mapping
    /\ up = TRUE
    /\ maxBound \in NextFree(mapping)
    /\ bound = [d \in Devices |-> Start]
    /\ active = [d \in Devices |-> FALSE] /\ inited = active
    /\ first = [d \in Devices |-> << >>] /\ second = first
    /\ reply = [d \in Devices |-> NoAddr]
    /\ cell = [d \in Devices |-> [a \in Addrs |-> NoCard]]
    /\ edge \in [Devices -> Start..Limit]

Shown == \E d \in Devices, c \in Cards :
             NewCard(d, c) \/ KnownCard(d, c) \/ DisplacedCard(d, c)

Called == \/ \E c \in Cards : AddToken(c)
          \/ \E c \in Cards, a \in {0} \cup Start..Limit : AddCid(c, a)
          \/ \E d \in Devices, c \in Cards, a \in {0} \cup Start..Limit : AddDirect(d, c, a)
          \/ \E D \in {{d} : d \in Devices} \cup {Active} : Clear(D)
          \/ \E d \in Devices : Reset(d) \/ cmd_reload_dev(d)

Bus == \E d \in Devices :
           Hear(d) \/ Silence(d) \/ SendFirst(d) \/ SendSecond(d) \/ Answer(d)

Next == Shown \/ Called \/ Bus \/ ScanDev \/ Stop \/ Restart

Spec == Init /\ [][Next]_vars

-----------------------------------------------------------------------------
(* Properties *)

TypeOK ==
    /\ token \in [Cards -> Addrs \cup {NoAddr}] /\ dtoken \in [Cards -> Addrs \cup {NoAddr}]
    /\ mapping \in [Addrs -> Cards \cup {NoCard}] /\ dmapping \in [Addrs -> Cards \cup {NoCard}]
    /\ up \in BOOLEAN
    /\ maxBound \in Addrs /\ bound \in [Devices -> Addrs]
    /\ active \in [Devices -> BOOLEAN] /\ inited \in [Devices -> BOOLEAN]
    /\ first \in [Devices -> Seq(Command)] /\ second \in [Devices -> Seq(Command)]
    /\ reply \in [Devices -> Addrs \cup {NoAddr}]
    /\ cell \in [Devices -> [Addrs -> Cards \cup {NoCard}]] /\ edge \in [Devices -> Addrs]

\* Whenever the process dies, between two puts, between two syncs or after a
\* failed one, a card that has an address on the disk also has a record there.
OwnerHasToken == \A a \in Addrs : dmapping[a] # NoCard => dtoken[dmapping[a]] # NoAddr

\* An address that is on the disk stays with its card, through every crash,
\* restart and wrap of the addresses: a card of the event log keeps its name.
NeverReassigned ==
    [][\A a \in Addrs : dmapping[a] # NoCard => dmapping'[a] = dmapping[a]]_vars

\* The database and the memories of the controllers implement the ledger.
Ledger == INSTANCE CardLedger WITH owner <- mapping, Addresses <- Addrs,
                                   Controllers <- Devices
LedgerSpec == Ledger!Spec
=============================================================================
