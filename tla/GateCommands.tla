---------------------------- MODULE GateCommands ----------------------------
(***************************************************************************)
(* The vocabulary of the bus: the targets and codes of the commands, the   *)
(* builders of ad_target.c, the sequences of commands that the operations  *)
(* of ad_cmd.c and gp_layer.c put into the two queues, and the answers the *)
(* controllers give.  A command keeps what the bus master looks at; the    *)
(* addresses and the payload it carries are abstracted away.               *)
(***************************************************************************)
EXTENDS Naturals, Sequences

CONSTANTS MaxDev,        \* gp_cfg.max_dev_n: the controllers are 1..MaxDev
          MaxDoors,      \* bound: the door openings that are asked for
          ClearBlocks,   \* blocks cmd_clear_dev overwrites (340 in the code)
          StoredTokens   \* tokens in the database when cmd_reload_dev runs

ASSUME CommandsAssumption ==
    /\ MaxDev \in Nat \ {0}
    /\ MaxDoors \in Nat
    /\ ClearBlocks \in Nat
    /\ StoredTokens \in Nat

Devices == 1..MaxDev
Slots   == 0..MaxDev      \* devices[]: entry 0 is used before the first send
Doors   == 1..MaxDoors

SHORT  == 0               \* AD_Q_SHORT: send at once, bypassing the queues
FIRST  == 1               \* AD_Q_FIRST: gp_head, what an operator asks for
SECOND == 2               \* AD_Q_SECOND: gp_head2, background work

Reading == {"GET_CID", "GET_BUFF_ADDR", "GET_BUFF_DATA", "GET_TOKEN_BOUND",
            "GET_TOKEN", "GET_DATE", "GET_TIMES", "GET_SCHED"}
Writing == {"EXCHANGE", "SET_BUFF_ADDR_DOWN", "RESET_BUFF", "SET_TOKEN_BOUND",
            "SET_TOKEN", "SET_DATE", "SET_TIMES", "SET_SCHED"}
Single  == {"INFO", "SOFT_RESET", "HARD_RESET", "TURN_ON", "TURN_OFF",
            "GET_REGS", "PREP_LOAD"}
Targets == Reading \cup Writing \cup Single

\* The code on the wire: all the memory reads share one, all the writes share
\* another, so a code alone does not tell which command is answered.
CmdN == [t \in Targets |->
           CASE t \in Reading    -> 4
             [] t \in Writing    -> 5
             [] t = "GET_REGS"   -> 6
             [] t = "TURN_ON"    -> 7
             [] t = "TURN_OFF"   -> 8
             [] t = "INFO"       -> 9
             [] t = "SOFT_RESET" -> 11
             [] t = "HARD_RESET" -> 13
             [] t = "PREP_LOAD"  -> 102]

Handlers == {"none", "poll", "log"}   \* 0, cb_get_poll_result, cb_log_read

\* door: which opening a TURN_ON asks for, 0 on every other command.
Command == [queue : {SHORT, FIRST, SECOND}, dev : Slots, target : Targets,
            handler : Handlers, door : 0..MaxDoors]

Plain(q, d, t) == [queue |-> q, dev |-> d, target |-> t, handler |-> "none",
                   door |-> 0]

-----------------------------------------------------------------------------
(* Builders of ad_target.c.  The ones with two banks enqueue two commands. *)

One(c)  == <<c>>
Both(c) == <<c, c>>

ad_get_info(q, d)           == One(Plain(q, d, "INFO"))
ad_soft_reset(q, d)         == One(Plain(q, d, "SOFT_RESET"))
ad_turn_on(q, d, n)         == One([Plain(q, d, "TURN_ON") EXCEPT !.door = n])
ad_turn_off(q, d)           == One(Plain(q, d, "TURN_OFF"))
ad_exchange(q, d)           == One(Plain(q, d, "EXCHANGE")) \o ad_soft_reset(q, d)
ad_get_date(q, d)           == One(Plain(q, d, "GET_DATE"))
ad_set_date(q, d)           == One(Plain(q, d, "SET_DATE"))
ad_get_buff_addr(q, d, h)   == One([Plain(q, d, "GET_BUFF_ADDR") EXCEPT !.handler = h])
ad_reset_buff(q, d)         == One(Plain(q, d, "RESET_BUFF"))
ad_get_regs(q, d)           == One(Plain(q, d, "GET_REGS"))
ad_prep_load(q, d)          == One(Plain(q, d, "PREP_LOAD"))
ad_get_token_bound(q, d)    == Both(Plain(q, d, "GET_TOKEN_BOUND"))
ad_set_token_bound(q, d)    == Both(Plain(q, d, "SET_TOKEN_BOUND"))
ad_get_token(q, d)          == Both(Plain(q, d, "GET_TOKEN"))
ad_set_token(q, d)          == Both(Plain(q, d, "SET_TOKEN"))
ad_get_times(q, d)          == Both(Plain(q, d, "GET_TIMES"))
ad_set_times(q, d)          == Both(Plain(q, d, "SET_TIMES"))
ad_get_sched_table(q, d)    == Both(Plain(q, d, "GET_SCHED"))
ad_set_sched_rec(q, d)      == Both(Plain(q, d, "SET_SCHED"))

\* n blocks of tokens, each written to both banks.
TokenBlocks(d, n) == [i \in 1..2 * n |-> Plain(FIRST, d, "SET_TOKEN")]

\* The commands that are sent at once, always with queue AD_Q_SHORT.
PollCid(d)   == [Plain(SHORT, d, "GET_CID") EXCEPT !.handler = "poll"]
PollRegs(d)  == Plain(SHORT, d, "GET_REGS")
LogData(d)   == Plain(SHORT, d, "GET_BUFF_DATA")
LogDone(d)   == Plain(SHORT, d, "SET_BUFF_ADDR_DOWN")
ResetNow(d)  == Plain(SHORT, d, "SOFT_RESET")

-----------------------------------------------------------------------------
(* What an operation puts at the end of the queues gp_head and gp_head2.   *)

Orders(f, s) == [first |-> f, second |-> s]

\* gp_dev_init: a controller that answers for the first time is set up.
DevInit(d) ==
    Orders(<< >>,
           ad_set_date(SECOND, d) \o ad_set_times(SECOND, d)
             \o ad_set_token_bound(SECOND, d) \o ad_get_info(SECOND, d)
             \o ad_get_token_bound(SECOND, d) \o ad_get_times(SECOND, d)
             \o ad_get_date(SECOND, d))

cmd_clear_dev(d) ==
    Orders(ad_prep_load(FIRST, d) \o TokenBlocks(d, ClearBlocks)
             \o ad_set_token_bound(FIRST, d) \o ad_prep_load(FIRST, d)
             \o ad_get_token_bound(FIRST, d) \o ad_get_date(FIRST, d),
           << >>)

cmd_param_dev(d) ==
    Orders(ad_get_info(FIRST, d) \o ad_get_token_bound(FIRST, d)
             \o ad_get_buff_addr(FIRST, d, "none") \o ad_get_regs(FIRST, d)
             \o ad_get_date(FIRST, d),
           << >>)

cmd_reset_dev(d) ==
    Orders(ad_set_token_bound(FIRST, d) \o ad_reset_buff(FIRST, d),
           ad_set_date(SECOND, d))

cmd_reload_dev(d) ==
    Orders(ad_prep_load(FIRST, d) \o TokenBlocks(d, StoredTokens)
             \o ad_prep_load(FIRST, d),
           << >>)

\* The operations an application calls on one controller, by name.  n is the
\* number of the opening that "open" asks for.
Calls == {"info", "open", "close", "exchange", "sched", "token", "clear",
          "param", "reset", "reload"}

CallOrders(call, d, n) ==
    CASE call = "info"     -> Orders(ad_get_info(FIRST, d), << >>)
      [] call = "open"     -> Orders(ad_turn_on(FIRST, d, n), << >>)
      [] call = "close"    -> Orders(ad_turn_off(FIRST, d), << >>)
      [] call = "exchange" -> Orders(ad_exchange(FIRST, d), << >>)
      [] call = "sched"    -> Orders(ad_get_sched_table(FIRST, d), << >>)
      [] call = "token"    -> Orders(ad_get_token(FIRST, d), << >>)
      [] call = "clear"    -> cmd_clear_dev(d)
      [] call = "param"    -> cmd_param_dev(d)
      [] call = "reset"    -> cmd_reset_dev(d)
      [] call = "reload"   -> cmd_reload_dev(d)

-----------------------------------------------------------------------------
(* Answers.  A controller answers a memory read, INFO or GET_REGS with     *)
(* data, everything else with an acknowledgement that repeats the code; it *)
(* may refuse either with a NACK or an EEPROM error.                       *)

AnswerKinds == {"data", "ack", "refused"}
Answer == [src : Slots, kind : AnswerKinds, code : {CmdN[t] : t \in Targets}]

AnswerTo(c) ==
    [src  |-> c.dev,
     kind |-> IF c.target \in Reading \cup {"INFO", "GET_REGS"} THEN "data" ELSE "ack",
     code |-> CmdN[c.target]]

\* On the line an answer is a head, which carries GP_INIT, and a tail, which
\* carries GP_END: a read may return one without the other.
Part == [half : {"head", "tail"}, ans : Answer]
Framed(a) == << [half |-> "head", ans |-> a], [half |-> "tail", ans |-> a] >>
=============================================================================
