# libgate in TLA+

libgate drives access controllers (card readers with a door relay) that hang on
one half-duplex serial line. It polls the controllers, reads their event logs,
keeps their card memories filled and opens doors. This directory holds TLA+
models of the library, their TLC configurations and TLAPS proofs about them.
Source paths below are relative to `src/src/`.

## 1. The system

The library is one process with one libevent loop. All state is in globals;
handlers run to completion, so the interleavings that matter are those of
events (bytes arrive, timers fire, the application calls) and of faults, not of
threads. What makes it hard is that `write`, `read` and `open` may fail in the
middle of a handler, that answers come late, in pieces, or not at all, and that
an answer carries only the address of its controller.

| component | state | operations | what makes it correct |
|---|---|---|---|
| bus master, `gp_layer.c` | `send_mess` (the command on the wire: address, target, handler, whether an answer is expected), `receiv_mess` and `receiv_buf_p` (the incomplete answer), `devices[]` (`activ`, `timeout_count`, `is_inited`), `gp_dst` of `gp_send_idle`, the event `evport`, two timers | `gp_receiv` (time-out or bytes), `gp_send`, `gp_send_idle`, `gp_dev_init`, `gp_get_dev_logs` (5 s), `gp_all_dev_enable` (20 s) | one command on the line at a time; a command is never sent with the handler of another dialogue; an open port is always waited for; the process survives every failure of the line; every controller gets its turn |
| command queues, `gp_queue.c` | `gp_head` (operators), `gp_head2` (background) | `gp_in_cmd`, `gp_put_cmd` | each command is sent at most once, in order, operators' commands first |
| serial port, `gp_port.c` | `gp_cfg.fd`, `last_try` | `gp_close`, `gp_reconnect`, `open_port` | a closed port is opened again |
| reply processing, `gp_processor.c` | `last_cid`, `last_ev`, `new_cid_flag`, the log bounds of `devices[]` | `cb_get_poll_result`, `cb_log_read`, `process_port_input` | every event of a log is reported, and acknowledged only then |
| command builders, `ad_target.c` | none | one per target; two commands where there are two banks | code, target, bank and handler belong together |
| operations, `ad_cmd.c` | `bound_token`, `max_bound_token`, `max_dev_n` | open, close, exchange, clear, reset, reload, parameters, schedules, tokens | two cards never share an address; a bulk load is bracketed by `ad_prep_load` |
| token database, `db_layer.c` | card to token, address to card, parameters (Berkeley DB) | `db_add_token`, lookups, `db_get_max_addr`, `db_sync` | both files agree, also after a crash |
| framing and conversions, `gp_util.c` | none | byte stuffing, CRC, BCD, byte order | decoding inverts encoding |
| demo daemon, `adapter.c` | none of its own | `main`, log, signals | |

Interactions. The event loop calls `gp_receiv`. A time-out puts the next queued
command (`gp_put_cmd`) or else polls the next controller (`gp_send_idle`). An
answer is checked, given to `process_port_input`, which calls the handler stored
in `send_mess`; the handler may send the next command of a dialogue at once
(queue `AD_Q_SHORT`), enqueue commands, or do nothing; unless a data handler
says it did something, `gp_receiv` then puts the next queued command. A poll is
the dialogue GET_CID, GET_REGS; reading a log is the dialogue GET_BUFF_ADDR
(queued by the 5 s timer), GET_BUFF_DATA, SET_BUFF_ADDR_DOWN. A card under a
reader leads through the database to an opening and to token writes for one
controller or all active ones. A failed `write` or `read`, or a `read` of 0
bytes, closes the port; the 20 s timer reopens it.

## 2. The modules

| module | models | kind |
|---|---|---|
| `GateCommands` | targets, wire codes, builders, the command sequences of the operations, the controllers' answers | definitions |
| `GateBus` | `gp_layer.c`, `gp_queue.c`, `gp_port.c`, the bus side of `gp_processor.c` and `ad_cmd.c` | state machine |
| `DoorService` | what the bus promises about opening doors: each request is settled at most once, in order, operators first | abstract specification |
| `GateDoors` | the refinement mapping from `GateBus` to `DoorService`; the liveness of a request | refinement |
| `GateCards` | the token database of `db_layer.c`, the addresses of tokens, the operations that carry them into the controllers | state machine |
| `CardLedger` | an address of the card memory belongs to one card for ever, and no controller holds another card at it | abstract specification |
| `GateLog` | the event log of a controller and `cb_log_read` | state machine |
| `EventFeed` | no event is forgotten before the application got it, none is skipped | abstract specification |
| `GateFrame` | frames byte by byte: `gp_send`, the collecting of an answer in `gp_receiv`, `memcpy_esc`, `memcpy_unesc`, `crc8_xor` | state machine |
| `GateBusProofs` | types, wiring, handlers, survival of the bus master | proofs |
| `GateTimelyProofs` | one command at a time (extends `GateBusProofs`) | proofs |
| `GatePortProofs` | what an open port is closed by (extends `GateTimelyProofs`) | proofs |
| `GateDoorsProofs` | the bus master implements `DoorService` (extends `GateDoors`, `GateBusProofs`) | proofs |
| `GateCardsProofs` | the database and the ledger; the cards implement `CardLedger` | proofs |
| `GateLogProofs` | `cb_log_read` implements `EventFeed` | proofs |
| `GateFrameProofs` | frames of all bytes, lengths and chunks | proofs |
| `MCGateBus`, `MCGateCards`, `MCGateLog`, `MCGateFrame` | the roots of the TLC runs | model checking |

The four state machines cut the program where little crosses. `GateBus` decides
which command is on the line and who gets an answer, and leaves open what the
answer says; `GateCards` and `GateLog` take one kind of dialogue each, know what
it says, and let the commands of different controllers and dialogues interleave
in every way that `GateBus` could choose and more; `GateFrame` is the transport
below them, which they see as messages that arrive whole or not at all.

**How `GateBus` corresponds to the code.** One action is one run of an event
handler, one call of the application, or a step of the environment. A C function
that may call `write` or `open` is an operator `F(s)`: the set of program states
in which it may return when it is called in `s`; `done` says whether it returned
a positive number. A handler composes these operators in the order of the C
statements, so a failed write in the middle of a handler is followed by exactly
what the code does next. After `exit()` (`run = FALSE`) nothing else happens.

| variable | in the code |
|---|---|
| `first`, `second` | `gp_head`, `gp_head2` |
| `send` | `send_mess.dev`, `.target`, `.ev_handler`, `.is_expected` |
| `open`, `armed` | `gp_cfg.fd >= 0`; `evport` is in the event loop |
| `run` | `exit()` has not been called |
| `line`, `rx` | what waits in the tty; what waits in `receiv_mess.buf` |
| `unit`, `idle` | `devices[]`; `gp_dst` of `gp_send_idle` |
| `fresh` | `last_try` was set since the last `gp_all_dev_enable` |
| `asked`, `urgent`, `opens` | history: openings asked for, by an operator, how often each was written |

| action | in the code |
|---|---|
| `TimeoutEarly`, `TimeoutDue` | `gp_receiv` without `EV_READ`, before and after `gp_timeout` |
| `ReadError`, `ReadNothing`, `ReadNoInit`, `ReadPartial`, `ReadBadFrame`, `ReadAnswer` | `gp_receiv` with `EV_READ`, one action per way out |
| `ScanDev`, `ScanLog` | `gp_all_dev_enable`, `gp_get_dev_logs` |
| `Call`, `CallAll` | the operations of `ad_cmd.c` |
| `Lose`, `Exited` | noise on the line; the process is gone |

**What is abstracted.** Payloads and addresses of tokens are dropped; what a
card or a log contains is a choice. An answer travels as a head (with GP_INIT)
and a tail (with GP_END), and a read may return any number of parts. Time is
dropped: a time-out may fire at any moment while the event is armed, which
covers every relation of the interval to the answers; `fresh` keeps the one
relation that matters, that the 15 s window of `gp_reconnect` is shorter than
the 20 s of its timer. `timeout_count` saturates one above the maximum, because
the code only compares it. The number of blocks of a bulk load is a constant.
Whether `cb_get_poll_result` takes an answer for a repetition (`last_cid`,
`new_cid_flag`, `last_ev`) is a free choice among what it may do with an answer:
the models cover every outcome of it, and no property says that a card under the
reader is handled once.

**How `GateCards` corresponds to the code.**

| variable | in the code |
|---|---|
| `token`, `mapping` | `db_handle_token` (address of a card), `db_handler_by_addr` (card at an address), as the process sees them |
| `dtoken`, `dmapping` | what of them a crash leaves on the disk |
| `up` | the process runs |
| `maxBound`; `bound`, `active`, `inited` | `gp_cfg.max_bound_token`; `bound_token`, `activ`, `is_inited` of `devices[]` |
| `first`, `second`, `reply` | the token commands to a controller in the two queues; its answer to GET_TOKEN_BOUND |
| `cell`, `edge` | the card memory and the token bound in the controller |

| action | in the code |
|---|---|
| `NewCard`, `KnownCard`, `DisplacedCard` | the ways through `cb_get_poll_result`: the card is unknown, known, or known at an address that another card has |
| `AddToken`, `AddCid`, `AddDirect` | `cmd_add_tocken_to_all`, `cmd_add_cid_to_all`, `cmd_add_cid` |
| `Clear`, `Reset`, `cmd_reload_dev` | `cmd_clear_dev` and `cmd_clear_dev_to_all`, `cmd_reset_dev`, `cmd_reload_dev` |
| `Hear`, `Silence` | a controller becomes active (with `gp_dev_init` the first time), or missed too many polls |
| `SendFirst`, `SendSecond`, `Answer` | a queued command reaches its controller or is lost; the answer to GET_TOKEN_BOUND |
| `ScanDev`, `Stop`, `Restart` | `db_sync` of the 20 s timer; a kill, or SIGTERM with its `db_close`; `db_init` and `gp_init` |

`db_add_token(s, c, a)` is the set of databases the C function may leave: after
both puts and any prefix of the syncs, after one put that failed, or with the
process dead between any two steps. A loop over the active controllers is
written as the set it serves: those up to the first conflict. `ad_set_token`,
`ad_set_token_bound` and `ad_get_token_bound` (`ad_target.c:259-318`, `402-433`)
queue one command for each of the two banks of a controller, and either may be
lost alone. The model has one command, which reaches both banks or neither, and
one memory `cell` and one bound `edge`; so it says nothing of two banks that
differ. What `CardLedger` says of a memory it says of each bank alone, which gets
some of the same writes in the same order, as `loss` may choose them; no argument
about its addresses uses what a controller answers for its bound.

**How `GateLog` corresponds to the code.** `ring`, `up`, `down` are in the
controller; `asks` and `resets` count the queued GET_BUFF_ADDR and RESET_BUFF;
`wire` is the answer that is awaited; `bound_down` and `last` are those of
`devices[]`. `log`, `handled`, `reported`, `freed` are history: every event, those
`cb_log_read` went through, those it gave to the application, how many the
controller has forgotten. `ScanLog` is `gp_get_dev_logs`, `AskReset` and
`SendReset` are `cmd_reset_dev`, `SendAsk`, `ReadBounds`, `ReadData`, `ReadAck` the
dialogue, with the two branches of `cb_log_read`, and `Restart` a new process.

**How `GateFrame` corresponds to the code.** `buf` and `at` are
`receiv_mess.buf` and `receiv_buf_p`, `raw` the bytes in the tty, `out` the
command just written. `Send` is `gp_send`, `Read(n)` a run of `gp_receiv` in
which `read` returns `n` bytes, `ReadNothing` one in which the buffer is full.
`memcpy_unesc` is modelled turn by turn on the buffer it changes in place,
because it reads behind the frame; what earlier answers left there matters.
Behind the buffer itself it reads what the linker put there: `Behind` holds the
contents that memory may have, `Memory` joins one of them to the buffer. The
exclusive or of the check sum is written with `\div` and `%`, and the loops are
recursive functions, so that the module can be proved about.

**Assumptions about the outside.** epoll refuses `event_add` on a closed
descriptor; `open_port` flushes the input (`tcflush`); in `GateBus` a damaged
frame never has a fitting check sum; `malloc` succeeds; applications name
controllers in `1..max_dev_n`. A controller answers a command at most once.
In `GateLog` the answer comes before the next command to that controller is sent,
or never: `gp_receiv` matches answers by their address only (`gp_layer.c:367`), so
a late one would be taken for the next, and of that case nothing is claimed.
Berkeley DB writes a table to the disk when it is synced or closed, and not in
part. A controller keeps its memory and its log while the process is down, drops
what does not fit into a full log, and sums an answer over the bytes from the
direction byte on.

## 3. The runs

In the runs of `GateBus` there is one controller where the property speaks of
one dialogue, two where it needs a second actor. `MaxTimeouts = 0` makes a
controller silent after one missed answer instead of seven; the code only
compares. `MaxQueue` stops new load when a queue is that long, with 0 for "only
into an empty queue", which still lets a whole operation in at any moment of a
dialogue. `MaxLine = 2` holds one answer, 4 holds two; a further answer is lost,
which a full tty also does to it. `RxRoom = 2` is the least that can hold an
answer, 3 lets an incomplete one stand in front of another.

| run | question | bounds | result |
|---|---|---|---|
| `faults` | Is the loop wired to the port after every mixture of failed writes and reads, and is an opening still settled once? | 1 controller, 1 opening | `TypeOK`, `ArmedIffOpen` hold, `DoorService` is implemented |
| `calls` | Can a command be sent with the handler of another dialogue? Can loss alone end the process? | a reset, a schedule and new cards (commands for both queues, one or two banks) at every moment of a dialogue; lost parts | `HandlerFitsTarget`, `NeverExits` hold |
| `timely` | Can two commands be on the line? | 2 controllers, an exchange of addresses, failing writes | `OneOutstanding` holds |
| `settle` | Does a late answer repeat, reorder or revive an opening, is every opening settled, and can answers that come late and in pieces close the port? | 2 openings from an operator or a card, nothing lost, `FairSpec` | `DoorService` is implemented, `DoorSettles` and `PortKept` hold |
| `recover` | Does the port come back? | hang-ups, `FairSpec` | `PortRecovers` holds |
| `exits` | "never exit on error!" (`gp_layer.c:109`, `:114`, `:330`) | failing writes | `NeverExits` is violated |
| `closed` | "port unexpectedly closed" (`gp_layer.c:332`) | a lossy line, room for 3 parts | `PortKept` is violated |
| `ledger` | Do two cards ever share an address, in the database or in a controller? | 2 cards, 2 controllers that fall silent and come back, 2 addresses, lost commands, clearing, reset, reload | `CardLedger` is implemented |
| `crash` | What is on the disk when the process dies? | 3 cards, 2 addresses (so they wrap), failing puts and syncs, kills, SIGTERM | `TypeOK`, `OwnerHasToken`, `NeverReassigned` hold |
| `log` | Is every event reported, and read in the end? | ring of 3, blocks of 2, 3 events of 2 kinds; loss, bounds outside the log, restart, reset, no late answers; `FairSpec` | `TypeOK`, `EachReported` hold, `EventFeed` is implemented, `AllRead` holds |
| `frame` | Is a whole answer taken unchanged, whatever is in the buffer? | 3 answers of up to 2 bytes 245, up to 3 escapes, any chunks, noise, cuts; a zero or a GP_ESC in the memory behind a buffer of 18 bytes | `OutFramed`, `ReadWhole`, `Resync` hold |
| `escapes` | "crc8 error for %d" (`gp_layer.c:359`) | as `frame` | `EveryRead` is violated |

The runs of `GateBus` call a few operations each. The others of `CallOrders` add
longer sequences of the same kinds of commands; the theorems of section 4 cover
all of them. In `settle` one answer fits on the line, which bounds its liveness
checking; a command may still be given up while half of its answer waits.
Several late answers, one behind the other, are covered by `PortStays` (section
4).

`HandlerFitsTarget` is about `send_mess` alone: the handler that waits is one of
the command that was sent. It does not say whose answer that handler gets. With
`OneOutstanding` it does: while controllers answer in time, the one answer on the
line is that of the command in `send_mess`, and its handler fits. A late answer
still reaches the handler of the next command to the same controller: a block of
the log that comes after GET_CID was sent is read as a card. That happens in the
model as in the code, and is among the hazards without a property.

`OneOutstanding` is checked under `TimelySpec`: no command is given up while its
answer waits. Without it the property is false and the code does not claim it: an
answer that is later than 140 ms is taken for the answer to the next command to
the same controller.

The bounds of `GateCards`, `GateLog` and `GateFrame` are the least in which the
case a property is about happens: an address taken by another card needs two
cards and addresses that wrap; a block at the end of the ring and one cut there
need a ring longer than a block; a block that is read twice needs more events
than one block; a frame joined to the head of another needs two answers. In `frame`
the address 244 makes the sum of the answer 245, 245 a flag, so that it has three
escapes, and its third extra turn meets what a joined pair of answers left, which
needs a third answer and a buffer that holds the pair (18 bytes); a longer pair
fills the buffer, and the same turn can read behind it. `ReadWhole` speaks of an
answer with any number of escapes, and excepts only those that have a GP_ESC where
the turns beyond GP_END and the zero read (`Harmless`). `EveryRead` drops the
exception, and the run `escapes` shows that the code needs it.

**Fairness.** `FairSpec` of `GateBus`: the event loop runs the handler of an armed
event, because its timer is set on every `event_add` or because bytes wait (weak
fairness of `PortEvent`); the 20 s timer is rearmed by its own handler (weak
fairness of `Tick`); and `open()` succeeds at last if it is tried again and
again (strong fairness of `Retry`). The fairness of the timer is split by the
state of the port (`Tick`), so that a firing that finds nothing to do never
counts as a successful `open()`. Nothing is assumed of the controllers, the
line or the application. `DoorSettles` is stated for finitely many openings
(`MaxDoors`): an application that keeps `gp_head` non-empty for ever does starve
`gp_head2`.

`FairSpec` of `GateLog`, for `AllRead`: the 5 s timer fires again and again and
queued commands are sent and answered or given up (weak fairness of `ScanLog`,
`SendReset`, `Dialogue`: what `DoorSettles` and the event loop give); and a line
that is used again and again lets a message through at last (strong fairness of
the outcome in which nothing is lost, one for each command). A restart empties
the queues: a reset that is asked for after each restart, and forgotten by the
next one before it is sent, would hold off the reading for ever, so the strong
fairness is needed for the reset as well.

**Findings.** (1) `exits`: a controller answers GET_CID; `gp_dev_init` queues the
commands that set it up, and `cb_get_poll_result` sends GET_REGS at once. That
write fails and closes the port inside `gp_resend`; the handler returns a value
that is not positive, so `gp_receiv` calls `gp_put_cmd` (`gp_layer.c:409`), which
takes SET_DATE from the queue and reaches `gp_resend` with `fd = -1`, which calls
`exit(99)`. (2) `closed`: bytes without GP_END pile up in `receiv_mess.buf`; when
it is full `read` is called with size 0, its result 0 is taken for a closed port,
and since nothing resets the buffer this happens again after each reconnect. It
takes lost bytes: `settle` and the theorem `PortStays` show that without them the
buffer never fills. (3) `escapes`: `memcpy_unesc` counts turns and not bytes
(`gp_util.c:68`), so it goes on behind the end of an answer by one byte for each
escape. The first two are GP_END and the zero; the third is what an earlier
answer left. If that is a GP_ESC, the answer is refused for its sum, which fits.
In the run the head of a cut answer and the next one are read as one frame, and
the answer after them has three escapes. `WholeRead` shows that an
answer read from its first byte is lost in no other way, as long as those bytes
lie in the buffer; from behind it, memory decides (`Behind`).

## 4. The proofs

`GateBusProofs` proves, for every value of the constants that satisfies
`CommandsAssumption` and `BusAssumption`:

| theorem | states |
|---|---|
| `Inductive` | `Spec => []IInv` |
| `TypeCorrect` | `Spec => []TypeOK` |
| `Wiring` | `Spec => []ArmedIffOpen` |
| `HandlersFit` | `Spec => []HandlerFitsTarget` |
| `Survives` | without write and read faults, `Spec => []NeverExits` |

The argument. `HandlerFitsTarget` is not inductive: a queued command carries its
own handler, and a command sent with `AD_Q_SHORT` keeps the one of its
predecessor. `IInv` therefore says that the queues hold only commands that fit
by themselves and were not meant for `AD_Q_SHORT`, that the command in
`send_mess` fits, and that the event is in the loop iff the port is open. Every
function that may send is shown to keep this (`Kept`: types, wiring, and that
without write errors it neither closes the port nor exits), from `gp_send`
(`SendType`) up through `gp_put_cmd`, `gp_send_idle` and the reply handlers
(`HandleKept`); then there is one lemma per action. `Survives` uses that a
handler only runs while the event is armed, hence while the port is open, and
that without write errors the port stays open until the last statement of the
handler.

`GateCardsProofs` proves, for every value that satisfies `CardsAssumption`:

| theorem | states |
|---|---|
| `CardsInductive` | `Spec => []CardInv` |
| `CardsTyped` | `Spec => []TypeOK` |
| `DiskComplete` | `Spec => []OwnerHasToken`, with all faults |
| `DiskKept` | `Spec => NeverReassigned`, with all faults |
| `ImplementsLedger` | with no failed put, no kill and no direct call of `cmd_add_cid`, `Spec => LedgerSpec` |

`OwnerHasToken` speaks of the disk only and is not inductive: `Consistent` adds
that every card with a record on the disk has one in memory and that an address
on the disk has the same card in memory. It is shown of each stage in which
`db_add_token`, `db_sync` and `db_close` may end, so that a crash anywhere is one
of the stages. `LedgerInv`
adds for the refinement that a known card has an address that is its own, and
that every queued command carries the owner of its address: a command may be sent
long after the decision it came from. The assumptions are needed: after a failed
second put, or a restart, a card may have a record with an address that is not
its own, and a reload then writes it there.

`GateLogProofs` proves, for every value that satisfies `LogAssumption` and with
all faults:

| theorem | states |
|---|---|
| `LogInductive` | `Spec => []LogInv` |
| `LogTyped` | `Spec => []TypeOK` |
| `ImplementsFeed` | `Spec => FeedSpec` |
| `ReportsEach` | `Spec => []EachReported` |

`LogInv` says that the records between `down` and `up` are the events that are
not forgotten, and that an answer on the wire still describes the ring, which
may have grown since. `SeenInv` adds that what was handled beyond `freed` has no
gap and that `last` is the last event handled, so that the comparison with
`last_ev_rec` hides an event only if it repeats that one.

`GateTimelyProofs`, `GatePortProofs` and `GateDoorsProofs` build on `IInv`:

| theorem | states | under |
|---|---|---|
| `HalfDuplex` | `TimelySpec => []OneOutstanding` | no faults but failing writes |
| `PortStays` | `Spec => PortKept` | no faults |
| `ImplementsService` | `Spec => ServiceSpec` | all faults |

`OneOutstanding` counts answers and is not inductive. `InTurn` says what the line
and the buffer hold: nothing, or exactly one answer, whole or split between the
two, which is the answer to the command in `send_mess`. Then a read of any
number of parts either keeps the head, or completes the frame of the right
controller, and the branches for a missing GP_INIT and a damaged frame are not
taken. The assumption on the faults is needed: after a lost tail, a failed read
or a hang-up the head of an answer may stay in the buffer, which opening the port
again does not empty. Failing writes are allowed: a timely command is written
when the buffer is empty, the failed write closes the port, and opening it
empties the line. This is also the fault of the run `timely`.

`PortStays` drops the timeliness, so any number of answers may wait. `Tidy`
says that every head on the line is followed by a tail, and that the buffer is
empty or holds one head whose tail is the next part on the line. So the buffer
always has room for what it still needs, and `ReadNothing` is not enabled
without a hang-up; a read that begins with an answer to another command is
refused and leaves the buffer empty. Every fault is excluded: a hang-up, a
failed read and a failed write close an open port by themselves, and lost parts
do it in the run `closed`.

`ImplementsService` is the refinement of `DoorService` for any number of
openings, controllers and commands in the queues. `DoorsInv` says that `gp_head`
holds openings an operator asked for and `gp_head2` those of cards, each queue in
the order of the requests, that none of those has been written, and that none
has been written twice. `Fate` is then shown to change only as a step of
`DoorService` allows: a run of a handler changes it for one opening, a request or
a settlement, whichever C functions it went through and whichever of their
writes failed. `Quiet` names what a C function does that no opening can tell.

`GateFrameProofs` proves, for every value that satisfies `FrameAssumption`:

| theorem | states | under |
|---|---|---|
| `FrameInductive` | `Spec => []FrameInv` | |
| `CommandsFramed` | `Spec => []OutFramed` | |
| `Resyncs` | `Spec => []Resync` | |
| `WholeRead` | `Spec => []ReadWhole` | `BehindAssumption` |

`FrameInv` says that what waits to be read is the end of one answer
(`EndOf`), that a buffer that goes on begins with GP_INIT, and, while the answer
began in an empty buffer, that the buffer holds exactly the bytes of it that
were read (`Collecting`). The last read then finds GP_END at the end of the frame
and nowhere before, because escaped bytes contain no flag, for every sequence of
bytes and every check sum. For the body, the turns of `memcpy_unesc` are followed
through the escaped bytes. It takes one turn for every byte and an escape takes
two bytes in one turn, so there is one turn too many for each escape. The first
of them read GP_END and the zero that `gp_receiv` puts behind it, the others what
is there; as long as that is no GP_ESC (`Passable`) each of them copies one byte
to a place behind the body (`PassOne`), for any number of escapes
(`UnescapeBody`). `Harmless` speaks of the buffer after the read, so it takes a
second induction to use it: no turn writes at or behind the place it reads
(`Untouched`, `UnescapeBehind`), hence what is there afterwards was there when it
was read. And a body followed by its check sum has the sum 0, whatever the bytes.

These are statements about loops, that is inductions over data. The library's
induction theorems cannot be instantiated here, so the module proves once that a
non-empty set of natural numbers has a least element (`Least`, from the
well-foundedness of `<` as a fact about a set of pairs) and that a set that
contains 0 and is closed under successors contains everything (`UpTo`), and uses
those with the set of the lengths of which a statement holds. That the recursive
functions of the module exist is proved in the same way, since TLAPS only unfolds
a recursive function that is known to exist.

**Only model-checked.** The liveness properties `DoorSettles`, `PortRecovers` and
`AllRead`: liveness under fairness is out of the prover's reach. Every
invariant, action property and refinement of a passing run is stated by a
theorem, which holds for all values of the constants under the conditions listed
above. `NeverExits` is a theorem without write and read faults only, `PortKept` without
any, and `ReadWhole` has its exception; the violations that the runs `exits`,
`closed` and `escapes` find are real.

**Not shown by the proofs.** They are about the models: the abstractions of
section 2 (messages that arrive in two parts, lost time, the controllers) are
trusted, and TLC shares that trust.

## 5. Not modelled, and what is left

Not modelled: of `adapter.c` (an example program) all but the signal handler;
the Makefile; log messages and the fields that only serve them; the table of
parameters (schedules, dates), which only the application reads back; the
conversions of dates, BCD and byte order in `gp_util.c`, pure functions on
payloads that the models abstract; the lengths of the intervals; `cmd_set_max_dev`,
since `max_dev_n` is a constant of the models. `ad_hard_reset`, the queued
`ad_get_cid`, `gp_del_cmd` and `cmd_log_read` (which queues what
`gp_get_dev_logs` does) have no caller.

Modelled, but without a property: that a card written into a controller is below
its token bound. The answer to GET_TOKEN_BOUND overwrites a bound that may have
moved since, a reset and a reload leave it behind the cards, and nothing in the
code claims otherwise.

Left, in this order:

1. An abstract specification of the frames (an answer is delivered unchanged or
   not at all), and for answers with no GP_ESC behind them the proof that
   `GateFrame` implements it.
2. Late answers in `GateLog`, with a property for what the dialogue still keeps
   then, and the two banks of a controller in `GateCards`.
3. `ImplementsLedger` where only some of the puts fail.
