------------------------------ MODULE GateFrame ------------------------------
(***************************************************************************)
(* The frames on the serial line, byte by byte: how gp_send builds one,    *)
(* and how gp_receiv collects the chunks of an answer in receiv_mess.buf,  *)
(* finds its end, takes the escapes out in place and checks the sum.  What *)
(* earlier answers left in the buffer stays there, and is read again.      *)
(***************************************************************************)
EXTENDS Integers, Sequences

CONSTANTS Bytes,      \* bound: the bytes of commands and answers
          MaxData,    \* bound: how many of them, cmd_n included
          MaxAnswers, \* bound: the answers
          Own,        \* the address of the controller
          BufLen,     \* GP_PORT_READ_BUF_LENGTH
          Noise,      \* the bytes that may come before an answer
          Behind      \* what may be in memory behind receiv_mess.buf

ASSUME FrameAssumption ==
    /\ Bytes \subseteq 0..255 /\ Own \in 2..244
    /\ MaxData \in Nat \ {0} /\ MaxAnswers \in Nat
    /\ BufLen \in Nat /\ BufLen > 5
    /\ Noise \subseteq 0..255

ASSUME BehindAssumption ==
    Behind # {} /\ Behind \subseteq [BufLen..2 * BufLen -> 0..255]

VARIABLES out,       \* what was written and is not answered yet
          raw,       \* the bytes of the answer that nobody has read
          buf,       \* receiv_mess.buf
          at,        \* receiv_buf_p, counted from the start of buf
          got,       \* what was given to process_port_input, of this answer
          payload,   \* history: what the controller answers
          clean,     \* history: its first byte was read into an empty buffer
          whole,     \* history: all bytes of the last answer came and were read
          answers    \* history: how many there were

vars == <<out, raw, buf, at, got, payload, clean, whole, answers>>

INIT == 250   \* GP_INIT
END  == 245   \* GP_END
ESC  == 255   \* GP_ESC
MAIN == 127   \* GP_MAIN
CTRL == 1     \* GP_CTRL

Flags == {INIT, END, ESC}
Code == [f \in Flags |-> CASE f = INIT -> 1 [] f = END -> 2 [] f = ESC -> 3]

Payloads == UNION {[1..n -> Bytes] : n \in 1..MaxData}

\* The exclusive or of two bytes, bit by bit.
Xor(a, b) ==
    LET bit(w) == w * (((a \div w) + (b \div w)) % 2)
    IN  bit(1) + bit(2) + bit(4) + bit(8) + bit(16) + bit(32) + bit(64) + bit(128)

crc8_xor(s) ==
    LET r[i \in 0..Len(s)] == IF i = 0 THEN 0 ELSE Xor(r[i - 1], s[i]) IN r[Len(s)]

\* The bytes of s, with those in f escaped.
Escaped(s, f) ==
    LET e[i \in 0..Len(s)] ==
            IF i = 0 THEN << >>
            ELSE e[i - 1] \o (IF s[i] \in f THEN <<ESC, Code[s[i]]>> ELSE <<s[i]>>)
    IN  e[Len(s)]

\* Mutant: the end flag is not escaped.
EscapeSome(s) == Escaped(s, {INIT, ESC})

memcpy_esc(s) == Escaped(s, Flags)

-----------------------------------------------------------------------------
(* gp_send, and the controller *)

\* The check sum is that of the command, without the address.
Sent(c) == <<INIT, CTRL>> \o memcpy_esc(<<Own>> \o c \o <<crc8_xor(c)>>) \o <<END>>

\* What the check sum of an answer covers, and the check sum.
Body(p) == LET b == <<CTRL, Own>> \o p IN Append(b, crc8_xor(b))
Answered(p) == <<INIT, MAIN, 0>> \o Escaped(Body(p), Flags) \o <<END>>
Escapes(p) == Len(Escaped(Body(p), Flags)) - Len(Body(p))

-----------------------------------------------------------------------------
(* gp_receiv *)

\* Where receiv_mess.id_ctrl is in the buffer.
Start == 3

\* How much read() may put there, one byte less than fits.
Room == BufLen - 1 - at

\* read() puts n bytes into the buffer, and a zero goes behind them.
Filled(n) ==
    [i \in 0..BufLen - 1 |->
        CASE at <= i /\ i < at + n -> raw[i - at + 1]
          [] i = at + n -> 0
          [] OTHER -> buf[i]]

\* The places of GP_END in the bytes just read.
Ends(b, n) == {i \in at..at + n - 1 : b[i] = END}

\* One turn of the loop of memcpy_unesc.  The escaped byte is taken out, and
\* an unknown code ends the loop.
Unescape(m) ==
    CASE m.bad -> m
      [] ~m.bad /\ m.mem[m.from] # ESC ->
            [m EXCEPT !.mem[m.to] = m.mem[m.from], !.to = @ + 1, !.from = @ + 1]
      [] ~m.bad /\ m.mem[m.from] = ESC /\ m.mem[m.from + 1] \in 1..3 ->
            [m EXCEPT !.mem[m.to] = CHOOSE f \in Flags : Code[f] = m.mem[m.from + 1],
                      !.to = @ + 1, !.from = @ + 2, !.len = @ - 1]
      [] OTHER -> [m EXCEPT !.bad = TRUE, !.len = 0]

\* The buffer b, and behind it the memory x that no write reaches.
Memory(b, x) == [i \in 0..2 * BufLen |-> IF i < BufLen THEN b[i] ELSE x[i]]

\* It takes as many turns as there are bytes, so it goes on behind the end of
\* the frame by one byte for every escape in it.
Turns(b, n) ==
    LET turn[i \in 0..BufLen] ==
            IF i = 0
            THEN [mem |-> b, from |-> Start, to |-> Start, len |-> n, bad |-> FALSE]
            ELSE Unescape(turn[i - 1])
    IN  turn[IF n < 0 THEN 0 ELSE n]

\* Mutant: the length is that of the escaped bytes.
UnescapeLong(b, n) == [Turns(b, n) EXCEPT !.len = n]

\* memcpy_unesc over itself.
memcpy_unesc(b, n) ==
    LET m == Turns(b, n) IN IF m.bad THEN m ELSE [m EXCEPT !.mem[m.to] = 0]

\* The sum of no bytes is the byte that is not there.
Sum(m) == IF m.len <= 1 THEN m.mem[Start]
          ELSE crc8_xor([i \in 1..m.len |-> m.mem[Start + i - 1]])

Accepted(m) == Sum(m) = 0 /\ m.mem[Start + 1] = Own

\* cmd_n and what follows it, without the check sum.
Content(m) == [i \in 1..m.len - 3 |-> m.mem[Start + 1 + i]]

\* Mutant: the buffer goes on behind a frame that is refused.
RestartAccepted(m, n) == IF Accepted(m) THEN 0 ELSE at + n

\* Where the next chunk goes, behind a frame.
Restart(m, n) == 0

Read(n) ==
    LET b == Filled(n) IN
    /\ raw' = SubSeq(raw, n + 1, Len(raw))
    /\ clean' = IF Len(raw) = Len(Answered(payload)) THEN at = 0 ELSE clean
    /\ \/ /\ b[0] # INIT \/ Ends(b, n) = {}
          /\ buf' = b
          /\ at' = IF b[0] # INIT THEN at ELSE at + n
          /\ UNCHANGED got
       \/ /\ b[0] = INIT
          /\ \E e \in Ends(b, n), x \in Behind :
               /\ \A f \in Ends(b, n) : e <= f
               /\ LET m == memcpy_unesc(Memory(b, x), e - Start) IN
                  /\ buf' = [i \in 0..BufLen - 1 |-> m.mem[i]]
                  /\ at' = Restart(m, n)
                  /\ got' = IF Accepted(m) THEN Content(m) ELSE got
    /\ UNCHANGED <<out, payload, whole, answers>>

\* There is no room left: read() of 0 bytes returns 0, which closes the port,
\* and opening it discards what waits.  The buffer stays as it is.
ReadNothing ==
    /\ raw # << >> /\ Room = 0
    /\ raw' = << >> /\ clean' = FALSE /\ whole' = FALSE
    /\ UNCHANGED <<out, payload, buf, at, got, answers>>

Send(c) ==
    /\ out = << >> /\ raw = << >>
    /\ out' = Sent(c)
    /\ payload' = << >> /\ got' = << >> /\ clean' = FALSE /\ whole' = FALSE
    /\ UNCHANGED <<raw, buf, at, answers>>

\* The answer, with some noise before it.
Answer(p, noise) ==
    /\ out # << >>
    /\ answers < MaxAnswers /\ answers' = answers + 1
    /\ raw' = noise \o Answered(p) /\ payload' = p
    /\ out' = << >> /\ whole' = TRUE
    /\ UNCHANGED <<buf, at, got, clean>>

\* The rest of the answer never comes.
Cut ==
    /\ raw # << >>
    /\ raw' = << >> /\ clean' = FALSE /\ whole' = FALSE
    /\ UNCHANGED <<out, payload, buf, at, got, answers>>

Init ==
    /\ out = << >> /\ raw = << >> /\ payload = << >> /\ got = << >>
    /\ clean = FALSE /\ whole = FALSE
    /\ buf = [i \in 0..BufLen - 1 |-> 0] /\ at = 0
    /\ answers = 0

Next == \/ \E c \in Payloads : Send(c)
        \/ \E p \in Payloads : Answer(p, << >>)
        \/ \E p \in Payloads, x \in Noise : Answer(p, <<x>>)
        \/ \E n \in 1..Len(raw) : n <= Room /\ Read(n)
        \/ ReadNothing \/ Cut

Spec == Init /\ [][Next]_vars

-----------------------------------------------------------------------------
(* Properties *)

\* A controller that waits for GP_INIT and reads up to the next GP_END gets
\* the whole command, whatever bytes the command and its check sum contain.
OutFramed ==
    \A i \in DOMAIN out : /\ out[i] = INIT <=> i = 1
                          /\ out[i] = END <=> i = Len(out)

\* The bytes behind the answer and its zero that memcpy_unesc still reads, one
\* for every escape but two, all lie in the buffer, and none is a GP_ESC.
Harmless ==
    LET l == Len(Answered(payload))
    IN  \A i \in l + 1..l + Escapes(payload) - 2 : i < BufLen /\ buf[i] # ESC

\* An answer whose first byte finds the buffer empty is given on unchanged, in
\* whatever chunks its bytes come, unless it has three escapes or more and
\* earlier answers, joined or damaged, have left a GP_ESC right behind its end,
\* or the bytes read there go beyond the buffer: nothing else that was left
\* does any harm.
ReadWhole == raw = << >> /\ clean /\ Harmless => got = payload

\* The same of every answer that is read from its first byte on: it is not
\* refused with "crc8 error for %d", for its sum fits.  The code does not keep
\* this.
EveryRead == raw = << >> /\ clean => got = payload

\* When all bytes of an answer have come and were read the next one finds the
\* buffer empty, even if this one was joined to the head of another or begins
\* with noise.
Resync == raw = << >> /\ whole => at = 0
=============================================================================
