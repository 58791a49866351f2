--------------------------- MODULE GateFrameProofs ---------------------------
(***************************************************************************)
(* The frames of GateFrame, for all bytes, lengths, chunks and noise.      *)
(***************************************************************************)
EXTENDS GateFrame, SequenceTheorems, WellFoundedInduction, TLAPS

USE FrameAssumption

-----------------------------------------------------------------------------
(* Induction over the numbers, as a fact about sets of them *)

NatLess == {ss \in Nat \X Nat : ss[1] < ss[2]}

LEMMA Least ==
    ASSUME NEW T, T \subseteq Nat, T # {}
    PROVE  \E x \in T : \A y \in T : x <= y
<1>1. IsWellFoundedOn(NatLess, Nat)
  BY NatLessThanWellFounded DEF OpToRel, NatLess
<1>2. PICK x \in T : \A y \in T : <<y, x>> \notin NatLess
  BY <1>1, WFMin, Zenon
<1>3. \A y \in T : ~(y < x)
  BY <1>2 DEF NatLess
<1> QED BY <1>3

LEMMA UpTo ==
    ASSUME NEW T, NEW n \in Nat, 0 \in T,
           \A i \in 0..n - 1 : i \in T => i + 1 \in T
    PROVE  0..n \subseteq T
<1> SUFFICES ASSUME ~(0..n \subseteq T) PROVE FALSE
  OBVIOUS
<1> DEFINE B == (0..n) \ T
<1>1. PICK x \in B : \A y \in B : x <= y
  <2>1. B \subseteq Nat /\ B # {}
    OBVIOUS
  <2> HIDE DEF B
  <2> QED BY <2>1, Least
<1>2. x # 0 /\ x - 1 \in 0..n - 1 /\ x - 1 \in T
  BY <1>1
<1> QED BY <1>1, <1>2

-----------------------------------------------------------------------------
(* memcpy_esc *)

Byte == 0..255

Piece(b, f) == IF b \in f THEN <<ESC, Code[b]>> ELSE <<b>>

\* The escaped bytes contain no flag of a frame's beginning or end.
NoEnd(q) == \A k \in 1..Len(q) : q[k] # INIT /\ q[k] # END

LEMMA PieceFacts ==
    ASSUME NEW b \in Byte, NEW f, f \subseteq Flags
    PROVE  /\ Piece(b, f) \in Seq(Byte)
           /\ Len(Piece(b, f)) = IF b \in f THEN 2 ELSE 1
           /\ Piece(b, f)[1] = IF b \in f THEN ESC ELSE b
           /\ b \in f => Piece(b, f)[2] = Code[b] /\ Code[b] \in 1..3
           /\ f = Flags => NoEnd(Piece(b, f))
<1>1. CASE b \in f
  <2>1. Code[b] \in 1..3
    BY <1>1 DEF Code, Flags, ESC, INIT, END
  <2> DEFINE c == Code[b]
  <2>2. Piece(b, f) = <<ESC, c>>
    BY <1>1 DEF Piece
  <2> HIDE DEF c
  <2>3. /\ <<ESC, c>> \in Seq(Byte) /\ Len(<<ESC, c>>) = 2
        /\ <<ESC, c>>[1] = ESC /\ <<ESC, c>>[2] = c
    BY <2>1 DEF Byte, ESC, c
  <2>4. NoEnd(<<ESC, c>>)
    BY <2>1, <2>3 DEF NoEnd, ESC, INIT, END, c
  <2> QED BY <1>1, <2>1, <2>2, <2>3, <2>4 DEF c
<1>2. CASE b \notin f
  <2>1. Piece(b, f) = <<b>>
    BY <1>2 DEF Piece
  <2>2. <<b>> \in Seq(Byte) /\ Len(<<b>>) = 1 /\ <<b>>[1] = b
    OBVIOUS
  <2>3. f = Flags => NoEnd(<<b>>)
    BY <1>2, <2>2 DEF NoEnd, Flags
  <2> QED BY <1>2, <2>1, <2>2, <2>3
<1> QED BY <1>1, <1>2

\* e are the bytes escaped so far, after each of the first n.
Escaping(e, n, s, f) ==
    e = [i \in 0..n |-> IF i = 0 THEN << >> ELSE e[i - 1] \o Piece(s[i], f)]

LEMMA EscapedTurns ==
    ASSUME NEW s \in Seq(Byte), NEW f
    PROVE  \E e : Escaping(e, Len(s), s, f) /\ Escaped(s, f) = e[Len(s)]
<1> DEFINE T == {n \in 0..Len(s) : \E e : Escaping(e, n, s, f)}
<1>0. Len(s) \in Nat
  OBVIOUS
<1>1. 0 \in T
  <2> DEFINE e == [i \in 0..0 |-> << >>]
  <2>1. Escaping(e, 0, s, f)
    BY DEF Escaping
  <2> QED BY <1>0, <2>1
<1>2. ASSUME NEW n \in 0..Len(s) - 1, n \in T
      PROVE  n + 1 \in T
  <2>1. PICK e : Escaping(e, n, s, f)
    BY <1>2
  <2> DEFINE g == [i \in 0..n + 1 |->
                      IF i = n + 1 THEN e[n] \o Piece(s[n + 1], f) ELSE e[i]]
             h == [i \in 0..n + 1 |-> IF i = 0 THEN << >> ELSE g[i - 1] \o Piece(s[i], f)]
  <2>2. ASSUME NEW i \in 0..n + 1 PROVE g[i] = h[i]
    <3>1. CASE i = n + 1
      <4>1. n \in 0..n + 1 /\ n # n + 1 /\ i - 1 = n /\ i # 0
        BY <3>1
      <4>2. g[n] = e[n]
        BY <4>1
      <4>3. h[i] = g[n] \o Piece(s[n + 1], f)
        BY <3>1, <4>1
      <4>4. g[i] = e[n] \o Piece(s[n + 1], f)
        BY <3>1
      <4> QED BY <4>2, <4>3, <4>4
    <3>2. CASE i # n + 1
      <4>1. i \in 0..n /\ g[i] = e[i]
        BY <3>2
      <4>2. e[i] = IF i = 0 THEN << >> ELSE e[i - 1] \o Piece(s[i], f)
        BY <2>1, <4>1 DEF Escaping
      <4>3. CASE i = 0
        BY <4>1, <4>2, <4>3
      <4>4. CASE i # 0
        <5>1. g[i - 1] = e[i - 1]
          BY <4>1, <4>4
        <5> QED BY <4>1, <4>2, <4>4, <5>1
      <4> QED BY <4>3, <4>4
    <3> QED BY <3>1, <3>2
  <2>3. g = h
    <3>1. g = [i \in 0..n + 1 |-> g[i]] /\ h = [i \in 0..n + 1 |-> h[i]]
      OBVIOUS
    <3> HIDE DEF g, h
    <3> QED BY <2>2, <3>1, Zenon
  <2>4. Escaping(g, n + 1, s, f)
    BY <2>3 DEF Escaping
  <2>5. n + 1 \in 0..Len(s)
    BY <1>0
  <2> HIDE DEF g
  <2> QED BY <2>4, <2>5
<1>3. Len(s) \in T
  <2> HIDE DEF T
  <2>1. 0..Len(s) \subseteq T
    BY <1>0, <1>1, <1>2, UpTo
  <2> QED BY <1>0, <2>1
<1>4. \E e : Escaping(e, Len(s), s, f)
  BY <1>3
<1> DEFINE e == CHOOSE e : Escaping(e, Len(s), s, f)
<1>5. Escaping(e, Len(s), s, f)
  BY <1>4, Zenon
<1>6. Escaped(s, f) = e[Len(s)]
  BY Zenon DEF Escaped, Escaping, Piece
<1> QED BY <1>5, <1>6

\* What one more byte adds.
LEMMA EscapedStep ==
    ASSUME NEW s \in Seq(Byte), NEW f, f \subseteq Flags, NEW e, Escaping(e, Len(s), s, f)
    PROVE  /\ e[0] = << >>
           /\ \A i \in 0..Len(s) : e[i] \in Seq(Byte)
           /\ \A i \in 0..Len(s) - 1 : e[i + 1] = e[i] \o Piece(s[i + 1], f)
<1>1. e[0] = << >>
  BY DEF Escaping
<1>2. \A i \in 0..Len(s) - 1 : e[i + 1] = e[i] \o Piece(s[i + 1], f)
  <2> SUFFICES ASSUME NEW i \in 0..Len(s) - 1
               PROVE  e[i + 1] = e[i] \o Piece(s[i + 1], f)
    OBVIOUS
  <2> DEFINE k == i + 1
  <2>1. Len(s) \in Nat /\ k \in 0..Len(s) /\ k # 0 /\ k - 1 = i
    OBVIOUS
  <2> HIDE DEF k
  <2>2. e[k] = e[k - 1] \o Piece(s[k], f)
    BY <2>1 DEF Escaping
  <2> QED BY <2>1, <2>2 DEF k
<1>3. \A b \in Byte : Piece(b, f) \in Seq(Byte)
  BY PieceFacts
<1>4. 0..Len(s) \subseteq {i \in 0..Len(s) : e[i] \in Seq(Byte)}
  <2> DEFINE T == {i \in 0..Len(s) : e[i] \in Seq(Byte)}
  <2>1. 0 \in T
    <3>1. << >> \in Seq(Byte) /\ 0 \in 0..Len(s)
      OBVIOUS
    <3> QED BY <1>1, <3>1
  <2>2. ASSUME NEW i \in 0..Len(s) - 1, i \in T
        PROVE  i + 1 \in T
    <3>1. i + 1 \in 0..Len(s) /\ s[i + 1] \in Byte
      OBVIOUS
    <3>2. e[i] \in Seq(Byte) /\ Piece(s[i + 1], f) \in Seq(Byte)
      BY <1>3, <2>2, <3>1
    <3>3. e[i] \o Piece(s[i + 1], f) \in Seq(Byte)
      BY <3>2, ConcatProperties
    <3> QED BY <1>2, <3>1, <3>3
  <2>3. Len(s) \in Nat
    OBVIOUS
  <2> HIDE DEF T
  <2>4. 0..Len(s) \subseteq T
    BY <2>1, <2>2, <2>3, UpTo
  <2> QED BY <2>4 DEF T
<1> QED BY <1>1, <1>2, <1>4

\* memcpy_esc lets no flag of a frame's beginning or end through.
LEMMA EscapedNoEnd ==
    ASSUME NEW s \in Seq(Byte)
    PROVE  Escaped(s, Flags) \in Seq(Byte) /\ NoEnd(Escaped(s, Flags))
<1>1. PICK e : Escaping(e, Len(s), s, Flags) /\ Escaped(s, Flags) = e[Len(s)]
  BY EscapedTurns
<1>2. /\ e[0] = << >>
      /\ \A i \in 0..Len(s) : e[i] \in Seq(Byte)
      /\ \A i \in 0..Len(s) - 1 : e[i + 1] = e[i] \o Piece(s[i + 1], Flags)
  BY <1>1, EscapedStep
<1> DEFINE T == {i \in 0..Len(s) : NoEnd(e[i])}
<1>3. 0 \in T
  BY <1>2 DEF NoEnd
<1>4. ASSUME NEW i \in 0..Len(s) - 1, i \in T
      PROVE  i + 1 \in T
  <2> DEFINE p == e[i]
             r == Piece(s[i + 1], Flags)
  <2>1. s[i + 1] \in Byte /\ p \in Seq(Byte) /\ NoEnd(p)
    BY <1>2, <1>4
  <2>2. r \in Seq(Byte) /\ NoEnd(r)
    BY <2>1, PieceFacts
  <2>3. NoEnd(p \o r)
    <3> DEFINE u == p \o r
    <3> HIDE DEF p, r
    <3>1. /\ Len(u) = Len(p) + Len(r) /\ Len(p) \in Nat /\ Len(r) \in Nat
          /\ \A k \in 1..Len(p) + Len(r) :
                u[k] = IF k <= Len(p) THEN p[k] ELSE r[k - Len(p)]
      BY <2>1, <2>2, ConcatProperties
    <3> HIDE DEF u
    <3>2. ASSUME NEW k \in 1..Len(u) PROVE u[k] # INIT /\ u[k] # END
      <4>1. CASE k <= Len(p)
        <5>1. k \in 1..Len(p) /\ u[k] = p[k]
          BY <3>1, <4>1
        <5> QED BY <2>1, <5>1 DEF NoEnd
      <4>2. CASE ~(k <= Len(p))
        <5>1. k - Len(p) \in 1..Len(r) /\ u[k] = r[k - Len(p)]
          BY <3>1, <4>2
        <5> QED BY <2>2, <5>1 DEF NoEnd
      <4> QED BY <4>1, <4>2
    <3>3. NoEnd(u)
      BY <3>2 DEF NoEnd
    <3> QED BY <3>3 DEF u
  <2>4. e[i + 1] = p \o r
    BY <1>2, Zenon
  <2>5. i + 1 \in 0..Len(s)
    OBVIOUS
  <2> HIDE DEF p, r
  <2> QED BY <2>3, <2>4, <2>5
<1>5. Len(s) \in Nat
  OBVIOUS
<1>6. 0..Len(s) \subseteq T
  <2> HIDE DEF T
  <2> QED BY <1>3, <1>4, <1>5, UpTo
<1>7. NoEnd(e[Len(s)])
  BY <1>5, <1>6
<1> QED BY <1>1, <1>2, <1>5, <1>7

\* Where the i-th byte ends among the escaped ones, and what stands there.
LEMMA Places ==
    ASSUME NEW s \in Seq(Byte)
    PROVE  LET q == Escaped(s, Flags) IN
           \E pos \in [0..Len(s) -> 0..Len(q)] :
              /\ pos[0] = 0 /\ pos[Len(s)] = Len(q)
              /\ \A i \in 1..Len(s) :
                    /\ pos[i] = pos[i - 1] + (IF s[i] \in Flags THEN 2 ELSE 1)
                    /\ q[pos[i - 1] + 1] = IF s[i] \in Flags THEN ESC ELSE s[i]
                    /\ s[i] \in Flags => q[pos[i - 1] + 2] = Code[s[i]]
<1> DEFINE q == Escaped(s, Flags)
<1>1. PICK e : Escaping(e, Len(s), s, Flags) /\ q = e[Len(s)]
  BY EscapedTurns
<1>2. /\ e[0] = << >>
      /\ \A i \in 0..Len(s) : e[i] \in Seq(Byte)
      /\ \A i \in 0..Len(s) - 1 : e[i + 1] = e[i] \o Piece(s[i + 1], Flags)
  BY <1>1, EscapedStep
<1>3. Len(s) \in Nat /\ \A i \in 1..Len(s) : s[i] \in Byte
  OBVIOUS
<1> HIDE DEF q
<1>4. ASSUME NEW i \in 0..Len(s) - 1
      PROVE  /\ Len(e[i]) \in Nat
             /\ Len(e[i + 1]) = Len(e[i]) + Len(Piece(s[i + 1], Flags))
             /\ Len(Piece(s[i + 1], Flags)) \in {1, 2}
             /\ \A k \in 1..Len(e[i]) : e[i + 1][k] = e[i][k]
             /\ \A k \in 1..Len(Piece(s[i + 1], Flags)) :
                   e[i + 1][Len(e[i]) + k] = Piece(s[i + 1], Flags)[k]
  <2> DEFINE p == e[i]
             r == Piece(s[i + 1], Flags)
             u == p \o r
  <2>1. s[i + 1] \in Byte
    BY <1>3
  <2>0. r \in Seq(Byte) /\ Len(r) \in {1, 2}
    <3>1. r \in Seq(Byte) /\ Len(r) = IF s[i + 1] \in Flags THEN 2 ELSE 1
      <4> DEFINE b == s[i + 1]
      <4>1. b \in Byte /\ Flags \subseteq Flags
        BY <2>1
      <4> HIDE DEF b
      <4>2. /\ Piece(b, Flags) \in Seq(Byte)
            /\ Len(Piece(b, Flags)) = IF b \in Flags THEN 2 ELSE 1
        BY <4>1, PieceFacts
      <4> QED BY <4>2 DEF b
    <3> HIDE DEF r
    <3> QED BY <3>1
  <2>2. r \in Seq(Byte) /\ Len(r) \in {1, 2} /\ p \in Seq(Byte) /\ e[i + 1] = u
    <3>1. i \in 0..Len(s)
      BY <1>3
    <3>2. p \in Seq(Byte) /\ e[i + 1] = u
      BY <1>2, <3>1, Zenon
    <3> QED BY <2>0, <3>2
  <2> HIDE DEF p, r
  <2>3. /\ Len(u) = Len(p) + Len(r) /\ Len(p) \in Nat /\ Len(r) \in Nat
        /\ \A k \in 1..Len(p) + Len(r) :
              u[k] = IF k <= Len(p) THEN p[k] ELSE r[k - Len(p)]
    BY <2>2, ConcatProperties
  <2> HIDE DEF u
  <2>4. ASSUME NEW k \in 1..Len(r) PROVE u[Len(p) + k] = r[k]
    <3>1. /\ Len(p) + k \in 1..Len(p) + Len(r) /\ ~(Len(p) + k <= Len(p))
          /\ Len(p) + k - Len(p) = k
      BY <2>3
    <3> QED BY <2>3, <3>1
  <2>5. /\ Len(p) \in Nat /\ Len(u) = Len(p) + Len(r) /\ Len(r) \in {1, 2}
        /\ \A k \in 1..Len(p) : u[k] = p[k]
        /\ \A k \in 1..Len(r) : u[Len(p) + k] = r[k]
    BY <2>2, <2>3, <2>4
  <2>6. /\ Len(p) \in Nat /\ Len(e[i + 1]) = Len(p) + Len(r) /\ Len(r) \in {1, 2}
        /\ \A k \in 1..Len(p) : e[i + 1][k] = p[k]
        /\ \A k \in 1..Len(r) : e[i + 1][Len(p) + k] = r[k]
    BY <2>2, <2>5
  <2> QED BY <2>6 DEF p, r
<1>5. ASSUME NEW i \in 0..Len(s)
      PROVE  /\ Len(e[i]) \in 0..Len(q)
             /\ \A k \in 1..Len(e[i]) : q[k] = e[i][k]
  <2> DEFINE T == {j \in 0..Len(s) - i : /\ Len(e[i]) <= Len(e[i + j])
                                         /\ \A k \in 1..Len(e[i]) : e[i + j][k] = e[i][k]}
  <2>1. Len(e[i]) \in Nat /\ Len(s) - i \in Nat
    BY <1>2, <1>3
  <2>2. 0 \in T
    <3>1. i + 0 = i /\ 0 \in 0..Len(s) - i
      BY <2>1
    <3> QED BY <2>1, <3>1
  <2>3. ASSUME NEW j \in 0..Len(s) - i - 1, j \in T PROVE j + 1 \in T
    <3> DEFINE n == i + j
    <3>1. n \in 0..Len(s) - 1 /\ i + (j + 1) = n + 1 /\ j + 1 \in 0..Len(s) - i
      BY <1>3
    <3>2. Len(e[i]) <= Len(e[n]) /\ \A k \in 1..Len(e[i]) : e[n][k] = e[i][k]
      BY <2>3
    <3> HIDE DEF n
    <3>3. /\ Len(e[n]) \in Nat /\ Len(e[n + 1]) >= Len(e[n])
          /\ \A k \in 1..Len(e[n]) : e[n + 1][k] = e[n][k]
      <4>1. /\ Len(e[n]) \in Nat
            /\ Len(e[n + 1]) = Len(e[n]) + Len(Piece(s[n + 1], Flags))
            /\ Len(Piece(s[n + 1], Flags)) \in {1, 2}
            /\ \A k \in 1..Len(e[n]) : e[n + 1][k] = e[n][k]
        <5>1. n \in 0..Len(s) - 1
          BY <3>1
        <5> QED BY <1>4, <5>1, Zenon
      <4> DEFINE l == Len(e[n])
                 d == Len(Piece(s[n + 1], Flags))
                 m == Len(e[n + 1])
      <4>2. l \in Nat /\ m = l + d /\ d \in {1, 2}
        BY <4>1, Zenon
      <4> HIDE DEF l, d, m
      <4>3. m >= l
        BY <4>2
      <4> QED BY <4>1, <4>3, Zenon DEF l, m
    <3>4. /\ Len(e[i]) <= Len(e[n + 1])
          /\ \A k \in 1..Len(e[i]) : e[n + 1][k] = e[i][k]
      BY <2>1, <3>2, <3>3
    <3> QED BY <3>1, <3>4
  <2>4. Len(s) - i \in T
    <3> HIDE DEF T
    <3> DEFINE n == Len(s) - i
    <3>1. n \in Nat /\ n \in 0..n
      BY <2>1
    <3> HIDE DEF n
    <3>2. \A j \in 0..n - 1 : j \in T => j + 1 \in T
      BY <2>3 DEF n
    <3>3. 0..n \subseteq T
      BY <2>2, <3>1, <3>2, UpTo
    <3> QED BY <3>1, <3>3 DEF n
  <2>5. i + (Len(s) - i) = Len(s)
    BY <1>3
  <2>6. Len(e[i]) <= Len(e[Len(s)]) /\ \A k \in 1..Len(e[i]) : e[Len(s)][k] = e[i][k]
    BY <2>4, <2>5
  <2>7. Len(e[Len(s)]) \in Nat
    BY <1>2, <1>3
  <2> QED BY <1>1, <2>1, <2>6, <2>7
<1> DEFINE pos == [i \in 0..Len(s) |-> Len(e[i])]
<1>6. pos \in [0..Len(s) -> 0..Len(q)] /\ pos[0] = 0 /\ pos[Len(s)] = Len(q)
  BY <1>1, <1>2, <1>3, <1>5
<1>7. ASSUME NEW i \in 1..Len(s)
      PROVE  /\ pos[i] = pos[i - 1] + (IF s[i] \in Flags THEN 2 ELSE 1)
             /\ q[pos[i - 1] + 1] = IF s[i] \in Flags THEN ESC ELSE s[i]
             /\ s[i] \in Flags => q[pos[i - 1] + 2] = Code[s[i]]
  <2> DEFINE j == i - 1
             r == Piece(s[i], Flags)
  <2>1. j \in 0..Len(s) - 1 /\ j \in 0..Len(s) /\ i \in 0..Len(s) /\ j + 1 = i /\ s[i] \in Byte
    BY <1>3
  <2>2. pos[i] = Len(e[i]) /\ pos[j] = Len(e[j])
    BY <2>1
  <2>3. /\ Len(r) = IF s[i] \in Flags THEN 2 ELSE 1
        /\ r[1] = IF s[i] \in Flags THEN ESC ELSE s[i]
        /\ s[i] \in Flags => r[2] = Code[s[i]]
    <3>1. s[i] \in Byte /\ Flags \subseteq Flags
      BY <2>1
    <3> DEFINE b == s[i]
    <3>3. b \in Byte /\ Flags \subseteq Flags
      BY <3>1
    <3> HIDE DEF b
    <3>2. /\ Len(Piece(b, Flags)) = IF b \in Flags THEN 2 ELSE 1
          /\ Piece(b, Flags)[1] = IF b \in Flags THEN ESC ELSE b
          /\ b \in Flags => Piece(b, Flags)[2] = Code[b]
      BY <3>3, PieceFacts
    <3> QED BY <3>2 DEF b
  <2> HIDE DEF j, r, pos
  <2>4. /\ Len(e[j]) \in Nat /\ Len(e[i]) = Len(e[j]) + Len(r)
        /\ \A k \in 1..Len(r) : e[i][Len(e[j]) + k] = r[k]
    BY <1>4, <2>1 DEF r
  <2>5. \A k \in 1..Len(e[i]) : q[k] = e[i][k]
    BY <1>5, <2>1
  <2>6. ASSUME NEW k \in 1..Len(r) PROVE q[Len(e[j]) + k] = r[k]
    <3>1. Len(r) \in {1, 2}
      BY <2>3
    <3>2. Len(e[j]) + k \in 1..Len(e[i])
      BY <2>4, <3>1
    <3> QED BY <2>4, <2>5, <3>2
  <2> QED BY <2>2, <2>3, <2>4, <2>6 DEF j
<1> HIDE DEF pos
<1>8. \E x \in [0..Len(s) -> 0..Len(q)] :
         /\ x[0] = 0 /\ x[Len(s)] = Len(q)
         /\ \A i \in 1..Len(s) :
               /\ x[i] = x[i - 1] + (IF s[i] \in Flags THEN 2 ELSE 1)
               /\ q[x[i - 1] + 1] = IF s[i] \in Flags THEN ESC ELSE s[i]
               /\ s[i] \in Flags => q[x[i - 1] + 2] = Code[s[i]]
  BY <1>6, <1>7
<1> QED BY <1>8 DEF q

-----------------------------------------------------------------------------
(* crc8_xor *)

LEMMA XorFacts ==
    ASSUME NEW a \in Byte, NEW b \in Byte
    PROVE  Xor(a, b) \in Byte /\ Xor(a, a) = 0
<1>1. \A w \in {1, 2, 4, 8, 16, 32, 64, 128} :
         w * (((a \div w) + (b \div w)) % 2) \in {0, w}
  BY DEF Byte
<1>2. \A w \in {1, 2, 4, 8, 16, 32, 64, 128} :
         w * (((a \div w) + (a \div w)) % 2) = 0
  BY DEF Byte
<1>3. Xor(a, a) = 0
  BY <1>2 DEF Xor
<1>4. Xor(a, b) \in Byte
  BY <1>1 DEF Xor, Byte
<1> QED BY <1>3, <1>4

\* r are the sums of the first bytes of s, for up to n of them.
Summing(r, n, s) == r = [i \in 0..n |-> IF i = 0 THEN 0 ELSE Xor(r[i - 1], s[i])]

LEMMA SumTurns ==
    ASSUME NEW s \in Seq(Byte)
    PROVE  \E r : Summing(r, Len(s), s) /\ crc8_xor(s) = r[Len(s)]
<1> DEFINE T == {n \in 0..Len(s) : \E r : Summing(r, n, s)}
<1>0. Len(s) \in Nat
  OBVIOUS
<1>1. 0 \in T
  <2> DEFINE r == [i \in 0..0 |-> 0]
  <2>1. Summing(r, 0, s)
    BY DEF Summing
  <2> QED BY <1>0, <2>1
<1>2. ASSUME NEW n \in 0..Len(s) - 1, n \in T
      PROVE  n + 1 \in T
  <2>1. PICK r : Summing(r, n, s)
    BY <1>2
  <2> DEFINE g == [i \in 0..n + 1 |-> IF i = n + 1 THEN Xor(r[n], s[n + 1]) ELSE r[i]]
             h == [i \in 0..n + 1 |-> IF i = 0 THEN 0 ELSE Xor(g[i - 1], s[i])]
  <2>2. ASSUME NEW i \in 0..n + 1 PROVE g[i] = h[i]
    <3>1. CASE i = n + 1
      <4>1. n \in 0..n + 1 /\ n # n + 1 /\ i - 1 = n /\ i # 0
        BY <3>1
      <4>2. g[n] = r[n]
        BY <4>1
      <4>3. h[i] = Xor(g[n], s[n + 1])
        BY <3>1, <4>1
      <4>4. g[i] = Xor(r[n], s[n + 1])
        BY <3>1
      <4> QED BY <4>2, <4>3, <4>4
    <3>2. CASE i # n + 1
      <4>1. i \in 0..n /\ g[i] = r[i]
        BY <3>2
      <4>2. r[i] = IF i = 0 THEN 0 ELSE Xor(r[i - 1], s[i])
        BY <2>1, <4>1 DEF Summing
      <4>3. CASE i = 0
        BY <4>1, <4>2, <4>3
      <4>4. CASE i # 0
        <5>1. g[i - 1] = r[i - 1]
          BY <4>1, <4>4
        <5> QED BY <4>1, <4>2, <4>4, <5>1
      <4> QED BY <4>3, <4>4
    <3> QED BY <3>1, <3>2
  <2>3. g = h
    <3>1. g = [i \in 0..n + 1 |-> g[i]] /\ h = [i \in 0..n + 1 |-> h[i]]
      OBVIOUS
    <3> HIDE DEF g, h
    <3> QED BY <2>2, <3>1, Zenon
  <2>4. Summing(g, n + 1, s)
    BY <2>3 DEF Summing
  <2>5. n + 1 \in 0..Len(s)
    BY <1>0
  <2> HIDE DEF g
  <2> QED BY <2>4, <2>5
<1>3. Len(s) \in T
  <2> HIDE DEF T
  <2>1. 0..Len(s) \subseteq T
    BY <1>0, <1>1, <1>2, UpTo
  <2> QED BY <1>0, <2>1
<1>4. \E r : Summing(r, Len(s), s)
  BY <1>3
<1> DEFINE r == CHOOSE r : Summing(r, Len(s), s)
<1>5. Summing(r, Len(s), s)
  BY <1>4, Zenon
<1>6. crc8_xor(s) = r[Len(s)]
  BY Zenon DEF crc8_xor, Summing
<1> QED BY <1>5, <1>6

LEMMA SumStep ==
    ASSUME NEW s \in Seq(Byte), NEW r, Summing(r, Len(s), s)
    PROVE  /\ r[0] = 0
           /\ \A i \in 0..Len(s) - 1 : r[i + 1] = Xor(r[i], s[i + 1])
           /\ \A i \in 0..Len(s) : r[i] \in Byte
<1>0. Len(s) \in Nat /\ \A i \in 1..Len(s) : s[i] \in Byte
  OBVIOUS
<1>1. r[0] = 0
  BY <1>0 DEF Summing
<1>2. ASSUME NEW i \in 0..Len(s) - 1 PROVE r[i + 1] = Xor(r[i], s[i + 1])
  <2> DEFINE k == i + 1
  <2>1. k \in 0..Len(s) /\ k # 0 /\ k - 1 = i
    BY <1>0
  <2> HIDE DEF k
  <2>2. r[k] = Xor(r[k - 1], s[k])
    BY <2>1 DEF Summing
  <2> QED BY <2>1, <2>2 DEF k
<1> DEFINE T == {i \in 0..Len(s) : r[i] \in Byte}
<1>3. 0 \in T
  BY <1>0, <1>1 DEF Byte
<1>4. ASSUME NEW i \in 0..Len(s) - 1, i \in T PROVE i + 1 \in T
  <2>1. r[i] \in Byte /\ s[i + 1] \in Byte /\ i + 1 \in 0..Len(s)
    BY <1>0, <1>4
  <2>2. Xor(r[i], s[i + 1]) \in Byte
    BY <2>1, XorFacts
  <2> QED BY <1>2, <2>1, <2>2
<1>5. 0..Len(s) \subseteq T
  <2> HIDE DEF T
  <2> QED BY <1>0, <1>3, <1>4, UpTo
<1> QED BY <1>1, <1>2, <1>5

\* The sum over bytes and their sum is zero: what gp_receiv checks.
LEMMA SumFits ==
    ASSUME NEW s \in Seq(Byte)
    PROVE  crc8_xor(s) \in Byte /\ crc8_xor(Append(s, crc8_xor(s))) = 0
<1>0. Len(s) \in Nat /\ Len(s) \in 0..Len(s)
  OBVIOUS
<1>1. PICK r : Summing(r, Len(s), s) /\ crc8_xor(s) = r[Len(s)]
  BY SumTurns
<1>2. /\ r[0] = 0
      /\ \A i \in 0..Len(s) - 1 : r[i + 1] = Xor(r[i], s[i + 1])
      /\ \A i \in 0..Len(s) : r[i] \in Byte
  BY <1>1, SumStep
<1> DEFINE x == crc8_xor(s)
           t == Append(s, x)
<1>3. x \in Byte
  BY <1>0, <1>1, <1>2
<1> HIDE DEF x
<1>4. /\ t \in Seq(Byte) /\ Len(t) = Len(s) + 1 /\ t[Len(s) + 1] = x
      /\ \A i \in 1..Len(s) : t[i] = s[i]
  BY <1>3, AppendProperties
<1> HIDE DEF t
<1>5. PICK u : Summing(u, Len(t), t) /\ crc8_xor(t) = u[Len(t)]
  BY <1>4, SumTurns
<1>6. /\ u[0] = 0
      /\ \A i \in 0..Len(t) - 1 : u[i + 1] = Xor(u[i], t[i + 1])
  BY <1>4, <1>5, SumStep
<1> DEFINE T == {i \in 0..Len(s) : u[i] = r[i]}
<1>7. 0 \in T
  BY <1>0, <1>2, <1>6
<1>8. ASSUME NEW i \in 0..Len(s) - 1, i \in T PROVE i + 1 \in T
  <2>1. u[i] = r[i] /\ i \in 0..Len(t) - 1 /\ t[i + 1] = s[i + 1] /\ i + 1 \in 0..Len(s)
    BY <1>0, <1>4, <1>8
  <2>2. u[i + 1] = Xor(u[i], t[i + 1]) /\ r[i + 1] = Xor(r[i], s[i + 1])
    BY <1>2, <1>6, <2>1
  <2> QED BY <2>1, <2>2
<1>9. Len(s) \in T
  <2> HIDE DEF T
  <2>1. 0..Len(s) \subseteq T
    BY <1>0, <1>7, <1>8, UpTo
  <2> QED BY <1>0, <2>1
<1>10. u[Len(s) + 1] = Xor(x, x)
  <2>1. u[Len(s)] = x
    BY <1>1, <1>9 DEF x
  <2>2. Len(s) \in 0..Len(t) - 1
    BY <1>0, <1>4
  <2>3. u[Len(s) + 1] = Xor(u[Len(s)], t[Len(s) + 1])
    BY <1>6, <2>2
  <2> QED BY <1>4, <2>1, <2>3
<1>11. crc8_xor(t) = 0
  BY <1>3, <1>4, <1>5, <1>10, XorFacts
<1> QED BY <1>3, <1>11 DEF x, t

-----------------------------------------------------------------------------
(* The answer *)

LEMMA BodyFacts ==
    ASSUME NEW p \in Payloads
    PROVE  /\ p \in Seq(Byte) /\ Len(p) \in Nat \ {0}
           /\ Body(p) \in Seq(Byte) /\ Len(Body(p)) = Len(p) + 3
           /\ Body(p)[1] = CTRL /\ Body(p)[2] = Own
           /\ \A i \in 1..Len(p) : Body(p)[i + 2] = p[i]
           /\ crc8_xor(Body(p)) = 0
<1>1. p \in Seq(Byte) /\ Len(p) \in Nat \ {0}
  <2>1. PICK n \in 1..MaxData : p \in [1..n -> Bytes]
    BY DEF Payloads
  <2>2. n \in Nat \ {0} /\ Bytes \subseteq Byte
    BY <2>1 DEF FrameAssumption, Byte
  <2>3. p \in [1..n -> Byte]
    BY <2>1, <2>2
  <2> QED BY <2>2, <2>3
<1> DEFINE c == <<CTRL, Own>>
           b == c \o p
           x == crc8_xor(b)
<1>2. c \in Seq(Byte) /\ Len(c) = 2 /\ c[1] = CTRL /\ c[2] = Own
  BY DEF Byte, CTRL
<1> HIDE DEF c
<1>3. /\ b \in Seq(Byte) /\ Len(b) = Len(p) + 2
      /\ \A i \in 1..Len(p) + 2 : b[i] = IF i <= 2 THEN c[i] ELSE p[i - 2]
  <2>1. /\ b \in Seq(Byte) /\ Len(b) = Len(c) + Len(p)
        /\ \A i \in 1..Len(c) + Len(p) :
              b[i] = IF i <= Len(c) THEN c[i] ELSE p[i - Len(c)]
    BY <1>1, <1>2, ConcatProperties
  <2> HIDE DEF b
  <2> QED BY <1>1, <1>2, <2>1
<1>4. b[1] = CTRL /\ b[2] = Own /\ \A i \in 1..Len(p) : b[i + 2] = p[i]
  <2>1. b[1] = CTRL /\ b[2] = Own
    BY <1>1, <1>2, <1>3
  <2>2. ASSUME NEW i \in 1..Len(p) PROVE b[i + 2] = p[i]
    <3>1. i + 2 \in 1..Len(p) + 2 /\ ~(i + 2 <= 2) /\ i + 2 - 2 = i
      BY <1>1
    <3> QED BY <1>3, <3>1
  <2> QED BY <2>1, <2>2
<1> HIDE DEF b
<1>5. x \in Byte /\ crc8_xor(Append(b, x)) = 0
  BY <1>3, SumFits
<1> HIDE DEF x
<1> DEFINE y == Append(b, x)
<1>6. /\ y \in Seq(Byte) /\ Len(y) = Len(b) + 1
      /\ \A i \in 1..Len(b) : y[i] = b[i]
  BY <1>3, <1>5, AppendProperties
<1>7. y = Body(p)
  BY DEF Body, y, x, b, c
<1> HIDE DEF y
<1>8. /\ y \in Seq(Byte) /\ Len(y) = Len(p) + 3 /\ y[1] = CTRL /\ y[2] = Own
      /\ \A i \in 1..Len(p) : y[i + 2] = p[i]
  BY <1>1, <1>3, <1>4, <1>6
<1>9. crc8_xor(y) = 0
  BY <1>5 DEF y
<1> QED BY <1>1, <1>7, <1>8, <1>9

\* Its body, escaped, between a head of three bytes and GP_END.
LEMMA AnsweredFacts ==
    ASSUME NEW p \in Payloads
    PROVE  LET q == Escaped(Body(p), Flags)
               w == Answered(p)
           IN  /\ q \in Seq(Byte) /\ Len(q) \in Nat
               /\ w \in Seq(Byte) /\ Len(w) = Len(q) + 4
               /\ w[1] = INIT /\ w[Len(w)] = END
               /\ \A i \in 1..Len(q) : w[i + 3] = q[i]
               /\ \A i \in 1..Len(w) - 1 : w[i] # END
<1> DEFINE h == <<INIT, MAIN, 0>>
           q == Escaped(Body(p), Flags)
           g == h \o q
           t == <<END>>
           w == g \o t
<1>1. q \in Seq(Byte) /\ NoEnd(q)
  BY BodyFacts, EscapedNoEnd
<1>2. /\ h \in Seq(Byte) /\ Len(h) = 3 /\ h[1] = INIT /\ h[2] = MAIN /\ h[3] = 0
      /\ t \in Seq(Byte) /\ Len(t) = 1 /\ t[1] = END
  BY DEF Byte, INIT, MAIN, END
<1>3. w = Answered(p)
  BY DEF Answered
<1> HIDE DEF h, q, t
<1>4. /\ g \in Seq(Byte) /\ Len(g) = Len(q) + 3 /\ Len(q) \in Nat
      /\ \A i \in 1..3 + Len(q) : g[i] = IF i <= 3 THEN h[i] ELSE q[i - 3]
  <2>1. q \in Seq(Byte) /\ h \in Seq(Byte) /\ Len(q) \in Nat
    BY <1>1, <1>2
  <2>2. /\ g \in Seq(Byte) /\ Len(g) = Len(h) + Len(q)
        /\ \A i \in 1..Len(h) + Len(q) :
              g[i] = IF i <= Len(h) THEN h[i] ELSE q[i - Len(h)]
    BY <2>1, ConcatProperties
  <2> HIDE DEF g
  <2> QED BY <1>2, <2>1, <2>2
<1> HIDE DEF g
<1>5. /\ w \in Seq(Byte) /\ Len(w) = Len(q) + 4
      /\ \A i \in 1..Len(g) + 1 : w[i] = IF i <= Len(g) THEN g[i] ELSE t[i - Len(g)]
  <2>1. /\ w \in Seq(Byte) /\ Len(w) = Len(g) + Len(t)
        /\ \A i \in 1..Len(g) + Len(t) :
              w[i] = IF i <= Len(g) THEN g[i] ELSE t[i - Len(g)]
    BY <1>2, <1>4, ConcatProperties
  <2> HIDE DEF w
  <2> QED BY <1>2, <1>4, <2>1
<1> HIDE DEF w
<1>6. w[1] = INIT /\ w[Len(w)] = END
  BY <1>2, <1>4, <1>5
<1>7. ASSUME NEW i \in 1..Len(q) PROVE w[i + 3] = q[i]
  <2>1. /\ i + 3 \in 1..3 + Len(q) /\ ~(i + 3 <= 3) /\ i + 3 - 3 = i
        /\ i + 3 \in 1..Len(g) + 1 /\ i + 3 <= Len(g)
    BY <1>4
  <2> QED BY <1>4, <1>5, <2>1
<1>8. ASSUME NEW i \in 1..Len(w) - 1 PROVE w[i] # END
  <2>1. w[i] = g[i]
    BY <1>4, <1>5
  <2>2. CASE i <= 3
    <3>1. w[i] = h[i]
      BY <1>4, <1>5, <2>1, <2>2
    <3>2. i \in {1, 2, 3}
      BY <1>4, <1>5, <2>2
    <3> QED BY <1>2, <3>1, <3>2 DEF INIT, MAIN, END
  <2>3. CASE ~(i <= 3)
    <3>1. w[i] = q[i - 3] /\ i - 3 \in 1..Len(q)
      BY <1>4, <1>5, <2>1, <2>3
    <3> QED BY <1>1, <3>1 DEF NoEnd
  <2> QED BY <2>2, <2>3
<1>9. /\ q \in Seq(Byte) /\ Len(q) \in Nat
      /\ w \in Seq(Byte) /\ Len(w) = Len(q) + 4
      /\ w[1] = INIT /\ w[Len(w)] = END
      /\ \A i \in 1..Len(q) : w[i + 3] = q[i]
      /\ \A i \in 1..Len(w) - 1 : w[i] # END
  BY <1>1, <1>4, <1>5, <1>6, <1>7, <1>8
<1> QED BY <1>3, <1>9 DEF q

-----------------------------------------------------------------------------
(* memcpy_unesc *)

\* What memcpy_unesc has between two turns, while no code was unknown.
State(b, f, t, n) == [mem |-> b, from |-> f, to |-> t, len |-> n, bad |-> FALSE]

States(b, f, t, n) ==
    [mem : {b}, from : {f}, to : {t}, len : {n}, bad : {FALSE}]

LEMMA StateOf ==
    ASSUME NEW b, NEW f \in Nat, NEW t \in Nat, NEW n \in Int
    PROVE  /\ State(b, f, t, n) \in States(b, f, t, n)
           /\ \A m \in States(b, f, t, n) : m = State(b, f, t, n)
<1>1. State(b, f, t, n) \in States(b, f, t, n)
  BY DEF State, States
<1>2. ASSUME NEW m \in States(b, f, t, n) PROVE m = State(b, f, t, n)
  <2>1. m \in [mem : {b}, from : {f}, to : {t}, len : {n}, bad : {FALSE}]
    BY DEF States
  <2> QED BY <2>1 DEF State
<1> QED BY <1>1, <1>2

\* The byte g stands at f, not escaped.
PlainAt(b, f, g) == b[f] = g /\ g # ESC

LEMMA UnescapePlain ==
    ASSUME NEW b, NEW f \in Nat, NEW t \in Nat, NEW n \in Int, NEW g, PlainAt(b, f, g)
    PROVE  Unescape(State(b, f, t, n)) =
           State([b EXCEPT ![t] = g], f + 1, t + 1, n)
<1> DEFINE m == State(b, f, t, n)
<1>1. m.mem = b /\ m.from = f /\ m.to = t /\ m.len = n /\ m.bad = FALSE
  BY DEF State
<1>2. m.mem[m.from] = g /\ g # ESC
  BY <1>1 DEF PlainAt
<1>3. Unescape(m) = [m EXCEPT !.mem[m.to] = g, !.to = @ + 1, !.from = @ + 1]
  <2> HIDE DEF m
  <2> QED BY <1>1, <1>2 DEF Unescape
<1>4. m \in States(b, f, t, n)
  BY StateOf
<1> HIDE DEF m
<1>5. [m EXCEPT !.mem[m.to] = g, !.to = @ + 1, !.from = @ + 1]
      \in States([b EXCEPT ![t] = g], f + 1, t + 1, n)
  BY <1>4 DEF States
<1>6. Unescape(m) = State([b EXCEPT ![t] = g], f + 1, t + 1, n)
  BY <1>3, <1>5, StateOf
<1> QED BY <1>6 DEF m

LEMMA UnescapeFlag ==
    ASSUME NEW b, NEW f \in Nat, NEW t \in Nat, NEW n \in Int, NEW g \in Flags,
           b[f] = ESC, b[f + 1] = Code[g]
    PROVE  Unescape(State(b, f, t, n)) =
           State([b EXCEPT ![t] = g], f + 2, t + 1, n - 1)
<1> DEFINE m == State(b, f, t, n)
           k == CHOOSE h \in Flags : Code[h] = m.mem[m.from + 1]
<1>1. m.mem = b /\ m.from = f /\ m.to = t /\ m.len = n /\ m.bad = FALSE
  BY DEF State
<1>2. b[f + 1] \in 1..3
  BY DEF Code, Flags, INIT, END, ESC
<1>3. \A h \in Flags : Code[h] = Code[g] => h = g
  BY DEF Code, Flags, INIT, END, ESC
<1>4. k = g
  <2>1. \E h \in Flags : Code[h] = m.mem[m.from + 1]
    BY <1>1
  <2>2. k \in Flags /\ Code[k] = m.mem[m.from + 1]
    BY <2>1, Zenon
  <2> HIDE DEF k
  <2> QED BY <1>1, <1>3, <2>2
<1>5. Unescape(m) = [m EXCEPT !.mem[m.to] = k,
                              !.to = @ + 1, !.from = @ + 2, !.len = @ - 1]
  <2> HIDE DEF m
  <2> QED BY <1>1, <1>2 DEF Unescape
<1>6. m \in States(b, f, t, n)
  BY StateOf
<1> HIDE DEF k, m
<1>7. [m EXCEPT !.mem[m.to] = k, !.to = @ + 1, !.from = @ + 2, !.len = @ - 1]
      \in States([b EXCEPT ![t] = k], f + 2, t + 1, n - 1)
  BY <1>6 DEF States
<1>8. Unescape(m) = State([b EXCEPT ![t] = k], f + 2, t + 1, n - 1)
  BY <1>5, <1>7, StateOf
<1> QED BY <1>4, <1>8 DEF m

\* u are the states of the first k turns over n bytes of b.
Turning(u, k, b, n) ==
    u = [i \in 0..k |-> IF i = 0 THEN State(b, Start, Start, n) ELSE Unescape(u[i - 1])]

LEMMA TurnsTurns ==
    ASSUME NEW b, NEW n \in Nat
    PROVE  \E u : Turning(u, BufLen, b, n) /\ Turns(b, n) = u[n]
<1> DEFINE T == {k \in 0..BufLen : \E u : Turning(u, k, b, n)}
<1>0. BufLen \in Nat
  BY DEF FrameAssumption
<1>1. 0 \in T
  <2> DEFINE u == [i \in 0..0 |-> State(b, Start, Start, n)]
  <2>1. Turning(u, 0, b, n)
    BY DEF Turning
  <2> QED BY <1>0, <2>1
<1>2. ASSUME NEW k \in 0..BufLen - 1, k \in T
      PROVE  k + 1 \in T
  <2>1. PICK u : Turning(u, k, b, n)
    BY <1>2
  <2> DEFINE g == [i \in 0..k + 1 |-> IF i = k + 1 THEN Unescape(u[k]) ELSE u[i]]
             h == [i \in 0..k + 1 |-> IF i = 0 THEN State(b, Start, Start, n)
                                              ELSE Unescape(g[i - 1])]
  <2>2. ASSUME NEW i \in 0..k + 1 PROVE g[i] = h[i]
    <3>1. CASE i = k + 1
      <4>1. k \in 0..k + 1 /\ k # k + 1 /\ i - 1 = k /\ i # 0
        BY <3>1
      <4>2. g[k] = u[k]
        BY <4>1
      <4>3. h[i] = Unescape(g[k])
        BY <3>1, <4>1
      <4>4. g[i] = Unescape(u[k])
        BY <3>1
      <4> QED BY <4>2, <4>3, <4>4
    <3>2. CASE i # k + 1
      <4>1. i \in 0..k /\ g[i] = u[i]
        BY <3>2
      <4>2. u[i] = IF i = 0 THEN State(b, Start, Start, n) ELSE Unescape(u[i - 1])
        BY <2>1, <4>1 DEF Turning
      <4>3. CASE i = 0
        BY <4>1, <4>2, <4>3
      <4>4. CASE i # 0
        <5>1. g[i - 1] = u[i - 1]
          BY <4>1, <4>4
        <5> QED BY <4>1, <4>2, <4>4, <5>1
      <4> QED BY <4>3, <4>4
    <3> QED BY <3>1, <3>2
  <2>3. g = h
    <3>1. g = [i \in 0..k + 1 |-> g[i]] /\ h = [i \in 0..k + 1 |-> h[i]]
      OBVIOUS
    <3> HIDE DEF g, h
    <3> QED BY <2>2, <3>1, Zenon
  <2>4. Turning(g, k + 1, b, n)
    BY <2>3 DEF Turning
  <2>5. k + 1 \in 0..BufLen
    BY <1>0
  <2> HIDE DEF g
  <2> QED BY <2>4, <2>5
<1>3. BufLen \in T
  <2> HIDE DEF T
  <2>1. 0..BufLen \subseteq T
    BY <1>0, <1>1, <1>2, UpTo
  <2> QED BY <1>0, <2>1
<1>4. \E u : Turning(u, BufLen, b, n)
  BY <1>3
<1> DEFINE u == CHOOSE u : Turning(u, BufLen, b, n)
<1>5. Turning(u, BufLen, b, n)
  BY <1>4, Zenon
<1>6. Turns(b, n) = u[IF n < 0 THEN 0 ELSE n]
  BY Zenon DEF Turns, Turning, State
<1>7. (IF n < 0 THEN 0 ELSE n) = n
  OBVIOUS
<1> QED BY <1>5, <1>6, <1>7

\* The same, turn by turn.
Stepping(u, b, n) ==
    /\ u[0] = State(b, Start, Start, n)
    /\ \A i \in 0..BufLen - 1 : u[i + 1] = Unescape(u[i])

LEMMA TurnsStep ==
    ASSUME NEW b, NEW n \in Nat, NEW u, Turning(u, BufLen, b, n)
    PROVE  Stepping(u, b, n)
<1>0. BufLen \in Nat
  BY DEF FrameAssumption
<1>1. u[0] = State(b, Start, Start, n)
  BY <1>0 DEF Turning
<1>2. ASSUME NEW i \in 0..BufLen - 1 PROVE u[i + 1] = Unescape(u[i])
  <2> DEFINE k == i + 1
  <2>1. k \in 0..BufLen /\ k # 0 /\ k - 1 = i
    BY <1>0
  <2> HIDE DEF k
  <2>2. u[k] = Unescape(u[k - 1])
    BY <2>1 DEF Turning
  <2> QED BY <2>1, <2>2 DEF k
<1> QED BY <1>1, <1>2 DEF Stepping

\* After i turns, of which the next reads at f: the first i bytes of s are in
\* place, and what was not reached yet is as it was in b.
Taken(m, b, s, i, f, n) ==
    \E c : /\ m = State(c, f, Start + i, n) /\ DOMAIN c = 0..2 * BufLen
           /\ \A j \in 1..i : c[j + 2] = s[j]
           /\ \A x \in Start + i..2 * BufLen : c[x] = b[x]

LEMMA TakeOne ==
    ASSUME NEW b, NEW s \in Seq(Byte), NEW m, NEW i \in 0..Len(s) - 1,
           NEW f \in Start + i..BufLen - 2, NEW n \in Int,
           Taken(m, b, s, i, f, n),
           IF s[i + 1] \in Flags THEN b[f] = ESC /\ b[f + 1] = Code[s[i + 1]]
                                 ELSE b[f] = s[i + 1]
    PROVE  IF s[i + 1] \in Flags THEN Taken(Unescape(m), b, s, i + 1, f + 2, n - 1)
                                 ELSE Taken(Unescape(m), b, s, i + 1, f + 1, n)
<1>0. BufLen \in Nat /\ Start = 3 /\ f \in Nat /\ i \in Nat /\ s[i + 1] \in Byte /\ Len(s) \in Nat
  BY DEF FrameAssumption, Start
<1>1. PICK c : /\ m = State(c, f, Start + i, n) /\ DOMAIN c = 0..2 * BufLen
               /\ \A j \in 1..i : c[j + 2] = s[j]
               /\ \A x \in Start + i..2 * BufLen : c[x] = b[x]
  BY Zenon DEF Taken
<1>2. c[f] = b[f] /\ c[f + 1] = b[f + 1]
  BY <1>0, <1>1
<1> DEFINE v == s[i + 1]
           d == [c EXCEPT ![Start + i] = v]
<1>3. /\ DOMAIN d = 0..2 * BufLen
      /\ \A j \in 1..i + 1 : d[j + 2] = s[j]
      /\ \A x \in Start + (i + 1)..2 * BufLen : d[x] = b[x]
  <2>1. DOMAIN d = 0..2 * BufLen
    BY <1>1
  <2>2. ASSUME NEW j \in 1..i + 1 PROVE d[j + 2] = s[j]
    <3>1. CASE j = i + 1
      BY <1>0, <1>1, <3>1
    <3>2. CASE j # i + 1
      BY <1>0, <1>1, <3>2
    <3> QED BY <3>1, <3>2
  <2>3. ASSUME NEW x \in Start + (i + 1)..2 * BufLen PROVE d[x] = b[x]
    BY <1>0, <1>1
  <2> QED BY <2>1, <2>2, <2>3
<1>4. CASE v \in Flags
  <2>1. Unescape(m) = State(d, f + 2, Start + i + 1, n - 1)
    <3> DEFINE t == Start + i
    <3>1. c[f] = ESC /\ c[f + 1] = Code[v] /\ t \in Nat /\ n \in Int
      BY <1>0, <1>2, <1>4
    <3> HIDE DEF v, t
    <3>2. Unescape(State(c, f, t, n)) = State([c EXCEPT ![t] = v], f + 2, t + 1, n - 1)
      BY <1>0, <1>4, <3>1, UnescapeFlag
    <3> QED BY <1>1, <3>2 DEF t
  <2>2. Start + i + 1 = Start + (i + 1)
    BY <1>0
  <2>3. Unescape(m) = State(d, f + 2, Start + (i + 1), n - 1)
    BY <2>1, <2>2, Zenon
  <2> HIDE DEF d
  <2>4. Taken(Unescape(m), b, s, i + 1, f + 2, n - 1)
    BY <1>3, <2>3, Zenon DEF Taken
  <2> QED BY <1>4, <2>4
<1>5. CASE v \notin Flags
  <2>1. Unescape(m) = State(d, f + 1, Start + i + 1, n)
    <3> DEFINE t == Start + i
    <3>1. PlainAt(c, f, v) /\ t \in Nat /\ n \in Int
      BY <1>0, <1>2, <1>5 DEF Flags, PlainAt
    <3> HIDE DEF v, t
    <3>2. Unescape(State(c, f, t, n)) = State([c EXCEPT ![t] = v], f + 1, t + 1, n)
      BY <1>0, <3>1, UnescapePlain
    <3> QED BY <1>1, <3>2 DEF t
  <2>2. Start + i + 1 = Start + (i + 1)
    BY <1>0
  <2>3. Unescape(m) = State(d, f + 1, Start + (i + 1), n)
    BY <2>1, <2>2, Zenon
  <2> HIDE DEF d
  <2>4. Taken(Unescape(m), b, s, i + 1, f + 1, n)
    BY <1>3, <2>3, Zenon DEF Taken
  <2> QED BY <1>5, <2>4
<1> QED BY <1>4, <1>5

\* After i turns the end of s is passed, and the next one reads at f: s is in
\* place, and what was not written yet is as it was in b.
Passing(m, b, s, i, f) ==
    \E c : /\ m = State(c, f, Start + i, Len(s)) /\ DOMAIN c = 0..2 * BufLen
           /\ \A j \in 1..Len(s) : c[j + 2] = s[j]
           /\ \A x \in Start + i..2 * BufLen : c[x] = b[x]

LEMMA PassOne ==
    ASSUME NEW b, NEW s \in Seq(Byte), NEW m, NEW i \in Nat, i >= Len(s),
           NEW f \in Start + i..BufLen - 1, NEW g,
           PlainAt(b, f, g), Passing(m, b, s, i, f)
    PROVE  Passing(Unescape(m), b, s, i + 1, f + 1)
<1>0. BufLen \in Nat /\ Start = 3 /\ f \in Nat /\ Len(s) \in Nat
  BY DEF FrameAssumption, Start
<1>1. PICK c : /\ m = State(c, f, Start + i, Len(s)) /\ DOMAIN c = 0..2 * BufLen
               /\ \A j \in 1..Len(s) : c[j + 2] = s[j]
               /\ \A x \in Start + i..2 * BufLen : c[x] = b[x]
  BY Zenon DEF Passing
<1>2. PlainAt(c, f, g)
  BY <1>0, <1>1 DEF PlainAt
<1> DEFINE t == Start + i
           d == [c EXCEPT ![t] = g]
           l == Len(s)
<1>3. /\ DOMAIN d = 0..2 * BufLen
      /\ \A j \in 1..Len(s) : d[j + 2] = s[j]
      /\ \A x \in Start + (i + 1)..2 * BufLen : d[x] = b[x]
  <2>1. ASSUME NEW j \in 1..Len(s) PROVE d[j + 2] = s[j]
    BY <1>0, <1>1
  <2>2. ASSUME NEW x \in Start + (i + 1)..2 * BufLen PROVE d[x] = b[x]
    BY <1>0, <1>1
  <2> QED BY <1>1, <2>1, <2>2
<1>4. Unescape(m) = State(d, f + 1, Start + (i + 1), Len(s))
  <2>1. l \in Int /\ t \in Nat /\ t + 1 = Start + (i + 1)
    BY <1>0
  <2> HIDE DEF l, t
  <2>2. Unescape(State(c, f, t, l)) = State([c EXCEPT ![t] = g], f + 1, t + 1, l)
    BY <1>0, <1>2, <2>1, UnescapePlain
  <2> QED BY <1>1, <2>1, <2>2 DEF l, t
<1> HIDE DEF d
<1> QED BY <1>3, <1>4, Zenon DEF Passing

\* The buffer b holds the answer p, and the zero that gp_receiv puts behind it.
Holds(b, p) ==
    /\ Len(Answered(p)) \in 0..BufLen - 1
    /\ \A i \in 0..Len(Answered(p)) - 1 : b[i] = Answered(p)[i + 1]
    /\ b[Len(Answered(p))] = 0

\* Behind that zero there is no GP_ESC, as far as memcpy_unesc will read.
Passable(b, p) ==
    \A i \in Len(Answered(p)) + 1..Len(Answered(p)) + Escapes(p) - 2 :
        i < BufLen /\ b[i] # ESC

\* All bytes of the body are taken before the turns end; the other turns take
\* GP_END, the zero and what is behind it, and change nothing of the body.
LEMMA UnescapeBody ==
    ASSUME NEW p \in Payloads, NEW b, DOMAIN b = 0..2 * BufLen, Holds(b, p), Passable(b, p)
    PROVE  LET m == memcpy_unesc(b, Len(Answered(p)) - 4)
           IN  m.len = Len(Body(p)) /\ \A j \in 1..Len(Body(p)) : m.mem[j + 2] = Body(p)[j]
<1> DEFINE s == Body(p)
           q == Escaped(s, Flags)
           w == Answered(p)
           l == Len(s)
           n == Len(q)
<1>1. s \in Seq(Byte) /\ l \in Nat
  BY BodyFacts
<1>2. /\ q \in Seq(Byte) /\ n \in Nat
      /\ Len(w) = n + 4 /\ w[Len(w)] = END
      /\ \A i \in 1..n : w[i + 3] = q[i]
  BY AnsweredFacts
<1>3. BufLen \in Nat /\ n + 4 <= BufLen - 1 /\ Escapes(p) = n - l /\ Start = 3
  BY <1>1, <1>2 DEF FrameAssumption, Escapes, Start, Holds
<1>4. PICK pos \in [0..l -> 0..n] :
         /\ pos[0] = 0 /\ pos[l] = n
         /\ \A i \in 1..l :
               /\ pos[i] = pos[i - 1] + (IF s[i] \in Flags THEN 2 ELSE 1)
               /\ q[pos[i - 1] + 1] = IF s[i] \in Flags THEN ESC ELSE s[i]
               /\ s[i] \in Flags => q[pos[i - 1] + 2] = Code[s[i]]
  BY <1>1, Places
<1> HIDE DEF n
<1>5. PICK u : Turning(u, BufLen, b, n) /\ Turns(b, n) = u[n]
  BY <1>2, TurnsTurns
<1>6. /\ u[0] = State(b, Start, Start, n)
      /\ \A i \in 0..BufLen - 1 : u[i + 1] = Unescape(u[i])
  <2>1. Stepping(u, b, n)
    BY <1>2, <1>5, TurnsStep
  <2> QED BY <2>1, Zenon DEF Stepping
<1> HIDE DEF s, q, w, l
<1> DEFINE T == {i \in 0..l : /\ i <= pos[i]
                             /\ Taken(u[i], b, s, i, Start + pos[i], n - (pos[i] - i))}
<1>7. 0 \in T
  <2>1. Taken(u[0], b, s, 0, Start, n)
    <3> DEFINE c == b
    <3>1. /\ u[0] = State(c, Start, Start + 0, n) /\ DOMAIN c = 0..2 * BufLen
          /\ \A j \in 1..0 : c[j + 2] = s[j]
          /\ \A x \in Start + 0..2 * BufLen : c[x] = b[x]
      BY <1>3, <1>6
    <3> HIDE DEF c
    <3> QED BY <3>1, Zenon DEF Taken
  <2>2. Start + pos[0] = Start /\ n - (pos[0] - 0) = n /\ 0 <= pos[0] /\ 0 \in 0..l
    BY <1>1, <1>2, <1>3, <1>4
  <2> QED BY <2>1, <2>2
<1>8. ASSUME NEW i \in 0..l - 1, i \in T PROVE i + 1 \in T
  <2> DEFINE j == i + 1
             a == pos[i]
             z == pos[j]
             f == Start + a
             k == n - (a - i)
  <2>1. /\ j \in 1..l /\ j \in 0..l /\ i \in 0..l /\ j - 1 = i /\ i \in Nat
        /\ i <= a /\ Taken(u[i], b, s, i, f, k)
    BY <1>1, <1>8
  <2>2. a \in 0..n /\ z \in 0..n
    BY <1>4, <2>1
  <2>3. /\ z = a + (IF s[j] \in Flags THEN 2 ELSE 1)
        /\ q[a + 1] = IF s[j] \in Flags THEN ESC ELSE s[j]
        /\ s[j] \in Flags => q[a + 2] = Code[s[j]]
    BY <1>4, <2>1
  <2> HIDE DEF j, a, z
  <2>4. \A x \in 1..n : b[Start + x - 1] = q[x]
    <3> TAKE x \in 1..n
    <3>1. Start + x - 1 \in 0..Len(w) - 1 /\ Start + x - 1 + 1 = x + 3
      BY <1>2, <1>3
    <3>2. b[Start + x - 1] = w[x + 3]
      BY <3>1 DEF w, Holds
    <3> QED BY <1>2, <3>2
  <2>5. IF s[j] \in Flags THEN b[f] = ESC /\ b[f + 1] = Code[s[j]] ELSE b[f] = s[j]
    <3>1. a + 1 \in 1..n /\ Start + (a + 1) - 1 = f
      BY <1>2, <1>3, <2>2, <2>3
    <3>2. b[f] = q[a + 1]
      BY <2>4, <3>1
    <3>3. CASE s[j] \in Flags
      <4>1. a + 2 \in 1..n /\ Start + (a + 2) - 1 = f + 1
        BY <1>2, <1>3, <2>2, <2>3, <3>3
      <4> HIDE DEF f
      <4>2. b[f + 1] = q[a + 2]
        BY <2>4, <4>1
      <4> QED BY <2>3, <3>2, <3>3, <4>2
    <3>4. CASE s[j] \notin Flags
      BY <2>3, <3>2, <3>4
    <3> QED BY <3>3, <3>4
  <2>6. f \in Start + i..BufLen - 2 /\ k \in Int
    BY <1>2, <1>3, <2>1, <2>2, <2>3
  <2>7. i \in 0..Len(s) - 1
    BY DEF l
  <2>8. u[j] = Unescape(u[i])
    <3>1. i \in 0..BufLen - 1
      BY <1>2, <1>3, <2>1, <2>2
    <3> QED BY <1>6, <3>1 DEF j
  <2>9. /\ Start + z = IF s[j] \in Flags THEN f + 2 ELSE f + 1
        /\ n - (z - j) = IF s[j] \in Flags THEN k - 1 ELSE k
        /\ j <= z
    BY <1>2, <1>3, <2>1, <2>2, <2>3 DEF f, k
  <2> HIDE DEF f, k
  <2>10. IF s[j] \in Flags THEN Taken(u[j], b, s, j, f + 2, k - 1)
                           ELSE Taken(u[j], b, s, j, f + 1, k)
    <3>1. IF s[i + 1] \in Flags THEN Taken(Unescape(u[i]), b, s, i + 1, f + 2, k - 1)
                                ELSE Taken(Unescape(u[i]), b, s, i + 1, f + 1, k)
      BY <1>1, <2>1, <2>5, <2>6, <2>7, TakeOne DEF j
    <3> QED BY <2>8, <3>1, Zenon DEF j
  <2>11. Taken(u[j], b, s, j, Start + z, n - (z - j))
    BY <2>9, <2>10, Zenon
  <2>12. j \in T
    BY <2>1, <2>9, <2>11 DEF z
  <2> HIDE DEF T
  <2> QED BY <2>12 DEF j
<1>9. l <= n /\ Taken(u[l], b, s, l, Start + n, l)
  <2> HIDE DEF T
  <2>1. 0..l \subseteq T
    BY <1>1, <1>7, <1>8, UpTo
  <2>2. l \in T
    BY <1>1, <2>1
  <2>3. n - (n - l) = l
    BY <1>1, <1>2
  <2> QED BY <1>4, <2>2, <2>3 DEF T
<1> DEFINE P == {i \in 0..n - l : Passing(u[l + i], b, s, l + i, Start + n + i)}
<1>10. 0 \in P
  <2>1. PICK c : /\ u[l] = State(c, Start + n, Start + l, l) /\ DOMAIN c = 0..2 * BufLen
                 /\ \A j \in 1..l : c[j + 2] = s[j]
                 /\ \A x \in Start + l..2 * BufLen : c[x] = b[x]
    BY <1>9, Zenon DEF Taken
  <2>2. Passing(u[l], b, s, l, Start + n)
    BY <2>1, Zenon DEF Passing, l
  <2>3. l + 0 = l /\ Start + n + 0 = Start + n /\ 0 \in 0..n - l
    BY <1>1, <1>2, <1>3, <1>9
  <2> QED BY <2>2, <2>3
<1>11. ASSUME NEW i \in 0..n - l - 1, i \in P PROVE i + 1 \in P
  <2> DEFINE f == Start + n + i
             k == l + i
  <2>1. /\ k \in Nat /\ k >= l /\ i \in Nat /\ f \in Nat /\ k \in 0..BufLen - 1
        /\ k + 1 = l + (i + 1) /\ f + 1 = Start + n + (i + 1)
        /\ i + 1 \in 0..n - l /\ f >= Start + k
    BY <1>1, <1>2, <1>3, <1>9
  <2>2. f \in Start + k..BufLen - 1 /\ b[f] # ESC
    <3>1. CASE i = 0
      <4>1. f = n + 3 /\ n + 3 \in 0..Len(w) - 1 /\ n + 3 + 1 = Len(w)
        BY <1>2, <1>3, <3>1
      <4>2. b[n + 3] = w[n + 3 + 1]
        BY <4>1 DEF Holds, w
      <4> QED BY <1>2, <1>3, <2>1, <4>1, <4>2 DEF END, ESC
    <3>2. CASE i = 1
      <4>1. f = Len(w)
        BY <1>2, <1>3, <3>2
      <4>2. b[Len(w)] = 0
        BY DEF Holds, w
      <4> QED BY <1>2, <1>3, <2>1, <4>1, <4>2 DEF ESC
    <3>3. CASE i # 0 /\ i # 1
      <4>1. f \in Len(w) + 1..Len(w) + Escapes(p) - 2
        BY <1>1, <1>2, <1>3, <1>9, <2>1, <3>3
      <4> HIDE DEF f
      <4>2. f < BufLen /\ b[f] # ESC
        BY <4>1 DEF Passable, w
      <4> QED BY <1>3, <2>1, <4>2
    <3> QED BY <3>1, <3>2, <3>3
  <2> HIDE DEF f, k
  <2>3. u[k + 1] = Unescape(u[k])
    BY <1>6, <2>1
  <2>4. Passing(u[k], b, s, k, f)
    BY <1>11 DEF k, f
  <2>5. PlainAt(b, f, b[f])
    BY <2>2 DEF PlainAt
  <2>6. Passing(Unescape(u[k]), b, s, k + 1, f + 1)
    BY <1>1, <2>1, <2>2, <2>4, <2>5, PassOne DEF l
  <2>7. Passing(u[l + (i + 1)], b, s, l + (i + 1), Start + n + (i + 1))
    BY <2>1, <2>3, <2>6, Zenon
  <2> QED BY <2>1, <2>7
<1>12. PICK c : /\ u[n] = State(c, Start + n + (n - l), Start + n, l)
                /\ DOMAIN c = 0..2 * BufLen
                /\ \A j \in 1..l : c[j + 2] = s[j]
  <2> HIDE DEF P
  <2>1. n - l \in Nat
    BY <1>1, <1>2, <1>9
  <2>2. 0..n - l \subseteq P
    BY <1>10, <1>11, <2>1, UpTo
  <2>3. n - l \in P /\ l + (n - l) = n
    BY <1>1, <1>2, <2>1, <2>2
  <2>4. Passing(u[n], b, s, n, Start + n + (n - l))
    BY <2>3 DEF P
  <2> QED BY <2>4, Zenon DEF Passing, l
<1> DEFINE k == Start + n + (n - l)
           t == Start + n
           m == u[n]
           r == IF m.bad THEN m ELSE [m EXCEPT !.mem[m.to] = 0]
<1>13. memcpy_unesc(b, n) = r
  BY <1>5 DEF memcpy_unesc
<1>14. k \in Nat /\ t \in Nat /\ l \in Int /\ t >= Start + l
  BY <1>1, <1>2, <1>3, <1>9
<1> HIDE DEF P, k, t, m
<1>15. m \in States(c, k, t, l)
  BY <1>12, <1>14, StateOf DEF k, t, m
<1>16. r.len = l /\ r.mem = [c EXCEPT ![t] = 0]
  BY <1>15 DEF States
<1>17. \A j \in 1..l : r.mem[j + 2] = s[j]
  <2> SUFFICES ASSUME NEW j \in 1..l PROVE r.mem[j + 2] = s[j]
    OBVIOUS
  <2>1. j + 2 # t /\ c[j + 2] = s[j]
    BY <1>1, <1>3, <1>12, <1>14
  <2>2. j + 2 \in 0..2 * BufLen
    BY <1>1, <1>2, <1>3, <1>9
  <2>3. [c EXCEPT ![t] = 0][j + 2] = c[j + 2]
    BY <1>12, <2>1, <2>2
  <2> HIDE DEF r
  <2> QED BY <1>16, <2>1, <2>3
<1>18. Len(w) - 4 = n
  BY <1>2
<1> HIDE DEF r
<1> QED BY <1>13, <1>16, <1>17, <1>18 DEF s, w, l

\* What memcpy_unesc has between two turns, be a code unknown or not.
Any(b, f, t, n, z) == [mem |-> b, from |-> f, to |-> t, len |-> n, bad |-> z]

Anys(b, f, t, n, z) == [mem : {b}, from : {f}, to : {t}, len : {n}, bad : {z}]

LEMMA AnyOf ==
    ASSUME NEW b, NEW f, NEW t, NEW n, NEW z
    PROVE  /\ Any(b, f, t, n, z) \in Anys(b, f, t, n, z)
           /\ \A m \in Anys(b, f, t, n, z) : m = Any(b, f, t, n, z)
<1>1. Any(b, f, t, n, z) \in Anys(b, f, t, n, z)
  BY DEF Any, Anys
<1>2. ASSUME NEW m \in Anys(b, f, t, n, z) PROVE m = Any(b, f, t, n, z)
  <2>1. m \in [mem : {b}, from : {f}, to : {t}, len : {n}, bad : {z}]
    BY DEF Anys
  <2> QED BY <2>1 DEF Any
<1> QED BY <1>1, <1>2

\* After i turns, of whatever bytes: what is behind the place of the i-th byte
\* is as it was in b.
Untouched(m, b, i) ==
    \E c, f, t, n, z :
        /\ m = Any(c, f, t, n, z)
        /\ z \in BOOLEAN /\ t \in Start..Start + i /\ DOMAIN c = 0..2 * BufLen
        /\ \A x \in Start + i..2 * BufLen : c[x] = b[x]

LEMMA TouchAny ==
    ASSUME NEW b, NEW i, NEW c, NEW f, NEW t, NEW n, NEW z,
           z \in BOOLEAN, t \in Start..Start + i, DOMAIN c = 0..2 * BufLen,
           \A x \in Start + i..2 * BufLen : c[x] = b[x]
    PROVE  Untouched(Any(c, f, t, n, z), b, i)
<1> DEFINE m == Any(c, f, t, n, z)
<1> HIDE DEF m
<1>1. \E c1, f1, t1, n1, z1 :
        /\ m = Any(c1, f1, t1, n1, z1)
        /\ z1 \in BOOLEAN /\ t1 \in Start..Start + i /\ DOMAIN c1 = 0..2 * BufLen
        /\ \A x \in Start + i..2 * BufLen : c1[x] = b[x]
  <2> WITNESS c, f, t, n, z
  <2> QED BY DEF m
<1> QED BY <1>1, Zenon DEF Untouched, m

LEMMA TouchOne ==
    ASSUME NEW b, NEW m, NEW i \in Nat, Untouched(m, b, i)
    PROVE  Untouched(Unescape(m), b, i + 1)
<1>0. BufLen \in Nat /\ Start = 3
  BY DEF FrameAssumption, Start
<1>1. PICK c, f, t, n, z :
        /\ m = Any(c, f, t, n, z)
        /\ z \in BOOLEAN /\ t \in Start..Start + i /\ DOMAIN c = 0..2 * BufLen
        /\ \A x \in Start + i..2 * BufLen : c[x] = b[x]
  BY Zenon DEF Untouched
<1>2. m.mem = c /\ m.from = f /\ m.to = t /\ m.len = n /\ m.bad = z
  BY <1>1 DEF Any
<1>m. m \in Anys(c, f, t, n, z)
  BY <1>1, AnyOf
<1>3. t \in Start..Start + (i + 1) /\ t + 1 \in Start..Start + (i + 1)
  BY <1>0, <1>1
<1>4. \A x \in Start + (i + 1)..2 * BufLen : c[x] = b[x]
  BY <1>0, <1>1
<1>5. ASSUME NEW v
      PROVE  /\ DOMAIN [c EXCEPT ![t] = v] = 0..2 * BufLen
             /\ \A x \in Start + (i + 1)..2 * BufLen : [c EXCEPT ![t] = v][x] = b[x]
  BY <1>0, <1>1
<1>6. CASE m.bad
  <2>1. Unescape(m) = Any(c, f, t, n, z)
    BY <1>1, <1>6 DEF Unescape
  <2>2. Untouched(Any(c, f, t, n, z), b, i + 1)
    BY <1>1, <1>3, <1>4, TouchAny, Zenon
  <2> QED BY <2>1, <2>2, Zenon
<1>7. CASE ~m.bad /\ m.mem[m.from] # ESC
  <2> DEFINE v == c[f]
             d == [c EXCEPT ![t] = v]
             r == [m EXCEPT !.mem[m.to] = m.mem[m.from], !.to = @ + 1, !.from = @ + 1]
  <2>1. Unescape(m) = r
    BY <1>7, Zenon DEF Unescape
  <2>2. r \in Anys(d, f + 1, t + 1, n, z)
    BY <1>2, <1>m DEF Anys
  <2>3. DOMAIN d = 0..2 * BufLen /\ \A x \in Start + (i + 1)..2 * BufLen : d[x] = b[x]
    BY <1>5
  <2> HIDE DEF d, r
  <2>4. Unescape(m) = Any(d, f + 1, t + 1, n, z)
    BY <2>1, <2>2, AnyOf
  <2>5. Untouched(Any(d, f + 1, t + 1, n, z), b, i + 1)
    BY <1>1, <1>3, <2>3, TouchAny, Zenon
  <2> QED BY <2>4, <2>5, Zenon
<1>8. CASE ~m.bad /\ m.mem[m.from] = ESC /\ m.mem[m.from + 1] \in 1..3
  <2> DEFINE v == CHOOSE h \in Flags : Code[h] = m.mem[m.from + 1]
             d == [c EXCEPT ![t] = v]
             r == [m EXCEPT !.mem[m.to] = v, !.to = @ + 1, !.from = @ + 2, !.len = @ - 1]
  <2>1. Unescape(m) = r
    BY <1>8 DEF Unescape
  <2> HIDE DEF v
  <2>2. r \in Anys(d, f + 2, t + 1, n - 1, z)
    BY <1>2, <1>m DEF Anys
  <2>3. DOMAIN d = 0..2 * BufLen /\ \A x \in Start + (i + 1)..2 * BufLen : d[x] = b[x]
    BY <1>5
  <2> HIDE DEF d, r
  <2>4. Unescape(m) = Any(d, f + 2, t + 1, n - 1, z)
    BY <2>1, <2>2, AnyOf
  <2>5. Untouched(Any(d, f + 2, t + 1, n - 1, z), b, i + 1)
    BY <1>1, <1>3, <2>3, TouchAny, Zenon
  <2> QED BY <2>4, <2>5, Zenon
<1>9. CASE ~m.bad /\ m.mem[m.from] = ESC /\ m.mem[m.from + 1] \notin 1..3
  <2> DEFINE r == [m EXCEPT !.bad = TRUE, !.len = 0]
             y == TRUE
             k == 0
  <2>1. Unescape(m) = r
    BY <1>9 DEF Unescape
  <2>2. r \in Anys(c, f, t, k, y) /\ y \in BOOLEAN
    BY <1>2, <1>m DEF Anys
  <2> HIDE DEF r, y, k
  <2>3. Unescape(m) = Any(c, f, t, k, y)
    BY <2>1, <2>2, AnyOf
  <2>4. Untouched(Any(c, f, t, k, y), b, i + 1)
    BY <1>1, <1>3, <1>4, <2>2, TouchAny, Zenon
  <2> QED BY <2>3, <2>4, Zenon
<1> QED BY <1>2, <1>1, <1>6, <1>7, <1>8, <1>9

\* memcpy_unesc of n bytes writes nothing behind the place of GP_END.
LEMMA UnescapeBehind ==
    ASSUME NEW b, DOMAIN b = 0..2 * BufLen, NEW n \in 0..BufLen
    PROVE  \A x \in Start + n + 1..2 * BufLen : memcpy_unesc(b, n).mem[x] = b[x]
<1>0. BufLen \in Nat /\ Start = 3 /\ n \in Nat
  BY DEF FrameAssumption, Start
<1>1. PICK u : Turning(u, BufLen, b, n) /\ Turns(b, n) = u[n]
  BY <1>0, TurnsTurns
<1>2. /\ u[0] = State(b, Start, Start, n)
      /\ \A i \in 0..BufLen - 1 : u[i + 1] = Unescape(u[i])
  <2>1. Stepping(u, b, n)
    BY <1>0, <1>1, TurnsStep
  <2> QED BY <2>1, Zenon DEF Stepping
<1> DEFINE T == {i \in 0..n : Untouched(u[i], b, i)}
<1>3. 0 \in T
  <2> DEFINE e == FALSE
             a == Start
  <2>1. /\ u[0] = Any(b, a, a, n, e)
        /\ e \in BOOLEAN /\ a \in Start..Start + 0
        /\ \A x \in Start + 0..2 * BufLen : b[x] = b[x]
    BY <1>0, <1>2 DEF State, Any
  <2> HIDE DEF e, a
  <2>2. Untouched(u[0], b, 0)
    BY <2>1, Zenon DEF Untouched
  <2> QED BY <1>0, <2>2
<1>4. ASSUME NEW i \in 0..n - 1, i \in T PROVE i + 1 \in T
  <2>1. i \in Nat /\ i \in 0..BufLen - 1 /\ i + 1 \in 0..n
    BY <1>0
  <2>2. Untouched(Unescape(u[i]), b, i + 1)
    BY <1>4, <2>1, TouchOne
  <2>3. u[i + 1] = Unescape(u[i])
    BY <1>2, <2>1
  <2> QED BY <2>1, <2>2, <2>3
<1>5. Untouched(u[n], b, n)
  <2> HIDE DEF T
  <2>1. 0..n \subseteq T
    BY <1>0, <1>3, <1>4, UpTo
  <2> QED BY <1>0, <2>1 DEF T
<1>6. PICK c, f, t, l, z :
        /\ u[n] = Any(c, f, t, l, z)
        /\ z \in BOOLEAN /\ t \in Start..Start + n /\ DOMAIN c = 0..2 * BufLen
        /\ \A x \in Start + n..2 * BufLen : c[x] = b[x]
  BY <1>5, Zenon DEF Untouched
<1> DEFINE m == u[n]
           r == IF m.bad THEN m ELSE [m EXCEPT !.mem[m.to] = 0]
<1>7. memcpy_unesc(b, n) = r
  BY <1>1 DEF memcpy_unesc
<1>8. r.mem = c \/ r.mem = [c EXCEPT ![t] = 0]
  <2>1. m \in Anys(c, f, t, l, z)
    BY <1>6, AnyOf
  <2> HIDE DEF m
  <2> QED BY <2>1 DEF Anys
<1> HIDE DEF r
<1>9. \A x \in Start + n + 1..2 * BufLen : r.mem[x] = b[x]
  <2> TAKE x \in Start + n + 1..2 * BufLen
  <2>1. x \in Start + n..2 * BufLen /\ x # t /\ x \in 0..2 * BufLen
    BY <1>0, <1>6
  <2>2. c[x] = b[x] /\ [c EXCEPT ![t] = 0][x] = c[x]
    BY <1>6, <2>1
  <2> QED BY <1>8, <2>2
<1> QED BY <1>7, <1>9

LEMMA MemoryFacts ==
    ASSUME NEW b, NEW x
    PROVE  /\ DOMAIN Memory(b, x) = 0..2 * BufLen
           /\ \A i \in 0..BufLen - 1 : Memory(b, x)[i] = b[i]
  BY DEF Memory, FrameAssumption

-----------------------------------------------------------------------------
(* The invariant *)

\* r is the end of w, with at most one byte before it.
EndOf(r, w) ==
    /\ Len(r) <= Len(w) + 1
    /\ \A i \in 1..Len(w) : Len(w) - i < Len(r) => r[i + Len(r) - Len(w)] = w[i]

\* buf starts with the first at bytes of the answer, and the rest waits.
Collecting ==
    /\ at + Len(raw) = Len(Answered(payload))
    /\ \A i \in 0..at - 1 : buf[i] = Answered(payload)[i + 1]

\* The inductive invariant.
FrameInv ==
    /\ out = << >> \/ \E c \in Payloads : out = Sent(c)
    /\ out # << >> => raw = << >> /\ ~clean /\ ~whole
    /\ raw \in Seq(Byte) /\ clean \in BOOLEAN /\ whole \in BOOLEAN
    /\ at \in 0..BufLen - 1 /\ (at > 0 => buf[0] = INIT)
    /\ raw # << >> => payload \in Payloads /\ EndOf(raw, Answered(payload))
    /\ raw # << >> /\ clean => Collecting
    /\ raw = << >> /\ whole => at = 0

\* What one read() leaves in the buffer.
LEMMA FilledFacts ==
    ASSUME NEW n \in 1..Len(raw), raw \in Seq(Byte), at \in 0..BufLen - 1, n <= Room
    PROVE  /\ DOMAIN Filled(n) = 0..BufLen - 1
           /\ at + n \in 1..BufLen - 1 /\ Filled(n)[at + n] = 0
           /\ \A i \in 0..at - 1 : Filled(n)[i] = buf[i]
           /\ \A i \in at..at + n - 1 : Filled(n)[i] = raw[i - at + 1]
<1>1. BufLen \in Nat /\ Len(raw) \in Nat /\ at \in Nat /\ n \in Nat /\ n >= 1 /\ at + n <= BufLen - 1
  BY DEF FrameAssumption, Room
<1>2. DOMAIN Filled(n) = 0..BufLen - 1
  BY DEF Filled
<1>3. at + n \in 1..BufLen - 1 /\ Filled(n)[at + n] = 0
  BY <1>1 DEF Filled
<1>4. ASSUME NEW i \in 0..at - 1 PROVE Filled(n)[i] = buf[i]
  <2>1. i \in 0..BufLen - 1 /\ ~(at <= i /\ i < at + n) /\ i # at + n
    BY <1>1
  <2> QED BY <2>1 DEF Filled
<1>5. ASSUME NEW i \in at..at + n - 1 PROVE Filled(n)[i] = raw[i - at + 1]
  <2>1. i \in 0..BufLen - 1 /\ at <= i /\ i < at + n /\ i # at + n
    BY <1>1
  <2> QED BY <2>1 DEF Filled
<1> QED BY <1>2, <1>3, <1>4, <1>5

LEMMA RestFacts ==
    ASSUME NEW n \in 1..Len(raw), raw \in Seq(Byte)
    PROVE  LET r == SubSeq(raw, n + 1, Len(raw))
           IN  /\ r \in Seq(Byte) /\ Len(r) = Len(raw) - n
               /\ r = << >> <=> n = Len(raw)
               /\ \A w \in Seq(Byte) : EndOf(raw, w) => EndOf(r, w)
<1> DEFINE l == Len(raw)
           r == SubSeq(raw, n + 1, l)
<1>1. l \in Nat /\ n \in 1..l /\ \A i \in 1..l : raw[i] \in Byte
  OBVIOUS
<1>2. r \in Seq(Byte) /\ Len(r) = l - n /\ \A i \in 1..l - n : r[i] = raw[n + i]
  <2> HIDE DEF l
  <2>1. n + 1 \in Int /\ l \in Int /\ \A i \in n + 1..l : raw[i] \in Byte
    BY <1>1
  <2>2. /\ r \in Seq(Byte)
        /\ Len(r) = IF n + 1 <= l THEN l - (n + 1) + 1 ELSE 0
        /\ \A i \in 1..l - (n + 1) + 1 : r[i] = raw[n + 1 + i - 1]
    BY <2>1, SubSeqProperties
  <2> HIDE DEF r
  <2>3. ASSUME NEW i \in 1..l - n PROVE r[i] = raw[n + i]
    <3>1. i \in 1..l - (n + 1) + 1 /\ n + 1 + i - 1 = n + i
      BY <1>1
    <3> QED BY <2>2, <3>1
  <2>4. Len(r) = l - n
    BY <1>1, <2>2
  <2> QED BY <2>2, <2>3, <2>4
<1> HIDE DEF r
<1>3. r = << >> <=> n = l
  BY <1>1, <1>2
<1>4. ASSUME NEW w \in Seq(Byte), EndOf(raw, w) PROVE EndOf(r, w)
  <2> DEFINE k == Len(w)
  <2>1. k \in Nat /\ l <= k + 1 /\ \A i \in 1..k : k - i < l => raw[i + l - k] = w[i]
    BY <1>4 DEF EndOf
  <2> HIDE DEF k, l
  <2>2. ASSUME NEW i \in 1..k, k - i < Len(r) PROVE r[i + Len(r) - k] = w[i]
    <3> DEFINE x == i + Len(r) - k
    <3>1. x \in 1..l - n /\ n + x = i + l - k /\ k - i < l
      BY <1>1, <1>2, <2>1, <2>2
    <3> HIDE DEF x
    <3>2. r[x] = w[i]
      BY <1>2, <2>1, <3>1
    <3> QED BY <3>2 DEF x
  <2>3. Len(r) <= k + 1
    BY <1>1, <1>2, <2>1
  <2> QED BY <2>2, <2>3 DEF EndOf, k
<1> QED BY <1>2, <1>3, <1>4 DEF r

\* Bytes that were read into an empty buffer, or behind the first ones of the
\* same answer, are those of the answer.
LEMMA Collected ==
    ASSUME NEW n \in 1..Len(raw), FrameInv, n <= Room, raw # << >>,
           IF Len(raw) = Len(Answered(payload)) THEN at = 0 ELSE clean
    PROVE  /\ at + Len(raw) = Len(Answered(payload))
           /\ \A i \in 0..at + n - 1 : Filled(n)[i] = Answered(payload)[i + 1]
<1> DEFINE w == Answered(payload)
           b == Filled(n)
           l == Len(raw)
           k == Len(w)
<1>1. /\ payload \in Payloads /\ EndOf(raw, w) /\ raw \in Seq(Byte) /\ at \in 0..BufLen - 1
      /\ clean => Collecting
  BY DEF FrameInv
<1>2. l \in Nat /\ k \in Nat /\ at \in Nat /\ n \in Nat
  BY <1>1, AnsweredFacts DEF FrameAssumption
<1>3. \A i \in 1..k : k - i < l => raw[i + l - k] = w[i]
  BY <1>1 DEF EndOf
<1>4. /\ \A i \in 0..at - 1 : b[i] = buf[i]
      /\ \A i \in at..at + n - 1 : b[i] = raw[i - at + 1]
  BY <1>1, FilledFacts
<1>5. at + l = k /\ \A i \in 0..at - 1 : buf[i] = w[i + 1]
  <2>1. CASE l = k
    BY <1>2, <2>1
  <2>2. CASE l # k
    BY <1>1, <2>2 DEF Collecting
  <2> QED BY <2>1, <2>2
<1> HIDE DEF w, b, l, k
<1>6. n <= l
  BY DEF l
<1>7. ASSUME NEW i \in 0..at + n - 1 PROVE b[i] = w[i + 1]
  <2>1. CASE i < at
    <3>1. i \in 0..at - 1
      BY <1>2, <2>1
    <3> QED BY <1>4, <1>5, <3>1
  <2>2. CASE ~(i < at)
    <3>1. i \in at..at + n - 1 /\ i + 1 \in 1..k /\ k - (i + 1) < l /\ i + 1 + l - k = i - at + 1
      BY <1>2, <1>5, <1>6, <2>2
    <3>2. b[i] = raw[i - at + 1]
      BY <1>4, <3>1
    <3>3. raw[i + 1 + l - k] = w[i + 1]
      BY <1>3, <3>1
    <3> QED BY <3>1, <3>2, <3>3
  <2> QED BY <2>1, <2>2
<1> QED BY <1>5, <1>7 DEF w, b, l, k

\* The last byte of an answer, when it comes, is its GP_END.
LEMMA LastEnd ==
    ASSUME FrameInv, raw # << >>
    PROVE  raw[Len(raw)] = END /\ Len(raw) \in Nat \ {0}
<1>1. payload \in Payloads /\ EndOf(raw, Answered(payload)) /\ raw \in Seq(Byte)
  BY DEF FrameInv
<1> DEFINE w == Answered(payload)
           k == Len(w)
           l == Len(raw)
<1>2. k \in Nat /\ k >= 4 /\ w[k] = END
  BY <1>1, AnsweredFacts
<1>3. l \in Nat \ {0}
  BY <1>1
<1>4. \A i \in 1..k : k - i < l => raw[i + l - k] = w[i]
  BY <1>1 DEF EndOf
<1> HIDE DEF w, k, l
<1>5. k \in 1..k /\ k - k < l /\ k + l - k = l
  BY <1>2, <1>3
<1>6. raw[l] = w[k]
  BY <1>4, <1>5
<1> QED BY <1>2, <1>3, <1>6 DEF l

\* A read that takes all that is left of a whole answer that was collected
\* from its first byte finds the answer in the buffer, and its end.
LEMMA LastRead ==
    ASSUME FrameInv, raw # << >>, Len(raw) <= Room,
           IF Len(raw) = Len(Answered(payload)) THEN at = 0 ELSE clean
    PROVE  /\ Holds(Filled(Len(raw)), payload)
           /\ Filled(Len(raw))[0] = INIT
           /\ \A e \in Ends(Filled(Len(raw)), Len(raw)) : e = Len(Answered(payload)) - 1
<1> DEFINE n == Len(raw)
           b == Filled(n)
           w == Answered(payload)
           k == Len(w)
<1>0. n \in 1..Len(raw) /\ n \in Nat
  BY LastEnd
<1>1. payload \in Payloads /\ raw \in Seq(Byte) /\ at \in 0..BufLen - 1 /\ at \in Nat
  BY DEF FrameInv, FrameAssumption
<1>2. /\ k \in Nat /\ k >= 4 /\ w[1] = INIT
      /\ \A i \in 1..k - 1 : w[i] # END
  BY <1>1, AnsweredFacts
<1>3. DOMAIN b = 0..BufLen - 1 /\ at + n \in 1..BufLen - 1 /\ b[at + n] = 0
  BY <1>0, <1>1, FilledFacts
<1>4. at + n = k /\ \A i \in 0..at + n - 1 : b[i] = w[i + 1]
  BY <1>0, Collected
<1> HIDE DEF w, k, b, n
<1>k. at + n = k
  BY <1>4
<1>5. Holds(b, payload)
  <2>1. k \in 0..BufLen - 1 /\ b[k] = 0
    BY <1>3, <1>k
  <2>2. ASSUME NEW i \in 0..k - 1 PROVE b[i] = w[i + 1]
    <3>1. i \in 0..at + n - 1
      BY <1>0, <1>1, <1>k
    <3> QED BY <1>4, <3>1, Zenon
  <2>3. /\ Len(Answered(payload)) \in 0..BufLen - 1 /\ b[Len(Answered(payload))] = 0
        /\ \A i \in 0..Len(Answered(payload)) - 1 : b[i] = Answered(payload)[i + 1]
    BY <2>1, <2>2 DEF w, k
  <2> QED BY <2>3, Zenon DEF Holds
<1>6. b[0] = INIT
  <2>1. 0 \in 0..at + n - 1
    BY <1>0, <1>1, <1>2, <1>k
  <2> QED BY <1>2, <1>4, <2>1
<1>7. ASSUME NEW e \in Ends(b, n) PROVE e = k - 1
  <2>1. e \in at..at + n - 1 /\ b[e] = END
    BY DEF Ends
  <2>2. e \in 0..at + n - 1 /\ e + 1 \in 1..k
    BY <1>0, <1>1, <1>4, <2>1
  <2>3. w[e + 1] = END
    BY <1>4, <2>1, <2>2
  <2>4. e + 1 \notin 1..k - 1
    BY <1>2, <2>3
  <2> QED BY <1>2, <2>2, <2>4
<1> QED BY <1>5, <1>6, <1>7 DEF b, w, k, n

\* An earlier one finds no end.
LEMMA EarlyRead ==
    ASSUME NEW n \in 1..Len(raw) - 1, FrameInv, n <= Room, raw # << >>,
           IF Len(raw) = Len(Answered(payload)) THEN at = 0 ELSE clean
    PROVE  Filled(n)[0] = INIT /\ Ends(Filled(n), n) = {}
<1> DEFINE b == Filled(n)
           w == Answered(payload)
           k == Len(w)
           l == Len(raw)
<1>0. l \in Nat /\ n \in 1..Len(raw) /\ n \in 1..l - 1 /\ n \in Nat
  BY LastEnd
<1>1. payload \in Payloads /\ at \in Nat
  BY DEF FrameInv, FrameAssumption
<1>2. /\ k \in Nat /\ w[1] = INIT
      /\ \A i \in 1..k - 1 : w[i] # END
  BY <1>1, AnsweredFacts
<1>3. at + l = k /\ \A i \in 0..at + n - 1 : b[i] = w[i + 1]
  BY <1>0, Collected
<1> HIDE DEF w, k, b, l
<1>4. b[0] = INIT
  <2>1. 0 \in 0..at + n - 1
    BY <1>0, <1>1
  <2> QED BY <1>2, <1>3, <2>1
<1>5. ASSUME NEW e \in Ends(b, n) PROVE FALSE
  <2>1. e \in at..at + n - 1 /\ b[e] = END
    BY DEF Ends
  <2>2. e \in 0..at + n - 1 /\ e + 1 \in 1..k - 1
    BY <1>0, <1>1, <1>3, <2>1
  <2> QED BY <1>2, <1>3, <2>1, <2>2
<1> QED BY <1>4, <1>5 DEF b

LEMMA ReadKeeps ==
    ASSUME NEW n \in 1..Len(raw), FrameInv, n <= Room, Read(n)
    PROVE  FrameInv'
<1> DEFINE b == Filled(n)
           w == Answered(payload)
<1>1. /\ raw # << >> /\ raw \in Seq(Byte) /\ Len(raw) \in Nat /\ n \in Nat
      /\ at \in 0..BufLen - 1 /\ at \in Nat /\ (at > 0 => buf[0] = INIT)
      /\ payload \in Payloads /\ EndOf(raw, w)
      /\ BufLen \in Nat
  BY DEF FrameInv, FrameAssumption
<1>2. /\ raw' = SubSeq(raw, n + 1, Len(raw))
      /\ clean' = (IF Len(raw) = Len(w) THEN at = 0 ELSE clean)
      /\ UNCHANGED <<out, payload, whole, answers>>
  BY DEF Read
<1>3. \/ b[0] # INIT /\ buf' = b /\ at' = at
      \/ b[0] = INIT /\ Ends(b, n) = {} /\ buf' = b /\ at' = at + n
      \/ b[0] = INIT /\ Ends(b, n) # {} /\ at' = 0
  BY DEF Read, Restart
<1>4. /\ DOMAIN b = 0..BufLen - 1 /\ at + n \in 1..BufLen - 1
      /\ \A i \in 0..at - 1 : b[i] = buf[i]
      /\ \A i \in at..at + n - 1 : b[i] = raw[i - at + 1]
  BY <1>1, FilledFacts
<1>5. /\ raw' \in Seq(Byte) /\ Len(raw') = Len(raw) - n
      /\ raw' = << >> <=> n = Len(raw)
      /\ EndOf(raw', w)
  <2>1. w \in Seq(Byte)
    BY <1>1, AnsweredFacts
  <2> QED BY <1>1, <1>2, <2>1, RestFacts
<1> HIDE DEF b
<1>6. b[0] # INIT => at = 0
  <2>1. CASE at > 0
    <3>1. 0 \in 0..at - 1
      BY <1>1, <2>1
    <3> QED BY <1>1, <1>4, <2>1, <3>1
  <2>2. CASE ~(at > 0)
    BY <1>1, <2>2
  <2> QED BY <2>1, <2>2
<1>7. at' \in 0..BufLen - 1 /\ (at' > 0 => buf'[0] = INIT)
  BY <1>1, <1>3, <1>4, <1>6
<1>8. ASSUME raw' # << >>, clean'
      PROVE  Collecting'
  <2>0. n # Len(raw)
    BY <1>5, <1>8
  <2>1. n \in 1..Len(raw) - 1 /\ IF Len(raw) = Len(w) THEN at = 0 ELSE clean
    <3> HIDE DEF w
    <3>1. n \in 1..Len(raw) - 1
      BY <1>1, <2>0
    <3> QED BY <1>2, <1>8, <3>1
  <2>2. b[0] = INIT /\ Ends(b, n) = {}
    BY <1>1, <2>1, EarlyRead DEF b
  <2>3. at' = at + n /\ buf' = b
    BY <1>3, <2>2
  <2>4. at + Len(raw) = Len(w) /\ \A i \in 0..at + n - 1 : b[i] = w[i + 1]
    <3>1. n \in 1..Len(raw)
      OBVIOUS
    <3>2. /\ at + Len(raw) = Len(Answered(payload))
          /\ \A i \in 0..at + n - 1 : Filled(n)[i] = Answered(payload)[i + 1]
      BY <1>1, <2>1, <3>1, Collected
    <3> QED BY <3>2 DEF b
  <2> HIDE DEF w
  <2>5. at' + Len(raw') = Len(w)
    <3> DEFINE l == Len(raw)
               k == Len(w)
               r == Len(raw')
    <3>1. l \in Nat /\ r = l - n /\ at + l = k /\ at' = at + n
      BY <1>1, <1>5, <2>3, <2>4
    <3> HIDE DEF l, k, r
    <3>2. at' + r = k
      BY <1>1, <3>1
    <3> QED BY <3>2 DEF r, k
  <2>6. ASSUME NEW i \in 0..at' - 1 PROVE buf'[i] = w[i + 1]
    <3>1. i \in 0..at + n - 1
      BY <1>1, <2>3
    <3>2. b[i] = w[i + 1]
      BY <2>4, <3>1, Zenon
    <3> QED BY <2>3, <3>2, Zenon
  <2>7. w' = w
    BY <1>2 DEF w
  <2> QED BY <2>5, <2>6, <2>7 DEF Collecting, w
<1>9. raw' = << >> => at' = 0
  <2> SUFFICES ASSUME n = Len(raw) PROVE at' = 0
    BY <1>5
  <2>1. at + n - 1 \in at..at + n - 1 /\ at + n - 1 - at + 1 = n
    BY <1>1
  <2>2. b[at + n - 1] = END
    BY <1>1, <1>4, <2>1, LastEnd
  <2>3. Ends(b, n) # {}
    BY <2>1, <2>2 DEF Ends
  <2> QED BY <1>3, <1>6, <2>3
<1>10. clean' \in BOOLEAN /\ whole' \in BOOLEAN
  BY <1>2 DEF FrameInv
<1>11. out = << >>
  BY <1>1 DEF FrameInv
<1> QED BY <1>1, <1>2, <1>5, <1>7, <1>8, <1>9, <1>10, <1>11 DEF FrameInv

\* The answers, with or without a byte of noise before them.
LEMMA NoiseFacts ==
    ASSUME NEW p \in Payloads, NEW x \in Byte
    PROVE  LET w == Answered(p)
               r == <<x>> \o w
           IN  /\ << >> \o w \in Seq(Byte) /\ EndOf(<< >> \o w, w)
               /\ r \in Seq(Byte) /\ EndOf(r, w)
<1> DEFINE w == Answered(p)
           r == <<x>> \o w
<1>1. w \in Seq(Byte) /\ Len(w) \in Nat
  BY AnsweredFacts
<1> HIDE DEF w
<1>2. << >> \o w = w
  BY <1>1
<1>3. EndOf(w, w)
  BY <1>1 DEF EndOf
<1>4. r \in Seq(Byte) /\ Len(r) = Len(w) + 1 /\ \A i \in 1..Len(w) : r[i + 1] = w[i]
  BY <1>1 DEF Byte
<1>5. EndOf(r, w)
  <2> HIDE DEF r
  <2>1. ASSUME NEW i \in 1..Len(w) PROVE r[i + Len(r) - Len(w)] = w[i]
    <3>1. i + Len(r) - Len(w) = i + 1
      BY <1>1, <1>4
    <3> QED BY <1>4, <3>1
  <2> QED BY <1>1, <1>4, <2>1 DEF EndOf
<1> HIDE DEF r
<1> QED BY <1>1, <1>2, <1>3, <1>4, <1>5 DEF w, r

LEMMA InitFrame == Init => FrameInv
<1>1. BufLen \in Nat /\ BufLen > 0
  BY DEF FrameAssumption
<1>2. << >> \in Seq(Byte)
  OBVIOUS
<1> HIDE FrameAssumption
<1> SUFFICES ASSUME Init PROVE FrameInv
  OBVIOUS
<1>3. /\ out = << >> /\ raw = << >> /\ clean = FALSE /\ whole = FALSE
      /\ at = 0 /\ at \in 0..BufLen - 1
  BY <1>1 DEF Init
<1>4. clean \in BOOLEAN /\ whole \in BOOLEAN
  BY <1>3
<1>5. raw \in Seq(Byte) /\ ~(raw # << >>)
  BY <1>2, <1>3
<1>6. ~clean /\ ~whole /\ ~(at > 0)
  BY <1>3
<1> QED BY <1>3, <1>4, <1>5, <1>6 DEF FrameInv

LEMMA SendKeeps ==
    ASSUME NEW c \in Payloads, FrameInv, Send(c)
    PROVE  FrameInv'
<1>1. /\ out' = Sent(c) /\ raw' = << >> /\ clean' = FALSE /\ whole' = FALSE
      /\ at' = at /\ buf' = buf
  BY DEF Send
<1>2. << >> \in Seq(Byte)
  OBVIOUS
<1>3. at \in 0..BufLen - 1 /\ (at > 0 => buf[0] = INIT)
  BY DEF FrameInv
<1>4. \E d \in Payloads : Sent(c) = Sent(d)
  BY Zenon
<1> QED BY <1>1, <1>2, <1>3, <1>4 DEF FrameInv

LEMMA AnswerKeeps ==
    ASSUME NEW p \in Payloads, NEW noise, noise = << >> \/ \E x \in Byte : noise = <<x>>,
           FrameInv, Answer(p, noise)
    PROVE  FrameInv'
<1> DEFINE w == Answered(p)
           r == noise \o w
<1>1. /\ out # << >> /\ raw' = r /\ payload' = p
      /\ out' = << >> /\ whole' = TRUE /\ at' = at /\ buf' = buf /\ clean' = clean
  BY DEF Answer
<1>2. ~clean
  BY <1>1 DEF FrameInv
<1>3. r \in Seq(Byte) /\ EndOf(r, w)
  <2>1. CASE noise = << >>
    <3>1. 0 \in Byte
      BY DEF Byte
    <3> QED BY <2>1, <3>1, NoiseFacts
  <2>2. CASE \E x \in Byte : noise = <<x>>
    BY <2>2, NoiseFacts
  <2> QED BY <2>1, <2>2
<1>4. r # << >>
  <2>1. w \in Seq(Byte) /\ Len(w) \in Nat /\ Len(w) >= 4
    BY AnsweredFacts
  <2>2. CASE noise = << >>
    <3> HIDE DEF w
    <3> QED BY <2>1, <2>2
  <2>3. CASE \E x \in Byte : noise = <<x>>
    <3>1. PICK x \in Byte : noise = <<x>>
      BY <2>3
    <3>2. <<x>> \in Seq(Byte) /\ Len(<<x>>) = 1
      OBVIOUS
    <3> HIDE DEF w
    <3> QED BY <2>1, <3>1, <3>2
  <2> QED BY <2>2, <2>3
<1> HIDE DEF r, w
<1>5. Answered(payload)' = w
  BY <1>1 DEF w
<1>6. at' \in 0..BufLen - 1 /\ (at' > 0 => buf'[0] = INIT)
  BY <1>1 DEF FrameInv
<1> QED BY <1>1, <1>2, <1>3, <1>4, <1>5, <1>6 DEF FrameInv

LEMMA LostKeeps ==
    ASSUME FrameInv, Cut \/ ReadNothing
    PROVE  FrameInv'
<1>1. /\ raw # << >> /\ raw' = << >> /\ clean' = FALSE /\ whole' = FALSE
      /\ out' = out /\ at' = at /\ buf' = buf
  BY DEF Cut, ReadNothing
<1>2. << >> \in Seq(Byte)
  OBVIOUS
<1>3. at \in 0..BufLen - 1 /\ (at > 0 => buf[0] = INIT) /\ out = << >>
  BY <1>1 DEF FrameInv
<1> QED BY <1>1, <1>2, <1>3 DEF FrameInv

LEMMA NextFrame == FrameInv /\ [Next]_vars => FrameInv'
<1> SUFFICES ASSUME FrameInv, [Next]_vars PROVE FrameInv'
  OBVIOUS
<1>1. ASSUME NEW c \in Payloads, Send(c) PROVE FrameInv'
  BY <1>1, SendKeeps
<1>2. ASSUME NEW p \in Payloads, Answer(p, << >>) PROVE FrameInv'
  BY <1>2, AnswerKeeps
<1>3. ASSUME NEW p \in Payloads, NEW x \in Noise, Answer(p, <<x>>) PROVE FrameInv'
  <2>1. x \in Byte
    BY DEF FrameAssumption, Byte
  <2> QED BY <1>3, <2>1, AnswerKeeps
<1>4. ASSUME NEW n \in 1..Len(raw), n <= Room, Read(n) PROVE FrameInv'
  BY <1>4, ReadKeeps
<1>5. ASSUME ReadNothing \/ Cut PROVE FrameInv'
  BY <1>5, LostKeeps
<1>6. ASSUME UNCHANGED vars PROVE FrameInv'
  BY <1>6 DEF FrameInv, vars, Collecting
<1> QED BY <1>1, <1>2, <1>3, <1>4, <1>5, <1>6 DEF Next

\* In every state what was collected, what waits and what was written are the
\* parts of whole frames, whatever chunks the bytes came in: gp_send,
\* gp_receiv and memcpy_esc of gp_layer.c and gp_util.c.
THEOREM FrameInductive == Spec => []FrameInv
<1>1. Init => FrameInv
  BY InitFrame
<1>2. FrameInv /\ [Next]_vars => FrameInv'
  BY NextFrame
<1> QED BY <1>1, <1>2, PTL DEF Spec

-----------------------------------------------------------------------------
(* What it implies *)

LEMMA SentFramed ==
    ASSUME NEW c \in Payloads, out = Sent(c)
    PROVE  OutFramed
<1> DEFINE x == crc8_xor(c)
           s == <<Own>> \o c \o <<x>>
           q == Escaped(s, Flags)
           h == <<INIT, CTRL>>
           g == h \o q
           t == <<END>>
           w == g \o t
<1>1. c \in Seq(Byte) /\ x \in Byte
  BY BodyFacts, SumFits
<1>2. s \in Seq(Byte)
  <2> HIDE DEF x
  <2>1. Own \in Byte
    BY DEF FrameAssumption, Byte
  <2> QED BY <1>1, <2>1
<1> HIDE DEF s
<1>3. q \in Seq(Byte) /\ NoEnd(q)
  BY <1>2, EscapedNoEnd
<1> HIDE DEF q
<1>4. Len(q) \in Nat /\ \A i \in 1..Len(q) : q[i] # INIT /\ q[i] # END
  BY <1>3 DEF NoEnd
<1>5. g \in Seq(Byte) /\ Len(g) = Len(q) + 2 /\ g[1] = INIT /\ g[2] = CTRL
      /\ \A i \in 1..Len(q) : g[i + 2] = q[i]
  BY <1>3 DEF Byte, INIT, CTRL
<1> HIDE DEF g
<1>6. /\ Len(w) = Len(q) + 3 /\ DOMAIN w = 1..Len(w)
      /\ \A i \in 1..Len(g) : w[i] = g[i]
      /\ w[Len(g) + 1] = END
  BY <1>5 DEF Byte, END
<1>7. out = w
  BY DEF Sent, memcpy_esc, s, q, g, x
<1> HIDE DEF w
<1>8. ASSUME NEW i \in DOMAIN w
      PROVE  (w[i] = INIT <=> i = 1) /\ (w[i] = END <=> i = Len(w))
  <2>0. i \in Nat /\ i >= 1 /\ i <= Len(q) + 3 /\ Len(w) = Len(q) + 3 /\ Len(g) = Len(q) + 2
    BY <1>4, <1>5, <1>6
  <2>1. CASE i = 1
    <3>1. w[i] = INIT
      BY <1>4, <1>5, <1>6, <2>0, <2>1
    <3> QED BY <1>4, <2>0, <2>1, <3>1 DEF INIT, END
  <2>2. CASE i = 2
    <3>1. w[i] = CTRL
      BY <1>4, <1>5, <1>6, <2>0, <2>2
    <3> QED BY <1>4, <2>0, <2>2, <3>1 DEF INIT, END, CTRL
  <2>3. CASE i = Len(w)
    <3>1. w[i] = END
      BY <1>4, <1>6, <2>0, <2>3
    <3> QED BY <1>4, <2>0, <2>3, <3>1 DEF INIT, END
  <2>4. CASE i # 1 /\ i # 2 /\ i # Len(w)
    <3> DEFINE j == i - 2
    <3>1. j \in 1..Len(q) /\ j + 2 = i /\ i \in 1..Len(g)
      BY <1>4, <2>0, <2>4
    <3> HIDE DEF j
    <3>2. w[i] = q[j]
      BY <1>5, <1>6, <3>1
    <3> QED BY <1>4, <2>4, <3>1, <3>2
  <2> QED BY <2>1, <2>2, <2>3, <2>4
<1> QED BY <1>7, <1>8 DEF OutFramed

\* gp_send: GP_INIT begins a command and stands nowhere else in it, GP_END
\* ends it, for every command and check sum.
THEOREM CommandsFramed == Spec => []OutFramed
<1>1. FrameInv => OutFramed
  <2> SUFFICES ASSUME FrameInv PROVE OutFramed
    OBVIOUS
  <2>1. CASE out = << >>
    BY <2>1 DEF OutFramed
  <2>2. CASE \E c \in Payloads : out = Sent(c)
    BY <2>2, SentFramed
  <2> QED BY <2>1, <2>2 DEF FrameInv
<1> QED BY <1>1, FrameInductive, PTL

\* gp_receiv: when all bytes of an answer have come and were read, the next
\* one finds the buffer empty, for every answer, noise and chunks, and
\* whatever earlier answers have left in the buffer.
THEOREM Resyncs == Spec => []Resync
<1>1. FrameInv => Resync
  BY DEF FrameInv, Resync
<1> QED BY <1>1, FrameInductive, PTL

\* A frame that holds the body of an answer is accepted, and gives the payload.
LEMMA BodyGiven ==
    ASSUME NEW p \in Payloads, NEW m, m.len = Len(Body(p)),
           \A j \in 1..Len(Body(p)) : m.mem[j + 2] = Body(p)[j]
    PROVE  Accepted(m) /\ Content(m) = p
<1> DEFINE s == Body(p)
           d == m.mem
           l == Len(s)
           k == Len(p)
<1>1. /\ p \in Seq(Byte) /\ k \in Nat \ {0} /\ s \in Seq(Byte) /\ l = k + 3
      /\ s[2] = Own /\ \A i \in 1..k : s[i + 2] = p[i]
      /\ crc8_xor(s) = 0
  BY BodyFacts
<1>2. m.len = l /\ \A j \in 1..l : d[j + 2] = s[j]
  OBVIOUS
<1> DEFINE g == [i \in 1..m.len |-> m.mem[Start + i - 1]]
           c == Content(m)
<1>3. g = s
  <2>1. DOMAIN g = 1..l /\ DOMAIN s = 1..l
    BY <1>1, <1>2
  <2>2. ASSUME NEW i \in 1..l PROVE g[i] = s[i]
    <3>1. Start + i - 1 = i + 2
      BY <1>1 DEF Start
    <3>2. g[i] = d[Start + i - 1]
      BY <1>2
    <3> HIDE DEF g, d, s
    <3> QED BY <1>2, <3>1, <3>2
  <2>3. g = [i \in 1..l |-> g[i]] /\ s = [i \in 1..l |-> s[i]]
    BY <1>1, <1>2
  <2> HIDE DEF g, s, l
  <2> QED BY <2>2, <2>3
<1>4. Accepted(m)
  <2>1. ~(m.len <= 1)
    BY <1>1, <1>2
  <2>2. Sum(m) = crc8_xor(g)
    BY <2>1 DEF Sum
  <2>3. d[2 + 2] = s[2] /\ Start + 1 = 2 + 2
    BY <1>1, <1>2 DEF Start
  <2> HIDE DEF g
  <2>4. m.mem[Start + 1] = Own
    BY <1>1, <2>3
  <2> QED BY <1>1, <1>3, <2>2, <2>4 DEF Accepted
<1>5. c = p
  <2>1. c = [i \in 1..k |-> d[Start + 1 + i]]
    <3>1. m.len - 3 = k
      BY <1>1, <1>2
    <3> QED BY <3>1 DEF Content
  <2>2. ASSUME NEW i \in 1..k PROVE d[Start + 1 + i] = p[i]
    <3>1. i + 2 \in 1..l /\ i + 2 + 2 = Start + 1 + i
      BY <1>1 DEF Start
    <3> HIDE DEF d, s, l
    <3> QED BY <1>1, <1>2, <3>1
  <2>3. p = [i \in 1..k |-> p[i]]
    BY <1>1
  <2> HIDE DEF c, d, k
  <2> QED BY <2>1, <2>2, <2>3
<1> QED BY <1>4, <1>5

LEMMA ReadGives ==
    ASSUME NEW n \in 1..Len(raw), FrameInv, n <= Room, Read(n),
           raw' = << >>, clean', Harmless'
    PROVE  got' = payload
<1> DEFINE b == Filled(n)
           w == Answered(payload)
           s == Body(payload)
<1>1. raw # << >> /\ raw \in Seq(Byte) /\ payload \in Payloads /\ at \in Nat
  BY DEF FrameInv, FrameAssumption
<1>2. n = Len(raw)
  <2>1. raw' = SubSeq(raw, n + 1, Len(raw))
    BY DEF Read
  <2> QED BY <1>1, <2>1, RestFacts
<1>3. IF Len(raw) = Len(w) THEN at = 0 ELSE clean
  BY DEF Read
<1>4. /\ Holds(b, payload) /\ b[0] = INIT
      /\ \A e \in Ends(b, n) : e = Len(w) - 1
  BY <1>1, <1>2, <1>3, LastRead
<1>5. Ends(b, n) # {}
  <2>1. n \in Nat \ {0} /\ raw[n] = END
    BY <1>1, <1>2, LastEnd
  <2> DEFINE k == at + n - 1
  <2>2. k \in at..at + n - 1 /\ k - at + 1 = n
    BY <1>1, <2>1
  <2>3. \A i \in at..at + n - 1 : b[i] = raw[i - at + 1]
    BY <1>1, FilledFacts DEF FrameInv
  <2> HIDE DEF b, k
  <2>4. b[k] = raw[k - at + 1]
    BY <2>2, <2>3, Zenon
  <2>5. b[k] = END
    BY <2>1, <2>2, <2>4, Zenon
  <2> QED BY <2>2, <2>5 DEF Ends
<1>6. PICK e \in Ends(b, n), x \in Behind :
         LET m == memcpy_unesc(Memory(b, x), e - Start)
         IN  /\ buf' = [i \in 0..BufLen - 1 |-> m.mem[i]]
             /\ got' = IF Accepted(m) THEN Content(m) ELSE got
  BY <1>4, <1>5, BehindAssumption DEF Read
<1> HIDE DEF b
<1> DEFINE k == Len(w)
           a == Memory(b, x)
           m == memcpy_unesc(a, k - 4)
<1>7. /\ k \in Nat /\ k >= 4 /\ k \in 0..BufLen - 1 /\ BufLen \in Nat /\ Start = 3
      /\ e - Start = k - 4
  <2>1. e = Len(w) - 1 /\ Len(w) \in Nat /\ Len(w) >= 4
    BY <1>1, <1>4, AnsweredFacts
  <2> QED BY <1>4, <2>1 DEF Start, Holds, FrameAssumption
<1>8. /\ buf' = [i \in 0..BufLen - 1 |-> m.mem[i]]
      /\ got' = IF Accepted(m) THEN Content(m) ELSE got
  BY <1>6, <1>7
<1>9. DOMAIN a = 0..2 * BufLen /\ \A i \in 0..BufLen - 1 : a[i] = b[i]
  BY MemoryFacts
<1> HIDE DEF a
<1>10. \A i \in k..2 * BufLen : m.mem[i] = a[i]
  <2>1. k - 4 \in 0..BufLen /\ Start + (k - 4) + 1 = k
    BY <1>7
  <2> HIDE DEF k
  <2> QED BY <1>9, <2>1, UnescapeBehind
<1> HIDE DEF m
<1>11. Holds(a, payload)
  <2>1. a[k] = b[k] /\ b[k] = 0
    BY <1>4, <1>7, <1>9 DEF Holds
  <2>2. ASSUME NEW i \in 0..k - 1 PROVE a[i] = w[i + 1]
    <3>1. b[i] = w[i + 1]
      BY <1>4 DEF Holds
    <3>2. i \in 0..BufLen - 1
      BY <1>7
    <3> HIDE DEF w, k
    <3> QED BY <1>9, <3>1, <3>2
  <2> QED BY <1>7, <2>1, <2>2 DEF Holds
<1>12. Passable(a, payload)
  <2>1. payload' = payload
    BY DEF Read
  <2>2. \A i \in k + 1..k + Escapes(payload) - 2 : i < BufLen /\ buf'[i] # ESC
    BY <2>1 DEF Harmless, Escapes, Body
  <2> HIDE DEF w, k
  <2>3. ASSUME NEW i \in k + 1..k + Escapes(payload) - 2
        PROVE  i < BufLen /\ a[i] # ESC
    <3>1. i < BufLen /\ buf'[i] # ESC
      BY <2>2
    <3>2. i \in 0..BufLen - 1 /\ i \in k..2 * BufLen
      BY <1>7, <3>1
    <3>3. buf'[i] = m.mem[i] /\ m.mem[i] = a[i]
      BY <1>8, <1>10, <3>2
    <3> QED BY <3>1, <3>3
  <2> QED BY <2>3 DEF Passable, w, k
<1>13. m.len = Len(s) /\ \A j \in 1..Len(s) : m.mem[j + 2] = s[j]
  BY <1>1, <1>9, <1>11, <1>12, UnescapeBody DEF m
<1>14. Accepted(m) /\ Content(m) = payload
  BY <1>1, <1>13, BodyGiven
<1> QED BY <1>8, <1>14

\* gp_receiv and memcpy_unesc: for all answers, buffers and chunks, and
\* whatever memory there is behind the buffer, an answer read from its first
\* byte on is given on unchanged if there is no GP_ESC where memcpy_unesc reads
\* behind its end, and that is in the buffer: with fewer than three escapes none
\* of what earlier answers left counts, with more only a GP_ESC does.
THEOREM WholeRead == Spec => []ReadWhole
<1>1. Init => ReadWhole
  BY DEF Init, ReadWhole
<1>2. FrameInv /\ ReadWhole /\ [Next]_vars => ReadWhole'
  <2> SUFFICES ASSUME FrameInv, ReadWhole, [Next]_vars PROVE ReadWhole'
    OBVIOUS
  <2>1. ASSUME NEW c \in Payloads, Send(c) PROVE ReadWhole'
    BY <2>1 DEF Send, ReadWhole
  <2>2. ASSUME NEW p \in Payloads, NEW noise, Answer(p, noise) PROVE ReadWhole'
    <3>1. ~clean'
      BY <2>2 DEF Answer, FrameInv
    <3> QED BY <3>1 DEF ReadWhole
  <2>3. ASSUME NEW n \in 1..Len(raw), n <= Room, Read(n) PROVE ReadWhole'
    <3>1. payload' = payload
      BY <2>3 DEF Read
    <3>2. raw' = << >> /\ clean' /\ Harmless' => got' = payload
      BY <2>3, ReadGives
    <3> QED BY <3>1, <3>2 DEF ReadWhole
  <2>4. ASSUME ReadNothing \/ Cut PROVE ReadWhole'
    BY <2>4 DEF ReadNothing, Cut, ReadWhole
  <2>5. ASSUME UNCHANGED vars PROVE ReadWhole'
    BY <2>5 DEF ReadWhole, Harmless, Escapes, Body, vars
  <2> QED BY <2>1, <2>2, <2>3, <2>4, <2>5 DEF Next
<1> QED BY <1>1, <1>2, FrameInductive, PTL DEF Spec
=============================================================================
