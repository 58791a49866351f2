----------------------------- MODULE CardLedger -----------------------------
(***************************************************************************)
(* What the token database and the card memories of the controllers        *)
(* promise together: an address of the card memory belongs to one card for *)
(* ever, and a controller never holds another card at it.  The event log   *)
(* of a controller names a card by its address only, so this is what makes *)
(* db_get_cid_by_a() name the card that was really shown.                  *)
(***************************************************************************)
CONSTANTS Cards, NoCard, Addresses, Controllers

VARIABLES owner,   \* whose an address is
          cell     \* the card memory of each controller

ledgerVars == <<owner, cell>>

Init ==
    /\ owner = [a \in Addresses |-> NoCard]
    /\ cell = [d \in Controllers |-> [a \in Addresses |-> NoCard]]

\* An address that is nobody's is given to a card.
Assign(a, c) ==
    /\ owner[a] = NoCard
    /\ owner' = [owner EXCEPT ![a] = c]
    /\ UNCHANGED cell

\* A controller takes the owner of an address into its memory.
Write(d, a) ==
    /\ owner[a] # NoCard
    /\ cell' = [cell EXCEPT ![d][a] = owner[a]]
    /\ UNCHANGED owner

\* A part of a memory is overwritten with blanks.
Wipe(d, A) ==
    /\ cell' = [cell EXCEPT ![d] = [a \in Addresses |->
                                       IF a \in A THEN NoCard ELSE @[a]]]
    /\ UNCHANGED owner

Next == \/ \E a \in Addresses, c \in Cards : Assign(a, c)
        \/ \E d \in Controllers, a \in Addresses : Write(d, a)
        \/ \E d \in Controllers, A \in SUBSET Addresses : Wipe(d, A)

Spec == Init /\ [][Next]_ledgerVars
=============================================================================
