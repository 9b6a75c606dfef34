----------------------------- MODULE MCPayment ------------------------------
(***************************************************************************)
(* Small instances of Payment for TLC.                                     *)
(***************************************************************************)
EXTENDS Payment, TLC

CONSTANTS d1, d2, r1, p1, c1, c2

\* Two deliveries that can only be paid with the same proof.
MCreqOf      == [c \in Commands |-> r1]
MCdelOf      == [c \in Commands |-> IF c = c1 THEN d1 ELSE d2]
MCproofsOf   == [c \in Commands |-> {p1}]
MCTransports == <<"post", "nostr">>
MCPostOnly   == <<"post">>

\* Operations differ in nothing but their names.
SenderSymmetry == Permutations(Senders)
=============================================================================
