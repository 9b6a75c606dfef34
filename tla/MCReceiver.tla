----------------------------- MODULE MCReceiver -----------------------------
(***************************************************************************)
(* Small instances of Receiver for TLC.                                    *)
(***************************************************************************)
EXTENDS Receiver, TLC

CONSTANTS w1, w2, r1, r2, d1, d2, p1, p2, c1, c2, c3

\* Every kind of conflict: c1 and c2 want the same (single-use) request, c2 and
\* c3 the same delivery id, c1 and c3 the same proof.
MCreqOf    == [c \in Commands |-> IF c = c3 THEN r2 ELSE r1]
MCdelOf    == [c \in Commands |-> IF c = c1 THEN d1 ELSE d2]
MCproofsOf == [c \in Commands |-> IF c = c2 THEN {p2} ELSE {p1}]

\* Workers differ in nothing but their names.
WorkerSymmetry == Permutations(Workers)
=============================================================================
