------------------------------ MODULE Receipts ------------------------------
(***************************************************************************)
(* Delivery receipts (packages/delivery-core/src/receipt.ts).              *)
(*                                                                         *)
(* A receipt names its delivery (request, delivery id, payload hash, mint, *)
(* unit, amount) and says how far the delivery has come.  The identifying  *)
(* fields are fixed by the delivery a receipt belongs to, so a receipt is  *)
(* modelled by what changes: status, detail code and version.              *)
(***************************************************************************)
EXTENDS Naturals

Statuses == {"processing", "settled", "rejected"}

DetailCodes ==
    {"accepted", "redeeming", "recovery_blocked", "settled", "mint_unavailable"}

Receipts ==
    [status : Statuses, detailCode : DetailCodes, statusVersion : Nat \ {0}]

\* The stored receipt of a delivery the store has never heard of.
NoReceipt == [status |-> "none", detailCode |-> "none", statusVersion |-> 0]

Terminal(r) == r.status \in {"settled", "rejected"}

\* The receipt every accepted delivery starts with.
FirstReceipt ==
    [status |-> "processing", detailCode |-> "accepted", statusVersion |-> 1]

\* Mutant: the version is not incremented.
nextReceipt_SameVersion(r, status, detailCode) ==
    [status |-> status, detailCode |-> detailCode,
     statusVersion |-> r.statusVersion]

nextReceipt(r, status, detailCode) ==
    [status |-> status, detailCode |-> detailCode,
     statusVersion |-> r.statusVersion + 1]

\* What assertReceiptTransition lets pass: the same receipt again, or one
\* version further from a receipt that is not terminal, with something
\* changed, and never a rejection after recovery was blocked.
ReceiptTransition(previous, next) ==
    IF previous = NoReceipt
    THEN next.statusVersion = 1
    ELSE \/ next = previous
         \/ /\ ~Terminal(previous)
            /\ next.statusVersion = previous.statusVersion + 1
            /\ <<next.status, next.detailCode>>
                 # <<previous.status, previous.detailCode>>
            /\ ~(previous.detailCode = "recovery_blocked"
                   /\ next.status = "rejected")

\* mergeObservedReceipt on the sending side: older receipts are ignored and
\* versions may be skipped.  When it throws instead is ReceiptConflict.
Merged(previous, next) ==
    IF next.statusVersion < previous.statusVersion THEN previous ELSE next

ReceiptConflict(previous, next) ==
    /\ previous # NoReceipt
    /\ next # previous
    /\ next.statusVersion >= previous.statusVersion
    /\ \/ next.statusVersion = previous.statusVersion
       \/ Terminal(previous)
       \/ previous.detailCode = "recovery_blocked" /\ next.status = "rejected"
=============================================================================
