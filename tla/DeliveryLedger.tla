--------------------------- MODULE DeliveryLedger ---------------------------
(***************************************************************************)
(* What the receiver promises, with no workers, locks, plans or messages:  *)
(* a ledger of deliveries and their receipts.  An accepted delivery holds  *)
(* its proofs and, for a single-use request, the request; the mint redeems *)
(* it at most once; it is credited only when redeemed, rejected only when  *)
(* not, and an ended delivery stays as it ended.                           *)
(***************************************************************************)
EXTENDS Receipts

CONSTANTS Deliveries, Commands, reqOf, delOf, proofsOf, SingleUse, NoCommand

VARIABLES
    bound,     \* delivery -> the command it was accepted with
    receipt,   \* delivery -> its receipt
    redeemed,  \* deliveries whose proofs the mint has swapped for the receiver
    credits    \* deliveries credited to the merchant

ledgerVars == <<bound, receipt, redeemed, credits>>

Init ==
    /\ bound = [d \in Deliveries |-> NoCommand]
    /\ receipt = [d \in Deliveries |-> NoReceipt]
    /\ redeemed = {}
    /\ credits = {}

Open(d) == receipt[d].status = "processing"

\* The deliveries that hold their proofs and their request.
Held == {d \in Deliveries : receipt[d].status \in {"processing", "settled"}}

Conflicts(c, e) ==
    \/ proofsOf[c] \cap proofsOf[e] # {}
    \/ reqOf[c] = reqOf[e] /\ reqOf[c] \in SingleUse

Advance(d, status, detailCode) ==
    receipt' = [receipt EXCEPT ![d] = nextReceipt(@, status, detailCode)]

Acceptable(c) ==
    /\ bound[delOf[c]] = NoCommand
    /\ \A d \in Held : ~Conflicts(c, bound[d])

Accept(c) ==
    /\ Acceptable(c)
    /\ bound' = [bound EXCEPT ![delOf[c]] = c]
    /\ receipt' = [receipt EXCEPT ![delOf[c]] = FirstReceipt]
    /\ UNCHANGED <<redeemed, credits>>

StartRedeeming(d) ==
    /\ Open(d)
    /\ receipt[d].detailCode = "accepted"
    /\ Advance(d, "processing", "redeeming")
    /\ UNCHANGED <<bound, redeemed, credits>>

BlockRecovery(d) ==
    /\ Open(d)
    /\ receipt[d].detailCode # "recovery_blocked"
    /\ Advance(d, "processing", "recovery_blocked")
    /\ UNCHANGED <<bound, redeemed, credits>>

Redeem(d) ==
    /\ Open(d)
    /\ d \notin redeemed
    /\ redeemed' = redeemed \cup {d}
    /\ UNCHANGED <<bound, receipt, credits>>

\* Credit and receipt together, or one after the other.
Settle(d) ==
    /\ Open(d)
    /\ d \in redeemed
    /\ credits' = credits \cup {d}
    /\ Advance(d, "settled", "settled")
    /\ UNCHANGED <<bound, redeemed>>

Credit(d) ==
    /\ Open(d)
    /\ d \in redeemed
    /\ credits' = credits \cup {d}
    /\ UNCHANGED <<bound, receipt, redeemed>>

Reject(d) ==
    /\ Open(d)
    /\ receipt[d].detailCode # "recovery_blocked"
    /\ d \notin redeemed
    /\ Advance(d, "rejected", "mint_unavailable")
    /\ UNCHANGED <<bound, redeemed, credits>>

Step(d) ==
    \/ StartRedeeming(d) \/ BlockRecovery(d) \/ Redeem(d)
    \/ Credit(d) \/ Settle(d) \/ Reject(d)

Next == (\E c \in Commands : Accept(c)) \/ (\E d \in Deliveries : Step(d))

Spec == Init /\ [][Next]_ledgerVars
=============================================================================
