------------------------------ MODULE Payment -------------------------------
(***************************************************************************)
(* Sender and receiver together.  The sender is the module Sender; the     *)
(* receiver is the ledger its module is shown to implement, behind the     *)
(* payment route (HTTP) and the Nostr controller.  Payloads and receipts   *)
(* are delayed, lost, repeated and reordered by the network.               *)
(***************************************************************************)
EXTENDS Sender

CONSTANTS reqOf, SingleUse

VARIABLES bound, receipt, redeemed, credits

Ledger == INSTANCE DeliveryLedger

paymentVars == <<senderVars, bound, receipt, redeemed, credits>>

Init == SenderInit /\ Ledger!Init

receiverVars == <<bound, receipt, redeemed, credits>>

-----------------------------------------------------------------------------
\* A payload passes its expiry (and the 60 seconds of tolerated skew).
Expire(c) ==
    /\ c \notin expired
    /\ expired' = expired \cup {c}
    /\ UNCHANGED <<walletVars, record, opVars, sent, issued, refused, interruptions,
                   receiverVars>>

\* Nothing the receiver does here touches the sender's own state.
SenderUntouched == UNCHANGED <<walletVars, record, opVars, sent, expired, interruptions>>

\* parseDeliveryPayload: the sender's payloads are well formed, and pass until
\* they expire.
Parses(c) == c \notin expired

Arrived(c) == \E t \in {"post", "nostr"} : <<c, t>> \in sent

\* Until the payload expires any request for the delivery is answered with the
\* receipt as it stands, so each receipt counts as issued when it is stored.
Answer(d) ==
    issued' = [issued EXCEPT ![d] =
                 IF payload[d] \in expired THEN @ ELSE @ \cup {receipt'[d]}]

AcceptPayload(c) ==
    /\ Arrived(c) /\ Parses(c)
    /\ Ledger!Accept(c)
    /\ Answer(delOf[c])
    /\ SenderUntouched /\ UNCHANGED refused

\* An error over HTTP: the payload has expired (whatever became of its
\* delivery), it conflicts, or the store refused a step of its open delivery.
AnswerError(c) ==
    /\ <<c, "post">> \in sent
    /\ \/ ~Parses(c)
       \/ bound[delOf[c]] # c /\ ~Ledger!Acceptable(c)
       \/ bound[delOf[c]] = c /\ Ledger!Open(delOf[c])
    /\ refused' = refused \cup {c}
    /\ SenderUntouched /\ UNCHANGED <<issued, receiverVars>>

ReceiverStep(d) ==
    /\ Ledger!Step(d)
    /\ Answer(d)
    /\ SenderUntouched /\ UNCHANGED refused

Next ==
    \/ SenderNext /\ UNCHANGED receiverVars
    \/ \E c \in Commands :
          Expire(c) \/ AcceptPayload(c) \/ AnswerError(c)
    \/ \E d \in Deliveries : ReceiverStep(d)

Spec == Init /\ [][Next]_paymentVars

\* Operations do not stall, an unfinished delivery is resumed again and again,
\* and of the answers sent for ever some get through.
Fairness ==
    /\ \A w \in Senders : WF_paymentVars(OperationStep(w) /\ UNCHANGED receiverVars)
    /\ \A d \in Deliveries :
          /\ SF_paymentVars(\E w \in Senders : Resume(w, d) /\ UNCHANGED receiverVars)
          /\ SF_paymentVars(\E w \in Senders :
                /\ job[w] = d
                /\ ReceiveReceipt(w, receipt[d])
                /\ UNCHANGED receiverVars)

FairSpec == Spec /\ Fairness

-----------------------------------------------------------------------------
(* Properties.                                                               *)

\* What the sender stores about a delivery.
SenderRecords ==
    [status : {"none", "sending", "settled", "rejected", "recovery_required"},
     attempts : 0 .. Len(Transports), receipt : Receipts \cup {NoReceipt}]

\* What sender and receiver keep about deliveries, and the state of the
\* operations that work on them, is of its type.
TypeOK ==
    /\ reservation \in [Deliveries -> {"none", "held", "recovery_required", "settled",
                                       "released"}]
    /\ payload \in [Deliveries -> Commands \cup {NoCommand}]
    /\ record \in [Deliveries -> SenderRecords]
    /\ slock \in [Deliveries -> Senders \cup {Nobody}]
    /\ spc \in [Senders -> SenderSteps]
    /\ job \in [Senders -> Deliveries \cup {NoDelivery}]
    /\ draft \in [Senders -> SenderRecords]
    /\ fresh \in [Senders -> BOOLEAN]
    /\ live \in [Senders -> BOOLEAN]
    /\ tries \in [Senders -> 0 .. MaxAttempts]
    /\ retry \in [Senders -> BOOLEAN]
    /\ sent \subseteq Commands \X {"post", "nostr"}
    /\ issued \in [Deliveries -> SUBSET Receipts]
    /\ refused \subseteq Commands
    /\ expired \subseteq Commands
    /\ interruptions \in 0 .. MaxInterruptions
    /\ bound \in [Deliveries -> Commands \cup {NoCommand}]
    /\ receipt \in [Deliveries -> Receipts \cup {NoReceipt}]
    /\ redeemed \subseteq Deliveries
    /\ credits \subseteq Deliveries

\* The wallet gives proofs back to be spent again only when the receiver has
\* rejected their delivery unredeemed, and writes them off only when the
\* merchant was credited, whatever was lost, repeated or interrupted between.
ReservationAgreesWithLedger ==
    \A d \in Deliveries :
        /\ reservation[d] = "released" =>
              receipt[d].status = "rejected" /\ d \notin redeemed
        /\ reservation[d] = "settled" => d \in credits /\ receipt[d].status = "settled"

\* Proofs the wallet would reserve for a new payment are unspent at the mint,
\* although a delivery it has given up on may still be redeemed.
FreeProofsUnspent ==
    \A c \in Commands : Available(c) =>
        \A d \in redeemed : proofsOf[c] \cap proofsOf[bound[d]] = {}

\* No receipt the receiver has issued, however old and in whatever order it
\* arrives, makes mergeObservedReceipt throw: the sender never takes an honest
\* receiver for a contradicting one.
NoReceiptConflict ==
    \A w \in Senders : spc[w] = "wait" =>
        \A r \in issued[job[w]] : ~ReceiptConflict(draft[w].receipt, r)

\* What the sender has on record only moves forward: the receipt version never
\* falls and an ended delivery stays ended, although an operation that lost
\* its lock still holds an older copy of the record.
RecordAdvances ==
    [][\A d \in Deliveries :
         /\ record'[d].receipt.statusVersion >= record[d].receipt.statusVersion
         /\ record[d].status \in {"settled", "rejected"}
              => record'[d].status = record[d].status]_paymentVars

\* Retry convergence: a delivery that has ended at the receiver ends the same
\* way at the sender, reservation included, unless the payload expires first.
SenderConverges ==
    \A d \in Deliveries :
        /\ receipt[d].status = "settled"
              ~> reservation[d] = "settled" \/ payload[d] \in expired
        /\ receipt[d].status = "rejected"
              ~> reservation[d] = "released" \/ payload[d] \in expired

\* delivery-v1.md: an identical retry returns the stored receipt.
IdenticalRetryGetsReceipt ==
    [][\A c \in Commands :
         /\ c \in refused' \ refused
         /\ bound[delOf[c]] = c
         => ~Terminal(receipt[delOf[c]])]_paymentVars
=============================================================================
