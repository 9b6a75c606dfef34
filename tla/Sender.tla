------------------------------- MODULE Sender -------------------------------
(***************************************************************************)
(* The reference sender (apps/reference-sender): sendPayment reserves      *)
(* proofs for a new delivery, stores one payload for it and sends exactly  *)
(* that payload until a receipt says how it ended; resumePayment takes up  *)
(* a stored delivery.  Both run under a per-delivery lock that lives and   *)
(* dies with a database session.  The wallet's reservations are a store of *)
(* their own, so record and reservation change in separate steps.          *)
(*                                                                         *)
(* The receiver is seen through what it returns: receipts (issued) and     *)
(* answers without a receipt (refused).                                    *)
(***************************************************************************)
EXTENDS Receipts, Sequences

CONSTANTS
    Senders,           \* operations that run sendPayment or resumePayment
    Deliveries, Commands, delOf, proofsOf,
    Transports,        \* the request's transports, in order of preference
    MaxAttempts,       \* attempts of one operation
    MaxInterruptions,  \* crashes, lost sessions and failed writes
    Nobody, NoCommand, NoDelivery

ASSUME SenderAssumption ==
    /\ delOf \in [Commands -> Deliveries]
    /\ Transports \in Seq({"post", "nostr"}) /\ Transports # <<>>
    /\ MaxAttempts \in Nat \ {0} /\ MaxInterruptions \in Nat
    /\ Nobody \notin Senders /\ NoCommand \notin Commands
    /\ NoDelivery \notin Deliveries

NoRecord == [status |-> "none", attempts |-> 0, receipt |-> NoReceipt]

SenderSteps ==
    {"idle", "reserve", "create", "attempt", "send", "wait", "save_attempt",
     "save_recovery", "save_settled", "save_rejected", "wallet_settled",
     "wallet_released", "wallet_recovery"}

VARIABLES
    reservation,   \* delivery -> state of its reservation in the wallet
    payload,       \* delivery -> the payload built from the reserved proofs
    record,        \* delivery -> the stored sender record
    slock,         \* delivery -> the operation holding its lock
    spc, job,      \* operation -> its next step, its delivery
    draft,         \* operation -> its copy of the record
    fresh,         \* operation -> it is sendPayment, not resumePayment
    live,          \* operation -> its database session still exists
    tries, retry,  \* operation -> attempts made, and whether to try again
    sent,          \* payloads sent, with the transport; they may arrive again
    issued,        \* delivery -> receipts the receiver has returned
    refused,       \* payloads the receiver has answered without a receipt
    expired,       \* payloads past their expiry and the clock skew
    interruptions

opVars     == <<slock, spc, job, draft, fresh, live, tries, retry>>
walletVars == <<reservation, payload>>
peerVars   == <<issued, refused, expired>>
senderVars == <<walletVars, record, opVars, sent, peerVars, interruptions>>

SenderInit ==
    /\ reservation = [d \in Deliveries |-> "none"]
    /\ payload = [d \in Deliveries |-> NoCommand]
    /\ record = [d \in Deliveries |-> NoRecord]
    /\ slock = [d \in Deliveries |-> Nobody]
    /\ spc = [w \in Senders |-> "idle"]
    /\ job = [w \in Senders |-> NoDelivery]
    /\ draft = [w \in Senders |-> NoRecord]
    /\ fresh = [w \in Senders |-> FALSE]
    /\ live = [w \in Senders |-> FALSE]
    /\ tries = [w \in Senders |-> 0]
    /\ retry = [w \in Senders |-> FALSE]
    /\ sent = {} /\ refused = {} /\ expired = {}
    /\ issued = [d \in Deliveries |-> {}]
    /\ interruptions = 0

-----------------------------------------------------------------------------
To(w, step) == spc' = [spc EXCEPT ![w] = step]

\* The operation returns or throws; its lock goes with it.
Done(w) ==
    /\ slock' = [d \in Deliveries |-> IF slock[d] = w THEN Nobody ELSE slock[d]]
    /\ spc' = [spc EXCEPT ![w] = "idle"]
    /\ job' = [job EXCEPT ![w] = NoDelivery]
    /\ draft' = [draft EXCEPT ![w] = NoRecord]
    /\ fresh' = [fresh EXCEPT ![w] = FALSE]
    /\ live' = [live EXCEPT ![w] = FALSE]
    /\ tries' = [tries EXCEPT ![w] = 0]
    /\ retry' = [retry EXCEPT ![w] = FALSE]

\* withDeliveryLock, entered at a step with the record as read under the lock.
Enter(w, d, step, rec, isFresh) ==
    /\ spc[w] = "idle"
    /\ slock[d] = Nobody
    /\ slock' = [slock EXCEPT ![d] = w]
    /\ To(w, step)
    /\ job' = [job EXCEPT ![w] = d]
    /\ draft' = [draft EXCEPT ![w] = rec]
    /\ fresh' = [fresh EXCEPT ![w] = isFresh]
    /\ live' = [live EXCEPT ![w] = TRUE]
    /\ UNCHANGED <<tries, retry>>

\* The transport of an attempt: failover by the number of attempts so far.
TransportOf(attempts) ==
    Transports[IF attempts < Len(Transports) THEN attempts + 1 ELSE Len(Transports)]

\* Mutant: a reservation awaiting recovery no longer binds its proofs.
Available_RecoveryFree(c) ==
    \A d \in Deliveries :
        reservation[d] \notin {"none", "released", "recovery_required"}
            => proofsOf[c] \cap proofsOf[payload[d]] = {}

\* Proofs bound to a reservation that was not released are not spent again.
Available(c) ==
    \A d \in Deliveries :
        reservation[d] \notin {"none", "released"}
            => proofsOf[c] \cap proofsOf[payload[d]] = {}

-----------------------------------------------------------------------------
(* sendPayment and resumePayment.                                            *)

\* generateDeliveryId yields an identifier nobody has used or is about to use.
StartSend(w, d) ==
    /\ record[d] = NoRecord
    /\ reservation[d] = "none"
    /\ \A v \in Senders : job[v] # d
    /\ Enter(w, d, "reserve", NoRecord, TRUE)
    /\ UNCHANGED <<walletVars, record, sent, peerVars, interruptions>>

ReserveExact(w, c) ==
    /\ spc[w] = "reserve"
    /\ delOf[c] = job[w]
    /\ c \notin expired
    /\ Available(c)
    /\ reservation' = [reservation EXCEPT ![job[w]] = "held"]
    /\ payload' = [payload EXCEPT ![job[w]] = c]
    /\ To(w, "create")
    /\ UNCHANGED <<record, slock, job, draft, fresh, live, tries, retry, sent,
                   peerVars, interruptions>>

ReserveFails(w) ==
    /\ spc[w] = "reserve"
    /\ Done(w)
    /\ UNCHANGED <<walletVars, record, sent, peerVars, interruptions>>

CreateRecord(w) ==
    LET new == [NoRecord EXCEPT !.status = "sending"]
    IN  /\ spc[w] = "create"
        /\ live[w]
        /\ record' = [record EXCEPT ![job[w]] = new]
        /\ draft' = [draft EXCEPT ![w] = new]
        /\ To(w, "attempt")
        /\ UNCHANGED <<walletVars, slock, job, fresh, live, tries, retry, sent,
                       peerVars, interruptions>>

\* Where resumePayment goes from a stored record.
ResumeAt(rec) ==
    CASE rec.status = "settled" -> "wallet_settled"
      [] rec.status = "rejected" -> "wallet_released"
      [] OTHER -> "attempt"

Resume(w, d) ==
    /\ record[d] # NoRecord
    /\ Enter(w, d, ResumeAt(record[d]),
             IF ResumeAt(record[d]) = "attempt"
             THEN [record[d] EXCEPT !.status = "sending"] ELSE record[d],
             FALSE)
    /\ UNCHANGED <<walletVars, record, sent, peerVars, interruptions>>

-----------------------------------------------------------------------------
(* runAttempts.                                                              *)

\* The attempt is stored before anything is sent.  Attempts matter only up to
\* the last transport and are counted no further.
BeginAttempt(w) ==
    LET n   == draft[w].attempts
        new == [draft[w] EXCEPT !.attempts =
                  IF n < Len(Transports) THEN n + 1 ELSE n]
    IN  /\ spc[w] = "attempt"
        /\ live[w]
        /\ record' = [record EXCEPT ![job[w]] = new]
        /\ draft' = [draft EXCEPT ![w] = new]
        /\ tries' = [tries EXCEPT ![w] = @ + 1]
        /\ retry' = [retry EXCEPT ![w] = TRUE]
        /\ To(w, "send")
        /\ UNCHANGED <<walletVars, slock, job, fresh, live, sent, peerVars,
                       interruptions>>

\* The same payload bytes every time; the Nostr transport will not send a
\* payload that has expired.
Transmit(w) ==
    LET t == TransportOf(draft[w].attempts - 1)
        c == payload[job[w]]
    IN  /\ spc[w] = "send"
        /\ IF t = "nostr" /\ c \in expired
           THEN To(w, "save_attempt") /\ UNCHANGED sent
           ELSE To(w, "wait") /\ sent' = sent \cup {<<c, t>>}
        /\ UNCHANGED <<walletVars, record, slock, job, draft, fresh, live, tries,
                       retry, peerVars, interruptions>>

\* What a receipt that was merged without a conflict makes the sender do.
AfterReceipt(r) ==
    CASE r.status = "settled" -> "save_settled"
      [] r.status = "rejected" -> "save_rejected"
      [] OTHER -> "save_attempt"

\* A receipt arrives, the latest or an earlier one.
ReceiveReceipt(w, r) ==
    LET prev == draft[w].receipt
        new  == Merged(prev, r)
    IN  /\ spc[w] = "wait"
        /\ r \in issued[job[w]]
        /\ IF ReceiptConflict(prev, r)
           THEN /\ retry' = [retry EXCEPT ![w] = FALSE]
                /\ To(w, "save_attempt")
                /\ UNCHANGED draft
           ELSE /\ retry' = [retry EXCEPT ![w] = new.detailCode # "recovery_blocked"]
                /\ draft' = [draft EXCEPT ![w] =
                               [status |-> IF Terminal(new) THEN new.status
                                                            ELSE draft[w].status,
                                attempts |-> draft[w].attempts, receipt |-> new]]
                /\ To(w, AfterReceipt(new))
        /\ UNCHANGED <<walletVars, record, slock, job, fresh, live, tries, sent,
                       peerVars, interruptions>>

\* Timeout, 429, 5xx, an unusable answer, no reply on any relay.
NoResponse(w) ==
    /\ spc[w] = "wait"
    /\ To(w, "save_attempt")
    /\ UNCHANGED <<walletVars, record, slock, job, draft, fresh, live, tries, retry,
                   sent, peerVars, interruptions>>

\* An error answer without a receipt; over Nostr, every relay refusing.
PermanentFailure(w) ==
    /\ spc[w] = "wait"
    /\ payload[job[w]] \in refused \/ TransportOf(draft[w].attempts - 1) = "nostr"
    /\ retry' = [retry EXCEPT ![w] = FALSE]
    /\ To(w, "save_attempt")
    /\ UNCHANGED <<walletVars, record, slock, job, draft, fresh, live, tries, sent,
                   peerVars, interruptions>>

\* Mutant: the write does not depend on the session that holds the lock.
SaveAttempt_AnySession(w) ==
    /\ spc[w] = "save_attempt"
    /\ record' = [record EXCEPT ![job[w]] = draft[w]]
    /\ To(w, IF retry[w] /\ tries[w] < MaxAttempts THEN "attempt" ELSE "save_recovery")
    /\ UNCHANGED <<walletVars, slock, job, draft, fresh, live, tries, retry, sent,
                   peerVars, interruptions>>

SaveAttempt(w) ==
    /\ spc[w] = "save_attempt"
    /\ live[w]
    /\ record' = [record EXCEPT ![job[w]] = draft[w]]
    /\ To(w, IF retry[w] /\ tries[w] < MaxAttempts THEN "attempt" ELSE "save_recovery")
    /\ UNCHANGED <<walletVars, slock, job, draft, fresh, live, tries, retry, sent,
                   peerVars, interruptions>>

\* Saving a status that decides what happens to the reservation.
SaveOutcome(w, step, status, next) ==
    LET new == [draft[w] EXCEPT !.status = status]
    IN  /\ spc[w] = step
        /\ live[w]
        /\ record' = [record EXCEPT ![job[w]] = new]
        /\ draft' = [draft EXCEPT ![w] = new]
        /\ To(w, next)
        /\ UNCHANGED <<walletVars, slock, job, fresh, live, tries, retry, sent,
                       peerVars, interruptions>>

SaveSettled(w)  == SaveOutcome(w, "save_settled", "settled", "wallet_settled")
SaveRejected(w) == SaveOutcome(w, "save_rejected", "rejected", "wallet_released")

\* Mutant: a payment that could not be completed gives its proofs back.
SaveRecovery_Releases(w) ==
    SaveOutcome(w, "save_recovery", "recovery_required", "wallet_released")

SaveRecovery(w) ==
    SaveOutcome(w, "save_recovery", "recovery_required", "wallet_recovery")

-----------------------------------------------------------------------------
(* The wallet: SenderReservationStore.transition.                            *)

\* Mutant: a reservation that needs recovery is never completed.
Transition_Sticky(d, status) ==
    reservation' = [reservation EXCEPT ![d] = IF @ = "held" THEN status ELSE @]

\* Settled and released reservations never change again; asking for that, or
\* for the state a reservation already has, changes nothing.
Transition(d, status) ==
    reservation' = [reservation EXCEPT ![d] =
                      IF @ \in {"settled", "released"} THEN @ ELSE status]

WalletStep(w, step, status) ==
    /\ spc[w] = step
    /\ Transition(job[w], status)
    /\ Done(w)
    /\ UNCHANGED <<payload, record, sent, peerVars, interruptions>>

MarkSettled(w)          == WalletStep(w, "wallet_settled", "settled")
ReleaseRejected(w)      == WalletStep(w, "wallet_released", "released")
MarkRecoveryRequired(w) == WalletStep(w, "wallet_recovery", "recovery_required")

-----------------------------------------------------------------------------
(* Interruptions.                                                            *)

SaveSteps ==
    {"create", "attempt", "save_attempt", "save_recovery", "save_settled",
     "save_rejected"}

Interruption ==
    interruptions < MaxInterruptions /\ interruptions' = interruptions + 1

SenderCrash(w) ==
    /\ Interruption
    /\ spc[w] # "idle"
    /\ Done(w)
    /\ UNCHANGED <<walletVars, record, sent, peerVars>>

\* The session ends and with it the lock; the operation goes on until it needs
\* the session again.
SenderLosesSession(w) ==
    /\ Interruption
    /\ live[w]
    /\ live' = [live EXCEPT ![w] = FALSE]
    /\ slock' = [slock EXCEPT ![job[w]] = Nobody]
    /\ UNCHANGED <<walletVars, record, spc, job, draft, fresh, tries, retry, sent,
                   peerVars>>

\* A store call on a dead session throws.  Before the record exists the
\* reservation is marked; later the state cannot even be read.
SenderSessionGone(w) ==
    /\ spc[w] \in SaveSteps
    /\ ~live[w]
    /\ IF spc[w] = "create"
       THEN To(w, "wallet_recovery")
            /\ UNCHANGED <<slock, job, draft, fresh, live, tries, retry>>
       ELSE Done(w)
    /\ UNCHANGED <<walletVars, record, sent, peerVars, interruptions>>

\* A write fails on a live session: sendPayment marks the reservation unless
\* the stored record has ended, resumePayment just throws.
SaveFails(w) ==
    /\ Interruption
    /\ spc[w] \in SaveSteps
    /\ live[w]
    /\ IF fresh[w] /\ record[job[w]].status \notin {"settled", "rejected"}
       THEN To(w, "wallet_recovery")
            /\ UNCHANGED <<slock, job, draft, fresh, live, tries, retry>>
       ELSE Done(w)
    /\ UNCHANGED <<walletVars, record, sent, peerVars>>

-----------------------------------------------------------------------------
OperationStep(w) ==
    \/ CreateRecord(w) \/ BeginAttempt(w) \/ Transmit(w)
    \/ (\E r \in IF job[w] = NoDelivery THEN {} ELSE issued[job[w]] : ReceiveReceipt(w, r))
    \/ NoResponse(w) \/ PermanentFailure(w) \/ SaveAttempt(w) \/ SaveSettled(w)
    \/ SaveRejected(w) \/ SaveRecovery(w) \/ MarkSettled(w) \/ ReleaseRejected(w)
    \/ MarkRecoveryRequired(w) \/ SenderSessionGone(w) \/ ReserveFails(w)
    \/ (\E c \in Commands : ReserveExact(w, c))

SenderNext ==
    \E w \in Senders :
        \/ \E d \in Deliveries : StartSend(w, d) \/ Resume(w, d)
        \/ OperationStep(w)
        \/ SenderCrash(w) \/ SenderLosesSession(w) \/ SaveFails(w)
=============================================================================
