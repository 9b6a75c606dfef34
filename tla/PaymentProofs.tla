--------------------------- MODULE PaymentProofs ---------------------------
(***************************************************************************)
(* Sender and receiver together, for any number of operations, deliveries, *)
(* payloads, transports, attempts and interruptions: the record the sender *)
(* keeps, the wallet's reservation and the receiver's ledger agree.        *)
(***************************************************************************)
EXTENDS Payment, TLAPS

USE ZenonT(10), SMTT(15), Z3T(15)

Ended == {"settled", "rejected"}

\* An operation has a delivery while it works, and attempts left when it is
\* about to make one.
JobOK(w) ==
    /\ spc[w] = "idle" <=> job[w] = NoDelivery
    /\ spc[w] \in {"idle", "reserve", "create"} => tries[w] = 0 /\ draft[w] = NoRecord
    /\ spc[w] = "attempt" => tries[w] < MaxAttempts
    /\ spc[w] = "send" => draft[w].attempts # 0

JobsOK == \A w \in Senders : JobOK(w)

\* The lock of a delivery and the session of its holder come and go together.
LockOK(w) ==
    /\ live[w] => spc[w] # "idle" /\ slock[job[w]] = w
    /\ \A d \in Deliveries : slock[d] = w => live[w] /\ job[w] = d

LocksOK == \A w \in Senders : LockOK(w)

\* One payload per delivery: built when its proofs are reserved, by the only
\* operation that knows the delivery then, and never replaced.
PayloadOK(d) ==
    /\ reservation[d] = "none" <=> payload[d] = NoCommand
    /\ payload[d] # NoCommand => delOf[payload[d]] = d
    /\ reservation[d] = "none" => record[d] = NoRecord
    /\ bound[d] # NoCommand => bound[d] = payload[d]

Alone(w) == \A v \in Senders \ {w} : job[v] # job[w]

WorkOK(w) ==
    /\ spc[w] = "reserve" => reservation[job[w]] = "none"
    /\ spc[w] \in {"reserve", "create"} => record[job[w]] = NoRecord /\ Alone(w)
    /\ spc[w] \notin {"idle", "reserve"} => reservation[job[w]] # "none"

SentOK ==
    \A c \in Commands, t \in {"post", "nostr"} : <<c, t>> \in sent => payload[delOf[c]] = c

WalletOK ==
    /\ \A d \in Deliveries : PayloadOK(d)
    /\ \A w \in Senders : WorkOK(w)
    /\ SentOK

\* The ledger: what a receipt says about redemption and credit.
LedgerOK ==
    \A d \in Deliveries :
        /\ bound[d] = NoCommand <=> receipt[d] = NoReceipt
        /\ receipt[d] = NoReceipt => d \notin redeemed
        /\ receipt[d].status = "rejected" => d \notin redeemed
        /\ receipt[d].status = "settled" => d \in credits

\* The receipts issued for a delivery lead up to the one it has now.
IssuedOK ==
    \A d \in Deliveries : \A r \in issued[d] :
        /\ r.statusVersion <= receipt[d].statusVersion
        /\ r.statusVersion = receipt[d].statusVersion => r = receipt[d]
        /\ Terminal(r) => r = receipt[d]
        /\ r.detailCode = "recovery_blocked" => r = receipt[d] \/ receipt[d].status = "settled"
        /\ \A q \in issued[d] : ~ReceiptConflict(q, r)

\* A record or a copy of one holds a receipt that was issued, and says the
\* delivery has ended exactly when that receipt does.
Honest(rec, d) ==
    /\ rec.receipt \in issued[d] \cup {NoReceipt}
    /\ rec.status \in Ended => rec.receipt.status = rec.status
    /\ Terminal(rec.receipt) => rec.status = rec.receipt.status

\* Steps at which an operation does not know yet how its delivery ended.
OpenSteps ==
    {"reserve", "create", "attempt", "send", "wait", "save_attempt", "save_recovery"}

Fits(step, status) ==
    /\ step \in OpenSteps => status \notin Ended
    /\ step \in {"save_settled", "wallet_settled"} => status = "settled"
    /\ step \in {"save_rejected", "wallet_released"} => status = "rejected"

DraftsOK ==
    /\ \A d \in Deliveries : Honest(record[d], d)
    /\ \A w \in Senders : spc[w] # "idle" =>
          Honest(draft[w], job[w]) /\ Fits(spc[w], draft[w].status)

\* Under the lock the copy is at least as recent as the record.
UpToDate(w) ==
    /\ draft[w].receipt.statusVersion >= record[job[w]].receipt.statusVersion
    /\ record[job[w]].status \in Ended => draft[w].status = record[job[w]].status

CopiesOK == \A w \in Senders : live[w] => UpToDate(w)

PaymentInv ==
    /\ TypeOK /\ JobsOK /\ LocksOK /\ WalletOK /\ LedgerOK /\ IssuedOK /\ DraftsOK
    /\ CopiesOK /\ ReservationAgreesWithLedger

-----------------------------------------------------------------------------
(* Records and transports.                                                   *)

LEMMA NoRecordType ==
    /\ NoRecord \in SenderRecords /\ NoRecord.status = "none" /\ NoRecord.attempts = 0
    /\ NoRecord.receipt = NoReceipt /\ NoReceipt.status = "none"
    /\ NoReceipt.statusVersion = 0 /\ ~Terminal(NoReceipt) /\ NoReceipt \notin Receipts
<1>1. Len(Transports) \in Nat
  BY SenderAssumption
<1> QED
  BY <1>1 DEF NoRecord, SenderRecords, NoReceipt, Terminal, Receipts, Statuses

LEMMA VersionType ==
  ASSUME NEW rec \in SenderRecords
  PROVE  rec.receipt.statusVersion \in Nat
  BY DEF SenderRecords, Receipts, NoReceipt

LEMMA StatusUpdate ==
  ASSUME NEW rec \in SenderRecords,
         NEW st \in {"none", "sending", "settled", "rejected", "recovery_required"}
  PROVE  LET new == [rec EXCEPT !.status = st]
         IN  /\ new \in SenderRecords /\ new.status = st
             /\ new.attempts = rec.attempts /\ new.receipt = rec.receipt
  BY DEF SenderRecords

LEMMA AttemptsUpdate ==
  ASSUME NEW rec \in SenderRecords, NEW n \in 0 .. Len(Transports)
  PROVE  LET new == [rec EXCEPT !.attempts = n]
         IN  /\ new \in SenderRecords /\ new.attempts = n
             /\ new.status = rec.status /\ new.receipt = rec.receipt
  BY DEF SenderRecords

\* A receipt merged into a record, with the status it brings if it is terminal.
LEMMA MergedRecord ==
  ASSUME NEW rec \in SenderRecords, NEW r \in Receipts
  PROVE  LET m   == Merged(rec.receipt, r)
             new == [status |-> IF Terminal(m) THEN m.status ELSE rec.status,
                     attempts |-> rec.attempts, receipt |-> m]
         IN  /\ m \in {rec.receipt, r} /\ m \in Receipts
             /\ m.statusVersion >= rec.receipt.statusVersion
             /\ new \in SenderRecords
<1>1. r.statusVersion \in Nat \ {0} /\ rec.receipt.statusVersion \in Nat
  BY DEF SenderRecords, Receipts, NoReceipt
<1>2. rec.receipt = NoReceipt => Merged(rec.receipt, r) = r
  BY <1>1 DEF Merged, NoReceipt
<1>3. /\ Merged(rec.receipt, r) \in {rec.receipt, r}
      /\ Merged(rec.receipt, r).statusVersion >= rec.receipt.statusVersion
  BY <1>1 DEF Merged
<1>4. Merged(rec.receipt, r) \in Receipts
  BY <1>2, <1>3 DEF SenderRecords
<1> QED
  BY <1>3, <1>4 DEF SenderRecords, Terminal

LEMMA TransportType ==
  ASSUME NEW n \in 0 .. Len(Transports), n # 0
  PROVE  TransportOf(n - 1) \in {"post", "nostr"}
<1>1. Transports \in Seq({"post", "nostr"}) /\ Len(Transports) \in Nat
  BY SenderAssumption
<1>2. TransportOf(n - 1) = Transports[n] /\ n \in 1 .. Len(Transports)
  BY <1>1 DEF TransportOf
<1> QED
  BY <1>1, <1>2

-----------------------------------------------------------------------------
(* What the receiver does in one step.                                       *)

\* The receipt that follows an open one.
Follows(old, new) ==
    /\ new \in Receipts
    /\ new.statusVersion = old.statusVersion + 1
    /\ old.detailCode = "recovery_blocked" => new.status = "settled"

LEMMA NextReceiptFollows ==
  ASSUME NEW old \in Receipts, NEW st \in Statuses, NEW dc \in DetailCodes,
         old.detailCode = "recovery_blocked" => st = "settled"
  PROVE  Follows(old, Ledger!nextReceipt(old, st, dc)) /\ Ledger!nextReceipt(old, st, dc).status = st
  BY DEF Follows, Ledger!nextReceipt, Receipts

LEMMA LedgerSteps ==
  ASSUME TypeOK, NEW d \in Deliveries, Ledger!Step(d)
  PROVE  /\ receipt[d] \in Receipts /\ receipt[d].status = "processing" /\ bound' = bound
         /\ redeemed \subseteq redeemed' /\ redeemed' \subseteq redeemed \cup {d}
         /\ credits \subseteq credits' /\ credits' \subseteq credits \cup {d}
         /\ \E new \in Receipts :
               /\ receipt' = [receipt EXCEPT ![d] = new]
               /\ new = receipt[d] \/ (Follows(receipt[d], new) /\ redeemed' = redeemed)
               /\ new.status = "rejected" => d \notin redeemed
               /\ new.status = "settled" => d \in credits'
<1>1. Ledger!Open(d)
  BY DEF Ledger!Step, Ledger!StartRedeeming, Ledger!BlockRecovery, Ledger!Redeem,
         Ledger!Credit, Ledger!Settle, Ledger!Reject
<1>2. /\ receipt[d] \in Receipts /\ receipt[d].status = "processing"
      /\ receipt' = receipt => receipt' = [receipt EXCEPT ![d] = receipt[d]]
  BY <1>1 DEF Ledger!Open, TypeOK, NoReceipt
<1>3. CASE Ledger!Redeem(d) \/ Ledger!Credit(d)
  BY <1>2, <1>3 DEF Ledger!Redeem, Ledger!Credit
<1>4. CASE Ledger!StartRedeeming(d)
  <2>1. receipt' = [receipt EXCEPT ![d] = Ledger!nextReceipt(receipt[d], "processing", "redeeming")]
    BY <1>4 DEF Ledger!StartRedeeming, Ledger!Advance
  <2>2. LET n == Ledger!nextReceipt(receipt[d], "processing", "redeeming")
        IN  Follows(receipt[d], n) /\ n.status = "processing"
    BY <1>2, <1>4, NextReceiptFollows DEF Ledger!StartRedeeming, Statuses, DetailCodes
  <2> QED
    BY <1>2, <1>4, <2>1, <2>2 DEF Ledger!StartRedeeming, Follows
<1>5. CASE Ledger!BlockRecovery(d)
  <2>1. receipt' = [receipt EXCEPT ![d] =
                      Ledger!nextReceipt(receipt[d], "processing", "recovery_blocked")]
    BY <1>5 DEF Ledger!BlockRecovery, Ledger!Advance
  <2>2. LET n == Ledger!nextReceipt(receipt[d], "processing", "recovery_blocked")
        IN  Follows(receipt[d], n) /\ n.status = "processing"
    BY <1>2, <1>5, NextReceiptFollows DEF Ledger!BlockRecovery, Statuses, DetailCodes
  <2> QED
    BY <1>2, <1>5, <2>1, <2>2 DEF Ledger!BlockRecovery, Follows
<1>6. CASE Ledger!Settle(d)
  <2>1. receipt' = [receipt EXCEPT ![d] = Ledger!nextReceipt(receipt[d], "settled", "settled")]
    BY <1>6 DEF Ledger!Settle, Ledger!Advance
  <2>2. LET n == Ledger!nextReceipt(receipt[d], "settled", "settled")
        IN  Follows(receipt[d], n) /\ n.status = "settled"
    BY <1>2, NextReceiptFollows DEF Statuses, DetailCodes
  <2> QED
    BY <1>2, <1>6, <2>1, <2>2 DEF Ledger!Settle, Follows
<1>7. CASE Ledger!Reject(d)
  <2>1. receipt' = [receipt EXCEPT ![d] =
                      Ledger!nextReceipt(receipt[d], "rejected", "mint_unavailable")]
    BY <1>7 DEF Ledger!Reject, Ledger!Advance
  <2>2. LET n == Ledger!nextReceipt(receipt[d], "rejected", "mint_unavailable")
        IN  Follows(receipt[d], n) /\ n.status = "rejected"
    BY <1>2, <1>7, NextReceiptFollows DEF Ledger!Reject, Statuses, DetailCodes
  <2> QED
    BY <1>2, <1>7, <2>1, <2>2 DEF Ledger!Reject, Follows
<1> QED
  BY <1>3, <1>4, <1>5, <1>6, <1>7 DEF Ledger!Step

-----------------------------------------------------------------------------
(* What the sender does in one step.                                         *)

\* An operation takes up a delivery under its lock, a new one or a stored one.
Enters(w, d, step, rec) ==
    /\ rec \in SenderRecords /\ Honest(rec, d) /\ Fits(step, rec.status)
    /\ rec.receipt = record[d].receipt /\ (record[d].status \in Ended => rec.status = record[d].status)
    /\ \/ /\ step = "reserve" /\ rec = NoRecord /\ record[d] = NoRecord
          /\ reservation[d] = "none" /\ \A v \in Senders : job[v] # d
       \/ step \in {"attempt", "wallet_settled", "wallet_released"} /\ record[d] # NoRecord
    /\ spc[w] = "idle" /\ slock[d] = Nobody
    /\ slock' = [slock EXCEPT ![d] = w]
    /\ spc' = [spc EXCEPT ![w] = step]
    /\ job' = [job EXCEPT ![w] = d]
    /\ draft' = [draft EXCEPT ![w] = rec]
    /\ live' = [live EXCEPT ![w] = TRUE]
    /\ \E b \in BOOLEAN : fresh' = [fresh EXCEPT ![w] = b]
    /\ UNCHANGED <<walletVars, record, tries, retry, sent, interruptions>>

\* An operation reserves the proofs of its payload.
Reserves(w, c) ==
    /\ spc[w] = "reserve" /\ delOf[c] = job[w]
    /\ reservation' = [reservation EXCEPT ![job[w]] = "held"]
    /\ payload' = [payload EXCEPT ![job[w]] = c]
    /\ spc' = [spc EXCEPT ![w] = "create"]
    /\ UNCHANGED <<record, slock, job, draft, fresh, live, tries, retry, sent, interruptions>>

\* An operation moves on with a copy that is as honest and as recent as before,
\* and may write it to the record or send its payload.
Advances(w, new, next) ==
    /\ spc[w] \notin {"idle", "reserve"} /\ next \notin {"idle", "reserve", "create"}
    /\ Honest(new, job[w]) /\ Fits(next, new.status)
    /\ new.receipt.statusVersion >= draft[w].receipt.statusVersion
    /\ draft[w].status \in Ended => new.status = draft[w].status
    /\ next = "attempt" => tries'[w] < MaxAttempts
    /\ next = "send" => new.attempts # 0

AdvanceFrame(w, new, next) ==
    /\ spc' = [spc EXCEPT ![w] = next]
    /\ draft' = [draft EXCEPT ![w] = new]
    /\ \/ record' = record
       \/ live[w] /\ record' = [record EXCEPT ![job[w]] = new]
    /\ sent' \subseteq sent \cup ({payload[job[w]]} \X {"post", "nostr"})
    /\ \E n \in 0 .. MaxAttempts : tries' = [tries EXCEPT ![w] = n]
    /\ \E b \in BOOLEAN : retry' = [retry EXCEPT ![w] = b]
    /\ interruptions' \in 0 .. MaxInterruptions
    /\ UNCHANGED <<reservation, payload, slock, job, fresh, live>>

\* An operation ends; it has changed nothing else, or the wallet.
Leaves(w) ==
    /\ Done(w)
    /\ UNCHANGED <<record, sent, payload>>
    /\ interruptions' \in 0 .. MaxInterruptions
    /\ \/ reservation' = reservation
       \/ \E step \in {"wallet_settled", "wallet_released", "wallet_recovery"},
             status \in {"settled", "released", "recovery_required"} :
             /\ <<step, status>> \in {<<"wallet_settled", "settled">>,
                                      <<"wallet_released", "released">>,
                                      <<"wallet_recovery", "recovery_required">>}
             /\ spc[w] = step /\ Transition(job[w], status)

\* An operation loses its session, and with it the lock.
LosesLock(w) ==
    /\ live[w]
    /\ live' = [live EXCEPT ![w] = FALSE]
    /\ slock' = [slock EXCEPT ![job[w]] = Nobody]
    /\ interruptions' \in 0 .. MaxInterruptions
    /\ UNCHANGED <<walletVars, record, spc, job, draft, fresh, tries, retry, sent>>

SenderMoves(w) ==
    \/ \E d \in Deliveries, step \in SenderSteps, rec \in SenderRecords : Enters(w, d, step, rec)
    \/ \E c \in Commands : Reserves(w, c)
    \/ \E new \in SenderRecords, next \in SenderSteps :
          Advances(w, new, next) /\ AdvanceFrame(w, new, next)
    \/ Leaves(w)
    \/ LosesLock(w)

\* The facts about one operation that its steps rest on.
LEMMA OperationFacts ==
  ASSUME PaymentInv, NEW w \in Senders, spc[w] # "idle"
  PROVE  /\ job[w] \in Deliveries /\ draft[w] \in SenderRecords
         /\ Honest(draft[w], job[w]) /\ Fits(spc[w], draft[w].status)
         /\ tries[w] \in 0 .. MaxAttempts /\ retry[w] \in BOOLEAN
         /\ tries = [tries EXCEPT ![w] = tries[w]]
         /\ retry = [retry EXCEPT ![w] = retry[w]]
         /\ draft = [draft EXCEPT ![w] = draft[w]]
         /\ draft[w].attempts \in 0 .. Len(Transports)
         /\ interruptions \in 0 .. MaxInterruptions
  BY DEF PaymentInv, TypeOK, JobsOK, JobOK, DraftsOK, SenderRecords

LEMMA InterruptionType ==
  ASSUME PaymentInv, Interruption
  PROVE  interruptions' \in 0 .. MaxInterruptions
  BY SenderAssumption DEF PaymentInv, TypeOK, Interruption

LEMMA EnterMoves ==
  ASSUME PaymentInv, NEW w \in Senders, NEW d \in Deliveries, StartSend(w, d) \/ Resume(w, d)
  PROVE  SenderMoves(w)
<1>1. CASE StartSend(w, d)
  <2>1. Honest(NoRecord, d) /\ Fits("reserve", NoRecord.status) /\ NoRecord \in SenderRecords
    BY NoRecordType DEF Honest, Fits, Ended, OpenSteps
  <2>2. Enters(w, d, "reserve", NoRecord)
    BY <1>1, <2>1, NoRecordType DEF StartSend, Enter, Enters, To, Ended
  <2> QED
    BY <2>1, <2>2 DEF SenderMoves, SenderSteps
<1>2. CASE Resume(w, d)
  <2>0. record[d] \in SenderRecords /\ Honest(record[d], d) /\ record[d] # NoRecord
    BY <1>2 DEF PaymentInv, TypeOK, DraftsOK, Resume
  <2>1. CASE record[d].status \in Ended
    <3>1. PICK step \in {"wallet_settled", "wallet_released"} :
             step = ResumeAt(record[d]) /\ Fits(step, record[d].status)
      BY <2>1 DEF ResumeAt, Ended, Fits, OpenSteps
    <3>2. Enters(w, d, step, record[d])
      BY <1>2, <2>0, <3>1 DEF Resume, Enter, Enters, To
    <3> QED
      BY <2>0, <3>2 DEF SenderMoves, SenderSteps
  <2>2. CASE record[d].status \notin Ended
    <3> DEFINE rec == [record[d] EXCEPT !.status = "sending"]
    <3>1. ResumeAt(record[d]) = "attempt"
      BY <2>2 DEF ResumeAt, Ended
    <3>3. rec \in SenderRecords /\ rec.status = "sending" /\ rec.receipt = record[d].receipt
      BY <2>0, StatusUpdate
    <3> HIDE DEF rec
    <3>4. Honest(rec, d) /\ Fits("attempt", rec.status)
      BY <2>0, <2>2, <3>3 DEF Honest, Ended, Terminal, Fits, OpenSteps
    <3>5. Enters(w, d, "attempt", rec)
      BY <1>2, <2>0, <2>2, <3>1, <3>3, <3>4 DEF Resume, Enter, Enters, To, rec
    <3> QED
      BY <3>3, <3>5 DEF SenderMoves, SenderSteps
  <2> QED
    BY <2>1, <2>2
<1> QED
  BY <1>1, <1>2

LEMMA Saves ==
  ASSUME PaymentInv, NEW w \in Senders, CreateRecord(w) \/ BeginAttempt(w) \/ SaveAttempt(w)
  PROVE  SenderMoves(w)
<1>0. Len(Transports) \in Nat \ {0} /\ MaxAttempts \in Nat \ {0} /\ spc[w] # "idle"
  BY SenderAssumption DEF CreateRecord, BeginAttempt, SaveAttempt
<1>1. CASE CreateRecord(w)
  <2> DEFINE new == [NoRecord EXCEPT !.status = "sending"]
  <2>1. new \in SenderRecords /\ new.status = "sending" /\ new.receipt = NoReceipt
    BY NoRecordType, StatusUpdate
  <2>2. draft[w] = NoRecord /\ tries[w] = 0
    BY <1>1 DEF PaymentInv, JobsOK, JobOK, CreateRecord
  <2> HIDE DEF new
  <2>3. Honest(new, job[w]) /\ Fits("attempt", new.status)
    BY <2>1, NoRecordType DEF Honest, Fits, Ended, OpenSteps
  <2>4. Advances(w, new, "attempt")
    BY <1>0, <1>1, <2>1, <2>2, <2>3, NoRecordType DEF Advances, CreateRecord, Ended
  <2>5. AdvanceFrame(w, new, "attempt")
    BY <1>0, <1>1, OperationFacts DEF AdvanceFrame, CreateRecord, To, new, walletVars
  <2> QED
    BY <2>1, <2>4, <2>5 DEF SenderMoves, SenderSteps
<1>2. CASE BeginAttempt(w)
  <2> DEFINE n == draft[w].attempts
  <2> DEFINE k == IF n < Len(Transports) THEN n + 1 ELSE n
  <2> DEFINE new == [draft[w] EXCEPT !.attempts = k]
  <2>1. n \in 0 .. Len(Transports) /\ draft[w] \in SenderRecords
    BY <1>0, OperationFacts
  <2>2. k \in 0 .. Len(Transports) /\ k # 0
    BY <1>0, <2>1
  <2>3. /\ new \in SenderRecords /\ new.status = draft[w].status /\ new.attempts = k
        /\ new.receipt = draft[w].receipt
    BY <2>1, <2>2, AttemptsUpdate
  <2>4. /\ record' = [record EXCEPT ![job[w]] = new] /\ draft' = [draft EXCEPT ![w] = new]
        /\ live[w] /\ spc[w] = "attempt"
    BY <1>2 DEF BeginAttempt
  <2>5. \E m \in 0 .. MaxAttempts : tries' = [tries EXCEPT ![w] = m]
    <3>1. tries[w] + 1 \in 0 .. MaxAttempts
      BY <1>0, <2>4, OperationFacts DEF PaymentInv, JobsOK, JobOK
    <3> QED
      BY <1>2, <3>1 DEF BeginAttempt
  <2> HIDE DEF new, k
  <2>6. Honest(new, job[w]) /\ Fits("send", new.status)
    BY <1>0, <2>3, <2>4, OperationFacts DEF Honest, Fits, OpenSteps
  <2>7. draft[w].receipt.statusVersion \in Nat
    BY <2>1 DEF SenderRecords, Receipts, NoReceipt
  <2>8. Advances(w, new, "send")
    BY <2>2, <2>3, <2>4, <2>6, <2>7 DEF Advances
  <2>9. AdvanceFrame(w, new, "send")
    BY <1>0, <1>2, <2>4, <2>5, OperationFacts DEF AdvanceFrame, BeginAttempt, To, walletVars
  <2> QED
    BY <2>3, <2>8, <2>9 DEF SenderMoves, SenderSteps
<1>3. CASE SaveAttempt(w)
  <2>1. PICK next \in {"attempt", "save_recovery"} :
           To(w, next) /\ (next = "attempt" => tries[w] < MaxAttempts)
    BY <1>3 DEF SaveAttempt
  <2>2. draft[w].receipt.statusVersion \in Nat
    BY <1>0, OperationFacts DEF SenderRecords, Receipts, NoReceipt
  <2>3. Fits(next, draft[w].status)
    BY <1>0, <1>3, <2>1, OperationFacts DEF SaveAttempt, Fits, OpenSteps
  <2>4. Advances(w, draft[w], next)
    BY <1>0, <1>3, <2>1, <2>2, <2>3, OperationFacts DEF Advances, SaveAttempt
  <2>5. AdvanceFrame(w, draft[w], next)
    BY <1>0, <1>3, <2>1, OperationFacts DEF AdvanceFrame, SaveAttempt, To, walletVars
  <2> QED
    BY <1>0, <2>1, <2>4, <2>5, OperationFacts DEF SenderMoves, SenderSteps
<1> QED
  BY <1>1, <1>2, <1>3

LEMMA SavesOutcome ==
  ASSUME PaymentInv, NEW w \in Senders, SaveSettled(w) \/ SaveRejected(w) \/ SaveRecovery(w)
  PROVE  SenderMoves(w)
<1>1. PICK step \in {"save_settled", "save_rejected", "save_recovery"},
           status \in {"settled", "rejected", "recovery_required"},
           next \in {"wallet_settled", "wallet_released", "wallet_recovery"} :
         /\ <<step, status, next>> \in {<<"save_settled", "settled", "wallet_settled">>,
                                        <<"save_rejected", "rejected", "wallet_released">>,
                                        <<"save_recovery", "recovery_required", "wallet_recovery">>}
         /\ SaveOutcome(w, step, status, next)
  BY DEF SaveSettled, SaveRejected, SaveRecovery
<1> DEFINE new == [draft[w] EXCEPT !.status = status]
<1>2. /\ spc[w] = step /\ spc[w] # "idle" /\ spc[w] # "reserve" /\ live[w]
      /\ record' = [record EXCEPT ![job[w]] = new] /\ draft' = [draft EXCEPT ![w] = new]
  BY <1>1 DEF SaveOutcome
<1>3. draft[w] \in SenderRecords /\ draft[w].receipt.statusVersion \in Nat
  BY <1>2, OperationFacts DEF SenderRecords, Receipts, NoReceipt
<1>4. new \in SenderRecords /\ new.status = status /\ new.receipt = draft[w].receipt
  <2>1. status \in {"none", "sending", "settled", "rejected", "recovery_required"}
    OBVIOUS
  <2> QED
    BY <1>3, <2>1, StatusUpdate
<1> HIDE DEF new
<1>5. Honest(draft[w], job[w]) /\ Fits(step, draft[w].status)
  BY <1>2, OperationFacts
<1>6. /\ Honest(new, job[w]) /\ Fits(next, new.status)
      /\ draft[w].status \in Ended => new.status = draft[w].status
  BY <1>1, <1>4, <1>5 DEF Honest, Fits, Ended, OpenSteps, Terminal
<1>7. Advances(w, new, next)
  BY <1>1, <1>2, <1>3, <1>4, <1>6 DEF Advances
<1>8. AdvanceFrame(w, new, next)
  BY <1>1, <1>2, OperationFacts DEF AdvanceFrame, SaveOutcome, To, walletVars
<1> QED
  BY <1>1, <1>4, <1>7, <1>8 DEF SenderMoves, SenderSteps

\* The steps that leave both the copy and the record alone.
LEMMA GoesOn ==
  ASSUME PaymentInv, NEW w \in Senders, Transmit(w) \/ NoResponse(w) \/ PermanentFailure(w)
  PROVE  SenderMoves(w)
<1>0. spc[w] \in {"send", "wait"} /\ spc[w] # "idle"
  BY DEF Transmit, NoResponse, PermanentFailure
<1>1. PICK next \in {"wait", "save_attempt"} : To(w, next)
  BY DEF Transmit, NoResponse, PermanentFailure
<1>2. draft[w].receipt.statusVersion \in Nat
  BY <1>0, OperationFacts DEF SenderRecords, Receipts, NoReceipt
<1>3. Fits(next, draft[w].status)
  BY <1>0, <1>1, OperationFacts DEF Fits, OpenSteps
<1>4. Advances(w, draft[w], next)
  BY <1>0, <1>1, <1>2, <1>3, OperationFacts DEF Advances
<1>5. sent' \subseteq sent \cup ({payload[job[w]]} \X {"post", "nostr"})
  <2>1. CASE Transmit(w)
    <3>1. TransportOf(draft[w].attempts - 1) \in {"post", "nostr"}
      BY <1>0, <2>1, OperationFacts, TransportType DEF Transmit, PaymentInv, JobsOK, JobOK
    <3> QED
      BY <2>1, <3>1 DEF Transmit
  <2>2. CASE NoResponse(w) \/ PermanentFailure(w)
    BY <2>2 DEF NoResponse, PermanentFailure
  <2> QED
    BY <2>1, <2>2
<1>6. \E b \in BOOLEAN : retry' = [retry EXCEPT ![w] = b]
  BY <1>0, OperationFacts DEF Transmit, NoResponse, PermanentFailure
<1>7. UNCHANGED <<reservation, payload, record, slock, job, draft, fresh, live, tries,
                  interruptions>>
  BY DEF Transmit, NoResponse, PermanentFailure, walletVars
<1>8. AdvanceFrame(w, draft[w], next)
  BY <1>0, <1>1, <1>5, <1>6, <1>7, OperationFacts DEF AdvanceFrame, To
<1> QED
  BY <1>0, <1>1, <1>4, <1>8, OperationFacts DEF SenderMoves, SenderSteps

LEMMA Receives ==
  ASSUME PaymentInv, NEW w \in Senders, NEW r, ReceiveReceipt(w, r)
  PROVE  SenderMoves(w)
<1> DEFINE m   == Merged(draft[w].receipt, r)
<1> DEFINE new == [status |-> IF Terminal(m) THEN m.status ELSE draft[w].status,
                   attempts |-> draft[w].attempts, receipt |-> m]
<1>0. /\ spc[w] = "wait" /\ spc[w] # "idle" /\ job[w] \in Deliveries /\ r \in issued[job[w]]
      /\ r \in Receipts /\ draft[w] \in SenderRecords
      /\ draft[w].receipt.statusVersion \in Nat
      /\ Honest(draft[w], job[w]) /\ draft[w].status \notin Ended
  <2>1. spc[w] = "wait" /\ spc[w] # "idle" /\ r \in issued[job[w]]
    BY DEF ReceiveReceipt
  <2>2. /\ job[w] \in Deliveries /\ draft[w] \in SenderRecords /\ Honest(draft[w], job[w])
        /\ draft[w].status \notin Ended
    BY <2>1, OperationFacts DEF Fits, OpenSteps
  <2> QED
    BY <2>1, <2>2 DEF PaymentInv, TypeOK, SenderRecords, Receipts, NoReceipt
<1>1. \E b \in BOOLEAN : retry' = [retry EXCEPT ![w] = b]
  BY DEF ReceiveReceipt
<1>2. CASE ReceiptConflict(draft[w].receipt, r)
  <2>1. Fits("save_attempt", draft[w].status)
    BY <1>0 DEF Fits, OpenSteps
  <2>2. Advances(w, draft[w], "save_attempt")
    BY <1>0, <2>1 DEF Advances
  <2>3. AdvanceFrame(w, draft[w], "save_attempt")
    BY <1>0, <1>1, <1>2, OperationFacts DEF AdvanceFrame, ReceiveReceipt, To, walletVars
  <2> QED
    BY <1>0, <2>2, <2>3 DEF SenderMoves, SenderSteps
<1>3. CASE ~ReceiptConflict(draft[w].receipt, r)
  <2>1. /\ m \in {draft[w].receipt, r} /\ m \in Receipts /\ new \in SenderRecords
        /\ m.statusVersion >= draft[w].receipt.statusVersion
    BY <1>0, MergedRecord
  <2>2. draft' = [draft EXCEPT ![w] = new]
    BY <1>3 DEF ReceiveReceipt
  <2>3. PICK next \in {"save_settled", "save_rejected", "save_attempt"} :
           /\ To(w, next)
           /\ next = "save_settled" => m.status = "settled"
           /\ next = "save_rejected" => m.status = "rejected"
           /\ next = "save_attempt" => ~Terminal(m)
    BY <1>3, <2>1 DEF ReceiveReceipt, AfterReceipt, Terminal, Receipts, Statuses
  <2>4. /\ new.receipt = m /\ new.status = IF Terminal(m) THEN m.status ELSE draft[w].status
        /\ m \in issued[job[w]] \cup {NoReceipt}
    BY <1>0, <2>1 DEF Honest
  <2> HIDE DEF new, m
  <2>5. Honest(new, job[w]) /\ Fits(next, new.status)
    BY <1>0, <2>3, <2>4 DEF Honest, Fits, OpenSteps, Ended, Terminal
  <2>6. Advances(w, new, next)
    BY <1>0, <2>1, <2>3, <2>4, <2>5 DEF Advances
  <2>7. AdvanceFrame(w, new, next)
    BY <1>0, <1>1, <2>2, <2>3, OperationFacts DEF AdvanceFrame, ReceiveReceipt, To, walletVars
  <2> QED
    BY <2>1, <2>3, <2>6, <2>7 DEF SenderMoves, SenderSteps
<1> QED
  BY <1>2, <1>3

LEMMA Ends ==
  ASSUME PaymentInv, NEW w \in Senders,
         \/ ReserveFails(w) \/ SenderCrash(w) \/ SenderSessionGone(w) \/ SaveFails(w)
         \/ MarkSettled(w) \/ ReleaseRejected(w) \/ MarkRecoveryRequired(w)
  PROVE  SenderMoves(w)
<1>1. interruptions' \in 0 .. MaxInterruptions
  BY InterruptionType DEF ReserveFails, SenderCrash, SenderSessionGone, SaveFails, MarkSettled,
     ReleaseRejected, MarkRecoveryRequired, WalletStep, PaymentInv, TypeOK
<1>2. CASE ReserveFails(w) \/ SenderCrash(w)
  BY <1>1, <1>2 DEF ReserveFails, SenderCrash, Leaves, SenderMoves, walletVars
<1>3. CASE MarkSettled(w) \/ ReleaseRejected(w) \/ MarkRecoveryRequired(w)
  BY <1>1, <1>3 DEF MarkSettled, ReleaseRejected, MarkRecoveryRequired, WalletStep, Leaves, SenderMoves
<1>4. CASE SenderSessionGone(w) \/ SaveFails(w)
  <2>0. spc[w] \in SaveSteps /\ spc[w] # "idle" /\ spc[w] # "reserve"
    BY <1>4 DEF SenderSessionGone, SaveFails, SaveSteps
  <2>1. CASE Done(w)
    BY <1>1, <1>4, <2>1 DEF SenderSessionGone, SaveFails, Leaves, SenderMoves, walletVars
  <2>2. CASE ~Done(w)
    <3>1. /\ To(w, "wallet_recovery")
          /\ UNCHANGED <<slock, job, draft, fresh, live, tries, retry>>
          /\ UNCHANGED <<walletVars, record, sent>>
      BY <1>4, <2>2 DEF SenderSessionGone, SaveFails
    <3>2. draft[w].receipt.statusVersion \in Nat
      BY <2>0, OperationFacts DEF SenderRecords, Receipts, NoReceipt
    <3>3. Advances(w, draft[w], "wallet_recovery")
      BY <2>0, <3>2, OperationFacts DEF Advances, Fits, OpenSteps
    <3>4. AdvanceFrame(w, draft[w], "wallet_recovery")
      BY <1>1, <2>0, <3>1, OperationFacts DEF AdvanceFrame, To, walletVars
    <3> QED
      BY <2>0, <3>3, <3>4, OperationFacts DEF SenderMoves, SenderSteps
  <2> QED
    BY <2>1, <2>2
<1> QED
  BY <1>2, <1>3, <1>4

\* Every step of the sender is one of these.
LEMMA SenderStepsMove ==
  ASSUME PaymentInv, SenderNext
  PROVE  \E w \in Senders : SenderMoves(w)
<1>1. PICK w \in Senders :
        \/ \E d \in Deliveries : StartSend(w, d) \/ Resume(w, d)
        \/ OperationStep(w)
        \/ SenderCrash(w) \/ SenderLosesSession(w) \/ SaveFails(w)
  BY DEF SenderNext
<1>2. CASE \E d \in Deliveries : StartSend(w, d) \/ Resume(w, d)
  BY <1>2, EnterMoves
<1>3. CASE OperationStep(w)
  <2>1. ASSUME NEW c \in Commands, ReserveExact(w, c)
        PROVE  SenderMoves(w)
    BY <2>1 DEF ReserveExact, Reserves, SenderMoves, To
  <2> QED
    BY <1>3, <2>1, Saves, SavesOutcome, GoesOn, Receives, Ends DEF OperationStep
<1>4. CASE SenderLosesSession(w)
  BY <1>4, InterruptionType DEF SenderLosesSession, LosesLock, SenderMoves
<1>5. CASE SenderCrash(w) \/ SaveFails(w)
  BY <1>5, Ends
<1> QED
  BY <1>1, <1>2, <1>3, <1>4, <1>5

-----------------------------------------------------------------------------
(* What each side leaves alone.                                              *)

ReceiverNext ==
    \/ \E c \in Commands : Expire(c) \/ AcceptPayload(c) \/ AnswerError(c)
    \/ \E d \in Deliveries : ReceiverStep(d)

LEMMA PeerUntouched ==
  ASSUME SenderNext
  PROVE  UNCHANGED <<issued, refused, expired>>
<1>1. ASSUME NEW w \in Senders, OperationStep(w)
      PROVE  UNCHANGED peerVars
  <2>1. ASSUME NEW step, NEW status, NEW next, SaveOutcome(w, step, status, next)
        PROVE  UNCHANGED peerVars
    BY <2>1 DEF SaveOutcome
  <2>2. ASSUME NEW step, NEW status, WalletStep(w, step, status)
        PROVE  UNCHANGED peerVars
    BY <2>2 DEF WalletStep
  <2>3. CASE CreateRecord(w) \/ BeginAttempt(w) \/ Transmit(w) \/ SaveAttempt(w)
    BY <2>3 DEF CreateRecord, BeginAttempt, Transmit, SaveAttempt
  <2>4. CASE \E r \in IF job[w] = NoDelivery THEN {} ELSE issued[job[w]] : ReceiveReceipt(w, r)
    BY <2>4 DEF ReceiveReceipt
  <2>5. CASE NoResponse(w) \/ PermanentFailure(w) \/ SenderSessionGone(w) \/ ReserveFails(w)
    BY <2>5 DEF NoResponse, PermanentFailure, SenderSessionGone, ReserveFails
  <2>6. CASE \E c \in Commands : ReserveExact(w, c)
    BY <2>6 DEF ReserveExact
  <2>7. CASE SaveSettled(w) \/ SaveRejected(w) \/ SaveRecovery(w)
    BY <2>1, <2>7 DEF SaveSettled, SaveRejected, SaveRecovery
  <2>8. CASE MarkSettled(w) \/ ReleaseRejected(w) \/ MarkRecoveryRequired(w)
    BY <2>2, <2>8 DEF MarkSettled, ReleaseRejected, MarkRecoveryRequired
  <2> QED
    BY <1>1, <2>3, <2>4, <2>5, <2>6, <2>7, <2>8 DEF OperationStep
<1>2. ASSUME NEW w \in Senders, NEW d \in Deliveries, StartSend(w, d) \/ Resume(w, d)
      PROVE  UNCHANGED peerVars
  BY <1>2 DEF StartSend, Resume
<1>3. ASSUME NEW w \in Senders, SenderCrash(w) \/ SenderLosesSession(w) \/ SaveFails(w)
      PROVE  UNCHANGED peerVars
  BY <1>3 DEF SenderCrash, SenderLosesSession, SaveFails
<1>4. UNCHANGED peerVars
  BY <1>1, <1>2, <1>3 DEF SenderNext
<1> QED
  BY <1>4 DEF peerVars

LEMMA SenderUntouchedBy ==
  ASSUME ReceiverNext
  PROVE  UNCHANGED <<reservation, payload, record, slock, spc, job, draft, fresh, live, tries,
                     retry, sent, interruptions>>
  BY DEF ReceiverNext, Expire, AcceptPayload, AnswerError, ReceiverStep, SenderUntouched,
     walletVars, opVars

LEMMA NextSplits ==
  ASSUME PaymentInv, [Next]_paymentVars
  PROVE  \/ /\ \E w \in Senders : SenderMoves(w)
            /\ UNCHANGED <<issued, refused, expired, bound, receipt, redeemed, credits>>
         \/ ReceiverNext
         \/ UNCHANGED paymentVars
  BY SenderStepsMove, PeerUntouched DEF Next, ReceiverNext, receiverVars

\* The receipts the receiver has issued are never taken back, and what it does
\* to a delivery it does to an open one, or to one it has never seen.
LEMMA ReceiverMoves ==
  ASSUME PaymentInv, ReceiverNext
  PROVE  \/ UNCHANGED <<bound, receipt, redeemed, credits, issued>>
         \/ \E d \in Deliveries, new \in Receipts :
               /\ receipt' = [receipt EXCEPT ![d] = new]
               /\ issued' = [issued EXCEPT ![d] = @ \cup {new}] \/ issued' = issued
               /\ redeemed \subseteq redeemed' /\ redeemed' \subseteq redeemed \cup {d}
               /\ credits \subseteq credits' /\ credits' \subseteq credits \cup {d}
               /\ \/ /\ receipt[d] = NoReceipt /\ new = FirstReceipt
                     /\ UNCHANGED <<redeemed, credits>>
                     /\ \E c \in Commands :
                           Arrived(c) /\ d = delOf[c] /\ bound' = [bound EXCEPT ![d] = c]
                  \/ /\ receipt[d] \in Receipts /\ receipt[d].status = "processing"
                     /\ bound' = bound
                     /\ new = receipt[d] \/ (Follows(receipt[d], new) /\ redeemed' = redeemed)
                     /\ new.status = "rejected" => d \notin redeemed
                     /\ new.status = "settled" => d \in credits'
<1>0. /\ issued \in [Deliveries -> SUBSET Receipts] /\ payload \in [Deliveries -> Commands \cup {NoCommand}]
      /\ receipt \in [Deliveries -> Receipts \cup {NoReceipt}] /\ TypeOK
  BY DEF PaymentInv, TypeOK
<1>1. ASSUME NEW c \in Commands, Expire(c) \/ AnswerError(c)
      PROVE  UNCHANGED <<bound, receipt, redeemed, credits, issued>>
  BY <1>1 DEF Expire, AnswerError, receiverVars
<1>2. ASSUME NEW d \in Deliveries, NEW new, receipt' = [receipt EXCEPT ![d] = new], Answer(d)
      PROVE  issued' = [issued EXCEPT ![d] = @ \cup {new}] \/ issued' = issued
  BY <1>0, <1>2 DEF Answer
<1>3. ASSUME NEW c \in Commands, AcceptPayload(c)
      PROVE  /\ delOf[c] \in Deliveries /\ receipt[delOf[c]] = NoReceipt
             /\ receipt' = [receipt EXCEPT ![delOf[c]] = FirstReceipt]
             /\ Arrived(c) /\ bound' = [bound EXCEPT ![delOf[c]] = c]
             /\ UNCHANGED <<redeemed, credits>> /\ FirstReceipt \in Receipts
             /\ \/ issued' = [issued EXCEPT ![delOf[c]] = @ \cup {FirstReceipt}]
                \/ issued' = issued
  <2>1. delOf[c] \in Deliveries
    BY SenderAssumption
  <2>2. Ledger!Accept(c) /\ Answer(delOf[c]) /\ Arrived(c)
    BY <1>3 DEF AcceptPayload
  <2>3. bound[delOf[c]] = NoCommand /\ receipt' = [receipt EXCEPT ![delOf[c]] = FirstReceipt]
    BY <2>2 DEF Ledger!Accept, Ledger!Acceptable, Ledger!FirstReceipt, FirstReceipt
  <2>4. receipt[delOf[c]] = NoReceipt
    BY <2>1, <2>3 DEF PaymentInv, LedgerOK
  <2>5. FirstReceipt \in Receipts
    BY DEF FirstReceipt, Receipts, Statuses, DetailCodes
  <2> QED
    BY <1>2, <2>1, <2>2, <2>3, <2>4, <2>5 DEF Ledger!Accept
<1>4. ASSUME NEW d \in Deliveries, ReceiverStep(d)
      PROVE  \E new \in Receipts :
               /\ receipt' = [receipt EXCEPT ![d] = new]
               /\ issued' = [issued EXCEPT ![d] = @ \cup {new}] \/ issued' = issued
               /\ redeemed \subseteq redeemed' /\ redeemed' \subseteq redeemed \cup {d}
               /\ credits \subseteq credits' /\ credits' \subseteq credits \cup {d}
               /\ receipt[d] \in Receipts /\ receipt[d].status = "processing"
               /\ bound' = bound
               /\ new = receipt[d] \/ (Follows(receipt[d], new) /\ redeemed' = redeemed)
               /\ new.status = "rejected" => d \notin redeemed
               /\ new.status = "settled" => d \in credits'
  BY <1>0, <1>2, <1>4, LedgerSteps DEF ReceiverStep
<1>5. CASE \E c \in Commands : Expire(c) \/ AnswerError(c)
  BY <1>1, <1>5
<1>6. CASE \E c \in Commands : AcceptPayload(c)
  <2>1. PICK c \in Commands : AcceptPayload(c)
    BY <1>6
  <2> DEFINE d == delOf[c]
  <2>2. redeemed' \subseteq redeemed \cup {d} /\ credits' \subseteq credits \cup {d}
        /\ redeemed \subseteq redeemed' /\ credits \subseteq credits'
    BY <1>3, <2>1
  <2> QED
    BY <1>3, <2>1, <2>2
<1>7. CASE \E d \in Deliveries : ReceiverStep(d)
  BY <1>4, <1>7
<1> QED
  BY <1>5, <1>6, <1>7 DEF ReceiverNext

-----------------------------------------------------------------------------
(* The invariant is preserved.                                               *)

LEMMA TypeNext ==
  ASSUME PaymentInv, [Next]_paymentVars
  PROVE  TypeOK'
<1>0. /\ TypeOK /\ MaxAttempts \in Nat \ {0} /\ delOf \in [Commands -> Deliveries]
      /\ Nobody \notin Senders
  BY SenderAssumption DEF PaymentInv
<1>1. ASSUME NEW w \in Senders, SenderMoves(w),
             UNCHANGED <<issued, refused, expired, bound, receipt, redeemed, credits>>
      PROVE  TypeOK'
  <2>1. ASSUME NEW d \in Deliveries, NEW step \in SenderSteps, NEW rec \in SenderRecords,
               Enters(w, d, step, rec)
        PROVE  TypeOK'
    BY <1>0, <1>1, <2>1 DEF TypeOK, Enters, walletVars
  <2>2. ASSUME NEW c \in Commands, Reserves(w, c)
        PROVE  TypeOK'
    BY <1>0, <1>1, <2>2 DEF TypeOK, Reserves, SenderSteps
  <2>3. ASSUME NEW new \in SenderRecords, NEW next \in SenderSteps,
               Advances(w, new, next), AdvanceFrame(w, new, next)
        PROVE  TypeOK'
    <3>1. payload[job[w]] \in Commands
      <4>1. job[w] \in Deliveries /\ reservation[job[w]] # "none"
        BY <2>3, OperationFacts DEF Advances, PaymentInv, WalletOK, WorkOK
      <4>2. payload[job[w]] # NoCommand
        BY <4>1 DEF PaymentInv, WalletOK, PayloadOK
      <4> QED
        BY <1>0, <4>1, <4>2 DEF TypeOK
    <3>2. sent' \subseteq Commands \X {"post", "nostr"}
      BY <1>0, <2>3, <3>1 DEF AdvanceFrame, TypeOK
    <3>3. record' \in [Deliveries -> SenderRecords]
      BY <1>0, <2>3 DEF AdvanceFrame, TypeOK
    <3> QED
      BY <1>0, <1>1, <2>3, <3>2, <3>3 DEF TypeOK, AdvanceFrame
  <2>4. ASSUME Leaves(w)
        PROVE  TypeOK'
    <3>1. reservation' \in [Deliveries -> {"none", "held", "recovery_required", "settled", "released"}]
      BY <1>0, <2>4 DEF TypeOK, Leaves, Transition
    <3>2. /\ slock' \in [Deliveries -> Senders \cup {Nobody}]
          /\ spc' \in [Senders -> SenderSteps] /\ job' \in [Senders -> Deliveries \cup {NoDelivery}]
          /\ draft' \in [Senders -> SenderRecords] /\ fresh' \in [Senders -> BOOLEAN]
          /\ live' \in [Senders -> BOOLEAN] /\ tries' \in [Senders -> 0 .. MaxAttempts]
          /\ retry' \in [Senders -> BOOLEAN]
      BY <1>0, <2>4, NoRecordType DEF TypeOK, Leaves, Done, SenderSteps
    <3> QED
      BY <1>0, <1>1, <2>4, <3>1, <3>2 DEF TypeOK, Leaves
  <2>5. ASSUME LosesLock(w)
        PROVE  TypeOK'
    BY <1>0, <1>1, <2>5 DEF TypeOK, LosesLock, walletVars
  <2> QED
    BY <1>1, <2>1, <2>2, <2>3, <2>4, <2>5 DEF SenderMoves
<1>2. CASE ReceiverNext
  <2>1. refused' \subseteq Commands /\ expired' \subseteq Commands
    BY <1>0, <1>2 DEF TypeOK, ReceiverNext, Expire, AcceptPayload, AnswerError, ReceiverStep,
       SenderUntouched
  <2>2. /\ bound' \in [Deliveries -> Commands \cup {NoCommand}]
        /\ receipt' \in [Deliveries -> Receipts \cup {NoReceipt}]
        /\ redeemed' \subseteq Deliveries /\ credits' \subseteq Deliveries
        /\ issued' \in [Deliveries -> SUBSET Receipts]
    <3>1. CASE UNCHANGED <<bound, receipt, redeemed, credits, issued>>
      BY <1>0, <3>1 DEF TypeOK
    <3>2. ASSUME NEW d \in Deliveries, NEW new \in Receipts,
                 receipt' = [receipt EXCEPT ![d] = new],
                 issued' = [issued EXCEPT ![d] = @ \cup {new}] \/ issued' = issued,
                 redeemed' \subseteq redeemed \cup {d}, credits' \subseteq credits \cup {d},
                 bound' = bound \/ \E c \in Commands : bound' = [bound EXCEPT ![d] = c]
          PROVE  /\ bound' \in [Deliveries -> Commands \cup {NoCommand}]
                 /\ receipt' \in [Deliveries -> Receipts \cup {NoReceipt}]
                 /\ redeemed' \subseteq Deliveries /\ credits' \subseteq Deliveries
                 /\ issued' \in [Deliveries -> SUBSET Receipts]
      <4>1. /\ bound' \in [Deliveries -> Commands \cup {NoCommand}]
            /\ receipt' \in [Deliveries -> Receipts \cup {NoReceipt}]
        BY <1>0, <3>2 DEF TypeOK
      <4>2. issued' \in [Deliveries -> SUBSET Receipts]
        BY <1>0, <3>2 DEF TypeOK
      <4>3. redeemed' \subseteq Deliveries /\ credits' \subseteq Deliveries
        BY <1>0, <3>2 DEF TypeOK
      <4> QED
        BY <4>1, <4>2, <4>3
    <3> QED
      BY <1>2, <3>1, <3>2, ReceiverMoves
  <2> QED
    BY <1>0, <1>2, <2>1, <2>2, SenderUntouchedBy DEF TypeOK
<1>3. CASE UNCHANGED paymentVars
  BY <1>0, <1>3 DEF TypeOK, paymentVars, senderVars, walletVars, opVars, peerVars
<1> QED
  BY <1>1, <1>2, <1>3, NextSplits

\* A step of one operation leaves the others where they are.
LEMMA OthersStay ==
  ASSUME TypeOK, NEW w \in Senders, SenderMoves(w), NEW v \in Senders, v # w
  PROVE  /\ spc'[v] = spc[v] /\ job'[v] = job[v] /\ draft'[v] = draft[v]
         /\ live'[v] = live[v] /\ tries'[v] = tries[v]
<1>1. ASSUME NEW d \in Deliveries, NEW step \in SenderSteps, NEW rec \in SenderRecords,
             Enters(w, d, step, rec)
      PROVE  /\ spc'[v] = spc[v] /\ job'[v] = job[v] /\ draft'[v] = draft[v]
             /\ live'[v] = live[v] /\ tries'[v] = tries[v]
  BY <1>1 DEF Enters, TypeOK
<1>2. ASSUME NEW c \in Commands, Reserves(w, c)
      PROVE  /\ spc'[v] = spc[v] /\ job'[v] = job[v] /\ draft'[v] = draft[v]
             /\ live'[v] = live[v] /\ tries'[v] = tries[v]
  BY <1>2 DEF Reserves, TypeOK
<1>3. ASSUME NEW new \in SenderRecords, NEW next \in SenderSteps, AdvanceFrame(w, new, next)
      PROVE  /\ spc'[v] = spc[v] /\ job'[v] = job[v] /\ draft'[v] = draft[v]
             /\ live'[v] = live[v] /\ tries'[v] = tries[v]
  BY <1>3 DEF AdvanceFrame, TypeOK
<1>4. CASE Leaves(w)
  BY <1>4 DEF Leaves, Done, TypeOK
<1>5. CASE LosesLock(w)
  BY <1>5 DEF LosesLock, TypeOK
<1> QED
  BY <1>1, <1>2, <1>3, <1>4, <1>5 DEF SenderMoves

LEMMA JobsNext ==
  ASSUME PaymentInv, [Next]_paymentVars
  PROVE  JobsOK'
<1>0. TypeOK /\ JobsOK /\ NoDelivery \notin Deliveries /\ MaxAttempts \in Nat \ {0}
  BY SenderAssumption DEF PaymentInv
<1>1. ASSUME NEW w \in Senders, SenderMoves(w) PROVE JobsOK'
  <2>0. JobOK(w)
    BY <1>0 DEF JobsOK
  <2>1. ASSUME NEW d \in Deliveries, NEW step \in SenderSteps, NEW rec \in SenderRecords,
               Enters(w, d, step, rec)
        PROVE  JobOK(w)'
    <3>1. /\ spc'[w] = step /\ job'[w] = d /\ draft'[w] = rec /\ tries'[w] = tries[w]
      BY <1>0, <2>1 DEF TypeOK, Enters
    <3>2. /\ spc[w] = "idle" /\ step \in {"reserve", "attempt", "wallet_settled", "wallet_released"}
          /\ step = "reserve" => rec = NoRecord
      BY <2>1 DEF Enters
    <3>3. tries[w] = 0 /\ 0 < MaxAttempts
      BY <1>0, <2>0, <3>2 DEF JobOK
    <3> QED
      BY <1>0, <3>1, <3>2, <3>3 DEF JobOK
  <2>2. ASSUME NEW c \in Commands, Reserves(w, c)
        PROVE  JobOK(w)'
    <3>1. spc'[w] = "create" /\ spc[w] = "reserve" /\ UNCHANGED <<job, draft, tries>>
      BY <1>0, <2>2 DEF TypeOK, Reserves
    <3> QED
      BY <2>0, <3>1 DEF JobOK
  <2>3. ASSUME NEW new \in SenderRecords, NEW next \in SenderSteps,
               Advances(w, new, next), AdvanceFrame(w, new, next)
        PROVE  JobOK(w)'
    <3>1. spc'[w] = next /\ draft'[w] = new /\ job' = job
      BY <1>0, <2>3 DEF TypeOK, AdvanceFrame
    <3>2. /\ spc[w] # "idle" /\ next \notin {"idle", "reserve", "create"}
          /\ next = "attempt" => tries'[w] < MaxAttempts
          /\ next = "send" => new.attempts # 0
      BY <2>3 DEF Advances
    <3> QED
      BY <2>0, <3>1, <3>2 DEF JobOK
  <2>4. ASSUME Leaves(w)
        PROVE  JobOK(w)'
    <3>1. spc'[w] = "idle" /\ job'[w] = NoDelivery /\ draft'[w] = NoRecord /\ tries'[w] = 0
      BY <1>0, <2>4 DEF TypeOK, Leaves, Done
    <3> QED
      BY <3>1 DEF JobOK
  <2>5. ASSUME LosesLock(w)
        PROVE  JobOK(w)'
    BY <2>0, <2>5 DEF JobOK, LosesLock
  <2>6. JobOK(w)'
    BY <1>1, <2>1, <2>2, <2>3, <2>4, <2>5 DEF SenderMoves
  <2>7. ASSUME NEW v \in Senders, v # w
        PROVE  JobOK(v)'
    <3>1. JobOK(v)
      BY <1>0 DEF JobsOK
    <3>2. spc'[v] = spc[v] /\ job'[v] = job[v] /\ draft'[v] = draft[v] /\ tries'[v] = tries[v]
      BY <1>0, <1>1, <2>7, OthersStay
    <3> QED
      BY <3>1, <3>2 DEF JobOK
  <2> QED
    BY <2>6, <2>7 DEF JobsOK
<1>2. CASE ReceiverNext
  BY <1>0, <1>2, SenderUntouchedBy DEF JobsOK, JobOK
<1>3. CASE UNCHANGED paymentVars
  BY <1>0, <1>3 DEF JobsOK, JobOK, paymentVars, senderVars, opVars
<1> QED
  BY <1>1, <1>2, <1>3, NextSplits

LEMMA LocksNext ==
  ASSUME PaymentInv, [Next]_paymentVars
  PROVE  LocksOK'
<1>0. /\ TypeOK /\ LocksOK /\ Nobody \notin Senders
      /\ \A w \in Senders : spc[w] # "idle" => job[w] \in Deliveries
  BY SenderAssumption DEF PaymentInv, JobsOK, JobOK, TypeOK
<1>1. ASSUME NEW w \in Senders, SenderMoves(w) PROVE LocksOK'
  <2>0. LockOK(w)
    BY <1>0 DEF LocksOK
  <2> DEFINE Others == \A d \in Deliveries, v \in Senders \ {w} : slock'[d] = v <=> slock[d] = v
  <2>1. ASSUME NEW d \in Deliveries, NEW step \in SenderSteps, NEW rec \in SenderRecords,
               Enters(w, d, step, rec)
        PROVE  LockOK(w)' /\ Others
    <3>1. /\ spc'[w] = step /\ job'[w] = d /\ live'[w] = TRUE
          /\ \A e \in Deliveries : slock'[e] = IF e = d THEN w ELSE slock[e]
      BY <1>0, <2>1 DEF TypeOK, Enters
    <3>2. spc[w] = "idle" /\ slock[d] = Nobody /\ step # "idle"
      BY <2>1 DEF Enters
    <3>3. \A e \in Deliveries : slock[e] # w
      BY <2>0, <3>2 DEF LockOK
    <3> QED
      BY <1>0, <3>1, <3>2, <3>3 DEF LockOK
  <2>2. ASSUME NEW c \in Commands, Reserves(w, c)
        PROVE  LockOK(w)' /\ Others
    <3>1. spc'[w] = "create" /\ UNCHANGED <<slock, job, live>>
      BY <1>0, <2>2 DEF TypeOK, Reserves
    <3> QED
      BY <2>0, <3>1 DEF LockOK
  <2>3. ASSUME NEW new \in SenderRecords, NEW next \in SenderSteps,
               Advances(w, new, next), AdvanceFrame(w, new, next)
        PROVE  LockOK(w)' /\ Others
    <3>1. spc'[w] = next /\ UNCHANGED <<slock, job, live>>
      BY <1>0, <2>3 DEF TypeOK, AdvanceFrame
    <3>2. next # "idle"
      BY <2>3 DEF Advances
    <3> QED
      BY <2>0, <3>1, <3>2 DEF LockOK
  <2>4. ASSUME Leaves(w)
        PROVE  LockOK(w)' /\ Others
    <3>1. live'[w] = FALSE /\ job'[w] = NoDelivery
      BY <1>0, <2>4 DEF TypeOK, Leaves, Done
    <3>2. \A e \in Deliveries : slock'[e] = IF slock[e] = w THEN Nobody ELSE slock[e]
      BY <2>4 DEF Leaves, Done
    <3> QED
      BY <1>0, <3>1, <3>2 DEF LockOK
  <2>5. ASSUME LosesLock(w)
        PROVE  LockOK(w)' /\ Others
    <3>1. live[w] /\ UNCHANGED <<spc, job>> /\ slock' = [slock EXCEPT ![job[w]] = Nobody]
      BY <2>5 DEF LosesLock
    <3>2. live'[w] = FALSE
      BY <1>0, <2>5 DEF TypeOK, LosesLock
    <3>3. \A e \in Deliveries : slock'[e] = IF e = job[w] THEN Nobody ELSE slock[e]
      BY <1>0, <3>1 DEF TypeOK
    <3> QED
      BY <1>0, <2>0, <3>1, <3>2, <3>3 DEF LockOK
  <2>6. LockOK(w)' /\ Others
    BY <1>1, <2>1, <2>2, <2>3, <2>4, <2>5 DEF SenderMoves
  <2>7. ASSUME NEW v \in Senders, v # w
        PROVE  LockOK(v)'
    <3>1. LockOK(v)
      BY <1>0 DEF LocksOK
    <3>2. spc'[v] = spc[v] /\ job'[v] = job[v] /\ live'[v] = live[v]
      BY <1>0, <1>1, <2>7, OthersStay
    <3>3. spc[v] # "idle" => job[v] \in Deliveries
      BY <1>0
    <3> QED
      BY <2>6, <2>7, <3>1, <3>2, <3>3 DEF LockOK
  <2> QED
    BY <2>6, <2>7 DEF LocksOK
<1>2. CASE ReceiverNext
  BY <1>0, <1>2, SenderUntouchedBy DEF LocksOK, LockOK
<1>3. CASE UNCHANGED paymentVars
  BY <1>0, <1>3 DEF LocksOK, LockOK, paymentVars, senderVars, opVars
<1> QED
  BY <1>1, <1>2, <1>3, NextSplits

LEMMA WalletStays ==
  ASSUME PaymentInv, UNCHANGED <<reservation, payload, record, spc, job, sent, bound>>
  PROVE  WalletOK'
<1>1. \A d \in Deliveries : PayloadOK(d)'
  BY DEF PaymentInv, WalletOK, PayloadOK
<1>2. \A w \in Senders : WorkOK(w)'
  BY DEF PaymentInv, WalletOK, WorkOK, Alone
<1>3. SentOK'
  BY DEF PaymentInv, WalletOK, SentOK
<1> QED
  BY <1>1, <1>2, <1>3 DEF WalletOK

LEMMA WalletNext ==
  ASSUME PaymentInv, [Next]_paymentVars
  PROVE  WalletOK'
<1>0. /\ TypeOK /\ NoCommand \notin Commands /\ delOf \in [Commands -> Deliveries]
      /\ \A w \in Senders : spc[w] # "idle" => job[w] \in Deliveries
      /\ \A w \in Senders : spc[w] = "idle" <=> job[w] = NoDelivery
  BY SenderAssumption DEF PaymentInv, TypeOK, JobsOK, JobOK
<1>p. /\ \A d \in Deliveries : PayloadOK(d)
      /\ \A w \in Senders : WorkOK(w)
      /\ SentOK
  BY DEF PaymentInv, WalletOK
<1>1. ASSUME NEW w \in Senders, SenderMoves(w), UNCHANGED bound PROVE WalletOK'
  <2>0. ASSUME NEW v \in Senders, v # w
        PROVE  spc'[v] = spc[v] /\ job'[v] = job[v]
    BY <1>0, <1>1, <2>0, OthersStay
  <2>1. ASSUME NEW d \in Deliveries, NEW step \in SenderSteps, NEW rec \in SenderRecords,
               Enters(w, d, step, rec)
        PROVE  WalletOK'
    <3>1. UNCHANGED <<reservation, payload, record, sent, bound>> /\ spc[w] = "idle"
      BY <1>1, <2>1 DEF Enters, walletVars
    <3>2. spc'[w] = step /\ job'[w] = d
      BY <1>0, <2>1 DEF Enters, TypeOK
    <3>3. \/ /\ step = "reserve" /\ record[d] = NoRecord /\ reservation[d] = "none"
             /\ \A v \in Senders : job[v] # d
          \/ step \notin {"idle", "reserve", "create"} /\ record[d] # NoRecord
      BY <2>1 DEF Enters
    <3>4. record[d] # NoRecord => reservation[d] # "none"
      BY <1>p DEF PayloadOK
    <3>5. WorkOK(w)'
      BY <2>0, <3>1, <3>2, <3>3, <3>4 DEF WorkOK, Alone
    <3>6. ASSUME NEW v \in Senders, v # w
          PROVE  WorkOK(v)'
      <4>1. WorkOK(v) /\ spc'[v] = spc[v] /\ job'[v] = job[v]
        BY <1>p, <2>0, <3>6
      <4>2. ASSUME spc[v] \in {"reserve", "create"}
            PROVE  Alone(v)'
        <5>1. record[job[v]] = NoRecord /\ Alone(v)
          BY <4>1, <4>2 DEF WorkOK
        <5>2. job'[w] # job[v]
          BY <3>2, <3>3, <5>1
        <5> QED
          BY <2>0, <4>1, <5>1, <5>2 DEF Alone
      <4> QED
        BY <3>1, <4>1, <4>2 DEF WorkOK
    <3>7. (\A e \in Deliveries : PayloadOK(e)') /\ SentOK'
      BY <1>p, <3>1 DEF PayloadOK, SentOK
    <3> QED
      BY <3>5, <3>6, <3>7 DEF WalletOK
  <2>2. ASSUME NEW c \in Commands, Reserves(w, c)
        PROVE  WalletOK'
    <3>1. spc[w] = "reserve" /\ delOf[c] = job[w] /\ UNCHANGED <<record, job, sent, bound>>
      BY <1>1, <2>2 DEF Reserves
    <3>2. job[w] \in Deliveries
      BY <1>0, <3>1
    <3>3. /\ reservation[job[w]] = "none" /\ record[job[w]] = NoRecord /\ Alone(w)
      BY <1>p, <3>1 DEF WorkOK
    <3>4. payload[job[w]] = NoCommand /\ bound[job[w]] = NoCommand
      BY <1>p, <3>2, <3>3 DEF PayloadOK
    <3>5. /\ spc'[w] = "create"
          /\ \A d \in Deliveries : reservation'[d] = IF d = job[w] THEN "held" ELSE reservation[d]
          /\ \A d \in Deliveries : payload'[d] = IF d = job[w] THEN c ELSE payload[d]
      BY <1>0, <2>2 DEF Reserves, TypeOK
    <3>6. WorkOK(w)'
      BY <3>1, <3>2, <3>3, <3>5 DEF WorkOK, Alone
    <3>7. ASSUME NEW v \in Senders, v # w
          PROVE  WorkOK(v)'
      <4>1. WorkOK(v) /\ spc'[v] = spc[v] /\ job[v] # job[w]
        BY <1>p, <2>0, <3>3, <3>7 DEF Alone
      <4>2. spc[v] # "idle" => reservation'[job[v]] = reservation[job[v]]
        BY <1>0, <3>5, <4>1
      <4> QED
        BY <3>1, <4>1, <4>2 DEF WorkOK, Alone
    <3>8. ASSUME NEW d \in Deliveries
          PROVE  PayloadOK(d)'
      <4>1. PayloadOK(d)
        BY <1>p
      <4>2. CASE d = job[w]
        <5>1. reservation'[d] = "held" /\ payload'[d] = c /\ bound'[d] = NoCommand
          BY <3>1, <3>4, <3>5, <4>2
        <5> QED
          BY <1>0, <3>1, <4>2, <5>1 DEF PayloadOK
      <4>3. CASE d # job[w]
        <5>1. reservation'[d] = reservation[d] /\ payload'[d] = payload[d]
          BY <3>5, <4>3
        <5> QED
          BY <3>1, <4>1, <5>1 DEF PayloadOK
      <4> QED
        BY <4>2, <4>3
    <3>9. ASSUME NEW e \in Commands, NEW t \in {"post", "nostr"}, <<e, t>> \in sent
          PROVE  payload'[delOf[e]] = e
      <4>1. payload[delOf[e]] = e /\ e # NoCommand /\ delOf[e] \in Deliveries
        BY <1>0, <1>p, <3>9 DEF SentOK
      <4>2. delOf[e] # job[w]
        BY <3>4, <4>1
      <4> QED
        BY <3>5, <4>1, <4>2
    <3>10. SentOK'
      BY <3>1, <3>9 DEF SentOK
    <3> QED
      BY <3>6, <3>7, <3>8, <3>10 DEF WalletOK
  <2>3. ASSUME NEW new \in SenderRecords, NEW next \in SenderSteps,
               Advances(w, new, next), AdvanceFrame(w, new, next)
        PROVE  WalletOK'
    <3>1. /\ spc[w] \notin {"idle", "reserve"} /\ next \notin {"idle", "reserve", "create"}
          /\ UNCHANGED <<reservation, payload, job, bound>>
      BY <1>1, <2>3 DEF Advances, AdvanceFrame
    <3>2. job[w] \in Deliveries /\ reservation[job[w]] # "none" /\ spc'[w] = next
      BY <1>0, <1>p, <2>3, <3>1 DEF WorkOK, AdvanceFrame, TypeOK
    <3>3. payload[job[w]] # NoCommand /\ delOf[payload[job[w]]] = job[w]
      BY <1>p, <3>2 DEF PayloadOK
    <3>4. \A d \in Deliveries : d # job[w] => record'[d] = record[d]
      BY <1>0, <2>3 DEF AdvanceFrame, TypeOK
    <3>5. \A d \in Deliveries : PayloadOK(d)'
      BY <1>p, <3>1, <3>2, <3>4 DEF PayloadOK
    <3>6. WorkOK(w)'
      BY <3>1, <3>2 DEF WorkOK
    <3>7. ASSUME NEW v \in Senders, v # w
          PROVE  WorkOK(v)'
      <4>1. WorkOK(v) /\ spc'[v] = spc[v]
        BY <1>p, <2>0, <3>7
      <4>2. ASSUME spc[v] \in {"reserve", "create"}
            PROVE  record'[job[v]] = NoRecord /\ Alone(v)'
        <5>1. record[job[v]] = NoRecord /\ Alone(v) /\ job[v] \in Deliveries
          BY <1>0, <4>1, <4>2 DEF WorkOK
        <5>2. job[v] # job[w]
          BY <3>7, <5>1 DEF Alone
        <5> QED
          BY <3>1, <3>4, <5>1, <5>2 DEF Alone
      <4> QED
        BY <3>1, <4>1, <4>2 DEF WorkOK
    <3>8. ASSUME NEW c \in Commands, NEW t \in {"post", "nostr"}, <<c, t>> \in sent'
          PROVE  payload[delOf[c]] = c
      <4>1. <<c, t>> \in sent \/ c = payload[job[w]]
        BY <2>3, <3>8 DEF AdvanceFrame
      <4> QED
        BY <1>p, <3>3, <4>1 DEF SentOK
    <3>9. SentOK'
      BY <3>1, <3>8 DEF SentOK
    <3> QED
      BY <3>5, <3>6, <3>7, <3>9 DEF WalletOK
  <2>4. ASSUME Leaves(w)
        PROVE  WalletOK'
    <3>1. UNCHANGED <<payload, record, sent, bound>>
      BY <1>1, <2>4 DEF Leaves
    <3>2. spc'[w] = "idle" /\ job'[w] = NoDelivery
      BY <1>0, <2>4 DEF Leaves, Done, TypeOK
    <3>3. \A d \in Deliveries : reservation'[d] = "none" <=> reservation[d] = "none"
      <4>1. CASE reservation' = reservation
        BY <4>1
      <4>2. ASSUME NEW status \in {"settled", "released", "recovery_required"},
                   spc[w] \notin {"idle", "reserve"}, Transition(job[w], status)
            PROVE  \A d \in Deliveries : reservation'[d] = "none" <=> reservation[d] = "none"
        <5>1. reservation[job[w]] # "none"
          BY <1>p, <4>2 DEF WorkOK
        <5>2. \A d \in Deliveries :
                 reservation'[d] = reservation[d] \/ (d = job[w] /\ reservation'[d] = status)
          BY <1>0, <4>2 DEF Transition, TypeOK
        <5> QED
          BY <5>1, <5>2
      <4> QED
        BY <2>4, <4>1, <4>2 DEF Leaves
    <3>4. \A d \in Deliveries : PayloadOK(d)'
      BY <1>p, <3>1, <3>3 DEF PayloadOK
    <3>5. WorkOK(w)' /\ SentOK'
      BY <1>p, <3>1, <3>2 DEF WorkOK, SentOK
    <3>6. ASSUME NEW v \in Senders, v # w
          PROVE  WorkOK(v)'
      <4>1. WorkOK(v) /\ spc'[v] = spc[v] /\ job'[v] = job[v]
        BY <1>p, <2>0, <3>6
      <4>2. CASE spc[v] = "idle"
        BY <4>1, <4>2 DEF WorkOK
      <4>3. CASE spc[v] # "idle"
        <5>1. job[v] \in Deliveries /\ job[v] # NoDelivery
          BY <1>0, <4>3
        <5>2. Alone(v) => Alone(v)'
          BY <2>0, <3>2, <4>1, <5>1 DEF Alone
        <5> QED
          BY <3>1, <3>3, <4>1, <5>1, <5>2 DEF WorkOK
      <4> QED
        BY <4>2, <4>3
    <3> QED
      BY <3>4, <3>5, <3>6 DEF WalletOK
  <2>5. ASSUME LosesLock(w)
        PROVE  WalletOK'
    <3>1. UNCHANGED <<reservation, payload, record, spc, job, sent, bound>>
      BY <1>1, <2>5 DEF LosesLock, walletVars
    <3> QED
      BY <3>1, WalletStays
  <2> QED
    BY <1>1, <2>1, <2>2, <2>3, <2>4, <2>5 DEF SenderMoves
<1>2. CASE ReceiverNext
  <2>1. UNCHANGED <<reservation, payload, record, spc, job, sent>>
    BY <1>2, SenderUntouchedBy
  <2>2. \A d \in Deliveries : bound'[d] # NoCommand => bound'[d] = payload[d]
    <3>1. \A d \in Deliveries : bound[d] # NoCommand => bound[d] = payload[d]
      BY <1>p DEF PayloadOK
    <3>2. ASSUME NEW c \in Commands, Arrived(c), bound' = [bound EXCEPT ![delOf[c]] = c]
          PROVE  \A d \in Deliveries : bound'[d] # NoCommand => bound'[d] = payload[d]
      <4>1. payload[delOf[c]] = c
        BY <1>p, <3>2 DEF Arrived, SentOK
      <4>2. \A d \in Deliveries : bound'[d] = IF d = delOf[c] THEN c ELSE bound[d]
        BY <1>0, <3>2 DEF TypeOK
      <4> QED
        BY <3>1, <4>1, <4>2
    <3>3. bound' = bound \/ \E c \in Commands : Arrived(c) /\ bound' = [bound EXCEPT ![delOf[c]] = c]
      BY <1>2, ReceiverMoves
    <3> QED
      BY <3>1, <3>2, <3>3
  <2>3. \A d \in Deliveries : PayloadOK(d)'
    BY <1>p, <2>1, <2>2 DEF PayloadOK
  <2>4. (\A w \in Senders : WorkOK(w)') /\ SentOK'
    BY <1>p, <2>1 DEF WorkOK, Alone, SentOK
  <2> QED
    BY <2>3, <2>4 DEF WalletOK
<1>3. CASE UNCHANGED paymentVars
  <2>1. UNCHANGED <<reservation, payload, record, spc, job, sent, bound>>
    BY <1>3 DEF paymentVars, senderVars, opVars, walletVars
  <2> QED
    BY <2>1, WalletStays
<1> QED
  BY <1>1, <1>2, <1>3, NextSplits

LEMMA LedgerNext ==
  ASSUME PaymentInv, [Next]_paymentVars
  PROVE  LedgerOK'
<1>0. TypeOK /\ LedgerOK /\ NoReceipt \notin Receipts /\ NoCommand \notin Commands
  BY NoRecordType, SenderAssumption DEF PaymentInv
<1>1. CASE UNCHANGED <<bound, receipt, redeemed, credits>>
  BY <1>0, <1>1 DEF LedgerOK
<1>2. ASSUME NEW d \in Deliveries, NEW new \in Receipts,
             receipt' = [receipt EXCEPT ![d] = new],
             redeemed \subseteq redeemed', redeemed' \subseteq redeemed \cup {d},
             credits \subseteq credits',
             bound'[d] # NoCommand, \A e \in Deliveries \ {d} : bound'[e] = bound[e],
             new.status = "rejected" => d \notin redeemed',
             new.status = "settled" => d \in credits'
      PROVE  LedgerOK'
  <2> SUFFICES ASSUME NEW e \in Deliveries
               PROVE  /\ bound'[e] = NoCommand <=> receipt'[e] = NoReceipt
                      /\ receipt'[e] = NoReceipt => e \notin redeemed'
                      /\ receipt'[e].status = "rejected" => e \notin redeemed'
                      /\ receipt'[e].status = "settled" => e \in credits'
    BY DEF LedgerOK
  <2>1. CASE e = d
    BY <1>0, <1>2, <2>1 DEF TypeOK
  <2>2. CASE e # d
    <3>1. /\ receipt'[e] = receipt[e] /\ bound'[e] = bound[e]
          /\ (e \in redeemed' <=> e \in redeemed) /\ (e \in credits => e \in credits')
      BY <1>0, <1>2, <2>2 DEF TypeOK
    <3> QED
      BY <1>0, <3>1 DEF LedgerOK
  <2> QED
    BY <2>1, <2>2
<1>3. CASE ReceiverNext /\ ~UNCHANGED <<bound, receipt, redeemed, credits>>
  <2>1. PICK d \in Deliveries, new \in Receipts :
          /\ receipt' = [receipt EXCEPT ![d] = new]
          /\ redeemed \subseteq redeemed' /\ redeemed' \subseteq redeemed \cup {d}
          /\ credits \subseteq credits'
          /\ \/ /\ new = FirstReceipt
                /\ \E c \in Commands : bound' = [bound EXCEPT ![d] = c]
             \/ /\ receipt[d] \in Receipts /\ bound' = bound
                /\ new = receipt[d] \/ redeemed' = redeemed
                /\ receipt[d].status = "processing"
                /\ new.status = "rejected" => d \notin redeemed
                /\ new.status = "settled" => d \in credits'
    BY <1>3, ReceiverMoves
  <2>2. bound'[d] # NoCommand /\ \A e \in Deliveries \ {d} : bound'[e] = bound[e]
    BY <1>0, <2>1 DEF TypeOK, LedgerOK
  <2>3. /\ new.status = "rejected" => d \notin redeemed'
        /\ new.status = "settled" => d \in credits'
    BY <2>1 DEF FirstReceipt
  <2> QED
    BY <1>2, <2>1, <2>2, <2>3
<1> QED
  BY <1>1, <1>3, NextSplits DEF paymentVars

LEMMA IssuedNext ==
  ASSUME PaymentInv, [Next]_paymentVars
  PROVE  IssuedOK'
<1>0. TypeOK /\ IssuedOK
  BY DEF PaymentInv
<1>1. CASE UNCHANGED <<receipt, issued>>
  BY <1>0, <1>1 DEF IssuedOK
<1>2. ASSUME NEW d \in Deliveries, NEW new \in Receipts,
             receipt' = [receipt EXCEPT ![d] = new],
             issued' = [issued EXCEPT ![d] = @ \cup {new}] \/ issued' = issued,
             \A r \in issued[d] :
                /\ r.statusVersion <= new.statusVersion
                /\ r.statusVersion = new.statusVersion => r = new
                /\ Terminal(r) => r = new
                /\ r.detailCode = "recovery_blocked" => r = new \/ new.status = "settled"
      PROVE  IssuedOK'
  <2>1. \A r \in issued[d] : ~ReceiptConflict(r, new) /\ ~ReceiptConflict(new, r)
    <3>1. TAKE r \in issued[d]
    <3>2. r \in Receipts /\ r.statusVersion \in Nat /\ new.statusVersion \in Nat
      BY <1>0 DEF TypeOK, Receipts
    <3> QED
      BY <1>2, <3>2 DEF ReceiptConflict
  <2>2. ~ReceiptConflict(new, new)
    BY DEF ReceiptConflict
  <2>3. issued'[d] \subseteq issued[d] \cup {new} /\ receipt'[d] = new /\ new.statusVersion \in Nat
    BY <1>0, <1>2 DEF TypeOK, Receipts
  <2>4. \A r \in issued'[d] :
           /\ r.statusVersion <= receipt'[d].statusVersion
           /\ r.statusVersion = receipt'[d].statusVersion => r = receipt'[d]
           /\ Terminal(r) => r = receipt'[d]
           /\ r.detailCode = "recovery_blocked" => r = receipt'[d] \/ receipt'[d].status = "settled"
    BY <1>2, <2>3
  <2>5. \A r, q \in issued'[d] : ~ReceiptConflict(q, r)
    BY <1>0, <2>1, <2>2, <2>3 DEF IssuedOK
  <2>6. \A e \in Deliveries \ {d} : issued'[e] = issued[e] /\ receipt'[e] = receipt[e]
    BY <1>0, <1>2 DEF TypeOK
  <2>7. \A e \in Deliveries \ {d} : \A r \in issued'[e] :
           /\ r.statusVersion <= receipt'[e].statusVersion
           /\ r.statusVersion = receipt'[e].statusVersion => r = receipt'[e]
           /\ Terminal(r) => r = receipt'[e]
           /\ r.detailCode = "recovery_blocked" => r = receipt'[e] \/ receipt'[e].status = "settled"
           /\ \A q \in issued'[e] : ~ReceiptConflict(q, r)
    BY <1>0, <2>6 DEF IssuedOK
  <2> QED
    BY <2>4, <2>5, <2>7 DEF IssuedOK
<1>3. CASE ReceiverNext /\ ~UNCHANGED <<receipt, issued>>
  <2>1. PICK d \in Deliveries, new \in Receipts :
          /\ receipt' = [receipt EXCEPT ![d] = new]
          /\ issued' = [issued EXCEPT ![d] = @ \cup {new}] \/ issued' = issued
          /\ \/ receipt[d] = NoReceipt
             \/ /\ receipt[d] \in Receipts /\ receipt[d].status = "processing"
                /\ new = receipt[d] \/ Follows(receipt[d], new)
    BY <1>3, ReceiverMoves
  <2>2. ASSUME NEW r \in issued[d]
        PROVE  /\ r.statusVersion <= new.statusVersion
               /\ r.statusVersion = new.statusVersion => r = new
               /\ Terminal(r) => r = new
               /\ r.detailCode = "recovery_blocked" => r = new \/ new.status = "settled"
    <3>1. /\ r \in Receipts /\ r.statusVersion \in Nat \ {0} /\ new.statusVersion \in Nat
          /\ r.statusVersion <= receipt[d].statusVersion
          /\ r.statusVersion = receipt[d].statusVersion => r = receipt[d]
          /\ Terminal(r) => r = receipt[d]
          /\ r.detailCode = "recovery_blocked" => r = receipt[d] \/ receipt[d].status = "settled"
      BY <1>0 DEF TypeOK, Receipts, IssuedOK
    <3>2. receipt[d] # NoReceipt
      BY <3>1 DEF NoReceipt
    <3>3. receipt[d].statusVersion \in Nat /\ receipt[d].status = "processing"
      BY <2>1, <3>2 DEF Receipts
    <3> QED
      BY <2>1, <3>1, <3>2, <3>3 DEF Follows, Terminal
  <2> QED
    BY <1>2, <2>1, <2>2
<1> QED
  BY <1>1, <1>3, NextSplits DEF paymentVars, senderVars, peerVars

LEMMA DraftsNext ==
  ASSUME PaymentInv, [Next]_paymentVars
  PROVE  DraftsOK'
<1>0. TypeOK /\ JobsOK /\ DraftsOK /\ NoDelivery \notin Deliveries
  BY SenderAssumption DEF PaymentInv
<1>1. ASSUME NEW w \in Senders, SenderMoves(w), UNCHANGED issued PROVE DraftsOK'
  <2>1. ASSUME NEW d \in Deliveries, NEW step \in SenderSteps, NEW rec \in SenderRecords,
               Enters(w, d, step, rec)
        PROVE  DraftsOK'
    BY <1>0, <1>1, <2>1 DEF TypeOK, DraftsOK, Enters, Honest
  <2>2. ASSUME NEW c \in Commands, Reserves(w, c)
        PROVE  DraftsOK'
    BY <1>0, <1>1, <2>2 DEF TypeOK, DraftsOK, Reserves, Honest, Fits, OpenSteps
  <2>3. ASSUME NEW new \in SenderRecords, NEW next \in SenderSteps,
               Advances(w, new, next), AdvanceFrame(w, new, next)
        PROVE  DraftsOK'
    <3>1. \A d \in Deliveries : record'[d] = record[d] \/ (d = job[w] /\ record'[d] = new)
      BY <1>0, <2>3 DEF AdvanceFrame, TypeOK
    <3>2. /\ Honest(new, job[w]) /\ Fits(next, new.status) /\ job' = job /\ issued' = issued
          /\ draft' = [draft EXCEPT ![w] = new] /\ spc' = [spc EXCEPT ![w] = next]
      BY <1>1, <2>3 DEF Advances, AdvanceFrame
    <3>3. \A d \in Deliveries : Honest(record'[d], d)
      BY <1>0, <3>1, <3>2 DEF DraftsOK
    <3>4. \A v \in Senders : spc'[v] # "idle" => Honest(draft'[v], job[v]) /\ Fits(spc'[v], draft'[v].status)
      BY <1>0, <3>2 DEF DraftsOK, TypeOK
    <3> QED
      BY <3>2, <3>3, <3>4 DEF DraftsOK, Honest
  <2>4. ASSUME Leaves(w)
        PROVE  DraftsOK'
    BY <1>0, <1>1, <2>4 DEF TypeOK, DraftsOK, Leaves, Done, Honest
  <2>5. ASSUME LosesLock(w)
        PROVE  DraftsOK'
    BY <1>0, <1>1, <2>5 DEF DraftsOK, LosesLock, Honest
  <2> QED
    BY <1>1, <2>1, <2>2, <2>3, <2>4, <2>5 DEF SenderMoves
<1>2. CASE ReceiverNext
  <2>1. \A d \in Deliveries : issued[d] \subseteq issued'[d]
    <3>1. ASSUME NEW e \in Deliveries, NEW new \in Receipts,
                 issued' = [issued EXCEPT ![e] = @ \cup {new}]
          PROVE  \A d \in Deliveries : issued[d] \subseteq issued'[d]
      BY <1>0, <3>1 DEF TypeOK
    <3> QED
      BY <1>2, <3>1, ReceiverMoves
  <2>2. UNCHANGED <<record, spc, job, draft>>
    BY <1>2, SenderUntouchedBy
  <2>3. ASSUME NEW rec, NEW d \in Deliveries, Honest(rec, d)
        PROVE  /\ rec.receipt \in issued'[d] \cup {NoReceipt}
               /\ rec.status \in Ended => rec.receipt.status = rec.status
               /\ Terminal(rec.receipt) => rec.status = rec.receipt.status
    BY <2>1, <2>3 DEF Honest
  <2>4. \A w \in Senders : spc[w] # "idle" => job[w] \in Deliveries
    BY <1>0 DEF TypeOK, JobsOK, JobOK
  <2> QED
    BY <1>0, <2>2, <2>3, <2>4 DEF DraftsOK, Honest
<1>3. CASE UNCHANGED paymentVars
  BY <1>0, <1>3 DEF DraftsOK, Honest, paymentVars, senderVars, opVars, peerVars
<1> QED
  BY <1>1, <1>2, <1>3, NextSplits

\* Only the holder of a delivery's lock writes its record.
LEMMA CopiesNext ==
  ASSUME PaymentInv, [Next]_paymentVars
  PROVE  CopiesOK'
<1>0. TypeOK /\ JobsOK /\ LocksOK /\ CopiesOK /\ NoDelivery \notin Deliveries
  BY SenderAssumption DEF PaymentInv
<1>v. \A rec \in SenderRecords : rec.receipt.statusVersion \in Nat
  BY VersionType
<1>1. ASSUME NEW w \in Senders, SenderMoves(w) PROVE CopiesOK'
  <2>1. ASSUME NEW d \in Deliveries, NEW step \in SenderSteps, NEW rec \in SenderRecords,
               Enters(w, d, step, rec)
        PROVE  CopiesOK'
    <3>1. /\ rec.receipt = record[d].receipt /\ record[d].receipt.statusVersion \in Nat
          /\ record[d].status \in Ended => rec.status = record[d].status
          /\ record' = record /\ job' = [job EXCEPT ![w] = d]
          /\ draft' = [draft EXCEPT ![w] = rec] /\ live' = [live EXCEPT ![w] = TRUE]
      BY <1>0, <1>v, <2>1 DEF Enters, TypeOK
    <3>2. UpToDate(w)'
      <4>1. draft'[w] = rec /\ job'[w] = d
        BY <1>0, <3>1 DEF TypeOK
      <4>2. \A n \in Nat : n >= n
        OBVIOUS
      <4> QED
        BY <3>1, <4>1, <4>2 DEF UpToDate
    <3>3. ASSUME NEW v \in Senders, v # w, live'[v]
          PROVE  UpToDate(v)'
      <4>1. live[v] /\ draft'[v] = draft[v] /\ job'[v] = job[v]
        BY <1>0, <1>1, <3>3, OthersStay
      <4> QED
        BY <1>0, <3>1, <4>1 DEF CopiesOK, UpToDate
    <3> QED
      BY <3>2, <3>3 DEF CopiesOK
  <2>2. ASSUME NEW c \in Commands, Reserves(w, c)
        PROVE  CopiesOK'
    BY <1>0, <2>2 DEF CopiesOK, UpToDate, Reserves
  <2>3. ASSUME NEW new \in SenderRecords, NEW next \in SenderSteps,
               Advances(w, new, next), AdvanceFrame(w, new, next)
        PROVE  CopiesOK'
    <3>1. /\ job[w] \in Deliveries /\ draft[w] \in SenderRecords /\ job' = job /\ live' = live
          /\ new.receipt.statusVersion >= draft[w].receipt.statusVersion
          /\ draft[w].status \in Ended => new.status = draft[w].status
          /\ draft' = [draft EXCEPT ![w] = new]
          /\ record' = record \/ (live[w] /\ record' = [record EXCEPT ![job[w]] = new])
      <4>1. spc[w] # "idle"
        BY <2>3 DEF Advances
      <4>2. job[w] \in Deliveries /\ draft[w] \in SenderRecords
        BY <4>1, OperationFacts
      <4> QED
        BY <2>3, <4>2 DEF Advances, AdvanceFrame
    <3> SUFFICES ASSUME NEW v \in Senders, live[v]
                 PROVE  UpToDate(v)'
      BY <3>1 DEF CopiesOK
    <3>2. job[v] \in Deliveries /\ slock[job[v]] = v /\ UpToDate(v)
      BY <1>0 DEF LocksOK, LockOK, CopiesOK, TypeOK, JobsOK, JobOK
    <3>3. CASE v = w
      <4>1. /\ draft'[w] = new /\ record'[job[w]] \in {record[job[w]], new}
            /\ new.receipt.statusVersion \in Nat /\ draft[w].receipt.statusVersion \in Nat
            /\ record[job[w]].receipt.statusVersion \in Nat
        BY <1>0, <1>v, <3>1 DEF TypeOK
      <4> DEFINE n == new.receipt.statusVersion
                 m == draft[w].receipt.statusVersion
                 k == record[job[w]].receipt.statusVersion
      <4>2. /\ m >= k /\ n >= m
            /\ record[job[w]].status \in Ended => new.status = record[job[w]].status
        BY <3>1, <3>2, <3>3 DEF UpToDate
      <4>3. n \in Nat /\ m \in Nat /\ k \in Nat
        BY <4>1
      <4> HIDE DEF n, m, k
      <4>4. n >= n /\ n >= k
        BY <4>2, <4>3
      <4> QED
        BY <3>1, <3>3, <4>1, <4>2, <4>4 DEF UpToDate, n, k
    <3>4. CASE v # w
      <4>1. live[w] => job[v] # job[w]
        BY <1>0, <3>2, <3>4 DEF LocksOK, LockOK
      <4>2. record'[job[v]] = record[job[v]] /\ draft'[v] = draft[v]
        <5>1. draft'[v] = draft[v]
          BY <1>0, <1>1, <3>4, OthersStay
        <5>2. ASSUME live[w], record' = [record EXCEPT ![job[w]] = new]
              PROVE  record'[job[v]] = record[job[v]]
          BY <1>0, <3>1, <3>2, <4>1, <5>2 DEF TypeOK
        <5> QED
          BY <3>1, <5>1, <5>2
      <4> QED
        BY <3>1, <3>2, <4>2 DEF UpToDate
    <3> QED
      BY <3>3, <3>4
  <2>4. ASSUME Leaves(w)
        PROVE  CopiesOK'
    <3>1. live'[w] = FALSE /\ record' = record
      BY <1>0, <2>4 DEF TypeOK, Leaves, Done
    <3>2. ASSUME NEW v \in Senders, live'[v]
          PROVE  UpToDate(v)'
      <4>1. v # w
        BY <3>1, <3>2
      <4>2. live[v] /\ draft'[v] = draft[v] /\ job'[v] = job[v]
        BY <1>0, <1>1, <3>2, <4>1, OthersStay
      <4> QED
        BY <1>0, <3>1, <4>2 DEF CopiesOK, UpToDate
    <3> QED
      BY <3>2 DEF CopiesOK
  <2>5. ASSUME LosesLock(w)
        PROVE  CopiesOK'
    <3>1. UNCHANGED <<record, job, draft>> /\ live' = [live EXCEPT ![w] = FALSE]
      BY <2>5 DEF LosesLock
    <3>2. \A v \in Senders : live'[v] => live[v]
      BY <1>0, <3>1 DEF TypeOK
    <3> QED
      BY <1>0, <3>1, <3>2 DEF CopiesOK, UpToDate
  <2> QED
    BY <1>1, <2>1, <2>2, <2>3, <2>4, <2>5 DEF SenderMoves
<1>2. CASE ReceiverNext
  BY <1>0, <1>2, SenderUntouchedBy DEF CopiesOK, UpToDate
<1>3. CASE UNCHANGED paymentVars
  BY <1>0, <1>3 DEF CopiesOK, UpToDate, paymentVars, senderVars, opVars
<1> QED
  BY <1>1, <1>2, <1>3, NextSplits

\* What an honest copy says of the end of its delivery the ledger says too.
LEMMA EndedAtLedger ==
  ASSUME PaymentInv, NEW d \in Deliveries, NEW rec \in SenderRecords, Honest(rec, d),
         rec.status \in Ended
  PROVE  /\ receipt[d].status = rec.status
         /\ rec.status = "rejected" => d \notin redeemed
         /\ rec.status = "settled" => d \in credits
<1>1. Terminal(rec.receipt) /\ rec.receipt \in issued[d] /\ rec.receipt.status = rec.status
  BY NoRecordType DEF Honest, Ended, Terminal
<1>2. rec.receipt = receipt[d]
  BY <1>1 DEF PaymentInv, IssuedOK
<1> QED
  BY <1>1, <1>2 DEF PaymentInv, LedgerOK

LEMMA ReservationNext ==
  ASSUME PaymentInv, [Next]_paymentVars
  PROVE  ReservationAgreesWithLedger'
<1>0. TypeOK /\ LedgerOK /\ ReservationAgreesWithLedger
  BY DEF PaymentInv
<1>1. ASSUME NEW w \in Senders, SenderMoves(w), UNCHANGED <<receipt, redeemed, credits>>
      PROVE  ReservationAgreesWithLedger'
  <2>1. CASE reservation' = reservation
    BY <1>0, <1>1, <2>1 DEF ReservationAgreesWithLedger
  <2>2. ASSUME NEW c \in Commands, Reserves(w, c)
        PROVE  ReservationAgreesWithLedger'
    BY <1>0, <1>1, <2>2 DEF ReservationAgreesWithLedger, Reserves, TypeOK
  <2>3. CASE Leaves(w) /\ reservation' # reservation
    <3>1. PICK step \in {"wallet_settled", "wallet_released", "wallet_recovery"},
               status \in {"settled", "released", "recovery_required"} :
             /\ <<step, status>> \in {<<"wallet_settled", "settled">>,
                                      <<"wallet_released", "released">>,
                                      <<"wallet_recovery", "recovery_required">>}
             /\ spc[w] = step /\ Transition(job[w], status)
      BY <2>3 DEF Leaves
    <3>2. /\ job[w] \in Deliveries /\ draft[w] \in SenderRecords
          /\ Honest(draft[w], job[w]) /\ Fits(step, draft[w].status)
      BY <3>1, OperationFacts
    <3>3. /\ status = "settled" => receipt[job[w]].status = "settled" /\ job[w] \in credits
          /\ status = "released" => receipt[job[w]].status = "rejected" /\ job[w] \notin redeemed
      BY <3>1, <3>2, EndedAtLedger DEF Fits, Ended
    <3>4. \A d \in Deliveries :
             reservation'[d] = reservation[d] \/ (d = job[w] /\ reservation'[d] = status)
      BY <1>0, <3>1 DEF Transition, TypeOK
    <3> QED
      BY <1>0, <1>1, <3>3, <3>4 DEF ReservationAgreesWithLedger
  <2> QED
    BY <1>1, <2>1, <2>2, <2>3
       DEF SenderMoves, Enters, AdvanceFrame, LosesLock, walletVars
<1>2. CASE ReceiverNext
  <2>1. reservation' = reservation
    BY <1>2, SenderUntouchedBy
  <2>2. \A d \in Deliveries : receipt[d].status \in Ended =>
           /\ receipt'[d] = receipt[d]
           /\ d \in credits => d \in credits'
           /\ d \in redeemed' => d \in redeemed
    <3>1. CASE UNCHANGED <<receipt, redeemed, credits>>
      BY <3>1
    <3>2. ASSUME NEW e \in Deliveries, NEW new \in Receipts,
                 receipt' = [receipt EXCEPT ![e] = new],
                 redeemed' \subseteq redeemed \cup {e}, credits \subseteq credits',
                 receipt[e] = NoReceipt \/ receipt[e].status = "processing"
          PROVE  \A d \in Deliveries : receipt[d].status \in Ended =>
                    /\ receipt'[d] = receipt[d]
                    /\ d \in credits => d \in credits'
                    /\ d \in redeemed' => d \in redeemed
      <4>1. receipt[e].status \notin Ended
        BY <3>2, NoRecordType DEF Ended
      <4> QED
        BY <1>0, <3>2, <4>1 DEF TypeOK
    <3> QED
      BY <1>2, <3>1, <3>2, ReceiverMoves
  <2> QED
    BY <1>0, <2>1, <2>2 DEF ReservationAgreesWithLedger, Ended
<1>3. CASE UNCHANGED paymentVars
  BY <1>0, <1>3 DEF ReservationAgreesWithLedger, paymentVars, senderVars, walletVars
<1> QED
  BY <1>1, <1>2, <1>3, NextSplits

-----------------------------------------------------------------------------
(* Results.                                                                  *)

LEMMA PaymentInit ==
  ASSUME Init
  PROVE  PaymentInv
<1>0. /\ Nobody \notin Senders /\ NoDelivery \notin Deliveries /\ NoCommand \notin Commands
      /\ MaxAttempts \in Nat \ {0} /\ MaxInterruptions \in Nat
  BY SenderAssumption
<1>1. TypeOK
  BY <1>0, NoRecordType DEF Init, SenderInit, Ledger!Init, Ledger!NoReceipt, NoReceipt, TypeOK,
     SenderSteps
<1>2. JobsOK /\ LocksOK /\ WalletOK
  BY <1>0 DEF Init, SenderInit, Ledger!Init, JobsOK, JobOK, LocksOK, LockOK,
     WalletOK, PayloadOK, WorkOK, SentOK
<1>3. LedgerOK /\ IssuedOK /\ ReservationAgreesWithLedger
  BY <1>0 DEF Init, SenderInit, Ledger!Init, Ledger!NoReceipt, LedgerOK, IssuedOK,
     ReservationAgreesWithLedger, NoReceipt
<1>4. DraftsOK /\ CopiesOK
  BY NoRecordType DEF Init, SenderInit, DraftsOK, CopiesOK, Honest, Ended
<1> QED
  BY <1>1, <1>2, <1>3, <1>4 DEF PaymentInv

LEMMA PaymentNext ==
  ASSUME PaymentInv, [Next]_paymentVars
  PROVE  PaymentInv'
  BY TypeNext, JobsNext, LocksNext, WalletNext, LedgerNext, IssuedNext, DraftsNext, CopiesNext,
     ReservationNext DEF PaymentInv

LEMMA PaymentInvariant == Spec => []PaymentInv
  BY PaymentInit, PaymentNext, PTL DEF Spec

\* The variables of sender and receiver keep their types.
THEOREM PaymentTypes == Spec => []TypeOK
<1>1. PaymentInv => TypeOK
  BY DEF PaymentInv
<1> QED
  BY <1>1, PaymentInvariant, PTL

\* The wallet takes proofs back only from deliveries that the receiver rejected
\* unredeemed, and writes off only what it credited, for any number of
\* operations and payloads and whatever is lost, repeated or interrupted.
THEOREM ReservationAgreesHolds == Spec => []ReservationAgreesWithLedger
<1>1. PaymentInv => ReservationAgreesWithLedger
  BY DEF PaymentInv
<1> QED
  BY <1>1, PaymentInvariant, PTL

\* mergeObservedReceipt never throws on a receipt of an honest receiver.
THEOREM NoReceiptConflictHolds == Spec => []NoReceiptConflict
<1>1. PaymentInv => NoReceiptConflict
  <2> SUFFICES ASSUME PaymentInv, NEW w \in Senders, spc[w] = "wait", NEW r \in issued[job[w]]
               PROVE  ~ReceiptConflict(draft[w].receipt, r)
    BY DEF NoReceiptConflict
  <2>1. job[w] \in Deliveries /\ draft[w].receipt \in issued[job[w]] \cup {NoReceipt}
    BY OperationFacts DEF Honest
  <2> QED
    BY <2>1 DEF PaymentInv, IssuedOK, ReceiptConflict
<1> QED
  BY <1>1, PaymentInvariant, PTL

\* The proofs the wallet would reserve for a new payment are unspent.
THEOREM FreeProofsUnspentHolds == Spec => []FreeProofsUnspent
<1>1. PaymentInv => FreeProofsUnspent
  <2> SUFFICES ASSUME PaymentInv, NEW c \in Commands, Available(c), NEW d \in redeemed
               PROVE  proofsOf[c] \cap proofsOf[bound[d]] = {}
    BY DEF FreeProofsUnspent
  <2>1. d \in Deliveries
    BY DEF PaymentInv, TypeOK
  <2>2. bound[d] # NoCommand /\ bound[d] = payload[d]
    BY <2>1 DEF PaymentInv, LedgerOK, WalletOK, PayloadOK
  <2>3. reservation[d] \notin {"none", "released"}
    BY <2>1, <2>2 DEF PaymentInv, WalletOK, PayloadOK, ReservationAgreesWithLedger
  <2> QED
    BY <2>1, <2>2, <2>3 DEF Available
<1> QED
  BY <1>1, PaymentInvariant, PTL

\* A stored record never goes back to an older receipt or out of an end, although
\* an operation that lost its lock still holds an older copy.
THEOREM RecordAdvancesHolds == Spec => RecordAdvances
<1> DEFINE Forward ==
      \A d \in Deliveries :
         /\ record'[d].receipt.statusVersion >= record[d].receipt.statusVersion
         /\ record[d].status \in {"settled", "rejected"} => record'[d].status = record[d].status
<1>1. PaymentInv /\ [Next]_paymentVars => Forward
  <2> SUFFICES ASSUME PaymentInv, [Next]_paymentVars
               PROVE  Forward
    OBVIOUS
  <2>0. \A d \in Deliveries : record[d].receipt.statusVersion \in Nat
    <3>1. \A d \in Deliveries : record[d] \in SenderRecords
      BY DEF PaymentInv, TypeOK
    <3> QED
      BY <3>1, VersionType
  <2>1. CASE record' = record
    <3>1. \A n \in Nat : n >= n
      OBVIOUS
    <3> QED
      BY <2>0, <2>1, <3>1
  <2>2. ASSUME NEW w \in Senders, NEW new \in SenderRecords, NEW next \in SenderSteps,
               Advances(w, new, next), AdvanceFrame(w, new, next), record' # record
        PROVE  Forward
    <3>1. /\ job[w] \in Deliveries /\ draft[w] \in SenderRecords /\ UpToDate(w)
          /\ new.receipt.statusVersion >= draft[w].receipt.statusVersion
          /\ draft[w].status \in Ended => new.status = draft[w].status
          /\ record' = [record EXCEPT ![job[w]] = new]
      <4>1. /\ spc[w] # "idle" /\ live[w]
            /\ new.receipt.statusVersion >= draft[w].receipt.statusVersion
            /\ draft[w].status \in Ended => new.status = draft[w].status
            /\ record' = [record EXCEPT ![job[w]] = new]
        BY <2>2 DEF Advances, AdvanceFrame
      <4>2. job[w] \in Deliveries /\ draft[w] \in SenderRecords
        BY <4>1, OperationFacts
      <4>3. UpToDate(w)
        BY <4>1 DEF PaymentInv, CopiesOK
      <4> QED
        BY <4>1, <4>2, <4>3
    <3>2. /\ new.receipt.statusVersion \in Nat /\ draft[w].receipt.statusVersion \in Nat
      BY <2>2, <3>1, VersionType
    <3>3. /\ new.receipt.statusVersion >= record[job[w]].receipt.statusVersion
          /\ record[job[w]].status \in Ended => new.status = record[job[w]].status
      <4> DEFINE v == new.receipt.statusVersion
                 u == draft[w].receipt.statusVersion
                 r == record[job[w]].receipt.statusVersion
      <4>1. u >= r /\ (record[job[w]].status \in Ended => draft[w].status = record[job[w]].status)
        BY <3>1 DEF UpToDate
      <4>2. v >= u /\ v \in Nat /\ u \in Nat /\ r \in Nat
        BY <2>0, <3>1, <3>2
      <4>3. record[job[w]].status \in Ended => new.status = record[job[w]].status
        BY <3>1, <4>1
      <4> HIDE DEF v, u, r
      <4>4. v >= r
        BY <4>1, <4>2
      <4> QED BY <4>3, <4>4 DEF v, r
    <3>4. \A d \in Deliveries : record'[d] = IF d = job[w] THEN new ELSE record[d]
      BY <3>1 DEF PaymentInv, TypeOK
    <3>5. ASSUME NEW d \in Deliveries, d = job[w]
          PROVE  /\ record'[d].receipt.statusVersion >= record[d].receipt.statusVersion
                 /\ record[d].status \in {"settled", "rejected"} =>
                       record'[d].status = record[d].status
      BY <3>3, <3>4, <3>5 DEF Ended
    <3>6. ASSUME NEW d \in Deliveries, d # job[w]
          PROVE  /\ record'[d].receipt.statusVersion >= record[d].receipt.statusVersion
                 /\ record'[d].status = record[d].status
      <4>1. record'[d] = record[d]
        BY <3>4, <3>6
      <4>2. \A n \in Nat : n >= n
        OBVIOUS
      <4> QED
        BY <2>0, <4>1, <4>2
    <3> QED
      BY <3>5, <3>6
  <2>3. CASE \E w \in Senders : SenderMoves(w)
    <3>1. PICK w \in Senders : SenderMoves(w)
      BY <2>3
    <3>2. ASSUME record' # record
          PROVE  \E new \in SenderRecords, next \in SenderSteps :
                    Advances(w, new, next) /\ AdvanceFrame(w, new, next)
      <4>1. \A d \in Deliveries, step \in SenderSteps, rec \in SenderRecords :
               ~Enters(w, d, step, rec)
        BY <3>2 DEF Enters
      <4>2. \A c \in Commands : ~Reserves(w, c)
        BY <3>2 DEF Reserves
      <4>3. ~Leaves(w) /\ ~LosesLock(w)
        BY <3>2 DEF Leaves, LosesLock
      <4> QED
        BY <3>1, <4>1, <4>2, <4>3 DEF SenderMoves
    <3> QED
      BY <2>1, <2>2, <3>2
  <2> QED
    BY <2>1, <2>3, NextSplits, SenderUntouchedBy DEF paymentVars, senderVars
<1>2. PaymentInv /\ [Next]_paymentVars => [Forward]_paymentVars
  BY <1>1
<1>3. RecordAdvances <=> [][Forward]_paymentVars
  BY DEF RecordAdvances
<1> QED
  BY <1>2, <1>3, PaymentInvariant, PTL DEF Spec
=============================================================================
