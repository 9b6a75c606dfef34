---------------------------- MODULE FundedSender ----------------------------
(***************************************************************************)
(* The paying side of the funded adapters: adapters/cashu-ts (memory or    *)
(* PostgreSQL sender store, a wallet that is funded anew by every reset,   *)
(* crash checkpoints that a test may arm) and adapters/cdk (everything in  *)
(* memory, one lock around send and reset).  Calls of the control API run  *)
(* concurrently, the process may be killed, the network loses and delays.  *)
(*                                                                         *)
(* A payload is the proofs it carries and the stamp of its construction    *)
(* (created_at); its hash and its bytes stand for nothing more.  The payee *)
(* is a receiver seen from outside: it binds a delivery to the first       *)
(* payload and settles or rejects it.                                      *)
(***************************************************************************)
EXTENDS Naturals, Sequences, FiniteSets, FiniteSetsExt

CONSTANTS
    Callers,       \* concurrent callers of the adapter's control API
    DeliveryIds,   \* delivery ids a caller may name
    Bills,         \* payment requests, with their memo: what is fingerprinted
    BadBills,      \* those that are incomplete or negotiate no delivery
    MaxOrdinal,    \* derived delivery ids per payment request
    Tours,         \* the tours, see FundAssumption
    Nil

VARIABLES
    tour,          \* what is left of the tour: calls, losses, kills
    proc,          \* the memory of the adapter process
    store,         \* the delivery store: records and reservations
    arm,           \* crash arms: [active, at, occurrence, hits, consumed]
    job,           \* per caller, the call under way
    mint,          \* [spent, issued]
    payee,         \* per delivery, [payload, status] once it has arrived
    late,          \* payloads still on their way
    run            \* of the current lab run: [mixed, sent, built, expired]

fundVars == <<tour, proc, store, arm, job, mint, payee, late, run>>

\* Where no record, reservation, claim or receipt is.
NoEntry == <<>>

Deliveries == DeliveryIds \cup (Bills \X (0 .. MaxOrdinal))
Boundaries == {"sender_before_proof_reservation",
               "sender_after_reservation_before_payload_persistence",
               "sender_after_payload_persistence_before_network_send",
               "sender_after_send_before_response"}
SenderCalls ==
    [op : {"send"}, id : DeliveryIds \cup {Nil}, bill : Bills] \cup
    [op : {"reset"}, id : {Nil}, bill : {Nil}] \cup
    [op : {"arm"}, id : {Nil}, bill : {Nil}, at : Boundaries, occurrence : Nat]

\* A tour: the adapter, whether it has a crash session, what the callers ask
\* for, the faults it meets, whether the wallet pays without a swap and whether
\* the payment requests expire.
ASSUME FundAssumption ==
    /\ Nil \notin Callers /\ MaxOrdinal \in Nat
    /\ Tours \subseteq
         [adapter : {"memory", "postgres", "cdk"}, control : BOOLEAN,
          calls : [Callers -> Seq(SenderCalls)], losses : Nat, kills : Nat,
          exact : BOOLEAN, expires : BOOLEAN]

Cdk == tour.adapter = "cdk"
Persistent == tour.adapter = "postgres"
Nothing == [d \in Deliveries |-> NoEntry]
Unreserved == [d \in Deliveries |-> Nil]
NoArm == [at |-> Nil, occurrence |-> 0, hits |-> 0, consumed |-> FALSE]
Down == [up |-> FALSE, seeded |-> FALSE, ordinal |-> 0, inflight |-> Nothing,
         funded |-> FALSE, available |-> {}, reserved |-> Unreserved, lock |-> Nil]
NoCall == [pc |-> "idle", call |-> Nil, d |-> Nil, record |-> NoEntry,
         held |-> Nil, seen |-> {}, receipt |-> NoEntry]

AtPc(c, pc) == job[c].pc = pc
Sending(c) == job[c].pc # "idle" /\ job[c].call.op = "send"
Resetting(c) == job[c].pc # "idle" /\ job[c].call.op = "reset"
Becomes(c, j) == job' = [job EXCEPT ![c] = j]
GoTo(c, pc) == Becomes(c, [job[c] EXCEPT !.pc = pc])
Lose == tour.losses > 0 /\ tour' = [tour EXCEPT !.losses = @ - 1]
Outside == UNCHANGED <<mint, payee, late, run>>

\* Every way out of send deletes the entry of its delivery, whoever owns it;
\* the CDK adapter drops the guard of its lock.
Leave(c, p) ==
    [p EXCEPT !.lock = IF @ = c THEN Nil ELSE @,
              !.inflight = IF job[c].d = Nil \/ AtPc(c, "joined") THEN @
                           ELSE [@ EXCEPT ![job[c].d] = NoEntry]]
Fail(c) ==
    /\ proc' = Leave(c, proc)
    /\ Becomes(c, NoCall)

-----------------------------------------------------------------------------
(* The wallet and its mint. *)

\* A fresh quote is paid and minted as two random proofs.
Funded(p, m) == [p EXCEPT !.funded = TRUE,
                          !.available = {m.issued + 1, m.issued + 2}]
Minted(m, n) == [m EXCEPT !.issued = @ + n]

\* client.send on the proofs the wallet held when it was called: an exact match
\* is taken as it is, else a swap of an unspent proof yields a fresh one.
Chosen(seen) == Min(seen)
Payable(seen) == seen # {} /\ (tour.exact \/ Chosen(seen) \notin mint.spent)
Given(seen) == IF tour.exact THEN Chosen(seen) ELSE mint.issued + 1
Swapped(seen) ==
    IF tour.exact THEN mint
    ELSE [mint EXCEPT !.spent = @ \cup {Chosen(seen)}, !.issued = @ + 1]

-----------------------------------------------------------------------------
(* The delivery store. *)

NewRecord(bill, proofs, stamp) ==
    [bill |-> bill, payload |-> [proofs |-> proofs, stamp |-> stamp],
     attempts |-> 0, receipt |-> NoEntry, spent |-> FALSE]

Put(d, record) == store' = [store EXCEPT !.records[d] = record]

\* Does the reservation just written conflict with the one the store holds?
\* The memory store compares the fingerprint, PostgreSQL the whole row.
PutReservation(d, held) ==
    IF store.reservations[d] = NoEntry
    THEN [store EXCEPT !.reservations[d] = held]
    ELSE store
Conflicts(d, held) ==
    /\ store.reservations[d] # NoEntry
    /\ IF Persistent THEN store.reservations[d] # held
       ELSE store.reservations[d].bill # held.bill

-----------------------------------------------------------------------------
(* The control API. *)

Begun(c) == /\ proc.up /\ AtPc(c, "idle") /\ tour.calls[c] # <<>>
            /\ tour' = [tour EXCEPT !.calls[c] = Tail(@)]
Call(c) == Head(tour.calls[c])
DeliveryOf(call) ==
    IF call.id # Nil THEN call.id ELSE <<call.bill, proc.ordinal>>
Underivable(call) == call.id = Nil /\ (~ proc.seeded \/ proc.ordinal > MaxOrdinal)
Ordinal(call) == IF call.id = Nil THEN proc.ordinal + 1 ELSE proc.ordinal
Mixed == run.mixed \/ \E x \in Callers : Resetting(x)

\* parseRequest reads the expiry as well, parse_request leaves it for later.
Parses(call) == call.bill \notin BadBills /\ ~ run.expired
CdkParses(call) == call.bill \notin BadBills

\* Is a send of this delivery under way in this process?
Joinable(d) == proc.inflight[d] # NoEntry

\* send, up to its first await.  The request is parsed, and its expiry
\* checked, whether or not the delivery is already on record.
SenderSend(c) ==
    /\ Begun(c) /\ ~ Cdk /\ Call(c).op = "send"
    /\ UNCHANGED <<store, arm, mint, payee, late>>
    /\ IF ~ Parses(Call(c)) \/ Underivable(Call(c))
       THEN UNCHANGED <<proc, job, run>>
       ELSE LET call == Call(c)
                d == DeliveryOf(call)
                base == [proc EXCEPT !.ordinal = Ordinal(call)]
                claim == [bill |-> call.bill, owner |-> c]
                own == [NoCall EXCEPT !.call = call, !.d = d]
            IN  IF Joinable(d)
                THEN /\ proc' = base /\ UNCHANGED run
                     /\ IF proc.inflight[d].bill # call.bill THEN UNCHANGED job
                        ELSE Becomes(c, [own EXCEPT !.pc = "joined",
                                                    !.held = proc.inflight[d].owner])
                ELSE /\ proc' = [base EXCEPT !.inflight[d] = claim]
                     /\ Becomes(c, [own EXCEPT !.pc = "read"])
                     /\ run' = [run EXCEPT !.mixed = Mixed]

\* The promise of the first call is the answer to the others.
Joined(c) ==
    /\ AtPc(c, "joined")
    /\ \/ job[job[c].held].pc = "idle"
       \/ job[job[c].held].d # job[c].d
    /\ Becomes(c, NoCall)
    /\ UNCHANGED <<tour, proc, store, arm>> /\ Outside

Read(c) ==
    LET record == store.records[job[c].d]
    IN  /\ AtPc(c, "read") /\ UNCHANGED <<tour, store, arm>> /\ Outside
        /\ IF record # NoEntry /\ record.bill # job[c].call.bill THEN Fail(c)
           ELSE /\ UNCHANGED proc
                /\ Becomes(c, [job[c] EXCEPT !.record = record,
                      !.pc = IF record # NoEntry THEN "attempt"
                             ELSE "sender_before_proof_reservation"])

AfterBoundary(pc) ==
    CASE pc = "sender_before_proof_reservation" -> "reserve"
      [] pc = "sender_after_reservation_before_payload_persistence" -> "persist"
      [] pc = "sender_after_payload_persistence_before_network_send" -> "attempt"
      [] pc = "sender_after_send_before_response" -> "finish"

Armed(pc) == arm.active /\ arm.arm.at = pc /\ ~ arm.arm.consumed

Killed ==
    /\ proc' = Down /\ job' = [c \in Callers |-> NoCall]
    /\ store' = IF Persistent THEN store
                ELSE [records |-> Nothing, reservations |-> Nothing]
    /\ run' = IF Persistent THEN run
              ELSE [run EXCEPT !.sent = {}, !.mixed = FALSE]

\* The arm is counted and consumed by one update; the one that consumes it
\* kills its own process.
Checkpoint(c) ==
    LET hit == [arm.arm EXCEPT !.hits = @ + 1,
                  !.consumed = arm.arm.hits + 1 = arm.arm.occurrence]
    IN  /\ job[c].pc \in Boundaries
        /\ UNCHANGED <<tour, mint, payee, late>>
        /\ IF Armed(job[c].pc)
           THEN /\ arm' = [arm EXCEPT !.arm = hit]
                /\ IF hit.consumed THEN Killed
                   ELSE GoTo(c, AfterBoundary(job[c].pc)) /\ UNCHANGED <<proc, store, run>>
           ELSE GoTo(c, AfterBoundary(job[c].pc)) /\ UNCHANGED <<proc, store, arm, run>>

\* A stored reservation is taken over; else the wallet is asked, which gives
\* the proofs it already gave for this delivery or asks its client.
SenderReserve(c) ==
    LET stored == store.reservations[job[c].d]
    IN  /\ AtPc(c, "reserve") /\ UNCHANGED <<tour, store, arm>> /\ Outside
        /\ IF \/ stored # NoEntry /\ stored.bill # job[c].call.bill
              \/ stored = NoEntry /\ ~ proc.seeded
           THEN Fail(c)
           ELSE IF stored # NoEntry
           THEN /\ UNCHANGED proc
                /\ Becomes(c, [job[c] EXCEPT !.held = stored,
                    !.pc = "sender_after_reservation_before_payload_persistence"])
           ELSE IF proc.reserved[job[c].d] # Nil
           THEN /\ UNCHANGED proc
                /\ Becomes(c, [job[c] EXCEPT !.pc = "evidence",
                      !.held = proc.reserved[job[c].d]])
           ELSE IF ~ proc.funded THEN Fail(c)
           ELSE /\ UNCHANGED proc
                /\ Becomes(c, [job[c] EXCEPT !.pc = "client", !.seen = proc.available])

WalletSend(c) ==
    LET seen == job[c].seen
    IN  /\ AtPc(c, "client") /\ UNCHANGED <<store, arm, payee, late, run>>
        /\ \/ /\ Payable(seen)
              /\ mint' = Swapped(seen) /\ UNCHANGED tour
              /\ proc' = [proc EXCEPT !.available = seen \ {Chosen(seen)},
                                      !.reserved[job[c].d] = Given(seen)]
              /\ Becomes(c, [job[c] EXCEPT !.pc = "evidence", !.held = Given(seen)])
           \/ ~ Payable(seen) /\ Fail(c) /\ UNCHANGED <<tour, mint>>
           \/ /\ ~ tour.exact /\ Payable(seen) /\ Lose /\ Fail(c)
              /\ mint' \in {mint, Swapped(seen)}

\* wallet.evidence, then putReservation.
WalletEvidence(c) ==
    LET d == job[c].d
    IN  /\ AtPc(c, "evidence") /\ UNCHANGED <<tour, store, arm>> /\ Outside
        /\ IF proc.reserved[d] = Nil THEN Fail(c)
           ELSE /\ UNCHANGED proc
                /\ Becomes(c, [job[c] EXCEPT !.pc = "keep",
                      !.held = [bill |-> job[c].call.bill, proofs |-> @]])

Keep(c) ==
    LET d == job[c].d
        after == IF Persistent THEN "verify"
                 ELSE "sender_after_reservation_before_payload_persistence"
    IN  /\ AtPc(c, "keep") /\ UNCHANGED <<tour, arm>> /\ Outside
        /\ IF ~ Persistent /\ Conflicts(d, job[c].held)
           THEN Fail(c) /\ UNCHANGED store
           ELSE /\ store' = PutReservation(d, job[c].held)
                /\ GoTo(c, after) /\ UNCHANGED proc

\* PostgreSQL: the row is read back and must be the one just offered.
Verify(c) ==
    LET d == job[c].d
    IN  /\ AtPc(c, "verify") /\ UNCHANGED <<tour, store, arm>> /\ Outside
        /\ IF store.reservations[d] = NoEntry \/ Conflicts(d, job[c].held)
           THEN Fail(c)
           ELSE /\ UNCHANGED proc
                /\ GoTo(c, "sender_after_reservation_before_payload_persistence")

\* The proof-bearing bytes are stored before the first network attempt.
Persist(c) ==
    LET record == NewRecord(job[c].call.bill, job[c].held.proofs, run.built + 1)
    IN  /\ AtPc(c, "persist") /\ UNCHANGED <<tour, proc, arm, mint, payee, late>>
        /\ Put(job[c].d, record)
        /\ run' = [run EXCEPT !.built = @ + 1]
        /\ Becomes(c, [job[c] EXCEPT !.record = record,
              !.pc = "sender_after_payload_persistence_before_network_send"])

\* The attempt is counted, and so the transport chosen, before it is made.
Attempt(c) ==
    LET record == [job[c].record EXCEPT !.attempts = @ + 1]
    IN  /\ AtPc(c, "attempt") /\ UNCHANGED <<tour, proc, arm>> /\ Outside
        /\ Put(job[c].d, record)
        /\ Becomes(c, [job[c] EXCEPT !.record = record, !.pc = "send"])

\* The database is unreachable: the call ends, the row stays as it was.
StoreFails(c) ==
    /\ job[c].pc \in {"read", "reserve", "keep", "verify", "persist", "attempt", "finish"}
    /\ Persistent /\ Sending(c) /\ Lose /\ Fail(c)
    /\ UNCHANGED <<store, arm>> /\ Outside

-----------------------------------------------------------------------------
(* The transport and the payee. *)

Arrives(d, payload) ==
    IF payee[d] = NoEntry
    THEN [payee EXCEPT ![d] = [payload |-> payload, status |-> "processing"]]
    ELSE payee
Refused(d, payload) == payee[d] # NoEntry /\ payee[d].payload # payload

Sent(c) == run' = [run EXCEPT !.sent = @ \cup
                     {[d |-> job[c].d, payload |-> job[c].record.payload]}]

\* The payee answers with its receipt, or refuses a second payload.
Transport(c) ==
    LET d == job[c].d
        payload == job[c].record.payload
    IN  /\ AtPc(c, "send") /\ Sent(c)
        /\ UNCHANGED <<store, arm, mint>>
        /\ \/ /\ ~ Refused(d, payload) /\ payee' = Arrives(d, payload)
              /\ Becomes(c, [job[c] EXCEPT !.receipt = Arrives(d, payload)[d],
                    !.pc = IF Cdk THEN "finish" ELSE "sender_after_send_before_response"])
              /\ UNCHANGED <<tour, proc, late>>
           \/ /\ Refused(d, payload) /\ Fail(c) /\ UNCHANGED <<tour, payee, late>>
           \/ /\ Lose /\ Fail(c) /\ UNCHANGED payee
              /\ late' = late \cup {[d |-> d, payload |-> payload]}

\* What was sent before a timeout arrives after it.
Late(m) ==
    /\ late' = late \ {m} /\ payee' = Arrives(m.d, m.payload)
    /\ UNCHANGED <<tour, proc, store, arm, job, mint, run>>

Redeem(d) ==
    /\ payee[d] # NoEntry /\ payee[d].status = "processing"
    /\ LET p == payee[d].payload.proofs
       IN  /\ payee' = [payee EXCEPT ![d].status =
                           IF p \in mint.spent THEN "rejected" ELSE "settled"]
           /\ mint' = [mint EXCEPT !.spent = @ \cup {p}]
    /\ UNCHANGED <<tour, proc, store, arm, job, late, run>>

\* assertReceiptTransition, validate_receipt: a receipt never goes back.
Regresses(old, new) ==
    old # NoEntry /\ old.status # "processing" /\ old # new

\* Mutant: the receipt is kept and the proofs are not marked spent.
UpdatedReceipt(record, receipt) == [record EXCEPT !.receipt = receipt]

Updated(record, receipt) ==
    [record EXCEPT !.receipt = receipt, !.spent = @ \/ receipt.status = "settled"]

\* The receipt is checked against the record, the proofs are marked spent and
\* the record is written back.
Finish(c) ==
    LET r == job[c].receipt
        record == job[c].record
        bad == r.payload # record.payload \/ Regresses(record.receipt, r)
    IN  /\ AtPc(c, "finish") /\ UNCHANGED <<tour, arm>> /\ Outside
        /\ Fail(c)
        /\ IF bad THEN UNCHANGED store ELSE Put(job[c].d, Updated(record, r))

-----------------------------------------------------------------------------
(* The CDK adapter: send and reset hold one lock from beginning to end. *)

\* Up to the network attempt.  The freshness of the request matters only to a
\* delivery that is not on record.
CdkSend(c) ==
    LET call == Call(c)
        d == DeliveryOf(call)
        record == store.records[d]
        old == proc.reserved[d]
        seen == proc.available
        proofs == IF old # Nil THEN old ELSE Given(seen)
        fresh == NewRecord(call.bill, proofs, run.built + 1)
        own == [NoCall EXCEPT !.call = call, !.d = d, !.pc = "send"]
        counted == [proc EXCEPT !.ordinal = Ordinal(call)]
        locked == [counted EXCEPT !.lock = c]
    IN  /\ Begun(c) /\ Cdk /\ proc.lock = Nil /\ call.op = "send"
        /\ UNCHANGED <<arm, payee, late>>
        /\ IF ~ CdkParses(call) \/ ~ proc.seeded \/ Underivable(call)
           THEN UNCHANGED <<proc, store, job, mint, run>>
           ELSE IF record # NoEntry
           THEN /\ IF record.bill = call.bill
                   THEN proc' = locked /\ Becomes(c, [own EXCEPT !.record = record])
                   ELSE proc' = counted /\ UNCHANGED job
                /\ UNCHANGED <<store, mint, run>>
           ELSE IF run.expired \/ (old = Nil /\ ~ Payable(seen))
           THEN proc' = counted /\ UNCHANGED <<store, job, mint, run>>
           ELSE /\ Put(d, fresh) /\ run' = [run EXCEPT !.built = @ + 1]
                /\ Becomes(c, [own EXCEPT !.record = fresh])
                /\ proc' = [locked EXCEPT !.reserved[d] = proofs,
                     !.available = IF old = Nil THEN seen \ {Chosen(seen)} ELSE @]
                /\ mint' = IF old = Nil THEN Swapped(seen) ELSE mint

\* The mint does not answer a reservation or the funding of a reset: the call
\* ends, and what was on record stands.
CdkFails(c) ==
    LET call == Call(c)
        seen == proc.available
    IN  /\ proc.up /\ AtPc(c, "idle") /\ tour.calls[c] # <<>>
        /\ Cdk /\ proc.lock = Nil /\ tour.losses > 0 /\ call.op \in {"send", "reset"}
        /\ tour' = [tour EXCEPT !.calls[c] = Tail(@), !.losses = @ - 1]
        /\ IF call.op = "reset" THEN UNCHANGED <<proc, mint>>
           ELSE /\ CdkParses(call) /\ proc.seeded /\ ~ Underivable(call) /\ ~ run.expired
                /\ store.records[DeliveryOf(call)] = NoEntry
                /\ proc.reserved[DeliveryOf(call)] = Nil /\ Payable(seen)
                /\ proc' = [proc EXCEPT !.ordinal = Ordinal(call)]
                /\ mint' \in {mint, Swapped(seen)}
        /\ UNCHANGED <<store, arm, job, payee, late, run>>

\* The wallet is funded first, then the state is replaced.
CdkReset(c) ==
    /\ Begun(c) /\ Cdk /\ proc.lock = Nil /\ Call(c).op = "reset"
    /\ mint' = Minted(mint, 2)
    /\ proc' = [Funded([Down EXCEPT !.up = TRUE], mint) EXCEPT !.seeded = TRUE]
    /\ store' = [records |-> Nothing, reservations |-> Nothing]
    /\ run' = [run EXCEPT !.sent = {}, !.mixed = FALSE]
    /\ UNCHANGED <<arm, job, payee, late>>

-----------------------------------------------------------------------------
(* Resets, crash arms, kills and restarts. *)

\* reset, up to its first await: seed, ordinal and the calls under way.
SenderReset(c) ==
    /\ Begun(c) /\ ~ Cdk /\ Call(c).op = "reset"
    /\ proc' = [proc EXCEPT !.seeded = TRUE, !.ordinal = 0, !.inflight = Nothing]
    /\ Becomes(c, [NoCall EXCEPT !.call = Call(c), !.pc = "clear store"])
    /\ run' = [run EXCEPT !.sent = {}, !.mixed = \E x \in Callers : Sending(x) \/ Resetting(x)]
    /\ UNCHANGED <<store, arm, mint, payee, late>>

\* One transaction deletes and re-creates the run.
ClearStore(c) ==
    /\ AtPc(c, "clear store") /\ GoTo(c, "clear wallet")
    /\ store' = [records |-> Nothing, reservations |-> Nothing]
    /\ UNCHANGED <<tour, proc, arm>> /\ Outside

ClearWallet(c) ==
    /\ AtPc(c, "clear wallet") /\ GoTo(c, "fund")
    /\ proc' = [proc EXCEPT !.reserved = Unreserved, !.available = {}, !.funded = TRUE]
    /\ UNCHANGED <<tour, store, arm>> /\ Outside

\* A quote that is never paid leaves the wallet without a client.
Fund(c) ==
    /\ AtPc(c, "fund") /\ UNCHANGED <<store, arm, payee, late, run>>
    /\ \/ /\ proc' = Funded(proc, mint) /\ mint' = Minted(mint, 2)
          /\ GoTo(c, "clear arms") /\ UNCHANGED tour
       \/ /\ Lose /\ proc' = [proc EXCEPT !.funded = FALSE, !.available = {}]
          /\ Becomes(c, NoCall) /\ UNCHANGED mint

ClearArms(c) ==
    /\ AtPc(c, "clear arms")
    /\ Becomes(c, NoCall)
    /\ arm' = IF tour.control THEN [active |-> TRUE, arm |-> NoArm] ELSE arm
    /\ UNCHANGED <<tour, proc, store>> /\ Outside

\* A crash can be armed once per boundary, in the active run.
Arm(c) ==
    /\ Begun(c) /\ Call(c).op = "arm"
    /\ arm' = IF arm.active /\ arm.arm.at = Nil
              THEN [arm EXCEPT !.arm.at = Call(c).at, !.arm.occurrence = Call(c).occurrence]
              ELSE arm
    /\ UNCHANGED <<proc, store, job>> /\ Outside

Kill ==
    /\ proc.up /\ tour.kills > 0 /\ Killed
    /\ tour' = [tour EXCEPT !.kills = @ - 1]
    /\ UNCHANGED <<arm, mint, payee, late>>

\* The crash session names the run to resume: the store is kept, the wallet is
\* funded anew.  Without one the adapter waits for a reset.
SenderRestart ==
    /\ ~ proc.up
    /\ IF arm.active
       THEN /\ proc' = [Funded([Down EXCEPT !.up = TRUE], mint) EXCEPT !.seeded = TRUE]
            /\ mint' = Minted(mint, 2)
       ELSE proc' = [Down EXCEPT !.up = TRUE] /\ UNCHANGED mint
    /\ UNCHANGED <<tour, store, arm, job, payee, late, run>>

Expire ==
    /\ ~ run.expired /\ tour.expires
    /\ run' = [run EXCEPT !.expired = TRUE]
    /\ UNCHANGED <<tour, proc, store, arm, job, mint, payee, late>>

FundInit ==
    /\ tour \in Tours
    /\ proc = [Down EXCEPT !.up = TRUE]
    /\ store = [records |-> Nothing, reservations |-> Nothing]
    /\ arm = [active |-> FALSE, arm |-> NoArm]
    /\ job = [c \in Callers |-> NoCall]
    /\ mint = [spent |-> {}, issued |-> 0]
    /\ payee = Nothing /\ late = {}
    /\ run = [mixed |-> FALSE, sent |-> {}, built |-> 0, expired |-> FALSE]

FundNext ==
    \/ \E c \in Callers :
        \/ SenderSend(c) \/ Joined(c) \/ Read(c) \/ Checkpoint(c) \/ SenderReserve(c)
        \/ WalletSend(c) \/ WalletEvidence(c) \/ Keep(c) \/ Verify(c) \/ Persist(c)
        \/ Attempt(c) \/ StoreFails(c) \/ Transport(c) \/ Finish(c)
        \/ CdkSend(c) \/ CdkReset(c) \/ CdkFails(c)
        \/ SenderReset(c) \/ ClearStore(c) \/ ClearWallet(c) \/ Fund(c) \/ ClearArms(c)
        \/ Arm(c)
    \/ \E m \in late : Late(m)
    \/ \E d \in Deliveries : Redeem(d)
    \/ Kill \/ SenderRestart \/ Expire

FundSpec == FundInit /\ [][FundNext]_fundVars

-----------------------------------------------------------------------------
(* Retries, concurrent calls, kills and restarts of a run that no reset     *)
(* overlaps send one payload per delivery, and it is the one on record      *)
(* ("Persist the proof-bearing exact bytes before the first network         *)
(* attempt"); a receipt on record that is final is the payee's, for that    *)
(* payload, and the proofs are reported spent exactly when it settled.      *)
SentIsOnRecord ==
    /\ ~ run.mixed => \A s \in run.sent :
          /\ store.records[s.d] # NoEntry
          /\ store.records[s.d].payload = s.payload
    /\ \A d \in Deliveries : LET record == store.records[d] IN
          record # NoEntry /\ record.receipt # NoEntry =>
          /\ record.spent = (record.receipt.status = "settled")
          /\ record.receipt.status # "processing" =>
                payee[d] = [payload |-> record.payload, status |-> record.receipt.status]
=============================================================================
