--------------------------- MODULE MemoryReceiver ---------------------------
(***************************************************************************)
(* The receivers the laboratory resets between runs: the cashu-ts adapter's *)
(* and the funded reference receiver, which serve adapter control calls     *)
(* (reset, createRequest, proofs, ledger) next to the payments, on a        *)
(* MemoryReceiverStore.  A transaction of that store is one step; a payment *)
(* takes several, and a reset may come between any two.                     *)
(*                                                                          *)
(* Request and delivery ids are derived from the seed of the run: runs with *)
(* the same seed use the same ids, with other proofs.  Expiry, redemption   *)
(* counts and NUT-19 replays are left to Receiver; a crash takes the whole  *)
(* store with it and is left out.                                           *)
(***************************************************************************)
EXTENDS Integers, Sequences, Functions

CONSTANTS
    Handlers,    \* payments that may be handled at the same time
    Sessions     \* [seeds, names, checkpoints, losses]: one seed per run, the payments
                 \* of a run, whether crash checkpoints are fitted, unanswered swaps

\* What the payments of a run pay, and with which of its proofs.
OrdinalOf(name) == IF name = "other_request" THEN 1 ELSE 0
ProofsOf(o) ==
    {<<o.run, IF o.name = "other_proof" THEN "y" ELSE "x">>}

VARIABLES
    session,
    runs,        \* runs begun
    control,     \* [seed, ordinal, busy]
    held,        \* the store: [requests, deliveries, proofClaims, reservations, credits]
    locks,       \* #redemptionLocks
    offered,     \* payments senders have made
    handler,     \* [pc, offer, plan, wire]
    bank,        \* the mint: [signed, spent]
    adrift,      \* plans of requests nobody waits for
    lossesLeft,
    evidence,    \* what proofs() and ledger() answered: [run, plans, spent, ledger]
    crossed      \* a run began with the seed of a payment of an earlier one that was still handled

memoryVars ==
    <<session, runs, control, held, locks, offered, handler, bank, adrift, lossesLeft, evidence,
      crossed>>

NoPlan == <<>>
Free == [pc |-> "idle", offer |-> NoPlan, plan |-> NoPlan, wire |-> "none"]
NoEvidence == [run |-> 0, plans |-> {}, spent |-> {}, ledger |-> {}]

SeedOf(o) == session.seeds[o.run]
RequestId(o) == <<SeedOf(o), OrdinalOf(o.name)>>
DeliveryId(o) == <<SeedOf(o), o.name>>

-----------------------------------------------------------------------------
(* MemoryReceiverStore: what its transactions make of the state s.           *)

emptyState ==
    [requests |-> {}, deliveries |-> <<>>, proofClaims |-> <<>>, reservations |-> <<>>,
     credits |-> {}]

\* Mutant: the ledger survives a reset.
ClearedButLedger(s) == [emptyState EXCEPT !.credits = s.credits]
Cleared(s) == emptyState

Has(s, d) == d \in DOMAIN s.deliveries
Ended(s, d) == s.deliveries[d].phase \in {"settled", "rejected"}

\* reset and createRequest of a single-use request.
Created(s, r) == [s EXCEPT !.requests = @ \cup {r}]

TakenBy(s, o) ==
    RequestId(o) \in DOMAIN s.reservations /\ s.reservations[RequestId(o)] # DeliveryId(o)

\* preflight of a payment the store does not know.
Preflighted(s, o) == RequestId(o) \in s.requests /\ ~TakenBy(s, o)

Preparable(s, o) ==
    /\ RequestId(o) \in s.requests
    /\ ~Has(s, DeliveryId(o))
    /\ \A p \in ProofsOf(o) \cap DOMAIN s.proofClaims : s.proofClaims[p] = DeliveryId(o)
    /\ ~TakenBy(s, o)

\* The map m with the value v under each of the keys.
MapSet(m, keys, v) == [k \in DOMAIN m \cup keys |-> IF k \in keys THEN v ELSE m[k]]

Prepared(s, o, plan) ==
    [s EXCEPT
        !.deliveries = MapSet(@, {DeliveryId(o)}, [offer |-> o, plan |-> plan, phase |-> "prepared",
                                                   outputs |-> NoPlan]),
        !.proofClaims = MapSet(@, ProofsOf(o), DeliveryId(o)),
        !.reservations = MapSet(@, {RequestId(o)}, DeliveryId(o))]

In(s, d, phase) == [s EXCEPT !.deliveries[d].phase = phase]

MintSent(s, d) == IF s.deliveries[d].phase = "prepared" THEN In(s, d, "mint_sent") ELSE s

\* recordRedemptionStart: it throws otherwise.
Redeemable(s, d) == Has(s, d) /\ s.deliveries[d].phase \notin {"prepared", "rejected"}

\* settle and persistSettlementOutputs: the phases they take outputs in, and
\* outputs that are not those already stored.
Dispatched == {"mint_sent", "recovery_blocked", "outputs_persisted", "credited"}
Disagrees(s, d, plan) == s.deliveries[d].outputs \notin {NoPlan, plan}

Settled(s, d, plan) ==
    IF s.deliveries[d].phase \in Dispatched /\ ~Disagrees(s, d, plan)
    THEN [In(s, d, "settled") EXCEPT !.deliveries[d].outputs = plan,
                                     !.credits = @ \cup {d}]
    ELSE s

Persistable(s, d, plan) ==
    s.deliveries[d].phase \in Dispatched \cup {"settled"} /\ ~Disagrees(s, d, plan)

Persisted(s, d, plan) ==
    IF s.deliveries[d].phase \in {"mint_sent", "recovery_blocked"}
    THEN [In(s, d, "outputs_persisted") EXCEPT !.deliveries[d].outputs = plan]
    ELSE s

CreditedIn(s, d) ==
    IF s.deliveries[d].phase = "outputs_persisted"
    THEN [In(s, d, "credited") EXCEPT !.credits = @ \cup {d}]
    ELSE s

Finalized(s, d) == IF s.deliveries[d].phase = "credited" THEN In(s, d, "settled") ELSE s

Blocked(s, d) ==
    IF s.deliveries[d].phase \in {"prepared", "mint_sent"} THEN In(s, d, "recovery_blocked") ELSE s

\* reject with the claims released.
Rejected(s, d) ==
    IF s.deliveries[d].phase \in {"prepared", "mint_sent"}
    THEN [In(s, d, "rejected") EXCEPT
            !.proofClaims = Restrict(@, {p \in DOMAIN @ : @[p] # d}),
            !.reservations = Restrict(@, {r \in DOMAIN @ : @[r] # d})]
    ELSE s

-----------------------------------------------------------------------------
(* acceptDelivery and recoverDelivery on this store.                         *)

At(h, pc) == handler[h].pc = pc
Job(h) == DeliveryId(handler[h].offer)
Goto(h, pc) == handler' = [handler EXCEPT ![h].pc = pc]

\* The finally of withRedemptionLock, and the end of the payment.
Unlock(h) ==
    /\ locks' = locks \ {Job(h)}
    /\ handler' = [handler EXCEPT ![h] = Free]
    /\ adrift' = IF handler[h].wire = "sent" THEN adrift \cup {handler[h].plan} ELSE adrift

\* A store call of a payment that holds the lock: it throws when the delivery
\* is gone, and the payment ends.
StoreCall(h, pc, after, next) ==
    /\ At(h, pc)
    /\ IF Has(held, Job(h))
       THEN /\ held' = after
            /\ IF next = "end" THEN Unlock(h) ELSE Goto(h, next) /\ UNCHANGED <<locks, adrift>>
       ELSE Unlock(h) /\ UNCHANGED held
    /\ UNCHANGED <<session, runs, control, offered, bank, lossesLeft, evidence, crossed>>

Receive(h, o) ==
    /\ At(h, "idle") /\ o \in offered
    /\ IF Has(held, DeliveryId(o))
       THEN /\ held.deliveries[DeliveryId(o)].offer = o /\ ~Ended(held, DeliveryId(o))
            /\ handler' = [handler EXCEPT ![h] = [Free EXCEPT !.pc = "lock", !.offer = o]]
       ELSE /\ Preflighted(held, o)
            /\ handler' = [handler EXCEPT ![h] = [Free EXCEPT !.pc = "prepare", !.offer = o]]
    /\ UNCHANGED <<session, runs, control, held, locks, offered, bank, adrift, lossesLeft,
                   evidence, crossed>>

Prepare(h) ==
    LET o == handler[h].offer
    IN  /\ At(h, "prepare")
        /\ IF Preparable(held, o)
           THEN held' = Prepared(held, o, <<o, h, runs>>) /\ Goto(h, "lock")
           ELSE handler' = [handler EXCEPT ![h] = Free] /\ UNCHANGED held
        /\ UNCHANGED <<session, runs, control, locks, offered, bank, adrift, lossesLeft, evidence,
                       crossed>>

withRedemptionLock(h) ==
    /\ At(h, "lock")
    /\ IF Job(h) \in locks
       THEN handler' = [handler EXCEPT ![h] = Free] /\ UNCHANGED locks
       ELSE locks' = locks \cup {Job(h)} /\ Goto(h, "read")
    /\ UNCHANGED <<session, runs, control, held, offered, bank, adrift, lossesLeft, evidence,
                   crossed>>

NextStep(phase) ==
    CASE phase = "prepared" -> "mark"
      [] phase = "outputs_persisted" -> "settle"
      [] phase = "credited" -> "finalize"
      [] OTHER -> "restore"

ReadRecord(h) ==
    /\ At(h, "read")
    /\ IF Has(held, Job(h)) /\ ~Ended(held, Job(h))
       THEN LET record == held.deliveries[Job(h)] IN
            /\ handler' = [handler EXCEPT ![h].pc = NextStep(record.phase),
                                          ![h].plan = IF record.phase = "outputs_persisted"
                                                      THEN record.outputs ELSE record.plan]
            /\ UNCHANGED <<locks, adrift>>
       ELSE Unlock(h)
    /\ UNCHANGED <<session, runs, control, held, offered, bank, lossesLeft, evidence, crossed>>

MarkMintSent(h) == StoreCall(h, "mark", MintSent(held, Job(h)), "dispatch")

DispatchSwap(h) ==
    /\ At(h, "dispatch")
    /\ handler' = [handler EXCEPT ![h].pc = "hook", ![h].wire = "sent"]
    /\ UNCHANGED <<session, runs, control, held, locks, offered, bank, adrift, lossesLeft,
                   evidence, crossed>>

\* The afterRequestDispatched hook.
RecordRedemptionStart(h) ==
    StoreCall(h, "hook", held, IF Redeemable(held, Job(h)) THEN "await" ELSE "end")

SwapAnswered(h) ==
    /\ At(h, "await") /\ handler[h].wire \in {"done", "refused"}
    /\ handler' = [handler EXCEPT ![h].pc = IF handler[h].wire = "done" THEN "settle" ELSE "reject",
                                  ![h].wire = "none"]
    /\ UNCHANGED <<session, runs, control, held, locks, offered, bank, adrift, lossesLeft,
                   evidence, crossed>>

\* No answer, or none that can be used.
Unanswered(h) ==
    /\ handler[h].pc \in {"hook", "await"} /\ lossesLeft > 0
    /\ lossesLeft' = lossesLeft - 1
    /\ adrift' = IF handler[h].wire = "sent" THEN adrift \cup {handler[h].plan} ELSE adrift
    /\ handler' = [handler EXCEPT ![h].pc = "block", ![h].wire = "none"]
    /\ UNCHANGED <<session, runs, control, held, locks, offered, bank, evidence, crossed>>

\* restore and proofStates: the outputs of the plan if the mint signed it and
\* says so.
Restore(h) ==
    StoreCall(h, "restore", held, IF Redeemable(held, Job(h)) THEN "restored" ELSE "end")

Restored(h) ==
    /\ At(h, "restored")
    /\ \E next \in {"block"} \cup {"settle" : plan \in {handler[h].plan} \cap bank.signed} :
          Goto(h, next)
    /\ UNCHANGED <<session, runs, control, held, locks, offered, bank, adrift, lossesLeft,
                   evidence, crossed>>

SettleDelivery(h) ==
    /\ ~session.checkpoints
    /\ StoreCall(h, "settle", Settled(held, Job(h), handler[h].plan), "end")

PersistSettlementOutputs(h) ==
    /\ session.checkpoints
    /\ StoreCall(h, "settle", Persisted(held, Job(h), handler[h].plan),
                 IF Has(held, Job(h)) /\ Persistable(held, Job(h), handler[h].plan)
                 THEN "credit" ELSE "end")

CreditSettlement(h) ==
    StoreCall(h, "credit", CreditedIn(held, Job(h)),
              IF Has(held, Job(h)) /\ held.deliveries[Job(h)].phase
                                        \in {"outputs_persisted", "credited", "settled"}
              THEN "finalize" ELSE "end")

FinalizeSettlement(h) == StoreCall(h, "finalize", Finalized(held, Job(h)), "end")
Reject(h) == StoreCall(h, "reject", Rejected(held, Job(h)), "end")
BlockRecovery(h) == StoreCall(h, "block", Blocked(held, Job(h)), "end")

-----------------------------------------------------------------------------
(* The mint.                                                                 *)

Signed(plan) ==
    /\ plan \notin bank.signed /\ ProofsOf(plan[1]) \cap bank.spent = {}
    /\ bank' = [signed |-> bank.signed \cup {plan}, spent |-> bank.spent \cup ProofsOf(plan[1])]

MintAnswers(h) ==
    /\ handler[h].wire = "sent"
    /\ \/ Signed(handler[h].plan) /\ handler' = [handler EXCEPT ![h].wire = "done"]
       \/ UNCHANGED bank /\ handler' = [handler EXCEPT ![h].wire = "refused"]
    /\ UNCHANGED <<session, runs, control, held, locks, offered, adrift, lossesLeft, evidence,
                   crossed>>

MintSignsLate(plan) ==
    /\ plan \in adrift /\ Signed(plan)
    /\ adrift' = adrift \ {plan}
    /\ UNCHANGED <<session, runs, control, held, locks, offered, handler, lossesLeft, evidence,
                   crossed>>

-----------------------------------------------------------------------------
(* The adapter's control calls, one after another.                           *)

\* reset: first the store, then, once that has been awaited, the rest.
ResetStore ==
    /\ control.busy = "no" /\ runs < Len(session.seeds)
    /\ control' = [control EXCEPT !.busy = "reset"]
    /\ held' = Cleared(held)
    /\ crossed' = (crossed \/ \E h \in Handlers :
                                ~At(h, "idle") /\ SeedOf(handler[h].offer) = session.seeds[runs + 1])
    /\ UNCHANGED <<session, runs, locks, offered, handler, bank, adrift, lossesLeft, evidence>>

ResetControl ==
    /\ control.busy = "reset"
    /\ locks' = {}
    /\ runs' = runs + 1
    /\ control' = [seed |-> session.seeds[runs + 1], ordinal |-> 0, busy |-> "no"]
    /\ UNCHANGED <<session, held, offered, handler, bank, adrift, lossesLeft, evidence, crossed>>

CreateRequest ==
    /\ control.busy = "no" /\ runs > 0
    /\ \E name \in session.names : OrdinalOf(name) = control.ordinal
    /\ control' = [control EXCEPT !.ordinal = @ + 1]
    /\ held' = Created(held, <<control.seed, control.ordinal>>)
    /\ offered' = offered \cup {[run |-> runs, name |-> name] :
                                  name \in {n \in session.names : OrdinalOf(n) = control.ordinal}}
    /\ UNCHANGED <<session, runs, locks, handler, bank, adrift, lossesLeft, evidence, crossed>>

\* proofs(): the deliveries first, then, in one go, the record of each.
SettlementPlans ==
    /\ control.busy = "no" /\ DOMAIN held.deliveries # {}
    /\ control' = [control EXCEPT !.busy = "proofs"]
    /\ evidence' = [NoEvidence EXCEPT !.run = runs, !.plans = DOMAIN held.deliveries]
    /\ UNCHANGED <<session, runs, held, locks, offered, handler, bank, adrift, lossesLeft, crossed>>

Proofs ==
    /\ control.busy = "proofs"
    /\ control' = [control EXCEPT !.busy = "ledger"]
    /\ evidence' = [evidence EXCEPT !.spent = {d \in evidence.plans :
                                    Has(held, d) /\ held.deliveries[d].phase = "settled"}]
    /\ UNCHANGED <<session, runs, held, locks, offered, handler, bank, adrift, lossesLeft, crossed>>

Ledger ==
    /\ control.busy = "ledger"
    /\ control' = [control EXCEPT !.busy = "no"]
    /\ evidence' = [evidence EXCEPT !.plans = {}, !.ledger = held.credits]
    /\ UNCHANGED <<session, runs, held, locks, offered, handler, bank, adrift, lossesLeft, crossed>>

MemoryInit ==
    /\ session \in Sessions
    /\ runs = 0
    /\ control = [seed |-> "none", ordinal |-> 0, busy |-> "no"]
    /\ held = emptyState
    /\ locks = {} /\ offered = {}
    /\ handler = [h \in Handlers |-> Free]
    /\ bank = [signed |-> {}, spent |-> {}]
    /\ adrift = {}
    /\ lossesLeft = session.losses
    /\ evidence = NoEvidence
    /\ crossed = FALSE

Payment(h) ==
    \/ \E o \in offered : Receive(h, o)
    \/ Prepare(h) \/ withRedemptionLock(h) \/ ReadRecord(h) \/ MarkMintSent(h)
    \/ DispatchSwap(h) \/ RecordRedemptionStart(h) \/ MintAnswers(h) \/ SwapAnswered(h)
    \/ Unanswered(h) \/ Restore(h) \/ Restored(h) \/ SettleDelivery(h) \/ PersistSettlementOutputs(h)
    \/ CreditSettlement(h) \/ FinalizeSettlement(h) \/ Reject(h) \/ BlockRecovery(h)

MemoryNext ==
    \/ \E h \in Handlers : Payment(h)
    \/ \E plan \in adrift : MintSignsLate(plan)
    \/ ResetStore \/ ResetControl \/ CreateRequest \/ SettlementPlans \/ Proofs \/ Ledger

MemorySpec == MemoryInit /\ [][MemoryNext]_memoryVars

-----------------------------------------------------------------------------
\* The run's ledger is the run's own.  A credit belongs to a delivery of this
\* run that is credited or settled, and the mint did swap proofs for that
\* delivery id, whichever payments of earlier runs are still handled when the
\* reset comes (memory-store.ts:44-53).  Unless such a payment has the ids of
\* this run, a delivery keeps the outputs of its own plan, and a rejected one
\* was not redeemed.  And proofs(), read before ledger(), shows no delivery as
\* spent that the ledger does not credit.
LedgerIsOfThisRun ==
    /\ held.credits =
         {d \in DOMAIN held.deliveries : held.deliveries[d].phase \in {"credited", "settled"}}
    /\ \A d \in held.credits : \E plan \in bank.signed : DeliveryId(plan[1]) = d
    /\ ~crossed =>
         \A d \in DOMAIN held.deliveries :
            LET record == held.deliveries[d] IN
            /\ record.outputs \in {NoPlan, record.plan} \cap (bank.signed \cup {NoPlan})
            /\ record.phase = "rejected" => record.plan \notin bank.signed
    /\ control.busy = "no" => evidence.spent \subseteq evidence.ledger
=============================================================================
