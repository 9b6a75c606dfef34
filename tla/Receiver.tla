------------------------------ MODULE Receiver ------------------------------
(***************************************************************************)
(* The reference receiver (apps/reference-receiver): it accepts deliveries *)
(* of Cashu proofs, redeems each one by a swap at the mint, credits the    *)
(* merchant and answers with a receipt.  Several workers (HTTP handlers,   *)
(* the Nostr controller, the recovery worker) run acceptDelivery and       *)
(* recoverDelivery over one PostgreSQL store.  Every store call is one     *)
(* serializable transaction and so one step; a worker may crash, lose its  *)
(* database session or see a transaction fail between any two of them.     *)
(*                                                                         *)
(* The mint is external.  A swap request on the wire may be executed,      *)
(* refused, answered too late or never, and may still be executed after    *)
(* the worker that sent it has given up.                                   *)
(***************************************************************************)
EXTENDS Receipts, FiniteSets

CONSTANTS
    Workers, Requests, Deliveries, Proofs,
    Commands,       \* payloads as received: a delivery id with a payload hash
    reqOf, delOf,   \* the request and the delivery a command names
    proofsOf,       \* the proofs a command carries
    Fitting,        \* commands whose unit, mint, expiry and net amount match
    SingleUse,      \* requests that may be paid once
    Nut09, Nut19,   \* recovery the mint advertises: restore, cached swaps
    Checkpoints,    \* settle in three transactions instead of one
    MaxStarts,      \* where the redemption counter saturates (1000 in the code)
    DuplicateSwaps, \* a gateway before the mint may repeat a swap request
    MaxFaults,      \* how many crashes, lost sessions and errors happen
    Nobody, NoCommand, NoDelivery, NoPlan

ASSUME ConstantsAssumption ==
    /\ reqOf \in [Commands -> Requests]
    /\ delOf \in [Commands -> Deliveries]
    /\ proofsOf \in [Commands -> SUBSET Proofs]
    /\ \A c \in Commands : proofsOf[c] # {}
    /\ Fitting \subseteq Commands
    /\ SingleUse \subseteq Requests
    /\ {Nut09, Nut19, Checkpoints, DuplicateSwaps} \subseteq BOOLEAN
    /\ MaxStarts \in Nat \ {0}
    /\ MaxFaults \in Nat
    /\ Nobody \notin Workers
    /\ NoCommand \notin Commands
    /\ NoDelivery \notin Deliveries

\* A swap plan: the blinded outputs one worker drew for one command.
Plans == Commands \X Workers

ASSUME NoPlanAssumption == NoPlan \notin Plans

Phases ==
    {"absent", "prepared", "mint_sent", "recovery_blocked",
     "outputs_persisted", "credited", "settled", "rejected"}

Steps ==
    {"idle", "prepare", "lock", "read", "mark", "dispatch", "hook", "await",
     "settle", "credit", "finalize", "reject", "restore", "replay", "rehook",
     "reawait", "block"}

VARIABLES
    requests,      \* payment requests that exist
    expired,       \* requests whose expiry, with the clock skew, has passed
    replayClosed,  \* deliveries whose nut19ReplayUntil has passed
    bound,         \* delivery -> the command it was prepared from
    plan,          \* delivery -> its swap plan
    phase, receipt, starts,
    outputs,       \* delivery -> the plan whose replacement proofs are stored
    claims,        \* proof -> the delivery that claims it
    credits,       \* deliveries with a row in merchant_credits
    outbox,        \* delivery -> its row in receipt_outbox
    notified,      \* deliveries whose settled receipt was published
    lock,          \* delivery -> the worker holding its redemption lock
    pc, cmd,       \* worker -> its next step, and the command it works on
    swapping,      \* worker -> it is inside swapAndSettle
    alive,         \* worker -> its database session still exists
    wire,          \* worker -> the swap exchange it has open
    late,          \* plans of swap requests nobody waits for any more
    dispatched,    \* delivery -> swap requests sent, up to MaxStarts
    signed,        \* plans whose outputs the mint has signed
    spent,         \* proofs the mint has seen spent
    faults         \* faults so far

clockVars  == <<expired, replayClosed>>
storeVars  == <<requests, bound, plan, phase, receipt, starts, outputs, claims,
                credits, outbox, notified>>
workerVars == <<lock, pc, cmd, swapping, alive>>
netVars    == <<wire, late, dispatched>>
mintVars   == <<signed, spent>>
vars       == <<clockVars, storeVars, workerVars, netVars, mintVars, faults>>

Init ==
    /\ requests = {} /\ expired = {} /\ replayClosed = {}
    /\ bound = [d \in Deliveries |-> NoCommand]
    /\ plan = [d \in Deliveries |-> NoPlan]
    /\ phase = [d \in Deliveries |-> "absent"]
    /\ receipt = [d \in Deliveries |-> NoReceipt]
    /\ starts = [d \in Deliveries |-> 0]
    /\ outputs = [d \in Deliveries |-> NoPlan]
    /\ claims = [p \in Proofs |-> NoDelivery]
    /\ credits = {}
    /\ outbox = [d \in Deliveries |-> "none"]
    /\ notified = {}
    /\ lock = [d \in Deliveries |-> Nobody]
    /\ pc = [w \in Workers |-> "idle"]
    /\ cmd = [w \in Workers |-> NoCommand]
    /\ swapping = [w \in Workers |-> FALSE]
    /\ alive = [w \in Workers |-> FALSE]
    /\ wire = [w \in Workers |-> "none"]
    /\ late = {}
    /\ dispatched = [d \in Deliveries |-> 0]
    /\ signed = {} /\ spent = {} /\ faults = 0

-----------------------------------------------------------------------------
(* Helpers. *)

\* Mutant: blocked recovery counts as an end.
TerminalPhases_Blocked == {"settled", "rejected", "recovery_blocked"}

TerminalPhases == {"settled", "rejected"}

\* The delivery a busy worker works on.
Job(w) == delOf[cmd[w]]

\* Mutant: the cap of the counter is forgotten.
Bump_Uncapped(counter, d) == [counter EXCEPT ![d] = @ + 1]

\* Capped increment of a counter of delivery d.
Bump(counter, d) ==
    [counter EXCEPT ![d] = IF @ < MaxStarts THEN @ + 1 ELSE @]

Goto(w, step) == pc' = [pc EXCEPT ![w] = step]

\* Mutant: only a settled delivery reserves its request.
Reserved_Settled(r) ==
    r \in SingleUse /\ \E d \in Deliveries :
        phase[d] = "settled" /\ reqOf[bound[d]] = r

\* A single-use request is reserved by its delivery until that is rejected.
Reserved(r) ==
    /\ r \in SingleUse
    /\ \E d \in Deliveries :
          /\ bound[d] # NoCommand
          /\ reqOf[bound[d]] = r
          /\ phase[d] # "rejected"

\* The worker stops waiting for its swap exchange; the mint may still get it.
AbandonExchange(w) ==
    /\ wire' = [wire EXCEPT ![w] = "none"]
    /\ late' = IF wire[w] = "sent" THEN late \cup {plan[Job(w)]} ELSE late

\* The operation ends (normally or by a throw) and its lock is released.
Finish(w) ==
    /\ lock' = [d \in Deliveries |-> IF lock[d] = w THEN Nobody ELSE lock[d]]
    /\ pc' = [pc EXCEPT ![w] = "idle"]
    /\ cmd' = [cmd EXCEPT ![w] = NoCommand]
    /\ swapping' = [swapping EXCEPT ![w] = FALSE]
    /\ alive' = [alive EXCEPT ![w] = FALSE]

-----------------------------------------------------------------------------
(* Requests and time. *)

CreateRequest(r) ==
    /\ r \notin requests
    /\ requests' = requests \cup {r}
    /\ UNCHANGED <<clockVars, bound, plan, phase, receipt, starts, outputs,
                   claims, credits, outbox, notified, workerVars, netVars,
                   mintVars, faults>>

RequestExpires(r) ==
    /\ r \in requests \ expired
    /\ expired' = expired \cup {r}
    /\ UNCHANGED <<replayClosed, storeVars, workerVars, netVars, mintVars, faults>>

ReplayWindowCloses(d) ==
    /\ Nut19
    /\ phase[d] # "absent"
    /\ d \notin replayClosed
    /\ replayClosed' = replayClosed \cup {d}
    /\ UNCHANGED <<expired, storeVars, workerVars, netVars, mintVars, faults>>

-----------------------------------------------------------------------------
(* acceptDelivery: payload parsing, preflight, inspection and prepare.  An   *)
(* answer that changes nothing (a terminal receipt, a refusal) is no step.   *)

\* A payload arrives for a delivery the store already has: only the same
\* command gets through, and an unfinished delivery is taken to recovery.
PreflightKnown(w, c) ==
    /\ pc[w] = "idle"
    /\ reqOf[c] \notin expired
    /\ bound[delOf[c]] = c
    /\ phase[delOf[c]] \notin TerminalPhases
    /\ Goto(w, "lock")
    /\ cmd' = [cmd EXCEPT ![w] = c]
    /\ UNCHANGED <<clockVars, storeVars, lock, swapping, alive, netVars, mintVars,
                   faults>>

\* A payload arrives for a new delivery and agrees with its request.
PreflightNew(w, c) ==
    /\ pc[w] = "idle"
    /\ reqOf[c] \in requests \ expired
    /\ bound[delOf[c]] = NoCommand
    /\ c \in Fitting
    /\ ~Reserved(reqOf[c])
    /\ Goto(w, "prepare")
    /\ cmd' = [cmd EXCEPT ![w] = c]
    /\ UNCHANGED <<clockVars, storeVars, lock, swapping, alive, netVars, mintVars,
                   faults>>

\* The proofs are no good, or the mint cannot be asked for its keysets.
InspectFails(w) ==
    /\ pc[w] = "prepare"
    /\ Finish(w)
    /\ UNCHANGED <<clockVars, storeVars, netVars, mintVars, faults>>

\* Mutant: the primary key of proof_claims is missing.
CanPrepare_Unclaimed(c) ==
    /\ reqOf[c] \notin expired
    /\ bound[delOf[c]] = NoCommand
    /\ ~Reserved(reqOf[c])

\* Mutant: a delivery prepared twice is overwritten.
CanPrepare_Overwrite(c) ==
    /\ reqOf[c] \notin expired
    /\ bound[delOf[c]] \in {NoCommand, c}
    /\ \A p \in proofsOf[c] : claims[p] \in {NoDelivery, delOf[c]}
    /\ ~Reserved(reqOf[c])

\* What the prepare transaction, with its unique indexes, insists on.
CanPrepare(c) ==
    /\ reqOf[c] \notin expired
    /\ bound[delOf[c]] = NoCommand
    /\ \A p \in proofsOf[c] : claims[p] = NoDelivery
    /\ ~Reserved(reqOf[c])

Prepare(w) ==
    LET c == cmd[w]
        d == delOf[c]
    IN  /\ pc[w] = "prepare"
        /\ CanPrepare(c)
        /\ bound' = [bound EXCEPT ![d] = c]
        /\ plan' = [plan EXCEPT ![d] = <<c, w>>]
        /\ phase' = [phase EXCEPT ![d] = "prepared"]
        /\ receipt' = [receipt EXCEPT ![d] = FirstReceipt]
        /\ claims' = [p \in Proofs |-> IF p \in proofsOf[c] THEN d ELSE claims[p]]
        /\ Goto(w, "lock")
        /\ UNCHANGED <<clockVars, requests, starts, outputs, credits, outbox,
                       notified, lock, cmd, swapping, alive, netVars, mintVars,
                       faults>>

\* A duplicate gets the stored receipt, every other conflict an error.
PrepareRefused(w) ==
    /\ pc[w] = "prepare"
    /\ ~CanPrepare(cmd[w])
    /\ Finish(w)
    /\ UNCHANGED <<clockVars, storeVars, netVars, mintVars, faults>>

-----------------------------------------------------------------------------
(* recoverDelivery: take the lock, read the record, continue by its phase.   *)

\* Mutant: the phase list of recoverableDeliveryIds lacks 'prepared'.
LeaseRecovery_Unprepared(w, d) ==
    /\ pc[w] = "idle"
    /\ phase[d] \notin TerminalPhases \cup {"absent", "prepared"}
    /\ Goto(w, "lock")
    /\ cmd' = [cmd EXCEPT ![w] = bound[d]]
    /\ UNCHANGED <<clockVars, storeVars, lock, swapping, alive, netVars, mintVars,
                   faults>>

\* The recovery worker leases an unfinished delivery.
LeaseRecovery(w, d) ==
    /\ pc[w] = "idle"
    /\ phase[d] \notin TerminalPhases \cup {"absent"}
    /\ Goto(w, "lock")
    /\ cmd' = [cmd EXCEPT ![w] = bound[d]]
    /\ UNCHANGED <<clockVars, storeVars, lock, swapping, alive, netVars, mintVars,
                   faults>>

AcquireLock(w) ==
    /\ pc[w] = "lock"
    /\ lock[Job(w)] = Nobody
    /\ lock' = [lock EXCEPT ![Job(w)] = w]
    /\ alive' = [alive EXCEPT ![w] = TRUE]
    /\ Goto(w, "read")
    /\ UNCHANGED <<clockVars, storeVars, cmd, swapping, netVars, mintVars, faults>>

\* Someone else redeems: answer with the receipt as it stands.
LockBusy(w) ==
    /\ pc[w] = "lock"
    /\ lock[Job(w)] # Nobody
    /\ Finish(w)
    /\ UNCHANGED <<clockVars, storeVars, netVars, mintVars, faults>>

\* Mutant: a delivery handed to the mint is settled without asking the mint.
NextStep_Trusting(ph) ==
    CASE ph = "prepared" -> "mark"
      [] ph = "credited" -> "finalize"
      [] OTHER -> "settle"

\* Mutant: recovery sends the swap again.
NextStep_Redispatch(ph) ==
    CASE ph = "outputs_persisted" -> "settle"
      [] ph = "credited" -> "finalize"
      [] OTHER -> "mark"

\* Where recoverLockedDelivery goes from a phase it has to work on.
NextStep(ph) ==
    CASE ph = "prepared" -> "mark"
      [] ph = "outputs_persisted" -> "settle"
      [] ph = "credited" -> "finalize"
      [] OTHER -> "restore"

ReadRecord(w) ==
    /\ pc[w] = "read"
    /\ alive[w]
    /\ IF phase[Job(w)] \in TerminalPhases
       THEN Finish(w)
       ELSE /\ Goto(w, NextStep(phase[Job(w)]))
            /\ UNCHANGED <<lock, cmd, swapping, alive>>
    /\ UNCHANGED <<clockVars, storeVars, netVars, mintVars, faults>>

\* markMintSent does nothing in any other phase, and the swap follows anyway.
MarkMintSent(w) ==
    LET d == Job(w)
    IN  /\ pc[w] = "mark"
        /\ alive[w]
        /\ IF phase[d] = "prepared"
           THEN /\ phase' = [phase EXCEPT ![d] = "mint_sent"]
                /\ receipt' = [receipt EXCEPT ![d] =
                                  nextReceipt(@, "processing", "redeeming")]
           ELSE UNCHANGED <<phase, receipt>>
        /\ Goto(w, "dispatch")
        /\ swapping' = [swapping EXCEPT ![w] = TRUE]
        /\ UNCHANGED <<clockVars, requests, bound, plan, starts, outputs, claims,
                       credits, outbox, notified, lock, cmd, alive, netVars,
                       mintVars, faults>>

-----------------------------------------------------------------------------
(* The swap exchange.  Its plan is the one stored with the delivery.         *)

\* POST /v1/swap, from swap ("dispatch") or as a NUT-19 replay ("replay").
DispatchSwap(w) ==
    /\ pc[w] \in {"dispatch", "replay"}
    /\ wire' = [wire EXCEPT ![w] = "sent"]
    /\ dispatched' = Bump(dispatched, Job(w))
    /\ Goto(w, IF pc[w] = "dispatch" THEN "hook" ELSE "rehook")
    /\ UNCHANGED <<clockVars, storeVars, lock, cmd, swapping, alive, late, mintVars,
                   faults>>

\* The afterRequestDispatched hook.  A refusal ends a swap and is swallowed by
\* a replay; both leave the request on the wire.
RecordRedemptionStart(w) ==
    /\ pc[w] \in {"hook", "rehook"}
    /\ alive[w]
    /\ IF phase[Job(w)] \in {"prepared", "rejected"}
       THEN /\ AbandonExchange(w)
            /\ IF pc[w] = "hook"
               THEN Finish(w)
               ELSE Goto(w, "block") /\ UNCHANGED <<lock, cmd, swapping, alive>>
            /\ UNCHANGED starts
       ELSE /\ starts' = Bump(starts, Job(w))
            /\ Goto(w, IF pc[w] = "hook" THEN "await" ELSE "reawait")
            /\ UNCHANGED <<lock, cmd, swapping, alive, wire, late>>
    /\ UNCHANGED <<clockVars, requests, bound, plan, phase, receipt, outputs,
                   claims, credits, outbox, notified, dispatched, mintVars, faults>>

\* A 2xx answer with signatures.
SwapAnswered(w) ==
    /\ pc[w] \in {"await", "reawait"}
    /\ wire[w] = "done"
    /\ wire' = [wire EXCEPT ![w] = "none"]
    /\ Goto(w, "settle")
    /\ UNCHANGED <<clockVars, storeVars, lock, cmd, swapping, alive, late,
                   dispatched, mintVars, faults>>

\* A 4xx answer: taken as proof that nothing was consumed, except in a replay.
SwapRefused(w) ==
    /\ pc[w] \in {"await", "reawait"}
    /\ wire[w] = "refused"
    /\ wire' = [wire EXCEPT ![w] = "none"]
    /\ Goto(w, IF pc[w] = "await" THEN "reject" ELSE "block")
    /\ UNCHANGED <<clockVars, storeVars, lock, cmd, swapping, alive, late,
                   dispatched, mintVars, faults>>

\* Mutant: a timeout is taken for an unavailable mint and the delivery rejected.
SwapAmbiguous_Rejects(w) ==
    /\ pc[w] \in {"dispatch", "hook", "await", "replay", "rehook", "reawait"}
    /\ AbandonExchange(w)
    /\ Goto(w, "reject")
    /\ UNCHANGED <<clockVars, storeVars, lock, cmd, swapping, alive, dispatched,
                   mintVars, faults>>

\* Timeout, network error, 5xx or an unusable answer: anything may have
\* happened at the mint, or may yet.
SwapAmbiguous(w) ==
    /\ pc[w] \in {"dispatch", "hook", "await", "replay", "rehook", "reawait"}
    /\ AbandonExchange(w)
    /\ Goto(w, "block")
    /\ UNCHANGED <<clockVars, storeVars, lock, cmd, swapping, alive, dispatched,
                   mintVars, faults>>

-----------------------------------------------------------------------------
(* Settlement, rejection, blocked recovery.                                  *)

Settleable == {"mint_sent", "recovery_blocked", "outputs_persisted", "credited"}

\* The replacement proofs of plan pl do not contradict stored ones.
SameOutputs(d) == outputs[d] \in {NoPlan, plan[d]}

\* The part of settle and finalizeSettlement that ends a delivery.
EndSettled(d) ==
    /\ phase' = [phase EXCEPT ![d] = "settled"]
    /\ receipt' = [receipt EXCEPT ![d] = nextReceipt(@, "settled", "settled")]
    /\ outbox' = [outbox EXCEPT ![d] = "pending"]

\* settle: outputs, credit, receipt and outbox row in one transaction.
Settle(w) ==
    LET d == Job(w)
    IN  /\ pc[w] = "settle"
        /\ alive[w]
        /\ ~Checkpoints
        /\ IF phase[d] \in Settleable /\ SameOutputs(d)
           THEN /\ outputs' = [outputs EXCEPT ![d] = plan[d]]
                /\ credits' = credits \cup {d}
                /\ EndSettled(d)
           ELSE UNCHANGED <<outputs, credits, phase, receipt, outbox>>
        /\ Finish(w)
        /\ UNCHANGED <<clockVars, requests, bound, plan, starts, claims, notified,
                       netVars, mintVars, faults>>

PersistSettlementOutputs(w) ==
    LET d == Job(w)
    IN  /\ pc[w] = "settle"
        /\ alive[w]
        /\ Checkpoints
        /\ IF phase[d] \in Settleable \cup {"settled"} /\ SameOutputs(d)
           THEN /\ IF phase[d] \in {"mint_sent", "recovery_blocked"}
                   THEN /\ phase' = [phase EXCEPT ![d] = "outputs_persisted"]
                        /\ outputs' = [outputs EXCEPT ![d] = plan[d]]
                   ELSE UNCHANGED <<phase, outputs>>
                /\ Goto(w, "credit")
                /\ UNCHANGED <<lock, cmd, swapping, alive>>
           ELSE Finish(w) /\ UNCHANGED <<phase, outputs>>
        /\ UNCHANGED <<clockVars, requests, bound, plan, receipt, starts, claims,
                       credits, outbox, notified, netVars, mintVars, faults>>

CreditSettlement(w) ==
    LET d == Job(w)
    IN  /\ pc[w] = "credit"
        /\ alive[w]
        /\ IF phase[d] = "outputs_persisted"
           THEN /\ credits' = credits \cup {d}
                /\ phase' = [phase EXCEPT ![d] = "credited"]
           ELSE UNCHANGED <<credits, phase>>
        /\ IF phase[d] \in {"outputs_persisted", "credited", "settled"}
           THEN Goto(w, "finalize") /\ UNCHANGED <<lock, cmd, swapping, alive>>
           ELSE Finish(w)
        /\ UNCHANGED <<clockVars, requests, bound, plan, receipt, starts, outputs,
                       claims, outbox, notified, netVars, mintVars, faults>>

FinalizeSettlement(w) ==
    /\ pc[w] = "finalize"
    /\ alive[w]
    /\ IF phase[Job(w)] = "credited"
       THEN EndSettled(Job(w))
       ELSE UNCHANGED <<phase, receipt, outbox>>
    /\ Finish(w)
    /\ UNCHANGED <<clockVars, requests, bound, plan, starts, outputs, claims, credits,
                   notified, netVars, mintVars, faults>>

\* reject(..., 'mint_unavailable', true): the claims are released.
Reject(w) ==
    LET d == Job(w)
    IN  /\ pc[w] = "reject"
        /\ alive[w]
        /\ IF phase[d] \in {"prepared", "mint_sent"}
           THEN /\ phase' = [phase EXCEPT ![d] = "rejected"]
                /\ receipt' = [receipt EXCEPT ![d] =
                                  nextReceipt(@, "rejected", "mint_unavailable")]
                /\ claims' = [p \in Proofs |->
                                IF claims[p] = d THEN NoDelivery ELSE claims[p]]
           ELSE UNCHANGED <<phase, receipt, claims>>
        /\ Finish(w)
        /\ UNCHANGED <<clockVars, requests, bound, plan, starts, outputs, credits,
                       outbox, notified, netVars, mintVars, faults>>

BlockRecovery(w) ==
    LET d == Job(w)
    IN  /\ pc[w] = "block"
        /\ alive[w]
        /\ IF phase[d] \in {"prepared", "mint_sent"}
           THEN /\ phase' = [phase EXCEPT ![d] = "recovery_blocked"]
                /\ receipt' = [receipt EXCEPT ![d] =
                                  nextReceipt(@, "processing", "recovery_blocked")]
           ELSE UNCHANGED <<phase, receipt>>
        /\ Finish(w)
        /\ UNCHANGED <<clockVars, requests, bound, plan, starts, outputs, claims,
                       credits, outbox, notified, netVars, mintVars, faults>>

-----------------------------------------------------------------------------
(* CashuTsMintGateway.restore: NUT-09 first, then a NUT-19 replay, and NUT-07 *)
(* proof states that, whatever they are, only lead to blocked recovery.       *)

ReplayAllowed(d) == Nut19 /\ d \notin replayClosed

RestoreFound(w) ==
    /\ pc[w] = "restore"
    /\ Nut09
    /\ plan[Job(w)] \in signed
    /\ Goto(w, "settle")
    /\ UNCHANGED <<clockVars, storeVars, lock, cmd, swapping, alive, netVars,
                   mintVars, faults>>

RestoreNotFound(w) ==
    /\ pc[w] = "restore"
    /\ ~Nut09 \/ plan[Job(w)] \notin signed
    /\ Goto(w, IF ReplayAllowed(Job(w)) THEN "replay" ELSE "block")
    /\ UNCHANGED <<clockVars, storeVars, lock, cmd, swapping, alive, netVars,
                   mintVars, faults>>

-----------------------------------------------------------------------------
(* The outbox publisher.                                                     *)

PublishOutbox(d) ==
    /\ outbox[d] = "pending"
    /\ outbox' = [outbox EXCEPT ![d] = "published"]
    /\ notified' = notified \cup {d}
    /\ UNCHANGED <<clockVars, requests, bound, plan, phase, receipt, starts, outputs,
                   claims, credits, workerVars, netVars, mintVars, faults>>

-----------------------------------------------------------------------------
(* The mint, and a gateway in front of it that repeats a request.            *)

Signable(pl) == pl \notin signed /\ proofsOf[pl[1]] \cap spent = {}

Sign(pl) ==
    /\ Signable(pl)
    /\ signed' = signed \cup {pl}
    /\ spent' = spent \cup proofsOf[pl[1]]

MintSwaps(w) ==
    /\ wire[w] = "sent"
    /\ Sign(plan[Job(w)])
    /\ wire' = [wire EXCEPT ![w] = "done"]
    /\ UNCHANGED <<clockVars, storeVars, workerVars, late, dispatched, faults>>

\* NUT-19: an identical request gets the cached answer.
MintReplays(w) ==
    /\ wire[w] = "sent"
    /\ plan[Job(w)] \in signed
    /\ ReplayAllowed(Job(w))
    /\ wire' = [wire EXCEPT ![w] = "done"]
    /\ UNCHANGED <<clockVars, storeVars, workerVars, late, dispatched, mintVars,
                   faults>>

\* 4xx: the proofs are spent, or the mint will not swap now.
MintRefuses(w) ==
    /\ wire[w] = "sent"
    /\ ~(plan[Job(w)] \in signed /\ ReplayAllowed(Job(w)))
    /\ wire' = [wire EXCEPT ![w] = "refused"]
    /\ UNCHANGED <<clockVars, storeVars, workerVars, late, dispatched, mintVars,
                   faults>>

\* A request nobody waits for reaches the mint after all, or never does.
MintSwapsLate(pl) ==
    /\ pl \in late
    /\ late' = late \ {pl}
    /\ Sign(pl) \/ UNCHANGED mintVars
    /\ UNCHANGED <<clockVars, storeVars, workerVars, wire, dispatched, faults>>

SpentElsewhere(p) ==
    /\ p \notin spent
    /\ spent' = spent \cup {p}
    /\ UNCHANGED <<clockVars, storeVars, workerVars, netVars, signed, faults>>

\* The gateway sends copies of a request side by side and answers with the
\* answer to the first: here another copy reaches the mint before it.
GatewayDuplicates(w) ==
    /\ DuplicateSwaps
    /\ wire[w] = "sent"
    /\ Sign(plan[Job(w)])
    /\ UNCHANGED <<clockVars, storeVars, workerVars, netVars, faults>>

-----------------------------------------------------------------------------
(* Faults.                                                                   *)

StoreSteps ==
    {"read", "mark", "hook", "settle", "credit", "finalize", "reject", "rehook",
     "block"}

Fault == faults < MaxFaults /\ faults' = faults + 1

\* The process dies, or a crash checkpoint throws.
Crash(w) ==
    /\ Fault
    /\ pc[w] # "idle"
    /\ AbandonExchange(w)
    /\ Finish(w)
    /\ UNCHANGED <<clockVars, storeVars, dispatched, mintVars>>

\* PostgreSQL drops the session, and with it the advisory lock; the worker
\* carries on with a store bound to a dead connection.
LoseSession(w) ==
    /\ Fault
    /\ alive[w]
    /\ alive' = [alive EXCEPT ![w] = FALSE]
    /\ lock' = [lock EXCEPT ![Job(w)] = Nobody]
    /\ UNCHANGED <<clockVars, storeVars, pc, cmd, swapping, netVars, mintVars>>

\* Every store call on a dead session throws, the one in the catch included.
SessionGone(w) ==
    /\ pc[w] \in StoreSteps
    /\ ~alive[w]
    /\ AbandonExchange(w)
    /\ Finish(w)
    /\ UNCHANGED <<clockVars, storeVars, dispatched, mintVars, faults>>

\* Whether an error of the store call at this step reaches the catch of
\* recoverLockedDelivery: settlement is awaited inside swapAndSettle only.
Caught(w) ==
    \/ pc[w] \in {"mark", "hook", "rehook", "reject"}
    \/ pc[w] \in {"settle", "credit", "finalize"} /\ swapping[w]

\* A transaction keeps failing to serialize, on a session that lives.
StoreFails(w) ==
    /\ Fault
    /\ pc[w] \in StoreSteps
    /\ alive[w]
    /\ AbandonExchange(w)
    /\ IF Caught(w)
       THEN Goto(w, "block") /\ UNCHANGED <<lock, cmd, swapping, alive>>
       ELSE Finish(w)
    /\ UNCHANGED <<clockVars, storeVars, dispatched, mintVars>>

\* The NUT-09 request itself fails.
RestoreFails(w) ==
    /\ Fault
    /\ pc[w] = "restore"
    /\ Nut09
    /\ Goto(w, IF ReplayAllowed(Job(w)) THEN "replay" ELSE "block")
    /\ UNCHANGED <<clockVars, storeVars, lock, cmd, swapping, alive, netVars,
                   mintVars>>

\* The receipt is published and then the transaction rolls back.
PublishRolledBack(d) ==
    /\ Fault
    /\ outbox[d] = "pending"
    /\ notified' = notified \cup {d}
    /\ UNCHANGED <<clockVars, requests, bound, plan, phase, receipt, starts, outputs,
                   claims, credits, outbox, workerVars, netVars, mintVars>>

-----------------------------------------------------------------------------
\* What a worker does next once it has taken up a delivery.
WorkerStep(w) ==
    \/ Prepare(w) \/ PrepareRefused(w) \/ AcquireLock(w) \/ LockBusy(w)
    \/ ReadRecord(w) \/ MarkMintSent(w) \/ DispatchSwap(w)
    \/ RecordRedemptionStart(w) \/ SwapAnswered(w) \/ SwapRefused(w)
    \/ SwapAmbiguous(w) \/ Settle(w) \/ PersistSettlementOutputs(w)
    \/ CreditSettlement(w) \/ FinalizeSettlement(w) \/ Reject(w)
    \/ BlockRecovery(w) \/ RestoreFound(w) \/ RestoreNotFound(w)
    \/ SessionGone(w)

WorkerFault(w) == Crash(w) \/ LoseSession(w) \/ StoreFails(w) \/ RestoreFails(w)

MintStep(w) ==
    MintSwaps(w) \/ MintReplays(w) \/ MintRefuses(w) \/ GatewayDuplicates(w)

Next ==
    \/ \E r \in Requests : CreateRequest(r) \/ RequestExpires(r)
    \/ \E w \in Workers, c \in Commands : PreflightKnown(w, c) \/ PreflightNew(w, c)
    \/ \E w \in Workers, d \in Deliveries : LeaseRecovery(w, d)
    \/ \E w \in Workers :
          WorkerStep(w) \/ InspectFails(w) \/ MintStep(w) \/ WorkerFault(w)
    \/ \E d \in Deliveries :
          ReplayWindowCloses(d) \/ PublishOutbox(d) \/ PublishRolledBack(d)
    \/ \E pl \in late : MintSwapsLate(pl)
    \/ \E p \in Proofs : SpentElsewhere(p)

Spec == Init /\ [][Next]_vars

\* Workers do not stop half-way (timeouts end every wait), the recovery worker
\* comes back to every unfinished delivery, and the publisher keeps running.
Fairness ==
    /\ \A w \in Workers : WF_vars(WorkerStep(w))
    /\ \A d \in Deliveries :
          /\ SF_vars(\E w \in Workers : LeaseRecovery(w, d))
          /\ WF_vars(PublishOutbox(d))

FairSpec == Spec /\ Fairness

-----------------------------------------------------------------------------
(* Properties.                                                               *)

\* The types of the variables (the columns of the receiver's tables and the
\* local state of its workers).
TypeOK ==
    /\ requests \subseteq Requests
    /\ expired \subseteq Requests
    /\ replayClosed \subseteq Deliveries
    /\ bound \in [Deliveries -> Commands \cup {NoCommand}]
    /\ plan \in [Deliveries -> Plans \cup {NoPlan}]
    /\ phase \in [Deliveries -> Phases]
    /\ receipt \in [Deliveries -> Receipts \cup {NoReceipt}]
    /\ starts \in [Deliveries -> 0 .. MaxStarts]
    /\ outputs \in [Deliveries -> Plans \cup {NoPlan}]
    /\ claims \in [Proofs -> Deliveries \cup {NoDelivery}]
    /\ credits \subseteq Deliveries
    /\ outbox \in [Deliveries -> {"none", "pending", "published"}]
    /\ notified \subseteq Deliveries
    /\ lock \in [Deliveries -> Workers \cup {Nobody}]
    /\ pc \in [Workers -> Steps]
    /\ cmd \in [Workers -> Commands \cup {NoCommand}]
    /\ swapping \in [Workers -> BOOLEAN]
    /\ alive \in [Workers -> BOOLEAN]
    /\ wire \in [Workers -> {"none", "sent", "done", "refused"}]
    /\ late \subseteq Plans
    /\ dispatched \in [Deliveries -> 0 .. MaxStarts]
    /\ signed \subseteq Plans
    /\ spent \subseteq Proofs
    /\ faults \in 0 .. MaxFaults

\* No premature credit: the merchant is credited, and a settled receipt
\* published, only for a delivery whose own plan the mint has signed and whose
\* outputs are stored, however the settlement was cut by crashes; and a credit
\* exists exactly in the phases that say so.
CreditBackedBySwap ==
    /\ \A d \in credits : plan[d] \in signed /\ outputs[d] = plan[d]
    /\ \A d \in Deliveries : d \in credits <=> phase[d] \in {"credited", "settled"}
    /\ \A d \in notified : phase[d] = "settled" /\ receipt[d].status = "settled"

\* A swap request for plan pl is on its way, or some worker is about to send it.
InFlight(pl) ==
    \/ pl \in late
    \/ \E w \in Workers :
          /\ cmd[w] # NoCommand
          /\ plan[Job(w)] = pl
          /\ wire[w] = "sent" \/ pc[w] \in {"dispatch", "replay"}

\* No false rejection: once reject has told the sender that the proofs are
\* unused and released the claims, the delivery's swap was not executed and
\* nothing on the way can execute it any more.
NoFalseRejection ==
    \A d \in Deliveries :
        phase[d] = "rejected" => plan[d] \notin signed /\ ~InFlight(plan[d])

\* Proof-set exclusivity: the claims table holds exactly the proofs of the
\* deliveries that are not rejected, so no two of them share a proof.
ProofSetExclusivity ==
    \A d \in Deliveries, p \in Proofs :
        claims[p] = d <=>
            /\ phase[d] \notin {"absent", "rejected"}
            /\ p \in proofsOf[bound[d]]

\* A single-use request is held by at most one delivery that is not rejected,
\* although preflight and prepare look at different moments.
SingleUseReservation ==
    \A d, e \in Deliveries :
        /\ phase[d] \notin {"absent", "rejected"}
        /\ phase[e] \notin {"absent", "rejected"}
        /\ reqOf[bound[d]] = reqOf[bound[e]]
        /\ reqOf[bound[d]] \in SingleUse
        => d = e

\* Without NUT-19 no retry, duplicate, crash or takeover sends a second swap
\* request for a delivery, and every recorded start is a request sent.
AtMostOneSwapRequest ==
    \A d \in Deliveries :
        /\ starts[d] <= dispatched[d]
        /\ ~Nut19 => dispatched[d] <= 1

\* Output secrets are stored before they are used: whatever the mint signs, or
\* may still sign, for a delivery is the plan its record holds, so a crash
\* cannot lose the replacement proofs.
PlanStoredBeforeSwap ==
    \A pl \in signed \cup late : plan[delOf[pl[1]]] = pl

\* invariants.md, 1: a redemption is started at most once per delivery.
RedemptionStartsOnce == \A d \in Deliveries : starts[d] <= 1

\* Every stored receipt follows from the one before as assertReceiptTransition
\* demands, so its throw inside a store transaction is never reached and
\* terminal receipts stay.
ReceiptsAdvance ==
    [][\A d \in Deliveries :
         receipt'[d] # receipt[d] => ReceiptTransition(receipt[d], receipt'[d])]_vars

\* The receipt diagram of delivery-v1.md: rejections follow "accepted", name
\* one of three reasons, and blocked recovery follows "redeeming".
ReceiptDiagram ==
    [][\A d \in Deliveries :
         /\ receipt[d].detailCode # receipt'[d].detailCode
         /\ receipt[d] # NoReceipt
         => <<receipt[d].detailCode, receipt'[d].detailCode>> \in
               {<<"accepted", "redeeming">>, <<"redeeming", "settled">>,
                <<"accepted", "invalid">>, <<"accepted", "expired">>,
                <<"accepted", "conflict">>, <<"redeeming", "recovery_blocked">>,
                <<"recovery_blocked", "settled">>}]_vars

\* The receiver as a ledger: what the receipts say, what the mint has signed.
Ledger ==
    INSTANCE DeliveryLedger WITH
        redeemed <- {d \in Deliveries : plan[d] \in signed}

\* The receiver implements the ledger: whatever its workers do, the mint
\* redeems an accepted delivery at most once, for a delivery still open, and a
\* credit needs a redemption and a rejection the lack of one.
LedgerRefinement == Ledger!Spec

\* With NUT-09, a delivery the mint has redeemed is settled and its receipt
\* published in the end, wherever crashes and lost sessions cut the work.
RedeemedIsSettled ==
    Nut09 => \A d \in Deliveries :
                 plan[d] \in signed ~> phase[d] = "settled" /\ d \in notified

\* An accepted delivery does not stay in limbo: it ends, or its receipt says
\* openly that recovery is blocked.
AcceptedIsResolved ==
    \A d \in Deliveries :
        phase[d] = "prepared" ~> phase[d] \in TerminalPhases \cup {"recovery_blocked"}
=============================================================================
