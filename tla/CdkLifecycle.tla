---------------------------- MODULE CdkLifecycle ----------------------------
(***************************************************************************)
(* The wallet lifecycle of the CDK adapter (adapters/cdk/src/lifecycle.rs  *)
(* and lifecycle_store.rs).  Engines in one or more processes share one    *)
(* SQLCipher journal.  A request claims its operation with a lease and a   *)
(* fencing token, takes the wallet barrier, drives the operation through   *)
(* its phases and commits the result; a reset builds the next wallet       *)
(* generation and then clears the journal.                                 *)
(*                                                                         *)
(* Time is reduced to what the leases tell apart: a claim is live until an *)
(* Expire action, at any moment, lets claimed_until pass.  All proofs have *)
(* the same value, the case in which outputs of two operations can be      *)
(* mistaken for each other.  The CDK wallet, its sagas and the mint are    *)
(* external: they are modelled from the calls the adapter makes.           *)
(***************************************************************************)
EXTENDS LifecycleOperation, Sequences, Relation

CONSTANTS
    CdkOps,         \* operation ids
    Processes,      \* engine processes that open the same journal
    Workers,        \* requests being served
    Consumers,      \* consumers of the send outbox
    Setups,         \* [kind, target, home, max]: what is run, where, and how often
    MaxResets,      \* bound: wallet generations after the first
    NoOne           \* no owner

VARIABLES
    setup,          \* kinds and targets, the workers' processes, the bounds
    rows,           \* lifecycle_operations, with the claim columns
    barrier,        \* lifecycle_wallet_barrier, the singleton row
    outbox,         \* lifecycle_send_outbox
    resetClaim,     \* reset_owner, reset_token and reset_until
    fence,          \* next_fencing_token
    active,         \* active_generation
    files,          \* wallet generations on disk
    engine,         \* per process: the open wallet and the reset under way
    stack,          \* per worker: the run_owned frames
    holding,        \* per consumer: the send handoff it claimed
    unspent,        \* per generation: proofs the wallet can spend
    reserved,       \* per generation: proofs reserved by unconfirmed sends
    saga,           \* per generation and operation: wallet saga and mint
    used            \* the bounded events so far

cdkVars == <<setup, rows, barrier, outbox, resetClaim, fence, active, files, engine,
             stack, holding, unspent, reserved, saga, used>>

Generations == 1..(MaxResets + 1)
kind(o) == setup.kind[o]
home(w) == setup.home[w]

(***************************************************************************)
(* Leases, fencing tokens and the wallet barrier.                          *)
(***************************************************************************)
NoClaim == [owner |-> NoOne, token |-> 0, live |-> FALSE]
Lease(p, t) == [owner |-> p, token |-> t, live |-> TRUE]

\* claimed_until > now for this owner and this token.
Holds(claim, p, t) == claim = Lease(p, t)

NoRow == [phase |-> "none", plan |-> <<>>, unverified |-> FALSE, via |-> 0,
          claim |-> NoClaim]
NoBarrier == [op |-> NoOp, claim |-> NoClaim]
NoHandoff == [status |-> "none", claim |-> NoClaim]

reset_claim_active == resetClaim.live

\* create_and_claim and try_claim: a reset keeps everybody out, and a claim is
\* taken over only once it has run out.  A failed attempt is repeated 5 ms later.
Claimable(o) == ~reset_claim_active /\ ~rows[o].claim.live

Claim(o, p) ==
    /\ Claimable(o)
    /\ fence' = fence + 1
    /\ rows' = [rows EXCEPT ![o].claim = Lease(p, fence + 1),
                            ![o].phase = IF @ = "none" THEN "created" ELSE @]

\* try_claim_wallet_mutation for an operation whose claim is held.
BarrierFree(o, p) ==
    \/ barrier = NoBarrier
    \/ barrier.op = o /\ (barrier.claim.owner = p \/ ~barrier.claim.live)

\* A terminal success or definitive failure gives the barrier back; a blocked
\* recovery keeps it, so that no later operation can be confused with it.
BarrierAfterEveryEnd(o, p, t, phase) ==
    IF phase \in Terminal /\ barrier.op = o /\ Holds(barrier.claim, p, t)
    THEN NoBarrier ELSE barrier
BarrierAfter(o, p, t, phase) ==
    IF phase \in {"succeeded", "failed_definitive"}
        /\ barrier.op = o /\ Holds(barrier.claim, p, t)
    THEN NoBarrier ELSE barrier

(***************************************************************************)
(* The CDK wallet and the mint.                                            *)
(***************************************************************************)
Coin(o) == <<o, "out">>
Funds == {<<o, "in">> : o \in CdkOps}
NoCoin == <<NoOp, "none">>
NoSaga == [state |-> "none", coin |-> NoCoin, sent |-> FALSE, executed |-> FALSE,
           quote |-> "none"]

Spends == {"swap", "melt"}
Receives == {"mint", "swap", "receive"}

\* recover_incomplete_sagas: a request is completed or undone by what the mint says of
\* it, and a reservation that was never confirmed is released.
RecoverSaga(s) ==
    IF s.state # "pending" THEN s
    ELSE [s EXCEPT !.state = IF s.executed THEN "done" ELSE "undone"]

\* Proofs that become spendable when the saga of o moves from s to t.
Gained(o, s, t) ==
    (IF s.state # "done" /\ t.state = "done" /\ kind(o) \in Receives THEN {Coin(o)} ELSE {})
    \cup (IF s.state # "undone" /\ t.state = "undone" /\ kind(o) \in Spends
          THEN {s.coin} ELSE {})

RecoverIncompleteSagas(g) ==
    LET f == [o \in CdkOps |-> RecoverSaga(saga[g][o])] IN
    /\ saga' = [saga EXCEPT ![g] = f]
    /\ unspent' = [unspent EXCEPT ![g] = @ \cup reserved[g] \cup
                      UNION {Gained(o, saga[g][o], f[o]) : o \in CdkOps}]
    /\ reserved' = [reserved EXCEPT ![g] = {}]

SagaStep(g, o, s) ==
    /\ saga' = [saga EXCEPT ![g][o] = s]
    /\ unspent' = [unspent EXCEPT ![g] = @ \cup Gained(o, saga[g][o], s)]
    /\ UNCHANGED reserved

\* A request that spends c is under way.
Spend(g, o, c) ==
    /\ c \in unspent[g]
    /\ unspent' = [unspent EXCEPT ![g] = @ \ {c}]
    /\ saga' = [saga EXCEPT ![g][o] = [NoSaga EXCEPT !.coin = c, !.state = "pending",
                                                    !.sent = TRUE]]
    /\ UNCHANGED reserved

\* prepare_send and confirm_send.
Reserve(g, c) ==
    /\ c \in unspent[g]
    /\ unspent' = [unspent EXCEPT ![g] = @ \ {c}]
    /\ reserved' = [reserved EXCEPT ![g] = @ \cup {c}]
    /\ UNCHANGED saga

ConfirmSend(g, c) ==
    /\ c \in reserved[g]
    /\ reserved' = [reserved EXCEPT ![g] = @ \ {c}]
    /\ UNCHANGED <<unspent, saga>>

walletUnchanged == UNCHANGED <<unspent, reserved, saga>>

\* The mint executes a request that is under way, now or long after the sender has
\* given up on it; a spent input is refused.
MintExecutes(g, o) ==
    /\ saga[g][o].sent
    /\ \A p \in CdkOps \ {o} : saga[g][p].executed => saga[g][p].coin # saga[g][o].coin
                                                     \/ kind(o) \notin Spends
    /\ saga' = [saga EXCEPT ![g][o].executed = TRUE, ![g][o].sent = FALSE,
                            ![g][o].quote = IF kind(o) = "mint" THEN "issued" ELSE @]
    /\ UNCHANGED <<setup, rows, barrier, outbox, resetClaim, fence, active, files, engine,
                   stack, holding, unspent, reserved, used>>

\* The invoice of a mint quote is paid.
QuotePaid(g, o) ==
    /\ saga[g][o].quote = "unpaid"
    /\ saga' = [saga EXCEPT ![g][o].quote = "paid"]
    /\ UNCHANGED <<setup, rows, barrier, outbox, resetClaim, fence, active, files, engine,
                   stack, holding, unspent, reserved, used>>

(***************************************************************************)
(* The frames of run_owned.  A reconcile operation runs its target in a    *)
(* frame on top of its own.                                                *)
(***************************************************************************)
Frame(o, t, rec) == [op |-> o, token |-> t, rec |-> rec, pc |-> "claimed", gen |-> 0,
                     res |-> <<>>]
\* As in SequencesExt, which as a whole would slow the proofs down.
Front(s) == SubSeq(s, 1, Len(s) - 1)
Last(s) == s[Len(s)]
Top(w) == Last(stack[w])
Busy(p) == \E w \in Workers : home(w) = p /\ stack[w] # <<>>
SetTop(w, f) == stack' = [stack EXCEPT ![w] = Front(@) \o <<f>>]
Goto(w, pc) == SetTop(w, [Top(w) EXCEPT !.pc = pc])
OwnsByProcess(w, f) == rows[f.op].claim.owner = home(w)
Owns(w, f) == Holds(rows[f.op].claim, home(w), f.token)

\* A LifecycleExecution: the phase it asks for and the material it returns.
Result(phase, plan) == [phase |-> phase, plan |-> plan, unverified |-> FALSE]
Blocked == Result("recovery_blocked", <<>>)
Ambiguous(plan) == Result("ambiguous", plan)
Succeeded(plan) == Result("succeeded", plan)
Unverified(phase, plan) == [Result(phase, plan) EXCEPT !.unverified = TRUE]

Answer(w, r) == SetTop(w, [Top(w) EXCEPT !.pc = "finish", !.res = <<r>>])

\* What reconcile_execution makes of the target's phase.
TargetResult(phase) ==
    CASE phase = "succeeded"         -> Succeeded(<<>>)
      [] phase = "failed_definitive" -> Result("failed_definitive", <<>>)
      [] OTHER                       -> Blocked

\* run_owned returns: to the reconcile frame below, or to the caller.
Leave(w, phase) ==
    stack' = [stack EXCEPT ![w] =
        IF Len(@) = 1 THEN <<>>
        ELSE LET below == Front(@) IN
             Front(below) \o <<[Last(below) EXCEPT !.pc = "finish",
                                                   !.res = <<TargetResult(phase)>>]>>]

Wallet(w) == engine[home(w)].wallet

engineUnchanged == UNCHANGED <<setup, resetClaim, active, files, engine, holding>>

\* start: the read gate, the capability check, then create_and_claim.
Start(w, o) ==
    LET p == home(w) IN
    /\ stack[w] = <<>> /\ used.starts < setup.max.starts
    /\ kind(o) \in Kinds
    /\ engine[p].reset = "idle" /\ engine[p].wallet # 0
    /\ Claim(o, p)
    /\ stack' = [stack EXCEPT ![w] =
                    <<Frame(o, fence + 1, rows[o].phase \notin {"none", "created"})>>]
    /\ used' = [used EXCEPT !.starts = @ + 1]
    /\ engineUnchanged /\ UNCHANGED <<barrier, outbox, unspent, reserved, saga>>

\* resume: an operation that is not terminal is claimed for recovery.
Resume(w, o) ==
    LET p == home(w) IN
    /\ stack[w] = <<>> /\ used.starts < setup.max.starts
    /\ engine[p].reset = "idle"
    /\ rows[o].phase \notin Terminal \cup {"none"}
    /\ Claim(o, p)
    /\ stack' = [stack EXCEPT ![w] = <<Frame(o, fence + 1, TRUE)>>]
    /\ used' = [used EXCEPT !.starts = @ + 1]
    /\ engineUnchanged /\ UNCHANGED <<barrier, outbox, unspent, reserved, saga>>

\* A store call of a worker whose claim was lost fails; so does the renewal, which
\* drops the work of every frame above it.
ClaimLost(w) ==
    \E i \in 1..Len(stack[w]) :
        /\ ~Owns(w, stack[w][i])
        /\ stack' = [stack EXCEPT ![w] =
               IF i = 1 THEN <<>>
               ELSE SubSeq(@, 1, i - 2) \o <<[@[i - 1] EXCEPT !.pc = "finish",
                                                             !.res = <<Blocked>>]>>]
        /\ engineUnchanged
        /\ UNCHANGED <<rows, barrier, outbox, fence, unspent, reserved, saga, used>>

(***************************************************************************)
(* run_claimed: barrier, phases, wallet calls, commit.                     *)
(***************************************************************************)
TakeBarrier(w) ==
    LET f == Top(w)
        p == home(w)
        mine == kind(f.op) # "reconcile" /\ rows[f.op].phase \notin Terminal IN
    /\ f.pc = "claimed" /\ Owns(w, f)
    /\ \/ /\ mine /\ BarrierFree(f.op, p)
          /\ barrier' = [op |-> f.op, claim |-> Lease(p, f.token)]
          /\ Goto(w, "begin")
       \/ /\ mine /\ ~BarrierFree(f.op, p)
          /\ Goto(w, "release") /\ UNCHANGED barrier
       \/ /\ ~mine
          /\ Goto(w, IF rows[f.op].phase \in Terminal THEN "release" ELSE "begin")
          /\ UNCHANGED barrier
    /\ engineUnchanged /\ UNCHANGED <<rows, outbox, fence, unspent, reserved, saga, used>>

\* A recovery first records that it is reconciling.  A plan that was prepared and
\* never submitted is executed, everything else is recovered.
PutReconciling(w) ==
    LET f == Top(w)
        row == rows[f.op] IN
    /\ f.pc = "begin" /\ f.rec
    /\ row.phase = "reconciling" \/ Owns(w, f)
    /\ rows' = [rows EXCEPT ![f.op].phase = "reconciling"]
    /\ Goto(w, IF kind(f.op) = "reconcile" THEN "reconcile"
               ELSE IF row.phase = "prepared" /\ row.plan # <<>> THEN "execute"
               ELSE "recover")
    /\ engineUnchanged /\ UNCHANGED <<barrier, outbox, fence, unspent, reserved, saga, used>>

Snapshot(g, c) == <<[prior |-> unspent[g], coin |-> c]>>
Quoted == <<[prior |-> {}, coin |-> NoCoin]>>

\* LifecycleWalletPort::prepare: swap chooses its inputs, send reserves them, receive
\* notes the balance, the others prepare nothing.
Prepare(w) ==
    LET f == Top(w)
        o == f.op
        g == Wallet(w)
        Done(plan) == SetTop(w, [f EXCEPT !.pc = "prepared", !.res = <<Result("prepared", plan)>>])
    IN
    /\ f.pc = "begin" /\ ~f.rec
    /\ \/ /\ kind(o) = "swap"
          /\ \E c \in unspent[g] : Done(Snapshot(g, c))
          /\ walletUnchanged
       \/ /\ kind(o) = "send"
          /\ \E c \in unspent[g] : Done(Snapshot(g, c)) /\ Reserve(g, c)
       \/ /\ kind(o) = "receive"
          /\ Done(Snapshot(g, NoCoin)) /\ walletUnchanged
       \/ /\ kind(o) \in {"mint", "melt", "restore", "reconcile"}
          /\ Done(<<>>) /\ walletUnchanged
       \/ /\ kind(o) \in {"swap", "send", "receive"}
          /\ SetTop(w, [f EXCEPT !.pc = "refused", !.res = <<Blocked>>])
          /\ walletUnchanged
    /\ engineUnchanged /\ UNCHANGED <<rows, barrier, outbox, fence, used>>

\* The journal entries around the call: prepared with its material, then submitted.
PutPrepared(w) ==
    LET f == Top(w) IN
    /\ f.pc = "prepared" /\ Owns(w, f)
    /\ rows' = [rows EXCEPT ![f.op].phase = "prepared", ![f.op].plan = f.res[1].plan]
    /\ Goto(w, "submit")
    /\ engineUnchanged /\ UNCHANGED <<barrier, outbox, fence, unspent, reserved, saga, used>>

PutSubmitted(w) ==
    LET f == Top(w) IN
    /\ f.pc \in {"submit", "refused"} /\ Owns(w, f)
    /\ rows' = [rows EXCEPT ![f.op].phase = "submitted"]
    /\ Goto(w, IF f.pc = "refused" THEN "finish"
               ELSE IF kind(f.op) = "reconcile" THEN "reconcile" ELSE "execute")
    /\ engineUnchanged /\ UNCHANGED <<barrier, outbox, fence, unspent, reserved, saga, used>>

\* The wallet answers, or its request to the mint is under way.
Reply(w, g, r) == SetTop(w, [Top(w) EXCEPT !.pc = "finish", !.gen = g, !.res = <<r>>])
Sent(w, g, plan) ==
    SetTop(w, [Top(w) EXCEPT !.pc = "await", !.gen = g, !.res = <<Ambiguous(plan)>>])

\* A quote that fails, is not paid yet, or is paid and minted.  The quote identity is
\* only journalled with the result.
ExecuteMint(w, g, o) ==
    \/ Reply(w, g, Ambiguous(<<>>)) /\ walletUnchanged
    \/ Reply(w, g, Ambiguous(Quoted)) /\ SagaStep(g, o, [NoSaga EXCEPT !.quote = "unpaid"])
    \/ /\ Sent(w, g, Quoted)
       /\ SagaStep(g, o, [NoSaga EXCEPT !.quote = "paid", !.sent = TRUE, !.state = "pending"])

\* The fee check and the plan checks may refuse; otherwise the planned proofs go out.
ExecuteSwap(w, g, o, plan) ==
    \/ Reply(w, g, Result("recovery_blocked", plan)) /\ walletUnchanged
    \/ Sent(w, g, plan) /\ Spend(g, o, plan[1].coin)

\* confirm_send works on the wallet alone; an error leaves it done or not done.
ExecuteSend(w, g, plan) ==
    \/ ConfirmSend(g, plan[1].coin) /\ (Reply(w, g, Succeeded(plan)) \/ Reply(w, g, Ambiguous(plan)))
    \/ Reply(w, g, Ambiguous(plan)) /\ walletUnchanged

ExecuteReceive(w, g, o) ==
    /\ Sent(w, g, <<>>)
    /\ SagaStep(g, o, [NoSaga EXCEPT !.sent = TRUE, !.state = "pending"])

\* A refused quote is definitive; otherwise proofs are selected and the melt goes out.
ExecuteMelt(w, g, o) ==
    \/ Reply(w, g, Result("failed_definitive", <<>>)) /\ walletUnchanged
    \/ \E c \in unspent[g] : Sent(w, g, Snapshot(g, NoCoin)) /\ Spend(g, o, c)

\* restore brings back the outputs the mint signed and nobody spent.
ExecuteRestore(w, g) ==
    \/ Reply(w, g, Blocked) /\ walletUnchanged
    \/ /\ Reply(w, g, Succeeded(<<>>))
       /\ unspent' = [unspent EXCEPT ![g] = @ \cup
             {Coin(p) : p \in {p \in CdkOps : kind(p) \in Receives /\ saga[g][p].executed
                 /\ \A q \in CdkOps : saga[g][q].coin = Coin(p) => saga[g][q].state = "undone"}}]
       /\ UNCHANGED <<reserved, saga>>

\* execute_prepared and execute, up to the answer of the mint.
Execute(w) ==
    LET o == Top(w).op
        g == Wallet(w)
        plan == rows[o].plan IN
    /\ Top(w).pc = "execute"
    /\ \/ kind(o) = "mint" /\ ExecuteMint(w, g, o)
       \/ kind(o) = "swap" /\ plan # <<>> /\ ExecuteSwap(w, g, o, plan)
       \/ kind(o) = "send" /\ plan # <<>> /\ ExecuteSend(w, g, plan)
       \/ kind(o) = "receive" /\ ExecuteReceive(w, g, o)
       \/ kind(o) = "melt" /\ ExecuteMelt(w, g, o)
       \/ kind(o) = "restore" /\ ExecuteRestore(w, g)
    /\ engineUnchanged /\ UNCHANGED <<rows, barrier, outbox, fence, used>>

\* correlated_swap_outputs: the proofs that were not there before must be worth the
\* amount.
Correlated(now, plan) == Cardinality(now \ plan[1].prior) = 1

\* The answer arrives, or the call fails whatever the mint does with it.
Await(w) ==
    LET f == Top(w)
        o == f.op
        g == f.gen
        s == saga[g][o]
        pl == f.res[1].plan IN
    /\ f.pc = "await"
    /\ \/ /\ s.executed
          /\ SagaStep(g, o, [s EXCEPT !.state = "done"])
          /\ \/ Answer(w, IF kind(o) = "swap" /\ ~Correlated(unspent'[g], pl)
                          THEN Result("recovery_blocked", pl) ELSE Succeeded(pl))
             \/ kind(o) = "melt" /\ Answer(w, Unverified("ambiguous", pl))
       \/ /\ Answer(w, Result(IF f.rec /\ kind(o) = "mint" THEN "recovery_blocked"
                              ELSE "ambiguous", pl))
          /\ walletUnchanged
    /\ engineUnchanged /\ UNCHANGED <<rows, barrier, outbox, fence, used>>

\* recover: the wallet's own sagas first, except for send, whose reservation they
\* would release.
RecoverSagas(w) ==
    LET f == Top(w)
        g == Wallet(w) IN
    /\ f.pc = "recover"
    /\ \/ /\ kind(f.op) = "send"
          /\ walletUnchanged
          /\ SetTop(w, [f EXCEPT !.pc = "decide", !.gen = g])
       \/ /\ kind(f.op) # "send"
          /\ RecoverIncompleteSagas(g)
          /\ SetTop(w, [f EXCEPT !.gen = g,
                                 !.pc = IF kind(f.op) = "restore" THEN "execute" ELSE "decide"])
       \/ /\ kind(f.op) # "send"
          /\ Answer(w, Blocked) /\ walletUnchanged
    /\ engineUnchanged /\ UNCHANGED <<rows, barrier, outbox, fence, used>>

\* receive_recovery_amount: the balance must have gone up.
ReceivedNothingLost(g, plan) == Cardinality(unspent[g]) >= Cardinality(plan[1].prior)
ReceivedSomething(g, plan) == Cardinality(unspent[g]) > Cardinality(plan[1].prior)

\* melt_recovery_fees: the balance went down by the amount and at most the reserve.
MeltDebit(g, plan) == Cardinality(plan[1].prior) - Cardinality(unspent[g])

\* What each recovery concludes from the quote, the proof states and the balance.  Any of
\* its queries may fail, which blocks it.
MintConclusions(s, plan) ==
    {Result("recovery_blocked", plan)}
    \cup {r \in {Succeeded(plan)} : s.quote = "issued"}
    \cup {r \in {Ambiguous(plan)} : s.quote = "unpaid"}

SwapConclusions(g, s, plan) ==
    {Result("recovery_blocked", plan)}
    \cup {r \in {Succeeded(plan)} : s.executed /\ Correlated(unspent[g], plan)}
    \cup {r \in {Result("failed_definitive", plan)} : ~s.executed}

\* Proofs that are neither spendable nor reserved were handed out.
SendConclusions(g, plan) ==
    {Result("recovery_blocked", plan)}
    \cup {r \in {Succeeded(plan)} : plan[1].coin \notin unspent[g] \cup reserved[g]}

ReceiveConclusions(g, plan) ==
    {IF ReceivedSomething(g, plan) THEN Succeeded(<<>>) ELSE Blocked}

MeltConclusions(g, s, plan) ==
    {Result("recovery_blocked", plan)}
    \cup {r \in {Result("failed_definitive", plan)} : ~s.executed}
    \cup {r \in {Unverified("recovery_blocked", plan)} : s.executed}
    \cup {r \in {Succeeded(plan)} : s.executed /\ MeltDebit(g, plan) = 1}

Conclusions(o, g, plan) ==
    LET s == saga[g][o] IN
    IF plan = <<>> THEN {Blocked}
    ELSE CASE kind(o) = "mint"    -> MintConclusions(s, plan)
           [] kind(o) = "swap"    -> SwapConclusions(g, s, plan)
           [] kind(o) = "send"    -> SendConclusions(g, plan)
           [] kind(o) = "receive" -> ReceiveConclusions(g, plan)
           [] kind(o) = "melt"    -> MeltConclusions(g, s, plan)
           [] OTHER               -> {}

Decide(w) ==
    LET f == Top(w)
        o == f.op
        g == f.gen
        s == saga[g][o]
        plan == rows[o].plan IN
    /\ f.pc = "decide"
    /\ \/ /\ \E r \in Conclusions(o, g, plan) : Answer(w, r)
          /\ walletUnchanged
       \/ /\ kind(o) = "mint" /\ plan # <<>> /\ s.quote = "paid"
          /\ SagaStep(g, o, [s EXCEPT !.sent = TRUE, !.state = "pending"])
          /\ SetTop(w, [f EXCEPT !.pc = "await", !.res = <<Ambiguous(plan)>>])
       \/ /\ kind(o) = "send" /\ plan # <<>> /\ ConfirmSend(g, plan[1].coin)
          /\ Answer(w, Succeeded(plan))
    /\ engineUnchanged /\ UNCHANGED <<rows, barrier, outbox, fence, used>>

\* reconcile_dependency_cycle: the targets lead back to an operation on the way.
DependencyCycle(o) ==
    LET R == [e \in CdkOps \X CdkOps |-> kind(e[1]) = "reconcile" /\ rows[e[1]].phase # "none"
                                         /\ setup.target[e[1]] = e[2]]
        Reach == TransitiveClosure(R, CdkOps)
    IN  \E p \in CdkOps : Reach[o, p] /\ Reach[p, p]

\* reconcile_execution: run the target in this worker, and report how it ended.
Reconcile(w) ==
    LET f == Top(w)
        t == setup.target[f.op] IN
    /\ f.pc = "reconcile"
    /\ \/ /\ DependencyCycle(f.op)
          /\ Answer(w, Result("failed_definitive", <<>>))
          /\ UNCHANGED <<rows, fence>>
       \/ /\ ~DependencyCycle(f.op) /\ rows[t].phase \in Terminal \cup {"none"}
          /\ Answer(w, TargetResult(rows[t].phase))
          /\ UNCHANGED <<rows, fence>>
       \/ /\ ~DependencyCycle(f.op) /\ rows[t].phase \notin Terminal \cup {"none"}
          /\ Claim(t, home(w))
          /\ stack' = [stack EXCEPT ![w] = Front(@) \o
                          <<[f EXCEPT !.pc = "running"], Frame(t, fence + 1, TRUE)>>]
    /\ engineUnchanged /\ UNCHANGED <<barrier, outbox, unspent, reserved, saga, used>>

\* finish_execution: after a submission every failure is ambiguous.
FinalPhase(from, r) ==
    IF from = "submitted" /\ r.phase \in {"failed_definitive", "recovery_blocked"}
    THEN "ambiguous" ELSE r.phase

\* commit: journal, material, evidence, outbox and barrier in one transaction.  An
\* evidence entry with the same name and another content makes it fail.
Finish(w) ==
    LET f == Top(w)
        o == f.op
        row == rows[o]
        r == f.res[1]
        phase == FinalPhase(row.phase, r)
        conflict == r.unverified /\ row.unverified /\ phase # "ambiguous" IN
    /\ f.pc = "finish" /\ Owns(w, f)
    /\ \/ /\ ~conflict
          /\ rows' = [rows EXCEPT ![o] =
                [@ EXCEPT !.phase = phase, !.via = f.gen,
                          !.plan = IF r.plan = <<>> THEN @ ELSE r.plan,
                          !.unverified = @ \/ r.unverified]]
          /\ outbox' = [outbox EXCEPT ![o] =
                IF kind(o) = "send" /\ phase = "succeeded" THEN [@ EXCEPT !.status = "ready"] ELSE @]
          /\ barrier' = BarrierAfter(o, home(w), f.token, phase)
          /\ Goto(w, "release")
       \/ /\ conflict
          /\ rows' = [rows EXCEPT ![o].claim = NoClaim]
          /\ Leave(w, "error")
          /\ UNCHANGED <<barrier, outbox>>
    /\ engineUnchanged /\ UNCHANGED <<fence, unspent, reserved, saga, used>>

Release(w) ==
    LET f == Top(w) IN
    /\ f.pc = "release" /\ Owns(w, f)
    /\ rows' = [rows EXCEPT ![f.op].claim = NoClaim]
    /\ Leave(w, rows[f.op].phase)
    /\ engineUnchanged /\ UNCHANGED <<barrier, outbox, fence, unspent, reserved, saga, used>>

Step(w) ==
    /\ stack[w] # <<>>
    /\ \/ TakeBarrier(w) \/ PutReconciling(w) \/ Prepare(w) \/ PutPrepared(w)
       \/ PutSubmitted(w) \/ Execute(w) \/ Await(w) \/ RecoverSagas(w) \/ Decide(w)
       \/ Reconcile(w) \/ Finish(w) \/ Release(w) \/ ClaimLost(w)

(***************************************************************************)
(* LifecycleEngine::reset, in the process that holds its write gate.       *)
(***************************************************************************)
resetUnchanged == UNCHANGED <<setup, stack, holding>>

Resetting(p) == Holds(resetClaim, p, engine[p].token)

\* The gate excludes this process's requests; try_claim_reset excludes live claims of
\* every process and another reset.  next_generation is read under the claim.
ClaimReset(p) ==
    /\ engine[p].reset = "idle" /\ ~Busy(p) /\ active <= MaxResets /\ used.resets < setup.max.resets
    /\ ~reset_claim_active
    /\ \A o \in CdkOps : ~rows[o].claim.live
    /\ fence' = fence + 1
    /\ resetClaim' = Lease(p, fence + 1)
    /\ engine' = [engine EXCEPT ![p].reset = "claimed", ![p].token = fence + 1,
                                ![p].next = active + 1]
    /\ used' = [used EXCEPT !.resets = @ + 1]
    /\ resetUnchanged /\ UNCHANGED <<rows, barrier, outbox, active, files, unspent, reserved, saga>>

\* reset_generation: new files and a new wallet, or an error that leaves the old one.
ResetGeneration(p) ==
    LET e == engine[p] IN
    /\ e.reset = "claimed"
    /\ \/ /\ engine' = [engine EXCEPT ![p].reset = "built", ![p].previous = e.wallet,
                                      ![p].wallet = e.next]
          /\ files' = files \cup {e.next}
          /\ unspent' = [unspent EXCEPT ![e.next] = Funds]
          /\ reserved' = [reserved EXCEPT ![e.next] = {}]
          /\ saga' = [saga EXCEPT ![e.next] = [o \in CdkOps |-> NoSaga]]
       \/ /\ engine' = [engine EXCEPT ![p].reset = "release"]
          /\ files' = files \ {e.next}
          /\ walletUnchanged
    /\ resetUnchanged
    /\ UNCHANGED <<rows, barrier, outbox, resetClaim, fence, active, used>>

\* rollback_reset opens the previous wallet again.
NotRolledBack(e) == [e EXCEPT !.reset = "release"]
RolledBack(e) == [e EXCEPT !.reset = "release", !.wallet = e.previous]

\* The store's reset, fenced by the reset claim; a lost claim rolls the wallet back.
ResetStore(p) ==
    LET e == engine[p] IN
    /\ e.reset = "built"
    /\ \/ /\ Resetting(p)
          /\ rows' = [o \in CdkOps |-> NoRow]
          /\ outbox' = [o \in CdkOps |-> NoHandoff]
          /\ barrier' = NoBarrier
          /\ active' = e.next
          /\ engine' = [engine EXCEPT ![p].reset = "cleanup"]
          /\ UNCHANGED files
       \/ /\ ~Resetting(p)
          /\ engine' = [engine EXCEPT ![p] = RolledBack(@)]
          /\ files' = files \ {e.next}
          /\ UNCHANGED <<rows, outbox, barrier, active>>
    /\ resetUnchanged /\ UNCHANGED <<resetClaim, fence, unspent, reserved, saga, used>>

\* post_commit_reset_cleanup: its failure is ignored.
ResetCleanup(p) ==
    LET e == engine[p] IN
    /\ e.reset = "cleanup"
    /\ engine' = [engine EXCEPT ![p].reset = "release"]
    /\ files' \in {files, files \cap {e.next}}
    /\ resetUnchanged
    /\ UNCHANGED <<rows, barrier, outbox, resetClaim, fence, active, unspent, reserved, saga, used>>

ReleaseReset(p) ==
    /\ engine[p].reset = "release"
    /\ engine' = [engine EXCEPT ![p].reset = "idle", ![p].token = 0, ![p].next = 0,
                                ![p].previous = 0]
    /\ resetClaim' = IF Resetting(p) THEN NoClaim ELSE resetClaim
    /\ resetUnchanged
    /\ UNCHANGED <<rows, barrier, outbox, fence, active, files, unspent, reserved, saga, used>>

\* The renewal that runs beside reset_generation finds the claim lost.
ResetLost(p) ==
    /\ engine[p].reset = "claimed" /\ ~Resetting(p)
    /\ engine' = [engine EXCEPT ![p].reset = "idle", ![p].token = 0, ![p].next = 0]
    /\ resetUnchanged
    /\ UNCHANGED <<rows, barrier, outbox, resetClaim, fence, active, files, unspent, reserved, saga, used>>

ResetStep(p) ==
    ClaimReset(p) \/ ResetGeneration(p) \/ ResetStore(p) \/ ResetCleanup(p)
    \/ ReleaseReset(p) \/ ResetLost(p)

(***************************************************************************)
(* The send outbox, and what time and crashes do.                          *)
(***************************************************************************)
NoHold == [op |-> NoOp, token |-> 0]

outboxUnchanged == UNCHANGED <<setup, rows, barrier, resetClaim, active, files, engine, stack,
                               unspent, reserved, saga>>

\* claim_send_handoff: unclaimed, run out, or claimed by the same consumer.
ClaimHandoff(c, o) ==
    LET claim == outbox[o].claim IN
    /\ outbox[o].status = "ready" /\ used.handoffs < setup.max.handoffs
    /\ ~claim.live \/ claim.owner = c
    /\ fence' = fence + 1
    /\ outbox' = [outbox EXCEPT ![o].claim = Lease(c, fence + 1)]
    /\ holding' = [holding EXCEPT ![c] = [op |-> o, token |-> fence + 1]]
    /\ used' = [used EXCEPT !.handoffs = @ + 1]
    /\ outboxUnchanged

\* acknowledge_send_handoff and release_send_handoff, both fenced.
SettleHandoff(c) ==
    LET h == holding[c] IN
    /\ h # NoHold
    /\ holding' = [holding EXCEPT ![c] = NoHold]
    /\ LET mine == outbox[h.op].status = "ready" /\ Holds(outbox[h.op].claim, c, h.token) IN
       \/ mine /\ outbox' = [outbox EXCEPT ![h.op].status = "acknowledged"]
       \/ mine /\ outbox' = [outbox EXCEPT ![h.op].claim = NoClaim]
       \/ ~mine /\ UNCHANGED outbox
    /\ outboxUnchanged /\ UNCHANGED <<fence, used>>

\* claimed_until passes: of an operation, of the barrier (taken no earlier than its
\* operation and renewed with it), of a reset, of a handoff.
Expire ==
    /\ used.expiries < setup.max.expiries
    /\ used' = [used EXCEPT !.expiries = @ + 1]
    /\ \/ \E o \in CdkOps :
             /\ rows[o].claim.live
             /\ rows' = [rows EXCEPT ![o].claim.live = FALSE]
             /\ barrier' \in {barrier} \cup
                    (IF barrier.op = o THEN {[barrier EXCEPT !.claim.live = FALSE]} ELSE {})
             /\ UNCHANGED <<resetClaim, outbox>>
       \/ /\ barrier.claim.live /\ ~rows[barrier.op].claim.live
          /\ barrier' = [barrier EXCEPT !.claim.live = FALSE]
          /\ UNCHANGED <<rows, resetClaim, outbox>>
       \/ /\ resetClaim.live
          /\ resetClaim' = [resetClaim EXCEPT !.live = FALSE]
          /\ UNCHANGED <<rows, barrier, outbox>>
       \/ \E o \in CdkOps :
             /\ outbox[o].claim.live
             /\ outbox' = [outbox EXCEPT ![o].claim.live = FALSE]
             /\ UNCHANGED <<rows, barrier, resetClaim>>
    /\ UNCHANGED <<setup, fence, active, files, engine, stack, holding, unspent, reserved, saga>>

\* A process dies and comes back: its requests are gone, its claims stay under an owner
\* that no longer exists, and load_generation opens the active wallet and collects the
\* others.
Crash(p) ==
    LET Disown(claim) == IF claim.owner = p THEN [claim EXCEPT !.owner = NoOne] ELSE claim IN
    /\ used.crashes < setup.max.crashes
    /\ used' = [used EXCEPT !.crashes = @ + 1]
    /\ stack' = [w \in Workers |-> IF home(w) = p THEN <<>> ELSE stack[w]]
    /\ rows' = [o \in CdkOps |-> [rows[o] EXCEPT !.claim = Disown(@)]]
    /\ barrier' = [barrier EXCEPT !.claim = Disown(@)]
    /\ resetClaim' = Disown(resetClaim)
    /\ engine' = [engine EXCEPT ![p] = [wallet |-> active, reset |-> "idle", token |-> 0,
                                        next |-> 0, previous |-> 0]]
    /\ files' = {active}
    /\ UNCHANGED <<setup, outbox, fence, active, holding, unspent, reserved, saga>>

CdkInit ==
    /\ setup \in Setups
    /\ rows = [o \in CdkOps |-> NoRow]
    /\ barrier = NoBarrier
    /\ outbox = [o \in CdkOps |-> NoHandoff]
    /\ resetClaim = NoClaim
    /\ fence = 0 /\ active = 1 /\ files = {1}
    /\ engine = [p \in Processes |-> [wallet |-> 1, reset |-> "idle", token |-> 0, next |-> 0,
                                      previous |-> 0]]
    /\ stack = [w \in Workers |-> <<>>]
    /\ holding = [c \in Consumers |-> NoHold]
    /\ unspent = [g \in Generations |-> Funds]
    /\ reserved = [g \in Generations |-> {}]
    /\ saga = [g \in Generations |-> [o \in CdkOps |-> NoSaga]]
    /\ used = [starts |-> 0, expiries |-> 0, crashes |-> 0, resets |-> 0, handoffs |-> 0]

CdkNext ==
    \/ \E w \in Workers : \/ \E o \in CdkOps : Start(w, o) \/ Resume(w, o)
                          \/ Step(w)
    \/ \E p \in Range(setup.home) : ResetStep(p) \/ Crash(p)
    \/ \E c \in Consumers : SettleHandoff(c) \/ \E o \in CdkOps : ClaimHandoff(c, o)
    \/ \E g \in Generations, o \in CdkOps : MintExecutes(g, o) \/ QuotePaid(g, o)
    \/ Expire

CdkSpec == CdkInit /\ [][CdkNext]_cdkVars

\* What the proofs assume of the constants.
CdkConstants ==
    /\ NoOne \notin Processes /\ NoOp \notin CdkOps
    /\ \A s \in Setups : s.home \in [Workers -> Processes] /\ s.target \in [CdkOps -> CdkOps]

(***************************************************************************)
(* Properties.                                                             *)
(***************************************************************************)
\* A terminal phase is never overwritten, whichever worker's lease ran out and whoever
\* took its operation over; only a reset, which removes the operation, ends it.
TerminalPhaseStep ==
    \A o \in CdkOps : rows[o].phase \in Terminal =>
        rows'[o].phase = rows[o].phase \/ active' # active
TerminalPhaseStands == [][TerminalPhaseStep]_cdkVars

Unresolved(o) ==
    /\ kind(o) # "reconcile"
    /\ rows[o].phase \in LifecyclePhases \ {"created", "succeeded", "failed_definitive"}

\* The journal lets one mutation at a time into the wallet: the barrier keeps a second
\* operation out as long as the first one's outcome is open, across crashes, take-overs
\* and blocked recoveries, and while a reset holds its lease nobody holds a lease on an
\* operation.
JournalIsExclusive ==
    /\ \A o, p \in CdkOps : Unresolved(o) /\ Unresolved(p) => o = p
    /\ resetClaim.live => \A o \in CdkOps : ~rows[o].claim.live

Known(o) == rows[o].phase # "none"

\* What a success stands for.  Recovery judges a receive by the balance, which the
\* recovery of another operation raises too when it undoes a request or releases a
\* reservation; and a restore brings back proofs that were sent and not redeemed yet.
Happened(o) ==
    LET g == rows[o].via
        others == {p \in CdkOps \ {o} : Known(p)}
    IN  CASE kind(o) \in {"mint", "swap", "melt"} -> saga[g][o].executed
          [] kind(o) = "receive" -> saga[g][o].executed \/ others # {}
          [] kind(o) = "send" ->
                 /\ outbox[o].status # "none"
                 /\ \/ rows[o].plan[1].coin \notin unspent[g] \cup reserved[g]
                    \/ \E p \in others : kind(p) = "restore"
          [] OTHER -> TRUE

\* A second process goes on with the generation it has open after the first one's reset.
GenerationsCross == used.resets > 0 /\ ~ \E p \in Processes : Range(setup.home) = {p}

\* An operation recorded as succeeded did happen: its request was executed, or the token
\* it sent is in the outbox and its proofs have left the wallet, whoever recovered it
\* and however late its request was executed (finish_execution, recover).
CdkSuccessHappened ==
    \A o \in CdkOps : rows[o].phase = "succeeded" /\ ~GenerationsCross => Happened(o)

\* With one process, the wallet generation the journal calls active is on disk and is the
\* one the engine has open, or the reset that replaces it is under way.
ActiveGenerationInUse ==
    \A p \in Processes :
        Range(setup.home) = {p} =>
            /\ active \in files
            /\ engine[p].wallet = active \/ engine[p].reset = "built"
=============================================================================
