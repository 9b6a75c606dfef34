-------------------------- MODULE CashuTsLifecycle --------------------------
(***************************************************************************)
(* The wallet lifecycle of the cashu-ts adapter (adapters/cashu-ts/src/    *)
(* lifecycle): CashuTsLifecycleOperations drives an operation from created *)
(* to a terminal phase, CashuTsLifecycleWallet talks to the mint, and the  *)
(* PostgreSQL store keeps the journal, the proofs, the counters of the     *)
(* deterministic outputs and the outbox of sent tokens.                    *)
(*                                                                         *)
(* One worker at a time holds the advisory lock of an operation.  It works *)
(* on the copy of the record it read, across awaits at which the process   *)
(* may die, any call may throw, another operation may run, or the whole    *)
(* run may be reset.  The mint is external: a request on the wire may be   *)
(* executed or refused, answered or not, before or after its sender gave   *)
(* up.  A counter range (64 blinded messages in the code) yields one coin. *)
(***************************************************************************)
EXTENDS LifecycleOperation, Sequences

CONSTANTS
    TsOps,        \* operation ids
    Scenarios,    \* the kinds of a run's operations, and how many resets and
                  \* faults (crashes and throwing calls) happen in it
    Target,       \* the operation a reconcile operation names
    Seeds, InitSeed,
    Readers,      \* readers of the send outbox
    MaxRanges,    \* counter ranges per seed
    MaxQuotes,
    RestoreGap,   \* ranges a restore scans past the high watermark
    NoSeed, NoPlan, NoToken, Token

VARIABLES
    kindOf, cached,          \* the operations' kinds; NUT-19 at the mint
    seed, epoch,             \* cashu_lifecycle_runs: the seed, its nonce
    recs, proofs, handoffs,  \* the journal, the wallet, the outbox
    nextCounter, reservations,
    client, loading,         \* the cached client's seed; a client being made
    worker, resetting,       \* who runs what
    coin, quotes, done, net, \* the mint and the wire
    bounds                   \* resets and faults still to come

journal == <<seed, epoch, recs, proofs, handoffs>>
counters == <<nextCounter, reservations>>
mintVars == <<coin, quotes, done, net>>
tsVars ==
    <<kindOf, cached, seed, epoch, recs, proofs, handoffs, nextCounter,
      reservations, client, loading, worker, resetting, coin, quotes, done,
      net, bounds>>

\* A deterministic output is named by the seed and the counter range it is
\* derived from; Token is a coin received from elsewhere.
SeedCoins == Seeds \X (0 .. MaxRanges - 1)
Coins == SeedCoins \cup {Token}

\* A prepared request: the operation and the run of the store it was planned
\* in, what it spends, the coins it asks for with their amounts (a set of
\* pairs), the part a send gives away, the quote it draws on.
TsPlans ==
    [op : TsOps, epoch : Nat, kind : Kinds, inputs : SUBSET Coins,
     outs : SUBSET (SeedCoins \X Int), give : SeedCoins \cup {NoToken},
     quote : Nat]

ASSUME TsAssumption ==
    /\ InitSeed \in Seeds /\ NoSeed \notin Seeds
    /\ Target \in TsOps /\ NoOp \notin TsOps
    /\ MaxRanges \in Nat \ {0} /\ MaxQuotes \in Nat /\ RestoreGap \in Nat
    /\ Token \notin SeedCoins /\ NoToken \notin SeedCoins
    /\ NoPlan \notin TsPlans
    /\ \A sc \in Scenarios : sc.kind \in [TsOps -> Kinds \cup {"none"}]

Transfer == {"swap", "send"}

NoRec   == [phase |-> "absent", plan |-> NoPlan, seen |-> 0, mark |-> "none"]
Created == [NoRec EXCEPT !.phase = "created"]
NoProof == [state |-> "absent", bucket |-> "none", by |-> NoOp]
NoSendHandoff == [token |-> NoToken, claimedBy |-> NoOp, acked |-> FALSE]
Idle ==
    [pc |-> "idle", rec |-> NoRec, seed |-> NoSeed, ranges |-> <<>>,
     result |-> NoPlan]

Fresh(state) ==
    [state |-> state, by |-> NoOp,
     bucket |-> IF state = "UNSPENT" THEN "available" ELSE "recoverable"]

\* validProofTransition
ValidProofTransition(from, to) ==
    \/ from = to
    \/ from = "UNSPENT" /\ to \in {"PENDING", "SPENT"}
    \/ from = "PENDING" /\ to \in {"UNSPENT", "SPENT"}

-----------------------------------------------------------------------------
(* The store. *)

\* Two output plans with the same digest: a restore always derives the same
\* outputs from the same seed and high watermark.
SamePlan(p, q) ==
    /\ p # NoPlan /\ q # NoPlan
    /\ p.outs # {} /\ <<p.inputs, p.outs, p.quote>> = <<q.inputs, q.outs, q.quote>>

\* commit: the row is still there, the output plan is no other operation's,
\* and the proof changes fit the wallet.
CanCommit(op, rec, add, update) ==
    /\ recs[op] # NoRec
    /\ \A other \in TsOps \ {op} : ~ SamePlan(rec.plan, recs[other].plan)
    /\ \A c \in DOMAIN add : proofs[c] \in {NoProof, add[c]}
    /\ \A u \in update :
        /\ proofs[u.coin] # NoProof
        /\ ValidProofTransition(proofs[u.coin].state, u.state)
        /\ proofs[u.coin].state = "PENDING" => proofs[u.coin].by = u.by

\* #applyProofChanges: what the wallet holds afterwards.
ApplyProofChanges(add, update) ==
    [c \in Coins |->
        IF \E u \in update : u.coin = c
        THEN LET u == CHOOSE x \in update : x.coin = c
             IN  [state |-> u.state, bucket |-> u.bucket,
                  by |-> IF u.state = "PENDING" THEN u.by ELSE NoOp]
        ELSE IF c \in DOMAIN add THEN add[c] ELSE proofs[c]]

Commit(op, rec, add, update) ==
    /\ CanCommit(op, rec, add, update)
    /\ recs' = [recs EXCEPT ![op] = rec]
    /\ proofs' = ApplyProofChanges(add, update)

Put(op, rec) == recs[op] # NoRec /\ recs' = [recs EXCEPT ![op] = rec]

-----------------------------------------------------------------------------
(* Starting, and making the client. *)

\* Where an operation stands: its worker's program counter.
At(op, pc) == worker[op].pc = pc
TsGoto(op, pc) == worker' = [worker EXCEPT ![op].pc = pc]

\* start: the operation is journaled once; its row needs the run's row.
Create(op) ==
    /\ kindOf[op] # "none" /\ seed # NoSeed /\ recs[op] = NoRec
    /\ recs' = [recs EXCEPT ![op] = Created]
    /\ UNCHANGED <<kindOf, cached, seed, epoch, proofs, handoffs, counters,
                   client, loading, worker, resetting, mintVars, bounds>>

\* start and resume under the claim: what the phase read calls for, with the
\* first write of that path.
Begin(op) ==
    LET rec == recs[op]
        next == CASE rec.phase = "prepared"  -> "submitted"
                  [] rec.phase = "submitted" -> "ambiguous"
                  [] rec.phase \in {"ambiguous", "reconciling"} -> "reconciling"
                  [] OTHER -> rec.phase
        now == [rec EXCEPT !.phase = next]
    IN  /\ At(op, "idle") /\ rec # NoRec /\ rec.phase \notin Terminal
        /\ recs' = [recs EXCEPT ![op] = now]
        /\ worker' = [worker EXCEPT ![op] =
              [Idle EXCEPT !.rec = now,
                  !.pc = CASE next = "created"     -> "prepare"
                           [] next = "submitted"   -> "dispatch"
                           [] next = "ambiguous"   -> "ambiguous"
                           [] next = "reconciling" -> "recover"]]
        /\ UNCHANGED <<kindOf, cached, seed, epoch, proofs, handoffs, counters,
                       client, loading, resetting, mintVars, bounds>>

\* resume of a submitted operation: ambiguous is journaled before reconciling.
TsPutReconciling(op) ==
    LET rec == [worker[op].rec EXCEPT !.phase = "reconciling"]
    IN  /\ At(op, "ambiguous")
        /\ Put(op, rec)
        /\ worker' = [worker EXCEPT ![op].pc = "recover", ![op].rec = rec]
        /\ UNCHANGED <<kindOf, cached, seed, epoch, proofs, handoffs, counters,
                       client, loading, resetting, mintVars, bounds>>

NeedsClient == {"prepare", "dispatch", "recover", "decide"}

\* #client: without a cached client, read the seed ...
LoadSeed(op) ==
    /\ worker[op].pc \in NeedsClient
    /\ client = NoSeed /\ loading[op] = NoSeed /\ seed # NoSeed
    /\ loading' = [loading EXCEPT ![op] = seed]
    /\ UNCHANGED <<kindOf, cached, journal, counters, client, worker,
                   resetting, mintVars, bounds>>

\* ... load the mint, and cache the client, whatever is cached by then.
CacheClient(op) ==
    /\ loading[op] # NoSeed
    /\ client' = loading[op]
    /\ loading' = [loading EXCEPT ![op] = NoSeed]
    /\ UNCHANGED <<kindOf, cached, journal, counters, worker, resetting,
                   mintVars, bounds>>

HasClient(op) == client # NoSeed /\ loading[op] = NoSeed

-----------------------------------------------------------------------------
(* prepare: counters, inputs and the plan. *)

\* The counter ranges a kind reserves, in order.
Purposes(kind) ==
    CASE kind = "mint"     -> <<"mint">>
      [] kind \in Transfer -> <<"send", "keep">>
      [] kind = "receive"  -> <<"receive">>
      [] kind = "melt"     -> <<"melt-change">>
      [] OTHER             -> <<>>

\* prepare takes the client it will derive the outputs with.
StartPrepare(op) ==
    /\ At(op, "prepare") /\ HasClient(op)
    /\ worker' = [worker EXCEPT ![op].pc = "reserve", ![op].seed = client]
    /\ UNCHANGED <<kindOf, cached, journal, counters, client, loading,
                   resetting, mintVars, bounds>>

\* Mutant: the counter stays at the range handed out.
KeepCounter(start) == nextCounter

\* The seed's counter moves past the range handed out.
AdvanceCounter(start) == [nextCounter EXCEPT ![seed] = start + 1]

\* reserveCounterRange: the range the operation already has for the purpose
\* in this epoch of the store's seed, or the seed's next one.
ReserveCounterRange(op) ==
    LET ranges  == worker[op].ranges
        purpose == Purposes(kindOf[op])[Len(ranges) + 1]
        id      == <<seed, epoch, op, purpose>>
        known   == {r \in reservations : r.id = id}
        start   == IF known # {} THEN (CHOOSE r \in known : TRUE).start
                   ELSE nextCounter[seed]
    IN  /\ At(op, "reserve") /\ Len(ranges) < Len(Purposes(kindOf[op]))
        /\ seed # NoSeed /\ start < MaxRanges
        /\ worker' = [worker EXCEPT ![op].ranges = Append(ranges, start)]
        /\ reservations' = reservations \cup {[id |-> id, start |-> start]}
        /\ nextCounter' = IF known # {} THEN nextCounter
                          ELSE AdvanceCounter(start)
        /\ UNCHANGED <<kindOf, cached, journal, client, loading, resetting,
                       mintVars, bounds>>

\* The coins prepareSwapToSend and prepareMelt may select.
Available == {c \in Coins : proofs[c].state = "UNSPENT"
                             /\ proofs[c].bucket = "available"}

Plan(op, inputs, outs, give, quote) ==
    [op |-> op, epoch |-> epoch, kind |-> kindOf[op], inputs |-> inputs,
     outs |-> outs, give |-> give, quote |-> quote]

OutCoins(plan) == {o[1] : o \in plan.outs}
Out(op, i) == <<worker[op].seed, worker[op].ranges[i]>>

\* Every coin of the instance covers the amount 1 a transfer asks for, so the
\* library selects one; the rest of its value is kept.
TransferPlan(op, c) ==
    LET keep == coin[c].amount - 1
    IN  Plan(op, {c},
             {<<Out(op, 1), 1>>} \cup
               (IF keep > 0 THEN {<<Out(op, 2), keep>>} ELSE {}),
             IF kindOf[op] = "send" THEN Out(op, 1) ELSE NoToken, 0)

\* #prepareReceive: the token's proofs against one output.
ReceivePlan(op) == Plan(op, {Token}, {<<Out(op, 1), 1>>}, NoToken, 0)

\* #prepareMelt: an available coin that covers amount and fee, and blank
\* outputs for the change.
MeltPlans(op, quote) ==
    {Plan(op, {c}, {<<Out(op, 1), 1>>}, NoToken, quote) :
       c \in {a \in Available : coin[a].amount > 1}}

\* #prepareRestore: every counter up to the high watermark and the gap.
RestorePlan(op) ==
    Plan(op, {},
         {<<<<worker[op].seed, k>>, 0>> :
            k \in {j \in 0 .. MaxRanges - 1 : j < nextCounter[seed] + RestoreGap}},
         NoToken, 0)

\* #prepareReconcile: the inputs of the operation named, still in the wallet.
ReconcilePlans(op) ==
    LET target == recs[Target].plan
    IN  IF \/ target = NoPlan
           \/ target.inputs = {}
           \/ \E c \in target.inputs : proofs[c] = NoProof
        THEN {} ELSE {Plan(op, target.inputs, {}, NoToken, 0)}

\* The plans prepare may come to in this state.
PreparedPlans(op, quote) ==
    CASE kindOf[op] = "mint" -> {Plan(op, {}, {<<Out(op, 1), 2>>}, NoToken, quote)}
      [] kindOf[op] \in Transfer   -> {TransferPlan(op, c) : c \in Available}
      [] kindOf[op] = "receive"   -> {ReceivePlan(op)}
      [] kindOf[op] = "melt"      -> MeltPlans(op, quote)
      [] kindOf[op] = "restore"   -> {RestorePlan(op)}
      [] kindOf[op] = "reconcile" -> ReconcilePlans(op)

UsesQuote(kind) == kind \in {"mint", "melt"}
\* The state a quote has when prepare is through with it.
QuoteState(kind) == IF kind = "mint" THEN "PAID" ELSE "UNPAID"

\* The end of prepare: the quote (a mint quote polled until it is paid), the
\* inputs, and the request that will be sent.
TsPrepare(op) ==
    /\ At(op, "reserve")
    /\ Len(worker[op].ranges) = Len(Purposes(kindOf[op]))
    /\ \E q \in IF UsesQuote(kindOf[op]) THEN 1 .. MaxQuotes ELSE {0} :
        /\ IF q = 0 THEN UNCHANGED quotes
           ELSE /\ quotes[q] = "none" /\ \A p \in 1 .. q - 1 : quotes[p] # "none"
                /\ quotes' = [quotes EXCEPT ![q] =
                       QuoteState(kindOf[op])]
        /\ \E plan \in PreparedPlans(op, q) :
             worker' = [worker EXCEPT ![op].pc = "prepared",
                                      ![op].rec.plan = plan]
    /\ UNCHANGED <<kindOf, cached, journal, counters, client, loading,
                   resetting, coin, done, net, bounds>>

\* Mutant: the inputs are reserved before the record is written.
CommitReservationFirst(op) ==
    LET rec == [worker[op].rec EXCEPT !.phase = "prepared"]
        taken == {[coin |-> c, state |-> "PENDING", bucket |-> "reserved",
                   by |-> op] : c \in rec.plan.inputs \ {Token}}
    IN  /\ At(op, "prepared")
        /\ CanCommit(op, rec, <<>>, taken)
        /\ proofs' = ApplyProofChanges(<<>>, taken)
        /\ worker' = [worker EXCEPT ![op].pc = "put_submitted", ![op].rec = rec]
        /\ UNCHANGED <<kindOf, cached, seed, epoch, recs, handoffs, counters,
                       client, loading, resetting, mintVars, bounds>>

\* The prepared request and the reservation of its inputs commit together.
CommitPrepared(op) ==
    LET rec == [worker[op].rec EXCEPT !.phase = "prepared"]
        taken == IF rec.plan.kind \in Transfer \cup {"melt"}
                 THEN {[coin |-> c, state |-> "PENDING", bucket |-> "reserved",
                        by |-> op] : c \in rec.plan.inputs}
                 ELSE {}
    IN  /\ At(op, "prepared")
        /\ Commit(op, rec, <<>>, taken)
        /\ worker' = [worker EXCEPT ![op].pc = "put_submitted", ![op].rec = rec]
        /\ UNCHANGED <<kindOf, cached, seed, epoch, handoffs, counters, client,
                       loading, resetting, mintVars, bounds>>

-----------------------------------------------------------------------------
(* submit: the request goes out once it is journaled as submitted. *)

TsPutSubmitted(op) ==
    LET rec == [worker[op].rec EXCEPT !.phase = "submitted"]
    IN  /\ At(op, "put_submitted")
        /\ Put(op, rec)
        /\ worker' = [worker EXCEPT ![op].pc = "dispatch", ![op].rec = rec]
        /\ UNCHANGED <<kindOf, cached, seed, epoch, proofs, handoffs, counters,
                       client, loading, resetting, mintVars, bounds>>

\* Restore and reconcile only read at the mint; the others change it.
ReadOnly(plan) == plan.kind \in {"restore", "reconcile"}

Dispatch(op) ==
    LET plan == worker[op].rec.plan
    IN  /\ At(op, "dispatch") /\ HasClient(op)
        /\ TsGoto(op, "wait")
        /\ net' = IF ReadOnly(plan) THEN net ELSE net \cup {plan}
        /\ UNCHANGED <<kindOf, cached, journal, counters, client, loading,
                       resetting, coin, quotes, done, bounds>>

TsResult(status, add, update, seen) ==
    [status |-> status, add |-> add, update |-> update, seen |-> seen,
     how |-> "submission"]
TsAmbiguous(seen) == TsResult("ambiguous", <<>>, {}, seen)
TsBlocked(seen)   == TsResult("recovery_blocked", <<>>, {}, seen)

TsSpend(op, inputs) ==
    {[coin |-> c, state |-> "SPENT", bucket |-> "reserved", by |-> op] :
       c \in inputs}
NewProofs(S) == [c \in S |-> Fresh("UNSPENT")]

\* What a completed swap leaves in the wallet: a send keeps only the change.
TransferResult(op, plan) ==
    TsResult("succeeded", NewProofs(OutCoins(plan) \ {plan.give}),
           TsSpend(op, plan.inputs), 0)

\* A receive and a mint only add coins.
AddResult(plan) == TsResult("succeeded", NewProofs(OutCoins(plan)), {}, 0)

\* A paid melt: the inputs are still in the wallet, the change is what the
\* mint signed.
MeltResults(op, plan) ==
    IF \E c \in plan.inputs : proofs[c] = NoProof THEN {}
    ELSE {TsResult("succeeded",
                 NewProofs({c \in OutCoins(plan) : coin[c].state # "none"}),
                 TsSpend(op, plan.inputs), 2)}

\* A restore adds every signed coin of its range the wallet does not hold, in
\* the state the mint reports.
RestoreResult(plan) ==
    LET found == {c \in OutCoins(plan) :
                    coin[c].state # "none" /\ proofs[c] = NoProof}
    IN  TsResult("succeeded", [c \in found |-> Fresh(coin[c].state)], {}, 0)

\* A reconcile writes the mint's states to the inputs of its target.
ReconcileResults(plan) ==
    IF \E c \in plan.inputs : proofs[c] = NoProof THEN {}
    ELSE {TsResult("succeeded", <<>>,
            {[coin |-> c, state |-> coin[c].state, by |-> Target,
              bucket |-> IF coin[c].state = "UNSPENT" THEN "available"
                         ELSE "reserved"] : c \in plan.inputs}, 0)}

\* What submit makes of the answer to a request the mint has executed.
ExecutedResults(op, plan) ==
    CASE plan.kind \in Transfer -> {TransferResult(op, plan)}
      [] plan.kind \in {"mint", "receive"} -> {AddResult(plan)}
      [] plan.kind = "melt" ->
           IF quotes[plan.quote] = "PENDING" THEN {TsAmbiguous(1)}
           ELSE {TsBlocked(2)} \cup MeltResults(op, plan)

\* The results submit may return: for a request that changes the mint, once
\* the mint has executed it.
SubmitResults(op, plan) ==
    CASE plan.kind = "restore"   -> {RestoreResult(plan)}
      [] plan.kind = "reconcile" -> ReconcileResults(plan)
      [] OTHER -> IF plan \in done THEN ExecutedResults(op, plan) ELSE {}

\* appendQuoteObservations: a melt quote (UNPAID, PENDING, PAID as 0, 1, 2)
\* seen to go back blocks the recovery.
Observed(rec, result) ==
    IF result.seen < rec.seen THEN TsBlocked(rec.seen) ELSE result

\* A success of a send is handed off before it is journaled.
AfterResult(op, result, how) ==
    LET rec  == worker[op].rec
        kept == [Observed(rec, result) EXCEPT !.how = how]
    IN  worker' = [worker EXCEPT
            ![op].pc = IF kept.status = "succeeded" /\ rec.plan.give # NoToken
                       THEN "handoff" ELSE "finish",
            ![op].result = kept]

Return(op) ==
    /\ At(op, "wait")
    /\ \E result \in SubmitResults(op, worker[op].rec.plan) :
         AfterResult(op, result, "submission")
    /\ UNCHANGED <<kindOf, cached, journal, counters, client, loading,
                   resetting, mintVars, bounds>>

\* putSendHandoff: a transaction of its own; the same token again is accepted.
PutSendHandoff(op) ==
    LET token == worker[op].rec.plan.give
    IN  /\ At(op, "handoff") /\ recs[op] # NoRec
        /\ handoffs[op].token \in {NoToken, token}
        /\ handoffs' = [handoffs EXCEPT ![op].token = token]
        /\ TsGoto(op, "finish")
        /\ UNCHANGED <<kindOf, cached, seed, epoch, recs, proofs, counters,
                       client, loading, resetting, mintVars, bounds>>

\* withResult: where a result takes the record.  A failure right after the
\* submission goes to ambiguous; recovery that stays ambiguous stays put.
ResultPhase(from, status) ==
    IF status = "succeeded" THEN "succeeded"
    ELSE IF from = "submitted" THEN "ambiguous"
    ELSE IF status = "ambiguous" THEN "reconciling" ELSE status

\* The record, the proof changes and the evidence commit together.  An
\* ambiguous recovery is evidence under one name: a second one must have been
\* reached by the same mechanism.
TsFinish(op) ==
    LET w   == worker[op]
        mark == IF w.rec.phase = "reconciling" /\ w.result.status = "ambiguous"
                THEN w.result.how ELSE w.rec.mark
        rec == [w.rec EXCEPT !.phase = ResultPhase(@, w.result.status),
                             !.seen = w.result.seen, !.mark = mark]
    IN  /\ At(op, "finish")
        /\ w.rec.mark \in {"none", mark}
        /\ Commit(op, rec, w.result.add, w.result.update)
        /\ worker' = [worker EXCEPT ![op] = Idle]
        /\ UNCHANGED <<kindOf, cached, seed, epoch, handoffs, counters, client,
                       loading, resetting, mintVars, bounds>>

-----------------------------------------------------------------------------
(* recover: a NUT-19 mint is asked again; otherwise, or if that fails, the  *)
(* quote, the inputs' states and the exact outputs decide.                  *)

\* The mint announces NUT-19 for the endpoint.
SupportsCachedEndpoint == cached

StartRecover(op) ==
    LET plan == worker[op].rec.plan
    IN  /\ At(op, "recover") /\ HasClient(op)
        /\ TsGoto(op, IF SupportsCachedEndpoint THEN "replay" ELSE "decide")
        /\ net' = IF SupportsCachedEndpoint /\ ~ ReadOnly(plan) THEN net \cup {plan} ELSE net
        /\ UNCHANGED <<kindOf, cached, journal, counters, client, loading,
                       resetting, coin, quotes, done, bounds>>

ReplayRequest(op) ==
    /\ At(op, "replay")
    /\ \E result \in SubmitResults(op, worker[op].rec.plan) :
         AfterResult(op, result, "nut19_replay")
    /\ UNCHANGED <<kindOf, cached, journal, counters, client, loading,
                   resetting, mintVars, bounds>>

\* restoreOutputs returns every output of the plan, with the amounts asked for.
RestoresAll(plan) ==
    \A o \in plan.outs : coin[o[1]].state # "none" /\ coin[o[1]].amount = o[2]

InputsAre(plan, state) == \A c \in plan.inputs : coin[c].state = state

\* #recoverTransfer
RecoverTransferResults(op, plan) ==
    IF InputsAre(plan, "PENDING") THEN {TsAmbiguous(0)}
    ELSE IF InputsAre(plan, "SPENT") /\ RestoresAll(plan)
    THEN {TransferResult(op, plan)} ELSE {TsBlocked(0)}

\* #recoverReceive
RecoverReceiveResults(plan) ==
    IF InputsAre(plan, "PENDING") THEN {TsAmbiguous(0)}
    ELSE IF InputsAre(plan, "SPENT") /\ RestoresAll(plan)
    THEN {AddResult(plan)} ELSE {TsBlocked(0)}

\* Mutant: a paid quote is taken for an issued one.
RecoverPaidMintResults(plan) ==
    IF RestoresAll(plan) \/ quotes[plan.quote] = "PAID"
    THEN {AddResult(plan)} ELSE {TsBlocked(0)}

\* #recoverMint: complete outputs are a success, whatever the quote says.
RecoverMintResults(plan) ==
    IF RestoresAll(plan) THEN {AddResult(plan)} ELSE {TsBlocked(0)}

\* #recoverMelt
RecoverMeltResults(op, plan) ==
    CASE quotes[plan.quote] = "PENDING" -> {TsAmbiguous(1)}
      [] quotes[plan.quote] = "UNPAID"  -> {TsBlocked(0)}
      [] quotes[plan.quote] = "PAID"    -> {TsBlocked(2)} \cup MeltResults(op, plan)

\* Every read of the mint may fail, which blocks the recovery.
RecoverResults(op, plan) ==
    {TsBlocked(worker[op].rec.seen)} \cup
    CASE plan.kind \in Transfer  -> RecoverTransferResults(op, plan)
      [] plan.kind = "receive" -> RecoverReceiveResults(plan)
      [] plan.kind = "mint" -> RecoverMintResults(plan)
      [] plan.kind = "melt" -> RecoverMeltResults(op, plan)
      [] OTHER              -> SubmitResults(op, plan)

TsDecide(op) ==
    /\ At(op, "decide") /\ HasClient(op)
    /\ \E result \in RecoverResults(op, worker[op].rec.plan) :
         AfterResult(op, result, "state")
    /\ UNCHANGED <<kindOf, cached, journal, counters, client, loading,
                   resetting, mintVars, bounds>>

-----------------------------------------------------------------------------
(* Resets, failures, and the readers of the outbox. *)

Fault == bounds.faults > 0 /\ bounds' = [bounds EXCEPT !.faults = @ - 1]

\* A call throws.  What replay throws is swallowed by recover.
Throw(op) ==
    LET w == worker[op]
        replaying == \/ w.pc = "replay"
                     \/ w.pc = "handoff" /\ w.result.how = "nut19_replay"
    IN  /\ w.pc # "idle" /\ loading[op] = NoSeed /\ Fault
        /\ worker' = [worker EXCEPT ![op] =
                        IF replaying THEN [w EXCEPT !.pc = "decide", !.result = NoPlan]
                        ELSE Idle]
        /\ UNCHANGED <<kindOf, cached, journal, counters, client, loading,
                       resetting, mintVars>>

\* The process dies: sessions, locks and the cached client go with it.
TsCrash ==
    /\ Fault
    /\ worker' = [op \in TsOps |-> Idle]
    /\ loading' = [op \in TsOps |-> NoSeed]
    /\ client' = NoSeed /\ resetting' = NoSeed
    /\ UNCHANGED <<kindOf, cached, journal, counters, mintVars>>

\* reset, first half: one transaction empties the run and writes the seed.
\* Counters and reservations are kept, per seed.
TsResetStore(s) ==
    /\ resetting = NoSeed /\ bounds.resets > 0
    /\ bounds' = [bounds EXCEPT !.resets = @ - 1]
    /\ seed' = s /\ epoch' = epoch + 1 /\ resetting' = s
    /\ recs' = [op \in TsOps |-> NoRec]
    /\ proofs' = [c \in Coins |-> NoProof]
    /\ handoffs' = [op \in TsOps |-> NoSendHandoff]
    /\ UNCHANGED <<kindOf, cached, counters, client, loading, worker, mintVars>>

\* reset, second half: a client for the seed is cached once the mint loads;
\* if it does not, reset throws and the old client stays.
ResetWallet ==
    /\ resetting # NoSeed /\ resetting' = NoSeed
    /\ \/ client' = resetting /\ UNCHANGED bounds
       \/ Fault /\ UNCHANGED client
    /\ UNCHANGED <<kindOf, cached, journal, counters, loading, worker, mintVars>>

\* claimSendHandoff: unclaimed, one's own, or a claim older than five minutes.
ClaimSendHandoff(k, op) ==
    /\ handoffs[op].token # NoToken /\ ~ handoffs[op].acked
    /\ handoffs' = [handoffs EXCEPT ![op].claimedBy = k]
    /\ UNCHANGED <<kindOf, cached, seed, epoch, recs, proofs, counters, client,
                   loading, worker, resetting, mintVars, bounds>>

AckSendHandoff(k, op) ==
    /\ handoffs[op].token # NoToken /\ handoffs[op].claimedBy = k
    /\ handoffs' = [handoffs EXCEPT ![op].acked = TRUE]
    /\ UNCHANGED <<kindOf, cached, seed, epoch, recs, proofs, counters, client,
                   loading, worker, resetting, mintVars, bounds>>

-----------------------------------------------------------------------------
(* The mint and the wire. *)

Unsigned(plan) == \A c \in OutCoins(plan) : coin[c].state = "none"

Sign(plan, inputs) ==
    coin' = [c \in Coins |->
        IF c \in plan.inputs THEN [coin[c] EXCEPT !.state = inputs]
        ELSE IF c \in OutCoins(plan)
        THEN [state |-> "UNSPENT",
              amount |-> (CHOOSE o \in plan.outs : o[1] = c)[2]]
        ELSE coin[c]]

\* The mint executes a request at most once: unspent inputs or a paid quote,
\* outputs it has not signed before.  A melt only becomes pending.
TsMintExecutes(plan) ==
    /\ plan \in net \ done /\ InputsAre(plan, "UNSPENT") /\ Unsigned(plan)
    /\ CASE plan.kind = "mint" ->
              /\ quotes[plan.quote] = "PAID"
              /\ quotes' = [quotes EXCEPT ![plan.quote] = "ISSUED"]
              /\ Sign(plan, "SPENT")
         [] plan.kind = "melt" ->
              /\ quotes[plan.quote] = "UNPAID"
              /\ quotes' = [quotes EXCEPT ![plan.quote] = "PENDING"]
              /\ coin' = [c \in Coins |-> IF c \in plan.inputs
                            THEN [coin[c] EXCEPT !.state = "PENDING"] ELSE coin[c]]
         [] OTHER -> UNCHANGED quotes /\ Sign(plan, "SPENT")
    /\ done' = done \cup {plan}
    /\ net' = net \ {plan}
    /\ UNCHANGED <<kindOf, cached, journal, counters, client, loading, worker,
                   resetting, bounds>>

\* A request is lost, refused, or answered from the cache.
MintDrops(plan) ==
    /\ plan \in net
    /\ net' = net \ {plan}
    /\ UNCHANGED <<kindOf, cached, journal, counters, client, loading, worker,
                   resetting, coin, quotes, done, bounds>>

\* The Lightning payment of a melt succeeds, at a fee that leaves change or
\* not, or fails.
MeltSettles(plan) ==
    /\ plan \in done /\ plan.kind = "melt" /\ quotes[plan.quote] = "PENDING"
    /\ \/ /\ quotes' = [quotes EXCEPT ![plan.quote] = "PAID"]
          /\ UNCHANGED done
          /\ \/ Sign(plan, "SPENT")
             \/ Sign([plan EXCEPT !.outs = {}], "SPENT")
       \/ /\ quotes' = [quotes EXCEPT ![plan.quote] = "UNPAID"]
          /\ done' = done \ {plan}
          /\ coin' = [c \in Coins |-> IF c \in plan.inputs
                        THEN [coin[c] EXCEPT !.state = "UNSPENT"] ELSE coin[c]]
    /\ UNCHANGED <<kindOf, cached, journal, counters, client, loading, worker,
                   resetting, net, bounds>>

\* The recipient of a token spends it.
Redeem(op) ==
    LET c == handoffs[op].token
    IN  /\ handoffs[op].claimedBy # NoOp /\ coin[c].state = "UNSPENT"
        /\ coin' = [coin EXCEPT ![c].state = "SPENT"]
        /\ UNCHANGED <<kindOf, cached, journal, counters, client, loading,
                       worker, resetting, quotes, done, net, bounds>>

-----------------------------------------------------------------------------
(* A wallet that holds one coin, minted earlier in the run. *)

TsInit ==
    /\ \E sc \in Scenarios :
        /\ kindOf = sc.kind
        /\ bounds = [resets |-> sc.resets, faults |-> sc.faults]
    /\ cached \in BOOLEAN
    /\ seed = InitSeed /\ client = InitSeed
    /\ nextCounter = [t \in Seeds |-> IF t = InitSeed THEN 1 ELSE 0]
    /\ proofs = [c \in Coins |->
          IF c = <<InitSeed, 0>> THEN Fresh("UNSPENT") ELSE NoProof]
    /\ coin = [c \in Coins |->
          CASE c = <<InitSeed, 0>> -> [state |-> "UNSPENT", amount |-> 2]
            [] c = Token           -> [state |-> "UNSPENT", amount |-> 1]
            [] OTHER               -> [state |-> "none", amount |-> 0]]
    /\ epoch = 1 /\ reservations = {} /\ resetting = NoSeed
    /\ recs = [op \in TsOps |-> NoRec]
    /\ handoffs = [op \in TsOps |-> NoSendHandoff]
    /\ loading = [op \in TsOps |-> NoSeed]
    /\ worker = [op \in TsOps |-> Idle]
    /\ quotes = [q \in 1 .. MaxQuotes |-> "none"]
    /\ done = {} /\ net = {}

TsNext ==
    \/ \E op \in TsOps :
        \/ Create(op) \/ Begin(op) \/ TsPutReconciling(op)
        \/ LoadSeed(op) \/ CacheClient(op)
        \/ StartPrepare(op) \/ ReserveCounterRange(op) \/ TsPrepare(op)
        \/ CommitPrepared(op) \/ TsPutSubmitted(op) \/ Dispatch(op) \/ Return(op)
        \/ PutSendHandoff(op) \/ TsFinish(op)
        \/ StartRecover(op) \/ ReplayRequest(op) \/ TsDecide(op)
        \/ Throw(op) \/ Redeem(op)
        \/ \E k \in Readers : ClaimSendHandoff(k, op) \/ AckSendHandoff(k, op)
    \/ TsCrash \/ ResetWallet
    \/ \E s \in Seeds : TsResetStore(s)
    \/ \E plan \in net : TsMintExecutes(plan) \/ MintDrops(plan)
    \/ \E plan \in done : MeltSettles(plan)

TsSpec == TsInit /\ [][TsNext]_tsVars

-----------------------------------------------------------------------------
(* Properties. *)

\* The requests journaled, on the wire or executed.
Requests == (net \cup done \cup {recs[op].plan : op \in TsOps}) \ {NoPlan}

\* Each output comes from a counter range that was reserved for the operation,
\* for the output's seed, in the run of the store the request was planned in.
\* A reset does not wait for the workers: a request planned across one may
\* combine the seed of one run with the counters of another.
Backed(plan) ==
    \A c \in OutCoins(plan) : \E r \in reservations :
        /\ r.start = c[2] /\ r.id[1] = c[1]
        /\ r.id[2] = plan.epoch /\ r.id[3] = plan.op

\* No two requests made from the counter ranges reserved for them ever ask the
\* mint for the same output, across operations, retries and resets
\* (reserveCounterRange); until the first reset every request is such a one.
OutputsPlannedOnce ==
    /\ \A p, q \in Requests :
          Backed(p) /\ Backed(q) /\ p # q => OutCoins(p) \cap OutCoins(q) = {}
    /\ epoch = 1 => \A p \in Requests : p.kind # "restore" => Backed(p)

\* The outputs of a request are its own: neither it nor another executed
\* request for one of them was planned across a reset.
OwnsOutputs(plan) ==
    \A p \in done \cup {plan} : OutCoins(p) \cap OutCoins(plan) # {} => Backed(p)

\* A mint, swap, send, receive or melt that the journal calls succeeded was
\* executed by the mint, request for request, if its outputs are its own; and
\* the token of a send is in the outbox of the run.  Neither a lost answer, a
\* replay, a late request nor a reconciled input makes recovery report a success
\* that did not happen (wallet.ts recover, #handoffSend).
SuccessIsReal ==
    \A op \in TsOps : recs[op].phase = "succeeded" =>
        LET plan == recs[op].plan
        IN  /\ kindOf[op] \notin {"restore", "reconcile"} /\ OwnsOutputs(plan)
               => plan \in done
            /\ kindOf[op] = "send" /\ plan.epoch = epoch
               => handoffs[op].token = plan.give

\* A reconcile that was planned before a reset and finished after it.
LateReconcile(c) ==
    \E op \in TsOps :
        LET plan == recs[op].plan
        IN  plan # NoPlan /\ plan.kind = "reconcile" /\ plan.epoch # epoch /\ c \in plan.inputs

\* A proof held as pending belongs to an operation whose plan spends it and
\* which has not succeeded (#applyProofChanges): no reservation is orphaned by
\* a crash or a reconcile, or taken over by another operation.  Only a reconcile
\* that ran across a reset can write the state of a proof for an operation the
\* store has forgotten.
ReservationsAreOwned ==
    \A c \in Coins : proofs[c].state = "PENDING" =>
        \/ proofs[c].by = NoOp /\ proofs[c].bucket = "recoverable"
        \/ /\ proofs[c].by # NoOp
           /\ recs[proofs[c].by].plan # NoPlan
           /\ c \in recs[proofs[c].by].plan.inputs
           /\ recs[proofs[c].by].phase # "succeeded"
        \/ proofs[c].by = Target /\ LateReconcile(c)
=============================================================================
