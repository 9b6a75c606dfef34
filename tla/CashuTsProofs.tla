--------------------------- MODULE CashuTsProofs ---------------------------
(***************************************************************************)
(* The cashu-ts lifecycle, for any operations, seeds, faults and resets:   *)
(* requests do not share outputs, reservations have owners, and a          *)
(* journaled success was executed by the mint.                             *)
(*                                                                         *)
(* The invariant has one part per question: what the journal and the       *)
(* workers' copies of it hold, that an operation has one journaled plan    *)
(* per run of the store, which ranges are reserved, what holds until the   *)
(* first reset, who a pending proof belongs to, what the quotes and the    *)
(* signatures of the mint say about the requests it executed, and what a   *)
(* result a worker holds may change.                                       *)
(***************************************************************************)
EXTENDS CashuTsLifecycle, TLAPS

USE ZenonT(10), SMTT(15), Z3T(15)

-----------------------------------------------------------------------------
(* Types.                                                                   *)

Pcs == {"idle", "prepare", "reserve", "prepared", "put_submitted", "ambiguous",
        "dispatch", "wait", "handoff", "finish", "recover", "replay", "decide"}
Statuses == {"succeeded", "ambiguous", "recovery_blocked"}
Mechanisms == {"none", "submission", "nut19_replay", "state"}
CoinStates == {"none", "absent", "UNSPENT", "PENDING", "SPENT"}
Buckets == {"none", "available", "recoverable", "reserved"}
QuoteStates == {"none", "UNPAID", "PENDING", "PAID", "ISSUED"}
Uses == {"mint", "send", "keep", "receive", "melt-change"}

Records ==
    [phase : LifecyclePhases \cup {"absent"}, plan : TsPlans \cup {NoPlan},
     seen : Int, mark : Mechanisms]
Proofs == [state : CoinStates, bucket : Buckets, by : TsOps \cup {NoOp}]
Updates == [coin : Coins, state : CoinStates, bucket : Buckets, by : TsOps]
Additions == UNION {[S -> Proofs] : S \in SUBSET Coins}
Results ==
    [status : Statuses, add : Additions, update : SUBSET Updates, seen : Int,
     how : Mechanisms]
RangeLists == Seq(0 .. MaxRanges - 1)
WorkerStates ==
    [pc : Pcs, rec : Records, seed : Seeds \cup {NoSeed}, ranges : RangeLists,
     result : Results \cup {NoPlan}]
Ids == Seeds \X Nat \X TsOps \X Uses

JournalTypes ==
    /\ kindOf \in [TsOps -> Kinds \cup {"none"}]
    /\ seed \in Seeds /\ epoch \in Nat \ {0}
    /\ recs \in [TsOps -> Records]
    /\ proofs \in [Coins -> Proofs]
    /\ handoffs \in [TsOps -> [token : SeedCoins \cup {NoToken},
                               claimedBy : Readers \cup {NoOp}, acked : BOOLEAN]]

CounterTypes ==
    /\ nextCounter \in [Seeds -> Nat]
    /\ reservations \subseteq [id : Ids, start : 0 .. MaxRanges - 1]
    /\ client \in Seeds \cup {NoSeed} /\ resetting \in Seeds \cup {NoSeed}
    /\ loading \in [TsOps -> Seeds \cup {NoSeed}]

MintTypes ==
    /\ coin \in [Coins -> [state : CoinStates, amount : Int]]
    /\ quotes \in [1 .. MaxQuotes -> QuoteStates]
    /\ done \subseteq TsPlans /\ net \subseteq TsPlans

TypesOK ==
    JournalTypes /\ CounterTypes /\ MintTypes /\ worker \in [TsOps -> WorkerStates]

-----------------------------------------------------------------------------
(* The journal and the workers.                                             *)

Early == {"prepare", "reserve"}
Past == {"put_submitted", "ambiguous", "dispatch", "wait", "handoff", "finish",
         "recover", "replay", "decide"}
Running == {"prepared", "submitted", "ambiguous", "reconciling"}
Spends == Transfer \cup {"melt"}

\* A plan of an operation, by its kind.
PlanOK(op, plan) ==
    /\ plan \in TsPlans
    /\ plan.op = op /\ plan.epoch <= epoch /\ plan.kind = kindOf[op]
    /\ plan.kind \in {"mint", "restore"} => plan.inputs = {}
    /\ plan.kind = "receive" => plan.inputs = {Token}
    /\ plan.kind = "reconcile" => plan.outs = {}
    /\ plan.kind \notin {"restore", "reconcile"} => plan.outs # {}
    /\ plan.kind = "send" => plan.give # NoToken
    /\ plan.kind = "melt" => plan.quote # 0

\* A row has a plan once it is past created.
RecOK(op) ==
    /\ recs[op].phase = "absent" => recs[op] = NoRec
    /\ recs[op].phase # "absent" => kindOf[op] # "none"
    /\ recs[op].phase \in {"absent", "created"} => recs[op].plan = NoPlan
    /\ recs[op].phase \notin {"absent", "created"} =>
          PlanOK(op, recs[op].plan) /\ recs[op].phase \in Running \cup Terminal

\* A worker that prepares finds no plan in the journal; one that is past that
\* finds the plan it works on, or, after a reset, none.
WorkOK(op) ==
    LET w == worker[op]
    IN  /\ w.pc # "idle" => kindOf[op] # "none"
        /\ w.pc = "reserve" => w.seed # NoSeed
        /\ w.pc \in {"prepared"} \cup Early => recs[op].plan = NoPlan
        /\ w.pc \in {"prepared"} \cup Past => PlanOK(op, w.rec.plan)
        /\ w.pc \in Past => /\ recs[op].plan \in {NoPlan, w.rec.plan}
                            /\ w.rec.phase \in Running

RowsOK == \A op \in TsOps : RecOK(op) /\ WorkOK(op)

-----------------------------------------------------------------------------
(* One journaled plan for each operation in each run of the store.          *)

Held == {worker[op].rec.plan : op \in {o \in TsOps : worker[o].pc \in Past}}
Journaled == Requests \cup Held

PlansUnique ==
    /\ \A p \in Journaled : p \in TsPlans /\ PlanOK(p.op, p)
    /\ \A p, q \in Journaled : p.op = q.op /\ p.epoch = q.epoch => p = q
    /\ \A op \in TsOps : \A p \in Journaled : p.op = op =>
          /\ worker[op].pc = "prepared" => p.epoch # worker[op].rec.plan.epoch
          /\ recs[op].plan = NoPlan => p.epoch # epoch

\* Ranges handed out lie below the counter and are not handed out again; the
\* range of the coin the wallet starts with is never handed out.
RangesOK ==
    /\ \A r \in reservations : r.start < nextCounter[r.id[1]]
    /\ \A r, s \in reservations : r.id[1] = s.id[1] /\ r.start = s.start => r = s
    /\ \A r \in reservations : <<r.id[1], r.start>> # <<InitSeed, 0>>
    /\ nextCounter[InitSeed] # 0

\* The range is one an operation reserved before the first reset.
HasRange(taken, op, start) ==
    \E r \in taken :
        r.start = start /\ r.id[1] = InitSeed /\ r.id[2] = 1 /\ r.id[3] = op

\* Until the first reset there is one seed.
OneSeed ==
    epoch = 1 =>
        /\ seed = InitSeed /\ resetting = NoSeed /\ client \in {InitSeed, NoSeed}
        /\ \A op \in TsOps : loading[op] \in {InitSeed, NoSeed}
        /\ \A op \in TsOps : worker[op].pc = "reserve" => worker[op].seed = InitSeed
        /\ \A op \in TsOps : worker[op].pc \in Early =>
              \A i \in 1 .. Len(worker[op].ranges) :
                  HasRange(reservations, op, worker[op].ranges[i])

Planned ==
    Journaled \cup
    {worker[op].rec.plan : op \in {o \in TsOps : worker[o].pc = "prepared"}}

FirstRunBacked ==
    epoch = 1 => \A p \in Planned : p.kind # "restore" => Backed(p)

-----------------------------------------------------------------------------
(* The wallet.                                                              *)

\* A reconcile of this run has the inputs of its target; the target of a
\* reconcile that is one itself never gets a plan.
ReconcileOK ==
    /\ \A p \in Planned : p.kind = "reconcile" /\ p.epoch = epoch =>
          recs[Target].plan # NoPlan /\ p.inputs = recs[Target].plan.inputs
    /\ kindOf[Target] = "reconcile" =>
          recs[Target].plan = NoPlan /\ worker[Target].pc \in Early \cup {"idle"}

Owned(c) ==
    \/ proofs[c].by = NoOp /\ proofs[c].bucket = "recoverable"
    \/ /\ proofs[c].by # NoOp
       /\ kindOf[proofs[c].by] \in Spends
       /\ recs[proofs[c].by].plan # NoPlan
       /\ c \in recs[proofs[c].by].plan.inputs
       /\ recs[proofs[c].by].phase # "succeeded"
    \/ proofs[c].by = Target /\ LateReconcile(c)

WalletOK ==
    /\ proofs[Token] = NoProof
    /\ \A c \in Coins : proofs[c].state = "PENDING" => Owned(c)
    /\ \A op \in TsOps : recs[op].phase = "succeeded" /\ kindOf[op] \in Spends =>
          \A c \in recs[op].plan.inputs : proofs[c].state = "SPENT"

\* What a result for a plan changes in the wallet.
GoodResult(op, plan, result) ==
    /\ result \in Results
    /\ result.status # "succeeded" => result.add = <<>> /\ result.update = {}
    /\ result.status = "succeeded" /\ plan.kind \in Spends =>
          result.update = TsSpend(op, plan.inputs)
    /\ plan.kind \in {"mint", "receive", "restore"} => result.update = {}
    /\ plan.kind = "reconcile" =>
          \A u \in result.update : u.coin \in plan.inputs /\ u.by = Target
    /\ DOMAIN result.add \subseteq OutCoins(plan)
    /\ \A c \in DOMAIN result.add :
          /\ result.add[c].by = NoOp
          /\ result.add[c].state = "PENDING" => result.add[c].bucket = "recoverable"

ResultsOK ==
    \A op \in TsOps : worker[op].pc \in {"handoff", "finish"} =>
        GoodResult(op, worker[op].rec.plan, worker[op].result)

-----------------------------------------------------------------------------
(* The mint.                                                                *)

\* A quote belongs to one plan; a melt is executed while its quote is pending
\* or paid.
QuotesOK ==
    /\ \A p \in Planned : p.quote # 0 => p.quote \in 1 .. MaxQuotes /\ quotes[p.quote] # "none"
    /\ \A p, q \in Planned : p.quote = q.quote /\ p.quote # 0 => p = q
    /\ \A p \in Planned : p.kind = "melt" =>
          /\ quotes[p.quote] \in {"UNPAID", "PENDING", "PAID"}
          /\ p \in done <=> quotes[p.quote] # "UNPAID"

\* The mint has executed the request for good.
Settled(p) == p \in done /\ (p.kind = "melt" => quotes[p.quote] = "PAID")

\* Every coin the mint knows was there at first or was asked for by a request
\* it executed.
SignedOK ==
    /\ \A c \in Coins : coin[c].state # "none" =>
          c \in {<<InitSeed, 0>>, Token} \/ \E p \in done : Settled(p) /\ c \in OutCoins(p)
    /\ \A p \in done : \A c \in p.inputs : coin[c].state # "none"

\* A request was executed, or it or one executed for the same outputs was
\* planned across a reset.
Real(plan) ==
    \/ Settled(plan)
    \/ ~ Backed(plan)
    \/ \E p \in done : Settled(p) /\ OutCoins(p) \cap OutCoins(plan) # {} /\ ~ Backed(p)

\* What a success in the journal stands for, and what one a worker is about to
\* journal does.
RowReal(op) ==
    recs[op].phase = "succeeded" =>
        /\ kindOf[op] \notin {"restore", "reconcile"} => Real(recs[op].plan)
        /\ kindOf[op] = "send" /\ recs[op].plan.epoch = epoch =>
              handoffs[op].token = recs[op].plan.give

WorkReal(op) ==
    worker[op].pc \in {"handoff", "finish"} /\ worker[op].result.status = "succeeded" =>
        /\ kindOf[op] \notin {"restore", "reconcile"} => Real(worker[op].rec.plan)
        /\ /\ worker[op].pc = "finish" /\ kindOf[op] = "send"
           /\ worker[op].rec.plan.epoch = epoch
           => handoffs[op].token = worker[op].rec.plan.give

SuccessOK == \A op \in TsOps : RowReal(op) /\ WorkReal(op)

TsInv ==
    /\ TypesOK /\ RowsOK /\ PlansUnique /\ RangesOK /\ OneSeed /\ FirstRunBacked
    /\ ReconcileOK /\ WalletOK /\ ResultsOK /\ QuotesOK /\ SignedOK /\ SuccessOK

-----------------------------------------------------------------------------
(* The types.                                                               *)

LEMMA ConstantTypes ==
  /\ NoRec \in Records /\ Created \in Records /\ NoProof \in Proofs
  /\ Idle \in WorkerStates
  /\ <<InitSeed, 0>> \in SeedCoins
  /\ \A state \in CoinStates : Fresh(state) \in Proofs
  /\ <<>> \in Additions
<1>1. NoRec \in Records /\ Created \in Records
  BY DEF NoRec, Created, Records, LifecyclePhases, Mechanisms
<1>2. NoProof \in Proofs /\ \A state \in CoinStates : Fresh(state) \in Proofs
  BY DEF NoProof, Proofs, Fresh, CoinStates, Buckets
<1>3. Idle \in WorkerStates
  BY <1>1 DEF Idle, WorkerStates, RangeLists, Pcs
<1>4. <<InitSeed, 0>> \in SeedCoins
  BY TsAssumption DEF SeedCoins
<1>5. <<>> \in [{} -> Proofs]
  OBVIOUS
<1>6. <<>> \in Additions
  BY <1>5 DEF Additions
<1> QED BY <1>1, <1>2, <1>3, <1>4, <1>6

LEMMA TypesInit == TsInit => TypesOK
<1> SUFFICES ASSUME TsInit PROVE TypesOK
  OBVIOUS
<1>1. JournalTypes
  BY ConstantTypes, TsAssumption DEF TsInit, JournalTypes, NoSendHandoff, CoinStates
<1>2. CounterTypes
  BY TsAssumption DEF TsInit, CounterTypes
<1>3. MintTypes
  BY DEF TsInit, MintTypes, CoinStates, QuoteStates
<1>4. worker \in [TsOps -> WorkerStates]
  BY ConstantTypes DEF TsInit
<1> QED BY <1>1, <1>2, <1>3, <1>4 DEF TypesOK

-----------------------------------------------------------------------------
(* The results submit and recover may come to.                              *)

LEMMA PlanCoins ==
  ASSUME NEW plan \in TsPlans
  PROVE  /\ OutCoins(plan) \subseteq SeedCoins /\ OutCoins(plan) \subseteq Coins
         /\ Token \notin OutCoins(plan)
<1>1. OutCoins(plan) \subseteq SeedCoins
  BY DEF OutCoins, TsPlans
<1> QED BY <1>1, TsAssumption DEF Coins

LEMMA ResultMade ==
  ASSUME NEW status \in Statuses, NEW add \in Additions,
         NEW update \in SUBSET Updates, NEW seen \in Int
  PROVE  /\ TsResult(status, add, update, seen) \in Results
         /\ TsResult(status, add, update, seen).status = status
         /\ TsResult(status, add, update, seen).add = add
         /\ TsResult(status, add, update, seen).update = update
  BY DEF TsResult, Results, Mechanisms

LEMMA NewProofsType ==
  ASSUME NEW S \in SUBSET Coins
  PROVE  /\ NewProofs(S) \in Additions /\ DOMAIN NewProofs(S) = S
         /\ \A c \in S : NewProofs(S)[c].by = NoOp /\ NewProofs(S)[c].state = "UNSPENT"
<1>1. NewProofs(S) \in [S -> Proofs]
  BY ConstantTypes DEF NewProofs, CoinStates
<1> QED BY <1>1 DEF NewProofs, Additions, Fresh

LEMMA TsSpendType ==
  ASSUME NEW op \in TsOps, NEW inputs \in SUBSET Coins
  PROVE  TsSpend(op, inputs) \in SUBSET Updates
  BY DEF TsSpend, Updates, CoinStates, Buckets

LEMMA FailureGood ==
  ASSUME NEW op, NEW plan, NEW seen \in Int
  PROVE  /\ GoodResult(op, plan, TsAmbiguous(seen)) /\ TsAmbiguous(seen).status = "ambiguous"
         /\ GoodResult(op, plan, TsBlocked(seen))
         /\ TsBlocked(seen).status = "recovery_blocked"
<1>1. {} \in SUBSET Updates /\ DOMAIN <<>> = {}
  OBVIOUS
<1>2. /\ TsAmbiguous(seen) \in Results /\ TsAmbiguous(seen).status = "ambiguous"
      /\ TsAmbiguous(seen).add = <<>> /\ TsAmbiguous(seen).update = {}
  BY <1>1, ResultMade, ConstantTypes DEF TsAmbiguous, Statuses
<1>3. /\ TsBlocked(seen) \in Results /\ TsBlocked(seen).status = "recovery_blocked"
      /\ TsBlocked(seen).add = <<>> /\ TsBlocked(seen).update = {}
  BY <1>1, ResultMade, ConstantTypes DEF TsBlocked, Statuses
<1> QED BY <1>1, <1>2, <1>3 DEF GoodResult

LEMMA TransferGood ==
  ASSUME NEW op \in TsOps, NEW plan \in TsPlans, plan.kind \in Transfer
  PROVE  GoodResult(op, plan, TransferResult(op, plan))
<1>1. NewProofs(OutCoins(plan) \ {plan.give}) \in Additions
  BY PlanCoins, NewProofsType
<1>2. TsSpend(op, plan.inputs) \in SUBSET Updates
  BY TsSpendType DEF TsPlans
<1>3. /\ TransferResult(op, plan) \in Results
      /\ TransferResult(op, plan).add = NewProofs(OutCoins(plan) \ {plan.give})
      /\ TransferResult(op, plan).status = "succeeded"
      /\ TransferResult(op, plan).update = TsSpend(op, plan.inputs)
  BY <1>1, <1>2, ResultMade DEF TransferResult, Statuses
<1>4. OutCoins(plan) \ {plan.give} \in SUBSET Coins
  BY PlanCoins
<1> QED BY <1>3, <1>4, NewProofsType DEF GoodResult, Transfer

LEMMA AddGood ==
  ASSUME NEW op, NEW plan \in TsPlans, plan.kind \in {"mint", "receive"}
  PROVE  GoodResult(op, plan, AddResult(plan))
<1>1. NewProofs(OutCoins(plan)) \in Additions /\ OutCoins(plan) \in SUBSET Coins
  BY PlanCoins, NewProofsType
<1>3. /\ AddResult(plan) \in Results /\ AddResult(plan).status = "succeeded"
      /\ AddResult(plan).add = NewProofs(OutCoins(plan))
      /\ AddResult(plan).update = {}
  BY <1>1, ResultMade DEF AddResult, Statuses
<1> QED BY <1>1, <1>3, NewProofsType DEF GoodResult, Spends, Transfer

LEMMA MeltGood ==
  ASSUME NEW op \in TsOps, NEW plan \in TsPlans, plan.kind = "melt",
         NEW result \in MeltResults(op, plan)
  PROVE  GoodResult(op, plan, result)
<1> DEFINE change == {c \in OutCoins(plan) : coin[c].state # "none"}
<1>1. NewProofs(change) \in Additions /\ change \in SUBSET Coins /\ change \subseteq OutCoins(plan)
  BY PlanCoins, NewProofsType
<1>2. TsSpend(op, plan.inputs) \in SUBSET Updates
  BY TsSpendType DEF TsPlans
<1>3. result = TsResult("succeeded", NewProofs(change), TsSpend(op, plan.inputs), 2)
  BY DEF MeltResults
<1>4. /\ result \in Results /\ result.add = NewProofs(change)
      /\ result.update = TsSpend(op, plan.inputs) /\ result.status = "succeeded"
  BY <1>1, <1>2, <1>3, ResultMade DEF Statuses
<1> HIDE DEF change
<1> QED BY <1>1, <1>4, NewProofsType DEF GoodResult

LEMMA RestoreGood ==
  ASSUME TypesOK, NEW op, NEW plan \in TsPlans, plan.kind = "restore"
  PROVE  GoodResult(op, plan, RestoreResult(plan))
<1> DEFINE found == {c \in OutCoins(plan) : coin[c].state # "none" /\ proofs[c] = NoProof}
           add == [c \in found |-> Fresh(coin[c].state)]
<1>1. found \in SUBSET Coins /\ found \subseteq OutCoins(plan)
  BY PlanCoins
<1>2. \A c \in found : coin[c].state \in CoinStates
  BY <1>1 DEF TypesOK, MintTypes
<1>3. add \in [found -> Proofs]
  BY <1>2, ConstantTypes
<1>4. add \in Additions
  BY <1>1, <1>3 DEF Additions
<1>5. /\ RestoreResult(plan) \in Results /\ RestoreResult(plan).add = add
      /\ RestoreResult(plan).update = {} /\ RestoreResult(plan).status = "succeeded"
  BY <1>4, ResultMade DEF RestoreResult, Statuses
<1>6. \A c \in found : /\ add[c].by = NoOp
                       /\ add[c].state = "PENDING" => add[c].bucket = "recoverable"
  BY DEF Fresh
<1>7. DOMAIN add = found
  OBVIOUS
<1> HIDE DEF add, found
<1> QED BY <1>1, <1>5, <1>6, <1>7 DEF GoodResult, Spends, Transfer

LEMMA ReconcileGood ==
  ASSUME TypesOK, NEW op, NEW plan \in TsPlans, plan.kind = "reconcile",
         NEW result \in ReconcileResults(plan)
  PROVE  GoodResult(op, plan, result)
<1> DEFINE seen(c) == [coin |-> c, state |-> coin[c].state, by |-> Target,
                       bucket |-> IF coin[c].state = "UNSPENT" THEN "available"
                                  ELSE "reserved"]
           update == {seen(c) : c \in plan.inputs}
<1>1. \A c \in plan.inputs : seen(c) \in Updates
  BY TsAssumption DEF TypesOK, MintTypes, TsPlans, Updates, CoinStates, Buckets
<1>2. update \in SUBSET Updates
  BY <1>1
<1>3. result = TsResult("succeeded", <<>>, update, 0)
  BY DEF ReconcileResults
<1>4. \A u \in update : u.coin \in plan.inputs /\ u.by = Target
  OBVIOUS
<1> HIDE DEF update
<1>5. /\ result \in Results /\ result.add = <<>> /\ result.update = update
      /\ result.status = "succeeded"
  BY <1>2, <1>3, ResultMade, ConstantTypes DEF Statuses
<1>6. DOMAIN <<>> = {}
  OBVIOUS
<1> QED BY <1>4, <1>5, <1>6 DEF GoodResult, Spends, Transfer

LEMMA SubmitGood ==
  ASSUME TypesOK, NEW op \in TsOps, NEW plan \in TsPlans,
         NEW result \in SubmitResults(op, plan)
  PROVE  GoodResult(op, plan, result)
<1>1. CASE plan.kind = "restore"
  BY <1>1, RestoreGood DEF SubmitResults
<1>2. CASE plan.kind = "reconcile"
  BY <1>2, ReconcileGood DEF SubmitResults
<1>3. CASE plan.kind \in Transfer
  BY <1>3, TransferGood DEF SubmitResults, ExecutedResults, Transfer
<1>4. CASE plan.kind \in {"mint", "receive"}
  BY <1>4, AddGood DEF SubmitResults, ExecutedResults, Transfer
<1>5. CASE plan.kind = "melt"
  <2>1. result \in {TsAmbiguous(1), TsBlocked(2)} \cup MeltResults(op, plan)
    BY <1>5 DEF SubmitResults, ExecutedResults, Transfer
  <2> QED BY <2>1, <1>5, MeltGood, FailureGood
<1> QED BY <1>1, <1>2, <1>3, <1>4, <1>5 DEF TsPlans, Kinds, Transfer

LEMMA RecoverGood ==
  ASSUME TypesOK, NEW op \in TsOps, NEW plan \in TsPlans, plan.kind = kindOf[op],
         plan.quote \in 1 .. MaxQuotes \/ plan.kind # "melt",
         plan.kind = "melt" => quotes[plan.quote] \in {"UNPAID", "PENDING", "PAID"},
         NEW result \in RecoverResults(op, plan)
  PROVE  GoodResult(op, plan, result)
<1>0. worker[op].rec.seen \in Int
  BY DEF TypesOK, WorkerStates, Records
<1>1. CASE result = TsBlocked(worker[op].rec.seen)
  BY <1>0, <1>1, FailureGood
<1>2. CASE plan.kind \in Transfer
  BY <1>0, <1>2, TransferGood, FailureGood DEF RecoverResults, RecoverTransferResults, Transfer
<1>3. CASE plan.kind = "receive"
  BY <1>0, <1>3, AddGood, FailureGood DEF RecoverResults, RecoverReceiveResults, Transfer
<1>4. CASE plan.kind = "mint"
  BY <1>0, <1>4, AddGood, FailureGood DEF RecoverResults, RecoverMintResults, Transfer
<1>5. CASE plan.kind = "melt"
  <2>1. result \in {TsAmbiguous(1), TsBlocked(2), TsBlocked(0), TsBlocked(worker[op].rec.seen)}
                   \cup MeltResults(op, plan)
    BY <1>5 DEF RecoverResults, RecoverMeltResults, Transfer
  <2> QED BY <1>0, <2>1, <1>5, MeltGood, FailureGood
<1>6. CASE plan.kind \in {"restore", "reconcile"} /\ result # TsBlocked(worker[op].rec.seen)
  <2>1. result \in SubmitResults(op, plan)
    BY <1>6 DEF RecoverResults, Transfer
  <2> QED BY <2>1, SubmitGood
<1> QED BY <1>1, <1>2, <1>3, <1>4, <1>5, <1>6 DEF TsPlans, Kinds, Transfer

LEMMA ObservedGood ==
  ASSUME TypesOK, NEW op \in TsOps, NEW plan, NEW result, GoodResult(op, plan, result),
         NEW how \in Mechanisms
  PROVE  LET kept == [Observed(worker[op].rec, result) EXCEPT !.how = how]
         IN  /\ GoodResult(op, plan, kept)
             /\ kept.status = "succeeded" => result.status = "succeeded"
<1> DEFINE seen == Observed(worker[op].rec, result)
           kept == [seen EXCEPT !.how = how]
<1>1. worker[op].rec.seen \in Int
  BY DEF TypesOK, WorkerStates, Records
<1>2. /\ GoodResult(op, plan, seen)
      /\ seen.status = "succeeded" => result.status = "succeeded"
  BY <1>1, FailureGood DEF Observed
<1> HIDE DEF seen
<1>3. /\ kept \in Results /\ kept.status = seen.status /\ kept.add = seen.add
      /\ kept.update = seen.update
  BY <1>2 DEF GoodResult, Results
<1> HIDE DEF kept
<1>4. GoodResult(op, plan, kept)
  BY <1>2, <1>3 DEF GoodResult
<1> QED BY <1>2, <1>3, <1>4 DEF kept, seen

-----------------------------------------------------------------------------
(* The plans prepare may come to.                                           *)

\* An output derived from the client's seed and a range of the worker.
FromRanges(op, c) ==
    \E i \in 1 .. Len(worker[op].ranges) : c = <<worker[op].seed, worker[op].ranges[i]>>

\* What prepare promises about a new plan.
NewPlanOK(op, plan, q) ==
    /\ PlanOK(op, plan) /\ plan.epoch = epoch /\ plan.quote = q
    /\ plan.kind # "restore" => \A c \in OutCoins(plan) : FromRanges(op, c)
    /\ plan.kind = "reconcile" =>
          recs[Target].plan # NoPlan /\ plan.inputs = recs[Target].plan.inputs

LEMMA ElementOf ==
  ASSUME NEW S, NEW s \in Seq(S), NEW i \in 1 .. Len(s)
  PROVE  s[i] \in S
  OBVIOUS

LEMMA OutMade ==
  ASSUME TypesOK, NEW op \in TsOps, worker[op].seed # NoSeed,
         NEW i \in 1 .. Len(worker[op].ranges)
  PROVE  Out(op, i) \in SeedCoins /\ FromRanges(op, Out(op, i))
<1>1. worker[op].seed \in Seeds /\ worker[op].ranges \in Seq(0 .. MaxRanges - 1)
  BY DEF TypesOK, WorkerStates, RangeLists
<1>2. worker[op].ranges[i] \in 0 .. MaxRanges - 1
  BY <1>1, ElementOf
<1> QED BY <1>1, <1>2 DEF Out, SeedCoins, FromRanges

LEMMA PreparedOK ==
  ASSUME TypesOK, RowsOK, NEW op \in TsOps, At(op, "reserve"),
         Len(worker[op].ranges) = Len(Purposes(kindOf[op])),
         NEW q \in IF UsesQuote(kindOf[op]) THEN 1 .. MaxQuotes ELSE {0},
         NEW plan \in PreparedPlans(op, q)
  PROVE  NewPlanOK(op, plan, q)
<1>1. /\ worker[op].seed # NoSeed /\ kindOf[op] # "none" /\ kindOf[op] \in Kinds
      /\ epoch \in Nat /\ recs \in [TsOps -> Records]
  BY DEF RowsOK, WorkOK, At, TypesOK, JournalTypes
<1>2. q \in Nat
  BY TsAssumption DEF UsesQuote
<1>3. Available \in SUBSET Coins
  BY DEF Available
<1>4. CASE kindOf[op] = "mint"
  <2>1. plan = Plan(op, {}, {<<Out(op, 1), 2>>}, NoToken, q)
    BY <1>4 DEF PreparedPlans, Transfer
  <2>2. 1 \in 1 .. Len(worker[op].ranges)
    BY <1>4 DEF Purposes, Transfer
  <2>3. {<<Out(op, 1), 2>>} \in SUBSET (SeedCoins \X Int)
    BY <1>1, <2>2, OutMade
  <2>4. /\ plan \in TsPlans /\ plan.op = op /\ plan.epoch = epoch /\ plan.kind = kindOf[op]
        /\ plan.inputs = {} /\ plan.outs = {<<Out(op, 1), 2>>} /\ plan.quote = q
        /\ OutCoins(plan) = {o[1] : o \in {<<Out(op, 1), 2>>}}
    BY <1>1, <1>2, <2>1, <2>3, TsAssumption DEF Plan, TsPlans, OutCoins
  <2> QED BY <1>1, <1>4, <2>2, <2>4, OutMade DEF NewPlanOK, PlanOK
<1>5. CASE kindOf[op] \in Transfer
  <2>1. PICK c \in Available : plan = TransferPlan(op, c)
    BY <1>5 DEF PreparedPlans, Transfer
  <2>2. 1 \in 1 .. Len(worker[op].ranges) /\ 2 \in 1 .. Len(worker[op].ranges)
    BY <1>5 DEF Purposes, Transfer
  <2> DEFINE keep == coin[c].amount - 1
             outs == {<<Out(op, 1), 1>>} \cup
                       (IF keep > 0 THEN {<<Out(op, 2), keep>>} ELSE {})
             give == IF kindOf[op] = "send" THEN Out(op, 1) ELSE NoToken
  <2>3. plan = Plan(op, {c}, outs, give, 0)
    BY <2>1 DEF TransferPlan
  <2>4. keep \in Int
    BY <1>3 DEF TypesOK, MintTypes
  <2>a. Out(op, 1) \in SeedCoins /\ Out(op, 2) \in SeedCoins
    BY <1>1, <2>2, OutMade
  <2>b. <<Out(op, 1), 1>> \in SeedCoins \X Int /\ <<Out(op, 2), keep>> \in SeedCoins \X Int
    BY <2>a, <2>4
  <2> HIDE DEF keep
  <2>5. outs \in SUBSET (SeedCoins \X Int) /\ outs # {} /\ give \in SeedCoins \cup {NoToken}
    BY <2>a, <2>b
  <2>6. \A o \in outs : FromRanges(op, o[1])
    BY <1>1, <2>2, OutMade
  <2>7. kindOf[op] = "send" => give # NoToken
    BY <1>1, <2>2, OutMade, TsAssumption
  <2>8. q = 0
    BY <1>5 DEF UsesQuote, Transfer
  <2> HIDE DEF outs, give
  <2>9. /\ plan \in TsPlans /\ plan.op = op /\ plan.epoch = epoch /\ plan.kind = kindOf[op]
        /\ plan.outs = outs /\ plan.give = give /\ plan.quote = q
        /\ OutCoins(plan) = {o[1] : o \in outs}
    BY <1>1, <1>3, <2>3, <2>5, <2>8, TsAssumption DEF Plan, TsPlans, OutCoins
  <2> QED BY <1>1, <1>5, <2>5, <2>6, <2>7, <2>9 DEF NewPlanOK, PlanOK, Transfer
<1>6. CASE kindOf[op] = "receive"
  <2>1. plan = Plan(op, {Token}, {<<Out(op, 1), 1>>}, NoToken, 0) /\ q = 0
    BY <1>6 DEF PreparedPlans, ReceivePlan, Transfer, UsesQuote
  <2>2. 1 \in 1 .. Len(worker[op].ranges)
    BY <1>6 DEF Purposes, Transfer
  <2>3. {<<Out(op, 1), 1>>} \in SUBSET (SeedCoins \X Int) /\ {Token} \in SUBSET Coins
    BY <1>1, <2>2, OutMade DEF Coins
  <2>4. /\ plan \in TsPlans /\ plan.op = op /\ plan.epoch = epoch /\ plan.kind = kindOf[op]
        /\ plan.inputs = {Token} /\ plan.outs = {<<Out(op, 1), 1>>} /\ plan.quote = q
        /\ OutCoins(plan) = {o[1] : o \in {<<Out(op, 1), 1>>}}
    BY <1>1, <1>2, <2>1, <2>3, TsAssumption DEF Plan, TsPlans, OutCoins
  <2> QED BY <1>1, <1>6, <2>2, <2>4, OutMade DEF NewPlanOK, PlanOK
<1>7. CASE kindOf[op] = "melt"
  <2>1. PICK c \in Available : plan = Plan(op, {c}, {<<Out(op, 1), 1>>}, NoToken, q)
    BY <1>7 DEF PreparedPlans, MeltPlans, Transfer
  <2>2. 1 \in 1 .. Len(worker[op].ranges)
    BY <1>7 DEF Purposes, Transfer
  <2>3. {<<Out(op, 1), 1>>} \in SUBSET (SeedCoins \X Int) /\ {c} \in SUBSET Coins
    BY <1>1, <1>3, <2>2, OutMade
  <2>4. /\ plan \in TsPlans /\ plan.op = op /\ plan.epoch = epoch /\ plan.kind = kindOf[op]
        /\ plan.outs = {<<Out(op, 1), 1>>} /\ plan.quote = q
        /\ OutCoins(plan) = {o[1] : o \in {<<Out(op, 1), 1>>}}
    BY <1>1, <1>2, <2>1, <2>3, TsAssumption DEF Plan, TsPlans, OutCoins
  <2>5. q # 0
    BY <1>7 DEF UsesQuote
  <2> QED BY <1>1, <1>7, <2>2, <2>4, <2>5, OutMade DEF NewPlanOK, PlanOK
<1>8. CASE kindOf[op] = "restore"
  <2> DEFINE outs == {<<<<worker[op].seed, k>>, 0>> :
                       k \in {j \in 0 .. MaxRanges - 1 : j < nextCounter[seed] + RestoreGap}}
  <2>1. plan = Plan(op, {}, outs, NoToken, 0) /\ q = 0
    BY <1>8 DEF PreparedPlans, RestorePlan, Transfer, UsesQuote
  <2>2. worker[op].seed \in Seeds
    BY <1>1 DEF TypesOK, WorkerStates
  <2>3. outs \in SUBSET (SeedCoins \X Int)
    BY <2>2 DEF SeedCoins
  <2> HIDE DEF outs
  <2>4. /\ plan \in TsPlans /\ plan.op = op /\ plan.epoch = epoch /\ plan.kind = kindOf[op]
        /\ plan.inputs = {} /\ plan.quote = q
    BY <1>1, <2>1, <2>3, TsAssumption DEF Plan, TsPlans, OutCoins
  <2> QED BY <1>1, <1>8, <2>4 DEF NewPlanOK, PlanOK
<1>9. CASE kindOf[op] = "reconcile"
  <2> DEFINE target == recs[Target].plan
  <2>1. /\ plan = Plan(op, target.inputs, {}, NoToken, 0) /\ q = 0
        /\ target # NoPlan
    BY <1>9 DEF PreparedPlans, ReconcilePlans, Transfer, UsesQuote
  <2>2. target.inputs \in SUBSET Coins
    BY <1>1, <2>1, TsAssumption DEF Records, TsPlans
  <2>3. /\ plan \in TsPlans /\ plan.op = op /\ plan.epoch = epoch /\ plan.kind = kindOf[op]
        /\ plan.inputs = target.inputs /\ plan.outs = {} /\ plan.quote = q
        /\ OutCoins(plan) = {o[1] : o \in {}}
    BY <1>1, <2>1, <2>2, TsAssumption DEF Plan, TsPlans, OutCoins
  <2>4. PlanOK(op, plan)
    <3>1. plan.kind = "reconcile" /\ plan.epoch <= epoch
      BY <1>1, <1>9, <2>3
    <3> QED BY <2>3, <3>1 DEF PlanOK
  <2>5. plan.epoch = epoch /\ plan.quote = q /\ OutCoins(plan) = {}
    BY <2>3
  <2> QED BY <2>1, <2>3, <2>4, <2>5 DEF NewPlanOK
<1> QED BY <1>1, <1>4, <1>5, <1>6, <1>7, <1>8, <1>9 DEF Kinds, Transfer

-----------------------------------------------------------------------------
(* The types are kept.                                                      *)

\* Only the given operation's worker and row move.
Alone(op) == \A o \in TsOps \ {op} : worker'[o] = worker[o] /\ recs'[o] = recs[o]

\* A worker has concluded what the mint did.
LEMMA Concluding ==
  ASSUME TypesOK, NEW op \in TsOps, NEW result, NEW how \in Mechanisms,
         GoodResult(op, worker[op].rec.plan, result), AfterResult(op, result, how)
  PROVE  /\ worker' \in [TsOps -> WorkerStates]
         /\ \A o \in TsOps \ {op} : worker'[o] = worker[o]
         /\ worker'[op].rec = worker[op].rec
         /\ worker'[op].pc \in {"handoff", "finish"}
         /\ GoodResult(op, worker[op].rec.plan, worker'[op].result)
         /\ worker'[op].result.status = "succeeded" =>
               /\ result.status = "succeeded"
               /\ worker[op].rec.plan.give # NoToken => worker'[op].pc = "handoff"
<1> DEFINE plan == worker[op].rec.plan
           kept == [Observed(worker[op].rec, result) EXCEPT !.how = how]
<1>1. /\ GoodResult(op, plan, kept)
      /\ kept.status = "succeeded" => result.status = "succeeded"
  BY ObservedGood
<1>2. kept \in Results
  BY <1>1 DEF GoodResult
<1> DEFINE pc == IF kept.status = "succeeded" /\ plan.give # NoToken
                 THEN "handoff" ELSE "finish"
<1>3. worker' = [worker EXCEPT ![op].pc = pc, ![op].result = kept] /\ pc \in Pcs
  BY DEF AfterResult, Pcs
<1> HIDE DEF kept, pc
<1>4. /\ worker' \in [TsOps -> WorkerStates]
      /\ \A o \in TsOps \ {op} : worker'[o] = worker[o]
      /\ worker'[op].rec = worker[op].rec /\ worker'[op].result = kept
      /\ worker'[op].pc = pc
  BY ZenonT(40), <1>2, <1>3 DEF TypesOK, WorkerStates
<1> QED BY <1>1, <1>4 DEF pc

\* The steps at which a worker learns what the mint did.
Concludes(op) == Return(op) \/ ReplayRequest(op) \/ TsDecide(op)

\* The result a worker may conclude.
Conclusion(op, result) ==
    \/ result \in SubmitResults(op, worker[op].rec.plan)
    \/ worker[op].pc = "decide" /\ result \in RecoverResults(op, worker[op].rec.plan)

LEMMA Concluded ==
  ASSUME TypesOK, RowsOK, QuotesOK, NEW op \in TsOps, Concludes(op)
  PROVE  /\ worker' \in [TsOps -> WorkerStates] /\ recs' = recs /\ Alone(op)
         /\ worker[op].pc \in Past /\ worker'[op].pc \in {"handoff", "finish"}
         /\ worker'[op].rec = worker[op].rec
         /\ GoodResult(op, worker[op].rec.plan, worker'[op].result)
         /\ worker'[op].result.status = "succeeded" =>
               /\ \E result : Conclusion(op, result) /\ result.status = "succeeded"
               /\ worker[op].rec.plan.give # NoToken => worker'[op].pc = "handoff"
<1> DEFINE plan == worker[op].rec.plan
<1>1. /\ worker[op].pc \in {"wait", "replay", "decide"} /\ worker[op].pc \in Past
      /\ recs' = recs
  BY DEF Concludes, Return, ReplayRequest, TsDecide, At, Past, journal
<1>2. PlanOK(op, plan) /\ plan \in TsPlans /\ plan.kind = kindOf[op]
  BY <1>1 DEF RowsOK, WorkOK, PlanOK
<1>3. plan \in Planned
  BY <1>1 DEF Planned, Journaled, Held
<1>4. /\ plan.quote \in 1 .. MaxQuotes \/ plan.kind # "melt"
      /\ plan.kind = "melt" => quotes[plan.quote] \in {"UNPAID", "PENDING", "PAID"}
  BY <1>2, <1>3 DEF QuotesOK, PlanOK
<1>5. \E how \in Mechanisms : \E r : Conclusion(op, r) /\ AfterResult(op, r, how)
  BY DEF Concludes, Return, ReplayRequest, TsDecide, Conclusion, At, Mechanisms
<1>6. PICK how \in Mechanisms : \E r : Conclusion(op, r) /\ AfterResult(op, r, how)
  BY <1>5
<1>7. PICK result : Conclusion(op, result) /\ AfterResult(op, result, how)
  BY <1>6
<1>8. GoodResult(op, plan, result)
  BY <1>2, <1>4, <1>7, SubmitGood, RecoverGood DEF Conclusion
<1> QED BY <1>1, <1>7, <1>8, Concluding DEF Alone

-----------------------------------------------------------------------------
(* What a step may do to the rows and the workers.                          *)

Resting == recs' = recs /\ worker' = worker /\ epoch' = epoch

Creates(op) ==
    /\ worker' = worker /\ epoch' = epoch /\ Alone(op)
    /\ recs[op] = NoRec /\ recs'[op] = Created /\ kindOf[op] # "none"

Enters(op) ==
    /\ epoch' = epoch /\ Alone(op) /\ worker[op].pc = "idle"
    /\ worker'[op].rec = recs'[op] /\ recs'[op].plan = recs[op].plan
    /\ \/ /\ recs[op].phase = "created" /\ recs'[op] = recs[op]
          /\ worker'[op].pc = "prepare" /\ worker'[op].ranges = <<>>
       \/ /\ recs[op].phase \in Running /\ recs'[op].phase \in Running
          /\ worker'[op].pc \in Past \ {"handoff", "finish"}

Prepares(op) ==
    /\ recs' = recs /\ epoch' = epoch /\ Alone(op)
    /\ worker[op].pc \in Early /\ worker'[op].pc = "reserve"
    /\ worker'[op].seed # NoSeed

Plans(op) ==
    /\ recs' = recs /\ epoch' = epoch /\ Alone(op)
    /\ worker[op].pc = "reserve" /\ worker'[op].pc = "prepared"
    /\ NewPlanOK(op, worker'[op].rec.plan, worker'[op].rec.plan.quote)

Commits(op) ==
    /\ epoch' = epoch /\ Alone(op)
    /\ worker[op].pc = "prepared" /\ worker'[op].pc = "put_submitted"
    /\ recs'[op] = worker'[op].rec /\ recs'[op].phase = "prepared"
    /\ worker'[op].rec.plan = worker[op].rec.plan

Writes(op) ==
    /\ epoch' = epoch /\ Alone(op)
    /\ worker[op].pc \in Past /\ worker'[op].pc \in Past \ {"handoff", "finish"}
    /\ recs'[op] = worker'[op].rec /\ recs'[op].phase \in Running
    /\ worker'[op].rec.plan = worker[op].rec.plan

Works(op) ==
    /\ recs' = recs /\ epoch' = epoch /\ Alone(op)
    /\ worker[op].pc \in Past /\ worker'[op].pc \in Past
    /\ worker'[op].rec = worker[op].rec

Finishes(op) ==
    /\ epoch' = epoch /\ Alone(op)
    /\ worker[op].pc = "finish" /\ worker'[op] = Idle
    /\ recs'[op].plan = worker[op].rec.plan
    /\ recs'[op].phase \in (Running \cup Terminal) \ {"prepared"}
    /\ recs'[op].phase = "succeeded" <=> worker[op].result.status = "succeeded"

Drops ==
    /\ recs' = recs /\ epoch' = epoch
    /\ \A o \in TsOps : worker'[o] \in {worker[o], Idle}

Restarts ==
    /\ worker' = worker /\ epoch' = epoch + 1
    /\ recs' = [op \in TsOps |-> NoRec]

RowsTyped == recs' \in [TsOps -> Records] /\ worker' \in [TsOps -> WorkerStates]

\* A step of one operation's own.
Steps(op) ==
    \/ Creates(op) \/ Enters(op) \/ Prepares(op) \/ Plans(op) \/ Commits(op)
    \/ Writes(op) \/ Works(op) \/ Finishes(op)

LEMMA StepsAlone ==
  ASSUME NEW op \in TsOps, Steps(op)
  PROVE  Alone(op) /\ epoch' = epoch
<1>1. CASE Creates(op) \/ Enters(op)
  BY <1>1 DEF Creates, Enters
<1>2. CASE Prepares(op) \/ Plans(op) \/ Commits(op)
  BY <1>2 DEF Prepares, Plans, Commits
<1>3. CASE Writes(op) \/ Works(op) \/ Finishes(op)
  BY <1>3 DEF Writes, Works, Finishes
<1> QED BY <1>1, <1>2, <1>3 DEF Steps

LEMMA OtherRows ==
  ASSUME NEW op \in TsOps, NEW o \in TsOps, op # o, Steps(op)
  PROVE  recs'[o] = recs[o] /\ worker'[o] = worker[o] /\ epoch' = epoch
  BY StepsAlone DEF Alone

LEMMA RowConstants ==
  /\ Idle.pc = "idle" /\ NoRec.phase = "absent" /\ NoRec.plan = NoPlan
  /\ Created.phase = "created" /\ Created.plan = NoPlan
  BY DEF Idle, NoRec, Created

LEMMA RowTypes ==
  ASSUME TypesOK
  PROVE  /\ worker \in [TsOps -> WorkerStates] /\ recs \in [TsOps -> Records]
         /\ \A op \in TsOps : worker[op].rec \in Records /\ worker[op] \in WorkerStates
  BY DEF TypesOK, JournalTypes, WorkerStates

\* One worker moves; the rows stay, or its row is written.
LEMMA WorkerUpdate ==
  ASSUME TypesOK, NEW op \in TsOps, NEW v \in WorkerStates,
         worker' = [worker EXCEPT ![op] = v]
  PROVE  /\ worker' \in [TsOps -> WorkerStates] /\ worker'[op] = v
         /\ \A o \in TsOps \ {op} : worker'[o] = worker[o]
         /\ recs' = recs => Alone(op) /\ RowsTyped
  BY RowTypes DEF Alone, RowsTyped

LEMMA RecordUpdate ==
  ASSUME TypesOK, NEW op \in TsOps, NEW v \in WorkerStates,
         worker' = [worker EXCEPT ![op] = v],
         \E rec \in Records : recs' = [recs EXCEPT ![op] = rec]
  PROVE  /\ worker'[op] = v /\ Alone(op) /\ RowsTyped
         /\ \A rec : recs' = [recs EXCEPT ![op] = rec] => recs'[op] = rec
  BY RowTypes DEF Alone, RowsTyped

LEMMA BeginMoves ==
  ASSUME TypesOK, RowsOK, NEW op \in TsOps, Begin(op)
  PROVE  Enters(op) /\ RowsTyped
<1> DEFINE rec == recs[op]
<1>1. rec \in Records /\ RecOK(op) /\ rec # NoRec /\ rec.phase \notin Terminal /\ epoch' = epoch
  BY DEF TypesOK, JournalTypes, RowsOK, Begin
<1>2. rec.phase \in {"created", "prepared", "submitted", "ambiguous", "reconciling"}
  BY <1>1 DEF RecOK, Records, LifecyclePhases, Terminal
<1> DEFINE next == CASE rec.phase = "prepared"  -> "submitted"
                     [] rec.phase = "submitted" -> "ambiguous"
                     [] rec.phase \in {"ambiguous", "reconciling"} -> "reconciling"
                     [] OTHER -> rec.phase
           now == [rec EXCEPT !.phase = next]
           pc == CASE next = "created"     -> "prepare"
                   [] next = "submitted"   -> "dispatch"
                   [] next = "ambiguous"   -> "ambiguous"
                   [] next = "reconciling" -> "recover"
           mine == [Idle EXCEPT !.rec = now, !.pc = pc]
<1>3. /\ recs' = [recs EXCEPT ![op] = now] /\ At(op, "idle")
      /\ worker' = [worker EXCEPT ![op] = mine]
  BY DEF Begin
<1>4. \/ rec.phase = "created" /\ next = "created"
      \/ rec.phase \in Running /\ next \in {"submitted", "ambiguous", "reconciling"}
  BY <1>2 DEF Running
<1>5. \/ next = "created" /\ pc = "prepare"
      \/ next # "created" /\ pc \in {"dispatch", "ambiguous", "recover"}
  BY <1>4
<1> HIDE DEF next, pc
<1>6. /\ now \in Records /\ now.phase = next /\ now.plan = rec.plan
      /\ next = rec.phase => now = rec
  BY <1>1, <1>4 DEF Records, LifecyclePhases
<1> HIDE DEF now
<1>7. mine \in WorkerStates /\ mine.rec = now /\ mine.pc = pc /\ mine.ranges = <<>>
  BY <1>5, <1>6, ConstantTypes DEF Idle, WorkerStates, Pcs
<1> HIDE DEF mine
<1>8. /\ RowsTyped /\ Alone(op) /\ recs'[op] = now /\ worker'[op] = mine
  BY <1>3, <1>6, <1>7 DEF TypesOK, JournalTypes, RowsTyped, Alone
<1> QED BY <1>1, <1>3, <1>4, <1>5, <1>6, <1>7, <1>8 DEF Enters, At, Past, Running

LEMMA WriteMoves ==
  ASSUME TypesOK, RowsOK, NEW op \in TsOps, TsPutReconciling(op) \/ TsPutSubmitted(op)
  PROVE  Writes(op) /\ RowsTyped
<1> DEFINE phase == IF At(op, "ambiguous") THEN "reconciling" ELSE "submitted"
           pc == IF At(op, "ambiguous") THEN "recover" ELSE "dispatch"
           rec == [worker[op].rec EXCEPT !.phase = phase]
<1>1. /\ recs' = [recs EXCEPT ![op] = rec] /\ epoch' = epoch
      /\ worker' = [worker EXCEPT ![op].pc = pc, ![op].rec = rec]
      /\ worker[op].pc \in {"ambiguous", "put_submitted"}
  BY DEF TsPutReconciling, TsPutSubmitted, Put, At
<1>2. phase \in {"reconciling", "submitted"} /\ pc \in {"recover", "dispatch"}
  OBVIOUS
<1> HIDE DEF phase, pc
<1>3. rec \in Records /\ rec.phase = phase /\ rec.plan = worker[op].rec.plan
  BY <1>2 DEF TypesOK, WorkerStates, Records, LifecyclePhases
<1> HIDE DEF rec
<1> DEFINE mine == [worker[op] EXCEPT !.pc = pc, !.rec = rec]
<1>r. recs' = [recs EXCEPT ![op] = rec]
  BY <1>1
<1>4. worker' = [worker EXCEPT ![op] = mine]
  BY <1>1, RowTypes
<1>5. pc \in Pcs
  BY <1>2 DEF Pcs
<1>6. mine \in WorkerStates /\ mine.rec = rec /\ mine.pc = pc
  BY <1>3, <1>5, RowTypes DEF WorkerStates
<1> HIDE DEF mine
<1>7. RowsTyped /\ Alone(op) /\ recs'[op] = rec /\ worker'[op] = mine
  BY <1>r, <1>3, <1>4, <1>6, RecordUpdate
<1> QED BY <1>1, <1>2, <1>3, <1>6, <1>7 DEF Writes, Past, Running

LEMMA WorkMoves ==
  ASSUME TypesOK, RowsOK, QuotesOK, NEW op \in TsOps,
         Dispatch(op) \/ PutSendHandoff(op) \/ StartRecover(op) \/ Concludes(op)
  PROVE  /\ Works(op) /\ RowsTyped
         /\ Dispatch(op) \/ StartRecover(op) => worker'[op].pc \notin {"handoff", "finish"}
         /\ PutSendHandoff(op) => worker[op].pc = "handoff" /\ worker'[op].pc = "finish"
                                 /\ worker'[op].result = worker[op].result
<1>1. CASE Concludes(op)
  <2>1. epoch' = epoch
    BY <1>1 DEF Concludes, Return, ReplayRequest, TsDecide, journal
  <2>2. ~ Dispatch(op) /\ ~ StartRecover(op) /\ ~ PutSendHandoff(op)
    BY <1>1 DEF Concludes, Return, ReplayRequest, TsDecide, Dispatch, StartRecover,
                PutSendHandoff, At
  <2> QED BY <1>1, <2>1, <2>2, Concluded DEF Works, RowsTyped, Past, TypesOK, JournalTypes
<1>2. CASE Dispatch(op) \/ PutSendHandoff(op) \/ StartRecover(op)
  <2>1. \E pc \in {"wait", "finish", "replay", "decide"} :
           /\ TsGoto(op, pc)
           /\ pc = "finish" <=> worker[op].pc = "handoff"
    BY <1>2 DEF Dispatch, PutSendHandoff, StartRecover, At
  <2>2. recs' = recs /\ epoch' = epoch /\ worker[op].pc \in {"dispatch", "handoff", "recover"}
    BY <1>2 DEF Dispatch, PutSendHandoff, StartRecover, At, journal
  <2>3. PICK pc \in {"wait", "finish", "replay", "decide"} :
           /\ TsGoto(op, pc)
           /\ pc = "finish" <=> worker[op].pc = "handoff"
    BY <2>1
  <2>4. /\ worker' \in [TsOps -> WorkerStates] /\ worker'[op].pc = pc
        /\ worker'[op].rec = worker[op].rec /\ Alone(op)
        /\ worker'[op].result = worker[op].result
    BY <2>2, <2>3 DEF TsGoto, TypesOK, WorkerStates, Pcs, Alone
  <2>5. /\ Dispatch(op) \/ StartRecover(op) => worker[op].pc # "handoff"
        /\ PutSendHandoff(op) => worker[op].pc = "handoff"
    BY DEF Dispatch, StartRecover, PutSendHandoff, At
  <2> QED BY <2>2, <2>3, <2>4, <2>5 DEF Works, RowsTyped, Past, TypesOK, JournalTypes
<1> QED BY <1>1, <1>2

LEMMA PrepareMoves ==
  ASSUME TypesOK, RowsOK, NEW op \in TsOps, StartPrepare(op) \/ ReserveCounterRange(op)
  PROVE  Prepares(op) /\ RowsTyped
<1>1. CASE StartPrepare(op)
  <2>1. /\ worker' = [worker EXCEPT ![op].pc = "reserve", ![op].seed = client]
        /\ client \in Seeds /\ recs' = recs /\ epoch' = epoch /\ worker[op].pc = "prepare"
    BY <1>1 DEF StartPrepare, HasClient, At, journal, TypesOK, CounterTypes
  <2> DEFINE mine == [worker[op] EXCEPT !.pc = "reserve", !.seed = client]
  <2>2. worker' = [worker EXCEPT ![op] = mine]
    BY <2>1, RowTypes
  <2>3. "reserve" \in Pcs
    BY DEF Pcs
  <2>4. mine \in WorkerStates /\ mine.pc = "reserve" /\ mine.seed = client
    BY <2>1, <2>3, RowTypes DEF WorkerStates
  <2> HIDE DEF mine
  <2>5. RowsTyped /\ Alone(op) /\ worker'[op] = mine
    BY <2>1, <2>2, <2>4, WorkerUpdate
  <2> QED BY <2>1, <2>4, <2>5, TsAssumption DEF Prepares, Early
<1>2. CASE ReserveCounterRange(op)
  <2>1. PICK start : /\ worker' = [worker EXCEPT ![op].ranges = Append(worker[op].ranges, start)]
                     /\ start \in 0 .. MaxRanges - 1
    <3> DEFINE id == <<seed, epoch, op, Purposes(kindOf[op])[Len(worker[op].ranges) + 1]>>
               known == {r \in reservations : r.id = id}
               start == IF known # {} THEN (CHOOSE r \in known : TRUE).start
                        ELSE nextCounter[seed]
    <3>1. /\ worker' = [worker EXCEPT ![op].ranges = Append(worker[op].ranges, start)]
          /\ start < MaxRanges
      BY <1>2 DEF ReserveCounterRange
    <3>2. start \in Nat
      <4>1. CASE known = {}
        BY <4>1 DEF TypesOK, CounterTypes, JournalTypes
      <4>2. CASE known # {}
        <5>1. (CHOOSE r \in known : TRUE) \in reservations
          BY <4>2
        <5> QED BY <4>2, <5>1 DEF TypesOK, CounterTypes
      <4> QED BY <4>1, <4>2
    <3> HIDE DEF start
    <3>3. start \in 0 .. MaxRanges - 1
      BY <3>1, <3>2, TsAssumption
    <3> QED BY <3>1, <3>3
  <2>2. /\ recs' = recs /\ epoch' = epoch /\ worker[op].pc = "reserve"
        /\ worker[op].seed # NoSeed
    BY <1>2 DEF ReserveCounterRange, At, journal, RowsOK, WorkOK
  <2>3. Append(worker[op].ranges, start) \in RangeLists
    BY <2>1, RowTypes DEF WorkerStates, RangeLists
  <2> DEFINE mine == [worker[op] EXCEPT !.ranges = Append(worker[op].ranges, start)]
  <2>4. mine \in WorkerStates /\ mine.pc = worker[op].pc /\ mine.seed = worker[op].seed
    BY <2>3, RowTypes DEF WorkerStates
  <2>5. worker' = [worker EXCEPT ![op] = mine]
    BY <2>1
  <2> HIDE DEF mine
  <2>6. RowsTyped /\ Alone(op) /\ worker'[op] = mine
    BY <2>2, <2>4, <2>5, WorkerUpdate
  <2> QED BY <2>2, <2>4, <2>6 DEF Prepares, Early
<1> QED BY <1>1, <1>2

LEMMA PlanMoves ==
  ASSUME TypesOK, RowsOK, NEW op \in TsOps, TsPrepare(op)
  PROVE  /\ Plans(op) /\ RowsTyped
         /\ worker'[op].rec.plan.quote = 0 => quotes' = quotes
         /\ worker'[op].rec.plan.quote # 0 =>
               LET q == worker'[op].rec.plan.quote
               IN  /\ q \in 1 .. MaxQuotes /\ quotes[q] = "none"
                   /\ quotes' = [quotes EXCEPT ![q] = QuoteState(kindOf[op])]
<1>1. PICK q \in IF UsesQuote(kindOf[op]) THEN 1 .. MaxQuotes ELSE {0} :
        /\ IF q = 0 THEN UNCHANGED quotes
           ELSE /\ quotes[q] = "none"
                /\ quotes' = [quotes EXCEPT ![q] = QuoteState(kindOf[op])]
        /\ \E plan \in PreparedPlans(op, q) :
             worker' = [worker EXCEPT ![op].pc = "prepared", ![op].rec.plan = plan]
  BY DEF TsPrepare
<1>2. PICK plan \in PreparedPlans(op, q) :
        worker' = [worker EXCEPT ![op].pc = "prepared", ![op].rec.plan = plan]
  BY <1>1
<1>3. /\ At(op, "reserve") /\ Len(worker[op].ranges) = Len(Purposes(kindOf[op]))
      /\ recs' = recs /\ epoch' = epoch
  BY DEF TsPrepare, journal
<1>4. NewPlanOK(op, plan, q)
  BY <1>3, PreparedOK
<1>5. plan \in TsPlans /\ plan.quote = q
  BY <1>4 DEF NewPlanOK, PlanOK
<1> DEFINE rec == [worker[op].rec EXCEPT !.plan = plan]
           mine == [worker[op] EXCEPT !.pc = "prepared", !.rec = rec]
<1>6. worker' = [worker EXCEPT ![op] = mine]
  BY <1>2, RowTypes DEF WorkerStates
<1>7. rec \in Records /\ rec.plan = plan /\ "prepared" \in Pcs
  BY <1>5, RowTypes DEF Records, Pcs
<1> HIDE DEF rec
<1>8. mine \in WorkerStates /\ mine.pc = "prepared" /\ mine.rec = rec
  BY <1>7, RowTypes DEF WorkerStates
<1> HIDE DEF mine
<1>9. RowsTyped /\ Alone(op) /\ worker'[op] = mine
  BY <1>3, <1>6, <1>8, WorkerUpdate
<1>10. Plans(op) /\ worker'[op].rec.plan = plan
  BY <1>3, <1>4, <1>5, <1>7, <1>8, <1>9 DEF Plans, At
<1> QED BY <1>1, <1>5, <1>9, <1>10

LEMMA CommitMoves ==
  ASSUME TypesOK, RowsOK, NEW op \in TsOps, CommitPrepared(op)
  PROVE  Commits(op) /\ RowsTyped
<1> DEFINE rec == [worker[op].rec EXCEPT !.phase = "prepared"]
<1>1. /\ recs' = [recs EXCEPT ![op] = rec] /\ epoch' = epoch
      /\ worker' = [worker EXCEPT ![op].pc = "put_submitted", ![op].rec = rec]
      /\ worker[op].pc = "prepared"
  BY DEF CommitPrepared, Commit, At
<1>2. rec \in Records /\ rec.phase = "prepared" /\ rec.plan = worker[op].rec.plan
  BY DEF TypesOK, WorkerStates, Records, LifecyclePhases
<1> HIDE DEF rec
<1> DEFINE mine == [worker[op] EXCEPT !.pc = "put_submitted", !.rec = rec]
<1>r. recs' = [recs EXCEPT ![op] = rec]
  BY <1>1
<1>3. worker' = [worker EXCEPT ![op] = mine]
  BY <1>1, RowTypes
<1>4. "put_submitted" \in Pcs
  BY DEF Pcs
<1>5. mine \in WorkerStates /\ mine.rec = rec /\ mine.pc = "put_submitted"
  BY <1>2, <1>4, RowTypes DEF WorkerStates
<1> HIDE DEF mine
<1>6. RowsTyped /\ Alone(op) /\ recs'[op] = rec /\ worker'[op] = mine
  BY <1>r, <1>2, <1>3, <1>5, RecordUpdate
<1> QED BY <1>1, <1>2, <1>5, <1>6 DEF Commits

LEMMA FinishMoves ==
  ASSUME TypesOK, RowsOK, ResultsOK, NEW op \in TsOps, TsFinish(op)
  PROVE  Finishes(op) /\ RowsTyped
<1> DEFINE w == worker[op]
           mark == IF w.rec.phase = "reconciling" /\ w.result.status = "ambiguous"
                   THEN w.result.how ELSE w.rec.mark
           phase == ResultPhase(w.rec.phase, w.result.status)
           rec == [w.rec EXCEPT !.phase = phase, !.seen = w.result.seen, !.mark = mark]
<1>1. /\ worker' = [worker EXCEPT ![op] = Idle] /\ worker[op].pc = "finish"
      /\ epoch' = epoch
  BY DEF TsFinish, At
<1>r. recs' = [recs EXCEPT ![op] = rec]
  BY RowTypes DEF TsFinish, Commit, Records
<1>2. w.result \in Results /\ w.result.status \in Statuses /\ w.rec.phase \in Running
  BY <1>1 DEF ResultsOK, GoodResult, RowsOK, WorkOK, Past, Results
<1>3. /\ phase \in {"succeeded", "ambiguous", "reconciling", "recovery_blocked"}
      /\ phase = "succeeded" <=> w.result.status = "succeeded"
  BY <1>2 DEF ResultPhase, Statuses
<1>4. mark \in Mechanisms /\ w.result.seen \in Int
  BY <1>2, RowTypes DEF Results, Records
<1> HIDE DEF mark, phase
<1>5. rec \in Records /\ rec.phase = phase /\ rec.plan = w.rec.plan
  BY <1>3, <1>4, RowTypes DEF Records, LifecyclePhases
<1> HIDE DEF rec
<1>6. RowsTyped /\ Alone(op) /\ recs'[op] = rec /\ worker'[op] = Idle
  BY <1>r, <1>1, <1>5, ConstantTypes, RecordUpdate
<1> QED BY <1>1, <1>3, <1>5, <1>6 DEF Finishes, Running, Terminal

\* A throwing call: recover goes on from what replay threw, anything else ends.
LEMMA ThrowMoves ==
  ASSUME TypesOK, RowsOK, NEW op \in TsOps, Throw(op)
  PROVE  /\ Drops \/ (Works(op) /\ worker'[op].pc = "decide")
         /\ RowsTyped /\ Alone(op)
<1> DEFINE w == worker[op]
           replaying == \/ w.pc = "replay"
                        \/ w.pc = "handoff" /\ w.result.how = "nut19_replay"
           mine == [w EXCEPT !.pc = "decide", !.result = NoPlan]
<1>1. /\ worker' = [worker EXCEPT ![op] = IF replaying THEN mine ELSE Idle]
      /\ recs' = recs /\ epoch' = epoch
  BY DEF Throw, journal
<1>2. mine \in WorkerStates /\ mine.pc = "decide" /\ mine.rec = w.rec
  <2>1. "decide" \in Pcs
    BY DEF Pcs
  <2> QED BY <2>1, RowTypes DEF WorkerStates
<1>3. replaying => w.pc \in Past
  BY DEF Past
<1> HIDE DEF mine
<1>4. CASE replaying
  <2>1. RowsTyped /\ Alone(op) /\ worker'[op] = mine
    BY <1>1, <1>2, <1>4, WorkerUpdate
  <2> QED BY <1>1, <1>2, <1>3, <1>4, <2>1 DEF Works, Past
<1>5. CASE ~ replaying
  <2>1. worker' = [worker EXCEPT ![op] = Idle]
    BY <1>1, <1>5
  <2>2. RowsTyped /\ Alone(op) /\ worker'[op] = Idle
    BY <1>1, <2>1, ConstantTypes, WorkerUpdate
  <2> QED BY <1>1, <2>2 DEF Drops, Alone
<1> QED BY <1>4, <1>5

\* The steps that touch neither rows nor workers.
Aside ==
    \/ \E op \in TsOps : LoadSeed(op) \/ CacheClient(op) \/ Redeem(op)
    \/ \E op \in TsOps : \E k \in Readers : ClaimSendHandoff(k, op) \/ AckSendHandoff(k, op)
    \/ ResetWallet
    \/ \E plan \in net : TsMintExecutes(plan) \/ MintDrops(plan)
    \/ \E plan \in done : MeltSettles(plan)

LEMMA Shapes ==
  ASSUME TypesOK, RowsOK, ResultsOK, QuotesOK, [TsNext]_tsVars
  PROVE  /\ RowsTyped
         /\ \/ Resting \/ Drops \/ Restarts
            \/ \E op \in TsOps :
                 \/ Creates(op) \/ Enters(op)
                 \/ (StartPrepare(op) \/ ReserveCounterRange(op)) /\ Prepares(op)
                 \/ TsPrepare(op) /\ Plans(op)
                 \/ CommitPrepared(op) /\ Commits(op)
                 \/ Writes(op)
                 \/ Works(op) /\ worker'[op].pc \notin {"handoff", "finish"}
                 \/ Works(op) /\ Concludes(op)
                 \/ Works(op) /\ PutSendHandoff(op)
                 \/ TsFinish(op) /\ Finishes(op)
<1>1. CASE UNCHANGED tsVars \/ Aside
  <2>1. recs' = recs /\ worker' = worker /\ epoch' = epoch
    BY <1>1 DEF tsVars, Aside, LoadSeed, CacheClient, Redeem, ClaimSendHandoff,
       AckSendHandoff, ResetWallet, TsMintExecutes, MintDrops, MeltSettles, journal
  <2> QED BY <2>1, RowTypes DEF Resting, RowsTyped
<1>2. CASE TsCrash
  <2>1. worker' = [op \in TsOps |-> Idle] /\ recs' = recs /\ epoch' = epoch
    BY <1>2 DEF TsCrash, journal
  <2> QED BY <2>1, RowTypes, ConstantTypes DEF Drops, RowsTyped
<1>3. CASE \E s \in Seeds : TsResetStore(s)
  <2>1. worker' = worker /\ recs' = [op \in TsOps |-> NoRec] /\ epoch' = epoch + 1
    BY <1>3 DEF TsResetStore
  <2> QED BY <2>1, RowTypes, ConstantTypes DEF Restarts, RowsTyped
<1>4. ASSUME NEW op \in TsOps, Create(op)
      PROVE  Creates(op) /\ RowsTyped
  <2>1. /\ recs' = [recs EXCEPT ![op] = Created] /\ worker' = worker /\ epoch' = epoch
        /\ recs[op] = NoRec /\ kindOf[op] # "none"
    BY <1>4 DEF Create
  <2> QED BY <2>1, RowTypes, ConstantTypes DEF Creates, RowsTyped, Alone
<1>5. ASSUME NEW op \in TsOps,
             \/ Create(op) \/ Begin(op) \/ TsPutReconciling(op)
             \/ StartPrepare(op) \/ ReserveCounterRange(op) \/ TsPrepare(op)
             \/ CommitPrepared(op) \/ TsPutSubmitted(op) \/ Dispatch(op)
             \/ PutSendHandoff(op) \/ TsFinish(op) \/ StartRecover(op)
             \/ Concludes(op) \/ Throw(op)
      PROVE  /\ RowsTyped
             /\ \/ Drops
                \/ Creates(op) \/ Enters(op)
                \/ (StartPrepare(op) \/ ReserveCounterRange(op)) /\ Prepares(op)
                \/ TsPrepare(op) /\ Plans(op)
                \/ CommitPrepared(op) /\ Commits(op)
                \/ Writes(op)
                \/ Works(op) /\ worker'[op].pc \notin {"handoff", "finish"}
                \/ Works(op) /\ Concludes(op)
                \/ Works(op) /\ PutSendHandoff(op)
                \/ TsFinish(op) /\ Finishes(op)
  BY <1>4, <1>5, BeginMoves, WriteMoves, WorkMoves, PrepareMoves, PlanMoves,
     CommitMoves, FinishMoves, ThrowMoves
<1>6. \/ UNCHANGED tsVars \/ Aside \/ TsCrash \/ \E s \in Seeds : TsResetStore(s)
      \/ \E op \in TsOps :
             \/ Create(op) \/ Begin(op) \/ TsPutReconciling(op)
             \/ StartPrepare(op) \/ ReserveCounterRange(op) \/ TsPrepare(op)
             \/ CommitPrepared(op) \/ TsPutSubmitted(op) \/ Dispatch(op)
             \/ PutSendHandoff(op) \/ TsFinish(op) \/ StartRecover(op)
             \/ Concludes(op) \/ Throw(op)
  BY DEF TsNext, Aside, Concludes
<1> QED BY <1>1, <1>2, <1>3, <1>5, <1>6

\* The step, seen from one operation: it is its own, or leaves its row and worker.
LEMMA RowCases ==
  ASSUME TypesOK, RowsOK, ResultsOK, QuotesOK, [TsNext]_tsVars, NEW o \in TsOps
  PROVE  \/ Resting \/ Drops \/ Restarts
         \/ recs'[o] = recs[o] /\ worker'[o] = worker[o] /\ epoch' = epoch
         \/ Creates(o) \/ Enters(o)
         \/ (StartPrepare(o) \/ ReserveCounterRange(o)) /\ Prepares(o)
         \/ TsPrepare(o) /\ Plans(o)
         \/ Commits(o) \/ Writes(o)
         \/ Works(o) /\ worker'[o].pc \notin {"handoff", "finish"}
         \/ Works(o) /\ (Concludes(o) \/ PutSendHandoff(o))
         \/ TsFinish(o) /\ Finishes(o)
<1>1. CASE \E op \in TsOps : op # o /\ Steps(op)
  BY <1>1, OtherRows
<1> QED BY <1>1, Shapes DEF Steps

-----------------------------------------------------------------------------
(* What the other variables do.                                             *)

LEMMA Frames ==
  ASSUME [TsNext]_tsVars
  PROVE  /\ kindOf' = kindOf
         /\ \/ proofs' = proofs
            \/ \E op \in TsOps : CommitPrepared(op) \/ TsFinish(op)
            \/ \E s \in Seeds : TsResetStore(s)
         /\ \/ seed' = seed /\ (resetting' \in {resetting, NoSeed}) /\ epoch' = epoch
            \/ \E s \in Seeds : TsResetStore(s)
         /\ \/ handoffs' = handoffs
            \/ \E op \in TsOps : PutSendHandoff(op)
            \/ \E op \in TsOps : \E k \in Readers : ClaimSendHandoff(k, op) \/ AckSendHandoff(k, op)
            \/ \E s \in Seeds : TsResetStore(s)
         /\ \/ nextCounter' = nextCounter /\ reservations' = reservations
            \/ \E op \in TsOps : ReserveCounterRange(op)
         /\ \/ quotes' = quotes
            \/ \E op \in TsOps : TsPrepare(op)
            \/ \E plan \in net : TsMintExecutes(plan)
            \/ \E plan \in done : MeltSettles(plan)
         /\ \/ coin' = coin
            \/ \E op \in TsOps : Redeem(op)
            \/ \E plan \in net : TsMintExecutes(plan)
            \/ \E plan \in done : MeltSettles(plan)
         /\ \/ done' = done
            \/ \E plan \in net : TsMintExecutes(plan)
            \/ \E plan \in done : MeltSettles(plan)
         /\ \/ net' \subseteq net
            \/ \E op \in TsOps : Dispatch(op) \/ StartRecover(op)
<1> USE DEF journal, counters, mintVars
<1>0. CASE UNCHANGED tsVars
  BY <1>0 DEF tsVars
<1>1. ASSUME NEW op \in TsOps, Create(op) \/ Begin(op) \/ TsPutReconciling(op) \/ TsPutSubmitted(op)
      PROVE  UNCHANGED <<kindOf, proofs, seed, epoch, resetting, handoffs, nextCounter,
                         reservations, quotes, coin, done, net>>
  BY <1>1 DEF Create, Begin, TsPutReconciling, TsPutSubmitted
<1>2. ASSUME NEW op \in TsOps, LoadSeed(op) \/ CacheClient(op) \/ StartPrepare(op) \/ Concludes(op) \/ Throw(op)
      PROVE  UNCHANGED <<kindOf, proofs, seed, epoch, resetting, handoffs, nextCounter,
                         reservations, quotes, coin, done, net>>
  BY <1>2 DEF LoadSeed, CacheClient, StartPrepare, Concludes, Return, ReplayRequest, TsDecide, Throw
<1>3. ASSUME NEW op \in TsOps, ReserveCounterRange(op)
      PROVE  UNCHANGED <<kindOf, proofs, seed, epoch, resetting, handoffs, quotes, coin, done, net>>
  BY <1>3 DEF ReserveCounterRange
<1>4. ASSUME NEW op \in TsOps, TsPrepare(op)
      PROVE  UNCHANGED <<kindOf, proofs, seed, epoch, resetting, handoffs, nextCounter,
                         reservations, coin, done, net>>
  BY <1>4 DEF TsPrepare
<1>5. ASSUME NEW op \in TsOps, CommitPrepared(op) \/ TsFinish(op)
      PROVE  UNCHANGED <<kindOf, seed, epoch, resetting, handoffs, nextCounter,
                         reservations, quotes, coin, done, net>>
  BY <1>5 DEF CommitPrepared, TsFinish
<1>6. ASSUME NEW op \in TsOps, Dispatch(op) \/ StartRecover(op)
      PROVE  UNCHANGED <<kindOf, proofs, seed, epoch, resetting, handoffs, nextCounter,
                         reservations, quotes, coin, done>>
  BY <1>6 DEF Dispatch, StartRecover
<1>7. ASSUME NEW op \in TsOps,
             PutSendHandoff(op) \/ \E k \in Readers : ClaimSendHandoff(k, op) \/ AckSendHandoff(k, op)
      PROVE  UNCHANGED <<kindOf, proofs, seed, epoch, resetting, nextCounter,
                         reservations, quotes, coin, done, net>>
  BY <1>7 DEF PutSendHandoff, ClaimSendHandoff, AckSendHandoff
<1>8. ASSUME NEW op \in TsOps, Redeem(op)
      PROVE  UNCHANGED <<kindOf, proofs, seed, epoch, resetting, handoffs, nextCounter,
                         reservations, quotes, done, net>>
  BY <1>8 DEF Redeem
<1>9. ASSUME TsCrash \/ ResetWallet
      PROVE  /\ UNCHANGED <<kindOf, proofs, seed, epoch, handoffs, nextCounter,
                            reservations, quotes, coin, done, net>>
             /\ resetting' = NoSeed
  BY <1>9 DEF TsCrash, ResetWallet
<1>10. ASSUME NEW s \in Seeds, TsResetStore(s)
       PROVE  UNCHANGED <<kindOf, nextCounter, reservations, quotes, coin, done, net>>
  BY <1>10 DEF TsResetStore
<1>11. ASSUME NEW plan \in net, TsMintExecutes(plan) \/ MintDrops(plan)
       PROVE  /\ UNCHANGED <<kindOf, proofs, seed, epoch, resetting, handoffs, nextCounter,
                             reservations>>
              /\ net' \subseteq net
              /\ MintDrops(plan) => UNCHANGED <<quotes, coin, done>>
  BY <1>11 DEF TsMintExecutes, MintDrops
<1>12. ASSUME NEW plan \in done, MeltSettles(plan)
       PROVE  UNCHANGED <<kindOf, proofs, seed, epoch, resetting, handoffs, nextCounter,
                          reservations, net>>
  BY <1>12 DEF MeltSettles
<1>13. \/ UNCHANGED tsVars \/ TsCrash \/ ResetWallet
       \/ \E s \in Seeds : TsResetStore(s)
       \/ \E plan \in net : TsMintExecutes(plan) \/ MintDrops(plan)
       \/ \E plan \in done : MeltSettles(plan)
       \/ \E op \in TsOps :
            \/ Create(op) \/ Begin(op) \/ TsPutReconciling(op) \/ TsPutSubmitted(op)
            \/ LoadSeed(op) \/ CacheClient(op) \/ StartPrepare(op) \/ Concludes(op) \/ Throw(op)
            \/ ReserveCounterRange(op) \/ TsPrepare(op) \/ CommitPrepared(op) \/ TsFinish(op)
            \/ Dispatch(op) \/ StartRecover(op) \/ PutSendHandoff(op) \/ Redeem(op)
            \/ \E k \in Readers : ClaimSendHandoff(k, op) \/ AckSendHandoff(k, op)
  BY DEF TsNext, Concludes
<1>14. CASE \E op \in TsOps :
            \/ Create(op) \/ Begin(op) \/ TsPutReconciling(op) \/ TsPutSubmitted(op)
            \/ LoadSeed(op) \/ CacheClient(op) \/ StartPrepare(op) \/ Concludes(op) \/ Throw(op)
            \/ ReserveCounterRange(op) \/ TsPrepare(op) \/ CommitPrepared(op) \/ TsFinish(op)
            \/ Dispatch(op) \/ StartRecover(op) \/ PutSendHandoff(op) \/ Redeem(op)
            \/ \E k \in Readers : ClaimSendHandoff(k, op) \/ AckSendHandoff(k, op)
  BY <1>14, <1>1, <1>2, <1>3, <1>4, <1>5, <1>6, <1>7, <1>8
<1> QED BY <1>0, <1>9, <1>10, <1>11, <1>12, <1>13, <1>14

LEMMA ApplyTypes ==
  ASSUME TypesOK, NEW add \in Additions, NEW update \in SUBSET Updates
  PROVE  ApplyProofChanges(add, update) \in [Coins -> Proofs]
<1>1. ASSUME NEW c \in Coins
      PROVE  ApplyProofChanges(add, update)[c] \in Proofs
  <2>1. CASE \E u \in update : u.coin = c
    <3> DEFINE u == CHOOSE x \in update : x.coin = c
    <3>1. u \in Updates
      BY <2>1
    <3>2. ApplyProofChanges(add, update)[c] =
            [state |-> u.state, bucket |-> u.bucket,
             by |-> IF u.state = "PENDING" THEN u.by ELSE NoOp]
      BY <2>1 DEF ApplyProofChanges
    <3> HIDE DEF u
    <3> QED BY <3>1, <3>2 DEF Updates, Proofs
  <2>2. CASE ~ \E u \in update : u.coin = c
    <3>1. c \in DOMAIN add => add[c] \in Proofs
      BY DEF Additions
    <3>2. proofs[c] \in Proofs
      BY DEF TypesOK, JournalTypes
    <3> QED BY <2>2, <3>1, <3>2 DEF ApplyProofChanges
  <2> QED BY <2>1, <2>2
<1> QED BY <1>1 DEF ApplyProofChanges

\* What a change of the wallet makes of one proof.
LEMMA Applied ==
  ASSUME NEW add, NEW update, proofs' = ApplyProofChanges(add, update), NEW c \in Coins
  PROVE  \/ \E u \in update : /\ u.coin = c /\ proofs'[c].state = u.state
                              /\ u.state = "PENDING" => proofs'[c].by = u.by
         \/ (\A u \in update : u.coin # c) /\ c \in DOMAIN add /\ proofs'[c] = add[c]
         \/ (\A u \in update : u.coin # c) /\ c \notin DOMAIN add /\ proofs'[c] = proofs[c]
<1>1. CASE \E u \in update : u.coin = c
  <2> DEFINE u == CHOOSE x \in update : x.coin = c
  <2>1. u \in update /\ u.coin = c
    BY <1>1
  <2>2. proofs'[c] = [state |-> u.state, bucket |-> u.bucket,
                      by |-> IF u.state = "PENDING" THEN u.by ELSE NoOp]
    BY <1>1 DEF ApplyProofChanges
  <2> HIDE DEF u
  <2>3. proofs'[c].state = u.state /\ (u.state = "PENDING" => proofs'[c].by = u.by)
    BY <2>2
  <2> QED BY <2>1, <2>3
<1>2. CASE \A u \in update : u.coin # c
  BY <1>2 DEF ApplyProofChanges
<1> QED BY <1>1, <1>2

\* What the two commits of the store change in the wallet.
Taken(op) ==
    IF worker[op].rec.plan.kind \in Spends
    THEN {[coin |-> c, state |-> "PENDING", bucket |-> "reserved", by |-> op] :
            c \in worker[op].rec.plan.inputs}
    ELSE {}

LEMMA Committed ==
  ASSUME TypesOK, RowsOK, NEW op \in TsOps, CommitPrepared(op)
  PROVE  /\ proofs' = ApplyProofChanges(<<>>, Taken(op))
         /\ CanCommit(op, [worker[op].rec EXCEPT !.phase = "prepared"], <<>>, Taken(op))
         /\ Taken(op) \in SUBSET Updates
         /\ worker[op].pc = "prepared" /\ PlanOK(op, worker[op].rec.plan)
<1> DEFINE rec == [worker[op].rec EXCEPT !.phase = "prepared"]
<1>1. rec.plan = worker[op].rec.plan
  BY RowTypes DEF Records
<1>2. worker[op].pc = "prepared" /\ PlanOK(op, worker[op].rec.plan)
  BY DEF CommitPrepared, At, RowsOK, WorkOK
<1>3. Taken(op) \in SUBSET Updates
  <2>1. worker[op].rec.plan.inputs \subseteq Coins
    BY <1>2 DEF PlanOK, TsPlans
  <2>2. \A c \in Coins :
          [coin |-> c, state |-> "PENDING", bucket |-> "reserved", by |-> op] \in Updates
    BY DEF Updates, CoinStates, Buckets
  <2> QED BY <2>1, <2>2 DEF Taken
<1>4. Commit(op, rec, <<>>, Taken(op))
  BY <1>1 DEF CommitPrepared, Taken, Spends
<1> QED BY <1>2, <1>3, <1>4 DEF Commit

LEMMA Finished ==
  ASSUME TypesOK, ResultsOK, NEW op \in TsOps, TsFinish(op)
  PROVE  /\ proofs' = ApplyProofChanges(worker[op].result.add, worker[op].result.update)
         /\ \E rec : CanCommit(op, rec, worker[op].result.add, worker[op].result.update)
         /\ worker[op].result.add \in Additions
         /\ worker[op].result.update \in SUBSET Updates
         /\ GoodResult(op, worker[op].rec.plan, worker[op].result)
         /\ worker[op].pc = "finish"
<1>1. worker[op].pc = "finish" /\ GoodResult(op, worker[op].rec.plan, worker[op].result)
  BY DEF TsFinish, At, ResultsOK
<1>2. worker[op].result.add \in Additions /\ worker[op].result.update \in SUBSET Updates
  BY <1>1 DEF GoodResult, Results
<1> QED BY <1>1, <1>2 DEF TsFinish, Commit

LEMMA WalletTypes ==
  ASSUME TypesOK, RowsOK, ResultsOK, [TsNext]_tsVars
  PROVE  proofs' \in [Coins -> Proofs]
<1>1. CASE proofs' = proofs
  BY <1>1 DEF TypesOK, JournalTypes
<1>2. ASSUME NEW op \in TsOps, CommitPrepared(op)
      PROVE  proofs' \in [Coins -> Proofs]
  BY <1>2, Committed, ApplyTypes, ConstantTypes
<1>3. ASSUME NEW op \in TsOps, TsFinish(op)
      PROVE  proofs' \in [Coins -> Proofs]
  BY <1>3, Finished, ApplyTypes
<1>4. ASSUME NEW s \in Seeds, TsResetStore(s)
      PROVE  proofs' \in [Coins -> Proofs]
  BY <1>4, ConstantTypes DEF TsResetStore
<1> QED BY <1>1, <1>2, <1>3, <1>4, Frames

OutboxRows ==
    [token : SeedCoins \cup {NoToken}, claimedBy : Readers \cup {NoOp}, acked : BOOLEAN]

LEMMA OutboxTypes ==
  ASSUME TypesOK, RowsOK, [TsNext]_tsVars
  PROVE  handoffs' \in [TsOps -> OutboxRows]
<1>0. handoffs \in [TsOps -> OutboxRows]
  BY DEF TypesOK, JournalTypes, OutboxRows
<1>1. CASE handoffs' = handoffs
  BY <1>0, <1>1
<1>2. ASSUME NEW op \in TsOps, PutSendHandoff(op)
      PROVE  handoffs' \in [TsOps -> OutboxRows]
  <2>1. PlanOK(op, worker[op].rec.plan)
    BY <1>2 DEF PutSendHandoff, At, RowsOK, WorkOK, Past
  <2>2. worker[op].rec.plan.give \in SeedCoins \cup {NoToken}
    BY <2>1 DEF PlanOK, TsPlans
  <2> QED BY <1>0, <1>2, <2>2 DEF PutSendHandoff, OutboxRows
<1>3. ASSUME NEW op \in TsOps, NEW k \in Readers, ClaimSendHandoff(k, op) \/ AckSendHandoff(k, op)
      PROVE  handoffs' \in [TsOps -> OutboxRows]
  <2> DEFINE row == handoffs[op]
  <2>1. row \in OutboxRows
    BY <1>0
  <2>2. [row EXCEPT !.claimedBy = k] \in OutboxRows /\ [row EXCEPT !.acked = TRUE] \in OutboxRows
    BY <2>1 DEF OutboxRows
  <2>3. handoffs' = [handoffs EXCEPT ![op] = [row EXCEPT !.claimedBy = k]]
        \/ handoffs' = [handoffs EXCEPT ![op] = [row EXCEPT !.acked = TRUE]]
    BY <1>3 DEF ClaimSendHandoff, AckSendHandoff
  <2> QED BY <1>0, <2>2, <2>3
<1>4. ASSUME NEW s \in Seeds, TsResetStore(s)
      PROVE  handoffs' \in [TsOps -> OutboxRows]
  BY <1>4 DEF TsResetStore, NoSendHandoff, OutboxRows
<1> QED BY <1>1, <1>2, <1>3, <1>4, Frames

\* The range of a reservation was known, or is the seed's next one.
Reserves(op, r) ==
    /\ r.id[1] = seed /\ r.id[2] = epoch /\ r.id[3] = op
    /\ r \in [id : Ids, start : 0 .. MaxRanges - 1]
    /\ worker[op].pc = "reserve"
    /\ worker'[op].ranges = Append(worker[op].ranges, r.start)
    /\ \/ r \in reservations /\ reservations' = reservations /\ nextCounter' = nextCounter
       \/ /\ r.start = nextCounter[seed]
          /\ nextCounter' = [nextCounter EXCEPT ![seed] = r.start + 1]
          /\ reservations' = reservations \cup {r}

LEMMA Reserved ==
  ASSUME TypesOK, RowsOK, NEW op \in TsOps, ReserveCounterRange(op)
  PROVE  \E r : Reserves(op, r)
<1> DEFINE i == Len(worker[op].ranges) + 1
           id == <<seed, epoch, op, Purposes(kindOf[op])[i]>>
           known == {r \in reservations : r.id = id}
           start == IF known # {} THEN (CHOOSE r \in known : TRUE).start
                    ELSE nextCounter[seed]
<1>1. /\ worker' = [worker EXCEPT ![op].ranges = Append(worker[op].ranges, start)]
      /\ start < MaxRanges /\ worker[op].pc = "reserve"
      /\ Len(worker[op].ranges) < Len(Purposes(kindOf[op]))
      /\ reservations' = reservations \cup {[id |-> id, start |-> start]}
      /\ nextCounter' = IF known # {} THEN nextCounter ELSE AdvanceCounter(start)
  BY DEF ReserveCounterRange, At
<1>2. seed \in Seeds /\ epoch \in Nat /\ kindOf[op] \in Kinds \cup {"none"}
  BY DEF TypesOK, JournalTypes
<1>3. i \in 1 .. Len(Purposes(kindOf[op]))
  <2>1. worker[op].ranges \in Seq(0 .. MaxRanges - 1)
    BY DEF TypesOK, WorkerStates, RangeLists
  <2>2. Len(worker[op].ranges) \in Nat
    BY <2>1
  <2>3. Len(Purposes(kindOf[op])) \in Nat
    BY DEF Purposes, Transfer
  <2>4. \A m, n \in Nat : m < n => m + 1 \in 1 .. n
    OBVIOUS
  <2> QED BY <1>1, <2>2, <2>3, <2>4
<1> HIDE DEF i
<1>4. Purposes(kindOf[op])[i] \in Uses
  BY <1>2, <1>3 DEF Purposes, Transfer, Uses
<1>5. id \in Ids
  BY <1>2, <1>4 DEF Ids
<1>6. id[1] = seed /\ id[2] = epoch /\ id[3] = op
  OBVIOUS
<1> HIDE DEF id
<1>7. /\ known # {} => [id |-> id, start |-> start] \in reservations
      /\ start \in Nat
  <2>1. CASE known = {}
    BY <1>2, <2>1 DEF TypesOK, CounterTypes
  <2>2. CASE known # {}
    <3> DEFINE r == CHOOSE x \in known : TRUE
    <3>1. r \in reservations /\ r.id = id /\ start = r.start
      BY <2>2
    <3>2. r \in [id : Ids, start : 0 .. MaxRanges - 1]
      BY <3>1 DEF TypesOK, CounterTypes
    <3> HIDE DEF r, start
    <3>3. r = [id |-> id, start |-> start] /\ start \in Nat
      BY <3>1, <3>2
    <3> QED BY <3>1, <3>3
  <2> QED BY <2>1, <2>2
<1>8. known = {} => start = nextCounter[seed]
  OBVIOUS
<1> HIDE DEF start, known
<1>9. start \in 0 .. MaxRanges - 1
  BY <1>1, <1>7, TsAssumption
<1>10. worker'[op].ranges = Append(worker[op].ranges, start)
  BY <1>1, RowTypes DEF TypesOK, WorkerStates
<1> DEFINE r == [id |-> id, start |-> start]
<1>11. r \in [id : Ids, start : 0 .. MaxRanges - 1] /\ r.id = id /\ r.start = start
  BY <1>5, <1>9
<1> HIDE DEF r
<1>12. reservations' = reservations \cup {r} /\ (known # {} => r \in reservations)
  BY <1>1, <1>7 DEF r
<1>13. CASE known # {}
  <2>1. reservations' = reservations
    BY <1>12, <1>13
  <2> QED BY <1>1, <1>6, <1>10, <1>11, <1>12, <1>13, <2>1 DEF Reserves
<1>14. CASE known = {}
  BY <1>1, <1>6, <1>8, <1>10, <1>11, <1>12, <1>14 DEF Reserves, AdvanceCounter
<1> QED BY <1>13, <1>14

LEMMA CountersTyped ==
  ASSUME TypesOK, RowsOK, [TsNext]_tsVars
  PROVE  /\ nextCounter' \in [Seeds -> Nat]
         /\ reservations' \subseteq [id : Ids, start : 0 .. MaxRanges - 1]
<1>1. CASE nextCounter' = nextCounter /\ reservations' = reservations
  BY <1>1 DEF TypesOK, CounterTypes
<1>2. ASSUME NEW op \in TsOps, ReserveCounterRange(op)
      PROVE  /\ nextCounter' \in [Seeds -> Nat]
             /\ reservations' \subseteq [id : Ids, start : 0 .. MaxRanges - 1]
  <2>1. PICK r : Reserves(op, r)
    BY <1>2, Reserved
  <2>2. r.start \in Nat /\ seed \in Seeds
    BY <2>1 DEF Reserves, TypesOK, JournalTypes
  <2>3. nextCounter \in [Seeds -> Nat] /\ r.start + 1 \in Nat
    BY <2>2 DEF TypesOK, CounterTypes
  <2>4. nextCounter' \in {nextCounter, [nextCounter EXCEPT ![seed] = r.start + 1]}
    BY <2>1 DEF Reserves
  <2>5. nextCounter' \in [Seeds -> Nat]
    BY <2>3, <2>4
  <2>6. reservations' \subseteq reservations \cup {r}
    BY <2>1 DEF Reserves
  <2> QED BY <2>1, <2>5, <2>6 DEF Reserves, TypesOK, CounterTypes
<1> QED BY <1>1, <1>2, Frames

\* The client and the seeds on their way to it.
LEMMA ClientMoves ==
  ASSUME [TsNext]_tsVars
  PROVE  \/ client' = client /\ loading' = loading
         \/ \E op \in TsOps : LoadSeed(op) \/ CacheClient(op)
         \/ TsCrash
         \/ ResetWallet
<1> USE DEF journal, counters, mintVars
<1>1. CASE UNCHANGED tsVars
  BY <1>1 DEF tsVars
<1>2. CASE TsCrash \/ ResetWallet
  BY <1>2
<1>3. CASE \E s \in Seeds : TsResetStore(s)
  BY <1>3 DEF TsResetStore
<1>4. CASE \E plan \in net : TsMintExecutes(plan) \/ MintDrops(plan)
  BY <1>4 DEF TsMintExecutes, MintDrops
<1>5. CASE \E plan \in done : MeltSettles(plan)
  BY <1>5 DEF MeltSettles
<1>6. ASSUME NEW op \in TsOps,
             \/ Create(op) \/ Begin(op) \/ TsPutReconciling(op)
             \/ StartPrepare(op) \/ ReserveCounterRange(op) \/ TsPrepare(op)
             \/ CommitPrepared(op) \/ TsPutSubmitted(op) \/ Dispatch(op) \/ Return(op)
             \/ PutSendHandoff(op) \/ TsFinish(op)
             \/ StartRecover(op) \/ ReplayRequest(op) \/ TsDecide(op)
             \/ Throw(op) \/ Redeem(op)
             \/ \E k \in Readers : ClaimSendHandoff(k, op) \/ AckSendHandoff(k, op)
      PROVE  client' = client /\ loading' = loading
  BY <1>6 DEF Create, Begin, TsPutReconciling, StartPrepare, ReserveCounterRange, TsPrepare,
              CommitPrepared, TsPutSubmitted, Dispatch, Return, PutSendHandoff, TsFinish,
              StartRecover, ReplayRequest, TsDecide, Throw, Redeem, ClaimSendHandoff,
              AckSendHandoff
<1> QED BY <1>1, <1>2, <1>3, <1>4, <1>5, <1>6 DEF TsNext

LEMMA ClientTyped ==
  ASSUME TypesOK, [TsNext]_tsVars
  PROVE  /\ client' \in Seeds \cup {NoSeed} /\ resetting' \in Seeds \cup {NoSeed}
         /\ loading' \in [TsOps -> Seeds \cup {NoSeed}]
<1>1. resetting' \in Seeds \cup {NoSeed}
  BY Frames DEF TypesOK, CounterTypes, TsResetStore
<1>2. client' \in Seeds \cup {NoSeed} /\ loading' \in [TsOps -> Seeds \cup {NoSeed}]
  BY ClientMoves DEF TypesOK, CounterTypes, JournalTypes, LoadSeed, CacheClient, TsCrash,
                     ResetWallet
<1> QED BY <1>1, <1>2

\* The plans the mint gets to see are the workers'.
LEMMA NetMoves ==
  ASSUME TypesOK, RowsOK, [TsNext]_tsVars
  PROVE  \/ net' \subseteq net
         \/ \E op \in TsOps : /\ worker[op].pc \in Past
                              /\ net' \subseteq net \cup {worker[op].rec.plan}
  BY Frames DEF Dispatch, StartRecover, At, Past

LEMMA DoneMoves ==
  ASSUME [TsNext]_tsVars
  PROVE  done' \subseteq done \cup net
  BY Frames DEF TsMintExecutes, MeltSettles

\* The mint signs outputs and moves the states of inputs; nothing else changes.
LEMMA SignTypes ==
  ASSUME TypesOK, NEW plan \in TsPlans, NEW state \in CoinStates, Sign(plan, state)
  PROVE  coin' \in [Coins -> [state : CoinStates, amount : Int]]
<1>1. coin \in [Coins -> [state : CoinStates, amount : Int]]
  BY DEF TypesOK, MintTypes
<1>2. ASSUME NEW c \in OutCoins(plan)
      PROVE  (CHOOSE o \in plan.outs : o[1] = c)[2] \in Int
  <2>1. \E o \in plan.outs : o[1] = c
    BY DEF OutCoins
  <2>2. (CHOOSE o \in plan.outs : o[1] = c) \in plan.outs
    BY <2>1
  <2> QED BY <2>2 DEF TsPlans
<1>3. "UNSPENT" \in CoinStates
  BY DEF CoinStates
<1>4. ASSUME NEW c \in Coins
      PROVE  (IF c \in plan.inputs THEN [coin[c] EXCEPT !.state = state]
              ELSE IF c \in OutCoins(plan)
              THEN [state |-> "UNSPENT",
                    amount |-> (CHOOSE o \in plan.outs : o[1] = c)[2]]
              ELSE coin[c]) \in [state : CoinStates, amount : Int]
  BY <1>1, <1>2, <1>3
<1> QED BY <1>4 DEF Sign

LEMMA MarkTypes ==
  ASSUME TypesOK, NEW S, NEW state \in CoinStates,
         coin' = [c \in Coins |-> IF c \in S THEN [coin[c] EXCEPT !.state = state] ELSE coin[c]]
  PROVE  coin' \in [Coins -> [state : CoinStates, amount : Int]]
  BY DEF TypesOK, MintTypes

LEMMA CoinTyped ==
  ASSUME TypesOK, [TsNext]_tsVars
  PROVE  coin' \in [Coins -> [state : CoinStates, amount : Int]]
<1> DEFINE Goal == coin' \in [Coins -> [state : CoinStates, amount : Int]]
<1>0. {"SPENT", "UNSPENT", "PENDING"} \subseteq CoinStates /\ net \cup done \subseteq TsPlans
  BY DEF CoinStates, TypesOK, MintTypes
<1>1. CASE coin' = coin
  BY <1>1 DEF TypesOK, MintTypes
<1>2. ASSUME NEW op \in TsOps, Redeem(op)
      PROVE  Goal
  <2>1. coin' = [coin EXCEPT ![handoffs[op].token].state = "SPENT"]
    BY <1>2 DEF Redeem
  <2> QED BY <1>0, <2>1 DEF TypesOK, MintTypes
<1>3. ASSUME NEW plan \in net, TsMintExecutes(plan)
      PROVE  Goal
  <2>1. \/ Sign(plan, "SPENT")
        \/ coin' = [c \in Coins |-> IF c \in plan.inputs
                      THEN [coin[c] EXCEPT !.state = "PENDING"] ELSE coin[c]]
    BY <1>3 DEF TsMintExecutes
  <2> QED BY <1>0, <2>1, SignTypes, MarkTypes
<1>4. ASSUME NEW plan \in done, MeltSettles(plan)
      PROVE  Goal
  <2>1. [plan EXCEPT !.outs = {}] \in TsPlans
    BY <1>0 DEF TsPlans
  <2>2. \/ Sign(plan, "SPENT") \/ Sign([plan EXCEPT !.outs = {}], "SPENT")
        \/ coin' = [c \in Coins |-> IF c \in plan.inputs
                      THEN [coin[c] EXCEPT !.state = "UNSPENT"] ELSE coin[c]]
    BY <1>4 DEF MeltSettles
  <2> QED BY <1>0, <2>1, <2>2, SignTypes, MarkTypes
<1> QED BY <1>1, <1>2, <1>3, <1>4, Frames

LEMMA QuotesTyped ==
  ASSUME TypesOK, RowsOK, [TsNext]_tsVars
  PROVE  quotes' \in [1 .. MaxQuotes -> QuoteStates]
<1>0. quotes \in [1 .. MaxQuotes -> QuoteStates]
  BY DEF TypesOK, MintTypes
<1>1. CASE quotes' = quotes
  BY <1>0, <1>1
<1>2. ASSUME NEW q, NEW state \in QuoteStates, quotes' = [quotes EXCEPT ![q] = state]
      PROVE  quotes' \in [1 .. MaxQuotes -> QuoteStates]
  BY <1>0, <1>2
<1>3. ASSUME NEW op \in TsOps, TsPrepare(op)
      PROVE  \/ quotes' = quotes
             \/ \E q : \E state \in QuoteStates : quotes' = [quotes EXCEPT ![q] = state]
  <2>1. QuoteState(kindOf[op]) \in QuoteStates
    BY DEF QuoteState, QuoteStates
  <2> DEFINE q == worker'[op].rec.plan.quote
  <2>2. quotes' = quotes \/ quotes' = [quotes EXCEPT ![q] = QuoteState(kindOf[op])]
    BY <1>3, PlanMoves
  <2> QED BY <2>1, <2>2
<1>4. ASSUME NEW plan \in net, TsMintExecutes(plan)
      PROVE  \/ quotes' = quotes
             \/ \E q : \E state \in QuoteStates : quotes' = [quotes EXCEPT ![q] = state]
  BY <1>4 DEF TsMintExecutes, QuoteStates
<1>5. ASSUME NEW plan \in done, MeltSettles(plan)
      PROVE  \E q : \E state \in QuoteStates : quotes' = [quotes EXCEPT ![q] = state]
  BY <1>5 DEF MeltSettles, QuoteStates
<1> QED BY <1>1, <1>2, <1>3, <1>4, <1>5, Frames

LEMMA TypesNext ==
  ASSUME TypesOK, RowsOK, ResultsOK, QuotesOK, [TsNext]_tsVars
  PROVE  TypesOK'
<1>1. seed' \in Seeds /\ epoch' \in Nat \ {0} /\ kindOf' = kindOf
  <2>1. epoch \in Nat \ {0} /\ seed \in Seeds
    BY DEF TypesOK, JournalTypes
  <2>2. kindOf' = kindOf /\ seed' \in Seeds
    BY <2>1, Frames DEF TsResetStore
  <2>3. epoch' = epoch \/ epoch' = epoch + 1
    BY Frames DEF TsResetStore
  <2> QED BY <2>1, <2>2, <2>3
<1>2. JournalTypes'
  BY <1>1, Shapes, WalletTypes, OutboxTypes DEF RowsTyped, TypesOK, JournalTypes, OutboxRows
<1>3. CounterTypes'
  BY CountersTyped, ClientTyped DEF CounterTypes
<1>4. net' \subseteq TsPlans /\ done' \subseteq TsPlans
  <2>1. \A op \in TsOps : worker[op].pc \in Past => worker[op].rec.plan \in TsPlans
    BY DEF RowsOK, WorkOK, PlanOK
  <2> QED BY <2>1, NetMoves, DoneMoves DEF TypesOK, MintTypes
<1>5. MintTypes'
  BY <1>4, CoinTyped, QuotesTyped DEF MintTypes
<1> QED BY <1>2, <1>3, <1>5, Shapes DEF TypesOK, RowsTyped

-----------------------------------------------------------------------------
(* The journal and the workers.                                             *)

LEMMA PlanKept ==
  ASSUME TypesOK, [TsNext]_tsVars, NEW o \in TsOps, NEW p, PlanOK(o, p)
  PROVE  PlanOK(o, p)'
<1>1. epoch \in Nat /\ epoch' \in {epoch, epoch + 1} /\ kindOf' = kindOf
  BY Frames DEF TypesOK, JournalTypes, TsResetStore
<1>2. p.epoch \in Nat
  BY DEF PlanOK, TsPlans
<1> QED BY <1>1, <1>2 DEF PlanOK

LEMMA RowsInit == TsInit => RowsOK
  BY DEF TsInit, RowsOK, RecOK, WorkOK, NoRec, Idle, Early, Past

LEMMA RowsNext ==
  ASSUME TypesOK, RowsOK, ResultsOK, QuotesOK, [TsNext]_tsVars
  PROVE  RowsOK'
<1>1. kindOf' = kindOf
  BY Frames
<1>2. \A o \in TsOps : \A p : PlanOK(o, p) => PlanOK(o, p)'
  BY PlanKept
<1>3. ASSUME NEW o \in TsOps, recs'[o] = recs[o], worker'[o] = worker[o]
      PROVE  RecOK(o)' /\ WorkOK(o)'
  BY <1>1, <1>2, <1>3 DEF RowsOK, RecOK, WorkOK
<1>4. ASSUME NEW op \in TsOps, Alone(op), RecOK(op)', WorkOK(op)'
      PROVE  RowsOK'
  BY <1>3, <1>4 DEF RowsOK, Alone
<1>5. RowsTyped
  BY Shapes
<1>6. CASE Resting
  BY <1>3, <1>6 DEF RowsOK, Resting
<1>7. CASE Drops
  <2>1. ASSUME NEW o \in TsOps, worker'[o] = Idle
        PROVE  RecOK(o)' /\ WorkOK(o)'
    <3>1. worker'[o].pc = "idle" /\ recs' = recs /\ RecOK(o)
      BY <1>7, <2>1, RowConstants DEF Drops, RowsOK
    <3>2. RecOK(o)'
      BY <1>1, <1>2, <3>1 DEF RecOK
    <3>3. WorkOK(o)'
      BY <3>1 DEF WorkOK, Early, Past
    <3> QED BY <3>2, <3>3
  <2> QED BY <1>3, <1>7, <2>1 DEF RowsOK, Drops
<1>8. CASE Restarts
  BY <1>1, <1>2, <1>8 DEF Restarts, RowsOK, RecOK, WorkOK, NoRec
<1>9. ASSUME NEW op \in TsOps, Creates(op)
      PROVE  RowsOK'
  <2>1. RecOK(op)' /\ WorkOK(op)'
    BY <1>1, <1>2, <1>9 DEF Creates, RowsOK, RecOK, WorkOK, NoRec, Created
  <2> QED BY <1>4, <1>9, <2>1 DEF Creates
<1>10. ASSUME NEW op \in TsOps, Enters(op)
       PROVE  RowsOK'
  <2>1. RecOK(op) /\ recs[op].phase # "absent"
    BY <1>10 DEF Enters, RowsOK, Running
  <2>2. CASE recs[op].phase = "created"
    BY <1>1, <1>4, <1>10, <2>1, <2>2 DEF Enters, RecOK, WorkOK, Early, Past, Running
  <2>3. CASE recs[op].phase \in Running
    BY <1>1, <1>2, <1>4, <1>10, <2>1, <2>3 DEF Enters, RecOK, WorkOK, Early, Past, Running
  <2> QED BY <1>10, <2>2, <2>3 DEF Enters
<1>11. ASSUME NEW op \in TsOps, Prepares(op)
       PROVE  RowsOK'
  <2>1. RecOK(op)' /\ WorkOK(op)'
    BY <1>1, <1>2, <1>11 DEF Prepares, RowsOK, RecOK, WorkOK, Early, Past
  <2> QED BY <1>4, <1>11, <2>1 DEF Prepares
<1>12. ASSUME NEW op \in TsOps, Plans(op)
       PROVE  RowsOK'
  <2>1. RecOK(op)' /\ WorkOK(op)'
    BY <1>1, <1>2, <1>12 DEF Plans, NewPlanOK, RowsOK, RecOK, WorkOK, Early, Past
  <2> QED BY <1>4, <1>12, <2>1 DEF Plans
<1>13. ASSUME NEW op \in TsOps, Commits(op)
       PROVE  RowsOK'
  <2>1. RecOK(op)' /\ WorkOK(op)'
    BY <1>1, <1>2, <1>13 DEF Commits, RowsOK, RecOK, WorkOK, Early, Past, Running
  <2> QED BY <1>4, <1>13, <2>1 DEF Commits
<1>14. ASSUME NEW op \in TsOps, Writes(op)
       PROVE  RowsOK'
  <2>1. RecOK(op)' /\ WorkOK(op)'
    BY <1>1, <1>2, <1>14 DEF Writes, RowsOK, RecOK, WorkOK, Early, Past, Running
  <2> QED BY <1>4, <1>14, <2>1 DEF Writes
<1>15. ASSUME NEW op \in TsOps, Works(op)
       PROVE  RowsOK'
  <2>1. RecOK(op)' /\ WorkOK(op)'
    BY <1>1, <1>2, <1>15 DEF Works, RowsOK, RecOK, WorkOK, Early, Past
  <2> QED BY <1>4, <1>15, <2>1 DEF Works
<1>16. ASSUME NEW op \in TsOps, Finishes(op)
       PROVE  RowsOK'
  <2>1. RecOK(op)' /\ WorkOK(op)'
    <3>1. /\ worker'[op].pc = "idle" /\ worker[op].pc = "finish"
          /\ recs'[op].plan = worker[op].rec.plan
          /\ recs'[op].phase \in Running \cup Terminal
      BY <1>16, RowConstants DEF Finishes
    <3>2. PlanOK(op, worker[op].rec.plan) /\ kindOf[op] # "none"
      BY <3>1 DEF RowsOK, WorkOK, Past
    <3>3. recs'[op].phase \notin {"absent", "created"}
      BY <3>1 DEF Running, Terminal
    <3>4. RecOK(op)'
      BY <1>1, <1>2, <3>1, <3>2, <3>3 DEF RecOK
    <3>5. WorkOK(op)'
      BY <3>1 DEF WorkOK, Early, Past
    <3> QED BY <3>4, <3>5
  <2> QED BY <1>4, <1>16, <2>1 DEF Finishes
<1> QED BY <1>6, <1>7, <1>8, <1>9, <1>10, <1>11, <1>12, <1>13, <1>14, <1>15, <1>16, Shapes

-----------------------------------------------------------------------------
(* One plan for each operation in each run of the store.                    *)

\* A journaled plan is in some row, at some worker, on the wire or executed.
LEMMA InJournal ==
  ASSUME TypesOK
  PROVE  \A p : p \in Journaled <=>
            \/ p # NoPlan /\ (p \in net \/ p \in done \/ \E o \in TsOps : p = recs[o].plan)
            \/ \E o \in TsOps : worker[o].pc \in Past /\ p = worker[o].rec.plan
  BY DEF Journaled, Requests, Held

\* The plan of a row or a worker was there before, or a worker commits it.
LEMMA RowSteps ==
  ASSUME TypesOK, RowsOK, ResultsOK, QuotesOK, [TsNext]_tsVars, NEW o \in TsOps
  PROVE  /\ \/ recs'[o].plan = recs[o].plan
            \/ recs'[o].plan = NoPlan /\ epoch' = epoch + 1
            \/ worker[o].pc \in Past /\ recs'[o].plan = worker[o].rec.plan
            \/ Commits(o) /\ recs'[o].plan = worker[o].rec.plan
         /\ worker'[o].pc \in Past =>
               \/ recs[o].plan \in TsPlans /\ worker'[o].rec.plan = recs[o].plan
               \/ worker[o].pc \in Past /\ worker'[o].rec.plan = worker[o].rec.plan
               \/ Commits(o) /\ worker'[o].rec.plan = worker[o].rec.plan
         /\ worker'[o].pc = "prepared" =>
               \/ worker'[o] = worker[o]
               \/ TsPrepare(o) /\ Plans(o)
<1>1. CASE Resting
  BY <1>1 DEF Resting
<1>2. CASE Drops
  <2>1. recs' = recs /\ (worker'[o] = worker[o] \/ worker'[o].pc = "idle")
    BY <1>2, RowConstants DEF Drops
  <2> QED BY <2>1 DEF Past
<1>3. CASE Restarts
  <2>1. recs'[o].plan = NoPlan /\ epoch' = epoch + 1 /\ worker' = worker
    BY <1>3, RowConstants DEF Restarts
  <2> QED BY <2>1
<1>4. CASE Creates(o) \/ Prepares(o)
  BY <1>4, RowConstants DEF Creates, Prepares, Past
<1>5. CASE Enters(o)
  <2>1. recs[o].phase \in Running => recs[o].plan \in TsPlans
    BY DEF RowsOK, RecOK, PlanOK, Running
  <2> QED BY <1>5, <2>1 DEF Enters, Past
<1>6. CASE (TsPrepare(o) /\ Plans(o)) \/ Commits(o)
  BY <1>6 DEF Plans, Commits, Past
<1>7. CASE Writes(o) \/ Works(o)
  <2>1. worker[o].pc \in Past /\ worker'[o].rec.plan = worker[o].rec.plan
    BY <1>7 DEF Writes, Works
  <2>2. recs'[o].plan = recs[o].plan \/ recs'[o].plan = worker[o].rec.plan
    BY <1>7 DEF Writes, Works
  <2>3. worker'[o].pc # "prepared"
    BY <1>7 DEF Writes, Works, Past
  <2> QED BY <2>1, <2>2, <2>3
<1>8. CASE Finishes(o)
  <2>1. /\ worker[o].pc = "finish" /\ recs'[o].plan = worker[o].rec.plan
        /\ worker'[o].pc = "idle"
    BY <1>8, RowConstants DEF Finishes
  <2> QED BY <2>1 DEF Past
<1> QED BY <1>1, <1>2, <1>3, <1>4, <1>5, <1>6, <1>7, <1>8, RowCases

LEMMA JournalMoves ==
  ASSUME TypesOK, RowsOK, ResultsOK, QuotesOK, [TsNext]_tsVars, NEW p \in Journaled'
  PROVE  \/ p \in Journaled
         \/ \E op \in TsOps : Commits(op) /\ p = worker[op].rec.plan
<1>1. TypesOK' /\ RowsOK'
  BY TypesNext, RowsNext
<1>2. \/ p # NoPlan /\ (p \in net' \/ p \in done' \/ \E o \in TsOps : p = recs'[o].plan)
      \/ \E o \in TsOps : worker'[o].pc \in Past /\ p = worker'[o].rec.plan
  BY DEF Journaled, Requests, Held
<1>3. CASE p # NoPlan /\ p \in net'
  <2>1. p \in net \/ \E op \in TsOps : worker[op].pc \in Past /\ p = worker[op].rec.plan
    BY <1>3, NetMoves
  <2> QED BY <1>3, <2>1, InJournal
<1>4. CASE p # NoPlan /\ p \in done'
  BY <1>4, DoneMoves, InJournal
<1>5. ASSUME NEW o \in TsOps, p # NoPlan, p = recs'[o].plan
      PROVE  p \in Journaled \/ (Commits(o) /\ p = worker[o].rec.plan)
  BY <1>5, RowSteps, InJournal
<1>6. ASSUME NEW o \in TsOps, worker'[o].pc \in Past, p = worker'[o].rec.plan
      PROVE  p \in Journaled \/ (Commits(o) /\ p = worker[o].rec.plan)
  BY <1>6, RowSteps, InJournal, TsAssumption
<1> QED BY <1>2, <1>3, <1>4, <1>5, <1>6

LEMMA PlannedMoves ==
  ASSUME TypesOK, RowsOK, ResultsOK, QuotesOK, [TsNext]_tsVars, NEW p \in Planned'
  PROVE  \/ p \in Planned
         \/ \E op \in TsOps : TsPrepare(op) /\ Plans(op) /\ p = worker'[op].rec.plan
<1>1. p \in Journaled' \/ \E o \in TsOps : worker'[o].pc = "prepared" /\ p = worker'[o].rec.plan
  BY DEF Planned
<1>2. CASE p \in Journaled'
  BY <1>2, JournalMoves DEF Planned, Commits
<1>3. ASSUME NEW o \in TsOps, worker'[o].pc = "prepared", p = worker'[o].rec.plan
      PROVE  p \in Planned \/ (TsPrepare(o) /\ Plans(o))
  BY <1>3, RowSteps DEF Planned
<1> QED BY <1>1, <1>2, <1>3

LEMMA PlansInit == TsInit => PlansUnique
  BY DEF TsInit, PlansUnique, Journaled, Requests, Held, NoRec, Idle, Past

LEMMA PlansNext ==
  ASSUME TypesOK, RowsOK, ResultsOK, QuotesOK, PlansUnique, [TsNext]_tsVars
  PROVE  PlansUnique'
<1>0. epoch \in Nat /\ epoch' \in {epoch, epoch + 1}
  BY Frames DEF TypesOK, JournalTypes, TsResetStore
<1>1. ASSUME NEW op \in TsOps, Commits(op)
      PROVE  /\ worker[op].pc = "prepared" /\ worker'[op].pc # "prepared"
             /\ PlanOK(op, worker[op].rec.plan) /\ recs'[op].plan # NoPlan
             /\ worker[op].rec.plan.op = op /\ epoch' = epoch
  <2>1. /\ worker[op].pc = "prepared" /\ worker'[op].pc = "put_submitted" /\ epoch' = epoch
        /\ recs'[op].plan = worker[op].rec.plan
    BY <1>1 DEF Commits
  <2>2. PlanOK(op, worker[op].rec.plan)
    BY <2>1 DEF RowsOK, WorkOK
  <2>3. worker[op].rec.plan \in TsPlans /\ worker[op].rec.plan.op = op
    BY <2>2 DEF PlanOK
  <2>4. recs'[op].plan # NoPlan
    BY <2>1, <2>3, TsAssumption
  <2> QED BY <2>1, <2>2, <2>3, <2>4
<1>2. ASSUME NEW p \in Journaled'
      PROVE  p \in TsPlans /\ p.op \in TsOps /\ PlanOK(p.op, p) /\ PlanOK(p.op, p)'
  <2>1. p \in TsPlans /\ PlanOK(p.op, p)
    <3>1. CASE p \in Journaled
      BY <3>1 DEF PlansUnique
    <3>2. ASSUME NEW op \in TsOps, Commits(op), p = worker[op].rec.plan
          PROVE  p \in TsPlans /\ PlanOK(p.op, p)
      <4>1. PlanOK(op, p) /\ p.op = op
        BY <1>1, <3>2
      <4> QED BY <4>1 DEF PlanOK
    <3> QED BY <1>2, <3>1, <3>2, JournalMoves
  <2> QED BY <2>1, PlanKept DEF TsPlans
<1>3. ASSUME NEW p \in Journaled', NEW q \in Journaled', p.op = q.op, p.epoch = q.epoch
      PROVE  p = q
  BY <1>1, <1>3, JournalMoves DEF PlansUnique
<1>4. ASSUME NEW op \in TsOps, NEW p \in Journaled', p.op = op, worker'[op].pc = "prepared"
      PROVE  p.epoch # worker'[op].rec.plan.epoch
  <2>1. p \in Journaled
    BY <1>1, <1>4, JournalMoves
  <2>2. CASE worker'[op] = worker[op]
    BY <1>4, <2>1, <2>2 DEF PlansUnique
  <2>3. CASE Plans(op)
    <3>1. recs[op].plan = NoPlan /\ worker'[op].rec.plan.epoch = epoch
      BY <2>3 DEF Plans, NewPlanOK, RowsOK, WorkOK, Early
    <3> QED BY <1>4, <2>1, <3>1 DEF PlansUnique
  <2> QED BY <1>4, <2>2, <2>3, RowSteps
<1>5. ASSUME NEW op \in TsOps, NEW p \in Journaled', p.op = op, recs'[op].plan = NoPlan
      PROVE  p.epoch # epoch'
  <2>1. p \in Journaled
    BY <1>1, <1>5, JournalMoves
  <2>2. CASE epoch' = epoch + 1
    <3>1. p.epoch \in Nat /\ p.epoch <= epoch
      BY <1>2 DEF PlanOK, TsPlans
    <3> QED BY <1>0, <2>2, <3>1
  <2>3. CASE epoch' = epoch
    <3>1. ASSUME worker[op].pc \in Past
          PROVE  worker[op].rec.plan # NoPlan
      <4>1. PlanOK(op, worker[op].rec.plan)
        BY <3>1 DEF RowsOK, WorkOK
      <4>2. worker[op].rec.plan \in TsPlans
        BY <4>1 DEF PlanOK
      <4> QED BY <4>2, TsAssumption
    <3>2. recs[op].plan = NoPlan
      <4>1. epoch' # epoch + 1 /\ ~ Commits(op)
        BY <1>0, <1>1, <1>5, <2>3
      <4>2. \/ recs'[op].plan = recs[op].plan
            \/ recs'[op].plan = NoPlan /\ epoch' = epoch + 1
            \/ worker[op].pc \in Past /\ recs'[op].plan = worker[op].rec.plan
            \/ Commits(op)
        BY RowSteps
      <4> QED BY <1>5, <3>1, <4>1, <4>2
    <3> QED BY <1>5, <2>1, <2>3, <3>2 DEF PlansUnique
  <2> QED BY <1>0, <2>2, <2>3
<1> QED BY <1>2, <1>3, <1>4, <1>5 DEF PlansUnique

-----------------------------------------------------------------------------
(* Counter ranges.                                                          *)

LEMMA ReservationTypes ==
  ASSUME TypesOK, NEW r \in reservations
  PROVE  r.id[1] \in Seeds /\ r.start \in Nat /\ r.start \in 0 .. MaxRanges - 1
<1>1. r \in [id : Ids, start : 0 .. MaxRanges - 1]
  BY DEF TypesOK, CounterTypes
<1> QED BY <1>1 DEF Ids

LEMMA RangesInit == TsInit => RangesOK
  BY TsAssumption DEF TsInit, RangesOK

LEMMA RangesNext ==
  ASSUME TypesOK, RowsOK, RangesOK, [TsNext]_tsVars
  PROVE  RangesOK'
<1>1. CASE nextCounter' = nextCounter /\ reservations' = reservations
  BY <1>1 DEF RangesOK
<1>2. ASSUME NEW op \in TsOps, ReserveCounterRange(op)
      PROVE  RangesOK'
  <2>1. PICK r : Reserves(op, r)
    BY <1>2, Reserved
  <2>2. CASE nextCounter' = nextCounter /\ reservations' = reservations
    BY <2>2 DEF RangesOK
  <2>3. CASE /\ r.start = nextCounter[seed]
             /\ nextCounter' = [nextCounter EXCEPT ![seed] = r.start + 1]
             /\ reservations' = reservations \cup {r}
    <3>1. /\ nextCounter \in [Seeds -> Nat] /\ seed \in Seeds
          /\ r.id[1] = seed /\ r.start \in Nat
      BY <2>1, <2>3 DEF TypesOK, CounterTypes, JournalTypes, Reserves
    <3>2. ASSUME NEW t \in Seeds
          PROVE  nextCounter[t] \in Nat /\ nextCounter'[t] \in Nat
                 /\ nextCounter[t] <= nextCounter'[t]
      BY <2>3, <3>1
    <3>3. nextCounter'[seed] = r.start + 1
      BY <2>3, <3>1
    <3>4. ASSUME NEW s \in reservations'
          PROVE  s.start < nextCounter'[s.id[1]]
      <4>1. CASE s = r
        <5>1. \A n \in Nat : n < n + 1
          OBVIOUS
        <5> QED BY <3>1, <3>3, <4>1, <5>1
      <4>2. CASE s \in reservations
        <5> DEFINE k == nextCounter[s.id[1]]
                   m == nextCounter'[s.id[1]]
                   n == s.start
        <5>1. n \in Nat /\ s.id[1] \in Seeds
          BY <4>2, ReservationTypes
        <5>2. n < k
          BY <4>2 DEF RangesOK
        <5>3. k \in Nat /\ m \in Nat /\ k <= m
          BY <3>2, <5>1
        <5> HIDE DEF k, m, n
        <5>4. n < m
          BY <5>1, <5>2, <5>3
        <5> QED BY <5>4 DEF m, n
      <4> QED BY <2>3, <4>1, <4>2
    <3>5. ASSUME NEW s \in reservations, s.id[1] = seed
          PROVE  s.start # r.start
      BY <2>3, <3>1, <3>2, <3>5, ReservationTypes DEF RangesOK
    <3>6. ASSUME NEW s \in reservations', NEW t \in reservations',
                 s.id[1] = t.id[1], s.start = t.start
          PROVE  s = t
      BY <2>3, <3>1, <3>5, <3>6 DEF RangesOK
    <3>7. \A s \in reservations' : <<s.id[1], s.start>> # <<InitSeed, 0>>
      BY <2>3, <3>1 DEF RangesOK
    <3>8. nextCounter'[InitSeed] # 0
      BY <3>2, TsAssumption DEF RangesOK
    <3> QED BY <3>4, <3>6, <3>7, <3>8 DEF RangesOK
  <2> QED BY <2>1, <2>2, <2>3 DEF Reserves
<1> QED BY <1>1, <1>2, Frames

LEMMA PlannedOK ==
  ASSUME RowsOK, PlansUnique
  PROVE  \A p \in Planned : p \in TsPlans /\ p.op \in TsOps /\ PlanOK(p.op, p)
<1>1. ASSUME NEW o \in TsOps, worker[o].pc = "prepared"
      PROVE  LET p == worker[o].rec.plan
             IN  p \in TsPlans /\ p.op \in TsOps /\ PlanOK(p.op, p)
  BY <1>1 DEF RowsOK, WorkOK, PlanOK
<1>2. ASSUME NEW p \in Journaled
      PROVE  p \in TsPlans /\ p.op \in TsOps /\ PlanOK(p.op, p)
  BY DEF PlansUnique, TsPlans
<1> QED BY <1>1, <1>2 DEF Planned

\* A worker that prepares has no plan of this run yet.
LEMMA NotPlannedYet ==
  ASSUME RowsOK, PlansUnique, NEW op \in TsOps, worker[op].pc \in Early,
         NEW p \in Planned, p.op = op
  PROVE  p.epoch # epoch
<1>1. ASSUME NEW o \in TsOps, worker[o].pc = "prepared", p = worker[o].rec.plan
      PROVE  FALSE
  BY <1>1 DEF RowsOK, WorkOK, PlanOK, Early
<1>2. p \in Journaled
  BY <1>1 DEF Planned
<1>3. recs[op].plan = NoPlan
  BY DEF RowsOK, WorkOK
<1> QED BY <1>2, <1>3 DEF PlansUnique

LEMMA BackedKept ==
  ASSUME TypesOK, RowsOK, PlansUnique, [TsNext]_tsVars, NEW p \in Planned
  PROVE  Backed(p)' <=> Backed(p)
<1>1. CASE reservations' = reservations
  BY <1>1 DEF Backed, OutCoins
<1>2. ASSUME NEW op \in TsOps, NEW r, Reserves(op, r)
      PROVE  Backed(p)' <=> Backed(p)
  <2>1. reservations \subseteq reservations' /\ reservations' \subseteq reservations \cup {r}
    BY <1>2 DEF Reserves
  <2>2. ~ (r.id[2] = p.epoch /\ r.id[3] = p.op)
    BY <1>2, NotPlannedYet DEF Reserves, Early
  <2> QED BY <2>1, <2>2 DEF Backed, OutCoins
<1> QED BY <1>1, <1>2, Frames, Reserved

-----------------------------------------------------------------------------
(* Until the first reset.                                                   *)

LEMMA FirstRun ==
  ASSUME TypesOK, [TsNext]_tsVars, epoch' = 1
  PROVE  epoch = 1 /\ ~ \E s \in Seeds : TsResetStore(s)
<1>1. epoch \in Nat \ {0}
  BY DEF TypesOK, JournalTypes
<1>2. ASSUME NEW s \in Seeds, TsResetStore(s)
      PROVE  FALSE
  <2>1. epoch' = epoch + 1
    BY <1>2 DEF TsResetStore
  <2> QED BY <1>1, <2>1
<1> QED BY <1>2, Frames

LEMMA SeedInit == TsInit => OneSeed
  BY DEF TsInit, OneSeed, Idle, Early

LEMMA SeedNext ==
  ASSUME TypesOK, RowsOK, ResultsOK, QuotesOK, OneSeed, [TsNext]_tsVars
  PROVE  OneSeed'
<1> SUFFICES ASSUME epoch' = 1 PROVE OneSeed'
  BY DEF OneSeed
<1>1. epoch = 1 /\ ~ \E s \in Seeds : TsResetStore(s)
  BY FirstRun
<1>2. seed' = InitSeed /\ resetting' = NoSeed
  BY <1>1, Frames DEF OneSeed
<1>3. client' \in {InitSeed, NoSeed} /\ \A o \in TsOps : loading'[o] \in {InitSeed, NoSeed}
  <2>1. ~ ResetWallet
    BY <1>1 DEF ResetWallet, OneSeed
  <2> QED BY <1>1, <2>1, ClientMoves DEF OneSeed, LoadSeed, CacheClient, TsCrash, TypesOK,
                                         CounterTypes
<1>4. reservations \subseteq reservations'
  BY Frames, Reserved DEF Reserves
<1>5. ASSUME NEW o \in TsOps, NEW start, HasRange(reservations, o, start)
      PROVE  HasRange(reservations', o, start)
  BY <1>4, <1>5 DEF HasRange
<1> DEFINE Fine(o) ==
             /\ worker'[o].pc = "reserve" => worker'[o].seed = InitSeed
             /\ worker'[o].pc \in Early =>
                  \A i \in 1 .. Len(worker'[o].ranges) :
                    HasRange(reservations', o, worker'[o].ranges[i])
<1>6. ASSUME NEW o \in TsOps, worker'[o] = worker[o]
      PROVE  Fine(o)
  BY <1>1, <1>5, <1>6 DEF OneSeed
<1>7. ASSUME NEW o \in TsOps, worker'[o].pc \notin Early
      PROVE  Fine(o)
  BY <1>7 DEF Early
<1>8. ASSUME NEW o \in TsOps, Enters(o)
      PROVE  Fine(o)
  <2>1. worker'[o].pc = "prepare" => worker'[o].ranges = <<>>
    BY <1>8 DEF Enters, Past
  <2> QED BY <1>8, <2>1 DEF Enters, Early, Past
<1>9. ASSUME NEW o \in TsOps, StartPrepare(o)
      PROVE  Fine(o)
  <2>1. /\ worker' = [worker EXCEPT ![o].pc = "reserve", ![o].seed = client]
        /\ client # NoSeed /\ worker[o].pc \in Early
    BY <1>9 DEF StartPrepare, HasClient, At, Early
  <2>2. worker'[o].seed = client /\ worker'[o].ranges = worker[o].ranges
    BY <2>1, RowTypes DEF WorkerStates
  <2> QED BY <1>1, <1>5, <2>1, <2>2 DEF OneSeed
<1>10. ASSUME NEW o \in TsOps, ReserveCounterRange(o)
       PROVE  Fine(o)
  <2>1. PICK r : Reserves(o, r)
    BY <1>10, Reserved
  <2>2. /\ worker[o].pc = "reserve" /\ worker'[o].seed = worker[o].seed
        /\ worker'[o].ranges = Append(worker[o].ranges, r.start)
    <3>1. \E q : worker' = [worker EXCEPT ![o].ranges = q]
      BY <1>10 DEF ReserveCounterRange
    <3>2. worker'[o].seed = worker[o].seed
      BY <3>1, RowTypes DEF WorkerStates
    <3> QED BY <2>1, <3>2 DEF Reserves
  <2>3. HasRange(reservations', o, r.start)
    <3>1. r \in reservations'
      BY <2>1 DEF Reserves
    <3>2. r.id[1] = InitSeed /\ r.id[2] = 1 /\ r.id[3] = o
      BY <1>1, <2>1 DEF Reserves, OneSeed
    <3> QED BY <3>1, <3>2 DEF HasRange
  <2>4. ASSUME NEW i \in 1 .. Len(worker'[o].ranges)
        PROVE  HasRange(reservations', o, worker'[o].ranges[i])
    <3>1. worker[o].ranges \in Seq(0 .. MaxRanges - 1) /\ r.start \in 0 .. MaxRanges - 1
      BY <2>1 DEF Reserves, TypesOK, WorkerStates, RangeLists
    <3>2. \/ i \in 1 .. Len(worker[o].ranges) /\ worker'[o].ranges[i] = worker[o].ranges[i]
          \/ worker'[o].ranges[i] = r.start
      BY <2>2, <3>1
    <3>3. \A j \in 1 .. Len(worker[o].ranges) : HasRange(reservations, o, worker[o].ranges[j])
      BY <1>1, <2>2 DEF OneSeed, Early
    <3> QED BY <1>5, <2>3, <3>2, <3>3
  <2> QED BY <1>1, <2>2, <2>4 DEF OneSeed
<1>11. ASSUME NEW o \in TsOps
       PROVE  Fine(o)
  <2> HIDE DEF Fine
  <2>1. CASE Resting \/ Drops \/ Restarts
    <3>1. worker'[o] = worker[o] \/ worker'[o].pc = "idle"
      BY <2>1, RowConstants DEF Resting, Drops, Restarts
    <3>2. worker'[o].pc = "idle" => worker'[o].pc \notin Early
      BY DEF Early
    <3> QED BY <1>6, <1>7, <3>1, <3>2
  <2>2. CASE worker'[o] = worker[o]
    BY <1>6, <2>2
  <2>3. CASE Creates(o)
    BY <1>6, <2>3 DEF Creates
  <2>4. CASE Plans(o) \/ Commits(o) \/ Writes(o) \/ Works(o) \/ Finishes(o)
    <3>1. worker'[o].pc \notin Early
      <4>1. worker'[o].pc \in {"prepared", "put_submitted", "idle"} \cup Past
        BY <2>4, RowConstants DEF Plans, Commits, Writes, Works, Finishes
      <4> QED BY <4>1 DEF Early, Past
    <3> QED BY <1>7, <3>1
  <2> QED BY <1>8, <1>9, <1>10, <2>1, <2>2, <2>3, <2>4, RowCases
<1> QED BY <1>2, <1>3, <1>11 DEF OneSeed

LEMMA BackedInit == TsInit => FirstRunBacked
  BY DEF TsInit, FirstRunBacked, Planned, Journaled, Requests, Held, NoRec, Idle, Past

LEMMA BackedNext ==
  ASSUME TypesOK, RowsOK, ResultsOK, QuotesOK, PlansUnique, OneSeed, FirstRunBacked,
         [TsNext]_tsVars
  PROVE  FirstRunBacked'
<1> SUFFICES ASSUME epoch' = 1, NEW p \in Planned', p.kind # "restore"
             PROVE  Backed(p)'
  BY DEF FirstRunBacked
<1>1. epoch = 1
  BY FirstRun
<1>2. CASE p \in Planned
  BY <1>1, <1>2, BackedKept DEF FirstRunBacked
<1>3. ASSUME NEW op \in TsOps, Plans(op), p = worker'[op].rec.plan
      PROVE  Backed(p)'
  <2>1. reservations \subseteq reservations'
    BY Frames, Reserved DEF Reserves
  <2>2. /\ p.op = op /\ p.epoch = 1 /\ \A c \in OutCoins(p) : FromRanges(op, c)
        /\ worker[op].pc = "reserve"
    BY <1>1, <1>3 DEF Plans, NewPlanOK, PlanOK
  <2>3. ASSUME NEW c \in OutCoins(p)
        PROVE  \E r \in reservations : /\ r.start = c[2] /\ r.id[1] = c[1]
                                       /\ r.id[2] = p.epoch /\ r.id[3] = p.op
    <3>1. PICK i \in 1 .. Len(worker[op].ranges) :
            c = <<worker[op].seed, worker[op].ranges[i]>>
      BY <2>2 DEF FromRanges
    <3>2. worker[op].seed = InitSeed /\ HasRange(reservations, op, worker[op].ranges[i])
      BY <1>1, <2>2 DEF OneSeed, Early
    <3> QED BY <2>2, <3>1, <3>2 DEF HasRange
  <2> QED BY <2>1, <2>3 DEF Backed, OutCoins
<1> QED BY <1>2, <1>3, PlannedMoves

-----------------------------------------------------------------------------
(* Results.                                                                 *)

\* A worker holds a result because it held it before or has just concluded it.
LEMMA ResultMoves ==
  ASSUME TypesOK, RowsOK, ResultsOK, QuotesOK, [TsNext]_tsVars, NEW o \in TsOps,
         worker'[o].pc \in {"handoff", "finish"}
  PROVE  \/ worker'[o] = worker[o]
         \/ Concludes(o)
         \/ /\ PutSendHandoff(o) /\ worker[o].pc = "handoff" /\ worker'[o].pc = "finish"
            /\ worker'[o].rec = worker[o].rec /\ worker'[o].result = worker[o].result
<1>1. CASE Resting \/ Drops \/ Restarts
  BY <1>1, RowConstants DEF Resting, Drops, Restarts
<1>2. CASE Creates(o)
  BY <1>2 DEF Creates
<1>3. CASE PutSendHandoff(o)
  BY <1>3, WorkMoves DEF Works
<1>4. ~Enters(o) /\ ~Prepares(o) /\ ~Plans(o) /\ ~Commits(o)
  BY DEF Enters, Prepares, Plans, Commits
<1>5. ~Writes(o) /\ ~Finishes(o)
  BY RowConstants DEF Writes, Finishes
<1> QED BY <1>1, <1>2, <1>3, <1>4, <1>5, RowCases

LEMMA ResultsInit == TsInit => ResultsOK
  BY DEF TsInit, ResultsOK, Idle

LEMMA ResultsNext ==
  ASSUME TypesOK, RowsOK, ResultsOK, QuotesOK, [TsNext]_tsVars
  PROVE  ResultsOK'
<1>1. ASSUME NEW o \in TsOps, worker'[o].pc \in {"handoff", "finish"}
      PROVE  GoodResult(o, worker'[o].rec.plan, worker'[o].result)
  <2>1. CASE worker'[o] = worker[o]
    BY <1>1, <2>1 DEF ResultsOK
  <2>2. CASE Concludes(o)
    BY <2>2, Concluded
  <2>3. CASE /\ worker[o].pc = "handoff" /\ worker'[o].rec = worker[o].rec
             /\ worker'[o].result = worker[o].result
    BY <2>3 DEF ResultsOK
  <2> QED BY <1>1, <2>1, <2>2, <2>3, ResultMoves
<1> QED BY <1>1 DEF ResultsOK

-----------------------------------------------------------------------------
(* Quotes.                                                                  *)

\* A quote is taken once prepare made it.
Taking(p) == p.quote # 0 => p.quote \in 1 .. MaxQuotes /\ quotes[p.quote] # "none"

\* A melt and its quote.
Melting(p) ==
    p.kind = "melt" => /\ quotes[p.quote] \in {"UNPAID", "PENDING", "PAID"}
                       /\ p \in done <=> quotes[p.quote] # "UNPAID"

LEMMA WirePlanned ==
  ASSUME TypesOK
  PROVE  net \subseteq Planned /\ done \subseteq Planned
  BY TsAssumption DEF TypesOK, MintTypes, Planned, Journaled, Requests

LEMMA QuotesKept ==
  ASSUME TypesOK, RowsOK, PlansUnique, QuotesOK, [TsNext]_tsVars, NEW p \in Planned
  PROVE  Taking(p)' /\ Melting(p)'
<1>1. /\ quotes \in [1 .. MaxQuotes -> QuoteStates] /\ net \subseteq Planned
      /\ done \subseteq Planned
  BY WirePlanned DEF TypesOK, MintTypes
<1>2. Taking(p) /\ Melting(p) /\ (p.kind = "melt" => p.quote # 0)
  BY PlannedOK DEF QuotesOK, Taking, Melting, PlanOK
<1>3. CASE quotes' = quotes /\ done' = done
  BY <1>2, <1>3 DEF Taking, Melting
<1>4. ASSUME NEW op \in TsOps, TsPrepare(op)
      PROVE  Taking(p)' /\ Melting(p)'
  <2> DEFINE q == worker'[op].rec.plan.quote
  <2>1. done' = done
    BY <1>4 DEF TsPrepare
  <2>2. \/ quotes' = quotes
        \/ quotes[q] = "none" /\ quotes' = [quotes EXCEPT ![q] = QuoteState(kindOf[op])]
    BY <1>4, PlanMoves
  <2>3. p.quote # 0 => quotes'[p.quote] = quotes[p.quote]
    BY <1>1, <1>2, <2>2 DEF Taking
  <2> QED BY <1>2, <2>1, <2>3 DEF Taking, Melting
<1>5. ASSUME NEW plan \in net, TsMintExecutes(plan)
      PROVE  Taking(p)' /\ Melting(p)'
  <2>1. done' = done \cup {plan} /\ plan \in Planned
    BY <1>1, <1>5 DEF TsMintExecutes
  <2>2. p.quote = plan.quote /\ p.quote # 0 => p = plan
    BY <2>1 DEF QuotesOK
  <2>3. CASE plan.kind = "mint"
    <3>1. quotes' = [quotes EXCEPT ![plan.quote] = "ISSUED"]
      BY <1>5, <2>3 DEF TsMintExecutes
    <3> QED BY <1>1, <1>2, <2>1, <2>2, <2>3, <3>1 DEF Taking, Melting
  <2>4. CASE plan.kind = "melt"
    <3>1. quotes' = [quotes EXCEPT ![plan.quote] = "PENDING"]
      BY <1>5, <2>4 DEF TsMintExecutes
    <3> QED BY <1>1, <1>2, <2>1, <2>2, <2>4, <3>1 DEF Taking, Melting
  <2>5. CASE plan.kind \notin {"mint", "melt"}
    <3>1. quotes' = quotes
      BY <1>5, <2>5 DEF TsMintExecutes
    <3> QED BY <1>2, <2>1, <2>5, <3>1 DEF Taking, Melting
  <2> QED BY <2>3, <2>4, <2>5
<1>6. ASSUME NEW plan \in done, MeltSettles(plan)
      PROVE  Taking(p)' /\ Melting(p)'
  <2>1. plan \in Planned /\ (p.quote = plan.quote /\ p.quote # 0 => p = plan)
    BY <1>1, <1>6 DEF QuotesOK
  <2>2. CASE quotes' = [quotes EXCEPT ![plan.quote] = "PAID"] /\ done' = done
    BY <1>1, <1>2, <1>6, <2>1, <2>2 DEF Taking, Melting
  <2>3. CASE quotes' = [quotes EXCEPT ![plan.quote] = "UNPAID"] /\ done' = done \ {plan}
    <3>1. plan.kind = "melt"
      BY <1>6 DEF MeltSettles
    <3> QED BY <1>1, <1>2, <2>1, <2>3, <3>1 DEF Taking, Melting
  <2> QED BY <1>6, <2>2, <2>3 DEF MeltSettles
<1> QED BY <1>3, <1>4, <1>5, <1>6, Frames

LEMMA QuotesInit == TsInit => QuotesOK
  BY DEF TsInit, QuotesOK, Planned, Journaled, Requests, Held, NoRec, Idle, Past

LEMMA QuotesNext ==
  ASSUME TypesOK, RowsOK, ResultsOK, PlansUnique, QuotesOK, [TsNext]_tsVars
  PROVE  QuotesOK'
<1>1. ASSUME NEW op \in TsOps, TsPrepare(op), Plans(op), NEW p, p = worker'[op].rec.plan
      PROVE  /\ Taking(p)' /\ Melting(p)'
             /\ p.quote # 0 => quotes[p.quote] = "none"
  <2>1. PlanOK(op, p) /\ done' = done
    BY <1>1 DEF Plans, NewPlanOK, TsPrepare
  <2>2. /\ p.kind = kindOf[op] /\ (p.kind = "melt" => p.quote # 0)
    BY <2>1 DEF PlanOK
  <2>3. p.quote # 0 => /\ p.quote \in 1 .. MaxQuotes /\ quotes[p.quote] = "none"
                       /\ quotes' = [quotes EXCEPT ![p.quote] = QuoteState(kindOf[op])]
    BY <1>1, PlanMoves
  <2>4. p.quote # 0 => quotes'[p.quote] = QuoteState(kindOf[op])
    BY <2>3 DEF TypesOK, MintTypes
  <2>5. p.quote # 0 => p \notin done
    BY <2>3, WirePlanned DEF QuotesOK
  <2>6. p.quote # 0 => p.quote \in 1 .. MaxQuotes /\ quotes'[p.quote] # "none"
    BY <2>3, <2>4 DEF QuoteState
  <2>7. p.kind = "melt" => quotes'[p.quote] = "UNPAID" /\ p \notin done'
    BY <2>1, <2>2, <2>4, <2>5 DEF QuoteState
  <2> QED BY <2>3, <2>6, <2>7 DEF Taking, Melting
<1>2. ASSUME NEW p \in Planned'
      PROVE  Taking(p)' /\ Melting(p)'
  BY <1>1, QuotesKept, PlannedMoves
<1>3. ASSUME NEW p \in Planned', NEW q \in Planned', p.quote = q.quote, p.quote # 0
      PROVE  p = q
  <2>1. ASSUME NEW a \in TsOps, NEW b \in TsOps, Plans(a), Plans(b)
        PROVE  a = b
    BY <2>1 DEF Plans, Alone
  <2>2. \A x \in Planned : x.quote = p.quote => quotes[p.quote] # "none"
    BY <1>3 DEF QuotesOK
  <2>3. CASE p \in Planned /\ q \in Planned
    BY <1>3, <2>3 DEF QuotesOK
  <2>4. ASSUME NEW x \in Planned', x \notin Planned
        PROVE  \E op \in TsOps : /\ Plans(op) /\ x = worker'[op].rec.plan
                                 /\ x.quote # 0 => quotes[x.quote] = "none"
    BY <1>1, <2>4, PlannedMoves
  <2> QED BY <1>3, <2>1, <2>2, <2>3, <2>4
<1> QED BY <1>2, <1>3 DEF QuotesOK, Taking, Melting

-----------------------------------------------------------------------------
(* Signatures.                                                              *)

LEMMA SettledKept ==
  ASSUME TypesOK, RowsOK, PlansUnique, QuotesOK, [TsNext]_tsVars, NEW p \in Planned, Settled(p)
  PROVE  Settled(p)'
<1>1. /\ quotes \in [1 .. MaxQuotes -> QuoteStates] /\ net \subseteq Planned
      /\ done \subseteq Planned /\ p \in done
  BY WirePlanned DEF TypesOK, MintTypes, Settled
<1>2. p.kind = "melt" => /\ p.quote # 0 /\ p.quote \in 1 .. MaxQuotes
                         /\ quotes[p.quote] = "PAID"
  BY PlannedOK DEF QuotesOK, PlanOK, Settled
<1>3. CASE quotes' = quotes /\ done' = done
  BY <1>3 DEF Settled
<1>4. ASSUME NEW op \in TsOps, TsPrepare(op)
      PROVE  Settled(p)'
  <2> DEFINE q == worker'[op].rec.plan.quote
  <2>1. done' = done
    BY <1>4 DEF TsPrepare
  <2>2. \/ quotes' = quotes
        \/ quotes[q] = "none" /\ quotes' = [quotes EXCEPT ![q] = QuoteState(kindOf[op])]
    BY <1>4, PlanMoves
  <2>3. p.kind = "melt" => quotes'[p.quote] = quotes[p.quote]
    BY <1>1, <1>2, <2>2
  <2> QED BY <1>1, <1>2, <2>1, <2>3 DEF Settled
<1>5. ASSUME NEW plan \in net, TsMintExecutes(plan)
      PROVE  Settled(p)'
  <2>1. done' = done \cup {plan} /\ plan \in Planned /\ plan # p
    BY <1>1, <1>5 DEF TsMintExecutes
  <2>2. p.kind = "melt" => p.quote # plan.quote
    BY <1>2, <2>1 DEF QuotesOK
  <2>3. \/ quotes' = quotes
        \/ quotes' = [quotes EXCEPT ![plan.quote] = "ISSUED"]
        \/ quotes' = [quotes EXCEPT ![plan.quote] = "PENDING"]
    BY <1>5 DEF TsMintExecutes
  <2> QED BY <1>1, <1>2, <2>1, <2>2, <2>3 DEF Settled
<1>6. ASSUME NEW plan \in done, MeltSettles(plan)
      PROVE  Settled(p)'
  <2>1. /\ quotes[plan.quote] = "PENDING" /\ plan.kind = "melt"
        /\ \/ quotes' = [quotes EXCEPT ![plan.quote] = "PAID"] /\ done' = done
           \/ quotes' = [quotes EXCEPT ![plan.quote] = "UNPAID"] /\ done' = done \ {plan}
    BY <1>6 DEF MeltSettles
  <2>2. p # plan /\ (p.kind = "melt" => p.quote # plan.quote)
    BY <1>2, <2>1
  <2> QED BY <1>1, <1>2, <2>1, <2>2 DEF Settled
<1> QED BY <1>3, <1>4, <1>5, <1>6, Frames

LEMMA SignMoves ==
  ASSUME TypesOK, NEW plan, NEW state \in CoinStates, Sign(plan, state), NEW c \in Coins
  PROVE  coin'[c].state = IF c \in plan.inputs THEN state
                          ELSE IF c \in OutCoins(plan) THEN "UNSPENT" ELSE coin[c].state
  BY DEF TypesOK, MintTypes, Sign

\* Known coins stay known; a new one is an output of a request executed for good.
LEMMA CoinMoves ==
  ASSUME TypesOK, RowsOK, PlansUnique, QuotesOK, SignedOK, [TsNext]_tsVars, NEW c \in Coins
  PROVE  /\ coin[c].state # "none" => coin'[c].state # "none"
         /\ coin'[c].state # "none" =>
               \/ coin[c].state # "none"
               \/ \E p \in done' : Settled(p)' /\ c \in OutCoins(p)
         /\ \A p \in done' \ done : c \in p.inputs => coin'[c].state # "none"
<1>0. coin \in [Coins -> [state : CoinStates, amount : Int]]
  BY DEF TypesOK, MintTypes
<1>a. "SPENT" \in CoinStates
  BY DEF CoinStates
<1>1. CASE coin' = coin /\ done' = done
  BY <1>1
<1>2. ASSUME NEW op \in TsOps, Redeem(op)
      PROVE  /\ coin[c].state # "none" <=> coin'[c].state # "none"
             /\ done' = done
  <2>1. /\ coin' = [coin EXCEPT ![handoffs[op].token].state = "SPENT"] /\ done' = done
        /\ coin[handoffs[op].token].state = "UNSPENT"
    BY <1>2 DEF Redeem
  <2> QED BY <1>0, <2>1
<1>3. ASSUME NEW plan \in net, TsMintExecutes(plan)
      PROVE  /\ coin[c].state # "none" => coin'[c].state # "none"
             /\ coin'[c].state # "none" =>
                   \/ coin[c].state # "none"
                   \/ \E p \in done' : Settled(p)' /\ c \in OutCoins(p)
             /\ \A p \in done' \ done : c \in p.inputs => coin'[c].state # "none"
  <2>1. done' = done \cup {plan} /\ InputsAre(plan, "UNSPENT")
    BY <1>3 DEF TsMintExecutes
  <2>2. c \in plan.inputs => coin[c].state = "UNSPENT"
    BY <2>1 DEF InputsAre
  <2>3. CASE plan.kind = "melt"
    <3>1. coin' = [x \in Coins |-> IF x \in plan.inputs
                     THEN [coin[x] EXCEPT !.state = "PENDING"] ELSE coin[x]]
      BY <1>3, <2>3 DEF TsMintExecutes
    <3>2. coin'[c].state = IF c \in plan.inputs THEN "PENDING" ELSE coin[c].state
      BY <1>0, <3>1
    <3> QED BY <2>1, <2>2, <3>2
  <2>4. CASE plan.kind # "melt"
    <3>1. Sign(plan, "SPENT")
      BY <1>3, <2>4 DEF TsMintExecutes
    <3>2. coin'[c].state = IF c \in plan.inputs THEN "SPENT"
                           ELSE IF c \in OutCoins(plan) THEN "UNSPENT" ELSE coin[c].state
      BY <1>a, <3>1, SignMoves
    <3>3. plan \in done' /\ Settled(plan)'
      BY <2>1, <2>4 DEF Settled
    <3> QED BY <2>1, <2>2, <3>2, <3>3
  <2> QED BY <2>3, <2>4
<1>4. ASSUME NEW plan \in done, MeltSettles(plan)
      PROVE  /\ coin[c].state # "none" => coin'[c].state # "none"
             /\ coin'[c].state # "none" =>
                   \/ coin[c].state # "none"
                   \/ \E p \in done' : Settled(p)' /\ c \in OutCoins(p)
             /\ done' \subseteq done
  <2>1. c \in plan.inputs => coin[c].state # "none"
    BY DEF SignedOK
  <2>2. CASE /\ Sign(plan, "SPENT") /\ done' = done
             /\ quotes' = [quotes EXCEPT ![plan.quote] = "PAID"]
    <3>1. coin'[c].state = IF c \in plan.inputs THEN "SPENT"
                           ELSE IF c \in OutCoins(plan) THEN "UNSPENT" ELSE coin[c].state
      BY <1>a, <2>2, SignMoves
    <3>2. Settled(plan)'
      <4>1. plan \in done' /\ plan.kind = "melt"
        BY <1>4, <2>2 DEF MeltSettles
      <4>2. plan.quote \in 1 .. MaxQuotes
        BY <4>1, WirePlanned, PlannedOK DEF QuotesOK, PlanOK
      <4>3. quotes'[plan.quote] = "PAID"
        BY <2>2, <4>2 DEF TypesOK, MintTypes
      <4> QED BY <4>1, <4>3 DEF Settled
    <3> QED BY <2>1, <2>2, <3>1, <3>2
  <2>3. CASE Sign([plan EXCEPT !.outs = {}], "SPENT") /\ done' = done
    <3> DEFINE bare == [plan EXCEPT !.outs = {}]
    <3>1. bare.inputs = plan.inputs /\ OutCoins(bare) = {}
      BY DEF TypesOK, MintTypes, TsPlans, OutCoins
    <3>2. Sign(bare, "SPENT")
      BY <2>3
    <3> HIDE DEF bare
    <3>3. coin'[c].state = IF c \in bare.inputs THEN "SPENT"
                           ELSE IF c \in OutCoins(bare) THEN "UNSPENT" ELSE coin[c].state
      BY <1>a, <3>2, SignMoves
    <3> QED BY <2>1, <2>3, <3>1, <3>3
  <2>4. CASE /\ coin' = [x \in Coins |-> IF x \in plan.inputs
                          THEN [coin[x] EXCEPT !.state = "UNSPENT"] ELSE coin[x]]
             /\ done' = done \ {plan}
    <3>1. coin'[c].state = IF c \in plan.inputs THEN "UNSPENT" ELSE coin[c].state
      BY <1>0, <2>4
    <3> QED BY <2>1, <2>4, <3>1
  <2> QED BY <1>4, <2>2, <2>3, <2>4 DEF MeltSettles
<1> QED BY <1>1, <1>2, <1>3, <1>4, Frames

LEMMA SignedInit == TsInit => SignedOK
  BY DEF TsInit, SignedOK

LEMMA SignedNext ==
  ASSUME TypesOK, RowsOK, PlansUnique, QuotesOK, SignedOK, [TsNext]_tsVars
  PROVE  SignedOK'
<1>1. ASSUME NEW c \in Coins, coin'[c].state # "none"
      PROVE  c \in {<<InitSeed, 0>>, Token} \/ \E p \in done' : Settled(p)' /\ c \in OutCoins(p)
  <2>1. CASE coin[c].state # "none"
    <3>1. c \in {<<InitSeed, 0>>, Token} \/ \E p \in done : Settled(p) /\ c \in OutCoins(p)
      BY <2>1 DEF SignedOK
    <3>2. ASSUME NEW p \in done, Settled(p)
          PROVE  p \in done' /\ Settled(p)'
      BY <3>2, SettledKept, WirePlanned DEF Settled
    <3> QED BY <3>1, <3>2
  <2> QED BY <1>1, <2>1, CoinMoves
<1>2. ASSUME NEW p \in done', NEW c \in p.inputs
      PROVE  coin'[c].state # "none"
  <2>1. c \in Coins
    BY TypesNext, DoneMoves DEF TypesOK, MintTypes, TsPlans
  <2> QED BY <2>1, CoinMoves DEF SignedOK
<1> QED BY <1>1, <1>2 DEF SignedOK

-----------------------------------------------------------------------------
(* Successes.                                                               *)

LEMMA RealKept ==
  ASSUME TypesOK, RowsOK, PlansUnique, QuotesOK, [TsNext]_tsVars, NEW p \in Planned, Real(p)
  PROVE  Real(p)'
<1>1. CASE Settled(p)
  BY <1>1, SettledKept DEF Real
<1>2. CASE ~ Backed(p)
  BY <1>2, BackedKept DEF Real
<1>3. ASSUME NEW q \in done, Settled(q), OutCoins(q) \cap OutCoins(p) # {}, ~ Backed(q)
      PROVE  Real(p)'
  <2>1. Settled(q)' /\ ~ Backed(q)'
    BY <1>3, SettledKept, BackedKept, WirePlanned
  <2>2. q \in done' /\ (OutCoins(q) \cap OutCoins(p))' # {}
    BY <1>3, <2>1 DEF Settled, OutCoins
  <2> QED BY <2>1, <2>2 DEF Real
<1> QED BY <1>1, <1>2, <1>3 DEF Real

\* Two requests made from reserved ranges that share an output are the same.
LEMMA OutputsTell ==
  ASSUME PlansUnique, RangesOK, NEW p \in Journaled, NEW q \in Journaled,
         Backed(p), Backed(q), OutCoins(p) \cap OutCoins(q) # {}
  PROVE  p = q
<1>1. PICK c : c \in OutCoins(p) /\ c \in OutCoins(q)
  OBVIOUS
<1>2. PICK r \in reservations : /\ r.start = c[2] /\ r.id[1] = c[1]
                                /\ r.id[2] = p.epoch /\ r.id[3] = p.op
  BY <1>1 DEF Backed
<1>3. PICK s \in reservations : /\ s.start = c[2] /\ s.id[1] = c[1]
                                /\ s.id[2] = q.epoch /\ s.id[3] = q.op
  BY <1>1 DEF Backed
<1>4. r = s
  BY <1>2, <1>3 DEF RangesOK
<1> QED BY <1>2, <1>3, <1>4 DEF PlansUnique

\* Outputs the mint gives back were signed for the request that asks for them.
LEMMA RestoredReal ==
  ASSUME PlansUnique, RangesOK, SignedOK, NEW plan \in Journaled, plan.outs # {},
         RestoresAll(plan), done \subseteq Journaled
  PROVE  Real(plan)
<1>1. PICK o \in plan.outs : coin[o[1]].state # "none"
  BY DEF RestoresAll
<1>2. o[1] \in OutCoins(plan) /\ plan \in TsPlans
  BY DEF OutCoins, PlansUnique
<1>3. o[1] \in Coins /\ o[1] # Token
  BY <1>2, PlanCoins
<1>4. CASE o[1] = <<InitSeed, 0>>
  <2>1. ~ Backed(plan)
    BY <1>2, <1>4 DEF Backed, RangesOK
  <2> QED BY <2>1 DEF Real
<1>5. ASSUME NEW p \in done, Settled(p), o[1] \in OutCoins(p)
      PROVE  Real(plan)
  <2>1. OutCoins(p) \cap OutCoins(plan) # {}
    BY <1>2, <1>5
  <2>2. Backed(p) /\ Backed(plan) => p = plan
    BY <2>1, OutputsTell
  <2> QED BY <1>5, <2>1, <2>2 DEF Real
<1> QED BY <1>1, <1>3, <1>4, <1>5 DEF SignedOK

LEMMA ConcludedReal ==
  ASSUME TypesOK, RowsOK, PlansUnique, RangesOK, QuotesOK, SignedOK, NEW op \in TsOps,
         Concludes(op), worker'[op].result.status = "succeeded",
         kindOf[op] \notin {"restore", "reconcile"}
  PROVE  Real(worker[op].rec.plan)
<1> DEFINE plan == worker[op].rec.plan
<1> SUFFICES Real(plan)
  OBVIOUS
<1>1. PICK result : Conclusion(op, result) /\ result.status = "succeeded"
  BY Concluded
<1>2. worker[op].pc \in Past /\ PlanOK(op, plan)
  BY Concluded DEF RowsOK, WorkOK
<1>3. plan \in Journaled /\ plan \in Planned /\ done \subseteq Journaled
  BY <1>2, TsAssumption DEF Journaled, Held, Planned, Requests, TypesOK, MintTypes
<1>4. plan.kind = kindOf[op] /\ plan.kind \in Kinds /\ plan.outs # {}
  BY <1>2 DEF PlanOK, TsPlans
<1>5. plan.kind = "melt" => /\ quotes[plan.quote] \in {"UNPAID", "PENDING", "PAID"}
                            /\ plan \in done <=> quotes[plan.quote] # "UNPAID"
  BY <1>3 DEF QuotesOK
<1> HIDE DEF plan
<1>6. \A seen : TsAmbiguous(seen).status # "succeeded" /\ TsBlocked(seen).status # "succeeded"
  BY DEF TsAmbiguous, TsBlocked, TsResult
<1>7. RestoresAll(plan) => Real(plan)
  BY <1>3, <1>4, RestoredReal
<1>8. CASE result \in SubmitResults(op, plan)
  <2>1. plan \in done /\ result \in ExecutedResults(op, plan)
    BY <1>4, <1>8 DEF SubmitResults
  <2>2. CASE plan.kind = "melt"
    <3>1. quotes[plan.quote] # "PENDING"
      BY <1>1, <1>6, <2>1, <2>2 DEF ExecutedResults, Transfer
    <3> QED BY <1>5, <2>1, <2>2, <3>1 DEF Real, Settled
  <2> QED BY <2>1, <2>2 DEF Real, Settled
<1>9. CASE result \in RecoverResults(op, plan)
  <2>1. CASE plan.kind \in Transfer
    <3>1. result \in RecoverTransferResults(op, plan)
      BY <1>1, <1>6, <1>9, <2>1 DEF RecoverResults, Transfer
    <3> QED BY <1>1, <1>6, <1>7, <3>1 DEF RecoverTransferResults
  <2>2. CASE plan.kind = "receive"
    <3>1. result \in RecoverReceiveResults(plan)
      BY <1>1, <1>6, <1>9, <2>2 DEF RecoverResults, Transfer
    <3> QED BY <1>1, <1>6, <1>7, <3>1 DEF RecoverReceiveResults
  <2>3. CASE plan.kind = "mint"
    <3>1. result \in RecoverMintResults(plan)
      BY <1>1, <1>6, <1>9, <2>3 DEF RecoverResults, Transfer
    <3> QED BY <1>1, <1>6, <1>7, <3>1 DEF RecoverMintResults
  <2>4. CASE plan.kind = "melt"
    <3>1. result \in RecoverMeltResults(op, plan)
      BY <1>1, <1>6, <1>9, <2>4 DEF RecoverResults, Transfer
    <3>2. quotes[plan.quote] = "PAID"
      BY <1>1, <1>5, <1>6, <2>4, <3>1 DEF RecoverMeltResults
    <3> QED BY <1>5, <2>4, <3>2 DEF Real, Settled
  <2> QED BY <1>4, <2>1, <2>2, <2>3, <2>4 DEF Kinds, Transfer
<1> QED BY <1>1, <1>8, <1>9 DEF Conclusion, plan

\* The token in the outbox changes only when its worker hands it off.
LEMMA TokenMoves ==
  ASSUME TypesOK, [TsNext]_tsVars, epoch' = epoch, NEW o \in TsOps, ~ PutSendHandoff(o)
  PROVE  handoffs'[o].token = handoffs[o].token
<1>1. handoffs \in [TsOps -> OutboxRows]
  BY DEF TypesOK, JournalTypes, OutboxRows
<1>2. ASSUME NEW op \in TsOps, PutSendHandoff(op)
      PROVE  handoffs'[o].token = handoffs[o].token
  <2>1. op # o /\ handoffs' = [handoffs EXCEPT ![op].token = worker[op].rec.plan.give]
    BY <1>2 DEF PutSendHandoff
  <2> QED BY <1>1, <2>1
<1>3. ASSUME NEW op \in TsOps, NEW k \in Readers, ClaimSendHandoff(k, op) \/ AckSendHandoff(k, op)
      PROVE  handoffs'[o].token = handoffs[o].token
  <2>1. handoffs' = [handoffs EXCEPT ![op].claimedBy = k]
        \/ handoffs' = [handoffs EXCEPT ![op].acked = TRUE]
    BY <1>3 DEF ClaimSendHandoff, AckSendHandoff
  <2> QED BY <1>1, <2>1 DEF OutboxRows
<1>4. ASSUME NEW s \in Seeds, TsResetStore(s)
      PROVE  FALSE
  <2>1. epoch \in Nat /\ epoch' = epoch + 1
    BY <1>4 DEF TsResetStore, TypesOK, JournalTypes
  <2> QED BY <2>1
<1> QED BY <1>2, <1>3, <1>4, Frames

LEMMA SuccessInit == TsInit => SuccessOK
  BY DEF TsInit, SuccessOK, RowReal, WorkReal, NoRec, Idle

LEMMA SuccessNext ==
  ASSUME TypesOK, RowsOK, ResultsOK, PlansUnique, RangesOK, QuotesOK, SignedOK, SuccessOK,
         [TsNext]_tsVars
  PROVE  SuccessOK'
<1>0. kindOf' = kindOf /\ epoch \in Nat /\ epoch' \in {epoch, epoch + 1}
  BY Frames DEF TypesOK, JournalTypes, TsResetStore
<1>1. ASSUME NEW o \in TsOps, worker[o].pc \in Past
      PROVE  worker[o].rec.plan \in Planned /\ PlanOK(o, worker[o].rec.plan)
  BY <1>1 DEF RowsOK, WorkOK, Planned, Journaled, Held
<1>2. ASSUME NEW o \in TsOps, recs[o].phase \in Terminal
      PROVE  recs[o].plan \in Planned /\ PlanOK(o, recs[o].plan)
  <2>1. PlanOK(o, recs[o].plan)
    BY <1>2 DEF RowsOK, RecOK, Terminal
  <2> QED BY <2>1, TsAssumption DEF PlanOK, Planned, Journaled, Requests
<1>3. \A p \in Planned : Real(p) => Real(p)'
  BY RealKept
<1>4. ASSUME NEW o \in TsOps, recs'[o] = recs[o], epoch' = epoch
      PROVE  RowReal(o)'
  <2> SUFFICES ASSUME recs[o].phase = "succeeded" PROVE RowReal(o)'
    BY <1>4 DEF RowReal
  <2>1. recs[o].plan \in Planned /\ PlanOK(o, recs[o].plan)
    BY <1>2 DEF Terminal
  <2>2. ASSUME kindOf[o] = "send", recs[o].plan.epoch = epoch
        PROVE  handoffs'[o].token = recs[o].plan.give
    <3>1. handoffs[o].token = recs[o].plan.give /\ recs[o].plan.give # NoToken
      BY <2>1, <2>2 DEF SuccessOK, RowReal, PlanOK
    <3>2. CASE PutSendHandoff(o)
      BY <3>1, <3>2 DEF PutSendHandoff, TypesOK, JournalTypes
    <3> QED BY <1>4, <3>1, <3>2, TokenMoves
  <2>3. kindOf[o] \notin {"restore", "reconcile"} => Real(recs[o].plan)'
    BY <1>3, <1>4, <2>1 DEF SuccessOK, RowReal
  <2> QED BY <1>0, <1>4, <2>2, <2>3 DEF RowReal
<1>5. ASSUME NEW o \in TsOps, TsFinish(o), Finishes(o)
      PROVE  RowReal(o)'
  <2> SUFFICES ASSUME recs'[o].phase = "succeeded" PROVE RowReal(o)'
    BY DEF RowReal
  <2>1. /\ worker[o].pc = "finish" /\ worker[o].result.status = "succeeded" /\ epoch' = epoch
        /\ recs'[o].plan = worker[o].rec.plan
    BY <1>5 DEF Finishes
  <2>2. handoffs' = handoffs
    BY <1>5 DEF TsFinish
  <2>3. kindOf[o] \notin {"restore", "reconcile"} => Real(worker[o].rec.plan)
    BY <2>1 DEF SuccessOK, WorkReal
  <2>4. worker[o].rec.plan \in Planned
    BY <1>1, <2>1 DEF Past
  <2>5. kindOf[o] \notin {"restore", "reconcile"} => Real(recs[o].plan)'
    BY <1>3, <2>1, <2>3, <2>4
  <2>6. kindOf[o] = "send" /\ recs'[o].plan.epoch = epoch => handoffs'[o].token = recs'[o].plan.give
    BY <2>1, <2>2 DEF SuccessOK, WorkReal
  <2> QED BY <1>0, <2>1, <2>5, <2>6 DEF RowReal
<1>6. ASSUME NEW o \in TsOps
      PROVE  RowReal(o)'
  <2>1. CASE recs'[o].phase # "succeeded"
    BY <2>1 DEF RowReal
  <2>2. CASE Resting \/ Drops
    BY <1>4, <2>2 DEF Resting, Drops
  <2>3. CASE Restarts
    BY <2>1, <2>3, RowConstants DEF Restarts
  <2>4. CASE recs'[o] = recs[o] /\ epoch' = epoch
    BY <1>4, <2>4
  <2>5. CASE Prepares(o) \/ Plans(o) \/ Works(o)
    BY <1>4, <2>5 DEF Prepares, Plans, Works
  <2>6. CASE Creates(o) \/ Enters(o) \/ Commits(o) \/ Writes(o)
    <3>1. recs'[o].phase # "succeeded"
      BY <2>6 DEF Creates, Enters, Commits, Writes, Created, NoRec, Running
    <3> QED BY <2>1, <3>1
  <2> QED BY <1>5, <2>2, <2>3, <2>4, <2>5, <2>6, RowCases
<1>7. ASSUME NEW o \in TsOps
      PROVE  WorkReal(o)'
  <2> SUFFICES ASSUME worker'[o].pc \in {"handoff", "finish"},
                      worker'[o].result.status = "succeeded"
               PROVE  WorkReal(o)'
    BY DEF WorkReal
  <2>1. CASE worker'[o] = worker[o]
    <3>1. worker[o].rec.plan \in Planned /\ PlanOK(o, worker[o].rec.plan)
      BY <1>1, <2>1 DEF Past
    <3>2. kindOf[o] \notin {"restore", "reconcile"} => Real(worker[o].rec.plan)'
      BY <1>3, <2>1, <3>1 DEF SuccessOK, WorkReal
    <3>3. ASSUME worker[o].pc = "finish", kindOf[o] = "send", worker[o].rec.plan.epoch = epoch'
          PROVE  handoffs'[o].token = worker[o].rec.plan.give
      <4>1. epoch' = epoch
        <5>1. worker[o].rec.plan.epoch <= epoch
          BY <3>1 DEF PlanOK
        <5> QED BY <1>0, <3>3, <5>1
      <4>2. handoffs[o].token = worker[o].rec.plan.give
        BY <2>1, <3>3, <4>1 DEF SuccessOK, WorkReal
      <4>3. ~ PutSendHandoff(o)
        BY <3>3 DEF PutSendHandoff, At
      <4> QED BY <4>1, <4>2, <4>3, TokenMoves
    <3> QED BY <1>0, <2>1, <3>2, <3>3 DEF WorkReal
  <2>2. CASE Concludes(o)
    <3>1. worker'[o].rec = worker[o].rec /\ worker[o].pc \in Past
      BY <2>2, Concluded
    <3>2. worker[o].rec.plan \in Planned /\ PlanOK(o, worker[o].rec.plan)
      BY <1>1, <3>1
    <3>3. kindOf[o] \notin {"restore", "reconcile"} => Real(worker[o].rec.plan)
      BY <2>2, ConcludedReal
    <3>4. kindOf[o] \notin {"restore", "reconcile"} => Real(worker[o].rec.plan)'
      BY <1>3, <3>1, <3>2, <3>3
    <3>5. kindOf[o] = "send" => worker'[o].pc = "handoff"
      BY <2>2, <3>2, Concluded DEF PlanOK
    <3> QED BY <1>0, <3>4, <3>5 DEF WorkReal
  <2>3. CASE /\ PutSendHandoff(o) /\ worker[o].pc = "handoff"
             /\ worker'[o].rec = worker[o].rec /\ worker'[o].result = worker[o].result
    <3>1. worker[o].rec.plan \in Planned
      BY <1>1, <2>3 DEF Past
    <3>2. kindOf[o] \notin {"restore", "reconcile"} => Real(worker[o].rec.plan)'
      BY <1>3, <2>3, <3>1 DEF SuccessOK, WorkReal
    <3>3. handoffs'[o].token = worker'[o].rec.plan.give
      BY <2>3 DEF PutSendHandoff, TypesOK, JournalTypes
    <3> QED BY <1>0, <3>2, <3>3 DEF WorkReal
  <2> QED BY <2>1, <2>2, <2>3, ResultMoves
<1> QED BY <1>6, <1>7 DEF SuccessOK

-----------------------------------------------------------------------------
(* The wallet.                                                              *)

\* A row that is called succeeded was so before, or its worker finishes.
LEMMA RowsSucceed ==
  ASSUME TypesOK, RowsOK, ResultsOK, QuotesOK, [TsNext]_tsVars, NEW o \in TsOps,
         recs'[o].phase = "succeeded"
  PROVE  recs'[o] = recs[o] \/ (TsFinish(o) /\ Finishes(o))
<1>1. CASE Resting \/ Drops \/ Restarts
  BY <1>1, RowConstants DEF Resting, Drops, Restarts
<1>2. CASE Prepares(o) \/ Plans(o) \/ Works(o)
  BY <1>2 DEF Prepares, Plans, Works
<1>3. ~Creates(o) /\ ~Commits(o)
  BY RowConstants DEF Creates, Commits
<1>4. ~Enters(o)
  BY DEF Enters, Running
<1>5. ~Writes(o)
  BY DEF Writes, Running
<1> QED BY <1>1, <1>2, <1>3, <1>4, <1>5, RowCases

\* Without a reset a row keeps its plan.
LEMMA PlanStays ==
  ASSUME TypesOK, RowsOK, ResultsOK, QuotesOK, [TsNext]_tsVars, NEW o \in TsOps,
         epoch' = epoch, recs[o].plan # NoPlan
  PROVE  recs'[o].plan = recs[o].plan
<1>1. epoch' # epoch + 1
  BY DEF TypesOK, JournalTypes
<1>2. worker[o].pc \in Past => recs[o].plan \in {NoPlan, worker[o].rec.plan}
  BY DEF RowsOK, WorkOK
<1>3. ~ Commits(o)
  BY DEF Commits, RowsOK, WorkOK
<1> QED BY <1>1, <1>2, <1>3, RowSteps

LEMMA ReconcileInit == TsInit => ReconcileOK
  BY TsAssumption DEF TsInit, ReconcileOK, Planned, Journaled, Requests, Held, NoRec, Idle, Past

LEMMA ReconcileNext ==
  ASSUME TypesOK, RowsOK, ResultsOK, PlansUnique, QuotesOK, ReconcileOK, [TsNext]_tsVars
  PROVE  ReconcileOK'
<1>0. kindOf' = kindOf /\ epoch \in Nat /\ epoch' \in {epoch, epoch + 1} /\ Target \in TsOps
  BY Frames, TsAssumption DEF TypesOK, JournalTypes, TsResetStore
<1>1. ASSUME NEW p \in Planned', p.kind = "reconcile", p.epoch = epoch'
      PROVE  recs'[Target].plan # NoPlan /\ p.inputs = recs'[Target].plan.inputs
  <2>1. CASE p \in Planned
    <3>1. p.epoch <= epoch /\ p.epoch \in Nat
      BY <2>1, PlannedOK DEF PlanOK, TsPlans
    <3>2. epoch' = epoch
      BY <1>0, <1>1, <3>1
    <3>3. recs[Target].plan # NoPlan /\ p.inputs = recs[Target].plan.inputs
      BY <1>1, <2>1, <3>2 DEF ReconcileOK
    <3> QED BY <1>0, <3>2, <3>3, PlanStays
  <2>2. ASSUME NEW op \in TsOps, Plans(op), p = worker'[op].rec.plan
        PROVE  recs'[Target].plan # NoPlan /\ p.inputs = recs'[Target].plan.inputs
    BY <1>1, <2>2 DEF Plans, NewPlanOK
  <2> QED BY <2>1, <2>2, PlannedMoves
<1>2. ASSUME kindOf[Target] = "reconcile"
      PROVE  recs'[Target].plan = NoPlan /\ worker'[Target].pc \in Early \cup {"idle"}
  <2>1. recs[Target].plan = NoPlan /\ worker[Target].pc \in Early \cup {"idle"}
    BY <1>2 DEF ReconcileOK
  <2>2. worker[Target].pc \notin Past /\ worker[Target].pc # "prepared"
    BY <2>1 DEF Early, Past
  <2>3. recs'[Target].plan = NoPlan
    BY <1>0, <2>1, <2>2, RowSteps DEF Commits
  <2>4. ~ Plans(Target)
    BY <1>0, <1>2, <2>1 DEF Plans, NewPlanOK, PlanOK
  <2>5. CASE Resting \/ Drops \/ Restarts
    <3>1. worker'[Target] = worker[Target] \/ worker'[Target].pc = "idle"
      BY <1>0, <2>5, RowConstants DEF Resting, Drops, Restarts
    <3> QED BY <2>1, <2>3, <3>1
  <2>6. CASE Creates(Target) \/ Prepares(Target)
    BY <2>1, <2>3, <2>6 DEF Creates, Prepares, Early
  <2>7. CASE Enters(Target)
    <3>1. recs[Target].phase \notin Running
      BY <1>0, <2>1, TsAssumption DEF RowsOK, RecOK, PlanOK, Running
    <3>2. worker'[Target].pc \in {"prepare", "prepared"} \cup Early
      BY <2>7, <3>1 DEF Enters, Early
    <3> QED BY <2>3, <2>7, <3>1, <3>2 DEF Enters, Early
  <2>8. ~Commits(Target) /\ ~Writes(Target) /\ ~Works(Target)
    BY <2>2 DEF Commits, Writes, Works
  <2>9. ~Finishes(Target)
    BY <2>2 DEF Finishes, Past
  <2>10. worker'[Target].pc \in Early \cup {"idle"}
    BY <1>0, <2>1, <2>4, <2>5, <2>6, <2>7, <2>8, <2>9, RowCases
  <2> QED BY <2>3, <2>10
<1> QED BY <1>0, <1>1, <1>2 DEF ReconcileOK

\* Reservations keep their owners while no row with a reservation succeeds.
LEMMA OwnedKept ==
  ASSUME TypesOK, RowsOK, ResultsOK, QuotesOK, [TsNext]_tsVars, epoch' = epoch, NEW c \in Coins,
         Owned(c), proofs'[c] = proofs[c],
         \A o \in TsOps : /\ proofs[c].by = o /\ TsFinish(o) /\ kindOf[o] \in Spends
                          /\ c \in recs[o].plan.inputs /\ recs[o].plan # NoPlan
                          => recs'[o].phase # "succeeded"
  PROVE  Owned(c)'
<1>0. kindOf' = kindOf
  BY Frames
<1>1. CASE proofs[c].by = NoOp /\ proofs[c].bucket = "recoverable"
  BY <1>1 DEF Owned
<1>2. CASE /\ proofs[c].by # NoOp
           /\ kindOf[proofs[c].by] \in Spends
           /\ recs[proofs[c].by].plan # NoPlan
           /\ c \in recs[proofs[c].by].plan.inputs
           /\ recs[proofs[c].by].phase # "succeeded"
  <2> DEFINE o == proofs[c].by
  <2>1. o \in TsOps
    BY <1>2 DEF TypesOK, JournalTypes, Proofs
  <2>2. recs'[o].plan = recs[o].plan
    BY <1>2, <2>1, PlanStays
  <2>3. recs'[o].phase # "succeeded"
    BY <1>2, <2>1, RowsSucceed
  <2> QED BY <1>0, <1>2, <2>2, <2>3 DEF Owned
<1>3. CASE proofs[c].by = Target /\ LateReconcile(c)
  <2>1. PICK o \in TsOps : /\ recs[o].plan # NoPlan /\ recs[o].plan.kind = "reconcile"
                           /\ recs[o].plan.epoch # epoch /\ c \in recs[o].plan.inputs
    BY <1>3 DEF LateReconcile
  <2>2. recs'[o].plan = recs[o].plan
    BY <2>1, PlanStays
  <2>3. LateReconcile(c)'
    BY <2>1, <2>2 DEF LateReconcile
  <2> QED BY <1>3, <2>3 DEF Owned
<1> QED BY <1>1, <1>2, <1>3 DEF Owned

\* The three parts of WalletOK.
TokenOut == proofs[Token] = NoProof
PendingOwned == \A c \in Coins : proofs[c].state = "PENDING" => Owned(c)
SpentOnSuccess ==
    \A op \in TsOps : recs[op].phase = "succeeded" /\ kindOf[op] \in Spends =>
        \A c \in recs[op].plan.inputs : proofs[c].state = "SPENT"

LEMMA WalletParts == WalletOK <=> TokenOut /\ PendingOwned /\ SpentOnSuccess
  BY DEF WalletOK, TokenOut, PendingOwned, SpentOnSuccess

LEMMA WalletInit == TsInit => WalletOK
<1> SUFFICES ASSUME TsInit PROVE WalletOK
  OBVIOUS
<1>1. Token \in Coins /\ Token # <<InitSeed, 0>>
  BY ConstantTypes, TsAssumption DEF Coins
<1> QED BY <1>1 DEF TsInit, WalletOK, NoRec, NoProof, Fresh

\* A commit neither touches the token nor moves a spent proof.
LEMMA CommitKeeps ==
  ASSUME TypesOK, WalletOK, NEW op \in TsOps, NEW rec, NEW add, NEW update,
         CanCommit(op, rec, add, update), Token \notin DOMAIN add,
         proofs' = ApplyProofChanges(add, update)
  PROVE  /\ TokenOut'
         /\ \A c \in Coins : proofs[c].state = "SPENT" => proofs'[c].state = "SPENT"
<1>1. Token \in Coins
  BY DEF Coins
<1>2. TokenOut'
  <2>1. \A u \in update : u.coin # Token
    BY DEF CanCommit, WalletOK
  <2>2. proofs'[Token] = proofs[Token]
    BY <1>1, <2>1, Applied
  <2> QED BY <2>2 DEF TokenOut, WalletOK
<1>3. ASSUME NEW c \in Coins, proofs[c].state = "SPENT"
      PROVE  proofs'[c].state = "SPENT"
  <2>1. \A u \in update : u.coin = c => u.state = "SPENT"
    BY <1>3 DEF CanCommit, ValidProofTransition
  <2>2. c \in DOMAIN add => add[c] = proofs[c]
    <3>1. proofs[c] # NoProof
      BY <1>3 DEF NoProof
    <3> QED BY <3>1 DEF CanCommit
  <2> QED BY <1>3, <2>1, <2>2, Applied
<1> QED BY <1>2, <1>3

\* Spent inputs of the rows that had succeeded before stay spent.
LEMMA SpentKept ==
  ASSUME TypesOK, RowsOK, WalletOK, kindOf' = kindOf, NEW o \in TsOps, recs'[o] = recs[o],
         recs'[o].phase = "succeeded", kindOf[o] \in Spends, NEW c \in recs[o].plan.inputs,
         \A x \in Coins : proofs[x].state = "SPENT" => proofs'[x].state = "SPENT"
  PROVE  proofs'[c].state = "SPENT"
<1>1. recs[o].plan \in TsPlans
  BY DEF RowsOK, RecOK, PlanOK
<1>2. c \in Coins /\ proofs[c].state = "SPENT"
  BY <1>1 DEF TsPlans, WalletOK
<1> QED BY <1>2

LEMMA WalletCommits ==
  ASSUME TypesOK, RowsOK, ResultsOK, QuotesOK, WalletOK, [TsNext]_tsVars, epoch' = epoch,
         NEW op \in TsOps, CommitPrepared(op), Commits(op)
  PROVE  WalletOK'
<1> DEFINE plan == worker[op].rec.plan
<1>0. kindOf' = kindOf /\ DOMAIN <<>> = {}
  BY Frames
<1>1. /\ proofs' = ApplyProofChanges(<<>>, Taken(op)) /\ PlanOK(op, plan)
      /\ CanCommit(op, [worker[op].rec EXCEPT !.phase = "prepared"], <<>>, Taken(op))
  BY Committed
<1>2. TokenOut' /\ \A c \in Coins : proofs[c].state = "SPENT" => proofs'[c].state = "SPENT"
  BY <1>0, <1>1, CommitKeeps
<1>3. \A o \in TsOps : ~ TsFinish(o)
  <2>1. ASSUME NEW o \in TsOps, TsFinish(o)
        PROVE  FALSE
    <3>1. /\ worker' = [worker EXCEPT ![o] = Idle] /\ worker[o].pc = "finish"
          /\ worker[op].pc = "prepared" /\ worker'[op].pc = "put_submitted"
      BY <2>1 DEF TsFinish, At, Commits
    <3> QED BY <3>1, RowTypes DEF TypesOK
  <2> QED BY <2>1
<1>4. ASSUME NEW c \in Coins, proofs'[c].state = "PENDING"
      PROVE  Owned(c)'
  <2>1. CASE \E u \in Taken(op) : u.coin = c
    <3>1. plan.kind \in Spends /\ c \in plan.inputs
      BY <2>1 DEF Taken
    <3>2. proofs'[c].by = op
      <4>1. PICK u \in Taken(op) : proofs'[c].state = u.state
                                   /\ (u.state = "PENDING" => proofs'[c].by = u.by)
        BY <1>1, <2>1, Applied
      <4>2. u.by = op
        BY DEF Taken
      <4> QED BY <1>4, <4>1, <4>2
    <3>3. /\ recs'[op].plan = plan /\ recs'[op].phase = "prepared" /\ plan # NoPlan
          /\ plan.kind = kindOf[op]
      BY <1>1, TsAssumption DEF Commits, PlanOK
    <3> QED BY <1>0, <3>1, <3>2, <3>3, TsAssumption DEF Owned
  <2>2. CASE \A u \in Taken(op) : u.coin # c
    <3>1. proofs'[c] = proofs[c]
      BY <1>0, <1>1, <2>2, Applied
    <3>2. Owned(c)
      BY <1>4, <3>1 DEF WalletOK
    <3> QED BY <1>3, <3>1, <3>2, OwnedKept
  <2> QED BY <2>1, <2>2
<1>5. ASSUME NEW o \in TsOps, recs'[o].phase = "succeeded", kindOf[o] \in Spends,
             NEW c \in recs'[o].plan.inputs
      PROVE  proofs'[c].state = "SPENT"
  <2>1. recs'[o] = recs[o]
    BY <1>3, <1>5, RowsSucceed
  <2> QED BY <1>0, <1>2, <1>5, <2>1, SpentKept
<1> QED BY <1>0, <1>2, <1>4, <1>5, WalletParts DEF PendingOwned, SpentOnSuccess, WalletOK, TokenOut

LEMMA WalletFinishes ==
  ASSUME TypesOK, RowsOK, ResultsOK, QuotesOK, ReconcileOK, WalletOK, [TsNext]_tsVars,
         epoch' = epoch, NEW op \in TsOps, TsFinish(op), Finishes(op)
  PROVE  WalletOK'
<1> DEFINE plan == worker[op].rec.plan
           result == worker[op].result
<1>0. kindOf' = kindOf /\ Target \in TsOps
  BY Frames, TsAssumption
<1>1. /\ proofs' = ApplyProofChanges(result.add, result.update) /\ GoodResult(op, plan, result)
      /\ worker[op].pc = "finish"
  BY Finished
<1>2. PICK rec : CanCommit(op, rec, result.add, result.update)
  BY Finished
<1>3. /\ PlanOK(op, plan) /\ plan \in TsPlans /\ plan.kind = kindOf[op] /\ plan # NoPlan
      /\ recs[op].plan \in {NoPlan, plan} /\ plan \in Planned /\ plan.kind \in Kinds
  <2>1. PlanOK(op, plan) /\ recs[op].plan \in {NoPlan, plan}
    BY <1>1 DEF RowsOK, WorkOK, Past
  <2>2. plan \in Planned
    BY <1>1 DEF Planned, Journaled, Held, Past
  <2> QED BY <2>1, <2>2, TsAssumption DEF PlanOK, TsPlans
<1>4. /\ epoch' = epoch /\ recs'[op].plan = plan
      /\ recs'[op].phase = "succeeded" <=> result.status = "succeeded"
      /\ \A o \in TsOps \ {op} : recs'[o] = recs[o]
  BY DEF Finishes, Alone
<1>5. TokenOut' /\ \A c \in Coins : proofs[c].state = "SPENT" => proofs'[c].state = "SPENT"
  <2>1. Token \notin DOMAIN result.add
    BY <1>1, <1>3, PlanCoins DEF GoodResult
  <2> QED BY <1>1, <1>2, <2>1, CommitKeeps
<1> HIDE DEF plan, result
<1>6. ASSUME recs'[op].phase = "succeeded", plan.kind \in Spends, NEW c \in plan.inputs
      PROVE  (\E u \in result.update : u.coin = c) /\ proofs'[c].state = "SPENT"
  <2>1. result.update = TsSpend(op, plan.inputs) /\ c \in Coins
    BY <1>1, <1>3, <1>4, <1>6 DEF GoodResult, TsPlans
  <2>2. \E u \in result.update : u.coin = c
    <3> DEFINE u == [coin |-> c, state |-> "SPENT", bucket |-> "reserved", by |-> op]
    <3>1. u \in TsSpend(op, plan.inputs) /\ u.coin = c
      BY DEF TsSpend
    <3> QED BY <2>1, <3>1
  <2>3. \A u \in result.update : u.state = "SPENT"
    BY <2>1 DEF TsSpend
  <2>4. \E u \in result.update : proofs'[c].state = u.state
    BY <1>1, <2>1, <2>2, Applied
  <2> QED BY <2>2, <2>3, <2>4
<1>7. ASSUME NEW c \in Coins, proofs'[c].state = "PENDING"
      PROVE  Owned(c)'
  <2>1. ASSUME NEW u \in result.update, u.coin = c, u.state = "PENDING", proofs'[c].by = u.by
        PROVE  Owned(c)'
    <3>1. plan.kind = "reconcile"
      <4>1. result.status = "succeeded"
        BY <1>1 DEF GoodResult
      <4>2. plan.kind \notin Spends
        <5>1. u \notin TsSpend(op, plan.inputs)
          BY <2>1 DEF TsSpend
        <5> QED BY <1>1, <4>1, <5>1 DEF GoodResult
      <4> QED BY <1>1, <1>3, <4>2 DEF GoodResult, Kinds, Spends, Transfer
    <3>2. proofs'[c].by = Target /\ c \in plan.inputs
      BY <1>1, <2>1, <3>1 DEF GoodResult
    <3>3. CASE plan.epoch # epoch
      BY <1>3, <1>4, <3>1, <3>2, <3>3 DEF Owned, LateReconcile
    <3>4. CASE plan.epoch = epoch
      <4>1. /\ recs[Target].plan # NoPlan /\ c \in recs[Target].plan.inputs
        BY <1>3, <3>1, <3>2, <3>4 DEF ReconcileOK
      <4>2. kindOf[Target] # "reconcile"
        BY <4>1 DEF ReconcileOK
      <4>3. recs'[Target] = recs[Target]
        BY <1>0, <1>3, <1>4, <3>1, <4>2
      <4>4. proofs[c] # NoProof /\ proofs[c].state # "SPENT"
        BY <1>2, <2>1 DEF CanCommit, ValidProofTransition
      <4>5. PlanOK(Target, recs[Target].plan)
        BY <1>0, <4>1 DEF RowsOK, RecOK
      <4>6. kindOf[Target] \in Spends
        BY <1>0, <4>1, <4>2, <4>4, <4>5 DEF PlanOK, TsPlans, Kinds, Spends, Transfer, WalletOK
      <4>7. recs[Target].phase # "succeeded"
        BY <1>0, <4>1, <4>4, <4>6 DEF WalletOK
      <4> QED BY <1>0, <3>2, <4>1, <4>3, <4>6, <4>7, TsAssumption DEF Owned
    <3> QED BY <3>3, <3>4
  <2>2. CASE c \in DOMAIN result.add /\ proofs'[c] = result.add[c]
    BY <1>1, <1>7, <2>2 DEF GoodResult, Owned
  <2>3. CASE (\A u \in result.update : u.coin # c) /\ proofs'[c] = proofs[c]
    <3>1. Owned(c)
      BY <1>7, <2>3 DEF WalletOK
    <3>2. ASSUME NEW o \in TsOps, TsFinish(o), kindOf[o] \in Spends,
                 c \in recs[o].plan.inputs, recs[o].plan # NoPlan
          PROVE  recs'[o].phase # "succeeded"
      <4>1. o = op
        <5>1. worker' = [worker EXCEPT ![o] = Idle] /\ worker[o].pc = "finish"
          BY <3>2 DEF TsFinish, At
        <5>2. o # op => worker'[o] = worker[o]
          BY DEF Finishes, Alone
        <5> QED BY <5>1, <5>2, RowTypes DEF TypesOK, Idle
      <4> QED BY <1>3, <1>6, <2>3, <3>2, <4>1
    <3> QED BY <2>3, <3>1, <3>2, OwnedKept
  <2>4. CASE \E u \in result.update : /\ u.coin = c /\ proofs'[c].state = u.state
                                      /\ u.state = "PENDING" => proofs'[c].by = u.by
    BY <1>7, <2>1, <2>4
  <2>5. proofs' = ApplyProofChanges(result.add, result.update)
    BY <1>1
  <2> HIDE <1>1
  <2>6. \/ \E u \in result.update : /\ u.coin = c /\ proofs'[c].state = u.state
                                    /\ u.state = "PENDING" => proofs'[c].by = u.by
        \/ (\A u \in result.update : u.coin # c) /\ c \in DOMAIN result.add
            /\ proofs'[c] = result.add[c]
        \/ (\A u \in result.update : u.coin # c) /\ c \notin DOMAIN result.add
            /\ proofs'[c] = proofs[c]
    BY <2>5, Applied
  <2> QED BY <2>2, <2>3, <2>4, <2>6
<1>8. ASSUME NEW o \in TsOps, recs'[o].phase = "succeeded", kindOf[o] \in Spends,
             NEW c \in recs'[o].plan.inputs
      PROVE  proofs'[c].state = "SPENT"
  <2>1. CASE o = op
    BY <1>3, <1>4, <1>6, <1>8, <2>1
  <2>2. CASE o # op
    BY <1>0, <1>4, <1>5, <1>8, <2>2, SpentKept
  <2> QED BY <2>1, <2>2
<1> QED BY <1>0, <1>5, <1>7, <1>8 DEF WalletOK, TokenOut

LEMMA WalletNext ==
  ASSUME TypesOK, RowsOK, ResultsOK, QuotesOK, ReconcileOK, WalletOK, [TsNext]_tsVars
  PROVE  WalletOK'
<1>0. kindOf' = kindOf
  BY Frames
<1>1. ASSUME NEW s \in Seeds, TsResetStore(s)
      PROVE  WalletOK'
  <2>1. /\ proofs' = [c \in Coins |-> NoProof] /\ recs' = [op \in TsOps |-> NoRec]
    BY <1>1 DEF TsResetStore
  <2>2. Token \in Coins
    BY DEF Coins
  <2> QED BY <2>1, <2>2 DEF WalletOK, NoRec, NoProof
<1>2. ASSUME NEW op \in TsOps, CommitPrepared(op)
      PROVE  WalletOK'
  BY <1>2, CommitMoves, WalletCommits DEF Commits
<1>3. ASSUME NEW op \in TsOps, TsFinish(op)
      PROVE  WalletOK'
  BY <1>3, FinishMoves, WalletFinishes DEF Finishes
<1>4. CASE /\ proofs' = proofs /\ epoch' = epoch
           /\ \A op \in TsOps : ~ CommitPrepared(op) /\ ~ TsFinish(op)
  <2>1. ASSUME NEW c \in Coins, proofs'[c].state = "PENDING"
        PROVE  Owned(c)'
    BY <1>4, <2>1, OwnedKept DEF WalletOK
  <2>2. ASSUME NEW o \in TsOps, recs'[o].phase = "succeeded", kindOf[o] \in Spends,
               NEW c \in recs'[o].plan.inputs
        PROVE  proofs'[c].state = "SPENT"
    <3>1. recs'[o] = recs[o]
      BY <1>4, <2>2, RowsSucceed
    <3> QED BY <1>4, <2>2, <3>1 DEF WalletOK
  <2> QED BY <1>0, <1>4, <2>1, <2>2 DEF WalletOK
<1> QED BY <1>1, <1>2, <1>3, <1>4, Frames

-----------------------------------------------------------------------------
(* The invariant and what follows from it.                                  *)

LEMMA TsInvInit == TsInit => TsInv
  BY TypesInit, RowsInit, PlansInit, RangesInit, SeedInit, BackedInit, ReconcileInit,
     WalletInit, ResultsInit, QuotesInit, SignedInit, SuccessInit DEF TsInv

LEMMA TsInvNext == TsInv /\ [TsNext]_tsVars => TsInv'
  BY TypesNext, RowsNext, PlansNext, RangesNext, SeedNext, BackedNext, ReconcileNext,
     WalletNext, ResultsNext, QuotesNext, SignedNext, SuccessNext DEF TsInv

LEMMA TsInvHolds == TsSpec => []TsInv
  BY TsInvInit, TsInvNext, PTL DEF TsSpec

\* Two requests made from the counter ranges reserved for them never ask the
\* mint for the same output, across operations, retries and resets
\* (reserveCounterRange); until the first reset every request is such a one.
THEOREM OutputsPlannedOnceHolds == TsSpec => []OutputsPlannedOnce
<1>1. TsInv => OutputsPlannedOnce
  <2> SUFFICES ASSUME TsInv PROVE OutputsPlannedOnce
    OBVIOUS
  <2>1. Requests \subseteq Journaled /\ Requests \subseteq Planned
    BY DEF Journaled, Planned
  <2>2. ASSUME NEW p \in Requests, NEW q \in Requests, Backed(p), Backed(q), p # q
        PROVE  OutCoins(p) \cap OutCoins(q) = {}
    BY <2>1, <2>2, OutputsTell DEF TsInv
  <2>3. ASSUME epoch = 1, NEW p \in Requests, p.kind # "restore"
        PROVE  Backed(p)
    BY <2>1, <2>3 DEF TsInv, FirstRunBacked
  <2> QED BY <2>2, <2>3 DEF OutputsPlannedOnce
<1> QED BY <1>1, TsInvHolds, PTL

\* A mint, swap, send, receive or melt that the journal calls succeeded was
\* executed by the mint if its outputs are its own, and the token of a send is
\* in the outbox of the run: neither a lost answer, a replay, a late request
\* nor a crash makes recover report a success that did not happen.
THEOREM SuccessIsRealHolds == TsSpec => []SuccessIsReal
<1>1. TsInv => SuccessIsReal
  <2> SUFFICES ASSUME TsInv, NEW op \in TsOps, recs[op].phase = "succeeded"
               PROVE  LET plan == recs[op].plan
                      IN  /\ kindOf[op] \notin {"restore", "reconcile"} /\ OwnsOutputs(plan)
                             => plan \in done
                          /\ kindOf[op] = "send" /\ plan.epoch = epoch
                             => handoffs[op].token = plan.give
    BY DEF SuccessIsReal
  <2> DEFINE plan == recs[op].plan
  <2>1. RowReal(op)
    BY DEF TsInv, SuccessOK
  <2>2. ASSUME kindOf[op] \notin {"restore", "reconcile"}, OwnsOutputs(plan)
        PROVE  plan \in done
    <3>1. Real(plan)
      BY <2>1, <2>2 DEF RowReal
    <3>2. plan.outs # {} /\ plan \in TsPlans
      BY <2>2 DEF TsInv, RowsOK, RecOK, PlanOK
    <3>3. OutCoins(plan) # {}
      BY <3>2 DEF OutCoins
    <3>4. Backed(plan)
      BY <2>2, <3>3 DEF OwnsOutputs
    <3> QED BY <2>2, <3>1, <3>4 DEF Real, Settled, OwnsOutputs
  <2> QED BY <2>1, <2>2 DEF RowReal
<1> QED BY <1>1, TsInvHolds, PTL

\* A proof held as pending belongs to an operation whose plan spends it and
\* which has not succeeded (#applyProofChanges), or a reconcile that ran across
\* a reset wrote its state: no crash, throw or reconcile orphans a reservation.
THEOREM ReservationsAreOwnedHolds == TsSpec => []ReservationsAreOwned
<1>1. TsInv => ReservationsAreOwned
  BY DEF TsInv, WalletOK, Owned, ReservationsAreOwned
<1> QED BY <1>1, TsInvHolds, PTL
=============================================================================
