# Verification of cashu-fault-lab

This directory holds TLA+ models of cashu-fault-lab: the payment path from the
sender's wallet to the merchant's credit, the wallets that mint, swap and melt,
the fault injectors between them, and the laboratory that judges them. TLC
checks them on small instances; TLAPS proves the twenty-nine theorems listed in
`PROJECT.json`, about the receivers, the payment, both wallet lifecycles, the
transports, nutzaps, the funded senders and the laboratory, for every value of
the constants. Source paths are relative to the repository root.

## The system

A *sender* pays a *merchant's request* with Cashu proofs. It reserves proofs in
its wallet, builds one payload with a fresh delivery id, and sends exactly that
payload, over HTTP or Nostr, until a *receipt* says how the delivery ended. The
*receiver* accepts a payload, stores a swap plan (blinded outputs) for it, swaps
the proofs at the *mint*, credits the merchant and publishes the receipt. Fault
gateways and relays sit between the parties and delay, drop, repeat and reorder
traffic; crash checkpoints stop processes at chosen places.

Around this path stand the *adapters* (cashu-ts and CDK), which put real wallets
under the control of the laboratory; the *wallet lifecycle*, which drives each
wallet operation through a journal so that it survives a crash; *nutzap
recovery*, in which several devices of one wallet redeem one nutzap; the *wallet
doctor*, which diagnoses a wallet kept on Nostr relays; and the *scenario
runner*, *oracles* and *release gate*, which run scripts against pairs of
adapters and decide what their evidence is worth.

### Inventory

| Part | State it keeps | What makes it hard |
|---|---|---|
| Receiver domain and store (`apps/reference-receiver`) | deliveries, claims, credits, outbox | several workers on one delivery; state read before an await and used after it; crash at every await |
| Recovery worker, outbox publisher | leases, batches | a batch cut short by one failing delivery; deliveries that stay blocked |
| Mint gateway (`adapters/cashu-ts-mint.ts`) | none | timeouts with the request still on its way; what an error status proves |
| Sender and its wallet (`apps/reference-sender`) | records, reservations, locks | record and reservation are two stores; stale copies after a lost session |
| Funded senders (`adapters/cashu-ts`, `adapters/cdk`) | records, armed crashes, running calls | reset and send at the same time; process kills |
| Receivers under lab control | memory store, run seed | a reset between two transactions of a payment |
| HTTP fault gateway | rules and counters, held requests, remembered answers | concurrent requests sharing a rule; timers; resets |
| Nostr delivery, fault relay | events, polling window | timestamps moved back at random; partial publication |
| Wallet lifecycle, cashu-ts and CDK | operation journal, proofs, counters, outbox | crash between journal, mint and proof store; leases that run out; resets |
| Lifecycle runner and oracle | observations | calls that time out and go on; concurrent resumes |
| Nutzap recovery | one journal per device, token events | devices racing for one proof; relays that disagree |
| Wallet doctor, NIP-60 wallet | captures, token events | relays read one after the other while the wallet moves |
| Scenario runner, oracle, release gate | recorded evidence | evidence gathered at different moments; sends in parallel |

What is wanted of them: the receiver never credits without redemption, never
rejects what may be consumed, never swaps twice, and finishes what it accepted;
the sender frees proofs only when the receiver rejected them unredeemed, and
converges to the receiver's outcome; a wallet operation is applied once however
often it is recovered, and is reported as done only when it was; a nutzap counts
once; a fault rule does what it says; and a verdict of the laboratory, good or
bad, is true of the system it judged.

## Modules

| Module | Models |
|---|---|
| `Receipts` | receipts: `nextReceipt`, `assertReceiptTransition`, `mergeObservedReceipt` |
| `Receiver` | the reference receiver with its store, the swap exchange, the mint, faults |
| `DeliveryLedger` | abstract specification: what the receiver promises |
| `RecoveryWorker` | the batches of `RecoveryWorker.runOnce` and `OutboxPublisher.runOnce` |
| `Sender` | `sendPayment`, `resumePayment`, sender store, wallet, transports |
| `Payment` | the sender composed with the ledger through an unreliable network |
| `FundedSender` | the funded senders of the cashu-ts and CDK adapters |
| `MemoryReceiver` | the receivers the laboratory resets, on the memory store |
| `FaultGateway` | the HTTP fault gateway |
| `NostrDelivery` | payments over Nostr: sender, relays, polling receiver |
| `LifecycleOperation` | kinds, phases and transitions of `wallet-lifecycle-core` |
| `CashuTsLifecycle` | the lifecycle engine, wallet and store of the cashu-ts adapter |
| `CdkLifecycle` | the lifecycle engine and journal of the CDK adapter |
| `CdkSwapPlan` | the search for the inputs of a CDK swap, as an algorithm |
| `LifecycleHarness` | lifecycle matrix lane, runner, driver and oracle |
| `FailureMinimizer` | replay and minimization of a failed lifecycle scenario |
| `NutzapRecovery` | nutzap redemption, takeover, spending and synchronisation |
| `ReceivingKeys` | the store of receiving keys, as operators |
| `NutzapScenario` | the scripted nutzap scenarios, their evidence and verdict |
| `WalletDoctorRules` | reconstruction, diagnosis and plan check as operators |
| `WalletDoctor` | NIP-60 wallet, relays, capture, gate and repair |
| `Oracle`, `OracleReport` | delivery oracle: safety, quiescence, invariant report |
| `ScenarioRunner` | scenario runner, external and reference drivers |
| `ReleaseGate` | compatibility matrix and release policy |
| `MCReceiver`, `MCRecovery`, `MCPayment`, `MCLifecycle`, `MCLab` | small instances for TLC |
| `ReceiverProofs`, `PaymentProofs`, `FundedProofs` | theorems about `Receiver`, `Payment`, `FundedSender` |
| `RedemptionProofs` | theorems about `MemoryReceiver`, `NutzapRecovery` |
| `CashuTsProofs`, `CdkJournalProofs` | theorems about `CashuTsLifecycle`, `CdkLifecycle` |
| `TransportProofs` | theorems about `FaultGateway`, `NostrDelivery` |
| `LabProofs` | theorems about `FailureMinimizer`, `ReleaseGate` |

### Receiver

A *command* is a parsed payload: its request (`reqOf`), delivery id (`delOf`)
and proofs (`proofsOf`). The commands whose unit, mint and amount agree with
their request are `Fitting`. Each worker runs one operation at a time; `pc` is
its next step, `cmd` its command. The store variables are the columns of the
tables in `infra/migrations`: `bound`, `plan`, `phase`, `receipt`, `starts`,
`outputs` of a delivery, `claims`, `credits`, and the outbox. `lock` is the
advisory lock and `alive` says whether the worker's database session still
exists.

One store call is one step, because each is a serializable transaction that is
retried until it commits. Between steps anything may happen: the process dies
(`Crash`, which also stands for crash checkpoints that throw), the session is
lost and the lock with it while the worker carries on (`LoseSession`, then
`SessionGone` at the next store call), a transaction fails for good
(`StoreFails`), the NUT-09 request fails (`RestoreFails`). The catch of
`recoverLockedDelivery` is kept as written: errors of settlement are caught only
where the call is awaited inside the try block (`Caught`).

A swap exchange lives in `wire` while its worker waits and in `late` when nobody
waits any more; the mint may execute a late request at any time. The mint is
external: it signs a plan if the proofs are unspent, refuses with a 4xx answer,
or is silent. With `DuplicateSwaps` the fault gateway may send a copy of the
request that reaches the mint first (`apps/http-fault-gateway/src/proxy.ts`).
`Checkpoints` selects settlement in three transactions, as
`settleWithCheckpoints` does, instead of one. `Nut09` and `Nut19` are what the
mint advertises.

`NUT-07` proof states are asked for, but whatever the answer the code blocks
recovery, so they are not a separate step.

### Ledger, sender and payment

`DeliveryLedger` has no workers, locks, plans or messages: accept, start
redeeming, block, redeem, credit, settle, reject. `Receiver` implements it with
the mapping `redeemed <- {d : plan[d] \in signed}`; the other variables map to
themselves.

`Sender` keeps the record, the reservation and the lock of each delivery, and
for each operation its own copy of the record (`draft`). Every save needs the
session that holds the lock. The transport fails over by the number of attempts
stored, so attempts are counted only up to the number of transports. The
in-memory reservation store of the reference sender is modelled as surviving
the sender's crash, as the PostgreSQL store of the cashu-ts adapter does.

`Payment` uses the ledger in the receiver's place. Until its payload expires any
request is answered with the receipt as it stands, so each stored receipt counts
as issued and may arrive late, repeatedly, or never. `AnswerError` is an HTTP
answer without a receipt. The status query is not part of the sender and not
modelled.

### Recovery batches

`Receiver` shows what one recovery does. `RecoveryWorker` shows that a delivery
gets its turn: `due` and `leased` are the rows in the order of
`recoverableDeliveryIds` (`updated_at`, then id), a batch of `Limit` rows is
leased in one statement, an exception ends the batch, and deliveries that stay
blocked come round again behind those that were leased before them, whether or
not their recovery wrote to the row (`blockRecovery` does so once only). The outbox publisher selects, sends
and marks a batch in one transaction, which may roll back.

### Funded senders and receivers of the adapters

`FundedSender` has one variable for the memory of the process (`proc`), one for
the store, and one job per concurrent caller. The tour chosen initially fixes
the adapter: cashu-ts with the memory store, cashu-ts with PostgreSQL, or CDK,
whose calls run under one lock. A crash arm stops the process at a boundary, at
its first or its second hit; a kill may also come between any two steps, and
leaves only what PostgreSQL holds. The payee is seen from outside and binds a
delivery to its first payload.

`MemoryReceiver` has the same phases as `Receiver`, but the store is a map in
memory and a control call can replace it between two transactions of a payment.
Ids are derived from the seed of a run, so two runs with the same seed share
them: that is how an old payment can touch a new run.

### Faults on the way

In `FaultGateway` a request passes three points (before it is forwarded, after
the downstream server committed, before the answer goes back), and takes at most
one matching rule at each. `attempts` counts the requests of a delivery on a
route, which is the occurrence that a rule can ask for. `reorder` holds the
request that waits under a rule; `timer` is its timeout; `second` of a request is the one it will release. The remembered
answers (`cache`) serve `stale_response`, and are dropped when a handler sees
that the control generation has changed.

In `NostrDelivery` the gift wrap is what it fixes: recipient, author, content
and a timestamp moved back by up to `Overlap`. Publication goes relay by relay;
the receiver polls from the newest timestamp seen minus the overlap, skips what
it processed, accepts and publishes a receipt; the sender polls for the receipt.
What `Receiver` does with a delivery is one step here: accepting redeems it as
far as `pending`, `settled` or `rejected`, and the recovery worker ends it later
(`EndDelivery`). A request can also end without a receipt. `acceptPayloadBytes`
parses before it looks a delivery up, so an expired payload is refused whatever
became of its delivery (`ExpiredEvent`); an unknown delivery is refused
(`RefuseEvent`); preparing or redeeming fails (`FailEvent`). An error that
`isTerminalProcessingError` names counts the event as processed, and `refusals`
records of which kind it was; any other error leaves the event open.
A stray is an event that is no payment: one that cannot be read, or one whose
seal is not for the rumor in it.

### Wallet lifecycle

Both lifecycle modules drive operations of the seven kinds through the phases of
`LifecycleOperation`. In `CashuTsLifecycle` a worker holds the advisory lock of
its operation and works on the copy of the record that it read. Deterministic
outputs come from counter ranges; a range of 64 blinded messages gives one coin
here, since the properties ask which range was signed, not for how much. The
mint and the wire are explicit: a request may be executed or refused, answered
or not, before or after its sender gave up. `reset` waits for nobody: it takes a
new `epoch` of the store while workers of the old one go on.

In `CdkLifecycle` several processes share one journal. A request claims its
operation with a lease and a fencing token, takes the wallet barrier, and works
through a stack of frames (`run_owned` calls itself for the target of a
reconcile). `Expire` lets a lease run out at any moment, so another request may
take over while the first still runs. A reset builds the next wallet generation,
activates it and clears the journal. The CDK wallet with its sagas is external
and modelled from the adapter's calls. `CdkSwapPlan` is the search for exact
inputs with its fee rule and its two limits.

`LifecycleHarness` puts any adapter that follows the core transitions behind the
driver, whose memory of phases and of the wallet is used across awaits. It keeps
every view taken, as history, so that the oracle's verdict can be compared with
what happened. `FailureMinimizer` takes the outcome of each subset of the
commands as given and shows what minimization makes of it.

### Nutzaps and the wallet doctor

`NutzapRecovery` has one redemption record per device. The native devices of a
campaign follow the Rust journal, the others the TypeScript one; the two differ
in a few guards. A worker reads the relays, plans, swaps, stores, publishes relay by relay, and
reconciles; devices race for the same nutzap and take over each other's
redemption from what the relays show. Where the history goes to the sender's
relays, the newest of `RelayLists` that the wallet's relays hold is used.

`NutzapScenario` plays the scripts of the package on top of it. A step of a
script starts processes, holds them at a barrier, kills one at its checkpoint,
partitions or restarts relays, remembers a receiving key or takes a snapshot;
the verdict is computed from the snapshots as `evidence.ts` does.

`WalletDoctorRules` are pure operators on a capture. `WalletDoctor` makes the
captures: the reference wallet mints, spends in its six modes and publishes
relay by relay while the doctor reads the relays one after the other and asks
the mint. The gate captures twice. A repair plan that passed the safety check is
executed by somebody else, in any order, while the wallet moves on.

### The laboratory

`Oracle` and `OracleReport` fold observations into the first safety failure, the
quiescence check and the status of the eighteen registered invariants.
`ScenarioRunner` feeds them: it executes a script command by command; a send of
the external driver is a series of calls, and the receiver, the mint and the
gateway move between them. The receiver under test may redeem, settle or credit
more often than it should. `ReleaseGate` runs the matrix over the pairs of a
fleet: probe, scenarios with retries, evidence, decision; `truth` records what
really happened and is never read by the model of the code.

## Runs

| Run | Expected | What it shows |
|---|---|---|
| `ReceiverContention` | pass | two workers, three payloads in conflict pairwise (same single-use request, same delivery id, same proof), two faults: the receiver's safety properties and the refinement |
| `ReceiverReplay` | pass | NUT-19, three-step settlement and repeated requests: every credit still has a signed plan behind it |
| `ReceiverLiveness` | pass | redeemed deliveries are settled and announced, accepted ones end or say that recovery is blocked; no delivery waits for ever behind the others of its batch |
| `PaymentSafety` | pass | two operations on one delivery, HTTP then Nostr: record, reservation and ledger agree, receipts never conflict, a record never goes back |
| `PaymentReuse` | pass | two deliveries competing for a proof: nothing redeemed is offered again |
| `PaymentLiveness` | pass | the sender reaches the receiver's outcome unless the payload expires |
| `Lifecycle` | pass | the wallet lifecycle, in five lanes (below) |
| `Lab` | pass | gateway, Nostr, nutzaps, adapters, doctor and laboratory, in eight lanes (below) |
| `ReceiverStartsOnce` | violation | a NUT-19 replay counts as a second redemption start |
| `ReceiverDuplicatedSwap` | violation | a 4xx answer to a repeated request leads to a false rejection |
| `ReceiverDiagram` | violation | `redeeming -> rejected/mint_unavailable` is not in the documented diagram |
| `PaymentExpiredRetry` | violation | a retry after expiry gets an error, not the stored receipt |

`MCRecovery`, `MCLifecycle` and `MCLab` instantiate several modules side by
side. A behaviour follows one *lane*, chosen in its initial state; the variables
of the other lanes stay idle. The state space is the sum of the lanes, not their
product, and a property holds of its own lane.

| Run, lane | Module | Property | What it says |
|---|---|---|---|
| `Lifecycle`, cashu-ts | `CashuTsLifecycle` | `SuccessIsReal` | a money operation recorded as succeeded was executed by the mint, request for request, if its outputs are its own, and a sent token is in the outbox of the run |
| | | `OutputsPlannedOnce` | two requests made from counter ranges reserved for them never ask for the same output, across retries and resets; until the first reset every request is such a one |
| | | `ReservationsAreOwned` | a pending proof belongs to an operation that spends it and has not succeeded, or waits as recoverable, or was written by a reconcile that ran across a reset |
| cdk | `CdkLifecycle` | `JournalIsExclusive` | one operation at a time has an open outcome; none runs while a reset does |
| | | `CdkSuccessHappened` | what is recorded as succeeded did happen: it was executed, or the token is in the outbox and its proofs are gone (a receive beside other operations is judged by the balance, and is excepted; so are two processes after a reset) |
| | | `ActiveGenerationInUse` | with one process, the active wallet generation is on disk and open |
| | | `TerminalPhaseStands` | a terminal phase is left only by a reset |
| harness | `LifecycleHarness` | `NoFalseAlarm` | an adapter that keeps the rules is not reported as failing, timeouts and concurrent resumes apart |
| | | `AcceptedRunIsConsistent` | an accepted run showed one request per operation; timeouts and concurrent resumes apart, the oracle's wallet is the adapter's |
| plan | `CdkSwapPlan` | `PlanFoundIfAnyExists` | within its limits the search finds an exact plan if some subset of the proofs is one |
| minimizer | `FailureMinimizer` | `MinimizedIsMinimal` | the result fails in the same way and no single command can be dropped |
| `Lab`, gateway | `FaultGateway` | `HeldRequestsAreReordered` | a held request has a timer or a partner that will release it |
| | | `StaleIsFromThisRun` | a stale answer is of the same route and generation, unless a request overlapped a reset |
| nostr | `NostrDelivery` | `NostrOutcomeIsHonest` | a receipt the sender got is the ledger's, a failed send left no event, and a processed request has a stored receipt unless its payload has expired or it was refused or failed for good |
| nutzap | `NutzapRecovery` | `NutzapCountsOnce` | one nutzap is in the wallet once, whichever devices redeemed it |
| | | `BalanceIsNotPromised` | proofs promised to a pending spend are not balance |
| | `NutzapScenario` | `ScenariosPass` | every script, in every order its processes can take, that ends does so with its fault exercised, one credit, and wallets and relays that agree; a script that hangs is not noticed |
| funded | `FundedSender` | `SentIsOnRecord` | what was sent is the one payload on record, for runs no reset overlaps; a final receipt on record is the payee's for that payload |
| receiver | `MemoryReceiver` | `LedgerIsOfThisRun` | the credits are those of this run's deliveries whose phase says so, and were swapped; outputs and rejections agree with the mint unless a run reuses the seed of payments still handled |
| doctor | `WalletDoctor` | `HealthyMeansWhole` | a gate that passes saw every unspent proof and no spent one |
| | | `RepairLosesNothing` | executing a checked plan never hides an unspent proof for good |
| runner | `ScenarioRunner` | `PassedMeansPaidOnce` | a run that passed is a payment credited and redeemed once, with its faults applied |
| release | `ReleaseGate` | `GatePassedIsEarned` | a passed gate has enough different pairs that each earned it |

Deadlock is not checked: when every delivery or operation has ended, or a script
is over, the system may stop.

**Bounds.** `MaxFaults`, `MaxInterruptions` and `MaxTrouble` cap crashes, lost
sessions and failed writes. Two faults are enough for a takeover of a delivery
whose first worker is still running and a failure of the worker that took over.
`MaxStarts` stands for the cap of 1000 that `recordRedemptionStart` puts on its
counter. `MaxAttempts` is the sender's `maxAttempts`. Two workers suffice for
every race over one lock; three commands give every kind of conflict. The
violation runs need no fault at all. In the lanes:

- *batch*: two deliveries that stay blocked, as many as fit a batch (`Limit` 2),
  with two others and one runner, or one other and two runners.
- *cashu-ts*: every kind alone with a reset and a fault; a swap or a send with
  each kind that competes for its proofs, and a fault; two resets in a row.
  `MaxRanges` bounds the counter ranges of a seed, `MaxQuotes` the quotes.
- *cdk*: every kind in one process with a lease expiry and a crash, and in two
  processes with two expiries; pairs, reconciliation, and a reset with an expiry
  and a crash. An expiry while the owner runs needs two requests, hence two
  workers.
- *harness*: two operations in a row; a fault, a restart, a timeout and a changed
  request; concurrent resumes. `MaxAttempts` is 3 instead of 8: each attempt is
  the same step.
- *plan*: up to three proofs of amounts 1, 2, 4 with and without fee, limits that
  are and are not reached. *minimizer*: three commands, any outcome of each
  subset.
- *gateway*: two requests of one delivery and one of another, two rules, one
  reset, room for one remembered answer so that it is evicted. All three take the
  same route: that a stale answer is of its request's route rests on the theorem.
- *nostr*: two relays, one payment sent up to twice, two faults, a restart, an
  event limit of 2, two strays; the payload expires with the second of two ticks,
  so that a delivery whose receipt no relay took is seen again too late. *nutzap*: two devices (one native), three workers,
  two faults, two relay lists; each scenario family with its faults, the devices
  in both orders where their languages differ.
- *funded*: three callers, each adapter, each crash boundary and a second hit.
  *receiver*: two handlers, two runs with other or the same seed.
- *doctor*: two relays, up to two mints and two spends in each failure mode.
  *runner*: two sends at once, duplicates, crashes and restarts against external
  adapters, and each reference lane. *release*: eight fleets of two or three
  adapters.

**Symmetry** is used over workers (or senders) in the safety runs with several
of them, never in liveness runs.

**Fairness.** In `Receiver` each worker's next step is weakly fair: every wait
on the mint ends by a timeout (`AbortSignal.timeout` in `cashu-ts-mint.ts`), and
PostgreSQL is taken to answer or to drop the session. Leasing a delivery is
strongly fair, because the recovery worker polls for ever and
`recoverableDeliveryIds` orders by age. That this order really gives every
delivery its turn is what the batch lane shows, from less: leases run out, each
runner goes on with its batch or takes the next one, each publisher with its
transaction, all weakly fair. Publishing is weakly fair. No fairness is assumed
of the mint: it need never answer a swap. A NUT-09 request and a recovery fail
only as often as `MaxFaults` and `MaxTrouble` allow, so the liveness results are
about failures that pass: they do not cover a restore that fails every time, nor
a recovery that throws every time, which can hold up its batch. In `Payment` operations do not stall, a
stored delivery is resumed again and again, and a receipt that can arrive
infinitely often does; without this assumption about the network nothing can be
promised. These conditions speak of the deployment (worker processes and a
caller that resumes), which is what recovery is built on.

## Findings

1. `restore` replays a swap under NUT-19 and the hook records another start.
   `spec/invariants.md:7` and the oracle (`packages/oracle/src/invariants.ts:107`)
   allow one start per delivery.
2. Every error status below 500 counts as proof that nothing was consumed
   (`cashu-ts-mint.ts:296`). It is not when something between receiver and mint
   repeats requests, as the fault gateway can; `spec/invariants.md:14` forbids the
   rejection that follows. `NoFalseRejection` is proved where requests are not
   repeated.
3. A definitive refusal rejects from `processing/redeeming` with
   `mint_unavailable`; `spec/delivery-v1.md:117` has neither.
4. The payload's expiry is checked before the delivery is looked up, so an
   identical retry of an ended delivery after expiry gets 410 without a receipt;
   `spec/delivery-v1.md:121` promises the stored receipt.

Further disagreements met on the way have no run of their own; the properties
above are stated so as to except them, and the hazard list names each at its
line:

- The fourth finding has a counterpart over Nostr. A delivery was accepted and no
  relay took the receipt, so its event stays open; when the next poll comes after
  the expiry, `nostr-receiver.ts:204` counts the event as processed without a
  receipt, where `spec/delivery-v1.md:121` promises the stored one. The same
  happens when redeeming an accepted delivery ends in a `ReceiverDomainError`.
  `NostrOutcomeIsHonest` lists both as ways for a request to end.
- The polling window of `nostr-receiver.ts:150` can pass a stored payment for
  good; `docs/adapter-guide.md:71` asks for windows that hide nothing.
  `StoredPaymentsStayVisible` in `NostrDelivery` states that promise, and TLC
  refutes it.
- `lifecycle.rs:2320` judges a receive by the growth of the balance, which
  another operation's released reservation or undone request also causes.
- `lifecycle.rs:2373`: with two processes, a reset whose lease expired may roll
  back files that another process has activated.
- `wallet-lifecycle-runner/src/runner.ts:135` and
  `external-adapter-driver.ts:588`: observations of calls made at once are
  judged in the order of the calls, so a good adapter can fail.
- `funded-operations.ts:380`: a send that runs across a reset ends in the store
  of the new run.
- `cashu-ts/src/lifecycle/operations.ts:665`: `reset` takes no operation's claim.
  A worker that prepares across it derives outputs with the client of the old
  seed from a counter of the new one, and they can be the outputs of another
  request; a reconcile that finishes after it leaves a proof of the new run
  pending under an operation that does not spend it. Both came up in the search
  for the inductive invariant, and TLC shows each on an instance with more resets
  than the run's; `Backed` and `LateReconcile` in `CashuTsLifecycle` say exactly
  what is excepted.

## Proofs

### Receiver

Nine theorems are about `Receiver!Spec`, for any workers, deliveries, commands,
proofs and number of faults, from the named assumptions on the constants
(`ConstantsAssumption`, `NoPlanAssumption`): functions have the right domains,
bounds are naturals, and the null values are distinct from real ones.

| Theorem | States | Argument |
|---|---|---|
| `TypeCorrect` | `TypeOK` | `Base`: types, plus that a busy worker has a command and that exactly the accepted deliveries have a command and a plan bound to them |
| `ReceiptsAdvanceHolds` | `ReceiptsAdvance` | `ReceiptsOK` ties the receipt to the phase; `PhaseSteps` lists the phase changes a step can make |
| `ClaimsHold` | `ProofSetExclusivity` | inductive with `Base` |
| `ReservationHolds` | `SingleUseReservation` | inductive with `Base`: `prepare` repeats the check of `preflight` |
| `PlanStoredHolds` | `PlanStoredBeforeSwap` | a plan is drawn once, and every exchange uses the stored one |
| `NoFalseRejectionHolds` | `NoFalseRejection`, if requests are not repeated | `SwapInv`, below |
| `OneSwapRequestHolds` | `AtMostOneSwapRequest` | `RequestInv`, below |
| `CreditBackedHolds` | `CreditBackedBySwap` | `AnswersOK`: who is about to settle holds an answer the mint signed; `SettlementOK`: stored outputs and credits follow from that |
| `LedgerImplemented` | `LedgerRefinement`, if requests are not repeated | every step is a ledger step or leaves the ledger alone, under `LedgerInv` |

*No false rejection* is not inductive. A worker that lost its session still
acts, and a second worker may have taken the delivery over. `LocksOK` says that
a live worker past the lock holds it. `UntouchedOK` says that a delivery in
phase `absent`, `prepared` or `rejected` has no request on its way, no signed
plan and no worker able to change that. `FirstSwapOK` says that a live worker on
the first swap is alone: nothing else for its delivery was sent or signed. A
rejection happens only from there, after the one request was refused. Together
they are `SwapInv`. With repeated requests `FirstSwapOK` is false, which is
finding 2.

*One swap request.* `RequestInv` counts what a worker is about to do as well:
without NUT-19 a delivery has one request in all, not yet made, about to be sent
by one worker, or sent (`OneRequest`); a live worker that is about to mark a
delivery finds it `prepared` (`MarksPrepared`), so no second worker gets there;
and the holder of the lock in the dispatch hook has sent a request that is not
recorded yet (`StartsOK`).

*Refinement.* The only step that changes `redeemed` is a signature of the mint;
it needs the delivery open, which is `UntouchedOK` again, and settled deliveries
already signed (`SettlementOK`).

### Payment

Five theorems are about `Payment!Spec`, for any operations, deliveries, payloads,
transports, attempts and interruptions, under `SenderAssumption` and the
assumptions of the receiver's constants.

| Theorem | States | Argument |
|---|---|---|
| `PaymentTypes` | `TypeOK` of `Payment` | first part of `PaymentInv` |
| `ReservationAgreesHolds` | `ReservationAgreesWithLedger` | `PaymentInv`, below |
| `NoReceiptConflictHolds` | `NoReceiptConflict` | `IssuedOK`, and a copy holds a receipt that was issued |
| `FreeProofsUnspentHolds` | `FreeProofsUnspent` | `WalletOK`: one payload per delivery, so what was redeemed is what was reserved |
| `RecordAdvancesHolds` | `RecordAdvances` | only the holder of the lock writes, and its copy is up to date (`CopiesOK`) |

That reservation and ledger agree is not inductive: an operation decides from
its copy of the record, and the copy may be old. `PaymentInv` adds that a live
operation holds the lock and has an up-to-date copy (`LocksOK`, `CopiesOK`); that
a copy holds only receipts that were issued and says what its receipt says
(`DraftsOK`); that the issued receipts lead up to the present one, so that a
terminal one is the last (`IssuedOK`); what a receipt implies for redemption and
credit (`LedgerOK`); and which step an operation can be at (`JobsOK`). A step is summarised by what it does to one operation
(`SenderMoves`), and each part is shown from that.

### cashu-ts lifecycle

Three theorems are about `TsSpec`, for any operations, seeds, faults, resets and
scenarios, under `TsAssumption` (types, and null values that are not real ones).

| Theorem | States | Argument |
|---|---|---|
| `OutputsPlannedOnceHolds` | `OutputsPlannedOnce` | `RangesOK`, `PlansUnique`, `FirstRunBacked` |
| `SuccessIsRealHolds` | `SuccessIsReal` | `SuccessOK`, from `SignedOK` and `QuotesOK` |
| `ReservationsAreOwnedHolds` | `ReservationsAreOwned` | `WalletOK`, from `ResultsOK` and `ReconcileOK` |

`TsInv` has one part per question. `RowsOK`: a row past `created` has a plan, and
a worker past `prepare` finds its own plan in the journal or, after a reset, none.
`PlansUnique`: an operation has one journaled plan per run of the store, on the
wire and in the workers' hands included. `RangesOK`: ranges handed out lie below
the counter and differ. `OneSeed` and `FirstRunBacked`: until the first reset
there is one seed, and every plan comes from ranges reserved for it.
`QuotesOK`: a quote belongs to one plan, and a melt is executed while its quote
is not unpaid. `SignedOK`: every coin of the mint was there at first or was asked
for by an executed request. `ResultsOK`: what a result in a worker's hands may
change in the wallet. From these, a restore that finds all the outputs of a plan
means that the plan was executed, because no other request could have asked for
them (`RestoredReal`): that is why a success found by recovery is real. Plans
made across a reset are excepted there, as in the property.

The proof does not go action by action for each part. `Shapes` classifies the
steps by what they do to journal and workers (creates, enters, prepares, plans,
commits, writes, works, concludes, finishes), and the parts are shown per shape.

### Minimizer

`MinimizedTheorem` states `MinimizedIsMinimal` for any number of commands and any
outcome of each subset. The invariant adds `PassedOver`: no command before the
index can be left out of those kept *now*. A removal keeps that true only
because the loop starts again at the first command; going on at the same index
does not (the mutant `MinimizeOnward`).

### Fault gateway

| Theorem | States | Argument |
|---|---|---|
| `HeldRequestsTheorem` | `HeldRequestsAreReordered` | `GatewayTypeOK` and `HeldOK` |
| `StaleTheorem` | `StaleIsFromThisRun` | `GatewayTypeOK` and `StaleOK` |

They hold for any requests, campaigns, rules and number of remembered answers,
under `GatewayConstants` (types of the constants, and `NoRequest` is no
request). *Held requests*: three parts of the state must agree, the rule that
holds a request (`reorder`), its timer, and the request that took it over
(`second`). `Armed` says that exactly the held requests have a timer, `Listed`
that a request under a rule waits for the timer of that rule, `Unpaired` that
nobody is to release a request a rule still holds, `Paired` that whoever is to
release a request finds it held or expired, `Single` that one request at most
does, `Plain` and `Begun` that neither concerns requests not sent or not begun.
*Stale answers*: `CacheOK` and `ServedOK` say which route and generation
remembered and served answers have; `PresentOK` says that a request in the
gateway belongs to the present generation, which is what a reset during a
request breaks.

### Nostr

`NostrOutcomeHolds` states `NostrOutcomeIsHonest` for any relays, payments,
attempts, partitions, lost answers and restarts, under `NostrAssumption`. A
sender sees a receipt long after the receiver wrote it, and what it knows of the
relays it learned one relay at a time, so `NostrInv` is about everything on the
way. A receipt on a relay, in the hands of the receiver or in those of a sender
is the ledger's present status or the `pending` that came before it
(`StoredVouched`, `CurrentVouched`, `GotVouched`); the ledger goes from nothing to
`pending` and on to an end, never back (`LedgerAdvances`). `SendersOK`: attempts are numbered, so an event
wrapped anew is on no relay (`Numbered`, `EventOK`), a relay not yet asked or
that refused does not keep it (`AbsentOK`), and so neither does any when the send
fails (`FailureOK`). `ProcessedOK` and `KeptOK`: a request is counted as
processed when some relay said it keeps the receipt, and then that relay does, or
when an error ended it. What ended it stays on record and an expired payload
stays expired (`RefusalsStay`). The theorem does not say that an accepted delivery
gets a receipt over Nostr, because after its expiry it need not.

### Funded senders

`SentOnRecordHolds` states `SentIsOnRecord` about `FundSpec`: any callers and
calls, either adapter and store, kills, restarts, lost and late answers, under
`FundAssumption` (the null value is no caller, `MaxOrdinal` is a natural, and the
tours are well-typed). The invariant, `FundInv`, has a part that always holds and
one for a run that no reset overlaps.

- Always: a final receipt, on record or in the hands of a call, is the payee's
  for the payload next to it (`RecordsOK`, `JobOK`). The payee changes between
  the answer and the write; `DuesGrow` says that it binds a delivery to its first
  payload and that a final status stays, which carries both through. The CDK
  adapter has one call at a time, and a process that is down none (`ProcessOK`).
- Until a reset overlaps a send (`RunOK`): the call that owns a delivery is
  alone (`Claims`, `Apart`), its copy of the record has the payload of the one
  in the store, or the store has none yet (`Copied`), and what was sent is on
  record (`Recorded`). A retry after a kill therefore reads the bytes the first
  attempt stored.

The second part is false as soon as a reset and a send overlap: the reset clears
the claims of calls that go on, and each of them may later write a payload of
its own. `run.mixed` says so, and the property excuses what was sent then.

### Receivers that are reset between runs

`LedgerOfRunHolds` states `LedgerIsOfThisRun` for any number of runs, payments
and handlers; it needs no assumption on the constants. A payment may outlive the
run it began in, and delivery ids are derived from a seed that a later run may
use again, so the store alone says too little. `MemoryInv` adds what a handler
carries (`HandlersOK`: a plan of its own delivery id, signed before it settles),
that the store holds only ids of the seed of this run and nothing during a reset
(`StoreOK`), that a plan of this run is that of a delivery in the store
(`PlansOK`), and what `proofs` and `ledger` have read so far (`EvidenceOK`).
`OwnOK` is the part about locks: a payment of this run past the lock is alone
there, with the plan of its delivery, in the phase its next store call expects.
It holds until `crossed`, which says that a run began with the seed of a payment
that was still being handled; from then on two handlers work on one delivery id.
The part of the property about outputs and rejections is stated for the same
states. The rest, credits included, holds in all of them.

### Nutzaps

`NutzapOnceHolds` and `BalanceHolds` state `NutzapCountsOnce` and
`BalanceIsNotPromised` about `ZapSpec`: any devices, workers, relays, relay
lists, operations and faults, under `ZapAssumption` (null values are not real
ones, and a relay list is no wallet event). The devices share the mint and the
relays and nothing else, and workers of one device share its journal, so most of
`ZapInv` says what a worker still knows when it acts on something it read before.

- `SwapsOK`: a request on its way to the mint, and every proof the mint has
  swapped, is for the nutzap itself or for the token its device was credited.
  Hence only the device's own plan can pay its spend.
- `Redemption`, `Balanced`, `Judged`, `Rooted`: what a record says of its credit,
  its balance, the outcome of its spend and the origin of its token.
- `Informed`: a receive about to commit was executed by the mint; one about to
  take over a token has one that a peer was credited from the mint and whose
  proofs exist; a spend about to commit was executed; a synchronisation about to
  give its spend up for lost has found the input gone *and* its own spend not
  executed.
- `RelayedOK`: a token on a relay was credited from the mint by its author.

The last case of `Informed` is the one that could go wrong: "not executed" is
read from the mint and used two steps later, and nothing in the record prevents
a late swap from being executed in between. It stays true because the only input
of that plan is already gone, which is read before it, and the mint swaps a proof
once (`StillLost`). Asking in the other order would not do. `Evolved` says what a
record never loses, which carries `Informed` for all the other workers through
every write.

### Release gate

`GateEarnedHolds` states `GatePassedIsEarned` for any adapters, suite and policy,
under `FleetAssumption` (lengths and the number of pairs are naturals). The gate
judges evidence, the property is about what happened. `GateInv` relates them: the
evidence of a concluded pair that passed tells the runs in order, with the ids
and invariants of the suite (`PairOK`, `Tells`), and so does that of the pair at
hand as long as everything passed (`CurrentOK`). It cannot say more: a scenario
that could not be run leaves evidence and no run, and from then on the two no
longer correspond.

### CDK journal

| Theorem | States | Argument |
|---|---|---|
| `JournalTheorem` | `JournalIsExclusive` | `FullInv`: `JournalTypeOK`, `JournalInv` and `NextGeneration` |
| `TerminalTheorem` | `TerminalPhaseStands` | the same invariant, action by action |
| `GenerationTheorem` | `ActiveGenerationInUse` | `GenerationInv`, below |

They hold for any operations, processes, requests, lease expiries, crashes and
resets, under `CdkConstants`. That at most one outcome is open is not inductive:
a worker whose lease ran out goes on, and only the fencing token it compares at
each write stops it. `JournalInv` says: while a reset holds its lease no
operation does (`ResetExcludes`); an operation with an open outcome holds the
barrier (`UnresolvedHolds`), and there is one barrier; live claims carry tokens
already issued, and different ones (`TokensIssued`, `TokensUnique`); a frame that
works under a valid lease has an operation that is not terminal and, unless it
reconciles, the barrier (`WorkIsOwned`); the frames below the top of a stack wait
(`OthersWait`). `NextGeneration` says that the reset that holds the lease builds the
generation after the active one, so activating it changes `active`. Four lemmas
about abstract steps (`QuietStep`, `WriteStep`, `BeginStep`, `ClaimStep`) carry
the invariant, and one lemma per action shows which of them it is.

*Active generation*: what may be deleted depends on how far the reset got.
`GenerationOK` says for each of its steps which generation is open, that the one
being built is the one after the active one, that a rollback finds the active
one in `previous`, and that the cleanup keeps the active one.

TLC evaluates the assumptions on the instances: `GatewayAssumption` in `MCLab`,
`CdkAssumption` in `MCLifecycle`. The other assumptions stand in the modules that
the instances extend (`NostrAssumption`, `FleetAssumption`, `ZapAssumption` and
`FundAssumption` in modules of `MCLab`).

### Remarks

The leaves are tried with Zenon first, then with SMT in two translations
(`USE ZenonT(10), SMTT(15), Z3T(15)` at the head of each module): most need no
arithmetic, and the SMT translation of this tlapm gives up after five seconds
and slows down with every obligation it has translated in a module. For the same
reason the invariants of the larger proofs are predicates on values (a record,
what a worker carries) rather than on the state, and a record is updated behind
an operator of its own: a leaf then sees an application and no `EXCEPT`.

Only model-checked are:

- liveness (`RedeemedIsSettled`, `AcceptedIsResolved`, `EveryReceiptIsPublished`,
  `SenderConverges`): fairness and ENABLED are outside the prover's reach;
- `PlanFoundIfAnyExists`: what a loop over a sequence computes needs induction
  over data;
- `CdkSuccessHappened`, which would need the sagas and balances of the external
  CDK wallet in the invariant of the journal;
- `NoFalseAlarm`, `AcceptedRunIsConsistent`, `PassedMeansPaidOnce`: the oracles
  fold sequences of observations, again induction over data;
- `RepairLosesNothing` and the verdicts `ScenariosPass`, for which no inductive
  invariant has been worked out; the latter follow scripts of bounded length,
  and a proof would have to go through each of them.

## Not modelled

- Cryptography, encodings, hashing, encryption at rest, field validation: no
  control flow beyond success or failure.
- The status query and the start-up of the reference receiver: reads, and
  configuration.
- Receivers under lab control: the PostgreSQL receiver of the cashu-ts adapter
  uses the store that `Receiver` models and is not modelled a second time; on
  the memory store, redemption counters and expiry are left to `Receiver`.
- cashu-ts wallet lifecycle: the loss of the session that holds an operation's
  advisory lock (`postgres-store.ts:689`); a melt that the mint answers as
  `UNPAID`, or whose inputs it calls pending while the quote is unpaid, which the
  adapter records as ambiguous (`wallet.ts:1402`, `wallet.ts:1942`). A mint quote
  is waited for before the counter range is reserved (`wallet.ts:967`); the model
  takes the two in the other order.
- Nostr: live subscriptions and connection limits of the relay, and a reset of
  the receiver during a poll. Of the inbox only its window is modelled.
- Nutzap scenarios: the replay of an artifact, file modes and the fingerprint of
  the evidence.
- Wallet doctor: history gaps, quotes in limbo, capture budgets, scenario files.
- Scenario runner: the virtual scheduler and the replay of artifacts. Lifecycle
  runner: the report of a matrix over its lanes. Release gate: loading and
  hashing of suites, service control.
- Amounts where no property needs them: a coin, a proof or a range counts as one
  unit in the lifecycle and doctor modules (not in `CdkSwapPlan`).
- Contracts and reports, Lightning probes, CLI, website, template and scripts:
  schemas, rendering, single reads of an external service, packaging. They keep
  no state that steps of different actors could disturb.
