--------------------------- MODULE ReceiverProofs ---------------------------
(***************************************************************************)
(* Proofs about the receiver that hold for any number of workers,          *)
(* deliveries, commands and proofs and any number of faults: the types of  *)
(* its state, and what its tables say about each other in every state;     *)
(* locks, sessions and the swap exchange, that is why a rejection is never *)
(* false and why a delivery is not sent to the mint twice; settlement, and *)
(* the ledger of deliveries, which the receiver implements: every initial  *)
(* state of the receiver is one of the ledger, and every step is a step of *)
(* the ledger or changes nothing it can see.                               *)
(***************************************************************************)
EXTENDS Receiver, TLAPS

\* Most leaves are first-order: Zenon first, then SMT.
USE ZenonT(10), SMTT(15), Z3T(15)

\* A worker has a command while it works; past prepare it is the one the
\* delivery is bound to.  A session holds the lock of its delivery, and an
\* exchange is open only between dispatch and answer.
WorkersOK ==
    \A w \in Workers :
        /\ pc[w] = "idle" <=> cmd[w] = NoCommand
        /\ pc[w] \notin {"idle", "prepare"} => bound[delOf[cmd[w]]] = cmd[w]
        /\ wire[w] # "none" => pc[w] \in {"hook", "await", "rehook", "reawait"}

\* A stored delivery is bound to a command of its own and holds a plan for it.
StoreOK ==
    \A d \in Deliveries :
        /\ phase[d] = "absent" <=> bound[d] = NoCommand
        /\ bound[d] = NoCommand => plan[d] = NoPlan
        /\ bound[d] # NoCommand =>
              delOf[bound[d]] = d /\ plan[d] \in Plans /\ plan[d][1] = bound[d]

-----------------------------------------------------------------------------
(* Types, bindings and plans.                                                *)

Base == TypeOK /\ WorkersOK /\ StoreOK

LEMMA BaseInit == Init => Base
  BY ConstantsAssumption, NoPlanAssumption
  DEF Init, Base, TypeOK, WorkersOK, StoreOK, Phases, Steps, NoReceipt

LEMMA NextStepType ==
  ASSUME NEW ph
  PROVE  /\ NextStep(ph) \in {"mark", "settle", "finalize", "restore"}
         /\ NextStep(ph) = "mark" => ph = "prepared"
         /\ NextStep(ph) = "settle" => ph = "outputs_persisted"
  BY DEF NextStep

LEMMA NextReceiptType ==
  ASSUME NEW r \in Receipts \cup {NoReceipt}, NEW status \in Statuses,
         NEW detailCode \in DetailCodes
  PROVE  /\ nextReceipt(r, status, detailCode) \in Receipts
         /\ nextReceipt(r, status, detailCode).status = status
         /\ nextReceipt(r, status, detailCode).detailCode = detailCode
         /\ nextReceipt(r, status, detailCode).statusVersion = r.statusVersion + 1
  BY DEF nextReceipt, Receipts, NoReceipt

\* TypeOK in three parts: the tables, the workers, and what is outside.
StoreTypes ==
    /\ requests \subseteq Requests
    /\ bound \in [Deliveries -> Commands \cup {NoCommand}]
    /\ plan \in [Deliveries -> Plans \cup {NoPlan}]
    /\ phase \in [Deliveries -> Phases]
    /\ receipt \in [Deliveries -> Receipts \cup {NoReceipt}]
    /\ starts \in [Deliveries -> 0 .. MaxStarts]
    /\ outputs \in [Deliveries -> Plans \cup {NoPlan}]
    /\ claims \in [Proofs -> Deliveries \cup {NoDelivery}]
    /\ credits \subseteq Deliveries
    /\ outbox \in [Deliveries -> {"none", "pending", "published"}]
    /\ notified \subseteq Deliveries

WorkerTypes ==
    /\ lock \in [Deliveries -> Workers \cup {Nobody}]
    /\ pc \in [Workers -> Steps]
    /\ cmd \in [Workers -> Commands \cup {NoCommand}]
    /\ swapping \in [Workers -> BOOLEAN]
    /\ alive \in [Workers -> BOOLEAN]

OutsideTypes ==
    /\ expired \subseteq Requests
    /\ replayClosed \subseteq Deliveries
    /\ wire \in [Workers -> {"none", "sent", "done", "refused"}]
    /\ late \subseteq Plans
    /\ dispatched \in [Deliveries -> 0 .. MaxStarts]
    /\ signed \subseteq Plans
    /\ spent \subseteq Proofs
    /\ faults \in 0 .. MaxFaults

LEMMA TypeParts == TypeOK <=> StoreTypes /\ WorkerTypes /\ OutsideTypes
  BY DEF TypeOK, StoreTypes, WorkerTypes, OutsideTypes

\* Tables may change in a step as long as bindings and plans do not.
SameBindings ==
    /\ bound' = bound /\ plan' = plan
    /\ \A d \in Deliveries : phase'[d] = "absent" <=> phase[d] = "absent"

LEMMA SameBindingsStore == StoreOK /\ SameBindings => StoreOK'
  BY DEF StoreOK, SameBindings

\* The two counters stay in their bounds.
LEMMA FaultType ==
  ASSUME Base, Fault PROVE faults' \in 0 .. MaxFaults
<1>1. faults \in 0 .. MaxFaults
  BY DEF Base, TypeOK
<1> QED
  BY <1>1, ConstantsAssumption DEF Fault

LEMMA BumpType ==
  ASSUME NEW counter \in [Deliveries -> 0 .. MaxStarts], NEW d \in Deliveries
  PROVE  Bump(counter, d) \in [Deliveries -> 0 .. MaxStarts]
  BY ConstantsAssumption DEF Bump

\* Steps that leave the tables, or everything outside the store, alone.
LEMMA SameStore ==
  ASSUME Base, UNCHANGED storeVars PROVE StoreTypes' /\ SameBindings
  BY DEF Base, TypeOK, StoreTypes, SameBindings, storeVars

LEMMA SameOutside ==
  ASSUME Base, UNCHANGED <<clockVars, netVars, mintVars, faults>>
  PROVE  OutsideTypes' /\ wire' = wire
  BY DEF Base, TypeOK, OutsideTypes, clockVars, netVars, mintVars

\* Nothing is open at the mint while a worker is not in an exchange.
LEMMA NoExchange ==
  ASSUME Base, NEW w \in Workers, pc[w] \notin {"hook", "await", "rehook", "reawait"}
  PROVE  wire[w] = "none"
  BY DEF Base, WorkersOK

\* A busy worker past prepare works on a stored delivery with a stored plan.
LEMMA JobStored ==
  ASSUME Base, NEW w \in Workers, pc[w] \notin {"idle", "prepare"}
  PROVE  /\ Job(w) \in Deliveries /\ bound[Job(w)] = cmd[w] /\ cmd[w] \in Commands
         /\ plan[Job(w)] \in Plans /\ phase[Job(w)] # "absent"
<1>1. Job(w) \in Deliveries /\ bound[Job(w)] = cmd[w] /\ cmd[w] \in Commands
  BY ConstantsAssumption DEF Base, TypeOK, WorkersOK, Job
<1>2. cmd[w] # NoCommand
  BY <1>1, ConstantsAssumption
<1> QED
  BY <1>1, <1>2 DEF Base, StoreOK

\* A stored delivery goes to another phase: bindings and plans stay.
LEMMA PhaseChange ==
  ASSUME Base, NEW d \in Deliveries, NEW ph \in Phases, phase[d] # "absent", ph # "absent",
         phase' = [phase EXCEPT ![d] = ph], UNCHANGED <<bound, plan>>
  PROVE  phase' \in [Deliveries -> Phases] /\ SameBindings
<1>1. phase \in [Deliveries -> Phases]
  BY DEF Base, TypeOK
<1>2. \A e \in Deliveries : phase'[e] = IF e = d THEN ph ELSE phase[e]
  BY <1>1
<1> QED
  BY <1>1, <1>2 DEF SameBindings

LEMMA ReceiptChange ==
  ASSUME Base, NEW d \in Deliveries, NEW status \in Statuses, NEW detailCode \in DetailCodes,
         receipt' = [receipt EXCEPT ![d] = nextReceipt(@, status, detailCode)]
  PROVE  receipt' \in [Deliveries -> Receipts \cup {NoReceipt}]
<1>1. receipt \in [Deliveries -> Receipts \cup {NoReceipt}]
  BY DEF Base, TypeOK
<1>2. nextReceipt(receipt[d], status, detailCode) \in Receipts
  BY <1>1, NextReceiptType
<1> QED
  BY <1>1, <1>2

\* What a store call may do to the row of its delivery.
TablesChange(d) ==
    /\ \/ phase' = phase
       \/ \E ph \in Phases \ {"absent"} : phase' = [phase EXCEPT ![d] = ph]
    /\ \/ receipt' = receipt
       \/ \E status \in Statuses, detailCode \in DetailCodes :
             receipt' = [receipt EXCEPT ![d] = nextReceipt(@, status, detailCode)]
    /\ outputs' = outputs \/ outputs' = [outputs EXCEPT ![d] = plan[d]]
    /\ outbox' = outbox \/ outbox' = [outbox EXCEPT ![d] = "pending"]
    /\ credits' \in {credits, credits \cup {d}}
    /\ UNCHANGED <<requests, bound, plan, starts, notified>>

LEMMA TablesChangeTypes ==
  ASSUME Base, NEW d \in Deliveries, phase[d] # "absent", plan[d] \in Plans, TablesChange(d),
         claims' \in [Proofs -> Deliveries \cup {NoDelivery}]
  PROVE  StoreTypes' /\ SameBindings
<1>1. StoreTypes
  BY TypeParts DEF Base
<1>2. phase' \in [Deliveries -> Phases] /\ SameBindings
  <2>1. CASE phase' = phase
    BY <1>1, <2>1 DEF StoreTypes, SameBindings, TablesChange
  <2>2. CASE \E ph \in Phases \ {"absent"} : phase' = [phase EXCEPT ![d] = ph]
    BY <2>2, PhaseChange DEF TablesChange
  <2> QED
    BY <2>1, <2>2 DEF TablesChange
<1>3. receipt' \in [Deliveries -> Receipts \cup {NoReceipt}]
  <2>1. CASE receipt' = receipt
    BY <1>1, <2>1 DEF StoreTypes
  <2>2. CASE \E status \in Statuses, detailCode \in DetailCodes :
                receipt' = [receipt EXCEPT ![d] = nextReceipt(@, status, detailCode)]
    BY <2>2, ReceiptChange
  <2> QED
    BY <2>1, <2>2 DEF TablesChange
<1>4. /\ outputs' \in [Deliveries -> Plans \cup {NoPlan}]
      /\ outbox' \in [Deliveries -> {"none", "pending", "published"}]
  BY <1>1 DEF StoreTypes, TablesChange
<1>5. credits' \subseteq Deliveries
  BY <1>1 DEF StoreTypes, TablesChange
<1> QED
  BY <1>1, <1>2, <1>3, <1>4, <1>5 DEF StoreTypes, TablesChange

LEMMA FinishBase ==
  ASSUME Base, NEW w \in Workers, Finish(w), SameBindings, StoreTypes', OutsideTypes',
         wire'[w] = "none", \A v \in Workers \ {w} : wire'[v] = wire[v]
  PROVE  Base'
<1>1. WorkerTypes'
  BY TypeParts, ConstantsAssumption DEF Base, Finish, WorkerTypes, Steps
<1>2. WorkersOK'
  BY TypeParts DEF Base, WorkersOK, WorkerTypes, Finish, SameBindings
<1>3. TypeOK'
  BY <1>1 DEF TypeOK, StoreTypes, WorkerTypes, OutsideTypes
<1> QED
  BY <1>2, <1>3, SameBindingsStore DEF Base

\* A worker past prepare goes on with the command it has.
LEMMA GotoWorkers ==
  ASSUME Base, NEW w \in Workers, NEW step \in Steps \ {"idle", "prepare"},
         pc[w] \notin {"idle", "prepare"}, Goto(w, step), cmd' = cmd, SameBindings,
         wire'[w] # "none" => step \in {"hook", "await", "rehook", "reawait"},
         \A v \in Workers \ {w} : wire'[v] = wire[v]
  PROVE  WorkersOK'
<1>1. pc \in [Workers -> Steps]
  BY DEF Base, TypeOK
<1>2. \A v \in Workers : pc'[v] = IF v = w THEN step ELSE pc[v]
  BY <1>1 DEF Goto
<1>3. SUFFICES ASSUME NEW v \in Workers
               PROVE  /\ pc'[v] = "idle" <=> cmd[v] = NoCommand
                      /\ pc'[v] \notin {"idle", "prepare"} => bound[delOf[cmd[v]]] = cmd[v]
                      /\ wire'[v] # "none" => pc'[v] \in {"hook", "await", "rehook", "reawait"}
  BY DEF WorkersOK, SameBindings
<1>4. CASE v = w
  BY <1>2, <1>4 DEF Base, WorkersOK
<1>5. CASE v # w
  BY <1>2, <1>5 DEF Base, WorkersOK
<1> QED
  BY <1>4, <1>5

LEMMA GotoBase ==
  ASSUME Base, NEW w \in Workers, NEW step \in Steps \ {"idle", "prepare"},
         pc[w] \notin {"idle", "prepare"}, Goto(w, step),
         lock' = lock, cmd' = cmd, swapping' = swapping, alive' = alive,
         SameBindings, StoreTypes', OutsideTypes',
         wire'[w] # "none" => step \in {"hook", "await", "rehook", "reawait"},
         \A v \in Workers \ {w} : wire'[v] = wire[v]
  PROVE  Base'
<1>1. WorkerTypes'
  BY TypeParts DEF Base, Goto, WorkerTypes
<1>2. WorkersOK'
  BY GotoWorkers
<1>3. TypeOK'
  BY <1>1 DEF TypeOK, StoreTypes, WorkerTypes, OutsideTypes
<1> QED
  BY <1>2, <1>3, SameBindingsStore DEF Base

\* Giving up an exchange keeps what the network holds well typed.
LEMMA AbandonTypes ==
  ASSUME Base, NEW w \in Workers, AbandonExchange(w)
  PROVE  /\ wire' \in [Workers -> {"none", "sent", "done", "refused"}]
         /\ late' \subseteq Plans
         /\ wire'[w] = "none"
         /\ \A v \in Workers \ {w} : wire'[v] = wire[v]
<1>1. wire \in [Workers -> {"none", "sent", "done", "refused"}] /\ late \subseteq Plans
  BY DEF Base, TypeOK
<1>2. wire[w] = "sent" => plan[Job(w)] \in Plans
  <2>1. wire[w] # "none" => pc[w] \notin {"idle", "prepare"}
    BY DEF Base, WorkersOK
  <2> QED
    BY <2>1, JobStored
<1>3. late' \subseteq Plans
  BY <1>1, <1>2 DEF AbandonExchange
<1> QED
  BY <1>1, <1>3 DEF AbandonExchange

LEMMA ReadRecordBase ==
  ASSUME Base, NEW w \in Workers, ReadRecord(w) PROVE Base'
<1>1. SameBindings /\ StoreTypes' /\ OutsideTypes' /\ wire' = wire
  BY SameStore, SameOutside DEF ReadRecord
<1>2. wire[w] = "none" /\ pc[w] = "read"
  BY NoExchange DEF ReadRecord
<1>3. CASE phase[Job(w)] \in TerminalPhases
  BY <1>1, <1>2, <1>3, FinishBase DEF ReadRecord
<1>4. CASE phase[Job(w)] \notin TerminalPhases
  <2>1. NextStep(phase[Job(w)]) \in Steps \ {"idle", "prepare"}
    BY NextStepType DEF Steps
  <2> QED
    BY <1>1, <1>2, <1>4, <2>1, GotoBase DEF ReadRecord
<1> QED
  BY <1>3, <1>4

LEMMA RecordRedemptionStartBase ==
  ASSUME Base, NEW w \in Workers, RecordRedemptionStart(w) PROVE Base'
<1>1. SameBindings /\ pc[w] \notin {"idle", "prepare"}
  BY DEF SameBindings, RecordRedemptionStart
<1>2. Job(w) \in Deliveries
  BY <1>1, JobStored
<1>3. StoreTypes'
  <2>1. starts' \in [Deliveries -> 0 .. MaxStarts]
    BY <1>2, BumpType DEF Base, TypeOK, RecordRedemptionStart
  <2>2. UNCHANGED <<requests, bound, plan, phase, receipt, outputs, claims, credits, outbox,
                    notified>>
    BY DEF RecordRedemptionStart
  <2> QED
    BY <2>1, <2>2, TypeParts DEF Base, StoreTypes
<1>4. CASE phase[Job(w)] \in {"prepared", "rejected"}
  <2>1. AbandonExchange(w)
    BY <1>4 DEF RecordRedemptionStart
  <2>2. OutsideTypes'
    BY <2>1, AbandonTypes
    DEF Base, TypeOK, OutsideTypes, RecordRedemptionStart, clockVars, mintVars
  <2>3. CASE pc[w] = "hook"
    BY <1>1, <1>3, <1>4, <2>1, <2>2, <2>3, AbandonTypes, FinishBase
    DEF RecordRedemptionStart
  <2>4. CASE pc[w] # "hook"
    BY <1>1, <1>3, <1>4, <2>1, <2>2, <2>4, AbandonTypes, GotoBase
    DEF RecordRedemptionStart, Steps
  <2> QED
    BY <2>3, <2>4
<1>5. CASE phase[Job(w)] \notin {"prepared", "rejected"}
  <2>1. OutsideTypes' /\ wire' = wire
    BY <1>5 DEF Base, TypeOK, OutsideTypes, RecordRedemptionStart, clockVars, mintVars
  <2>2. PICK step \in {"await", "reawait"} : Goto(w, step)
    BY <1>5 DEF RecordRedemptionStart
  <2> QED
    BY <1>1, <1>3, <1>5, <2>1, <2>2, GotoBase DEF RecordRedemptionStart, Steps
<1> QED
  BY <1>4, <1>5

LEMMA SettleBase ==
  ASSUME Base, NEW w \in Workers, Settle(w) PROVE Base'
<1>1. /\ pc[w] = "settle" /\ wire[w] = "none" /\ Job(w) \in Deliveries
      /\ phase[Job(w)] # "absent" /\ plan[Job(w)] \in Plans
  BY NoExchange, JobStored DEF Settle
<1>2. TablesChange(Job(w))
  BY DEF TablesChange, Settle, EndSettled, Phases, Statuses, DetailCodes
<1>3. claims' \in [Proofs -> Deliveries \cup {NoDelivery}]
  BY DEF Base, TypeOK, Settle
<1>4. StoreTypes' /\ SameBindings /\ OutsideTypes' /\ wire' = wire
  BY <1>1, <1>2, <1>3, TablesChangeTypes, SameOutside DEF Settle
<1> QED
  BY <1>1, <1>4, FinishBase DEF Settle

LEMMA FinalizeSettlementBase ==
  ASSUME Base, NEW w \in Workers, FinalizeSettlement(w) PROVE Base'
<1>1. /\ pc[w] = "finalize" /\ wire[w] = "none" /\ Job(w) \in Deliveries
      /\ phase[Job(w)] # "absent" /\ plan[Job(w)] \in Plans
  BY NoExchange, JobStored DEF FinalizeSettlement
<1>2. TablesChange(Job(w))
  BY DEF TablesChange, FinalizeSettlement, EndSettled, Phases, Statuses, DetailCodes
<1>3. claims' \in [Proofs -> Deliveries \cup {NoDelivery}]
  BY DEF Base, TypeOK, FinalizeSettlement
<1>4. StoreTypes' /\ SameBindings /\ OutsideTypes' /\ wire' = wire
  BY <1>1, <1>2, <1>3, TablesChangeTypes, SameOutside DEF FinalizeSettlement
<1> QED
  BY <1>1, <1>4, FinishBase DEF FinalizeSettlement

LEMMA RejectBase ==
  ASSUME Base, NEW w \in Workers, Reject(w) PROVE Base'
<1>1. /\ pc[w] = "reject" /\ wire[w] = "none" /\ Job(w) \in Deliveries
      /\ phase[Job(w)] # "absent" /\ plan[Job(w)] \in Plans
  BY NoExchange, JobStored DEF Reject
<1>2. TablesChange(Job(w))
  BY DEF TablesChange, Reject, Phases, Statuses, DetailCodes
<1>3. claims' \in [Proofs -> Deliveries \cup {NoDelivery}]
  BY DEF Base, TypeOK, Reject
<1>4. StoreTypes' /\ SameBindings /\ OutsideTypes' /\ wire' = wire
  BY <1>1, <1>2, <1>3, TablesChangeTypes, SameOutside DEF Reject
<1> QED
  BY <1>1, <1>4, FinishBase DEF Reject

LEMMA PersistSettlementOutputsBase ==
  ASSUME Base, NEW w \in Workers, PersistSettlementOutputs(w) PROVE Base'
<1>1. /\ pc[w] = "settle" /\ wire[w] = "none" /\ Job(w) \in Deliveries
      /\ phase[Job(w)] # "absent" /\ plan[Job(w)] \in Plans
  BY NoExchange, JobStored DEF PersistSettlementOutputs
<1>2. TablesChange(Job(w))
  BY DEF TablesChange, PersistSettlementOutputs, Phases
<1>3. claims' \in [Proofs -> Deliveries \cup {NoDelivery}]
  BY DEF Base, TypeOK, PersistSettlementOutputs
<1>4. StoreTypes' /\ SameBindings /\ OutsideTypes' /\ wire' = wire
  BY <1>1, <1>2, <1>3, TablesChangeTypes, SameOutside DEF PersistSettlementOutputs
<1>5. Finish(w) \/ /\ Goto(w, "credit")
                   /\ UNCHANGED <<lock, cmd, swapping, alive>>
  BY DEF PersistSettlementOutputs
<1> QED
  BY <1>1, <1>4, <1>5, FinishBase, GotoBase DEF Steps

LEMMA CreditSettlementBase ==
  ASSUME Base, NEW w \in Workers, CreditSettlement(w) PROVE Base'
<1>1. /\ pc[w] = "credit" /\ wire[w] = "none" /\ Job(w) \in Deliveries
      /\ phase[Job(w)] # "absent" /\ plan[Job(w)] \in Plans
  BY NoExchange, JobStored DEF CreditSettlement
<1>2. TablesChange(Job(w))
  BY DEF TablesChange, CreditSettlement, Phases
<1>3. claims' \in [Proofs -> Deliveries \cup {NoDelivery}]
  BY DEF Base, TypeOK, CreditSettlement
<1>4. StoreTypes' /\ SameBindings /\ OutsideTypes' /\ wire' = wire
  BY <1>1, <1>2, <1>3, TablesChangeTypes, SameOutside DEF CreditSettlement
<1>5. Finish(w) \/ /\ Goto(w, "finalize")
                   /\ UNCHANGED <<lock, cmd, swapping, alive>>
  BY DEF CreditSettlement
<1> QED
  BY <1>1, <1>4, <1>5, FinishBase, GotoBase DEF Steps

LEMMA LoseSessionBase ==
  ASSUME Base, NEW w \in Workers, LoseSession(w) PROVE Base'
<1>1. /\ lock' \in [Deliveries -> Workers \cup {Nobody}] /\ alive' \in [Workers -> BOOLEAN]
      /\ UNCHANGED <<pc, cmd, swapping>>
  BY DEF Base, TypeOK, LoseSession
<1>2. StoreTypes' /\ SameBindings
  BY SameStore DEF LoseSession
<1>3. WorkerTypes'
  BY <1>1 DEF Base, TypeOK, WorkerTypes
<1>4. UNCHANGED <<clockVars, netVars, mintVars>> /\ faults' \in 0 .. MaxFaults
  BY FaultType DEF LoseSession
<1>5. OutsideTypes' /\ wire' = wire
  BY <1>4 DEF Base, TypeOK, OutsideTypes, clockVars, netVars, mintVars
<1>6. WorkersOK'
  BY <1>1, <1>2, <1>5 DEF Base, WorkersOK, SameBindings
<1>7. StoreOK'
  BY <1>2, SameBindingsStore DEF Base
<1>8. TypeOK'
  BY <1>2, <1>3, <1>5 DEF TypeOK, StoreTypes, WorkerTypes, OutsideTypes
<1> QED
  BY <1>6, <1>7, <1>8 DEF Base

LEMMA StoreFailsBase ==
  ASSUME Base, NEW w \in Workers, StoreFails(w) PROVE Base'
<1>1. SameBindings /\ StoreTypes' /\ AbandonExchange(w)
  BY SameStore DEF StoreFails
<1>2. OutsideTypes'
  <2>1. UNCHANGED <<clockVars, dispatched, mintVars>> /\ faults' \in 0 .. MaxFaults
    BY FaultType DEF StoreFails
  <2>2. /\ wire' \in [Workers -> {"none", "sent", "done", "refused"}]
        /\ late' \subseteq Plans
    BY <1>1, AbandonTypes
  <2> QED
    BY <2>1, <2>2 DEF Base, TypeOK, OutsideTypes, clockVars, mintVars
<1>3. pc[w] \notin {"idle", "prepare"}
  BY DEF StoreFails, StoreSteps
<1>4. Finish(w) \/ (Goto(w, "block") /\ UNCHANGED <<lock, cmd, swapping, alive>>)
  BY DEF StoreFails
<1> QED
  BY <1>1, <1>2, <1>3, <1>4, AbandonTypes, FinishBase, GotoBase DEF Steps

LEMMA UnmovedBase ==
  ASSUME Base, UNCHANGED workerVars, SameBindings, StoreTypes', OutsideTypes',
         \A v \in Workers : wire'[v] # "none" => wire[v] # "none"
  PROVE  Base'
<1>1. WorkerTypes'
  BY TypeParts DEF Base, WorkerTypes, workerVars
<1>2. WorkersOK'
  BY DEF Base, WorkersOK, SameBindings, workerVars
<1>3. TypeOK'
  BY <1>1 DEF TypeOK, StoreTypes, WorkerTypes, OutsideTypes
<1> QED
  BY <1>2, <1>3, SameBindingsStore DEF Base

\* A worker takes up a command.
LEMMA BeginBase ==
  ASSUME Base, NEW w \in Workers, NEW c \in Commands, NEW step \in {"prepare", "lock"},
         pc[w] = "idle", Goto(w, step), cmd' = [cmd EXCEPT ![w] = c],
         step = "lock" => bound[delOf[c]] = c,
         UNCHANGED <<clockVars, storeVars, lock, swapping, alive, netVars, mintVars, faults>>
  PROVE  Base'
<1>1. StoreTypes' /\ SameBindings /\ OutsideTypes' /\ wire' = wire
  BY SameStore, SameOutside
<1>2. WorkerTypes'
  BY TypeParts DEF Base, WorkerTypes, Goto, Steps
<1>3. wire[w] = "none" /\ c # NoCommand
  BY NoExchange, ConstantsAssumption
<1>4. WorkersOK'
  BY <1>1, <1>3, TypeParts DEF Base, WorkersOK, WorkerTypes, SameBindings, Goto
<1>5. TypeOK'
  BY <1>1, <1>2 DEF TypeOK, StoreTypes, WorkerTypes, OutsideTypes
<1> QED
  BY <1>1, <1>4, <1>5, SameBindingsStore DEF Base

LEMMA PrepareBase ==
  ASSUME Base, NEW w \in Workers, Prepare(w) PROVE Base'
<1>1. /\ pc[w] = "prepare" /\ wire[w] = "none" /\ cmd[w] \in Commands
      /\ cmd[w] # NoCommand /\ delOf[cmd[w]] \in Deliveries
      /\ bound[delOf[cmd[w]]] = NoCommand
  <2>1. pc[w] = "prepare" /\ bound[delOf[cmd[w]]] = NoCommand /\ wire[w] = "none"
    BY NoExchange DEF Prepare, CanPrepare
  <2>2. cmd[w] # NoCommand /\ cmd[w] \in Commands \cup {NoCommand}
    BY <2>1, TypeParts DEF Base, WorkersOK, WorkerTypes
  <2> QED
    BY <2>1, <2>2, ConstantsAssumption
<1>2. FirstReceipt \in Receipts
  BY DEF FirstReceipt, Receipts, Statuses, DetailCodes
<1>3. <<cmd[w], w>> \in Plans /\ <<cmd[w], w>>[1] = cmd[w]
  BY <1>1 DEF Plans
<1>0. \A d \in Deliveries :
         /\ bound'[d] = IF d = delOf[cmd[w]] THEN cmd[w] ELSE bound[d]
         /\ plan'[d] = IF d = delOf[cmd[w]] THEN <<cmd[w], w>> ELSE plan[d]
         /\ phase'[d] = IF d = delOf[cmd[w]] THEN "prepared" ELSE phase[d]
  BY TypeParts DEF Base, StoreTypes, Prepare
<1>4. StoreTypes'
  BY <1>1, <1>2, <1>3 DEF Base, TypeOK, StoreTypes, Phases, Prepare
<1>5. OutsideTypes' /\ wire' = wire
  BY SameOutside DEF Prepare
<1>6. WorkerTypes'
  BY TypeParts DEF Base, WorkerTypes, Prepare, Goto, Steps
<1>7. StoreOK'
  <2> SUFFICES ASSUME NEW d \in Deliveries
               PROVE  /\ phase'[d] = "absent" <=> bound'[d] = NoCommand
                      /\ bound'[d] = NoCommand => plan'[d] = NoPlan
                      /\ bound'[d] # NoCommand =>
                            /\ delOf[bound'[d]] = d
                            /\ plan'[d] \in Plans /\ plan'[d][1] = bound'[d]
    BY DEF StoreOK
  <2>1. CASE d = delOf[cmd[w]]
    BY <1>0, <1>1, <1>3, <2>1
  <2>2. CASE d # delOf[cmd[w]]
    BY <1>0, <2>2 DEF Base, StoreOK
  <2> QED
    BY <2>1, <2>2
<1>8. ASSUME NEW v \in Workers, pc'[v] \notin {"idle", "prepare"}
      PROVE  bound'[delOf[cmd'[v]]] = cmd'[v]
  <2>1. CASE v = w
    BY <1>1, <2>1, TypeParts DEF Base, StoreTypes, Prepare
  <2>2. CASE v # w
    <3>1. pc[v] \notin {"idle", "prepare"} /\ cmd' = cmd
      BY <1>8, <2>2, TypeParts DEF Base, WorkerTypes, Prepare, Goto
    <3>2. delOf[cmd[v]] # delOf[cmd[w]] /\ delOf[cmd[v]] \in Deliveries
      BY <1>1, <3>1, JobStored, ConstantsAssumption DEF Job
    <3> QED
      BY <1>1, <3>1, <3>2, JobStored, TypeParts DEF Base, StoreTypes, Prepare, Job
  <2> QED
    BY <2>1, <2>2
<1>9. WorkersOK'
  BY <1>1, <1>5, <1>8, TypeParts DEF Base, WorkersOK, WorkerTypes, Prepare, Goto
<1>10. TypeOK'
  BY <1>4, <1>5, <1>6 DEF TypeOK, StoreTypes, WorkerTypes, OutsideTypes
<1> QED
  BY <1>7, <1>9, <1>10 DEF Base

LEMMA AcquireLockBase ==
  ASSUME Base, NEW w \in Workers, AcquireLock(w) PROVE Base'
<1>1. StoreTypes' /\ SameBindings /\ OutsideTypes' /\ wire' = wire
  BY SameStore, SameOutside DEF AcquireLock
<1>2. pc[w] = "lock" /\ wire[w] = "none"
  BY NoExchange DEF AcquireLock
<1>3. WorkerTypes'
  BY TypeParts DEF Base, WorkerTypes, AcquireLock, Goto, Steps
<1>4. WorkersOK'
  BY <1>1, <1>2, GotoWorkers DEF AcquireLock, Steps
<1>5. TypeOK'
  BY <1>1, <1>3 DEF TypeOK, StoreTypes, WorkerTypes, OutsideTypes
<1> QED
  BY <1>1, <1>4, <1>5, SameBindingsStore DEF Base

LEMMA MarkMintSentBase ==
  ASSUME Base, NEW w \in Workers, MarkMintSent(w) PROVE Base'
<1>1. /\ pc[w] = "mark" /\ wire[w] = "none" /\ Job(w) \in Deliveries
      /\ phase[Job(w)] # "absent" /\ plan[Job(w)] \in Plans
  BY NoExchange, JobStored DEF MarkMintSent
<1>2. TablesChange(Job(w)) /\ claims' = claims
  BY DEF TablesChange, MarkMintSent, Phases, Statuses, DetailCodes
<1>3. StoreTypes' /\ SameBindings
  BY <1>1, <1>2, TablesChangeTypes DEF Base, TypeOK
<1>4. OutsideTypes' /\ wire' = wire
  BY SameOutside DEF MarkMintSent
<1>5. WorkerTypes'
  BY TypeParts DEF Base, WorkerTypes, MarkMintSent, Goto, Steps
<1>6. WorkersOK'
  BY <1>1, <1>3, <1>4, GotoWorkers DEF MarkMintSent, Steps
<1>7. TypeOK'
  BY <1>3, <1>4, <1>5 DEF TypeOK, StoreTypes, WorkerTypes, OutsideTypes
<1> QED
  BY <1>3, <1>6, <1>7, SameBindingsStore DEF Base

LEMMA BlockRecoveryBase ==
  ASSUME Base, NEW w \in Workers, BlockRecovery(w) PROVE Base'
<1>1. /\ pc[w] = "block" /\ wire[w] = "none" /\ Job(w) \in Deliveries
      /\ phase[Job(w)] # "absent" /\ plan[Job(w)] \in Plans
  BY NoExchange, JobStored DEF BlockRecovery
<1>2. TablesChange(Job(w))
  BY DEF TablesChange, BlockRecovery, Phases, Statuses, DetailCodes
<1>3. claims' \in [Proofs -> Deliveries \cup {NoDelivery}]
  BY DEF Base, TypeOK, BlockRecovery
<1>4. StoreTypes' /\ SameBindings /\ OutsideTypes' /\ wire' = wire
  BY <1>1, <1>2, <1>3, TablesChangeTypes, SameOutside DEF BlockRecovery
<1> QED
  BY <1>1, <1>4, FinishBase DEF BlockRecovery

LEMMA DispatchSwapBase ==
  ASSUME Base, NEW w \in Workers, DispatchSwap(w) PROVE Base'
<1>1. StoreTypes' /\ SameBindings /\ pc[w] \notin {"idle", "prepare"}
  BY SameStore DEF DispatchSwap
<1>2. OutsideTypes' /\ \A v \in Workers \ {w} : wire'[v] = wire[v]
  BY <1>1, JobStored, BumpType, TypeParts
  DEF Base, OutsideTypes, DispatchSwap, clockVars, mintVars
<1>3. PICK step \in {"hook", "rehook"} : Goto(w, step)
  BY DEF DispatchSwap
<1> QED
  BY <1>1, <1>2, <1>3, GotoBase DEF DispatchSwap, Steps

\* The answers a worker gets end its exchange.
LEMMA SwapEndsBase ==
  ASSUME Base, NEW w \in Workers, SwapAnswered(w) \/ SwapRefused(w) PROVE Base'
<1>1. StoreTypes' /\ SameBindings /\ pc[w] \notin {"idle", "prepare"}
  BY SameStore DEF SwapAnswered, SwapRefused
<1>2. OutsideTypes' /\ wire'[w] = "none" /\ \A v \in Workers \ {w} : wire'[v] = wire[v]
  BY DEF Base, TypeOK, OutsideTypes, SwapAnswered, SwapRefused, clockVars, mintVars
<1>3. PICK step \in {"settle", "reject", "block"} : Goto(w, step)
  BY DEF SwapAnswered, SwapRefused
<1> QED
  BY <1>1, <1>2, <1>3, GotoBase DEF SwapAnswered, SwapRefused, Steps

LEMMA AbandonBase ==
  ASSUME Base, NEW w \in Workers, SwapAmbiguous(w) \/ SessionGone(w) \/ Crash(w)
  PROVE  Base'
<1>1. StoreTypes' /\ SameBindings /\ AbandonExchange(w)
  BY SameStore DEF SwapAmbiguous, SessionGone, Crash
<1>2. faults' \in 0 .. MaxFaults
  <2>1. faults' = faults \/ Fault
    BY DEF SwapAmbiguous, SessionGone, Crash
  <2> QED
    BY <2>1, FaultType DEF Base, TypeOK
<1>3. UNCHANGED <<clockVars, dispatched, mintVars>>
  BY DEF SwapAmbiguous, SessionGone, Crash
<1>4. OutsideTypes'
  BY <1>1, <1>2, <1>3, AbandonTypes, TypeParts DEF Base, OutsideTypes, clockVars, mintVars
<1>5. CASE Finish(w)
  BY <1>1, <1>4, <1>5, AbandonTypes, FinishBase
<1>6. CASE SwapAmbiguous(w)
  <2>1. /\ pc[w] \notin {"idle", "prepare"} /\ Goto(w, "block")
        /\ lock' = lock /\ cmd' = cmd /\ swapping' = swapping /\ alive' = alive
    BY <1>6 DEF SwapAmbiguous
  <2>2. "block" \in Steps \ {"idle", "prepare"}
    BY DEF Steps
  <2> QED
    BY <1>1, <1>4, <2>1, <2>2, AbandonTypes, GotoBase
<1> QED
  BY <1>5, <1>6 DEF SessionGone, Crash

LEMMA RestoreBase ==
  ASSUME Base, NEW w \in Workers, RestoreFound(w) \/ RestoreNotFound(w) \/ RestoreFails(w)
  PROVE  Base'
<1>1. StoreTypes' /\ SameBindings /\ pc[w] = "restore" /\ wire[w] = "none"
  BY SameStore, NoExchange DEF RestoreFound, RestoreNotFound, RestoreFails
<1>2. OutsideTypes' /\ wire' = wire
  <2>1. UNCHANGED <<clockVars, netVars, mintVars>> /\ (faults' = faults \/ Fault)
    BY DEF RestoreFound, RestoreNotFound, RestoreFails
  <2> QED
    BY <2>1, FaultType, TypeParts DEF Base, OutsideTypes, clockVars, netVars, mintVars
<1>3. PICK step \in {"settle", "replay", "block"} : Goto(w, step)
  BY DEF RestoreFound, RestoreNotFound, RestoreFails
<1> QED
  BY <1>1, <1>2, <1>3, GotoBase DEF RestoreFound, RestoreNotFound, RestoreFails, Steps

\* The mint signs plans and spends their proofs.
LEMMA SignTypes ==
  ASSUME Base, NEW pl \in Plans, Sign(pl) PROVE signed' \subseteq Plans /\ spent' \subseteq Proofs
<1>1. pl[1] \in Commands
  BY DEF Plans
<1> QED
  BY <1>1, ConstantsAssumption DEF Base, TypeOK, Sign

LEMMA MintBase ==
  ASSUME Base, NEW w \in Workers, MintStep(w) PROVE Base'
<1>1. wire[w] = "sent" /\ UNCHANGED <<clockVars, storeVars, workerVars, late, dispatched, faults>>
  BY DEF MintStep, MintSwaps, MintReplays, MintRefuses, GatewayDuplicates, netVars
<1>2. pc[w] \notin {"idle", "prepare"}
  BY <1>1 DEF Base, WorkersOK
<1>3. plan[Job(w)] \in Plans
  BY <1>2, JobStored
<1>4. Sign(plan[Job(w)]) \/ UNCHANGED mintVars
  BY DEF MintStep, MintSwaps, MintReplays, MintRefuses, GatewayDuplicates
<1>5. signed' \subseteq Plans /\ spent' \subseteq Proofs
  BY <1>3, <1>4, SignTypes DEF Base, TypeOK, mintVars
<1>6. /\ wire' \in [Workers -> {"none", "sent", "done", "refused"}]
      /\ \A v \in Workers : wire'[v] # "none" => wire[v] # "none"
  BY <1>1 DEF Base, TypeOK, MintStep, MintSwaps, MintReplays, MintRefuses,
              GatewayDuplicates, netVars
<1>7. OutsideTypes'
  BY <1>1, <1>5, <1>6 DEF Base, TypeOK, OutsideTypes, clockVars
<1> QED
  BY <1>1, <1>6, <1>7, SameStore, UnmovedBase

LEMMA LateBase ==
  ASSUME Base, NEW pl \in late, MintSwapsLate(pl) PROVE Base'
<1>1. pl \in Plans
  BY DEF Base, TypeOK
<1>2. signed' \subseteq Plans /\ spent' \subseteq Proofs
  BY <1>1, SignTypes DEF Base, TypeOK, MintSwapsLate, mintVars
<1>3. OutsideTypes' /\ wire' = wire
  BY <1>2 DEF Base, TypeOK, OutsideTypes, MintSwapsLate, clockVars
<1> QED
  BY <1>3, SameStore, UnmovedBase DEF MintSwapsLate

LEMMA PublishBase ==
  ASSUME Base, NEW d \in Deliveries, PublishOutbox(d) \/ PublishRolledBack(d) PROVE Base'
<1>1. StoreTypes' /\ SameBindings
  BY TypeParts DEF Base, StoreTypes, SameBindings, PublishOutbox, PublishRolledBack
<1>2. UNCHANGED <<clockVars, netVars, mintVars>> /\ (faults' = faults \/ Fault)
  BY DEF PublishOutbox, PublishRolledBack
<1>3. OutsideTypes' /\ wire' = wire
  BY <1>2, FaultType, TypeParts DEF Base, OutsideTypes, clockVars, netVars, mintVars
<1> QED
  BY <1>1, <1>3, UnmovedBase DEF PublishOutbox, PublishRolledBack

LEMMA BaseNext == Base /\ [Next]_vars => Base'
<1> SUFFICES ASSUME Base, [Next]_vars PROVE Base'
  OBVIOUS
<1>1. ASSUME NEW r \in Requests, CreateRequest(r) PROVE Base'
  <2>1. StoreTypes' /\ SameBindings
    BY <1>1 DEF Base, TypeOK, StoreTypes, SameBindings, CreateRequest
  <2> QED
    BY <1>1, <2>1, SameOutside, UnmovedBase DEF CreateRequest
<1>2. ASSUME NEW r \in Requests, RequestExpires(r) PROVE Base'
  <2>1. OutsideTypes' /\ wire' = wire
    BY <1>2 DEF Base, TypeOK, OutsideTypes, RequestExpires, netVars, mintVars
  <2> QED
    BY <1>2, <2>1, SameStore, UnmovedBase DEF RequestExpires
<1>3. ASSUME NEW d \in Deliveries, ReplayWindowCloses(d) PROVE Base'
  <2>1. OutsideTypes' /\ wire' = wire
    BY <1>3 DEF Base, TypeOK, OutsideTypes, ReplayWindowCloses, netVars, mintVars
  <2> QED
    BY <1>3, <2>1, SameStore, UnmovedBase DEF ReplayWindowCloses
<1>4. ASSUME NEW p \in Proofs, SpentElsewhere(p) PROVE Base'
  <2>1. OutsideTypes' /\ wire' = wire
    BY <1>4 DEF Base, TypeOK, OutsideTypes, SpentElsewhere, clockVars, netVars
  <2> QED
    BY <1>4, <2>1, SameStore, UnmovedBase DEF SpentElsewhere
<1>5. ASSUME NEW w \in Workers, NEW c \in Commands, PreflightKnown(w, c) PROVE Base'
  BY <1>5, BeginBase DEF PreflightKnown
<1>6. ASSUME NEW w \in Workers, NEW c \in Commands, PreflightNew(w, c) PROVE Base'
  BY <1>6, BeginBase DEF PreflightNew
<1>7. ASSUME NEW w \in Workers, NEW d \in Deliveries, LeaseRecovery(w, d) PROVE Base'
  <2>1. phase[d] # "absent" /\ bound[d] \in Commands \cup {NoCommand}
    BY <1>7, TypeParts DEF Base, StoreTypes, LeaseRecovery
  <2>2. bound[d] \in Commands /\ delOf[bound[d]] = d
    BY <2>1 DEF Base, StoreOK
  <2> QED
    BY <1>7, <2>2, BeginBase DEF LeaseRecovery
<1>8. ASSUME NEW w \in Workers, InspectFails(w) \/ PrepareRefused(w) \/ LockBusy(w)
      PROVE  Base'
  <2>1. /\ pc[w] \in {"prepare", "lock"} /\ Finish(w)
        /\ UNCHANGED <<clockVars, storeVars, netVars, mintVars, faults>>
    BY <1>8 DEF InspectFails, PrepareRefused, LockBusy
  <2> QED
    BY <2>1, NoExchange, SameStore, SameOutside, FinishBase
<1>9. CASE UNCHANGED vars
  BY <1>9, SameStore, SameOutside, UnmovedBase DEF vars
<1> QED
  BY <1>1, <1>2, <1>3, <1>4, <1>5, <1>6, <1>7, <1>8, <1>9, PrepareBase, AcquireLockBase,
     ReadRecordBase, MarkMintSentBase, DispatchSwapBase, RecordRedemptionStartBase,
     SwapEndsBase, AbandonBase, SettleBase, PersistSettlementOutputsBase,
     CreditSettlementBase, FinalizeSettlementBase, RejectBase, BlockRecoveryBase,
     RestoreBase, MintBase, LateBase, PublishBase, LoseSessionBase, StoreFailsBase
  DEF Next, WorkerStep, WorkerFault

LEMMA BaseInvariant == Spec => []Base
  BY BaseInit, BaseNext, PTL DEF Spec

\* Every state of the receiver is well typed: in particular no counter passes
\* its cap, no worker acts without a command, and only plans that were stored
\* travel to the mint.
THEOREM TypeCorrect == Spec => []TypeOK
<1>1. Spec => []Base
  BY BaseInvariant
<1>2. Base => TypeOK
  BY DEF Base
<1> QED
  BY <1>1, <1>2, PTL

-----------------------------------------------------------------------------
(* Phases and receipts, claims and bindings. *)

\* What the receipt says in each phase.
ReceiptsOK ==
    \A d \in Deliveries :
        LET r == receipt[d]
        IN  /\ phase[d] = "absent" => r = NoReceipt
            /\ phase[d] # "absent" => r \in Receipts
            /\ phase[d] = "prepared" => r.status = "processing" /\ r.detailCode = "accepted"
            /\ phase[d] = "mint_sent" =>
                  r.status = "processing" /\ r.detailCode = "redeeming"
            /\ phase[d] = "recovery_blocked" =>
                  r.status = "processing" /\ r.detailCode = "recovery_blocked"
            /\ phase[d] \in {"outputs_persisted", "credited"} => r.status = "processing"
            /\ phase[d] \in {"settled", "rejected"} => r.status = phase[d]

-----------------------------------------------------------------------------
(* The steps that touch the tables.                                          *)

tableVars ==
    <<bound, plan, phase, receipt, outputs, claims, credits, outbox, notified>>

TableStep(w) ==
    \/ Prepare(w) \/ MarkMintSent(w) \/ Settle(w) \/ PersistSettlementOutputs(w)
    \/ CreditSettlement(w) \/ FinalizeSettlement(w) \/ Reject(w) \/ BlockRecovery(w)

LEMMA TableSteps ==
  ASSUME [Next]_vars
  PROVE  \/ UNCHANGED tableVars
         \/ \E w \in Workers : TableStep(w)
         \/ \E d \in Deliveries : PublishOutbox(d) \/ PublishRolledBack(d)
<1> USE DEF tableVars, storeVars, vars
<1>1. ASSUME NEW r \in Requests, CreateRequest(r) \/ RequestExpires(r)
      PROVE  UNCHANGED tableVars
  BY <1>1 DEF CreateRequest, RequestExpires
<1>2. ASSUME NEW w \in Workers, NEW c \in Commands, PreflightKnown(w, c) \/ PreflightNew(w, c)
      PROVE  UNCHANGED tableVars
  BY <1>2 DEF PreflightKnown, PreflightNew
<1>3. ASSUME NEW w \in Workers, NEW d \in Deliveries, LeaseRecovery(w, d)
      PROVE  UNCHANGED tableVars
  BY <1>3 DEF LeaseRecovery
<1>4. ASSUME NEW w \in Workers, WorkerStep(w)
      PROVE  UNCHANGED tableVars \/ TableStep(w)
  BY <1>4
  DEF WorkerStep, TableStep, PrepareRefused, AcquireLock, LockBusy, ReadRecord, DispatchSwap,
      RecordRedemptionStart, SwapAnswered, SwapRefused, SwapAmbiguous, RestoreFound,
      RestoreNotFound, SessionGone
<1>5. ASSUME NEW w \in Workers, InspectFails(w) \/ MintStep(w) \/ WorkerFault(w)
      PROVE  UNCHANGED tableVars
  BY <1>5
  DEF InspectFails, MintStep, WorkerFault, MintSwaps, MintReplays, MintRefuses,
      GatewayDuplicates, Crash, LoseSession, StoreFails, RestoreFails
<1>6. ASSUME NEW d \in Deliveries, ReplayWindowCloses(d)
      PROVE  UNCHANGED tableVars
  BY <1>6 DEF ReplayWindowCloses
<1>7. ASSUME NEW pl \in late, MintSwapsLate(pl)
      PROVE  UNCHANGED tableVars
  BY <1>7 DEF MintSwapsLate
<1>8. ASSUME NEW p \in Proofs, SpentElsewhere(p)
      PROVE  UNCHANGED tableVars
  BY <1>8 DEF SpentElsewhere
<1>9. CASE UNCHANGED vars
  BY <1>9
<1> QED
  BY <1>1, <1>2, <1>3, <1>4, <1>5, <1>6, <1>7, <1>8, <1>9 DEF Next

\* At a table step past prepare the worker's delivery is stored.
LEMMA TableStepDelivery ==
  ASSUME Base, NEW w \in Workers, TableStep(w)
  PROVE  /\ Job(w) \in Deliveries
         /\ ~Prepare(w) => bound[Job(w)] = cmd[w] /\ phase[Job(w)] # "absent"
<1>1. pc[w] # "idle" /\ (pc[w] = "prepare" => Prepare(w))
  <2>1. CASE Prepare(w)
    BY <2>1 DEF Prepare
  <2>2. CASE ~Prepare(w)
    BY <2>2
    DEF TableStep, MarkMintSent, Settle, PersistSettlementOutputs, CreditSettlement,
        FinalizeSettlement, Reject, BlockRecovery
  <2> QED
    BY <2>1, <2>2
<1>2. cmd[w] \in Commands /\ delOf[cmd[w]] \in Deliveries
  BY <1>1, ConstantsAssumption DEF Base, TypeOK, WorkersOK
<1>3. ~Prepare(w) => bound[delOf[cmd[w]]] = cmd[w]
  BY <1>1 DEF Base, WorkersOK
<1>4. NoCommand # cmd[w] /\ (phase[delOf[cmd[w]]] = "absent" <=> bound[delOf[cmd[w]]] = NoCommand)
  BY <1>2, ConstantsAssumption DEF Base, StoreOK
<1> QED
  BY <1>2, <1>3, <1>4 DEF Job

-----------------------------------------------------------------------------
(* Phases and receipts.                                                      *)

LEMMA ReceiptsOKInit == Init => ReceiptsOK
  BY DEF Init, ReceiptsOK

\* How a step changes phases and receipts: a new delivery with its first
\* receipt, a phase with the receipt that belongs to it, or a phase alone while
\* outputs and credit are written.
Opens(d) ==
    /\ phase[d] = "absent" /\ receipt[d] = NoReceipt
    /\ phase' = [phase EXCEPT ![d] = "prepared"]
    /\ receipt' = [receipt EXCEPT ![d] = FirstReceipt]

Moves(d, ph, status, detailCode) ==
    /\ <<phase[d], ph, status, detailCode>> \in
          {<<"prepared", "mint_sent", "processing", "redeeming">>,
           <<"prepared", "recovery_blocked", "processing", "recovery_blocked">>,
           <<"mint_sent", "recovery_blocked", "processing", "recovery_blocked">>,
           <<"prepared", "rejected", "rejected", "mint_unavailable">>,
           <<"mint_sent", "rejected", "rejected", "mint_unavailable">>,
           <<"mint_sent", "settled", "settled", "settled">>,
           <<"recovery_blocked", "settled", "settled", "settled">>,
           <<"outputs_persisted", "settled", "settled", "settled">>,
           <<"credited", "settled", "settled", "settled">>}
    /\ phase' = [phase EXCEPT ![d] = ph]
    /\ receipt' = [receipt EXCEPT ![d] = nextReceipt(receipt[d], status, detailCode)]

Proceeds(d, ph) ==
    /\ <<phase[d], ph>> \in
          {<<"mint_sent", "outputs_persisted">>,
           <<"recovery_blocked", "outputs_persisted">>,
           <<"outputs_persisted", "credited">>}
    /\ phase' = [phase EXCEPT ![d] = ph]
    /\ receipt' = receipt

LEMMA PhaseSteps ==
  ASSUME Base, ReceiptsOK, [Next]_vars
  PROVE  \/ phase' = phase /\ receipt' = receipt
         \/ \E d \in Deliveries : Opens(d)
         \/ \E d \in Deliveries, ph \in Phases, s \in Statuses, dc \in DetailCodes :
               Moves(d, ph, s, dc)
         \/ \E d \in Deliveries, ph \in Phases : Proceeds(d, ph)
<1>1. CASE UNCHANGED tableVars
  BY <1>1 DEF tableVars
<1>2. ASSUME NEW d \in Deliveries, PublishOutbox(d) \/ PublishRolledBack(d)
      PROVE  phase' = phase /\ receipt' = receipt
  BY <1>2 DEF PublishOutbox, PublishRolledBack
<1>3. ASSUME NEW w \in Workers, Prepare(w)
      PROVE  /\ phase[Job(w)] = "absent" /\ receipt[Job(w)] = NoReceipt
             /\ phase' = [phase EXCEPT ![Job(w)] = "prepared"]
             /\ receipt' = [receipt EXCEPT ![Job(w)] = FirstReceipt]
  BY <1>3, TableStepDelivery
  DEF TableStep, Base, StoreOK, ReceiptsOK, Prepare, CanPrepare, Job
<1>4. ASSUME NEW w \in Workers, MarkMintSent(w)
      PROVE  \/ phase' = phase /\ receipt' = receipt
             \/ /\ phase[Job(w)] = "prepared"
                /\ phase' = [phase EXCEPT ![Job(w)] = "mint_sent"]
                /\ receipt' = [receipt EXCEPT ![Job(w)] =
                                 nextReceipt(receipt[Job(w)], "processing", "redeeming")]
  BY <1>4 DEF MarkMintSent
<1>5. ASSUME NEW w \in Workers, BlockRecovery(w)
      PROVE  \/ phase' = phase /\ receipt' = receipt
             \/ /\ phase[Job(w)] \in {"prepared", "mint_sent"}
                /\ phase' = [phase EXCEPT ![Job(w)] = "recovery_blocked"]
                /\ receipt' = [receipt EXCEPT ![Job(w)] =
                                 nextReceipt(receipt[Job(w)], "processing", "recovery_blocked")]
  BY <1>5 DEF BlockRecovery
<1>6. ASSUME NEW w \in Workers, Reject(w)
      PROVE  \/ phase' = phase /\ receipt' = receipt
             \/ /\ phase[Job(w)] \in {"prepared", "mint_sent"}
                /\ phase' = [phase EXCEPT ![Job(w)] = "rejected"]
                /\ receipt' = [receipt EXCEPT ![Job(w)] =
                                 nextReceipt(receipt[Job(w)], "rejected", "mint_unavailable")]
  BY <1>6 DEF Reject
<1>7. ASSUME NEW w \in Workers, Settle(w) \/ FinalizeSettlement(w)
      PROVE  \/ phase' = phase /\ receipt' = receipt
             \/ /\ phase[Job(w)] \in {"mint_sent", "recovery_blocked", "outputs_persisted",
                                      "credited"}
                /\ phase' = [phase EXCEPT ![Job(w)] = "settled"]
                /\ receipt' = [receipt EXCEPT ![Job(w)] =
                                 nextReceipt(receipt[Job(w)], "settled", "settled")]
  BY <1>7 DEF Settle, FinalizeSettlement, EndSettled, Settleable
<1>8. ASSUME NEW w \in Workers, PersistSettlementOutputs(w) \/ CreditSettlement(w)
      PROVE  /\ receipt' = receipt
             /\ \/ phase' = phase
                \/ \E ph \in {"outputs_persisted", "credited"} :
                      /\ <<phase[Job(w)], ph>> \in
                            {<<"mint_sent", "outputs_persisted">>,
                             <<"recovery_blocked", "outputs_persisted">>,
                             <<"outputs_persisted", "credited">>}
                      /\ phase' = [phase EXCEPT ![Job(w)] = ph]
  BY <1>8 DEF PersistSettlementOutputs, CreditSettlement
<1>9. ASSUME NEW w \in Workers, TableStep(w) PROVE Job(w) \in Deliveries
  BY <1>9, TableStepDelivery
<1> DEFINE Same == phase' = phase /\ receipt' = receipt
           Moved(w) == \E ph \in Phases, s \in Statuses, dc \in DetailCodes :
                          Moves(Job(w), ph, s, dc)
           Proceeded(w) == \E ph \in Phases : Proceeds(Job(w), ph)
<1>10. /\ {"mint_sent", "recovery_blocked", "rejected", "settled", "outputs_persisted",
           "credited"} \subseteq Phases
       /\ {"processing", "rejected", "settled"} \subseteq Statuses
       /\ {"redeeming", "recovery_blocked", "mint_unavailable", "settled"} \subseteq DetailCodes
  BY DEF Phases, Statuses, DetailCodes
<1>11. ASSUME NEW w \in Workers, Prepare(w) PROVE Opens(Job(w))
  BY <1>3, <1>11 DEF Opens
<1>12. ASSUME NEW w \in Workers, MarkMintSent(w) PROVE Same \/ Moved(w)
  <2>1. Same \/ Moves(Job(w), "mint_sent", "processing", "redeeming")
    BY <1>4, <1>12 DEF Moves
  <2> QED
    BY <1>10, <2>1
<1>13. ASSUME NEW w \in Workers, BlockRecovery(w) PROVE Same \/ Moved(w)
  <2>1. Same \/ Moves(Job(w), "recovery_blocked", "processing", "recovery_blocked")
    BY <1>5, <1>13 DEF Moves
  <2> QED
    BY <1>10, <2>1
<1>14. ASSUME NEW w \in Workers, Reject(w) PROVE Same \/ Moved(w)
  <2>1. Same \/ Moves(Job(w), "rejected", "rejected", "mint_unavailable")
    BY <1>6, <1>14 DEF Moves
  <2> QED
    BY <1>10, <2>1
<1>15. ASSUME NEW w \in Workers, Settle(w) \/ FinalizeSettlement(w) PROVE Same \/ Moved(w)
  <2>1. Same \/ Moves(Job(w), "settled", "settled", "settled")
    BY <1>7, <1>15 DEF Moves
  <2> QED
    BY <1>10, <2>1
<1>16. ASSUME NEW w \in Workers, PersistSettlementOutputs(w) \/ CreditSettlement(w)
       PROVE  Same \/ Proceeded(w)
  BY <1>8, <1>10, <1>16 DEF Proceeds
<1>17. ASSUME NEW w \in Workers, TableStep(w)
       PROVE  Same \/ Opens(Job(w)) \/ Moved(w) \/ Proceeded(w)
  <2> HIDE DEF Same, Moved, Proceeded
  <2> QED
    BY <1>11, <1>12, <1>13, <1>14, <1>15, <1>16, <1>17 DEF TableStep
<1> QED
  BY <1>1, <1>2, <1>9, <1>17, TableSteps

LEMMA ReceiptsOKNext == Base /\ ReceiptsOK /\ [Next]_vars => ReceiptsOK'
<1> SUFFICES ASSUME Base, ReceiptsOK, [Next]_vars PROVE ReceiptsOK'
  OBVIOUS
<1>0. phase \in [Deliveries -> Phases] /\ receipt \in [Deliveries -> Receipts \cup {NoReceipt}]
  BY DEF Base, TypeOK
<1>1. CASE phase' = phase /\ receipt' = receipt
  BY <1>1 DEF ReceiptsOK
<1>2. ASSUME NEW d \in Deliveries, Opens(d) PROVE ReceiptsOK'
  <2>1. FirstReceipt \in Receipts /\ FirstReceipt.status = "processing"
        /\ FirstReceipt.detailCode = "accepted"
    BY DEF FirstReceipt, Receipts, Statuses, DetailCodes
  <2> QED
    BY <1>0, <1>2, <2>1 DEF ReceiptsOK, Opens
<1>3. ASSUME NEW d \in Deliveries, NEW ph \in Phases, NEW s \in Statuses,
             NEW dc \in DetailCodes, Moves(d, ph, s, dc)
      PROVE  ReceiptsOK'
  <2> DEFINE n == nextReceipt(receipt[d], s, dc)
  <2>1. n \in Receipts /\ n.status = s /\ n.detailCode = dc
    BY <1>0, NextReceiptType
  <2> HIDE DEF n
  <2>2. receipt' = [receipt EXCEPT ![d] = n]
    BY <1>3 DEF n, Moves
  <2> QED
    BY <1>0, <1>3, <2>1, <2>2 DEF ReceiptsOK, Moves
<1>4. ASSUME NEW d \in Deliveries, NEW ph \in Phases, Proceeds(d, ph) PROVE ReceiptsOK'
  BY <1>0, <1>4 DEF ReceiptsOK, Proceeds
<1> QED
  BY <1>1, <1>2, <1>3, <1>4, PhaseSteps

LEMMA ReceiptsInvariant == Spec => [](Base /\ ReceiptsOK)
<1>1. Spec => []Base
  BY BaseInvariant
<1> QED
  BY <1>1, ReceiptsOKInit, ReceiptsOKNext, PTL DEF Spec

\* For any number of workers and faults, every change of a stored receipt is
\* one assertReceiptTransition accepts: versions grow by one, a terminal
\* receipt never changes and a blocked recovery is never rejected.
THEOREM ReceiptsAdvanceHolds == Spec => ReceiptsAdvance
<1> DEFINE A == \A d \in Deliveries :
                  receipt'[d] # receipt[d] => ReceiptTransition(receipt[d], receipt'[d])
<1>1. ASSUME Base, ReceiptsOK, [Next]_vars PROVE A
  <2>0. phase \in [Deliveries -> Phases] /\ receipt \in [Deliveries -> Receipts \cup {NoReceipt}]
    BY <1>1 DEF Base, TypeOK
  <2>1. ASSUME NEW d \in Deliveries, Opens(d) PROVE A
    BY <2>0, <2>1 DEF Opens, ReceiptTransition, FirstReceipt
  <2>2. ASSUME NEW d \in Deliveries, NEW ph \in Phases, NEW s \in Statuses,
               NEW dc \in DetailCodes, Moves(d, ph, s, dc)
        PROVE  A
    <3> DEFINE n == nextReceipt(receipt[d], s, dc)
    <3>1. /\ n.status = s /\ n.detailCode = dc
          /\ n.statusVersion = receipt[d].statusVersion + 1
      BY <2>0, NextReceiptType
    <3> HIDE DEF n
    <3>2. receipt' = [receipt EXCEPT ![d] = n]
      BY <2>2 DEF n, Moves
    <3>3. ReceiptTransition(receipt[d], n)
      <4>1. /\ receipt[d] # NoReceipt /\ receipt[d].status = "processing"
            /\ receipt[d].detailCode = "recovery_blocked" => phase[d] \notin {"prepared", "mint_sent"}
            /\ phase[d] = "prepared" => receipt[d].detailCode = "accepted"
            /\ phase[d] = "mint_sent" => receipt[d].detailCode = "redeeming"
        BY <1>1, <2>2 DEF ReceiptsOK, Moves, NoReceipt, Receipts
      <4> QED
        BY <2>2, <3>1, <4>1 DEF ReceiptTransition, Moves, Terminal
    <3> QED
      BY <2>0, <3>2, <3>3
  <2>3. ASSUME NEW d \in Deliveries, NEW ph \in Phases, Proceeds(d, ph) PROVE A
    BY <2>3 DEF Proceeds
  <2> QED
    BY <1>1, <2>1, <2>2, <2>3, PhaseSteps
<1>2. Base /\ ReceiptsOK /\ [Next]_vars => [A]_vars
  BY <1>1
<1> QED
  BY <1>2, ReceiptsInvariant, PTL DEF Spec, ReceiptsAdvance

-----------------------------------------------------------------------------
(* Claims and reservations.                                                  *)

Gone == {"absent", "rejected"}

LEMMA OtherSteps ==
  ASSUME Base, NEW w \in Workers, TableStep(w), ~Prepare(w), ~Reject(w)
  PROVE  /\ bound' = bound /\ claims' = claims
         /\ \A d \in Deliveries : phase'[d] \in Gone <=> phase[d] \in Gone
<1>1. Job(w) \in Deliveries /\ phase \in [Deliveries -> Phases]
  BY TableStepDelivery DEF Base, TypeOK
<1> QED
  BY <1>1
  DEF TableStep, MarkMintSent, Settle, PersistSettlementOutputs, CreditSettlement,
      FinalizeSettlement, BlockRecovery, EndSettled, Settleable, Gone

LEMMA ClaimsNext == Base /\ ProofSetExclusivity /\ [Next]_vars => ProofSetExclusivity'
<1> SUFFICES ASSUME Base, ProofSetExclusivity, [Next]_vars PROVE ProofSetExclusivity'
  OBVIOUS
<1>0. /\ phase \in [Deliveries -> Phases]
      /\ bound \in [Deliveries -> Commands \cup {NoCommand}]
      /\ claims \in [Proofs -> Deliveries \cup {NoDelivery}]
  BY DEF Base, TypeOK
<1>1. CASE UNCHANGED tableVars
  BY <1>1 DEF tableVars, ProofSetExclusivity
<1>2. ASSUME NEW d \in Deliveries, PublishOutbox(d) \/ PublishRolledBack(d)
      PROVE  ProofSetExclusivity'
  BY <1>2 DEF PublishOutbox, PublishRolledBack, ProofSetExclusivity
<1>3. ASSUME NEW w \in Workers, Prepare(w) PROVE ProofSetExclusivity'
  <2>1. Job(w) \in Deliveries /\ phase[Job(w)] = "absent"
    BY <1>3, TableStepDelivery DEF TableStep, Base, StoreOK, Prepare, CanPrepare, Job
  <2>2. /\ phase' = [phase EXCEPT ![Job(w)] = "prepared"]
        /\ bound' = [bound EXCEPT ![Job(w)] = cmd[w]]
        /\ claims' = [p \in Proofs |-> IF p \in proofsOf[cmd[w]] THEN Job(w) ELSE claims[p]]
        /\ \A p \in proofsOf[cmd[w]] : claims[p] = NoDelivery
    BY <1>3 DEF Prepare, CanPrepare, Job
  <2>3. ASSUME NEW d \in Deliveries, NEW p \in Proofs
        PROVE  claims'[p] = d <=> phase'[d] \notin Gone /\ p \in proofsOf[bound'[d]]
    <3>1. /\ phase'[d] = IF d = Job(w) THEN "prepared" ELSE phase[d]
          /\ bound'[d] = IF d = Job(w) THEN cmd[w] ELSE bound[d]
          /\ claims'[p] = IF p \in proofsOf[cmd[w]] THEN Job(w) ELSE claims[p]
      BY <1>0, <2>2
    <3>2. claims[p] = d <=> phase[d] \notin Gone /\ p \in proofsOf[bound[d]]
      BY DEF ProofSetExclusivity, Gone
    <3>3. CASE d = Job(w)
      BY <2>1, <3>1, <3>2, <3>3 DEF Gone
    <3>4. CASE d # Job(w) /\ p \in proofsOf[cmd[w]]
      <4>1. claims[p] # d
        BY <2>2, <3>4, ConstantsAssumption
      <4> QED
        BY <3>1, <3>2, <3>4, <4>1
    <3>5. CASE d # Job(w) /\ p \notin proofsOf[cmd[w]]
      BY <3>1, <3>2, <3>5
    <3> QED
      BY <3>3, <3>4, <3>5
  <2> QED
    BY <2>3 DEF ProofSetExclusivity, Gone
<1>4. ASSUME NEW w \in Workers, Reject(w) PROVE ProofSetExclusivity'
  <2>1. Job(w) \in Deliveries
    BY <1>4, TableStepDelivery DEF TableStep
  <2>2. \/ phase' = phase /\ bound' = bound /\ claims' = claims
        \/ /\ phase' = [phase EXCEPT ![Job(w)] = "rejected"] /\ bound' = bound
           /\ claims' = [p \in Proofs |-> IF claims[p] = Job(w) THEN NoDelivery ELSE claims[p]]
    BY <1>4 DEF Reject
  <2>3. CASE phase' = phase /\ bound' = bound /\ claims' = claims
    BY <2>3 DEF ProofSetExclusivity
  <2>4. ASSUME phase' = [phase EXCEPT ![Job(w)] = "rejected"], bound' = bound,
               claims' = [p \in Proofs |-> IF claims[p] = Job(w) THEN NoDelivery ELSE claims[p]],
               NEW d \in Deliveries, NEW p \in Proofs
        PROVE  claims'[p] = d <=> phase'[d] \notin Gone /\ p \in proofsOf[bound'[d]]
    <3>1. /\ phase'[d] = IF d = Job(w) THEN "rejected" ELSE phase[d]
          /\ claims'[p] = IF claims[p] = Job(w) THEN NoDelivery ELSE claims[p]
      BY <1>0, <2>4
    <3>2. claims[p] = d <=> phase[d] \notin Gone /\ p \in proofsOf[bound[d]]
      BY DEF ProofSetExclusivity, Gone
    <3>3. NoDelivery # d
      BY ConstantsAssumption
    <3>4. CASE d = Job(w)
      BY <3>1, <3>3, <3>4 DEF Gone
    <3>5. CASE d # Job(w)
      BY <2>4, <3>1, <3>2, <3>3, <3>5
    <3> QED
      BY <3>4, <3>5
  <2> QED
    BY <2>2, <2>3, <2>4 DEF ProofSetExclusivity, Gone
<1>5. ASSUME NEW w \in Workers, TableStep(w), ~Prepare(w), ~Reject(w)
      PROVE  ProofSetExclusivity'
  BY <1>5, OtherSteps DEF ProofSetExclusivity, Gone
<1> QED
  BY <1>1, <1>2, <1>3, <1>4, <1>5, TableSteps

\* Two deliveries that are not rejected never share a proof, for any number of
\* deliveries and of workers racing between preflight and prepare.
THEOREM ClaimsHold == Spec => []ProofSetExclusivity
<1>1. Init => ProofSetExclusivity
  <2>1. NoDelivery \notin Deliveries
    BY ConstantsAssumption
  <2>2. ASSUME phase = [d \in Deliveries |-> "absent"], claims = [p \in Proofs |-> NoDelivery]
        PROVE  ProofSetExclusivity
    BY <2>1, <2>2 DEF ProofSetExclusivity
  <2> QED
    BY <2>2 DEF Init
<1> QED
  BY <1>1, BaseInvariant, ClaimsNext, PTL DEF Spec

LEMMA ReservationNext == Base /\ SingleUseReservation /\ [Next]_vars => SingleUseReservation'
<1> SUFFICES ASSUME Base, SingleUseReservation, [Next]_vars PROVE SingleUseReservation'
  OBVIOUS
<1>0. /\ phase \in [Deliveries -> Phases]
      /\ bound \in [Deliveries -> Commands \cup {NoCommand}]
  BY DEF Base, TypeOK
<1>1. CASE UNCHANGED tableVars
  BY <1>1 DEF tableVars, SingleUseReservation
<1>2. ASSUME NEW d \in Deliveries, PublishOutbox(d) \/ PublishRolledBack(d)
      PROVE  SingleUseReservation'
  BY <1>2 DEF PublishOutbox, PublishRolledBack, SingleUseReservation
<1>3. ASSUME NEW w \in Workers, Prepare(w) PROVE SingleUseReservation'
  <2>1. Job(w) \in Deliveries /\ phase[Job(w)] = "absent"
    BY <1>3, TableStepDelivery DEF TableStep, Base, StoreOK, Prepare, CanPrepare, Job
  <2>2. \A d \in Deliveries : phase[d] # "absent" => bound[d] # NoCommand
    BY DEF Base, StoreOK
  <2> QED
    BY <1>0, <1>3, <2>1, <2>2 DEF Prepare, CanPrepare, Reserved, Job, SingleUseReservation
<1>4. ASSUME NEW w \in Workers, Reject(w) PROVE SingleUseReservation'
  <2>1. Job(w) \in Deliveries
    BY <1>4, TableStepDelivery DEF TableStep
  <2> QED
    BY <1>0, <1>4, <2>1 DEF Reject, SingleUseReservation
<1>5. ASSUME NEW w \in Workers, TableStep(w), ~Prepare(w), ~Reject(w)
      PROVE  SingleUseReservation'
  BY <1>5, OtherSteps DEF SingleUseReservation, Gone
<1> QED
  BY <1>1, <1>2, <1>3, <1>4, <1>5, TableSteps

\* A single-use request never has two deliveries that are not rejected.
THEOREM ReservationHolds == Spec => []SingleUseReservation
<1>1. Init => SingleUseReservation
  BY DEF Init, SingleUseReservation
<1> QED
  BY <1>1, BaseInvariant, ReservationNext, PTL DEF Spec

-----------------------------------------------------------------------------
(* Locks, sessions and the swap exchange. *)

\* The lock of a delivery and the session of its holder come and go together.
LocksOK ==
    /\ \A w \in Workers : alive[w] =>
          pc[w] \notin {"idle", "prepare", "lock"} /\ lock[delOf[cmd[w]]] = w
    /\ \A d \in Deliveries, w \in Workers :
          lock[d] = w => alive[w] /\ delOf[cmd[w]] = d

\* Steps at which a worker has nothing at the mint.
QuietSteps == {"prepare", "lock", "read", "mark", "block"}

Quiet(w, d) ==
    cmd[w] # NoCommand /\ delOf[cmd[w]] = d => pc[w] \in QuietSteps /\ wire[w] = "none"

\* Before the first dispatch, and after a rejection, nothing is at the mint.
UntouchedOK ==
    \A d \in Deliveries : phase[d] \in {"absent", "prepared", "rejected"} =>
        /\ plan[d] \notin signed \cup late
        /\ \A w \in Workers : Quiet(w, d)

\* A worker that holds the lock and runs the first swap is alone at the mint.
FirstSwap(w) ==
    /\ pc[w] = "mark" => phase[delOf[cmd[w]]] = "prepared"
    /\ pc[w] \in {"dispatch", "hook", "await", "reject"} =>
          /\ phase[delOf[cmd[w]]] = "mint_sent"
          /\ plan[delOf[cmd[w]]] \notin late
          /\ wire[w] # "done" => plan[delOf[cmd[w]]] \notin signed
          /\ \A v \in Workers \ {w} : Quiet(v, delOf[cmd[w]])

FirstSwapOK == \A w \in Workers : alive[w] => FirstSwap(w)


-----------------------------------------------------------------------------
(* Locks and sessions.                                                       *)

\* What a step does to the workers: nothing, or one worker begins, moves on,
\* takes its lock, ends or loses its session.
Begins(w) ==
    /\ pc[w] = "idle"
    /\ \E step \in {"prepare", "lock"}, c \in Commands :
          Goto(w, step) /\ cmd' = [cmd EXCEPT ![w] = c]
    /\ lock' = lock /\ alive' = alive

Continues(w) ==
    /\ pc[w] \notin {"idle", "lock"}
    /\ \E step \in Steps \ {"idle", "prepare"} :
          Goto(w, step) /\ (step = "lock" => pc[w] = "prepare")
    /\ lock' = lock /\ alive' = alive /\ cmd' = cmd

Reaches(w, step) ==
    pc[w] \notin {"idle", "lock"} /\ Goto(w, step) /\ lock' = lock /\ alive' = alive /\ cmd' = cmd

LEMMA ReachesContinues ==
  ASSUME NEW w \in Workers, NEW step \in Steps \ {"idle", "prepare", "lock"}, Reaches(w, step)
  PROVE  Continues(w)
BY DEF Reaches, Continues

LEMMA WorkerKinds ==
  ASSUME Base, [Next]_vars
  PROVE  \/ UNCHANGED <<lock, pc, cmd, alive>>
         \/ \E w \in Workers : Begins(w) \/ Continues(w) \/ AcquireLock(w) \/ Finish(w)
                                \/ LoseSession(w)
<1> USE DEF workerVars
<1>1. ASSUME NEW r \in Requests, CreateRequest(r) \/ RequestExpires(r)
      PROVE  UNCHANGED <<lock, pc, cmd, alive>>
  BY <1>1 DEF CreateRequest, RequestExpires
<1>2. ASSUME NEW w \in Workers, NEW c \in Commands, PreflightKnown(w, c) \/ PreflightNew(w, c)
      PROVE  Begins(w)
  BY <1>2 DEF PreflightKnown, PreflightNew, Begins
<1>3. ASSUME NEW w \in Workers, NEW d \in Deliveries, LeaseRecovery(w, d)
      PROVE  Begins(w)
  <2>1. bound[d] \in Commands
    BY <1>3 DEF LeaseRecovery, TerminalPhases, Base, StoreOK, TypeOK
  <2> QED
    BY <1>3, <2>1 DEF LeaseRecovery, Begins
<1>4. ASSUME NEW w \in Workers,
             \/ Prepare(w) \/ MarkMintSent(w) \/ DispatchSwap(w) \/ SwapAnswered(w)
             \/ SwapRefused(w) \/ SwapAmbiguous(w) \/ RestoreFound(w) \/ RestoreNotFound(w)
             \/ RestoreFails(w)
      PROVE  Continues(w)
  <2>1. CASE Prepare(w)
    <3>1. "lock" \in Steps \ {"idle", "prepare"}
      BY DEF Steps
    <3> QED
      BY <2>1, <3>1 DEF Prepare, Continues
  <2>2. CASE MarkMintSent(w)
    <3>1. Reaches(w, "dispatch")
      BY <2>2 DEF MarkMintSent, Reaches
    <3> QED
      BY <3>1, ReachesContinues DEF Steps
  <2>3. CASE DispatchSwap(w)
    <3>1. Reaches(w, "hook") \/ Reaches(w, "rehook")
      BY <2>3 DEF DispatchSwap, Reaches
    <3> QED
      BY <3>1, ReachesContinues DEF Steps
  <2>4. CASE SwapAnswered(w)
    <3>1. Reaches(w, "settle")
      BY <2>4 DEF SwapAnswered, Reaches
    <3> QED
      BY <3>1, ReachesContinues DEF Steps
  <2>5. CASE SwapRefused(w)
    <3>1. Reaches(w, "reject") \/ Reaches(w, "block")
      BY <2>5 DEF SwapRefused, Reaches
    <3> QED
      BY <3>1, ReachesContinues DEF Steps
  <2>6. CASE SwapAmbiguous(w)
    <3>1. Reaches(w, "block")
      BY <2>6 DEF SwapAmbiguous, Reaches
    <3> QED
      BY <3>1, ReachesContinues DEF Steps
  <2>7. CASE RestoreFound(w)
    <3>1. Reaches(w, "settle")
      BY <2>7 DEF RestoreFound, Reaches
    <3> QED
      BY <3>1, ReachesContinues DEF Steps
  <2>8. CASE RestoreNotFound(w) \/ RestoreFails(w)
    <3>1. Reaches(w, "replay") \/ Reaches(w, "block")
      BY <2>8 DEF RestoreNotFound, RestoreFails, Reaches
    <3> QED
      BY <3>1, ReachesContinues DEF Steps
  <2> QED
    BY <1>4, <2>1, <2>2, <2>3, <2>4, <2>5, <2>6, <2>7, <2>8
<1>5. ASSUME NEW w \in Workers,
             \/ PrepareRefused(w) \/ LockBusy(w) \/ Settle(w) \/ FinalizeSettlement(w)
             \/ Reject(w) \/ BlockRecovery(w) \/ SessionGone(w) \/ InspectFails(w) \/ Crash(w)
      PROVE  Finish(w)
  BY <1>5
  DEF PrepareRefused, LockBusy, Settle, FinalizeSettlement, Reject, BlockRecovery,
      SessionGone, InspectFails, Crash
<1>6. ASSUME NEW w \in Workers, ReadRecord(w) PROVE Continues(w) \/ Finish(w)
  <2>1. NextStep(phase[Job(w)]) \in Steps \ {"idle", "prepare", "lock"}
    BY DEF NextStep, Steps
  <2>2. Reaches(w, NextStep(phase[Job(w)])) \/ Finish(w)
    BY <1>6 DEF ReadRecord, Reaches
  <2> QED
    BY <2>1, <2>2, ReachesContinues
<1>7. ASSUME NEW w \in Workers,
             \/ RecordRedemptionStart(w) \/ PersistSettlementOutputs(w)
             \/ CreditSettlement(w) \/ StoreFails(w)
      PROVE  Continues(w) \/ Finish(w)
  <2>1. CASE RecordRedemptionStart(w)
    <3>1. Reaches(w, "block") \/ Reaches(w, "await") \/ Reaches(w, "reawait") \/ Finish(w)
      BY <2>1 DEF RecordRedemptionStart, Reaches
    <3> QED
      BY <3>1, ReachesContinues DEF Steps
  <2>2. CASE PersistSettlementOutputs(w)
    <3>1. Reaches(w, "credit") \/ Finish(w)
      BY <2>2 DEF PersistSettlementOutputs, Reaches
    <3> QED
      BY <3>1, ReachesContinues DEF Steps
  <2>3. CASE CreditSettlement(w)
    <3>1. Reaches(w, "finalize") \/ Finish(w)
      BY <2>3 DEF CreditSettlement, Reaches
    <3> QED
      BY <3>1, ReachesContinues DEF Steps
  <2>4. CASE StoreFails(w)
    <3>1. Reaches(w, "block") \/ Finish(w)
      BY <2>4 DEF StoreFails, StoreSteps, Reaches
    <3> QED
      BY <3>1, ReachesContinues DEF Steps
  <2> QED
    BY <1>7, <2>1, <2>2, <2>3, <2>4
<1>8. ASSUME NEW w \in Workers, MintStep(w) PROVE UNCHANGED <<lock, pc, cmd, alive>>
  BY <1>8 DEF MintStep, MintSwaps, MintReplays, MintRefuses, GatewayDuplicates
<1>9. ASSUME NEW d \in Deliveries,
             ReplayWindowCloses(d) \/ PublishOutbox(d) \/ PublishRolledBack(d)
      PROVE  UNCHANGED <<lock, pc, cmd, alive>>
  BY <1>9 DEF ReplayWindowCloses, PublishOutbox, PublishRolledBack
<1>10. ASSUME NEW pl \in late, MintSwapsLate(pl) PROVE UNCHANGED <<lock, pc, cmd, alive>>
  BY <1>10 DEF MintSwapsLate
<1>11. ASSUME NEW p \in Proofs, SpentElsewhere(p) PROVE UNCHANGED <<lock, pc, cmd, alive>>
  BY <1>11 DEF SpentElsewhere
<1>12. CASE UNCHANGED vars
  BY <1>12 DEF vars
<1> QED
  BY <1>1, <1>2, <1>3, <1>4, <1>5, <1>6, <1>7, <1>8, <1>9, <1>10, <1>11, <1>12
  DEF Next, WorkerStep, WorkerFault

LEMMA LocksInit == Init => LocksOK
  BY ConstantsAssumption DEF Init, LocksOK

LEMMA LocksNext == Base /\ LocksOK /\ [Next]_vars => LocksOK'
<1> SUFFICES ASSUME Base, LocksOK, [Next]_vars PROVE LocksOK'
  OBVIOUS
<1>0. /\ lock \in [Deliveries -> Workers \cup {Nobody}] /\ pc \in [Workers -> Steps]
      /\ cmd \in [Workers -> Commands \cup {NoCommand}] /\ alive \in [Workers -> BOOLEAN]
      /\ \A w \in Workers : pc[w] = "idle" <=> cmd[w] = NoCommand
  BY DEF Base, TypeOK, WorkersOK
<1> USE ConstantsAssumption
<1>1. CASE UNCHANGED <<lock, pc, cmd, alive>>
  BY <1>1 DEF LocksOK
<1>2. ASSUME NEW w \in Workers, Begins(w) PROVE LocksOK'
  BY <1>0, <1>2 DEF LocksOK, Begins, Goto
<1>3. ASSUME NEW w \in Workers, Continues(w) PROVE LocksOK'
  BY <1>0, <1>3 DEF LocksOK, Continues, Goto
<1>4. ASSUME NEW w \in Workers, AcquireLock(w) PROVE LocksOK'
  BY <1>0, <1>4 DEF LocksOK, AcquireLock, Goto, Job
<1>5. ASSUME NEW w \in Workers, Finish(w) PROVE LocksOK'
  BY <1>0, <1>5 DEF LocksOK, Finish
<1>6. ASSUME NEW w \in Workers, LoseSession(w) PROVE LocksOK'
  BY <1>0, <1>6 DEF LocksOK, LoseSession, Job
<1> QED
  BY <1>1, <1>2, <1>3, <1>4, <1>5, <1>6, WorkerKinds

-----------------------------------------------------------------------------
(* The swap exchange.                                                        *)

\* A step belongs to at most one worker: it leaves the others alone, and only
\* that worker's open exchange can bring a plan to the mint or leave one behind.
ActsAlone(w) ==
    /\ \A v \in Workers \ {w} :
          pc'[v] = pc[v] /\ cmd'[v] = cmd[v] /\ wire'[v] = wire[v] /\ alive'[v] = alive[v]
    /\ \A pl \in late' : pl \in late \/ (wire[w] = "sent" /\ pl = plan[Job(w)])
    /\ \A pl \in signed' :
          pl \in signed \cup late \/ (wire[w] = "sent" /\ pl = plan[Job(w)])

NoWorkerActs ==
    /\ UNCHANGED <<pc, cmd, wire, alive>>
    /\ late' \subseteq late
    /\ signed' \subseteq signed \cup late

OwnStep(w) ==
    \/ pc[w] = "idle" /\ pc'[w] \in {"prepare", "lock"} /\ wire' = wire
    \/ WorkerStep(w) \/ InspectFails(w) \/ MintStep(w) \/ WorkerFault(w)

LEMMA ActorOf ==
  ASSUME Base, NEW w \in Workers,
         WorkerStep(w) \/ InspectFails(w) \/ MintStep(w) \/ WorkerFault(w)
  PROVE  ActsAlone(w)
<1>0. /\ pc \in [Workers -> Steps] /\ cmd \in [Workers -> Commands \cup {NoCommand}]
      /\ alive \in [Workers -> BOOLEAN]
      /\ wire \in [Workers -> {"none", "sent", "done", "refused"}]
  BY DEF Base, TypeOK
<1> USE DEF netVars, mintVars, workerVars
<1>4. ASSUME WorkerStep(w) PROVE ActsAlone(w)
  <2>1. \/ Finish(w)
        \/ \E step : Goto(w, step) /\ cmd' = cmd /\ (alive' = alive \/ AcquireLock(w))
    BY <1>4
    DEF WorkerStep, Prepare, PrepareRefused, AcquireLock, LockBusy, ReadRecord, MarkMintSent,
        DispatchSwap, RecordRedemptionStart, SwapAnswered, SwapRefused, SwapAmbiguous, Settle,
        PersistSettlementOutputs, CreditSettlement, FinalizeSettlement, Reject,
        BlockRecovery, RestoreFound, RestoreNotFound, SessionGone
  <2>2. \A v \in Workers \ {w} : pc'[v] = pc[v] /\ cmd'[v] = cmd[v] /\ alive'[v] = alive[v]
    BY <1>0, <2>1 DEF Finish, Goto, AcquireLock
  <2>3. signed' = signed
    BY <1>4
    DEF WorkerStep, Prepare, PrepareRefused, AcquireLock, LockBusy, ReadRecord, MarkMintSent,
        DispatchSwap, RecordRedemptionStart, SwapAnswered, SwapRefused, SwapAmbiguous, Settle,
        PersistSettlementOutputs, CreditSettlement, FinalizeSettlement, Reject,
        BlockRecovery, RestoreFound, RestoreNotFound, SessionGone
  <2>4. AbandonExchange(w) \/ (late' = late /\ \E x : wire' = [wire EXCEPT ![w] = x])
    <3>1. CASE DispatchSwap(w) \/ SwapAnswered(w) \/ SwapRefused(w)
      BY <3>1 DEF DispatchSwap, SwapAnswered, SwapRefused
    <3>2. CASE wire' = wire /\ late' = late
      <4>1. wire' = [wire EXCEPT ![w] = wire[w]]
        BY <1>0, <3>2
      <4> QED
        BY <3>2, <4>1
    <3> QED
      BY <1>4, <3>1, <3>2
      DEF WorkerStep, Prepare, PrepareRefused, AcquireLock, LockBusy, ReadRecord, MarkMintSent,
          RecordRedemptionStart, SwapAmbiguous, Settle, PersistSettlementOutputs,
          CreditSettlement, FinalizeSettlement, Reject, BlockRecovery, RestoreFound,
          RestoreNotFound, SessionGone
  <2> QED
    BY <1>0, <2>2, <2>3, <2>4 DEF ActsAlone, AbandonExchange
<1>5. ASSUME InspectFails(w) \/ MintStep(w) \/ WorkerFault(w) PROVE ActsAlone(w)
  BY <1>0, <1>5
  DEF InspectFails, MintStep, WorkerFault, MintSwaps, MintReplays, MintRefuses, Sign,
      GatewayDuplicates, Crash, LoseSession, StoreFails, RestoreFails, AbandonExchange,
      Finish, Goto, ActsAlone
<1> QED
  BY <1>4, <1>5

LEMMA Actors ==
  ASSUME Base, [Next]_vars
  PROVE  NoWorkerActs \/ \E w \in Workers : ActsAlone(w) /\ OwnStep(w)
<1>0. /\ pc \in [Workers -> Steps] /\ cmd \in [Workers -> Commands \cup {NoCommand}]
      /\ alive \in [Workers -> BOOLEAN]
      /\ wire \in [Workers -> {"none", "sent", "done", "refused"}]
  BY DEF Base, TypeOK
<1> USE DEF netVars, mintVars, workerVars
<1>1. ASSUME NEW r \in Requests, CreateRequest(r) \/ RequestExpires(r) PROVE NoWorkerActs
  BY <1>1 DEF CreateRequest, RequestExpires, NoWorkerActs
<1>2. ASSUME NEW w \in Workers, NEW c \in Commands, PreflightKnown(w, c) \/ PreflightNew(w, c)
      PROVE  ActsAlone(w) /\ OwnStep(w)
  BY <1>0, <1>2 DEF PreflightKnown, PreflightNew, ActsAlone, OwnStep, Goto
<1>3. ASSUME NEW w \in Workers, NEW d \in Deliveries, LeaseRecovery(w, d)
      PROVE  ActsAlone(w) /\ OwnStep(w)
  BY <1>0, <1>3 DEF LeaseRecovery, ActsAlone, OwnStep, Goto
<1>4. ASSUME NEW w \in Workers,
             WorkerStep(w) \/ InspectFails(w) \/ MintStep(w) \/ WorkerFault(w)
      PROVE  ActsAlone(w) /\ OwnStep(w)
  BY <1>4, ActorOf DEF OwnStep
<1>6. ASSUME NEW d \in Deliveries,
             ReplayWindowCloses(d) \/ PublishOutbox(d) \/ PublishRolledBack(d)
      PROVE  NoWorkerActs
  BY <1>6 DEF ReplayWindowCloses, PublishOutbox, PublishRolledBack, NoWorkerActs
<1>7. ASSUME NEW pl \in late, MintSwapsLate(pl) PROVE NoWorkerActs
  BY <1>7 DEF MintSwapsLate, Sign, NoWorkerActs
<1>8. ASSUME NEW p \in Proofs, SpentElsewhere(p) PROVE NoWorkerActs
  BY <1>8 DEF SpentElsewhere, NoWorkerActs
<1>9. CASE UNCHANGED vars
  BY <1>9 DEF vars, NoWorkerActs
<1> QED
  BY <1>1, <1>2, <1>3, <1>4, <1>6, <1>7, <1>8, <1>9 DEF Next

LEMMA AtMint ==
  ASSUME Base, [Next]_vars
  PROVE  \A pl \in signed' \cup late' :
            \/ pl \in signed \cup late
            \/ \E w \in Workers : wire[w] = "sent" /\ pl = plan[Job(w)]
  BY Actors DEF ActsAlone, NoWorkerActs

\* A worker with an open exchange has the stored plan of its delivery there.
LEMMA ExchangePlan ==
  ASSUME Base, NEW w \in Workers, cmd[w] # NoCommand, pc[w] # "prepare"
  PROVE  /\ Job(w) \in Deliveries /\ bound[Job(w)] = cmd[w] /\ bound[Job(w)] # NoCommand
         /\ plan[Job(w)] \in Plans /\ delOf[plan[Job(w)][1]] = Job(w)
<1>1. cmd[w] \in Commands /\ delOf[cmd[w]] \in Deliveries /\ pc[w] # "idle"
  BY ConstantsAssumption DEF Base, TypeOK, WorkersOK
<1>2. bound[delOf[cmd[w]]] = cmd[w]
  BY <1>1 DEF Base, WorkersOK
<1> QED
  BY <1>1, <1>2 DEF Base, StoreOK, Job

\* Bindings and plans are written once, by prepare.
LEMMA BindingSteps ==
  ASSUME Base, [Next]_vars
  PROVE  \/ bound' = bound /\ plan' = plan
         \/ \E w \in Workers : Prepare(w)
<1>1. ASSUME NEW w \in Workers, TableStep(w), ~Prepare(w) PROVE bound' = bound /\ plan' = plan
  BY <1>1
  DEF TableStep, MarkMintSent, Settle, PersistSettlementOutputs, CreditSettlement,
      FinalizeSettlement, Reject, BlockRecovery
<1>2. ASSUME NEW d \in Deliveries, PublishOutbox(d) \/ PublishRolledBack(d)
      PROVE  bound' = bound /\ plan' = plan
  BY <1>2 DEF PublishOutbox, PublishRolledBack
<1> QED
  BY <1>1, <1>2, TableSteps DEF tableVars

LEMMA PlanStoredNext ==
  Base /\ PlanStoredBeforeSwap /\ [Next]_vars => PlanStoredBeforeSwap'
<1> SUFFICES ASSUME Base, PlanStoredBeforeSwap, [Next]_vars PROVE PlanStoredBeforeSwap'
  OBVIOUS
<1>1. ASSUME NEW pl \in signed' \cup late'
      PROVE  pl \in Plans /\ plan[delOf[pl[1]]] = pl
  <2>1. CASE pl \in signed \cup late
    BY <2>1 DEF PlanStoredBeforeSwap, Base, TypeOK
  <2>2. ASSUME NEW w \in Workers, wire[w] = "sent", pl = plan[Job(w)]
        PROVE  pl \in Plans /\ plan[delOf[pl[1]]] = pl
    <3>1. cmd[w] # NoCommand /\ pc[w] # "prepare"
      BY <2>2 DEF Base, WorkersOK
    <3> QED
      BY <2>2, <3>1, ExchangePlan
  <2> QED
    BY <1>1, <2>1, <2>2, AtMint
<1>2. CASE plan' = plan
  BY <1>1, <1>2 DEF PlanStoredBeforeSwap
<1>3. ASSUME NEW w \in Workers, Prepare(w) PROVE PlanStoredBeforeSwap'
  <2>1. Job(w) \in Deliveries /\ plan[Job(w)] = NoPlan /\ plan' = [plan EXCEPT ![Job(w)] = <<cmd[w], w>>]
    BY <1>3, TableStepDelivery DEF TableStep, Base, StoreOK, Prepare, CanPrepare, Job
  <2>2. plan \in [Deliveries -> Plans \cup {NoPlan}]
    BY DEF Base, TypeOK
  <2>3. ASSUME NEW d \in Deliveries, plan[d] \in Plans PROVE plan'[d] = plan[d]
    BY <2>1, <2>2, <2>3, NoPlanAssumption
  <2>4. ASSUME NEW pl \in signed' \cup late' PROVE plan'[delOf[pl[1]]] = pl
    <3>1. pl \in Plans /\ plan[delOf[pl[1]]] = pl
      BY <1>1, <2>4
    <3>2. delOf[pl[1]] \in Deliveries
      BY <3>1, ConstantsAssumption DEF Plans
    <3> QED
      BY <2>3, <3>1, <3>2
  <2> QED
    BY <2>4 DEF PlanStoredBeforeSwap
<1> QED
  BY <1>2, <1>3, BindingSteps

\* Whatever reaches the mint, now or later, was stored first: for any number of
\* faults, and even if a gateway repeats requests, a crash cannot lose the
\* secrets of outputs the mint has signed.
THEOREM PlanStoredHolds == Spec => []PlanStoredBeforeSwap
<1>1. Init => PlanStoredBeforeSwap
  BY DEF Init, PlanStoredBeforeSwap
<1> QED
  BY <1>1, BaseInvariant, PlanStoredNext, PTL DEF Spec

\* A quiet worker stays quiet, unless it goes on to read or mark the delivery
\* under its lock.
LEMMA QuietNext ==
  ASSUME Base, [Next]_vars, NEW w \in Workers, NEW d \in Deliveries, Quiet(w, d)
  PROVE  Quiet(w, d)' \/ (alive[w] /\ Job(w) = d /\ (ReadRecord(w) \/ MarkMintSent(w)))
<1>0. /\ pc \in [Workers -> Steps] /\ cmd \in [Workers -> Commands \cup {NoCommand}]
      /\ wire \in [Workers -> {"none", "sent", "done", "refused"}]
      /\ pc[w] = "idle" <=> cmd[w] = NoCommand
      /\ wire[w] # "none" => pc[w] \in {"hook", "await", "rehook", "reawait"}
  BY DEF Base, TypeOK, WorkersOK
<1>1. ASSUME pc'[w] = pc[w] /\ cmd'[w] = cmd[w] /\ wire'[w] = wire[w] PROVE Quiet(w, d)'
  BY <1>1 DEF Quiet
<1>2. ASSUME Finish(w) PROVE Quiet(w, d)'
  BY <1>0, <1>2 DEF Quiet, Finish
<1>3. ASSUME wire' = wire /\ Begins(w) PROVE Quiet(w, d)'
  BY <1>0, <1>3 DEF Quiet, Begins, Goto, QuietSteps
<1>4. ASSUME cmd' = cmd, wire'[w] \in {"none", wire[w]}, NEW step \in QuietSteps, Goto(w, step)
      PROVE  Quiet(w, d)'
  BY <1>0, <1>4 DEF Quiet, Goto
<1>5. ASSUME cmd'[w] = cmd[w], cmd[w] # NoCommand, pc[w] \notin QuietSteps \/ wire[w] # "none"
      PROVE  Quiet(w, d)'
  BY <1>5 DEF Quiet
<1> USE DEF netVars, workerVars
<1>6. ASSUME NEW r \in Requests, CreateRequest(r) \/ RequestExpires(r) PROVE Quiet(w, d)'
  BY <1>1, <1>6 DEF CreateRequest, RequestExpires
<1>7. ASSUME NEW v \in Workers, NEW c \in Commands, PreflightKnown(v, c) \/ PreflightNew(v, c)
      PROVE  Quiet(w, d)'
  <2>1. wire' = wire /\ Begins(v)
    BY <1>7 DEF PreflightKnown, PreflightNew, Begins
  <2>2. v # w => pc'[w] = pc[w] /\ cmd'[w] = cmd[w] /\ wire'[w] = wire[w]
    BY <1>0, <2>1 DEF Begins, Goto
  <2> QED
    BY <1>1, <1>3, <2>1, <2>2
<1>8. ASSUME NEW v \in Workers, NEW e \in Deliveries, LeaseRecovery(v, e) PROVE Quiet(w, d)'
  <2>1. bound[e] \in Commands
    BY <1>8 DEF LeaseRecovery, TerminalPhases, Base, StoreOK, TypeOK
  <2>2. wire' = wire /\ Begins(v)
    BY <1>8, <2>1 DEF LeaseRecovery, Begins
  <2>3. v # w => pc'[w] = pc[w] /\ cmd'[w] = cmd[w] /\ wire'[w] = wire[w]
    BY <1>0, <2>2 DEF Begins, Goto
  <2> QED
    BY <1>1, <1>3, <2>2, <2>3
<1>9. ASSUME NEW v \in Workers, v # w, ActsAlone(v) PROVE Quiet(w, d)'
  BY <1>1, <1>9 DEF ActsAlone
<1>10. ASSUME Prepare(w) \/ AcquireLock(w) \/ StoreFails(w) \/ LoseSession(w) PROVE Quiet(w, d)'
  BY <1>0, <1>1, <1>2, <1>4, <1>10
  DEF Prepare, AcquireLock, StoreFails, LoseSession, AbandonExchange, QuietSteps
<1>11. ASSUME \/ PrepareRefused(w) \/ LockBusy(w) \/ Settle(w) \/ FinalizeSettlement(w)
              \/ Reject(w) \/ BlockRecovery(w) \/ SessionGone(w) \/ InspectFails(w) \/ Crash(w)
       PROVE  Quiet(w, d)'
  BY <1>2, <1>11
  DEF PrepareRefused, LockBusy, Settle, FinalizeSettlement, Reject, BlockRecovery,
      SessionGone, InspectFails, Crash
<1>12. ASSUME \/ DispatchSwap(w) \/ SwapAnswered(w) \/ SwapRefused(w) \/ SwapAmbiguous(w)
              \/ RestoreFound(w) \/ RestoreNotFound(w) \/ RestoreFails(w)
       PROVE  Quiet(w, d)'
  BY <1>0, <1>5, <1>12
  DEF DispatchSwap, SwapAnswered, SwapRefused, SwapAmbiguous, RestoreFound, RestoreNotFound,
      RestoreFails, QuietSteps
<1>13. ASSUME RecordRedemptionStart(w) \/ PersistSettlementOutputs(w) \/ CreditSettlement(w)
       PROVE  Quiet(w, d)'
  BY <1>0, <1>2, <1>5, <1>13
  DEF RecordRedemptionStart, PersistSettlementOutputs, CreditSettlement, QuietSteps
<1>14. ASSUME MintStep(w) PROVE Quiet(w, d)'
  BY <1>0, <1>1, <1>5, <1>14
  DEF MintStep, MintSwaps, MintReplays, MintRefuses, GatewayDuplicates
<1>15. ASSUME ReadRecord(w) \/ MarkMintSent(w), ~(alive[w] /\ Job(w) = d) PROVE Quiet(w, d)'
  BY <1>0, <1>2, <1>15 DEF ReadRecord, MarkMintSent, Quiet, Job
<1>16. ASSUME NEW e \in Deliveries,
              ReplayWindowCloses(e) \/ PublishOutbox(e) \/ PublishRolledBack(e)
       PROVE  Quiet(w, d)'
  BY <1>1, <1>16 DEF ReplayWindowCloses, PublishOutbox, PublishRolledBack
<1>17. ASSUME NEW pl \in late, MintSwapsLate(pl) PROVE Quiet(w, d)'
  BY <1>1, <1>17 DEF MintSwapsLate
<1>18. ASSUME NEW p \in Proofs, SpentElsewhere(p) PROVE Quiet(w, d)'
  BY <1>1, <1>18 DEF SpentElsewhere
<1>19. ASSUME UNCHANGED vars PROVE Quiet(w, d)'
  BY <1>1, <1>19 DEF vars
<1>20. ASSUME NEW v \in Workers,
              WorkerStep(v) \/ InspectFails(v) \/ MintStep(v) \/ WorkerFault(v)
       PROVE  Quiet(w, d)' \/ (alive[w] /\ Job(w) = d /\ (ReadRecord(w) \/ MarkMintSent(w)))
  <2>1. CASE v = w
    BY <1>10, <1>11, <1>12, <1>13, <1>14, <1>15, <1>20, <2>1 DEF WorkerStep, WorkerFault
  <2>2. CASE v # w
    BY <1>9, <1>20, <2>2, ActorOf
  <2> QED
    BY <2>1, <2>2
<1> QED
  BY <1>6, <1>7, <1>8, <1>16, <1>17, <1>18, <1>19, <1>20 DEF Next

-----------------------------------------------------------------------------
(* No false rejection.                                                       *)

SwapInv == Base /\ LocksOK /\ PlanStoredBeforeSwap /\ UntouchedOK /\ FirstSwapOK

Untouched == {"absent", "prepared", "rejected"}

\* Only reject brings a delivery back to where nothing is at the mint.
LEMMA BackByReject ==
  ASSUME SwapInv, [Next]_vars, NEW d \in Deliveries,
         phase'[d] \in Untouched, phase[d] \notin Untouched
  PROVE  \E w \in Workers : Reject(w) /\ Job(w) = d
<1>1. phase \in [Deliveries -> Phases]
  BY DEF SwapInv, Base, TypeOK
<1>2. PICK w \in Workers : TableStep(w)
  BY TableSteps DEF tableVars, PublishOutbox, PublishRolledBack
<1>3. Job(w) \in Deliveries
  BY <1>2, TableStepDelivery DEF SwapInv
<1>4. ~Prepare(w)
  <2>1. SUFFICES ASSUME Prepare(w) PROVE FALSE
    OBVIOUS
  <2>2. phase[Job(w)] = "absent" /\ phase' = [phase EXCEPT ![Job(w)] = "prepared"]
    BY <1>3, <2>1 DEF Prepare, CanPrepare, Job, SwapInv, Base, StoreOK
  <2> QED
    BY <1>1, <1>3, <2>2 DEF Untouched
<1>5. Reject(w)
  BY <1>1, <1>2, <1>3, <1>4
  DEF TableStep, MarkMintSent, Settle, PersistSettlementOutputs, CreditSettlement,
      FinalizeSettlement, BlockRecovery, EndSettled, Untouched
<1> QED
  BY <1>1, <1>3, <1>5 DEF Reject, Untouched

\* The holder of the lock is the only worker that can be alive on a delivery.
LEMMA OneHolder ==
  ASSUME LocksOK, NEW v \in Workers, NEW w \in Workers, alive[v], alive[w], Job(v) = Job(w)
  PROVE  v = w
  BY DEF LocksOK, Job

LEMMA UntouchedNext == SwapInv /\ [Next]_vars => UntouchedOK'
<1> SUFFICES ASSUME SwapInv, [Next]_vars, NEW d \in Deliveries, phase'[d] \in Untouched
             PROVE  /\ plan'[d] \notin signed' \cup late'
                    /\ \A w \in Workers : Quiet(w, d)'
  BY DEF UntouchedOK, Untouched
<1>0. Base /\ LocksOK /\ PlanStoredBeforeSwap /\ UntouchedOK /\ FirstSwapOK
  BY DEF SwapInv
<1>1. CASE phase[d] \in Untouched
  <2>1. plan[d] \notin signed \cup late /\ \A w \in Workers : Quiet(w, d)
    BY <1>0, <1>1 DEF UntouchedOK, Untouched
  <2>2. ASSUME NEW w \in Workers PROVE Quiet(w, d)'
    <3>1. ASSUME alive[w], Job(w) = d, ReadRecord(w) PROVE Quiet(w, d)'
      <4>1. phase' = phase /\ wire' = wire /\ pc[w] = "read"
        BY <3>1 DEF ReadRecord, storeVars, netVars
      <4>2. cmd[w] # NoCommand /\ pc[w] # "prepare" /\ wire[w] = "none"
        BY <1>0, <4>1 DEF Base, WorkersOK
      <4>3. phase[d] # "absent"
        BY <1>0, <3>1, <4>2, ExchangePlan DEF Base, StoreOK
      <4>4. CASE phase[d] = "prepared"
        <5>1. NextStep(phase[d]) = "mark"
          BY <4>4 DEF NextStep
        <5> QED
          BY <1>0, <3>1, <4>1, <4>2, <4>4, <5>1
          DEF ReadRecord, TerminalPhases, Goto, Quiet, QuietSteps, Base, TypeOK
      <4>5. CASE phase[d] = "rejected"
        BY <1>0, <3>1, <4>5 DEF ReadRecord, TerminalPhases, Finish, Quiet, Base, TypeOK
      <4> QED
        BY <1>1, <4>3, <4>4, <4>5 DEF Untouched
    <3>2. ASSUME alive[w], Job(w) = d, MarkMintSent(w) PROVE FALSE
      <4>1. phase[d] = "prepared"
        BY <1>0, <3>2 DEF FirstSwapOK, FirstSwap, MarkMintSent, Job
      <4> QED
        BY <1>0, <3>2, <4>1 DEF MarkMintSent, Untouched, Base, TypeOK
    <3> QED
      BY <1>0, <2>1, <3>1, <3>2, QuietNext
  <2>3. ASSUME NEW w \in Workers, wire[w] = "sent"
        PROVE  /\ Job(w) \in Deliveries /\ Job(w) # d
               /\ plan[Job(w)] \in Plans /\ delOf[plan[Job(w)][1]] = Job(w)
    <3>1. cmd[w] # NoCommand /\ pc[w] # "prepare"
      BY <1>0, <2>3 DEF Base, WorkersOK
    <3>2. Job(w) # d
      BY <2>1, <2>3, <3>1 DEF Quiet, Job
    <3> QED
      BY <1>0, <3>1, <3>2, ExchangePlan
  <2>4. CASE plan'[d] = plan[d]
    <3>1. plan[d] = NoPlan \/ delOf[plan[d][1]] = d
      BY <1>0 DEF Base, StoreOK
    <3> QED
      BY <1>0, <2>1, <2>2, <2>3, <2>4, <3>1, AtMint, NoPlanAssumption
  <2>5. ASSUME NEW w \in Workers, Prepare(w), Job(w) = d
        PROVE  plan'[d] \notin signed' \cup late'
    <3>1. plan[d] = NoPlan /\ plan'[d] = <<cmd[w], w>> /\ delOf[cmd[w]] = d
      <4>1. /\ delOf[cmd[w]] = d /\ bound[d] = NoCommand
            /\ plan' = [plan EXCEPT ![d] = <<cmd[w], w>>]
        BY <2>5 DEF Prepare, CanPrepare, Job
      <4> QED
        BY <1>0, <4>1 DEF Base, StoreOK, TypeOK
    <3>2. <<cmd[w], w>> \notin signed \cup late
      <4>1. ASSUME <<cmd[w], w>> \in signed \cup late PROVE NoPlan \in Plans
        <5>1. plan[delOf[<<cmd[w], w>>[1]]] = <<cmd[w], w>>
          BY <1>0, <4>1 DEF PlanStoredBeforeSwap
        <5>2. <<cmd[w], w>> \in Plans
          BY <1>0, <4>1 DEF Base, TypeOK
        <5> QED
          BY <3>1, <5>1, <5>2
      <4> QED
        BY <4>1, NoPlanAssumption
    <3>3. ASSUME NEW v \in Workers, wire[v] = "sent" PROVE plan[Job(v)] # <<cmd[w], w>>
      BY <2>3, <3>1, <3>3
    <3> QED
      BY <1>0, <3>1, <3>2, <3>3, AtMint
  <2>6. ASSUME NEW w \in Workers, Prepare(w), Job(w) # d PROVE plan'[d] = plan[d]
    BY <1>0, <2>6 DEF Prepare, Job, Base, TypeOK
  <2> QED
    BY <1>0, <2>2, <2>4, <2>5, <2>6, BindingSteps
<1>2. CASE phase[d] \notin Untouched
  <2>1. PICK w \in Workers : Reject(w) /\ Job(w) = d
    BY <1>2, BackByReject
  <2>2. /\ plan' = plan /\ signed' = signed /\ late' = late
        /\ alive[w] /\ pc[w] = "reject" /\ Finish(w)
    BY <2>1 DEF Reject, netVars, mintVars
  <2>3. wire[w] = "none"
    BY <1>0, <2>2 DEF Base, WorkersOK
  <2>4. plan[d] \notin signed \cup late /\ \A v \in Workers \ {w} : Quiet(v, d)
    BY <1>0, <2>1, <2>2, <2>3 DEF FirstSwapOK, FirstSwap, Job
  <2>5. ASSUME NEW v \in Workers \ {w} PROVE Quiet(v, d)'
    BY <1>0, <2>1, <2>2, <2>4, QuietNext, OneHolder
  <2>6. Quiet(w, d)'
    BY <1>0, <2>2 DEF Finish, Quiet, Base, TypeOK
  <2> QED
    BY <2>2, <2>4, <2>5, <2>6
<1> QED
  BY <1>1, <1>2

\* Under a worker's lock only that worker changes the phase.
LEMMA PhaseHeld ==
  ASSUME Base, LocksOK, [Next]_vars, NEW u \in Workers, alive[u],
         phase'[Job(u)] # phase[Job(u)]
  PROVE  TableStep(u)
<1>0. /\ Base /\ LocksOK /\ phase \in [Deliveries -> Phases]
      /\ cmd[u] # NoCommand /\ pc[u] # "prepare"
  BY DEF LocksOK, Base, TypeOK, WorkersOK
<1>1. Job(u) \in Deliveries /\ bound[Job(u)] # NoCommand
  BY <1>0, ExchangePlan
<1>2. PICK w \in Workers : TableStep(w)
  BY TableSteps DEF tableVars, PublishOutbox, PublishRolledBack
<1>3. Job(w) \in Deliveries
  BY <1>0, <1>2, TableStepDelivery
<1>4. Job(w) = Job(u)
  BY <1>0, <1>1, <1>2, <1>3
  DEF TableStep, Prepare, Job, MarkMintSent, Settle, PersistSettlementOutputs,
      CreditSettlement, FinalizeSettlement, Reject, BlockRecovery, EndSettled
<1>5. ~Prepare(w)
  BY <1>1, <1>4 DEF Prepare, CanPrepare, Job
<1>6. alive[w]
  BY <1>2, <1>5
  DEF TableStep, MarkMintSent, Settle, PersistSettlementOutputs, CreditSettlement,
      FinalizeSettlement, Reject, BlockRecovery
<1> QED
  BY <1>0, <1>2, <1>4, <1>6, OneHolder

FirstSteps == {"mark", "dispatch", "hook", "await", "reject"}

\* Others do not disturb the first swap.
LEMMA FirstSwapUndisturbed ==
  ASSUME SwapInv, [Next]_vars, NEW u \in Workers, alive[u], pc[u] \in FirstSteps,
         NoWorkerActs \/ \E v \in Workers \ {u} : ActsAlone(v)
  PROVE  FirstSwap(u)'
<1>0. Base /\ LocksOK /\ FirstSwap(u)
  BY DEF SwapInv, FirstSwapOK
<1>1. pc'[u] = pc[u] /\ cmd'[u] = cmd[u] /\ wire'[u] = wire[u]
  BY DEF NoWorkerActs, ActsAlone
<1>2. phase'[Job(u)] = phase[Job(u)]
  <2>1. TableStep(u) => pc'[u] # pc[u]
    <3>1. pc \in [Workers -> Steps]
      BY <1>0 DEF Base, TypeOK
    <3> QED
      BY <3>1
      DEF FirstSteps, TableStep, Prepare, MarkMintSent, Settle, PersistSettlementOutputs,
          CreditSettlement, FinalizeSettlement, Reject, BlockRecovery, Finish, Goto
  <2> QED
    BY <1>0, <1>1, <2>1, PhaseHeld
<1>3. CASE pc[u] = "mark"
  BY <1>0, <1>1, <1>2, <1>3 DEF FirstSwap, Job
<1>4. CASE pc[u] # "mark"
  <2>0. cmd[u] # NoCommand /\ pc[u] # "prepare"
    BY <1>0 DEF FirstSteps, Base, WorkersOK
  <2>1. /\ phase[Job(u)] = "mint_sent" /\ plan[Job(u)] \notin late
        /\ wire[u] # "done" => plan[Job(u)] \notin signed
        /\ \A v \in Workers \ {u} : Quiet(v, Job(u))
    BY <1>0, <1>4 DEF FirstSwap, FirstSteps, Job
  <2>2. /\ Job(u) \in Deliveries /\ bound[Job(u)] # NoCommand
        /\ plan[Job(u)] \in Plans /\ delOf[plan[Job(u)][1]] = Job(u)
    BY <1>0, <2>0, ExchangePlan
  <2>3. plan'[Job(u)] = plan[Job(u)]
    <3>1. ASSUME NEW w \in Workers, Prepare(w) PROVE plan'[Job(u)] = plan[Job(u)]
      BY <1>0, <2>2, <3>1 DEF Prepare, CanPrepare, Job, Base, TypeOK
    <3> QED
      BY <1>0, <3>1, BindingSteps
  <2>4. ASSUME NEW v \in Workers \ {u}, wire[v] = "sent" PROVE plan[Job(v)] # plan[Job(u)]
    <3>1. cmd[v] # NoCommand /\ pc[v] # "prepare"
      BY <1>0, <2>4 DEF Base, WorkersOK
    <3>2. Job(v) # Job(u)
      BY <2>1, <2>4, <3>1 DEF Quiet, Job
    <3> QED
      BY <1>0, <2>2, <3>1, <3>2, ExchangePlan
  <2>5. plan[Job(u)] \notin late' /\ (wire[u] # "done" => plan[Job(u)] \notin signed')
    BY <2>1, <2>4 DEF NoWorkerActs, ActsAlone
  <2>6. PICK d \in Deliveries : d = Job(u)
    BY <2>2
  <2>7. ASSUME NEW v \in Workers \ {u} PROVE Quiet(v, d)'
    BY <1>0, <2>1, <2>6, <2>7, QuietNext, OneHolder
  <2>8. delOf[cmd'[u]] = d
    BY <1>1, <2>6 DEF Job
  <2> QED
    BY <1>1, <1>2, <1>4, <2>1, <2>3, <2>5, <2>6, <2>7, <2>8 DEF FirstSwap, Job
<1> QED
  BY <1>3, <1>4

\* The worker's own steps up to the answer.
LEMMA FirstSwapOwnStep ==
  ASSUME ~DuplicateSwaps, SwapInv, [Next]_vars, NEW u \in Workers, ActsAlone(u), OwnStep(u),
         alive'[u], pc'[u] \in FirstSteps
  PROVE  FirstSwap(u)'
<1>0. /\ Base /\ LocksOK /\ UntouchedOK /\ pc \in [Workers -> Steps]
      /\ cmd \in [Workers -> Commands \cup {NoCommand}] /\ alive \in [Workers -> BOOLEAN]
      /\ wire \in [Workers -> {"none", "sent", "done", "refused"}]
      /\ phase \in [Deliveries -> Phases]
      /\ alive[u] => FirstSwap(u)
  BY DEF SwapInv, FirstSwapOK, Base, TypeOK
<1>1. \A v \in Workers \ {u} : pc'[v] = pc[v] /\ cmd'[v] = cmd[v] /\ wire'[v] = wire[v]
  BY DEF ActsAlone
<1>2. ASSUME NEW d \in Deliveries, \A v \in Workers \ {u} : Quiet(v, d)
      PROVE  \A v \in Workers \ {u} : Quiet(v, d)'
  BY <1>1, <1>2 DEF Quiet
<1>3. CASE ReadRecord(u)
  <2>1. Goto(u, NextStep(phase[Job(u)])) /\ cmd' = cmd /\ phase' = phase
    BY <1>0, <1>3 DEF ReadRecord, Finish, storeVars
  <2>2. pc'[u] = NextStep(phase[Job(u)])
    BY <1>0, <2>1 DEF Goto
  <2> QED
    BY <2>1, <2>2, NextStepType DEF FirstSwap, FirstSteps, Job
<1>4. CASE MarkMintSent(u)
  <2>1. /\ alive[u] /\ pc[u] = "mark" /\ pc' = [pc EXCEPT ![u] = "dispatch"]
        /\ cmd' = cmd /\ plan' = plan /\ late' = late /\ signed' = signed
    BY <1>4 DEF MarkMintSent, Goto, netVars, mintVars
  <2>2. cmd[u] # NoCommand /\ pc[u] # "prepare" /\ phase[Job(u)] = "prepared"
    BY <1>0, <2>1 DEF Base, WorkersOK, FirstSwap, Job
  <2>3. PICK d \in Deliveries : d = Job(u)
    BY <1>0, <2>2, ExchangePlan
  <2>4. phase'[d] = "mint_sent"
    BY <1>0, <1>4, <2>2, <2>3 DEF MarkMintSent
  <2>5. plan[d] \notin signed \cup late /\ \A v \in Workers : Quiet(v, d)
    BY <1>0, <2>2, <2>3 DEF UntouchedOK
  <2>6. pc'[u] = "dispatch" /\ delOf[cmd'[u]] = d
    BY <1>0, <2>1, <2>3 DEF Job
  <2> QED
    BY <1>2, <2>1, <2>4, <2>5, <2>6 DEF FirstSwap
<1>5. ASSUME alive[u], pc[u] \in {"dispatch", "hook", "await", "reject"},
             phase' = phase, plan' = plan, cmd' = cmd, late' = late,
             wire'[u] # "done" => wire[u] # "done" /\ signed' = signed,
             pc'[u] # "mark"
      PROVE  FirstSwap(u)'
  <2>1. cmd[u] # NoCommand /\ pc[u] # "prepare"
    BY <1>0, <1>5 DEF Base, WorkersOK
  <2>2. PICK d \in Deliveries : d = Job(u)
    BY <1>0, <2>1, ExchangePlan
  <2>3. /\ phase[d] = "mint_sent" /\ plan[d] \notin late
        /\ wire[u] # "done" => plan[d] \notin signed
        /\ \A v \in Workers \ {u} : Quiet(v, d)
    BY <1>0, <1>5, <2>2 DEF FirstSwap, Job
  <2>4. delOf[cmd'[u]] = d
    BY <1>5, <2>2 DEF Job
  <2> QED
    BY <1>2, <1>5, <2>3, <2>4 DEF FirstSwap
<1>6. CASE DispatchSwap(u)
  <2>1. pc'[u] = "hook" /\ pc[u] = "dispatch" /\ wire[u] = "none" /\ alive[u]
    BY <1>0, <1>6 DEF DispatchSwap, Goto, FirstSteps, Base, WorkersOK
  <2> QED
    BY <1>5, <1>6, <2>1 DEF DispatchSwap, storeVars, mintVars
<1>7. CASE RecordRedemptionStart(u)
  <2>1. ~Finish(u)
    BY <1>0 DEF Finish
  <2>2. pc'[u] = "await" /\ pc[u] = "hook" /\ wire' = wire /\ late' = late
    BY <1>0, <1>7, <2>1 DEF RecordRedemptionStart, Goto, FirstSteps
  <2> QED
    BY <1>0, <1>5, <1>7, <2>1, <2>2 DEF RecordRedemptionStart, mintVars
<1>8. CASE SwapRefused(u)
  <2>1. pc'[u] = "reject" /\ pc[u] = "await" /\ wire[u] = "refused" /\ alive[u]
    BY <1>0, <1>8 DEF SwapRefused, Goto, FirstSteps
  <2> QED
    BY <1>5, <1>8, <2>1 DEF SwapRefused, storeVars, mintVars
<1>9. CASE MintStep(u)
  <2>1. pc' = pc /\ alive' = alive /\ cmd' = cmd /\ phase' = phase /\ plan' = plan /\ late' = late
    BY <1>9
    DEF MintStep, MintSwaps, MintReplays, MintRefuses, GatewayDuplicates, workerVars,
        storeVars, netVars
  <2>2. wire[u] = "sent" /\ (wire'[u] # "done" => signed' = signed)
    BY <1>0, <1>9
    DEF MintStep, MintSwaps, MintReplays, MintRefuses, GatewayDuplicates, mintVars
  <2>3. pc[u] \in {"hook", "await"}
    BY <1>0, <2>1, <2>2 DEF Base, WorkersOK, FirstSteps
  <2> QED
    BY <1>5, <2>1, <2>2, <2>3
<1>10. CASE LoseSession(u)
  BY <1>0, <1>10 DEF LoseSession
<1>11. CASE \/ PrepareRefused(u) \/ LockBusy(u) \/ Settle(u) \/ FinalizeSettlement(u)
            \/ Reject(u) \/ BlockRecovery(u) \/ SessionGone(u) \/ InspectFails(u) \/ Crash(u)
  <2>1. Finish(u)
    BY <1>11
    DEF PrepareRefused, LockBusy, Settle, FinalizeSettlement, Reject, BlockRecovery,
        SessionGone, InspectFails, Crash
  <2> QED
    BY <1>0, <2>1 DEF Finish
<1>12. CASE \/ Prepare(u) \/ AcquireLock(u) \/ SwapAnswered(u) \/ SwapAmbiguous(u)
            \/ RestoreFound(u) \/ RestoreNotFound(u) \/ RestoreFails(u)
  BY <1>0, <1>12
  DEF Prepare, AcquireLock, SwapAnswered, SwapAmbiguous, RestoreFound, RestoreNotFound,
      RestoreFails, Goto, FirstSteps
<1>13. CASE PersistSettlementOutputs(u) \/ CreditSettlement(u) \/ StoreFails(u)
  <2>1. Finish(u) \/ \E step \in {"credit", "finalize", "block"} : Goto(u, step)
    BY <1>13 DEF PersistSettlementOutputs, CreditSettlement, StoreFails
  <2> QED
    BY <1>0, <2>1 DEF Finish, Goto, FirstSteps
<1>14. CASE pc'[u] \in {"prepare", "lock"}
  BY <1>14 DEF FirstSteps
<1> QED
  BY <1>3, <1>4, <1>6, <1>7, <1>8, <1>9, <1>10, <1>11, <1>12, <1>13, <1>14
  DEF OwnStep, WorkerStep, WorkerFault

LEMMA FirstSwapNext ==
  ASSUME ~DuplicateSwaps, SwapInv, [Next]_vars PROVE FirstSwapOK'
<1> SUFFICES ASSUME NEW u \in Workers, alive'[u] PROVE FirstSwap(u)'
  BY DEF FirstSwapOK
<1>1. CASE pc'[u] \notin FirstSteps
  BY <1>1 DEF FirstSwap, FirstSteps
<1>2. CASE pc'[u] \in FirstSteps /\ (NoWorkerActs \/ \E v \in Workers \ {u} : ActsAlone(v))
  <2>1. alive[u] /\ pc[u] \in FirstSteps
    BY <1>2 DEF NoWorkerActs, ActsAlone
  <2> QED
    BY <1>2, <2>1, FirstSwapUndisturbed
<1>3. CASE pc'[u] \in FirstSteps /\ ActsAlone(u) /\ OwnStep(u)
  BY <1>3, FirstSwapOwnStep
<1> QED
  BY <1>1, <1>2, <1>3, Actors DEF SwapInv

LEMMA SwapInvariant == ASSUME ~DuplicateSwaps PROVE Spec => []SwapInv
<1>1. Init => SwapInv
  <2>1. Init => UntouchedOK /\ FirstSwapOK /\ PlanStoredBeforeSwap
    BY DEF Init, UntouchedOK, FirstSwapOK, PlanStoredBeforeSwap, Quiet
  <2> QED
    BY <2>1, BaseInit, LocksInit DEF SwapInv
<1>2. SwapInv /\ [Next]_vars => SwapInv'
  BY BaseNext, LocksNext, PlanStoredNext, UntouchedNext, FirstSwapNext DEF SwapInv
<1> QED
  BY <1>1, <1>2, PTL DEF Spec

\* No false rejection, for any number of workers, deliveries and faults, as long
\* as nothing between receiver and mint repeats a swap request: when a receipt
\* says rejected, the proofs were not swapped for the receiver and no request
\* that could still swap them is on its way.
THEOREM NoFalseRejectionHolds ==
  ASSUME ~DuplicateSwaps PROVE Spec => []NoFalseRejection
<1>1. ASSUME SwapInv PROVE NoFalseRejection
  <2> SUFFICES ASSUME NEW d \in Deliveries, phase[d] = "rejected"
               PROVE  plan[d] \notin signed /\ ~InFlight(plan[d])
    BY DEF NoFalseRejection
  <2>1. plan[d] \notin signed \cup late /\ \A w \in Workers : Quiet(w, d)
    BY <1>1 DEF SwapInv, UntouchedOK
  <2>2. plan[d] \in Plans /\ delOf[plan[d][1]] = d
    BY <1>1 DEF SwapInv, Base, StoreOK
  <2>3. ASSUME NEW w \in Workers, cmd[w] # NoCommand, plan[Job(w)] = plan[d],
               wire[w] = "sent" \/ pc[w] \in {"dispatch", "replay"}
        PROVE  FALSE
    <3>1. pc[w] # "prepare"
      BY <1>1, <2>3 DEF SwapInv, Base, WorkersOK
    <3>2. Job(w) = d
      BY <1>1, <2>2, <2>3, <3>1, ExchangePlan DEF SwapInv
    <3> QED
      BY <2>1, <2>3, <3>2 DEF Quiet, QuietSteps, Job
  <2> QED
    BY <2>1, <2>3 DEF InFlight
<1> QED
  BY <1>1, SwapInvariant, PTL

-----------------------------------------------------------------------------
(* At most one swap request.                                                 *)

Unsent == {"absent", "prepared"}

AtDispatch(w, d) == pc[w] = "dispatch" /\ Job(w) = d

\* The holder of the lock marks only a delivery still prepared.
MarksPrepared ==
    \A w \in Workers : alive[w] /\ pc[w] = "mark" => phase[Job(w)] = "prepared"

\* Without NUT-19 a delivery has one request in all: not yet made, about to be
\* sent by one worker, or sent.
OneRequest(d) ==
    /\ dispatched[d] <= 1
    /\ \A w \in Workers : AtDispatch(w, d) =>
          dispatched[d] = 0 /\ \A v \in Workers \ {w} : ~AtDispatch(v, d)
    /\ phase[d] \in Unsent =>
          dispatched[d] = 0 /\ \A w \in Workers : ~AtDispatch(w, d)

OneRequestOK ==
    ~Nut19 => /\ \A w \in Workers : pc[w] # "replay"
              /\ \A d \in Deliveries : OneRequest(d)

\* The holder of the lock has sent a request it has not recorded yet.
Unrecorded(w) ==
    \/ starts[Job(w)] < dispatched[Job(w)]
    \/ dispatched[Job(w)] = MaxStarts

StartsOK ==
    /\ \A d \in Deliveries : starts[d] <= dispatched[d]
    /\ \A w \in Workers : alive[w] /\ pc[w] \in {"hook", "rehook"} => Unrecorded(w)

RequestInv == Base /\ LocksOK /\ MarksPrepared /\ OneRequestOK /\ StartsOK

\* A step that is none of mark, dispatch and record sends and records nothing,
\* and brings a worker neither to a dispatch nor to a record.
Stays(v) == pc'[v] = pc[v] /\ cmd'[v] = cmd[v] /\ (alive'[v] => alive[v])

Elsewhere(v) ==
    /\ pc'[v] \in {"dispatch", "hook", "rehook"} => Stays(v)
    /\ pc'[v] = "mark" => Stays(v) \/ ReadRecord(v)
    /\ pc'[v] = "replay" => Stays(v) \/ Nut19

SendsNothing ==
    dispatched' = dispatched /\ starts' = starts /\ \A v \in Workers : Elsewhere(v)

\* Worker w goes to a step that neither sends, records nor is about to.
MovesOn(w, step) ==
    /\ dispatched' = dispatched /\ starts' = starts
    /\ (cmd' = cmd /\ alive' = alive) \/ pc[w] \in {"idle", "lock"}
    /\ \A v \in Workers \ {w} : cmd'[v] = cmd[v] /\ alive'[v] = alive[v]
    /\ Goto(w, step)
    /\ step \notin {"dispatch", "hook", "rehook"}
    /\ step = "mark" => ReadRecord(w)
    /\ step = "replay" => Nut19

LEMMA MovesOnSendsNothing ==
  ASSUME pc \in [Workers -> Steps], NEW w \in Workers, NEW step, MovesOn(w, step)
  PROVE  SendsNothing
<1>1. /\ pc'[w] = step
      /\ \A v \in Workers \ {w} : pc'[v] = pc[v] /\ cmd'[v] = cmd[v] /\ alive'[v] = alive[v]
  BY DEF MovesOn, Goto
<1>2. ASSUME NEW v \in Workers PROVE Elsewhere(v)
  <2>1. CASE v = w
    BY <1>1, <2>1 DEF MovesOn, Elsewhere
  <2>2. CASE v # w
    BY <1>1, <2>2 DEF Elsewhere, Stays
  <2> QED
    BY <2>1, <2>2
<1> QED
  BY <1>2 DEF SendsNothing, MovesOn

LEMMA FinishSendsNothing ==
  ASSUME Base, NEW w \in Workers, Finish(w), dispatched' = dispatched, starts' = starts
  PROVE  SendsNothing
<1>1. /\ pc \in [Workers -> Steps] /\ cmd \in [Workers -> Commands \cup {NoCommand}]
      /\ alive \in [Workers -> BOOLEAN]
  BY DEF Base, TypeOK
<1>2. /\ pc'[w] = "idle"
      /\ \A v \in Workers \ {w} : pc'[v] = pc[v] /\ cmd'[v] = cmd[v] /\ alive'[v] = alive[v]
  BY <1>1 DEF Finish
<1>3. ASSUME NEW v \in Workers PROVE Elsewhere(v)
  <2>1. CASE v = w
    BY <1>2, <2>1 DEF Elsewhere
  <2>2. CASE v # w
    BY <1>2, <2>2 DEF Elsewhere, Stays
  <2> QED
    BY <2>1, <2>2
<1> QED
  BY <1>3 DEF SendsNothing

LEMMA RequestSteps ==
  ASSUME Base, [Next]_vars
  PROVE  \/ SendsNothing
         \/ \E w \in Workers : MarkMintSent(w) \/ DispatchSwap(w) \/ RecordRedemptionStart(w)
<1>0. /\ pc \in [Workers -> Steps] /\ cmd \in [Workers -> Commands \cup {NoCommand}]
      /\ alive \in [Workers -> BOOLEAN]
  BY DEF Base, TypeOK
<1> USE DEF netVars, workerVars, storeVars
<1>1. ASSUME dispatched' = dispatched, starts' = starts, UNCHANGED <<pc, cmd, alive>>
      PROVE  SendsNothing
  BY <1>1 DEF SendsNothing, Elsewhere, Stays
<1>2. ASSUME NEW w \in Workers, NEW step, MovesOn(w, step) PROVE SendsNothing
  BY <1>0, <1>2, MovesOnSendsNothing
<1>3. ASSUME NEW r \in Requests, CreateRequest(r) \/ RequestExpires(r) PROVE SendsNothing
  BY <1>1, <1>3 DEF CreateRequest, RequestExpires
<1>4. ASSUME NEW w \in Workers, NEW c \in Commands, PreflightKnown(w, c) \/ PreflightNew(w, c)
      PROVE  SendsNothing
  <2>1. ASSUME cmd' = [cmd EXCEPT ![w] = c], alive' = alive
        PROVE  \A v \in Workers \ {w} : cmd'[v] = cmd[v] /\ alive'[v] = alive[v]
    BY <1>0, <2>1
  <2>2. CASE PreflightKnown(w, c)
    <3>1. MovesOn(w, "lock")
      BY <2>1, <2>2 DEF PreflightKnown, MovesOn
    <3> QED
      BY <1>2, <3>1
  <2>3. CASE PreflightNew(w, c)
    <3>1. MovesOn(w, "prepare")
      BY <2>1, <2>3 DEF PreflightNew, MovesOn
    <3> QED
      BY <1>2, <3>1
  <2> QED
    BY <1>4, <2>2, <2>3
<1>5. ASSUME NEW w \in Workers, NEW d \in Deliveries, LeaseRecovery(w, d) PROVE SendsNothing
  <2>1. cmd' = [cmd EXCEPT ![w] = bound[d]] /\ alive' = alive
    BY <1>5 DEF LeaseRecovery
  <2>2. \A v \in Workers \ {w} : cmd'[v] = cmd[v] /\ alive'[v] = alive[v]
    BY <1>0, <2>1
  <2>3. MovesOn(w, "lock")
    BY <1>5, <2>2 DEF LeaseRecovery, MovesOn
  <2> QED
    BY <1>2, <2>3
<1>6. ASSUME NEW w \in Workers,
             \/ Prepare(w) \/ SwapAnswered(w) \/ SwapRefused(w) \/ SwapAmbiguous(w)
      PROVE  SendsNothing
  <2>1. CASE Prepare(w)
    BY <1>2, <2>1 DEF Prepare, MovesOn
  <2>2. CASE SwapAnswered(w)
    BY <1>2, <2>2 DEF SwapAnswered, MovesOn
  <2>3. CASE SwapRefused(w)
    <3>1. MovesOn(w, "reject") \/ MovesOn(w, "block")
      BY <2>3 DEF SwapRefused, MovesOn
    <3> QED
      BY <1>2, <3>1
  <2>4. CASE SwapAmbiguous(w)
    BY <1>2, <2>4 DEF SwapAmbiguous, MovesOn
  <2> QED
    BY <1>6, <2>1, <2>2, <2>3, <2>4
<1>6a. ASSUME NEW w \in Workers, AcquireLock(w) PROVE SendsNothing
  <2>1. cmd' = cmd /\ alive' = [alive EXCEPT ![w] = TRUE]
    BY <1>6a DEF AcquireLock
  <2>2. \A v \in Workers \ {w} : cmd'[v] = cmd[v] /\ alive'[v] = alive[v]
    BY <1>0, <2>1
  <2>3. MovesOn(w, "read")
    BY <1>6a, <2>2 DEF AcquireLock, MovesOn
  <2> QED
    BY <1>2, <2>3
<1>7. ASSUME NEW w \in Workers, RestoreFound(w) \/ RestoreNotFound(w) \/ RestoreFails(w)
      PROVE  SendsNothing
  <2>1. CASE RestoreFound(w)
    BY <1>2, <2>1 DEF RestoreFound, MovesOn
  <2>2. CASE RestoreNotFound(w)
    <3>1. MovesOn(w, "replay") \/ MovesOn(w, "block")
      BY <2>2 DEF RestoreNotFound, ReplayAllowed, MovesOn
    <3> QED
      BY <1>2, <3>1
  <2>3. CASE RestoreFails(w)
    <3>1. MovesOn(w, "replay") \/ MovesOn(w, "block")
      BY <2>3 DEF RestoreFails, ReplayAllowed, MovesOn
    <3> QED
      BY <1>2, <3>1
  <2> QED
    BY <1>7, <2>1, <2>2, <2>3
<1>8. ASSUME NEW w \in Workers,
             \/ PrepareRefused(w) \/ LockBusy(w) \/ Settle(w) \/ FinalizeSettlement(w)
             \/ Reject(w) \/ BlockRecovery(w) \/ SessionGone(w) \/ InspectFails(w) \/ Crash(w)
      PROVE  SendsNothing
  <2>1. Finish(w) /\ dispatched' = dispatched /\ starts' = starts
    BY <1>8
    DEF PrepareRefused, LockBusy, Settle, FinalizeSettlement, Reject, BlockRecovery,
        SessionGone, InspectFails, Crash
  <2> QED
    BY <2>1, FinishSendsNothing
<1>9. ASSUME NEW w \in Workers, ReadRecord(w) PROVE SendsNothing
  <2>1. NextStep(phase[Job(w)]) \notin {"dispatch", "hook", "rehook", "replay"}
    BY DEF NextStep
  <2>2. \/ MovesOn(w, NextStep(phase[Job(w)]))
        \/ Finish(w) /\ dispatched' = dispatched /\ starts' = starts
    BY <1>9, <2>1 DEF ReadRecord, MovesOn
  <2> QED
    BY <1>2, <2>2, FinishSendsNothing
<1>10. ASSUME NEW w \in Workers,
              PersistSettlementOutputs(w) \/ CreditSettlement(w) \/ StoreFails(w)
       PROVE  SendsNothing
  <2>1. CASE PersistSettlementOutputs(w)
    <3>1. \/ MovesOn(w, "credit")
          \/ Finish(w) /\ dispatched' = dispatched /\ starts' = starts
      BY <2>1 DEF PersistSettlementOutputs, MovesOn
    <3> QED
      BY <1>2, <3>1, FinishSendsNothing
  <2>2. CASE CreditSettlement(w)
    <3>1. \/ MovesOn(w, "finalize")
          \/ Finish(w) /\ dispatched' = dispatched /\ starts' = starts
      BY <2>2 DEF CreditSettlement, MovesOn
    <3> QED
      BY <1>2, <3>1, FinishSendsNothing
  <2>3. CASE StoreFails(w)
    <3>1. \/ MovesOn(w, "block")
          \/ Finish(w) /\ dispatched' = dispatched /\ starts' = starts
      BY <2>3 DEF StoreFails, MovesOn
    <3> QED
      BY <1>2, <3>1, FinishSendsNothing
  <2> QED
    BY <1>10, <2>1, <2>2, <2>3
<1>11. ASSUME NEW w \in Workers, LoseSession(w) PROVE SendsNothing
  BY <1>0, <1>11 DEF LoseSession, SendsNothing, Elsewhere, Stays
<1>12. ASSUME NEW w \in Workers, MintStep(w) PROVE SendsNothing
  BY <1>1, <1>12 DEF MintStep, MintSwaps, MintReplays, MintRefuses, GatewayDuplicates
<1>13. ASSUME NEW d \in Deliveries,
              ReplayWindowCloses(d) \/ PublishOutbox(d) \/ PublishRolledBack(d)
       PROVE  SendsNothing
  BY <1>1, <1>13 DEF ReplayWindowCloses, PublishOutbox, PublishRolledBack
<1>14. ASSUME NEW pl \in late, MintSwapsLate(pl) PROVE SendsNothing
  BY <1>1, <1>14 DEF MintSwapsLate
<1>15. ASSUME NEW p \in Proofs, SpentElsewhere(p) PROVE SendsNothing
  BY <1>1, <1>15 DEF SpentElsewhere
<1>16. CASE UNCHANGED vars
  BY <1>1, <1>16 DEF vars
<1> QED
  BY <1>3, <1>4, <1>5, <1>6, <1>6a, <1>7, <1>8, <1>9, <1>10, <1>11, <1>12, <1>13, <1>14, <1>15,
     <1>16
  DEF Next, WorkerStep, WorkerFault

\* A worker past prepare works on a delivery the store has.
LEMMA JobKnown ==
  ASSUME Base, NEW w \in Workers, pc[w] \notin {"idle", "prepare"}
  PROVE  Job(w) \in Deliveries /\ phase[Job(w)] # "absent"
<1>1. cmd[w] # NoCommand
  BY DEF Base, WorkersOK
<1> QED
  BY <1>1, ExchangePlan DEF Base, StoreOK

LEMMA MarksNext == RequestInv /\ [Next]_vars => MarksPrepared'
<1> SUFFICES ASSUME RequestInv, [Next]_vars, NEW u \in Workers, alive'[u], pc'[u] = "mark"
             PROVE  phase'[Job(u)'] = "prepared"
  BY DEF MarksPrepared
<1>0. /\ Base /\ LocksOK /\ MarksPrepared /\ pc \in [Workers -> Steps]
      /\ cmd \in [Workers -> Commands \cup {NoCommand}] /\ phase \in [Deliveries -> Phases]
  BY DEF RequestInv, Base, TypeOK
<1>1. CASE ReadRecord(u)
  <2>1. Goto(u, NextStep(phase[Job(u)])) /\ cmd' = cmd /\ phase' = phase
    BY <1>0, <1>1 DEF ReadRecord, Finish, storeVars
  <2> QED
    BY <1>0, <2>1, NextStepType DEF Goto, Job
<1>2. CASE Stays(u)
  <2>1. alive[u] /\ pc[u] = "mark" /\ Job(u)' = Job(u) /\ phase[Job(u)] = "prepared"
    BY <1>0, <1>2 DEF Stays, MarksPrepared, Job
  <2>2. ~TableStep(u)
    BY <1>0, <1>2, <2>1
    DEF TableStep, Prepare, MarkMintSent, Settle, PersistSettlementOutputs, CreditSettlement,
        FinalizeSettlement, Reject, BlockRecovery, Goto
  <2> QED
    BY <1>0, <2>1, <2>2, PhaseHeld
<1>3. ASSUME NEW w \in Workers, MarkMintSent(w) \/ DispatchSwap(w) \/ RecordRedemptionStart(w)
      PROVE  Stays(u)
  <2>1. ActsAlone(w)
    BY <1>0, <1>3, ActorOf DEF WorkerStep
  <2>2. w # u
    BY <1>0, <1>3 DEF MarkMintSent, DispatchSwap, RecordRedemptionStart, Goto, Finish
  <2> QED
    BY <2>1, <2>2 DEF ActsAlone, Stays
<1>4. CASE SendsNothing
  BY <1>1, <1>2, <1>4 DEF SendsNothing, Elsewhere
<1> QED
  BY <1>0, <1>2, <1>3, <1>4, RequestSteps

\* Nothing goes back to being unsent.
LEMMA UnsentBefore ==
  ASSUME Base, ReceiptsOK, [Next]_vars, NEW d \in Deliveries, phase'[d] \in Unsent
  PROVE  phase[d] \in Unsent
<1>1. phase \in [Deliveries -> Phases]
  BY DEF Base, TypeOK
<1> QED
  BY <1>1, PhaseSteps DEF Opens, Moves, Proceeds, Unsent

LEMMA RecordSendsNothing ==
  ASSUME Base, NEW w \in Workers, RecordRedemptionStart(w)
  PROVE  /\ dispatched' = dispatched /\ phase' = phase
         /\ \A v \in Workers : pc'[v] \in {"dispatch", "replay"} => Stays(v)
<1>1. ActsAlone(w)
  BY ActorOf DEF WorkerStep
<1>2. pc \in [Workers -> Steps] /\ dispatched' = dispatched /\ phase' = phase
  BY DEF Base, TypeOK, RecordRedemptionStart
<1>3. pc'[w] \notin {"dispatch", "replay"}
  BY <1>2 DEF RecordRedemptionStart, Goto, Finish
<1> QED
  BY <1>1, <1>2, <1>3 DEF ActsAlone, Stays

LEMMA OneRequestNext ==
  RequestInv /\ ReceiptsOK /\ [Next]_vars => OneRequestOK'
<1> SUFFICES ASSUME RequestInv, ReceiptsOK, [Next]_vars, ~Nut19 PROVE OneRequestOK'
  BY DEF OneRequestOK
<1>0. /\ Base /\ LocksOK /\ MarksPrepared /\ pc \in [Workers -> Steps]
      /\ cmd \in [Workers -> Commands \cup {NoCommand}] /\ phase \in [Deliveries -> Phases]
      /\ dispatched \in [Deliveries -> 0 .. MaxStarts]
      /\ \A w \in Workers : pc[w] # "replay"
      /\ \A d \in Deliveries : OneRequest(d)
  BY DEF RequestInv, Base, TypeOK, OneRequestOK
<1>1. ASSUME dispatched' = dispatched,
             \A v \in Workers : pc'[v] \in {"dispatch", "replay"} => Stays(v)
      PROVE  OneRequestOK'
  <2>1. \A v \in Workers : pc'[v] # "replay"
    BY <1>0, <1>1 DEF Stays
  <2>2. ASSUME NEW d \in Deliveries PROVE OneRequest(d)'
    <3>1. \A v \in Workers : AtDispatch(v, d)' => AtDispatch(v, d)
      BY <1>1 DEF AtDispatch, Stays, Job
    <3>2. phase'[d] \in Unsent => phase[d] \in Unsent
      BY <1>0, UnsentBefore
    <3>3. OneRequest(d)
      BY <1>0
    <3> QED
      BY <1>1, <3>1, <3>2, <3>3 DEF OneRequest
  <2> QED
    BY <2>1, <2>2 DEF OneRequestOK
<1>2. CASE SendsNothing
  BY <1>0, <1>1, <1>2 DEF SendsNothing, Elsewhere
<1>3. ASSUME NEW w \in Workers, RecordRedemptionStart(w) PROVE OneRequestOK'
  BY <1>0, <1>1, <1>3, RecordSendsNothing
<1>4. ASSUME NEW w \in Workers, MarkMintSent(w) PROVE OneRequestOK'
  <2>1. /\ pc[w] = "mark" /\ alive[w] /\ pc' = [pc EXCEPT ![w] = "dispatch"] /\ cmd' = cmd
        /\ dispatched' = dispatched
    BY <1>4 DEF MarkMintSent, Goto, netVars
  <2>2. Job(w) \in Deliveries /\ phase[Job(w)] = "prepared"
    BY <1>0, <2>1, JobKnown DEF MarksPrepared
  <2>3. phase' = [phase EXCEPT ![Job(w)] = "mint_sent"]
    BY <1>4, <2>2 DEF MarkMintSent
  <2>4. \A v \in Workers : pc'[v] # "replay"
    BY <1>0, <2>1
  <2>5. ASSUME NEW d \in Deliveries PROVE OneRequest(d)'
    <3>1. CASE d = Job(w)
      <4>1. dispatched[d] = 0 /\ \A v \in Workers : ~AtDispatch(v, d)
        BY <1>0, <2>2, <3>1 DEF OneRequest, Unsent
      <4>2. \A v \in Workers \ {w} : ~AtDispatch(v, d)'
        BY <1>0, <2>1, <4>1 DEF AtDispatch, Job
      <4>3. phase'[d] \notin Unsent
        BY <1>0, <2>3, <3>1 DEF Unsent
      <4> QED
        BY <2>1, <4>1, <4>2, <4>3 DEF OneRequest
    <3>2. CASE d # Job(w)
      <4>1. \A v \in Workers : AtDispatch(v, d)' <=> AtDispatch(v, d)
        BY <1>0, <2>1, <3>2 DEF AtDispatch, Job
      <4>2. phase'[d] = phase[d]
        BY <1>0, <2>2, <2>3, <3>2
      <4>3. OneRequest(d)
        BY <1>0
      <4> QED
        BY <2>1, <4>1, <4>2, <4>3 DEF OneRequest
    <3> QED
      BY <3>1, <3>2
  <2> QED
    BY <2>4, <2>5 DEF OneRequestOK
<1>5. ASSUME NEW w \in Workers, DispatchSwap(w) PROVE OneRequestOK'
  <2>1. /\ pc[w] = "dispatch" /\ pc' = [pc EXCEPT ![w] = "hook"] /\ cmd' = cmd
        /\ dispatched' = Bump(dispatched, Job(w)) /\ phase' = phase
    BY <1>0, <1>5 DEF DispatchSwap, Goto, storeVars
  <2>2. Job(w) \in Deliveries
    BY <1>0, <2>1, JobKnown
  <2>3. \A v \in Workers : pc'[v] # "replay"
    BY <1>0, <2>1
  <2>4. ASSUME NEW d \in Deliveries PROVE OneRequest(d)'
    <3>1. OneRequest(d)
      BY <1>0
    <3>2. CASE d = Job(w)
      <4>1. /\ AtDispatch(w, d) /\ dispatched[d] = 0
            /\ \A v \in Workers \ {w} : ~AtDispatch(v, d)
        BY <2>1, <3>1, <3>2 DEF OneRequest, AtDispatch
      <4>2. \A v \in Workers : ~AtDispatch(v, d)'
        BY <1>0, <2>1, <4>1 DEF AtDispatch, Job
      <4>3. dispatched'[d] <= 1
        BY <1>0, <2>1, <3>2, <4>1, ConstantsAssumption DEF Bump
      <4>4. phase'[d] \notin Unsent
        BY <2>1, <3>1, <4>1 DEF OneRequest
      <4> QED
        BY <4>2, <4>3, <4>4 DEF OneRequest
    <3>3. CASE d # Job(w)
      <4>1. \A v \in Workers : AtDispatch(v, d)' <=> AtDispatch(v, d)
        BY <1>0, <2>1, <3>3 DEF AtDispatch, Job
      <4>2. dispatched'[d] = dispatched[d]
        BY <1>0, <2>1, <2>2, <3>3 DEF Bump
      <4> QED
        BY <2>1, <3>1, <4>1, <4>2 DEF OneRequest
    <3> QED
      BY <3>2, <3>3
  <2> QED
    BY <2>3, <2>4 DEF OneRequestOK
<1> QED
  BY <1>0, <1>2, <1>3, <1>4, <1>5, RequestSteps

LEMMA StartsNext == RequestInv /\ [Next]_vars => StartsOK'
<1> SUFFICES ASSUME RequestInv, [Next]_vars PROVE StartsOK'
  OBVIOUS
<1>0. /\ Base /\ LocksOK /\ StartsOK /\ pc \in [Workers -> Steps]
      /\ cmd \in [Workers -> Commands \cup {NoCommand}] /\ alive \in [Workers -> BOOLEAN]
      /\ dispatched \in [Deliveries -> 0 .. MaxStarts]
      /\ starts \in [Deliveries -> 0 .. MaxStarts] /\ MaxStarts \in Nat \ {0}
  BY ConstantsAssumption DEF RequestInv, Base, TypeOK
<1>1. ASSUME dispatched' = dispatched, starts' = starts,
             \A v \in Workers : pc'[v] \in {"hook", "rehook"} => Stays(v)
      PROVE  StartsOK'
  BY <1>0, <1>1 DEF StartsOK, Unrecorded, Stays, Job
<1>2. CASE SendsNothing
  BY <1>1, <1>2 DEF SendsNothing, Elsewhere
<1>3. ASSUME NEW w \in Workers, MarkMintSent(w) PROVE StartsOK'
  <2>1. /\ pc' = [pc EXCEPT ![w] = "dispatch"] /\ cmd' = cmd /\ alive' = alive
        /\ dispatched' = dispatched /\ starts' = starts
    BY <1>3 DEF MarkMintSent, Goto, netVars
  <2> QED
    BY <1>0, <1>1, <2>1 DEF Stays
<1>4. ASSUME NEW w \in Workers, DispatchSwap(w) PROVE StartsOK'
  <2>1. /\ pc[w] \in {"dispatch", "replay"} /\ cmd' = cmd /\ alive' = alive
        /\ \A v \in Workers \ {w} : pc'[v] = pc[v]
        /\ dispatched' = Bump(dispatched, Job(w)) /\ starts' = starts
    BY <1>0, <1>4 DEF DispatchSwap, Goto, storeVars
  <2>2. PICK d \in Deliveries : d = Job(w)
    BY <1>0, <2>1, JobKnown
  <2>3. /\ dispatched'[d] \in Nat
        /\ dispatched'[d] = dispatched[d] + 1
             \/ (dispatched[d] = MaxStarts /\ dispatched'[d] = MaxStarts)
        /\ \A e \in Deliveries \ {d} : dispatched'[e] = dispatched[e]
    BY <1>0, <2>1, <2>2 DEF Bump
  <2>4. \A e \in Deliveries : starts'[e] <= dispatched'[e]
    BY <1>0, <2>1, <2>3 DEF StartsOK
  <2>5. starts'[d] < dispatched'[d] \/ dispatched'[d] = MaxStarts
    BY <1>0, <2>1, <2>3 DEF StartsOK
  <2>6. ASSUME NEW v \in Workers, alive'[v], pc'[v] \in {"hook", "rehook"}
        PROVE  Unrecorded(v)'
    <3>1. Job(v)' = Job(v)
      BY <2>1 DEF Job
    <3>2. CASE Job(v) = d
      BY <2>5, <3>1, <3>2 DEF Unrecorded
    <3>3. CASE Job(v) # d
      <4>1. pc[v] \in {"hook", "rehook"} /\ alive[v]
        BY <2>1, <2>2, <2>6, <3>3
      <4>2. Job(v) \in Deliveries /\ Unrecorded(v)
        BY <1>0, <4>1, JobKnown DEF StartsOK
      <4> QED
        BY <2>1, <2>3, <3>1, <3>3, <4>2 DEF Unrecorded
    <3> QED
      BY <3>2, <3>3
  <2> QED
    BY <2>4, <2>6 DEF StartsOK
<1>5. ASSUME NEW w \in Workers, RecordRedemptionStart(w) PROVE StartsOK'
  <2>1. pc[w] \in {"hook", "rehook"} /\ alive[w] /\ dispatched' = dispatched /\ ActsAlone(w)
    BY <1>0, <1>5, ActorOf DEF RecordRedemptionStart, WorkerStep
  <2>2. PICK d \in Deliveries : d = Job(w)
    BY <1>0, <2>1, JobKnown
  <2>3. pc'[w] \notin {"hook", "rehook"}
    BY <1>0, <1>5 DEF RecordRedemptionStart, Goto, Finish
  <2>4. \A v \in Workers : pc'[v] \in {"hook", "rehook"} => v # w /\ Stays(v)
    BY <2>1, <2>3 DEF ActsAlone, Stays
  <2>5. CASE starts' = starts
    BY <1>1, <2>1, <2>4, <2>5
  <2>6. CASE starts' = Bump(starts, Job(w))
    <3>1. /\ starts'[d] <= MaxStarts /\ starts'[d] <= starts[d] + 1
          /\ \A e \in Deliveries \ {d} : starts'[e] = starts[e]
      BY <1>0, <2>2, <2>6 DEF Bump
    <3>2. Unrecorded(w)
      BY <1>0, <2>1 DEF StartsOK
    <3>3. starts'[d] \in Nat
      BY <1>0, <2>2, <2>6 DEF Bump
    <3>4. starts'[d] <= dispatched[d]
      BY <1>0, <2>2, <3>1, <3>2, <3>3 DEF Unrecorded
    <3>5. \A e \in Deliveries : starts'[e] <= dispatched'[e]
      BY <1>0, <2>1, <3>1, <3>4 DEF StartsOK
    <3>6. ASSUME NEW v \in Workers, alive'[v], pc'[v] \in {"hook", "rehook"}
          PROVE  Unrecorded(v)'
      <4>1. v # w /\ alive[v] /\ pc[v] \in {"hook", "rehook"} /\ Job(v)' = Job(v)
        BY <2>4, <3>6 DEF Stays, Job
      <4>2. Job(v) # d
        BY <1>0, <2>1, <2>2, <4>1, OneHolder
      <4>3. Job(v) \in Deliveries /\ Unrecorded(v)
        BY <1>0, <4>1, JobKnown DEF StartsOK
      <4> QED
        BY <2>1, <3>1, <4>1, <4>2, <4>3 DEF Unrecorded
    <3> QED
      BY <3>5, <3>6 DEF StartsOK
  <2> QED
    BY <1>5, <2>5, <2>6 DEF RecordRedemptionStart
<1> QED
  BY <1>0, <1>2, <1>3, <1>4, <1>5, RequestSteps

\* For any number of workers, deliveries and faults, and even if a gateway
\* repeats requests: the receiver itself does not send a second swap request
\* for a delivery unless it replays one under NUT-19, and recordRedemptionStart
\* counts no request that was not sent.
THEOREM OneSwapRequestHolds == Spec => []AtMostOneSwapRequest
<1>1. Init => RequestInv
  <2>1. Init => MarksPrepared /\ OneRequestOK /\ StartsOK
    BY DEF Init, MarksPrepared, OneRequestOK, OneRequest, AtDispatch, StartsOK
  <2> QED
    BY <2>1, BaseInit, LocksInit DEF RequestInv
<1>2. RequestInv /\ ReceiptsOK /\ [Next]_vars => RequestInv'
  BY BaseNext, LocksNext, MarksNext, OneRequestNext, StartsNext DEF RequestInv
<1>3. RequestInv => AtMostOneSwapRequest
  BY DEF RequestInv, OneRequestOK, OneRequest, StartsOK, AtMostOneSwapRequest
<1> QED
  BY <1>1, <1>2, <1>3, ReceiptsInvariant, PTL DEF Spec

-----------------------------------------------------------------------------
(* Settlement. *)

\* A worker settles, or holds an answer, only once the mint has signed the plan.
AnswersOK ==
    \A w \in Workers : wire[w] = "done" \/ pc[w] = "settle" => plan[Job(w)] \in signed

\* Outputs, credit and outbox row follow each other as the phases say.
SettlementOK ==
    \A d \in Deliveries :
        /\ phase[d] \in {"outputs_persisted", "credited", "settled"} =>
              plan[d] \in signed /\ outputs[d] = plan[d]
        /\ d \in credits <=> phase[d] \in {"credited", "settled"}
        /\ outbox[d] # "none" \/ d \in notified => phase[d] = "settled"

SettleInv == Base /\ ReceiptsOK /\ AnswersOK /\ SettlementOK

LEMMA SettleInit == Init => AnswersOK /\ SettlementOK
  BY DEF Init, AnswersOK, SettlementOK

\* The mint never takes a signature back.
LEMMA SignedGrows == ASSUME [Next]_vars PROVE signed \subseteq signed'
<1>1. ASSUME NEW w \in Workers, WorkerStep(w) PROVE signed' = signed
  BY <1>1
  DEF WorkerStep, Prepare, PrepareRefused, AcquireLock, LockBusy, ReadRecord, MarkMintSent,
      DispatchSwap, RecordRedemptionStart, SwapAnswered, SwapRefused, SwapAmbiguous, Settle,
      PersistSettlementOutputs, CreditSettlement, FinalizeSettlement, Reject,
      BlockRecovery, RestoreFound, RestoreNotFound, SessionGone, mintVars
<1>2. ASSUME NEW w \in Workers, InspectFails(w) \/ MintStep(w) \/ WorkerFault(w)
      PROVE  signed \subseteq signed'
  BY <1>2
  DEF InspectFails, MintStep, WorkerFault, MintSwaps, MintReplays, MintRefuses, Sign,
      GatewayDuplicates, Crash, LoseSession, StoreFails, RestoreFails, mintVars
<1> QED
  BY <1>1, <1>2
  DEF Next, vars, CreateRequest, RequestExpires, PreflightKnown, PreflightNew, LeaseRecovery,
      ReplayWindowCloses, PublishOutbox, PublishRolledBack, MintSwapsLate, Sign,
      SpentElsewhere, mintVars

\* A stored plan is never replaced.
LEMMA PlanStays ==
  ASSUME Base, [Next]_vars, NEW d \in Deliveries, bound[d] # NoCommand
  PROVE  plan'[d] = plan[d]
<1>1. ASSUME NEW w \in Workers, Prepare(w) PROVE plan'[d] = plan[d]
  BY <1>1 DEF Prepare, CanPrepare, Job, Base, TypeOK
<1> QED
  BY <1>1, BindingSteps

LEMMA AnswersNext == SettleInv /\ [Next]_vars => AnswersOK'
<1> SUFFICES ASSUME SettleInv, [Next]_vars, NEW w \in Workers,
                    wire'[w] = "done" \/ pc'[w] = "settle"
             PROVE  plan'[Job(w)'] \in signed'
  BY DEF AnswersOK, Job
<1>0. /\ Base /\ AnswersOK /\ SettlementOK /\ pc \in [Workers -> Steps]
      /\ cmd \in [Workers -> Commands \cup {NoCommand}]
      /\ wire \in [Workers -> {"none", "sent", "done", "refused"}]
  BY DEF SettleInv, Base, TypeOK
<1>1. ASSUME cmd[w] # NoCommand, pc[w] # "prepare", cmd'[w] = cmd[w],
             plan[Job(w)] \in signed'
      PROVE  plan'[Job(w)'] \in signed'
  <2>1. Job(w) \in Deliveries /\ bound[Job(w)] # NoCommand /\ Job(w)' = Job(w)
    BY <1>0, <1>1, ExchangePlan DEF Job
  <2> QED
    BY <1>0, <1>1, <2>1, PlanStays
<1>2. CASE pc'[w] = pc[w] /\ cmd'[w] = cmd[w] /\ wire'[w] = wire[w]
  <2>1. cmd[w] # NoCommand /\ pc[w] # "prepare"
    BY <1>0, <1>2 DEF Base, WorkersOK
  <2> QED
    BY <1>0, <1>1, <1>2, <2>1, SignedGrows DEF AnswersOK
<1>3. CASE ActsAlone(w) /\ OwnStep(w)
  <2>1. CASE MintStep(w)
    <3>1. pc' = pc /\ cmd' = cmd /\ (wire'[w] = wire[w] \/ wire[w] = "sent")
      BY <2>1 DEF MintStep, MintSwaps, MintReplays, MintRefuses, GatewayDuplicates, workerVars,
                  netVars
    <3>2. wire'[w] = "done" /\ wire[w] = "sent" => plan[Job(w)] \in signed'
      BY <1>0, <2>1
      DEF MintStep, MintSwaps, MintReplays, MintRefuses, GatewayDuplicates, Sign, netVars,
          mintVars
    <3>3. cmd[w] # NoCommand /\ pc[w] # "prepare"
      BY <1>0, <3>1 DEF Base, WorkersOK
    <3> QED
      BY <1>0, <1>1, <3>1, <3>2, <3>3, SignedGrows DEF AnswersOK
  <2>2. CASE SwapAnswered(w) \/ RestoreFound(w)
    <3>1. /\ plan[Job(w)] \in signed /\ cmd' = cmd
          /\ pc[w] \in {"await", "reawait", "restore"}
      BY <1>0, <2>2 DEF SwapAnswered, RestoreFound, AnswersOK
    <3>2. cmd[w] # NoCommand /\ pc[w] # "prepare"
      BY <1>0, <3>1 DEF Base, WorkersOK
    <3> QED
      BY <1>1, <3>1, <3>2, SignedGrows
  <2>3. CASE ReadRecord(w)
    <3>1. wire' = wire /\ pc[w] = "read"
      BY <2>3 DEF ReadRecord, netVars
    <3>2. wire[w] = "none" /\ cmd[w] # NoCommand /\ pc[w] # "prepare"
      BY <1>0, <3>1 DEF Base, WorkersOK
    <3>3. cmd' = cmd /\ pc'[w] = NextStep(phase[Job(w)])
      BY <1>0, <2>3, <3>1, <3>2 DEF ReadRecord, Finish, Goto
    <3>4. phase[Job(w)] = "outputs_persisted"
      BY <3>1, <3>2, <3>3, NextStepType
    <3>5. plan[Job(w)] \in signed
      BY <1>0, <3>2, <3>4, ExchangePlan DEF SettlementOK
    <3> QED
      BY <1>1, <3>2, <3>3, <3>5, SignedGrows
  <2>4. CASE \/ PrepareRefused(w) \/ LockBusy(w) \/ Settle(w) \/ FinalizeSettlement(w)
             \/ Reject(w) \/ BlockRecovery(w) \/ SessionGone(w) \/ InspectFails(w) \/ Crash(w)
    <3>1. Finish(w) /\ wire'[w] \in {wire[w], "none"}
      BY <1>0, <2>4
      DEF PrepareRefused, LockBusy, Settle, FinalizeSettlement, Reject, BlockRecovery,
          SessionGone, InspectFails, Crash, AbandonExchange, netVars
    <3>2. Finish(w) /\ wire'[w] = "none"
      BY <1>0, <2>4, <3>1
      DEF PrepareRefused, LockBusy, Settle, FinalizeSettlement, Reject, BlockRecovery,
          SessionGone, InspectFails, Crash, AbandonExchange, Base, WorkersOK
    <3> QED
      BY <1>0, <3>2 DEF Finish
  <2>5. CASE \/ Prepare(w) \/ AcquireLock(w) \/ MarkMintSent(w) \/ DispatchSwap(w)
             \/ SwapRefused(w) \/ SwapAmbiguous(w) \/ RestoreNotFound(w) \/ RestoreFails(w)
             \/ CreditSettlement(w) \/ PersistSettlementOutputs(w) \/ StoreFails(w)
    <3>1. pc'[w] # "settle" /\ pc[w] # "idle"
      BY <1>0, <2>5
      DEF Prepare, AcquireLock, MarkMintSent, DispatchSwap, SwapRefused, SwapAmbiguous,
          RestoreNotFound, RestoreFails, CreditSettlement, PersistSettlementOutputs,
          StoreFails, StoreSteps, Goto, Finish
    <3>2. wire'[w] # "done"
      BY <1>0, <2>5
      DEF Prepare, AcquireLock, MarkMintSent, DispatchSwap, SwapRefused, SwapAmbiguous,
          RestoreNotFound, RestoreFails, CreditSettlement, PersistSettlementOutputs,
          StoreFails, AbandonExchange, netVars, Base, WorkersOK
    <3> QED
      BY <3>1, <3>2
  <2>6. CASE RecordRedemptionStart(w)
    <3>1. pc[w] \in {"hook", "rehook"} /\ pc'[w] # "settle"
      BY <1>0, <2>6 DEF RecordRedemptionStart, Goto, Finish
    <3>2. cmd[w] # NoCommand /\ pc[w] # "prepare"
      BY <1>0, <3>1 DEF Base, WorkersOK
    <3>3. wire'[w] = "none" \/ (wire' = wire /\ cmd' = cmd)
      BY <1>0, <2>6 DEF RecordRedemptionStart, AbandonExchange
    <3> QED
      BY <1>0, <1>1, <3>1, <3>2, <3>3, SignedGrows DEF AnswersOK
  <2>7. CASE LoseSession(w)
    BY <1>2, <2>7 DEF LoseSession, netVars
  <2>8. CASE pc[w] = "idle" /\ pc'[w] \in {"prepare", "lock"} /\ wire' = wire
    <3>1. wire[w] = "none"
      BY <1>0, <2>8 DEF Base, WorkersOK
    <3>2. wire'[w] = wire[w]
      BY <2>8
    <3> QED
      BY <2>8, <3>1, <3>2
  <2> QED
    BY <1>3, <2>1, <2>2, <2>3, <2>4, <2>5, <2>6, <2>7, <2>8
    DEF OwnStep, WorkerStep, WorkerFault
<1> QED
  BY <1>0, <1>2, <1>3, Actors DEF NoWorkerActs, ActsAlone

LEMMA SettlementNext == SettleInv /\ [Next]_vars => SettlementOK'
<1> SUFFICES ASSUME SettleInv, [Next]_vars PROVE SettlementOK'
  OBVIOUS
<1>0. /\ Base /\ AnswersOK /\ SettlementOK /\ phase \in [Deliveries -> Phases]
      /\ outputs \in [Deliveries -> Plans \cup {NoPlan}] /\ plan \in [Deliveries -> Plans \cup {NoPlan}]
      /\ outbox \in [Deliveries -> {"none", "pending", "published"}]
  BY DEF SettleInv, Base, TypeOK
<1>s. signed \subseteq signed'
  BY SignedGrows
<1>1. CASE UNCHANGED tableVars
  BY <1>0, <1>s, <1>1 DEF tableVars, SettlementOK
<1>2. ASSUME NEW d \in Deliveries, PublishOutbox(d) \/ PublishRolledBack(d)
      PROVE  SettlementOK'
  BY <1>0, <1>s, <1>2 DEF PublishOutbox, PublishRolledBack, SettlementOK
<1>3. ASSUME NEW w \in Workers, TableStep(w) PROVE SettlementOK'
  <2>0. Job(w) \in Deliveries
    BY <1>0, <1>3, TableStepDelivery
  <2>1. CASE Prepare(w)
    <3>1. phase[Job(w)] = "absent"
      BY <1>0, <2>0, <2>1 DEF Prepare, CanPrepare, Job, Base, StoreOK
    <3> QED
      BY <1>0, <1>s, <2>0, <2>1, <3>1 DEF Prepare, Job, SettlementOK
  <2>2. CASE MarkMintSent(w)
    BY <1>0, <1>s, <2>0, <2>2 DEF MarkMintSent, SettlementOK
  <2>3. CASE Settle(w)
    <3>1. plan[Job(w)] \in signed
      BY <1>0, <2>3 DEF Settle, AnswersOK
    <3> QED
      BY <1>0, <1>s, <2>0, <2>3, <3>1 DEF Settle, EndSettled, Settleable, SettlementOK
  <2>4. CASE PersistSettlementOutputs(w)
    <3>1. plan[Job(w)] \in signed
      BY <1>0, <2>4 DEF PersistSettlementOutputs, AnswersOK
    <3> QED
      BY <1>0, <1>s, <2>0, <2>4, <3>1 DEF PersistSettlementOutputs, SettlementOK
  <2>5. CASE CreditSettlement(w)
    BY <1>0, <1>s, <2>0, <2>5 DEF CreditSettlement, SettlementOK
  <2>6. CASE FinalizeSettlement(w)
    BY <1>0, <1>s, <2>0, <2>6 DEF FinalizeSettlement, EndSettled, SettlementOK
  <2>7. CASE Reject(w)
    BY <1>0, <1>s, <2>0, <2>7 DEF Reject, SettlementOK
  <2>8. CASE BlockRecovery(w)
    BY <1>0, <1>s, <2>0, <2>8 DEF BlockRecovery, SettlementOK
  <2> QED
    BY <1>3, <2>1, <2>2, <2>3, <2>4, <2>5, <2>6, <2>7, <2>8 DEF TableStep
<1> QED
  BY <1>1, <1>2, <1>3, TableSteps

LEMMA SettleInvariant == Spec => []SettleInv
<1>1. Init => SettleInv
  BY BaseInit, ReceiptsOKInit, SettleInit DEF SettleInv
<1>2. SettleInv /\ [Next]_vars => SettleInv'
  BY BaseNext, ReceiptsOKNext, AnswersNext, SettlementNext DEF SettleInv
<1> QED
  BY <1>1, <1>2, PTL DEF Spec

\* No premature credit, for any number of workers, deliveries and faults and
\* with or without repeated requests, NUT-19 replays and crash checkpoints: a
\* credit has a signed plan and stored outputs behind it, and what the outbox
\* announces has settled.
THEOREM CreditBackedHolds == Spec => []CreditBackedBySwap
<1>1. SettleInv => CreditBackedBySwap
  <2> SUFFICES ASSUME SettleInv PROVE CreditBackedBySwap
    OBVIOUS
  <2>1. credits \subseteq Deliveries /\ notified \subseteq Deliveries
    BY DEF SettleInv, Base, TypeOK
  <2> QED
    BY <2>1 DEF SettleInv, SettlementOK, ReceiptsOK, CreditBackedBySwap
<1> QED
  BY <1>1, SettleInvariant, PTL

-----------------------------------------------------------------------------
(* The refinement of the ledger. *)

Redeemed == {d \in Deliveries : plan[d] \in signed}

LedgerInv == SwapInv /\ ReceiptsOK /\ AnswersOK /\ SettlementOK /\ ProofSetExclusivity

\* The view of the ledger does not change.
Stutters == bound' = bound /\ receipt' = receipt /\ credits' = credits /\ Redeemed' = Redeemed

\* A delivery is open in the ledger while it is neither absent nor ended.
LEMMA OpenPhases ==
  ASSUME LedgerInv, NEW d \in Deliveries
  PROVE  /\ Ledger!Open(d) <=> phase[d] \notin {"absent", "rejected", "settled"}
         /\ d \in Ledger!Held <=> phase[d] \notin {"absent", "rejected"}
<1>1. phase[d] \in Phases
  BY DEF LedgerInv, SwapInv, Base, TypeOK
<1> QED
  BY <1>1 DEF LedgerInv, ReceiptsOK, Ledger!Open, Ledger!Held, NoReceipt, Phases

\* The mint signs at most one plan in a step, for a delivery still open.
LEMMA MintRedeems ==
  ASSUME LedgerInv, NEW pl, Sign(pl), plan' = plan,
         bound' = bound, receipt' = receipt, credits' = credits,
         pl \in late \/ \E w \in Workers : wire[w] = "sent" /\ pl = plan[Job(w)]
  PROVE  \E d \in Deliveries : Ledger!Redeem(d)
<1>0. Base /\ PlanStoredBeforeSwap /\ UntouchedOK /\ SettlementOK
  BY DEF LedgerInv, SwapInv
<1>1. PICK d \in Deliveries : /\ plan[d] = pl /\ pl \in Plans /\ delOf[pl[1]] = d
                              /\ phase[d] \notin Untouched
  <2>1. CASE pl \in late
    <3>1. pl \in Plans /\ delOf[pl[1]] \in Deliveries /\ plan[delOf[pl[1]]] = pl
      BY <1>0, <2>1, ConstantsAssumption DEF PlanStoredBeforeSwap, Base, TypeOK, Plans
    <3> QED
      BY <1>0, <2>1, <3>1 DEF UntouchedOK, Untouched
  <2>2. ASSUME NEW w \in Workers, wire[w] = "sent", pl = plan[Job(w)]
        PROVE  /\ Job(w) \in Deliveries /\ plan[Job(w)] \in Plans
               /\ delOf[plan[Job(w)][1]] = Job(w) /\ phase[Job(w)] \notin Untouched
    <3>1. cmd[w] # NoCommand /\ pc[w] # "prepare"
      BY <1>0, <2>2 DEF Base, WorkersOK
    <3>2. Job(w) \in Deliveries /\ plan[Job(w)] \in Plans /\ delOf[plan[Job(w)][1]] = Job(w)
      BY <1>0, <3>1, ExchangePlan
    <3> QED
      BY <1>0, <2>2, <3>1, <3>2 DEF UntouchedOK, Untouched, Quiet, Job
  <2> QED
    BY <2>1, <2>2
<1>2. pl \notin signed /\ signed' = signed \cup {pl}
  BY DEF Sign, Signable
<1>3. phase[d] # "settled"
  BY <1>0, <1>1, <1>2 DEF SettlementOK
<1>4. Ledger!Open(d)
  BY <1>1, <1>3, OpenPhases DEF Untouched
<1>5. \A e \in Deliveries : plan[e] = pl => e = d
  BY <1>0, <1>1, NoPlanAssumption DEF Base, StoreOK
<1>6. d \notin Redeemed /\ Redeemed' = Redeemed \cup {d}
  BY <1>1, <1>2, <1>5 DEF Redeemed
<1> QED
  BY <1>4, <1>6 DEF Ledger!Redeem, Redeemed

\* Prepare is the ledger's Accept: the claims and the reservation it checks are
\* those of the deliveries the ledger holds.
LEMMA PrepareAccepts ==
  ASSUME LedgerInv, NEW w \in Workers, Prepare(w), UntouchedOK'
  PROVE  \E c \in Commands : Ledger!Accept(c)
<1>0. Base /\ UntouchedOK /\ TableStep(w)
  BY DEF LedgerInv, SwapInv, TableStep
<1> DEFINE c == cmd[w]
           d == Job(w)
<1>1. /\ c \in Commands /\ d \in Deliveries /\ d = delOf[c] /\ phase[d] = "absent"
      /\ phase \in [Deliveries -> Phases] /\ plan \in [Deliveries -> Plans \cup {NoPlan}]
      /\ claims \in [Proofs -> Deliveries \cup {NoDelivery}]
      /\ bound \in [Deliveries -> Commands \cup {NoCommand}]
  <2>1. /\ phase \in [Deliveries -> Phases] /\ plan \in [Deliveries -> Plans \cup {NoPlan}]
        /\ claims \in [Proofs -> Deliveries \cup {NoDelivery}]
        /\ bound \in [Deliveries -> Commands \cup {NoCommand}]
        /\ cmd \in [Workers -> Commands \cup {NoCommand}]
    BY <1>0 DEF Base, TypeOK
  <2>2. cmd[w] # NoCommand
    BY <1>0 DEF Prepare, Base, WorkersOK
  <2>3. d \in Deliveries
    BY <1>0, TableStepDelivery
  <2>4. phase[d] = "absent"
    BY <1>0, <2>3 DEF Prepare, CanPrepare, Job, Base, StoreOK
  <2> QED
    BY <2>1, <2>2, <2>3, <2>4 DEF Job
<1>2. ASSUME NEW e \in Ledger!Held PROVE ~Ledger!Conflicts(c, bound[e])
  <2>1. e \in Deliveries /\ phase[e] \notin {"absent", "rejected"}
    BY <1>2, OpenPhases DEF Ledger!Held
  <2>2. bound[e] # NoCommand /\ bound[e] \in Commands
    BY <1>0, <1>1, <2>1 DEF Base, StoreOK
  <2>3. proofsOf[c] \cap proofsOf[bound[e]] = {}
    <3> SUFFICES ASSUME NEW p \in proofsOf[c], p \in proofsOf[bound[e]] PROVE FALSE
      OBVIOUS
    <3>1. p \in Proofs
      BY <1>1, ConstantsAssumption
    <3>2. claims[p] = e
      BY <2>1, <3>1 DEF LedgerInv, ProofSetExclusivity
    <3> QED
      BY <2>1, <3>1, <3>2, ConstantsAssumption DEF Prepare, CanPrepare
  <2>4. ~(reqOf[c] = reqOf[bound[e]] /\ reqOf[c] \in SingleUse)
    BY <2>1, <2>2 DEF Prepare, CanPrepare, Reserved
  <2> QED
    BY <2>3, <2>4 DEF Ledger!Conflicts
<1>3. plan[d] \notin signed /\ plan'[d] \notin signed' /\ signed' = signed
  <2>1. phase'[d] = "prepared" /\ signed' = signed
    BY <1>1 DEF Prepare, Job, mintVars
  <2> QED
    BY <1>0, <1>1, <2>1 DEF UntouchedOK
<1>4. \A e \in Deliveries : e # d => plan'[e] = plan[e]
  BY <1>1 DEF Prepare, Job
<1>5. Redeemed' = Redeemed
  BY <1>3, <1>4 DEF Redeemed
<1>6. /\ bound[delOf[c]] = NoCommand
      /\ bound' = [bound EXCEPT ![delOf[c]] = c]
      /\ receipt' = [receipt EXCEPT ![delOf[c]] = Ledger!FirstReceipt]
      /\ credits' = credits
  BY DEF Prepare, CanPrepare, FirstReceipt, Ledger!FirstReceipt
<1> QED
  BY <1>1, <1>2, <1>5, <1>6 DEF Ledger!Accept, Ledger!Acceptable, Redeemed

\* Every other step on the tables is a ledger step of the worker's delivery.
LEMMA TableStepMoves ==
  ASSUME LedgerInv, NEW w \in Workers, TableStep(w), ~Prepare(w)
  PROVE  Stutters \/ \E d \in Deliveries : Ledger!Step(d)
<1> DEFINE d == Job(w)
<1>0. /\ d \in Deliveries /\ phase[d] \in Phases /\ credits \subseteq Deliveries
      /\ bound' = bound /\ plan' = plan /\ signed' = signed
  <2>1. Base
    BY DEF LedgerInv, SwapInv
  <2>2. bound' = bound /\ plan' = plan /\ signed' = signed
    BY DEF TableStep, MarkMintSent, Settle, PersistSettlementOutputs, CreditSettlement,
           FinalizeSettlement, Reject, BlockRecovery, mintVars
  <2> QED
    BY <2>1, <2>2, TableStepDelivery DEF Base, TypeOK
<1>1. Redeemed' = Redeemed
  BY <1>0 DEF Redeemed
<1>2. Ledger!Open(d) <=> phase[d] \notin {"absent", "rejected", "settled"}
  BY <1>0, OpenPhases
<1>3. /\ phase[d] = "prepared" => receipt[d].detailCode = "accepted"
      /\ phase[d] = "mint_sent" => receipt[d].detailCode = "redeeming"
  BY <1>0 DEF LedgerInv, ReceiptsOK
<1> USE <1>0, <1>1, <1>2, <1>3 DEF Redeemed, Ledger!Advance, nextReceipt, Ledger!nextReceipt
<1>4. CASE MarkMintSent(w)
  <2>1. Stutters \/ Ledger!StartRedeeming(d)
    BY <1>4 DEF MarkMintSent, Stutters, Ledger!StartRedeeming
  <2> QED
    BY <2>1 DEF Ledger!Step
<1>5. CASE BlockRecovery(w)
  <2>1. Stutters \/ Ledger!BlockRecovery(d)
    BY <1>5 DEF BlockRecovery, Stutters, Ledger!BlockRecovery
  <2> QED
    BY <2>1 DEF Ledger!Step
<1>6. CASE Reject(w)
  <2>1. plan[d] \notin signed
    <3>1. alive[w] /\ pc[w] = "reject" /\ FirstSwap(w)
      BY <1>6 DEF Reject, LedgerInv, SwapInv, FirstSwapOK
    <3>2. wire[w] = "none"
      BY <3>1 DEF LedgerInv, SwapInv, Base, WorkersOK
    <3> QED
      BY <3>1, <3>2 DEF FirstSwap, Job
  <2>2. Stutters \/ Ledger!Reject(d)
    BY <1>6, <2>1 DEF Reject, Stutters, Ledger!Reject
  <2> QED
    BY <2>2 DEF Ledger!Step
<1>7. CASE Settle(w)
  <2>1. plan[d] \in signed
    BY <1>7 DEF Settle, LedgerInv, AnswersOK
  <2>2. Stutters \/ Ledger!Settle(d)
    BY <1>7, <2>1 DEF Settle, EndSettled, Settleable, Stutters, Ledger!Settle
  <2> QED
    BY <2>2 DEF Ledger!Step
<1>8. CASE PersistSettlementOutputs(w)
  BY <1>8 DEF PersistSettlementOutputs, Stutters
<1>9. CASE CreditSettlement(w)
  <2>1. phase[d] = "outputs_persisted" => plan[d] \in signed
    BY DEF LedgerInv, SettlementOK
  <2>2. Stutters \/ Ledger!Credit(d)
    BY <1>9, <2>1 DEF CreditSettlement, Stutters, Ledger!Credit
  <2> QED
    BY <2>2 DEF Ledger!Step
<1>10. CASE FinalizeSettlement(w)
  <2>1. phase[d] = "credited" => plan[d] \in signed /\ d \in credits
    BY DEF LedgerInv, SettlementOK
  <2>2. Stutters \/ Ledger!Settle(d)
    BY <1>10, <2>1 DEF FinalizeSettlement, EndSettled, Stutters, Ledger!Settle
  <2> QED
    BY <2>2 DEF Ledger!Step
<1> QED
  BY <1>4, <1>5, <1>6, <1>7, <1>8, <1>9, <1>10 DEF TableStep

\* Steps that leave the tables alone: only the mint can make a difference.
LEMMA MintOrNothing ==
  ASSUME LedgerInv, ~DuplicateSwaps, [Next]_vars, UNCHANGED tableVars
  PROVE  Stutters \/ \E d \in Deliveries : Ledger!Redeem(d)
<1>0. bound' = bound /\ receipt' = receipt /\ credits' = credits /\ plan' = plan
  BY DEF tableVars
<1>1. CASE signed' = signed
  BY <1>0, <1>1 DEF Stutters, Redeemed
<1>2. ASSUME NEW w \in Workers, MintSwaps(w)
      PROVE  \E d \in Deliveries : Ledger!Redeem(d)
  BY <1>0, <1>2, MintRedeems DEF MintSwaps
<1>3. ASSUME NEW pl \in late, MintSwapsLate(pl), signed' # signed
      PROVE  \E d \in Deliveries : Ledger!Redeem(d)
  BY <1>0, <1>3, MintRedeems DEF MintSwapsLate, mintVars
<1>4. ASSUME NEW w \in Workers,
             WorkerStep(w) \/ InspectFails(w) \/ MintStep(w) \/ WorkerFault(w)
      PROVE  signed' = signed \/ MintSwaps(w)
  BY <1>4
  DEF WorkerStep, Prepare, PrepareRefused, AcquireLock, LockBusy, ReadRecord, MarkMintSent,
      DispatchSwap, RecordRedemptionStart, SwapAnswered, SwapRefused, SwapAmbiguous, Settle,
      PersistSettlementOutputs, CreditSettlement, FinalizeSettlement, Reject,
      BlockRecovery, RestoreFound, RestoreNotFound, SessionGone, mintVars,
      InspectFails, MintStep, WorkerFault, MintReplays, MintRefuses,
      GatewayDuplicates, Crash, LoseSession, StoreFails, RestoreFails
<1>5. \/ signed' = signed
      \/ \E w \in Workers : MintSwaps(w)
      \/ \E pl \in late : MintSwapsLate(pl)
  BY <1>4
  DEF Next, vars, CreateRequest, RequestExpires, PreflightKnown, PreflightNew, LeaseRecovery,
      ReplayWindowCloses, PublishOutbox, PublishRolledBack, SpentElsewhere, mintVars
<1> QED
  BY <1>1, <1>2, <1>3, <1>5

LEMMA LedgerInvariant == ASSUME ~DuplicateSwaps PROVE Spec => []LedgerInv
  BY SwapInvariant, SettleInvariant, ClaimsHold, PTL
  DEF LedgerInv, SettleInv

\* The receiver implements the ledger for any number of workers, deliveries and
\* faults, with and without NUT-09, NUT-19 and checkpoints, as long as nothing
\* between it and the mint repeats a swap request: every step of its handlers
\* is a step of the ledger or invisible to it.
THEOREM LedgerImplemented ==
  ASSUME ~DuplicateSwaps PROVE Spec => LedgerRefinement
<1>1. Init => Ledger!Init
  <2>1. ASSUME Init PROVE {d \in Deliveries : plan[d] \in signed} = {}
    BY <2>1 DEF Init
  <2> QED
    BY <2>1 DEF Init, Ledger!Init, NoReceipt, Ledger!NoReceipt
<1>2. ASSUME LedgerInv, LedgerInv', [Next]_vars
      PROVE  [Ledger!Next]_(Ledger!ledgerVars)
  <2>1. ASSUME Stutters PROVE UNCHANGED Ledger!ledgerVars
    BY <2>1 DEF Stutters, Redeemed, Ledger!ledgerVars
  <2>2. CASE UNCHANGED tableVars
    BY <1>2, <2>1, <2>2, MintOrNothing DEF Ledger!Next, Ledger!Step
  <2>3. ASSUME NEW w \in Workers, Prepare(w) PROVE Ledger!Next
    <3>1. UntouchedOK'
      BY <1>2 DEF LedgerInv, SwapInv
    <3> QED
      BY <1>2, <2>3, <3>1, PrepareAccepts DEF Ledger!Next
  <2>4. ASSUME NEW w \in Workers, TableStep(w), ~Prepare(w)
        PROVE  Stutters \/ \E d \in Deliveries : Ledger!Step(d)
    BY <1>2, <2>4, TableStepMoves
  <2>5. ASSUME NEW d \in Deliveries, PublishOutbox(d) \/ PublishRolledBack(d)
        PROVE  Stutters
    BY <2>5 DEF PublishOutbox, PublishRolledBack, Stutters, Redeemed, mintVars
  <2> QED
    BY <1>2, <2>1, <2>2, <2>3, <2>4, <2>5, TableSteps DEF Ledger!Next
<1> QED
  BY <1>1, <1>2, LedgerInvariant, PTL DEF Spec, LedgerRefinement, Ledger!Spec
=============================================================================
