----------------------------- MODULE MCRecovery -----------------------------
(***************************************************************************)
(* Liveness of the receiver on small instances.  A behaviour follows one    *)
(* lane: in the first, the steps of handlers and recoveries of one delivery *)
(* (Receiver); in the second, the batches in which the recovery worker and  *)
(* the outbox publisher get to a delivery (RecoveryWorker).                 *)
(***************************************************************************)
EXTENDS MCReceiver

CONSTANTS u1, u2, v1, Shifts, Runners, Publishers, Limit, MaxTrouble

VARIABLES lane, shift, due, leased, batch, pending, sending, announced, trouble

workVars == <<shift, due, leased, batch, pending, sending, announced, trouble>>
recoveryVars == <<lane, vars, workVars>>

\* Two deliveries that stay blocked, as many as fit a batch, with two others and
\* one runner, and with one other and two runners.
MCShifts ==
    {[queued |-> 1..4, stuck |-> {1, 2}, runners |-> {u1}],
     [queued |-> 1..3, stuck |-> {1, 2}, runners |-> {u1, u2}]}

Worker == INSTANCE RecoveryWorker WITH outbox <- pending

RecoveryInit ==
    /\ lane \in {"delivery", "batch"}
    /\ Init
    /\ Worker!WorkInit

Delivery(A) == lane = "delivery" /\ A /\ UNCHANGED <<lane, workVars>>
Batch(A) == lane = "batch" /\ A /\ UNCHANGED <<lane, vars>>

RecoveryNext == Delivery(Next) \/ Batch(Worker!WorkNext)

\* Every process goes on with what it has begun, and runOnce is called again
\* and again; what may go wrong goes wrong MaxFaults or MaxTrouble times.
RecoveryFairness ==
    /\ \A w \in Workers : WF_recoveryVars(Delivery(WorkerStep(w)))
    /\ \A d \in Deliveries :
          /\ SF_recoveryVars(Delivery(\E w \in Workers : LeaseRecovery(w, d)))
          /\ WF_recoveryVars(Delivery(PublishOutbox(d)))
    /\ WF_recoveryVars(Batch(Worker!LeaseExpires))
    /\ \A w \in Runners :
          WF_recoveryVars(Batch(Worker!RecoverableDeliveryIds(w) \/ Worker!Recover(w)))
    /\ \A p \in Publishers :
          WF_recoveryVars(Batch(Worker!SelectOutbox(p) \/ Worker!Publish(p)
                                \/ Worker!CommitPublished(p)))

RecoverySpec == RecoveryInit /\ [][RecoveryNext]_recoveryVars /\ RecoveryFairness

\* No delivery that can be resolved waits for ever behind the others of its
\* batch (RecoveryWorker.runOnce, OutboxPublisher.runOnce).
EveryReceiptIsPublished == lane = "batch" => Worker!EveryReceiptIsPublished
=============================================================================
