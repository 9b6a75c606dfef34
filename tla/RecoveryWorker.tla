--------------------------- MODULE RecoveryWorker ---------------------------
(***************************************************************************)
(* The background work of the reference receiver: RecoveryWorker.runOnce,   *)
(* which leases a batch of unfinished deliveries and recovers them one      *)
(* after another, and OutboxPublisher.runOnce, which publishes a batch of   *)
(* receipts in one transaction.  Receiver models what one recovery does;    *)
(* here a recovery is one step that resolves the delivery, leaves it        *)
(* blocked, or throws.                                                      *)
(***************************************************************************)
EXTENDS Integers, Sequences, FiniteSets, FiniteSetsExt, SequencesExt

CONSTANTS
    Shifts,      \* [queued, stuck, runners]: the delivery ids (numbers, for the order of
                 \* delivery_id), those no recovery resolves (recovery_blocked for good),
                 \* and the processes that call RecoveryWorker.runOnce again and again
    Runners,     \* all such processes
    Publishers,  \* processes that call OutboxPublisher.runOnce again and again
    Limit,       \* of both batches
    MaxTrouble   \* bound: exceptions and passing failures

VARIABLES
    shift,
    due,         \* unfinished deliveries whose lease has run out, by updated_at, delivery_id
    leased,      \* the others: sets with the same updated_at, oldest first
    batch,       \* per runner, what is left of its batch
    outbox,      \* receipts not marked as published, by id
    sending,     \* per publisher, [rows, next] of the open transaction
    announced,   \* deliveries whose receipt a transaction marked as published
    trouble

workVars == <<shift, due, leased, batch, outbox, sending, announced, trouble>>

NoRows == [rows |-> <<>>, next |-> 1]
Unfinished == ToSet(due) \cup UNION ToSet(leased)

WorkInit ==
    /\ shift \in Shifts
    /\ due = <<>>
    /\ leased = LET ids == SetToSortSeq(shift.queued, <) IN [i \in DOMAIN ids |-> {ids[i]}]
    /\ batch = [w \in Runners |-> <<>>]
    /\ outbox = <<>>
    /\ sending = [p \in Publishers |-> NoRows]
    /\ announced = {}
    /\ trouble = MaxTrouble

Trouble == trouble > 0 /\ trouble' = trouble - 1

(***************************************************************************)
(* RecoveryWorker.runOnce.                                                  *)
(***************************************************************************)

\* RECOVERY_WORK_LEASE_SECONDS pass.
LeaseExpires ==
    /\ leased # <<>>
    /\ due' = due \o SetToSortSeq(Head(leased), <)
    /\ leased' = Tail(leased)
    /\ UNCHANGED <<shift, batch, outbox, sending, announced, trouble>>

Count(queue) == Min({Limit, Len(queue)})

\* Mutant: ordered by delivery_id alone.
CandidatesById(queue) ==
    ToSet(SubSeq(SetToSortSeq(ToSet(queue), <), 1, Count(queue)))

Candidates(queue) == ToSet(SubSeq(queue, 1, Count(queue)))

\* recoverableDeliveryIds: the rows come back in no particular order.
RecoverableDeliveryIds(w) ==
    /\ w \in shift.runners /\ batch[w] = <<>> /\ due # <<>>
    /\ LET taken == Candidates(due)
       IN  /\ \E ids \in [1..Cardinality(taken) -> taken] :
                ToSet(ids) = taken /\ batch' = [batch EXCEPT ![w] = ids]
           /\ due' = SelectSeq(due, LAMBDA d : d \notin taken)
           /\ leased' = Append(leased, taken)
    /\ UNCHANGED <<shift, outbox, sending, announced, trouble>>

\* A write to a delivery sets its updated_at.
Without(d) == SelectSeq([i \in DOMAIN leased |-> leased[i] \ {d}], LAMBDA s : s # {})
Touch(d) == due' = SelectSeq(due, LAMBDA x : x # d) /\ leased' = Append(Without(d), {d})

\* recoverDelivery resolves the delivery, and its receipt enters the outbox; or
\* leaves it blocked, with a write (blockRecovery of a delivery that was not
\* blocked, recordRedemptionStart of a replayed redemption) or without one; or
\* finds it resolved by another process.
Recover(w) ==
    LET d == Head(batch[w])
    IN  /\ batch[w] # <<>>
        /\ batch' = [batch EXCEPT ![w] = Tail(@)]
        /\ UNCHANGED <<shift, sending, announced>>
        /\ \/ /\ d \in Unfinished \ shift.stuck
              /\ due' = SelectSeq(due, LAMBDA x : x # d)
              /\ leased' = Without(d)
              /\ outbox' = Append(outbox, d)
              /\ UNCHANGED trouble
           \/ /\ d \in Unfinished
              /\ IF d \in shift.stuck THEN UNCHANGED trouble ELSE Trouble
              /\ Touch(d) \/ UNCHANGED <<due, leased>>
              /\ UNCHANGED outbox
           \/ /\ d \notin Unfinished
              /\ UNCHANGED <<due, leased, outbox, trouble>>

\* An exception ends the batch: what is left of it waits for its lease to run out.
RecoverThrows(w) ==
    /\ batch[w] # <<>> /\ Trouble
    /\ batch' = [batch EXCEPT ![w] = <<>>]
    /\ UNCHANGED <<shift, due, leased, outbox, sending, announced>>

(***************************************************************************)
(* OutboxPublisher.runOnce: one transaction per batch.                      *)
(***************************************************************************)

Locked == UNION {ToSet(sending[p].rows) : p \in Publishers}
Unlocked == SelectSeq(outbox, LAMBDA d : d \notin Locked)

\* SELECT ... FOR UPDATE SKIP LOCKED.
SelectOutbox(p) ==
    /\ sending[p] = NoRows /\ Unlocked # <<>>
    /\ sending' = [sending EXCEPT ![p].rows = SubSeq(Unlocked, 1, Count(Unlocked))]
    /\ UNCHANGED <<shift, due, leased, batch, outbox, announced, trouble>>

Publish(p) ==
    /\ sending[p].next <= Len(sending[p].rows)
    /\ sending' = [sending EXCEPT ![p].next = @ + 1]
    /\ UNCHANGED <<shift, due, leased, batch, outbox, announced, trouble>>

CommitPublished(p) ==
    /\ sending[p].rows # <<>> /\ sending[p].next > Len(sending[p].rows)
    /\ announced' = announced \cup ToSet(sending[p].rows)
    /\ outbox' = SelectSeq(outbox, LAMBDA d : d \notin ToSet(sending[p].rows))
    /\ sending' = [sending EXCEPT ![p] = NoRows]
    /\ UNCHANGED <<shift, due, leased, batch, trouble>>

\* A publication that throws rolls the whole batch back.
RollBack(p) ==
    /\ sending[p].rows # <<>> /\ Trouble
    /\ sending' = [sending EXCEPT ![p] = NoRows]
    /\ UNCHANGED <<shift, due, leased, batch, outbox, announced>>

WorkNext ==
    \/ LeaseExpires
    \/ \E w \in Runners : RecoverableDeliveryIds(w) \/ Recover(w) \/ RecoverThrows(w)
    \/ \E p \in Publishers : SelectOutbox(p) \/ Publish(p) \/ CommitPublished(p) \/ RollBack(p)

(***************************************************************************)
(* However a batch is cut short by an exception or a rollback, and however  *)
(* often deliveries that stay blocked come round again, every delivery that *)
(* can be resolved is resolved and its receipt published (worker.ts:16-24,  *)
(* postgres-store.ts:595-645): no delivery waits for ever behind others.    *)
(***************************************************************************)
EveryReceiptIsPublished == <>(shift.queued \ shift.stuck \subseteq announced)
=============================================================================
