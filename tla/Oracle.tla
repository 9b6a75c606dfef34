------------------------------- MODULE Oracle -------------------------------
(***************************************************************************)
(* The oracle of the delivery scenarios (packages/oracle): the observations *)
(* a driver reports, the safety check that reads them in order, the         *)
(* quiescence check, and the invariant report of a run.                     *)
(*                                                                          *)
(* A run pays one request, so observations carry no request id, and an      *)
(* amount stands for an amount with its unit.  Of the maps the code derives *)
(* from the observations only the deliveries are ever read.                 *)
(***************************************************************************)
EXTENDS Integers, Sequences, SequencesExt, FiniteSets, FiniteSetsExt

Request(single) == [type |-> "request_observed", singleUse |-> single]
Attempted(d, payload, proofs, transport) ==
    [type |-> "delivery_attempted", delivery |-> d, payload |-> payload,
     proofs |-> proofs, transport |-> transport]
Redemption(d, proofs) ==
    [type |-> "redemption_started", delivery |-> d, proofs |-> proofs]
ProofState(proofs, state) ==
    [type |-> "mint_proofs_state", proofs |-> proofs, state |-> state]
Settlement(d, plan) == [type |-> "receiver_settled", delivery |-> d, plan |-> plan]
Credited(d, id, amount) ==
    [type |-> "merchant_credited", delivery |-> d, credit |-> id, amount |-> amount]
Receipt(d, payload, status, detail, version, amount) ==
    [type |-> "receipt_observed", delivery |-> d, payload |-> payload, status |-> status,
     detail |-> detail, version |-> version, amount |-> amount]

At(obs, type) == {i \in DOMAIN obs : obs[i].type = type}
Having(obs, type, d) == {i \in At(obs, type) : obs[i].delivery = d}
CreditIds(obs, d) == {obs[i].credit : i \in Having(obs, "merchant_credited", d)}

(***************************************************************************)
(* assertSafety: the first failure, or "ok".                                *)
(***************************************************************************)

SameDelivery(a, b) == a.payload = b.payload /\ a.proofs = b.proofs

\* What the loop over the observations finds wrong with the i-th one.
ObservationFault(obs, i) ==
    LET o == obs[i]
        Earlier(type) == {obs[j] : j \in {k \in At(obs, type) : k < i}}
        Mine(type) == {p \in Earlier(type) : p.delivery = o.delivery}
    IN  CASE o.type = "request_observed" ->
               IF \E p \in Earlier(o.type) : p.singleUse # o.singleUse
               THEN "single_use_policy" ELSE "ok"
          [] o.type = "delivery_attempted" ->
               IF \E p \in Mine(o.type) : ~SameDelivery(p, o) THEN "delivery_identity"
               ELSE IF \E p \in Earlier(o.type) :
                          p.proofs = o.proofs /\ p.delivery # o.delivery
               THEN "proof_owner" ELSE "ok"
          [] o.type = "redemption_started" ->
               IF ~\E p \in Mine("delivery_attempted") : p.proofs = o.proofs
               THEN "redemption_identity"
               ELSE IF Mine(o.type) # {} THEN "redemption_twice" ELSE "ok"
          [] o.type = "receiver_settled" ->
               IF \E p \in Mine(o.type) : p.plan # o.plan THEN "settlement_plan" ELSE "ok"
          [] o.type = "merchant_credited" ->
               IF \E p \in Earlier(o.type) : p.credit = o.credit /\ p # o
               THEN "credit_identity" ELSE "ok"
          [] o.type = "receipt_observed" ->
               IF o.version < 1 THEN "receipt_version"
               ELSE IF \E p \in Mine(o.type) : p.version = o.version /\ p # o
               THEN "receipt_conflict" ELSE "ok"
          [] o.type = "mint_proofs_state" -> "ok"

\* A credited delivery has one credit, backed by recovered outputs.
CreditFault(obs, d) ==
    IF Cardinality(CreditIds(obs, d)) > 1 THEN "credit_count"
    ELSE IF Having(obs, "receiver_settled", d) = {} THEN "credit_without_outputs"
    ELSE IF Having(obs, "delivery_attempted", d) = {} THEN "credit_mismatch"
    ELSE "ok"

RequestFault(obs) ==
    IF /\ \E i \in At(obs, "request_observed") : obs[i].singleUse
       /\ Cardinality({obs[i].credit : i \in At(obs, "merchant_credited")}) > 1
    THEN "request_credit" ELSE "ok"

Receipts(obs, d) == {obs[i] : i \in Having(obs, "receipt_observed", d)}
Newest(receipts) == CHOOSE r \in receipts : \A q \in receipts : q.version <= r.version
Terminal(r) == r.status \in {"settled", "rejected"}
Regressed(receipts) == \E t, r \in receipts : Terminal(t) /\ r.version > t.version
MayBeConsumed(obs) ==
    {obs[i].proofs : i \in {j \in At(obs, "mint_proofs_state") :
                                obs[j].state \in {"PENDING", "SPENT"}}}

\* The receipts of one delivery against its identity, outputs, credit, proofs.
ReceiptFault(obs, d) ==
    LET receipts == Receipts(obs, d)
        latest == Newest(receipts)
        attempts == {obs[i] : i \in Having(obs, "delivery_attempted", d)}
        credits == {obs[i] : i \in Having(obs, "merchant_credited", d)}
    IN  IF \E r \in receipts, a \in attempts : r.payload # a.payload
        THEN "receipt_identity"
        ELSE IF Regressed(receipts) THEN "terminal_regressed"
        ELSE IF latest.status = "settled" /\ (\/ Having(obs, "receiver_settled", d) = {}
                                              \/ Cardinality(CreditIds(obs, d)) # 1)
        THEN "settled_unbacked"
        ELSE IF latest.status = "settled" /\ \E c \in credits : c.amount # latest.amount
        THEN "settled_value"
        ELSE IF latest.status = "rejected" /\ \E a \in attempts : a.proofs \in MayBeConsumed(obs)
        THEN "rejected_consumed"
        ELSE "ok"

\* Deliveries in the order in which a type of observation first names them.
InOrder(obs, type) ==
    LET firsts == {i \in At(obs, type) :
                      \A j \in Having(obs, type, obs[i].delivery) : i <= j}
    IN  [n \in 1..Cardinality(firsts) |->
            obs[CHOOSE i \in firsts : Cardinality({j \in firsts : j <= i}) = n].delivery]

FirstFault(faults) == 
    LET bad == {i \in DOMAIN faults : faults[i] # "ok"}
    IN  IF bad = {} THEN "ok" ELSE faults[Min(bad)]

\* (The closing comparison of amounts repeats what ReceiptFault established.)
AssertSafety(obs) ==
    LET credited == InOrder(obs, "merchant_credited")
        answered == InOrder(obs, "receipt_observed")
    IN  FirstFault([i \in DOMAIN obs |-> ObservationFault(obs, i)]
                   \o [i \in DOMAIN credited |-> CreditFault(obs, credited[i])]
                   \o <<RequestFault(obs)>>
                   \o [i \in DOMAIN answered |-> ReceiptFault(obs, answered[i])])

(***************************************************************************)
(* The model a run builds up, and the quiescence check.                     *)
(***************************************************************************)

EmptyOracleModel == [deliveries |-> {}, observations |-> <<>>]

\* The identity of a delivery is the one of its first attempt.
ApplyObservation(model, o) ==
    [deliveries |->
        IF o.type = "delivery_attempted" /\ \A k \in model.deliveries : k.delivery # o.delivery
        THEN model.deliveries \cup {[delivery |-> o.delivery, proofs |-> o.proofs]}
        ELSE model.deliveries,
     observations |-> Append(model.observations, o)]

\* Whether the observations ever showed the inputs PENDING or SPENT.
StrongestState(obs, proofs) == proofs \in MayBeConsumed(obs)

QuietDelivery(obs, k) ==
    LET receipts == Receipts(obs, k.delivery)
    IN  /\ receipts # {}
        /\ \/ Terminal(Newest(receipts))
           \/ Newest(receipts).detail = "recovery_blocked" /\ StrongestState(obs, k.proofs)

AssertQuiescentLiveness(model) ==
    LET safety == AssertSafety(model.observations)
    IN  IF safety # "ok" THEN safety
        ELSE IF \A k \in model.deliveries : QuietDelivery(model.observations, k)
        THEN "ok" ELSE "not_quiescent"
=============================================================================
