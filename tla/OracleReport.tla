---------------------------- MODULE OracleReport ----------------------------
(***************************************************************************)
(* The invariant report of a run (packages/oracle/src/evidence.ts): the     *)
(* status of each of the eighteen registered invariants, from the           *)
(* observations, the scenario's commands and the declared profiles.         *)
(*                                                                          *)
(* An invariant passes, fails, does not apply, or is not observable; a run  *)
(* with a failed or an unobservable one does not pass.                      *)
(***************************************************************************)
EXTENDS Oracle

Verdict(violated) == IF violated THEN "failed" ELSE "passed"

\* The usual shape of an evaluation: does it apply, was there evidence, did it hold.
Evaluated(applies, observed, violated) ==
    IF ~applies THEN "not_applicable"
    ELSE IF ~observed THEN "not_observable"
    ELSE Verdict(violated)

Attempts(obs) == {obs[i] : i \in At(obs, "delivery_attempted")}
AttemptCount(obs, d) == Cardinality(Having(obs, "delivery_attempted", d))
Tried(obs) == {a.delivery : a \in Attempts(obs)}
LatestReceipts(obs) ==
    {Newest(Receipts(obs, obs[i].delivery)) : i \in At(obs, "receipt_observed")}
Rejected(obs) == {r \in LatestReceipts(obs) : r.status = "rejected"}
SettledReceipts(obs) == {r \in LatestReceipts(obs) : r.status = "settled"}
SafetyFailure(obs) == AssertSafety(obs) # "ok"
MatchingSafetyFailure(obs, faults) == AssertSafety(obs) \in faults

\* Every delivery was rejected with its inputs seen unspent.
PreRedemptionRejection(obs) ==
    /\ Attempts(obs) # {}
    /\ \A a \in Attempts(obs) :
         /\ a.delivery \in {r.delivery : r \in Rejected(obs)}
         /\ \E i \in At(obs, "mint_proofs_state") :
               obs[i].proofs = a.proofs /\ obs[i].state = "UNSPENT"

AtMostOnceRedemptionStart(obs) ==
    LET starts == At(obs, "redemption_started")
    IN  Evaluated(Attempts(obs) # {} /\ ~(starts = {} /\ PreRedemptionRejection(obs)),
                  starts # {},
                  \E i, j \in starts : i # j /\ obs[i].delivery = obs[j].delivery)

AtMostOneCreditPerRequest(obs) ==
    LET credits == At(obs, "merchant_credited")
        single == \E i \in At(obs, "request_observed") : obs[i].singleUse
    IN  Evaluated(single /\ ~(credits = {} /\ PreRedemptionRejection(obs)),
                  credits # {},
                  Cardinality(credits) > 1)

AtMostOneCreditPerDelivery(obs) ==
    LET credits == At(obs, "merchant_credited")
    IN  Evaluated(Attempts(obs) # {} /\ ~(credits = {} /\ PreRedemptionRejection(obs)),
                  credits # {},
                  \E i, j \in credits : i # j /\ obs[i].delivery = obs[j].delivery)

ProofSetExclusivity(obs) ==
    Evaluated(Attempts(obs) # {}, TRUE,
              \E a, b \in Attempts(obs) : a.proofs = b.proofs /\ a.delivery # b.delivery)

DeliveryIdentityImmutability(obs) ==
    Evaluated(Attempts(obs) # {}, TRUE, MatchingSafetyFailure(obs, {"delivery_identity"}))

CreditsFor(obs, r) == {obs[i] : i \in Having(obs, "merchant_credited", r.delivery)}
OneCredit(obs, r) == Cardinality(Having(obs, "merchant_credited", r.delivery)) = 1

ExactNetAmount(obs) ==
    Evaluated(SettledReceipts(obs) # {},
              At(obs, "merchant_credited") # {},
              \E r \in SettledReceipts(obs) :
                 \/ ~OneCredit(obs, r)
                 \/ \E c \in CreditsFor(obs, r) : c.amount # r.amount)

NoPrematureSettlement(obs) ==
    Evaluated(SettledReceipts(obs) # {}, TRUE,
              \E r \in SettledReceipts(obs) :
                 \/ Having(obs, "receiver_settled", r.delivery) = {}
                 \/ ~OneCredit(obs, r))

\* A crash armed at the receiver while the mint may already have answered.
AmbiguousReceiverCrash(commands) ==
    \E i \in DOMAIN commands :
       /\ commands[i].type = "arm_crash"
       /\ commands[i].component = "receiver"
       /\ commands[i].ambiguous

RelevantProofs(obs) ==
    LET bound == {r \in Rejected(obs) : r.delivery \in Tried(obs)}
        relevant == {r.delivery : r \in IF bound # {} THEN bound ELSE LatestReceipts(obs)}
    IN  {a.proofs : a \in {b \in Attempts(obs) : b.delivery \in relevant}}

NoFalseRejection(obs, commands) ==
    LET crash == AmbiguousReceiverCrash(commands)
        bound == \E r \in Rejected(obs) : r.delivery \in Tried(obs)
    IN  IF ~crash /\ ~bound THEN "not_applicable"
        ELSE IF crash /\ Rejected(obs) # {} THEN "failed"
        ELSE IF \/ At(obs, "receipt_observed") = {}
                \/ ~\E i \in At(obs, "mint_proofs_state") :
                       obs[i].proofs \in RelevantProofs(obs)
        THEN "not_observable"
        ELSE Verdict(MatchingSafetyFailure(obs, {"rejected_consumed"}))

MonotonicReceipts(obs) ==
    Evaluated(At(obs, "receipt_observed") # {}, TRUE,
              MatchingSafetyFailure(obs, {"receipt_version", "receipt_conflict",
                                          "terminal_regressed"}))

Duplicates(obs) == \E d \in Tried(obs) : AttemptCount(obs, d) > 1

StableDuplicateResponse(obs) ==
    Evaluated(Duplicates(obs),
              At(obs, "receipt_observed") # {},
              MatchingSafetyFailure(obs, {"delivery_identity", "credit_identity",
                                          "credit_count", "request_credit",
                                          "settled_unbacked", "redemption_twice",
                                          "receipt_conflict"}))

HasCommand(commands, types) == \E i \in DOMAIN commands : commands[i].type \in types

EventualTerminalOrRecovery(model, commands) ==
    Evaluated(/\ HasCommand(commands, {"assert_quiescent"})
              /\ Attempts(model.observations) # {},
              TRUE,
              AssertQuiescentLiveness(model) # "ok")

CrashRecovery(obs, commands) ==
    Evaluated(HasCommand(commands, {"restart", "arm_crash"}),
              At(obs, "receipt_observed") # {} /\ At(obs, "merchant_credited") # {},
              SafetyFailure(obs))

RetryConvergence(obs, commands) ==
    Evaluated(\/ Duplicates(obs)
              \/ \E i \in DOMAIN commands :
                    /\ commands[i].type = "configure_fault"
                    /\ commands[i].target \in {"http", "nostr"}
                    /\ commands[i].kind \in {"drop_request", "drop_response", "duplicate"},
              At(obs, "receipt_observed") # {},
              SafetyFailure(obs))

TransportConvergence(obs) ==
    Evaluated(\E a, b \in Attempts(obs) : a.delivery = b.delivery /\ a.transport # b.transport,
              At(obs, "receipt_observed") # {},
              SafetyFailure(obs))

IndependentMintEvidence(obs) ==
    Evaluated(Attempts(obs) # {}, At(obs, "mint_proofs_state") # {}, FALSE)

IndependentLedgerEvidence(obs) ==
    Evaluated(SettledReceipts(obs) # {}, At(obs, "merchant_credited") # {}, FALSE)

\* A scenario id, a seed, component versions and a history in order.
Reproducibility(invoked) == Evaluated(TRUE, invoked > 0, FALSE)

\* Both roles declare the profile that was run.
NoUnsupportedPass(declared) == Verdict(~declared)

EvaluateInvariants(model, commands, invoked, declared) ==
    LET obs == model.observations
    IN  <<AtMostOnceRedemptionStart(obs), AtMostOneCreditPerRequest(obs),
          AtMostOneCreditPerDelivery(obs), ProofSetExclusivity(obs),
          DeliveryIdentityImmutability(obs), ExactNetAmount(obs),
          NoPrematureSettlement(obs), NoFalseRejection(obs, commands),
          MonotonicReceipts(obs), StableDuplicateResponse(obs),
          EventualTerminalOrRecovery(model, commands), CrashRecovery(obs, commands),
          RetryConvergence(obs, commands), TransportConvergence(obs),
          IndependentMintEvidence(obs), IndependentLedgerEvidence(obs),
          Reproducibility(invoked), NoUnsupportedPass(declared)>>
=============================================================================
