---------------------------- MODULE ReleaseGate ----------------------------
(***************************************************************************)
(* The compatibility matrix and its release gate (scenario-runner's         *)
(* matrix.ts, external-pair.ts and release-policy.ts, driven by lab-cli's   *)
(* packaged-runtime.ts): each pair of registered adapters pays once as a    *)
(* probe and then runs every scenario of the release suite; the gate counts *)
(* the pairs whose evidence meets the policy.                               *)
(*                                                                          *)
(* The adapters are external: what a sender answers, whether the receiver   *)
(* credited meanwhile and how a scenario ends are chosen freely.  What a    *)
(* receiver's ledger says is taken to be what it credited.  A scenario run  *)
(* itself is the subject of ScenarioRunner.  The suite is the one the       *)
(* policy names: the command stops before the matrix when it is not.        *)
(***************************************************************************)
EXTENDS Integers, Sequences, FiniteSets, FiniteSetsExt, SequencesExt

CONSTANTS
    Fleets,      \* [adapters, suite, policy, minimum]: what is registered and asked for
    MaxAttempts, \* sends of one probe
    Outcomes     \* [status, invariants]: how a scenario run can end

VARIABLES
    fleet,
    case,        \* position in the matrix
    stage,       \* of the pair at hand: 0 before, -1 sending, -2 sent, then the suite index
    tries,       \* sends of the probe at hand
    scenarios,   \* the evidence of the pair at hand
    results,     \* one per pair, in order
    gate,        \* "open", "passed" or "failed"
    truth        \* pair -> what really happened (never read by the code)

ASSUME FleetAssumption ==
    \A f \in Fleets :
        /\ Len(f.adapters) \in Nat
        /\ Len(f.suite) \in Nat /\ DOMAIN f.suite = 1..Len(f.suite)
        /\ f.policy.pairs \in Nat

gateVars == <<fleet, case, stage, tries, scenarios, results, gate, truth>>

(***************************************************************************)
(* An adapter is [id, build, implementation, language, development,         *)
(* compatible, roles, mints, durability, tier].                             *)
(***************************************************************************)
Size == Len(fleet.adapters)
Pair(n) == [sender |-> fleet.adapters[((n - 1) \div Size) + 1],
            receiver |-> fleet.adapters[((n - 1) % Size) + 1]]
Cases == 1..(Size * Size)
Parties(p) == {p.sender, p.receiver}
Untried == [probed |-> FALSE, credits |-> 0, runs |-> <<>>]

GateInit ==
    /\ fleet \in Fleets
    /\ case = 1 /\ stage = 0 /\ tries = 0
    /\ scenarios = <<>> /\ results = <<>>
    /\ gate = "open"
    /\ truth = [n \in Cases |-> Untried]

Conclude(status, suite) ==
    /\ results' = Append(results, [pair |-> Pair(case), status |-> status, scenarios |-> suite,
                                   mints |-> Pair(case).sender.mints \cap Pair(case).receiver.mints])
    /\ case' = case + 1
    /\ stage' = 0 /\ tries' = 0
    /\ scenarios' = <<>>

(***************************************************************************)
(* The matrix.                                                              *)
(***************************************************************************)

Compatible(p) == \A a \in Parties(p) : a.compatible
Declared(p) == "sender" \in p.sender.roles /\ "receiver" \in p.receiver.roles
Excluded(p) == ~Compatible(p) \/ ~Declared(p)

\* A pair that is not tried: incompatible adapters fail, undeclared roles do not apply.
Exclude ==
    /\ gate = "open" /\ case \in Cases /\ stage = 0
    /\ Excluded(Pair(case))
    /\ Conclude(IF Compatible(Pair(case)) THEN "not_applicable" ELSE "failed", <<>>)
    /\ UNCHANGED <<fleet, gate, truth>>

(***************************************************************************)
(* The probe: one payment, sent again under the same delivery id after an   *)
(* error, and then judged by the receiver's receipt, ledger and proofs.     *)
(***************************************************************************)

StartProbe ==
    /\ gate = "open" /\ case \in Cases /\ stage = 0
    /\ ~Excluded(Pair(case))
    /\ stage' = -1
    /\ truth' = [truth EXCEPT ![case].probed = TRUE]
    /\ UNCHANGED <<fleet, case, tries, scenarios, results, gate>>

\* A send returns a receipt or an error; either way the receiver may have credited.
SendProbe(answer, credits) ==
    /\ gate = "open" /\ stage = -1
    /\ truth' = [truth EXCEPT ![case].credits = @ + credits]
    /\ IF answer = "receipt" THEN stage' = -2 /\ UNCHANGED <<case, tries, scenarios, results>>
       ELSE IF tries + 1 < MaxAttempts
            THEN tries' = tries + 1 /\ UNCHANGED <<case, stage, scenarios, results>>
            ELSE Conclude("failed", <<>>)
    /\ UNCHANGED <<fleet, gate>>

\* An adapter that refuses makes the pair not applicable; any other exception fails it.
ProbeThrows(status) ==
    /\ gate = "open" /\ stage \in {-1, -2}
    /\ Conclude(status, <<>>)
    /\ UNCHANGED <<fleet, gate, truth>>

\* A form of ExactlyOneCredit that is content with the credit of either send.
SomeCredit == truth[case].credits > 0

ExactlyOneCredit == truth[case].credits = 1

\* The receipts agree and settle, there is one credit, and its proofs are spent.
JudgeProbe(same, settled, spent) ==
    /\ gate = "open" /\ stage = -2
    /\ IF same /\ settled /\ ExactlyOneCredit /\ spent
       THEN stage' = 1 /\ UNCHANGED <<case, tries, scenarios, results>>
       ELSE Conclude("failed", <<>>)
    /\ UNCHANGED <<fleet, gate, truth>>

(***************************************************************************)
(* The release suite.                                                       *)
(***************************************************************************)

Entry == fleet.suite[stage]
Durable(p) == p.sender.durability >= Entry.durability /\ p.receiver.durability >= Entry.durability
Evidence(status, invariants) ==
    [id |-> Entry.id, status |-> status, required |-> Entry.required, invariants |-> invariants]

\* A passed run counts only if each required invariant passed in it.
SuiteEvidence(o) ==
    LET accepted == \A i \in Entry.required :
                       i \in DOMAIN o.invariants /\ o.invariants[i].status = "passed"
    IN  IF o.status = "passed" /\ accepted THEN Evidence("passed", o.invariants)
        ELSE IF o.status = "not_applicable" THEN Evidence("not_applicable", <<>>)
        ELSE Evidence("failed", o.invariants)

RunScenario(o) ==
    /\ gate = "open" /\ stage \in DOMAIN fleet.suite
    /\ Durable(Pair(case)) /\ Entry.logical
    /\ scenarios' = Append(scenarios, SuiteEvidence(o))
    /\ truth' = [truth EXCEPT ![case].runs = Append(@, o)]
    /\ stage' = stage + 1
    /\ UNCHANGED <<fleet, case, tries, results, gate>>

\* A scenario that is not run: too little durability, or no single sender and request.
SkipScenario ==
    /\ gate = "open" /\ stage \in DOMAIN fleet.suite
    /\ ~(Durable(Pair(case)) /\ Entry.logical)
    /\ scenarios' = Append(scenarios,
                         Evidence(IF Durable(Pair(case)) THEN "failed" ELSE "not_applicable", <<>>))
    /\ stage' = stage + 1
    /\ UNCHANGED <<fleet, case, tries, results, gate, truth>>

\* A pair passes if every scenario of the suite did.
FinishPair ==
    /\ gate = "open" /\ stage = Len(fleet.suite) + 1
    /\ Conclude(IF \A i \in DOMAIN scenarios : scenarios[i].status = "passed"
                 THEN "passed" ELSE "failed", scenarios)
    /\ UNCHANGED <<fleet, gate, truth>>

(***************************************************************************)
(* The gate.                                                                *)
(***************************************************************************)

StatusRank == [passed |-> 0, not_applicable |-> 1, not_observable |-> 2, failed |-> 3]
ConfidenceRank == [observed |-> 0, derived |-> 1, adapter_claimed |-> 2]
Ranked(rank, n) == CHOOSE name \in DOMAIN rank : rank[name] = n
Missing == [status |-> "not_observable", confidence |-> "derived"]

\* The weakest status and the weakest confidence an invariant has anywhere.
AggregateReleaseSuiteInvariants(suite) ==
    LET seen(i) == {IF i \in DOMAIN s.invariants THEN s.invariants[i] ELSE Missing :
                       s \in {t \in ToSet(suite) : i \in t.required}}
    IN  [i \in UNION {s.required : s \in ToSet(suite)} |->
            [status |-> Ranked(StatusRank, Max({StatusRank[r.status] : r \in seen(i)})),
             confidence |-> Ranked(ConfidenceRank,
                                   Max({ConfidenceRank[r.confidence] : r \in seen(i)}))]]

Accepted(policy, invariants, i) ==
    /\ i \in DOMAIN invariants
    /\ invariants[i].status = "passed"
    /\ invariants[i].confidence \in policy.confidence

\* Which of the policy's demands on the adapters a pair misses.
PairingReasons(policy, p) ==
    {reason \in {"development", "implementation", "language", "build", "sender_tier",
                 "receiver_tier"} :
        CASE reason = "development" -> \E a \in Parties(p) : a.development
          [] reason = "implementation" ->
               policy.crossImplementation /\ p.sender.implementation = p.receiver.implementation
          [] reason = "language" -> policy.crossLanguage /\ p.sender.language = p.receiver.language
          [] reason = "build" -> policy.distinctBuilds /\ p.sender.build = p.receiver.build
          [] reason = "sender_tier" -> p.sender.tier < policy.senderTier
          [] reason = "receiver_tier" -> p.receiver.tier < policy.receiverTier}

\* Which required scenarios and invariants lack acceptable evidence.
EvidenceReasons(policy, r) ==
    LET named(id) == {k \in DOMAIN r.scenarios : r.scenarios[k].id = id}
        pair == AggregateReleaseSuiteInvariants(r.scenarios)
        lacking(s) == s.status # "passed" \/ \E i \in s.required : ~Accepted(policy, s.invariants, i)
    IN  {id \in policy.scenarios :
            Cardinality(named(id)) # 1 \/ \E k \in named(id) : lacking(r.scenarios[k])}
        \cup {i \in policy.invariants : ~Accepted(policy, pair, i)}

PairReasons(policy, r) ==
    PairingReasons(policy, r.pair) \cup EvidenceReasons(policy, r)
    \cup (IF r.mints = {} THEN {"mint_identity"} ELSE {})

\* What distinguishes the evidence of two pairs: sources, builds and mints.
ProvenanceKey(r) == <<r.pair.sender.build, r.pair.receiver.build, r.mints>>

EvaluateReleasePolicy(policy, cases) ==
    LET passed == {i \in DOMAIN cases : cases[i].status = "passed"}
        clean == {i \in passed : PairReasons(policy, cases[i]) = {}}
        alias == {i \in clean : \E j \in clean :
                     j < i /\ ProvenanceKey(cases[j]) = ProvenanceKey(cases[i])}
        qualifying == clean \ alias
    IN  /\ clean = passed
        /\ alias = {}
        /\ Cardinality(qualifying) >= policy.pairs
        /\ Cardinality(UNION {cases[i].mints : i \in qualifying}) >= policy.mints

\* The command fails on a failed pair and on too few passed ones as well as on a closed gate.
Decide ==
    /\ gate = "open" /\ case \notin Cases
    /\ gate' = IF /\ \A i \in DOMAIN results : results[i].status # "failed"
                  /\ EvaluateReleasePolicy(fleet.policy, results)
                  /\ Cardinality({i \in DOMAIN results : results[i].status = "passed"})
                        >= fleet.minimum
               THEN "passed" ELSE "failed"
    /\ UNCHANGED <<fleet, case, stage, tries, scenarios, results, truth>>

GateNext ==
    \/ Exclude
    \/ StartProbe
    \/ \E answer \in {"receipt", "error"}, credits \in {0, 1} : SendProbe(answer, credits)
    \/ \E status \in {"not_applicable", "failed"} : ProbeThrows(status)
    \/ \E same, settled, spent \in BOOLEAN : JudgeProbe(same, settled, spent)
    \/ \E o \in Outcomes : RunScenario(o)
    \/ SkipScenario \/ FinishPair \/ Decide

GateSpec == GateInit /\ [][GateNext]_gateVars

Builds(n) == <<Pair(n).sender.build, Pair(n).receiver.build,
               Pair(n).sender.mints \cap Pair(n).receiver.mints>>
Earned(n) ==
    /\ truth[n].credits = 1
    /\ Len(truth[n].runs) = Len(fleet.suite)
    /\ \A k \in DOMAIN fleet.suite :
         fleet.suite[k].id \in fleet.policy.scenarios =>
            /\ truth[n].runs[k].status = "passed"
            /\ \A i \in fleet.suite[k].required :
                 /\ truth[n].runs[k].invariants[i].status = "passed"
                 /\ truth[n].runs[k].invariants[i].confidence \in fleet.policy.confidence

(***************************************************************************)
(* A release gate that passes rests on enough independent evidence: there   *)
(* are as many pairs as the policy asks for, no two of them the same builds *)
(* at the same mints, each of which credited its probe exactly once and     *)
(* passed every scenario the policy requires, with each invariant required  *)
(* of them found to hold; and every pair reported as passed is such a pair  *)
(* (release-policy.ts:214-434, packaged-runtime.ts:866-952, index.ts:849).  *)
(***************************************************************************)
GatePassedIsEarned ==
    gate = "passed" =>
        /\ Cardinality({Builds(n) : n \in {m \in Cases : Earned(m)}}) >= fleet.policy.pairs
        /\ \A n \in Cases : results[n].status = "passed" => Earned(n)
=============================================================================
