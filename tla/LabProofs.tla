----------------------------- MODULE LabProofs ------------------------------
(***************************************************************************)
(* The laboratory around the payment.  The minimizer of failed scenarios,  *)
(* for artifacts of any length and any deterministic driver; and the       *)
(* release gate, for any adapters, suite and policy.                       *)
(***************************************************************************)
EXTENDS FailureMinimizer, ReleaseGate, TLAPS, FiniteSetTheorems, SequenceTheorems

USE ZenonT(10), SMTT(15), Z3T(15)

-----------------------------------------------------------------------------
(* The minimizer.                                                            *)

\* What the loop has established so far: the commands kept reproduce the
\* failure, unless they are still all, and none of those already passed over
\* can be dropped.
PassedOver ==
    \A c \in kept : Cardinality(Before(c)) < index => fails[kept \ {c}] # "same"

SearchInv ==
    /\ kept \subseteq Commands /\ index \in Nat
    /\ kept = Commands \/ fails[kept] = "same"
    /\ PassedOver
    /\ MinimizedIsMinimal

-----------------------------------------------------------------------------
LEMMA CommandsFinite ==
    /\ IsFiniteSet(Commands)
    /\ \A c \in Commands : c \in Int
<1>1. 1 \in Int /\ Length \in Int
  BY LengthAssumption
<1>2. IsFiniteSet(Commands)
  BY <1>1, FS_Interval DEF Commands
<1> QED BY <1>1, <1>2 DEF Commands

\* The commands kept, and those before one of them, can be counted.
LEMMA KeptIsFinite ==
    ASSUME kept \subseteq Commands, NEW c \in kept
    PROVE  /\ IsFiniteSet(kept) /\ Cardinality(kept) \in Nat
           /\ IsFiniteSet(Before(c)) /\ Cardinality(Before(c)) \in Nat
           /\ Cardinality(Before(c)) < Cardinality(kept)
<1>1. IsFiniteSet(kept) /\ Cardinality(kept) \in Nat
  BY CommandsFinite, FS_Subset, FS_CardinalityType
<1>2. Before(c) \subseteq kept /\ c \notin Before(c)
  <2>1. c \in Int BY CommandsFinite
  <2> QED BY <2>1 DEF Before
<1>3. Before(c) # kept
  BY <1>2
<1>4. IsFiniteSet(Before(c)) /\ Cardinality(Before(c)) \in Nat
  BY <1>1, <1>2, FS_Subset, FS_CardinalityType
<1>5. Cardinality(Before(c)) < Cardinality(kept)
  BY <1>1, <1>2, <1>3, <1>4, FS_Subset, SMT
<1> QED BY <1>1, <1>4, <1>5

\* A command is determined by the number of those before it.
LEMMA OneCommandPerIndex ==
    ASSUME kept \subseteq Commands, NEW c \in kept, NEW e \in kept, c < e
    PROVE  Cardinality(Before(c)) < Cardinality(Before(e))
<1>1. c \in Int /\ e \in Int
  BY CommandsFinite
<1>2. Before(c) \subseteq Before(e) /\ c \in Before(e) /\ c \notin Before(c)
  <2>1. ASSUME NEW d \in kept, d < c PROVE d < e
    <3>1. d \in Int BY CommandsFinite
    <3> QED BY <1>1, <2>1, <3>1, SMT
  <2>2. ~(c < c)
    BY <1>1, SMT
  <2> QED BY <2>1, <2>2 DEF Before
<1>3. IsFiniteSet(Before(e)) /\ Cardinality(Before(e)) \in Nat /\ Cardinality(Before(c)) \in Nat
  BY KeptIsFinite
<1>4. Before(c) # Before(e)
  BY <1>2
<1> QED BY <1>2, <1>3, <1>4, FS_Subset, SMT

\* The command tried at an index is the one with that many before it.
LEMMA NthIsUnique ==
    ASSUME kept \subseteq Commands, NEW c \in kept
    PROVE  Nth(Cardinality(Before(c))) = c
<1> DEFINE e == Nth(Cardinality(Before(c)))
<1>1. e \in kept /\ Cardinality(Before(e)) = Cardinality(Before(c))
  BY DEF Nth
<1>2. c \in Int /\ e \in Int
  BY <1>1, CommandsFinite
<1>3. Cardinality(Before(c)) \in Nat
  BY KeptIsFinite
<1>4. ~(c < e)
  BY <1>1, <1>3, OneCommandPerIndex, SMT
<1>5. ~(e < c)
  BY <1>1, <1>3, OneCommandPerIndex, SMT
<1> QED BY <1>2, <1>4, <1>5, SMT

-----------------------------------------------------------------------------
LEMMA SearchInit == MinimizerInit => SearchInv
<1> SUFFICES ASSUME MinimizerInit PROVE SearchInv
  OBVIOUS
<1>1. kept \subseteq Commands /\ index = 0 /\ kept = Commands /\ ended = "no"
  BY DEF MinimizerInit
<1>2. PassedOver
  BY <1>1, KeptIsFinite, SMT DEF PassedOver
<1> QED BY <1>1, <1>2, SMT DEF SearchInv, MinimizedIsMinimal

\* A candidate that still fails in the same way: its commands are kept, and the
\* search starts over.
LEMMA CandidateFails ==
    ASSUME SearchInv, ended' = ended, ended = "no", fails' = fails,
           NEW c, kept' = kept \ {c}, index' = 0, fails[kept \ {c}] = "same"
    PROVE  SearchInv'
<1>1. kept' \subseteq Commands /\ index' \in Nat /\ fails'[kept'] = "same"
  BY DEF SearchInv
<1>2. \A e \in kept' : Cardinality(Before(e)') \in Nat
  <2> SUFFICES ASSUME NEW e \in kept' PROVE Cardinality(Before(e)') \in Nat
    OBVIOUS
  <2>1. Before(e)' \subseteq Commands
    BY <1>1 DEF Before
  <2> QED BY <2>1, CommandsFinite, FS_Subset, FS_CardinalityType
<1>3. PassedOver'
  BY <1>2, SMT DEF PassedOver
<1> QED BY <1>1, <1>3 DEF SearchInv, MinimizedIsMinimal

\* A candidate that does not: its command has been passed over.
LEMMA CandidateDiffers ==
    ASSUME SearchInv, ended' = ended, ended = "no", fails' = fails, kept' = kept,
           index' = index + 1, fails[kept \ {Nth(index)}] # "same"
    PROVE  SearchInv'
<1>1. kept \subseteq Commands /\ index \in Nat
  BY DEF SearchInv
<1>2. ASSUME NEW c \in kept, Cardinality(Before(c)) < index + 1
      PROVE  fails[kept \ {c}] # "same"
  <2>1. Cardinality(Before(c)) \in Nat
    BY <1>1, KeptIsFinite
  <2>2. CASE Cardinality(Before(c)) < index
    BY <2>2 DEF SearchInv, PassedOver
  <2>3. CASE Cardinality(Before(c)) = index
    BY <1>1, <2>3, NthIsUnique
  <2> QED BY <1>1, <1>2, <2>1, <2>2, <2>3, SMT
<1>3. PassedOver'
  BY <1>2 DEF PassedOver, Before
<1> QED BY <1>1, <1>3, SMT DEF SearchInv, MinimizedIsMinimal

LEMMA SearchNext == SearchInv /\ [MinimizerNext]_minimizerVars => SearchInv'
<1> SUFFICES ASSUME SearchInv, [MinimizerNext]_minimizerVars PROVE SearchInv'
  OBVIOUS
<1>1. CASE Refuse
  BY <1>1 DEF Refuse, SearchInv, PassedOver, Before, MinimizedIsMinimal
<1>2. CASE Replay
  <2>1. ended' # "minimized"
    BY <1>2 DEF Replay
  <2> QED BY <1>2, <2>1 DEF Replay, SearchInv, PassedOver, Before, MinimizedIsMinimal
<1>3. CASE Minimize
  <2>1. CASE fails[kept \ {Nth(index)}] = "same"
    BY <1>3, <2>1, CandidateFails DEF Minimize
  <2>2. CASE fails[kept \ {Nth(index)}] # "same"
    BY <1>3, <2>2, CandidateDiffers DEF Minimize
  <2> QED BY <2>1, <2>2
<1>4. CASE Minimized
  <2>1. \A c \in kept : Cardinality(Before(c)) < index
    <3>1. kept \subseteq Commands /\ index \in Nat
      BY DEF SearchInv
    <3> QED BY <1>4, <3>1, KeptIsFinite, SMT DEF Minimized
  <2>2. \A c \in kept : fails[kept \ {c}] # "same"
    BY <2>1 DEF SearchInv, PassedOver
  <2> QED BY <1>4, <2>2 DEF Minimized, SearchInv, PassedOver, Before, MinimizedIsMinimal
<1>5. CASE UNCHANGED minimizerVars
  BY <1>5 DEF minimizerVars, SearchInv, PassedOver, Before, MinimizedIsMinimal
<1> QED BY <1>1, <1>2, <1>3, <1>4, <1>5 DEF MinimizerNext

-----------------------------------------------------------------------------
\* minimizeLifecycleFailure returns, for an artifact of any length and whatever
\* its subsets of commands do, commands that reproduce the failure (unless the
\* artifact itself does not), none of which can be dropped.
THEOREM MinimizedTheorem == MinimizerSpec => []MinimizedIsMinimal
<1>1. SearchInv => MinimizedIsMinimal
  BY DEF SearchInv
<1> QED BY <1>1, SearchInit, SearchNext, PTL DEF MinimizerSpec

-----------------------------------------------------------------------------
(* The release gate.                                                         *)

IsSequence(s) == s \in Seq({s[i] : i \in DOMAIN s})
Truths == [probed : BOOLEAN, credits : Nat, runs : Seq(Outcomes)]
SuiteSize == Len(fleet.suite)
Stages == {0, -1, -2} \cup 1..(SuiteSize + 1)

GateTypeOK ==
    /\ fleet \in Fleets
    /\ gate \in {"open", "passed", "failed"}
    /\ case \in Nat /\ 1 <= case /\ case <= Size * Size + 1
    /\ IsSequence(results) /\ Len(results) = case - 1
    /\ stage \in Stages /\ (stage # 0 => case \in Cases)
    /\ IsSequence(scenarios)
    /\ truth \in [Cases -> Truths]

(***************************************************************************)
(* The evidence of a pair tells what happened.  It does so only while      *)
(* everything passes: a scenario that was not run leaves evidence and no   *)
(* run, and from then on the two no longer correspond.                     *)
(***************************************************************************)
Found(k, o) ==
    /\ o.status = "passed"
    /\ \A i \in fleet.suite[k].required :
         i \in DOMAIN o.invariants /\ o.invariants[i].status = "passed"
Tells(t, shown) ==
    /\ Len(t.runs) = Len(shown)
    /\ \A k \in 1..Len(shown) :
         /\ shown[k].id = fleet.suite[k].id
         /\ shown[k].required = fleet.suite[k].required
         /\ shown[k].status = "passed"
         /\ shown[k].invariants = t.runs[k].invariants
         /\ Found(k, t.runs[k])
AllPassed(shown) == \A k \in 1..Len(shown) : shown[k].status = "passed"

\* The pair at hand: nothing ran before its suite, and its suite starts with
\* one credit.
CurrentOK ==
    /\ stage <= 0 => scenarios = <<>>
    /\ case \in Cases /\ stage <= 0 => truth[case].runs = <<>>
    /\ stage > 0 =>
         /\ truth[case].credits = 1
         /\ Len(scenarios) = stage - 1
         /\ AllPassed(scenarios) => Tells(truth[case], scenarios)
    /\ \A n \in Cases : n > case => truth[n] = Untried
    /\ case \in Cases /\ stage = 0 => truth[case] = Untried

\* A pair that is concluded.
PairOK(n) ==
    /\ results[n].pair = Pair(n)
    /\ results[n].mints = Pair(n).sender.mints \cap Pair(n).receiver.mints
    /\ results[n].status = "passed" =>
         /\ truth[n].credits = 1
         /\ IsSequence(results[n].scenarios) /\ Len(results[n].scenarios) = SuiteSize
         /\ Tells(truth[n], results[n].scenarios)

GateInv ==
    /\ GateTypeOK
    /\ CurrentOK
    /\ \A n \in 1..Len(results) : PairOK(n)
    /\ gate = "passed" => case \notin Cases /\ EvaluateReleasePolicy(fleet.policy, results)
LEMMA Squares == \A m \in Nat : m * m \in Nat
OBVIOUS

\* What the proofs need of a fleet.
LEMMA FleetFacts ==
  ASSUME GateTypeOK
  PROVE  /\ SuiteSize \in Nat /\ DOMAIN fleet.suite = 1..SuiteSize
         /\ Size \in Nat /\ Size * Size \in Nat
         /\ Cases = 1..(Size * Size)
         /\ case \in Cases <=> case <= Size * Size
         /\ fleet.policy.pairs \in Nat
<1>1. /\ Len(fleet.adapters) \in Nat
      /\ Len(fleet.suite) \in Nat /\ DOMAIN fleet.suite = 1..Len(fleet.suite)
      /\ fleet.policy.pairs \in Nat
  BY FleetAssumption DEF GateTypeOK
<1>2. Size * Size \in Nat
  BY <1>1, Squares DEF Size
<1>3. case \in Nat /\ 1 <= case
  BY DEF GateTypeOK
<1>4. \A m \in Nat : case \in 1..m <=> case <= m
  BY <1>3
<1> QED BY <1>1, <1>2, <1>4 DEF SuiteSize, Size, Cases

\* A sequence with one more element.
LEMMA Appended ==
  ASSUME NEW s, IsSequence(s), NEW e
  PROVE  /\ IsSequence(Append(s, e)) /\ Len(s) \in Nat
         /\ Len(Append(s, e)) = Len(s) + 1
         /\ \A i \in 1..Len(s) : Append(s, e)[i] = s[i]
         /\ Append(s, e)[Len(s) + 1] = e
<1> DEFINE S == {s[i] : i \in DOMAIN s} \cup {e}
           t == Append(s, e)
<1>1. s \in Seq(S) /\ e \in S
  BY DEF IsSequence
<1>2. /\ t \in Seq(S) /\ Len(t) = Len(s) + 1
      /\ \A i \in 1..Len(s) : t[i] = s[i]
      /\ t[Len(s) + 1] = e
  BY <1>1, AppendProperties
<1>3. Len(s) \in Nat /\ Len(t) \in Nat
  BY <1>1, <1>2
<1>4. t \in [1..Len(t) -> S] /\ DOMAIN t = 1..Len(t)
  BY <1>2, LenProperties
<1>5. t \in [1..Len(t) -> {t[i] : i \in DOMAIN t}]
  BY <1>4
<1> HIDE DEF t
<1>6. \A T : t \in [1..Len(t) -> T] => t \in Seq(T)
  BY <1>3, SeqDef
<1>7. t \in Seq({t[i] : i \in DOMAIN t})
  BY <1>5, <1>6
<1> QED BY <1>2, <1>3, <1>7 DEF IsSequence, t

LEMMA NoneYet == IsSequence(<<>>) /\ Len(<<>>) = 0
<1>1. <<>> \in Seq({<<>>[i] : i \in DOMAIN <<>>}) /\ Len(<<>>) = 0
  BY EmptySeq
<1> QED BY <1>1 DEF IsSequence

\* Steps that leave the fleet alone leave alone what is derived from it.
LEMMA SameFleet ==
  ASSUME fleet' = fleet
  PROVE  /\ Cases' = Cases /\ Size' = Size /\ SuiteSize' = SuiteSize /\ Stages' = Stages
         /\ \A n : (Pair(n))' = Pair(n)
         /\ \A t, shown : (Tells(t, shown))' <=> Tells(t, shown)
<1>1. Size' = Size /\ SuiteSize' = SuiteSize
  BY DEF Size, SuiteSize
<1>2. Cases' = Cases /\ Stages' = Stages
  BY <1>1 DEF Cases, Stages
<1>3. \A n : (Pair(n))' = Pair(n)
  BY <1>1 DEF Pair
<1>4. \A t, shown : (Tells(t, shown))' <=> Tells(t, shown)
  BY DEF Tells, Found
<1> QED BY <1>1, <1>2, <1>3, <1>4

\* A pair that was concluded stays as it is while its evidence and what
\* happened in it do.
LEMMA PairKept ==
  ASSUME fleet' = fleet, NEW n, PairOK(n), results'[n] = results[n], truth'[n] = truth[n]
  PROVE  PairOK(n)'
<1>1. /\ SuiteSize' = SuiteSize /\ (Pair(n))' = Pair(n)
      /\ \A t, shown : (Tells(t, shown))' <=> Tells(t, shown)
  BY SameFleet
<1> QED BY <1>1 DEF PairOK

(***************************************************************************)
(* Concluding a pair, whatever its status: nothing may have happened in    *)
(* any other pair, and a passed one must have been earned.                 *)
(***************************************************************************)
LEMMA Concludes ==
  ASSUME GateInv, gate = "open", gate' = gate, fleet' = fleet, case \in Cases,
         NEW status, NEW suite, Conclude(status, suite),
         truth' \in [Cases -> Truths],
         \A n \in Cases \ {case} : truth'[n] = truth[n],
         status = "passed" => /\ truth'[case].credits = 1
                              /\ IsSequence(suite) /\ Len(suite) = SuiteSize
                              /\ Tells(truth'[case], suite)
  PROVE  GateInv'
<1> DEFINE entry == [pair |-> Pair(case), status |-> status, scenarios |-> suite,
                     mints |-> Pair(case).sender.mints \cap Pair(case).receiver.mints]
<1>0. /\ results' = Append(results, entry) /\ case' = case + 1 /\ stage' = 0
      /\ scenarios' = <<>>
  BY DEF Conclude
<1>1. /\ Cases' = Cases /\ Size' = Size /\ SuiteSize' = SuiteSize /\ Stages' = Stages
      /\ \A n : (Pair(n))' = Pair(n)
      /\ \A t, shown : (Tells(t, shown))' <=> Tells(t, shown)
  BY SameFleet
<1>2. /\ GateTypeOK /\ CurrentOK /\ \A n \in 1..Len(results) : PairOK(n)
      /\ SuiteSize \in Nat /\ Size * Size \in Nat /\ Cases = 1..(Size * Size)
  BY FleetFacts DEF GateInv
<1>3. case \in Nat /\ 1 <= case /\ case <= Size * Size /\ Len(results) = case - 1
  BY <1>2 DEF GateTypeOK
<1>4. /\ IsSequence(results') /\ Len(results') = Len(results) + 1
      /\ \A i \in 1..Len(results) : results'[i] = results[i]
      /\ results'[Len(results) + 1] = entry
  BY <1>0, <1>2, Appended DEF GateTypeOK
<1>5. Len(results) + 1 = case /\ Len(results') = case
  BY <1>3, <1>4
<1> HIDE DEF entry
<1>6. GateTypeOK'
  <2>1. case' \in Nat /\ 1 <= case' /\ case' <= Size * Size + 1 /\ Len(results') = case' - 1
    BY <1>0, <1>2, <1>3, <1>5
  <2>2. stage' \in Stages
    BY <1>0 DEF Stages
  <2>3. fleet \in Fleets /\ gate \in {"open", "passed", "failed"}
    BY <1>2 DEF GateTypeOK
  <2> QED BY <1>0, <1>1, <1>4, <2>1, <2>2, <2>3, NoneYet DEF GateTypeOK
<1>7. \A n \in Cases : n > case => truth'[n] = Untried
  <2>1. \A n \in Cases : n > case => truth[n] = Untried
    BY <1>2 DEF CurrentOK
  <2>2. \A n \in Cases : n > case => n # case
    BY <1>2, <1>3
  <2> QED BY <2>1, <2>2
<1>8. CurrentOK'
  <2>1. \A n \in Cases : n > case' => n > case
    BY <1>0, <1>2, <1>3
  <2>2. case' > case /\ ~(stage' > 0)
    BY <1>0, <1>3
  <2>3. case' \in Cases => truth'[case'] = Untried
    BY <1>7, <2>2
  <2> QED BY <1>0, <1>1, <1>7, <2>1, <2>2, <2>3 DEF CurrentOK, Untried
<1>9. ASSUME NEW n \in 1..Len(results')
      PROVE  PairOK(n)'
  <2>1. CASE n = case
    <3>1. results'[n] = entry
      BY <1>4, <1>5, <2>1
    <3>2. /\ entry.pair = Pair(n) /\ entry.status = status /\ entry.scenarios = suite
          /\ entry.mints = Pair(n).sender.mints \cap Pair(n).receiver.mints
      BY <2>1 DEF entry
    <3> QED BY <1>1, <2>1, <3>1, <3>2 DEF PairOK
  <2>2. CASE n # case
    <3>1. n \in 1..Len(results) /\ n \in Cases
      BY <1>2, <1>3, <1>5, <2>2
    <3> QED BY <1>2, <1>4, <2>2, <3>1, PairKept
  <2> QED BY <2>1, <2>2
<1> QED BY <1>6, <1>8, <1>9 DEF GateInv
\* A step of the probe: the pair at hand has run nothing yet, and goes on to
\* its suite only with one credit.
LEMMA Probes ==
  ASSUME GateInv, gate = "open", gate' = gate, fleet' = fleet, case \in Cases, case' = case,
         results' = results, scenarios' = scenarios, stage \in {0, -1, -2},
         stage' \in {-1, -2, 1}, truth' \in [Cases -> Truths],
         \A n \in Cases \ {case} : truth'[n] = truth[n],
         truth'[case].runs = truth[case].runs,
         stage' = 1 => truth'[case].credits = 1
  PROVE  GateInv'
<1>1. /\ Cases' = Cases /\ Size' = Size /\ Stages' = Stages
      /\ \A t, shown : (Tells(t, shown))' <=> Tells(t, shown)
  BY SameFleet
<1>2. /\ GateTypeOK /\ CurrentOK /\ \A n \in 1..Len(results) : PairOK(n)
      /\ SuiteSize \in Nat /\ Size * Size \in Nat /\ Cases = 1..(Size * Size)
  BY FleetFacts DEF GateInv
<1>3. case \in Nat /\ Len(results) = case - 1 /\ case <= Size * Size
  BY <1>2 DEF GateTypeOK
<1>4. GateTypeOK'
  <2>1. stage' \in Stages
    BY <1>2 DEF Stages
  <2> QED BY <1>1, <1>2, <2>1 DEF GateTypeOK
<1>5. scenarios = <<>> /\ truth[case].runs = <<>>
  BY <1>2 DEF CurrentOK
<1>6. Tells(truth'[case], scenarios)
  <2>1. Len(truth'[case].runs) = Len(scenarios) /\ 1..Len(scenarios) = {}
    BY <1>5, NoneYet
  <2> QED BY <2>1 DEF Tells
<1>7. CurrentOK'
  <2>1. \A n \in Cases : n > case => n # case
    BY <1>2, <1>3
  <2>2. \A n \in Cases : n > case => truth'[n] = Untried
    BY <1>2, <2>1 DEF CurrentOK
  <2>3. stage' # 0 /\ (stage' > 0 => stage' = 1) /\ Len(scenarios) = 1 - 1
    BY <1>5, NoneYet
  <2> QED BY <1>1, <1>5, <1>6, <2>2, <2>3 DEF CurrentOK
<1>8. ASSUME NEW n \in 1..Len(results)
      PROVE  PairOK(n)'
  <2>1. n \in Cases \ {case}
    BY <1>2, <1>3
  <2> QED BY <1>2, <2>1, PairKept
<1> QED BY <1>4, <1>7, <1>8 DEF GateInv

(***************************************************************************)
(* A step of the suite adds a piece of evidence; if it passed, the run is  *)
(* on record as well and the evidence is that of the run.                  *)
(***************************************************************************)
Attests(e, o) ==
    /\ e.id = fleet.suite[stage].id /\ e.required = fleet.suite[stage].required
    /\ e.invariants = o.invariants /\ Found(stage, o)

LEMMA Attested ==
  ASSUME NEW n \in Nat, NEW t, NEW shown, Tells(t, shown), Len(shown) = n,
         IsSequence(shown), IsSequence(t.runs), stage = n + 1,
         NEW e, NEW o, Attests(e, o), e.status = "passed",
         NEW u, u.runs = Append(t.runs, o)
  PROVE  Tells(u, Append(shown, e))
<1> DEFINE more == Append(shown, e)
           ran == Append(t.runs, o)
<1>1. /\ Len(more) = n + 1 /\ \A k \in 1..n : more[k] = shown[k]
      /\ more[n + 1] = e
  BY Appended
<1>2. Len(t.runs) = n
  BY DEF Tells
<1>3. /\ Len(ran) = n + 1 /\ \A k \in 1..n : ran[k] = t.runs[k]
      /\ ran[n + 1] = o
  BY <1>2, Appended
<1> HIDE DEF more, ran
<1>4. ASSUME NEW k \in 1..(n + 1)
      PROVE  /\ more[k].id = fleet.suite[k].id
             /\ more[k].required = fleet.suite[k].required
             /\ more[k].status = "passed"
             /\ more[k].invariants = ran[k].invariants
             /\ Found(k, ran[k])
  <2>1. CASE k = n + 1
    BY <1>1, <1>3, <2>1 DEF Attests
  <2>2. CASE k \in 1..n
    BY <1>1, <1>3, <2>2 DEF Tells
  <2>3. k = n + 1 \/ k \in 1..n
    OBVIOUS
  <2> QED BY <2>1, <2>2, <2>3
<1> QED BY <1>1, <1>3, <1>4 DEF Tells, more, ran
LEMMA SeqsAre ==
  ASSUME NEW S, NEW s \in Seq(S)
  PROVE  IsSequence(s)
<1>1. Len(s) \in Nat /\ s \in [1..Len(s) -> S] /\ DOMAIN s = 1..Len(s)
  BY LenProperties
<1>2. s \in [1..Len(s) -> {s[i] : i \in DOMAIN s}]
  BY <1>1
<1>3. \A T : s \in [1..Len(s) -> T] => s \in Seq(T)
  BY <1>1, SeqDef
<1> QED BY <1>2, <1>3 DEF IsSequence

LEMMA Runs ==
  ASSUME GateInv, gate = "open", gate' = gate, fleet' = fleet, case' = case,
         results' = results, stage \in 1..SuiteSize, stage' = stage + 1,
         NEW e, scenarios' = Append(scenarios, e),
         truth' \in [Cases -> Truths],
         \A n \in Cases \ {case} : truth'[n] = truth[n],
         truth'[case].credits = truth[case].credits,
         e.status = "passed" =>
            \E o : truth'[case].runs = Append(truth[case].runs, o) /\ Attests(e, o)
  PROVE  GateInv'
<1>1. /\ Cases' = Cases /\ Size' = Size /\ Stages' = Stages
      /\ \A t, shown : (Tells(t, shown))' <=> Tells(t, shown)
  BY SameFleet
<1>2. /\ GateTypeOK /\ CurrentOK /\ \A n \in 1..Len(results) : PairOK(n)
      /\ SuiteSize \in Nat /\ Size * Size \in Nat /\ Cases = 1..(Size * Size)
  BY FleetFacts DEF GateInv
<1>3. stage > 0 /\ stage # 0 /\ stage \in Nat /\ stage' > 0 /\ stage' # 0
  BY <1>2
<1>4. /\ case \in Cases /\ case \in Nat /\ Len(results) = case - 1 /\ IsSequence(scenarios)
      /\ truth[case] \in Truths
  BY <1>2, <1>3 DEF GateTypeOK
<1>5. /\ truth[case].credits = 1 /\ Len(scenarios) = stage - 1
      /\ AllPassed(scenarios) => Tells(truth[case], scenarios)
  BY <1>2, <1>3 DEF CurrentOK
<1>6. /\ IsSequence(scenarios') /\ Len(scenarios') = Len(scenarios) + 1
      /\ \A i \in 1..Len(scenarios) : scenarios'[i] = scenarios[i]
      /\ scenarios'[Len(scenarios) + 1] = e
  BY <1>4, Appended
<1>7. GateTypeOK'
  <2>1. stage' \in Stages
    BY <1>2 DEF Stages
  <2> QED BY <1>1, <1>2, <1>4, <1>6, <2>1 DEF GateTypeOK
<1>8. ASSUME AllPassed(scenarios')
      PROVE  Tells(truth'[case], scenarios')
  <2>1. AllPassed(scenarios) /\ e.status = "passed"
    <3>1. \A k \in 1..Len(scenarios) : k \in 1..Len(scenarios')
      BY <1>3, <1>5, <1>6
    <3>2. Len(scenarios) + 1 \in 1..Len(scenarios')
      BY <1>3, <1>5, <1>6
    <3> QED BY <1>6, <1>8, <3>1, <3>2 DEF AllPassed
  <2>2. PICK o : truth'[case].runs = Append(truth[case].runs, o) /\ Attests(e, o)
    BY <2>1
  <2>3. IsSequence(truth[case].runs)
    BY <1>4, SeqsAre DEF Truths
  <2>4. Len(scenarios) \in Nat /\ stage = Len(scenarios) + 1
    BY <1>3, <1>5
  <2>5. Tells(truth[case], scenarios)
    BY <1>5, <2>1
  <2> QED BY <1>4, <2>1, <2>2, <2>3, <2>4, <2>5, Attested
<1>9. CurrentOK'
  <2>1. \A n \in Cases : n > case => n # case
    BY <1>2, <1>4
  <2>2. \A n \in Cases : n > case => truth'[n] = Untried
    BY <1>2, <2>1 DEF CurrentOK
  <2>3. ~(stage' <= 0) /\ Len(scenarios') = stage' - 1
    BY <1>3, <1>5, <1>6
  <2> QED BY <1>1, <1>3, <1>5, <1>8, <2>2, <2>3 DEF CurrentOK
<1>10. ASSUME NEW n \in 1..Len(results)
       PROVE  PairOK(n)'
  <2>1. n \in Cases \ {case}
    BY <1>2, <1>4
  <2> QED BY <1>2, <2>1, PairKept
<1> QED BY <1>7, <1>9, <1>10 DEF GateInv

\* What happened in the pair at hand, after one more thing has.
LEMMA TruthTypes ==
  ASSUME NEW t \in Truths
  PROVE  /\ [t EXCEPT !.probed = TRUE] \in Truths
         /\ \A c \in {0, 1} : [t EXCEPT !.credits = t.credits + c] \in Truths
         /\ \A o \in Outcomes : [t EXCEPT !.runs = Append(t.runs, o)] \in Truths
<1>1. t.probed \in BOOLEAN /\ t.credits \in Nat /\ t.runs \in Seq(Outcomes)
  BY DEF Truths
<1>2. [t EXCEPT !.probed = TRUE] \in Truths
  BY <1>1 DEF Truths
<1>3. \A c \in {0, 1} : [t EXCEPT !.credits = t.credits + c] \in Truths
  <2>1. \A c \in {0, 1} : t.credits + c \in Nat
    BY <1>1
  <2> QED BY <1>1, <2>1 DEF Truths
<1>4. \A o \in Outcomes : [t EXCEPT !.runs = Append(t.runs, o)] \in Truths
  <2>1. \A o \in Outcomes : Append(t.runs, o) \in Seq(Outcomes)
    BY <1>1
  <2> QED BY <1>1, <2>1 DEF Truths
<1> QED BY <1>2, <1>3, <1>4
(***************************************************************************)
(* One lemma per step of the matrix.                                       *)
(***************************************************************************)
LEMMA AtHand ==
  ASSUME GateInv, stage # 0
  PROVE  case \in Cases /\ truth[case] \in Truths
BY DEF GateInv, GateTypeOK

LEMMA ExcludeNext ==
  ASSUME GateInv, Exclude
  PROVE  GateInv'
<1> DEFINE status == IF Compatible(Pair(case)) THEN "not_applicable" ELSE "failed"
<1>1. /\ gate = "open" /\ gate' = gate /\ fleet' = fleet /\ truth' = truth /\ case \in Cases
      /\ Conclude(status, <<>>)
  BY DEF Exclude
<1>2. status # "passed" /\ truth \in [Cases -> Truths]
  BY DEF GateInv, GateTypeOK
<1> HIDE DEF status
<1> QED BY <1>1, <1>2, Concludes

LEMMA StartNext ==
  ASSUME GateInv, StartProbe
  PROVE  GateInv'
<1>1. /\ gate = "open" /\ gate' = gate /\ fleet' = fleet /\ case \in Cases /\ case' = case
      /\ results' = results /\ scenarios' = scenarios /\ stage = 0 /\ stage' = -1
  BY DEF StartProbe
<1>2. truth' = [truth EXCEPT ![case] = [truth[case] EXCEPT !.probed = TRUE]]
  BY DEF StartProbe
<1>3. truth \in [Cases -> Truths] /\ truth[case] \in Truths
  BY <1>1 DEF GateInv, GateTypeOK
<1>4. [truth[case] EXCEPT !.probed = TRUE] \in Truths
  BY <1>3, TruthTypes
<1>5. truth'[case] = [truth[case] EXCEPT !.probed = TRUE]
  BY <1>1, <1>2, <1>3
<1>6. truth'[case].runs = truth[case].runs
  BY <1>3, <1>5 DEF Truths
<1>7. truth' \in [Cases -> Truths] /\ \A n \in Cases \ {case} : truth'[n] = truth[n]
  BY <1>1, <1>2, <1>3, <1>4
<1>8. stage \in {0, -1, -2} /\ stage' \in {-1, -2, 1} /\ stage' # 1
  BY <1>1
<1> QED BY <1>1, <1>6, <1>7, <1>8, Probes

LEMMA SendNext ==
  ASSUME GateInv, NEW answer, NEW credits \in {0, 1}, SendProbe(answer, credits)
  PROVE  GateInv'
<1>1. gate = "open" /\ gate' = gate /\ fleet' = fleet /\ stage = -1 /\ stage # 0
  BY DEF SendProbe
<1>2. truth' = [truth EXCEPT ![case] = [truth[case] EXCEPT !.credits = truth[case].credits + credits]]
  BY DEF SendProbe
<1>3. truth \in [Cases -> Truths] /\ truth[case] \in Truths /\ case \in Cases
  BY <1>1, AtHand DEF GateInv, GateTypeOK
<1> DEFINE after == [truth[case] EXCEPT !.credits = truth[case].credits + credits]
<1>4. after \in Truths /\ after.runs = truth[case].runs
  <2>1. after \in Truths
    BY <1>3, TruthTypes
  <2>2. after.runs = truth[case].runs
    BY <1>3 DEF Truths
  <2> QED BY <2>1, <2>2
<1>5. truth' = [truth EXCEPT ![case] = after]
  BY <1>2
<1> HIDE DEF after
<1>6. /\ truth' \in [Cases -> Truths] /\ \A n \in Cases \ {case} : truth'[n] = truth[n]
      /\ truth'[case].runs = truth[case].runs
  BY <1>3, <1>4, <1>5
<1>7. CASE Conclude("failed", <<>>)
  BY <1>1, <1>3, <1>6, <1>7, Concludes
<1>8. CASE stage' \in {-1, -2} /\ case' = case /\ scenarios' = scenarios /\ results' = results
  <2>1. stage \in {0, -1, -2} /\ stage' \in {-1, -2, 1} /\ stage' # 1
    BY <1>1, <1>8
  <2> QED BY <1>1, <1>3, <1>6, <1>8, <2>1, Probes
<1> QED BY <1>1, <1>7, <1>8 DEF SendProbe

LEMMA ThrowsNext ==
  ASSUME GateInv, NEW status \in {"not_applicable", "failed"}, ProbeThrows(status)
  PROVE  GateInv'
<1>1. /\ gate = "open" /\ gate' = gate /\ fleet' = fleet /\ truth' = truth
      /\ Conclude(status, <<>>) /\ stage \in {-1, -2} /\ status # "passed"
  BY DEF ProbeThrows
<1>2. truth \in [Cases -> Truths] /\ case \in Cases
  <2>1. stage # 0
    BY <1>1
  <2> QED BY <2>1, AtHand DEF GateInv, GateTypeOK
<1> QED BY <1>1, <1>2, Concludes

LEMMA JudgeNext ==
  ASSUME GateInv, NEW same \in BOOLEAN, NEW settled \in BOOLEAN, NEW spent \in BOOLEAN,
         JudgeProbe(same, settled, spent)
  PROVE  GateInv'
<1>1. gate = "open" /\ gate' = gate /\ fleet' = fleet /\ truth' = truth /\ stage = -2
  BY DEF JudgeProbe
<1>2. truth \in [Cases -> Truths] /\ case \in Cases /\ stage \in {0, -1, -2}
  <2>1. stage # 0 /\ stage \in {0, -1, -2}
    BY <1>1
  <2> QED BY <2>1, AtHand DEF GateInv, GateTypeOK
<1>3. CASE Conclude("failed", <<>>)
  BY <1>1, <1>2, <1>3, Concludes
<1>4. CASE /\ stage' = 1 /\ case' = case /\ scenarios' = scenarios /\ results' = results
           /\ ExactlyOneCredit
  <2>1. stage' \in {-1, -2, 1} /\ truth'[case].credits = 1
    BY <1>1, <1>4 DEF ExactlyOneCredit
  <2> QED BY <1>1, <1>2, <1>4, <2>1, Probes
<1> QED BY <1>3, <1>4 DEF JudgeProbe
LEMMA RunNext ==
  ASSUME GateInv, NEW o \in Outcomes, RunScenario(o)
  PROVE  GateInv'
<1> DEFINE after == [truth[case] EXCEPT !.runs = Append(truth[case].runs, o)]
           e == SuiteEvidence(o)
<1>1. /\ gate = "open" /\ gate' = gate /\ fleet' = fleet /\ case' = case /\ results' = results
      /\ stage \in DOMAIN fleet.suite /\ stage' = stage + 1
      /\ scenarios' = Append(scenarios, e) /\ truth' = [truth EXCEPT ![case] = after]
  BY DEF RunScenario
<1>2. stage \in 1..SuiteSize /\ SuiteSize \in Nat
  BY <1>1, FleetFacts DEF GateInv
<1>3. truth \in [Cases -> Truths] /\ truth[case] \in Truths /\ case \in Cases
  <2>1. stage # 0
    BY <1>2
  <2> QED BY <2>1, AtHand DEF GateInv, GateTypeOK
<1>4. after \in Truths
  BY <1>3, TruthTypes
<1>5. after.credits = truth[case].credits /\ after.runs = Append(truth[case].runs, o)
  BY <1>3 DEF Truths
<1>6. e.status = "passed" => Attests(e, o)
  BY DEF SuiteEvidence, Evidence, Entry, Attests, Found
<1> HIDE DEF after, e
<1>7. /\ truth' \in [Cases -> Truths] /\ truth'[case] = after
      /\ \A n \in Cases \ {case} : truth'[n] = truth[n]
  BY <1>1, <1>3, <1>4
<1> QED BY <1>1, <1>2, <1>5, <1>6, <1>7, Runs

LEMMA SkipNext ==
  ASSUME GateInv, SkipScenario
  PROVE  GateInv'
<1> DEFINE e == Evidence(IF Durable(Pair(case)) THEN "failed" ELSE "not_applicable", <<>>)
<1>1. /\ gate = "open" /\ gate' = gate /\ fleet' = fleet /\ case' = case /\ results' = results
      /\ stage \in DOMAIN fleet.suite /\ stage' = stage + 1
      /\ scenarios' = Append(scenarios, e) /\ truth' = truth
  BY DEF SkipScenario
<1>2. stage \in 1..SuiteSize
  BY <1>1, FleetFacts DEF GateInv
<1>3. e.status # "passed" /\ truth \in [Cases -> Truths]
  BY DEF Evidence, GateInv, GateTypeOK
<1> HIDE DEF e
<1> QED BY <1>1, <1>2, <1>3, Runs

LEMMA FinishNext ==
  ASSUME GateInv, FinishPair
  PROVE  GateInv'
<1> DEFINE status == IF \A i \in DOMAIN scenarios : scenarios[i].status = "passed"
                     THEN "passed" ELSE "failed"
<1>1. /\ gate = "open" /\ gate' = gate /\ fleet' = fleet /\ truth' = truth
      /\ stage = SuiteSize + 1 /\ Conclude(status, scenarios)
  BY DEF FinishPair, SuiteSize
<1>2. SuiteSize \in Nat
  BY FleetFacts DEF GateInv
<1>3. stage # 0 /\ stage > 0 /\ stage - 1 = SuiteSize
  BY <1>1, <1>2
<1>4. truth \in [Cases -> Truths] /\ case \in Cases /\ IsSequence(scenarios)
  BY <1>3, AtHand DEF GateInv, GateTypeOK
<1>5. /\ truth[case].credits = 1 /\ Len(scenarios) = SuiteSize
      /\ AllPassed(scenarios) => Tells(truth[case], scenarios)
  BY <1>3 DEF GateInv, CurrentOK
<1>6. DOMAIN scenarios = 1..Len(scenarios)
  BY <1>4, LenProperties DEF IsSequence
<1>7. status = "passed" => AllPassed(scenarios)
  BY <1>6 DEF AllPassed
<1> HIDE DEF status
<1> QED BY <1>1, <1>4, <1>5, <1>7, Concludes

\* A step after which everything the invariant reads is the same, or after
\* which only the gate has closed.
LEMMA DecideNext ==
  ASSUME GateInv, Decide \/ UNCHANGED gateVars
  PROVE  GateInv'
<1>1. /\ fleet' = fleet /\ case' = case /\ stage' = stage /\ scenarios' = scenarios
      /\ results' = results /\ truth' = truth
  BY DEF Decide, gateVars
<1>2. /\ Cases' = Cases /\ Size' = Size /\ Stages' = Stages
      /\ \A t, shown : (Tells(t, shown))' <=> Tells(t, shown)
  BY <1>1, SameFleet
<1>3. /\ gate' \in {"open", "passed", "failed"}
      /\ gate' = "passed" => case \notin Cases /\ EvaluateReleasePolicy(fleet.policy, results)
  BY DEF Decide, gateVars, GateInv, GateTypeOK
<1>4. GateTypeOK'
  BY <1>1, <1>2, <1>3 DEF GateInv, GateTypeOK
<1>5. CurrentOK'
  BY <1>1, <1>2 DEF GateInv, CurrentOK
<1>6. \A n \in 1..Len(results) : PairOK(n)'
  BY <1>1, PairKept DEF GateInv
<1> QED BY <1>1, <1>2, <1>3, <1>4, <1>5, <1>6 DEF GateInv

LEMMA GateStarts == GateInit => GateInv
<1> SUFFICES ASSUME GateInit
             PROVE  GateInv
  OBVIOUS
<1>1. /\ fleet \in Fleets /\ case = 1 /\ stage = 0 /\ scenarios = <<>> /\ results = <<>>
      /\ gate = "open" /\ truth = [n \in Cases |-> Untried]
  BY DEF GateInit
<1>2. Size \in Nat
  BY <1>1, FleetAssumption DEF Size
<1>3. Size * Size \in Nat
  BY <1>2, Squares
<1>4. case \in Nat /\ 1 <= case /\ case <= Size * Size + 1 /\ Len(results) = case - 1
  BY <1>1, <1>3, NoneYet
<1>5. Untried \in Truths
  <2>1. <<>> \in Seq(Outcomes)
    BY EmptySeq
  <2> QED BY <2>1 DEF Untried, Truths
<1>6. GateTypeOK
  BY <1>1, <1>4, <1>5, NoneYet DEF GateTypeOK, Stages
<1>7. CurrentOK
  <2>1. ~(stage > 0)
    BY <1>1
  <2> QED BY <1>1, <2>1 DEF CurrentOK, Untried
<1>8. 1..Len(results) = {}
  BY <1>1, NoneYet
<1> QED BY <1>1, <1>6, <1>7, <1>8 DEF GateInv
(***************************************************************************)
(* From the evidence to what it is evidence of: a passed pair that misses  *)
(* nothing the policy asks for was earned.                                 *)
(***************************************************************************)
LEMMA NothingLacks ==
  ASSUME NEW policy, NEW r, EvidenceReasons(policy, r) = {},
         NEW k \in DOMAIN r.scenarios, r.scenarios[k].id \in policy.scenarios
  PROVE  \A i \in r.scenarios[k].required : Accepted(policy, r.scenarios[k].invariants, i)
<1> DEFINE named(id) == {j \in DOMAIN r.scenarios : r.scenarios[j].id = id}
           lacking(s) == s.status # "passed" \/ \E i \in s.required : ~Accepted(policy, s.invariants, i)
           missed == {id \in policy.scenarios :
                        Cardinality(named(id)) # 1 \/ \E j \in named(id) : lacking(r.scenarios[j])}
<1>1. missed = {}
  BY DEF EvidenceReasons
<1>2. k \in named(r.scenarios[k].id) /\ r.scenarios[k].id \notin missed
  BY <1>1
<1> QED BY <1>2

LEMMA EvidenceCounts ==
  ASSUME GateTypeOK, NEW n, PairOK(n), results[n].status = "passed",
         PairReasons(fleet.policy, results[n]) = {}
  PROVE  Earned(n)
<1> DEFINE shown == results[n].scenarios
           ran == truth[n].runs
           policy == fleet.policy
<1>1. /\ truth[n].credits = 1 /\ IsSequence(shown) /\ Len(shown) = SuiteSize
      /\ Tells(truth[n], shown)
  BY DEF PairOK
<1>2. DOMAIN shown = 1..SuiteSize /\ DOMAIN fleet.suite = 1..SuiteSize
  BY <1>1, LenProperties, FleetFacts DEF IsSequence
<1>3. Len(ran) = SuiteSize
  BY <1>1 DEF Tells
<1>4. EvidenceReasons(policy, results[n]) = {}
  BY DEF PairReasons
<1>5. ASSUME NEW k \in 1..SuiteSize, fleet.suite[k].id \in policy.scenarios
      PROVE  /\ ran[k].status = "passed"
             /\ \A i \in fleet.suite[k].required :
                  /\ ran[k].invariants[i].status = "passed"
                  /\ ran[k].invariants[i].confidence \in policy.confidence
  <2>1. /\ shown[k].id = fleet.suite[k].id /\ shown[k].required = fleet.suite[k].required
        /\ shown[k].invariants = ran[k].invariants /\ Found(k, ran[k])
    BY <1>1 DEF Tells
  <2>2. \A i \in shown[k].required : Accepted(policy, shown[k].invariants, i)
    <3>1. k \in DOMAIN results[n].scenarios
      BY <1>2
    <3>2. results[n].scenarios[k].id \in fleet.policy.scenarios
      BY <1>5, <2>1
    <3>3. EvidenceReasons(fleet.policy, results[n]) = {}
      BY <1>4
    <3> HIDE <1>1, <1>2, <1>3, <1>4, <1>5, <2>1
    <3>4. \A i \in results[n].scenarios[k].required :
             Accepted(fleet.policy, results[n].scenarios[k].invariants, i)
      BY <3>1, <3>2, <3>3, NothingLacks
    <3> QED BY <3>4
  <2> HIDE DEF shown, ran, policy
  <2>3. \A i \in fleet.suite[k].required : Accepted(policy, ran[k].invariants, i)
    BY <2>1, <2>2
  <2> QED BY <2>1, <2>3 DEF Found, Accepted
<1> QED BY <1>1, <1>2, <1>3, <1>5 DEF Earned, SuiteSize

\* What the gate asks of the results it lets through.
LEMMA GateOpens ==
  ASSUME NEW policy, NEW cases, EvaluateReleasePolicy(policy, cases),
         NEW passed, passed = {i \in DOMAIN cases : cases[i].status = "passed"}
  PROVE  /\ \A i \in passed : PairReasons(policy, cases[i]) = {}
         /\ \A i, j \in passed : j < i => ProvenanceKey(cases[j]) # ProvenanceKey(cases[i])
         /\ Cardinality(passed) >= policy.pairs
<1> DEFINE clean == {i \in passed : PairReasons(policy, cases[i]) = {}}
           alias == {i \in clean : \E j \in clean :
                        j < i /\ ProvenanceKey(cases[j]) = ProvenanceKey(cases[i])}
<1>1. clean = passed /\ alias = {} /\ Cardinality(clean \ alias) >= policy.pairs
  BY DEF EvaluateReleasePolicy
<1>2. clean \ alias = passed
  BY <1>1
<1> QED BY <1>1, <1>2

\* A family of distinct things has as many of them as it has members.
LEMMA DistinctCount ==
  ASSUME NEW P, NEW Q, IsFiniteSet(Q), P \subseteq Q, NEW T, NEW f \in Surjection(Q, T),
         \A p, q \in P : f[p] = f[q] => p = q
  PROVE  /\ Cardinality(P) \in Nat /\ Cardinality(T) \in Nat
         /\ Cardinality(P) <= Cardinality(T)
<1> DEFINE g == [p \in P |-> f[p]]
<1>1. IsFiniteSet(T) /\ f \in [Q -> T]
  BY FS_Surjection DEF Surjection
<1>2. g \in Injection(P, T)
  BY <1>1 DEF Injection, IsInjective
<1> HIDE DEF g
<1>3. IsFiniteSet(P) /\ Cardinality(P) <= Cardinality(T)
  BY <1>1, <1>2, FS_Injection
<1> QED BY <1>1, <1>3, FS_CardinalityType

LEMMA GateEarned ==
  ASSUME GateInv
  PROVE  GatePassedIsEarned
<1> SUFFICES ASSUME gate = "passed"
             PROVE  /\ Cardinality({Builds(n) : n \in {m \in Cases : Earned(m)}})
                          >= fleet.policy.pairs
                    /\ \A n \in Cases : results[n].status = "passed" => Earned(n)
  BY DEF GatePassedIsEarned
<1> DEFINE passed == {i \in DOMAIN results : results[i].status = "passed"}
           earned == {m \in Cases : Earned(m)}
<1>1. /\ GateTypeOK /\ case \notin Cases /\ EvaluateReleasePolicy(fleet.policy, results)
      /\ \A n \in 1..Len(results) : PairOK(n)
  BY DEF GateInv
<1>2. /\ Size * Size \in Nat /\ Cases = 1..(Size * Size) /\ fleet.policy.pairs \in Nat
      /\ case \in Cases <=> case <= Size * Size
  BY <1>1, FleetFacts
<1>3. DOMAIN results = Cases /\ Len(results) = Size * Size
  <2>1. case \in Nat /\ case <= Size * Size + 1 /\ Len(results) = case - 1
    BY <1>1 DEF GateTypeOK
  <2>2. Len(results) = Size * Size
    BY <1>1, <1>2, <2>1
  <2>3. DOMAIN results = 1..Len(results)
    BY <1>1, LenProperties DEF GateTypeOK, IsSequence
  <2> QED BY <1>2, <2>2, <2>3
<1>4. /\ \A i \in passed : PairReasons(fleet.policy, results[i]) = {}
      /\ \A i, j \in passed : j < i => ProvenanceKey(results[j]) # ProvenanceKey(results[i])
      /\ Cardinality(passed) >= fleet.policy.pairs
  BY <1>1, GateOpens
<1>5. \A n \in Cases : results[n].status = "passed" => Earned(n)
  BY <1>1, <1>2, <1>3, <1>4, EvidenceCounts
<1>6. passed \subseteq earned /\ earned \subseteq Cases
  BY <1>3, <1>5
<1>7. IsFiniteSet(earned)
  <2>1. IsFiniteSet(Cases)
    BY <1>2, FS_Interval
  <2> QED BY <1>6, <2>1, FS_Subset
<1>8. \A i \in passed : Builds(i) = ProvenanceKey(results[i])
  BY <1>1, <1>2, <1>3 DEF PairOK, Builds, ProvenanceKey
<1>9. \A i, j \in passed : Builds(i) = Builds(j) => i = j
  <2>1. ASSUME NEW i \in passed, NEW j \in passed, i # j
        PROVE  Builds(i) # Builds(j)
    <3>1. i < j \/ j < i
      BY <1>2, <1>3, <2>1
    <3> QED BY <1>4, <1>8, <3>1
  <2> QED BY <2>1
<1> DEFINE f == [m \in earned |-> Builds(m)]
<1> HIDE DEF earned, passed
<1>10. f \in Surjection(earned, {Builds(n) : n \in earned})
  BY DEF Surjection
<1>11. \A p, q \in passed : f[p] = f[q] => p = q
  BY <1>6, <1>9
<1> HIDE DEF f
<1>12. Cardinality({Builds(n) : n \in earned}) >= fleet.policy.pairs
  <2> DEFINE B == {Builds(n) : n \in earned}
  <2>1. f \in Surjection(earned, B)
    BY <1>10
  <2> HIDE DEF B
  <2>2. passed \subseteq earned
    BY <1>6
  <2>3. /\ Cardinality(passed) \in Nat /\ Cardinality(B) \in Nat
        /\ Cardinality(passed) <= Cardinality(B)
    BY <1>7, <1>11, <2>1, <2>2, DistinctCount
  <2>4. \A a, b, c \in Nat : a >= c /\ a <= b => b >= c
    OBVIOUS
  <2>5. Cardinality(B) >= fleet.policy.pairs
    BY <1>2, <1>4, <2>3, <2>4
  <2> QED BY <2>5 DEF B
<1> QED BY <1>5, <1>12 DEF earned

(***************************************************************************)
(* A release gate that passes rests on enough independent evidence         *)
(* (release-policy.ts, evaluateReleasePolicy; matrix.ts), whatever is      *)
(* registered and whatever the adapters answer: every pair it counted      *)
(* credited its probe once and passed every required scenario with every   *)
(* required invariant, and as many of them as the policy asks for differ   *)
(* in builds or mints.                                                     *)
(***************************************************************************)
THEOREM GateEarnedHolds == GateSpec => []GatePassedIsEarned
<1>1. GateInv /\ [GateNext]_gateVars => GateInv'
  <2> SUFFICES ASSUME GateInv, [GateNext]_gateVars
               PROVE  GateInv'
    OBVIOUS
  <2> QED BY ExcludeNext, StartNext, SendNext, ThrowsNext, JudgeNext, RunNext, SkipNext,
             FinishNext, DecideNext DEF GateNext
<1> QED BY <1>1, GateStarts, GateEarned, PTL DEF GateSpec
=============================================================================
