---------------------------- MODULE CdkSwapPlan ----------------------------
(***************************************************************************)
(* How the CDK lifecycle wallet picks the proofs of a swap: a search over  *)
(* the pairs (gross input, input fee) that subsets of the proofs reach,    *)
(* one proof at a time, that stops at the first pair whose gross input is  *)
(* the net output asked for plus the NUT-02 fee, and gives up when it has  *)
(* done too much work or keeps too many pairs (lifecycle.rs                *)
(* fee_aware_exact_amount_plan_with_limits).                               *)
(***************************************************************************)
EXTENDS Integers, Sequences, FiniteSets, FiniteSetsExt, SequencesExt

CONSTANTS
    Wallets,    \* sequences of inputs [amount, ppk], sorted as the code sorts
    Nets,       \* net outputs asked for
    Limits      \* [work, states]

VARIABLES
    inputs, goal, limit,
    plans,      \* the pairs reached, with the proofs (by index) of each
    next,       \* the proof being added
    prior,      \* the pairs it is still to be added to
    work, outcome, plan

planVars == <<inputs, goal, limit, plans, next, prior, work, outcome, plan>>

Fee(ppk) == (ppk + 999) \div 1000

Gross(S) == FoldSet(LAMBDA i, sum : sum + inputs[i].amount, 0, S)
Ppk(S) == FoldSet(LAMBDA i, sum : sum + inputs[i].ppk, 0, S)

maximum_gross == goal + Fee(Ppk(DOMAIN inputs))

\* BTreeMap order of the pairs.
Before(p, q) == p[1] < q[1] \/ (p[1] = q[1] /\ p[2] < q[2])
Ordered(pairs) ==
    [i \in 1 .. Cardinality(pairs) |->
        CHOOSE p \in pairs : Cardinality({q \in pairs : Before(q, p)}) = i - 1]

Running == outcome = "searching"

\* The pairs a proof is added to are those reached before it.
Snapshot ==
    /\ Running /\ prior = <<>> /\ next < Len(inputs)
    /\ next' = next + 1
    /\ prior' = Ordered(DOMAIN plans)
    /\ UNCHANGED <<inputs, goal, limit, plans, work, outcome, plan>>

\* Mutant: the pairs reached with the proof itself are extended again.
ExtendInPlace ==
    LET from == Head(prior)
        proof == inputs[next]
        to == <<from[1] + proof.amount, from[2] + proof.ppk>>
        path == Append(plans[from], next)
        new == to[1] <= maximum_gross /\ to \notin DOMAIN plans
    IN  /\ Running /\ prior # <<>>
        /\ work' = work + 1
        /\ plans' = IF new THEN (to :> path) @@ plans ELSE plans
        /\ prior' = IF new THEN Append(Tail(prior), to) ELSE Tail(prior)
        /\ IF new /\ to[1] = goal + Fee(to[2])
           THEN outcome' = "found" /\ plan' = path ELSE UNCHANGED <<outcome, plan>>
        /\ UNCHANGED <<inputs, goal, limit, next>>

\* One pair and one proof: over budget, too large or known already, the plan
\* looked for, or a new pair.
Extend ==
    LET from == Head(prior)
        proof == inputs[next]
        to == <<from[1] + proof.amount, from[2] + proof.ppk>>
        path == Append(plans[from], next)
        new == to[1] <= maximum_gross /\ to \notin DOMAIN plans
        found == work < limit.work /\ new /\ to[1] = goal + Fee(to[2])
    IN  /\ Running /\ prior # <<>>
        /\ work' = work + 1
        /\ prior' = Tail(prior)
        /\ plans' = IF work < limit.work /\ new /\ ~ found
                    THEN (to :> path) @@ plans ELSE plans
        /\ outcome' = IF work >= limit.work THEN "swap_plan_work_bound_exceeded"
                      ELSE IF found THEN "found"
                      ELSE IF new /\ Cardinality(DOMAIN plans) >= limit.states
                      THEN "swap_plan_search_bound_exceeded"
                      ELSE outcome
        /\ plan' = IF found THEN path ELSE plan
        /\ UNCHANGED <<inputs, goal, limit, next>>

NoExactPlan ==
    /\ Running /\ prior = <<>> /\ next = Len(inputs)
    /\ outcome' = "none"
    /\ UNCHANGED <<inputs, goal, limit, plans, next, prior, work, plan>>

PlanInit ==
    /\ inputs \in Wallets /\ goal \in Nets /\ limit \in Limits
    /\ plans = (<<0, 0>> :> <<>>) /\ next = 0 /\ prior = <<>>
    /\ work = 0 /\ outcome = "searching" /\ plan = <<>>

PlanNext == Snapshot \/ Extend \/ NoExactPlan

\* A plan uses each proof at most once and its input is exactly the net output
\* plus the fee; and a search that ends without one, its limits not exceeded,
\* ends that way because no set of proofs is exact.
PlanFoundIfAnyExists ==
    /\ outcome = "found" =>
        LET used == Range(plan)
        IN  /\ Cardinality(used) = Len(plan)
            /\ Gross(used) = goal + Fee(Ppk(used))
    /\ outcome = "none" =>
        \A S \in (SUBSET DOMAIN inputs) \ {{}} : Gross(S) # goal + Fee(Ppk(S))
=============================================================================
