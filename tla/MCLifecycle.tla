---------------------------- MODULE MCLifecycle ----------------------------
(***************************************************************************)
(* Small instances of the wallet lifecycle: the two adapters, the harness  *)
(* that drives one of them, the CDK adapter's choice of swap inputs and    *)
(* the minimizer of failed scenarios.  A behaviour follows one lane, the   *)
(* part chosen in its initial state; the other parts stay where they are.  *)
(***************************************************************************)
EXTENDS CashuTsLifecycle, CdkLifecycle, FailureMinimizer, TLC

CONSTANTS
    o1, o2,                      \* operations
    s1, s2, k1,                  \* seeds and an outbox reader of cashu-ts
    w1, w2, p1, p2, c1, c2,      \* workers, processes, consumers of CDK
    HOps, Scripts, MaxAttempts,
    Wallets, Limits, Nets

VARIABLES
    lane,
    script, pc, attempts, at, verdict, hJournal, balance, coins, busy, calls,
    seen, wallet, version, noted, oracle, views, late,
    inputs, goal, limit, plans, next, prior, work, outcome, plan

harnessVars ==
    <<script, pc, attempts, at, verdict, hJournal, balance, coins, busy, calls,
      seen, wallet, version, noted, oracle, views, late>>
planVars == <<inputs, goal, limit, plans, next, prior, work, outcome, plan>>

MoneyKinds == {"mint", "swap", "send", "receive", "melt", "restore"}
Both(a, b) == o1 :> a @@ o2 :> b

\* cashu-ts: every kind alone with a reset and a fault (a crash or a throwing
\* call); pairs that compete for the same proofs or the same target; two resets
\* in a row; an operation that is re-created under the second seed.
Scenario(a, b, r, f) == [kind |-> Both(a, b), resets |-> r, faults |-> f]
MCScenarios ==
    {Scenario(k, "none", 1, 1) : k \in MoneyKinds} \cup
    {Scenario(a, b, 0, 1) : a \in {"swap", "send"},
                            b \in {"receive", "reconcile", "restore", "melt"}} \cup
    {Scenario("send", "none", 2, 0), Scenario("mint", "receive", 1, 0),
     Scenario("none", "none", 0, 0)}

\* CDK: every kind in one and in two processes, with lease expiries and a crash;
\* two operations and a reconcile of one by the other; a reset and the outbox.
Bound(s, e, c, r, h) ==
    [starts |-> s, expiries |-> e, crashes |-> c, resets |-> r, handoffs |-> h]
Setup(a, b, h, m) ==
    [kind |-> Both(a, b), target |-> Both(o2, o1), home |-> (w1 :> p1 @@ w2 :> h), max |-> m]
MCSetups ==
    {Setup(k, "none", p1, Bound(3, 1, 1, 0, 0)) : k \in MoneyKinds} \cup
    {Setup(k, "none", p2, Bound(3, 2, 0, 0, 0)) : k \in MoneyKinds} \cup
    {Setup("swap", "receive", p1, Bound(3, 0, 1, 0, 0)),
     Setup("melt", "mint", p1, Bound(3, 1, 0, 0, 0)),
     Setup("send", "receive", p1, Bound(3, 1, 1, 0, 0))} \cup
    {Setup(k, "reconcile", p1, Bound(3, 0, 1, 0, 0)) : k \in {"mint", "swap", "reconcile"}} \cup
    {Setup("send", "none", p1, Bound(1, 1, 1, 1, 2)),
     Setup("mint", "none", p2, Bound(2, 1, 1, 1, 0))}

\* The harness: two operations in a row, a fault with a restart and a timeout,
\* concurrent resumes, and a resume of what was never started.
Command(t, o) == [type |-> t, op |-> o]
Script(a, b, cs, q, t, r) ==
    [kind |-> Both(a, b), commands |-> cs, quiescence |-> q, timeouts |-> t, redo |-> r]
MCScripts ==
    {Script(a, b, <<Command("start", o1), Command("resume", o1),
                    Command("start", o2), Command("resume", o2)>>, TRUE, 0, 0) :
        a \in {"mint", "restore"}, b \in {"swap", "send", "melt", "reconcile"}} \cup
    {Script(a, "none", <<Command("fault", o1), Command("start", o1),
                         Command("clear_faults", o1), Command("restart", o1),
                         Command("resume", o1), Command("resume", o1)>>, FALSE, 1, 1) :
        a \in {"mint", "receive"}} \cup
    {Script(a, "none", <<Command("start", o1), Command("resume_concurrently", o1),
                         Command("resume", o1)>>, TRUE, 0, 0) :
        a \in {"mint", "receive", "restore"}} \cup
    {Script("mint", "none", <<Command(t, o1)>>, FALSE, 0, 0) : t \in {"start", "resume"}}

\* Swap inputs: up to three proofs in the order the code sorts them, with and
\* without a fee, and limits that are reached and that are not.
Proof == [amount : {1, 2, 4}, ppk : {0, 500}]
MCWallets ==
    UNION {{s \in [1 .. n -> Proof] :
               \A i \in 1 .. n - 1 : s[i].amount >= s[i + 1].amount} : n \in 0 .. 3}
MCLimits == [work : {4, 100}, states : {3, 100}]
MCNets == 1 .. 6

Harness == INSTANCE LifecycleHarness WITH journal <- hJournal
SwapPlan == INSTANCE CdkSwapPlan

ASSUME CdkAssumption == CdkConstants

-----------------------------------------------------------------------------
\* A part that is not the lane's stays in one of its initial states.
TsIdle == cached = TRUE /\ TsInit /\ kindOf = Both("none", "none")
CdkIdle == setup = Setup("mint", "none", p2, Bound(2, 1, 1, 1, 0)) /\ CdkInit
MinimizerIdle ==
    /\ fails = [S \in SUBSET Commands |-> "same"]
    /\ secret = TRUE /\ given = "none"
    /\ MinimizerInit
HarnessIdle ==
    /\ script = <<>> /\ pc = <<>> /\ attempts = <<>> /\ at = <<>> /\ verdict = <<>>
    /\ hJournal = <<>> /\ balance = <<>> /\ coins = <<>> /\ busy = <<>> /\ calls = <<>>
    /\ seen = <<>> /\ wallet = <<>> /\ version = <<>> /\ noted = <<>> /\ oracle = <<>>
    /\ views = <<>> /\ late = <<>>
SwapPlanIdle ==
    /\ inputs = <<>> /\ goal = <<>> /\ limit = <<>> /\ plans = <<>> /\ next = <<>>
    /\ prior = <<>> /\ work = <<>> /\ outcome = <<>> /\ plan = <<>>

LaneInit ==
    \/ lane = "cashu-ts" /\ TsInit /\ CdkIdle /\ HarnessIdle /\ SwapPlanIdle /\ MinimizerIdle
    \/ lane = "cdk" /\ TsIdle /\ CdkInit /\ HarnessIdle /\ SwapPlanIdle /\ MinimizerIdle
    \/ lane = "harness" /\ TsIdle /\ CdkIdle /\ Harness!HarnessInit /\ SwapPlanIdle /\ MinimizerIdle
    \/ lane = "plan" /\ TsIdle /\ CdkIdle /\ HarnessIdle /\ SwapPlan!PlanInit /\ MinimizerIdle
    \/ lane = "minimizer" /\ TsIdle /\ CdkIdle /\ HarnessIdle /\ SwapPlanIdle /\ MinimizerInit

LaneNext ==
    /\ UNCHANGED lane
    /\ \/ lane = "cashu-ts" /\ TsNext /\ UNCHANGED <<cdkVars, harnessVars, planVars, minimizerVars>>
       \/ lane = "cdk" /\ CdkNext /\ UNCHANGED <<tsVars, harnessVars, planVars, minimizerVars>>
       \/ /\ lane = "harness" /\ Harness!HarnessNext
          /\ UNCHANGED <<tsVars, cdkVars, planVars, minimizerVars>>
       \/ /\ lane = "plan" /\ SwapPlan!PlanNext
          /\ UNCHANGED <<tsVars, cdkVars, harnessVars, minimizerVars>>
       \/ lane = "minimizer" /\ MinimizerNext /\ UNCHANGED <<tsVars, cdkVars, harnessVars, planVars>>

laneVars == <<lane, tsVars, cdkVars, harnessVars, planVars, minimizerVars>>

LaneSpec == LaneInit /\ [][LaneNext]_laneVars

-----------------------------------------------------------------------------
(* The properties of the instantiated modules, in their lanes. *)

\* Harness: a consistent adapter is not reported as failing.
NoFalseAlarm == lane = "harness" => Harness!NoFalseAlarm

\* Harness: a run that is accepted agrees with what the adapter did.
AcceptedRunIsConsistent == lane = "harness" => Harness!AcceptedRunIsConsistent

\* CDK swap inputs: an exact plan is found whenever there is one.
PlanFoundIfAnyExists == lane = "plan" => SwapPlan!PlanFoundIfAnyExists
=============================================================================
