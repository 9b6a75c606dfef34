------------------------------- MODULE MCLab -------------------------------
(***************************************************************************)
(* Small instances of the laboratory around the payment: the HTTP fault    *)
(* gateway, delivery over Nostr, nutzap recovery, the funded senders, the  *)
(* receivers that are reset between runs, the wallet doctor, the scenario  *)
(* runner with its oracle, and the release gate.  A behaviour follows one  *)
(* lane, the part chosen in its initial state; the other parts stay where  *)
(* they are.                                                               *)
(***************************************************************************)
EXTENDS FaultGateway, NostrDelivery, NutzapRecovery, MemoryReceiver, FundedSender,
        ReleaseGate, TLC

CONSTANTS
    r1, r2, r3,                      \* requests through the gateway
    q1, q2, q3, q4, q5,              \* relays, and the relays a nutzap sender names
    m1,                              \* a Nostr payment
    a, b, w1, w2, w3,                \* nutzap devices and workers
    c1, c2, c3, d1, b1, b2, b3,      \* callers of a funded sender, a delivery, bills
    h1, h2,                          \* payments a receiver handles at the same time
    DevicePair, Crew, Scenarios,
    RelaySeq, WalletCases,
    Scripts, OpIds

VARIABLES
    lane,
    zScript,
    dBudget, clock, wallet, task, dRelay, withheld, dMint, doctor, repair,
    script, sRun, oracle, driver, op, world

nutzapVars == <<zapVars, zScript>>
doctorVars == <<dBudget, clock, wallet, task, dRelay, withheld, dMint, doctor, repair>>
srVars == <<script, sRun, oracle, driver, op, world>>
labVars ==
    <<lane, gatewayVars, nostrVars, nutzapVars, fundVars, memoryVars, doctorVars, srVars, gateVars>>

Nutzap == INSTANCE NutzapScenario WITH script <- zScript
Doctor == INSTANCE WalletDoctor WITH budget <- dBudget, relay <- dRelay, mint <- dMint
Runner == INSTANCE ScenarioRunner WITH run <- sRun

-----------------------------------------------------------------------------
\* Gateway: two requests of one delivery and one of another; a rule that
\* reorders with each kind of rule that can meet a held request, stale
\* responses with a control reset, and delays, drops, duplicates, truncation.
MCKind ==
    r1 :> [route |-> "a", delivery |-> 1] @@ r2 :> [route |-> "a", delivery |-> 1]
    @@ r3 :> [route |-> "a", delivery |-> 2]
Rule(phase, action, count, occurrence) ==
    [phase |-> phase, action |-> action, count |-> count, occurrence |-> occurrence,
     route |-> "any"]
BeforeForward(action, count, occurrence) == Rule("before_forward", action, count, occurrence)
AfterResponse(action, count, occurrence) == Rule("after_downstream_response", action, count, occurrence)
Committed(action, occurrence) == Rule("after_downstream_commit", action, 1, occurrence)
Posts(posts, resets) == [posts |-> posts, resets |-> resets]
MCCampaigns ==
    {Posts(<<BeforeForward("reorder", 3, 0), Committed("drop", 0)>>, 0)} \cup
    {Posts(<<BeforeForward("reorder", 1, 0), rule>>, 0) :
        rule \in {Committed("delay", 2), AfterResponse("status", 1, 0)}} \cup
    {Posts(<<BeforeForward("stale_response", 1, 0), AfterResponse("stale_response", 1, 2)>>, 1),
     Posts(<<AfterResponse("stale_response", 1, 0), BeforeForward("delay", 1, 1)>>, 0),
     Posts(<<BeforeForward("drop", 1, 1), AfterResponse("drop", 1, 0)>>, 0),
     Posts(<<BeforeForward("duplicate", 1, 1), AfterResponse("truncate", 1, 0)>>, 0)}

\* Nostr: each sender with lost answers, a refused delivery with a second
\* attempt, a receiver restart, and an event that is no payment; with two ticks
\* the payload expires.
MCExpiresAt == [p \in Payments |-> 2]
Plan(t, f, c, s, q, y, k, w) ==
    [attempts |-> t, faults |-> f, refused |-> c, restarts |-> s, polls |-> q, strays |-> y,
     ticks |-> k, sender |-> w]
MCPlans ==
    {Plan(1, 1, 0, 0, 2, 0, 2, "cashu_ts"), Plan(1, 2, 0, 0, 1, 0, 0, "reference"),
     Plan(2, 0, 1, 0, 1, 0, 2, "reference"), Plan(1, 0, 0, 1, 2, 0, 1, "reference"),
     Plan(1, 0, 0, 0, 1, 1, 0, "cashu_ts")}

\* Nutzap: two devices that redeem, spend and synchronise at once, two workers
\* on one device, repeated redemptions with two faults, a device without its key,
\* history for the relays of a sender who changed them, or who names none.
MCDeviceOf == w1 :> a @@ w2 :> b @@ w3 :> a
Zaps(x, y, z, f, k) == [runs |-> (w1 :> x @@ w2 :> y @@ w3 :> z), faults |-> f, keyless |-> k,
                        native |-> {b}, routed |-> FALSE, lists |-> [r \in Relays |-> {}]]
Routing(z, lists) == [z EXCEPT !.routed = TRUE, !.lists = lists]
MCRelayLists == <<[name |-> "L1", reads |-> {q5}], [name |-> "L2", reads |-> {q3, q4}]>>
MCZapCampaigns ==
    {Zaps(<<"receive", "spend", "sync", "spend">>, <<"receive", "spend", "sync">>, <<>>, 1, {}),
     Zaps(<<"receive", "spend">>, <<"receive">>, <<"sync">>, 0, {}),
     Zaps(<<"receive", "spend">>, <<>>, <<"spend", "sync">>, 1, {}),
     Zaps(<<"receive", "receive">>, <<"receive", "receive">>, <<>>, 2, {}),
     Zaps(<<"receive">>, <<"receive">>, <<>>, 0, {b}),
     Routing(Zaps(<<"receive">>, <<>>, <<"receive">>, 1, {}), q1 :> {2} @@ q2 :> {1}),
     Routing(Zaps(<<"receive", "receive">>, <<>>, <<>>, 1, {}), [r \in Relays |-> {}])}

\* The scenarios: one journal; two TypeScript devices; a TypeScript and a Rust
\* device, each of them first or crashed; history for the sender; a rotated key.
MCPair == <<a, b>>
MCCrew == <<w1, w2, w3>>
Play(family, fault, native, winner) ==
    [family |-> family, fault |-> fault, native |-> native, winner |-> winner]
MCScenarios ==
    {Play("shared", f, {}, 0) : f \in {"none", "concurrent", "crash", "swap", "publish"}} \cup
    {Play("independent", f, {}, 0) : f \in {"none", "crash", "outage"}} \cup
    {Play("independent", "none", {b}, 0), Play("independent", "crash", {b}, 1),
     Play("independent", "crash", {b}, 2)} \cup
    {Play("post-spend", f, n, 0) : f \in {"none", "crash"}, n \in {{}, {a}, {b}}} \cup
    {Play("concurrent-spend", f, n, 1) : f \in {"none", "crash"}, n \in {{}, {b}}} \cup
    {Play("concurrent-spend", f, {b}, 2) : f \in {"none", "crash"}} \cup
    {Play("routing", f, {}, 0) : f \in {"stale", "outage", "publish"}} \cup
    {Play("rotation", f, n, 0) : f \in {"none", "crash", "missing"}, n \in {{}, {a}}}

\* Funded senders: repeated and concurrent sends with a reset, a lost answer and
\* a killed process, for each adapter; every crash boundary, and its second hit.
Pay(d, bill) == [op |-> "send", id |-> d, bill |-> bill]
ResetRun == [op |-> "reset", id |-> Nil, bill |-> Nil]
ArmAt(x, n) == [op |-> "arm", id |-> Nil, bill |-> Nil, at |-> x, occurrence |-> n]
Tour(adapter, armed, x, y, z, losses, kills, exact, expires) ==
    [adapter |-> adapter, control |-> armed, calls |-> (c1 :> x @@ c2 :> y @@ c3 :> z),
     losses |-> losses, kills |-> kills, exact |-> exact, expires |-> expires]
Overlapping ==
    Tour("memory", FALSE, <<ResetRun, Pay(d1, b1)>>, <<Pay(Nil, b2), ResetRun>>, <<>>,
         1, 1, TRUE, FALSE)
MCTours ==
    {Tour("memory", FALSE, <<ResetRun, Pay(d1, b1), Pay(d1, b1)>>, <<Pay(d1, b1)>>, <<>>,
          1, 0, FALSE, FALSE),
     Overlapping,
     Tour("postgres", FALSE, <<ResetRun, Pay(d1, b1), Pay(d1, b1)>>, <<Pay(d1, b2)>>, <<>>,
          1, 1, FALSE, TRUE),
     Tour("cdk", FALSE, <<ResetRun, Pay(d1, b1), Pay(d1, b1)>>, <<Pay(Nil, b1), ResetRun>>,
          <<Pay(d1, b3), Pay(d1, b2)>>, 1, 1, FALSE, TRUE)} \cup
    {Tour("postgres", TRUE, <<ResetRun, ArmAt(x, 1), Pay(d1, b1), Pay(d1, b1)>>, <<Pay(Nil, b2)>>,
          <<>>, 1, 0, FALSE, FALSE) :
        x \in {"sender_before_proof_reservation",
               "sender_after_reservation_before_payload_persistence",
               "sender_after_payload_persistence_before_network_send",
               "sender_after_send_before_response"}} \cup
    {Tour("postgres", TRUE,
          <<ResetRun, ArmAt("sender_after_send_before_response", 2), Pay(d1, b1), Pay(d1, b1)>>,
          <<Pay(d1, b1)>>, <<>>, 0, 0, FALSE, FALSE)}

\* Receivers: a reset to another seed with a payment still handled, a reset to
\* the same seed, and payments that contend for a request or a proof.
Session(seeds, names, checkpoints, losses) ==
    [seeds |-> seeds, names |-> names, checkpoints |-> checkpoints, losses |-> losses]
MCSessions ==
    {Session(<<"s", "t">>, {"pay"}, FALSE, 1), Session(<<"s", "s">>, {"pay"}, FALSE, 0),
     Session(<<"s">>, {"pay", "other_request"}, FALSE, 1),
     Session(<<"s">>, {"pay", "other_proof"}, TRUE, 1)}

\* Wallet doctor: what the wallet does (mints, spends and how they go wrong),
\* then one capture, checked or repaired.
Case(mints, spends, modes, resets, faults, parts, keyless, use) ==
    [mints |-> mints, spends |-> spends, modes |-> modes, resets |-> resets, faults |-> faults,
     parts |-> parts, captures |-> 1, keyless |-> keyless, checks |-> use = "check",
     repairs |-> use = "repair"]
MCRelaySeq == <<"q1", "q2">>
MCCases ==
    {Case(1, 1, {"partial-publish", "partial-delete"}, 0, 1, 0, FALSE, "repair"),
     Case(2, 1, {"partial-delete"}, 0, 0, 0, FALSE, "repair"),
     Case(1, 0, {}, 1, 0, 0, TRUE, "check"),
     Case(1, 1, {"delete-only", "partial-delete-only"}, 0, 0, 0, FALSE, "check"),
     Case(1, 0, {}, 0, 0, 1, FALSE, "check"),
     Case(1, 2, {"ghost"}, 0, 1, 0, FALSE, "repair"),
     Case(1, 1, {"clean"}, 0, 0, 0, FALSE, "check")}

\* Scenario runner: against external adapters two sends at once, a duplicated
\* request with a restart, a crash; and each reference lane.
SendStep == [type |-> "send"]
StartOf(o) == [type |-> "start_send", operation |-> o]
Await(o) == [type |-> "await_send", operation |-> o]
FaultOf(target, kind) == [type |-> "configure_fault", target |-> target, kind |-> kind]
CrashOf(component) == [type |-> "arm_crash", component |-> component, ambiguous |-> TRUE]
Reboot(component) == [type |-> "restart", component |-> component]
Clear(target) == [type |-> "clear_faults", target |-> target]
AdvanceStep == [type |-> "advance_time"]
Quiet == [type |-> "assert_quiescent"]
Scenario(in, commands, conflict, transports, gateway, known) ==
    [lane |-> in, commands |-> commands, conflict |-> conflict, transports |-> transports,
     gateway |-> gateway, authority |-> known, declares |-> known, tries |-> 2]
External(commands, gateway) == Scenario("external", commands, "none", <<"http">>, gateway, TRUE)
Reference(in, commands) == Scenario(in, commands, "none", <<"http">>, FALSE, TRUE)
Conflict(kind, last) == Scenario("conflict", <<SendStep, SendStep, last>>, kind, <<"http">>, FALSE, TRUE)
MCScripts ==
    {[External(<<StartOf("o1"), StartOf("o2"), Await("o1"), Await("o2"), Quiet>>, FALSE)
        EXCEPT !.tries = 1],
     External(<<FaultOf("http", "duplicate"), SendStep, Reboot("receiver"), Clear("http"), SendStep, Quiet>>,
              TRUE),
     External(<<CrashOf("receiver"), SendStep, Quiet>>, FALSE),
     External(<<FaultOf("http", "duplicate"), SendStep>>, TRUE),
     Scenario("external", <<SendStep>>, "none", <<"http", "nostr">>, FALSE, FALSE),
     External(<<FaultOf("nostr", "drop_response")>>, TRUE),
     External(<<StartOf("o1"), StartOf("o1")>>, FALSE),
     External(<<Await("o1")>>, FALSE),
     Reference("http", <<FaultOf("http", "drop_request"), SendStep, Quiet>>),
     Scenario("nostr", <<FaultOf("http", "drop_response"), SendStep, Clear("http"), Quiet>>, "none",
              <<"http", "nostr">>, FALSE, TRUE),
     Reference("crash", <<FaultOf("mint", "timeout_after_commit"), SendStep, Reboot("receiver"),
                          Clear("mint"), SendStep, Quiet>>),
     Reference("nut19", <<FaultOf("mint", "timeout_after_commit"), SendStep, Reboot("receiver"), SendStep,
                          Quiet>>),
     Conflict("delivery_conflict", Quiet), Conflict("proof_conflict", Quiet),
     Conflict("single_use_conflict", Clear("all")),
     Reference("expiry", <<AdvanceStep, SendStep, Quiet>>),
     Reference("expiry", <<AdvanceStep, Reboot("receiver")>>),
     Reference("expiry", <<SendStep, SendStep>>),
     Reference("security", <<FaultOf("http", "redirect"), SendStep>>)}

\* Release gate: two senders of the same build and of different builds with one
\* receiver, a receiver that is not durable, pairs of one implementation, and
\* incompatible or development adapters; one or two scenarios.
Adapter(id, build, language, role, mints, durability) ==
    [id |-> id, build |-> build, implementation |-> build, language |-> language,
     development |-> FALSE, compatible |-> TRUE, roles |-> role, mints |-> mints,
     durability |-> durability, tier |-> durability]
Alice == Adapter("alice", "x", "ts", {"sender"}, {"m1"}, 2)
Alias == Adapter("alias", "x", "ts", {"sender"}, {"m1"}, 2)
Bob == Adapter("bob", "y", "rust", {"receiver"}, {"m1", "m2"}, 2)
Carol == Adapter("carol", "z", "ts", {"sender"}, {"m2"}, 2)
Frail == Adapter("frail", "v", "rust", {"receiver"}, {"m1"}, 1)
Policy(pairs, mints, cross) ==
    [pairs |-> pairs, mints |-> mints, crossImplementation |-> cross, crossLanguage |-> cross,
     distinctBuilds |-> cross, senderTier |-> 2, receiverTier |-> 1, scenarios |-> {"s1"},
     invariants |-> {"i1"}, confidence |-> {"observed", "derived"}]
Suite(id, durability) ==
    [id |-> id, durability |-> durability, logical |-> id # "s3", required |-> {"i1"}]
Fleet(adapters, suite, policy) ==
    [adapters |-> adapters, suite |-> suite, minimum |-> 1, policy |-> policy]
MCFleets ==
    {Fleet(<<Alice, Bob, Alias>>, <<Suite("s1", 1)>>, Policy(2, 1, TRUE)),
     Fleet(<<Alice, Bob, Carol>>, <<Suite("s1", 1)>>, Policy(2, 2, TRUE)),
     Fleet(<<Alice, Bob>>, <<Suite("s1", 1), Suite("s2", 2)>>, Policy(1, 1, TRUE)),
     Fleet(<<Alice, Frail>>, <<Suite("s1", 1), Suite("s2", 2)>>, Policy(1, 1, TRUE)),
     Fleet(<<Alice, Bob>>, <<Suite("s3", 1)>>, Policy(0, 0, TRUE)),
     Fleet(<<[Alice EXCEPT !.roles = {"sender", "receiver"}], Bob>>, <<Suite("s1", 1)>>,
           Policy(1, 1, FALSE)),
     Fleet(<<Alice, [Bob EXCEPT !.compatible = FALSE]>>, <<Suite("s1", 1)>>, Policy(0, 0, FALSE)),
     Fleet(<<Alice, [Bob EXCEPT !.development = TRUE, !.mints = {}]>>, <<Suite("s1", 1)>>,
           Policy(0, 0, FALSE))}
Result(status, invariant, confidence) ==
    [status |-> status,
     invariants |-> [i \in {"i1"} |-> [status |-> invariant, confidence |-> confidence]]]
MCOutcomes ==
    {Result("passed", "passed", "observed"), Result("passed", "passed", "adapter_claimed"),
     Result("passed", "not_applicable", "derived"), Result("failed", "passed", "observed"),
     Result("failed", "failed", "observed"), [status |-> "failed", invariants |-> <<>>],
     [status |-> "not_applicable", invariants |-> <<>>]}

ASSUME GatewayAssumption == GatewayConstants

-----------------------------------------------------------------------------
\* A part that is not the lane's does not move.
GatewayIdle == campaign = Posts(<<BeforeForward("drop", 1, 1), AfterResponse("drop", 1, 0)>>, 0) /\ GatewayInit
NostrIdle == budget = Plan(1, 0, 0, 1, 2, 0, 1, "reference") /\ NostrInit
NutzapIdle == agenda = Zaps(<<>>, <<>>, <<>>, 0, {}) /\ ZapBegin /\ zScript = <<>>
FundedIdle == tour = Overlapping /\ FundInit
ReceiverIdle == session = Session(<<"s">>, {"pay", "other_request"}, FALSE, 1) /\ MemoryInit
DoctorIdle ==
    /\ dBudget = <<>> /\ clock = <<>> /\ wallet = <<>> /\ task = <<>> /\ dRelay = <<>>
    /\ withheld = <<>> /\ dMint = <<>> /\ doctor = <<>> /\ repair = <<>>
RunnerIdle ==
    /\ script = <<>> /\ sRun = <<>> /\ oracle = <<>> /\ driver = <<>> /\ op = <<>>
    /\ world = <<>>
ReleaseIdle == fleet = Fleet(<<Alice, Bob>>, <<Suite("s3", 1)>>, Policy(0, 0, TRUE)) /\ GateInit

LabInit ==
    /\ lane \in {"gateway", "nostr", "nutzap", "funded", "receiver", "doctor", "runner",
                "release"}
    /\ IF lane = "gateway" THEN GatewayInit ELSE GatewayIdle
    /\ IF lane = "nostr" THEN NostrInit ELSE NostrIdle
    /\ IF lane = "nutzap" THEN Nutzap!ScenarioInit ELSE NutzapIdle
    /\ IF lane = "funded" THEN FundInit ELSE FundedIdle
    /\ IF lane = "receiver" THEN MemoryInit ELSE ReceiverIdle
    /\ IF lane = "doctor" THEN Doctor!WDInit ELSE DoctorIdle
    /\ IF lane = "runner" THEN Runner!SRInit ELSE RunnerIdle
    /\ IF lane = "release" THEN GateInit ELSE ReleaseIdle

LabNext ==
    /\ UNCHANGED lane
    /\ \/ /\ lane = "gateway" /\ GatewayNext
          /\ UNCHANGED <<nostrVars, nutzapVars, fundVars, memoryVars, doctorVars, srVars, gateVars>>
       \/ /\ lane = "nostr" /\ NostrNext
          /\ UNCHANGED <<gatewayVars, nutzapVars, fundVars, memoryVars, doctorVars,
                       srVars, gateVars>>
       \/ /\ lane = "nutzap" /\ Nutzap!ScenarioNext
          /\ UNCHANGED <<gatewayVars, nostrVars, fundVars, memoryVars, doctorVars,
                       srVars, gateVars>>
       \/ /\ lane = "funded" /\ FundNext
          /\ UNCHANGED <<gatewayVars, nostrVars, nutzapVars, memoryVars, doctorVars,
                       srVars, gateVars>>
       \/ /\ lane = "receiver" /\ MemoryNext
          /\ UNCHANGED <<gatewayVars, nostrVars, nutzapVars, fundVars, doctorVars, srVars, gateVars>>
       \/ /\ lane = "doctor" /\ Doctor!WDNext
          /\ UNCHANGED <<gatewayVars, nostrVars, nutzapVars, fundVars, memoryVars,
                       srVars, gateVars>>
       \/ /\ lane = "runner" /\ Runner!SRNext
          /\ UNCHANGED <<gatewayVars, nostrVars, nutzapVars, fundVars, memoryVars,
                       doctorVars, gateVars>>
       \/ /\ lane = "release" /\ GateNext
          /\ UNCHANGED <<gatewayVars, nostrVars, nutzapVars, fundVars, memoryVars,
                       doctorVars, srVars>>

LabSpec == LabInit /\ [][LabNext]_labVars

-----------------------------------------------------------------------------
(* The properties of the instantiated modules, in their lanes. *)

\* Nutzap: the scenarios of the harness pass, whatever order its processes take.
ScenariosPass == lane = "nutzap" => Nutzap!ScenariosPass

\* Wallet doctor: a healthy verdict is true of the relays and the mint.
HealthyMeansWhole == [][lane = "doctor" => Doctor!HealthyStep]_labVars

\* Wallet doctor: executing a plan that was let through loses no value.
RepairLosesNothing == lane = "doctor" => Doctor!RepairLosesNothing

\* Scenario runner: a passed run is a payment made exactly once.
PassedMeansPaidOnce == lane = "runner" => Runner!PassedMeansPaidOnce
=============================================================================
