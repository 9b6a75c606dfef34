--------------------------- MODULE ScenarioRunner ---------------------------
(***************************************************************************)
(* The runner of delivery scenarios (packages/scenario-runner): it executes *)
(* the commands of a script one by one against a driver, feeds the driver's *)
(* observations to the oracle, and passes or fails the run.                 *)
(*                                                                          *)
(* The drivers are the one for a pair of external adapters, whose sends are *)
(* a series of calls that other sends and the system under test interleave  *)
(* with, and the reference lanes (http, nostr, crash, nut19, conflict,      *)
(* expiry, security), which pay through the in-process reference pair.      *)
(*                                                                          *)
(* The system under test (world) is external: once a payment reached it, it *)
(* may redeem, settle and credit in any order, and more often than it       *)
(* should; whether the run tells is the question.                           *)
(***************************************************************************)
EXTENDS OracleReport

CONSTANTS
    Scripts,       \* [lane, commands, conflict, transports, gateway, authority, declares,
                   \* tries]: tries are the attempts of a driver's send (maxAttempts)
    OpIds          \* operation ids of start_send; a plain send is operation "send"

VARIABLES
    script,        \* the scenario and the driver it runs against
    run,           \* the runner: next command, what it waits for, operations
    oracle,        \* the oracle model
    driver,        \* the driver's own memory
    op,            \* sends in progress or finished
    world          \* the receiver, the mint and the fault gateway

srVars == <<script, run, oracle, driver, op, world>>

Operations == OpIds \cup {"send"}
\* begun: what was true of the world, armed and configured when a send began.
NoSend == [at |-> "idle", tries |-> 0, sent |-> "none", starts |-> 0, observations |-> <<>>,
           begun |-> [credits |-> 0, starts |-> 0, armed |-> {}, rules |-> {}]]
FreshDriver == [rules |-> {}, armed |-> <<>>, reported |-> 0, settled |-> FALSE, sends |-> 0]
FreshWorld == [status |-> "none", credits |-> 0, amount |-> "due", starts |-> 0,
               arrivals |-> 0, applied |-> {}, consumed |-> {}, replays |-> 0]

SRInit ==
    /\ script \in Scripts
    /\ run = [pc |-> 1, status |-> "resetting", wait |-> "none", now |-> 0,
              started |-> {}, awaited |-> {}]
    /\ oracle = EmptyOracleModel
    /\ driver = FreshDriver
    /\ op = [o \in Operations |-> NoSend]
    /\ world = FreshWorld

Lane(lanes) == script.lane \in lanes
External == Lane({"external"})
Command == script.commands[run.pc]
Executing(type) ==
    /\ run.status = "running"
    /\ run.wait = "none"
    /\ run.pc <= Len(script.commands)
    /\ Command.type = type

Failed(r) == [r EXCEPT !.status = "failed", !.wait = "none"]
\* A command completed with this oracle model, which must still be safe.
Completed(r, model) ==
    IF AssertSafety(model.observations) = "ok"
    THEN [r EXCEPT !.pc = @ + 1, !.wait = "none"]
    ELSE Failed(r)
Throws == run' = Failed(run) /\ UNCHANGED <<script, oracle, driver, op, world>>

(***************************************************************************)
(* Starting the run.                                                        *)
(***************************************************************************)

Reset ==
    /\ run.status = "resetting"
    /\ run' = [run EXCEPT !.status = "running"]
    /\ driver' = FreshDriver
    /\ world' = FreshWorld
    /\ UNCHANGED <<script, oracle, op>>

\* Discovery, compatibility, a reset or the new request is refused.
ResetThrows == External /\ run.status = "resetting" /\ Throws

(***************************************************************************)
(* Commands other than sends.                                               *)
(***************************************************************************)

\* Which faults a driver accepts; a rule is named by its command.
GatewayKinds == {"drop_request", "drop_response", "duplicate", "delay", "status"}
ExternalFault(c) == IF script.gateway THEN c.target = "http" /\ c.kind \in GatewayKinds
                                      ELSE c.target \notin {"http", "nostr"}
HttpLaneFault(c) == c.target = "http" /\ c.kind \in {"drop_request", "drop_response", "duplicate"}
NostrLaneFault(c) == c.target \in {"http", "nostr"} /\ c.kind \in {"drop_response", "duplicate"}
MintFault(c) == c.target = "mint" /\ c.kind = "timeout_after_commit"
Configurable(c) ==
    \/ External /\ ExternalFault(c)
    \/ Lane({"http"}) /\ HttpLaneFault(c)
    \/ Lane({"nostr"}) /\ NostrLaneFault(c)
    \/ Lane({"crash", "nut19"}) /\ MintFault(c)
    \/ Lane({"security"})

ConfigureFault ==
    /\ Executing("configure_fault")
    /\ Configurable(Command)
    /\ driver' = [driver EXCEPT !.rules = @ \cup
                     (IF External /\ ~script.gateway THEN {} ELSE {run.pc})]
    /\ run' = Completed(run, oracle)
    /\ UNCHANGED <<script, oracle, op, world>>

ConfigureFaultThrows == Executing("configure_fault") /\ ~Configurable(Command) /\ Throws

\* The arm must show up unhit in the controller's status.
ArmCrash ==
    /\ Executing("arm_crash")
    /\ External
    /\ driver' = [driver EXCEPT !.armed = Append(@, Command.component)]
    /\ run' = Completed(run, oracle)
    /\ UNCHANGED <<script, oracle, op, world>>

ArmCrashThrows == Executing("arm_crash") /\ Throws

\* Restarting: the external receiver may come back without what it knew; the
\* crash lanes recover the delivery, if there is one, with a replay under NUT-19.
Restartable(c) ==
    \/ External
    \/ Lane({"crash"}) /\ c = "sender"
    \/ Lane({"crash", "nut19"}) /\ c = "receiver" /\ world.status # "none"

AfterRestart(c) ==
    {world} \cup
    (IF External /\ c = "receiver" /\ world.status = "settled"
     THEN {[world EXCEPT !.status = "processing"]} ELSE {}) \cup
    (IF Lane({"nut19"}) /\ world.status = "processing"
     THEN {[world EXCEPT !.replays = @ + 1]} ELSE {})

Restart ==
    /\ Executing("restart")
    /\ Restartable(Command.component)
    /\ world' \in AfterRestart(Command.component)
    /\ run' = IF External THEN [run EXCEPT !.wait = "ready"] ELSE Completed(run, oracle)
    /\ UNCHANGED <<script, oracle, driver, op>>

RestartThrows == Executing("restart") /\ ~Restartable(Command.component) /\ Throws

\* Both adapters answer, and a restarted receiver still knows what it settled.
ReadyAfter(c) == c = "receiver" /\ driver.settled => world.status = "settled"

Restarted ==
    /\ run.wait = "ready"
    /\ ReadyAfter(Command.component)
    /\ run' = Completed(run, oracle)
    /\ UNCHANGED <<script, oracle, driver, op, world>>

\* The readiness attempts are used up.
NeverReady ==
    /\ run.wait = "ready"
    /\ Command.component \in {"sender", "receiver"}
    /\ Throws

AdvanceTime ==
    /\ Executing("advance_time")
    /\ run' = Completed([run EXCEPT !.now = @ + 1], oracle)
    /\ UNCHANGED <<script, oracle, driver, op, world>>

Clearable(target) ==
    \/ Lane({"nostr", "nut19", "security"})
    \/ External /\ ~script.gateway
    \/ (External \/ Lane({"http"})) /\ target \in {"all", "http"}
    \/ Lane({"crash"}) /\ target \in {"all", "mint"}

ClearFaults ==
    /\ Executing("clear_faults")
    /\ Clearable(Command.target)
    /\ driver' = [driver EXCEPT !.rules = IF Lane({"nostr", "security"}) THEN @ ELSE {}]
    /\ run' = Completed(run, oracle)
    /\ UNCHANGED <<script, oracle, op, world>>

ClearFaultsThrows == Executing("clear_faults") /\ ~Clearable(Command.target) /\ Throws

AssertQuiescent ==
    /\ Executing("assert_quiescent")
    /\ run' = IF AssertQuiescentLiveness(oracle) = "ok" THEN Completed(run, oracle) ELSE Failed(run)
    /\ UNCHANGED <<script, oracle, driver, op, world>>

(***************************************************************************)
(* Sends: send waits for its result, start_send leaves it to await_send.    *)
(***************************************************************************)

Begin(o) ==
    LET old == op[o].begun
    IN  op' = [op EXCEPT ![o] =
                 [NoSend EXCEPT
                    !.at = IF External THEN "attempt" ELSE "deliver",
                    !.begun = [credits |-> world.credits, starts |-> world.starts,
                               armed |-> old.armed \cup ToSet(driver.armed),
                               rules |-> old.rules \cup driver.rules]]]

Send ==
    /\ Executing("send")
    /\ Begin("send")
    /\ run' = [run EXCEPT !.wait = "send"]
    /\ UNCHANGED <<script, oracle, driver, world>>

StartSend ==
    /\ Executing("start_send")
    /\ Command.operation \notin run.started
    /\ Begin(Command.operation)
    /\ run' = Completed([run EXCEPT !.started = @ \cup {Command.operation}], oracle)
    /\ UNCHANGED <<script, oracle, driver, world>>

StartSendThrows == Executing("start_send") /\ Command.operation \in run.started /\ Throws

Awaitable(o) == o \in run.started \ run.awaited

AwaitSend ==
    /\ Executing("await_send")
    /\ Awaitable(Command.operation)
    /\ run' = [run EXCEPT !.awaited = @ \cup {Command.operation}, !.wait = Command.operation]
    /\ UNCHANGED <<script, oracle, driver, op, world>>

AwaitSendThrows == Executing("await_send") /\ ~Awaitable(Command.operation) /\ Throws

\* The awaited send is over: its observations go to the oracle.
CompleteSend(o) ==
    LET model == FoldLeft(ApplyObservation, oracle, op[o].observations)
    IN  /\ run.wait = o
        /\ op[o].at = "done"
        /\ oracle' = model
        /\ run' = Completed(run, model)
        /\ UNCHANGED <<script, driver, op, world>>

SendFailed(o) == run.wait = o /\ op[o].at = "threw" /\ Throws

(***************************************************************************)
(* The system under test, from the moment a payment was sent to it.         *)
(***************************************************************************)

Live == run.status = "running"
Reached == world.status # "none" \/ (~External /\ \E o \in Operations : op[o].at = "deliver")
Acts(w) == Live /\ Reached /\ world' = w /\ UNCHANGED <<script, run, oracle, driver, op>>

\* Redemptions and credits are counted up to two: one too many.
Redeems == world.starts < 2 /\ Acts([world EXCEPT !.starts = @ + 1])
Credits(amount) ==
    /\ world.credits < 2
    /\ Acts([world EXCEPT !.credits = @ + 1, !.amount = amount])
Accepts == world.status = "none" /\ Acts([world EXCEPT !.status = "processing"])
Settles == world.status = "processing" /\ Acts([world EXCEPT !.status = "settled"])

(***************************************************************************)
(* The external driver's send: the retry loop, then one call per piece of   *)
(* evidence.                                                                *)
(***************************************************************************)

Moves(o, at) == op' = [op EXCEPT ![o].at = at] /\ UNCHANGED <<script, run, oracle, driver, world>>
Throw(o) == Moves(o, "threw")

Duplicated(rules) == Cardinality({r \in rules : script.commands[r].kind = "duplicate"})

\* An attempt goes through the gateway, which applies some of its rules, and
\* may trip an armed crash.
Deliver(o) ==
    /\ Live /\ op[o].at = "attempt"
    /\ \E rules \in SUBSET driver.rules, tripped \in SUBSET ToSet(driver.armed) :
         world' = [world EXCEPT
                     !.status = IF @ = "none" THEN "processing" ELSE @,
                     !.arrivals = IF script.gateway THEN @ + 1 + Duplicated(rules) ELSE @,
                     !.applied = @ \cup rules,
                     !.consumed = @ \cup tripped]
    /\ op' = [op EXCEPT ![o].at = "answer"]
    /\ UNCHANGED <<script, run, oracle, driver>>

\* The sender adapter answers with a receipt, of this payment or not.
Answer(o, sent) ==
    /\ Live /\ op[o].at = "answer"
    /\ op' = [op EXCEPT ![o].at = "crash", ![o].tries = @ + 1, ![o].sent = sent]
    /\ UNCHANGED <<script, run, oracle, driver, world>>

\* The call failed; with a crash armed the driver waits for the restart first.
Unanswered(o) ==
    /\ Live /\ op[o].at = "answer"
    /\ Moves(o, IF driver.armed = <<>> THEN "retry" ELSE "ready")

Ready(o) ==
    /\ Live /\ op[o].at = "ready"
    /\ ReadyAfter(Last(driver.armed))
    /\ Moves(o, "retry")

Retry(o) ==
    /\ Live /\ op[o].at = "retry"
    /\ op[o].tries + 1 < script.tries
    /\ op' = [op EXCEPT ![o].at = "attempt", ![o].tries = @ + 1]
    /\ UNCHANGED <<script, run, oracle, driver, world>>

\* Every crash that was armed must have struck, and the receipt must be ours.
AssertCrashEvidence(o) ==
    /\ Live /\ op[o].at = "crash"
    /\ ToSet(driver.armed) \subseteq world.consumed
    /\ op[o].sent # "foreign"
    /\ Moves(o, "lookup")

Lookup(o) ==
    /\ Live /\ op[o].at = "lookup"
    /\ op[o].sent # "rejected"
    /\ world.status = "settled"
    /\ Moves(o, "ledger")

ExactCredit(w) == w.credits = 1 /\ w.amount = "due"
ExactProof(w) == w.starts > 0

Ledger(o) ==
    /\ Live /\ op[o].at = "ledger"
    /\ ExactCredit(world)
    /\ Moves(o, "proofs")

Proofs(o) ==
    /\ Live /\ op[o].at = "proofs"
    /\ ExactProof(world)
    /\ Moves(o, IF script.authority THEN "redemptions" ELSE "faults")

Redemptions(o) ==
    /\ Live /\ op[o].at = "redemptions"
    /\ world.starts > 0
    /\ op' = [op EXCEPT ![o].at = "faults", ![o].starts = world.starts]
    /\ UNCHANGED <<script, run, oracle, driver, world>>

Times(n, o) == [i \in 1..n |-> o]
Settled(d, payload) == Receipt(d, payload, "settled", "none", 2, "due")

\* A form of Exercised that is content with a request the gateway saw.
ExercisedByArrival == driver.rules # {} => world.arrivals > 0
Exercised == driver.rules # {} => world.arrivals > 0 /\ driver.rules \subseteq world.applied

\* The fault evidence arrives and the observations are put together: redemption
\* starts not reported yet, and the settlement only once.
Report(o) ==
    LET seen == IF script.authority THEN op[o].starts ELSE driver.reported
        attempts == Max({op[o].tries, world.arrivals})
        tried == IF Len(script.transports) = 1
                 THEN Times(attempts, Attempted("A", "pA", "xA", script.transports[1]))
                 ELSE [i \in DOMAIN script.transports |->
                          Attempted("A", "pA", "xA", script.transports[i])]
    IN  /\ Live /\ op[o].at = "faults"
        /\ Exercised
        /\ seen >= driver.reported
        /\ driver' = [driver EXCEPT !.reported = seen, !.settled = TRUE]
        /\ op' = [op EXCEPT ![o].at = "done", ![o].observations =
                     <<Request(TRUE)>> \o tried
                     \o Times(seen - driver.reported, Redemption("A", "xA"))
                     \o <<ProofState("xA", "SPENT")>>
                     \o (IF driver.settled THEN <<>>
                         ELSE <<Settlement("A", "plan"), Credited("A", "credit", "due")>>)
                     \o <<Settled("A", "pA")>>]
        /\ UNCHANGED <<script, run, oracle, world>>

\* A call fails, or its answer does not pass the check of that stage.
Working(o) == op[o].at \notin {"idle", "done", "threw"}
SendThrows(o) ==
    /\ Live /\ Working(o)
    /\ op[o].at # "attempt"
    /\ op[o].at = "retry" => op[o].tries + 1 >= script.tries
    /\ Throw(o)

(***************************************************************************)
(* The reference lanes: a send pays the in-process receiver and then reads  *)
(* its evidence.  Each operator below says which reports a lane can make.   *)
(***************************************************************************)

Paid(d, payload) ==
    <<Settlement(d, "plan"), Credited(d, "credit", world.amount), Settled(d, payload)>>

\* The HTTP lane pays to the end; so does the Nostr lane, over a prefix of the
\* transports.
PaidReport(transports) ==
    IF world.status = "settled" /\ world.credits = 1 /\ world.starts = 1
    THEN {<<Request(TRUE)>>
          \o [i \in DOMAIN transports |-> Attempted("A", "pA", "xA", transports[i])]
          \o <<Redemption("A", "xA"), ProofState("xA", "SPENT")>>
          \o Paid("A", "pA")}
    ELSE {}
NostrLaneReports ==
    UNION {PaidReport(SubSeq(script.transports, 1, n)) : n \in DOMAIN script.transports}

\* The crash lanes send once and then resume; the receipt may be lost, but a
\* sender that recorded a settlement answers from its record.
CrashLaneReports ==
    LET evidence == (IF driver.sends = 0 THEN <<Request(TRUE)>> ELSE <<>>)
                    \o <<Attempted("A", "pA", "xA", "http")>>
                    \o Times(world.starts - driver.reported, Redemption("A", "xA"))
                    \o <<ProofState("xA", "SPENT")>>
    IN  IF world.status = "none" THEN {}
        ELSE (IF driver.settled THEN {} ELSE {evidence})
             \cup (IF world.status = "processing"
                   THEN {Append(evidence, Receipt("A", "pA", "processing", "none", 1, "due"))}
                   ELSE {})
             \cup (IF world.status = "settled" /\ world.credits = 1
                   THEN {evidence \o Paid("A", "pA")} ELSE {})

\* A settlement after a replayed swap shows exactly one replay.
ShowsSettlement(observations) == At(observations, "receiver_settled") # {}
Nut19LaneReports == {r \in CrashLaneReports : ShowsSettlement(r) => world.replays = 1}

\* The second payment of a conflict scenario.
Variant == CASE script.conflict = "delivery_conflict" -> [d |-> "A", payload |-> "pB"]
             [] script.conflict = "proof_conflict" -> [d |-> "B", payload |-> "pA"]
             [] script.conflict = "single_use_conflict" -> [d |-> "B", payload |-> "pB"]
Refused(d, payload) == Receipt(d, payload, "rejected", "conflict", 1, "due")

\* The first payment is reported; a later one must be refused with the code of
\* the conflict (how the receiver answers is chosen here) and start no swap.
FirstConflictReports ==
    LET evidence == <<Request(script.conflict # "proof_conflict"),
                      Attempted("A", "pA", "xA", "http")>>
                    \o Times(world.starts, Redemption("A", "xA"))
    IN  {Append(evidence, Refused("A", "pA"))}
        \cup (IF world.status = "processing"
              THEN {Append(evidence, Receipt("A", "pA", "processing", "none", 1, "due"))}
              ELSE {})
        \cup (IF world.status = "settled" /\ world.credits > 0
              THEN {Append(evidence, ProofState("xA", "SPENT")) \o Paid("A", "pA")}
              ELSE {})

ConflictLaneReports ==
    IF world.credits > 1 THEN {}
    ELSE IF driver.sends = 0 THEN FirstConflictReports
    ELSE IF world.starts # driver.reported THEN {}
    ELSE IF script.conflict = "delivery_conflict" THEN {<<>>}
    ELSE {<<Refused(Variant.d, Variant.payload)>>}

\* Each send of the expiry lane is a new delivery of the same proofs.
ExpiryLaneReports ==
    LET d == IF driver.sends = 0 THEN "A" ELSE "B"
        evidence == (IF driver.sends = 0 THEN <<Request(TRUE)>> ELSE <<>>)
                    \o <<Attempted(d, "pA", "xA", "http"), ProofState("xA", "UNSPENT")>>
    IN  IF world.starts # 0 \/ world.credits # 0 THEN {}
        ELSE {Append(evidence, Receipt(d, "pA", "rejected", "expired", 1, "due"))}
             \cup (IF world.status = "none" THEN {}
                   ELSE {Append(evidence, Receipt(d, "pA", world.status, "none", 2, "due"))})

LaneReports ==
    CASE Lane({"http"}) -> PaidReport(<<"http">>)
      [] Lane({"nostr"}) -> NostrLaneReports
      [] Lane({"crash"}) -> CrashLaneReports
      [] Lane({"nut19"}) -> Nut19LaneReports
      [] Lane({"conflict"}) -> ConflictLaneReports
      [] Lane({"expiry"}) -> ExpiryLaneReports
      [] Lane({"security"}) -> IF driver.rules = {} THEN {} ELSE {<<>>}

LaneReport(o) ==
    /\ Live /\ op[o].at = "deliver"
    /\ \E observations \in LaneReports :
         /\ op' = [op EXCEPT ![o].at = "done", ![o].observations = observations]
         /\ driver' = [driver EXCEPT
                         !.sends = @ + 1, !.reported = world.starts,
                         !.settled = @ \/ ShowsSettlement(observations)]
    /\ UNCHANGED <<script, run, oracle, world>>

(***************************************************************************)
(* The verdict.                                                             *)
(***************************************************************************)

Report18 == EvaluateInvariants(oracle, script.commands, run.pc - 1, script.declares)
Incomplete == \E i \in DOMAIN Report18 : Report18[i] \in {"failed", "not_observable"}
Passes ==
    /\ run.started \subseteq run.awaited
    /\ AssertSafety(oracle.observations) = "ok"
    /\ ~Incomplete

Judge ==
    /\ Live /\ run.wait = "none"
    /\ run.pc > Len(script.commands)
    /\ run' = [run EXCEPT !.status = IF Passes THEN "passed" ELSE "failed"]
    /\ UNCHANGED <<script, oracle, driver, op, world>>

SRNext ==
    \/ Reset \/ ResetThrows
    \/ ConfigureFault \/ ConfigureFaultThrows
    \/ ArmCrash \/ ArmCrashThrows
    \/ Restart \/ RestartThrows \/ Restarted \/ NeverReady
    \/ AdvanceTime \/ ClearFaults \/ ClearFaultsThrows \/ AssertQuiescent
    \/ Send \/ StartSend \/ StartSendThrows \/ AwaitSend \/ AwaitSendThrows
    \/ Redeems \/ (\E amount \in {"due", "other"} : Credits(amount)) \/ Accepts \/ Settles
    \/ \E o \in Operations :
         \/ CompleteSend(o) \/ SendFailed(o)
         \/ Deliver(o)
         \/ \E sent \in {"processing", "settled", "rejected", "foreign"} : Answer(o, sent)
         \/ Unanswered(o) \/ Ready(o) \/ Retry(o)
         \/ AssertCrashEvidence(o) \/ Lookup(o) \/ Ledger(o) \/ Proofs(o)
         \/ Redemptions(o) \/ Report(o) \/ SendThrows(o) \/ LaneReport(o)
    \/ Judge

SRSpec == SRInit /\ [][SRNext]_srVars

Sent == {o \in Operations : op[o].at = "done"}

(***************************************************************************)
(* A run that passed is evidence of a payment that happened once: before    *)
(* the last send the receiver had credited at most once and begun at most   *)
(* one redemption, some send was credited from a redemption (none on the    *)
(* expiry lane), each crash armed for a send had struck, and the gateway    *)
(* had applied each fault configured for a blocking send.  It would fail if *)
(* two sends shared evidence of one, if evidence read at different moments  *)
(* were combined wrongly, or if an unobservable invariant let a run pass    *)
(* (runner.ts:287-336, external-adapter-driver.ts:466-623).                 *)
(***************************************************************************)
PassedMeansPaidOnce ==
    run.status = "passed" =>
        /\ \A o \in Sent : op[o].begun.credits <= 1 /\ op[o].begun.starts <= 1
        /\ Sent # {} /\ ~Lane({"expiry", "security"}) => world.credits >= 1 /\ world.starts >= 1
        /\ Lane({"expiry"}) => \A o \in Sent : op[o].begun.credits + op[o].begun.starts = 0
        /\ \A o \in Sent : op[o].begun.armed \subseteq world.consumed
        /\ External => op["send"].begun.rules \subseteq world.applied
=============================================================================
