-------------------------- MODULE LifecycleHarness --------------------------
(***************************************************************************)
(* The lab that judges a wallet adapter: a matrix lane of lab-cli resets   *)
(* the adapter, the scenario runner issues the commands of a scenario      *)
(* through HttpLifecycleDriver, the driver turns the views it gets into    *)
(* observations, and the oracle folds the observations into a verdict.     *)
(*                                                                         *)
(* The driver keeps the last phase of each operation and the last wallet   *)
(* it saw, and uses both across awaits.  Two resumes of one operation may  *)
(* run at once, and a call that timed out leaves its worker running in the *)
(* adapter.  The adapter is any that follows the core package's            *)
(* transitions and settles value together with the phase succeeded.        *)
(***************************************************************************)
EXTENDS LifecycleOperation, Sequences, SequencesExt

CONSTANTS
    HOps,          \* operation ids
    Scripts,       \* scenarios: [kind, commands, quiescence, timeouts, redo]
    MaxAttempts    \* attempts at initializing a lane (8 in the code)

VARIABLES
    script,
    pc, attempts, at,          \* the lane and the runner: the next command
    verdict,                   \* what the run and its matrix row came to
    journal, balance, coins,   \* the adapter: its rows, total, proof states
    busy,                      \*   and who runs an operation
    calls,                     \* the driver's calls in flight, in order
    seen, wallet,              \* driver: #phases, #wallet,
    version, noted,            \*   #quoteVersions, #evidenceKeys
    oracle, views,             \* the evaluation; every view taken (history)
    late                       \* timeouts and changed requests so far

adapterVars == <<journal, balance, coins, busy>>
driverVars == <<calls, seen, wallet, version, noted>>
harnessVars ==
    <<script, pc, attempts, at, verdict, adapterVars, driverVars, oracle,
      views, late>>

Kind(op) == script.kind[op]
Started == {c.op : c \in {x \in Range(script.commands) : x.type = "start"}}
Credits == {"mint", "receive", "restore"}

Accounts == {"external", "wallet", "reserved", "out"}

-----------------------------------------------------------------------------
(* The oracle: evaluateLifecycleModel, one observation at a time. *)

NoEvaluation ==
    [ok |-> TRUE, phase |-> [o \in HOps |-> "none"],
     balance |-> [a \in Accounts |-> 0], effects |-> {}, requests |-> {},
     quotes |-> [o \in HOps |-> [amount |-> 0, at |-> 0]],
     proofs |-> [o \in HOps |-> "absent"], proven |-> {}, settled |-> {},
     outputs |-> {}]

ValidProofTransition(from, to) ==
    \/ from = to
    \/ from = "UNSPENT" /\ to \in {"PENDING", "SPENT"}
    \/ from = "PENDING" /\ to \in {"UNSPENT", "SPENT"}

Known(e, op) == e.phase[op] # "none"

\* moveValue: only the outside may go below zero.
MayMove(e, x) ==
    /\ x.amount > 0 /\ x.from # x.to
    /\ x.from # "external" => e.balance[x.from] >= x.amount

\* The checks of one observation.
Accepts(e, x) ==
    CASE x.type = "operation" -> TRUE
      [] x.type = "phase"  -> Known(e, x.op) /\ CanTransition(e.phase[x.op], x.phase)
      [] x.type = "moved"  ->
           /\ Known(e, x.op)
           /\ \A y \in e.effects : <<y.op, y.effect>> = <<x.op, x.effect>> => y = x
           /\ x \in e.effects \/ MayMove(e, x)
      [] x.type = "request" ->
           Known(e, x.op) /\ \A r \in e.requests : r[1] = x.op => r[2] = x.digest
      [] x.type = "quote" ->
           /\ Known(e, x.op)
           /\ x.amount >= e.quotes[x.op].amount /\ x.at >= e.quotes[x.op].at
           /\ x.amount # e.quotes[x.op].amount => x.at > e.quotes[x.op].at
      [] x.type = "proof" ->
           /\ Known(e, x.op)
           /\ \/ e.proofs[x.proof] = "absent"
              \/ ValidProofTransition(e.proofs[x.proof], x.state)
      [] x.type = "settlement" -> Known(e, x.op) /\ Kind(x.op) = "melt"
      [] x.type = "outputs" -> Known(e, x.op)

\* What an accepted observation adds.
Record(e, x) ==
    CASE x.type = "operation" ->
           IF Known(e, x.op) THEN e ELSE [e EXCEPT !.phase[x.op] = "created"]
      [] x.type = "phase" -> [e EXCEPT !.phase[x.op] = x.phase]
      [] x.type = "moved" ->
           IF x \in e.effects THEN e
           ELSE [e EXCEPT !.balance = [@ EXCEPT ![x.from] = @ - x.amount,
                                                ![x.to] = @ + x.amount],
                          !.effects = @ \cup {x}]
      [] x.type = "request" -> [e EXCEPT !.requests = @ \cup {<<x.op, x.digest>>}]
      [] x.type = "quote" ->
           [e EXCEPT !.quotes[x.op] = [amount |-> x.amount, at |-> x.at]]
      [] x.type = "proof" ->
           [e EXCEPT !.proofs[x.proof] = x.state, !.proven = @ \cup {x.op}]
      [] x.type = "settlement" -> [e EXCEPT !.settled = @ \cup {x.op}]
      [] x.type = "outputs" -> [e EXCEPT !.outputs = @ \cup {x.op}]

Apply(e, x) ==
    IF ~ e.ok THEN e
    ELSE IF Accepts(e, x) THEN Record(e, x) ELSE [e EXCEPT !.ok = FALSE]

\* assertLifecycleQuiescence
Quiescent(e) ==
    \A op \in HOps : Known(e, op) =>
        /\ e.phase[op] \in Terminal
        /\ e.phase[op] = "succeeded" =>
            /\ Kind(op) \in {"mint", "swap", "receive", "restore"} => op \in e.outputs
            /\ Kind(op) = "melt" => op \in e.settled
            /\ Kind(op) \in {"mint", "melt", "swap", "send", "receive"} =>
                 \E r \in e.requests : r[1] = op
            /\ Kind(op) = "mint" => e.quotes[op].at > 0
            /\ Kind(op) \in {"swap", "send", "receive", "melt"} => op \in e.proven
            /\ Kind(op) # "reconcile" => \E x \in e.effects : x.op = op

-----------------------------------------------------------------------------
(* The driver's observations. *)

\* Mutant: only the phase seen is reported.
PhaseAlone(from, to) == IF from = to \/ from \in Terminal THEN <<>> ELSE <<to>>

\* phasePath: the phases the adapter must have gone through between two views.
PhasePath(from, to) ==
    IF from = to \/ from \in Terminal THEN <<>>
    ELSE LET a == IF from = "created" THEN <<"prepared">> ELSE <<>>
             p == IF a = <<>> THEN from ELSE "prepared"
             b == IF p = "prepared" /\ to \notin {"prepared", "created"}
                  THEN Append(a, "submitted") ELSE a
             q == IF b = a THEN p ELSE "submitted"
             c == IF /\ q = "submitted"
                     /\ to \in {"ambiguous", "reconciling", "failed_definitive",
                                "recovery_blocked"}
                  THEN Append(b, "ambiguous") ELSE b
             r == IF c = b THEN q ELSE "ambiguous"
             d == IF r = "ambiguous" /\ to \in {"reconciling"} \cup Terminal
                  THEN Append(c, "reconciling") ELSE c
             s == IF d = c THEN r ELSE "reconciling"
         IN  IF s = to THEN d ELSE Append(d, to)

Moved(op, effect, amount, from, to) ==
    [type |-> "moved", op |-> op, effect |-> effect, amount |-> amount,
     from |-> from, to |-> to]

\* #observations: the operation, its phases, its request and its outputs.
ViewObservations(v) ==
    LET from == IF seen[v.op] = "none" THEN "created" ELSE seen[v.op]
        path == PhasePath(from, v.phase)
    IN  (IF seen[v.op] = "none" THEN <<[type |-> "operation", op |-> v.op]>> ELSE <<>>)
        \o [i \in DOMAIN path |-> [type |-> "phase", op |-> v.op, phase |-> path[i]]]
        \o (IF v.digest > 0 /\ Kind(v.op) \notin {"restore", "reconcile"}
            THEN <<[type |-> "request", op |-> v.op, digest |-> v.digest]>> ELSE <<>>)
        \o (IF /\ v.phase = "succeeded"
               /\ Kind(v.op) \in {"mint", "swap", "receive", "restore"}
               /\ v.amount > 0
            THEN <<[type |-> "outputs", op |-> v.op]>> ELSE <<>>)

\* #walletObservations: the proofs, the quote of a mint, and the difference
\* between two wallets as a movement of the operation that succeeded.
WalletObservations(v, before, after, held) ==
    LET proofs == SetToSeq({o \in HOps : held[o] # "absent"})
        delta  == after - before
        paid   == IF v.phase = "succeeded" THEN 1 ELSE 0
    IN  [i \in DOMAIN proofs |->
           [type |-> "proof", op |-> v.op, proof |-> proofs[i],
            state |-> held[proofs[i]]]]
        \o (IF Kind(v.op) = "mint" /\ v.digest > 0
            THEN <<[type |-> "quote", op |-> v.op, amount |-> paid,
                    at |-> version[v.op] + 1]>> ELSE <<>>)
        \o (IF v.phase # "succeeded" THEN <<>>
            ELSE IF delta > 0
            THEN <<Moved(v.op, "credit", delta, "external", "wallet")>>
            ELSE IF delta < 0
            THEN <<Moved(v.op, "debit", - delta, "wallet", "out")>>
            ELSE IF Kind(v.op) = "swap"
            THEN <<Moved(v.op, "reserve", 1, "wallet", "reserved"),
                   Moved(v.op, "release", 1, "reserved", "wallet")>>
            ELSE <<>>)

-----------------------------------------------------------------------------
(* The adapter under test. *)

NoRow == [phase |-> "none", digest |-> 0, uses |-> "none"]
Free == 0
Zombie == 3   \* a worker whose call timed out

\* What a step to the given phase does to the operation's row.
RowAt(op, phase, input) ==
    [journal[op] EXCEPT !.phase = phase,
        !.digest = IF phase = "prepared" THEN 1 ELSE @,
        !.uses = IF phase = "prepared" THEN input ELSE @]

\* The coins an operation may reserve; "none" for one that spends nothing.
Inputs(op) ==
    IF Kind(op) \in {"swap", "send", "melt"}
    THEN {o \in HOps : coins[o] = "UNSPENT"} ELSE {"none"}

\* What a success may do to the balance.
Gains(kind) ==
    CASE kind = "restore" -> {0, 2}
      [] kind \in {"mint", "receive"} -> {2}
      [] kind = "swap" -> {0, -1}
      [] kind = "reconcile" -> {0}
      [] kind \in {"send", "melt"} -> {-1}

\* The worker moves its operation one phase on.  The inputs are reserved with
\* the phase prepared, value and coins move with succeeded.
AdapterStep(op) ==
    /\ busy[op] # Free
    /\ \E phase \in transitions[journal[op].phase] :
       \E input \in IF phase = "prepared" THEN Inputs(op) ELSE {"none"} :
       \E gain \in IF phase = "succeeded" THEN Gains(Kind(op)) ELSE {0} :
        /\ journal' = [journal EXCEPT ![op] = RowAt(op, phase, input)]
        /\ balance' = balance + gain
        /\ coins' = [o \in HOps |->
             IF o = input THEN "PENDING"
             ELSE IF o = journal[op].uses /\ phase = "succeeded" THEN "SPENT"
             ELSE IF \/ o = journal[op].uses /\ phase = "failed_definitive"
                     \/ /\ o = op /\ phase = "succeeded" /\ Kind(op) # "reconcile"
                        /\ gain > 0 \/ Kind(op) = "swap"
             THEN "UNSPENT" ELSE coins[o]]
    /\ UNCHANGED <<script, pc, attempts, at, verdict, busy, driverVars, oracle,
                   views, late>>

\* An adapter at fault plans a second request for a prepared operation.
ChangeRequest(op) ==
    /\ late.redo < script.redo /\ busy[op] # Free
    /\ journal[op].phase = "prepared"
    /\ journal' = [journal EXCEPT ![op].digest = 2]
    /\ late' = [late EXCEPT !.redo = @ + 1]
    /\ UNCHANGED <<script, pc, attempts, at, verdict, balance, coins, busy,
                   driverVars, oracle, views>>

ZombieStops(op) ==
    /\ busy[op] = Zombie
    /\ busy' = [busy EXCEPT ![op] = Free]
    /\ UNCHANGED <<script, pc, attempts, at, verdict, journal, balance, coins,
                   driverVars, oracle, views, late>>

-----------------------------------------------------------------------------
(* The driver's calls. *)

Call(op, how) ==
    [op |-> op, how |-> how, st |-> "queued", view |-> <<>>, before |-> 0,
     after |-> 0, obs |-> <<>>]

View(op) ==
    [op |-> op, phase |-> journal[op].phase, digest |-> journal[op].digest,
     amount |-> IF Kind(op) = "restore" /\ coins[op] = "absent" THEN 0 ELSE 1]

\* The call has its view: #step notes the wallet of the step before.
Taken(c) == [c EXCEPT !.st = "viewed", !.view = View(c.op), !.before = wallet]

runnerUnchanged == UNCHANGED <<script, pc, attempts, at, verdict, oracle>>

\* The adapter takes the operation's lock, or answers at once.
Enter(i) ==
    LET c == calls[i]
        row == journal[c.op]
        answered == \/ row.phase \in Terminal
                    \/ c.how = "start" /\ row.phase \notin {"none", "created"}
    IN  /\ c.st = "queued" /\ busy[c.op] = Free
        /\ IF c.how = "resume" /\ row = NoRow
           THEN calls' = [calls EXCEPT ![i].st = "lookup"]
                /\ UNCHANGED <<journal, busy, views>>
           ELSE IF answered
           THEN /\ calls' = [calls EXCEPT ![i] = Taken(c)]
                /\ views' = views \cup {View(c.op)}
                /\ UNCHANGED <<journal, busy>>
           ELSE /\ calls' = [calls EXCEPT ![i].st = "running"]
                /\ busy' = [busy EXCEPT ![c.op] = i]
                /\ journal' = [journal EXCEPT ![c.op].phase =
                                 IF @ = "none" THEN "created" ELSE @]
                /\ UNCHANGED views
        /\ runnerUnchanged
        /\ UNCHANGED <<balance, coins, seen, wallet, version, noted, late>>

\* start ends in ambiguous, resume in reconciling, or either in a terminal
\* phase: the view is the worker's own.
Return(i) ==
    LET c == calls[i]
    IN  /\ c.st = "running" /\ busy[c.op] = i
        /\ journal[c.op].phase \in
             Terminal \cup {IF c.how = "start" THEN "ambiguous" ELSE "reconciling"}
        /\ busy' = [busy EXCEPT ![c.op] = Free]
        /\ calls' = [calls EXCEPT ![i] = Taken(c)]
        /\ views' = views \cup {View(c.op)}
        /\ runnerUnchanged
        /\ UNCHANGED <<journal, balance, coins, seen, wallet, version, noted, late>>

\* The call never starts, fails with its worker, or the client stops waiting
\* and the worker goes on.
CallFails(i) ==
    LET c == calls[i]
        works == c.st = "running" /\ busy[c.op] = i
    IN  /\ calls' = [calls EXCEPT ![i].st = "lookup"]
        /\ \/ c.st = "queued" /\ UNCHANGED <<busy, late>>
           \/ works /\ busy' = [busy EXCEPT ![c.op] = Free] /\ UNCHANGED late
           \/ /\ works /\ late.timeouts < script.timeouts
              /\ busy' = [busy EXCEPT ![c.op] = Zombie]
              /\ late' = [late EXCEPT !.timeouts = @ + 1]
        /\ runnerUnchanged
        /\ UNCHANGED <<journal, balance, coins, seen, wallet, version, noted, views>>

\* The catch of start and resume: the operation is read instead.
Lookup(i) ==
    LET c == calls[i]
        found == journal[c.op] # NoRow
    IN  /\ c.st = "lookup"
        /\ calls' = [calls EXCEPT ![i] =
             IF found THEN Taken(c) ELSE [c EXCEPT !.st = "failed"]]
        /\ views' = IF found THEN views \cup {View(c.op)} ELSE views
        /\ runnerUnchanged
        /\ UNCHANGED <<adapterVars, seen, wallet, version, noted, late>>

\* Mutant: the wallet read is compared with itself.
ReadWalletTwice(i) ==
    LET v == calls[i].view
    IN  /\ calls[i].st = "viewed"
        /\ calls' = [calls EXCEPT ![i].st = "read", ![i].after = balance,
             ![i].obs = ViewObservations(v) \o WalletObservations(v, balance, balance, coins)]
        /\ seen' = [seen EXCEPT ![v.op] = v.phase]
        /\ runnerUnchanged
        /\ UNCHANGED <<adapterVars, wallet, version, noted, views, late>>

\* #step, once the wallet is read: the observations, from #phases and the
\* wallet noted before.
ReadWallet(i) ==
    LET c == calls[i]
        v == c.view
    IN  /\ c.st = "viewed"
        /\ calls' = [calls EXCEPT ![i].st = "read", ![i].after = balance,
             ![i].obs = ViewObservations(v)
                        \o WalletObservations(v, c.before, balance, coins)]
        /\ seen' = [seen EXCEPT ![v.op] = v.phase]
        /\ version' = [version EXCEPT ![v.op] =
             IF Kind(v.op) = "mint" /\ v.digest > 0 THEN @ + 1 ELSE @]
        /\ runnerUnchanged
        /\ UNCHANGED <<adapterVars, wallet, noted, views, late>>

\* #evidenceObservations: settlements not reported before; then the wallet read
\* becomes the driver's.
ReadEvidence(i) ==
    LET c == calls[i]
        new == {o \in HOps : /\ Kind(o) = "melt" /\ o \notin noted
                             /\ journal[o].phase = "succeeded"}
        ops == SetToSeq(new)
    IN  /\ c.st = "read"
        /\ calls' = [calls EXCEPT ![i].st = "done",
             ![i].obs = @ \o [k \in DOMAIN ops |->
                                [type |-> "settlement", op |-> ops[k]]]]
        /\ noted' = noted \cup new
        /\ wallet' = c.after
        /\ runnerUnchanged
        /\ UNCHANGED <<adapterVars, seen, version, views, late>>

-----------------------------------------------------------------------------
(* The lane and the runner. *)

Fail(code) == verdict' = [status |-> "failed", code |-> code] /\ pc' = "end"

\* initializeLifecycleMatrixLane: clear the faults, reset, read the
\* capabilities; retry what may be a start-up failure.
InitializeLane ==
    /\ pc = "init"
    /\ \/ pc' = "capabilities" /\ UNCHANGED <<attempts, verdict>>
       \/ /\ attempts < MaxAttempts /\ attempts' = attempts + 1
          /\ UNCHANGED <<pc, verdict>>
       \/ Fail("LIFECYCLE_MATRIX_EXECUTION") /\ UNCHANGED attempts
    /\ UNCHANGED <<script, at, adapterVars, driverVars, oracle, views, late>>

\* Another implementation, one without an operation the scenario needs, or the
\* one expected.
CheckCapabilities ==
    /\ pc = "capabilities"
    /\ \/ pc' = "reset" /\ UNCHANGED verdict
       \/ Fail("LIFECYCLE_IDENTITY_MISMATCH")
       \/ /\ verdict' = [status |-> "not_applicable", code |-> "none"]
          /\ pc' = "end"
    /\ UNCHANGED <<script, attempts, at, adapterVars, driverVars, oracle, views,
                   late>>

\* HttpLifecycleDriver.reset, which the runner calls first.
ResetDriver ==
    /\ pc = "reset"
    /\ \/ pc' = "command" /\ UNCHANGED verdict
       \/ Fail("LIFECYCLE_DRIVER")
    /\ UNCHANGED <<script, attempts, at, adapterVars, driverVars, oracle, views,
                   late>>

Command == script.commands[at]

\* The calls of a command.
Issue ==
    /\ pc = "command" /\ at <= Len(script.commands)
    /\ Command.type \in {"start", "resume", "resume_concurrently"}
    /\ pc' = "calls"
    /\ calls' = CASE Command.type = "start"  -> <<Call(Command.op, "start")>>
                  [] Command.type = "resume" -> <<Call(Command.op, "resume")>>
                  [] OTHER -> [i \in 1 .. 2 |-> Call(Command.op, "resume")]
    /\ UNCHANGED <<script, attempts, at, verdict, adapterVars, seen, wallet,
                   version, noted, oracle, views, late>>

\* A fault rule is set or cleared, or a component restarts, its workers lost.
Control ==
    /\ pc = "command" /\ at <= Len(script.commands)
    /\ Command.type \in {"fault", "clear_faults", "restart"}
    /\ \/ /\ at' = at + 1 /\ UNCHANGED <<pc, verdict>>
          /\ busy' = IF Command.type = "restart"
                     THEN [o \in HOps |-> Free] ELSE busy
       \/ Fail("LIFECYCLE_DRIVER") /\ UNCHANGED <<at, busy>>
    /\ UNCHANGED <<script, attempts, journal, balance, coins, driverVars, oracle,
                   views, late>>

\* Promise.all rejects with the first call that fails.
CallsFail ==
    /\ pc = "calls" /\ \E i \in DOMAIN calls : calls[i].st = "failed"
    /\ Fail("LIFECYCLE_DRIVER")
    /\ UNCHANGED <<script, attempts, at, adapterVars, driverVars, oracle, views,
                   late>>

\* The observations of the calls, in the order of the calls, one after the
\* other into the oracle.
Judge ==
    LET obs == FoldLeft(LAMBDA s, c : s \o c.obs, <<>>, calls)
        e   == FoldLeft(Apply, oracle, obs)
    IN  /\ pc = "calls" /\ \A i \in DOMAIN calls : calls[i].st = "done"
        /\ oracle' = e
        /\ calls' = <<>>
        /\ IF e.ok THEN at' = at + 1 /\ pc' = "command" /\ UNCHANGED verdict
           ELSE Fail("LIFECYCLE_INVARIANT") /\ UNCHANGED at
        /\ UNCHANGED <<script, attempts, adapterVars, seen, wallet, version,
                       noted, views, late>>

\* After the last command: quiescence where the scenario asks for it.
Conclude ==
    /\ pc = "command" /\ at > Len(script.commands)
    /\ IF script.quiescence /\ ~ Quiescent(oracle)
       THEN Fail("LIFECYCLE_INVARIANT")
       ELSE pc' = "verify" /\ verdict' = [status |-> "ok", code |-> "none"]
    /\ UNCHANGED <<script, attempts, at, adapterVars, driverVars, oracle, views,
                   late>>

\* verifyLifecycleScenarioSuccess: the row passes when every operation the
\* scenario starts is read back as succeeded.
Verify ==
    /\ pc = "verify" /\ pc' = "end"
    /\ verdict' = IF \A op \in Started : journal[op].phase = "succeeded"
                  THEN [status |-> "passed", code |-> "none"]
                  ELSE [status |-> "failed",
                        code |-> "LIFECYCLE_UNEXPECTED_TERMINAL_PHASE"]
    /\ UNCHANGED <<script, attempts, at, adapterVars, driverVars, oracle, views,
                   late>>

HarnessInit ==
    /\ script \in Scripts
    /\ pc = "init" /\ attempts = 1 /\ at = 1
    /\ verdict = [status |-> "none", code |-> "none"]
    /\ journal = [o \in HOps |-> NoRow] /\ balance = 0
    /\ coins = [o \in HOps |-> "absent"] /\ busy = [o \in HOps |-> Free]
    /\ calls = <<>> /\ seen = [o \in HOps |-> "none"] /\ wallet = 0
    /\ version = [o \in HOps |-> 0] /\ noted = {}
    /\ oracle = NoEvaluation /\ views = {} /\ late = [timeouts |-> 0, redo |-> 0]

HarnessNext ==
    \/ InitializeLane \/ CheckCapabilities \/ ResetDriver
    \/ Issue \/ Control \/ CallsFail \/ Judge \/ Conclude \/ Verify
    \/ \E op \in HOps : AdapterStep(op) \/ ChangeRequest(op) \/ ZombieStops(op)
    \/ \E i \in DOMAIN calls :
        \/ Enter(i) \/ Return(i) \/ CallFails(i) \/ Lookup(i)
        \/ ReadWallet(i) \/ ReadEvidence(i)

-----------------------------------------------------------------------------
(* Properties. *)

\* A restore that finds nothing moves no value.
NothingRestored(op) ==
    Kind(op) = "restore" /\ journal[op].phase = "succeeded" /\ coins[op] = "absent"

\* An adapter that follows the core transitions is never reported for breaking
\* an invariant by commands issued one at a time: whatever a call threw and
\* wherever its worker stopped, the driver's path between two views is one the
\* oracle accepts (phasePath, #walletObservations).  Quiescence fails only for
\* an operation that has not ended or a restore without a find.  A call that
\* times out with its worker running, and two resumes at once, are excepted:
\* their views reach the oracle out of order.
NoFalseAlarm ==
    /\ verdict.code = "LIFECYCLE_INVARIANT"
    /\ late = [timeouts |-> 0, redo |-> 0]
    /\ \A c \in Range(script.commands) : c.type # "resume_concurrently"
    => /\ at > Len(script.commands)
       /\ \E op \in Started : journal[op].phase \notin Terminal \/ NothingRestored(op)

\* A run the runner accepts never showed two requests of one operation.  With
\* commands one at a time and no timeout the oracle's ledger of the wallet is
\* the wallet the adapter holds, so no movement was missed or counted twice,
\* and a row passes only if the oracle saw every operation succeed
\* (#walletObservations, verifyLifecycleScenarioSuccess).
AcceptedRunIsConsistent ==
    verdict.status \in {"ok", "passed"} =>
        /\ \A v, w \in views :
             /\ v.op = w.op /\ Kind(v.op) \notin {"restore", "reconcile"}
             /\ v.digest > 0 /\ w.digest > 0
             => v.digest = w.digest
        /\ /\ late.timeouts = 0
           /\ \A c \in Range(script.commands) : c.type # "resume_concurrently"
           => /\ oracle.balance["wallet"] + oracle.balance["reserved"] = balance
              /\ verdict.status = "passed" =>
                   \A op \in Started : oracle.phase[op] = "succeeded"
=============================================================================
