--------------------------- MODULE NutzapScenario ---------------------------
(***************************************************************************)
(* The scripted nutzap scenarios of packages/nutzap-recovery: a harness    *)
(* starts receiver processes on the two devices of one wallet, holds them  *)
(* at barriers, kills them at checkpoints, partitions or restarts the      *)
(* relays, takes snapshots, and at the end judges the evidence.  A script  *)
(* is a sequence of steps; what runs inside a step is NutzapRecovery.      *)
(* With no script the devices work by themselves.                          *)
(***************************************************************************)
EXTENDS NutzapRecovery, ReceivingKeys, TLC

CONSTANTS
    DevicePair,    \* the two devices, in the order of the harness
    Crew,          \* a worker of each device, and a second one of the first
    Scenarios      \* [family, fault, native, winner]

VARIABLE script    \* the scenario, its next step, what the harness noted

scenarioVars == <<zapVars, script>>

-----------------------------------------------------------------------------
(* Steps of a script. *)

Results == {"complete", "pending", "recovery-blocked", "publication-pending", "awaiting-peer",
            "spend-conflict", "killed"}

\* Run: start the workers "who" and wait for them all.  A result that is not
\* wanted makes the harness throw.
Blank == [do |-> "note", who |-> {}, op |-> "none", want |-> [w \in Workers |-> Results],
          gate |-> "none", kill |-> {}, fault |-> "none", again |-> FALSE, as |-> "none",
          events |-> {}, relays |-> {}, info |-> 0, secret |-> FALSE]
Run(who, op) == [Blank EXCEPT !.do = "run", !.who = who, !.op = op]
Must(w, op, result) == [Run({w}, op) EXCEPT !.want[w] = {result}]
Note(name) == [Blank EXCEPT !.as = name]
Partition(events) == [Blank EXCEPT !.do = "partition", !.events = events]
Close(relays) == [Blank EXCEPT !.do = "close", !.relays = relays]
Listen(relays) == [Blank EXCEPT !.do = "listen", !.relays = relays]
Learn == [Blank EXCEPT !.do = "learn"]
Key(info, secret) == [Blank EXCEPT !.do = "key", !.info = info, !.secret = secret]
Switch == [Blank EXCEPT !.do = "switch"]

\* Repeat the delivery until a whole round completes, at most n times.
Round(ws) == [i \in 1 .. Len(ws) |-> [Run({ws[i]}, "receive") EXCEPT !.again = TRUE]]
             \o <<[Blank EXCEPT !.do = "tally", !.who = {ws[i] : i \in 1 .. Len(ws)},
                                !.again = TRUE]>>
Rounds(n, ws) ==
    LET one == Round(ws) IN [i \in 1 .. n * Len(one) |-> one[((i - 1) % Len(one)) + 1]]

\* One journal: repeated, concurrent or interrupted delivery on one device.
SharedScript(s) ==
    <<IF s.fault = "concurrent" THEN [Run({Crew[1], Crew[3]}, "receive") EXCEPT !.gate = "prepare"]
      ELSE [Run({Crew[1]}, "receive") EXCEPT !.fault = s.fault,
                !.kill = IF s.fault = "crash" THEN {Crew[1]} ELSE {}],
      Note("before")>>
    \o Rounds(3, <<Crew[1]>>) \o <<Note("after")>>

\* Two journals: both devices reach the swap, then race for it (or one is
\* preferred), and nothing is published before the other one waits for a peer.
IndependentScript(s) ==
    (IF s.fault = "outage" THEN <<Close(WalletRelays)>> ELSE <<>>)
    \o <<[Run({Crew[1], Crew[2]}, "receive") EXCEPT !.gate = "swap",
            !.kill = IF s.fault # "crash" THEN {}
                     ELSE IF s.winner = 0 THEN {Crew[1], Crew[2]} ELSE {Crew[s.winner]}],
         Note("before")>>
    \o (IF s.fault = "outage" THEN <<Listen(WalletRelays)>> ELSE <<>>)
    \o Rounds(4, <<Crew[1], Crew[2]>>) \o <<Note("after")>>

\* The first device spends a part; the second sees the old token alone, then the
\* deletion without the replacement, then the replacement without the deletion.
PostSpendScript(s) ==
    LET me == Crew[1]  peer == Crew[2]
        first == IF s.fault = "crash" THEN [Must(me, "spend", "killed") EXCEPT !.kill = {me}]
                 ELSE Must(me, "spend", "complete")
    IN  <<Must(me, "receive", "complete"), Must(peer, "receive", "complete"), Note("redeemed"),
          first, Note("before"), Must(me, "spend", "complete"),
          Partition({"T1", "D0", "H1"}), Run({peer}, "sync"), Note("stale"),
          Partition({"T1"}), Run({peer}, "sync"), Note("deleted"),
          Partition({"D0"}), Run({peer}, "sync"), Note("replaced"), Partition({}),
          Must(me, "sync", "complete"), Run({me}, "receive"),
          Must(peer, "sync", "complete"), Run({peer}, "receive"),
          Must(me, "sync", "complete"), Must(peer, "sync", "complete"), Note("after")>>

\* Both devices spend the same proofs behind a partition; one wins at the mint.
ConcurrentSpendScript(s) ==
    LET winner == Crew[s.winner]  loser == Crew[3 - s.winner]
        crash == s.fault = "crash"
        race == [Run({winner, loser}, "spend") EXCEPT !.gate = "swap",
                    !.kill = IF crash THEN {winner} ELSE {},
                    !.want = [@ EXCEPT ![winner] = {IF crash THEN "killed" ELSE "complete"},
                                       ![loser] = {"recovery-blocked"}]]
    IN  <<Must(Crew[1], "receive", "complete"), Must(Crew[2], "receive", "complete"),
          Note("redeemed"), Partition(WalletEvents), race, Note("before")>>
        \o (IF crash THEN <<Must(winner, "sync", "awaiting-peer"), Note("reserved")>> ELSE <<>>)
        \o <<Run({loser}, "sync"), Note("blocked"), Must(winner, "spend", "complete"),
             Note("recovered"), Partition({}),
             Must(Crew[1], "sync", "complete"), Must(Crew[2], "sync", "complete"),
             Run({Crew[1], Crew[2]}, "spend"), Note("retried"),
             Run({Crew[1]}, "receive"), Must(Crew[1], "sync", "complete"),
             Run({Crew[2]}, "receive"), Must(Crew[2], "sync", "complete"), Note("after")>>

\* History for the sender: the newer relay list is seen before it is withheld, or
\* the first relay it names is down, or the answer of that relay is lost; then
\* no list can be read any more.
Destination == CHOOSE r \in RelayLists[2].reads : TRUE
RoutingScript(s) ==
    LET me == Crew[1]
    IN  (CASE s.fault = "stale" -> <<Learn, Partition({"L2"})>>
           [] s.fault = "outage" -> <<Close({Destination})>>
           [] OTHER -> <<>>)
        \o <<[Run({me}, "receive") EXCEPT !.fault = s.fault], Note("before")>>
        \o (IF s.fault = "outage" THEN <<Listen({Destination})>> ELSE <<>>)
        \o <<Partition({"L1", "L2"}), Run({me}, "receive"), Note("recovered"),
             Run({me}, "receive"), Note("after")>>

\* The receiving key is rotated before a nutzap for the old key arrives; a second
\* one follows, for the key the sender believes to be current.
Infos == [i \in 1 .. 2 |-> [lock |-> i, at |-> i, mint |-> "mint"]]
RotationScript(s) ==
    LET me == Crew[1]  missing == s.fault = "missing"
        again == Run({me}, "receive")
    IN  <<Key(1, ~ missing), Key(2, TRUE), Note("delayed")>>
        \o (IF missing THEN <<Must(me, "receive", "recovery-blocked"), Note("blocked"), Key(1, TRUE)>>
            ELSE <<>>)
        \o <<IF s.fault = "crash" THEN [Must(me, "receive", "killed") EXCEPT !.kill = {me}]
             ELSE Must(me, "receive", "complete"),
             Note("before"), again, Note("first"), again, Note("old"),
             Switch, again, Note("second"), again, Note("new"),
             Switch, Must(me, "receive", "complete"), Note("old again"),
             Switch, Must(me, "receive", "complete"), Note("new again")>>

Steps(s) ==
    CASE s.family = "shared" -> SharedScript(s)
      [] s.family = "independent" -> IndependentScript(s)
      [] s.family = "post-spend" -> PostSpendScript(s)
      [] s.family = "concurrent-spend" -> ConcurrentSpendScript(s)
      [] s.family = "routing" -> RoutingScript(s)
      [] s.family = "rotation" -> RotationScript(s)

-----------------------------------------------------------------------------
(* Evidence: computed from the snapshots by the rules of the harness. *)

\* What the harness reads: journals, relays, proof states and results.
Snapshot ==
    [rec |-> rec, spent |-> {p \in DOMAIN consumer : Spent(p)},
     view |-> [r \in AllRelays |-> {e \in relayed[r] : e[1] \notin hidden}],
     result |-> [w \in Workers |-> work[w].result]]
Noted(name) == script.notes[name]

\* The simulated mint: 16 units, a fee of one unit per swap.
Fee == 1
Intent(d) == IF script.of.family = "concurrent-spend" /\ d = DevicePair[2] THEN 5 ELSE 4
Amount(p) ==
    CASE p[1] = "zap" -> 16
      [] p[1] = "out" -> 16 - Fee
      [] p[1] = "keep" -> 16 - Fee - Intent(p[2]) - Fee
Balance(r) == IF r.proofs = {} THEN 0 ELSE Amount(CHOOSE p \in r.proofs : TRUE)
Credits(n, ds) == Cardinality({d \in ds : n.rec[d].credit = "local"})

OnRelay(n, r, names) == {e \in n.view[r] : e[1] \in names}
AllAgree(n) == \A r, q \in WalletRelays : n.view[r] = n.view[q]

\* The token and the history are those of the record and hold the planned outputs.
PayloadsMatch(n, r, d) ==
    /\ OnRelay(n, r, {"T0", "T1"}) = {n.rec[d].orig} /\ n.rec[d].orig = <<"T0", d>>
    /\ OnRelay(n, r, {"H0", "H1"}) = {<<"H0", d>>}

\* observeNutzap: one token and one history on every relay, for the record of d.
Observe(n, d, credits, observed, killed, completed) ==
    LET token(r) == OnRelay(n, r, {"T0", "T1"})
        history(r) == OnRelay(n, r, {"H0", "H1"})
        some == CHOOSE r \in WalletRelays : TRUE
        held == {Held(t) : t \in token(some)}
    IN  [credits |-> credits, credited |-> Balance(n.rec[d]), input |-> Amount(Zap),
         output |-> IF held = {} THEN 0 ELSE Amount(CHOOSE p \in held : TRUE),
         sourceSpent |-> Zap \in n.spent, outputsUnspent |-> held \cap n.spent = {},
         tokens |-> [r \in WalletRelays |-> Cardinality(token(r))],
         histories |-> [r \in WalletRelays |-> Cardinality(history(r))],
         agree |-> \A r, q \in WalletRelays :
                     token(r) \cup history(r) = token(q) \cup history(q),
         references |-> \A r \in WalletRelays : history(r) \subseteq {<<"H0", t[2]>> : t \in token(r)},
         payloads |-> \A r \in WalletRelays : PayloadsMatch(n, r, d),
         observed |-> observed, killed |-> killed, completed |-> completed]

\* The rules for every redemption.
RedemptionChecks(e, crash) ==
    /\ e.credits = 1
    /\ e.output > 0 /\ e.input = e.output + Fee /\ e.credited = e.output
    /\ e.sourceSpent /\ e.outputsUnspent
    /\ \A r \in WalletRelays : e.tokens[r] = 1 /\ e.histories[r] = 1
    /\ e.agree /\ e.references
    /\ e.observed /\ (crash => e.killed) /\ e.payloads /\ e.completed

\* The redemption before any spend: what the first device shows.
Initial(n) == Observe(n, DevicePair[1], Credits(n, {DevicePair[1]}), TRUE, FALSE, TRUE)

\* The processes that were killed had credited nothing, and the mint had swapped.
KilledAfterSwap(n, ws) ==
    (\E w \in ws : n.result[w] = "killed") /\ Credits(n, Devices) = 0 /\ Zap \in n.spent

SharedVerdict(s) ==
    LET before == Noted("before")  after == Noted("after")
        killed == KilledAfterSwap(before, {Crew[1]})
        observed == CASE s.fault = "none" -> TRUE
                      [] s.fault = "concurrent" -> script.prepares = 2
                      [] s.fault = "crash" -> killed
                      [] s.fault = "swap" -> script.lost
                      [] s.fault = "publish" ->
                            script.lost /\ before.result[Crew[1]] = "publication-pending"
    IN  RedemptionChecks(Observe(after, DevicePair[1], Credits(after, {DevicePair[1]}), observed,
                                 killed, script.completed), s.fault = "crash")

\* Two wallets, one of which redeemed the nutzap and the other took it over.
IndependentWallets(after, win, output) ==
    /\ script.attempts = 2 /\ script.successes = 1 /\ script.awaited
    /\ Cardinality({d \in Devices : after.rec[d].credit = "relay"}) = 1
    /\ \A d \in Devices : /\ Balance(after.rec[d]) = output
                          /\ after.rec[d].orig = after.rec[win].orig

IndependentVerdict(s) ==
    LET before == Noted("before")  after == Noted("after")
        killed == KilledAfterSwap(before, {Crew[1], Crew[2]})
        outage == /\ script.awaited
                  /\ \E w \in Workers : before.result[w] = "publication-pending"
        win == CHOOSE d \in Devices : after.rec[d].credit = "local"
        e == Observe(after, win, Credits(after, Devices),
                     script.attempts = 2 /\ script.awaited /\ (s.fault = "outage" => outage),
                     killed, script.completed)
    IN  /\ RedemptionChecks(e, s.fault = "crash")
        /\ IndependentWallets(after, win, e.output)
        /\ s.winner # 0 =>
            \A i \in 1 .. 2 :
                before.result[Crew[i]] = "killed" <=> s.fault = "crash" /\ i = s.winner

\* Value and proof states after a spend by d: what was spent, the change, what
\* the recipient could swap.
SpendValue(n, d) ==
    LET paid == IF n.rec[d].spend = "finished" THEN Intent(d) ELSE 0
    IN  /\ n.rec[d].proofs # {} /\ Held(n.rec[d].orig) \in n.spent
        /\ n.rec[d].proofs \cap n.spent = {}
        /\ Amount(<<"out", d>>) = paid + Fee + Balance(n.rec[d])
        /\ paid - Fee > 0

\* The outbox of the spend is on every relay and acknowledged; both wallets show
\* the change, and the old token stays retired.
SpendConverged(n, d) ==
    LET orig == n.rec[d].orig
        box == {<<"T1", d>>, <<"D0", orig[2]>>, <<"H1", d>>}
    IN  /\ Credits(n, Devices) = 1 /\ AllAgree(n)
        /\ \A r \in WalletRelays : box \subseteq n.view[r] /\ \A e \in box : <<r, e>> \in n.rec[d].acks
        /\ \A x \in Devices : /\ Balance(n.rec[x]) = Balance(n.rec[d])
                              /\ n.rec[x].token = <<"T1", d>> /\ orig \in n.rec[x].retired

Sees(n, shown, gone) ==
    \A r \in WalletRelays : OnRelay(n, r, {shown}) # {} /\ OnRelay(n, r, gone) = {}

PostSpendVerdict(s) ==
    LET me == DevicePair[1]  peer == Crew[2]
        redeemed == Noted("redeemed")  after == Noted("after")
        waits(n) == n.result[peer] = "awaiting-peer" /\ Balance(n.rec[DevicePair[2]]) = 0
    IN  /\ RedemptionChecks(Initial(redeemed), FALSE)
        /\ Sees(Noted("stale"), "T0", {"T1", "D0", "H1"}) /\ waits(Noted("stale"))
        /\ Sees(Noted("deleted"), "D0", {"T1"}) /\ waits(Noted("deleted"))
        /\ Sees(Noted("replaced"), "T1", {"D0"})
        /\ Noted("replaced").result[peer] = "complete"
        /\ SpendValue(after, me) /\ SpendConverged(after, me)

\* One of two attempts succeeded, the loser showed no balance behind the
\* partition, and it counts its payment as lost.
RaceIsDecided(after, retried, winner, loser) ==
    /\ script.attempts = 2 /\ script.successes = 1
    /\ \A r \in WalletRelays : Noted("recovered").view[r] = {}
    /\ Noted("blocked").result[Crew[loser]] = "awaiting-peer"
    /\ Balance(Noted("blocked").rec[DevicePair[loser]]) = 0
    /\ retried.result[Crew[winner]] = "complete"
    /\ retried.result[Crew[loser]] = "spend-conflict"
    /\ after.rec[DevicePair[loser]].spend = "conflicted"

ConcurrentSpendVerdict(s) ==
    LET win == DevicePair[s.winner]
        redeemed == Noted("redeemed")  after == Noted("after")  retried == Noted("retried")
    IN  /\ RedemptionChecks(Initial(redeemed), FALSE)
        /\ RaceIsDecided(after, retried, s.winner, 3 - s.winner)
        /\ SpendValue(after, win) /\ SpendConverged(after, win)

\* The relays the sender reads have the history and nothing else, and a relay of
\* an older list has nothing.
HistoryIsRouted(n, d) ==
    \A r \in AllRelays \ WalletRelays :
        n.view[r] = IF r \in RelayLists[2].reads THEN {<<"H0", d>>} ELSE {}

RoutingVerdict(s) ==
    LET d == DevicePair[1]  me == Crew[1]
        before == Noted("before")  recovered == Noted("recovered")  after == Noted("after")
        pending == before.result[me] = "publication-pending"
        observed == IF s.fault = "stale" THEN \A r \in WalletRelays : OnRelay(before, r, {"L2"}) = {}
                    ELSE pending /\ (s.fault = "publish" => script.lost)
    IN  /\ RedemptionChecks(Observe(after, d, Credits(after, {d}), observed, FALSE,
                                    {recovered.result[me], after.result[me]} = {"complete"}), FALSE)
        /\ before.rec[d].list = 2 /\ pending = (s.fault # "stale")
        /\ after.rec[d].orig = before.rec[d].orig /\ HistoryIsRouted(after, d)

\* The sender saw the rotated advertisement on one relay and then the old one on
\* the other, and goes by the newest.
SenderChoice ==
    LET heard == Remember({}, Infos[1], FALSE)
    IN  CurrentInfo(Remember(Remember(heard, Infos[2], FALSE), Infos[1], FALSE))
RotationZaps == [i \in 1 .. 2 |-> [lock |-> IF i = 1 THEN 1 ELSE SenderChoice.lock, mint |-> "mint"]]

\* Duplicates change neither payment, and the outputs of the first stay unspent.
DuplicatesAreStable(d) ==
    /\ \A x \in {<<"old", "old again">>, <<"new", "new again">>} :
          LET before == Noted(x[1])  after == Noted(x[2])
          IN  /\ after.view = before.view
              /\ \A f \in {"credit", "orig", "proofs"} : after.rec[d][f] = before.rec[d][f]
    /\ Noted("old again").rec[d].proofs \cap Noted("old again").spent = {}

\* The new key is the current one, and the secret of the old one is still there.
OldKeyIsKept ==
    /\ CurrentInfo(script.keys) = Infos[2]
    /\ \E k \in script.keys : k.info = Infos[1] /\ k.secret

\* How often the native receiver chose a key, was without one, and swapped.
NativeRotation(s) ==
    /\ script.selected = 7 /\ script.successes = 2
    /\ script.blocked = IF s.fault = "missing" THEN 1 ELSE 0

RotationVerdict(s) ==
    LET d == DevicePair[1]  me == Crew[1]
        both(x, y) == {Noted(x).result[me], Noted(y).result[me]} = {"complete"}
        delayed == Zap \notin Noted("delayed").spent
        old == Observe(Noted("old"), d, Credits(Noted("old"), {d}), delayed,
                       KilledAfterSwap(Noted("before"), {me}), both("first", "old"))
        new == Observe(Noted("new"), d, Credits(Noted("new"), {d}), TRUE, FALSE,
                       both("second", "new"))
        end(x) == Balance(Noted(x).rec[d])
    IN  /\ RedemptionChecks(old, s.fault = "crash") /\ RedemptionChecks(new, FALSE)
        /\ SenderChoice = Infos[2] /\ OldKeyIsKept /\ DuplicatesAreStable(d)
        /\ end("old again") + end("new again") = old.output + new.output
        /\ d \in s.native => NativeRotation(s)

Verified(s) ==
    CASE s.family = "shared" -> SharedVerdict(s)
      [] s.family = "independent" -> IndependentVerdict(s)
      [] s.family = "post-spend" -> PostSpendVerdict(s)
      [] s.family = "concurrent-spend" -> ConcurrentSpendVerdict(s)
      [] s.family = "routing" -> RoutingVerdict(s)
      [] s.family = "rotation" -> RotationVerdict(s)

-----------------------------------------------------------------------------
(* The harness at work. *)

Step == script.steps[script.at]
Scripted == script.phase # "free"
Ready(do) == /\ script.phase = "ready" /\ script.at <= Len(script.steps)
             /\ Step.do = do /\ ~ (Step.again /\ script.completed)
Next1(new) == [new EXCEPT !.at = @ + 1, !.phase = "ready"]
Throw == script' = [script EXCEPT !.phase = "done", !.verdict = "threw"]

Launch ==
    /\ Ready("run")
    /\ script' = [script EXCEPT !.phase = "running"]
    /\ work' = [w \in Workers |->
                   IF w \in Step.who THEN [Idle EXCEPT !.op = Step.op, !.pc = "begin"] ELSE work[w]]
    /\ UNCHANGED <<agenda, rec, consumer, inflight, relayed, hidden>>

Gather ==
    /\ script.phase = "running" /\ \A w \in Step.who : work[w].op = "idle"
    /\ IF \A w \in Step.who : work[w].result \in Step.want[w] THEN script' = Next1(script)
       ELSE Throw
    /\ UNCHANGED zapVars

Tally ==
    /\ Ready("tally")
    /\ script' = Next1([script EXCEPT !.completed =
                          \A w \in Step.who : work[w].result = "complete"])
    /\ UNCHANGED zapVars

SkipRounds ==
    /\ script.phase = "ready" /\ script.at <= Len(script.steps)
    /\ Step.again /\ script.completed
    /\ script' = [script EXCEPT !.at = CHOOSE i \in DOMAIN script.steps :
                     /\ i > script.at /\ ~ script.steps[i].again
                     /\ script.steps[i - 1].again]
    /\ UNCHANGED zapVars

\* Some snapshots must show what the scenario is about, or the harness throws:
\* one event of the outbox out and the proofs spent; a spender that does not show
\* the change it can still restore; a device that settled.
Expected(name) ==
    LET crash == script.of.fault = "crash"
    IN  CASE name = "before" /\ script.of.family = "post-spend" /\ crash ->
                /\ Cardinality({x \in WalletRelays \X {"T1", "D0", "H1"} :
                                  \E e \in relayed[x[1]] : e[1] = x[2]}) = 1
                /\ Spent(Held(rec[DevicePair[1]].orig))
          [] name = "before" /\ script.of.family = "concurrent-spend" /\ crash ->
                LET r == rec[DevicePair[script.of.winner]]
                IN  PendingSpend(r) /\ Spent(Held(r.orig))
          [] name = "before" /\ script.of.family = "rotation" /\ crash ->
                Spent(Zap) /\ rec[DevicePair[1]].credit = "open"
          [] name = "blocked" /\ script.of.family = "rotation" ->
                /\ rec[DevicePair[1]].credit = "absent" /\ ~ Spent(Zap)
                /\ \A r \in WalletRelays : relayed[r] = {}
          [] name = "reserved" -> Balance(rec[DevicePair[script.of.winner]]) = 0
          [] name = "after" /\ script.of.family = "independent" ->
                \E d \in Devices : rec[d].credit = "local"
          [] OTHER -> TRUE

TakeNote ==
    /\ Ready("note")
    /\ IF Expected(Step.as)
       THEN script' = Next1([script EXCEPT !.notes = (Step.as :> Snapshot) @@ @])
       ELSE Throw
    /\ UNCHANGED zapVars

SetPartition ==
    /\ Ready("partition")
    /\ hidden' = Step.events /\ script' = Next1(script)
    /\ UNCHANGED <<agenda, rec, consumer, inflight, relayed, work>>

\* A relay that is started again has lost its events.
SwitchRelays ==
    /\ Ready("close") \/ Ready("listen")
    /\ script' = Next1([script EXCEPT !.down = IF Step.do = "close" THEN Step.relays ELSE {}])
    /\ relayed' = IF Step.do = "close" THEN relayed
                ELSE [r \in AllRelays |-> IF r \in Step.relays THEN {} ELSE relayed[r]]
    /\ UNCHANGED <<agenda, rec, consumer, inflight, hidden, work>>

\* The harness itself looks for the sender's relay lists.
LearnLists ==
    /\ Ready("learn")
    /\ rec' = [rec EXCEPT ![DevicePair[1]].list =
                  Newest(@, {i \in DOMAIN RelayLists : ListEvent(i) \in Shown(WalletRelays)})]
    /\ script' = Next1(script)
    /\ UNCHANGED <<agenda, consumer, inflight, relayed, hidden, work>>

\* The devices without the secret for the current payment.
Keyless(keys, paying) ==
    IF KeyFor(keys, RotationZaps[paying]) = "receives" THEN {} ELSE {DevicePair[1]}

RememberKey ==
    /\ Ready("key")
    /\ IF MayRemember(script.keys, Infos[Step.info])
       THEN LET keys == Remember(script.keys, Infos[Step.info], Step.secret)
            IN  /\ script' = Next1([script EXCEPT !.keys = keys])
                /\ agenda' = [agenda EXCEPT !.keyless = Keyless(keys, script.paying)]
       ELSE Throw /\ UNCHANGED agenda
    /\ UNCHANGED <<rec, consumer, inflight, relayed, hidden, work>>

\* From one payment to the other: they share no record, proof or event.
SwitchPayment ==
    /\ Ready("switch")
    /\ script' = Next1([script EXCEPT !.paying = 3 - @,
                          !.other = [rec |-> rec, consumer |-> consumer, relayed |-> relayed]])
    /\ rec' = script.other.rec /\ consumer' = script.other.consumer
    /\ relayed' = script.other.relayed
    /\ agenda' = [agenda EXCEPT !.keyless = Keyless(script.keys, 3 - script.paying)]
    /\ UNCHANGED <<inflight, hidden, work>>

ReportVerdict ==
    /\ script.phase = "ready" /\ script.at > Len(script.steps)
    /\ script' = [script EXCEPT !.phase = "done",
                    !.verdict = IF Verified(script.of) THEN "passed" ELSE "failed"]
    /\ UNCHANGED zapVars

\* The checkpoints at which a receiver process reports and is killed.
AfterSwap(w) ==
    \/ work[w].op = "receive" /\ work[w].pc = "check"
    \/ work[w].op = "spend" /\ work[w].pc = "commit" /\ script.of.family = "concurrent-spend"
AfterPublication(w) ==
    work[w].op = "spend" /\ work[w].pc = "publish" /\ script.of.family = "post-spend"
Stopped(w) == w \in Step.kill /\ (AfterSwap(w) \/ AfterPublication(w))

Kill(w) ==
    /\ script.phase = "running" /\ w \in Step.kill
    /\ \/ AfterSwap(w) /\ UNCHANGED <<rec, relayed>>
       \/ /\ AfterPublication(w)
          /\ \E r \in WalletRelays :
                /\ relayed' = [relayed EXCEPT ![r] = @ \cup {Outbox(w)[1]}]
                /\ rec' = [rec EXCEPT ![Device(w)].acks = @ \cup {<<r, Outbox(w)[1]>>}]
    /\ Return(w, "killed") /\ UNCHANGED <<agenda, consumer, inflight, hidden, script>>

\* Barriers: both have prepared; both are at the swap, which the preferred one
\* makes first; somebody waits for a peer.
Passes(w) ==
    /\ Step.gate = "prepare" /\ work[w].pc = "reserve" => script.prepares = 2
    /\ Step.gate = "swap" /\ Doing(w, "receive", "publish") => script.awaited
MayReachMint(m) ==
    Step.gate = "swap" =>
        /\ script.attempts = 2
        /\ \A i \in DOMAIN DevicePair :
             i = script.of.winner /\ script.successes = 0 => m[2] = DevicePair[i]

\* The faults of a step: relays that are down, one lost answer to a swap, one
\* lost answer of a relay to the history.
Faulty(w) ==
    LET dropping == IF script.of.family = "routing" THEN Destination
                    ELSE CHOOSE r \in WalletRelays : TRUE
        box == {Outbox(w)[i] : i \in DOMAIN Outbox(w)}
        heard(r, acks) == {e \in box : <<r, e>> \in acks}
        d == Device(w)
    IN  IF script.down # {} /\ work[w].pc \in {"publish", "route"}
        THEN /\ \A r \in script.down : /\ relayed'[r] = relayed[r]
                                        /\ heard(r, rec'[d].acks) = heard(r, rec[d].acks)
             /\ agenda' # agenda => work'[w].skip \ work[w].skip \subseteq script.down
        ELSE IF Step.fault = "swap" /\ ~ script.lost /\ work[w].pc = "swap"
        THEN agenda' # agenda /\ <<Input(w), Device(w)>> \notin inflight
        ELSE IF Step.fault = "publish" /\ work[w].pc \in {"publish", "route"}
                /\ relayed'[dropping] # relayed[dropping]
        THEN /\ box \subseteq relayed'[dropping]
             /\ heard(dropping, rec'[d].acks) = {e \in box : e[1] # "H0"}
        ELSE agenda' = agenda

\* A receiver process takes a step that the barriers and faults leave it.  While
\* the swaps are held, the mint has seen none and answers no state as pending.
Proceed(w) ==
    /\ script.phase = "running" /\ w \in Step.who /\ ~ Stopped(w) /\ Passes(w)
    /\ ReceiveSteps(w) \/ SpendSteps(w) \/ SyncSteps(w)
    /\ Step.gate = "swap" /\ work[w].pc = "states" => work'[w].pc = "swap"
    /\ Faulty(w)
    /\ LET raced == Step.gate = "swap"
           rotated == script.of.family = "rotation"
           moves(x, y) == work[w].pc = x /\ work'[w].pc = y
       IN  script' = [script EXCEPT
            !.prepares = @ + IF Doing(w, "receive", "begin") /\ rec[Device(w)].credit = "absent"
                             THEN 1 ELSE 0,
            !.attempts = @ + IF raced /\ moves("states", "swap") THEN 1 ELSE 0,
            !.successes = @ + IF (raced \/ rotated) /\ moves("swap", "check") THEN 1 ELSE 0,
            !.selected = @ + IF rotated /\ moves("begin", "reserve") THEN 1 ELSE 0,
            !.blocked = @ + IF rotated /\ work'[w].result = "recovery-blocked" THEN 1 ELSE 0,
            !.lost = @ \/ (script.down = {} /\ agenda' # agenda),
            !.awaited = @ \/ (raced /\ work'[w].result = "awaiting-peer")]

MintWorks ==
    /\ script.phase = "running" /\ MintSwap
    /\ \A m \in inflight \ inflight' : MayReachMint(m)
    /\ UNCHANGED script

\* No script loses more answers than this (one to each relay in an outage).
MaxFaults == 2

Free == [phase |-> "free"]
NewScript(s) ==
    [of |-> s, steps |-> Steps(s), at |-> 1, phase |-> "ready", down |-> {}, prepares |-> 0,
     attempts |-> 0, successes |-> 0, selected |-> 0, blocked |-> 0, lost |-> FALSE,
     awaited |-> FALSE, completed |-> FALSE, keys |-> {}, paying |-> 1,
     other |-> [rec |-> rec, consumer |-> consumer, relayed |-> relayed], notes |-> <<>>,
     verdict |-> "none"]

\* One relay holds the newer list, the other one the older.
Posted == LET first == CHOOSE r \in WalletRelays : TRUE
          IN  [r \in WalletRelays |-> IF r = first THEN {2} ELSE {1}]

ScenarioInit ==
    \/ ZapInit /\ script = Free
    \/ \E s \in Scenarios :
        /\ agenda = [runs |-> [w \in Workers |-> <<>>], faults |-> MaxFaults, keyless |-> {},
                     native |-> s.native, routed |-> s.family = "routing",
                     lists |-> IF s.family = "routing" THEN Posted ELSE [r \in WalletRelays |-> {}]]
        /\ ZapBegin /\ script = NewScript(s)

ScenarioNext ==
    \/ ~ Scripted /\ ZapNext /\ UNCHANGED script
    \/ /\ Scripted
       /\ \/ Launch \/ Gather \/ Tally \/ SkipRounds \/ TakeNote \/ SetPartition \/ SwitchRelays
          \/ LearnLists \/ RememberKey \/ SwitchPayment \/ ReportVerdict \/ MintWorks
          \/ \E w \in Workers : Proceed(w) \/ Kill(w)

-----------------------------------------------------------------------------
(* Properties. *)

\* No scenario fails or throws: against the receivers of this repository every
\* script, in every order the processes can take, ends with its fault exercised,
\* one credit, the value conserved, and wallets and relays that agree
\* (runner.ts, independent.ts, cdk.ts, post-spend.ts, concurrent-spend.ts,
\* sender-routing.ts, key-rotation.ts).
ScenariosPass == script.phase = "done" => script.verdict = "passed"
=============================================================================
