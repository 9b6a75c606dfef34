--------------------------- MODULE NutzapRecovery ---------------------------
(***************************************************************************)
(* One nutzap, received by several devices of the same wallet: each has a  *)
(* journal of its own (SQLite), reaches the same mint and relays, redeems  *)
(* the nutzap or takes over the redemption of a peer, spends part of it    *)
(* and reconciles its wallet with what the relays show.  The receivers are *)
(* packages/nutzap-recovery (TypeScript) and adapters/cdk/src/nutzap       *)
(* (Rust), which follow the same steps; the native devices of a campaign   *)
(* run the second.  A device may run several workers at a time.            *)
(*                                                                         *)
(* Proofs: "zap" is what the nutzap carries; <<"out", d>> what the swap    *)
(* planned by device d issues; <<"keep", d>> the change of the spend that  *)
(* d planned.  Token events: <<"T0", d>> holds <<"out", d>>, <<"T1", d>>   *)
(* holds <<"keep", d>> and names the token it replaces.                    *)
(***************************************************************************)
EXTENDS Naturals, Sequences, FiniteSets

CONSTANTS
    Devices, Workers,
    ZapCampaigns,  \* [runs, faults, keyless, native, routed, lists]: operations,
                   \* bounds, devices; whether history goes to the sender's
                   \* relays, and which lists of those each relay holds
    DeviceOf,
    WalletRelays,  \* the wallet's own relays
    RelayLists,    \* the sender's relay lists, oldest first: [name, reads]
    None

\* A wallet event is never taken for a relay list (they differ in kind).
WalletEvents == {"T0", "T1", "H0", "H1", "D0"}
ASSUME ZapAssumption ==
    /\ DeviceOf \in [Workers -> Devices] /\ None \notin Devices
    /\ None \notin {"T0", "T1"} \X Devices
    /\ \A i \in DOMAIN RelayLists : RelayLists[i].name \notin WalletEvents
    /\ \A c \in ZapCampaigns : \A r \in WalletRelays : c.lists[r] \subseteq DOMAIN RelayLists

VARIABLES
    agenda,          \* the campaign, with the operations and faults left
    rec,             \* per device, the redemption record
    consumer,        \* mint: which device's plan spent a proof
    inflight,        \* swap requests on their way to the mint
    relayed, hidden, \* stored wallet events; the events withheld
    work             \* per worker, the operation under way

zapVars == <<agenda, rec, consumer, inflight, relayed, hidden, work>>

Tokens == {"T0", "T1"} \X Devices
AllRelays == WalletRelays \cup UNION {RelayLists[i].reads : i \in DOMAIN RelayLists}
ListEvent(i) == <<RelayLists[i].name, i>>
Zap == <<"zap", None>>
Held(t) == <<IF t[1] = "T0" THEN "out" ELSE "keep", t[2]>>
Idle == [op |-> "idle", pc |-> "idle", seen |-> {}, choice |-> {}, drop |-> {},
         skip |-> {}, routes |-> None, result |-> "none"]
NoRecord == [credit |-> "absent", orig |-> None, token |-> None, proofs |-> {},
             retired |-> {}, spend |-> "none", acks |-> {}, list |-> 0, history |-> None]

Spent(p) == consumer[p] # None
Unspent(p) == p[1] = "keep" \/ ~ Spent(p)
\* The outputs of a plan exist once the mint has executed it (restore, verify).
Redeemed(d) == consumer[Zap] = d
SpendDone(d) == \E x \in Devices : consumer[<<"out", x>>] = d
Issued(p) == IF p[1] = "out" THEN Redeemed(p[2]) ELSE SpendDone(p[2])

-----------------------------------------------------------------------------
(* The journal: every operation is one transaction. *)

Reserve(r) == IF r.credit = "absent" THEN [r EXCEPT !.credit = "open"] ELSE r

Credit(r, token, origin) ==
    IF r.credit # "open" THEN r
    ELSE [r EXCEPT !.credit = origin, !.orig = token, !.token = token,
                   !.proofs = {Held(token)}]

PendingSpend(r) == r.spend = "prepared"
CanPrepare(r) == r.token # None /\ r.retired = {} /\ r.proofs # {}
PrepareSpend(r) ==
    IF r.spend # "none" THEN r
    ELSE [r EXCEPT !.spend = "prepared", !.proofs = {}]

\* #wallet: tombstones only grow, and a retired token is refused.
WalletAllowed(r, tokens, drop) == tokens \cap (r.retired \cup drop) = {}
SetWallet(r, tokens, drop) ==
    [r EXCEPT !.retired = @ \cup drop,
              !.token = IF tokens = {} THEN None ELSE CHOOSE t \in tokens : TRUE,
              !.proofs = {Held(t) : t \in tokens}]

\* Mutant: a synchronisation imports what it selected whatever has begun since.
WalletUnchecked(r, tokens, drop) == SetWallet(r, tokens, drop)

\* wallet: a spend begun during the reads bars the import of a balance.
Wallet(r, tokens, drop) ==
    IF PendingSpend(r) /\ tokens # {} THEN r ELSE SetWallet(r, tokens, drop)

ResolveConflict(r, tokens, drop) ==
    IF ~ PendingSpend(r) THEN r ELSE [SetWallet(r, tokens, drop) EXCEPT !.spend = "conflicted"]

FinishSpend(r, d) ==
    IF r.spend = "finished" THEN r
    ELSE [SetWallet(r, {<<"T1", d>>}, {r.orig}) EXCEPT !.spend = "finished"]

-----------------------------------------------------------------------------
(* Steps of a worker. *)

Fault == agenda.faults > 0 /\ agenda' = [agenda EXCEPT !.faults = @ - 1]
Continue(w, pc) == work' = [work EXCEPT ![w].pc = pc]
Return(w, result) == work' = [work EXCEPT ![w] = [Idle EXCEPT !.result = result]]
Doing(w, op, pc) == work[w].op = op /\ work[w].pc = pc
Same == UNCHANGED <<consumer, inflight, relayed, hidden>>
Device(w) == DeviceOf[w]
Native(w) == Device(w) \in agenda.native

Start(w) ==
    /\ work[w].op = "idle" /\ agenda.runs[w] # <<>>
    /\ work' = [work EXCEPT ![w] = [Idle EXCEPT !.op = Head(agenda.runs[w]), !.pc = "begin"]]
    /\ agenda' = [agenda EXCEPT !.runs[w] = Tail(@)]
    /\ UNCHANGED rec /\ Same

\* The process is killed, and loses all but its journal.
Crash(w) ==
    /\ work[w].op # "idle" /\ Fault /\ Return(w, "killed") /\ UNCHANGED rec /\ Same

\* The secret of the advertised receiving key must be at hand.
HasKey(d) == d \notin agenda.keyless

\* To the publication, with the record as it was read.
ToOutbox(w) ==
    work' = [work EXCEPT ![w].pc = "publish", ![w].routes = rec[Device(w)].history]

\* The outputs are prepared (an await) before the record is written; a record
\* that is there by then keeps its plan.
ReceiveBegin(w) ==
    LET d == Device(w)
    IN  /\ Doing(w, "receive", "begin")
        /\ IF HasKey(d) THEN Continue(w, "reserve") ELSE Return(w, "recovery-blocked")
        /\ UNCHANGED <<agenda, rec>> /\ Same

ReserveRecord(w) ==
    LET d == Device(w)
    IN  /\ Doing(w, "receive", "reserve")
        /\ rec' = [rec EXCEPT ![d] = Reserve(@)]
        /\ IF Reserve(rec[d]).credit = "open" THEN Continue(w, "restore") ELSE ToOutbox(w)
        /\ UNCHANGED agenda /\ Same

\* restore, before the swap is tried and after it did not succeed.
RestoreOutputs(w) ==
    LET d == Device(w)
        found == IF work[w].op = "receive" THEN Redeemed(d) ELSE SpendDone(d)
    IN  /\ work[w].op # "idle"
        /\ \/ /\ work[w].pc = "restore"
              /\ Continue(w, IF found THEN "check" ELSE "states")
           \/ /\ work[w].pc = "restore again"
              /\ IF found THEN Continue(w, "check")
                 ELSE IF work[w].op = "receive" THEN Continue(w, "peer")
                 ELSE Return(w, "recovery-blocked")
        /\ UNCHANGED <<agenda, rec>> /\ Same

Input(w) == IF work[w].op = "receive" THEN Zap ELSE Held(rec[Device(w)].orig)

\* states of the inputs: pending ends the operation, unspent leads to the swap.
States(w) ==
    LET p == Input(w)
    IN  /\ work[w].op \in {"receive", "spend"} /\ work[w].pc = "states"
        /\ \/ /\ \E d \in Devices : <<p, d>> \in inflight
              /\ Return(w, IF work[w].op = "receive" THEN "pending" ELSE "recovery-blocked")
              /\ UNCHANGED inflight
           \/ ~ Spent(p) /\ Continue(w, "swap") /\ inflight' = inflight \cup {<<p, Device(w)>>}
           \/ /\ Spent(p) /\ UNCHANGED inflight
              /\ IF work[w].op = "spend" THEN Return(w, "recovery-blocked")
                 ELSE Continue(w, IF Native(w) THEN "peer" ELSE "restore again")
        /\ UNCHANGED <<agenda, rec, consumer, relayed, hidden>>

\* The mint executes a swap or refuses it; it may reach the mint late.
MintSwap ==
    /\ \E m \in inflight :
        /\ inflight' = inflight \ {m}
        /\ consumer' = IF Spent(m[1]) THEN consumer ELSE [consumer EXCEPT ![m[1]] = m[2]]
    /\ UNCHANGED <<agenda, rec, relayed, hidden, work>>

\* Mutant: an unanswered swap is taken for a successful one.
SwapAnswerAssumed(w) ==
    /\ work[w].pc = "swap" /\ <<Input(w), Device(w)>> \notin inflight
    /\ Continue(w, "check")
    /\ UNCHANGED <<agenda, rec>> /\ Same

SwapAnswer(w) ==
    LET p == Input(w)  d == Device(w)
    IN  /\ work[w].pc = "swap"
        /\ \/ <<p, d>> \notin inflight /\ consumer[p] = d /\ Continue(w, "check")
              /\ UNCHANGED agenda
           \/ <<p, d>> \notin inflight /\ consumer[p] # d /\ Continue(w, "restore again")
              /\ UNCHANGED agenda
           \/ Continue(w, "restore again") /\ Fault
        /\ UNCHANGED rec /\ Same

\* Mutant: the states of the inputs are asked, not those of the outputs.
CheckInputs(w) ==
    /\ work[w].op \in {"receive", "spend"} /\ work[w].pc = "check"
    /\ IF Unspent(Input(w)) THEN Continue(w, "commit") ELSE Return(w, "recovery-blocked")
    /\ UNCHANGED <<agenda, rec>> /\ Same

\* The planned outputs must be unspent before they are credited.
Check(w) ==
    LET p == <<IF work[w].op = "receive" THEN "out" ELSE "keep", Device(w)>>
    IN  /\ work[w].op \in {"receive", "spend"} /\ work[w].pc = "check"
        /\ IF Unspent(p) THEN Continue(w, "commit") ELSE Return(w, "recovery-blocked")
        /\ UNCHANGED <<agenda, rec>> /\ Same

CreditLocal(w) ==
    LET d == Device(w)
    IN  /\ Doing(w, "receive", "commit")
        /\ rec' = [rec EXCEPT ![d] = Credit(@, <<"T0", d>>, "local")]
        /\ ToOutbox(w) /\ UNCHANGED agenda /\ Same

\* What the relays that answer show.
Shown(up) == {e \in UNION {relayed[r] : r \in up} : e[1] \notin hidden}
Query(up) == IF up = WalletRelays THEN UNCHANGED agenda ELSE Fault

\* The token that the one history of the redemption names.
PeerTokens(shown) ==
    LET hist == {e \in shown : e[1] = "H0"}
    IN  IF Cardinality(hist) # 1 THEN {}
        ELSE shown \cap {<<"T0", h[2]>> : h \in hist}

\* recoverFromPeer: with the nutzap spent and the token's proofs unspent.
Peer(w) ==
    /\ Doing(w, "receive", "peer")
    /\ \E up \in SUBSET WalletRelays :
        LET shown == Shown(up)
            good == {t \in PeerTokens(shown) :
                       Issued(Held(t)) /\ Spent(Zap) /\ Unspent(Held(t))}
        IN  /\ Query(up)
            /\ IF good = {} THEN Return(w, "awaiting-peer")
               ELSE work' = [work EXCEPT ![w].pc = "credit", ![w].choice = good]
    /\ UNCHANGED rec /\ Same

CreditRelay(w) ==
    LET d == Device(w)
    IN  /\ Doing(w, "receive", "credit")
        /\ \E t \in work[w].choice : rec' = [rec EXCEPT ![d] = Credit(@, t, "relay")]
        /\ ToOutbox(w) /\ UNCHANGED agenda /\ Same

\* The history of a redemption also goes to the relays the sender reads, as the
\* newest relay list known says; the choice is kept with the record.
Routed(w) ==
    /\ work[w].op = "receive" /\ ~ Native(w)
    /\ agenda.routed \/ work[w].routes # None

\* rememberRelayList keeps the newest.
Newest(known, shown) ==
    CHOOSE i \in {known} \cup shown : \A j \in {known} \cup shown : j <= i

\* discoverSenderRelays: without any list it fails if a relay did not answer.
Discover(w) ==
    LET d == Device(w)
    IN  /\ Doing(w, "receive", "discover")
        /\ \E up \in SUBSET WalletRelays :
            LET list == Newest(rec[d].list,
                               {i \in DOMAIN RelayLists : ListEvent(i) \in Shown(up)})
            IN  /\ Query(up)
                /\ rec' = [rec EXCEPT ![d].list = list]
                /\ IF list = 0 /\ up # WalletRelays THEN Return(w, "publication-pending")
                   ELSE work' = [work EXCEPT ![w].pc = "choose",
                           ![w].choice = IF list = 0 THEN {} ELSE RelayLists[list].reads]
        /\ Same

HistoryRelays(w) ==
    /\ Doing(w, "receive", "choose")
    /\ rec' = [rec EXCEPT ![Device(w)].history = IF @ = None THEN work[w].choice ELSE @]
    /\ Continue(w, "route") /\ UNCHANGED agenda /\ Same

\* The events of the record, in the order of the outbox.
Outbox(w) ==
    LET d == Device(w)  o == rec[d].orig
    IN  IF work[w].pc = "route" THEN <<<<"H0", o[2]>>>>
        ELSE IF work[w].op = "receive" THEN <<o, <<"H0", o[2]>>>>
        ELSE <<<<"T1", d>>, <<"D0", o[2]>>, <<"H1", d>>>>

\* The events a relay has not acknowledged; some of them sent to it.
Unacked(w, r) ==
    {i \in DOMAIN Outbox(w) : <<r, Outbox(w)[i]>> \notin rec[Device(w)].acks}
SendEvents(w, r, stored, heard) ==
    /\ relayed' = [relayed EXCEPT ![r] = @ \cup {Outbox(w)[i] : i \in stored}]
    /\ rec' = [rec EXCEPT ![Device(w)].acks = @ \cup {<<r, Outbox(w)[i]>> : i \in heard}]

\* The events not acknowledged go to one relay after the other, and a relay that
\* stores an event may fail to say so.  The first failure ends the operation,
\* except that the TypeScript receive goes on with the other events and relays.
PublishOutbox(w) ==
    LET left(r) == Unacked(w, r)
        targets == IF work[w].pc = "route" THEN rec[Device(w)].history ELSE WalletRelays
        todo == {r \in targets \ work[w].skip : left(r) # {}}
    IN  /\ work[w].op \in {"receive", "spend"} /\ work[w].pc \in {"publish", "route"}
        /\ \/ /\ todo = {} /\ UNCHANGED <<agenda, rec, relayed>>
              /\ IF work[w].pc = "publish" /\ Routed(w)
                 THEN Continue(w, IF work[w].routes = None THEN "discover" ELSE "route")
                 ELSE Return(w, IF work[w].skip = {} THEN "complete" ELSE "publication-pending")
           \/ \E r \in todo : SendEvents(w, r, left(r), left(r)) /\ UNCHANGED <<agenda, work>>
           \/ /\ work[w].op = "receive" /\ ~ Native(w)
              /\ \E r \in todo : \E lost \in SUBSET left(r) \ {{}} : \E stored \in SUBSET lost :
                    /\ SendEvents(w, r, (left(r) \ lost) \cup stored, left(r) \ lost)
                    /\ work' = [work EXCEPT ![w].skip = @ \cup {r}]
              /\ Fault
           \/ /\ work[w].op = "spend" \/ Native(w)
              /\ \E r \in todo : \E n \in left(r), stored \in BOOLEAN :
                    LET before == {i \in left(r) : i < n}
                    IN  SendEvents(w, r, before \cup (IF stored THEN {n} ELSE {}), before)
              /\ Return(w, "publication-pending") /\ Fault
        /\ UNCHANGED <<consumer, inflight, hidden>>

SpendBegin(w) ==
    LET d == Device(w)  r == rec[d]
    IN  /\ Doing(w, "spend", "begin")
        /\ IF r.credit \notin {"local", "relay"} \/ (r.spend = "none" /\ ~ CanPrepare(r))
           THEN Return(w, "error") /\ UNCHANGED rec
           ELSE IF r.spend = "conflicted" THEN Return(w, "spend-conflict") /\ UNCHANGED rec
           ELSE /\ rec' = [rec EXCEPT ![d] = PrepareSpend(@)]
                /\ Continue(w, IF r.spend = "finished" THEN "publish" ELSE "restore")
        /\ UNCHANGED agenda /\ Same

\* finishSpend throws once the spend counts as lost to a peer.
SpendCommit(w) ==
    LET d == Device(w)  r == rec[d]
    IN  /\ Doing(w, "spend", "commit")
        /\ IF r.spend = "conflicted" \/ (r.spend = "prepared" /\ <<"T1", d>> \in r.retired)
           THEN Return(w, "error") /\ UNCHANGED rec
           ELSE rec' = [rec EXCEPT ![d] = FinishSpend(@, d)] /\ Continue(w, "publish")
        /\ UNCHANGED agenda /\ Same

\* syncWallet: with a spend of its own pending, it goes on only when a peer has
\* spent the inputs; spent is read before restore.
SyncBegin(w) ==
    LET r == rec[Device(w)]
    IN  /\ Doing(w, "sync", "begin")
        /\ IF r.credit \notin {"local", "relay"} THEN Return(w, "error")
           ELSE work' = [work EXCEPT ![w].pc = IF PendingSpend(r) THEN "spent" ELSE "read",
                           ![w].seen = {r.orig, r.token} \ {None}, ![w].drop = r.retired]
        /\ UNCHANGED <<agenda, rec>> /\ Same

SyncSpent(w) ==
    /\ Doing(w, "sync", "spent")
    /\ IF Spent(Held(rec[Device(w)].orig)) THEN Continue(w, "own") ELSE Return(w, "awaiting-peer")
    /\ UNCHANGED <<agenda, rec>> /\ Same

SyncOwn(w) ==
    /\ Doing(w, "sync", "own")
    /\ IF SpendDone(Device(w)) THEN Return(w, "awaiting-peer") ELSE Continue(w, "lost")
    /\ UNCHANGED <<agenda, rec>> /\ Same

\* A candidate is the original or its direct replacement, with valid proofs.
Judge(t, orig) ==
    /\ t = orig \/ (t[1] = "T1" /\ rec[t[2]].orig = orig)
    /\ Issued(Held(t))

\* With the one live token, if any, and the tokens to drop.
SyncSelect(w, one, drop) ==
    LET d == Device(w)  orig == rec[d].orig
        pc == IF work[w].pc = "lost" /\ one # {} THEN "resolve" ELSE "write"
        all == drop \cup (IF one # {} /\ one # {orig} THEN {orig} ELSE {})
    IN  IF work[w].pc = "lost" /\ (one = {orig} \/ one = {<<"T1", d>>})
        THEN Return(w, "awaiting-peer")
        ELSE work' = [work EXCEPT ![w].pc = pc, ![w].choice = one, ![w].drop = all]

\* Deletions and spent proofs retire tokens; one live token must remain.
SyncRead(w) ==
    /\ Doing(w, "sync", "read") \/ Doing(w, "sync", "lost")
    /\ \E up \in SUBSET WalletRelays, blind \in BOOLEAN :
        LET shown == Shown(up)
            dead == work[w].drop \cup {<<"T0", e[2]>> : e \in {x \in shown : x[1] = "D0"}}
            cand == {t \in (work[w].seen \cup (shown \cap Tokens)) \ dead :
                       Judge(t, rec[Device(w)].orig)}
            live == IF blind THEN {} ELSE {t \in cand : Unspent(Held(t))}
            one == IF Cardinality(live) = 1 THEN live ELSE {}
        IN  /\ IF up = WalletRelays /\ ~ blind THEN UNCHANGED agenda ELSE Fault
            /\ SyncSelect(w, one, dead \cup (IF blind THEN {} ELSE cand \ live))
    /\ UNCHANGED rec /\ Same

SyncWrite(w) ==
    LET d == Device(w)  r == rec[d]  c == work[w].choice  drop == work[w].drop
        new == IF work[w].pc = "write" THEN Wallet(r, c, drop) ELSE ResolveConflict(r, c, drop)
        refused == c # {} /\ (PendingSpend(r) <=> work[w].pc = "write")
    IN  /\ Doing(w, "sync", "write") \/ Doing(w, "sync", "resolve")
        /\ IF refused \/ WalletAllowed(r, c, drop)
           THEN /\ rec' = [rec EXCEPT ![d] = new]
                /\ Return(w, IF c # {} /\ ~ refused THEN "complete" ELSE "awaiting-peer")
           ELSE Return(w, "error") /\ UNCHANGED rec
        /\ UNCHANGED agenda /\ Same

\* Wallet events are withheld by both relays, or shown again.
Withhold ==
    /\ IF hidden = {} THEN hidden' = WalletEvents /\ Fault ELSE hidden' = {} /\ UNCHANGED agenda
    /\ UNCHANGED <<rec, consumer, inflight, relayed, work>>

ZapBegin ==
    /\ rec = [d \in Devices |-> NoRecord]
    /\ consumer = [p \in {Zap} \cup {<<"out", d>> : d \in Devices} |-> None]
    /\ inflight = {} /\ hidden = {}
    /\ relayed = [r \in AllRelays |->
                  IF r \in WalletRelays THEN {ListEvent(i) : i \in agenda.lists[r]} ELSE {}]
    /\ work = [w \in Workers |-> Idle]
ZapInit == agenda \in ZapCampaigns /\ ZapBegin

ReceiveSteps(w) ==
    \/ ReceiveBegin(w) \/ ReserveRecord(w) \/ RestoreOutputs(w) \/ States(w) \/ SwapAnswer(w)
    \/ Check(w) \/ CreditLocal(w) \/ Peer(w) \/ CreditRelay(w) \/ PublishOutbox(w)
    \/ Discover(w) \/ HistoryRelays(w)
SpendSteps(w) == SpendBegin(w) \/ SpendCommit(w)
SyncSteps(w) == SyncBegin(w) \/ SyncSpent(w) \/ SyncOwn(w) \/ SyncRead(w) \/ SyncWrite(w)

ZapNext ==
    \/ MintSwap \/ Withhold
    \/ \E w \in Workers :
        Start(w) \/ Crash(w) \/ ReceiveSteps(w) \/ SpendSteps(w) \/ SyncSteps(w)

ZapSpec == ZapInit /\ [][ZapNext]_zapVars

-----------------------------------------------------------------------------
(* Properties. *)

\* The nutzap turns into money once.  Over all devices there is one credit from
\* the mint, it belongs to the plan the mint executed, and every other device
\* took over that device's token; one spend of it finishes, the one the mint
\* executed, and a spend counts as lost to a peer only if the mint never
\* executed it (receiver.ts, spend.ts, wallet-sync.ts and their Rust twins).
NutzapCountsOnce ==
    \A d \in Devices :
        LET r == rec[d]
        IN  /\ r.credit = "local" => Redeemed(d)
            /\ r.credit = "relay" => rec[r.orig[2]].credit = "local"
            /\ r.spend = "finished" => SpendDone(d)
            /\ r.spend = "conflicted" => Spent(Held(r.orig)) /\ ~ SpendDone(d)

\* What a device shows as its balance is not promised elsewhere: nothing while
\* a spend of its own is pending, no token it knows to be retired, and no
\* proofs that the mint never issued (journal.ts wallet, prepareSpend).
BalanceIsNotPromised ==
    \A d \in Devices :
        LET r == rec[d]
        IN  /\ PendingSpend(r) => r.proofs = {}
            /\ r.token \notin r.retired
            /\ \A p \in r.proofs : Issued(p) /\ (r.spend = "finished" => p # Held(r.orig))
=============================================================================
