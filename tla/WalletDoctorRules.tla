------------------------- MODULE WalletDoctorRules --------------------------
(***************************************************************************)
(* What the NIP-60 wallet doctor computes from one capture, as operators:  *)
(* the reconstruction of the wallet (wallet-doctor-core reconstruct.ts),   *)
(* the diagnosis (wallet-doctor-oracle diagnose.ts), the repair plan       *)
(* (plan-build.ts), its simulation (plan.ts) and its safety check          *)
(* (plan-check.ts), the integrity of a capture (wallet-doctor-contract     *)
(* validation.ts) and the verdict (wallet-doctor-runner pipeline.ts).      *)
(*                                                                         *)
(* A capture is [relays, truth]: per relay whether it answered and the     *)
(* wallet, token and deletion events it served, those that could not be    *)
(* read and the ids of all, and per proof the state its mint reported.     *)
(* Every proof is worth one unit and is named by its mint and Y together,  *)
(* so a balance is a number of proofs.                                     *)
(***************************************************************************)
EXTENDS Integers, FiniteSets, FiniteSetsExt

-----------------------------------------------------------------------------
(* Reconstruction. *)

OkRelays(c) == {r \in DOMAIN c.relays : c.relays[r].ok}
Gather(c, field) == UNION {c.relays[r][field] : r \in OkRelays(c)}
Targets(deletions) == UNION {d.del : d \in deletions}
ProofsOf(tokens) == UNION {t.proofs : t \in tokens}
Ids(events) == {e.id : e \in events}

\* Of the relays that answered, those that served the event.
SeenOn(c, field, e) == {r \in OkRelays(c) : e \in c.relays[r][field]}

\* The latest by created_at; ids grow with it here, so there are no ties.
Latest(events) == {e \in events : \A f \in events : f.id <= e.id}

\* reconstructRelay: what an application sees that reads one relay.
RelayLive(c, r) ==
    IF c.relays[r].ok
    THEN {t \in c.relays[r].tokens : t.id \notin Targets(c.relays[r].deletions)}
    ELSE {}

AllTokens(c) == Gather(c, "tokens")
SupersededAnywhere(c) == Targets(AllTokens(c))
LiveTokens(c) ==
    {t \in AllTokens(c) :
        t.id \notin Targets(Gather(c, "deletions")) \cup SupersededAnywhere(c)}
NaiveLiveTokens(c) == UNION {RelayLive(c, r) : r \in OkRelays(c)}
Balance(tokens) == MapThenSumSet(LAMBDA t : Cardinality(t.proofs), tokens)
DoubleCounted(c) ==
    Balance(NaiveLiveTokens(c)) - Cardinality(ProofsOf(NaiveLiveTokens(c)))

OrphanCandidates(c) ==
    ProofsOf(AllTokens(c) \ LiveTokens(c)) \ ProofsOf(LiveTokens(c))

-----------------------------------------------------------------------------
(* Diagnosis: a set of findings. *)

Known(c, p) == p \in DOMAIN c.truth
InState(c, proofs, states) == {p \in proofs : Known(c, p) /\ c.truth[p] \in states}

Found(code, severity, relays, events, ys) ==
    [code |-> code, severity |-> severity, relays |-> relays, events |-> events, ys |-> ys]

RelayPartitions(c) ==
    {Found("RELAY_PARTITION", "warning", OkRelays(c), {t.id}, t.proofs) :
        t \in {u \in LiveTokens(c) :
                 SeenOn(c, "tokens", u) \notin {{}, OkRelays(c)}}}

GhostTokens(c) ==
    {Found("GHOST_TOKEN", "error", SeenOn(c, "tokens", t), {t.id},
           InState(c, t.proofs, {"SPENT"})) :
        t \in {u \in LiveTokens(c) : /\ \A p \in u.proofs : Known(c, p)
                                     /\ InState(c, u.proofs, {"SPENT"}) # {}}}

OrphanedProofs(c) ==
    {Found("ORPHANED_PROOFS", "error", {},
           Ids({t \in AllTokens(c) \ LiveTokens(c) : t.proofs \cap ys # {}}), ys) :
        ys \in {InState(c, OrphanCandidates(c), {"UNSPENT"})} \ {{}}}

StillLiveOn(c, id) == {r \in OkRelays(c) : id \in Ids(RelayLive(c, r))}

DelChainBreaks(c) ==
    {Found("DEL_CHAIN_BREAK", "error", StillLiveOn(c, t.id), {t.id}, t.proofs) :
        t \in {u \in NaiveLiveTokens(c) \ LiveTokens(c) : u.id \in SupersededAnywhere(c)}}

\* Nobody serves a wallet event; or some serve an older one, or none.
WalletEventForks(c) ==
    LET global == Latest(Gather(c, "wallet"))
        stale == {r \in OkRelays(c) : LET w == Latest(c.relays[r].wallet)
                                      IN  w # {} /\ w # global}
        missing == {r \in OkRelays(c) : c.relays[r].wallet = {}}
    IN  {Found("WALLET_EVENT_FORK", "error", rs, Ids(global), {}) :
            rs \in {stale, missing} \ {{}}}

DeletionsNotPropagated(c) ==
    {Found("DELETION_NOT_PROPAGATED", "warning", StillLiveOn(c, id), {id}, {}) :
        id \in {i \in Targets(Gather(c, "deletions")) \ SupersededAnywhere(c) :
                  /\ i \notin Ids(LiveTokens(c))
                  /\ StillLiveOn(c, i) # {}}}

\* Every unreadable event here is a wallet or a token event.
MalformedEvents(c) ==
    UNION {{Found("MALFORMED_EVENT", "error", {r}, {e.id}, {}) : e \in c.relays[r].malformed} :
              r \in DOMAIN c.relays}

Diagnose(c) ==
    RelayPartitions(c) \cup GhostTokens(c) \cup OrphanedProofs(c) \cup DelChainBreaks(c)
      \cup WalletEventForks(c) \cup DeletionsNotPropagated(c) \cup MalformedEvents(c)

Coded(findings, codes) == {f \in findings : f.code \in codes}
Errors(findings) == {f \in findings : f.severity = "error"}

-----------------------------------------------------------------------------
(* The repair plan of a wallet with one mint. *)

\* Once ghosts or broken chains show, all live and broken events are replaced
\* by one rollover of what is not spent, unless some proof of them is unchecked.
Replaced(c, findings) ==
    LET broken == UNION {f.events : f \in Coded(findings, {"DEL_CHAIN_BREAK"})}
        doomed == {t \in LiveTokens(c) \cup NaiveLiveTokens(c) :
                     t \in LiveTokens(c) \/ t.id \in broken}
    IN  IF /\ Coded(findings, {"GHOST_TOKEN", "DEL_CHAIN_BREAK"}) # {}
           /\ \A p \in ProofsOf(doomed) : Known(c, p)
        THEN doomed ELSE {}

BuildRepairPlan(c, findings) ==
    LET consolidates == Coded(findings, {"GHOST_TOKEN", "DEL_CHAIN_BREAK"}) # {}
        replaced == Replaced(c, findings)
        global == Latest(Gather(c, "wallet"))
        forked == UNION {f.relays : f \in Coded(findings, {"WALLET_EVENT_FORK"})}
    IN  [republish |->
           IF consolidates THEN {}
           ELSE UNION {f.events : f \in Coded(findings, {"RELAY_PARTITION"})},
         covered |-> IF replaced = {} THEN {}
                     ELSE InState(c, ProofsOf(LiveTokens(c)), {"UNSPENT", "PENDING"}),
         delete |-> Ids(replaced),
         to |-> OkRelays(c),
         wallet |-> IF forked = {} THEN {} ELSE Ids(global),
         restore |-> UNION {f.ys : f \in Coded(findings, {"ORPHANED_PROOFS"})}]

-----------------------------------------------------------------------------
(* Its simulation and safety check. *)

Rollover(plan) == [kind |-> "token", id |-> 0, proofs |-> plan.covered, del |-> plan.delete]

\* simulatePlan: rollover, then deletions; the other steps leave the live set.
SimulatePlan(live, plan) ==
    LET rolled == IF plan.covered = {} THEN live
                  ELSE {t \in live : t.id \notin plan.delete} \cup {Rollover(plan)}
    IN  {t \in rolled : t.id \notin plan.delete}

UnknownReferences(c, plan) ==
    \/ ~ (plan.republish \cup plan.delete \subseteq Ids(AllTokens(c)))
    \/ ~ (plan.wallet \subseteq Ids(Gather(c, "wallet")))
    \/ ~ (plan.covered \cup plan.restore \subseteq ProofsOf(AllTokens(c)))

\* P1: what is deleted is known to be spent, covered or restored.
DropsValue(c, plan) ==
    \E p \in ProofsOf({t \in AllTokens(c) : t.id \in plan.delete}) :
        \/ ~ Known(c, p)
        \/ c.truth[p] \in {"UNSPENT", "PENDING"} /\ p \notin plan.covered \cup plan.restore

CheckRepairPlan(c, plan) ==
    LET live == LiveTokens(c)
        once == SimulatePlan(live, plan)
        twice == SimulatePlan(once, plan)
    IN  /\ ~ UnknownReferences(c, plan)
        /\ ~ DropsValue(c, plan)
        /\ Ids(once) = Ids(twice) /\ ProofsOf(once) = ProofsOf(twice)
        /\ \A p \in ProofsOf(live) : Known(c, p)
        /\ InState(c, ProofsOf(once), {"SPENT"}) = {}
        /\ Balance(once) = Cardinality(ProofsOf(once))
        /\ Cardinality(ProofsOf(once))
             = Cardinality(InState(c, ProofsOf(live), {"UNSPENT", "PENDING"}))

-----------------------------------------------------------------------------
(* The verdict on a capture. *)

\* verifyCaptureIntegrity, as far as a capture can fail it: mint states for
\* exactly the proofs of the tokens it saw.
VerifyCaptureIntegrity(c) == DOMAIN c.truth = ProofsOf(AllTokens(c))

Repairable ==
    {"RELAY_PARTITION", "GHOST_TOKEN", "ORPHANED_PROOFS", "DEL_CHAIN_BREAK", "WALLET_EVENT_FORK"}

\* checkCapture: ok, and the plan if one is made.
CheckCapture(c) ==
    LET findings == Diagnose(c)
        plan == BuildRepairPlan(c, findings)
        planned == Coded(findings, Repairable) # {}
        safe == CheckRepairPlan(c, plan)
    IN  [ok |-> /\ VerifyCaptureIntegrity(c)
                /\ Errors(findings) = {}
                /\ OkRelays(c) = DOMAIN c.relays
                /\ planned => safe,
         safe |-> planned /\ safe,
         plan |-> plan,
         doubled |-> DoubleCounted(c)]

\* compareCaptureEvidence
CompareCaptureEvidence(supplied, live) == supplied = live
=============================================================================
