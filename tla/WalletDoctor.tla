---------------------------- MODULE WalletDoctor ----------------------------
(***************************************************************************)
(* The NIP-60 wallet doctor at work on a wallet that keeps moving: the     *)
(* reference wallet (apps/nip60-reference-wallet) mints, spends and        *)
(* publishes relay by relay; relays store events and may be told to        *)
(* withhold kinds of them; the doctor reads the relays one after the       *)
(* other, asks the mint for the states of the proofs it saw, judges the    *)
(* capture (WalletDoctorRules) and, for the gate, captures again and       *)
(* compares.  Plans are dry runs: their execution is somebody else's, and  *)
(* modelled as such.                                                       *)
(*                                                                         *)
(* Events and proofs are numbered in the order they are made.  What a spend*)
(* selects and how it splits is any choice the amounts allow.              *)
(***************************************************************************)
EXTENDS WalletDoctorRules, Sequences

CONSTANTS
    RelaySeq,   \* the relays, in the configured order
    WalletCases \* budgets: [mints, spends, modes, resets, faults, parts,
                \* captures, keyless, checks, repairs]

VARIABLES
    budget,     \* what is left of the chosen case
    clock,      \* #lastCreatedAt of the wallet, and the id of its last event
    wallet,     \* DoctorWallet: proofs, current token event (0: null)
    task,       \* the fixture call under way
    relay,      \* events stored, per relay
    withheld,   \* kinds withheld, per relay
    mint,       \* states of the proofs the mint ever signed
    doctor,     \* the capture under way and the last verdict
    repair      \* the plan handed to an executor

doctorVars == <<budget, clock, wallet, task, relay, withheld, mint, doctor, repair>>

RelaySet == {RelaySeq[i] : i \in 1..Len(RelaySeq)}
Kinds == {"wallet", "token", "delete"}
SpendModes == {"clean", "partial-publish", "partial-delete", "ghost", "delete-only",
               "partial-delete-only"}
Idle == [pc |-> "idle", posts |-> << >>, after |-> [proofs |-> {}, current |-> 0],
         inputs |-> {}, change |-> 0, mode |-> "clean"]
Empty == [relays |-> << >>, truth |-> << >>]
NoPlan == [republish |-> {}, covered |-> {}, delete |-> {}, to |-> {}, wallet |-> {},
           restore |-> {}]
Resting == [pc |-> "idle", keyed |-> TRUE, todo |-> << >>, capture |-> Empty,
            saved |-> Empty, base |-> {}, ok |-> FALSE, safe |-> FALSE, plan |-> NoPlan]

Event(id, kind, proofs, del) == [id |-> id, kind |-> kind, proofs |-> proofs, del |-> del]
Uses(item) == budget[item] > 0 /\ budget' = [budget EXCEPT ![item] = @ - 1]
ToAll(e) == [i \in 1..Len(RelaySeq) |-> [event |-> e, relay |-> RelaySeq[i]]]
ToFirst(e) == <<[event |-> e, relay |-> RelaySeq[1]]>>
Fresh(n) == {Cardinality(DOMAIN mint) + i : i \in 1..n}
Issued(proofs) == [p \in DOMAIN mint \cup proofs |-> IF p \in proofs THEN "UNSPENT" ELSE mint[p]]
Moved(proofs, state) == [p \in DOMAIN mint |-> IF p \in proofs THEN state ELSE mint[p]]

WDInit ==
    /\ budget \in WalletCases
    /\ clock = 1
    /\ wallet = [proofs |-> {}, current |-> 0]
    /\ task = [Idle EXCEPT !.pc = "publish", !.posts = ToAll(Event(1, "wallet", {}, {}))]
    /\ relay = [r \in RelaySet |-> {}]
    /\ withheld = [r \in RelaySet |-> {}]
    /\ mint = << >>
    /\ doctor = Resting
    /\ repair = [pc |-> "none", plan |-> NoPlan, held |-> {}, first |-> 0, todo |-> {}]

-----------------------------------------------------------------------------
(* The reference wallet.  A call that publishes leaves its posts in the task, *)
(* and what the wallet becomes once all of them were acknowledged.            *)

Quiet == UNCHANGED <<relay, withheld, doctor, repair>>

\* A reset with the same seed and the relays left as they are.
ResetFixture ==
    /\ task.pc = "idle"
    /\ Uses("resets")
    /\ clock' = clock + 1
    /\ wallet' = [proofs |-> {}, current |-> 0]
    /\ task' = [Idle EXCEPT !.pc = "publish", !.posts = ToAll(Event(clock', "wallet", {}, {}))]
    /\ UNCHANGED mint /\ Quiet

MintTokens(n) ==
    /\ task.pc = "idle"
    /\ Uses("mints")
    /\ mint' = Issued(Fresh(n))
    /\ clock' = clock + 1
    /\ wallet' = [wallet EXCEPT !.proofs = @ \cup Fresh(n)]
    /\ task' = [Idle EXCEPT !.pc = "publish",
                            !.posts = ToAll(Event(clock', "token", Fresh(n), {})),
                            !.after = [proofs |-> wallet'.proofs, current |-> clock']]
    /\ Quiet

\* Deletion events alone; a kind-1 deletion of the same event goes out before
\* the partial one.
DeleteOnly(mode) ==
    /\ task.pc = "idle"
    /\ mode \in {"delete-only", "partial-delete-only"} \cap budget.modes
    /\ wallet.current # 0
    /\ Uses("spends")
    /\ clock' = clock + IF mode = "delete-only" THEN 1 ELSE 2
    /\ LET deletion == Event(clock', "delete", {}, {wallet.current})
           decoy == Event(clock' - 1, "decoy", {}, {wallet.current})
       IN  task' = [Idle EXCEPT !.pc = "publish",
                                !.posts = IF mode = "delete-only" THEN ToAll(deletion)
                                          ELSE ToAll(decoy) \o ToFirst(deletion),
                                !.after = [wallet EXCEPT !.current = 0]]
    /\ UNCHANGED <<wallet, mint>> /\ Quiet

\* The swap request reaches the mint, which holds its inputs; `change` of the
\* outputs come back to the wallet, the others leave it.
Spend(mode, inputs, change) ==
    /\ task.pc = "idle"
    /\ mode \in budget.modes \ {"delete-only", "partial-delete-only"}
    /\ wallet.current # 0
    /\ inputs \subseteq wallet.proofs
    /\ change < Cardinality(inputs)
    /\ \A p \in inputs : mint[p] = "UNSPENT"
    /\ Uses("spends")
    /\ mint' = Moved(inputs, "PENDING")
    /\ task' = [Idle EXCEPT !.pc = "swap", !.mode = mode, !.inputs = inputs, !.change = change]
    /\ UNCHANGED <<clock, wallet>> /\ Quiet

\* The mint gives up on the swap and releases the inputs; the call fails.
SwapRefused ==
    /\ task.pc = "swap"
    /\ Uses("faults")
    /\ mint' = Moved(task.inputs, "UNSPENT")
    /\ task' = Idle
    /\ UNCHANGED <<clock, wallet>> /\ Quiet

\* The swap is done and its answer lost; the call fails.
SwapAnswerLost ==
    /\ task.pc = "swap"
    /\ Uses("faults")
    /\ mint' = Moved(task.inputs, "SPENT")
    /\ task' = Idle
    /\ UNCHANGED <<clock, wallet>> /\ Quiet

Swapped(change) ==
    [p \in DOMAIN mint \cup change |->
        IF p \in change THEN "UNSPENT" ELSE IF p \in task.inputs THEN "SPENT" ELSE mint[p]]

\* Ghost: the outputs are dropped and nothing is published.
GhostSpent ==
    /\ task.pc = "swap" /\ task.mode = "ghost"
    /\ mint' = Swapped(Fresh(task.change))
    /\ wallet' = [wallet EXCEPT !.proofs = {}]
    /\ task' = Idle
    /\ UNCHANGED <<budget, clock>> /\ Quiet

\* Otherwise the rollover goes out, then the deletion of what it replaces.
RollOver ==
    /\ task.pc = "swap" /\ task.mode # "ghost"
    /\ mint' = Swapped(Fresh(task.change))
    /\ clock' = clock + 2
    /\ LET keep == (wallet.proofs \ task.inputs) \cup Fresh(task.change)
           rollover == Event(clock + 1, "token", keep, {wallet.current})
           deletion == Event(clock + 2, "delete", {}, {wallet.current})
       IN  task' = [Idle EXCEPT !.pc = "publish",
                      !.posts = (IF task.mode = "partial-publish"
                                 THEN ToFirst(rollover) ELSE ToAll(rollover))
                                \o (IF task.mode = "clean"
                                    THEN ToAll(deletion) ELSE ToFirst(deletion)),
                      !.after = [proofs |-> keep, current |-> clock + 1]]
    /\ UNCHANGED <<budget, wallet>> /\ Quiet

\* One acknowledged publication; the last of them ends the call.
Publish ==
    /\ task.pc = "publish"
    /\ LET post == Head(task.posts)
       IN  relay' = [relay EXCEPT ![post.relay] = @ \cup {post.event}]
    /\ IF Len(task.posts) > 1
       THEN task' = [task EXCEPT !.posts = Tail(@)] /\ UNCHANGED wallet
       ELSE task' = Idle /\ wallet' = task.after
    /\ UNCHANGED <<budget, clock, withheld, mint, doctor, repair>>

\* One that fails, stored or not: the call fails and the rest is not published.
PublishFails(stored) ==
    /\ task.pc = "publish"
    /\ Uses("faults")
    /\ LET post == Head(task.posts)
       IN  relay' = IF stored THEN [relay EXCEPT ![post.relay] = @ \cup {post.event}] ELSE relay
    /\ task' = Idle
    /\ UNCHANGED <<clock, wallet, withheld, mint, doctor, repair>>

-----------------------------------------------------------------------------
(* The relays' control routes.  A capture under way is not held to events   *)
(* that were readable when it began (doctor.base) once this has changed.    *)

PartitionRelay(r, kinds) ==
    /\ withheld[r] = {} /\ Uses("parts")
    /\ withheld' = [withheld EXCEPT ![r] = kinds]
    /\ doctor' = [doctor EXCEPT !.base = {}]
    /\ UNCHANGED <<clock, wallet, task, relay, mint, repair>>

ClearFaults(r) ==
    /\ withheld[r] # {}
    /\ withheld' = [withheld EXCEPT ![r] = {}]
    /\ UNCHANGED <<budget, clock, wallet, task, relay, mint, doctor, repair>>

-----------------------------------------------------------------------------
(* The doctor. *)

Readable(r) == {e \in relay[r] : e.kind \notin withheld[r]}

OfKind(events, kind) == {e \in events : e.kind = kind}

\* A deletion that does not name the token kind (a decoy) is none.
Deletions(events) == OfKind(events, "delete")

\* Without the subject's key nothing encrypted can be read.
Wallets(events, keyed) == IF keyed THEN OfKind(events, "wallet") ELSE {}
Tokens(events, keyed) == IF keyed THEN OfKind(events, "token") ELSE {}
Illegible(events, keyed) ==
    IF keyed THEN {} ELSE OfKind(events, "wallet") \cup OfKind(events, "token")

NormalizeRelayEvents(events, keyed) ==
    [ok |-> TRUE, ids |-> Ids(events), deletions |-> Deletions(events),
     wallet |-> Wallets(events, keyed), tokens |-> Tokens(events, keyed),
     malformed |-> Illegible(events, keyed)]

Failed == [ok |-> FALSE, ids |-> {}, deletions |-> {}, wallet |-> {}, tokens |-> {},
           malformed |-> {}]

Begun(pc, keyed) ==
    [doctor EXCEPT !.pc = pc, !.keyed = keyed, !.todo = RelaySeq, !.capture = Empty,
                   !.base = UNION {Readable(r) : r \in RelaySet}, !.ok = FALSE]
World == <<clock, wallet, task, relay, withheld, mint>>

\* `collect`, with the subject's secret key or only its public one.
Collect(keyed) ==
    /\ doctor.pc = "idle"
    /\ keyed \/ budget.keyless
    /\ Uses("captures")
    /\ doctor' = Begun("collect", keyed)
    /\ UNCHANGED <<World, repair>>

Capturing == doctor.pc \in {"collect", "recheck"} /\ doctor.todo # << >>
Noted(r, seen) ==
    [doctor EXCEPT !.todo = Tail(@),
                   !.capture.relays = [q \in DOMAIN @ \cup {r} |-> IF q = r THEN seen ELSE @[q]]]

FetchRelay ==
    /\ Capturing
    /\ LET r == Head(doctor.todo)
       IN  doctor' = Noted(r, NormalizeRelayEvents(Readable(r), doctor.keyed))
    /\ UNCHANGED <<budget, World, repair>>

FetchFails ==
    /\ Capturing /\ Uses("faults")
    /\ doctor' = Noted(Head(doctor.todo), Failed)
    /\ UNCHANGED <<World, repair>>

\* Mutant: whatever is not UNSPENT counts as spent.
CheckBinaryStates(proofs) ==
    [p \in proofs |-> IF mint[p] = "UNSPENT" THEN "UNSPENT" ELSE "SPENT"]

\* checkProofStates: the states of these proofs, at one moment.
CheckProofStates(proofs) == [p \in proofs |-> mint[p]]

Completed ==
    [doctor.capture EXCEPT !.truth = CheckProofStates(ProofsOf(AllTokens(doctor.capture)))]
Asking == doctor.pc \in {"collect", "recheck"} /\ doctor.todo = << >>

\* The mint does not answer, or the overall timeout passes: no capture.
CaptureThrows ==
    /\ Asking /\ Uses("faults")
    /\ doctor' = Resting
    /\ UNCHANGED <<World, repair>>

\* The capture is written; `plan` makes a plan of it and says whether it is safe.
CollectDone ==
    /\ Asking /\ doctor.pc = "collect"
    /\ LET check == CheckCapture(Completed)
       IN  doctor' = [doctor EXCEPT !.pc = "saved", !.saved = Completed,
                                    !.safe = check.safe, !.plan = check.plan]
    /\ UNCHANGED <<budget, World, repair>>

\* `check` captures again, always with the key ...
Check ==
    /\ doctor.pc = "saved" /\ budget.checks
    /\ doctor' = Begun("recheck", TRUE)
    /\ UNCHANGED <<budget, World, repair>>

\* Mutant: the saved capture alone decides.
VerdictOnFile(live) == CheckCapture(doctor.saved).ok

\* ... and passes if the saved one is healthy and the live evidence equals it.
Verdict(live) ==
    CheckCapture(doctor.saved).ok /\ CompareCaptureEvidence(doctor.saved, live)

CheckDone ==
    /\ Asking /\ doctor.pc = "recheck"
    /\ doctor' = [Resting EXCEPT !.ok = Verdict(Completed)]
    /\ UNCHANGED <<budget, World, repair>>

-----------------------------------------------------------------------------
(* An executor of a safe plan (external).  The owner starts no further call *)
(* meanwhile; one under way goes on.                                        *)

StoredLive(r) ==
    LET of(kind) == {e \in relay[r] : e.kind = kind}
    IN  ProofsOf({t \in of("token") : t.id \notin Targets(of("delete"))})
HeldSomewhere == UNION {StoredLive(r) : r \in RelaySet}

\* What the call under way is itself about to delete.
BeingDeleted ==
    LET ids == UNION {task.posts[i].event.del : i \in 1..Len(task.posts)}
    IN  ProofsOf({e \in UNION {relay[r] : r \in RelaySet} : e.id \in ids})

BeginRepair ==
    /\ doctor.pc = "saved" /\ doctor.safe /\ budget.repairs
    /\ budget' = [budget EXCEPT !.mints = 0, !.spends = 0, !.resets = 0, !.captures = 0]
    /\ clock' = clock + 2
    /\ repair' = [pc |-> "publish", plan |-> doctor.plan, held |-> HeldSomewhere \ BeingDeleted,
                  first |-> clock + 1, todo |-> doctor.plan.to]
    /\ doctor' = Resting
    /\ UNCHANGED <<wallet, task, relay, withheld, mint>>

PlanPublishes ==
    LET all == UNION {relay[r] : r \in RelaySet}
    IN  {e \in all : e.id \in repair.plan.republish \cup repair.plan.wallet}
          \cup (IF repair.plan.covered = {} THEN {}
                ELSE {Event(repair.first, "token", repair.plan.covered, repair.plan.delete)})
PlanDeletes ==
    IF repair.plan.delete = {} THEN {}
    ELSE {Event(repair.first + 1, "delete", {}, repair.plan.delete)}

\* All publications of the plan before any of its deletions.
RepairRelay(r) ==
    /\ repair.pc \in {"publish", "delete"} /\ r \in repair.todo
    /\ relay' = [relay EXCEPT ![r] = @ \cup IF repair.pc = "publish" THEN PlanPublishes
                                            ELSE PlanDeletes]
    /\ repair' = IF repair.todo # {r} THEN [repair EXCEPT !.todo = @ \ {r}]
                 ELSE IF repair.pc = "publish"
                 THEN [repair EXCEPT !.pc = "delete", !.todo = repair.plan.to]
                 ELSE [repair EXCEPT !.pc = "done", !.todo = {}]
    /\ UNCHANGED <<budget, clock, wallet, task, withheld, mint, doctor>>

-----------------------------------------------------------------------------
WDNext ==
    \/ ResetFixture
    \/ \E n \in 1..2 : MintTokens(n)
    \/ \E mode \in SpendModes : DeleteOnly(mode)
    \/ \E mode \in SpendModes, inputs \in SUBSET wallet.proofs, change \in 0..1 :
          Spend(mode, inputs, change)
    \/ SwapRefused \/ SwapAnswerLost \/ GhostSpent \/ RollOver
    \/ Publish
    \/ \E stored \in BOOLEAN : PublishFails(stored)
    \/ \E r \in RelaySet, kinds \in {{k} : k \in Kinds} : PartitionRelay(r, kinds)
    \/ \E r \in RelaySet : ClearFaults(r)
    \/ \E keyed \in BOOLEAN : Collect(keyed)
    \/ FetchRelay \/ FetchFails \/ CaptureThrows \/ CollectDone \/ Check \/ CheckDone
    \/ BeginRepair
    \/ \E r \in RelaySet : RepairRelay(r)

WDSpec == WDInit /\ [][WDNext]_doctorVars

-----------------------------------------------------------------------------
\* When the gate passes (checkCapture and the live recapture, wallet-doctor
\* check), nothing live is spent at the mint and every unspent proof of a token
\* event some relay served when the recapture began is in the live view,
\* although the relays were read at different moments and the wallet went on.
HealthyStep ==
    doctor'.ok /\ ~ doctor.ok =>
        LET live == ProofsOf(LiveTokens(doctor.saved))
        IN  /\ \A p \in live : mint[p] # "SPENT"
            /\ \A e \in doctor.base : \A p \in e.proofs : mint[p] = "UNSPENT" => p \in live

\* Whoever executes a plan the safety check (plan-check.ts) let through loses no
\* value: an unspent proof that some relay still showed is shown by one after
\* every step, or the plan names it for restoring; this even when a swap of the
\* proof was under way at capture time and the mint released it later.
RepairLosesNothing ==
    repair.pc # "none" =>
        \A p \in repair.held : mint[p] = "UNSPENT" => p \in HeldSomewhere \cup repair.plan.restore
=============================================================================
