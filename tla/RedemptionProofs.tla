-------------------------- MODULE RedemptionProofs --------------------------
(***************************************************************************)
(* Where a payment is redeemed.  The receivers that are reset between      *)
(* runs, for any number of runs and payments: what a store holds is of the *)
(* run it was reset for.  And nutzaps: one counts once, and no balance is  *)
(* promised twice, for any devices and workers, relays and relay lists,    *)
(* operations and faults.                                                  *)
(***************************************************************************)
EXTENDS MemoryReceiver, NutzapRecovery, TLAPS

USE ZenonT(10), SMTT(15), Z3T(15)

-----------------------------------------------------------------------------
(* The receivers that are reset between runs.  The predicates below are      *)
(* about values: ses is the session, x what a handler carries, s the store,  *)
(* r a record of it, sent the plans the mint signed or may still sign.       *)

Seed(ses, o) == ses.seeds[o.run]
Id(ses, o) == <<ses.seeds[o.run], o.name>>
Offers(ses) == [run : Nat, name : ses.names]
Plans(ses) == Offers(ses) \X Handlers \X Nat
Planned == {"mark", "dispatch", "hook", "await", "settle", "reject", "block", "restore",
            "restored", "credit", "finalize"}
Locked == Planned \cup {"read"}
HandlerStates(ses) ==
    [pc : Locked \cup {"prepare", "lock", "idle"}, offer : Offers(ses) \cup {NoPlan},
     plan : Plans(ses) \cup {NoPlan}, wire : {"none", "sent", "done", "refused"}]

\* The shape of the store and its records, whatever is in them.
IsRecord(r) == r = [offer |-> r.offer, plan |-> r.plan, phase |-> r.phase, outputs |-> r.outputs]
IsStore(s) ==
    /\ s = [requests |-> s.requests, deliveries |-> s.deliveries, proofClaims |-> s.proofClaims,
            reservations |-> s.reservations, credits |-> s.credits]
    /\ s.deliveries = [d \in DOMAIN s.deliveries |-> s.deliveries[d]]
    /\ \A d \in DOMAIN s.deliveries : IsRecord(s.deliveries[d])

MemoryTypeOK ==
    /\ runs \in Nat
    /\ control.busy \in {"no", "reset", "proofs", "ledger"}
    /\ control = [seed |-> control.seed, ordinal |-> control.ordinal, busy |-> control.busy]
    /\ IsStore(held)
    /\ offered \subseteq Offers(session)
    /\ handler \in [Handlers -> HandlerStates(session)]
    /\ bank.signed \subseteq Plans(session)
    /\ adrift \subseteq Plans(session)

\* What a handler carries, whichever run it is of: a plan of its own delivery
\* id, on the wire only while it is awaited, and signed before it settles.
PlanFor(ses, plan, d) == plan \in Plans(ses) /\ Id(ses, plan[1]) = d
Carries(ses, x, signed) ==
    /\ x.pc # "idle" => x.offer \in Offers(ses)
    /\ x.pc \in Planned => PlanFor(ses, x.plan, Id(ses, x.offer))
    /\ x.wire # "none" <=> x.pc \in {"hook", "await"}
    /\ x.pc = "settle" \/ x.wire = "done" => x.plan \in signed
HandlersOK == \A h \in Handlers : Carries(session, handler[h], bank.signed)

\* The store holds what belongs to the seed of the run, and nothing while a
\* reset is under way.
Recorded(ses, seed, n, d, r, signed) ==
    /\ d[1] = seed
    /\ PlanFor(ses, r.plan, d) /\ r.plan[3] = n
    /\ r.outputs # NoPlan \/ r.phase = "outputs_persisted" =>
         r.outputs \in signed /\ PlanFor(ses, r.outputs, d)
StoreOK ==
    /\ control.busy = "reset" => held.requests = {} /\ DOMAIN held.deliveries = {}
    /\ \A r \in held.requests : r[1] = control.seed
    /\ \A d \in DOMAIN held.deliveries :
         /\ Recorded(session, control.seed, runs, d, held.deliveries[d], bank.signed)
         /\ d \in held.credits <=> held.deliveries[d].phase \in {"credited", "settled"}
    /\ held.credits \subseteq DOMAIN held.deliveries
    /\ \A d \in held.credits : \E plan \in bank.signed : Id(session, plan[1]) = d

\* A plan of this run is that of a delivery in the store.
Dated(ses, n, busy, s, plan) ==
    /\ plan[3] <= n
    /\ plan[3] = n /\ busy # "reset" =>
         /\ Has(s, Id(ses, plan[1]))
         /\ s.deliveries[Id(ses, plan[1])].plan = plan
PlansOK ==
    /\ \A plan \in bank.signed \cup adrift : Dated(session, runs, control.busy, held, plan)
    /\ \A h \in Handlers : handler[h].pc \in Planned =>
         Dated(session, runs, control.busy, held, handler[h].plan)

(***************************************************************************)
(* Unless a payment of an earlier run is handled with the ids of this one: *)
(* a payment of this run that is past the lock holds it alone, and its     *)
(* plan is that of its delivery, which nobody else sends or moves.         *)
(***************************************************************************)
Current(ses, c, x) == c.busy # "reset" /\ x.pc # "idle" /\ Seed(ses, x.offer) = c.seed
Alone(x, j, s, l, sent) ==
    /\ x.pc \in Locked => j \in l
    /\ x.pc \in Planned => Has(s, j) /\ x.plan = s.deliveries[j].plan
    /\ x.pc = "mark" => s.deliveries[j].phase = "prepared"
    /\ x.pc \in {"dispatch", "hook", "await", "reject"} => s.deliveries[j].phase = "mint_sent"
    /\ x.pc \in {"dispatch", "reject"} \/ x.wire \in {"sent", "refused"} => x.plan \notin sent
Kept(r, sent) ==
    /\ r.outputs \in {NoPlan, r.plan}
    /\ r.phase \in {"prepared", "rejected"} => r.plan \notin sent
Sole(ses, c, x, y) ==
    /\ Current(ses, c, x) /\ x.pc \in Locked
    /\ Current(ses, c, y) /\ y.pc \in Locked
    => Id(ses, x.offer) # Id(ses, y.offer)
OwnOK ==
    /\ control.busy = "reset" =>
         \A h \in Handlers : handler[h].pc # "idle" =>
            Seed(session, handler[h].offer) # session.seeds[runs + 1]
    /\ \A h \in Handlers : Current(session, control, handler[h]) =>
         Alone(handler[h], Id(session, handler[h].offer), held, locks, bank.signed \cup adrift)
    /\ \A h, k \in Handlers : h # k => Sole(session, control, handler[h], handler[k])
    /\ \A d \in DOMAIN held.deliveries : Kept(held.deliveries[d], bank.signed \cup adrift)

EvidenceOK ==
    /\ evidence = [run |-> evidence.run, plans |-> evidence.plans, spent |-> evidence.spent,
                   ledger |-> evidence.ledger]
    /\ control.busy \in {"no", "reset"} => evidence.spent \subseteq evidence.ledger
    /\ control.busy = "ledger" => evidence.spent \subseteq held.credits

MemoryInv ==
    /\ MemoryTypeOK /\ HandlersOK /\ StoreOK /\ PlansOK /\ EvidenceOK
    /\ ~crossed => OwnOK

-----------------------------------------------------------------------------
LEMMA NoPlanIsNone == \A ses : NoPlan \notin Plans(ses)
BY DEF NoPlan, Plans

LEMMA IdSeed == \A ses, o : Id(ses, o)[1] = Seed(ses, o)
BY DEF Id, Seed

LEMMA Ids ==
  /\ \A o : DeliveryId(o) = Id(session, o) /\ SeedOf(o) = Seed(session, o)
  /\ \A o : RequestId(o)[1] = Seed(session, o)
BY DEF DeliveryId, RequestId, SeedOf, Id, Seed

\* The invariant says what it should.
LEMMA LedgerFollows ==
  ASSUME MemoryInv
  PROVE  LedgerIsOfThisRun
<1>1. ASSUME ~crossed, NEW d \in DOMAIN held.deliveries
      PROVE  LET record == held.deliveries[d] IN
             /\ record.outputs \in {NoPlan, record.plan} \cap (bank.signed \cup {NoPlan})
             /\ record.phase = "rejected" => record.plan \notin bank.signed
  BY <1>1 DEF MemoryInv, StoreOK, OwnOK, Kept, Recorded
<1>2. control.busy = "no" => evidence.spent \subseteq evidence.ledger
  BY DEF MemoryInv, EvidenceOK
<1>3. /\ held.credits =
           {d \in DOMAIN held.deliveries : held.deliveries[d].phase \in {"credited", "settled"}}
      /\ \A d \in held.credits : \E plan \in bank.signed : DeliveryId(plan[1]) = d
  BY Ids DEF MemoryInv, StoreOK
<1> QED BY <1>1, <1>2, <1>3 DEF LedgerIsOfThisRun
-----------------------------------------------------------------------------
(* A step of one payment that holds the lock: h, on delivery id j.           *)

\* The record of d may have been moved, and credited; nothing else changed.
Moves(s, t, d) ==
    /\ IsStore(t)
    /\ t.requests = s.requests
    /\ DOMAIN t.deliveries = DOMAIN s.deliveries
    /\ \A e \in DOMAIN s.deliveries :
         /\ t.deliveries[e].plan = s.deliveries[e].plan
         /\ e # d => t.deliveries[e] = s.deliveries[e]
    /\ t.credits \in {s.credits, s.credits \cup {d}}

\* The plans sent, those of t among them, are those of before and that of the
\* payment x.
SentBy(x, t, sent) ==
    \A plan \in t : plan \in sent \/ (x.pc \in Planned /\ plan = x.plan)

LEMMA SameStore == \A s, d : IsStore(s) => Moves(s, s, d)
BY DEF Moves

LEMMA LockedPcs == /\ "idle" \notin Locked /\ Planned \subseteq Locked
                   /\ {"hook", "await", "settle", "dispatch", "reject", "mark"} \subseteq Planned
                   /\ "lock" \notin Locked /\ "prepare" \notin Locked
BY DEF Locked, Planned

\* No other payment of this run is at the delivery of a payment past the lock.
LEMMA OneOwner ==
  ASSUME MemoryInv, ~crossed, NEW h \in Handlers, NEW k \in Handlers, h # k,
         handler[h].pc \in Locked, handler[k].pc \in Locked,
         Current(session, control, handler[k])
  PROVE  Id(session, handler[h].offer) # Id(session, handler[k].offer)
<1>1. SUFFICES ASSUME Id(session, handler[h].offer) = Id(session, handler[k].offer)
               PROVE  FALSE
  OBVIOUS
<1>2. Seed(session, handler[h].offer) = Seed(session, handler[k].offer)
  BY <1>1, IdSeed
<1>3. Current(session, control, handler[h])
  BY <1>2, LockedPcs DEF Current
<1>4. Sole(session, control, handler[h], handler[k])
  BY DEF MemoryInv, OwnOK
<1> QED BY <1>1, <1>3, <1>4 DEF Sole

LEMMA OthersAlone ==
  ASSUME MemoryInv, ~crossed, NEW h \in Handlers, NEW k \in Handlers, h # k,
         handler[h].pc \in Locked, Current(session, control, handler[k]),
         NEW j, j = Id(session, handler[h].offer), NEW s, Moves(held, s, j),
         NEW l, locks \ {j} \subseteq l,
         NEW t, SentBy(handler[h], t, bank.signed \cup adrift)
  PROVE  Alone(handler[k], Id(session, handler[k].offer), s, l, t)
<1> DEFINE i == Id(session, handler[k].offer)
<1>1. Alone(handler[k], i, held, locks, bank.signed \cup adrift)
  BY DEF MemoryInv, OwnOK
<1>2. /\ Carries(session, handler[k], bank.signed)
      /\ Carries(session, handler[h], bank.signed)
  BY DEF MemoryInv, HandlersOK
<1>3. CASE handler[k].pc \in Locked
  <2>1. i # j
    BY <1>3, OneOwner
  <2>2. i \in l
    BY <1>1, <1>3, <2>1 DEF Alone
  <2>3. handler[k].pc \in Planned =>
          /\ Has(s, i) /\ handler[k].plan = s.deliveries[i].plan
          /\ s.deliveries[i] = held.deliveries[i]
    BY <1>1, <2>1 DEF Alone, Moves, Has
  <2>4. handler[k].pc \in Planned /\ handler[h].pc \in Planned => handler[k].plan # handler[h].plan
    BY <1>2, <2>1 DEF Carries, PlanFor
  <2>5. handler[k].pc \in {"dispatch", "reject"} \/ handler[k].wire \in {"sent", "refused"} =>
          handler[k].pc \in Planned /\ handler[k].plan \notin bank.signed \cup adrift
    BY <1>1, <1>2, LockedPcs DEF Alone, Carries
  <2>6. handler[k].pc \in {"dispatch", "reject"} \/ handler[k].wire \in {"sent", "refused"} =>
          handler[k].plan \notin t
    BY <2>4, <2>5 DEF SentBy
  <2>7. /\ handler[k].pc = "mark" => s.deliveries[i].phase = "prepared"
        /\ handler[k].pc \in {"dispatch", "hook", "await", "reject"} =>
             s.deliveries[i].phase = "mint_sent"
    BY <1>1, <2>3, LockedPcs DEF Alone
  <2> QED BY <2>2, <2>3, <2>6, <2>7 DEF Alone
<1>4. CASE handler[k].pc \notin Locked
  <2>1. /\ handler[k].pc \notin {"mark", "dispatch", "hook", "await", "reject"}
        /\ handler[k].pc \notin Planned
    BY <1>4, LockedPcs
  <2>2. handler[k].wire = "none"
    BY <1>2, <2>1 DEF Carries
  <2> QED BY <1>4, <2>1, <2>2 DEF Alone
<1> QED BY <1>3, <1>4

LEMMA OthersKept ==
  ASSUME MemoryInv, ~crossed, NEW h \in Handlers, NEW j, j = Id(session, handler[h].offer),
         NEW t, SentBy(handler[h], t, bank.signed \cup adrift),
         NEW d \in DOMAIN held.deliveries, d # j
  PROVE  Kept(held.deliveries[d], t)
<1>1. Kept(held.deliveries[d], bank.signed \cup adrift)
  BY DEF MemoryInv, OwnOK
<1>2. PlanFor(session, held.deliveries[d].plan, d)
  BY DEF MemoryInv, StoreOK, Recorded
<1>3. handler[h].pc \in Planned => PlanFor(session, handler[h].plan, j)
  BY DEF MemoryInv, HandlersOK, Carries
<1>4. handler[h].pc \in Planned => held.deliveries[d].plan # handler[h].plan
  BY <1>2, <1>3 DEF PlanFor
<1> QED BY <1>1, <1>4 DEF Kept, SentBy
\* What such a step leaves behind: the next state x of the payment, the store s,
\* the locks l, the plans signed and those sent.
LockedStep(h, x, j, s, l, signed, sent) ==
    /\ Carries(session, x, signed)
    /\ x = Free \/ x.offer = handler[h].offer
    /\ x.pc \in Planned => Dated(session, runs, control.busy, held, x.plan)
    /\ bank.signed \subseteq signed
    /\ signed \subseteq sent
    /\ SentBy(handler[h], sent, bank.signed \cup adrift)
    /\ Moves(held, s, j)
    /\ Has(held, j) =>
         /\ Recorded(session, control.seed, runs, j, s.deliveries[j], signed)
         /\ j \in s.credits <=> s.deliveries[j].phase \in {"credited", "settled"}
    /\ j \in s.credits => Has(held, j) /\ \E plan \in signed : Id(session, plan[1]) = j
    /\ ~crossed =>
         /\ Has(held, j) => Kept(s.deliveries[j], sent)
         /\ Current(session, control, x) => Alone(x, j, s, l, sent)
         /\ locks \ {j} \subseteq l

LEMMA LockedTypes ==
  ASSUME MemoryInv, NEW h \in Handlers, NEW x \in HandlerStates(session),
         UNCHANGED <<session, runs, control, offered, evidence, crossed>>,
         handler' = [handler EXCEPT ![h] = x],
         LockedStep(h, x, Id(session, handler[h].offer), held', locks', bank'.signed,
                    bank'.signed \cup adrift')
  PROVE  MemoryTypeOK' /\ HandlersOK' /\ EvidenceOK'
<1>1. handler' \in [Handlers -> HandlerStates(session)]
  BY DEF MemoryInv, MemoryTypeOK
<1>2. IsStore(held')
  BY DEF LockedStep, Moves
<1>3. handler[h].pc \in Planned => handler[h].plan \in Plans(session)
  BY DEF MemoryInv, HandlersOK, Carries, PlanFor
<1>4. bank'.signed \subseteq Plans(session) /\ adrift' \subseteq Plans(session)
  BY <1>3 DEF LockedStep, SentBy, MemoryInv, MemoryTypeOK
<1>5. MemoryTypeOK'
  BY <1>1, <1>2, <1>4 DEF MemoryInv, MemoryTypeOK
<1>6. Carries(session, x, bank'.signed) /\ bank.signed \subseteq bank'.signed
  BY DEF LockedStep
<1>7. ASSUME NEW k \in Handlers
      PROVE  Carries(session, handler'[k], bank'.signed)
  <2>1. CASE k = h
    BY <1>6, <2>1 DEF MemoryInv, MemoryTypeOK
  <2>2. CASE k # h
    <3>1. handler'[k] = handler[k]
      BY <2>2 DEF MemoryInv, MemoryTypeOK
    <3>2. Carries(session, handler[k], bank.signed)
      BY DEF MemoryInv, HandlersOK
    <3> QED BY <1>6, <3>1, <3>2 DEF Carries
  <2> QED BY <2>1, <2>2
<1>8. HandlersOK'
  BY <1>7 DEF HandlersOK
<1>9. held.credits \subseteq held'.credits
  BY DEF LockedStep, Moves
<1>10. EvidenceOK'
  BY <1>9 DEF MemoryInv, EvidenceOK
<1> QED BY <1>5, <1>8, <1>10

LEMMA LockedStore ==
  ASSUME MemoryInv, NEW h \in Handlers, NEW x \in HandlerStates(session),
         UNCHANGED <<session, runs, control, offered, evidence, crossed>>,
         handler' = [handler EXCEPT ![h] = x],
         LockedStep(h, x, Id(session, handler[h].offer), held', locks', bank'.signed,
                    bank'.signed \cup adrift')
  PROVE  StoreOK' /\ PlansOK'
<1> DEFINE j == Id(session, handler[h].offer)
<1>1. /\ Moves(held, held', j)
      /\ bank.signed \subseteq bank'.signed
      /\ SentBy(handler[h], bank'.signed \cup adrift', bank.signed \cup adrift)
      /\ Has(held, j) =>
           /\ Recorded(session, control.seed, runs, j, held'.deliveries[j], bank'.signed)
           /\ j \in held'.credits <=> held'.deliveries[j].phase \in {"credited", "settled"}
      /\ j \in held'.credits =>
           Has(held, j) /\ \E plan \in bank'.signed : Id(session, plan[1]) = j
      /\ x.pc \in Planned => Dated(session, runs, control.busy, held, x.plan)
  BY DEF LockedStep
<1> HIDE DEF j
<1>2. /\ held'.requests = held.requests
      /\ DOMAIN held'.deliveries = DOMAIN held.deliveries
      /\ held'.credits \subseteq DOMAIN held'.deliveries
  BY <1>1 DEF MemoryInv, StoreOK, Moves, Has
<1>3. ASSUME NEW d \in DOMAIN held.deliveries
      PROVE  /\ Recorded(session, control.seed, runs, d, held'.deliveries[d], bank'.signed)
             /\ d \in held'.credits <=> held'.deliveries[d].phase \in {"credited", "settled"}
  <2>1. CASE d = j
    BY <1>1, <2>1 DEF Has
  <2>2. CASE d # j
    <3>1. held'.deliveries[d] = held.deliveries[d] /\ (d \in held'.credits <=> d \in held.credits)
      BY <1>1, <2>2 DEF Moves
    <3>2. Recorded(session, control.seed, runs, d, held.deliveries[d], bank.signed)
      BY DEF MemoryInv, StoreOK
    <3>3. Recorded(session, control.seed, runs, d, held.deliveries[d], bank'.signed)
      BY <1>1, <3>2 DEF Recorded
    <3> QED BY <3>1, <3>3 DEF MemoryInv, StoreOK
  <2> QED BY <2>1, <2>2
<1>4. ASSUME NEW d \in held'.credits
      PROVE  \E plan \in bank'.signed : Id(session, plan[1]) = d
  BY <1>1 DEF Moves, MemoryInv, StoreOK
<1>5. StoreOK'
  BY <1>2, <1>3, <1>4 DEF MemoryInv, StoreOK
<1>6. \A plan : Dated(session, runs, control.busy, held, plan) =>
                  Dated(session, runs, control.busy, held', plan)
  BY <1>1 DEF Moves, Dated, Has
<1>7. ASSUME NEW plan \in bank'.signed \cup adrift'
      PROVE  Dated(session, runs, control.busy, held', plan)
  BY <1>1, <1>6 DEF SentBy, MemoryInv, PlansOK
<1>8. ASSUME NEW k \in Handlers, handler'[k].pc \in Planned
      PROVE  Dated(session, runs, control.busy, held', handler'[k].plan)
  <2>1. CASE k = h
    BY <1>1, <1>6, <1>8, <2>1 DEF MemoryInv, MemoryTypeOK
  <2>2. CASE k # h
    <3>1. handler'[k] = handler[k]
      BY <2>2 DEF MemoryInv, MemoryTypeOK
    <3> QED BY <1>6, <1>8, <3>1 DEF MemoryInv, PlansOK
  <2> QED BY <2>1, <2>2
<1>9. PlansOK'
  BY <1>7, <1>8 DEF PlansOK
<1> QED BY <1>5, <1>9

LEMMA LockedOwn ==
  ASSUME MemoryInv, ~crossed, NEW h \in Handlers, handler[h].pc \in Locked,
         NEW x \in HandlerStates(session),
         UNCHANGED <<session, runs, control, offered, evidence, crossed>>,
         handler' = [handler EXCEPT ![h] = x],
         LockedStep(h, x, Id(session, handler[h].offer), held', locks', bank'.signed,
                    bank'.signed \cup adrift')
  PROVE  OwnOK'
<1> DEFINE j == Id(session, handler[h].offer)
           sent == bank.signed \cup adrift
<1>1. /\ Moves(held, held', j)
      /\ SentBy(handler[h], sent', sent)
      /\ x = Free \/ x.offer = handler[h].offer
      /\ Has(held, j) => Kept(held'.deliveries[j], sent')
      /\ Current(session, control, x) => Alone(x, j, held', locks', sent')
      /\ locks \ {j} \subseteq locks'
  BY DEF LockedStep
<1>2. /\ handler'[h] = x
      /\ \A k \in Handlers : k # h => handler'[k] = handler[k]
  BY DEF MemoryInv, MemoryTypeOK
<1>3. x.pc # "idle" => x.offer = handler[h].offer
  BY <1>1 DEF Free
<1>4. ASSUME control.busy = "reset", NEW k \in Handlers, handler'[k].pc # "idle"
      PROVE  Seed(session, handler'[k].offer) # session.seeds[runs + 1]
  BY <1>2, <1>3, <1>4, LockedPcs DEF MemoryInv, OwnOK
<1>5. ASSUME NEW k \in Handlers, Current(session, control, handler'[k])
      PROVE  Alone(handler'[k], Id(session, handler'[k].offer), held', locks', sent')
  <2>1. CASE k = h
    BY <1>1, <1>2, <1>3, <1>5, <2>1 DEF Current
  <2>2. CASE k # h
    <3>1. handler'[k] = handler[k]
      BY <1>2, <2>2
    <3>2. Current(session, control, handler[k])
      BY <1>5, <3>1
    <3> HIDE DEF sent
    <3>3. Alone(handler[k], Id(session, handler[k].offer), held', locks', sent')
      BY <1>1, <2>2, <3>2, OthersAlone DEF sent
    <3> QED BY <3>1, <3>3
  <2> QED BY <2>1, <2>2
<1>6. ASSUME NEW k \in Handlers, k # h
      PROVE  /\ Sole(session, control, x, handler[k])
             /\ Sole(session, control, handler[k], x)
  <2>1. /\ Sole(session, control, handler[h], handler[k])
        /\ Sole(session, control, handler[k], handler[h])
    BY <1>6 DEF MemoryInv, OwnOK
  <2>2. Current(session, control, x) =>
          Current(session, control, handler[h]) /\ x.offer = handler[h].offer
    BY <1>3, LockedPcs DEF Current
  <2> QED BY <2>1, <2>2 DEF Sole
<1>7. ASSUME NEW i \in Handlers, NEW k \in Handlers, i # k
      PROVE  Sole(session, control, handler'[i], handler'[k])
  <2>1. CASE i = h
    BY <1>2, <1>6, <1>7, <2>1
  <2>2. CASE k = h
    BY <1>2, <1>6, <1>7, <2>2
  <2>3. CASE i # h /\ k # h
    BY <1>2, <1>7, <2>3 DEF MemoryInv, OwnOK
  <2> QED BY <2>1, <2>2, <2>3
<1>8. ASSUME NEW d \in DOMAIN held.deliveries
      PROVE  Kept(held'.deliveries[d], sent')
  <2>1. CASE d = j
    BY <1>1, <2>1 DEF Has
  <2>2. CASE d # j
    <3>1. held'.deliveries[d] = held.deliveries[d]
      BY <1>1, <2>2 DEF Moves
    <3> HIDE DEF sent
    <3>2. Kept(held.deliveries[d], sent')
      BY <1>1, <2>2, OthersKept DEF sent
    <3> QED BY <3>1, <3>2
  <2> QED BY <2>1, <2>2
<1>9. DOMAIN held'.deliveries = DOMAIN held.deliveries
  BY <1>1 DEF Moves
<1> QED BY <1>4, <1>5, <1>7, <1>8, <1>9 DEF OwnOK

\* The invariant survives every such step.
LEMMA LockedNext ==
  ASSUME MemoryInv, NEW h \in Handlers, handler[h].pc \in Locked,
         NEW x \in HandlerStates(session),
         UNCHANGED <<session, runs, control, offered, evidence, crossed>>,
         handler' = [handler EXCEPT ![h] = x],
         LockedStep(h, x, Id(session, handler[h].offer), held', locks', bank'.signed,
                    bank'.signed \cup adrift')
  PROVE  MemoryInv'
<1>1. MemoryTypeOK' /\ HandlersOK' /\ EvidenceOK'
  BY LockedTypes
<1>2. StoreOK' /\ PlansOK'
  BY LockedStore
<1>3. ~crossed' => OwnOK'
  BY LockedOwn
<1> QED BY <1>1, <1>2, <1>3 DEF MemoryInv
-----------------------------------------------------------------------------
(* The steps of a payment that holds the lock and leaves the store alone.    *)

LEMMA Sent ==
  ASSUME MemoryInv, NEW h \in Handlers
  PROVE  handler[h].wire # "none" => handler[h].pc \in Planned /\ handler[h].pc \in {"hook", "await"}
BY LockedPcs DEF MemoryInv, HandlersOK, Carries

\* A payment past the lock whose delivery is in the store is one of this run.
LEMMA AtWork ==
  ASSUME MemoryInv, ~crossed, NEW h \in Handlers, handler[h].pc \in Locked,
         Has(held, Id(session, handler[h].offer)) \/ Current(session, control, handler[h])
  PROVE  /\ Current(session, control, handler[h])
         /\ Alone(handler[h], Id(session, handler[h].offer), held, locks, bank.signed \cup adrift)
<1>1. ASSUME Has(held, Id(session, handler[h].offer))
      PROVE  Current(session, control, handler[h])
  <2>1. control.busy # "reset"
    BY <1>1 DEF MemoryInv, StoreOK, Has
  <2>2. Id(session, handler[h].offer)[1] = control.seed
    BY <1>1 DEF MemoryInv, StoreOK, Has, Recorded
  <2> QED BY <2>1, <2>2, IdSeed, LockedPcs DEF Current
<1>2. Current(session, control, handler[h])
  BY <1>1
<1> QED BY <1>2 DEF MemoryInv, OwnOK

\* Sending the plan of a payment takes nothing from what is known of its record.
LEMMA SendKeeps ==
  ASSUME MemoryInv, ~crossed, NEW h \in Handlers, handler[h].pc \in Locked,
         NEW j, j = Id(session, handler[h].offer), Has(held, j),
         NEW t, SentBy(handler[h], t, bank.signed \cup adrift),
         handler[h].wire = "sent" \/ t \subseteq bank.signed \cup adrift
  PROVE  Kept(held.deliveries[j], t)
<1>1. Kept(held.deliveries[j], bank.signed \cup adrift)
  BY DEF MemoryInv, OwnOK, Has
<1>2. Alone(handler[h], j, held, locks, bank.signed \cup adrift)
  BY AtWork
<1>3. ASSUME handler[h].wire = "sent"
      PROVE  held.deliveries[j].phase = "mint_sent"
  BY <1>2, <1>3, Sent DEF Alone
<1> QED BY <1>1, <1>3 DEF Kept

LEMMA QuietNext ==
  ASSUME MemoryInv, NEW h \in Handlers, handler[h].pc \in Locked,
         NEW x \in HandlerStates(session),
         UNCHANGED <<session, runs, control, held, offered, evidence, crossed>>,
         handler' = [handler EXCEPT ![h] = x],
         Carries(session, x, bank'.signed),
         x = Free \/ x.offer = handler[h].offer,
         x.pc \in Planned => Dated(session, runs, control.busy, held, x.plan),
         bank.signed \subseteq bank'.signed,
         SentBy(handler[h], bank'.signed \cup adrift', bank.signed \cup adrift),
         handler[h].wire = "sent" \/ bank'.signed \cup adrift' \subseteq bank.signed \cup adrift,
         ~crossed /\ Current(session, control, x) =>
            Alone(x, Id(session, handler[h].offer), held, locks', bank'.signed \cup adrift'),
         locks \ {Id(session, handler[h].offer)} \subseteq locks'
  PROVE  MemoryInv'
<1> DEFINE j == Id(session, handler[h].offer)
           sent == bank.signed \cup adrift
<1>1. Moves(held, held, j)
  BY SameStore DEF MemoryInv, MemoryTypeOK
<1>2. ASSUME Has(held, j)
      PROVE  /\ Recorded(session, control.seed, runs, j, held.deliveries[j], bank'.signed)
             /\ j \in held.credits <=> held.deliveries[j].phase \in {"credited", "settled"}
  <2>1. /\ Recorded(session, control.seed, runs, j, held.deliveries[j], bank.signed)
        /\ j \in held.credits <=> held.deliveries[j].phase \in {"credited", "settled"}
    BY <1>2 DEF MemoryInv, StoreOK, Has
  <2> QED BY <2>1 DEF Recorded
<1>3. j \in held.credits => Has(held, j) /\ \E plan \in bank'.signed : Id(session, plan[1]) = j
  BY DEF MemoryInv, StoreOK, Has
<1> HIDE DEF j, sent
<1>4. ASSUME ~crossed, Has(held, j)
      PROVE  Kept(held.deliveries[j], sent')
  BY <1>4, SendKeeps DEF j, sent
<1> USE DEF j
<1>5. LockedStep(h, x, j, held', locks', bank'.signed, sent')
  BY <1>1, <1>2, <1>3, <1>4 DEF LockedStep, sent
<1> QED BY <1>5, LockedNext DEF sent

LEMMA FreeIsIdle ==
  /\ \A ses : Free \in HandlerStates(ses)
  /\ \A ses, signed : Carries(ses, Free, signed)
  /\ \A ses, c : ~Current(ses, c, Free)
  /\ Free.pc \notin Planned /\ Free.pc = "idle"
<1>1. /\ Free.pc = "idle" /\ Free.offer = NoPlan /\ Free.plan = NoPlan /\ Free.wire = "none"
      /\ Free.pc \notin Planned
  BY DEF Free, Planned
<1>2. \A ses : Free \in HandlerStates(ses)
  BY DEF Free, HandlerStates
<1>3. \A ses, signed : Carries(ses, Free, signed)
  BY <1>1 DEF Carries
<1> QED BY <1>1, <1>2, <1>3 DEF Current

LEMMA UnlockSends ==
  ASSUME MemoryInv, NEW h \in Handlers,
         adrift' = IF handler[h].wire = "sent" THEN adrift \cup {handler[h].plan} ELSE adrift
  PROVE  /\ SentBy(handler[h], bank.signed \cup adrift', bank.signed \cup adrift)
         /\ handler[h].wire = "sent" \/ bank.signed \cup adrift' \subseteq bank.signed \cup adrift
BY Sent DEF SentBy

LEMMA UnlockNext ==
  ASSUME MemoryInv, NEW h \in Handlers, handler[h].pc \in Locked, Unlock(h),
         UNCHANGED <<session, runs, control, held, offered, bank, evidence, crossed>>
  PROVE  MemoryInv'
<1>1. /\ SentBy(handler[h], bank.signed \cup adrift', bank.signed \cup adrift)
      /\ handler[h].wire = "sent" \/ bank.signed \cup adrift' \subseteq bank.signed \cup adrift
  BY UnlockSends DEF Unlock
<1>2. locks \ {Id(session, handler[h].offer)} \subseteq locks'
  BY Ids DEF Unlock, Job
<1>3. handler' = [handler EXCEPT ![h] = Free]
  BY DEF Unlock
<1> QED BY <1>1, <1>2, <1>3, FreeIsIdle, QuietNext
\* The payment x at another step.
Turn(x, pc, plan, wire) == [pc |-> pc, offer |-> x.offer, plan |-> plan, wire |-> wire]

LEMMA Turned ==
  ASSUME MemoryInv, NEW h \in Handlers, NEW pc, NEW plan, NEW wire
  PROVE  /\ Turn(handler[h], pc, plan, wire).pc = pc
         /\ Turn(handler[h], pc, plan, wire).offer = handler[h].offer
         /\ Turn(handler[h], pc, plan, wire).plan = plan
         /\ Turn(handler[h], pc, plan, wire).wire = wire
         /\ pc \in Locked \cup {"lock", "prepare"} /\ plan \in Plans(session) \cup {NoPlan}
            /\ wire \in {"none", "sent", "done", "refused"} =>
              Turn(handler[h], pc, plan, wire) \in HandlerStates(session)
<1>1. handler[h].offer \in Offers(session) \cup {NoPlan}
  BY DEF MemoryInv, MemoryTypeOK, HandlerStates
<1> QED BY <1>1 DEF Turn, HandlerStates

LEMMA TurnedOn ==
  ASSUME MemoryInv, NEW h \in Handlers, NEW pc \in Locked \cup {"lock", "prepare"},
         NEW plan \in Plans(session) \cup {NoPlan}
  PROVE  Turn(handler[h], pc, plan, handler[h].wire) \in HandlerStates(session)
<1>1. handler[h].wire \in {"none", "sent", "done", "refused"}
  BY DEF MemoryInv, MemoryTypeOK, HandlerStates
<1> QED BY <1>1, Turned

\* What the actions make of the handlers when they set two fields of one.
PcWire(h, pc, wire) == [handler EXCEPT ![h].pc = pc, ![h].wire = wire]
PcPlan(h, pc, plan) == [handler EXCEPT ![h].pc = pc, ![h].plan = plan]

LEMMA HandlerIs ==
  ASSUME MemoryInv, NEW h \in Handlers
  PROVE  /\ handler \in [Handlers -> HandlerStates(session)]
         /\ handler[h] = [pc |-> handler[h].pc, offer |-> handler[h].offer,
                          plan |-> handler[h].plan, wire |-> handler[h].wire]
<1>1. handler \in [Handlers -> HandlerStates(session)] /\ handler[h] \in HandlerStates(session)
  BY DEF MemoryInv, MemoryTypeOK
<1>2. handler[h] = [pc |-> handler[h].pc, offer |-> handler[h].offer,
                    plan |-> handler[h].plan, wire |-> handler[h].wire]
  BY <1>1 DEF HandlerStates
<1> QED BY <1>1, <1>2

LEMMA TurnsPc ==
  ASSUME MemoryInv, NEW h \in Handlers, NEW pc
  PROVE  [handler EXCEPT ![h].pc = pc] =
           [handler EXCEPT ![h] = Turn(handler[h], pc, handler[h].plan, handler[h].wire)]
<1> DEFINE x == handler[h]
<1>1. x = [pc |-> x.pc, offer |-> x.offer, plan |-> x.plan, wire |-> x.wire]
  BY HandlerIs
<1> HIDE DEF x
<1>2. [x EXCEPT !.pc = pc] = Turn(x, pc, x.plan, x.wire)
  BY <1>1 DEF Turn
<1> USE DEF x
<1>3. handler \in [Handlers -> HandlerStates(session)]
  BY HandlerIs
<1>4. [handler EXCEPT ![h].pc = pc] = [handler EXCEPT ![h] = [handler[h] EXCEPT !.pc = pc]]
  BY <1>3
<1> QED BY <1>2, <1>4

LEMMA TurnsWire ==
  ASSUME MemoryInv, NEW h \in Handlers, NEW wire
  PROVE  [handler EXCEPT ![h].wire = wire] =
           [handler EXCEPT ![h] = Turn(handler[h], handler[h].pc, handler[h].plan, wire)]
<1> DEFINE x == handler[h]
<1>1. x = [pc |-> x.pc, offer |-> x.offer, plan |-> x.plan, wire |-> x.wire]
  BY HandlerIs
<1> HIDE DEF x
<1>2. [x EXCEPT !.wire = wire] = Turn(x, x.pc, x.plan, wire)
  BY <1>1 DEF Turn
<1> USE DEF x
<1>3. handler \in [Handlers -> HandlerStates(session)]
  BY HandlerIs
<1>4. [handler EXCEPT ![h].wire = wire] = [handler EXCEPT ![h] = [handler[h] EXCEPT !.wire = wire]]
  BY <1>3
<1> QED BY <1>2, <1>4

LEMMA TurnsPcWire ==
  ASSUME MemoryInv, NEW h \in Handlers, NEW pc, NEW wire
  PROVE  PcWire(h, pc, wire) =
           [handler EXCEPT ![h] = Turn(handler[h], pc, handler[h].plan, wire)]
<1> DEFINE f == [handler EXCEPT ![h].pc = pc]
           x == Turn(handler[h], pc, handler[h].plan, handler[h].wire)
<1>1. /\ f = [handler EXCEPT ![h] = x]
      /\ handler \in [Handlers -> HandlerStates(session)]
  BY TurnsPc, HandlerIs
<1>2. [x EXCEPT !.wire = wire] = Turn(handler[h], pc, handler[h].plan, wire)
  BY DEF Turn
<1>3. PcWire(h, pc, wire) = [f EXCEPT ![h].wire = wire]
  BY DEF PcWire
<1> HIDE DEF f, x
<1>4. [f EXCEPT ![h].wire = wire] = [handler EXCEPT ![h] = [x EXCEPT !.wire = wire]]
  BY <1>1
<1> QED BY <1>2, <1>3, <1>4

LEMMA TurnsPcPlan ==
  ASSUME MemoryInv, NEW h \in Handlers, NEW pc, NEW plan
  PROVE  PcPlan(h, pc, plan) =
           [handler EXCEPT ![h] = Turn(handler[h], pc, plan, handler[h].wire)]
<1> DEFINE f == [handler EXCEPT ![h].pc = pc]
           x == Turn(handler[h], pc, handler[h].plan, handler[h].wire)
<1>1. /\ f = [handler EXCEPT ![h] = x]
      /\ handler \in [Handlers -> HandlerStates(session)]
  BY TurnsPc, HandlerIs
<1>2. [x EXCEPT !.plan = plan] = Turn(handler[h], pc, plan, handler[h].wire)
  BY DEF Turn
<1>3. PcPlan(h, pc, plan) = [f EXCEPT ![h].plan = plan]
  BY DEF PcPlan
<1> HIDE DEF f, x
<1>4. [f EXCEPT ![h].plan = plan] = [handler EXCEPT ![h] = [x EXCEPT !.plan = plan]]
  BY <1>1
<1> QED BY <1>2, <1>3, <1>4

\* A payment with a plan goes on with it, to step pc, and the store is left alone.
LEMMA GoesOn ==
  ASSUME MemoryInv, NEW h \in Handlers, handler[h].pc \in Planned, NEW pc \in Planned,
         NEW wire \in {"none", "sent", "done", "refused"},
         UNCHANGED <<session, runs, control, held, locks, offered, evidence, crossed>>,
         handler' = [handler EXCEPT ![h] = Turn(handler[h], pc, handler[h].plan, wire)],
         wire # "none" <=> pc \in {"hook", "await"},
         pc = "settle" \/ wire = "done" => handler[h].plan \in bank'.signed,
         bank.signed \subseteq bank'.signed,
         SentBy(handler[h], bank'.signed \cup adrift', bank.signed \cup adrift),
         handler[h].wire = "sent" \/ bank'.signed \cup adrift' \subseteq bank.signed \cup adrift,
         Alone(handler[h], Id(session, handler[h].offer), held, locks, bank.signed \cup adrift) =>
           /\ pc # "mark"
           /\ pc \in {"dispatch", "hook", "await", "reject"} =>
                handler[h].pc \in {"dispatch", "hook", "await", "reject"}
           /\ pc \in {"dispatch", "reject"} \/ wire \in {"sent", "refused"} =>
                handler[h].plan \notin bank'.signed \cup adrift'
  PROVE  MemoryInv'
<1> DEFINE x == Turn(handler[h], pc, handler[h].plan, wire)
           j == Id(session, handler[h].offer)
<1>1. /\ Carries(session, handler[h], bank.signed)
      /\ Dated(session, runs, control.busy, held, handler[h].plan)
  BY DEF MemoryInv, HandlersOK, PlansOK
<1>2. handler[h].offer \in Offers(session) /\ PlanFor(session, handler[h].plan, j)
  BY <1>1, LockedPcs DEF Carries
<1>3. /\ x.pc = pc /\ x.offer = handler[h].offer /\ x.plan = handler[h].plan /\ x.wire = wire
      /\ x \in HandlerStates(session)
  <2>1. pc \in Locked \cup {"lock", "prepare"} /\ handler[h].plan \in Plans(session) \cup {NoPlan}
    BY <1>2, LockedPcs DEF PlanFor
  <2>2. x.pc = pc /\ x.offer = handler[h].offer /\ x.plan = handler[h].plan /\ x.wire = wire
    BY DEF Turn
  <2> HIDE DEF x
  <2>3. x \in HandlerStates(session)
    BY <2>1, Turned DEF x
  <2> QED BY <2>2, <2>3
<1> HIDE DEF x
<1>4. Carries(session, x, bank'.signed)
  BY <1>2, <1>3 DEF Carries
<1>5. ASSUME ~crossed, Current(session, control, x)
      PROVE  Alone(x, j, held, locks, bank'.signed \cup adrift')
  <2>1. Current(session, control, handler[h])
    BY <1>3, <1>5, LockedPcs DEF Current
  <2>2. Alone(handler[h], j, held, locks, bank.signed \cup adrift)
    BY <1>5, <2>1, LockedPcs, AtWork
  <2> QED BY <1>3, <2>2, LockedPcs DEF Alone
<1>6. handler' = [handler EXCEPT ![h] = x]
  BY DEF x
<1>7. locks \ {j} \subseteq locks'
  OBVIOUS
<1> HIDE DEF j
<1>8. handler[h].pc \in Locked
  BY LockedPcs
<1> QED BY <1>1, <1>3, <1>4, <1>5, <1>6, <1>7, <1>8, QuietNext DEF j

LEMMA NothingSent ==
  ASSUME NEW x, NEW t
  PROVE  SentBy(x, t, t) /\ t \subseteq t
BY DEF SentBy

LEMMA DispatchNext ==
  ASSUME MemoryInv, NEW h \in Handlers, DispatchSwap(h)
  PROVE  MemoryInv'
<1>1. handler' = PcWire(h, "hook", "sent")
  BY DEF DispatchSwap, PcWire
<1>2. /\ handler[h].pc = "dispatch"
      /\ UNCHANGED <<session, runs, control, held, locks, offered, bank, adrift, evidence, crossed>>
  BY DEF DispatchSwap, At
<1>3. handler' = [handler EXCEPT ![h] = Turn(handler[h], "hook", handler[h].plan, "sent")]
  BY <1>1, TurnsPcWire
<1>4. Alone(handler[h], Id(session, handler[h].offer), held, locks, bank.signed \cup adrift) =>
        handler[h].plan \notin bank.signed \cup adrift
  BY <1>2 DEF Alone
<1> QED BY <1>2, <1>3, <1>4, GoesOn, NothingSent, LockedPcs

LEMMA SwapAnsweredNext ==
  ASSUME MemoryInv, NEW h \in Handlers, SwapAnswered(h)
  PROVE  MemoryInv'
<1> DEFINE pc == IF handler[h].wire = "done" THEN "settle" ELSE "reject"
<1>1. handler' = PcWire(h, pc, "none")
  BY DEF SwapAnswered, PcWire
<1>2. /\ handler[h].pc = "await" /\ handler[h].wire \in {"done", "refused"}
      /\ UNCHANGED <<session, runs, control, held, locks, offered, bank, adrift, evidence, crossed>>
  BY DEF SwapAnswered, At
<1> HIDE DEF pc
<1>3. handler' = [handler EXCEPT ![h] = Turn(handler[h], pc, handler[h].plan, "none")]
  BY <1>1, TurnsPcWire
<1> USE DEF pc
<1>4. Alone(handler[h], Id(session, handler[h].offer), held, locks, bank.signed \cup adrift) =>
        (pc = "reject" => handler[h].plan \notin bank.signed \cup adrift)
  BY <1>2 DEF Alone
<1>5. handler[h].wire = "done" => handler[h].plan \in bank.signed
  BY DEF MemoryInv, HandlersOK, Carries
<1>6. /\ \/ pc = "settle" /\ handler[h].wire = "done"
         \/ pc = "reject" /\ handler[h].wire = "refused"
      /\ pc \in Planned /\ handler[h].pc \in Planned
  BY <1>2, LockedPcs
<1> HIDE DEF pc
<1> QED BY <1>2, <1>3, <1>4, <1>5, <1>6, GoesOn, NothingSent

LEMMA UnansweredNext ==
  ASSUME MemoryInv, NEW h \in Handlers, Unanswered(h)
  PROVE  MemoryInv'
<1>1. handler' = PcWire(h, "block", "none")
  BY DEF Unanswered, PcWire
<1>2. /\ handler[h].pc \in {"hook", "await"}
      /\ UNCHANGED <<session, runs, control, held, locks, offered, bank, evidence, crossed>>
  BY DEF Unanswered
<1>3. handler' = [handler EXCEPT ![h] = Turn(handler[h], "block", handler[h].plan, "none")]
  BY <1>1, TurnsPcWire
<1>4. /\ SentBy(handler[h], bank.signed \cup adrift', bank.signed \cup adrift)
      /\ handler[h].wire = "sent" \/ bank.signed \cup adrift' \subseteq bank.signed \cup adrift
  BY UnlockSends DEF Unanswered
<1>5. "block" \in Planned /\ handler[h].pc \in Planned
  BY <1>2 DEF Planned
<1> QED BY <1>2, <1>3, <1>4, <1>5, GoesOn

LEMMA RestoredNext ==
  ASSUME MemoryInv, NEW h \in Handlers, Restored(h)
  PROVE  MemoryInv'
<1>1. PICK next \in {"block"} \cup {"settle" : plan \in {handler[h].plan} \cap bank.signed} :
        Goto(h, next)
  BY DEF Restored
<1>2. next = "block" \/ (next = "settle" /\ handler[h].plan \in bank.signed)
  BY <1>1
<1>3. /\ handler[h].pc = "restored"
      /\ handler' = [handler EXCEPT ![h] =
                        Turn(handler[h], next, handler[h].plan, handler[h].wire)]
      /\ UNCHANGED <<session, runs, control, held, locks, offered, bank, adrift, evidence, crossed>>
  BY <1>1, TurnsPc DEF Restored, At, Goto
<1>4. handler[h].wire = "none"
  BY <1>3 DEF MemoryInv, HandlersOK, Carries
<1>5. next \in Planned /\ handler[h].pc \in Planned
  BY <1>2, <1>3 DEF Planned
<1> QED BY <1>2, <1>3, <1>4, <1>5, GoesOn, NothingSent
LEMMA MintAnswersNext ==
  ASSUME MemoryInv, NEW h \in Handlers, MintAnswers(h)
  PROVE  MemoryInv'
<1>1. /\ handler[h].wire = "sent"
      /\ UNCHANGED <<session, runs, control, held, locks, offered, adrift, evidence, crossed>>
  BY DEF MintAnswers
<1>2. handler[h].pc \in Planned /\ handler[h].pc \in {"hook", "await"}
  BY <1>1, Sent
<1>3. CASE Signed(handler[h].plan) /\ handler' = [handler EXCEPT ![h].wire = "done"]
  <2>1. handler' = [handler EXCEPT ![h] = Turn(handler[h], handler[h].pc, handler[h].plan, "done")]
    BY <1>3, TurnsWire
  <2>2. bank'.signed = bank.signed \cup {handler[h].plan}
    BY <1>3 DEF Signed
  <2>3. SentBy(handler[h], bank'.signed \cup adrift', bank.signed \cup adrift)
    BY <1>1, <1>2, <2>2 DEF SentBy
  <2> QED BY <1>1, <1>2, <2>1, <2>2, <2>3, GoesOn
<1>4. CASE UNCHANGED bank /\ handler' = [handler EXCEPT ![h].wire = "refused"]
  <2>1. handler' = [handler EXCEPT ![h] =
                      Turn(handler[h], handler[h].pc, handler[h].plan, "refused")]
    BY <1>4, TurnsWire
  <2>2. Alone(handler[h], Id(session, handler[h].offer), held, locks, bank.signed \cup adrift) =>
          handler[h].plan \notin bank.signed \cup adrift
    BY <1>1 DEF Alone
  <2> QED BY <1>1, <1>2, <1>4, <2>1, <2>2, GoesOn, NothingSent
<1> QED BY <1>3, <1>4 DEF MintAnswers

LEMMA NextSteps ==
  ASSUME NEW phase, phase \notin {"settled", "rejected"}
  PROVE  /\ NextStep(phase) \in {"mark", "settle", "finalize", "restore"}
         /\ NextStep(phase) = "mark" => phase = "prepared"
         /\ NextStep(phase) = "settle" => phase = "outputs_persisted"
BY DEF NextStep

\* What the record of a delivery under way tells the payment that reads it.
LEMMA ReadFacts ==
  ASSUME MemoryInv, NEW j, Has(held, j), ~Ended(held, j), NEW plan,
         LET record == held.deliveries[j] IN
         plan = IF record.phase = "outputs_persisted" THEN record.outputs ELSE record.plan
  PROVE  /\ PlanFor(session, plan, j)
         /\ Dated(session, runs, control.busy, held, plan)
         /\ held.deliveries[j].phase = "outputs_persisted" => plan \in bank.signed
         /\ ~crossed => plan = held.deliveries[j].plan
<1> DEFINE record == held.deliveries[j]
<1>1. Recorded(session, control.seed, runs, j, record, bank.signed)
  BY DEF MemoryInv, StoreOK, Has
<1>2. ~crossed => Kept(record, bank.signed \cup adrift)
  BY DEF MemoryInv, OwnOK, Has
<1>3. CASE record.phase = "outputs_persisted"
  <2>1. plan = record.outputs
    BY <1>3
  <2>2. plan \in bank.signed /\ PlanFor(session, plan, j)
    BY <1>1, <1>3, <2>1 DEF Recorded
  <2>3. plan # NoPlan
    BY <2>2, NoPlanIsNone DEF PlanFor
  <2>4. Dated(session, runs, control.busy, held, plan)
    BY <2>2 DEF MemoryInv, PlansOK
  <2> QED BY <1>2, <2>1, <2>2, <2>3, <2>4 DEF Kept
<1>4. CASE record.phase # "outputs_persisted"
  <2>1. plan = record.plan
    BY <1>4
  <2>2. PlanFor(session, plan, j) /\ plan[3] = runs
    BY <1>1, <2>1 DEF Recorded
  <2>3. runs <= runs
    BY DEF MemoryInv, MemoryTypeOK
  <2>4. Dated(session, runs, control.busy, held, plan)
    BY <2>1, <2>2, <2>3 DEF Dated, PlanFor
  <2> QED BY <1>4, <2>1, <2>2, <2>4
<1> QED BY <1>3, <1>4

LEMMA ReadNext ==
  ASSUME MemoryInv, NEW h \in Handlers, ReadRecord(h)
  PROVE  MemoryInv'
<1> DEFINE j == Id(session, handler[h].offer)
<1>1. /\ handler[h].pc = "read" /\ handler[h].pc \in Locked
      /\ UNCHANGED <<session, runs, control, held, offered, bank, evidence, crossed>>
  BY DEF ReadRecord, At, Locked
<1>2. Job(h) = j
  BY Ids DEF Job
<1>3. CASE Has(held, j) /\ ~Ended(held, j)
  <2> DEFINE record == held.deliveries[j]
             pc == NextStep(record.phase)
             plan == IF record.phase = "outputs_persisted" THEN record.outputs ELSE record.plan
             x == Turn(handler[h], pc, plan, handler[h].wire)
  <2>1. handler' = PcPlan(h, pc, plan) /\ UNCHANGED <<locks, adrift>>
    BY <1>2, <1>3 DEF ReadRecord, PcPlan
  <2>2. /\ PlanFor(session, plan, j)
        /\ Dated(session, runs, control.busy, held, plan)
        /\ record.phase = "outputs_persisted" => plan \in bank.signed
        /\ ~crossed => plan = record.plan
    BY <1>3, ReadFacts
  <2>3. /\ pc \in {"mark", "settle", "finalize", "restore"}
        /\ pc = "mark" => record.phase = "prepared"
        /\ pc = "settle" => record.phase = "outputs_persisted"
    BY <1>3, NextSteps DEF Ended
  <2>4. handler[h].wire = "none" /\ handler[h].offer \in Offers(session)
    BY <1>1 DEF MemoryInv, HandlersOK, Carries
  <2>5. pc \in Planned /\ pc \in Locked /\ pc \notin {"hook", "await", "dispatch", "reject"}
    BY <2>3 DEF Planned, Locked
  <2> HIDE DEF pc, plan
  <2>6. handler' = [handler EXCEPT ![h] = x]
    BY <2>1, TurnsPcPlan
  <2>7. x.pc = pc /\ x.offer = handler[h].offer /\ x.plan = plan /\ x.wire = "none"
    BY <2>4 DEF Turn
  <2>8. pc \in Locked \cup {"lock", "prepare"} /\ plan \in Plans(session) \cup {NoPlan}
    BY <2>2, <2>5 DEF PlanFor
  <2>9. x \in HandlerStates(session)
    BY <2>4, <2>8, Turned
  <2> HIDE DEF x
  <2>10. Carries(session, x, bank.signed)
    BY <2>2, <2>3, <2>4, <2>5, <2>7 DEF Carries
  <2>11. ASSUME ~crossed
         PROVE  Alone(x, j, held, locks, bank.signed \cup adrift)
    <3>1. Alone(handler[h], j, held, locks, bank.signed \cup adrift)
      BY <1>1, <1>3, <2>11, AtWork
    <3>2. j \in locks
      BY <1>1, <3>1 DEF Alone
    <3> QED BY <1>3, <2>2, <2>3, <2>5, <2>7, <2>11, <3>2 DEF Alone
  <2>12. locks \ {j} \subseteq locks'
    BY <2>1
  <2> QED BY <1>1, <2>1, <2>2, <2>6, <2>7, <2>9, <2>10, <2>11, <2>12, NothingSent, QuietNext
<1>4. CASE ~(Has(held, j) /\ ~Ended(held, j))
  <2>1. Unlock(h)
    BY <1>2, <1>4 DEF ReadRecord
  <2> QED BY <1>1, <2>1, UnlockNext
<1> QED BY <1>3, <1>4
-----------------------------------------------------------------------------
(* The store calls of a payment that holds the lock.                         *)

\* The store s became t: the record of d is in phase ph with outputs out.
Became(s, t, d, ph, out, cr) ==
    /\ Moves(s, t, d)
    /\ t.deliveries[d].phase = ph
    /\ t.deliveries[d].outputs = out
    /\ t.credits = cr

\* The record r in phase ph with outputs out.
Moved(r, ph, out) == [offer |-> r.offer, plan |-> r.plan, phase |-> ph, outputs |-> out]
MovedAt(f, d, ph, out) == [f EXCEPT ![d] = Moved(f[d], ph, out)]

LEMMA Becomes ==
  ASSUME NEW s, IsStore(s), NEW d, Has(s, d), NEW ph, NEW out,
         NEW cr, cr \in {s.credits, s.credits \cup {d}}, NEW t,
         t.requests = s.requests, t.credits = cr,
         t.deliveries = MovedAt(s.deliveries, d, ph, out),
         t = [requests |-> t.requests, deliveries |-> t.deliveries, proofClaims |-> t.proofClaims,
              reservations |-> t.reservations, credits |-> t.credits]
  PROVE  Became(s, t, d, ph, out, cr)
<1> DEFINE r == Moved(s.deliveries[d], ph, out)
<1>1. s.deliveries = [e \in DOMAIN s.deliveries |-> s.deliveries[e]] /\ d \in DOMAIN s.deliveries
  BY DEF IsStore, Has
<1>2. r.plan = s.deliveries[d].plan /\ r.phase = ph /\ r.outputs = out /\ IsRecord(r)
  BY DEF IsRecord, Moved
<1>3. t.deliveries = [s.deliveries EXCEPT ![d] = r]
  BY DEF MovedAt
<1> HIDE DEF r
<1>4. /\ DOMAIN t.deliveries = DOMAIN s.deliveries
      /\ t.deliveries[d] = r
      /\ \A e \in DOMAIN s.deliveries : e # d => t.deliveries[e] = s.deliveries[e]
      /\ t.deliveries = [e \in DOMAIN t.deliveries |-> t.deliveries[e]]
  BY <1>1, <1>3
<1>5. \A e \in DOMAIN t.deliveries : IsRecord(t.deliveries[e])
  BY <1>2, <1>4 DEF IsStore
<1>6. IsStore(t)
  BY <1>4, <1>5 DEF IsStore
<1>7. Moves(s, t, d)
  BY <1>2, <1>4, <1>6 DEF Moves
<1> QED BY <1>2, <1>4, <1>7 DEF Became
PhaseAt(f, d, ph) == [f EXCEPT ![d].phase = ph]
OutputsAt(f, d, out) == [f EXCEPT ![d].outputs = out]

LEMMA Records ==
  ASSUME NEW s, IsStore(s), NEW d, Has(s, d), NEW ph, NEW out
  PROVE  /\ PhaseAt(s.deliveries, d, ph) =
              MovedAt(s.deliveries, d, ph, s.deliveries[d].outputs)
         /\ OutputsAt(PhaseAt(s.deliveries, d, ph), d, out) =
              MovedAt(s.deliveries, d, ph, out)
<1> DEFINE f == s.deliveries
           r == f[d]
           g == [f EXCEPT ![d] = Moved(r, ph, r.outputs)]
<1>1. f = [e \in DOMAIN f |-> f[e]] /\ d \in DOMAIN f /\ IsRecord(r)
  BY DEF IsStore, Has
<1> HIDE DEF f
<1>2. PhaseAt(f, d, ph) = [f EXCEPT ![d] = [r EXCEPT !.phase = ph]]
  BY <1>1 DEF PhaseAt
<1> HIDE DEF r
<1>3. [r EXCEPT !.phase = ph] = Moved(r, ph, r.outputs)
  BY <1>1 DEF IsRecord, Moved
<1>4. PhaseAt(f, d, ph) = g
  BY <1>2, <1>3
<1>5. [Moved(r, ph, r.outputs) EXCEPT !.outputs = out] = Moved(r, ph, out)
  BY DEF Moved
<1>6. OutputsAt(g, d, out) = [f EXCEPT ![d] = [Moved(r, ph, r.outputs) EXCEPT !.outputs = out]]
  BY <1>1 DEF OutputsAt
<1> QED BY <1>4, <1>5, <1>6 DEF f, r, MovedAt

LEMMA InIs ==
  ASSUME NEW s, IsStore(s), NEW d, NEW ph
  PROVE  In(s, d, ph) = [requests |-> s.requests, deliveries |-> PhaseAt(s.deliveries, d, ph),
                         proofClaims |-> s.proofClaims, reservations |-> s.reservations,
                         credits |-> s.credits]
BY DEF IsStore, In, PhaseAt

LEMMA InBecomes ==
  ASSUME NEW s, IsStore(s), NEW d, Has(s, d), NEW ph
  PROVE  Became(s, In(s, d, ph), d, ph, s.deliveries[d].outputs, s.credits)
<1> DEFINE t == In(s, d, ph)
<1>1. t = [requests |-> s.requests, deliveries |-> PhaseAt(s.deliveries, d, ph),
           proofClaims |-> s.proofClaims, reservations |-> s.reservations, credits |-> s.credits]
  BY InIs
<1> HIDE DEF t
<1>2. /\ t = [requests |-> t.requests, deliveries |-> t.deliveries, proofClaims |-> t.proofClaims,
              reservations |-> t.reservations, credits |-> t.credits]
      /\ t.requests = s.requests /\ t.credits = s.credits
      /\ t.deliveries = PhaseAt(s.deliveries, d, ph)
  BY <1>1
<1>3. t.deliveries = MovedAt(s.deliveries, d, ph, s.deliveries[d].outputs)
  BY <1>2, Records
<1>4. Became(s, t, d, ph, s.deliveries[d].outputs, s.credits)
  BY <1>2, <1>3, Becomes
<1> QED BY <1>4 DEF t

\* What the store calls make of a record they take outputs for, or credit.
Taken(s, d, ph, out) == [In(s, d, ph) EXCEPT !.deliveries[d].outputs = out]
TakenFor(s, d, ph, out) ==
    [In(s, d, ph) EXCEPT !.deliveries[d].outputs = out, !.credits = @ \cup {d}]
CreditFor(s, d, ph) == [In(s, d, ph) EXCEPT !.credits = @ \cup {d}]

LEMMA OutputsBecome ==
  ASSUME NEW s, IsStore(s), NEW d, Has(s, d), NEW ph, NEW out
  PROVE  /\ Became(s, Taken(s, d, ph, out), d, ph, out, s.credits)
         /\ Became(s, TakenFor(s, d, ph, out), d, ph, out, s.credits \cup {d})
         /\ Became(s, CreditFor(s, d, ph), d, ph, s.deliveries[d].outputs, s.credits \cup {d})
<1> DEFINE i == In(s, d, ph)
           f == PhaseAt(s.deliveries, d, ph)
           t == [i EXCEPT !.deliveries[d].outputs = out]
           u == [i EXCEPT !.deliveries[d].outputs = out, !.credits = @ \cup {d}]
           v == [i EXCEPT !.credits = @ \cup {d}]
<1>1. i = [requests |-> s.requests, deliveries |-> f, proofClaims |-> s.proofClaims,
           reservations |-> s.reservations, credits |-> s.credits]
  BY InIs
<1>2. /\ f = MovedAt(s.deliveries, d, ph, s.deliveries[d].outputs)
      /\ OutputsAt(f, d, out) = MovedAt(s.deliveries, d, ph, out)
  BY Records
<1> HIDE DEF i, f
<1>3. t = [requests |-> s.requests, deliveries |-> OutputsAt(f, d, out),
           proofClaims |-> s.proofClaims, reservations |-> s.reservations, credits |-> s.credits]
  BY <1>1 DEF OutputsAt
<1>4. u = [t EXCEPT !.credits = @ \cup {d}]
  OBVIOUS
<1> HIDE DEF t, u
<1>5. u = [requests |-> s.requests, deliveries |-> OutputsAt(f, d, out),
           proofClaims |-> s.proofClaims, reservations |-> s.reservations,
           credits |-> s.credits \cup {d}]
  BY <1>3, <1>4
<1>6. v = [requests |-> s.requests, deliveries |-> f, proofClaims |-> s.proofClaims,
           reservations |-> s.reservations, credits |-> s.credits \cup {d}]
  BY <1>1
<1> HIDE DEF v
<1>7. Became(s, t, d, ph, out, s.credits)
  <2>1. /\ t = [requests |-> t.requests, deliveries |-> t.deliveries, proofClaims |-> t.proofClaims,
                reservations |-> t.reservations, credits |-> t.credits]
        /\ t.requests = s.requests /\ t.credits = s.credits
        /\ t.deliveries = OutputsAt(f, d, out)
    BY <1>3
  <2> QED BY <1>2, <2>1, Becomes
<1>8. Became(s, u, d, ph, out, s.credits \cup {d})
  <2>1. /\ u = [requests |-> u.requests, deliveries |-> u.deliveries, proofClaims |-> u.proofClaims,
                reservations |-> u.reservations, credits |-> u.credits]
        /\ u.requests = s.requests /\ u.credits = s.credits \cup {d}
        /\ u.deliveries = OutputsAt(f, d, out)
    BY <1>5
  <2> QED BY <1>2, <2>1, Becomes
<1>9. Became(s, v, d, ph, s.deliveries[d].outputs, s.credits \cup {d})
  <2>1. /\ v = [requests |-> v.requests, deliveries |-> v.deliveries, proofClaims |-> v.proofClaims,
                reservations |-> v.reservations, credits |-> v.credits]
        /\ v.requests = s.requests /\ v.credits = s.credits \cup {d}
        /\ v.deliveries = f
    BY <1>6
  <2> QED BY <1>2, <2>1, Becomes
<1> QED BY <1>7, <1>8, <1>9 DEF t, u, v, i, Taken, TakenFor, CreditFor

LEMMA RejectedBecomes ==
  ASSUME NEW s, IsStore(s), NEW d, Has(s, d), s.deliveries[d].phase \in {"prepared", "mint_sent"}
  PROVE  Became(s, Rejected(s, d), d, "rejected", s.deliveries[d].outputs, s.credits)
<1> DEFINE i == In(s, d, "rejected")
           t == [i EXCEPT !.proofClaims = Restrict(@, {p \in DOMAIN @ : @[p] # d}),
                          !.reservations = Restrict(@, {r \in DOMAIN @ : @[r] # d})]
           f == PhaseAt(s.deliveries, d, "rejected")
           claims == Restrict(i.proofClaims, {p \in DOMAIN i.proofClaims : i.proofClaims[p] # d})
           reserved == Restrict(i.reservations, {r \in DOMAIN i.reservations : i.reservations[r] # d})
<1>1. i = [requests |-> s.requests, deliveries |-> f, proofClaims |-> s.proofClaims,
           reservations |-> s.reservations, credits |-> s.credits]
  BY InIs
<1>2. f = MovedAt(s.deliveries, d, "rejected", s.deliveries[d].outputs)
  BY Records
<1>3. Rejected(s, d) = t
  BY DEF Rejected
<1> HIDE DEF i, f
<1>4. t = [i EXCEPT !.proofClaims = claims, !.reservations = reserved]
  OBVIOUS
<1> HIDE DEF t, claims, reserved
<1>5. t = [requests |-> s.requests, deliveries |-> f, proofClaims |-> claims,
           reservations |-> reserved, credits |-> s.credits]
  BY <1>1, <1>4
<1>6. /\ t = [requests |-> t.requests, deliveries |-> t.deliveries, proofClaims |-> t.proofClaims,
              reservations |-> t.reservations, credits |-> t.credits]
      /\ t.requests = s.requests /\ t.credits = s.credits /\ t.deliveries = f
  BY <1>5
<1>7. Became(s, t, d, "rejected", s.deliveries[d].outputs, s.credits)
  BY <1>2, <1>6, Becomes
<1> QED BY <1>3, <1>7
LEMMA Unmoved ==
  ASSUME NEW s, IsStore(s), NEW d
  PROVE  Became(s, s, d, s.deliveries[d].phase, s.deliveries[d].outputs, s.credits)
BY SameStore DEF Became

\* What a store call of payment h may make of the record of its delivery j.
Allowed(h, j, ph, out, cr) ==
    /\ \/ /\ out = held.deliveries[j].outputs
          /\ ph = "outputs_persisted" => held.deliveries[j].phase = "outputs_persisted"
       \/ out = handler[h].plan /\ handler[h].plan \in bank.signed
    /\ j \in cr <=> ph \in {"credited", "settled"}
    /\ j \in cr => \E plan \in bank.signed : Id(session, plan[1]) = j
    /\ ~crossed /\ ph \in {"prepared", "rejected"} =>
         held.deliveries[j].plan \notin bank.signed \cup adrift /\ handler[h].wire # "sent"

LEMMA AllowedRecord ==
  ASSUME MemoryInv, NEW h \in Handlers, handler[h].pc \in Planned,
         NEW j, j = Id(session, handler[h].offer), Has(held, j),
         NEW after, NEW ph, NEW out, NEW cr,
         Became(held, after, j, ph, out, cr), Allowed(h, j, ph, out, cr),
         NEW sent, SentBy(handler[h], sent, bank.signed \cup adrift),
         handler[h].wire = "sent" \/ sent \subseteq bank.signed \cup adrift
  PROVE  /\ Recorded(session, control.seed, runs, j, after.deliveries[j], bank.signed)
         /\ j \in after.credits <=> after.deliveries[j].phase \in {"credited", "settled"}
         /\ j \in after.credits => \E plan \in bank.signed : Id(session, plan[1]) = j
         /\ ~crossed => Kept(after.deliveries[j], sent)
<1> DEFINE r == held.deliveries[j]
           q == after.deliveries[j]
<1>1. Recorded(session, control.seed, runs, j, r, bank.signed)
  BY DEF MemoryInv, StoreOK, Has
<1>2. PlanFor(session, handler[h].plan, j)
  BY DEF MemoryInv, HandlersOK, Carries
<1>3. q.plan = r.plan /\ q.phase = ph /\ q.outputs = out /\ after.credits = cr
  BY DEF Became, Moves, Has
<1> HIDE DEF r, q
<1>4. out # NoPlan \/ ph = "outputs_persisted" => out \in bank.signed /\ PlanFor(session, out, j)
  BY <1>1, <1>2 DEF Allowed, Recorded, r
<1>5. Recorded(session, control.seed, runs, j, q, bank.signed)
  BY <1>1, <1>3, <1>4 DEF Recorded
<1>6. j \in after.credits <=> q.phase \in {"credited", "settled"}
  BY <1>3 DEF Allowed
<1>7. j \in after.credits => \E plan \in bank.signed : Id(session, plan[1]) = j
  BY <1>3 DEF Allowed
<1>8. ASSUME ~crossed
      PROVE  Kept(q, sent)
  <2>1. Alone(handler[h], j, held, locks, bank.signed \cup adrift)
    BY <1>8, LockedPcs, AtWork
  <2>2. handler[h].plan = r.plan
    BY <2>1 DEF Alone, r
  <2>3. Kept(r, bank.signed \cup adrift)
    BY <1>8 DEF MemoryInv, OwnOK, Has, r
  <2>4. out \in {NoPlan, r.plan}
    BY <2>2, <2>3 DEF Allowed, Kept, r
  <2>5. ph \in {"prepared", "rejected"} => r.plan \notin sent
    BY <1>8 DEF Allowed, r
  <2> QED BY <1>3, <2>4, <2>5 DEF Kept
<1> QED BY <1>5, <1>6, <1>7, <1>8 DEF q

\* A call after which the payment ends.
LEMMA CallEnds ==
  ASSUME MemoryInv, NEW h \in Handlers, handler[h].pc \in Planned,
         NEW j, j = Id(session, handler[h].offer), Has(held, j),
         NEW ph, NEW out, NEW cr,
         Became(held, held', j, ph, out, cr), Allowed(h, j, ph, out, cr), Unlock(h),
         UNCHANGED <<session, runs, control, offered, bank, evidence, crossed>>
  PROVE  MemoryInv'
<1> DEFINE sent == bank.signed \cup adrift'
<1>1. /\ SentBy(handler[h], sent, bank.signed \cup adrift)
      /\ handler[h].wire = "sent" \/ sent \subseteq bank.signed \cup adrift
  BY UnlockSends DEF Unlock
<1>2. /\ locks \ {j} \subseteq locks'
      /\ handler' = [handler EXCEPT ![h] = Free]
      /\ bank'.signed = bank.signed
      /\ handler[h].pc \in Locked
  BY Ids, LockedPcs DEF Unlock, Job
<1>3. Moves(held, held', j)
  BY DEF Became
<1> HIDE DEF sent
<1>4. /\ Recorded(session, control.seed, runs, j, held'.deliveries[j], bank.signed)
      /\ j \in held'.credits <=> held'.deliveries[j].phase \in {"credited", "settled"}
      /\ j \in held'.credits => \E plan \in bank.signed : Id(session, plan[1]) = j
      /\ ~crossed => Kept(held'.deliveries[j], sent)
  BY <1>1, AllowedRecord
<1>5. bank.signed \subseteq sent
  BY DEF sent
<1>6. LockedStep(h, Free, j, held', locks', bank'.signed, sent)
  BY <1>1, <1>2, <1>3, <1>4, <1>5, FreeIsIdle DEF LockedStep
<1>7. sent = bank'.signed \cup adrift'
  BY <1>2 DEF sent
<1> QED BY <1>2, <1>6, <1>7, FreeIsIdle, LockedNext

\* A call after which the payment goes on, to step next.
LEMMA CallGoesOn ==
  ASSUME MemoryInv, NEW h \in Handlers, handler[h].pc \in Planned,
         NEW j, j = Id(session, handler[h].offer), Has(held, j),
         NEW ph, NEW out, NEW cr,
         Became(held, held', j, ph, out, cr), Allowed(h, j, ph, out, cr),
         NEW next \in Planned \ {"mark", "settle", "reject"}, Goto(h, next),
         handler[h].wire # "none" <=> next \in {"hook", "await"},
         ~crossed => /\ next \in {"dispatch", "hook", "await"} => ph = "mint_sent"
                     /\ next = "dispatch" => handler[h].plan \notin bank.signed \cup adrift,
         UNCHANGED <<session, runs, control, locks, offered, bank, adrift, evidence, crossed>>
  PROVE  MemoryInv'
<1> DEFINE sent == bank.signed \cup adrift
           x == Turn(handler[h], next, handler[h].plan, handler[h].wire)
<1>1. SentBy(handler[h], sent, sent) /\ sent \subseteq sent /\ bank.signed \subseteq sent
  BY NothingSent
<1>2. handler' = [handler EXCEPT ![h] = x]
  BY TurnsPc DEF Goto
<1>3. /\ Carries(session, handler[h], bank.signed)
      /\ Dated(session, runs, control.busy, held, handler[h].plan)
  BY DEF MemoryInv, HandlersOK, PlansOK
<1>4. /\ x.pc = next /\ x.offer = handler[h].offer
      /\ x.plan = handler[h].plan /\ x.wire = handler[h].wire
  BY DEF Turn
<1>5. /\ next \in Locked \cup {"lock", "prepare"}
      /\ handler[h].plan \in Plans(session) \cup {NoPlan}
  BY <1>3, LockedPcs DEF Carries, PlanFor, MemoryInv, MemoryTypeOK, HandlerStates
<1>6. x \in HandlerStates(session)
  BY <1>5, TurnedOn
<1> HIDE DEF x
<1>7. Carries(session, x, bank.signed)
  <2>1. next # "idle" /\ next # "settle" /\ handler[h].pc # "idle"
    BY LockedPcs
  <2>2. /\ handler[h].offer \in Offers(session)
        /\ PlanFor(session, handler[h].plan, Id(session, handler[h].offer))
        /\ handler[h].wire = "done" => handler[h].plan \in bank.signed
    BY <1>3, <2>1 DEF Carries
  <2> QED BY <1>4, <2>1, <2>2 DEF Carries
<1>8. Moves(held, held', j) /\ held'.deliveries[j].phase = ph
  BY DEF Became
<1>9. /\ Recorded(session, control.seed, runs, j, held'.deliveries[j], bank.signed)
      /\ j \in held'.credits <=> held'.deliveries[j].phase \in {"credited", "settled"}
      /\ j \in held'.credits => \E plan \in bank.signed : Id(session, plan[1]) = j
      /\ ~crossed => Kept(held'.deliveries[j], sent)
  BY <1>1, AllowedRecord
<1>10. ASSUME ~crossed
       PROVE  Alone(x, j, held', locks, sent)
  <2>1. Alone(handler[h], j, held, locks, sent)
    BY <1>10, LockedPcs, AtWork
  <2>2. /\ Has(held', j) /\ held'.deliveries[j].plan = held.deliveries[j].plan
    BY <1>8 DEF Moves, Has
  <2>3. j \in locks /\ x.plan = held'.deliveries[j].plan
    BY <1>4, <2>1, <2>2, LockedPcs DEF Alone
  <2>4. x.pc \in {"dispatch", "reject"} \/ x.wire \in {"sent", "refused"} => x.plan \notin sent
    BY <1>4, <1>10, <2>1 DEF Alone
  <2> HIDE DEF sent
  <2> QED BY <1>4, <1>8, <1>10, <2>2, <2>3, <2>4 DEF Alone
<1> HIDE DEF sent
<1>11. LockedStep(h, x, j, held', locks', bank'.signed, sent)
  BY <1>1, <1>3, <1>4, <1>7, <1>8, <1>9, <1>10 DEF LockedStep, sent
<1>12. sent = bank'.signed \cup adrift' /\ handler[h].pc \in Locked
  BY LockedPcs DEF sent
<1> QED BY <1>2, <1>6, <1>11, <1>12, LockedNext
\* The call makes the store after of held, and the payment goes on to step next.
Fine(h, j, after, next) ==
    \E ph, out, cr :
       /\ Became(held, after, j, ph, out, cr)
       /\ Allowed(h, j, ph, out, cr)
       /\ next # "end" =>
            /\ next \in Planned \ {"mark", "settle", "reject"}
            /\ handler[h].wire # "none" <=> next \in {"hook", "await"}
            /\ ~crossed =>
                 /\ next \in {"dispatch", "hook", "await"} => ph = "mint_sent"
                 /\ next = "dispatch" => handler[h].plan \notin bank.signed \cup adrift

LEMMA CallNext ==
  ASSUME MemoryInv, NEW h \in Handlers, NEW pc \in Planned, NEW after, NEW next,
         StoreCall(h, pc, after, next), NEW j, j = Id(session, handler[h].offer),
         Has(held, j) => Fine(h, j, after, next)
  PROVE  MemoryInv'
<1>1. /\ handler[h].pc = pc /\ Job(h) = j /\ handler[h].pc \in Locked
      /\ UNCHANGED <<session, runs, control, offered, bank, evidence, crossed>>
  BY Ids, LockedPcs DEF StoreCall, At, Job
<1>2. CASE Has(held, j)
  <2>1. /\ held' = after
        /\ next = "end" => Unlock(h)
        /\ next # "end" => Goto(h, next) /\ UNCHANGED <<locks, adrift>>
    BY <1>1, <1>2 DEF StoreCall
  <2>2. PICK ph, out, cr :
       /\ Became(held, after, j, ph, out, cr)
       /\ Allowed(h, j, ph, out, cr)
       /\ next # "end" =>
            /\ next \in Planned \ {"mark", "settle", "reject"}
            /\ handler[h].wire # "none" <=> next \in {"hook", "await"}
            /\ ~crossed =>
                 /\ next \in {"dispatch", "hook", "await"} => ph = "mint_sent"
                 /\ next = "dispatch" => handler[h].plan \notin bank.signed \cup adrift
    BY <1>2 DEF Fine
  <2>3. Became(held, held', j, ph, out, cr)
    BY <2>1, <2>2
  <2>4. CASE next = "end"
    BY <1>1, <1>2, <2>1, <2>2, <2>3, <2>4, CallEnds
  <2>5. CASE next # "end"
    BY <1>1, <1>2, <2>1, <2>2, <2>3, <2>5, CallGoesOn
  <2> QED BY <2>4, <2>5
<1>3. CASE ~Has(held, j)
  <2>1. Unlock(h) /\ UNCHANGED held
    BY <1>1, <1>3 DEF StoreCall
  <2> QED BY <1>1, <2>1, UnlockNext
<1> QED BY <1>2, <1>3

\* What is known of the record when payment h calls the store about it.
LEMMA CallFacts ==
  ASSUME MemoryInv, NEW h \in Handlers, handler[h].pc \in Planned,
         NEW j, j = Id(session, handler[h].offer), Has(held, j)
  PROVE  /\ IsStore(held) /\ j \in DOMAIN held.deliveries
         /\ j \in held.credits <=> held.deliveries[j].phase \in {"credited", "settled"}
         /\ j \in held.credits => \E plan \in bank.signed : Id(session, plan[1]) = j
         /\ Recorded(session, control.seed, runs, j, held.deliveries[j], bank.signed)
         /\ PlanFor(session, handler[h].plan, j)
         /\ handler[h].wire # "none" <=> handler[h].pc \in {"hook", "await"}
         /\ handler[h].pc = "settle" => handler[h].plan \in bank.signed
         /\ ~crossed => /\ Alone(handler[h], j, held, locks, bank.signed \cup adrift)
                        /\ Kept(held.deliveries[j], bank.signed \cup adrift)
<1>1. /\ IsStore(held) /\ j \in DOMAIN held.deliveries
      /\ j \in held.credits <=> held.deliveries[j].phase \in {"credited", "settled"}
      /\ j \in held.credits => \E plan \in bank.signed : Id(session, plan[1]) = j
      /\ Recorded(session, control.seed, runs, j, held.deliveries[j], bank.signed)
  BY DEF MemoryInv, MemoryTypeOK, StoreOK, Has
<1>2. Carries(session, handler[h], bank.signed)
  BY DEF MemoryInv, HandlersOK
<1>3. ~crossed => Kept(held.deliveries[j], bank.signed \cup adrift)
  BY <1>1 DEF MemoryInv, OwnOK
<1>4. ~crossed => Alone(handler[h], j, held, locks, bank.signed \cup adrift)
  BY LockedPcs, AtWork
<1> QED BY <1>1, <1>2, <1>3, <1>4 DEF Carries

\* A call that changes nothing is allowed.
LEMMA SameAllowed ==
  ASSUME MemoryInv, NEW h \in Handlers, handler[h].pc \in Planned,
         NEW j, j = Id(session, handler[h].offer), Has(held, j)
  PROVE  LET r == held.deliveries[j] IN
         /\ Became(held, held, j, r.phase, r.outputs, held.credits)
         /\ Allowed(h, j, r.phase, r.outputs, held.credits)
<1> DEFINE r == held.deliveries[j]
<1>1. Became(held, held, j, r.phase, r.outputs, held.credits)
  BY CallFacts, Unmoved
<1>2. ASSUME ~crossed, r.phase \in {"prepared", "rejected"}
      PROVE  r.plan \notin bank.signed \cup adrift /\ handler[h].wire # "sent"
  <2>1. Alone(handler[h], j, held, locks, bank.signed \cup adrift) /\ Kept(r, bank.signed \cup adrift)
    BY <1>2, CallFacts
  <2>2. handler[h].wire = "sent" => r.phase = "mint_sent"
    BY <2>1, Sent DEF Alone
  <2> QED BY <1>2, <2>1, <2>2 DEF Kept
<1>3. /\ j \in held.credits <=> r.phase \in {"credited", "settled"}
      /\ j \in held.credits => \E plan \in bank.signed : Id(session, plan[1]) = j
  BY CallFacts
<1> HIDE DEF r
<1>4. Allowed(h, j, r.phase, r.outputs, held.credits)
  BY <1>2, <1>3 DEF Allowed, r
<1> QED BY <1>1, <1>4 DEF r
LEMMA HookNext ==
  ASSUME MemoryInv, NEW h \in Handlers, RecordRedemptionStart(h)
  PROVE  MemoryInv'
<1> DEFINE j == Id(session, handler[h].offer)
           r == held.deliveries[j]
           sent == bank.signed \cup adrift
           next == IF Redeemable(held, Job(h)) THEN "await" ELSE "end"
<1>1. StoreCall(h, "hook", held, next) /\ handler[h].pc = "hook"
  BY Ids DEF RecordRedemptionStart, StoreCall, At, Job
<1>2. handler[h].pc \in Planned /\ "hook" \in Planned
  BY <1>1 DEF Planned
<1> HIDE DEF j, next
<1>3. ASSUME Has(held, j)
      PROVE  Fine(h, j, held, next)
  <2>1. /\ IsStore(held)
        /\ j \in held.credits <=> r.phase \in {"credited", "settled"}
        /\ j \in held.credits => \E plan \in bank.signed : Id(session, plan[1]) = j
        /\ Recorded(session, control.seed, runs, j, r, bank.signed)
        /\ PlanFor(session, handler[h].plan, j)
        /\ handler[h].wire # "none" <=> handler[h].pc \in {"hook", "await"}
        /\ handler[h].pc = "settle" => handler[h].plan \in bank.signed
        /\ ~crossed => Alone(handler[h], j, held, locks, sent) /\ Kept(r, sent)
    BY <1>2, <1>3, CallFacts DEF j
  <2>2. /\ Became(held, held, j, r.phase, r.outputs, held.credits)
        /\ Allowed(h, j, r.phase, r.outputs, held.credits)
    BY <1>2, <1>3, SameAllowed DEF j
  <2> HIDE DEF r, sent
  <2>3. next \in {"await", "end"} /\ "await" \in Planned
    BY LockedPcs DEF next
  <2>4. ~crossed => r.phase = "mint_sent"
    BY <1>1, <2>1 DEF Alone, r
  <2>5. handler[h].wire # "none"
    BY <1>1, <2>1
  <2> QED BY <2>2, <2>3, <2>4, <2>5 DEF Fine
<1> QED BY <1>1, <1>2, <1>3, CallNext DEF j

LEMMA RestoreNext ==
  ASSUME MemoryInv, NEW h \in Handlers, Restore(h)
  PROVE  MemoryInv'
<1> DEFINE j == Id(session, handler[h].offer)
           r == held.deliveries[j]
           sent == bank.signed \cup adrift
           next == IF Redeemable(held, Job(h)) THEN "restored" ELSE "end"
<1>1. StoreCall(h, "restore", held, next) /\ handler[h].pc = "restore"
  BY Ids DEF Restore, StoreCall, At, Job
<1>2. handler[h].pc \in Planned /\ "restore" \in Planned
  BY <1>1 DEF Planned
<1> HIDE DEF j, next
<1>3. ASSUME Has(held, j)
      PROVE  Fine(h, j, held, next)
  <2>1. /\ IsStore(held)
        /\ j \in held.credits <=> r.phase \in {"credited", "settled"}
        /\ j \in held.credits => \E plan \in bank.signed : Id(session, plan[1]) = j
        /\ Recorded(session, control.seed, runs, j, r, bank.signed)
        /\ PlanFor(session, handler[h].plan, j)
        /\ handler[h].wire # "none" <=> handler[h].pc \in {"hook", "await"}
        /\ handler[h].pc = "settle" => handler[h].plan \in bank.signed
        /\ ~crossed => Alone(handler[h], j, held, locks, sent) /\ Kept(r, sent)
    BY <1>2, <1>3, CallFacts DEF j
  <2>2. /\ Became(held, held, j, r.phase, r.outputs, held.credits)
        /\ Allowed(h, j, r.phase, r.outputs, held.credits)
    BY <1>2, <1>3, SameAllowed DEF j
  <2> HIDE DEF r, sent
  <2>3. next \in {"restored", "end"} /\ "restored" \in Planned
    BY DEF next, Planned
  <2>4. handler[h].wire = "none"
    BY <1>1, <2>1
  <2> QED BY <2>2, <2>3, <2>4 DEF Fine
<1> QED BY <1>1, <1>2, <1>3, CallNext DEF j

LEMMA MarkNext ==
  ASSUME MemoryInv, NEW h \in Handlers, MarkMintSent(h)
  PROVE  MemoryInv'
<1> DEFINE j == Id(session, handler[h].offer)
           r == held.deliveries[j]
           sent == bank.signed \cup adrift
           next == "dispatch"
<1>1. StoreCall(h, "mark", MintSent(held, j), next) /\ handler[h].pc = "mark"
  BY Ids DEF MarkMintSent, StoreCall, At, Job
<1>2. handler[h].pc \in Planned /\ "mark" \in Planned
  BY <1>1 DEF Planned
<1> HIDE DEF j, next
<1>3. ASSUME Has(held, j)
      PROVE  Fine(h, j, MintSent(held, j), next)
  <2>1. /\ IsStore(held)
        /\ j \in held.credits <=> r.phase \in {"credited", "settled"}
        /\ j \in held.credits => \E plan \in bank.signed : Id(session, plan[1]) = j
        /\ Recorded(session, control.seed, runs, j, r, bank.signed)
        /\ PlanFor(session, handler[h].plan, j)
        /\ handler[h].wire # "none" <=> handler[h].pc \in {"hook", "await"}
        /\ handler[h].pc = "settle" => handler[h].plan \in bank.signed
        /\ ~crossed => Alone(handler[h], j, held, locks, sent) /\ Kept(r, sent)
    BY <1>2, <1>3, CallFacts DEF j
  <2>2. /\ Became(held, held, j, r.phase, r.outputs, held.credits)
        /\ Allowed(h, j, r.phase, r.outputs, held.credits)
    BY <1>2, <1>3, SameAllowed DEF j
  <2> HIDE DEF r, sent
  <2>3. next = "dispatch" /\ "dispatch" \in Planned /\ handler[h].wire = "none"
    BY <1>1, <2>1, LockedPcs DEF next
  <2>4. ~crossed => r.phase = "prepared" /\ handler[h].plan = r.plan
    BY <1>1, <1>2, <2>1 DEF Alone, r
  <2>5. ~crossed => handler[h].plan \notin sent
    BY <2>1, <2>4 DEF Kept
  <2>6. CASE r.phase = "prepared"
    <3>1. MintSent(held, j) = In(held, j, "mint_sent")
      BY <2>6 DEF MintSent, r
    <3>2. Became(held, In(held, j, "mint_sent"), j, "mint_sent", r.outputs, held.credits)
      BY <1>3, <2>1, InBecomes DEF r
    <3>3. Allowed(h, j, "mint_sent", r.outputs, held.credits)
      BY <2>1, <2>6 DEF Allowed, r
    <3> QED BY <2>3, <2>5, <3>1, <3>2, <3>3 DEF Fine, sent
  <2>7. CASE r.phase # "prepared"
    <3>1. MintSent(held, j) = held
      BY <2>7 DEF MintSent, r
    <3> QED BY <2>2, <2>3, <2>4, <2>7, <3>1 DEF Fine
  <2> QED BY <2>6, <2>7
<1> QED BY <1>1, <1>2, <1>3, CallNext DEF j

LEMMA SettleNext ==
  ASSUME MemoryInv, NEW h \in Handlers, SettleDelivery(h)
  PROVE  MemoryInv'
<1> DEFINE j == Id(session, handler[h].offer)
           r == held.deliveries[j]
           sent == bank.signed \cup adrift
           next == "end"
<1>1. StoreCall(h, "settle", Settled(held, j, handler[h].plan), next) /\ handler[h].pc = "settle"
  BY Ids DEF SettleDelivery, StoreCall, At, Job
<1>2. handler[h].pc \in Planned /\ "settle" \in Planned
  BY <1>1 DEF Planned
<1> HIDE DEF j, next
<1>3. ASSUME Has(held, j)
      PROVE  Fine(h, j, Settled(held, j, handler[h].plan), next)
  <2>1. /\ IsStore(held)
        /\ j \in held.credits <=> r.phase \in {"credited", "settled"}
        /\ j \in held.credits => \E plan \in bank.signed : Id(session, plan[1]) = j
        /\ Recorded(session, control.seed, runs, j, r, bank.signed)
        /\ PlanFor(session, handler[h].plan, j)
        /\ handler[h].wire # "none" <=> handler[h].pc \in {"hook", "await"}
        /\ handler[h].pc = "settle" => handler[h].plan \in bank.signed
        /\ ~crossed => Alone(handler[h], j, held, locks, sent) /\ Kept(r, sent)
    BY <1>2, <1>3, CallFacts DEF j
  <2>2. /\ Became(held, held, j, r.phase, r.outputs, held.credits)
        /\ Allowed(h, j, r.phase, r.outputs, held.credits)
    BY <1>2, <1>3, SameAllowed DEF j
  <2> HIDE DEF r, sent
  <2> DEFINE t == Settled(held, j, handler[h].plan)
             good == r.phase \in Dispatched /\ ~Disagrees(held, j, handler[h].plan)
  <2>3. CASE good
    <3>1. t = TakenFor(held, j, "settled", handler[h].plan)
      BY <2>3 DEF Settled, r, TakenFor
    <3>2. Became(held, TakenFor(held, j, "settled", handler[h].plan), j, "settled",
                 handler[h].plan, held.credits \cup {j})
      BY <1>3, <2>1, OutputsBecome
    <3>3. handler[h].plan \in bank.signed /\ Id(session, handler[h].plan[1]) = j
      BY <1>1, <2>1 DEF PlanFor
    <3>4. Allowed(h, j, "settled", handler[h].plan, held.credits \cup {j})
      BY <3>3 DEF Allowed
    <3> QED BY <3>1, <3>2, <3>4 DEF Fine, next
  <2>4. CASE ~good
    <3>1. t = held
      BY <2>4 DEF Settled, r
    <3> QED BY <2>2, <3>1 DEF Fine, next
  <2> QED BY <2>3, <2>4
<1> QED BY <1>1, <1>2, <1>3, CallNext DEF j

LEMMA PersistNext ==
  ASSUME MemoryInv, NEW h \in Handlers, PersistSettlementOutputs(h)
  PROVE  MemoryInv'
<1> DEFINE j == Id(session, handler[h].offer)
           r == held.deliveries[j]
           sent == bank.signed \cup adrift
           next == IF Has(held, Job(h)) /\ Persistable(held, Job(h), handler[h].plan)
                   THEN "credit" ELSE "end"
<1>1. StoreCall(h, "settle", Persisted(held, j, handler[h].plan), next) /\ handler[h].pc = "settle"
  BY Ids DEF PersistSettlementOutputs, StoreCall, At, Job
<1>2. handler[h].pc \in Planned /\ "settle" \in Planned
  BY <1>1 DEF Planned
<1> HIDE DEF j, next
<1>3. ASSUME Has(held, j)
      PROVE  Fine(h, j, Persisted(held, j, handler[h].plan), next)
  <2>1. /\ IsStore(held)
        /\ j \in held.credits <=> r.phase \in {"credited", "settled"}
        /\ j \in held.credits => \E plan \in bank.signed : Id(session, plan[1]) = j
        /\ Recorded(session, control.seed, runs, j, r, bank.signed)
        /\ PlanFor(session, handler[h].plan, j)
        /\ handler[h].wire # "none" <=> handler[h].pc \in {"hook", "await"}
        /\ handler[h].pc = "settle" => handler[h].plan \in bank.signed
        /\ ~crossed => Alone(handler[h], j, held, locks, sent) /\ Kept(r, sent)
    BY <1>2, <1>3, CallFacts DEF j
  <2>2. /\ Became(held, held, j, r.phase, r.outputs, held.credits)
        /\ Allowed(h, j, r.phase, r.outputs, held.credits)
    BY <1>2, <1>3, SameAllowed DEF j
  <2> HIDE DEF r, sent
  <2>3. next \in {"credit", "end"} /\ "credit" \in Planned /\ handler[h].wire = "none"
    BY <1>1, <2>1 DEF next, Planned
  <2> DEFINE t == Persisted(held, j, handler[h].plan)
  <2>4. CASE r.phase \in {"mint_sent", "recovery_blocked"}
    <3>1. t = Taken(held, j, "outputs_persisted", handler[h].plan)
      BY <2>4 DEF Persisted, r, Taken
    <3>2. Became(held, Taken(held, j, "outputs_persisted", handler[h].plan), j,
                 "outputs_persisted", handler[h].plan, held.credits)
      BY <1>3, <2>1, OutputsBecome
    <3>3. handler[h].plan \in bank.signed /\ j \notin held.credits
      BY <1>1, <2>1, <2>4
    <3>4. Allowed(h, j, "outputs_persisted", handler[h].plan, held.credits)
      BY <3>3 DEF Allowed
    <3> HIDE DEF t
    <3> QED BY <2>3, <3>1, <3>2, <3>4 DEF Fine, t
  <2>5. CASE r.phase \notin {"mint_sent", "recovery_blocked"}
    <3>1. t = held
      BY <2>5 DEF Persisted, r
    <3> QED BY <2>2, <2>3, <3>1 DEF Fine
  <2> QED BY <2>4, <2>5
<1> QED BY <1>1, <1>2, <1>3, CallNext DEF j

LEMMA CreditNext ==
  ASSUME MemoryInv, NEW h \in Handlers, CreditSettlement(h)
  PROVE  MemoryInv'
<1> DEFINE j == Id(session, handler[h].offer)
           r == held.deliveries[j]
           sent == bank.signed \cup adrift
           next == IF Has(held, Job(h)) /\ held.deliveries[Job(h)].phase
                                          \in {"outputs_persisted", "credited", "settled"}
                   THEN "finalize" ELSE "end"
<1>1. StoreCall(h, "credit", CreditedIn(held, j), next) /\ handler[h].pc = "credit"
  BY Ids DEF CreditSettlement, StoreCall, At, Job
<1>2. handler[h].pc \in Planned /\ "credit" \in Planned
  BY <1>1 DEF Planned
<1> HIDE DEF j, next
<1>3. ASSUME Has(held, j)
      PROVE  Fine(h, j, CreditedIn(held, j), next)
  <2>1. /\ IsStore(held)
        /\ j \in held.credits <=> r.phase \in {"credited", "settled"}
        /\ j \in held.credits => \E plan \in bank.signed : Id(session, plan[1]) = j
        /\ Recorded(session, control.seed, runs, j, r, bank.signed)
        /\ PlanFor(session, handler[h].plan, j)
        /\ handler[h].wire # "none" <=> handler[h].pc \in {"hook", "await"}
        /\ handler[h].pc = "settle" => handler[h].plan \in bank.signed
        /\ ~crossed => Alone(handler[h], j, held, locks, sent) /\ Kept(r, sent)
    BY <1>2, <1>3, CallFacts DEF j
  <2>2. /\ Became(held, held, j, r.phase, r.outputs, held.credits)
        /\ Allowed(h, j, r.phase, r.outputs, held.credits)
    BY <1>2, <1>3, SameAllowed DEF j
  <2> HIDE DEF r, sent
  <2>3. next \in {"finalize", "end"} /\ "finalize" \in Planned /\ handler[h].wire = "none"
    BY <1>1, <2>1 DEF next, Planned
  <2> DEFINE t == CreditedIn(held, j)
  <2>4. CASE r.phase = "outputs_persisted"
    <3>1. t = CreditFor(held, j, "credited")
      BY <2>4 DEF CreditedIn, r, CreditFor
    <3>2. Became(held, t, j, "credited", r.outputs, held.credits \cup {j})
      BY ZenonT(40), <1>3, <2>1, <3>1, OutputsBecome DEF r
    <3>3. r.outputs \in bank.signed /\ Id(session, r.outputs[1]) = j
      BY <2>1, <2>4 DEF Recorded, PlanFor
    <3>4. Allowed(h, j, "credited", r.outputs, held.credits \cup {j})
      BY <3>3 DEF Allowed, r
    <3> HIDE DEF t
    <3> QED BY <2>3, <3>2, <3>4 DEF Fine, t
  <2>5. CASE r.phase # "outputs_persisted"
    <3>1. t = held
      BY <2>5 DEF CreditedIn, r
    <3> QED BY <2>2, <2>3, <3>1 DEF Fine
  <2> QED BY <2>4, <2>5
<1> QED BY <1>1, <1>2, <1>3, CallNext DEF j

LEMMA FinalizeNext ==
  ASSUME MemoryInv, NEW h \in Handlers, FinalizeSettlement(h)
  PROVE  MemoryInv'
<1> DEFINE j == Id(session, handler[h].offer)
           r == held.deliveries[j]
           sent == bank.signed \cup adrift
           next == "end"
<1>1. StoreCall(h, "finalize", Finalized(held, j), next) /\ handler[h].pc = "finalize"
  BY Ids DEF FinalizeSettlement, StoreCall, At, Job
<1>2. handler[h].pc \in Planned /\ "finalize" \in Planned
  BY <1>1 DEF Planned
<1> HIDE DEF j, next
<1>3. ASSUME Has(held, j)
      PROVE  Fine(h, j, Finalized(held, j), next)
  <2>1. /\ IsStore(held)
        /\ j \in held.credits <=> r.phase \in {"credited", "settled"}
        /\ j \in held.credits => \E plan \in bank.signed : Id(session, plan[1]) = j
        /\ Recorded(session, control.seed, runs, j, r, bank.signed)
        /\ PlanFor(session, handler[h].plan, j)
        /\ handler[h].wire # "none" <=> handler[h].pc \in {"hook", "await"}
        /\ handler[h].pc = "settle" => handler[h].plan \in bank.signed
        /\ ~crossed => Alone(handler[h], j, held, locks, sent) /\ Kept(r, sent)
    BY <1>2, <1>3, CallFacts DEF j
  <2>2. /\ Became(held, held, j, r.phase, r.outputs, held.credits)
        /\ Allowed(h, j, r.phase, r.outputs, held.credits)
    BY <1>2, <1>3, SameAllowed DEF j
  <2> HIDE DEF r, sent
  <2> DEFINE t == Finalized(held, j)
  <2>3. CASE r.phase = "credited"
    <3>1. t = In(held, j, "settled")
      BY <2>3 DEF Finalized, r
    <3>2. Became(held, t, j, "settled", r.outputs, held.credits)
      BY <1>3, <2>1, <3>1, InBecomes DEF r
    <3>3. Allowed(h, j, "settled", r.outputs, held.credits)
      BY <2>1, <2>3 DEF Allowed, r
    <3> QED BY <3>2, <3>3 DEF Fine, next
  <2>4. CASE r.phase # "credited"
    <3>1. t = held
      BY <2>4 DEF Finalized, r
    <3> QED BY <2>2, <3>1 DEF Fine, next
  <2> QED BY <2>3, <2>4
<1> QED BY <1>1, <1>2, <1>3, CallNext DEF j

LEMMA RejectNext ==
  ASSUME MemoryInv, NEW h \in Handlers, Reject(h)
  PROVE  MemoryInv'
<1> DEFINE j == Id(session, handler[h].offer)
           r == held.deliveries[j]
           sent == bank.signed \cup adrift
           next == "end"
<1>1. StoreCall(h, "reject", Rejected(held, j), next) /\ handler[h].pc = "reject"
  BY Ids DEF Reject, StoreCall, At, Job
<1>2. handler[h].pc \in Planned /\ "reject" \in Planned
  BY <1>1 DEF Planned
<1> HIDE DEF j, next
<1>3. ASSUME Has(held, j)
      PROVE  Fine(h, j, Rejected(held, j), next)
  <2>1. /\ IsStore(held)
        /\ j \in held.credits <=> r.phase \in {"credited", "settled"}
        /\ j \in held.credits => \E plan \in bank.signed : Id(session, plan[1]) = j
        /\ Recorded(session, control.seed, runs, j, r, bank.signed)
        /\ PlanFor(session, handler[h].plan, j)
        /\ handler[h].wire # "none" <=> handler[h].pc \in {"hook", "await"}
        /\ handler[h].pc = "settle" => handler[h].plan \in bank.signed
        /\ ~crossed => Alone(handler[h], j, held, locks, sent) /\ Kept(r, sent)
    BY <1>2, <1>3, CallFacts DEF j
  <2>2. /\ Became(held, held, j, r.phase, r.outputs, held.credits)
        /\ Allowed(h, j, r.phase, r.outputs, held.credits)
    BY <1>2, <1>3, SameAllowed DEF j
  <2> HIDE DEF r, sent
  <2> DEFINE t == Rejected(held, j)
  <2>3. CASE r.phase \in {"prepared", "mint_sent"}
    <3>1. Became(held, t, j, "rejected", r.outputs, held.credits)
      BY <1>3, <2>1, <2>3, RejectedBecomes DEF r
    <3>2. ~crossed => r.plan \notin sent
      BY <1>1, <1>2, <2>1 DEF Alone, r
    <3>3. handler[h].wire # "sent" /\ j \notin held.credits
      BY <1>1, <2>1, <2>3
    <3>4. Allowed(h, j, "rejected", r.outputs, held.credits)
      BY <3>2, <3>3 DEF Allowed, r, sent
    <3> QED BY <3>1, <3>4 DEF Fine, next
  <2>4. CASE r.phase \notin {"prepared", "mint_sent"}
    <3>1. t = held
      BY <2>4 DEF Rejected, r
    <3> QED BY <2>2, <3>1 DEF Fine, next
  <2> QED BY <2>3, <2>4
<1> QED BY <1>1, <1>2, <1>3, CallNext DEF j

LEMMA BlockNext ==
  ASSUME MemoryInv, NEW h \in Handlers, BlockRecovery(h)
  PROVE  MemoryInv'
<1> DEFINE j == Id(session, handler[h].offer)
           r == held.deliveries[j]
           sent == bank.signed \cup adrift
           next == "end"
<1>1. StoreCall(h, "block", Blocked(held, j), next) /\ handler[h].pc = "block"
  BY Ids DEF BlockRecovery, StoreCall, At, Job
<1>2. handler[h].pc \in Planned /\ "block" \in Planned
  BY <1>1 DEF Planned
<1> HIDE DEF j, next
<1>3. ASSUME Has(held, j)
      PROVE  Fine(h, j, Blocked(held, j), next)
  <2>1. /\ IsStore(held)
        /\ j \in held.credits <=> r.phase \in {"credited", "settled"}
        /\ j \in held.credits => \E plan \in bank.signed : Id(session, plan[1]) = j
        /\ Recorded(session, control.seed, runs, j, r, bank.signed)
        /\ PlanFor(session, handler[h].plan, j)
        /\ handler[h].wire # "none" <=> handler[h].pc \in {"hook", "await"}
        /\ handler[h].pc = "settle" => handler[h].plan \in bank.signed
        /\ ~crossed => Alone(handler[h], j, held, locks, sent) /\ Kept(r, sent)
    BY <1>2, <1>3, CallFacts DEF j
  <2>2. /\ Became(held, held, j, r.phase, r.outputs, held.credits)
        /\ Allowed(h, j, r.phase, r.outputs, held.credits)
    BY <1>2, <1>3, SameAllowed DEF j
  <2> HIDE DEF r, sent
  <2> DEFINE t == Blocked(held, j)
  <2>3. CASE r.phase \in {"prepared", "mint_sent"}
    <3>1. t = In(held, j, "recovery_blocked")
      BY <2>3 DEF Blocked, r
    <3>2. Became(held, t, j, "recovery_blocked", r.outputs, held.credits)
      BY <1>3, <2>1, <3>1, InBecomes DEF r
    <3>3. Allowed(h, j, "recovery_blocked", r.outputs, held.credits)
      BY <2>1, <2>3 DEF Allowed, r
    <3> QED BY <3>2, <3>3 DEF Fine, next
  <2>4. CASE r.phase \notin {"prepared", "mint_sent"}
    <3>1. t = held
      BY <2>4 DEF Blocked, r
    <3> QED BY <2>2, <3>1 DEF Fine, next
  <2> QED BY <2>3, <2>4
<1> QED BY <1>1, <1>2, <1>3, CallNext DEF j
-----------------------------------------------------------------------------
(* The steps of a payment that is not past the lock.                         *)

\* The store t has the deliveries of s, and may have new ones.
Extends(s, t) ==
    /\ IsStore(t)
    /\ t.requests = s.requests /\ t.credits = s.credits
    /\ \A e \in DOMAIN s.deliveries :
         e \in DOMAIN t.deliveries /\ t.deliveries[e] = s.deliveries[e]

\* The deliveries of t that are not in the store are new ones of this run.
Fresh(t) ==
    \A e \in DOMAIN t.deliveries : e \notin DOMAIN held.deliveries =>
       /\ control.busy # "reset"
       /\ Recorded(session, control.seed, runs, e, t.deliveries[e], bank.signed)
       /\ t.deliveries[e].phase = "prepared"
       /\ Kept(t.deliveries[e], bank.signed \cup adrift)

Outside(h, x, t, l) ==
    /\ handler[h].pc \notin Locked
    /\ x.pc \notin Planned /\ x.wire = "none"
    /\ x.pc # "idle" =>
         /\ x.offer \in Offers(session)
         /\ control.busy # "reset" \/ (handler[h].pc # "idle" /\ x.offer = handler[h].offer)
    /\ x.pc \in Locked => Id(session, x.offer) \notin locks /\ Id(session, x.offer) \in l
    /\ locks \subseteq l
    /\ Extends(held, t) /\ Fresh(t)

LEMMA OutsideTypes ==
  ASSUME MemoryInv, NEW h \in Handlers, NEW x \in HandlerStates(session),
         UNCHANGED <<session, runs, control, offered, bank, adrift, evidence, crossed>>,
         handler' = [handler EXCEPT ![h] = x], Outside(h, x, held', locks')
  PROVE  MemoryTypeOK' /\ HandlersOK' /\ StoreOK' /\ PlansOK' /\ EvidenceOK'
<1>1. /\ handler' \in [Handlers -> HandlerStates(session)]
      /\ handler'[h] = x
      /\ \A k \in Handlers : k # h => handler'[k] = handler[k]
  BY DEF MemoryInv, MemoryTypeOK
<1>2. Extends(held, held') /\ Fresh(held')
  BY DEF Outside
<1>3. MemoryTypeOK'
  BY <1>1, <1>2 DEF Extends, MemoryInv, MemoryTypeOK
<1>4. Carries(session, x, bank.signed)
  <2>1. x.pc \notin {"hook", "await", "settle"}
    BY LockedPcs DEF Outside
  <2> QED BY <2>1 DEF Outside, Carries
<1>5. HandlersOK'
  BY <1>1, <1>4 DEF MemoryInv, HandlersOK
<1>6. ASSUME NEW d \in DOMAIN held'.deliveries
      PROVE  /\ control.busy # "reset"
             /\ Recorded(session, control.seed, runs, d, held'.deliveries[d], bank.signed)
             /\ d \in held'.credits <=> held'.deliveries[d].phase \in {"credited", "settled"}
  <2>1. CASE d \in DOMAIN held.deliveries
    BY <1>2, <2>1 DEF Extends, MemoryInv, StoreOK
  <2>2. CASE d \notin DOMAIN held.deliveries
    BY <1>2, <2>2 DEF Extends, Fresh, MemoryInv, StoreOK
  <2> QED BY <2>1, <2>2
<1>7. control.busy = "reset" => held'.requests = {} /\ DOMAIN held'.deliveries = {}
  BY <1>2, <1>6 DEF Extends, MemoryInv, StoreOK
<1>8. /\ \A r \in held'.requests : r[1] = control.seed
      /\ held'.credits \subseteq DOMAIN held'.deliveries
      /\ \A d \in held'.credits : \E plan \in bank.signed : Id(session, plan[1]) = d
  BY <1>2 DEF Extends, MemoryInv, StoreOK
<1>9. StoreOK'
  BY <1>6, <1>7, <1>8 DEF StoreOK
<1>10. \A plan : Dated(session, runs, control.busy, held, plan) =>
                   Dated(session, runs, control.busy, held', plan)
  BY <1>2 DEF Extends, Dated, Has
<1>11. x.pc \notin Planned
  BY DEF Outside
<1>12. PlansOK'
  BY <1>1, <1>10, <1>11 DEF MemoryInv, PlansOK
<1>13. EvidenceOK'
  BY <1>2 DEF Extends, MemoryInv, EvidenceOK
<1> QED BY <1>3, <1>5, <1>9, <1>12, <1>13

LEMMA OutsideOwn ==
  ASSUME MemoryInv, ~crossed, NEW h \in Handlers, NEW x \in HandlerStates(session),
         UNCHANGED <<session, runs, control, offered, bank, adrift, evidence, crossed>>,
         handler' = [handler EXCEPT ![h] = x], Outside(h, x, held', locks')
  PROVE  OwnOK'
<1> DEFINE sent == bank.signed \cup adrift
<1>1. /\ handler'[h] = x
      /\ \A k \in Handlers : k # h => handler'[k] = handler[k]
  BY DEF MemoryInv, MemoryTypeOK
<1>2. Extends(held, held') /\ Fresh(held') /\ locks \subseteq locks'
  BY DEF Outside
<1>3. ASSUME control.busy = "reset", NEW k \in Handlers, handler'[k].pc # "idle"
      PROVE  Seed(session, handler'[k].offer) # session.seeds[runs + 1]
  <2>1. CASE k = h
    BY <1>1, <1>3, <2>1 DEF Outside, MemoryInv, OwnOK
  <2>2. CASE k # h
    BY <1>1, <1>3, <2>2 DEF MemoryInv, OwnOK
  <2> QED BY <2>1, <2>2
<1>4. ASSUME NEW k \in Handlers, Current(session, control, handler'[k])
      PROVE  Alone(handler'[k], Id(session, handler'[k].offer), held', locks', sent)
  <2>1. CASE k = h
    <3>1. x.pc \notin {"mark", "dispatch", "hook", "await", "reject"}
      BY LockedPcs DEF Outside
    <3> QED BY <1>1, <2>1, <3>1 DEF Outside, Alone
  <2>2. CASE k # h
    <3> DEFINE i == Id(session, handler[k].offer)
    <3>1. handler'[k] = handler[k]
      BY <1>1, <2>2
    <3>2. Alone(handler[k], i, held, locks, sent)
      BY <1>4, <3>1 DEF MemoryInv, OwnOK
    <3> HIDE DEF i, sent
    <3>3. Has(held, i) => Has(held', i) /\ held'.deliveries[i] = held.deliveries[i]
      BY <1>2 DEF Extends, Has
    <3>4. Alone(handler[k], i, held', locks', sent)
      BY <1>2, <3>2, <3>3, LockedPcs DEF Alone
    <3> QED BY <3>1, <3>4 DEF i
  <2> QED BY <2>1, <2>2
<1>5. ASSUME NEW k \in Handlers, k # h
      PROVE  /\ Sole(session, control, x, handler[k])
             /\ Sole(session, control, handler[k], x)
  <2>1. ASSUME x.pc \in Locked, handler[k].pc \in Locked, Current(session, control, handler[k])
        PROVE  Id(session, x.offer) # Id(session, handler[k].offer)
    <3>1. Id(session, handler[k].offer) \in locks
      BY <2>1 DEF MemoryInv, OwnOK, Alone
    <3> QED BY <2>1, <3>1 DEF Outside
  <2> QED BY <2>1 DEF Sole
<1>6. ASSUME NEW i \in Handlers, NEW k \in Handlers, i # k
      PROVE  Sole(session, control, handler'[i], handler'[k])
  <2>1. CASE i = h
    BY <1>1, <1>5, <1>6, <2>1
  <2>2. CASE k = h
    BY <1>1, <1>5, <1>6, <2>2
  <2>3. CASE i # h /\ k # h
    BY <1>1, <1>6, <2>3 DEF MemoryInv, OwnOK
  <2> QED BY <2>1, <2>2, <2>3
<1>7. ASSUME NEW d \in DOMAIN held'.deliveries
      PROVE  Kept(held'.deliveries[d], sent)
  <2>1. CASE d \in DOMAIN held.deliveries
    BY <1>2, <2>1 DEF Extends, MemoryInv, OwnOK
  <2>2. CASE d \notin DOMAIN held.deliveries
    BY <1>2, <2>2 DEF Fresh
  <2> QED BY <2>1, <2>2
<1> QED BY <1>3, <1>4, <1>6, <1>7 DEF OwnOK

LEMMA OutsideNext ==
  ASSUME MemoryInv, NEW h \in Handlers, NEW x \in HandlerStates(session),
         UNCHANGED <<session, runs, control, offered, bank, adrift, evidence, crossed>>,
         handler' = [handler EXCEPT ![h] = x], Outside(h, x, held', locks')
  PROVE  MemoryInv'
<1>1. MemoryTypeOK' /\ HandlersOK' /\ StoreOK' /\ PlansOK' /\ EvidenceOK'
  BY OutsideTypes
<1>2. ~crossed' => OwnOK'
  BY OutsideOwn
<1> QED BY <1>1, <1>2 DEF MemoryInv

LEMMA NothingNew ==
  ASSUME MemoryInv
  PROVE  Extends(held, held) /\ Fresh(held)
BY DEF MemoryInv, MemoryTypeOK, Extends, Fresh

\* A payment that gives up before the lock.
LEMMA GivesUp ==
  ASSUME MemoryInv, NEW h \in Handlers, handler[h].pc \notin Locked,
         UNCHANGED <<session, runs, control, held, locks, offered, bank, adrift, evidence, crossed>>,
         handler' = [handler EXCEPT ![h] = Free]
  PROVE  MemoryInv'
<1>1. Free.wire = "none" /\ Free.pc \notin Locked
  BY LockedPcs DEF Free
<1>2. Outside(h, Free, held', locks')
  BY <1>1, FreeIsIdle, NothingNew DEF Outside
<1> QED BY <1>2, FreeIsIdle, OutsideNext
LEMMA LockNext ==
  ASSUME MemoryInv, NEW h \in Handlers, withRedemptionLock(h)
  PROVE  MemoryInv'
<1> DEFINE j == Id(session, handler[h].offer)
<1>1. /\ handler[h].pc = "lock" /\ handler[h].pc \notin Locked /\ Job(h) = j
      /\ UNCHANGED <<session, runs, control, held, offered, bank, adrift, evidence, crossed>>
  BY Ids, LockedPcs DEF withRedemptionLock, At, Job
<1>2. CASE j \in locks
  <2>1. handler' = [handler EXCEPT ![h] = Free] /\ UNCHANGED locks
    BY <1>1, <1>2 DEF withRedemptionLock
  <2> QED BY <1>1, <2>1, GivesUp
<1>3. CASE j \notin locks
  <2> DEFINE x == Turn(handler[h], "read", handler[h].plan, handler[h].wire)
  <2>1. locks' = locks \cup {j} /\ Goto(h, "read")
    BY <1>1, <1>3 DEF withRedemptionLock
  <2>2. handler' = [handler EXCEPT ![h] = x]
    BY <2>1, TurnsPc DEF Goto
  <2>3. handler[h].wire = "none" /\ handler[h].offer \in Offers(session)
    BY <1>1, LockedPcs DEF MemoryInv, HandlersOK, Carries
  <2>4. "read" \in Locked /\ "read" \notin Planned
    BY DEF Locked, Planned
  <2>5. handler[h].plan \in Plans(session) \cup {NoPlan}
    BY DEF MemoryInv, MemoryTypeOK, HandlerStates
  <2>6. x.pc = "read" /\ x.offer = handler[h].offer /\ x.wire = "none"
    BY <2>3 DEF Turn
  <2>7. x \in HandlerStates(session)
    BY <2>4, <2>5, TurnedOn
  <2> HIDE DEF x
  <2>8. Extends(held, held') /\ Fresh(held')
    BY <1>1, NothingNew
  <2>9. Outside(h, x, held', locks')
    BY <1>1, <1>3, <2>1, <2>3, <2>4, <2>6, <2>8 DEF Outside
  <2> QED BY <1>1, <2>2, <2>7, <2>9, OutsideNext
<1> QED BY <1>2, <1>3

\* A new payment at pc, with offer o.
New(pc, o) == [Free EXCEPT !.pc = pc, !.offer = o]

LEMMA ReceiveNext ==
  ASSUME MemoryInv, NEW h \in Handlers, NEW o \in offered, Receive(h, o)
  PROVE  MemoryInv'
<1>1. /\ handler[h].pc = "idle" /\ handler[h].pc \notin Locked
      /\ UNCHANGED <<session, runs, control, held, locks, offered, bank, adrift, evidence, crossed>>
  BY LockedPcs DEF Receive, At
<1>2. o \in Offers(session)
  BY DEF MemoryInv, MemoryTypeOK
<1>3. PICK pc \in {"lock", "prepare"} : handler' = [handler EXCEPT ![h] = New(pc, o)]
  BY DEF Receive, New
<1>4. control.busy # "reset"
  <2>1. Has(held, DeliveryId(o)) \/ RequestId(o) \in held.requests
    BY DEF Receive, Preflighted
  <2> QED BY <2>1 DEF MemoryInv, StoreOK, Has
<1> DEFINE x == New(pc, o)
           y == [Free EXCEPT !.pc = pc]
<1>5. x = [pc |-> pc, offer |-> o, plan |-> NoPlan, wire |-> "none"]
  <2>1. y = [pc |-> pc, offer |-> NoPlan, plan |-> NoPlan, wire |-> "none"]
    BY DEF Free
  <2>2. x = [y EXCEPT !.offer = o]
    BY DEF New
  <2> HIDE DEF x, y
  <2> QED BY <2>1, <2>2
<1> HIDE DEF x
<1>6. x.pc = pc /\ x.offer = o /\ x.wire = "none" /\ x \in HandlerStates(session)
  BY <1>2, <1>5 DEF HandlerStates
<1>7. pc \notin Locked /\ pc \notin Planned
  BY LockedPcs
<1>8. Outside(h, x, held', locks')
  BY <1>1, <1>2, <1>4, <1>6, <1>7, NothingNew DEF Outside
<1> QED BY <1>1, <1>3, <1>6, <1>8, OutsideNext DEF x

LEMMA PreparedIs ==
  ASSUME NEW s, IsStore(s), NEW o, NEW plan, NEW d, d = DeliveryId(o)
  PROVE  LET t == Prepared(s, o, plan) IN
         /\ t = [requests |-> s.requests, deliveries |-> t.deliveries,
                 proofClaims |-> t.proofClaims, reservations |-> t.reservations,
                 credits |-> s.credits]
         /\ t.deliveries = MapSet(s.deliveries, {d}, [offer |-> o, plan |-> plan,
                                  phase |-> "prepared", outputs |-> NoPlan])
<1> DEFINE f == MapSet(s.deliveries, {d}, [offer |-> o, plan |-> plan,
                       phase |-> "prepared", outputs |-> NoPlan])
           claims == MapSet(s.proofClaims, ProofsOf(o), d)
           reserved == MapSet(s.reservations, {RequestId(o)}, d)
<1>1. Prepared(s, o, plan) =
        [s EXCEPT !.deliveries = f, !.proofClaims = claims, !.reservations = reserved]
  BY DEF Prepared
<1>2. s = [requests |-> s.requests, deliveries |-> s.deliveries, proofClaims |-> s.proofClaims,
           reservations |-> s.reservations, credits |-> s.credits]
  BY DEF IsStore
<1> HIDE DEF f, claims, reserved
<1>3. Prepared(s, o, plan) =
        [requests |-> s.requests, deliveries |-> f, proofClaims |-> claims,
         reservations |-> reserved, credits |-> s.credits]
  BY <1>1, <1>2
<1> QED BY <1>3 DEF f

LEMMA PrepareNext ==
  ASSUME MemoryInv, NEW h \in Handlers, Prepare(h)
  PROVE  MemoryInv'
<1> DEFINE o == handler[h].offer
           d == Id(session, o)
           plan == <<o, h, runs>>
           new == [offer |-> o, plan |-> plan, phase |-> "prepared", outputs |-> NoPlan]
<1>1. /\ handler[h].pc = "prepare" /\ handler[h].pc \notin Locked
      /\ UNCHANGED <<session, runs, control, locks, offered, bank, adrift, evidence, crossed>>
  BY LockedPcs DEF Prepare, At
<1>2. CASE ~Preparable(held, o)
  <2>1. handler' = [handler EXCEPT ![h] = Free] /\ UNCHANGED held
    BY <1>2 DEF Prepare
  <2> QED BY <1>1, <2>1, GivesUp
<1>3. CASE Preparable(held, o)
  <2>1. held' = Prepared(held, o, plan) /\ Goto(h, "lock")
    BY <1>3 DEF Prepare
  <2>2. o \in Offers(session) /\ handler[h].wire = "none"
    BY <1>1, LockedPcs DEF MemoryInv, HandlersOK, Carries
  <2>3. /\ plan \in Plans(session) /\ plan[1] = o /\ plan[3] = runs
        /\ new.plan = plan /\ new.phase = "prepared" /\ new.outputs = NoPlan /\ IsRecord(new)
    BY <2>2 DEF Plans, MemoryInv, MemoryTypeOK, IsRecord
  <2>4. d = DeliveryId(o) /\ ~Has(held, d)
    BY <1>3, Ids DEF Preparable
  <2>5. control.busy # "reset" /\ Seed(session, o) = control.seed
    BY <1>3, Ids DEF Preparable, MemoryInv, StoreOK
  <2>6. IsStore(held)
    BY DEF MemoryInv, MemoryTypeOK
  <2>7. /\ held' = [requests |-> held.requests, deliveries |-> held'.deliveries,
                    proofClaims |-> held'.proofClaims, reservations |-> held'.reservations,
                    credits |-> held.credits]
        /\ held'.deliveries = MapSet(held.deliveries, {d}, new)
    BY <2>1, <2>4, <2>6, PreparedIs
  <2>8. d[1] = control.seed
    BY <2>5, IdSeed
  <2>9. plan \notin bank.signed \cup adrift
    <3>1. SUFFICES ASSUME plan \in bank.signed \cup adrift
                   PROVE  FALSE
      OBVIOUS
    <3>2. Dated(session, runs, control.busy, held, plan)
      BY <3>1 DEF MemoryInv, PlansOK
    <3> QED BY <2>3, <2>4, <2>5, <3>2 DEF Dated
  <2> HIDE DEF plan, d, new
  <2>10. /\ DOMAIN held'.deliveries = DOMAIN held.deliveries \cup {d}
         /\ held'.deliveries[d] = new
         /\ \A e \in DOMAIN held.deliveries : e # d => held'.deliveries[e] = held.deliveries[e]
         /\ held'.deliveries = [e \in DOMAIN held'.deliveries |-> held'.deliveries[e]]
    BY <2>7 DEF MapSet
  <2>11. \A e \in DOMAIN held'.deliveries : IsRecord(held'.deliveries[e])
    BY <2>3, <2>6, <2>10 DEF IsStore
  <2>12. held'.requests = held.requests /\ held'.credits = held.credits
    BY <2>7
  <2>13. held' = [requests |-> held'.requests, deliveries |-> held'.deliveries,
                  proofClaims |-> held'.proofClaims, reservations |-> held'.reservations,
                  credits |-> held'.credits]
    BY <2>7, <2>12
  <2>14. Extends(held, held')
    BY <2>4, <2>10, <2>11, <2>12, <2>13 DEF Extends, IsStore, Has
  <2>15. Recorded(session, control.seed, runs, d, new, bank.signed)
    BY <2>3, <2>8 DEF Recorded, PlanFor, d
  <2>16. Kept(new, bank.signed \cup adrift)
    BY <2>3, <2>9 DEF Kept
  <2>17. Fresh(held')
    BY <2>3, <2>5, <2>10, <2>15, <2>16 DEF Fresh
  <2> DEFINE x == Turn(handler[h], "lock", handler[h].plan, handler[h].wire)
  <2>18. handler' = [handler EXCEPT ![h] = x]
    BY <2>1, TurnsPc DEF Goto
  <2>19. x.pc = "lock" /\ x.offer = handler[h].offer /\ x.wire = "none"
    BY <2>2 DEF Turn
  <2>20. handler[h].plan \in Plans(session) \cup {NoPlan}
    BY DEF MemoryInv, MemoryTypeOK, HandlerStates
  <2>21. x \in HandlerStates(session)
    BY <2>20, TurnedOn
  <2> HIDE DEF x
  <2>22. Outside(h, x, held', locks')
    BY <1>1, <2>2, <2>5, <2>14, <2>17, <2>19, LockedPcs DEF Outside
  <2> QED BY <1>1, <2>18, <2>21, <2>22, OutsideNext
<1> QED BY <1>2, <1>3
-----------------------------------------------------------------------------
(* The mint's late signature, and the control calls.                         *)

LEMMA SignsLateNext ==
  ASSUME MemoryInv, NEW plan \in adrift, MintSignsLate(plan)
  PROVE  MemoryInv'
<1>1. /\ bank'.signed = bank.signed \cup {plan}
      /\ bank'.signed \cup adrift' = bank.signed \cup adrift
      /\ bank'.signed \subseteq Plans(session) /\ adrift' \subseteq Plans(session)
      /\ UNCHANGED <<session, runs, control, held, locks, offered, handler, evidence, crossed>>
  BY DEF MintSignsLate, Signed, MemoryInv, MemoryTypeOK
<1>2. bank.signed \subseteq bank'.signed
  BY <1>1
<1>3. MemoryTypeOK' /\ EvidenceOK'
  BY <1>1 DEF MemoryInv, MemoryTypeOK, EvidenceOK
<1>4. HandlersOK'
  BY <1>1, <1>2 DEF MemoryInv, HandlersOK, Carries
<1>5. \A d \in DOMAIN held.deliveries :
        Recorded(session, control.seed, runs, d, held.deliveries[d], bank'.signed)
  BY <1>2 DEF MemoryInv, StoreOK, Recorded
<1>6. StoreOK'
  BY <1>1, <1>2, <1>5 DEF MemoryInv, StoreOK
<1>7. PlansOK'
  BY <1>1 DEF MemoryInv, PlansOK
<1>8. ~crossed' => OwnOK'
  BY <1>1 DEF MemoryInv, OwnOK
<1> QED BY <1>3, <1>4, <1>6, <1>7, <1>8 DEF MemoryInv

LEMMA EmptyStore ==
  /\ IsStore(emptyState)
  /\ emptyState.requests = {} /\ DOMAIN emptyState.deliveries = {} /\ emptyState.credits = {}
<1>1. DOMAIN <<>> = {} /\ <<>> = [d \in {} |-> <<>>[d]]
  OBVIOUS
<1>2. /\ emptyState.requests = {} /\ emptyState.deliveries = <<>> /\ emptyState.credits = {}
      /\ emptyState = [requests |-> emptyState.requests, deliveries |-> emptyState.deliveries,
                       proofClaims |-> emptyState.proofClaims,
                       reservations |-> emptyState.reservations, credits |-> emptyState.credits]
  BY DEF emptyState
<1> QED BY <1>1, <1>2 DEF IsStore

LEMMA ResetStoreNext ==
  ASSUME MemoryInv, ResetStore
  PROVE  MemoryInv'
<1>1. /\ held' = emptyState /\ control.busy = "no"
      /\ control' = [control EXCEPT !.busy = "reset"]
      /\ UNCHANGED <<session, runs, locks, offered, handler, bank, adrift, evidence>>
      /\ crossed' <=> (crossed \/ \E h \in Handlers :
           handler[h].pc # "idle" /\ Seed(session, handler[h].offer) = session.seeds[runs + 1])
  BY Ids DEF ResetStore, Cleared, At
<1>2. control'.busy = "reset" /\ control'.seed = control.seed
      /\ control' = [seed |-> control'.seed, ordinal |-> control'.ordinal, busy |-> control'.busy]
  BY <1>1 DEF MemoryInv, MemoryTypeOK
<1>3. MemoryTypeOK'
  BY <1>1, <1>2, EmptyStore DEF MemoryInv, MemoryTypeOK
<1>4. HandlersOK' /\ EvidenceOK'
  BY <1>1, <1>2 DEF MemoryInv, HandlersOK, EvidenceOK
<1>5. StoreOK'
  BY <1>1, <1>2, EmptyStore DEF StoreOK
<1>6. \A plan : Dated(session, runs, control.busy, held, plan) =>
                  Dated(session, runs, control'.busy, held', plan)
  BY <1>2 DEF Dated
<1>7. PlansOK'
  BY <1>1, <1>6 DEF MemoryInv, PlansOK
<1>8. ASSUME ~crossed'
      PROVE  OwnOK'
  <2>1. \A h \in Handlers : handler[h].pc # "idle" =>
          Seed(session, handler[h].offer) # session.seeds[runs + 1]
    BY <1>1, <1>8
  <2>2. \A x : ~Current(session, control', x)
    BY <1>2 DEF Current
  <2>3. \A x, y : Sole(session, control', x, y)
    BY <2>2 DEF Sole
  <2> QED BY <1>1, <2>1, <2>2, <2>3, EmptyStore DEF OwnOK
<1> QED BY <1>3, <1>4, <1>5, <1>7, <1>8 DEF MemoryInv

LEMMA ResetControlNext ==
  ASSUME MemoryInv, ResetControl
  PROVE  MemoryInv'
<1>1. /\ control.busy = "reset" /\ runs' = runs + 1
      /\ control' = [seed |-> session.seeds[runs + 1], ordinal |-> 0, busy |-> "no"]
      /\ UNCHANGED <<session, held, offered, handler, bank, adrift, evidence, crossed>>
  BY DEF ResetControl
<1>2. /\ control'.busy = "no" /\ control'.seed = session.seeds[runs + 1]
      /\ control' = [seed |-> control'.seed, ordinal |-> control'.ordinal, busy |-> control'.busy]
      /\ runs' \in Nat
  BY <1>1 DEF MemoryInv, MemoryTypeOK
<1>3. MemoryTypeOK'
  BY <1>1, <1>2 DEF MemoryInv, MemoryTypeOK
<1>4. HandlersOK' /\ EvidenceOK'
  BY <1>1, <1>2 DEF MemoryInv, HandlersOK, EvidenceOK
<1>5. /\ held.requests = {} /\ DOMAIN held.deliveries = {} /\ held.credits = {}
  BY <1>1 DEF MemoryInv, StoreOK
<1>6. StoreOK'
  BY <1>1, <1>2, <1>5 DEF StoreOK
<1>7. ASSUME NEW plan \in Plans(session), Dated(session, runs, control.busy, held, plan)
      PROVE  Dated(session, runs', control'.busy, held', plan)
  <2>1. plan[3] <= runs /\ plan[3] \in Nat /\ runs \in Nat
    BY <1>7 DEF Dated, Plans, MemoryInv, MemoryTypeOK
  <2>2. \A a, b \in Nat : a <= b => a <= b + 1 /\ a # b + 1
    OBVIOUS
  <2>3. plan[3] <= runs' /\ plan[3] # runs'
    BY <1>1, <2>1, <2>2
  <2> QED BY <2>3 DEF Dated
<1>8. PlansOK'
  <2>1. \A plan \in bank.signed \cup adrift : plan \in Plans(session)
    BY DEF MemoryInv, MemoryTypeOK
  <2>2. \A h \in Handlers : handler[h].pc \in Planned => handler[h].plan \in Plans(session)
    BY DEF MemoryInv, HandlersOK, Carries, PlanFor
  <2> QED BY <1>1, <1>7, <2>1, <2>2 DEF MemoryInv, PlansOK
<1>9. ASSUME ~crossed'
      PROVE  OwnOK'
  <2>1. \A h \in Handlers : ~Current(session, control', handler[h])
    BY <1>1, <1>2, <1>9 DEF Current, MemoryInv, OwnOK
  <2>2. \A h, k \in Handlers : Sole(session, control', handler[h], handler[k])
    BY <2>1 DEF Sole
  <2> QED BY <1>1, <1>2, <1>5, <2>1, <2>2 DEF OwnOK
<1> QED BY <1>3, <1>4, <1>6, <1>8, <1>9 DEF MemoryInv

\* A control call that leaves the deliveries and the seed alone.
LEMMA ControlNext ==
  ASSUME MemoryInv, UNCHANGED <<session, runs, locks, handler, bank, adrift, crossed>>,
         control.busy # "reset", control'.busy \in {"no", "proofs", "ledger"},
         control' = [seed |-> control.seed, ordinal |-> control'.ordinal, busy |-> control'.busy],
         IsStore(held'), held'.deliveries = held.deliveries, held'.credits = held.credits,
         \A r \in held'.requests : r[1] = control.seed,
         offered' \subseteq Offers(session), EvidenceOK'
  PROVE  MemoryInv'
<1>1. control'.seed = control.seed /\ control'.busy # "reset"
  OBVIOUS
<1>2. MemoryTypeOK'
  BY <1>1 DEF MemoryInv, MemoryTypeOK
<1>3. HandlersOK'
  BY DEF MemoryInv, HandlersOK
<1>4. StoreOK'
  BY <1>1 DEF MemoryInv, StoreOK
<1>5. \A plan : Dated(session, runs, control.busy, held, plan) =>
                  Dated(session, runs, control'.busy, held', plan)
  BY <1>1 DEF Dated, Has
<1>6. PlansOK'
  BY <1>5 DEF MemoryInv, PlansOK
<1>7. ASSUME ~crossed'
      PROVE  OwnOK'
  <2>1. \A x : Current(session, control', x) <=> Current(session, control, x)
    BY <1>1 DEF Current
  <2>2. \A x, j, l, t : Alone(x, j, held, l, t) => Alone(x, j, held', l, t)
    BY DEF Alone, Has
  <2>3. \A x, y : Sole(session, control, x, y) => Sole(session, control', x, y)
    BY <2>1 DEF Sole
  <2> QED BY <1>1, <1>7, <2>1, <2>2, <2>3 DEF MemoryInv, OwnOK
<1> QED BY <1>2, <1>3, <1>4, <1>6, <1>7 DEF MemoryInv
LEMMA CreateNext ==
  ASSUME MemoryInv, CreateRequest
  PROVE  MemoryInv'
<1> DEFINE r == <<control.seed, control.ordinal>>
<1>1. /\ control.busy = "no"
      /\ control' = [control EXCEPT !.ordinal = @ + 1]
      /\ held' = [held EXCEPT !.requests = @ \cup {r}]
      /\ UNCHANGED <<session, runs, locks, handler, bank, adrift, evidence, crossed>>
  BY DEF CreateRequest, Created
<1>2. control = [seed |-> control.seed, ordinal |-> control.ordinal, busy |-> control.busy]
  BY DEF MemoryInv, MemoryTypeOK
<1>3. control' = [seed |-> control.seed, ordinal |-> control'.ordinal, busy |-> control'.busy]
      /\ control'.busy = "no"
  BY <1>1, <1>2
<1>4. IsStore(held)
  BY DEF MemoryInv, MemoryTypeOK
<1> HIDE DEF r
<1>5. held' = [requests |-> held.requests \cup {r}, deliveries |-> held.deliveries,
               proofClaims |-> held.proofClaims, reservations |-> held.reservations,
               credits |-> held.credits]
  BY <1>1, <1>4 DEF IsStore
<1>6. /\ held'.deliveries = held.deliveries /\ held'.credits = held.credits
      /\ held'.requests = held.requests \cup {r}
      /\ held' = [requests |-> held'.requests, deliveries |-> held'.deliveries,
                  proofClaims |-> held'.proofClaims, reservations |-> held'.reservations,
                  credits |-> held'.credits]
  BY <1>5
<1>7. IsStore(held')
  BY <1>4, <1>6 DEF IsStore
<1>8. r[1] = control.seed
  BY DEF r
<1>9. \A q \in held'.requests : q[1] = control.seed
  BY <1>6, <1>8 DEF MemoryInv, StoreOK
<1>10. offered' \subseteq Offers(session)
  BY DEF CreateRequest, Offers, MemoryInv, MemoryTypeOK
<1>11. EvidenceOK'
  BY <1>1, <1>3 DEF MemoryInv, EvidenceOK
<1> QED BY <1>1, <1>3, <1>6, <1>7, <1>9, <1>10, <1>11, ControlNext

LEMMA EvidenceNext ==
  ASSUME MemoryInv, SettlementPlans \/ Proofs \/ Ledger
  PROVE  MemoryInv'
<1>1. PICK busy \in {"no", "proofs", "ledger"} : control' = [control EXCEPT !.busy = busy]
  BY DEF SettlementPlans, Proofs, Ledger
<1>2. control.busy # "reset"
  BY DEF SettlementPlans, Proofs, Ledger
<1>3. UNCHANGED <<session, runs, held, locks, offered, handler, bank, adrift, crossed>>
  BY DEF SettlementPlans, Proofs, Ledger
<1>4. control = [seed |-> control.seed, ordinal |-> control.ordinal, busy |-> control.busy]
  BY DEF MemoryInv, MemoryTypeOK
<1>5. control' = [seed |-> control.seed, ordinal |-> control'.ordinal, busy |-> control'.busy]
      /\ control'.busy = busy
  BY <1>1, <1>4
<1>6. EvidenceOK'
  <2> DEFINE e == evidence
  <2>1. e = [run |-> e.run, plans |-> e.plans, spent |-> e.spent, ledger |-> e.ledger]
    BY DEF MemoryInv, EvidenceOK
  <2>2. CASE SettlementPlans
    <3>1. /\ control'.busy = "proofs"
          /\ e' = [NoEvidence EXCEPT !.run = runs, !.plans = DOMAIN held.deliveries]
      BY <1>4, <2>2 DEF SettlementPlans
    <3>2. e' = [run |-> e'.run, plans |-> e'.plans, spent |-> e'.spent, ledger |-> e'.ledger]
      BY <3>1 DEF NoEvidence
    <3> QED BY <3>1, <3>2 DEF EvidenceOK
  <2>3. CASE Proofs
    <3> DEFINE S == {d \in evidence.plans : Has(held, d) /\ held.deliveries[d].phase = "settled"}
    <3>1. control'.busy = "ledger" /\ e' = [e EXCEPT !.spent = S]
      BY <1>4, <2>3 DEF Proofs
    <3>2. S \subseteq held.credits
      BY DEF MemoryInv, StoreOK, Has
    <3> HIDE DEF S
    <3>3. e' = [run |-> e.run, plans |-> e.plans, spent |-> S, ledger |-> e.ledger]
      BY <2>1, <3>1
    <3>4. /\ e' = [run |-> e'.run, plans |-> e'.plans, spent |-> e'.spent, ledger |-> e'.ledger]
          /\ e'.spent = S
      BY <3>3
    <3> QED BY <1>3, <3>1, <3>2, <3>4 DEF EvidenceOK
  <2>4. CASE Ledger
    <3>1. /\ control.busy = "ledger" /\ control'.busy = "no"
          /\ e' = [e EXCEPT !.plans = {}, !.ledger = held.credits]
      BY <1>4, <2>4 DEF Ledger
    <3>2. e' = [run |-> e.run, plans |-> {}, spent |-> e.spent, ledger |-> held.credits]
      BY <2>1, <3>1
    <3>3. /\ e' = [run |-> e'.run, plans |-> e'.plans, spent |-> e'.spent, ledger |-> e'.ledger]
          /\ e'.spent = e.spent /\ e'.ledger = held.credits
      BY <3>2
    <3> QED BY <3>1, <3>3 DEF MemoryInv, EvidenceOK
  <2> QED BY <2>2, <2>3, <2>4
<1>7. \A r \in held'.requests : r[1] = control.seed
  BY <1>3 DEF MemoryInv, StoreOK
<1>8. IsStore(held') /\ offered' \subseteq Offers(session)
  BY <1>3 DEF MemoryInv, MemoryTypeOK
<1> QED BY <1>2, <1>3, <1>5, <1>6, <1>7, <1>8, ControlNext

LEMMA MemoryStarts ==
  ASSUME MemoryInit
  PROVE  MemoryInv
<1>1. /\ runs = 0 /\ held = emptyState /\ offered = {} /\ adrift = {} /\ bank.signed = {}
      /\ control = [seed |-> "none", ordinal |-> 0, busy |-> "no"]
      /\ handler = [h \in Handlers |-> Free]
      /\ evidence = NoEvidence
  BY DEF MemoryInit
<1>2. control.busy = "no" /\ control.seed = "none" /\ control.ordinal = 0
  BY <1>1
<1>3. MemoryTypeOK
  BY <1>1, <1>2, EmptyStore, FreeIsIdle DEF MemoryTypeOK
<1>4. \A h \in Handlers : handler[h] = Free
  BY <1>1
<1>5. HandlersOK
  BY <1>4, FreeIsIdle DEF HandlersOK
<1>6. StoreOK
  BY <1>1, <1>2, EmptyStore DEF StoreOK
<1>7. PlansOK
  BY <1>1, <1>4, FreeIsIdle DEF PlansOK
<1>8. /\ evidence.spent = {}
      /\ evidence = [run |-> evidence.run, plans |-> evidence.plans, spent |-> evidence.spent,
                     ledger |-> evidence.ledger]
  BY <1>1 DEF NoEvidence
<1>9. EvidenceOK
  BY <1>2, <1>8 DEF EvidenceOK
<1>10. OwnOK
  BY <1>1, <1>2, <1>4, FreeIsIdle, EmptyStore DEF OwnOK, Sole
<1> QED BY <1>3, <1>5, <1>6, <1>7, <1>9, <1>10 DEF MemoryInv

LEMMA MemoryStutters ==
  ASSUME MemoryInv, UNCHANGED memoryVars
  PROVE  MemoryInv'
<1>1. UNCHANGED <<session, runs, control, held, locks, offered, handler, bank, adrift, evidence,
                  crossed>>
  BY DEF memoryVars
<1>2. MemoryTypeOK' /\ HandlersOK' /\ EvidenceOK'
  BY <1>1 DEF MemoryInv, MemoryTypeOK, HandlersOK, EvidenceOK
<1>3. StoreOK' /\ PlansOK'
  BY <1>1 DEF MemoryInv, StoreOK, PlansOK
<1>4. ~crossed' => OwnOK'
  BY <1>1 DEF MemoryInv, OwnOK
<1> QED BY <1>2, <1>3, <1>4 DEF MemoryInv

LEMMA PaymentNext ==
  ASSUME MemoryInv, NEW h \in Handlers, Payment(h)
  PROVE  MemoryInv'
<1>1. CASE (\E o \in offered : Receive(h, o)) \/ Prepare(h) \/ withRedemptionLock(h) \/ ReadRecord(h)
  BY <1>1, ReceiveNext, PrepareNext, LockNext, ReadNext
<1>2. CASE MarkMintSent(h) \/ DispatchSwap(h) \/ RecordRedemptionStart(h) \/ MintAnswers(h)
  BY <1>2, MarkNext, DispatchNext, HookNext, MintAnswersNext
<1>3. CASE SwapAnswered(h) \/ Unanswered(h) \/ Restore(h) \/ Restored(h) \/ SettleDelivery(h)
  BY <1>3, SwapAnsweredNext, UnansweredNext, RestoreNext, RestoredNext, SettleNext
<1>4. CASE \/ PersistSettlementOutputs(h) \/ CreditSettlement(h) \/ FinalizeSettlement(h)
           \/ Reject(h) \/ BlockRecovery(h)
  BY <1>4, PersistNext, CreditNext, FinalizeNext, RejectNext, BlockNext
<1> QED BY <1>1, <1>2, <1>3, <1>4 DEF Payment

LEMMA MemoryStep ==
  ASSUME MemoryInv, MemoryNext
  PROVE  MemoryInv'
<1>1. CASE \E h \in Handlers : Payment(h)
  BY <1>1, PaymentNext
<1>2. CASE \E plan \in adrift : MintSignsLate(plan)
  BY <1>2, SignsLateNext
<1>3. CASE ResetStore \/ ResetControl
  BY <1>3, ResetStoreNext, ResetControlNext
<1>4. CASE CreateRequest \/ SettlementPlans \/ Proofs \/ Ledger
  BY <1>4, CreateNext, EvidenceNext
<1> QED BY <1>1, <1>2, <1>3, <1>4 DEF MemoryNext

\* The ledger a resettable receiver shows is that of the run under way, for any
\* number of runs, with equal or different seeds, and of payments handled at the
\* same time: whatever a reset cuts in two (memory-store.ts:44-53), a credit is
\* of a delivery of this run that the mint signed for, and unless a payment of
\* an earlier run is handled with the ids of this one, phases, credits and
\* outputs agree and a rejected delivery was not redeemed.
THEOREM LedgerOfRunHolds == MemorySpec => []LedgerIsOfThisRun
<1>1. MemoryInit => MemoryInv
  BY MemoryStarts
<1>2. MemoryInv /\ [MemoryNext]_memoryVars => MemoryInv'
  BY MemoryStep, MemoryStutters
<1>3. MemoryInv => LedgerIsOfThisRun
  BY LedgerFollows
<1> QED BY <1>1, <1>2, <1>3, PTL DEF MemorySpec

-----------------------------------------------------------------------------
(* Nutzap recovery.  The predicates are about values: recs are the records   *)
(* of the devices, taken tells for whom the mint has swapped a proof, x is   *)
(* what a worker is doing for device d.                                      *)

Credited == {"local", "relay"}
FirstTokens == {"T0"} \X Devices
Inputs == {Zap} \cup ({"out"} \X Devices)
Gone(taken, p) == taken[p] # None
Paid(taken, d) == \E x \in Devices : taken[<<"out", x>>] = d
Made(taken, p) == IF p[1] = "out" THEN taken[Zap] = p[2] ELSE Paid(taken, p[2])

IsRedemption(r) ==
    r = [credit |-> r.credit, orig |-> r.orig, token |-> r.token, proofs |-> r.proofs,
         retired |-> r.retired, spend |-> r.spend, acks |-> r.acks, list |-> r.list,
         history |-> r.history]
IsWork(x) ==
    x = [op |-> x.op, pc |-> x.pc, seen |-> x.seen, choice |-> x.choice, drop |-> x.drop,
         skip |-> x.skip, routes |-> x.routes, result |-> x.result]

ZapTypeOK ==
    /\ consumer \in [Inputs -> Devices \cup {None}]
    /\ inflight \subseteq Inputs \X Devices
    /\ relayed = [r \in AllRelays |-> relayed[r]]
    /\ rec = [d \in Devices |-> rec[d]]
    /\ \A d \in Devices : IsRedemption(rec[d])
    /\ work = [w \in Workers |-> work[w]]
    /\ \A w \in Workers : IsWork(work[w])

\* The redemption of a device, before and after its credit.
Untouched(r) == r.token = None /\ r.proofs = {} /\ r.retired = {} /\ r.spend = "none"
Redemption(r) ==
    /\ r.credit \in Credited \cup {"absent", "open"}
    /\ r.spend \in {"none", "prepared", "conflicted", "finished"}
    /\ IF r.credit \in Credited THEN r.orig \in FirstTokens ELSE Untouched(r)
    /\ r.token \in Tokens \cup {None}
    /\ None \notin r.retired /\ r.token \notin r.retired
Balanced(taken, r) ==
    /\ r.spend = "prepared" => r.proofs = {}
    /\ r.spend = "finished" => r.orig \in r.retired
    /\ \A p \in r.proofs :
         p[2] \in Devices /\ Made(taken, p) /\ (r.spend = "finished" => p # Held(r.orig))
\* The outcome of its spend is the mint's.
Judged(taken, d, r) ==
    /\ r.spend = "finished" => Paid(taken, d)
    /\ r.spend = "conflicted" => Gone(taken, Held(r.orig)) /\ ~ Paid(taken, d)
\* Its token is that of the device the mint redeemed the nutzap for.
Rooted(recs, taken, d) ==
    /\ recs[d].credit = "local" => taken[Zap] = d /\ recs[d].orig = <<"T0", d>>
    /\ recs[d].credit = "relay" => recs[recs[d].orig[2]].credit = "local"

\* What a worker knows when it is about to act on it.
Receives(recs, taken, d, x) ==
    /\ x.pc \notin {"begin", "reserve"} => recs[d].credit # "absent"
    /\ x.pc \in {"publish", "discover", "choose", "route"} => recs[d].credit \in Credited
    /\ x.pc \in {"check", "commit"} => taken[Zap] = d
    /\ x.pc = "credit" => \A t \in x.choice :
         t \in FirstTokens /\ recs[t[2]].credit = "local" /\ Made(taken, Held(t))
Spends(recs, taken, d, x) ==
    x.pc # "begin" =>
        /\ recs[d].credit \in Credited /\ recs[d].spend # "none"
        /\ x.pc \in {"check", "commit"} => Paid(taken, d)
Syncs(recs, taken, d, x) ==
    x.pc # "begin" =>
        /\ recs[d].credit \in Credited
        /\ x.seen \subseteq Tokens /\ None \notin x.drop
        /\ x.pc \in {"own", "lost", "resolve"} => Gone(taken, Held(recs[d].orig))
        /\ x.pc \in {"lost", "resolve"} => ~ Paid(taken, d)
        /\ x.pc \in {"write", "resolve"} =>
             \A t \in x.choice : t \in Tokens /\ Made(taken, Held(t))
Informed(recs, taken, d, x) ==
    /\ x.op = "receive" => Receives(recs, taken, d, x)
    /\ x.op = "spend" => Spends(recs, taken, d, x)
    /\ x.op = "sync" => Syncs(recs, taken, d, x)

\* A swap that spends the token of a device is its own.
Owns(recs, p, d) == p = Zap \/ (recs[d].credit \in Credited /\ p = Held(recs[d].orig))
SwapsOK ==
    /\ \A m \in inflight : Owns(rec, m[1], m[2])
    /\ \A p \in Inputs : Gone(consumer, p) => Owns(rec, p, consumer[p])

\* A token on a relay is one that was credited.
Backed(recs, e) ==
    /\ e[1] = "T0" => e[2] \in Devices /\ e = <<"T0", e[2]>> /\ recs[e[2]].credit = "local"
    /\ e[1] = "D0" => e[2] \in Devices
RelayedOK == \A r \in AllRelays : \A e \in relayed[r] : Backed(rec, e)

DeviceOK(recs, taken, d) ==
    /\ Redemption(recs[d]) /\ Balanced(taken, recs[d]) /\ Judged(taken, d, recs[d])
    /\ Rooted(recs, taken, d)

ZapInv ==
    /\ ZapTypeOK
    /\ \A d \in Devices : DeviceOK(rec, consumer, d)
    /\ \A w \in Workers : Informed(rec, consumer, Device(w), work[w])
    /\ SwapsOK
    /\ RelayedOK

-----------------------------------------------------------------------------
LEMMA TokenFacts ==
  /\ FirstTokens \subseteq Tokens /\ None \notin Tokens /\ Zap \in Inputs
  /\ \A t \in FirstTokens :
       /\ t[1] = "T0" /\ t[2] \in Devices /\ t = <<"T0", t[2]>>
       /\ Held(t) = <<"out", t[2]>> /\ Held(t) \in Inputs /\ Held(t) # Zap
  /\ \A d \in Devices :
       /\ <<"T0", d>> \in FirstTokens /\ Held(<<"T0", d>>) = <<"out", d>>
       /\ <<"T1", d>> \in Tokens /\ Held(<<"T1", d>>) = <<"keep", d>>
       /\ <<"out", d>> \in Inputs /\ <<"out", d>> # Zap
  /\ \A p \in Inputs : p = Zap \/ (p[1] = "out" /\ p[2] \in Devices /\ p = <<"out", p[2]>>)
<1>1. None \notin Tokens
  BY ZapAssumption DEF Tokens
<1> QED BY <1>1 DEF FirstTokens, Tokens, Zap, Inputs, Held

LEMMA HeldWhose ==
  ASSUME NEW t \in Tokens
  PROVE  Held(t)[2] \in Devices
BY DEF Tokens, Held

LEMMA HeldOnce ==
  ASSUME NEW t \in Tokens, NEW u \in FirstTokens, Held(t) = Held(u)
  PROVE  t = u
<1>1. t = <<t[1], t[2]>> /\ t[1] \in {"T0", "T1"}
  BY DEF Tokens
<1>2. u = <<"T0", u[2]>> /\ u[1] = "T0"
  BY DEF FirstTokens
<1> QED BY <1>1, <1>2 DEF Held

\* The model's words for what the mint did.
LEMMA MintFacts ==
  /\ \A p : Spent(p) <=> Gone(consumer, p)
  /\ \A d : Redeemed(d) <=> consumer[Zap] = d
  /\ \A d : SpendDone(d) <=> Paid(consumer, d)
  /\ \A p : Issued(p) <=> Made(consumer, p)
BY DEF Spent, Gone, Redeemed, SpendDone, Paid, Issued, Made

\* The invariant says what it should.
LEMMA CountsFollow ==
  ASSUME ZapInv
  PROVE  NutzapCountsOnce /\ BalanceIsNotPromised
<1> SUFFICES ASSUME NEW d \in Devices
             PROVE  /\ rec[d].credit = "local" => Redeemed(d)
                    /\ rec[d].credit = "relay" => rec[rec[d].orig[2]].credit = "local"
                    /\ rec[d].spend = "finished" => SpendDone(d)
                    /\ rec[d].spend = "conflicted" => Spent(Held(rec[d].orig)) /\ ~ SpendDone(d)
                    /\ PendingSpend(rec[d]) => rec[d].proofs = {}
                    /\ rec[d].token \notin rec[d].retired
                    /\ \A p \in rec[d].proofs :
                         Issued(p) /\ (rec[d].spend = "finished" => p # Held(rec[d].orig))
  BY DEF NutzapCountsOnce, BalanceIsNotPromised
<1>1. DeviceOK(rec, consumer, d)
  BY DEF ZapInv
<1> QED BY <1>1, MintFacts DEF DeviceOK, Rooted, Judged, Redemption, Balanced, PendingSpend

LEMMA ZapStarts ==
  ASSUME ZapInit
  PROVE  ZapInv
<1> USE DEF ZapInit, ZapBegin
<1>1. ZapTypeOK
  <2>1. IsRedemption(NoRecord) /\ IsWork(Idle)
    BY DEF IsRedemption, IsWork, NoRecord, Idle
  <2>2. consumer \in [Inputs -> Devices \cup {None}]
    <3>1. consumer = [p \in Inputs |-> None]
      BY DEF Inputs
    <3> QED BY <3>1
  <2>3. \A d \in Devices : rec[d] = NoRecord
    OBVIOUS
  <2>4. \A w \in Workers : work[w] = Idle
    OBVIOUS
  <2>5. relayed = [r \in AllRelays |-> relayed[r]]
    OBVIOUS
  <2>6. rec = [d \in Devices |-> rec[d]] /\ work = [w \in Workers |-> work[w]]
    OBVIOUS
  <2> QED BY <2>1, <2>2, <2>3, <2>4, <2>5, <2>6 DEF ZapTypeOK
<1>2. ASSUME NEW d \in Devices PROVE DeviceOK(rec, consumer, d)
  <2>1. rec[d] = NoRecord
    OBVIOUS
  <2>2. Redemption(NoRecord)
    BY DEF Redemption, NoRecord, Untouched, Credited
  <2>3. Balanced(consumer, NoRecord) /\ Judged(consumer, d, NoRecord)
    BY DEF Balanced, Judged, NoRecord
  <2>4. Rooted(rec, consumer, d)
    BY <2>1 DEF Rooted, NoRecord
  <2> QED BY <2>1, <2>2, <2>3, <2>4 DEF DeviceOK
<1>3. ASSUME NEW w \in Workers PROVE Informed(rec, consumer, Device(w), work[w])
  BY DEF Informed, Idle
<1>4. SwapsOK
  BY DEF SwapsOK, Gone, Inputs
<1>5. RelayedOK
  <2> SUFFICES ASSUME NEW r \in AllRelays, NEW e \in relayed[r]
               PROVE  Backed(rec, e)
    BY DEF RelayedOK
  <2>1. PICK i \in DOMAIN RelayLists : e = ListEvent(i)
    BY ZapAssumption
  <2>2. e[1] = RelayLists[i].name
    BY <2>1 DEF ListEvent
  <2>3. RelayLists[i].name \notin WalletEvents
    BY ZapAssumption
  <2>4. e[1] # "T0" /\ e[1] # "D0"
    BY <2>2, <2>3 DEF WalletEvents
  <2> QED BY <2>4 DEF Backed
<1> QED BY <1>1, <1>2, <1>3, <1>4, <1>5 DEF ZapInv

-----------------------------------------------------------------------------
(* What a step leaves true.  A record only goes on: its credit and its token *)
(* stand once it has them, and a spend once begun is not forgotten.          *)

Evolved(r, s) ==
    /\ r.credit # "absent" => s.credit # "absent"
    /\ r.credit \in Credited => s.credit = r.credit /\ s.orig = r.orig
    /\ r.spend # "none" => s.spend # "none"

LEMMA StillInformed ==
  ASSUME NEW recs, NEW more, NEW taken, NEW d \in Devices, NEW x,
         Informed(recs, taken, d, x),
         \A e \in Devices : Evolved(recs[e], more[e])
  PROVE  Informed(more, taken, d, x)
<1>1. Evolved(recs[d], more[d])
  OBVIOUS
<1>2. ASSUME Receives(recs, taken, d, x) PROVE Receives(more, taken, d, x)
  <2>1. ASSUME NEW t \in FirstTokens, recs[t[2]].credit = "local"
        PROVE  more[t[2]].credit = "local"
    BY <2>1, TokenFacts DEF Evolved, Credited
  <2> QED BY <1>1, <1>2, <2>1 DEF Receives, Evolved
<1>3. ASSUME Spends(recs, taken, d, x) PROVE Spends(more, taken, d, x)
  BY <1>1, <1>3 DEF Spends, Evolved
<1>4. ASSUME Syncs(recs, taken, d, x) PROVE Syncs(more, taken, d, x)
  BY <1>1, <1>4 DEF Syncs, Evolved
<1> QED BY <1>2, <1>3, <1>4 DEF Informed

LEMMA StillBacked ==
  ASSUME NEW recs, NEW more, NEW e, Backed(recs, e),
         \A d \in Devices : Evolved(recs[d], more[d])
  PROVE  Backed(more, e)
BY DEF Backed, Evolved, Credited

LEMMA StillOwns ==
  ASSUME NEW recs, NEW more, NEW p, NEW d \in Devices, Owns(recs, p, d),
         \A e \in Devices : Evolved(recs[e], more[e])
  PROVE  Owns(more, p, d)
BY DEF Owns, Evolved

LEMMA StillRooted ==
  ASSUME NEW recs, NEW more, NEW taken, NEW d \in Devices,
         Rooted(recs, taken, d), Redemption(recs[d]), more[d] = recs[d],
         \A e \in Devices : Evolved(recs[e], more[e])
  PROVE  Rooted(more, taken, d)
<1>1. ASSUME recs[d].credit = "relay"
      PROVE  more[recs[d].orig[2]].credit = "local"
  <2>1. recs[d].orig[2] \in Devices
    BY <1>1, TokenFacts DEF Redemption, Credited
  <2> QED BY <1>1, <2>1 DEF Rooted, Evolved, Credited
<1> QED BY <1>1 DEF Rooted

\* A worker takes a step; its device's record is written; events are published.
WorkMoved(w) ==
    /\ work' = [v \in Workers |-> work'[v]]
    /\ \A v \in Workers : v # w => work'[v] = work[v]
    /\ IsWork(work'[w])
Written(d) ==
    /\ rec' = [e \in Devices |-> rec'[e]]
    /\ \A e \in Devices : e # d => rec'[e] = rec[e]
    /\ IsRedemption(rec'[d]) /\ Evolved(rec[d], rec'[d])
Published ==
    /\ relayed' = [r \in AllRelays |-> relayed'[r]]
    /\ \A r \in AllRelays : \A e \in relayed'[r] : e \in relayed[r] \/ Backed(rec, e)

LEMMA AllEvolve ==
  ASSUME NEW d \in Devices, Written(d)
  PROVE  \A e \in Devices : Evolved(rec[e], rec'[e])
BY DEF Written, Evolved

\* A step of a worker that leaves records and relays alone.
LEMMA QuietZap ==
  ASSUME ZapInv, NEW w \in Workers, WorkMoved(w),
         UNCHANGED <<rec, consumer, relayed>>,
         inflight' \subseteq Inputs \X Devices,
         \A m \in inflight' : m \in inflight \/ Owns(rec, m[1], m[2]),
         Informed(rec, consumer, Device(w), work'[w])
  PROVE  ZapInv'
<1>1. ZapTypeOK'
  BY DEF ZapInv, ZapTypeOK, WorkMoved
<1>2. \A d \in Devices : DeviceOK(rec', consumer', d)
  BY DEF ZapInv
<1>3. \A v \in Workers : Informed(rec', consumer', Device(v), work'[v])
  BY DEF ZapInv, WorkMoved
<1>4. SwapsOK'
  BY DEF ZapInv, SwapsOK
<1>5. RelayedOK'
  BY DEF ZapInv, RelayedOK
<1> QED BY <1>1, <1>2, <1>3, <1>4, <1>5 DEF ZapInv

\* A step of a worker that writes its device's record.
LEMMA WriteZap ==
  ASSUME ZapInv, NEW w \in Workers, WorkMoved(w), Written(Device(w)), Published,
         UNCHANGED <<consumer, inflight>>,
         DeviceOK(rec', consumer, Device(w)),
         Informed(rec', consumer, Device(w), work'[w])
  PROVE  ZapInv'
<1> DEFINE d == Device(w)
<1>0. d \in Devices /\ \A v \in Workers : Device(v) \in Devices
  BY ZapAssumption DEF Device
<1>a. \A e \in Devices : Evolved(rec[e], rec'[e])
  BY <1>0, AllEvolve
<1>1. ZapTypeOK'
  BY DEF ZapInv, ZapTypeOK, WorkMoved, Written, Published
<1>2. ASSUME NEW e \in Devices PROVE DeviceOK(rec', consumer', e)
  <2>1. CASE e = d
    BY <2>1
  <2>2. CASE e # d
    <3>1. DeviceOK(rec, consumer, e) /\ rec'[e] = rec[e]
      BY <2>2 DEF ZapInv, Written
    <3>2. Rooted(rec', consumer, e)
      BY <1>a, <3>1, StillRooted DEF DeviceOK
    <3> QED BY <3>1, <3>2 DEF DeviceOK
  <2> QED BY <2>1, <2>2
<1>3. ASSUME NEW v \in Workers PROVE Informed(rec', consumer', Device(v), work'[v])
  <2>1. CASE v = w
    BY <2>1
  <2>2. CASE v # w
    <3>1. Informed(rec, consumer, Device(v), work[v]) /\ work'[v] = work[v]
      BY <2>2 DEF ZapInv, WorkMoved
    <3> QED BY <1>0, <1>a, <3>1, StillInformed
  <2> QED BY <2>1, <2>2
<1>4. SwapsOK'
  <2>1. ASSUME NEW m \in inflight PROVE Owns(rec', m[1], m[2])
    BY <1>a, StillOwns DEF ZapInv, ZapTypeOK, SwapsOK
  <2>2. ASSUME NEW p \in Inputs, Gone(consumer, p) PROVE Owns(rec', p, consumer[p])
    <3>1. consumer[p] \in Devices
      BY <2>2 DEF ZapInv, ZapTypeOK, Gone
    <3> QED BY <1>a, <2>2, <3>1, StillOwns DEF ZapInv, SwapsOK
  <2> QED BY <2>1, <2>2 DEF SwapsOK
<1>5. RelayedOK'
  BY <1>a, StillBacked DEF ZapInv, RelayedOK, Published
<1> QED BY <1>1, <1>2, <1>3, <1>4, <1>5 DEF ZapInv
\* A step of a worker that keeps what its device's record says of its money.
Aside(d) ==
    /\ rec' = [e \in Devices |-> rec'[e]]
    /\ \A e \in Devices : e # d => rec'[e] = rec[e]
    /\ IsRedemption(rec'[d])
    /\ rec'[d].credit = rec[d].credit /\ rec'[d].orig = rec[d].orig
    /\ rec'[d].token = rec[d].token /\ rec'[d].proofs = rec[d].proofs
    /\ rec'[d].retired = rec[d].retired /\ rec'[d].spend = rec[d].spend

LEMMA AsideZap ==
  ASSUME ZapInv, NEW w \in Workers, WorkMoved(w), Aside(Device(w)), Published,
         UNCHANGED <<consumer, inflight>>,
         Informed(rec, consumer, Device(w), work'[w])
  PROVE  ZapInv'
<1> DEFINE d == Device(w)
<1>0. d \in Devices
  BY ZapAssumption DEF Device
<1>1. Written(d)
  BY DEF Aside, Written, Evolved
<1>2. \A e \in Devices : Evolved(rec[e], rec'[e])
  BY <1>0, <1>1, AllEvolve
<1>3. DeviceOK(rec, consumer, d)
  BY <1>0 DEF ZapInv
<1>4. Redemption(rec'[d]) /\ Balanced(consumer, rec'[d]) /\ Judged(consumer, d, rec'[d])
  <2>1. Redemption(rec'[d])
    BY <1>3 DEF DeviceOK, Aside, Redemption, Untouched
  <2>2. Balanced(consumer, rec'[d])
    BY <1>3 DEF DeviceOK, Aside, Balanced
  <2>3. Judged(consumer, d, rec'[d])
    BY <1>3 DEF DeviceOK, Aside, Judged
  <2> QED BY <2>1, <2>2, <2>3
<1>5. Rooted(rec', consumer, d)
  <2>1. ASSUME rec'[d].credit = "relay"
        PROVE  rec'[rec'[d].orig[2]].credit = "local"
    <3>1. rec[d].credit = "relay" /\ rec'[d].orig = rec[d].orig
      BY <2>1 DEF Aside
    <3>2. rec[d].orig[2] \in Devices
      BY <1>3, <3>1, TokenFacts DEF DeviceOK, Redemption, Credited
    <3>3. rec[rec[d].orig[2]].credit = "local"
      BY <1>3, <3>1 DEF DeviceOK, Rooted
    <3> QED BY <1>2, <3>1, <3>2, <3>3 DEF Evolved, Credited
  <2> QED BY <1>3, <2>1 DEF DeviceOK, Rooted, Aside
<1>6. Informed(rec', consumer, d, work'[w])
  BY <1>0, <1>2, StillInformed
<1>7. DeviceOK(rec', consumer, d)
  BY <1>4, <1>5 DEF DeviceOK
<1> QED BY <1>1, <1>6, <1>7, WriteZap

\* The steps of a worker.
LEMMA ContinueStep ==
  ASSUME ZapTypeOK, NEW w \in Workers, NEW pc, Continue(w, pc)
  PROVE  /\ WorkMoved(w) /\ work'[w].op = work[w].op /\ work'[w].pc = pc
         /\ work'[w].seen = work[w].seen /\ work'[w].choice = work[w].choice
         /\ work'[w].drop = work[w].drop
<1>1. work'[w] = [work[w] EXCEPT !.pc = pc]
  BY DEF ZapTypeOK, Continue
<1>2. IsWork(work[w])
  BY DEF ZapTypeOK
<1>3. work' = [v \in Workers |-> work'[v]] /\ \A v \in Workers : v # w => work'[v] = work[v]
  BY DEF ZapTypeOK, Continue
<1>4. IsWork(work'[w]) /\ work'[w].op = work[w].op /\ work'[w].pc = pc
      /\ work'[w].seen = work[w].seen /\ work'[w].choice = work[w].choice
      /\ work'[w].drop = work[w].drop
  BY <1>1, <1>2 DEF IsWork
<1> QED BY <1>3, <1>4 DEF WorkMoved

LEMMA ReturnStep ==
  ASSUME ZapTypeOK, NEW w \in Workers, NEW result, Return(w, result)
  PROVE  WorkMoved(w) /\ \A recs, taken, d : Informed(recs, taken, d, work'[w])
<1>1. work'[w] = [Idle EXCEPT !.result = result]
  BY DEF ZapTypeOK, Return
<1>2. work' = [v \in Workers |-> work'[v]] /\ \A v \in Workers : v # w => work'[v] = work[v]
  BY DEF ZapTypeOK, Return
<1>3. IsWork(work'[w]) /\ work'[w].op = "idle"
  BY <1>1 DEF IsWork, Idle
<1> QED BY <1>2, <1>3 DEF WorkMoved, Informed

LEMMA ToOutboxStep ==
  ASSUME ZapTypeOK, NEW w \in Workers, ToOutbox(w)
  PROVE  WorkMoved(w) /\ work'[w].op = work[w].op /\ work'[w].pc = "publish"
<1>1. work'[w] = [work[w] EXCEPT !.pc = "publish", !.routes = rec[Device(w)].history]
  BY DEF ZapTypeOK, ToOutbox
<1>2. IsWork(work[w])
  BY DEF ZapTypeOK
<1>3. work' = [v \in Workers |-> work'[v]] /\ \A v \in Workers : v # w => work'[v] = work[v]
  BY DEF ZapTypeOK, ToOutbox
<1>4. IsWork(work'[w]) /\ work'[w].op = work[w].op /\ work'[w].pc = "publish"
  BY <1>1, <1>2 DEF IsWork
<1> QED BY <1>3, <1>4 DEF WorkMoved
-----------------------------------------------------------------------------
(* Steps that write no record. *)

\* What is known of a device and of the worker that acts for it.
LEMMA ZapKnown ==
  ASSUME ZapInv, NEW w \in Workers
  PROVE  /\ Device(w) \in Devices
         /\ DeviceOK(rec, consumer, Device(w))
         /\ Informed(rec, consumer, Device(w), work[w])
         /\ IsWork(work[w]) /\ IsRedemption(rec[Device(w)])
BY ZapAssumption DEF ZapInv, ZapTypeOK, Device

\* A worker that ends, or goes on with what it knows.
LEMMA ReturnZap ==
  ASSUME ZapInv, NEW w \in Workers, NEW result, Return(w, result),
         UNCHANGED <<rec, consumer, inflight, relayed>>
  PROVE  ZapInv'
<1>1. WorkMoved(w) /\ Informed(rec, consumer, Device(w), work'[w])
  BY ReturnStep DEF ZapInv
<1> QED BY <1>1, QuietZap DEF ZapInv, ZapTypeOK

LEMMA StartZap ==
  ASSUME ZapInv, NEW w \in Workers, Start(w)
  PROVE  ZapInv'
<1>1. work'[w] = [Idle EXCEPT !.op = Head(agenda.runs[w]), !.pc = "begin"]
  BY DEF Start, ZapInv, ZapTypeOK
<1>2. work' = [v \in Workers |-> work'[v]] /\ \A v \in Workers : v # w => work'[v] = work[v]
  BY DEF Start, ZapInv, ZapTypeOK
<1>3. IsWork(work'[w]) /\ work'[w].pc = "begin"
  BY <1>1 DEF IsWork, Idle
<1>4. Informed(rec, consumer, Device(w), work'[w])
  BY <1>3 DEF Informed, Receives, Spends, Syncs
<1>5. WorkMoved(w)
  BY <1>2, <1>3 DEF WorkMoved
<1> QED BY <1>4, <1>5, QuietZap DEF ZapInv, ZapTypeOK, Start, Same

LEMMA CrashZap ==
  ASSUME ZapInv, NEW w \in Workers, Crash(w)
  PROVE  ZapInv'
BY ReturnZap DEF Crash, Same

LEMMA ReceiveBeginZap ==
  ASSUME ZapInv, NEW w \in Workers, ReceiveBegin(w)
  PROVE  ZapInv'
<1>1. CASE Continue(w, "reserve")
  <2>1. WorkMoved(w) /\ work'[w].op = work[w].op /\ work'[w].pc = "reserve"
    BY <1>1, ContinueStep DEF ZapInv
  <2>2. work[w].op = "receive"
    BY DEF ReceiveBegin, Doing
  <2>3. Informed(rec, consumer, Device(w), work'[w])
    BY <2>1, <2>2 DEF Informed, Receives
  <2> QED BY <2>1, <2>3, QuietZap DEF ZapInv, ZapTypeOK, ReceiveBegin, Same
<1>2. CASE Return(w, "recovery-blocked")
  BY <1>2, ReturnZap DEF ReceiveBegin, Same
<1> QED BY <1>1, <1>2 DEF ReceiveBegin

\* A plan that the mint is found to have executed.
LEMMA Found ==
  ASSUME ZapInv, NEW w \in Workers, NEW pc, Continue(w, pc),
         work[w].pc \in {"restore", "restore again", "states", "swap", "check"},
         pc \in {"check", "commit"} =>
            /\ work[w].op = "receive" => consumer[Zap] = Device(w)
            /\ work[w].op = "spend" => Paid(consumer, Device(w)),
         pc \in {"states", "swap", "restore again", "peer", "check", "commit"},
         UNCHANGED <<rec, consumer, relayed>>,
         inflight' \subseteq Inputs \X Devices,
         \A m \in inflight' : m \in inflight \/ Owns(rec, m[1], m[2])
  PROVE  ZapInv'
<1>1. /\ WorkMoved(w) /\ work'[w].op = work[w].op /\ work'[w].pc = pc
      /\ work'[w].seen = work[w].seen /\ work'[w].drop = work[w].drop
  BY ContinueStep DEF ZapInv
<1>2. Informed(rec, consumer, Device(w), work[w])
  BY ZapKnown
<1>3. work[w].op = "receive" => Receives(rec, consumer, Device(w), work'[w])
  BY <1>1, <1>2 DEF Informed, Receives
<1>4. work[w].op = "spend" => Spends(rec, consumer, Device(w), work'[w])
  BY <1>1, <1>2 DEF Informed, Spends
<1>5. work[w].op = "sync" => Syncs(rec, consumer, Device(w), work'[w])
  BY <1>1, <1>2 DEF Informed, Syncs
<1>6. Informed(rec, consumer, Device(w), work'[w])
  BY <1>1, <1>3, <1>4, <1>5 DEF Informed
<1> QED BY <1>1, <1>6, QuietZap

LEMMA FoundSame ==
  ASSUME ZapInv, UNCHANGED inflight
  PROVE  /\ inflight' \subseteq Inputs \X Devices
         /\ \A m \in inflight' : m \in inflight \/ Owns(rec, m[1], m[2])
BY DEF ZapInv, ZapTypeOK

LEMMA RestoreOutputsZap ==
  ASSUME ZapInv, NEW w \in Workers, RestoreOutputs(w)
  PROVE  ZapInv'
<1> DEFINE found == IF work[w].op = "receive" THEN Redeemed(Device(w)) ELSE SpendDone(Device(w))
<1>0. UNCHANGED <<rec, consumer, inflight, relayed>>
  BY DEF RestoreOutputs, Same
<1>1. found => /\ work[w].op = "receive" => consumer[Zap] = Device(w)
               /\ work[w].op = "spend" => Paid(consumer, Device(w))
  BY MintFacts
<1>2. \/ work[w].pc \in {"restore", "restore again"} /\ found /\ Continue(w, "check")
      \/ work[w].pc = "restore" /\ Continue(w, "states")
      \/ work[w].pc = "restore again" /\ Continue(w, "peer")
      \/ Return(w, "recovery-blocked")
  BY Zenon DEF RestoreOutputs
<1> HIDE DEF found
<1> QED BY <1>0, <1>1, <1>2, Found, FoundSame, ReturnZap

\* The input of a receive or a spend is a proof that its device may swap.
LEMMA InputOwned ==
  ASSUME ZapInv, NEW w \in Workers, work[w].op \in {"receive", "spend"},
         work[w].pc \in {"states", "swap"}
  PROVE  /\ Input(w) \in Inputs /\ Owns(rec, Input(w), Device(w))
         /\ work[w].op = "receive" => Input(w) = Zap
         /\ work[w].op = "spend" => \E x \in Devices : Input(w) = <<"out", x>>
<1>1. CASE work[w].op = "receive"
  BY <1>1 DEF Input, Inputs, Owns
<1>2. CASE work[w].op = "spend"
  <2>1. Input(w) = Held(rec[Device(w)].orig)
    BY <1>2 DEF Input
  <2>2. rec[Device(w)].credit \in Credited
    BY <1>2, ZapKnown DEF Informed, Spends
  <2>3. rec[Device(w)].orig \in FirstTokens
    BY <2>2, ZapKnown DEF DeviceOK, Redemption
  <2>4. PICK x \in Devices : Held(rec[Device(w)].orig) = <<"out", x>>
    BY <2>3 DEF FirstTokens, Held
  <2> QED BY <1>2, <2>1, <2>2, <2>4 DEF Inputs, Owns
<1> QED BY <1>1, <1>2
LEMMA StatesZap ==
  ASSUME ZapInv, NEW w \in Workers, States(w)
  PROVE  ZapInv'
<1> DEFINE p == Input(w)
<1>0. /\ UNCHANGED <<rec, consumer, relayed>>
      /\ work[w].op \in {"receive", "spend"} /\ work[w].pc = "states"
  BY DEF States
<1>1. ASSUME NEW result, Return(w, result), UNCHANGED inflight PROVE ZapInv'
  BY <1>0, <1>1, ReturnZap
<1>2. CASE Continue(w, "swap") /\ inflight' = inflight \cup {<<p, Device(w)>>}
  <2>1. p \in Inputs /\ Owns(rec, p, Device(w)) /\ Device(w) \in Devices
    BY <1>0, InputOwned, ZapKnown
  <2>2. inflight' \subseteq Inputs \X Devices
    BY <1>2, <2>1 DEF ZapInv, ZapTypeOK
  <2>3. \A m \in inflight' : m \in inflight \/ Owns(rec, m[1], m[2])
    BY <1>2, <2>1
  <2> QED BY <1>0, <1>2, <2>2, <2>3, Found
<1>3. ASSUME UNCHANGED inflight, NEW pc \in {"peer", "restore again"}, Continue(w, pc)
      PROVE  ZapInv'
  BY <1>0, <1>3, Found, FoundSame
<1> QED BY <1>1, <1>2, <1>3 DEF States

LEMMA SwapAnswerZap ==
  ASSUME ZapInv, NEW w \in Workers, SwapAnswer(w)
  PROVE  ZapInv'
<1>0. UNCHANGED <<rec, consumer, inflight, relayed>> /\ work[w].pc = "swap"
  BY DEF SwapAnswer, Same
<1>1. CASE consumer[Input(w)] = Device(w) /\ Continue(w, "check")
  <2>1. work[w].op = "receive" => consumer[Zap] = Device(w)
    BY <1>1 DEF Input
  <2>2. work[w].op = "spend" => Paid(consumer, Device(w))
    BY <1>0, <1>1, InputOwned DEF Paid
  <2> QED BY <1>0, <1>1, <2>1, <2>2, Found, FoundSame
<1>2. CASE Continue(w, "restore again")
  BY <1>0, <1>2, Found, FoundSame
<1> QED BY <1>1, <1>2 DEF SwapAnswer

LEMMA CheckZap ==
  ASSUME ZapInv, NEW w \in Workers, Check(w)
  PROVE  ZapInv'
<1>0. /\ UNCHANGED <<rec, consumer, inflight, relayed>>
      /\ work[w].op \in {"receive", "spend"} /\ work[w].pc = "check"
  BY DEF Check, Same
<1>1. CASE Continue(w, "commit")
  <2>1. work[w].op = "receive" => consumer[Zap] = Device(w)
    BY <1>0, ZapKnown DEF Informed, Receives
  <2>2. work[w].op = "spend" => Paid(consumer, Device(w))
    BY <1>0, ZapKnown DEF Informed, Spends
  <2> QED BY <1>0, <1>1, <2>1, <2>2, Found, FoundSame
<1>2. CASE Return(w, "recovery-blocked")
  BY <1>0, <1>2, ReturnZap
<1> QED BY <1>1, <1>2 DEF Check

\* What the relays show was credited.
LEMMA ShownBacked ==
  ASSUME ZapInv, NEW up \in SUBSET WalletRelays
  PROVE  \A e \in Shown(up) : Backed(rec, e)
BY DEF Shown, ZapInv, RelayedOK, AllRelays

LEMMA PeerZap ==
  ASSUME ZapInv, NEW w \in Workers, Peer(w)
  PROVE  ZapInv'
<1>0. /\ UNCHANGED <<rec, consumer, inflight, relayed>>
      /\ work[w].op = "receive" /\ work[w].pc = "peer"
  BY DEF Peer, Same, Doing
<1>1. CASE Return(w, "awaiting-peer")
  BY <1>0, <1>1, ReturnZap
<1>2. ASSUME NEW up \in SUBSET WalletRelays, NEW good,
             good \subseteq PeerTokens(Shown(up)), \A t \in good : Issued(Held(t)),
             work' = [work EXCEPT ![w].pc = "credit", ![w].choice = good]
      PROVE  ZapInv'
  <2>1. work'[w] = [work[w] EXCEPT !.pc = "credit", !.choice = good]
    BY <1>2 DEF ZapInv, ZapTypeOK
  <2>2. /\ work' = [v \in Workers |-> work'[v]]
        /\ \A v \in Workers : v # w => work'[v] = work[v]
    BY <1>2 DEF ZapInv, ZapTypeOK
  <2>3. /\ IsWork(work'[w]) /\ work'[w].op = work[w].op
        /\ work'[w].pc = "credit" /\ work'[w].choice = good
    BY <2>1, ZapKnown DEF IsWork
  <2>4. ASSUME NEW t \in good
        PROVE  t \in FirstTokens /\ rec[t[2]].credit = "local" /\ Made(consumer, Held(t))
    <3>1. t \in Shown(up) /\ \E x : t = <<"T0", x>>
      BY <1>2 DEF PeerTokens
    <3>2. t[1] = "T0" /\ Backed(rec, t)
      BY <3>1, ShownBacked
    <3>3. t \in FirstTokens /\ rec[t[2]].credit = "local"
      BY <3>2 DEF Backed, FirstTokens
    <3> QED BY <1>2, <3>3, MintFacts
  <2>5. rec[Device(w)].credit # "absent"
    BY <1>0, ZapKnown DEF Informed, Receives
  <2>6. Informed(rec, consumer, Device(w), work'[w])
    BY <1>0, <2>3, <2>4, <2>5 DEF Informed, Receives
  <2>7. WorkMoved(w)
    BY <2>2, <2>3 DEF WorkMoved
  <2> QED BY <1>0, <2>6, <2>7, QuietZap, FoundSame
<1> QED BY ZenonT(40), <1>1, <1>2 DEF Peer
LEMMA SyncBeginZap ==
  ASSUME ZapInv, NEW w \in Workers, SyncBegin(w)
  PROVE  ZapInv'
<1> DEFINE r == rec[Device(w)]
           pc == IF PendingSpend(r) THEN "spent" ELSE "read"
           seen == {r.orig, r.token} \ {None}
<1>0. UNCHANGED <<rec, consumer, inflight, relayed>> /\ work[w].op = "sync"
  BY DEF SyncBegin, Same, Doing
<1>1. CASE Return(w, "error")
  BY <1>0, <1>1, ReturnZap
<1>2. CASE /\ r.credit \in {"local", "relay"}
           /\ work' = [work EXCEPT ![w].pc = pc, ![w].seen = seen, ![w].drop = r.retired]
  <2>1. work'[w] = [work[w] EXCEPT !.pc = pc, !.seen = seen, !.drop = r.retired]
    BY <1>2 DEF ZapInv, ZapTypeOK
  <2>2. /\ work' = [v \in Workers |-> work'[v]]
        /\ \A v \in Workers : v # w => work'[v] = work[v]
    BY <1>2 DEF ZapInv, ZapTypeOK
  <2>3. /\ IsWork(work'[w]) /\ work'[w].op = work[w].op /\ work'[w].pc \in {"spent", "read"}
        /\ work'[w].seen = seen /\ work'[w].drop = r.retired
    BY <2>1, ZapKnown DEF IsWork
  <2>4. r.orig \in FirstTokens /\ r.token \in Tokens \cup {None} /\ None \notin r.retired
    BY <1>2, ZapKnown DEF DeviceOK, Redemption, Credited
  <2>5. seen \subseteq Tokens
    BY <2>4, TokenFacts
  <2>6. Informed(rec, consumer, Device(w), work'[w])
    BY <1>0, <1>2, <2>3, <2>4, <2>5 DEF Informed, Syncs, Credited
  <2>7. WorkMoved(w)
    BY <2>2, <2>3 DEF WorkMoved
  <2> QED BY <1>0, <2>6, <2>7, QuietZap, FoundSame
<1> QED BY <1>1, <1>2 DEF SyncBegin

\* A synchronisation learns that the inputs of its spend are gone.
LEMMA SyncLearns ==
  ASSUME ZapInv, NEW w \in Workers, NEW pc \in {"own", "lost"}, Continue(w, pc),
         work[w].op = "sync", work[w].pc \in {"spent", "own"},
         Gone(consumer, Held(rec[Device(w)].orig)),
         pc = "lost" => ~ Paid(consumer, Device(w)),
         UNCHANGED <<rec, consumer, inflight, relayed>>
  PROVE  ZapInv'
<1>1. /\ WorkMoved(w) /\ work'[w].op = work[w].op /\ work'[w].pc = pc
      /\ work'[w].seen = work[w].seen /\ work'[w].drop = work[w].drop
  BY ContinueStep DEF ZapInv
<1>2. Informed(rec, consumer, Device(w), work'[w])
  BY <1>1, ZapKnown DEF Informed, Syncs
<1> QED BY <1>1, <1>2, QuietZap, FoundSame

LEMMA SyncSpentZap ==
  ASSUME ZapInv, NEW w \in Workers, SyncSpent(w)
  PROVE  ZapInv'
<1>0. UNCHANGED <<rec, consumer, inflight, relayed>> /\ Doing(w, "sync", "spent")
  BY DEF SyncSpent, Same
<1>1. CASE Spent(Held(rec[Device(w)].orig)) /\ Continue(w, "own")
  BY <1>0, <1>1, SyncLearns, MintFacts DEF Doing
<1>2. CASE Return(w, "awaiting-peer")
  BY <1>0, <1>2, ReturnZap
<1> QED BY <1>1, <1>2 DEF SyncSpent

LEMMA SyncOwnZap ==
  ASSUME ZapInv, NEW w \in Workers, SyncOwn(w)
  PROVE  ZapInv'
<1>0. UNCHANGED <<rec, consumer, inflight, relayed>> /\ Doing(w, "sync", "own")
  BY DEF SyncOwn, Same
<1>1. CASE ~ SpendDone(Device(w)) /\ Continue(w, "lost")
  <2>1. Gone(consumer, Held(rec[Device(w)].orig))
    BY <1>0, ZapKnown DEF Informed, Syncs, Doing
  <2> QED BY <1>0, <1>1, <2>1, SyncLearns, MintFacts DEF Doing
<1>2. CASE Return(w, "awaiting-peer")
  BY <1>0, <1>2, ReturnZap
<1> QED BY <1>1, <1>2 DEF SyncOwn

\* What a synchronisation drops are token events, never the absence of one.
LEMMA DeadTokens ==
  ASSUME ZapInv, NEW up \in SUBSET WalletRelays
  PROVE  {<<"T0", e[2]>> : e \in {x \in Shown(up) : x[1] = "D0"}} \subseteq Tokens
<1> SUFFICES ASSUME NEW e \in Shown(up), e[1] = "D0"
             PROVE  <<"T0", e[2]>> \in Tokens
  OBVIOUS
<1>1. e[2] \in Devices
  BY ShownBacked DEF Backed
<1> QED BY <1>1 DEF Tokens

Select(x, one, pc, drop) == [x EXCEPT !.pc = pc, !.choice = one, !.drop = drop]
LEMMA Selecting ==
  ASSUME NEW x, IsWork(x), NEW y, NEW one, NEW pc, NEW drop, y = Select(x, one, pc, drop)
  PROVE  /\ IsWork(y) /\ y.op = x.op /\ y.pc = pc
         /\ y.seen = x.seen /\ y.drop = drop /\ y.choice = one
BY DEF IsWork, Select

Selected(w, one, pc, drop) ==
    work' = [work EXCEPT ![w].pc = pc, ![w].choice = one, ![w].drop = drop]

LEMMA SelectStep ==
  ASSUME ZapTypeOK, NEW w \in Workers, NEW one, NEW pc, NEW drop, Selected(w, one, pc, drop)
  PROVE  /\ WorkMoved(w) /\ work'[w].op = work[w].op /\ work'[w].pc = pc
         /\ work'[w].seen = work[w].seen /\ work'[w].drop = drop /\ work'[w].choice = one
<1>1. work'[w] = Select(work[w], one, pc, drop)
  BY DEF ZapTypeOK, Selected, Select
<1>2. work' = [v \in Workers |-> work'[v]] /\ \A v \in Workers : v # w => work'[v] = work[v]
  BY DEF ZapTypeOK, Selected
<1>3. IsWork(work[w])
  BY DEF ZapTypeOK
<1>4. /\ IsWork(work'[w]) /\ work'[w].op = work[w].op /\ work'[w].pc = pc
      /\ work'[w].seen = work[w].seen /\ work'[w].drop = drop /\ work'[w].choice = one
  BY <1>1, <1>3, Selecting
<1> QED BY <1>2, <1>4 DEF WorkMoved

\* With the candidates it judged and the tokens it dropped.
LEMMA SyncSelects ==
  ASSUME ZapInv, NEW w \in Workers, work[w].op = "sync", work[w].pc \in {"read", "lost"},
         NEW one, NEW drop, NEW pc, Selected(w, one, pc, drop),
         pc = "write" \/ (pc = "resolve" /\ work[w].pc = "lost"),
         None \notin drop, \A t \in one : t \in Tokens /\ Issued(Held(t)),
         UNCHANGED <<rec, consumer, inflight, relayed>>
  PROVE  ZapInv'
<1>1. /\ WorkMoved(w) /\ work'[w].op = work[w].op /\ work'[w].pc = pc
      /\ work'[w].seen = work[w].seen /\ work'[w].drop = drop /\ work'[w].choice = one
  BY SelectStep DEF ZapInv
<1>2. \A t \in one : t \in Tokens /\ Made(consumer, Held(t))
  BY MintFacts
<1>3. Syncs(rec, consumer, Device(w), work[w])
  BY ZapKnown DEF Informed
<1>4. /\ rec[Device(w)].credit \in Credited /\ work[w].seen \subseteq Tokens
      /\ work[w].pc = "lost" =>
           Gone(consumer, Held(rec[Device(w)].orig)) /\ ~ Paid(consumer, Device(w))
  BY <1>3 DEF Syncs
<1>5. work'[w].pc \in {"own", "lost", "resolve"} =>
        Gone(consumer, Held(rec[Device(w)].orig)) /\ ~ Paid(consumer, Device(w))
  BY <1>1, <1>4
<1>6. Syncs(rec, consumer, Device(w), work'[w])
  BY <1>1, <1>2, <1>4, <1>5 DEF Syncs
<1>7. Informed(rec, consumer, Device(w), work'[w])
  BY <1>1, <1>6 DEF Informed
<1> QED BY <1>1, <1>7, QuietZap, FoundSame
LEMMA SyncSelectZap ==
  ASSUME ZapInv, NEW w \in Workers, work[w].op = "sync", work[w].pc \in {"read", "lost"},
         NEW one, NEW drop, SyncSelect(w, one, drop),
         None \notin drop, \A t \in one : t \in Tokens /\ Issued(Held(t)),
         UNCHANGED <<rec, consumer, inflight, relayed>>
  PROVE  ZapInv'
<1> DEFINE orig == rec[Device(w)].orig
           pc == IF work[w].pc = "lost" /\ one # {} THEN "resolve" ELSE "write"
           all == drop \cup (IF one # {} /\ one # {orig} THEN {orig} ELSE {})
<1>1. CASE Return(w, "awaiting-peer")
  BY <1>1, ReturnZap
<1>2. CASE Selected(w, one, pc, all)
  <2>1. rec[Device(w)].credit \in Credited
    BY ZapKnown DEF Informed, Syncs
  <2>2. orig \in FirstTokens
    BY <2>1, ZapKnown DEF DeviceOK, Redemption
  <2>3. None \notin all
    BY <2>2, TokenFacts
  <2>4. pc = "write" \/ (pc = "resolve" /\ work[w].pc = "lost")
    OBVIOUS
  <2> HIDE DEF pc, all
  <2> QED BY <1>2, <2>3, <2>4, SyncSelects
<1> QED BY <1>1, <1>2 DEF SyncSelect, Selected

LEMMA SyncReadZap ==
  ASSUME ZapInv, NEW w \in Workers, SyncRead(w)
  PROVE  ZapInv'
<1> DEFINE dead(up) == work[w].drop \cup
                         {<<"T0", e[2]>> : e \in {x \in Shown(up) : x[1] = "D0"}}
           cand(up) == {t \in (work[w].seen \cup (Shown(up) \cap Tokens)) \ dead(up) :
                          Judge(t, rec[Device(w)].orig)}
           live(up, blind) == IF blind THEN {} ELSE {t \in cand(up) : Unspent(Held(t))}
           one(up, blind) == IF Cardinality(live(up, blind)) = 1 THEN live(up, blind) ELSE {}
           drop(up, blind) == dead(up) \cup (IF blind THEN {} ELSE cand(up) \ live(up, blind))
<1>0. /\ UNCHANGED <<rec, consumer, inflight, relayed>>
      /\ work[w].op = "sync" /\ work[w].pc \in {"read", "lost"}
  BY DEF SyncRead, Same, Doing
<1>1. PICK up \in SUBSET WalletRelays, blind \in BOOLEAN :
        SyncSelect(w, one(up, blind), drop(up, blind))
  BY Zenon DEF SyncRead
<1>2. work[w].seen \subseteq Tokens /\ None \notin work[w].drop
  BY <1>0, ZapKnown DEF Informed, Syncs
<1>3. None \notin Tokens
  BY ZapAssumption DEF Tokens
<1>4. None \notin dead(up)
  BY <1>2, <1>3, DeadTokens
<1>5. \A t \in cand(up) : t \in Tokens /\ Issued(Held(t))
  BY <1>2 DEF Judge
<1>6. None \notin drop(up, blind)
  BY <1>3, <1>4, <1>5
<1>7. \A t \in one(up, blind) : t \in Tokens /\ Issued(Held(t))
  BY <1>5
<1> HIDE DEF one, drop
<1> QED BY <1>0, <1>1, <1>6, <1>7, SyncSelectZap

-----------------------------------------------------------------------------
(* Steps that write a record. *)

LEMMA WriteRecord ==
  ASSUME ZapTypeOK, NEW d \in Devices, NEW r, rec' = [rec EXCEPT ![d] = r],
         IsRedemption(r), Evolved(rec[d], r)
  PROVE  Written(d) /\ rec'[d] = r
<1>1. /\ rec' = [e \in Devices |-> rec'[e]] /\ rec'[d] = r
      /\ \A e \in Devices : e # d => rec'[e] = rec[e]
  BY DEF ZapTypeOK
<1> QED BY <1>1 DEF Written

\* Nothing is published with it.
LEMMA SentNothing ==
  ASSUME ZapTypeOK, UNCHANGED relayed
  PROVE  Published
BY DEF ZapTypeOK, Published

\* A worker that wrote its device's record as it should.
LEMMA RecordZap ==
  ASSUME ZapInv, NEW w \in Workers, NEW r, rec' = [rec EXCEPT ![Device(w)] = r],
         IsRedemption(r), Evolved(rec[Device(w)], r),
         Redemption(r), Balanced(consumer, r), Judged(consumer, Device(w), r),
         r.credit = "local" => consumer[Zap] = Device(w) /\ r.orig = <<"T0", Device(w)>>,
         r.credit = "relay" => rec[r.orig[2]].credit = "local",
         WorkMoved(w), Informed(rec', consumer, Device(w), work'[w]),
         UNCHANGED <<consumer, inflight, relayed>>
  PROVE  ZapInv'
<1> DEFINE d == Device(w)
<1>0. d \in Devices /\ ZapTypeOK
  BY ZapKnown DEF ZapInv
<1>1. Written(d) /\ rec'[d] = r
  BY <1>0, WriteRecord
<1>2. \A e \in Devices : Evolved(rec[e], rec'[e])
  BY <1>0, <1>1, AllEvolve
<1>3. ASSUME r.credit = "relay" PROVE rec'[r.orig[2]].credit = "local"
  <2>1. r.orig[2] \in Devices
    BY <1>3, TokenFacts DEF Redemption, Credited
  <2> QED BY <1>2, <1>3, <2>1 DEF Evolved, Credited
<1>4. Rooted(rec', consumer, d)
  BY <1>1, <1>3 DEF Rooted
<1>5. DeviceOK(rec', consumer, d)
  BY <1>1, <1>4 DEF DeviceOK
<1>6. Published
  BY <1>0, SentNothing
<1> QED BY <1>1, <1>5, <1>6, WriteZap
\* A record that the transaction leaves as it is.
LEMMA KeepZap ==
  ASSUME ZapInv, NEW w \in Workers, rec' = [rec EXCEPT ![Device(w)] = rec[Device(w)]],
         WorkMoved(w), Informed(rec, consumer, Device(w), work'[w]),
         UNCHANGED <<consumer, inflight, relayed>>
  PROVE  ZapInv'
<1>1. rec' = rec
  BY DEF ZapInv, ZapTypeOK
<1> QED BY <1>1, QuietZap, FoundSame

LEMMA ReserveRecordZap ==
  ASSUME ZapInv, NEW w \in Workers, ReserveRecord(w)
  PROVE  ZapInv'
<1> DEFINE d == Device(w)  r == Reserve(rec[d])
<1>0. /\ rec' = [rec EXCEPT ![d] = r] /\ work[w].op = "receive"
      /\ IF r.credit = "open" THEN Continue(w, "restore") ELSE ToOutbox(w)
      /\ UNCHANGED <<consumer, inflight, relayed>>
  BY DEF ReserveRecord, Doing, Same
<1>1. DeviceOK(rec, consumer, d) /\ IsRedemption(rec[d]) /\ d \in Devices
  BY ZapKnown
<1>2. CASE rec[d].credit = "absent"
  <2>0. r = [rec[d] EXCEPT !.credit = "open"]
    BY <1>2 DEF Reserve
  <2>1. /\ IsRedemption(r) /\ r.credit = "open" /\ r.orig = rec[d].orig
        /\ r.token = rec[d].token /\ r.proofs = rec[d].proofs
        /\ r.retired = rec[d].retired /\ r.spend = rec[d].spend
    BY <1>1, <2>0 DEF IsRedemption
  <2> HIDE DEF r
  <2>2. Evolved(rec[d], r)
    BY <1>2, <2>1 DEF Evolved, Credited
  <2>3. Redemption(rec[d]) /\ Untouched(rec[d])
    BY <1>1, <1>2 DEF DeviceOK, Redemption, Credited
  <2>4. Redemption(r)
    BY <2>1, <2>3 DEF Redemption, Untouched, Credited
  <2>5. Balanced(consumer, r) /\ Judged(consumer, d, r)
    BY <2>1, <2>3 DEF Balanced, Judged, Untouched
  <2>6. WorkMoved(w) /\ work'[w].op = "receive" /\ work'[w].pc = "restore"
    BY <1>0, <2>1, ContinueStep DEF ZapInv
  <2>7. rec'[d] = r
    BY <1>0, <1>1 DEF ZapInv, ZapTypeOK
  <2>8. Informed(rec', consumer, d, work'[w])
    BY <2>1, <2>6, <2>7 DEF Informed, Receives
  <2> QED BY <1>0, <2>1, <2>2, <2>4, <2>5, <2>6, <2>8, RecordZap
<1>3. CASE rec[d].credit # "absent"
  <2>1. r = rec[d]
    BY <1>3 DEF Reserve
  <2> HIDE DEF r
  <2>2. CASE Continue(w, "restore")
    <3>1. WorkMoved(w) /\ work'[w].op = "receive" /\ work'[w].pc = "restore"
      BY <1>0, <2>2, ContinueStep DEF ZapInv
    <3>2. Informed(rec, consumer, d, work'[w])
      BY <1>3, <3>1 DEF Informed, Receives
    <3> QED BY <1>0, <2>1, <3>1, <3>2, KeepZap
  <2>3. CASE r.credit # "open" /\ ToOutbox(w)
    <3>1. WorkMoved(w) /\ work'[w].op = "receive" /\ work'[w].pc = "publish"
      BY <1>0, <2>3, ToOutboxStep DEF ZapInv
    <3>2. rec[d].credit \in Credited
      BY <1>1, <1>3, <2>1, <2>3 DEF DeviceOK, Redemption
    <3>3. Informed(rec, consumer, d, work'[w])
      BY <1>3, <3>1, <3>2 DEF Informed, Receives
    <3> QED BY <1>0, <2>1, <3>1, <3>3, KeepZap
  <2> QED BY <1>0, <2>2, <2>3
<1> QED BY <1>2, <1>3

\* The token of a record that is credited.
Take(r, t, origin) ==
    [r EXCEPT !.credit = origin, !.orig = t, !.token = t, !.proofs = {Held(t)}]

LEMMA ZapTaken ==
  ASSUME NEW r, IsRedemption(r), NEW s, NEW t, NEW origin, s = Take(r, t, origin)
  PROVE  /\ IsRedemption(s) /\ s.credit = origin /\ s.orig = t /\ s.token = t
         /\ s.proofs = {Held(t)} /\ s.retired = r.retired /\ s.spend = r.spend
BY DEF IsRedemption, Take

\* The credit of a first token that the mint issued, from the mint or from a peer.
LEMMA CreditZap ==
  ASSUME ZapInv, NEW w \in Workers, NEW t \in FirstTokens, NEW origin \in Credited,
         Made(consumer, Held(t)),
         origin = "local" => consumer[Zap] = Device(w) /\ t = <<"T0", Device(w)>>,
         origin = "relay" => rec[t[2]].credit = "local",
         rec' = [rec EXCEPT ![Device(w)] = Credit(rec[Device(w)], t, origin)],
         rec[Device(w)].credit # "absent", work[w].op = "receive", ToOutbox(w),
         UNCHANGED <<consumer, inflight, relayed>>
  PROVE  ZapInv'
<1> DEFINE d == Device(w)  r == Credit(rec[d], t, origin)
<1>1. DeviceOK(rec, consumer, d) /\ IsRedemption(rec[d]) /\ d \in Devices
  BY ZapKnown
<1>2. WorkMoved(w) /\ work'[w].op = "receive" /\ work'[w].pc = "publish"
  BY ToOutboxStep DEF ZapInv
<1>3. CASE rec[d].credit = "open"
  <2>0. r = Take(rec[d], t, origin)
    BY <1>3 DEF Credit, Take
  <2>1. /\ IsRedemption(r) /\ r.credit = origin /\ r.orig = t /\ r.token = t
        /\ r.proofs = {Held(t)} /\ r.retired = rec[d].retired /\ r.spend = rec[d].spend
    BY <1>1, <2>0, ZapTaken
  <2>2. rec'[d] = r /\ rec' = [rec EXCEPT ![d] = r]
    BY <1>1 DEF ZapInv, ZapTypeOK
  <2> HIDE DEF r
  <2>3. Evolved(rec[d], r)
    BY <1>3, <2>1 DEF Evolved, Credited
  <2>4. Redemption(rec[d]) /\ Untouched(rec[d])
    BY <1>1, <1>3 DEF DeviceOK, Redemption, Credited
  <2>5. Redemption(r)
    BY <2>1, <2>4, TokenFacts DEF Redemption, Untouched, Credited
  <2>6. Balanced(consumer, r) /\ Judged(consumer, d, r)
    BY <2>1, <2>4, HeldWhose, TokenFacts DEF Balanced, Judged, Untouched
  <2>7. Informed(rec', consumer, d, work'[w])
    BY <1>2, <2>1, <2>2 DEF Informed, Receives, Credited
  <2> QED BY <1>2, <2>1, <2>2, <2>3, <2>5, <2>6, <2>7, RecordZap
<1>4. CASE rec[d].credit # "open"
  <2>1. r = rec[d]
    BY <1>4 DEF Credit
  <2>2. rec[d].credit \in Credited
    BY <1>1, <1>4 DEF DeviceOK, Redemption
  <2>3. Informed(rec, consumer, d, work'[w])
    BY <1>2, <2>2 DEF Informed, Receives, Credited
  <2> QED BY <1>2, <2>1, <2>3, KeepZap
<1> QED BY <1>3, <1>4
LEMMA CreditLocalZap ==
  ASSUME ZapInv, NEW w \in Workers, CreditLocal(w)
  PROVE  ZapInv'
<1> DEFINE d == Device(w)  t == <<"T0", d>>
<1>1. d \in Devices /\ consumer[Zap] = d /\ rec[d].credit # "absent"
  BY ZapKnown DEF CreditLocal, Doing, Informed, Receives
<1>2. t \in FirstTokens /\ Held(t) = <<"out", d>> /\ Made(consumer, Held(t))
  BY <1>1 DEF FirstTokens, Held, Made
<1>3. /\ rec' = [rec EXCEPT ![d] = Credit(rec[d], t, "local")]
      /\ work[w].op = "receive" /\ ToOutbox(w) /\ UNCHANGED <<consumer, inflight, relayed>>
  BY DEF CreditLocal, Doing, Same
<1>4. "local" \in Credited
  BY DEF Credited
<1> QED BY <1>1, <1>2, <1>3, <1>4, CreditZap

LEMMA CreditRelayZap ==
  ASSUME ZapInv, NEW w \in Workers, CreditRelay(w)
  PROVE  ZapInv'
<1> DEFINE d == Device(w)
<1>1. PICK t \in work[w].choice : rec' = [rec EXCEPT ![d] = Credit(rec[d], t, "relay")]
  BY DEF CreditRelay
<1>2. /\ rec[d].credit # "absent"
      /\ t \in FirstTokens /\ rec[t[2]].credit = "local" /\ Made(consumer, Held(t))
  BY <1>1, ZapKnown DEF CreditRelay, Doing, Informed, Receives
<1>3. work[w].op = "receive" /\ ToOutbox(w) /\ UNCHANGED <<consumer, inflight, relayed>>
  BY DEF CreditRelay, Doing, Same
<1>4. "relay" \in Credited
  BY DEF Credited
<1> QED BY <1>1, <1>2, <1>3, <1>4, CreditZap

\* A spend is prepared once, and what it spends leaves the balance.
SpendPrepared(r) == [r EXCEPT !.spend = "prepared", !.proofs = {}]

LEMMA Preparing ==
  ASSUME NEW r, IsRedemption(r), NEW s, s = SpendPrepared(r)
  PROVE  /\ IsRedemption(s) /\ s.credit = r.credit /\ s.orig = r.orig /\ s.token = r.token
         /\ s.proofs = {} /\ s.retired = r.retired /\ s.spend = "prepared"
BY DEF IsRedemption, SpendPrepared

LEMMA SpendBeginZap ==
  ASSUME ZapInv, NEW w \in Workers, SpendBegin(w)
  PROVE  ZapInv'
<1> DEFINE d == Device(w)  r == PrepareSpend(rec[d])
           pc == IF rec[d].spend = "finished" THEN "publish" ELSE "restore"
<1>0. UNCHANGED <<consumer, inflight, relayed>> /\ work[w].op = "spend"
  BY DEF SpendBegin, Doing, Same
<1>1. DeviceOK(rec, consumer, d) /\ IsRedemption(rec[d]) /\ d \in Devices
  BY ZapKnown
<1>2. ASSUME NEW result, Return(w, result), UNCHANGED rec PROVE ZapInv'
  BY <1>0, <1>2, ReturnZap
<1>3. CASE /\ rec[d].credit \in Credited /\ rec' = [rec EXCEPT ![d] = r]
           /\ Continue(w, pc)
  <2>1. WorkMoved(w) /\ work'[w].op = "spend" /\ work'[w].pc \in {"publish", "restore"}
    BY <1>0, <1>3, ContinueStep DEF ZapInv
  <2>2. CASE rec[d].spend = "none"
    <3>0. r = SpendPrepared(rec[d])
      BY <2>2 DEF PrepareSpend, SpendPrepared
    <3>1. /\ IsRedemption(r) /\ r.credit = rec[d].credit /\ r.orig = rec[d].orig
          /\ r.token = rec[d].token /\ r.proofs = {}
          /\ r.retired = rec[d].retired /\ r.spend = "prepared"
      BY <1>1, <3>0, Preparing
    <3>2. rec'[d] = r
      BY <1>1, <1>3 DEF ZapInv, ZapTypeOK
    <3> HIDE DEF r
    <3>3. Evolved(rec[d], r)
      BY <3>1 DEF Evolved
    <3>4. Redemption(r)
      BY <1>1, <1>3, <3>1 DEF DeviceOK, Redemption
    <3>5. Balanced(consumer, r) /\ Judged(consumer, d, r)
      BY <3>1 DEF Balanced, Judged
    <3>6. /\ r.credit = "local" => consumer[Zap] = d /\ r.orig = <<"T0", d>>
          /\ r.credit = "relay" => rec[r.orig[2]].credit = "local"
      BY <1>1, <3>1 DEF DeviceOK, Rooted
    <3>7. Informed(rec', consumer, d, work'[w])
      BY <1>3, <2>1, <3>1, <3>2 DEF Informed, Spends
    <3> QED BY <1>0, <1>3, <2>1, <3>1, <3>3, <3>4, <3>5, <3>6, <3>7, RecordZap
  <2>3. CASE rec[d].spend # "none"
    <3>1. r = rec[d]
      BY <2>3 DEF PrepareSpend
    <3>2. Informed(rec, consumer, d, work'[w])
      BY <1>3, <2>1, <2>3 DEF Informed, Spends
    <3> QED BY <1>0, <1>3, <2>1, <3>1, <3>2, KeepZap
  <2> QED BY <2>2, <2>3
<1> QED BY <1>2, <1>3, Zenon DEF SpendBegin, Credited
\* What the wallet holds after a transaction of the journal.
HeldBy(tokens) == {Held(t) : t \in tokens}
Held1(tokens) == IF tokens = {} THEN None ELSE CHOOSE t \in tokens : TRUE
LEMMA SettingWallet ==
  ASSUME NEW r, IsRedemption(r), NEW tokens, NEW drop, NEW s, s = SetWallet(r, tokens, drop)
  PROVE  /\ IsRedemption(s) /\ s.credit = r.credit /\ s.orig = r.orig
         /\ s.token = Held1(tokens) /\ s.proofs = HeldBy(tokens)
         /\ s.retired = r.retired \cup drop /\ s.spend = r.spend
<1>1. ASSUME NEW token, NEW proofs, NEW retired,
             s = [r EXCEPT !.retired = retired, !.token = token, !.proofs = proofs]
      PROVE  /\ IsRedemption(s) /\ s.credit = r.credit /\ s.orig = r.orig
             /\ s.token = token /\ s.proofs = proofs
             /\ s.retired = retired /\ s.spend = r.spend
  BY <1>1 DEF IsRedemption
<1>2. s = [r EXCEPT !.retired = r.retired \cup drop, !.token = Held1(tokens),
                    !.proofs = HeldBy(tokens)]
  BY DEF SetWallet, Held1, HeldBy
<1> QED BY <1>1, <1>2

\* With its spend decided.
LEMMA Deciding ==
  ASSUME NEW r, IsRedemption(r), NEW how, NEW s, s = [r EXCEPT !.spend = how]
  PROVE  /\ IsRedemption(s) /\ s.credit = r.credit /\ s.orig = r.orig
         /\ s.token = r.token /\ s.proofs = r.proofs /\ s.retired = r.retired
         /\ s.spend = how
BY DEF IsRedemption
\* s is the record r with the wallet set to tokens: none of them is retired, the
\* mint issued them, and the outcome of the spend is the mint's.
WalletSet(taken, d, r, s, tokens, drop) ==
    /\ s.credit = r.credit /\ s.orig = r.orig /\ s.token = Held1(tokens)
    /\ s.proofs = HeldBy(tokens) /\ s.retired = r.retired \cup drop
    /\ \A t \in tokens : t \in Tokens /\ Made(taken, Held(t))
    /\ None \notin drop /\ tokens \cap (r.retired \cup drop) = {}
    /\ \/ s.spend = r.spend
       \/ s.spend = "finished" /\ r.orig \in drop /\ Paid(taken, d)
       \/ s.spend = "conflicted" /\ Gone(taken, Held(r.orig)) /\ ~ Paid(taken, d)
    /\ s.spend = "prepared" => tokens = {}

LEMMA WalletOK ==
  ASSUME NEW taken, NEW d, NEW r, NEW s, NEW tokens, NEW drop,
         Redemption(r), Balanced(taken, r), Judged(taken, d, r), r.credit \in Credited,
         WalletSet(taken, d, r, s, tokens, drop)
  PROVE  Redemption(s) /\ Balanced(taken, s) /\ Judged(taken, d, s) /\ Evolved(r, s)
<1> USE DEF WalletSet, HeldBy
<1>1. Redemption(s)
  <2>1. s.token \in Tokens \cup {None} /\ s.token \notin s.retired /\ None \notin s.retired
    BY DEF Held1, Redemption
  <2>2. /\ s.spend \in {"none", "prepared", "conflicted", "finished"}
        /\ r.orig \in FirstTokens
    BY DEF Redemption
  <2> QED BY <2>1, <2>2 DEF Redemption
<1>2. Balanced(taken, s)
  <2>0. \A t \in tokens : Held(t)[2] \in Devices
    BY HeldWhose
  <2>1. s.spend = "prepared" => s.proofs = {}
    OBVIOUS
  <2>2. s.spend = "finished" => s.orig \in s.retired
    BY DEF Balanced
  <2>3. ASSUME NEW t \in tokens, s.spend = "finished" PROVE Held(t) # Held(s.orig)
    <3>1. t # s.orig /\ t \in Tokens
      BY <2>2, <2>3
    <3>2. s.orig \in FirstTokens
      BY DEF Redemption
    <3> QED BY <3>1, <3>2, HeldOnce
  <2> QED BY <2>0, <2>1, <2>2, <2>3 DEF Balanced
<1>3. Judged(taken, d, s)
  BY DEF Judged
<1>4. Evolved(r, s)
  BY DEF Evolved
<1> QED BY <1>1, <1>2, <1>3, <1>4

LEMMA SpendCommitZap ==
  ASSUME ZapInv, NEW w \in Workers, SpendCommit(w)
  PROVE  ZapInv'
<1> DEFINE d == Device(w)  r == rec[d]  t == <<"T1", d>>
           set == SetWallet(r, {t}, {r.orig})  s == FinishSpend(r, d)
<1>0. UNCHANGED <<consumer, inflight, relayed>> /\ work[w].op = "spend" /\ work[w].pc = "commit"
  BY DEF SpendCommit, Doing, Same
<1>1. DeviceOK(rec, consumer, d) /\ IsRedemption(r) /\ d \in Devices
  BY ZapKnown
<1>2. r.credit \in Credited /\ r.spend # "none" /\ Paid(consumer, d)
  BY <1>0, ZapKnown DEF Informed, Spends
<1>3. CASE Return(w, "error") /\ UNCHANGED rec
  BY <1>0, <1>3, ReturnZap
<1>4. CASE /\ r.spend # "conflicted" /\ ~ (r.spend = "prepared" /\ t \in r.retired)
           /\ rec' = [rec EXCEPT ![d] = s] /\ Continue(w, "publish")
  <2>1. WorkMoved(w) /\ work'[w].op = "spend" /\ work'[w].pc = "publish"
    BY <1>0, <1>4, ContinueStep DEF ZapInv
  <2>2. CASE r.spend = "finished"
    <3>1. s = r
      BY <2>2 DEF FinishSpend
    <3>2. Informed(rec, consumer, d, work'[w])
      BY <1>2, <2>1 DEF Informed, Spends
    <3> QED BY <1>0, <1>4, <2>1, <3>1, <3>2, KeepZap
  <2>3. CASE r.spend # "finished"
    <3>0. s = [set EXCEPT !.spend = "finished"]
      BY <2>3 DEF FinishSpend
    <3>a. /\ IsRedemption(set) /\ set.credit = r.credit /\ set.orig = r.orig
          /\ set.token = Held1({t}) /\ set.proofs = HeldBy({t})
          /\ set.retired = r.retired \cup {r.orig}
      BY <1>1, SettingWallet
    <3>b. rec'[d] = s
      BY <1>1, <1>4 DEF ZapInv, ZapTypeOK
    <3> HIDE DEF set, s
    <3>1. /\ IsRedemption(s) /\ s.credit = r.credit /\ s.orig = r.orig
          /\ s.token = Held1({t}) /\ s.proofs = HeldBy({t})
          /\ s.retired = r.retired \cup {r.orig} /\ s.spend = "finished"
      BY <3>0, <3>a, Deciding
    <3>2. r.spend = "prepared" /\ t \notin r.retired
      BY <1>1, <1>2, <1>4, <2>3 DEF DeviceOK, Redemption
    <3>3. r.orig \in FirstTokens /\ None # r.orig /\ t # r.orig
      <4>1. r.orig \in FirstTokens
        BY <1>1, <1>2 DEF DeviceOK, Redemption
      <4> QED BY <4>1, TokenFacts
    <3>4. t \in Tokens /\ Made(consumer, Held(t))
      BY <1>1, <1>2 DEF Tokens, Made, Held
    <3>5. Redemption(s) /\ Balanced(consumer, s) /\ Judged(consumer, d, s) /\ Evolved(r, s)
      <4>1. {t} \cap (r.retired \cup {r.orig}) = {} /\ None \notin {r.orig}
        BY <3>2, <3>3
      <4>2. \A u \in {t} : u \in Tokens /\ Made(consumer, Held(u))
        BY <3>4
      <4> HIDE DEF t
      <4>3. WalletSet(consumer, d, r, s, {t}, {r.orig})
        BY <1>2, <3>1, <4>1, <4>2 DEF WalletSet
      <4> QED BY <1>1, <1>2, <4>3, WalletOK DEF DeviceOK
    <3>6. /\ s.credit = "local" => consumer[Zap] = d /\ s.orig = <<"T0", d>>
          /\ s.credit = "relay" => rec[s.orig[2]].credit = "local"
      BY <1>1, <3>1 DEF DeviceOK, Rooted
    <3>7. Informed(rec', consumer, d, work'[w])
      BY <1>2, <2>1, <3>1, <3>b DEF Informed, Spends
    <3> QED BY <1>0, <1>4, <2>1, <3>1, <3>5, <3>6, <3>7, RecordZap
  <2> QED BY <2>2, <2>3
<1> QED BY <1>3, <1>4, Zenon DEF SpendCommit
LEMMA SyncWriteZap ==
  ASSUME ZapInv, NEW w \in Workers, SyncWrite(w)
  PROVE  ZapInv'
<1> DEFINE d == Device(w)  r == rec[d]  c == work[w].choice  drop == work[w].drop
           s == IF work[w].pc = "write" THEN Wallet(r, c, drop) ELSE ResolveConflict(r, c, drop)
           refused == c # {} /\ (PendingSpend(r) <=> work[w].pc = "write")
           set == SetWallet(r, c, drop)
<1>0. /\ UNCHANGED <<consumer, inflight, relayed>>
      /\ work[w].op = "sync" /\ work[w].pc \in {"write", "resolve"}
  BY DEF SyncWrite, Doing, Same
<1>1. DeviceOK(rec, consumer, d) /\ IsRedemption(r) /\ d \in Devices
  BY ZapKnown
<1>2. /\ r.credit \in Credited /\ None \notin drop
      /\ \A t \in c : t \in Tokens /\ Made(consumer, Held(t))
      /\ work[w].pc = "resolve" => Gone(consumer, Held(r.orig)) /\ ~ Paid(consumer, d)
  BY <1>0, ZapKnown DEF Informed, Syncs
<1>3. ASSUME NEW result, Return(w, result)
      PROVE  WorkMoved(w) /\ \A recs : Informed(recs, consumer, d, work'[w])
  BY <1>3, ReturnStep DEF ZapInv
<1>4. ASSUME NEW result, Return(w, result), UNCHANGED rec PROVE ZapInv'
  BY <1>0, <1>4, ReturnZap
<1>5. ASSUME rec' = [rec EXCEPT ![d] = s], refused \/ WalletAllowed(r, c, drop),
             NEW result, Return(w, result)
      PROVE  ZapInv'
  <2>1. CASE s = r
    <3> HIDE DEF s
    <3> QED BY <1>0, <1>3, <1>5, <2>1, KeepZap
  <2>2. CASE s # r
    <3>1. /\ c \cap (r.retired \cup drop) = {}
          /\ \/ s = set /\ ~ (PendingSpend(r) /\ c # {})
             \/ /\ s = [set EXCEPT !.spend = "conflicted"]
                /\ Gone(consumer, Held(r.orig)) /\ ~ Paid(consumer, d)
      <4>1. CASE work[w].pc = "write"
        BY <1>5, <2>2, <4>1 DEF Wallet, WalletAllowed
      <4>2. CASE work[w].pc = "resolve"
        BY <1>2, <1>5, <2>2, <4>2 DEF ResolveConflict, WalletAllowed
      <4> QED BY <1>0, <4>1, <4>2
    <3> HIDE DEF s
    <3>2. /\ IsRedemption(set) /\ set.credit = r.credit /\ set.orig = r.orig
          /\ set.token = Held1(c) /\ set.proofs = HeldBy(c)
          /\ set.retired = r.retired \cup drop /\ set.spend = r.spend
      BY <1>1, SettingWallet
    <3> HIDE DEF set
    <3>3. /\ IsRedemption(s) /\ s.credit = r.credit /\ s.orig = r.orig
          /\ s.token = Held1(c) /\ s.proofs = HeldBy(c)
          /\ s.retired = r.retired \cup drop
          /\ \/ s.spend = r.spend /\ ~ (PendingSpend(r) /\ c # {})
             \/ s.spend = "conflicted" /\ Gone(consumer, Held(r.orig)) /\ ~ Paid(consumer, d)
      <4>1. CASE s = set /\ ~ (PendingSpend(r) /\ c # {})
        BY <3>2, <4>1
      <4>2. CASE /\ s = [set EXCEPT !.spend = "conflicted"]
                 /\ Gone(consumer, Held(r.orig)) /\ ~ Paid(consumer, d)
        BY <3>2, <4>2, Deciding
      <4> QED BY <3>1, <4>1, <4>2
    <3>4. WalletSet(consumer, d, r, s, c, drop)
      BY <1>2, <3>1, <3>3 DEF WalletSet, PendingSpend
    <3>5. Redemption(s) /\ Balanced(consumer, s) /\ Judged(consumer, d, s) /\ Evolved(r, s)
      BY <1>1, <1>2, <3>4, WalletOK DEF DeviceOK
    <3>6. /\ s.credit = "local" => consumer[Zap] = d /\ s.orig = <<"T0", d>>
          /\ s.credit = "relay" => rec[s.orig[2]].credit = "local"
      BY <1>1, <3>3 DEF DeviceOK, Rooted
    <3>7. WorkMoved(w) /\ Informed(rec', consumer, d, work'[w])
      BY <1>3, <1>5
    <3> QED BY <1>0, <1>5, <3>3, <3>5, <3>6, <3>7, RecordZap
  <2> QED BY <2>1, <2>2
<1> QED BY <1>4, <1>5, Zenon DEF SyncWrite

\* A record with another relay list or choice of relays.
LEMMA Noting ==
  ASSUME ZapTypeOK, NEW d \in Devices, NEW list, NEW history,
         \/ rec' = [rec EXCEPT ![d].list = list]
         \/ rec' = [rec EXCEPT ![d].history = history]
  PROVE  Aside(d)
<1>0. IsRedemption(rec[d])
  BY DEF ZapTypeOK
<1>1. rec' = [e \in Devices |-> rec'[e]] /\ \A e \in Devices : e # d => rec'[e] = rec[e]
  BY DEF ZapTypeOK
<1>2. ASSUME NEW s, s = [rec[d] EXCEPT !.list = list] \/ s = [rec[d] EXCEPT !.history = history]
      PROVE  /\ IsRedemption(s) /\ s.credit = rec[d].credit /\ s.orig = rec[d].orig
             /\ s.token = rec[d].token /\ s.proofs = rec[d].proofs
             /\ s.retired = rec[d].retired /\ s.spend = rec[d].spend
  BY <1>0, <1>2 DEF IsRedemption
<1>3. \/ rec'[d] = [rec[d] EXCEPT !.list = list]
      \/ rec'[d] = [rec[d] EXCEPT !.history = history]
  BY DEF ZapTypeOK
<1> QED BY <1>1, <1>2, <1>3 DEF Aside
LEMMA DiscoverZap ==
  ASSUME ZapInv, NEW w \in Workers, Discover(w)
  PROVE  ZapInv'
<1> DEFINE d == Device(w)
<1>0. UNCHANGED <<consumer, inflight, relayed>> /\ work[w].op = "receive"
      /\ rec[d].credit \in Credited
  BY ZapKnown DEF Discover, Doing, Same, Informed, Receives
<1>1. PICK list : rec' = [rec EXCEPT ![d].list = list]
  BY Zenon DEF Discover
<1>2. Aside(d) /\ Published
  BY <1>0, <1>1, Noting, SentNothing, ZapKnown DEF ZapInv
<1>3. CASE Return(w, "publication-pending")
  BY <1>0, <1>2, <1>3, ReturnStep, AsideZap DEF ZapInv
<1>4. ASSUME NEW reads, work' = [work EXCEPT ![w].pc = "choose", ![w].choice = reads]
      PROVE  ZapInv'
  <2>1. work'[w] = [work[w] EXCEPT !.pc = "choose", !.choice = reads]
    BY <1>4 DEF ZapInv, ZapTypeOK
  <2>2. /\ work' = [v \in Workers |-> work'[v]]
        /\ \A v \in Workers : v # w => work'[v] = work[v]
    BY <1>4 DEF ZapInv, ZapTypeOK
  <2>3. IsWork(work'[w]) /\ work'[w].op = work[w].op /\ work'[w].pc = "choose"
    BY <2>1, ZapKnown DEF IsWork
  <2>4. Informed(rec, consumer, d, work'[w])
    BY <1>0, <2>3 DEF Informed, Receives, Credited
  <2>5. WorkMoved(w)
    BY <2>2, <2>3 DEF WorkMoved
  <2> QED BY <1>0, <1>2, <2>4, <2>5, AsideZap
<1> QED BY <1>3, <1>4, Zenon DEF Discover

LEMMA HistoryRelaysZap ==
  ASSUME ZapInv, NEW w \in Workers, HistoryRelays(w)
  PROVE  ZapInv'
<1> DEFINE d == Device(w)
<1>0. UNCHANGED <<consumer, inflight, relayed>> /\ work[w].op = "receive"
      /\ rec[d].credit \in Credited /\ Continue(w, "route")
  BY ZapKnown DEF HistoryRelays, Doing, Same, Informed, Receives
<1>1. PICK history : rec' = [rec EXCEPT ![d].history = history]
  BY Zenon DEF HistoryRelays
<1>2. Aside(d) /\ Published
  BY <1>0, <1>1, Noting, SentNothing, ZapKnown DEF ZapInv
<1>3. WorkMoved(w) /\ work'[w].op = "receive" /\ work'[w].pc = "route"
  BY <1>0, ContinueStep DEF ZapInv
<1>4. Informed(rec, consumer, d, work'[w])
  BY <1>0, <1>3 DEF Informed, Receives, Credited
<1> QED BY <1>0, <1>2, <1>3, <1>4, AsideZap

\* The events of the outbox are backed by the record.
LEMMA OutboxBacked ==
  ASSUME ZapInv, NEW w \in Workers, work[w].op \in {"receive", "spend"},
         work[w].pc \in {"publish", "route"}
  PROVE  \A i \in DOMAIN Outbox(w) : Backed(rec, Outbox(w)[i])
<1> DEFINE d == Device(w)  o == rec[d].orig
<1>1. rec[d].credit \in Credited
  BY ZapKnown DEF Informed, Receives, Spends
<1>2. o \in FirstTokens
  BY <1>1, ZapKnown DEF DeviceOK, Redemption
<1>3. o = <<"T0", o[2]>> /\ o[1] = "T0" /\ o[2] \in Devices
  BY <1>2, TokenFacts
<1>4. rec[o[2]].credit = "local"
  <2>1. rec[d].credit = "local" => o = <<"T0", d>>
    BY ZapKnown DEF DeviceOK, Rooted
  <2>2. rec[d].credit = "relay" => rec[o[2]].credit = "local"
    BY ZapKnown DEF DeviceOK, Rooted
  <2> QED BY <1>1, <1>3, <2>1, <2>2 DEF Credited
<1>5. Backed(rec, o)
  BY <1>3, <1>4 DEF Backed
<1>6. \A x : Backed(rec, <<"H0", x>>) /\ Backed(rec, <<"T1", x>>) /\ Backed(rec, <<"H1", x>>)
  BY DEF Backed
<1>7. Backed(rec, <<"D0", o[2]>>)
  BY <1>3 DEF Backed
<1> DEFINE h0 == <<"H0", o[2]>>  t1 == <<"T1", d>>  d0 == <<"D0", o[2]>>  h1 == <<"H1", d>>
<1>8. Outbox(w) = <<h0>> \/ Outbox(w) = <<o, h0>> \/ Outbox(w) = <<t1, d0, h1>>
  BY DEF Outbox
<1>9. Backed(rec, h0) /\ Backed(rec, t1) /\ Backed(rec, d0) /\ Backed(rec, h1)
  BY <1>6, <1>7
<1> HIDE DEF o, d, h0, t1, d0, h1
<1>10. ASSUME NEW i \in DOMAIN Outbox(w) PROVE Outbox(w)[i] \in {o, h0, t1, d0, h1}
  BY <1>8, <1>10
<1> QED BY <1>5, <1>9, <1>10
\* Events go to a relay, and what it acknowledges is noted.
LEMMA PublishStep ==
  ASSUME ZapInv, NEW w \in Workers, work[w].op \in {"receive", "spend"},
         work[w].pc \in {"publish", "route"},
         NEW r, NEW stored \in SUBSET DOMAIN Outbox(w), NEW heard,
         SendEvents(w, r, stored, heard)
  PROVE  Aside(Device(w)) /\ Published
<1> DEFINE d == Device(w)  new == {Outbox(w)[i] : i \in stored}
           acks == rec[d].acks \cup {<<r, Outbox(w)[i]>> : i \in heard}
<1>0. d \in Devices /\ ZapTypeOK /\ IsRedemption(rec[d])
  BY ZapKnown DEF ZapInv
<1>1. /\ relayed' = [relayed EXCEPT ![r] = relayed[r] \cup new]
      /\ rec' = [rec EXCEPT ![d].acks = acks]
  BY DEF SendEvents
<1>2. \A e \in new : Backed(rec, e)
  BY OutboxBacked
<1> HIDE DEF new, acks
<1>3. Published
  BY <1>0, <1>1, <1>2 DEF ZapTypeOK, Published
<1>4. rec' = [e \in Devices |-> rec'[e]] /\ \A e \in Devices : e # d => rec'[e] = rec[e]
  BY <1>0, <1>1 DEF ZapTypeOK
<1>5. rec'[d] = [rec[d] EXCEPT !.acks = acks]
  BY <1>0, <1>1 DEF ZapTypeOK
<1>6. ASSUME NEW s, s = [rec[d] EXCEPT !.acks = acks]
      PROVE  /\ IsRedemption(s) /\ s.credit = rec[d].credit /\ s.orig = rec[d].orig
             /\ s.token = rec[d].token /\ s.proofs = rec[d].proofs
             /\ s.retired = rec[d].retired /\ s.spend = rec[d].spend
  BY <1>0, <1>6 DEF IsRedemption
<1>7. Aside(d)
  BY <1>4, <1>5, <1>6 DEF Aside
<1> QED BY <1>3, <1>7

\* The worker that publishes stays, or skips the relay from then on.
LEMMA SkipStep ==
  ASSUME ZapInv, NEW w \in Workers, NEW skip,
         work' = work \/ work' = [work EXCEPT ![w].skip = skip]
  PROVE  WorkMoved(w) /\ Informed(rec, consumer, Device(w), work'[w])
<1>0. IsWork(work[w]) /\ Informed(rec, consumer, Device(w), work[w])
  BY ZapKnown
<1>1. CASE work' = work
  BY <1>0, <1>1 DEF WorkMoved, ZapInv, ZapTypeOK
<1>2. CASE work' = [work EXCEPT ![w].skip = skip]
  <2>1. work'[w] = [work[w] EXCEPT !.skip = skip]
    BY <1>2 DEF ZapInv, ZapTypeOK
  <2>2. /\ work' = [v \in Workers |-> work'[v]]
        /\ \A v \in Workers : v # w => work'[v] = work[v]
    BY <1>2 DEF ZapInv, ZapTypeOK
  <2>3. /\ IsWork(work'[w]) /\ work'[w].op = work[w].op /\ work'[w].pc = work[w].pc
        /\ work'[w].seen = work[w].seen /\ work'[w].choice = work[w].choice
        /\ work'[w].drop = work[w].drop
    BY <1>0, <2>1 DEF IsWork
  <2>4. Informed(rec, consumer, Device(w), work'[w])
    BY <1>0, <2>3 DEF Informed, Receives, Spends, Syncs
  <2> QED BY <2>2, <2>3, <2>4 DEF WorkMoved
<1> QED BY <1>1, <1>2

LEMMA PublishOutboxZap ==
  ASSUME ZapInv, NEW w \in Workers, PublishOutbox(w)
  PROVE  ZapInv'
<1> DEFINE d == Device(w)  left(r) == Unacked(w, r)
<1>0. /\ UNCHANGED <<consumer, inflight>>
      /\ work[w].op \in {"receive", "spend"} /\ work[w].pc \in {"publish", "route"}
  BY DEF PublishOutbox
<1>1. ASSUME NEW r, NEW stored \in SUBSET DOMAIN Outbox(w), NEW heard,
             SendEvents(w, r, stored, heard), WorkMoved(w),
             Informed(rec, consumer, d, work'[w])
      PROVE  ZapInv'
  <2>1. Aside(d) /\ Published
    BY <1>0, <1>1, PublishStep
  <2> QED BY <1>0, <1>1, <2>1, AsideZap
<1>2. CASE /\ UNCHANGED <<rec, relayed>>
           /\ IF work[w].pc = "publish" /\ Routed(w)
              THEN Continue(w, IF work[w].routes = None THEN "discover" ELSE "route")
              ELSE Return(w, IF work[w].skip = {} THEN "complete" ELSE "publication-pending")
  <2>1. ASSUME NEW result, Return(w, result) PROVE ZapInv'
    BY <1>0, <1>2, <2>1, ReturnZap
  <2>2. ASSUME NEW pc \in {"discover", "route"}, Continue(w, pc), Routed(w) PROVE ZapInv'
    <3>1. WorkMoved(w) /\ work'[w].op = work[w].op /\ work'[w].pc = pc
      BY <2>2, ContinueStep DEF ZapInv
    <3>2. work[w].op = "receive" /\ rec[d].credit \in Credited
      BY <1>0, <2>2, ZapKnown DEF Routed, Informed, Receives
    <3>3. Informed(rec, consumer, d, work'[w])
      BY <2>2, <3>1, <3>2 DEF Informed, Receives, Credited
    <3> QED BY <1>0, <1>2, <3>1, <3>3, QuietZap, FoundSame
  <2> QED BY <1>2, <2>1, <2>2
<1>3. CASE \E r : SendEvents(w, r, left(r), left(r)) /\ UNCHANGED work
  <2>1. PICK r : SendEvents(w, r, left(r), left(r)) /\ UNCHANGED work
    BY <1>3
  <2>2. left(r) \in SUBSET DOMAIN Outbox(w)
    BY DEF Unacked
  <2> HIDE DEF left
  <2> QED BY <1>1, <2>1, <2>2, SkipStep
<1>4. CASE \E r : \E lost \in SUBSET left(r) \ {{}} : \E stored \in SUBSET lost :
             /\ SendEvents(w, r, (left(r) \ lost) \cup stored, left(r) \ lost)
             /\ work' = [work EXCEPT ![w].skip = @ \cup {r}]
  <2>0. PICK r : \E lost \in SUBSET left(r) \ {{}} : \E stored \in SUBSET lost :
             /\ SendEvents(w, r, (left(r) \ lost) \cup stored, left(r) \ lost)
             /\ work' = [work EXCEPT ![w].skip = @ \cup {r}]
    BY <1>4
  <2>a. PICK lost \in SUBSET left(r) \ {{}} : \E stored \in SUBSET lost :
             /\ SendEvents(w, r, (left(r) \ lost) \cup stored, left(r) \ lost)
             /\ work' = [work EXCEPT ![w].skip = @ \cup {r}]
    BY <2>0
  <2>1. PICK stored \in SUBSET lost :
             /\ SendEvents(w, r, (left(r) \ lost) \cup stored, left(r) \ lost)
             /\ work' = [work EXCEPT ![w].skip = work[w].skip \cup {r}]
    BY <2>a
  <2>2. (left(r) \ lost) \cup stored \in SUBSET DOMAIN Outbox(w)
    BY DEF Unacked
  <2> HIDE DEF left
  <2>3. WorkMoved(w) /\ Informed(rec, consumer, Device(w), work'[w])
    BY <2>1, SkipStep
  <2> QED BY <1>1, <2>1, <2>2, <2>3
<1>5. CASE /\ \E r : \E n \in left(r), stored \in BOOLEAN :
                LET before == {i \in left(r) : i < n}
                IN  SendEvents(w, r, before \cup (IF stored THEN {n} ELSE {}), before)
           /\ Return(w, "publication-pending")
  <2> DEFINE before(r, n) == {i \in left(r) : i < n}
  <2>1. PICK r : \E n \in left(r), stored \in BOOLEAN :
                   SendEvents(w, r, before(r, n) \cup (IF stored THEN {n} ELSE {}), before(r, n))
    BY <1>5
  <2>2. PICK n \in left(r), stored \in BOOLEAN :
                   SendEvents(w, r, before(r, n) \cup (IF stored THEN {n} ELSE {}), before(r, n))
    BY <2>1
  <2>3. before(r, n) \cup (IF stored THEN {n} ELSE {}) \in SUBSET DOMAIN Outbox(w)
    BY DEF Unacked
  <2>4. WorkMoved(w) /\ Informed(rec, consumer, d, work'[w])
    BY <1>5, ReturnStep DEF ZapInv
  <2> HIDE DEF before
  <2> QED BY <1>1, <2>2, <2>3, <2>4
<1> QED BY <1>2, <1>3, <1>4, <1>5, Zenon DEF PublishOutbox
-----------------------------------------------------------------------------
(* The mint.  It swaps a proof once, for the device whose request it was, so  *)
(* what it has done stays done; and a spend found to be lost stays lost,      *)
(* because the only input of its plan is gone.                                *)

Swapped(taken, more, p, d) ==
    /\ more = [taken EXCEPT ![p] = d] /\ ~ Gone(taken, p)
    /\ taken \in [Inputs -> Devices \cup {None}] /\ p \in Inputs /\ d \in Devices

LEMMA MintGrows ==
  ASSUME NEW taken, NEW more, NEW p, NEW d, Swapped(taken, more, p, d)
  PROVE  /\ more \in [Inputs -> Devices \cup {None}] /\ more[p] = d
         /\ \A q \in Inputs : Gone(taken, q) => more[q] = taken[q]
         /\ \A q \in Inputs : Gone(taken, q) => Gone(more, q)
         /\ \A q \in Inputs : q # p => more[q] = taken[q]
         /\ \A e \in Devices : Paid(taken, e) => Paid(more, e)
         /\ \A e \in Devices : taken[Zap] = e => more[Zap] = e
<1>1. None \notin Devices
  BY ZapAssumption
<1>2. more \in [Inputs -> Devices \cup {None}] /\ more[p] = d
      /\ \A q \in Inputs : q # p => more[q] = taken[q]
  BY DEF Swapped
<1>3. \A q \in Inputs : Gone(taken, q) => more[q] = taken[q]
  BY <1>2 DEF Swapped
<1>4. \A q \in Inputs : Gone(taken, q) => Gone(more, q)
  BY <1>3 DEF Gone
<1>5. Zap \in Inputs /\ \A x \in Devices : <<"out", x>> \in Inputs
  BY DEF Inputs
<1>6. \A e \in Devices : Paid(taken, e) => Paid(more, e)
  BY <1>1, <1>3, <1>5 DEF Paid, Gone
<1>7. \A e \in Devices : taken[Zap] = e => more[Zap] = e
  BY <1>1, <1>3, <1>5 DEF Gone
<1> QED BY <1>2, <1>3, <1>4, <1>6, <1>7

\* The proofs of tokens exist or do not; those that do stay.
LEMMA StillMade ==
  ASSUME NEW taken, NEW more, NEW p, NEW d, Swapped(taken, more, p, d),
         NEW q, q[2] \in Devices, Made(taken, q)
  PROVE  Made(more, q)
BY MintGrows DEF Made

\* A device whose plan cannot be executed any more.
LEMMA StillLost ==
  ASSUME NEW recs, NEW taken, NEW more, NEW p, NEW d, Swapped(taken, more, p, d),
         Owns(recs, p, d), NEW e \in Devices,
         Gone(taken, Held(recs[e].orig)), ~ Paid(taken, e)
  PROVE  ~ Paid(more, e)
<1> SUFFICES ASSUME NEW x \in Devices, more[<<"out", x>>] = e
             PROVE  FALSE
  BY DEF Paid
<1>1. <<"out", x>> \in Inputs /\ <<"out", x>> # Zap
  BY DEF Inputs, Zap
<1>2. taken[<<"out", x>>] # e
  BY DEF Paid
<1>3. p = <<"out", x>> /\ d = e
  BY <1>1, <1>2, MintGrows
<1>4. p = Held(recs[e].orig)
  BY <1>1, <1>3 DEF Owns
<1> QED BY <1>4 DEF Swapped
LEMMA MintInformed ==
  ASSUME NEW recs, NEW taken, NEW more, NEW p, NEW d, Swapped(taken, more, p, d),
         Owns(recs, p, d), NEW e \in Devices, NEW x, Informed(recs, taken, e, x),
         recs[e].credit \in Credited => recs[e].orig \in FirstTokens
  PROVE  Informed(recs, more, e, x)
<1>1. /\ \A q \in Inputs : Gone(taken, q) => Gone(more, q)
      /\ Paid(taken, e) => Paid(more, e)
      /\ taken[Zap] = e => more[Zap] = e
  BY MintGrows
<1>2. ASSUME NEW t \in Tokens, Made(taken, Held(t)) PROVE Made(more, Held(t))
  BY <1>2, StillMade, HeldWhose
<1>3. ASSUME Receives(recs, taken, e, x) PROVE Receives(recs, more, e, x)
  BY <1>1, <1>2, <1>3, TokenFacts DEF Receives
<1>4. ASSUME Spends(recs, taken, e, x) PROVE Spends(recs, more, e, x)
  BY <1>1, <1>4 DEF Spends
<1>5. ASSUME Syncs(recs, taken, e, x) PROVE Syncs(recs, more, e, x)
  <2>1. CASE x.pc = "begin"
    BY <2>1 DEF Syncs
  <2>2. CASE x.pc # "begin"
    <3>1. Held(recs[e].orig) \in Inputs
      BY <1>5, <2>2, TokenFacts DEF Syncs
    <3>2. Gone(taken, Held(recs[e].orig)) => Gone(more, Held(recs[e].orig))
      BY <1>1, <3>1
    <3>3. Gone(taken, Held(recs[e].orig)) /\ ~ Paid(taken, e) => ~ Paid(more, e)
      BY StillLost
    <3> QED BY <1>2, <1>5, <3>2, <3>3 DEF Syncs
  <2> QED BY <2>1, <2>2
<1> QED BY <1>3, <1>4, <1>5 DEF Informed

LEMMA MintDevice ==
  ASSUME NEW recs, NEW taken, NEW more, NEW p, NEW d, Swapped(taken, more, p, d),
         Owns(recs, p, d), NEW e \in Devices, DeviceOK(recs, taken, e)
  PROVE  DeviceOK(recs, more, e)
<1> DEFINE r == recs[e]
<1>1. /\ \A q \in Inputs : Gone(taken, q) => Gone(more, q)
      /\ Paid(taken, e) => Paid(more, e)
      /\ taken[Zap] = e => more[Zap] = e
  BY MintGrows
<1>2. Balanced(more, r)
  <2>1. ASSUME NEW q \in r.proofs PROVE Made(more, q)
    BY StillMade DEF DeviceOK, Balanced
  <2> QED BY <2>1 DEF DeviceOK, Balanced
<1>3. Judged(more, e, r)
  <2>1. ASSUME r.spend = "conflicted"
        PROVE  Gone(more, Held(r.orig)) /\ ~ Paid(more, e)
    <3>1. r.orig \in FirstTokens
      BY <2>1 DEF DeviceOK, Redemption, Untouched
    <3>2. Held(r.orig) \in Inputs
      BY <3>1, TokenFacts
    <3>3. Gone(taken, Held(r.orig)) /\ ~ Paid(taken, e)
      BY <2>1 DEF DeviceOK, Judged
    <3> QED BY <1>1, <3>2, <3>3, StillLost
  <2> QED BY <1>1, <2>1 DEF DeviceOK, Judged
<1>4. Rooted(recs, more, e)
  BY <1>1 DEF DeviceOK, Rooted
<1> QED BY <1>2, <1>3, <1>4 DEF DeviceOK
LEMMA MintSwapZap ==
  ASSUME ZapInv, MintSwap
  PROVE  ZapInv'
<1>1. PICK m \in inflight :
        /\ inflight' = inflight \ {m}
        /\ consumer' = IF Spent(m[1]) THEN consumer ELSE [consumer EXCEPT ![m[1]] = m[2]]
  BY DEF MintSwap
<1>2. UNCHANGED <<rec, relayed, work>>
  BY DEF MintSwap
<1>3. /\ m[1] \in Inputs /\ m[2] \in Devices /\ Owns(rec, m[1], m[2])
      /\ consumer \in [Inputs -> Devices \cup {None}] /\ inflight \subseteq Inputs \X Devices
  BY DEF ZapInv, ZapTypeOK, SwapsOK
<1>4. RelayedOK'
  BY <1>2 DEF ZapInv, RelayedOK
<1>5. CASE Spent(m[1])
  <2>1. consumer' = consumer
    BY <1>1, <1>5
  <2>2. ZapTypeOK'
    BY <1>1, <1>2, <1>3, <2>1 DEF ZapInv, ZapTypeOK
  <2>3. SwapsOK'
    BY <1>1, <1>2, <2>1 DEF ZapInv, SwapsOK
  <2> QED BY <1>2, <1>4, <2>1, <2>2, <2>3 DEF ZapInv
<1>6. CASE ~ Spent(m[1])
  <2>1. Swapped(consumer, consumer', m[1], m[2])
    BY <1>1, <1>3, <1>6 DEF Swapped, Spent, Gone
  <2>2. /\ consumer' \in [Inputs -> Devices \cup {None}] /\ consumer'[m[1]] = m[2]
        /\ \A q \in Inputs : q # m[1] => consumer'[q] = consumer[q]
    BY <2>1, MintGrows
  <2>3. ZapTypeOK'
    BY <1>1, <1>2, <1>3, <2>2 DEF ZapInv, ZapTypeOK
  <2>4. ASSUME NEW d \in Devices PROVE DeviceOK(rec', consumer', d)
    BY <1>2, <1>3, <2>1, MintDevice DEF ZapInv
  <2>5. ASSUME NEW w \in Workers PROVE Informed(rec', consumer', Device(w), work'[w])
    <3>1. rec[Device(w)].credit \in Credited => rec[Device(w)].orig \in FirstTokens
      BY ZapKnown DEF DeviceOK, Redemption
    <3>2. Device(w) \in Devices /\ Informed(rec, consumer, Device(w), work[w])
      BY ZapKnown
    <3> QED BY <1>2, <1>3, <2>1, <3>1, <3>2, MintInformed
  <2>6. SwapsOK'
    <3>1. \A n \in inflight' : Owns(rec, n[1], n[2])
      BY <1>1 DEF ZapInv, SwapsOK
    <3>2. ASSUME NEW q \in Inputs, Gone(consumer', q) PROVE Owns(rec, q, consumer'[q])
      <4>1. CASE q = m[1]
        BY <1>3, <2>2, <4>1
      <4>2. CASE q # m[1]
        BY <2>2, <3>2, <4>2 DEF ZapInv, SwapsOK, Gone
      <4> QED BY <4>1, <4>2
    <3> QED BY <1>2, <3>1, <3>2 DEF SwapsOK
  <2> QED BY <1>4, <2>3, <2>4, <2>5, <2>6 DEF ZapInv
<1> QED BY <1>5, <1>6

LEMMA ZapSame ==
  ASSUME ZapInv, UNCHANGED <<rec, consumer, inflight, relayed, work>>
  PROVE  ZapInv'
<1>1. ZapTypeOK'
  BY DEF ZapInv, ZapTypeOK
<1>2. SwapsOK' /\ RelayedOK'
  BY DEF ZapInv, SwapsOK, RelayedOK
<1> QED BY <1>1, <1>2 DEF ZapInv

-----------------------------------------------------------------------------

LEMMA ZapSteps ==
  ASSUME ZapInv, [ZapNext]_zapVars
  PROVE  ZapInv'
<1>1. CASE UNCHANGED zapVars
  BY <1>1, ZapSame DEF zapVars
<1>2. CASE MintSwap
  BY <1>2, MintSwapZap
<1>3. CASE Withhold
  BY <1>3, ZapSame DEF Withhold
<1>4. ASSUME NEW w \in Workers, Start(w) \/ Crash(w) PROVE ZapInv'
  BY <1>4, StartZap, CrashZap
<1>5. ASSUME NEW w \in Workers, ReceiveSteps(w) PROVE ZapInv'
  BY <1>5, ReceiveBeginZap, ReserveRecordZap, RestoreOutputsZap, StatesZap, SwapAnswerZap,
     CheckZap, CreditLocalZap, PeerZap, CreditRelayZap, PublishOutboxZap, DiscoverZap,
     HistoryRelaysZap DEF ReceiveSteps
<1>6. ASSUME NEW w \in Workers, SpendSteps(w) PROVE ZapInv'
  BY <1>6, SpendBeginZap, SpendCommitZap DEF SpendSteps
<1>7. ASSUME NEW w \in Workers, SyncSteps(w) PROVE ZapInv'
  BY <1>7, SyncBeginZap, SyncSpentZap, SyncOwnZap, SyncReadZap, SyncWriteZap DEF SyncSteps
<1> QED BY <1>1, <1>2, <1>3, <1>4, <1>5, <1>6, <1>7 DEF ZapNext

LEMMA ZapAlways == ZapSpec => []ZapInv
<1>1. ZapInit => ZapInv
  BY ZapStarts
<1>2. ZapInv /\ [ZapNext]_zapVars => ZapInv'
  BY ZapSteps
<1> QED BY <1>1, <1>2, PTL DEF ZapSpec

\* However many devices receive the nutzap, with however many workers, and
\* whatever is killed, delayed or withheld: it is credited from the mint on the
\* device whose plan the mint executed and nowhere else, every other device took
\* over that device's token, and of the spends only the executed one finishes
\* (receiver.ts, spend.ts, wallet-sync.ts and their Rust twins).
THEOREM NutzapOnceHolds == ZapSpec => []NutzapCountsOnce
<1>1. ZapInv => NutzapCountsOnce
  BY CountsFollow
<1> QED BY <1>1, ZapAlways, PTL

\* No device shows as balance what a spend of its own has promised, a token it
\* knows to be retired, or proofs the mint never issued (journal.ts).
THEOREM BalanceHolds == ZapSpec => []BalanceIsNotPromised
<1>1. ZapInv => BalanceIsNotPromised
  BY CountsFollow
<1> QED BY <1>1, ZapAlways, PTL
=============================================================================
