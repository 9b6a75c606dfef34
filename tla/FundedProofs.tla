---------------------------- MODULE FundedProofs ----------------------------
(***************************************************************************)
(* The funded senders send for a delivery only the payload on record, for  *)
(* any callers and whatever they ask for, kills, losses and delays.        *)
(***************************************************************************)
EXTENDS FundedSender, TLAPS

USE ZenonT(10), SMTT(15), Z3T(15)

-----------------------------------------------------------------------------
(* The funded senders.  What holds of a call is a predicate on its job and   *)
(* on what the payee has of its delivery.                                    *)

Unrecorded ==
    {"sender_before_proof_reservation", "reserve", "client", "evidence", "keep", "verify",
     "sender_after_reservation_before_payload_persistence", "persist"}
Replied == {"sender_after_send_before_response", "finish"}
Carrying ==
    {"sender_after_payload_persistence_before_network_send", "attempt", "send"} \cup Replied
Owning == {"read"} \cup Unrecorded \cup Carrying
Clearing == {"clear store", "clear wallet", "fund", "clear arms"}

IsJob(j) ==
    j = [pc |-> j.pc, call |-> j.call, d |-> j.d, record |-> j.record, held |-> j.held,
         seen |-> j.seen, receipt |-> j.receipt]
IsRecord(r) ==
    r = [bill |-> r.bill, payload |-> r.payload, attempts |-> r.attempts,
         receipt |-> r.receipt, spent |-> r.spent]
IsReceipt(r) == r = [payload |-> r.payload, status |-> r.status]

IsTour(t) ==
    /\ t = [adapter |-> t.adapter, control |-> t.control, calls |-> t.calls,
            losses |-> t.losses, kills |-> t.kills, exact |-> t.exact, expires |-> t.expires]
    /\ t.calls \in [Callers -> Seq(SenderCalls)]
IsProc(p) ==
    /\ p = [up |-> p.up, seeded |-> p.seeded, ordinal |-> p.ordinal, inflight |-> p.inflight,
            funded |-> p.funded, available |-> p.available, reserved |-> p.reserved,
            lock |-> p.lock]
    /\ p.ordinal \in Nat
    /\ p.inflight = [d \in Deliveries |-> p.inflight[d]]
IsStore(s) ==
    /\ s = [records |-> s.records, reservations |-> s.reservations]
    /\ s.records = [d \in Deliveries |-> s.records[d]]
IsRun(r) ==
    r = [mixed |-> r.mixed, sent |-> r.sent, built |-> r.built, expired |-> r.expired]
Due(p) == p = [d \in Deliveries |-> p[d]]
         /\ \A d \in Deliveries : p[d] # NoEntry => IsReceipt(p[d])
FundTypeOK ==
    /\ IsTour(tour) /\ IsProc(proc) /\ IsStore(store) /\ IsRun(run)
    /\ job = [c \in Callers |-> job[c]]
    /\ Due(payee)

\* A receipt on record, or carried to it, that is final is the payee's.
RecordOK(due, r) ==
    /\ IsRecord(r) /\ r.spent \in BOOLEAN
    /\ r.spent <=> r.receipt # NoEntry /\ r.receipt.status = "settled"
    /\ r.receipt # NoEntry /\ r.receipt.status # "processing" =>
         due = [payload |-> r.payload, status |-> r.receipt.status]
ReplyOK(due, r) ==
    /\ due # NoEntry /\ IsReceipt(r) /\ due.payload = r.payload
    /\ r.status # "processing" => due = r

JobOK(j, dues) ==
    /\ IsJob(j)
    /\ j.pc \in {"idle", "joined"} \cup Owning \cup Clearing
    /\ j.pc \in {"joined"} \cup Owning => j.call.op = "send" /\ j.d \in Deliveries
    /\ j.pc \in Clearing => j.call.op = "reset"
    /\ j.pc \in Carrying => RecordOK(dues[j.d], j.record)
    /\ j.pc \in Replied => ReplyOK(dues[j.d], j.receipt)
RecordsOK == \A d \in Deliveries : store.records[d] # NoEntry => RecordOK(payee[d], store.records[d])

\* A process that is down has no calls; the CDK adapter has one at a time.
ProcessOK ==
    /\ ~ proc.up => \A c \in Callers : job[c].pc = "idle"
    /\ Cdk => \A c \in Callers :
         job[c].pc \in {"idle", "send", "finish"} /\ (job[c].pc # "idle" => proc.lock = c)

(***************************************************************************)
(* In a run that no reset overlaps the call that owns a delivery is alone, *)
(* and its copy of the record is the one in the store.                     *)
(***************************************************************************)
Claims(j, infl) == j.pc \in Owning => Cdk \/ infl[j.d] # NoEntry
Copied(j, recs) ==
    /\ j.pc \in Unrecorded => recs[j.d] = NoEntry
    /\ j.pc \in Carrying => recs[j.d] # NoEntry /\ recs[j.d].payload = j.record.payload
Apart(j, k) ==
    /\ j.pc \in Owning /\ k.pc \in Owning => j.d # k.d
    /\ j.pc \in Clearing => k.pc \notin Owning \cup Clearing
Recorded(s, recs) == recs[s.d] # NoEntry /\ recs[s.d].payload = s.payload
RunOK ==
    /\ \A c \in Callers : Claims(job[c], proc.inflight) /\ Copied(job[c], store.records)
    /\ \A c, k \in Callers : c # k => Apart(job[c], job[k])
    /\ \A c \in Callers : job[c].pc \in Clearing => run.sent = {} /\ proc.inflight = Nothing
    /\ \A s \in run.sent : s.d \in Deliveries /\ Recorded(s, store.records)

FundInv ==
    /\ FundTypeOK
    /\ \A c \in Callers : JobOK(job[c], payee)
    /\ RecordsOK
    /\ ProcessOK
    /\ ~ run.mixed => RunOK

-----------------------------------------------------------------------------
LEMMA EntriesAreEntries ==
  /\ \A r : IsRecord(r) => r # NoEntry
  /\ \A r : IsReceipt(r) => r # NoEntry
  /\ \A x, y : [bill |-> x, owner |-> y] # NoEntry
<1>1. \A r : IsRecord(r) => "bill" \in DOMAIN r
  BY DEF IsRecord
<1>2. \A r : IsReceipt(r) => "payload" \in DOMAIN r
  BY DEF IsReceipt
<1>3. \A x, y : "bill" \in DOMAIN [bill |-> x, owner |-> y]
  OBVIOUS
<1>4. DOMAIN NoEntry = {}
  BY DEF NoEntry
<1> QED BY <1>1, <1>2, <1>3, <1>4

\* The payee binds a delivery to its first payload, and a final status stays.
Grows(p, q) ==
    p # NoEntry => q # NoEntry /\ q.payload = p.payload /\ (p.status # "processing" => q = p)
DuesGrow == \A d \in Deliveries : Grows(payee[d], payee'[d])

LEMMA RecordGrows ==
  ASSUME NEW p, NEW q, Grows(p, q), NEW r, RecordOK(p, r)
  PROVE  RecordOK(q, r)
<1>1. ASSUME r.receipt # NoEntry, r.receipt.status # "processing"
      PROVE  q = [payload |-> r.payload, status |-> r.receipt.status]
  <2>1. p = [payload |-> r.payload, status |-> r.receipt.status]
    BY <1>1 DEF RecordOK
  <2>2. p # NoEntry /\ p.status = r.receipt.status
    BY <2>1, EntriesAreEntries DEF IsReceipt
  <2> QED BY <1>1, <2>1, <2>2 DEF Grows
<1> QED BY <1>1 DEF RecordOK

LEMMA ReplyGrows ==
  ASSUME NEW p, NEW q, Grows(p, q), NEW r, ReplyOK(p, r)
  PROVE  ReplyOK(q, r)
BY DEF Grows, ReplyOK

LEMMA JobGrows ==
  ASSUME NEW dues, NEW more, \A d \in Deliveries : Grows(dues[d], more[d]),
         NEW j, JobOK(j, dues)
  PROVE  JobOK(j, more)
<1>1. j.pc \in Carrying => j.pc \in Owning
  BY DEF Owning
<1>2. j.pc \in Replied => j.pc \in Carrying
  BY DEF Carrying
<1>3. j.pc \in Carrying => RecordOK(more[j.d], j.record)
  BY <1>1, RecordGrows DEF JobOK
<1>4. j.pc \in Replied => ReplyOK(more[j.d], j.receipt)
  BY <1>1, <1>2, ReplyGrows DEF JobOK
<1> QED BY <1>3, <1>4 DEF JobOK

LEMMA DuesStand == UNCHANGED payee => DuesGrow
BY DEF DuesGrow, Grows

\* Every step but that of caller c leaves the other calls alone.
Others(c) == \A k \in Callers : k # c => job'[k] = job[k]

LEMMA JobsStep ==
  ASSUME \A k \in Callers : JobOK(job[k], payee), DuesGrow, NEW c \in Callers, Others(c),
         JobOK(job'[c], payee')
  PROVE  \A k \in Callers : JobOK(job'[k], payee')
BY JobGrows DEF Others, DuesGrow

LEMMA JobsStand ==
  ASSUME \A k \in Callers : JobOK(job[k], payee), DuesGrow, UNCHANGED job
  PROVE  \A k \in Callers : JobOK(job'[k], payee')
BY JobGrows DEF DuesGrow

LEMMA RecordsStep ==
  ASSUME RecordsOK, DuesGrow,
         \A d \in Deliveries : \/ store'.records[d] \in {store.records[d], NoEntry}
                               \/ RecordOK(payee'[d], store'.records[d])
  PROVE  RecordsOK'
<1> SUFFICES ASSUME NEW d \in Deliveries, store'.records[d] # NoEntry
             PROVE  RecordOK(payee'[d], store'.records[d])
  BY DEF RecordsOK
<1> QED BY RecordGrows DEF RecordsOK, DuesGrow

\* What the steps of a call that is under way do to its run.
Touches(c, d) == job[c].pc \in Owning /\ d = job[c].d

LEMMA RunStep ==
  ASSUME RunOK, NEW c \in Callers, Others(c), UNCHANGED Cdk,
         \A k \in Callers : job[k].pc \in Owning => job[k].d \in Deliveries,
         job'[c].pc \in Owning => job[c].pc \in Owning /\ job'[c].d = job[c].d,
         job'[c].pc \in Clearing => job[c].pc \in Clearing,
         Claims(job'[c], proc'.inflight), Copied(job'[c], store'.records),
         \A d \in Deliveries : ~Touches(c, d) =>
            proc'.inflight[d] = proc.inflight[d] /\ store'.records[d] = store.records[d],
         job[c].pc \notin Owning => UNCHANGED <<run.sent, proc.inflight>>,
         \A s \in run'.sent : s.d \in Deliveries /\ Recorded(s, store'.records)
  PROVE  RunOK'
<1>0. Owning \cap Clearing = {} /\ Unrecorded \subseteq Owning /\ Carrying \subseteq Owning
  BY DEF Owning, Clearing, Unrecorded, Carrying, Replied
<1>1. ASSUME NEW k \in Callers
      PROVE  Claims(job[k], proc.inflight)' /\ Copied(job'[k], store'.records)
  <2>1. CASE k = c
    BY <2>1 DEF Claims
  <2>2. CASE k # c
    <3>1. job'[k] = job[k] /\ Claims(job[k], proc.inflight) /\ Copied(job[k], store.records)
      BY <2>2 DEF Others, RunOK
    <3>2. job[k].pc \in Owning => ~Touches(c, job[k].d)
      BY <2>2 DEF RunOK, Apart, Touches
    <3> QED BY <1>0, <3>1, <3>2 DEF Claims, Copied
  <2> QED BY <2>1, <2>2
<1>2. ASSUME NEW k \in Callers, NEW l \in Callers, k # l
      PROVE  Apart(job'[k], job'[l])
  <2>1. Apart(job[k], job[l]) /\ Apart(job[l], job[k])
    BY <1>2 DEF RunOK
  <2> QED BY <1>0, <1>2, <2>1 DEF Others, Apart
<1>3. ASSUME NEW k \in Callers, job'[k].pc \in Clearing
      PROVE  run'.sent = {} /\ proc'.inflight = Nothing
  <2>1. job[k].pc \in Clearing
    BY <1>3 DEF Others
  <2>2. run.sent = {} /\ proc.inflight = Nothing
    BY <2>1 DEF RunOK
  <2>3. job[c].pc \notin Owning
    BY <1>0, <2>1 DEF RunOK, Apart
  <2> QED BY <2>2, <2>3
<1> QED BY <1>1, <1>2, <1>3 DEF RunOK, Nothing

LEMMA RunRests ==
  ASSUME \A k \in Callers : job'[k].pc \notin Owning,
         \A c, k \in Callers : c # k => job'[c].pc \notin Clearing \/ job'[k].pc \notin Clearing,
         \A c \in Callers : job'[c].pc \in Clearing => run'.sent = {} /\ proc'.inflight = Nothing,
         \A s \in run'.sent : s.d \in Deliveries /\ Recorded(s, store'.records)
  PROVE  RunOK'
<1>1. Unrecorded \subseteq Owning /\ Carrying \subseteq Owning
  BY DEF Owning
<1>2. \A k \in Callers : Claims(job[k], proc.inflight)' /\ Copied(job'[k], store'.records)
  BY <1>1 DEF Claims, Copied
<1>3. \A c, k \in Callers : c # k => Apart(job'[c], job'[k])
  BY DEF Apart
<1> QED BY <1>2, <1>3 DEF RunOK, Nothing

-----------------------------------------------------------------------------
(* The shapes of the values.                                                 *)

LEMMA TourFaults ==
  ASSUME NEW t, IsTour(t), NEW n
  PROVE  /\ IsTour([t EXCEPT !.losses = n])
         /\ IsTour([t EXCEPT !.kills = n])
         /\ [t EXCEPT !.losses = n].adapter = t.adapter
         /\ [t EXCEPT !.kills = n].adapter = t.adapter
BY DEF IsTour

LEMMA TourCalls ==
  ASSUME NEW t, IsTour(t), NEW u \in [Callers -> Seq(SenderCalls)],
         NEW y, y = [t EXCEPT !.calls = u]
  PROVE  IsTour(y) /\ y.adapter = t.adapter
<1>1. t = [adapter |-> t.adapter, control |-> t.control, calls |-> t.calls,
           losses |-> t.losses, kills |-> t.kills, exact |-> t.exact, expires |-> t.expires]
  BY DEF IsTour
<1>2. y = [adapter |-> t.adapter, control |-> t.control, calls |-> u,
           losses |-> t.losses, kills |-> t.kills, exact |-> t.exact, expires |-> t.expires]
  BY <1>1
<1>3. y.calls = u
  BY <1>2
<1>4. y.adapter = t.adapter
  BY <1>2
<1>5. y = [adapter |-> y.adapter, control |-> y.control, calls |-> y.calls,
           losses |-> y.losses, kills |-> y.kills, exact |-> y.exact, expires |-> y.expires]
  BY <1>2
<1> QED BY <1>3, <1>4, <1>5 DEF IsTour

LEMMA TourShape ==
  ASSUME NEW t, IsTour(t)
  PROVE  /\ \A n : /\ IsTour([t EXCEPT !.losses = n])
                   /\ IsTour([t EXCEPT !.kills = n])
                   /\ [t EXCEPT !.losses = n].adapter = t.adapter
                   /\ [t EXCEPT !.kills = n].adapter = t.adapter
         /\ \A c \in Callers : t.calls[c] # <<>> =>
              /\ Head(t.calls[c]) \in SenderCalls
              /\ IsTour([t EXCEPT !.calls[c] = Tail(@)])
              /\ [t EXCEPT !.calls[c] = Tail(@)].adapter = t.adapter
              /\ \A n : /\ IsTour([t EXCEPT !.calls[c] = Tail(@), !.losses = n])
                        /\ [t EXCEPT !.calls[c] = Tail(@), !.losses = n].adapter = t.adapter
<1>1. \A n : /\ IsTour([t EXCEPT !.losses = n])
            /\ IsTour([t EXCEPT !.kills = n])
            /\ [t EXCEPT !.losses = n].adapter = t.adapter
            /\ [t EXCEPT !.kills = n].adapter = t.adapter
  BY TourFaults
<1>2. ASSUME NEW c \in Callers, t.calls[c] # <<>>
      PROVE  /\ Head(t.calls[c]) \in SenderCalls
             /\ [t.calls EXCEPT ![c] = Tail(@)] \in [Callers -> Seq(SenderCalls)]
  <2>1. t.calls[c] \in Seq(SenderCalls)
    BY DEF IsTour
  <2>2. Head(t.calls[c]) \in SenderCalls /\ Tail(t.calls[c]) \in Seq(SenderCalls)
    BY <1>2, <2>1
  <2> QED BY <2>2 DEF IsTour
<1>3. ASSUME NEW c \in Callers, t.calls[c] # <<>>
      PROVE  /\ IsTour([t EXCEPT !.calls[c] = Tail(@)])
             /\ [t EXCEPT !.calls[c] = Tail(@)].adapter = t.adapter
             /\ \A n : /\ IsTour([t EXCEPT !.calls[c] = Tail(@), !.losses = n])
                       /\ [t EXCEPT !.calls[c] = Tail(@), !.losses = n].adapter = t.adapter
  <2> DEFINE u == [t.calls EXCEPT ![c] = Tail(@)]
  <2>1. u \in [Callers -> Seq(SenderCalls)]
    BY <1>2, <1>3
  <2>2. [t EXCEPT !.calls[c] = Tail(@)] = [t EXCEPT !.calls = u]
    BY DEF IsTour
  <2>3. \A n : [t EXCEPT !.calls[c] = Tail(@), !.losses = n] = [t EXCEPT !.calls = u, !.losses = n]
    BY DEF IsTour
  <2> HIDE DEF u
  <2> DEFINE y == [t EXCEPT !.calls = u]
  <2>4. IsTour(y) /\ y.adapter = t.adapter
    BY <2>1, TourCalls
  <2>5. \A n : /\ IsTour([y EXCEPT !.losses = n])
              /\ [y EXCEPT !.losses = n].adapter = y.adapter
    BY <2>4, TourFaults
  <2>6. \A n : [t EXCEPT !.calls = u, !.losses = n] = [y EXCEPT !.losses = n]
    OBVIOUS
  <2> HIDE DEF y
  <2>7. [t EXCEPT !.calls[c] = Tail(@)] = y
    BY <2>2 DEF y
  <2> QED BY <2>3, <2>4, <2>5, <2>6, <2>7
<1> QED BY <1>1, <1>2, <1>3

LEMMA LeaveShape ==
  ASSUME IsProc(proc), NEW c, job[c].pc # "joined"
  PROVE  /\ IsProc(Leave(c, proc))
         /\ Leave(c, proc).up = proc.up
         /\ Leave(c, proc).lock # proc.lock => proc.lock = c
         /\ \A d \in Deliveries : d # job[c].d => Leave(c, proc).inflight[d] = proc.inflight[d]
<1> DEFINE l == IF proc.lock = c THEN Nil ELSE proc.lock
           f == IF job[c].d = Nil THEN proc.inflight
                ELSE [proc.inflight EXCEPT ![job[c].d] = NoEntry]
<1>1. Leave(c, proc) = [proc EXCEPT !.lock = l, !.inflight = f]
  BY DEF Leave, AtPc
<1>2. f = [d \in Deliveries |-> f[d]]
  BY DEF IsProc
<1>3. \A d \in Deliveries : d # job[c].d => f[d] = proc.inflight[d]
  BY DEF IsProc
<1>4. l # proc.lock => proc.lock = c
  OBVIOUS
<1> HIDE DEF l, f
<1> QED BY <1>1, <1>2, <1>3, <1>4 DEF IsProc

LEMMA PutShape ==
  ASSUME IsStore(store), NEW e \in Deliveries, NEW r, Put(e, r)
  PROVE  IsStore(store') /\ store'.records[e] = r
         /\ \A d \in Deliveries : d # e => store'.records[d] = store.records[d]
BY DEF IsStore, Put

-----------------------------------------------------------------------------
(* A call that owns its delivery goes on, or ends.                           *)

\* A step writes at most the record of delivery d, a good one.
WritesOnly(d) ==
    /\ \A e \in Deliveries : e # d => store'.records[e] = store.records[e]
    /\ store'.records[d] = store.records[d] \/ RecordOK(payee'[d], store'.records[d])
\* In a run that no reset overlaps the payload on record stays.
KeepsPayload(d) ==
    store.records[d] # NoEntry =>
        store'.records[d] # NoEntry /\ store'.records[d].payload = store.records[d].payload
\* Whatever is sent is sent by the call at hand, from the record.
SendsOwn(d) == \A s \in run'.sent : s \in run.sent \/ (s.d = d /\ Recorded(s, store'.records))

LEMMA OwningPcs ==
  /\ Owning \cap Clearing = {} /\ Unrecorded \subseteq Owning /\ Carrying \subseteq Owning
  /\ Replied \subseteq Carrying /\ Unrecorded \cap Carrying = {}
  /\ {"idle", "joined"} \cap (Owning \cup Clearing) = {}
  /\ {"send", "finish", "attempt", "read"} \subseteq Owning /\ "read" \notin Unrecorded \cup Carrying
BY DEF Owning, Clearing, Unrecorded, Carrying, Replied

LEMMA SentStays ==
  ASSUME RunOK, NEW d \in Deliveries, WritesOnly(d), KeepsPayload(d), SendsOwn(d)
  PROVE  \A s \in run'.sent : s.d \in Deliveries /\ Recorded(s, store'.records)
<1> SUFFICES ASSUME NEW s \in run.sent
             PROVE  s.d \in Deliveries /\ Recorded(s, store'.records)
  BY DEF SendsOwn
<1>1. s.d \in Deliveries /\ Recorded(s, store.records)
  BY DEF RunOK
<1> QED BY <1>1 DEF WritesOnly, KeepsPayload, Recorded

LEMMA OwnerRecords ==
  ASSUME RecordsOK, DuesGrow, NEW d \in Deliveries, WritesOnly(d)
  PROVE  RecordsOK'
BY RecordsStep DEF WritesOnly

LEMMA OwnerMoves ==
  ASSUME FundInv, NEW c \in Callers, job[c].pc \in Owning, FundTypeOK', Others(c), DuesGrow,
         job'[c].pc \in Owning, job'[c].d = job[c].d, JobOK(job'[c], payee'),
         tour'.adapter = tour.adapter, run'.mixed = run.mixed,
         proc'.up = proc.up, proc'.lock = proc.lock, proc'.inflight = proc.inflight,
         Cdk => job'[c].pc \in {"send", "finish"},
         WritesOnly(job[c].d),
         ~run.mixed => /\ SendsOwn(job[c].d) /\ KeepsPayload(job[c].d)
                       /\ Copied(job'[c], store'.records)
  PROVE  FundInv'
<1> DEFINE d == job[c].d
<1>1. d \in Deliveries /\ UNCHANGED Cdk
  BY DEF FundInv, JobOK, Cdk
<1>2. \A k \in Callers : JobOK(job'[k], payee')
  BY JobsStep DEF FundInv
<1>3. RecordsOK'
  BY <1>1, OwnerRecords DEF FundInv
<1>4. ProcessOK'
  <2>1. job[c].pc # "idle"
    BY OwningPcs
  <2>2. proc.up /\ (Cdk => proc.lock = c)
    BY <2>1 DEF FundInv, ProcessOK
  <2>3. ASSUME Cdk, NEW k \in Callers
        PROVE  job'[k].pc \in {"idle", "send", "finish"} /\ (job'[k].pc # "idle" => proc'.lock = k)
    BY <2>2, <2>3 DEF FundInv, ProcessOK, Others
  <2> QED BY <1>1, <2>2, <2>3 DEF ProcessOK
<1>5. ASSUME ~run.mixed PROVE RunOK'
  <2>1. RunOK /\ \A k \in Callers : job[k].pc \in Owning => job[k].d \in Deliveries
    BY <1>5 DEF FundInv, JobOK
  <2>2. Claims(job'[c], proc'.inflight)
    BY <2>1 DEF RunOK, Claims
  <2>3. \A s \in run'.sent : s.d \in Deliveries /\ Recorded(s, store'.records)
    BY <1>1, <1>5, <2>1, SentStays
  <2>4. job'[c].pc \notin Clearing
    BY OwningPcs
  <2>5. \A e \in Deliveries : ~Touches(c, e) =>
           proc'.inflight[e] = proc.inflight[e] /\ store'.records[e] = store.records[e]
    BY DEF Touches, WritesOnly
  <2> QED BY <1>1, <1>5, <2>1, <2>2, <2>3, <2>4, <2>5, RunStep
<1> QED BY <1>2, <1>3, <1>4, <1>5 DEF FundInv

LEMMA BecomesFacts ==
  ASSUME FundInv, NEW c \in Callers, NEW y, Becomes(c, y)
  PROVE  job' = [k \in Callers |-> job'[k]] /\ Others(c) /\ job'[c] = y
BY DEF FundInv, FundTypeOK, Becomes, Others

LEMMA NoCallOK == \A dues : JobOK(NoCall, dues) /\ NoCall.pc = "idle"
<1>1. NoCall.pc = "idle" /\ IsJob(NoCall)
  BY DEF NoCall, IsJob
<1> QED BY <1>1, OwningPcs DEF JobOK

LEMMA OwnerLeaves ==
  ASSUME FundInv, NEW c \in Callers, job[c].pc \in Owning, Fail(c), DuesGrow,
         IsTour(tour'), IsStore(store'), IsRun(run'), Due(payee'),
         tour'.adapter = tour.adapter, run'.mixed = run.mixed,
         WritesOnly(job[c].d), ~run.mixed => SendsOwn(job[c].d) /\ KeepsPayload(job[c].d)
  PROVE  FundInv'
<1> DEFINE d == job[c].d
<1>1. d \in Deliveries /\ UNCHANGED Cdk
  BY DEF FundInv, JobOK, Cdk
<1>2. job[c].pc # "joined" /\ job[c].pc # "idle"
  BY OwningPcs
<1>3. /\ IsProc(proc') /\ proc'.up = proc.up
      /\ proc'.lock # proc.lock => proc.lock = c
      /\ \A e \in Deliveries : e # d => proc'.inflight[e] = proc.inflight[e]
  BY <1>2, LeaveShape DEF FundInv, FundTypeOK, Fail
<1>4. job' = [k \in Callers |-> job'[k]] /\ Others(c) /\ job'[c] = NoCall
  BY BecomesFacts DEF Fail
<1>5. FundTypeOK'
  BY <1>3, <1>4 DEF FundTypeOK
<1>6. job'[c].pc = "idle" /\ JobOK(job'[c], payee')
  BY <1>4, NoCallOK
<1>7. \A k \in Callers : JobOK(job'[k], payee')
  BY <1>4, <1>6, JobsStep DEF FundInv
<1>8. RecordsOK'
  BY <1>1, OwnerRecords DEF FundInv
<1>9. ProcessOK'
  <2>1. proc.up
    BY <1>2 DEF FundInv, ProcessOK
  <2>2. ASSUME Cdk, NEW k \in Callers
        PROVE  job'[k].pc \in {"idle", "send", "finish"} /\ (job'[k].pc # "idle" => proc'.lock = k)
    BY <1>3, <1>4, <1>6, <2>2 DEF FundInv, ProcessOK, Others
  <2> QED BY <1>1, <1>3, <2>1, <2>2 DEF ProcessOK
<1>10. ASSUME ~run.mixed PROVE RunOK'
  <2>1. RunOK /\ \A k \in Callers : job[k].pc \in Owning => job[k].d \in Deliveries
    BY <1>10 DEF FundInv, JobOK
  <2>2. job'[c].pc \notin Owning /\ job'[c].pc \notin Clearing
    BY <1>6, OwningPcs
  <2>3. Claims(job'[c], proc'.inflight) /\ Copied(job'[c], store'.records)
    BY <2>2, OwningPcs DEF Claims, Copied
  <2>4. \A s \in run'.sent : s.d \in Deliveries /\ Recorded(s, store'.records)
    BY <1>1, <1>10, <2>1, SentStays
  <2>5. \A e \in Deliveries : ~Touches(c, e) =>
           proc'.inflight[e] = proc.inflight[e] /\ store'.records[e] = store.records[e]
    BY <1>3 DEF Touches, WritesOnly
  <2> QED BY <1>1, <1>4, <2>1, <2>2, <2>3, <2>4, <2>5, RunStep
<1> QED BY <1>5, <1>7, <1>8, <1>9, <1>10 DEF FundInv

-----------------------------------------------------------------------------
(* The steps of a call that owns its delivery.                               *)

\* The call x at another step.
Turned(x, y, pc, record, receipt) ==
    /\ IsJob(y) /\ y.pc = pc /\ y.call = x.call /\ y.d = x.d
    /\ y.record = record /\ y.receipt = receipt

LEMMA TurnedBy ==
  ASSUME NEW x, NEW y, NEW pc, NEW record, NEW held, NEW seen, NEW receipt,
         y = [pc |-> pc, call |-> x.call, d |-> x.d, record |-> record, held |-> held,
              seen |-> seen, receipt |-> receipt]
  PROVE  Turned(x, y, pc, record, receipt)
BY DEF Turned, IsJob

LEMMA TurnedPc ==
  ASSUME NEW x, IsJob(x), NEW y, NEW pc, NEW v
  PROVE  /\ (\/ y = [x EXCEPT !.pc = pc]
             \/ y = [x EXCEPT !.held = v, !.pc = pc]
             \/ y = [x EXCEPT !.pc = pc, !.held = v]
             \/ y = [x EXCEPT !.pc = pc, !.seen = v])
              => Turned(x, y, pc, x.record, x.receipt)
         /\ y = [x EXCEPT !.record = v, !.pc = pc] => Turned(x, y, pc, v, x.receipt)
         /\ y = [x EXCEPT !.receipt = v, !.pc = pc] => Turned(x, y, pc, x.record, v)
<1>0. x = [pc |-> x.pc, call |-> x.call, d |-> x.d, record |-> x.record, held |-> x.held,
           seen |-> x.seen, receipt |-> x.receipt]
  BY DEF IsJob
<1>1. ASSUME y = [x EXCEPT !.pc = pc]
      PROVE  Turned(x, y, pc, x.record, x.receipt)
  <2>1. y = [pc |-> pc, call |-> x.call, d |-> x.d, record |-> x.record, held |-> x.held,
             seen |-> x.seen, receipt |-> x.receipt]
    BY <1>0, <1>1
  <2> QED BY <2>1, TurnedBy
<1>2. ASSUME y = [x EXCEPT !.held = v, !.pc = pc]
      PROVE  Turned(x, y, pc, x.record, x.receipt)
  <2>1. y = [pc |-> pc, call |-> x.call, d |-> x.d, record |-> x.record, held |-> v,
             seen |-> x.seen, receipt |-> x.receipt]
    BY <1>0, <1>2
  <2> QED BY <2>1, TurnedBy
<1>3. ASSUME y = [x EXCEPT !.pc = pc, !.held = v]
      PROVE  Turned(x, y, pc, x.record, x.receipt)
  <2>1. y = [pc |-> pc, call |-> x.call, d |-> x.d, record |-> x.record, held |-> v,
             seen |-> x.seen, receipt |-> x.receipt]
    BY <1>0, <1>3
  <2> QED BY <2>1, TurnedBy
<1>4. ASSUME y = [x EXCEPT !.pc = pc, !.seen = v]
      PROVE  Turned(x, y, pc, x.record, x.receipt)
  <2>1. y = [pc |-> pc, call |-> x.call, d |-> x.d, record |-> x.record, held |-> x.held,
             seen |-> v, receipt |-> x.receipt]
    BY <1>0, <1>4
  <2> QED BY <2>1, TurnedBy
<1>5. ASSUME y = [x EXCEPT !.record = v, !.pc = pc]
      PROVE  Turned(x, y, pc, v, x.receipt)
  <2>1. y = [pc |-> pc, call |-> x.call, d |-> x.d, record |-> v, held |-> x.held,
             seen |-> x.seen, receipt |-> x.receipt]
    BY <1>0, <1>5
  <2> QED BY <2>1, TurnedBy
<1>6. ASSUME y = [x EXCEPT !.receipt = v, !.pc = pc]
      PROVE  Turned(x, y, pc, x.record, v)
  <2>1. y = [pc |-> pc, call |-> x.call, d |-> x.d, record |-> x.record, held |-> x.held,
             seen |-> x.seen, receipt |-> v]
    BY <1>0, <1>6
  <2> QED BY <2>1, TurnedBy
<1> QED BY <1>1, <1>2, <1>3, <1>4, <1>5, <1>6

\* The call goes on and leaves records, payee and run alone.
LEMMA CallMoves ==
  ASSUME FundInv, NEW c \in Callers, job[c].pc \in Owning, job[c].pc \notin {"send", "finish"},
         NEW y, Becomes(c, y), NEW pc \in Unrecorded \cup Carrying, NEW record, NEW receipt,
         Turned(job[c], y, pc, record, receipt),
         pc \in Unrecorded => job[c].pc \in Unrecorded \/ store.records[job[c].d] = NoEntry,
         pc \in Carrying => job[c].pc \in Carrying /\ record = job[c].record,
         pc \in Replied => job[c].pc \in Replied /\ receipt = job[c].receipt,
         IsTour(tour'), tour'.adapter = tour.adapter, IsProc(proc'), proc'.up = proc.up,
         proc'.lock = proc.lock, proc'.inflight = proc.inflight,
         IsStore(store'), store'.records = store.records, UNCHANGED <<payee, run>>
  PROVE  FundInv'
<1>1. job' = [k \in Callers |-> job'[k]] /\ Others(c) /\ job'[c] = y
  BY BecomesFacts
<1>2. FundTypeOK' /\ DuesGrow
  BY <1>1, DuesStand DEF FundInv, FundTypeOK
<1>3. pc \in Owning /\ y.pc = pc /\ y.d = job[c].d /\ y.record = record /\ y.receipt = receipt
  BY OwningPcs DEF Turned
<1>4. ~Cdk
  BY OwningPcs DEF FundInv, ProcessOK
<1>5. JobOK(y, payee')
  <2>1. JobOK(job[c], payee) /\ IsJob(y) /\ y.call = job[c].call
    BY DEF FundInv, Turned
  <2>2. y.pc \in Carrying => RecordOK(payee[y.d], y.record)
    BY <1>3, <2>1 DEF JobOK
  <2>3. y.pc \in Replied => ReplyOK(payee[y.d], y.receipt)
    BY <1>3, <2>1 DEF JobOK
  <2>4. y.call.op = "send" /\ y.d \in Deliveries
    BY <1>3, <2>1 DEF JobOK
  <2> QED BY <1>3, <2>1, <2>2, <2>3, <2>4, OwningPcs DEF JobOK
<1>6. WritesOnly(job[c].d) /\ SendsOwn(job[c].d) /\ KeepsPayload(job[c].d)
  BY DEF WritesOnly, SendsOwn, KeepsPayload
<1>7. ASSUME ~run.mixed PROVE Copied(y, store'.records)
  <2>1. Copied(job[c], store.records)
    BY <1>7 DEF FundInv, RunOK
  <2> QED BY <1>3, <2>1, OwningPcs DEF Copied
<1> QED BY <1>1, <1>2, <1>3, <1>4, <1>5, <1>6, <1>7, OwnerMoves

\* The call ends and leaves records, payee and run alone.
LEMMA CallFails ==
  ASSUME FundInv, NEW c \in Callers, job[c].pc \in Owning, Fail(c), IsTour(tour'),
         tour'.adapter = tour.adapter, UNCHANGED <<store, payee, run>>
  PROVE  FundInv'
<1>1. IsStore(store') /\ IsRun(run') /\ Due(payee') /\ DuesGrow
  BY DuesStand DEF FundInv, FundTypeOK
<1>2. WritesOnly(job[c].d) /\ SendsOwn(job[c].d) /\ KeepsPayload(job[c].d)
  BY DEF WritesOnly, SendsOwn, KeepsPayload
<1> QED BY <1>1, <1>2, OwnerLeaves

\* What most steps leave as it is.
LEMMA Unmoved ==
  ASSUME FundInv
  PROVE  /\ UNCHANGED tour => IsTour(tour') /\ tour'.adapter = tour.adapter
         /\ UNCHANGED proc => /\ IsProc(proc') /\ proc'.up = proc.up /\ proc'.lock = proc.lock
                              /\ proc'.inflight = proc.inflight
         /\ UNCHANGED store => IsStore(store') /\ store'.records = store.records
BY DEF FundInv, FundTypeOK

LEMMA IsAJob == ASSUME FundInv, NEW c \in Callers PROVE IsJob(job[c])
BY DEF FundInv, JobOK

LEMMA ReadNext ==
  ASSUME FundInv, NEW c \in Callers, Read(c)
  PROVE  FundInv'
<1> DEFINE r == store.records[job[c].d]
           pc == IF r # NoEntry THEN "attempt" ELSE "sender_before_proof_reservation"
<1>1. /\ job[c].pc = "read" /\ UNCHANGED <<tour, store, payee, run>>
      /\ IF r # NoEntry /\ r.bill # job[c].call.bill THEN Fail(c)
         ELSE UNCHANGED proc /\ Becomes(c, [job[c] EXCEPT !.record = r, !.pc = pc])
  BY DEF Read, AtPc, Outside
<1>2. job[c].pc \in Owning /\ job[c].pc \notin {"send", "finish"} /\ job[c].d \in Deliveries
  BY <1>1, OwningPcs DEF FundInv, JobOK
<1>3. CASE r # NoEntry /\ r.bill # job[c].call.bill
  BY <1>1, <1>2, <1>3, CallFails, Unmoved
<1>4. CASE r = NoEntry
  <2> DEFINE y == [job[c] EXCEPT !.record = r, !.pc = pc]
  <2>1. Becomes(c, y) /\ UNCHANGED proc
    BY <1>1, <1>4
  <2>2. Turned(job[c], y, pc, r, job[c].receipt)
    BY TurnedPc, IsAJob
  <2>3. pc = "sender_before_proof_reservation"
    BY <1>4
  <2> HIDE DEF y, pc
  <2>4. pc \in Unrecorded /\ pc \notin Carrying /\ pc \notin Replied
    BY <2>3, OwningPcs DEF Unrecorded
  <2> QED BY <1>1, <1>2, <1>4, <2>1, <2>2, <2>4, CallMoves, Unmoved
<1>5. CASE r # NoEntry /\ ~ (r.bill # job[c].call.bill)
  <2> DEFINE y == [job[c] EXCEPT !.record = r, !.pc = pc]
  <2>1. Becomes(c, y) /\ UNCHANGED proc
    BY <1>1, <1>5
  <2>2. Turned(job[c], y, pc, r, job[c].receipt)
    BY TurnedPc, IsAJob
  <2>3. pc = "attempt"
    BY <1>5
  <2> HIDE DEF y, pc
  <2>4. job' = [k \in Callers |-> job'[k]] /\ Others(c) /\ job'[c] = y
    BY <2>1, BecomesFacts
  <2>5. FundTypeOK' /\ DuesGrow
    BY <1>1, <2>1, <2>4, DuesStand DEF FundInv, FundTypeOK
  <2>6. /\ y.pc = "attempt" /\ y.d = job[c].d /\ y.record = r /\ y.call = job[c].call /\ IsJob(y)
        /\ y.pc \in Owning /\ y.pc \in Carrying /\ y.pc \notin Replied /\ y.pc \notin Unrecorded
    BY <2>2, <2>3, OwningPcs DEF Turned, Carrying, Replied
  <2>7. RecordOK(payee[y.d], y.record)
    BY <1>2, <1>5, <2>6 DEF FundInv, RecordsOK
  <2>8. JobOK(y, payee')
    BY <1>1, <1>2, <2>6, <2>7, OwningPcs DEF JobOK, FundInv
  <2>9. WritesOnly(job[c].d) /\ SendsOwn(job[c].d) /\ KeepsPayload(job[c].d)
    BY <1>1 DEF WritesOnly, SendsOwn, KeepsPayload
  <2>10. Copied(y, store'.records)
    BY <1>1, <1>5, <2>6 DEF Copied
  <2>11. ~Cdk
    BY <1>1 DEF FundInv, ProcessOK
  <2> QED BY <1>1, <1>2, <2>1, <2>4, <2>5, <2>6, <2>8, <2>9, <2>10, <2>11, OwnerMoves
<1> QED BY <1>3, <1>4, <1>5

LEMMA NothingShape ==
  /\ \A d \in Deliveries : Nothing[d] = NoEntry
  /\ IsStore([records |-> Nothing, reservations |-> Nothing])
  /\ [records |-> Nothing, reservations |-> Nothing].records = Nothing
  /\ IsProc(Down) /\ Down.inflight = Nothing /\ Down.up = FALSE
<1>1. \A d \in Deliveries : Nothing[d] = NoEntry
  BY DEF Nothing
<1>2. Nothing = [d \in Deliveries |-> Nothing[d]]
  BY DEF Nothing
<1>3. /\ [records |-> Nothing, reservations |-> Nothing].records = Nothing
      /\ IsStore([records |-> Nothing, reservations |-> Nothing])
  BY <1>2 DEF IsStore
<1>4. /\ Down.inflight = Nothing /\ Down.up = FALSE /\ Down.ordinal = 0
      /\ Down = [up |-> Down.up, seeded |-> Down.seeded, ordinal |-> Down.ordinal,
                 inflight |-> Down.inflight, funded |-> Down.funded,
                 available |-> Down.available, reserved |-> Down.reserved, lock |-> Down.lock]
  BY DEF Down
<1>5. IsProc(Down)
  BY <1>2, <1>4 DEF IsProc
<1> QED BY <1>1, <1>3, <1>4, <1>5

\* The run r with its sends and its overlap with a reset.
RunIs(y, mixed, sent) == IsRun(y) /\ y.mixed = mixed /\ y.sent = sent

LEMMA RunIsBy ==
  ASSUME NEW y, NEW mixed, NEW sent, NEW built, NEW expired,
         y = [mixed |-> mixed, sent |-> sent, built |-> built, expired |-> expired]
  PROVE  RunIs(y, mixed, sent)
BY DEF RunIs, IsRun

LEMMA RunShape ==
  ASSUME NEW r, IsRun(r), NEW y, NEW v, NEW m
  PROVE  /\ y = [r EXCEPT !.sent = v, !.mixed = m] => RunIs(y, m, v)
         /\ y = [r EXCEPT !.mixed = m] => RunIs(y, m, r.sent)
         /\ y = [r EXCEPT !.sent = v] => RunIs(y, r.mixed, v)
         /\ y = [r EXCEPT !.built = v] \/ y = [r EXCEPT !.expired = v] =>
              RunIs(y, r.mixed, r.sent)
<1>0. r = [mixed |-> r.mixed, sent |-> r.sent, built |-> r.built, expired |-> r.expired]
  BY DEF IsRun
<1>1. ASSUME y = [r EXCEPT !.sent = v, !.mixed = m]
      PROVE  RunIs(y, m, v)
  <2>1. y = [mixed |-> m, sent |-> v, built |-> r.built, expired |-> r.expired]
    BY <1>0, <1>1
  <2> QED BY <2>1, RunIsBy
<1>2. ASSUME y = [r EXCEPT !.mixed = m]
      PROVE  RunIs(y, m, r.sent)
  <2>1. y = [mixed |-> m, sent |-> r.sent, built |-> r.built, expired |-> r.expired]
    BY <1>0, <1>2
  <2> QED BY <2>1, RunIsBy
<1>3. ASSUME y = [r EXCEPT !.sent = v]
      PROVE  RunIs(y, r.mixed, v)
  <2>1. y = [mixed |-> r.mixed, sent |-> v, built |-> r.built, expired |-> r.expired]
    BY <1>0, <1>3
  <2> QED BY <2>1, RunIsBy
<1>4. ASSUME y = [r EXCEPT !.built = v]
      PROVE  RunIs(y, r.mixed, r.sent)
  <2>1. y = [mixed |-> r.mixed, sent |-> r.sent, built |-> v, expired |-> r.expired]
    BY <1>0, <1>4
  <2> QED BY <2>1, RunIsBy
<1>5. ASSUME y = [r EXCEPT !.expired = v]
      PROVE  RunIs(y, r.mixed, r.sent)
  <2>1. y = [mixed |-> r.mixed, sent |-> r.sent, built |-> r.built, expired |-> v]
    BY <1>0, <1>5
  <2> QED BY <2>1, RunIsBy
<1> QED BY <1>1, <1>2, <1>3, <1>4, <1>5

LEMMA KilledNext ==
  ASSUME FundInv, Killed, IsTour(tour'), UNCHANGED payee
  PROVE  FundInv'
<1>1. /\ job' = [k \in Callers |-> NoCall]
      /\ \A k \in Callers : job'[k] = NoCall
  BY DEF Killed
<1>2. \A k \in Callers : job'[k].pc = "idle" /\ JobOK(job'[k], payee')
  BY <1>1, NoCallOK
<1>3. IsProc(proc')
  BY NothingShape DEF Killed
<1>4. \/ UNCHANGED <<store, run>>
      \/ store' = [records |-> Nothing, reservations |-> Nothing]
         /\ run' = [run EXCEPT !.sent = {}, !.mixed = FALSE]
  BY DEF Killed
<1>0. IsRun(run) /\ IsStore(store)
  BY DEF FundInv, FundTypeOK
<1>10. run' = run \/ RunIs(run', FALSE, {})
  BY <1>0, <1>4, RunShape
<1>5. /\ IsStore(store') /\ IsRun(run')
      /\ \A d \in Deliveries : store'.records[d] \in {store.records[d], NoEntry}
  BY <1>0, <1>4, <1>10, NothingShape DEF RunIs
<1>6. FundTypeOK'
  BY <1>1, <1>3, <1>5 DEF FundInv, FundTypeOK
<1>7. RecordsOK'
  BY <1>5, DuesStand, RecordsStep DEF FundInv
<1>8. ProcessOK'
  BY <1>2 DEF ProcessOK
<1>9. ASSUME ~run'.mixed PROVE RunOK'
  <2>1. \A s \in run'.sent : s.d \in Deliveries /\ Recorded(s, store'.records)
    <3>1. CASE UNCHANGED <<store, run>>
      <4>1. RunOK
        BY <1>9, <3>1 DEF FundInv
      <4>2. \A s \in run.sent : s.d \in Deliveries /\ Recorded(s, store.records)
        BY <4>1 DEF RunOK
      <4>3. run' = run /\ store' = store
        BY <3>1
      <4> QED BY <4>2, <4>3
    <3>2. CASE run' = [run EXCEPT !.sent = {}, !.mixed = FALSE]
      <4>1. RunIs(run', FALSE, {})
        BY <1>0, <3>2, RunShape
      <4>2. run'.sent = {}
        BY <4>1 DEF RunIs
      <4> QED BY <4>2
    <3> QED BY <1>4, <3>1, <3>2
  <2>2. \A k \in Callers : job'[k].pc \notin Owning /\ job'[k].pc \notin Clearing
    BY <1>2, OwningPcs
  <2> QED BY <2>1, <2>2, RunRests
<1> QED BY <1>2, <1>6, <1>7, <1>8, <1>9 DEF FundInv

LEMMA CheckpointNext ==
  ASSUME FundInv, NEW c \in Callers, Checkpoint(c)
  PROVE  FundInv'
<1> DEFINE pc == AfterBoundary(job[c].pc)
<1>1. /\ job[c].pc \in Boundaries /\ UNCHANGED <<tour, payee>>
      /\ Killed \/ (GoTo(c, pc) /\ UNCHANGED <<proc, store, run>>)
  BY DEF Checkpoint
<1>2. /\ job[c].pc \in Owning /\ job[c].pc \notin {"send", "finish"}
      /\ pc \in Unrecorded \cup Carrying
      /\ pc \in Unrecorded => job[c].pc \in Unrecorded
      /\ pc \in Carrying => job[c].pc \in Carrying
      /\ pc \in Replied => job[c].pc \in Replied
  BY <1>1 DEF Boundaries, AfterBoundary, Owning, Unrecorded, Carrying, Replied
<1> HIDE DEF pc
<1>3. CASE Killed
  BY <1>1, <1>3, KilledNext, Unmoved
<1>4. CASE GoTo(c, pc) /\ UNCHANGED <<proc, store, run>>
  <2> DEFINE y == [job[c] EXCEPT !.pc = pc]
  <2>1. Becomes(c, y) /\ Turned(job[c], y, pc, job[c].record, job[c].receipt)
    BY <1>4, TurnedPc, IsAJob DEF GoTo
  <2> HIDE DEF y
  <2> QED BY <1>1, <1>2, <1>4, <2>1, CallMoves, Unmoved
<1> QED BY <1>1, <1>3, <1>4

\* A step of caller c from pc to next, without a payload yet.
LEMMA PreparingMoves ==
  ASSUME FundInv, NEW c \in Callers, job[c].pc \in Unrecorded, NEW y, Becomes(c, y),
         NEW pc \in Unrecorded, Turned(job[c], y, pc, job[c].record, job[c].receipt),
         UNCHANGED tour, IsProc(proc'), proc'.up = proc.up,
         proc'.lock = proc.lock, proc'.inflight = proc.inflight,
         IsStore(store'), store'.records = store.records, UNCHANGED <<payee, run>>
  PROVE  FundInv'
<1>1. /\ job[c].pc \in Owning /\ job[c].pc \notin {"send", "finish"}
      /\ pc \notin Carrying /\ pc \notin Replied
  BY OwningPcs DEF Unrecorded
<1> QED BY <1>1, CallMoves, Unmoved

LEMMA ReserveNext ==
  ASSUME FundInv, NEW c \in Callers, SenderReserve(c)
  PROVE  FundInv'
<1>1. /\ job[c].pc = "reserve" /\ UNCHANGED <<tour, store, payee, run>>
      /\ \/ Fail(c)
         \/ /\ UNCHANGED proc
            /\ \E h : \/ Becomes(c, [job[c] EXCEPT !.held = h,
                           !.pc = "sender_after_reservation_before_payload_persistence"])
                      \/ Becomes(c, [job[c] EXCEPT !.pc = "evidence", !.held = h])
                      \/ Becomes(c, [job[c] EXCEPT !.pc = "client", !.seen = h])
  BY DEF SenderReserve, AtPc, Outside
<1>2. job[c].pc \in Unrecorded /\ job[c].pc \in Owning
  BY <1>1, OwningPcs DEF Unrecorded
<1>3. /\ "sender_after_reservation_before_payload_persistence" \in Unrecorded
      /\ "evidence" \in Unrecorded /\ "client" \in Unrecorded
  BY DEF Unrecorded
<1>4. CASE Fail(c)
  BY <1>1, <1>2, <1>4, CallFails, Unmoved
<1>5. ASSUME UNCHANGED proc, NEW h,
             Becomes(c, [job[c] EXCEPT !.held = h, !.pc = "sender_after_reservation_before_payload_persistence"])
      PROVE  FundInv'
  <2> DEFINE y == [job[c] EXCEPT !.held = h, !.pc = "sender_after_reservation_before_payload_persistence"]
  <2>1. Turned(job[c], y, "sender_after_reservation_before_payload_persistence", job[c].record, job[c].receipt)
    BY TurnedPc, IsAJob
  <2>2. Becomes(c, y)
    BY <1>5
  <2> HIDE DEF y
  <2> QED BY <1>1, <1>2, <1>3, <1>5, <2>1, <2>2, PreparingMoves, Unmoved
<1>6. ASSUME UNCHANGED proc, NEW h,
             Becomes(c, [job[c] EXCEPT !.pc = "evidence", !.held = h])
      PROVE  FundInv'
  <2> DEFINE y == [job[c] EXCEPT !.pc = "evidence", !.held = h]
  <2>1. Turned(job[c], y, "evidence", job[c].record, job[c].receipt)
    BY TurnedPc, IsAJob
  <2>2. Becomes(c, y)
    BY <1>6
  <2> HIDE DEF y
  <2> QED BY <1>1, <1>2, <1>3, <1>6, <2>1, <2>2, PreparingMoves, Unmoved
<1>7. ASSUME UNCHANGED proc, NEW h,
             Becomes(c, [job[c] EXCEPT !.pc = "client", !.seen = h])
      PROVE  FundInv'
  <2> DEFINE y == [job[c] EXCEPT !.pc = "client", !.seen = h]
  <2>1. Turned(job[c], y, "client", job[c].record, job[c].receipt)
    BY TurnedPc, IsAJob
  <2>2. Becomes(c, y)
    BY <1>7
  <2> HIDE DEF y
  <2> QED BY <1>1, <1>2, <1>3, <1>7, <2>1, <2>2, PreparingMoves, Unmoved
<1> QED BY <1>1, <1>4, <1>5, <1>6, <1>7

LEMMA ReservedShape ==
  ASSUME NEW p, IsProc(p), NEW q, NEW a, NEW r, q = [p EXCEPT !.available = a, !.reserved = r]
  PROVE  IsProc(q) /\ q.up = p.up /\ q.lock = p.lock /\ q.inflight = p.inflight
<1>1. p = [up |-> p.up, seeded |-> p.seeded, ordinal |-> p.ordinal, inflight |-> p.inflight,
           funded |-> p.funded, available |-> p.available, reserved |-> p.reserved,
           lock |-> p.lock]
  BY DEF IsProc
<1>2. q = [up |-> p.up, seeded |-> p.seeded, ordinal |-> p.ordinal, inflight |-> p.inflight,
           funded |-> p.funded, available |-> a, reserved |-> r, lock |-> p.lock]
  BY <1>1
<1>3. /\ q.up = p.up /\ q.lock = p.lock /\ q.inflight = p.inflight /\ q.ordinal = p.ordinal
      /\ q = [up |-> q.up, seeded |-> q.seeded, ordinal |-> q.ordinal, inflight |-> q.inflight,
              funded |-> q.funded, available |-> q.available, reserved |-> q.reserved,
              lock |-> q.lock]
  BY <1>2
<1> QED BY <1>3 DEF IsProc

LEMMA WalletSendNext ==
  ASSUME FundInv, NEW c \in Callers, WalletSend(c)
  PROVE  FundInv'
<1> DEFINE h == Given(job[c].seen)
           y == [job[c] EXCEPT !.pc = "evidence", !.held = h]
           a == job[c].seen \ {Chosen(job[c].seen)}
           r == [proc.reserved EXCEPT ![job[c].d] = h]
<1>1. /\ job[c].pc = "client" /\ UNCHANGED <<store, payee, run>>
      /\ \/ /\ UNCHANGED tour /\ Becomes(c, y)
            /\ proc' = [proc EXCEPT !.available = a, !.reserved[job[c].d] = h]
         \/ Fail(c) /\ UNCHANGED tour
         \/ Fail(c) /\ Lose
  BY DEF WalletSend, AtPc
<1>2. job[c].pc \in Unrecorded /\ job[c].pc \in Owning /\ "evidence" \in Unrecorded
  BY <1>1, OwningPcs DEF Unrecorded
<1>3. CASE Fail(c) /\ UNCHANGED tour
  BY <1>1, <1>2, <1>3, CallFails, Unmoved
<1>4. CASE Fail(c) /\ Lose
  <2>1. IsTour(tour') /\ tour'.adapter = tour.adapter
    BY <1>4, TourFaults DEF Lose, FundInv, FundTypeOK
  <2> QED BY <1>1, <1>2, <1>4, <2>1, CallFails
<1>5. CASE /\ UNCHANGED tour /\ Becomes(c, y)
           /\ proc' = [proc EXCEPT !.available = a, !.reserved[job[c].d] = h]
  <2>1. Turned(job[c], y, "evidence", job[c].record, job[c].receipt)
    BY TurnedPc, IsAJob
  <2>2. proc' = [proc EXCEPT !.available = a, !.reserved = r]
    BY <1>5 DEF FundInv, FundTypeOK, IsProc
  <2> HIDE DEF y, a, r, h
  <2>3. /\ IsProc(proc') /\ proc'.up = proc.up /\ proc'.lock = proc.lock
        /\ proc'.inflight = proc.inflight
    BY <2>2, ReservedShape DEF FundInv, FundTypeOK
  <2> QED BY <1>1, <1>2, <1>5, <2>1, <2>3, PreparingMoves, Unmoved
<1> QED BY <1>1, <1>3, <1>4, <1>5

LEMMA EvidenceNext ==
  ASSUME FundInv, NEW c \in Callers, WalletEvidence(c)
  PROVE  FundInv'
<1> DEFINE v == [bill |-> job[c].call.bill, proofs |-> job[c].held]
           y == [job[c] EXCEPT !.pc = "keep", !.held = v]
<1>1. /\ job[c].pc = "evidence" /\ UNCHANGED <<tour, store, payee, run>>
      /\ Fail(c) \/ (UNCHANGED proc /\ Becomes(c, y))
  BY IsAJob DEF WalletEvidence, AtPc, Outside, IsJob
<1>2. job[c].pc \in Unrecorded /\ job[c].pc \in Owning /\ "keep" \in Unrecorded
  BY <1>1, OwningPcs DEF Unrecorded
<1>3. Turned(job[c], y, "keep", job[c].record, job[c].receipt)
  BY TurnedPc, IsAJob
<1> HIDE DEF y
<1>4. CASE Fail(c)
  BY <1>1, <1>2, <1>4, CallFails, Unmoved
<1>5. CASE UNCHANGED proc /\ Becomes(c, y)
  BY <1>1, <1>2, <1>3, <1>5, PreparingMoves, Unmoved
<1> QED BY <1>1, <1>4, <1>5

LEMMA ReservationShape ==
  ASSUME IsStore(store), NEW d, NEW held, NEW s, s = PutReservation(d, held)
  PROVE  IsStore(s) /\ s.records = store.records
<1>1. CASE s = store
  BY <1>1
<1>2. CASE s = [store EXCEPT !.reservations[d] = held]
  <2> DEFINE r == [store.reservations EXCEPT ![d] = held]
  <2>1. s = [records |-> store.records, reservations |-> r]
    BY <1>2 DEF IsStore
  <2> HIDE DEF r
  <2>2. s.records = store.records /\ s = [records |-> s.records, reservations |-> s.reservations]
    BY <2>1
  <2> QED BY <2>2 DEF IsStore
<1> QED BY <1>1, <1>2 DEF PutReservation

\* A call goes to the next step and keeps what it has.
LEMMA GoToTurns ==
  ASSUME FundInv, NEW c \in Callers, NEW pc, GoTo(c, pc)
  PROVE  \E y : Becomes(c, y) /\ Turned(job[c], y, pc, job[c].record, job[c].receipt)
<1> DEFINE y == [job[c] EXCEPT !.pc = pc]
<1>1. Becomes(c, y) /\ Turned(job[c], y, pc, job[c].record, job[c].receipt)
  BY TurnedPc, IsAJob DEF GoTo
<1> QED BY <1>1

LEMMA KeepNext ==
  ASSUME FundInv, NEW c \in Callers, Keep(c)
  PROVE  FundInv'
<1> DEFINE pc == IF Persistent THEN "verify"
                 ELSE "sender_after_reservation_before_payload_persistence"
<1>1. /\ job[c].pc = "keep" /\ UNCHANGED <<tour, payee, run>>
      /\ \/ Fail(c) /\ UNCHANGED store
         \/ store' = PutReservation(job[c].d, job[c].held) /\ GoTo(c, pc) /\ UNCHANGED proc
  BY DEF Keep, AtPc, Outside
<1>2. job[c].pc \in Unrecorded /\ job[c].pc \in Owning /\ pc \in Unrecorded
  BY <1>1, OwningPcs DEF Unrecorded
<1> HIDE DEF pc
<1>3. CASE Fail(c) /\ UNCHANGED store
  BY <1>1, <1>2, <1>3, CallFails, Unmoved
<1>4. CASE store' = PutReservation(job[c].d, job[c].held) /\ GoTo(c, pc) /\ UNCHANGED proc
  <2>1. IsStore(store') /\ store'.records = store.records
    BY <1>4, ReservationShape DEF FundInv, FundTypeOK
  <2>2. PICK y : Becomes(c, y) /\ Turned(job[c], y, pc, job[c].record, job[c].receipt)
    BY <1>4, GoToTurns
  <2> QED BY <1>1, <1>2, <1>4, <2>1, <2>2, PreparingMoves, Unmoved
<1> QED BY <1>1, <1>3, <1>4

LEMMA VerifyNext ==
  ASSUME FundInv, NEW c \in Callers, Verify(c)
  PROVE  FundInv'
<1> DEFINE pc == "sender_after_reservation_before_payload_persistence"
<1>1. /\ job[c].pc = "verify" /\ UNCHANGED <<tour, store, payee, run>>
      /\ Fail(c) \/ (UNCHANGED proc /\ GoTo(c, pc))
  BY DEF Verify, AtPc, Outside
<1>2. job[c].pc \in Unrecorded /\ job[c].pc \in Owning /\ pc \in Unrecorded
  BY <1>1, OwningPcs DEF Unrecorded
<1> HIDE DEF pc
<1>3. CASE Fail(c)
  BY <1>1, <1>2, <1>3, CallFails, Unmoved
<1>4. CASE UNCHANGED proc /\ GoTo(c, pc)
  <2>1. PICK y : Becomes(c, y) /\ Turned(job[c], y, pc, job[c].record, job[c].receipt)
    BY <1>4, GoToTurns
  <2> QED BY <1>1, <1>2, <1>4, <2>1, PreparingMoves, Unmoved
<1> QED BY <1>1, <1>3, <1>4

LEMMA StoreFailsNext ==
  ASSUME FundInv, NEW c \in Callers, StoreFails(c)
  PROVE  FundInv'
<1>1. /\ job[c].pc \in {"read", "reserve", "keep", "verify", "persist", "attempt", "finish"}
      /\ Lose /\ Fail(c) /\ UNCHANGED <<store, payee, run>>
  BY DEF StoreFails, Outside
<1>2. job[c].pc \in Owning
  BY <1>1 DEF Owning, Unrecorded, Carrying, Replied
<1>3. IsTour(tour') /\ tour'.adapter = tour.adapter
  BY <1>1, TourFaults DEF Lose, FundInv, FundTypeOK
<1> QED BY <1>1, <1>2, <1>3, CallFails

-----------------------------------------------------------------------------
(* The steps that write the record of their delivery.                        *)

LEMMA NewRecordOK ==
  ASSUME NEW due, NEW bill, NEW proofs, NEW stamp
  PROVE  RecordOK(due, NewRecord(bill, proofs, stamp)) /\ NewRecord(bill, proofs, stamp) # NoEntry
<1> DEFINE r == NewRecord(bill, proofs, stamp)
<1>1. IsRecord(r) /\ r.spent = FALSE /\ r.receipt = NoEntry
  BY DEF NewRecord, IsRecord
<1> HIDE DEF r
<1> QED BY <1>1, EntriesAreEntries DEF RecordOK, r

LEMMA RecordWritten ==
  ASSUME FundInv, NEW c \in Callers, job[c].pc \in {"persist", "attempt"}, NEW y, Becomes(c, y),
         NEW pc \in Carrying \ Replied, NEW r, Turned(job[c], y, pc, r, job[c].receipt),
         RecordOK(payee[job[c].d], r), Put(job[c].d, r),
         job[c].pc = "attempt" => r.payload = job[c].record.payload,
         UNCHANGED <<tour, proc, payee>>, RunIs(run', run.mixed, run.sent)
  PROVE  FundInv'
<1> DEFINE d == job[c].d
<1>1. /\ job[c].pc \in Owning /\ ~Cdk
      /\ job[c].pc = "persist" => job[c].pc \in Unrecorded
      /\ job[c].pc = "attempt" => job[c].pc \in Carrying
  BY DEF Owning, Unrecorded, Carrying, FundInv, ProcessOK
<1>2. d \in Deliveries /\ r # NoEntry
  BY <1>1, EntriesAreEntries DEF FundInv, JobOK, RecordOK
<1>3. /\ IsStore(store') /\ store'.records[d] = r
      /\ \A e \in Deliveries : e # d => store'.records[e] = store.records[e]
  BY <1>2, PutShape DEF FundInv, FundTypeOK
<1>4. job' = [k \in Callers |-> job'[k]] /\ Others(c) /\ job'[c] = y
  BY BecomesFacts
<1>5. IsRun(run') /\ run'.mixed = run.mixed /\ run'.sent = run.sent
  BY DEF RunIs
<1>6. FundTypeOK' /\ DuesGrow
  BY <1>3, <1>4, <1>5, DuesStand DEF FundInv, FundTypeOK
<1>7. /\ y.pc = pc /\ y.d = d /\ y.record = r /\ y.call = job[c].call /\ IsJob(y)
      /\ y.pc \in Owning /\ y.pc \in Carrying /\ y.pc \notin Replied /\ y.pc \notin Unrecorded
  BY OwningPcs DEF Turned
<1>8. JobOK(y, payee')
  BY <1>1, <1>2, <1>7, OwningPcs DEF JobOK, FundInv
<1>9. WritesOnly(d) /\ SendsOwn(d)
  BY <1>3, <1>5 DEF WritesOnly, SendsOwn
<1>10. ASSUME ~run.mixed PROVE KeepsPayload(d) /\ Copied(y, store'.records)
  <2>1. Copied(job[c], store.records)
    BY <1>10 DEF FundInv, RunOK
  <2>2. KeepsPayload(d)
    BY <1>1, <1>2, <1>3, <2>1 DEF KeepsPayload, Copied
  <2>3. Copied(y, store'.records)
    BY <1>2, <1>3, <1>7 DEF Copied
  <2> QED BY <2>2, <2>3
<1> QED BY <1>1, <1>4, <1>5, <1>6, <1>7, <1>8, <1>9, <1>10, OwnerMoves

LEMMA PersistNext ==
  ASSUME FundInv, NEW c \in Callers, Persist(c)
  PROVE  FundInv'
<1> DEFINE r == NewRecord(job[c].call.bill, job[c].held.proofs, run.built + 1)
           pc == "sender_after_payload_persistence_before_network_send"
           y == [job[c] EXCEPT !.record = r, !.pc = pc]
           n == run.built + 1
<1>1. /\ job[c].pc = "persist" /\ UNCHANGED <<tour, proc, payee>> /\ Put(job[c].d, r)
      /\ run' = [run EXCEPT !.built = n] /\ Becomes(c, y)
  BY DEF Persist, AtPc
<1>2. RecordOK(payee[job[c].d], r)
  BY NewRecordOK
<1>3. Turned(job[c], y, pc, r, job[c].receipt)
  BY TurnedPc, IsAJob
<1>4. pc \in Carrying \ Replied
  BY DEF Carrying, Replied
<1> HIDE DEF r, pc, y, n
<1>5. RunIs(run', run.mixed, run.sent)
  BY <1>1, RunShape DEF FundInv, FundTypeOK
<1> QED BY <1>1, <1>2, <1>3, <1>4, <1>5, RecordWritten

LEMMA CountedOK ==
  ASSUME NEW due, NEW r, RecordOK(due, r), NEW n, NEW q, q = [r EXCEPT !.attempts = n]
  PROVE  RecordOK(due, q) /\ q.payload = r.payload
<1>1. r = [bill |-> r.bill, payload |-> r.payload, attempts |-> r.attempts,
           receipt |-> r.receipt, spent |-> r.spent]
  BY DEF RecordOK, IsRecord
<1>2. q = [bill |-> r.bill, payload |-> r.payload, attempts |-> n,
           receipt |-> r.receipt, spent |-> r.spent]
  BY <1>1
<1>3. q.payload = r.payload /\ q.receipt = r.receipt /\ q.spent = r.spent /\ IsRecord(q)
  BY <1>2 DEF IsRecord
<1> QED BY <1>3 DEF RecordOK

LEMMA AttemptNext ==
  ASSUME FundInv, NEW c \in Callers, Attempt(c)
  PROVE  FundInv'
<1> DEFINE n == job[c].record.attempts + 1
           r == [job[c].record EXCEPT !.attempts = n]
           y == [job[c] EXCEPT !.record = r, !.pc = "send"]
<1>1. RecordOK(payee[job[c].d], job[c].record) \/ job[c].pc # "attempt"
  BY DEF FundInv, JobOK, Carrying
<1>2. /\ job[c].pc = "attempt" /\ UNCHANGED <<tour, proc, payee, run>>
  BY DEF Attempt, AtPc, Outside
<1>3. [job[c].record EXCEPT !.attempts = @ + 1] = r
  BY <1>1, <1>2 DEF RecordOK, IsRecord
<1>4. Put(job[c].d, r) /\ Becomes(c, y)
  BY <1>3 DEF Attempt
<1>5. RecordOK(payee[job[c].d], r) /\ r.payload = job[c].record.payload
  BY <1>1, <1>2, CountedOK
<1>6. Turned(job[c], y, "send", r, job[c].receipt)
  BY TurnedPc, IsAJob
<1>7. "send" \in Carrying \ Replied
  BY DEF Carrying, Replied
<1>8. RunIs(run', run.mixed, run.sent)
  BY <1>2 DEF FundInv, FundTypeOK, RunIs
<1> HIDE DEF r, y, n
<1> QED BY <1>2, <1>4, <1>5, <1>6, <1>7, <1>8, RecordWritten

LEMMA ArrivalGrows ==
  ASSUME Due(payee), NEW d, NEW p, payee' = Arrives(d, p)
  PROVE  /\ Due(payee') /\ DuesGrow
         /\ d \in Deliveries /\ ~Refused(d, p) =>
              /\ ReplyOK(payee'[d], payee'[d]) /\ payee'[d] # NoEntry
              /\ payee'[d].payload = p
<1> DEFINE q == [payload |-> p, status |-> "processing"]
<1>0. IsReceipt(q) /\ q.payload = p /\ q.status \in {"processing", "settled", "rejected"}
  BY DEF IsReceipt
<1> HIDE DEF q
<1>1. CASE payee[d] # NoEntry
  <2>1. payee' = payee
    BY <1>1 DEF Arrives
  <2> QED BY <1>1, <2>1 DEF DuesGrow, Grows, Due, ReplyOK, Refused
<1>2. CASE payee[d] = NoEntry
  <2>1. payee' = [payee EXCEPT ![d] = q]
    BY <1>2 DEF Arrives, q
  <2>2. \A e \in Deliveries : e # d => payee'[e] = payee[e]
    BY <2>1 DEF Due
  <2>3. d \in Deliveries => payee'[d] = q
    BY <2>1 DEF Due
  <2>4. payee' = [e \in Deliveries |-> payee'[e]]
    BY <2>1 DEF Due
  <2>5. Due(payee')
    BY <1>0, <2>2, <2>3, <2>4 DEF Due
  <2>6. DuesGrow
    BY <1>2, <2>2 DEF DuesGrow, Grows
  <2> QED BY <1>0, <2>3, <2>5, <2>6, EntriesAreEntries DEF ReplyOK
<1> QED BY <1>1, <1>2

\* What is sent is the payload on record.
LEMMA SentShape ==
  ASSUME FundInv, NEW c \in Callers, job[c].pc = "send", Sent(c), UNCHANGED store
  PROVE  /\ job[c].pc \in Owning /\ job[c].pc \in Carrying /\ job[c].d \in Deliveries
         /\ IsRun(run') /\ run'.mixed = run.mixed
         /\ WritesOnly(job[c].d) /\ KeepsPayload(job[c].d)
         /\ ~run.mixed => SendsOwn(job[c].d)
<1> DEFINE s == [d |-> job[c].d, payload |-> job[c].record.payload]
           v == run.sent \cup {s}
<1>1. job[c].pc \in Owning /\ job[c].pc \in Carrying /\ job[c].d \in Deliveries
  BY OwningPcs DEF Carrying, FundInv, JobOK
<1>2. run' = [run EXCEPT !.sent = v]
  BY DEF Sent, FundInv, FundTypeOK, IsRun
<1>3. s.d = job[c].d /\ s.payload = job[c].record.payload
  OBVIOUS
<1> HIDE DEF s
<1>4. \A x \in v : x \in run.sent \/ x = s
  OBVIOUS
<1> HIDE DEF v
<1>8. RunIs(run', run.mixed, v)
  BY <1>2, RunShape DEF FundInv, FundTypeOK
<1>5. IsRun(run') /\ run'.mixed = run.mixed /\ run'.sent = v
  BY <1>8 DEF RunIs
<1>6. ASSUME ~run.mixed PROVE SendsOwn(job[c].d)
  <2>1. Copied(job[c], store.records)
    BY <1>6 DEF FundInv, RunOK
  <2>2. Recorded(s, store'.records)
    BY <1>1, <1>3, <2>1 DEF Copied, Recorded
  <2> QED BY <1>3, <1>4, <1>5, <2>2 DEF SendsOwn
<1> QED BY <1>1, <1>5, <1>6 DEF WritesOnly, KeepsPayload

LEMMA TransportNext ==
  ASSUME FundInv, NEW c \in Callers, Transport(c)
  PROVE  FundInv'
<1> DEFINE d == job[c].d
           p == job[c].record.payload
           pc == IF Cdk THEN "finish" ELSE "sender_after_send_before_response"
           v == Arrives(d, p)[d]
           y == [job[c] EXCEPT !.receipt = v, !.pc = pc]
<1>1. /\ job[c].pc = "send" /\ Sent(c) /\ UNCHANGED store
      /\ \/ /\ ~Refused(d, p) /\ payee' = Arrives(d, p) /\ Becomes(c, y)
            /\ UNCHANGED <<tour, proc>>
         \/ Fail(c) /\ UNCHANGED payee /\ (UNCHANGED tour \/ Lose)
  BY DEF Transport, AtPc
<1>2. /\ job[c].pc \in Owning /\ job[c].pc \in Carrying /\ d \in Deliveries
      /\ IsRun(run') /\ run'.mixed = run.mixed
      /\ WritesOnly(d) /\ KeepsPayload(d) /\ (~run.mixed => SendsOwn(d))
  BY <1>1, SentShape
<1>3. CASE Fail(c) /\ UNCHANGED payee /\ (UNCHANGED tour \/ Lose)
  <2>1. IsTour(tour') /\ tour'.adapter = tour.adapter
    <3>1. CASE UNCHANGED tour
      BY <3>1, Unmoved
    <3>2. CASE Lose
      BY <3>2, TourFaults DEF Lose, FundInv, FundTypeOK
    <3> QED BY <1>3, <3>1, <3>2
  <2>2. IsStore(store') /\ Due(payee') /\ DuesGrow
    BY <1>1, <1>3, DuesStand DEF FundInv, FundTypeOK
  <2> QED BY <1>2, <1>3, <2>1, <2>2, OwnerLeaves
<1>4. CASE /\ ~Refused(d, p) /\ payee' = Arrives(d, p) /\ Becomes(c, y)
           /\ UNCHANGED <<tour, proc>>
  <2>0. Due(payee) /\ payee'[d] = v
    BY <1>4 DEF FundInv, FundTypeOK
  <2>1. Due(payee') /\ DuesGrow /\ ReplyOK(payee'[d], payee'[d]) /\ payee'[d] = v
    BY <1>2, <1>4, <2>0, ArrivalGrows
  <2>2. Turned(job[c], y, pc, job[c].record, v)
    BY TurnedPc, IsAJob
  <2>3. /\ pc \in Owning /\ pc \in Carrying /\ pc \in Replied /\ pc \notin Unrecorded
        /\ Cdk => pc \in {"send", "finish"}
    BY OwningPcs DEF Replied
  <2> HIDE DEF y, pc, v
  <2>4. job' = [k \in Callers |-> job'[k]] /\ Others(c) /\ job'[c] = y
    BY <1>4, BecomesFacts
  <2>5. FundTypeOK'
    BY <1>1, <1>2, <1>4, <2>1, <2>4 DEF FundInv, FundTypeOK
  <2>6. /\ y.pc = pc /\ y.d = d /\ y.record = job[c].record /\ y.call = job[c].call /\ IsJob(y)
        /\ y.receipt = v
    BY <2>2 DEF Turned
  <2>7. RecordOK(payee'[d], job[c].record)
    BY <1>2, <2>1, RecordGrows DEF FundInv, JobOK, DuesGrow
  <2>8. JobOK(y, payee')
    BY <1>2, <2>1, <2>3, <2>6, <2>7, OwningPcs DEF JobOK, FundInv
  <2>9. ASSUME ~run.mixed PROVE Copied(y, store'.records)
    <3>1. Copied(job[c], store.records)
      BY <2>9 DEF FundInv, RunOK
    <3> QED BY <1>1, <1>2, <2>3, <2>6, <3>1 DEF Copied
  <2> QED BY <1>2, <1>4, <2>1, <2>3, <2>4, <2>5, <2>6, <2>8, <2>9, OwnerMoves
<1> QED BY <1>1, <1>3, <1>4

LEMMA UpdatedOK ==
  ASSUME NEW due, NEW r, RecordOK(due, r), NEW a, ReplyOK(due, a), a.payload = r.payload,
         ~Regresses(r.receipt, a), NEW q, q = Updated(r, a)
  PROVE  RecordOK(due, q) /\ q.payload = r.payload
<1> DEFINE b == r.spent \/ a.status = "settled"
<1>1. r = [bill |-> r.bill, payload |-> r.payload, attempts |-> r.attempts,
           receipt |-> r.receipt, spent |-> r.spent]
  BY DEF RecordOK, IsRecord
<1>2. q = [r EXCEPT !.receipt = a, !.spent = b]
  BY <1>1 DEF Updated
<1>3. b \in BOOLEAN /\ (b <=> a.status = "settled")
  <2>1. r.spent => r.receipt = a
    BY DEF RecordOK, Regresses
  <2> QED BY <2>1 DEF RecordOK
<1> HIDE DEF b
<1>4. q = [bill |-> r.bill, payload |-> r.payload, attempts |-> r.attempts,
           receipt |-> a, spent |-> b]
  BY <1>1, <1>2
<1>5. q.payload = r.payload /\ q.receipt = a /\ q.spent = b /\ IsRecord(q)
  BY <1>4 DEF IsRecord
<1>6. a # NoEntry /\ a = [payload |-> a.payload, status |-> a.status]
  BY EntriesAreEntries DEF ReplyOK, IsReceipt
<1>7. a.status # "processing" => due = [payload |-> q.payload, status |-> a.status]
  BY <1>5, <1>6 DEF ReplyOK
<1> QED BY <1>3, <1>5, <1>6, <1>7 DEF RecordOK

LEMMA SenderFinishNext ==
  ASSUME FundInv, NEW c \in Callers, Finish(c)
  PROVE  FundInv'
<1> DEFINE d == job[c].d
           r == job[c].record
           a == job[c].receipt
           q == Updated(r, a)
<1>1. /\ job[c].pc = "finish" /\ UNCHANGED <<tour, payee, run>> /\ Fail(c)
      /\ UNCHANGED store \/ (a.payload = r.payload /\ ~Regresses(r.receipt, a) /\ Put(d, q))
  BY DEF Finish, AtPc, Outside
<1>2. job[c].pc \in Owning /\ job[c].pc \in Carrying /\ job[c].pc \in Replied /\ d \in Deliveries
  BY <1>1, OwningPcs DEF Replied, Carrying, FundInv, JobOK
<1>3. CASE UNCHANGED store
  BY <1>1, <1>2, <1>3, CallFails, Unmoved
<1>4. CASE a.payload = r.payload /\ ~Regresses(r.receipt, a) /\ Put(d, q)
  <2>1. RecordOK(payee[d], r) /\ ReplyOK(payee[d], a)
    BY <1>2 DEF FundInv, JobOK
  <2>2. RecordOK(payee[d], q) /\ q.payload = r.payload
    BY <1>4, <2>1, UpdatedOK
  <2>3. q # NoEntry
    BY <2>2, EntriesAreEntries DEF RecordOK
  <2> HIDE DEF q
  <2>4. /\ IsStore(store') /\ store'.records[d] = q
        /\ \A e \in Deliveries : e # d => store'.records[e] = store.records[e]
    BY <1>2, <1>4, PutShape DEF FundInv, FundTypeOK
  <2>5. WritesOnly(d) /\ SendsOwn(d)
    BY <1>1, <2>2, <2>4 DEF WritesOnly, SendsOwn
  <2>6. ASSUME ~run.mixed PROVE KeepsPayload(d)
    <3>1. Copied(job[c], store.records)
      BY <2>6 DEF FundInv, RunOK
    <3> QED BY <1>2, <2>2, <2>3, <2>4, <3>1 DEF Copied, KeepsPayload
  <2>7. IsTour(tour') /\ IsRun(run') /\ Due(payee') /\ DuesGrow
        /\ tour'.adapter = tour.adapter /\ run'.mixed = run.mixed
    BY <1>1, DuesStand DEF FundInv, FundTypeOK
  <2> QED BY <1>1, <1>2, <2>4, <2>5, <2>6, <2>7, OwnerLeaves
<1> QED BY <1>1, <1>3, <1>4

-----------------------------------------------------------------------------
(* The process and the calls that begin.                                     *)

ProcIs(q, up, lock, inflight) ==
    IsProc(q) /\ q.up = up /\ q.lock = lock /\ q.inflight = inflight

LEMMA ProcIsBy ==
  ASSUME NEW q, NEW up, NEW seeded, NEW n \in Nat, NEW f, f = [d \in Deliveries |-> f[d]],
         NEW funded, NEW available, NEW reserved, NEW lock,
         q = [up |-> up, seeded |-> seeded, ordinal |-> n, inflight |-> f, funded |-> funded,
              available |-> available, reserved |-> reserved, lock |-> lock]
  PROVE  ProcIs(q, up, lock, f)
<1>1. /\ q.up = up /\ q.lock = lock /\ q.inflight = f /\ q.ordinal = n
      /\ q = [up |-> q.up, seeded |-> q.seeded, ordinal |-> q.ordinal, inflight |-> q.inflight,
              funded |-> q.funded, available |-> q.available, reserved |-> q.reserved,
              lock |-> q.lock]
  OBVIOUS
<1> QED BY <1>1 DEF ProcIs, IsProc

\* One field of the process at a time.
LEMMA ProcField ==
  ASSUME NEW p, IsProc(p), NEW q, NEW v
  PROVE  /\ q = [p EXCEPT !.ordinal = v] /\ v \in Nat => ProcIs(q, p.up, p.lock, p.inflight)
         /\ q = [p EXCEPT !.inflight = v] /\ v = [d \in Deliveries |-> v[d]] =>
              ProcIs(q, p.up, p.lock, v)
         /\ q = [p EXCEPT !.lock = v] => ProcIs(q, p.up, v, p.inflight)
         /\ q = [p EXCEPT !.up = v] => ProcIs(q, v, p.lock, p.inflight)
         /\ (\/ q = [p EXCEPT !.seeded = v] \/ q = [p EXCEPT !.funded = v]
             \/ q = [p EXCEPT !.available = v] \/ q = [p EXCEPT !.reserved = v]) =>
              ProcIs(q, p.up, p.lock, p.inflight)
<1>0. /\ p = [up |-> p.up, seeded |-> p.seeded, ordinal |-> p.ordinal, inflight |-> p.inflight,
              funded |-> p.funded, available |-> p.available, reserved |-> p.reserved,
              lock |-> p.lock]
      /\ p.ordinal \in Nat /\ p.inflight = [d \in Deliveries |-> p.inflight[d]]
  BY DEF IsProc
<1>1. ASSUME q = [p EXCEPT !.ordinal = v], v \in Nat
      PROVE  ProcIs(q, p.up, p.lock, p.inflight)
  <2>1. q = [up |-> p.up, seeded |-> p.seeded, ordinal |-> v, inflight |-> p.inflight,
              funded |-> p.funded, available |-> p.available, reserved |-> p.reserved, lock |-> p.lock]
    BY <1>0, <1>1
  <2> QED BY <1>0, <1>1, <2>1, ProcIsBy
<1>2. ASSUME q = [p EXCEPT !.inflight = v], v = [d \in Deliveries |-> v[d]]
      PROVE  ProcIs(q, p.up, p.lock, v)
  <2>1. q = [up |-> p.up, seeded |-> p.seeded, ordinal |-> p.ordinal, inflight |-> v,
              funded |-> p.funded, available |-> p.available, reserved |-> p.reserved, lock |-> p.lock]
    BY <1>0, <1>2
  <2> QED BY <1>0, <1>2, <2>1, ProcIsBy
<1>3. ASSUME q = [p EXCEPT !.lock = v]
      PROVE  ProcIs(q, p.up, v, p.inflight)
  <2>1. q = [up |-> p.up, seeded |-> p.seeded, ordinal |-> p.ordinal, inflight |-> p.inflight,
              funded |-> p.funded, available |-> p.available, reserved |-> p.reserved, lock |-> v]
    BY <1>0, <1>3
  <2> QED BY <1>0, <2>1, ProcIsBy
<1>4. ASSUME q = [p EXCEPT !.up = v]
      PROVE  ProcIs(q, v, p.lock, p.inflight)
  <2>1. q = [up |-> v, seeded |-> p.seeded, ordinal |-> p.ordinal, inflight |-> p.inflight,
              funded |-> p.funded, available |-> p.available, reserved |-> p.reserved, lock |-> p.lock]
    BY <1>0, <1>4
  <2> QED BY <1>0, <2>1, ProcIsBy
<1>5. ASSUME q = [p EXCEPT !.seeded = v]
      PROVE  ProcIs(q, p.up, p.lock, p.inflight)
  <2>1. q = [up |-> p.up, seeded |-> v, ordinal |-> p.ordinal, inflight |-> p.inflight,
              funded |-> p.funded, available |-> p.available, reserved |-> p.reserved, lock |-> p.lock]
    BY <1>0, <1>5
  <2> QED BY <1>0, <2>1, ProcIsBy
<1>6. ASSUME q = [p EXCEPT !.funded = v]
      PROVE  ProcIs(q, p.up, p.lock, p.inflight)
  <2>1. q = [up |-> p.up, seeded |-> p.seeded, ordinal |-> p.ordinal, inflight |-> p.inflight,
              funded |-> v, available |-> p.available, reserved |-> p.reserved, lock |-> p.lock]
    BY <1>0, <1>6
  <2> QED BY <1>0, <2>1, ProcIsBy
<1>7. ASSUME q = [p EXCEPT !.available = v]
      PROVE  ProcIs(q, p.up, p.lock, p.inflight)
  <2>1. q = [up |-> p.up, seeded |-> p.seeded, ordinal |-> p.ordinal, inflight |-> p.inflight,
              funded |-> p.funded, available |-> v, reserved |-> p.reserved, lock |-> p.lock]
    BY <1>0, <1>7
  <2> QED BY <1>0, <2>1, ProcIsBy
<1>8. ASSUME q = [p EXCEPT !.reserved = v]
      PROVE  ProcIs(q, p.up, p.lock, p.inflight)
  <2>1. q = [up |-> p.up, seeded |-> p.seeded, ordinal |-> p.ordinal, inflight |-> p.inflight,
              funded |-> p.funded, available |-> p.available, reserved |-> v, lock |-> p.lock]
    BY <1>0, <1>8
  <2> QED BY <1>0, <2>1, ProcIsBy
<1> QED BY <1>1, <1>2, <1>3, <1>4, <1>5, <1>6, <1>7, <1>8

LEMMA OtherField ==
  ASSUME NEW p, NEW up, NEW lock, NEW f, ProcIs(p, up, lock, f), NEW q, NEW v,
         \/ q = [p EXCEPT !.seeded = v] \/ q = [p EXCEPT !.funded = v]
         \/ q = [p EXCEPT !.available = v] \/ q = [p EXCEPT !.reserved = v]
  PROVE  ProcIs(q, up, lock, f)
<1>1. IsProc(p) /\ p.up = up /\ p.lock = lock /\ p.inflight = f
  BY DEF ProcIs
<1>2. ProcIs(q, p.up, p.lock, p.inflight)
  BY <1>1, ProcField
<1> QED BY <1>1, <1>2

\* A wallet that is funded anew, in the process as it is.
LEMMA FundedProc ==
  ASSUME NEW p, IsProc(p), NEW m
  PROVE  ProcIs(Funded(p, m), p.up, p.lock, p.inflight)
<1> DEFINE a == {m.issued + 1, m.issued + 2}
           q == [p EXCEPT !.funded = TRUE]
<1>1. ProcIs(q, p.up, p.lock, p.inflight)
  BY ProcField
<1>2. Funded(p, m) = [q EXCEPT !.available = a]
  BY DEF Funded
<1> HIDE DEF q, a
<1> QED BY <1>1, <1>2, OtherField

\* A process that has just come up.
LEMMA StartedProc ==
  ASSUME NEW m
  PROVE  /\ ProcIs([Down EXCEPT !.up = TRUE], TRUE, Nil, Nothing)
         /\ ProcIs([Funded([Down EXCEPT !.up = TRUE], m) EXCEPT !.seeded = TRUE],
                   TRUE, Nil, Nothing)
<1> DEFINE p == [Down EXCEPT !.up = TRUE]
           q == Funded(p, m)
<1>1. IsProc(Down) /\ Down.inflight = Nothing /\ Down.lock = Nil
  BY NothingShape DEF Down
<1>2. ProcIs(p, TRUE, Nil, Nothing)
  BY <1>1, ProcField
<1> HIDE DEF p
<1>3. ProcIs(q, TRUE, Nil, Nothing)
  BY <1>2, FundedProc DEF ProcIs
<1> HIDE DEF q
<1>4. ProcIs([q EXCEPT !.seeded = TRUE], TRUE, Nil, Nothing)
  BY <1>3, OtherField
<1> QED BY <1>2, <1>4 DEF p, q

-----------------------------------------------------------------------------
(* Steps that no call owns.                                                  *)

\* No call changes.
LEMMA CallsStand ==
  ASSUME FundInv, UNCHANGED <<job, store>>, IsTour(tour'), tour'.adapter = tour.adapter,
         ProcIs(proc', proc.up, proc.lock, proc.inflight), Due(payee'), DuesGrow,
         RunIs(run', run.mixed, run.sent)
  PROVE  FundInv'
<1>1. /\ IsProc(proc') /\ proc'.up = proc.up /\ proc'.lock = proc.lock
      /\ proc'.inflight = proc.inflight
      /\ IsRun(run') /\ run'.mixed = run.mixed /\ run'.sent = run.sent /\ (Cdk' <=> Cdk)
  BY DEF ProcIs, RunIs, Cdk
<1>2. FundTypeOK'
  BY <1>1 DEF FundInv, FundTypeOK
<1>3. \A k \in Callers : JobOK(job'[k], payee')
  BY JobsStand DEF FundInv
<1>4. RecordsOK'
  BY RecordsStep DEF FundInv
<1>5. ProcessOK'
  BY <1>1 DEF FundInv, ProcessOK
<1>6. ASSUME ~run.mixed PROVE RunOK'
  <2>1. RunOK
    BY <1>6 DEF FundInv
  <2>2. \A c \in Callers : Claims(job[c], proc.inflight)' /\ Copied(job[c], store.records)'
    BY <1>1, <2>1 DEF RunOK, Claims, Copied
  <2>3. \A c, k \in Callers : c # k => Apart(job'[c], job'[k])
    BY <2>1 DEF RunOK
  <2>4. \A c \in Callers : job'[c].pc \in Clearing => run'.sent = {} /\ proc'.inflight = Nothing
    BY <1>1, <2>1 DEF RunOK
  <2>5. \A s \in run'.sent : s.d \in Deliveries /\ Recorded(s, store'.records)
    BY <1>1, <2>1 DEF RunOK
  <2> QED BY <2>2, <2>3, <2>4, <2>5 DEF RunOK, Nothing, Deliveries
<1> QED BY <1>1, <1>2, <1>3, <1>4, <1>5, <1>6 DEF FundInv

\* No call is under way.
LEMMA IdleStep ==
  ASSUME FundInv, \A k \in Callers : job[k].pc = "idle", UNCHANGED <<job, payee>>,
         IsTour(tour'), IsProc(proc'), IsStore(store'), IsRun(run'),
         \A d \in Deliveries : store'.records[d] \in {store.records[d], NoEntry},
         ~run'.mixed => \A s \in run'.sent : s.d \in Deliveries /\ Recorded(s, store'.records)
  PROVE  FundInv'
<1>1. FundTypeOK'
  BY DEF FundInv, FundTypeOK
<1>2. \A k \in Callers : JobOK(job'[k], payee')
  BY JobsStand, DuesStand DEF FundInv
<1>3. RecordsOK'
  BY DuesStand, RecordsStep DEF FundInv
<1>4. ProcessOK'
  BY DEF ProcessOK
<1>5. ASSUME ~run'.mixed PROVE RunOK'
  <2>1. \A k \in Callers : job'[k].pc \notin Owning /\ job'[k].pc \notin Clearing
    BY OwningPcs
  <2> QED BY <1>5, <2>1, RunRests
<1> QED BY <1>1, <1>2, <1>3, <1>4, <1>5 DEF FundInv

\* A call that owns no delivery goes on.
LEMMA OutsiderMoves ==
  ASSUME FundInv, ~Cdk, proc.up, NEW c \in Callers, job[c].pc \notin Owning, Others(c), FundTypeOK',
         job'[c].pc \notin Owning, JobOK(job'[c], payee'),
         job'[c].pc \in Clearing => job[c].pc \in Clearing,
         tour'.adapter = tour.adapter, proc'.up = proc.up, proc'.inflight = proc.inflight,
         store'.records = store.records, UNCHANGED payee, UNCHANGED run
  PROVE  FundInv'
<1>1. UNCHANGED Cdk
  BY DEF Cdk
<1>2. \A k \in Callers : JobOK(job'[k], payee')
  BY JobsStep, DuesStand DEF FundInv
<1>3. RecordsOK'
  BY DuesStand, RecordsStep DEF FundInv
<1>4. ProcessOK'
  BY <1>1 DEF ProcessOK
<1>5. ASSUME ~run.mixed PROVE RunOK'
  <2>1. RunOK /\ \A k \in Callers : job[k].pc \in Owning => job[k].d \in Deliveries
    BY <1>5 DEF FundInv, JobOK
  <2>2. Claims(job'[c], proc'.inflight) /\ Copied(job'[c], store'.records)
    BY OwningPcs DEF Claims, Copied
  <2>3. \A s \in run'.sent : s.d \in Deliveries /\ Recorded(s, store'.records)
    BY <2>1 DEF RunOK
  <2> QED BY <1>1, <2>1, <2>2, <2>3, RunStep
<1> QED BY <1>2, <1>3, <1>4, <1>5 DEF FundInv

\* A process with a call is up, and its adapter has one step at a time.
LEMMA CallIsUp ==
  ASSUME FundInv, NEW c \in Callers, job[c].pc \in {"joined"} \cup Clearing
  PROVE  proc.up /\ ~Cdk /\ job[c].pc \notin Owning
BY OwningPcs DEF FundInv, ProcessOK, Clearing

LEMMA JoinedNext ==
  ASSUME FundInv, NEW c \in Callers, Joined(c)
  PROVE  FundInv'
<1>1. job[c].pc = "joined" /\ Becomes(c, NoCall) /\ UNCHANGED <<tour, proc, store, payee, run>>
  BY DEF Joined, AtPc, Outside
<1>2. job' = [k \in Callers |-> job'[k]] /\ Others(c) /\ job'[c] = NoCall
  BY <1>1, BecomesFacts
<1>3. FundTypeOK'
  BY <1>1, <1>2 DEF FundInv, FundTypeOK
<1>4. /\ job'[c].pc \notin Owning /\ job'[c].pc \notin Clearing /\ JobOK(job'[c], payee')
      /\ proc.up /\ ~Cdk /\ job[c].pc \notin Owning
  BY <1>1, <1>2, NoCallOK, OwningPcs, CallIsUp
<1> QED BY <1>1, <1>2, <1>3, <1>4, OutsiderMoves

\* A reset goes on to its step pc, or ends.
LEMMA ResetMoves ==
  ASSUME FundInv, NEW c \in Callers, job[c].pc \in Clearing,
         \/ Becomes(c, NoCall)
         \/ \E pc \in Clearing : GoTo(c, pc),
         IsTour(tour'), tour'.adapter = tour.adapter,
         ProcIs(proc', proc.up, proc.lock, proc.inflight), UNCHANGED <<store, payee, run>>
  PROVE  FundInv'
<1>1. proc.up /\ ~Cdk /\ job[c].pc \notin Owning
  BY CallIsUp
<1>2. PICK y : /\ Becomes(c, y) /\ JobOK(y, payee)
               /\ y.pc \notin Owning
  <2>1. CASE Becomes(c, NoCall)
    <3>1. JobOK(NoCall, payee) /\ NoCall.pc \notin Owning
      BY NoCallOK, OwningPcs
    <3> QED BY <2>1, <3>1
  <2>2. ASSUME NEW pc \in Clearing, GoTo(c, pc)
        PROVE  \E y : Becomes(c, y) /\ JobOK(y, payee) /\ y.pc \notin Owning
    <3>1. PICK y : Becomes(c, y) /\ Turned(job[c], y, pc, job[c].record, job[c].receipt)
      BY <2>2, GoToTurns
    <3>2. job[c].call.op = "reset"
      BY DEF FundInv, JobOK
    <3>3. y.pc = pc /\ y.call = job[c].call /\ IsJob(y)
      BY <3>1 DEF Turned
    <3>4. /\ pc \notin Owning /\ pc \notin Carrying /\ pc \notin Replied
          /\ pc \notin {"joined"} \cup Owning
      BY OwningPcs
    <3>5. JobOK(y, payee)
      BY <3>2, <3>3, <3>4 DEF JobOK
    <3> QED BY <3>1, <3>3, <3>4, <3>5
  <2> QED BY <2>1, <2>2
<1>3. job' = [k \in Callers |-> job'[k]] /\ Others(c) /\ job'[c] = y
  BY <1>2, BecomesFacts
<1>4. IsProc(proc') /\ proc'.up = proc.up /\ proc'.inflight = proc.inflight
  BY DEF ProcIs
<1>5. FundTypeOK'
  BY <1>3, <1>4 DEF FundInv, FundTypeOK
<1> QED BY <1>1, <1>2, <1>3, <1>4, <1>5, OutsiderMoves

LEMMA ClearStoreNext ==
  ASSUME FundInv, NEW c \in Callers, ClearStore(c)
  PROVE  FundInv'
<1>1. /\ job[c].pc = "clear store" /\ GoTo(c, "clear wallet")
      /\ store' = [records |-> Nothing, reservations |-> Nothing]
      /\ UNCHANGED <<tour, proc, payee, run>>
  BY DEF ClearStore, AtPc, Outside
<1>2. PICK y : Becomes(c, y) /\ Turned(job[c], y, "clear wallet", job[c].record, job[c].receipt)
  BY <1>1, GoToTurns
<1>3. job[c].pc \in Clearing /\ "clear wallet" \in Clearing
  BY <1>1 DEF Clearing
<1>4. y.pc = "clear wallet" /\ y.call = job[c].call /\ IsJob(y) /\ job[c].call.op = "reset"
  BY <1>2, <1>3 DEF Turned, FundInv, JobOK
<1>5. JobOK(y, payee)
  <2>1. y.pc \notin Carrying /\ y.pc \notin Replied /\ y.pc \notin {"joined"} \cup Owning
    BY <1>3, <1>4, OwningPcs
  <2> QED BY <1>3, <1>4, <2>1 DEF JobOK
<1>6. job' = [k \in Callers |-> job'[k]] /\ Others(c) /\ job'[c] = y
  BY <1>2, BecomesFacts
<1>7. IsStore(store') /\ \A d \in Deliveries : store'.records[d] = NoEntry
  BY <1>1, NothingShape
<1>8. FundTypeOK'
  BY <1>1, <1>6, <1>7 DEF FundInv, FundTypeOK
<1>9. \A k \in Callers : JobOK(job'[k], payee')
  BY <1>1, <1>5, <1>6, JobsStep, DuesStand DEF FundInv
<1>10. RecordsOK'
  BY <1>1, <1>7, DuesStand, RecordsStep DEF FundInv
<1>11. ProcessOK'
  BY <1>1, <1>3, CallIsUp DEF ProcessOK, Cdk
<1>12. ASSUME ~run.mixed PROVE RunOK'
  <2>1. RunOK
    BY <1>12 DEF FundInv
  <2>2. run.sent = {} /\ proc.inflight = Nothing
    BY <1>3, <2>1 DEF RunOK
  <2>3. \A k \in Callers : k # c => job'[k].pc \notin Owning /\ job'[k].pc \notin Clearing
    BY <1>3, <1>6, <2>1 DEF RunOK, Apart, Others
  <2>4. job'[c].pc \notin Owning
    BY <1>3, <1>4, <1>6, OwningPcs
  <2> QED BY <1>1, <2>2, <2>3, <2>4, RunRests
<1> QED BY <1>1, <1>8, <1>9, <1>10, <1>11, <1>12 DEF FundInv

LEMMA ClearWalletNext ==
  ASSUME FundInv, NEW c \in Callers, ClearWallet(c)
  PROVE  FundInv'
<1> DEFINE p == [proc EXCEPT !.reserved = Unreserved]
           q == [p EXCEPT !.available = {}]
<1>1. /\ job[c].pc = "clear wallet" /\ GoTo(c, "fund") /\ UNCHANGED <<tour, store, payee, run>>
      /\ proc' = [q EXCEPT !.funded = TRUE]
  BY DEF ClearWallet, AtPc, Outside
<1>2. job[c].pc \in Clearing /\ "fund" \in Clearing
  BY <1>1 DEF Clearing
<1>3. ProcIs(p, proc.up, proc.lock, proc.inflight)
  BY ProcField DEF FundInv, FundTypeOK
<1> HIDE DEF p
<1>4. ProcIs(q, proc.up, proc.lock, proc.inflight)
  BY <1>3, OtherField
<1> HIDE DEF q
<1>5. ProcIs(proc', proc.up, proc.lock, proc.inflight)
  BY <1>1, <1>4, OtherField
<1> QED BY <1>1, <1>2, <1>5, ResetMoves, Unmoved

LEMMA FundNextStep ==
  ASSUME FundInv, NEW c \in Callers, Fund(c)
  PROVE  FundInv'
<1> DEFINE p == [proc EXCEPT !.funded = FALSE]
<1>1. /\ job[c].pc = "fund" /\ UNCHANGED <<store, payee, run>>
      /\ \/ proc' = Funded(proc, mint) /\ GoTo(c, "clear arms") /\ UNCHANGED tour
         \/ Lose /\ proc' = [p EXCEPT !.available = {}] /\ Becomes(c, NoCall)
  BY DEF Fund, AtPc
<1>2. job[c].pc \in Clearing /\ "clear arms" \in Clearing
  BY <1>1 DEF Clearing
<1>3. CASE proc' = Funded(proc, mint) /\ GoTo(c, "clear arms") /\ UNCHANGED tour
  <2>1. ProcIs(proc', proc.up, proc.lock, proc.inflight)
    BY <1>3, FundedProc DEF FundInv, FundTypeOK
  <2> QED BY <1>1, <1>2, <1>3, <2>1, ResetMoves, Unmoved
<1>4. CASE Lose /\ proc' = [p EXCEPT !.available = {}] /\ Becomes(c, NoCall)
  <2>1. ProcIs(p, proc.up, proc.lock, proc.inflight)
    BY ProcField DEF FundInv, FundTypeOK
  <2> HIDE DEF p
  <2>2. ProcIs(proc', proc.up, proc.lock, proc.inflight)
    BY <1>4, <2>1, OtherField
  <2>3. IsTour(tour') /\ tour'.adapter = tour.adapter
    BY <1>4, TourFaults DEF Lose, FundInv, FundTypeOK
  <2> QED BY <1>1, <1>2, <1>4, <2>2, <2>3, ResetMoves
<1> QED BY <1>1, <1>3, <1>4

LEMMA ClearArmsNext ==
  ASSUME FundInv, NEW c \in Callers, ClearArms(c)
  PROVE  FundInv'
<1>1. /\ job[c].pc = "clear arms" /\ Becomes(c, NoCall)
      /\ UNCHANGED <<tour, proc, store, payee, run>>
  BY DEF ClearArms, AtPc, Outside
<1>2. job[c].pc \in Clearing
  BY <1>1 DEF Clearing
<1>3. ProcIs(proc', proc.up, proc.lock, proc.inflight)
  BY <1>1 DEF FundInv, FundTypeOK, ProcIs
<1> QED BY <1>1, <1>2, <1>3, ResetMoves, Unmoved

\* A call begins: the tour that is left.
LEMMA BegunShape ==
  ASSUME FundInv, NEW c \in Callers, Begun(c)
  PROVE  /\ IsTour(tour') /\ tour'.adapter = tour.adapter /\ Call(c) \in SenderCalls
         /\ proc.up /\ job[c].pc = "idle"
BY TourShape DEF FundInv, FundTypeOK, Begun, Call, AtPc

LEMMA RunStands ==
  ASSUME FundInv
  PROVE  /\ UNCHANGED run => RunIs(run', run.mixed, run.sent)
         /\ UNCHANGED proc => ProcIs(proc', proc.up, proc.lock, proc.inflight)
         /\ UNCHANGED payee => Due(payee') /\ DuesGrow
BY DuesStand DEF FundInv, FundTypeOK, RunIs, ProcIs

LEMMA ArmNext ==
  ASSUME FundInv, NEW c \in Callers, Arm(c)
  PROVE  FundInv'
<1>1. Begun(c) /\ UNCHANGED <<proc, store, job, payee, run>>
  BY DEF Arm, Outside
<1> QED BY <1>1, BegunShape, RunStands, CallsStand

LEMMA LateNext ==
  ASSUME FundInv, NEW m, Late(m)
  PROVE  FundInv'
<1>1. payee' = Arrives(m.d, m.payload) /\ UNCHANGED <<tour, proc, store, job, run>>
  BY DEF Late
<1>2. Due(payee') /\ DuesGrow
  BY <1>1, ArrivalGrows DEF FundInv, FundTypeOK
<1> QED BY <1>1, <1>2, Unmoved, RunStands, CallsStand

\* The payee settles or rejects what it is processing.
LEMMA RedeemNext ==
  ASSUME FundInv, NEW d \in Deliveries, Redeem(d)
  PROVE  FundInv'
<1> DEFINE s == IF payee[d].payload.proofs \in mint.spent THEN "rejected" ELSE "settled"
           q == [payee[d] EXCEPT !.status = s]
<1>1. /\ payee[d] # NoEntry /\ payee[d].status = "processing"
      /\ payee' = [payee EXCEPT ![d] = q] /\ UNCHANGED <<tour, proc, store, job, run>>
  BY DEF Redeem, FundInv, FundTypeOK, Due
<1> HIDE DEF s
<1>2. payee[d] = [payload |-> payee[d].payload, status |-> payee[d].status]
  BY <1>1 DEF FundInv, FundTypeOK, Due, IsReceipt
<1>3. q = [payload |-> payee[d].payload, status |-> s]
  BY <1>2
<1> HIDE DEF q
<1>4. IsReceipt(q) /\ q.payload = payee[d].payload
  BY <1>3 DEF IsReceipt
<1>5. payee' = [e \in Deliveries |-> payee'[e]] /\ payee'[d] = q
  BY <1>1 DEF FundInv, FundTypeOK, Due
<1>6. \A e \in Deliveries : e # d => payee'[e] = payee[e]
  BY <1>1 DEF FundInv, FundTypeOK, Due
<1>7. Due(payee')
  BY <1>4, <1>5, <1>6 DEF FundInv, FundTypeOK, Due
<1>8. DuesGrow
  <2>1. Grows(payee[d], payee'[d])
    BY <1>1, <1>4, <1>5, EntriesAreEntries DEF Grows
  <2>2. \A e \in Deliveries : e # d => Grows(payee[e], payee'[e])
    BY <1>6 DEF Grows
  <2> QED BY <2>1, <2>2 DEF DuesGrow
<1> QED BY <1>1, <1>7, <1>8, Unmoved, RunStands, CallsStand

LEMMA ExpireNext ==
  ASSUME FundInv, Expire
  PROVE  FundInv'
<1> DEFINE b == TRUE
<1>1. run' = [run EXCEPT !.expired = b] /\ UNCHANGED <<tour, proc, store, job, payee>>
  BY DEF Expire
<1> HIDE DEF b
<1>2. RunIs(run', run.mixed, run.sent)
  BY <1>1, RunShape DEF FundInv, FundTypeOK
<1> QED BY <1>1, <1>2, Unmoved, RunStands, CallsStand

LEMMA KillNext ==
  ASSUME FundInv, Kill
  PROVE  FundInv'
<1>1. Killed /\ tour' = [tour EXCEPT !.kills = tour.kills - 1] /\ UNCHANGED payee
  BY DEF Kill, FundInv, FundTypeOK, IsTour
<1>2. IsTour(tour')
  BY <1>1, TourFaults DEF FundInv, FundTypeOK
<1> QED BY <1>1, <1>2, KilledNext

LEMMA RestartNext ==
  ASSUME FundInv, SenderRestart
  PROVE  FundInv'
<1>1. /\ ~proc.up /\ UNCHANGED <<tour, store, job, payee, run>>
      /\ \/ proc' = [Funded([Down EXCEPT !.up = TRUE], mint) EXCEPT !.seeded = TRUE]
         \/ proc' = [Down EXCEPT !.up = TRUE]
  BY DEF SenderRestart
<1>2. IsProc(proc')
  BY <1>1, StartedProc DEF ProcIs
<1>3. \A k \in Callers : job[k].pc = "idle"
  BY <1>1 DEF FundInv, ProcessOK
<1>4. IsTour(tour') /\ IsStore(store') /\ IsRun(run')
  BY <1>1 DEF FundInv, FundTypeOK
<1>5. ASSUME ~run'.mixed PROVE \A s \in run'.sent : s.d \in Deliveries /\ Recorded(s, store'.records)
  <2>1. RunOK
    BY <1>1, <1>5 DEF FundInv
  <2>2. \A s \in run.sent : s.d \in Deliveries /\ Recorded(s, store.records)
    BY <2>1 DEF RunOK
  <2> QED BY <1>1, <2>2
<1> QED BY <1>1, <1>2, <1>3, <1>4, <1>5, IdleStep

\* The delivery a call is for.
LEMMA DeliveryShape ==
  ASSUME FundInv, NEW call \in SenderCalls, call.op = "send", ~Underivable(call)
  PROVE  DeliveryOf(call) \in Deliveries /\ Ordinal(call) \in Nat
<1>1. call.id \in DeliveryIds \cup {Nil} /\ call.bill \in Bills
  BY DEF SenderCalls
<1>2. proc.ordinal \in Nat /\ MaxOrdinal \in Nat
  BY FundAssumption DEF FundInv, FundTypeOK, IsProc
<1>3. call.id = Nil => proc.ordinal \in 0 .. MaxOrdinal
  BY <1>2 DEF Underivable
<1>4. DeliveryOf(call) \in Deliveries
  BY <1>1, <1>3 DEF DeliveryOf, Deliveries
<1>5. Ordinal(call) \in Nat
  BY <1>2 DEF Ordinal
<1> QED BY <1>4, <1>5

StartIs(y, pc, call, d, record) ==
    IsJob(y) /\ y.pc = pc /\ y.call = call /\ y.d = d /\ y.record = record

LEMMA StartIsBy ==
  ASSUME NEW y, NEW pc, NEW call, NEW d, NEW record, NEW held, NEW seen, NEW receipt,
         y = [pc |-> pc, call |-> call, d |-> d, record |-> record, held |-> held,
              seen |-> seen, receipt |-> receipt]
  PROVE  StartIs(y, pc, call, d, record)
BY DEF StartIs, IsJob

LEMMA StartShape ==
  ASSUME NEW y, NEW call, NEW d, NEW v
  PROVE  /\ y = [[NoCall EXCEPT !.call = call, !.d = d] EXCEPT !.pc = "joined", !.held = v] =>
              StartIs(y, "joined", call, d, NoEntry)
         /\ y = [[NoCall EXCEPT !.call = call, !.d = d] EXCEPT !.pc = "read"] =>
              StartIs(y, "read", call, d, NoEntry)
         /\ y = [[NoCall EXCEPT !.call = call, !.d = d, !.pc = "send"] EXCEPT !.record = v] =>
              StartIs(y, "send", call, d, v)
         /\ y = [NoCall EXCEPT !.call = call, !.pc = "clear store"] =>
              StartIs(y, "clear store", call, Nil, NoEntry)
<1>1. ASSUME y = [[NoCall EXCEPT !.call = call, !.d = d] EXCEPT !.pc = "joined", !.held = v]
      PROVE  StartIs(y, "joined", call, d, NoEntry)
  <2>1. y = [pc |-> "joined", call |-> call, d |-> d, record |-> NoEntry, held |-> v,
             seen |-> {}, receipt |-> NoEntry]
    BY <1>1 DEF NoCall
  <2> QED BY <2>1, StartIsBy
<1>2. ASSUME y = [[NoCall EXCEPT !.call = call, !.d = d] EXCEPT !.pc = "read"]
      PROVE  StartIs(y, "read", call, d, NoEntry)
  <2>1. y = [pc |-> "read", call |-> call, d |-> d, record |-> NoEntry, held |-> Nil,
             seen |-> {}, receipt |-> NoEntry]
    BY <1>2 DEF NoCall
  <2> QED BY <2>1, StartIsBy
<1>3. ASSUME y = [[NoCall EXCEPT !.call = call, !.d = d, !.pc = "send"] EXCEPT !.record = v]
      PROVE  StartIs(y, "send", call, d, v)
  <2>1. y = [pc |-> "send", call |-> call, d |-> d, record |-> v, held |-> Nil,
             seen |-> {}, receipt |-> NoEntry]
    BY <1>3 DEF NoCall
  <2> QED BY <2>1, StartIsBy
<1>4. ASSUME y = [NoCall EXCEPT !.call = call, !.pc = "clear store"]
      PROVE  StartIs(y, "clear store", call, Nil, NoEntry)
  <2>1. y = [pc |-> "clear store", call |-> call, d |-> Nil, record |-> NoEntry, held |-> Nil,
             seen |-> {}, receipt |-> NoEntry]
    BY <1>4 DEF NoCall
  <2> QED BY <2>1, StartIsBy
<1> QED BY <1>1, <1>2, <1>3, <1>4

\* In a run that no reset overlaps, the owner of a delivery holds its claim.
LEMMA ClaimedAlone ==
  ASSUME FundInv, ~Cdk, proc.up, ~Mixed, NEW c \in Callers, job[c].pc = "idle",
         NEW d \in Deliveries, ~Joinable(d), NEW claim, claim # NoEntry,
         proc'.inflight = [proc.inflight EXCEPT ![d] = claim], UNCHANGED <<store, Cdk>>,
         run'.sent = run.sent, Others(c), job'[c].pc = "read", job'[c].d = d
  PROVE  RunOK'
<1>1. RunOK /\ \A x \in Callers : job[x].pc \notin Clearing
  <2>1. \A x \in Callers : job[x].pc \in Clearing => Resetting(x)
    BY OwningPcs DEF FundInv, JobOK, Resetting
  <2> QED BY <2>1 DEF Mixed, FundInv
<1>2. job'[c].pc \in Owning /\ job'[c].pc \notin Unrecorded \cup Carrying \cup Clearing
  BY OwningPcs
<1>3. \A x \in Callers : job[x].pc \in Owning => job[x].d \in Deliveries /\ job[x].d # d
  <2> SUFFICES ASSUME NEW x \in Callers, job[x].pc \in Owning
               PROVE  job[x].d \in Deliveries /\ job[x].d # d
    OBVIOUS
  <2>1. proc.inflight[job[x].d] # NoEntry
    BY <1>1 DEF RunOK, Claims
  <2> QED BY <2>1 DEF Joinable, FundInv, JobOK
<1>4. /\ proc'.inflight[d] = claim
      /\ \A e \in Deliveries : e # d => proc'.inflight[e] = proc.inflight[e]
  BY DEF FundInv, FundTypeOK, IsProc
<1>5. \A x \in Callers : Claims(job[x], proc.inflight)' /\ Copied(job'[x], store'.records)
  <2>1. Claims(job[c], proc.inflight)' /\ Copied(job'[c], store'.records)
    BY <1>2, <1>4 DEF Claims, Copied
  <2>2. ASSUME NEW x \in Callers, x # c
        PROVE  Claims(job[x], proc.inflight)' /\ Copied(job'[x], store'.records)
    <3>1. job'[x] = job[x] /\ Claims(job[x], proc.inflight) /\ Copied(job[x], store.records)
      BY <1>1, <2>2 DEF Others, RunOK
    <3>2. job[x].pc \in Owning => proc'.inflight[job[x].d] = proc.inflight[job[x].d]
      BY <1>3, <1>4
    <3>3. Claims(job[x], proc.inflight)'
      BY <3>1, <3>2 DEF Claims
    <3> QED BY <3>1, <3>3
  <2> QED BY <2>1, <2>2
<1>6. \A x, k \in Callers : x # k => Apart(job'[x], job'[k])
  <2> SUFFICES ASSUME NEW x \in Callers, NEW k \in Callers, x # k
               PROVE  Apart(job'[x], job'[k])
    OBVIOUS
  <2>1. Apart(job[x], job[k])
    BY <1>1 DEF RunOK
  <2>2. CASE x = c
    <3>1. job'[k] = job[k] /\ job'[c].pc \notin Clearing
      BY <1>2, <2>2 DEF Others
    <3> QED BY <1>3, <2>2, <3>1 DEF Apart
  <2>3. CASE k = c
    <3>1. job'[x] = job[x] /\ job[x].pc \notin Clearing
      BY <1>1, <2>3 DEF Others
    <3> QED BY <1>3, <2>3, <3>1 DEF Apart
  <2>4. CASE x # c /\ k # c
    BY <2>1, <2>4 DEF Others
  <2> QED BY <2>2, <2>3, <2>4
<1>7. \A x \in Callers : job'[x].pc \notin Clearing
  BY <1>1, <1>2 DEF Others
<1>8. \A s \in run'.sent : s.d \in Deliveries /\ Recorded(s, store'.records)
  BY <1>1 DEF RunOK
<1> QED BY <1>5, <1>6, <1>7, <1>8 DEF RunOK, Nothing

LEMMA SenderSendNext ==
  ASSUME FundInv, NEW c \in Callers, SenderSend(c)
  PROVE  FundInv'
<1> DEFINE call == Call(c)
           d == DeliveryOf(call)
           base == [proc EXCEPT !.ordinal = Ordinal(call)]
           claim == [bill |-> call.bill, owner |-> c]
           own == [NoCall EXCEPT !.call = call, !.d = d]
           joined == [own EXCEPT !.pc = "joined", !.held = proc.inflight[d].owner]
           reads == [own EXCEPT !.pc = "read"]
<1>1. Begun(c) /\ ~Cdk /\ call.op = "send" /\ UNCHANGED <<store, payee>>
  BY DEF SenderSend
<1>2. \/ UNCHANGED <<proc, job, run>>
      \/ /\ ~Underivable(call)
         /\ \/ proc' = base /\ UNCHANGED <<run, job>>
            \/ proc' = base /\ UNCHANGED run /\ Becomes(c, joined)
            \/ /\ ~Joinable(d) /\ proc' = [base EXCEPT !.inflight[d] = claim] /\ Becomes(c, reads)
               /\ run' = [run EXCEPT !.mixed = Mixed]
  BY DEF SenderSend
<1>3. /\ IsTour(tour') /\ tour'.adapter = tour.adapter /\ call \in SenderCalls /\ proc.up
      /\ job[c].pc = "idle" /\ UNCHANGED Cdk /\ IsProc(proc) /\ IsRun(run)
  BY <1>1, BegunShape DEF Cdk, FundInv, FundTypeOK
<1>4. ~Underivable(call) => d \in Deliveries /\ Ordinal(call) \in Nat
  BY <1>1, <1>3, DeliveryShape
<1>5. StartIs(joined, "joined", call, d, NoEntry) /\ StartIs(reads, "read", call, d, NoEntry)
  BY StartShape
<1>6. claim # NoEntry
  BY EntriesAreEntries
<1> DEFINE n == Ordinal(call)
<1>7. base = [proc EXCEPT !.ordinal = n]
  OBVIOUS
<1> HIDE DEF call, d, claim, joined, reads, own, n, base
<1>8. ~Underivable(call) => ProcIs(base, proc.up, proc.lock, proc.inflight)
  BY <1>3, <1>4, <1>7, ProcField DEF n
<1>9. CASE UNCHANGED <<proc, job, run>>
  BY <1>1, <1>3, <1>9, RunStands, CallsStand
<1>10. CASE ~Underivable(call) /\ proc' = base /\ UNCHANGED <<run, job>>
  BY <1>1, <1>3, <1>8, <1>10, RunStands, CallsStand
<1>11. CASE ~Underivable(call) /\ proc' = base /\ UNCHANGED run /\ Becomes(c, joined)
  <2>1. job' = [k \in Callers |-> job'[k]] /\ Others(c) /\ job'[c] = joined
    BY <1>11, BecomesFacts
  <2>2. IsJob(joined) /\ joined.pc = "joined" /\ joined.call = call /\ joined.d = d
    BY <1>5 DEF StartIs
  <2>3. joined.pc \notin Owning \cup Clearing \cup Carrying \cup Replied
    BY <2>2, OwningPcs
  <2>4. JobOK(joined, payee')
    BY <1>1, <1>4, <1>11, <2>2, <2>3 DEF JobOK
  <2>5. IsProc(proc') /\ proc'.up = proc.up /\ proc'.inflight = proc.inflight
    BY <1>8, <1>11 DEF ProcIs
  <2>6. FundTypeOK'
    BY <1>1, <1>3, <1>11, <2>1, <2>5 DEF FundInv, FundTypeOK
  <2>7. job[c].pc \notin Owning
    BY <1>3, OwningPcs
  <2> QED BY <1>1, <1>3, <1>11, <2>1, <2>3, <2>4, <2>5, <2>6, <2>7, OutsiderMoves
<1>12. CASE /\ ~Underivable(call) /\ ~Joinable(d) /\ proc' = [base EXCEPT !.inflight[d] = claim]
            /\ Becomes(c, reads) /\ run' = [run EXCEPT !.mixed = Mixed]
  <2> DEFINE f == [proc.inflight EXCEPT ![d] = claim]
             m == Mixed
  <2>0. run' = [run EXCEPT !.mixed = m]
    BY <1>12
  <2>1. IsProc(base) /\ base.up = proc.up /\ base.inflight = proc.inflight
    BY <1>8, <1>12 DEF ProcIs
  <2>2. proc' = [base EXCEPT !.inflight = f] /\ f = [e \in Deliveries |-> f[e]]
    BY <1>3, <1>12, <2>1 DEF IsProc
  <2> HIDE DEF f, m
  <2>3. ProcIs(proc', base.up, base.lock, f)
    BY <2>1, <2>2, ProcField
  <2>4. IsProc(proc') /\ proc'.up = proc.up /\ proc'.inflight = f
    BY <2>1, <2>3 DEF ProcIs
  <2>5. RunIs(run', m, run.sent)
    BY <1>3, <2>0, RunShape
  <2>6. IsRun(run') /\ run'.mixed = m /\ run'.sent = run.sent
    BY <2>5 DEF RunIs
  <2>7. job' = [k \in Callers |-> job'[k]] /\ Others(c) /\ job'[c] = reads
    BY <1>12, BecomesFacts
  <2>8. IsJob(reads) /\ reads.pc = "read" /\ reads.call = call /\ reads.d = d
    BY <1>5 DEF StartIs
  <2>9. reads.pc \notin Clearing \cup Carrying \cup Replied /\ reads.pc \in Owning
    BY <2>8, OwningPcs
  <2>10. JobOK(reads, payee')
    BY <1>1, <1>4, <1>12, <2>8, <2>9 DEF JobOK
  <2>11. FundTypeOK'
    BY <1>1, <1>3, <2>4, <2>6, <2>7 DEF FundInv, FundTypeOK
  <2>12. \A k \in Callers : JobOK(job'[k], payee')
    BY <1>1, <2>7, <2>10, JobsStep, DuesStand DEF FundInv
  <2>13. RecordsOK'
    BY <1>1, DuesStand, RecordsStep DEF FundInv
  <2>14. ProcessOK'
    BY <1>1, <1>3, <2>4 DEF ProcessOK
  <2>15. ~run'.mixed => RunOK'
    BY <1>1, <1>3, <1>4, <1>6, <1>12, <2>4, <2>6, <2>7, <2>8, ClaimedAlone DEF f, m
  <2> QED BY <2>11, <2>12, <2>13, <2>14, <2>15 DEF FundInv
<1> QED BY <1>2, <1>9, <1>10, <1>11, <1>12

\* The CDK adapter has no call under way while its lock is free.
LEMMA LockFree ==
  ASSUME FundInv, Cdk, proc.lock = Nil
  PROVE  \A k \in Callers : job[k].pc = "idle"
BY FundAssumption DEF FundInv, ProcessOK

LEMMA CdkFailsNext ==
  ASSUME FundInv, NEW c \in Callers, CdkFails(c)
  PROVE  FundInv'
<1> DEFINE n == Ordinal(Call(c))
           u == tour.losses - 1
<1>1. /\ tour.calls[c] # <<>> /\ UNCHANGED <<store, job, payee, run>>
      /\ tour' = [tour EXCEPT !.calls[c] = Tail(@), !.losses = u]
      /\ \/ UNCHANGED proc
         \/ /\ Call(c).op = "send" /\ ~Underivable(Call(c))
            /\ proc' = [proc EXCEPT !.ordinal = n]
  BY DEF CdkFails
<1>2. n \in Nat \/ UNCHANGED proc
  BY <1>1, TourShape, DeliveryShape DEF Call, FundInv, FundTypeOK
<1> HIDE DEF n, u
<1>3. IsTour(tour') /\ tour'.adapter = tour.adapter
  BY <1>1, TourShape DEF FundInv, FundTypeOK
<1>4. ProcIs(proc', proc.up, proc.lock, proc.inflight)
  BY <1>1, <1>2, ProcField, RunStands DEF FundInv, FundTypeOK
<1> QED BY <1>1, <1>3, <1>4, RunStands, CallsStand

LEMMA CdkResetNext ==
  ASSUME FundInv, NEW c \in Callers, CdkReset(c)
  PROVE  FundInv'
<1> DEFINE m == FALSE
<1>1. /\ Begun(c) /\ Cdk /\ proc.lock = Nil /\ UNCHANGED <<job, payee>>
      /\ proc' = [Funded([Down EXCEPT !.up = TRUE], mint) EXCEPT !.seeded = TRUE]
      /\ store' = [records |-> Nothing, reservations |-> Nothing]
      /\ run' = [run EXCEPT !.sent = {}, !.mixed = m]
  BY DEF CdkReset
<1> HIDE DEF m
<1>2. IsProc(proc')
  BY <1>1, StartedProc DEF ProcIs
<1>3. IsTour(tour') /\ \A k \in Callers : job[k].pc = "idle"
  BY <1>1, BegunShape, LockFree
<1>4. IsStore(store') /\ \A d \in Deliveries : store'.records[d] \in {store.records[d], NoEntry}
  BY <1>1, NothingShape
<1>5. RunIs(run', m, {})
  BY <1>1, RunShape DEF FundInv, FundTypeOK
<1>6. IsRun(run') /\ \A s \in run'.sent : s.d \in Deliveries /\ Recorded(s, store'.records)
  BY <1>5 DEF RunIs
<1> QED BY <1>1, <1>2, <1>3, <1>4, <1>6, IdleStep

\* A reset begins: in a run it does not overlap it is the only call.
LEMMA SenderResetNext ==
  ASSUME FundInv, NEW c \in Callers, SenderReset(c)
  PROVE  FundInv'
<1> DEFINE y == [NoCall EXCEPT !.call = Call(c), !.pc = "clear store"]
           m == \E x \in Callers : Sending(x) \/ Resetting(x)
           p == [proc EXCEPT !.seeded = TRUE]
           q == [p EXCEPT !.ordinal = 0]
<1>1. /\ Begun(c) /\ ~Cdk /\ Call(c).op = "reset" /\ Becomes(c, y) /\ UNCHANGED <<store, payee>>
      /\ proc' = [q EXCEPT !.inflight = Nothing]
      /\ run' = [run EXCEPT !.sent = {}, !.mixed = m]
  BY DEF SenderReset
<1>2. /\ IsTour(tour') /\ tour'.adapter = tour.adapter /\ proc.up /\ job[c].pc = "idle"
      /\ IsProc(proc) /\ IsRun(run)
  BY <1>1, BegunShape DEF FundInv, FundTypeOK
<1>3. StartIs(y, "clear store", Call(c), Nil, NoEntry)
  BY StartShape
<1>4. ASSUME ~m
      PROVE  \A x \in Callers : job[x].pc \notin Owning /\ job[x].pc \notin Clearing
  <2>1. \A x \in Callers : job[x].pc \in Owning => Sending(x)
    BY OwningPcs DEF FundInv, JobOK, Sending
  <2>2. \A x \in Callers : job[x].pc \in Clearing => Resetting(x)
    BY OwningPcs DEF FundInv, JobOK, Resetting
  <2> QED BY <1>4, <2>1, <2>2
<1>5. ProcIs(p, proc.up, proc.lock, proc.inflight)
  BY <1>2, ProcField
<1> HIDE DEF y, m, p
<1>6. IsProc(q) /\ q.up = proc.up
  <2>1. IsProc(p) /\ p.up = proc.up
    BY <1>5 DEF ProcIs
  <2>2. ProcIs(q, p.up, p.lock, p.inflight)
    BY <2>1, ProcField
  <2> QED BY <2>1, <2>2 DEF ProcIs
<1> HIDE DEF q
<1>7. IsProc(proc') /\ proc'.up = proc.up /\ proc'.inflight = Nothing
  <2>1. Nothing = [d \in Deliveries |-> Nothing[d]]
    BY DEF Nothing
  <2>2. ProcIs(proc', q.up, q.lock, Nothing)
    BY <1>1, <1>6, <2>1, ProcField
  <2> QED BY <1>6, <2>2 DEF ProcIs
<1>8. IsRun(run') /\ run'.mixed = m /\ run'.sent = {}
  <2>1. RunIs(run', m, {})
    BY <1>1, <1>2, RunShape
  <2> QED BY <2>1 DEF RunIs
<1>9. job' = [k \in Callers |-> job'[k]] /\ Others(c) /\ job'[c] = y
  BY <1>1, BecomesFacts
<1>10. /\ IsJob(y) /\ y.pc = "clear store" /\ y.call = Call(c) /\ y.pc \in Clearing
       /\ y.pc \notin {"joined"} \cup Owning /\ y.pc \notin Carrying /\ y.pc \notin Replied
  BY <1>3, OwningPcs DEF StartIs, Clearing
<1>11. JobOK(y, payee')
  BY <1>1, <1>10 DEF JobOK
<1>12. FundTypeOK'
  BY <1>1, <1>2, <1>7, <1>8, <1>9 DEF FundInv, FundTypeOK
<1>13. \A k \in Callers : JobOK(job'[k], payee')
  BY <1>1, <1>9, <1>11, JobsStep, DuesStand DEF FundInv
<1>14. RecordsOK'
  BY <1>1, DuesStand, RecordsStep DEF FundInv
<1>15. ProcessOK'
  BY <1>1, <1>2, <1>7 DEF ProcessOK, Cdk
<1>16. ASSUME ~run'.mixed PROVE RunOK'
  <2>1. \A k \in Callers : k # c => job'[k].pc \notin Owning /\ job'[k].pc \notin Clearing
    BY <1>4, <1>8, <1>9, <1>16 DEF Others
  <2> QED BY <1>7, <1>8, <1>9, <1>10, <2>1, RunRests
<1> QED BY <1>12, <1>13, <1>14, <1>15, <1>16 DEF FundInv

\* The CDK adapter begins a send: it is the only call, with the record in hand.
LEMMA CdkBegins ==
  ASSUME FundInv, NEW c \in Callers, Cdk, \A k \in Callers : job[k].pc = "idle", proc.up,
         IsTour(tour'), tour'.adapter = tour.adapter, NEW call, call.op = "send",
         NEW d \in Deliveries, NEW r, RecordOK(payee[d], r), NEW y, Becomes(c, y),
         StartIs(y, "send", call, d, r), IsProc(proc'), proc'.up = proc.up, proc'.lock = c,
         IsStore(store'), store'.records[d] = r,
         \A e \in Deliveries : e # d => store'.records[e] = store.records[e],
         store.records[d] # NoEntry => r = store.records[d],
         RunIs(run', run.mixed, run.sent), UNCHANGED payee
  PROVE  FundInv'
<1>1. job' = [k \in Callers |-> job'[k]] /\ Others(c) /\ job'[c] = y
  BY BecomesFacts
<1>2. IsJob(y) /\ y.pc = "send" /\ y.call = call /\ y.d = d /\ y.record = r
  BY DEF StartIs
<1>3. y.pc \in Owning /\ y.pc \in Carrying /\ y.pc \notin Clearing \cup Replied \cup Unrecorded
  BY <1>2, OwningPcs DEF Carrying, Replied
<1>4. IsRun(run') /\ run'.mixed = run.mixed /\ run'.sent = run.sent /\ UNCHANGED Cdk
  BY DEF RunIs, Cdk
<1>5. r # NoEntry
  BY EntriesAreEntries DEF RecordOK
<1>6. JobOK(y, payee')
  BY <1>2, <1>3 DEF JobOK
<1>7. FundTypeOK'
  BY <1>1, <1>4 DEF FundInv, FundTypeOK
<1>8. \A k \in Callers : JobOK(job'[k], payee')
  BY <1>1, <1>6, JobsStep, DuesStand DEF FundInv
<1>9. RecordsOK'
  BY DuesStand, RecordsStep DEF FundInv
<1>10. ProcessOK'
  BY <1>1, <1>2 DEF ProcessOK, Others
<1>11. ASSUME ~run.mixed PROVE RunOK'
  <2>1. \A k \in Callers : k # c => job'[k].pc \notin Owning \cup Clearing \cup Unrecorded \cup Carrying
    BY <1>1, OwningPcs DEF Others
  <2>2. \A k \in Callers : Claims(job[k], proc.inflight)' /\ Copied(job'[k], store'.records)
    <3>1. Copied(job'[c], store'.records)
      BY <1>1, <1>2, <1>3, <1>5 DEF Copied
    <3>2. \A k \in Callers : k # c => Copied(job'[k], store'.records)
      BY <2>1 DEF Copied
    <3>3. \A k \in Callers : Claims(job[k], proc.inflight)'
      BY <1>4 DEF Claims
    <3> QED BY <3>1, <3>2, <3>3
  <2>3. \A k, l \in Callers : k # l => Apart(job'[k], job'[l])
    BY <1>1, <1>3, <2>1 DEF Apart
  <2>4. \A k \in Callers : job'[k].pc \notin Clearing
    BY <1>1, <1>3, <2>1
  <2>5. \A s \in run'.sent : s.d \in Deliveries /\ Recorded(s, store'.records)
    <3> SUFFICES ASSUME NEW s \in run.sent PROVE s.d \in Deliveries /\ Recorded(s, store'.records)
      BY <1>4
    <3>1. s.d \in Deliveries /\ Recorded(s, store.records)
      BY <1>11 DEF FundInv, RunOK
    <3> QED BY <3>1 DEF Recorded
  <2> QED BY <2>2, <2>3, <2>4, <2>5 DEF RunOK, Nothing
<1> QED BY <1>4, <1>7, <1>8, <1>9, <1>10, <1>11 DEF FundInv

LEMMA CdkSendNext ==
  ASSUME FundInv, NEW c \in Callers, CdkSend(c)
  PROVE  FundInv'
<1> DEFINE call == Call(c)
           d == DeliveryOf(call)
           record == store.records[d]
           old == proc.reserved[d]
           seen == proc.available
           proofs == IF old # Nil THEN old ELSE Given(seen)
           n == run.built + 1
           fresh == NewRecord(call.bill, proofs, n)
           own == [NoCall EXCEPT !.call = call, !.d = d, !.pc = "send"]
           counted == [proc EXCEPT !.ordinal = Ordinal(call)]
           locked == [counted EXCEPT !.lock = c]
           reserved == [proc.reserved EXCEPT ![d] = proofs]
           left == IF old = Nil THEN seen \ {Chosen(seen)} ELSE proc.available
<1>1. Begun(c) /\ Cdk /\ proc.lock = Nil /\ call.op = "send" /\ UNCHANGED payee
  BY DEF CdkSend
<1>2. \/ UNCHANGED <<proc, store, job, run>>
      \/ /\ ~Underivable(call)
         /\ \/ proc' = counted /\ UNCHANGED <<store, job, run>>
            \/ /\ record # NoEntry /\ proc' = locked /\ Becomes(c, [own EXCEPT !.record = record])
               /\ UNCHANGED <<store, run>>
            \/ /\ record = NoEntry /\ Put(d, fresh) /\ run' = [run EXCEPT !.built = @ + 1]
               /\ Becomes(c, [own EXCEPT !.record = fresh])
               /\ proc' = [locked EXCEPT !.reserved[d] = proofs,
                    !.available = IF old = Nil THEN seen \ {Chosen(seen)} ELSE @]
  BY DEF CdkSend
<1>3. /\ IsTour(tour') /\ tour'.adapter = tour.adapter /\ call \in SenderCalls /\ proc.up
      /\ IsProc(proc) /\ IsRun(run) /\ IsStore(store)
      /\ \A k \in Callers : job[k].pc = "idle"
  BY <1>1, BegunShape, LockFree DEF FundInv, FundTypeOK
<1>4. ~Underivable(call) => d \in Deliveries /\ Ordinal(call) \in Nat
  BY <1>1, <1>3, DeliveryShape
<1>5. ~Underivable(call) => ProcIs(counted, proc.up, proc.lock, proc.inflight)
  BY <1>3, <1>4, ProcField
<1>6. /\ StartIs([own EXCEPT !.record = record], "send", call, d, record)
      /\ StartIs([own EXCEPT !.record = fresh], "send", call, d, fresh)
  BY StartShape
<1>7. CASE UNCHANGED <<proc, store, job, run>>
  BY <1>1, <1>3, <1>7, RunStands, CallsStand
<1>8. CASE ~Underivable(call) /\ proc' = counted /\ UNCHANGED <<store, job, run>>
  <2> HIDE DEF counted
  <2> QED BY <1>1, <1>3, <1>5, <1>8, RunStands, CallsStand
<1>9. ~Underivable(call) => ProcIs(locked, proc.up, c, proc.inflight)
  <2> HIDE DEF counted
  <2>1. ~Underivable(call) =>
          IsProc(counted) /\ counted.up = proc.up /\ counted.inflight = proc.inflight
    BY <1>5 DEF ProcIs
  <2>2. ~Underivable(call) => ProcIs(locked, counted.up, c, counted.inflight)
    BY <2>1, ProcField
  <2> QED BY <2>1, <2>2
<1>10. CASE /\ ~Underivable(call) /\ record # NoEntry /\ proc' = locked
            /\ Becomes(c, [own EXCEPT !.record = record]) /\ UNCHANGED <<store, run>>
  <2> DEFINE y == [own EXCEPT !.record = record]
  <2>1. Becomes(c, y) /\ StartIs(y, "send", call, d, record)
    BY <1>6, <1>10
  <2>2. RecordOK(payee[d], record)
    BY <1>4, <1>10 DEF FundInv, RecordsOK
  <2>3. IsProc(proc') /\ proc'.up = proc.up /\ proc'.lock = c
    BY <1>9, <1>10 DEF ProcIs
  <2>4. d \in Deliveries /\ UNCHANGED store /\ RunIs(run', run.mixed, run.sent)
    BY <1>4, <1>10, RunStands
  <2> HIDE DEF call, d, y, locked
  <2> QED BY <1>1, <1>3, <2>1, <2>2, <2>3, <2>4, CdkBegins
<1>11. CASE /\ ~Underivable(call) /\ record = NoEntry /\ Put(d, fresh)
            /\ run' = [run EXCEPT !.built = @ + 1] /\ Becomes(c, [own EXCEPT !.record = fresh])
            /\ proc' = [locked EXCEPT !.reserved[d] = proofs,
                 !.available = IF old = Nil THEN seen \ {Chosen(seen)} ELSE @]
  <2> DEFINE y == [own EXCEPT !.record = fresh]
             p == [locked EXCEPT !.reserved = reserved]
  <2>1. Becomes(c, y) /\ StartIs(y, "send", call, d, fresh)
    BY <1>6, <1>11
  <2>2. RecordOK(payee[d], fresh)
    BY NewRecordOK
  <2>3. run' = [run EXCEPT !.built = n] /\ d \in Deliveries
    BY <1>3, <1>4, <1>11 DEF IsRun
  <2>4. proc' = [p EXCEPT !.available = left]
    BY <1>3, <1>11 DEF IsProc
  <2> HIDE DEF y, fresh, n, reserved, left, proofs
  <2>5. RunIs(run', run.mixed, run.sent)
    BY <1>3, <2>3, RunShape
  <2>6. /\ IsStore(store') /\ store'.records[d] = fresh
        /\ \A e \in Deliveries : e # d => store'.records[e] = store.records[e]
    BY <1>3, <1>11, <2>3, PutShape
  <2> HIDE DEF locked, call, d
  <2>7. ProcIs(p, proc.up, c, proc.inflight)
    BY <1>9, <1>11, OtherField
  <2> HIDE DEF p
  <2>8. ProcIs(proc', proc.up, c, proc.inflight)
    BY <2>4, <2>7, OtherField
  <2>9. IsProc(proc') /\ proc'.up = proc.up /\ proc'.lock = c
    BY <2>8 DEF ProcIs
  <2> QED BY <1>1, <1>3, <1>11, <2>1, <2>2, <2>3, <2>5, <2>6, <2>9, CdkBegins
<1> QED BY <1>2, <1>7, <1>8, <1>10, <1>11

LEMMA FundInitInv == FundInit => FundInv
<1> SUFFICES ASSUME FundInit PROVE FundInv
  OBVIOUS
<1>1. IsTour(tour)
  <2>1. tour \in [adapter : {"memory", "postgres", "cdk"}, control : BOOLEAN,
                  calls : [Callers -> Seq(SenderCalls)], losses : Nat, kills : Nat,
                  exact : BOOLEAN, expires : BOOLEAN]
    BY FundAssumption DEF FundInit
  <2> QED BY <2>1 DEF IsTour
<1>2. IsProc(proc)
  BY StartedProc DEF FundInit, ProcIs
<1>3. IsStore(store) /\ \A d \in Deliveries : store.records[d] = NoEntry
  BY NothingShape DEF FundInit
<1>4. IsRun(run) /\ run.sent = {}
  BY DEF FundInit, IsRun
<1>5. Due(payee)
  BY DEF FundInit, Nothing, Due
<1>6. /\ job = [c \in Callers |-> job[c]]
      /\ \A c \in Callers : job[c] = NoCall
  BY DEF FundInit
<1>7. FundTypeOK
  BY <1>1, <1>2, <1>3, <1>4, <1>5, <1>6 DEF FundTypeOK
<1>8. \A c \in Callers : JobOK(job[c], payee) /\ job[c].pc = "idle"
  BY <1>6, NoCallOK
<1>9. \A c \in Callers : job[c].pc \notin Owning \cup Clearing \cup Unrecorded \cup Carrying
  BY <1>8, OwningPcs
<1>10. RunOK
  BY <1>4, <1>9 DEF RunOK, Claims, Copied, Apart
<1> QED BY <1>3, <1>7, <1>8, <1>10 DEF FundInv, RecordsOK, ProcessOK

LEMMA FundStutters == ASSUME FundInv, UNCHANGED fundVars PROVE FundInv'
<1>1. UNCHANGED <<tour, proc, store, job, payee, run>>
  BY DEF fundVars
<1> QED BY <1>1, Unmoved, RunStands, CallsStand

LEMMA FundStep == ASSUME FundInv, [FundNext]_fundVars PROVE FundInv'
<1>1. ASSUME NEW c \in Callers,
             \/ SenderSend(c) \/ Joined(c) \/ Read(c) \/ Checkpoint(c) \/ SenderReserve(c)
             \/ WalletSend(c) \/ WalletEvidence(c) \/ Keep(c) \/ Verify(c) \/ Persist(c)
             \/ Attempt(c) \/ StoreFails(c) \/ Transport(c) \/ Finish(c)
      PROVE  FundInv'
  BY <1>1, SenderSendNext, JoinedNext, ReadNext, CheckpointNext, ReserveNext, WalletSendNext,
     EvidenceNext, KeepNext, VerifyNext, PersistNext, AttemptNext, StoreFailsNext,
     TransportNext, SenderFinishNext
<1>2. ASSUME NEW c \in Callers,
             \/ CdkSend(c) \/ CdkReset(c) \/ CdkFails(c) \/ SenderReset(c) \/ ClearStore(c)
             \/ ClearWallet(c) \/ Fund(c) \/ ClearArms(c) \/ Arm(c)
      PROVE  FundInv'
  BY <1>2, CdkSendNext, CdkResetNext, CdkFailsNext, SenderResetNext, ClearStoreNext,
     ClearWalletNext, FundNextStep, ClearArmsNext, ArmNext
<1>3. ASSUME (\E m \in late : Late(m)) \/ (\E d \in Deliveries : Redeem(d))
      PROVE  FundInv'
  BY <1>3, LateNext, RedeemNext
<1>4. ASSUME Kill \/ SenderRestart \/ Expire
      PROVE  FundInv'
  BY <1>4, KillNext, RestartNext, ExpireNext
<1>5. CASE FundNext
  BY <1>1, <1>2, <1>3, <1>4, <1>5 DEF FundNext
<1>6. CASE UNCHANGED fundVars
  BY <1>6, FundStutters
<1> QED BY <1>5, <1>6

LEMMA FundInvSays == FundInv => SentIsOnRecord
<1> SUFFICES ASSUME FundInv PROVE SentIsOnRecord
  OBVIOUS
<1>1. ASSUME ~run.mixed, NEW s \in run.sent
      PROVE  store.records[s.d] # NoEntry /\ store.records[s.d].payload = s.payload
  <2>1. Recorded(s, store.records)
    BY <1>1 DEF FundInv, RunOK
  <2> QED BY <2>1 DEF Recorded
<1>2. ASSUME NEW d \in Deliveries, store.records[d] # NoEntry, store.records[d].receipt # NoEntry
      PROVE  /\ store.records[d].spent = (store.records[d].receipt.status = "settled")
             /\ store.records[d].receipt.status # "processing" =>
                  payee[d] = [payload |-> store.records[d].payload,
                              status |-> store.records[d].receipt.status]
  <2>1. RecordOK(payee[d], store.records[d])
    BY <1>2 DEF FundInv, RecordsOK
  <2> QED BY <1>2, <2>1 DEF RecordOK
<1> QED BY <1>1, <1>2 DEF SentIsOnRecord

(***************************************************************************)
(* The funded senders keep their promise (SenderCore and the cashu-ts and  *)
(* CDK adapters: "Persist the proof-bearing exact bytes before the first   *)
(* network attempt"): however many callers there are, whatever they ask    *)
(* for, wherever the process is killed and whatever the network loses or   *)
(* delays, a run that no reset overlaps sends for a delivery only the      *)
(* payload on record, and a final receipt on record is the payee's.        *)
(***************************************************************************)
THEOREM SentOnRecordHolds == FundSpec => []SentIsOnRecord
<1>1. FundInit => FundInv
  BY FundInitInv
<1>2. FundInv /\ [FundNext]_fundVars => FundInv'
  BY FundStep
<1>3. FundInv => SentIsOnRecord
  BY FundInvSays
<1> QED BY <1>1, <1>2, <1>3, PTL DEF FundSpec
=============================================================================
