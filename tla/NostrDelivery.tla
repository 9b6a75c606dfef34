--------------------------- MODULE NostrDelivery ----------------------------
(***************************************************************************)
(* A payment over Nostr: the sender wraps it in a gift wrap with a         *)
(* timestamp moved up to two days back and publishes it to every relay of  *)
(* the target, then looks for the receipt (reference-sender               *)
(* nostr/payment-transport.ts); the receiver polls the relays, accepts     *)
(* what it has not processed and publishes the receipt (cashu-ts           *)
(* nostr-receiver.ts); the relays are the fault relay of the lab.          *)
(*                                                                         *)
(* A delivery is accepted as the Receiver module does: until its payload   *)
(* expires again and again, with the same or a later receipt.  Wrapping is *)
(* modelled by what it fixes: recipient, author, rumor, two timestamps.    *)
(***************************************************************************)
EXTENDS Integers, Sequences, FiniteSets, FiniteSetsExt

CONSTANTS
    Relays,
    Plans,         \* the bounds of a run, and which sender it has
    Payments,
    ExpiresAt,     \* per payment, expires_at and the tolerated clock skew
    Unreadable,    \* an event that is not signed, tagged or encrypted as it must be
    Misattributed, \* one whose seal is not for the rumor in it
    Overlap,       \* NIP17_TIMESTAMP_OVERLAP_SECONDS
    PollAttempts, MaxEvents    \* the sender's polls; the relay's event limit

VARIABLES
    budget,                          \* what may still happen, from Plans
    now,
    relay, partition,                \* stored events; events withheld
    sender,                          \* per payment, the send under way
    ledger,                          \* the receiver's deliveries
    lastSeen, processed, poll,       \* CashuTsNostrReceiver
    receipts,                        \* receipts wrapped so far
    refusals                         \* the requests that a terminal error ended: its kind

\* The events that are no payment name none.
ASSUME NostrAssumption ==
    /\ Overlap \in Nat /\ ExpiresAt \in [Payments -> Nat]
    /\ Unreadable \notin Payments /\ Misattributed \notin Payments

receiverVars == <<ledger, lastSeen, processed, poll, receipts, refusals>>
nostrVars == <<budget, now, relay, partition, sender, receiverVars>>

\* parseDeliveryPayload lets a payload pass until its expiry and the clock skew.
Unexpired(p) == now <= ExpiresAt[p]

\* wrapDelivery: max(0, now - offset), offset in 0 .. TWO_DAYS.
Wrapped(time) == {IF time > o THEN time - o ELSE 0 : o \in 0 .. Overlap}
Since(time) == IF time > Overlap THEN time - Overlap ELSE 0

-----------------------------------------------------------------------------
(* The relay. *)

\* A fault rule fires as often as it was armed for; other bounds are spent alike.
Spend(what) == budget[what] > 0 /\ budget' = [budget EXCEPT ![what] = @ - 1]

\* #publish on one relay, with what the publisher hears: an event over the
\* limit is refused; an answer may be dropped or the connection cut after the
\* event is stored; and the connection may fail before.
Publish(r, e, heard) ==
    LET room == e \in relay[r] \/ Cardinality(relay[r]) < MaxEvents
    IN  \/ room /\ heard = "accepted" /\ relay' = [relay EXCEPT ![r] = @ \cup {e}]
           /\ UNCHANGED budget
        \/ ~ room /\ heard = "rejected" /\ UNCHANGED <<relay, budget>>
        \/ /\ heard = "nothing" /\ Spend("faults")
           /\ \/ room /\ relay' = [relay EXCEPT ![r] = @ \cup {e}]
              \/ UNCHANGED relay

\* #query: stored events for the recipient, not older than since, not withheld.
History(r, type, since) ==
    {e \in relay[r] \ partition : e.type = type /\ e.created >= since}

SetPartition ==
    /\ partition = {} /\ Spend("faults")
    /\ partition' \in {{e} : e \in UNION {relay[r] : r \in Relays}}
    /\ UNCHANGED <<now, relay, sender, receiverVars>>

ClearPartition ==
    /\ partition # {} /\ partition' = {}
    /\ UNCHANGED <<budget, now, relay, sender, receiverVars>>

\* Any other event tagged with the receiver's key.
PublishStray(r) ==
    /\ Spend("strays")
    /\ \E stray \in {Unreadable, Misattributed} :
        relay' = [relay EXCEPT ![r] = @ \cup
                    {[type |-> "request", payment |-> stray, n |-> 1, created |-> now]}]
    /\ UNCHANGED <<now, partition, sender, receiverVars>>

Tick ==
    /\ Spend("ticks") /\ now' = now + 1
    /\ UNCHANGED <<relay, partition, sender, receiverVars>>

-----------------------------------------------------------------------------
(* The sender: NostrPaymentTransport.send. *)

NoSend == [pc |-> "idle", attempt |-> 0, at |-> 0, event |-> <<>>,
           heard |-> [r \in Relays |-> "pending"], polls |-> 0, got |-> "none"]

Send(p) ==
    LET s == sender[p]
    IN  /\ s.pc \in {"idle", "no_response"} /\ s.attempt < budget.attempts
        /\ Unexpired(p)
        /\ \E created \in Wrapped(now) :
            sender' = [sender EXCEPT ![p] =
                [NoSend EXCEPT !.pc = "publishing", !.attempt = s.attempt + 1, !.at = now,
                   !.event = [type |-> "request", payment |-> p, n |-> s.attempt + 1,
                              created |-> created]]]
        /\ UNCHANGED <<budget, now, relay, partition, receiverVars>>

PublishRequest(p, r) ==
    LET s == sender[p]
    IN  /\ s.pc = "publishing" /\ s.heard[r] = "pending"
        /\ \E heard \in {"accepted", "rejected", "nothing"} :
            /\ Publish(r, s.event, heard)
            /\ LET all == [s.heard EXCEPT ![r] = heard]
               IN  sender' = [sender EXCEPT ![p].heard = all,
                     ![p].pc = IF \E q \in Relays : all[q] = "pending" THEN @ ELSE "polling"]
        /\ UNCHANGED <<now, partition, receiverVars>>

\* After the last poll the reference sender tells a refusal of every relay from
\* silence; the cashu-ts sender fails either way, and may send again.
Concluded(s) ==
    IF budget.sender = "cashu_ts" \/ \E r \in Relays : s.heard[r] # "rejected"
    THEN "no_response" ELSE "permanent_failure"

\* mergeObservedReceipt over the receipts found: the latest counts.
Merged(replies) ==
    IF replies = {} THEN "none"
    ELSE IF \A e \in replies : e.status = "pending" THEN "pending"
    ELSE (CHOOSE e \in replies : e.status # "pending").status

\* One poll: the receipts for this payment on the relays that answer; all of
\* them silent ends the send, and the last poll decides how it ended.
PollReceipt(p) ==
    LET s == sender[p]
    IN  /\ s.pc = "polling"
        /\ \E up \in SUBSET Relays :
           LET replies == {e \in UNION {History(r, "receipt", Since(s.at)) : r \in up} :
                             e.payment = p}
               got == Merged(replies)
               last == s.polls + 1 = PollAttempts
               pc == IF up = {} THEN "no_response"
                     ELSE IF got # "none" THEN "receipt"
                     ELSE IF last THEN Concluded(s) ELSE "polling"
           IN  /\ IF up = Relays THEN UNCHANGED budget ELSE Spend("faults")
               /\ sender' = [sender EXCEPT ![p].pc = pc, ![p].polls = @ + 1, ![p].got = got]
        /\ UNCHANGED <<now, relay, partition, receiverVars>>

-----------------------------------------------------------------------------
(* The receiver: CashuTsNostrReceiver. *)

NoPoll == [pc |-> "idle", since |-> 0, answered |-> [r \in Relays |-> "no"],
           found |-> {}, current |-> <<>>]

StartPoll ==
    /\ poll.pc = "idle" /\ Spend("polls")
    /\ poll' = [NoPoll EXCEPT !.pc = "querying", !.since = Since(lastSeen)]
    /\ UNCHANGED <<now, relay, partition, sender, ledger, lastSeen, processed,
                   receipts, refusals>>

QueryRelay(r) ==
    /\ poll.pc = "querying" /\ poll.answered[r] = "no"
    /\ \/ /\ poll' = [poll EXCEPT !.answered[r] = "yes",
                        !.found = @ \cup History(r, "request", poll.since)]
          /\ UNCHANGED budget
       \/ poll' = [poll EXCEPT !.answered[r] = "failed"] /\ Spend("faults")
    /\ UNCHANGED <<now, relay, partition, sender, ledger, lastSeen, processed, receipts,
                   refusals>>

\* The events not processed yet are handled one after the other.
Collect ==
    /\ poll.pc = "querying" /\ \A r \in Relays : poll.answered[r] # "no"
    /\ poll' = IF \A r \in Relays : poll.answered[r] = "failed" THEN NoPoll
               ELSE [poll EXCEPT !.pc = "processing", !.found = @ \ processed]
    /\ UNCHANGED <<budget, now, relay, partition, sender, ledger, lastSeen, processed,
                   receipts, refusals>>

\* By created_at, then by id.
Before(e, f) ==
    \/ e.created < f.created
    \/ e.created = f.created /\ e.n < f.n
Earliest(e) == \A f \in poll.found \ {e} : ~ Before(f, e)

\* Mutant: an event whose delivery is accepted counts as processed.
AcceptedIsProcessed(all) == TRUE

\* One relay that takes the receipt is enough.
Answered(all) == \E q \in Relays : all[q] = "accepted"

Readable(e) == e.payment # Unreadable
Unwraps(e) == Readable(e) /\ e.payment # Misattributed

\* An event that does not unwrap is done with.
SkipEvent ==
    /\ poll.pc = "processing"
    /\ \E e \in poll.found :
        /\ Earliest(e) /\ ~ Unwraps(e)
        /\ processed' = processed \cup {e}
        /\ lastSeen' = Max({lastSeen, e.created})
        /\ poll' = [poll EXCEPT !.found = @ \ {e}]
    /\ UNCHANGED <<budget, now, relay, partition, sender, ledger, receipts, refusals>>

\* acceptDelivery redeems what it accepts before it answers: the delivery ends
\* or stays pending, and one that has ended keeps its receipt.
Final == {"settled", "rejected"}
RedeemsTo(status) == IF status \in Final THEN {status} ELSE {"pending"} \cup Final

\* #process as far as the receipt: the delivery is accepted and its receipt
\* wrapped.
AcceptEvent(e) ==
    LET p == e.payment
    IN  /\ Unexpired(p)
        /\ \E status \in RedeemsTo(ledger[p]), created \in Wrapped(now) :
            /\ ledger' = [ledger EXCEPT ![p] = status]
            /\ poll' = [poll EXCEPT !.pc = "publishing", !.found = @ \ {e},
                 !.current = [type |-> "receipt", payment |-> p, n |-> receipts + 1,
                              to |-> e, status |-> status, created |-> created]]
        /\ receipts' = receipts + 1
        /\ UNCHANGED <<budget, processed, lastSeen, refusals>>

\* isTerminalProcessingError: nobody looks at the event again.
Terminal(e, kind) ==
    /\ processed' = processed \cup {e}
    /\ refusals' = refusals \cup {[event |-> e, kind |-> kind]}

\* What ends #process without a receipt: the payload has expired, whatever
\* became of its delivery; a delivery that is not known is refused; or
\* preparing or redeeming it fails, with a ReceiverDomainError or with another
\* error, which leaves the event open.
ExpiredEvent(e) ==
    /\ ~ Unexpired(e.payment)
    /\ Terminal(e, "expired")
    /\ UNCHANGED <<budget, ledger>>

RefuseEvent(e) ==
    /\ Unexpired(e.payment) /\ ledger[e.payment] = "none" /\ Spend("refused")
    /\ Terminal(e, "refused")
    /\ UNCHANGED ledger

FailEvent(e) ==
    LET p == e.payment
    IN  /\ Unexpired(p) /\ Spend("faults")
        /\ \E status \in {ledger[p]} \cup RedeemsTo(ledger[p]) :
            ledger' = [ledger EXCEPT ![p] = status]
        /\ Terminal(e, "failed") \/ UNCHANGED <<processed, refusals>>

LeaveEvent(e) ==
    /\ ExpiredEvent(e) \/ RefuseEvent(e) \/ FailEvent(e)
    /\ poll' = [poll EXCEPT !.found = @ \ {e}]
    /\ lastSeen' = Max({lastSeen, e.created})
    /\ UNCHANGED receipts

Accept ==
    /\ poll.pc = "processing"
    /\ \E e \in poll.found :
        /\ Earliest(e) /\ Unwraps(e)
        /\ AcceptEvent(e) \/ LeaveEvent(e)
    /\ UNCHANGED <<now, relay, partition, sender>>

\* The receipt goes to every relay.
PublishReceipt(r) ==
    /\ poll.pc = "publishing" /\ poll.answered[r] \in {"yes", "failed"}
    /\ \E heard \in {"accepted", "rejected", "nothing"} :
        /\ Publish(r, poll.current, heard)
        /\ LET all == [poll.answered EXCEPT ![r] = heard]
               e == poll.current.to
               done == \A q \in Relays : all[q] \notin {"yes", "failed"}
           IN  IF ~ done THEN poll' = [poll EXCEPT !.answered = all] /\ UNCHANGED <<processed, lastSeen>>
               ELSE /\ processed' = IF Answered(all) THEN processed \cup {e} ELSE processed
                    /\ lastSeen' = Max({lastSeen, e.created})
                    /\ poll' = [poll EXCEPT !.pc = "processing",
                                  !.answered = [q \in Relays |-> "yes"]]
    /\ UNCHANGED <<now, partition, sender, ledger, receipts, refusals>>

EndPoll ==
    /\ poll.pc = "processing" /\ poll.found = {}
    /\ poll' = NoPoll
    /\ UNCHANGED <<budget, now, relay, partition, sender, ledger, lastSeen, processed,
                   receipts, refusals>>

\* The receiver's process restarts and its poller begins anew.
Restart ==
    /\ Spend("restarts")
    /\ processed' = {} /\ lastSeen' = now /\ poll' = NoPoll
    /\ UNCHANGED <<now, relay, partition, sender, ledger, receipts, refusals>>

\* The recovery worker ends a delivery, or a request over HTTP does.
EndDelivery(p) ==
    /\ ledger[p] = "pending"
    /\ \E status \in Final : ledger' = [ledger EXCEPT ![p] = status]
    /\ UNCHANGED <<budget, now, relay, partition, sender, lastSeen, processed, poll, receipts,
                   refusals>>

NostrInit ==
    /\ budget \in Plans
    /\ now = Overlap /\ lastSeen = Overlap
    /\ relay = [r \in Relays |-> {}] /\ partition = {}
    /\ sender = [p \in Payments |-> NoSend]
    /\ ledger = [p \in Payments |-> "none"]
    /\ processed = {} /\ poll = NoPoll /\ receipts = 0 /\ refusals = {}

NostrNext ==
    \/ SetPartition \/ ClearPartition \/ Tick
    \/ \E p \in Payments : Send(p) \/ PollReceipt(p) \/ EndDelivery(p)
    \/ \E p \in Payments, r \in Relays : PublishRequest(p, r)
    \/ StartPoll \/ Collect \/ SkipEvent \/ Accept \/ EndPoll \/ Restart
    \/ \E r \in Relays : QueryRelay(r) \/ PublishReceipt(r) \/ PublishStray(r)

NostrSpec == NostrInit /\ [][NostrNext]_nostrVars

-----------------------------------------------------------------------------
(* Properties. *)

Stored == UNION {relay[r] : r \in Relays}
Request(p) == sender[p].event

EndedBy(e, kind) == [event |-> e, kind |-> kind] \in refusals

\* What the two sides conclude is true of the other.  A receipt the sender got
\* is one the receiver's ledger stands behind; a send that all relays refused
\* left its event on none of them; and a request the receiver will not look at
\* again has a receipt that some relay keeps, unless its payload has expired or
\* it was refused or failed for good (NostrPaymentTransport.send,
\* CashuTsNostrReceiver.#process).
NostrOutcomeIsHonest ==
    /\ \A p \in Payments :
        /\ sender[p].pc = "receipt" =>
             sender[p].got = ledger[p] \/ (sender[p].got = "pending" /\ ledger[p] \in Final)
        /\ sender[p].pc = "permanent_failure" => Request(p) \notin Stored
    /\ \A e \in processed :
        \/ ~ Unwraps(e)
        \/ \E f \in Stored : f.type = "receipt" /\ f.to = e
        \/ EndedBy(e, "expired") /\ ~ Unexpired(e.payment)
        \/ EndedBy(e, "refused") \/ EndedBy(e, "failed")

\* A payment that a relay keeps stays within the window the receiver asks for
\* until it is accepted, refused or expired: "Query overlapping two-day windows so
\* randomized timestamps and relay outages do not hide accepted payments"
\* (docs/adapter-guide.md).
StoredPaymentsStayVisible ==
    \A p \in Payments :
        LET kept == {e \in Stored : e.type = "request" /\ e.payment = p}
            waits == ledger[p] = "none" /\ Unexpired(p) /\ kept \cap processed = {}
        IN  kept # {} /\ waits => \E e \in kept : e.created >= Since(lastSeen)
=============================================================================
