---------------------------- MODULE FaultGateway ----------------------------
(***************************************************************************)
(* The HTTP fault gateway (apps/http-fault-gateway/src): a proxy that      *)
(* takes one matching fault rule at each of three points of a request,     *)
(* before it is forwarded, once the downstream server has answered, and    *)
(* before the answer goes back, while a control client sets rules, clears  *)
(* them or resets the gateway.                                             *)
(*                                                                         *)
(* Between two awaits of a handler nothing else runs.  A request is held   *)
(* back by a reorder rule until the next request that takes the rule has   *)
(* been answered downstream, or until its timer fires.  The downstream     *)
(* server is external; its answers are numbered.                           *)
(***************************************************************************)
EXTENDS Integers, Sequences, FiniteSets

CONSTANTS
    Requests,      \* requests to be proxied
    Kind,          \* [Requests -> [route, delivery]]
    Campaigns,     \* [posts, resets]: the rules a control client posts, in order,
                   \* and how often it resets the gateway
    MaxRules,      \* bound: posts of a campaign
    MaxStale,      \* MAX_STALE_RESPONSES
    NoRequest

VARIABLES
    campaign,
    rules, sequence, generation, attempts,   \* GatewayControl
    seenGeneration, cache, reorder,          \* HttpFaultGateway
    req, timer, expired,
    answers,       \* downstream answers so far: the generation of each
    closed,
    overlapped     \* a reset met a request in the gateway

gatewayVars ==
    <<campaign, rules, sequence, generation, attempts, seenGeneration, cache, reorder, req,
      timer, expired, answers, closed, overlapped>>
controlVars == <<campaign, rules, sequence, generation, attempts>>

Phases == {"before_forward", "after_downstream_commit", "after_downstream_response"}
Actions == {"drop", "delay", "duplicate", "reorder", "status", "stale_response", "truncate"}

\* validateRule
ValidRule(in) ==
    /\ in.phase \in Phases /\ in.action \in Actions
    /\ in.count >= 1
    /\ in.action \in {"duplicate", "reorder"} => in.phase = "before_forward"
    /\ in.action \in {"stale_response", "truncate"} => in.phase = "after_downstream_response"

\* ruleMatches; 0 and "any" stand for an absent field.
RuleMatches(rule, phase, r, ordinal) ==
    /\ rule.phase = phase
    /\ rule.occurrence \in {0, ordinal}
    /\ rule.route \in {"any", Kind[r].route}

NoRule == [id |-> 0, action |-> "none"]

\* GatewayControl.take: the first rule that matches and is not used up.
Taken(phase, r, ordinal) ==
    LET usable == {i \in DOMAIN rules :
                     rules[i].remaining > 0 /\ RuleMatches(rules[i], phase, r, ordinal)}
    IN  IF usable = {} THEN 0 ELSE CHOOSE i \in usable : \A j \in usable : i <= j
RuleAt(i) == IF i = 0 THEN NoRule ELSE rules[i]
Take(i) ==
    rules' = IF i = 0 THEN rules ELSE [rules EXCEPT ![i].remaining = @ - 1]

Step(r, pc) == req' = [req EXCEPT ![r].pc = pc]
Active(r) == req[r].pc \notin {"new", "done"}

-----------------------------------------------------------------------------
(* The control routes. *)

\* Mutant: a reset is noticed and the responses are kept.
NoticeOnly == seenGeneration' = generation /\ UNCHANGED cache

\* A handler that starts after a reset drops the responses it remembers.
NoticeReset ==
    /\ seenGeneration' = generation
    /\ cache' = IF seenGeneration = generation THEN cache ELSE <<>>

SetRule ==
    LET in == campaign.posts[sequence + 1]
    IN  /\ ~ closed /\ sequence < Len(campaign.posts)
        /\ sequence' = sequence + 1
        /\ rules' = IF ValidRule(in)
                    THEN Append(rules, [id |-> sequence + 1, phase |-> in.phase,
                                        action |-> in.action, route |-> in.route,
                                        occurrence |-> in.occurrence,
                                        remaining |-> in.count])
                    ELSE rules
    /\ NoticeReset
    /\ UNCHANGED <<campaign, generation, attempts, reorder, req, timer, expired, answers, closed, overlapped>>

ClearRules ==
    /\ ~ closed /\ rules # <<>>
    /\ rules' = <<>>
    /\ NoticeReset
    /\ UNCHANGED <<campaign, sequence, generation, attempts, reorder, req, timer, expired,
                   answers, closed, overlapped>>

\* GatewayControl.reset, after the check every handler makes first.
Reset ==
    /\ ~ closed /\ generation < campaign.resets
    /\ NoticeReset
    /\ generation' = generation + 1
    /\ rules' = <<>>
    /\ attempts' = [k \in DOMAIN attempts |-> 0]
    /\ overlapped' = (overlapped \/ \E r \in Requests : Active(r))
    /\ UNCHANGED <<campaign, sequence, reorder, req, timer, expired, answers, closed>>

-----------------------------------------------------------------------------
(* A proxied request: #handle. *)

Arrive(r) ==
    /\ ~ closed /\ req[r].pc = "new"
    /\ Step(r, "reading")
    /\ NoticeReset
    /\ UNCHANGED <<controlVars, reorder, timer, expired, answers, closed, overlapped>>

TooLarge(r) ==
    /\ req[r].pc = "reading" /\ Step(r, "done")
    /\ UNCHANGED <<controlVars, seenGeneration, cache, reorder, timer, expired,
                   answers, closed, overlapped>>

\* Mutant: the timer is cleared as soon as the requests are paired.
BeginDisarming(r) ==
    LET ordinal == attempts[Kind[r]] + 1
        i == Taken("before_forward", r, ordinal)
        rule == RuleAt(i)
        begun == [req[r] EXCEPT !.ordinal = ordinal, !.generation = generation]
        held == IF rule.action = "reorder" THEN reorder[rule.id] ELSE NoRequest
        holds == rule.action = "reorder" /\ held = NoRequest
        pc == CASE rule.action \in {"drop", "status"} -> "done"
                [] rule.action = "delay" -> "delayed"
                [] holds -> "held"
                [] OTHER -> "sent"
    IN  /\ req[r].pc = "reading"
        /\ attempts' = [attempts EXCEPT ![Kind[r]] = ordinal]
        /\ Take(i)
        /\ req' = [req EXCEPT ![r] = [begun EXCEPT !.pc = pc, !.second = held]]
        /\ reorder' = IF rule.action = "reorder"
                      THEN [reorder EXCEPT ![rule.id] = IF holds THEN r ELSE NoRequest]
                      ELSE reorder
        /\ timer' = CASE holds -> [timer EXCEPT ![r] = rule.id]
                    [] held # NoRequest -> [timer EXCEPT ![held] = 0]
                    [] OTHER -> timer
        /\ UNCHANGED <<campaign, sequence, generation, seenGeneration, cache, expired, answers,
                       closed, overlapped>>

\* The body is read: control.begin counts the attempt, and #applyBefore takes
\* its rule.  A reorder rule holds the request back, or pairs it with the one it
\* holds; any other request that goes on is sent by #dispatch, in one copy or
\* in several.
Begin(r) ==
    LET ordinal == attempts[Kind[r]] + 1
        i == Taken("before_forward", r, ordinal)
        rule == RuleAt(i)
        begun == [req[r] EXCEPT !.ordinal = ordinal, !.generation = generation]
        held == IF rule.action = "reorder" THEN reorder[rule.id] ELSE NoRequest
        holds == rule.action = "reorder" /\ held = NoRequest
        pc == CASE rule.action \in {"drop", "status"} -> "done"
                [] rule.action = "delay" -> "delayed"
                [] holds -> "held"
                [] OTHER -> "sent"
    IN  /\ req[r].pc = "reading"
        /\ attempts' = [attempts EXCEPT ![Kind[r]] = ordinal]
        /\ Take(i)
        /\ req' = [req EXCEPT ![r] = [begun EXCEPT !.pc = pc, !.second = held]]
        /\ reorder' = IF rule.action = "reorder"
                      THEN [reorder EXCEPT ![rule.id] = IF holds THEN r ELSE NoRequest]
                      ELSE reorder
        /\ timer' = IF holds THEN [timer EXCEPT ![r] = rule.id] ELSE timer
        /\ UNCHANGED <<campaign, sequence, generation, seenGeneration, cache, expired, answers,
                       closed, overlapped>>

\* A delay ends.
Undelay(r) ==
    /\ req[r].pc \in {"delayed", "committed_late", "answered_late"}
    /\ Step(r, CASE req[r].pc = "delayed"        -> "sent"
                 [] req[r].pc = "committed_late" -> "committed"
                 [] OTHER                        -> "done")
    /\ UNCHANGED <<controlVars, seenGeneration, cache, reorder, timer, expired,
                   answers, closed, overlapped>>

\* The timer of a held request: the rule forgets whoever it holds, and the
\* request goes on.
TimerFires(r) ==
    /\ timer[r] # 0
    /\ reorder' = [reorder EXCEPT ![timer[r]] = NoRequest]
    /\ timer' = [timer EXCEPT ![r] = 0]
    /\ expired' = expired \cup {r}
    /\ Step(r, "sent")
    /\ UNCHANGED <<controlVars, seenGeneration, cache, answers, closed, overlapped>>

\* What a request does to the one it holds as secondReorder.
Released(r, s) == [s EXCEPT ![r].second = NoRequest,
                            ![s[r].second].pc = IF @ = "held" THEN "sent" ELSE @]
Release(r, pc) ==
    LET next == [req EXCEPT ![r].pc = pc]
    IN  IF req[r].second = NoRequest THEN req' = next /\ UNCHANGED timer
        ELSE req' = Released(r, next) /\ timer' = [timer EXCEPT ![req[r].second] = 0]

\* Downstream: all copies of the request have answered, or one has failed and
\* with it the handler.
Commit(r) ==
    LET i == Taken("after_downstream_commit", r, req[r].ordinal)
        rule == RuleAt(i)
    IN  /\ req[r].pc = "sent"
        /\ Take(i)
        /\ CASE rule.action \in {"drop", "status"} -> Release(r, "done")
             [] rule.action = "delay" -> Step(r, "committed_late") /\ UNCHANGED timer
             [] OTHER -> Step(r, "committed") /\ UNCHANGED timer
        /\ UNCHANGED <<campaign, sequence, generation, attempts, seenGeneration, cache, reorder,
                       expired, answers, closed, overlapped>>

DownstreamFails(r) ==
    /\ req[r].pc \in {"sent", "committed"} /\ Step(r, "done")
    /\ UNCHANGED <<controlVars, seenGeneration, cache, reorder, timer, expired,
                   answers, closed, overlapped>>

\* The remembered response of a route, by position in the cache.
Cached(route) == {i \in DOMAIN cache : cache[i].route = route}

\* #rememberResponse
Remember(route, answer) ==
    LET entry == [route |-> route, answer |-> answer]
        kept == IF Len(cache) = MaxStale THEN Tail(cache) ELSE cache
    IN  cache' = IF Cached(route) # {}
                 THEN [i \in DOMAIN cache |-> IF cache[i].route = route THEN entry ELSE cache[i]]
                 ELSE Append(kept, entry)

\* The body is consumed, the held request goes on, the response is remembered
\* and the last rule applied.
Consume(r) ==
    LET i == Taken("after_downstream_response", r, req[r].ordinal)
        rule == RuleAt(i)
        answer == Len(answers) + 1
        earlier == {cache[k].answer : k \in Cached(Kind[r].route)}
        served == IF rule.action = "stale_response" THEN earlier ELSE {answer}
        pc == IF rule.action = "delay" THEN "answered_late" ELSE "done"
        base == [req EXCEPT ![r].pc = pc,
                   ![r].served = IF rule.action \in {"drop", "status"} THEN {} ELSE served]
    IN  /\ req[r].pc = "committed"
        /\ Take(i)
        /\ answers' = Append(answers, [by |-> r, generation |-> req[r].generation])
        /\ Remember(Kind[r].route, answer)
        /\ IF req[r].second = NoRequest THEN req' = base /\ UNCHANGED timer
           ELSE /\ req' = Released(r, base)
                /\ timer' = [timer EXCEPT ![req[r].second] = 0]
        /\ UNCHANGED <<campaign, sequence, generation, attempts, seenGeneration, reorder, expired,
                       closed, overlapped>>

\* close: every request still held by a rule goes on.
Close ==
    /\ ~ closed /\ closed' = TRUE
    /\ LET held == {r \in Requests : \E id \in DOMAIN reorder : reorder[id] = r}
       IN  /\ req' = [r \in Requests |->
                        IF r \in held THEN [req[r] EXCEPT !.pc = "sent"] ELSE req[r]]
           /\ timer' = [r \in Requests |-> IF r \in held THEN 0 ELSE timer[r]]
    /\ reorder' = [id \in DOMAIN reorder |-> NoRequest]
    /\ cache' = <<>>
    /\ UNCHANGED <<controlVars, seenGeneration, expired, answers, overlapped>>

GatewayInit ==
    /\ campaign \in Campaigns
    /\ rules = <<>> /\ sequence = 0 /\ generation = 0 /\ seenGeneration = 0
    /\ attempts = [k \in {Kind[r] : r \in Requests} |-> 0]
    /\ cache = <<>> /\ answers = <<>> /\ closed = FALSE /\ expired = {}
    /\ overlapped = FALSE
    /\ reorder = [id \in 1 .. MaxRules |-> NoRequest]
    /\ req = [r \in Requests |-> [pc |-> "new", ordinal |-> 0, generation |-> 0,
                                  second |-> NoRequest, served |-> {}]]
    /\ timer = [r \in Requests |-> 0]

GatewayNext ==
    \/ SetRule \/ ClearRules \/ Reset \/ Close
    \/ \E r \in Requests :
        \/ Arrive(r) \/ TooLarge(r) \/ Begin(r) \/ Undelay(r)
        \/ TimerFires(r) \/ Commit(r) \/ DownstreamFails(r) \/ Consume(r)

GatewaySpec == GatewayInit /\ [][GatewayNext]_gatewayVars

\* What the proofs assume of the constants.
Posted == [phase : STRING, action : STRING, count : Int, occurrence : Nat, route : STRING]
GatewayConstants ==
    /\ NoRequest \notin Requests
    /\ MaxRules \in Nat /\ MaxStale \in Nat \ {0}
    /\ Kind \in [Requests -> [route : STRING, delivery : Nat]]
    /\ \A c \in Campaigns :
          c \in [posts : Seq(Posted), resets : Nat] /\ Len(c.posts) <= MaxRules

-----------------------------------------------------------------------------
(* Properties. *)

\* A request held back by a reorder rule is never forgotten: its timer is armed,
\* or a request that is to release it is under way.  And it is not forwarded
\* before the request it was paired with has its answer, or has been cut off,
\* unless its timer fired: the two really arrive in the other order
\* (#applyBefore).
HeldRequestsAreReordered ==
    /\ \A r \in Requests : req[r].pc = "held" =>
        timer[r] # 0 \/ \E s \in Requests : req[s].second = r /\ Active(s)
    /\ \A s \in Requests :
        req[s].second # NoRequest /\ Active(s) =>
            \/ req[req[s].second].pc = "held"
            \/ req[s].second \in expired

\* A stale response is an earlier answer for the same route to a request of the
\* same run: a reset that meets no request in the gateway leaves no response of
\* the run before it (#rememberResponse, the check of the control generation).
StaleIsFromThisRun ==
    ~ overlapped =>
    \A r \in Requests : \A a \in req[r].served :
        /\ Kind[answers[a].by].route = Kind[r].route
        /\ answers[a].generation = req[r].generation
=============================================================================
