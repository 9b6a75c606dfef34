-------------------------- MODULE TransportProofs ---------------------------
(***************************************************************************)
(* The two transports.  The HTTP fault gateway, for any number of          *)
(* requests, rules and resets: what each step does, what becomes of a      *)
(* request held back by a rule, and which run a stale response is from.    *)
(* Delivery over Nostr, for any number of relays, payments, attempts and   *)
(* lost answers: what either side concludes is true of the other.          *)
(***************************************************************************)
EXTENDS FaultGateway, NostrDelivery, TLAPS, WellFoundedInduction

USE ZenonT(10), SMTT(15), Z3T(15)

Steps == {"new", "reading", "delayed", "held", "sent", "committed", "committed_late",
          "answered_late", "done"}
Rules == [id : 1 .. MaxRules, phase : Phases, action : Actions, route : STRING,
          occurrence : Nat, remaining : Int]
RequestStates == [pc : Steps, ordinal : Nat, generation : Nat,
                  second : Requests \cup {NoRequest}, served : SUBSET Nat]

GatewayTypeOK ==
    /\ campaign \in Campaigns
    /\ rules \in Seq(Rules)
    /\ sequence \in 0 .. Len(campaign.posts)
    /\ generation \in Nat /\ seenGeneration \in Nat
    /\ attempts \in [{Kind[r] : r \in Requests} -> Nat]
    /\ cache \in Seq([route : STRING, answer : Nat])
    /\ reorder \in [1 .. MaxRules -> Requests \cup {NoRequest}]
    /\ req \in [Requests -> RequestStates]
    /\ timer \in [Requests -> 0 .. MaxRules]
    /\ expired \subseteq Requests
    /\ answers \in Seq([by : Requests, generation : Nat])
    /\ closed \in BOOLEAN /\ overlapped \in BOOLEAN

-----------------------------------------------------------------------------
(* The rule a request takes.                                                 *)

\* A set of positions has a least one.
LEMMA LeastPosition ==
  ASSUME NEW S \in SUBSET Nat, S # {}
  PROVE  \E i \in S : \A j \in S : i <= j
<1> DEFINE R == OpToRel(<, Nat)
<1>1. IsWellFoundedOn(R, Nat)
  BY NatLessThanWellFounded
<1>2. \A i, j \in Nat : <<j, i>> \in R <=> j < i
  BY DEF OpToRel
<1> HIDE DEF R
<1>3. \E i \in S : \A j \in S : ~(<<j, i>> \in R)
  BY <1>1, WFMin
<1>4. \A i, j \in Nat : ~(j < i) => i <= j
  OBVIOUS
<1> QED BY <1>2, <1>3, <1>4

LEMMA TakenIsAPosition ==
  ASSUME GatewayTypeOK, NEW phase, NEW r, NEW ordinal
  PROVE  Taken(phase, r, ordinal) \in {0} \cup DOMAIN rules
<1> DEFINE usable == {i \in DOMAIN rules :
                        rules[i].remaining > 0 /\ RuleMatches(rules[i], phase, r, ordinal)}
<1>1. DOMAIN rules \subseteq Nat
  BY DEF GatewayTypeOK
<1>2. CASE usable = {}
  BY <1>2 DEF Taken
<1>3. CASE usable # {}
  <2>1. \E i \in usable : \A j \in usable : i <= j
    BY <1>1, <1>3, LeastPosition
  <2>2. (CHOOSE i \in usable : \A j \in usable : i <= j) \in usable
    BY <2>1
  <2> QED BY <1>3, <2>2 DEF Taken
<1> QED BY <1>2, <1>3

LEMMA RuleTaken ==
  ASSUME GatewayTypeOK, NEW i \in {0} \cup DOMAIN rules
  PROVE  /\ RuleAt(i).action \in Actions \cup {"none"}
         /\ RuleAt(i).action # "none" => RuleAt(i).id \in 1 .. MaxRules
         /\ Take(i) => rules' \in Seq(Rules)
<1>1. CASE i = 0
  BY <1>1 DEF RuleAt, NoRule, Take, GatewayTypeOK
<1>2. CASE i # 0
  <2>1. rules \in Seq(Rules) /\ i \in DOMAIN rules
    BY <1>2 DEF GatewayTypeOK
  <2>2. rules[i] \in Rules /\ RuleAt(i) = rules[i]
    BY <1>2, <2>1 DEF RuleAt
  <2>3. [rules[i] EXCEPT !.remaining = @ - 1] \in Rules
    BY <2>2 DEF Rules
  <2>4. [rules EXCEPT ![i].remaining = @ - 1] \in Seq(Rules)
    BY <2>1, <2>3
  <2>5. Take(i) => rules' \in Seq(Rules)
    BY <1>2, <2>4 DEF Take
  <2>6. RuleAt(i).action \in Actions /\ RuleAt(i).id \in 1 .. MaxRules
    BY <2>2 DEF Rules
  <2> QED BY <2>5, <2>6
<1> QED BY <1>1, <1>2

\* What a request that lets the one it holds go on makes of the two.
LEMMA ReleasedRequests ==
  ASSUME NEW s \in [Requests -> RequestStates], NEW r \in Requests,
         s[r].second \in Requests
  PROVE  /\ Released(r, s) \in [Requests -> RequestStates]
         /\ \A q \in Requests :
              /\ Released(r, s)[q].pc = IF q = s[r].second /\ s[q].pc = "held"
                                        THEN "sent" ELSE s[q].pc
              /\ Released(r, s)[q].second = IF q = r THEN NoRequest ELSE s[q].second
              /\ Released(r, s)[q].generation = s[q].generation
              /\ Released(r, s)[q].served = s[q].served
<1> DEFINE t == [s EXCEPT ![r].second = NoRequest]
           v == s[r].second
           w == [t[v] EXCEPT !.pc = IF t[v].pc = "held" THEN "sent" ELSE t[v].pc]
<1>1. s[r] \in RequestStates /\ t = [s EXCEPT ![r] = [s[r] EXCEPT !.second = NoRequest]]
  OBVIOUS
<1>2. [s[r] EXCEPT !.second = NoRequest] \in RequestStates
  BY <1>1 DEF RequestStates
<1>3. t \in [Requests -> RequestStates]
  BY <1>1, <1>2
<1>4. \A q \in Requests :
        /\ t[q].pc = s[q].pc /\ t[q].generation = s[q].generation /\ t[q].served = s[q].served
        /\ t[q].second = IF q = r THEN NoRequest ELSE s[q].second
  <2> TAKE q \in Requests
  <2>1. CASE q # r
    BY <2>1
  <2>2. CASE q = r
    BY <2>2, <1>1 DEF RequestStates
  <2> QED BY <2>1, <2>2
<1>5. Released(r, s) = [t EXCEPT ![v] = w]
  BY DEF Released
<1> HIDE DEF t
<1>6. t[v] \in RequestStates
  BY <1>3
<1>7. \A u \in RequestStates : \A pc \in Steps :
        LET x == [u EXCEPT !.pc = pc]
        IN  /\ x \in RequestStates /\ x.pc = pc /\ x.second = u.second
            /\ x.generation = u.generation /\ x.served = u.served
  BY DEF RequestStates
<1>8. (IF t[v].pc = "held" THEN "sent" ELSE t[v].pc) \in Steps
  BY <1>6 DEF RequestStates, Steps
<1>9. /\ w \in RequestStates /\ w.pc = (IF t[v].pc = "held" THEN "sent" ELSE t[v].pc)
      /\ w.second = t[v].second /\ w.generation = t[v].generation /\ w.served = t[v].served
  BY <1>6, <1>7, <1>8
<1> HIDE DEF w
<1>10. \A q \in Requests : Released(r, s)[q] = IF q = v THEN w ELSE t[q]
  BY <1>3, <1>5
<1>11. Released(r, s) \in [Requests -> RequestStates]
  BY <1>3, <1>5, <1>9
<1> QED BY <1>4, <1>9, <1>10, <1>11

-----------------------------------------------------------------------------
(* What a step does to the requests, the timers and the rules that hold one. *)

Others(r) == \A q \in Requests \ {r} : req'[q] = req[q]

GoesOn(r) ==
    /\ req[r].pc \notin {"held", "done"}
    /\ req'[r].pc \notin {"held", "new"} /\ (req'[r].pc = "reading" => req[r].pc = "new")
    /\ req'[r].second \in {req[r].second, NoRequest}
    /\ Others(r)
    /\ UNCHANGED <<timer, reorder, expired>>

IsHeld(r, id) ==
    /\ req[r].pc = "reading" /\ reorder[id] = NoRequest
    /\ req'[r].pc = "held" /\ req'[r].second = NoRequest /\ Others(r)
    /\ reorder' = [reorder EXCEPT ![id] = r] /\ timer' = [timer EXCEPT ![r] = id]
    /\ UNCHANGED expired

IsPaired(r, id) ==
    /\ req[r].pc = "reading" /\ reorder[id] # NoRequest
    /\ req'[r].pc = "sent" /\ req'[r].second = reorder[id] /\ Others(r)
    /\ reorder' = [reorder EXCEPT ![id] = NoRequest]
    /\ UNCHANGED <<timer, expired>>

LetsGo(r) ==
    LET v == req[r].second
    IN  /\ v \in Requests /\ req[r].pc \in {"sent", "committed"}
        /\ \A q \in Requests \ {r} :
              /\ req'[q].pc = IF q = v /\ req[q].pc = "held" THEN "sent" ELSE req[q].pc
              /\ req'[q].second = req[q].second
        /\ req'[r].pc \in {"done", "answered_late"} /\ req'[r].second = NoRequest
        /\ timer' = [timer EXCEPT ![v] = 0]
        /\ UNCHANGED <<reorder, expired>>

TimesOut(r) ==
    /\ timer[r] # 0
    /\ req'[r].pc = "sent" /\ req'[r].second = req[r].second /\ Others(r)
    /\ reorder' = [reorder EXCEPT ![timer[r]] = NoRequest]
    /\ timer' = [timer EXCEPT ![r] = 0]
    /\ expired' = expired \cup {r}

Closes ==
    LET held == {r \in Requests : \E id \in 1 .. MaxRules : reorder[id] = r}
    IN  /\ \A r \in Requests : req'[r].pc = IF r \in held THEN "sent" ELSE req[r].pc
        /\ \A r \in Requests : req'[r].second = req[r].second
        /\ timer' = [r \in Requests |-> IF r \in held THEN 0 ELSE timer[r]]
        /\ reorder' = [id \in 1 .. MaxRules |-> NoRequest]
        /\ UNCHANGED expired

HoldingStep ==
    \/ UNCHANGED <<req, timer, reorder, expired>>
    \/ \E r \in Requests : GoesOn(r) \/ LetsGo(r) \/ TimesOut(r)
    \/ \E r \in Requests, id \in 1 .. MaxRules : IsHeld(r, id) \/ IsPaired(r, id)
    \/ Closes

RequestsTyped == req' \in [Requests -> RequestStates]

LEMMA StepEffect ==
  ASSUME GatewayTypeOK, NEW r \in Requests, NEW pc \in Steps, Step(r, pc)
  PROVE  /\ RequestsTyped /\ Others(r)
         /\ req'[r].pc = pc /\ req'[r].second = req[r].second
         /\ req'[r].generation = req[r].generation /\ req'[r].served = req[r].served
<1>1. req \in [Requests -> RequestStates] /\ req[r] \in RequestStates
  BY DEF GatewayTypeOK
<1>2. [req[r] EXCEPT !.pc = pc] \in RequestStates
  BY <1>1 DEF RequestStates
<1>3. req' = [req EXCEPT ![r] = [req[r] EXCEPT !.pc = pc]]
  BY DEF Step
<1>4. RequestsTyped /\ Others(r) /\ req'[r] = [req[r] EXCEPT !.pc = pc]
  BY <1>1, <1>2, <1>3 DEF RequestsTyped, Others
<1> QED BY <1>1, <1>4 DEF RequestStates

LEMMA BeginEffect ==
  ASSUME GatewayTypeOK, NEW r \in Requests, Begin(r)
  PROVE  /\ RequestsTyped /\ rules' \in Seq(Rules)
         /\ attempts' \in [{Kind[q] : q \in Requests} -> Nat]
         /\ req'[r].generation = generation /\ req'[r].served = req[r].served
         /\ req'[r].pc \in {"done", "delayed", "held", "sent"}
         /\ Others(r)
         /\ \/ GoesOn(r) \/ \E id \in 1 .. MaxRules : IsHeld(r, id) \/ IsPaired(r, id)
<1> DEFINE ordinal == attempts[Kind[r]] + 1
           i == Taken("before_forward", r, ordinal)
           rule == RuleAt(i)
           begun == [req[r] EXCEPT !.ordinal = ordinal, !.generation = generation]
           held == IF rule.action = "reorder" THEN reorder[rule.id] ELSE NoRequest
           holds == rule.action = "reorder" /\ held = NoRequest
           pc == CASE rule.action \in {"drop", "status"} -> "done"
                   [] rule.action = "delay" -> "delayed"
                   [] holds -> "held"
                   [] OTHER -> "sent"
           made == [begun EXCEPT !.pc = pc, !.second = held]
<1>1. /\ req[r].pc = "reading"
      /\ attempts' = [attempts EXCEPT ![Kind[r]] = ordinal]
      /\ Take(i)
      /\ req' = [req EXCEPT ![r] = made]
      /\ reorder' = IF rule.action = "reorder"
                    THEN [reorder EXCEPT ![rule.id] = IF holds THEN r ELSE NoRequest]
                    ELSE reorder
      /\ timer' = IF holds THEN [timer EXCEPT ![r] = rule.id] ELSE timer
      /\ UNCHANGED <<campaign, sequence, generation, seenGeneration, cache, expired, answers,
                     closed, overlapped>>
  BY DEF Begin
<1>2. i \in {0} \cup DOMAIN rules
  BY TakenIsAPosition
<1>3. /\ rule.action \in Actions \cup {"none"}
      /\ rule.action # "none" => rule.id \in 1 .. MaxRules
      /\ rules' \in Seq(Rules)
  BY <1>1, <1>2, RuleTaken
<1> HIDE DEF i, rule
<1>4. held \in Requests \cup {NoRequest}
  BY <1>3 DEF GatewayTypeOK
<1>5. pc \in {"done", "delayed", "held", "sent"} /\ (pc = "held" <=> holds)
      /\ (rule.action = "reorder" /\ ~holds => pc = "sent")
  BY DEF Actions
<1>6. ordinal \in Nat /\ attempts' \in [{Kind[q] : q \in Requests} -> Nat]
  BY <1>1 DEF GatewayTypeOK
<1>7. req[r] \in RequestStates /\ generation \in Nat
  BY DEF GatewayTypeOK
<1> HIDE DEF pc, held, ordinal
<1>8. begun \in RequestStates /\ begun.generation = generation /\ begun.served = req[r].served
  BY <1>6, <1>7 DEF RequestStates
<1>9. pc \in Steps
  BY <1>5 DEF Steps
<1> HIDE DEF begun
<1>10. /\ made \in RequestStates /\ made.pc = pc /\ made.second = held
       /\ made.generation = generation /\ made.served = req[r].served
  BY <1>4, <1>8, <1>9 DEF RequestStates
<1> HIDE DEF made
<1>11. RequestsTyped /\ Others(r) /\ req'[r] = made
  BY <1>1, <1>10 DEF RequestsTyped, Others, GatewayTypeOK
<1>12. CASE rule.action # "reorder"
  <2>1. held = NoRequest /\ ~holds /\ timer' = timer /\ reorder' = reorder
    BY <1>1, <1>12 DEF held
  <2>2. GoesOn(r)
    BY <1>1, <1>5, <1>10, <1>11, <2>1 DEF GoesOn
  <2> QED BY <1>3, <1>5, <1>6, <1>10, <1>11, <2>2
<1>13. CASE rule.action = "reorder" /\ holds
  <2>1. rule.id \in 1 .. MaxRules
    BY <1>3, <1>13
  <2>2. reorder[rule.id] = NoRequest
    BY <1>13 DEF held
  <2>3. IsHeld(r, rule.id)
    BY <1>1, <1>5, <1>10, <1>11, <1>13, <2>2 DEF IsHeld
  <2> QED BY <1>3, <1>5, <1>6, <1>10, <1>11, <2>1, <2>3
<1>14. CASE rule.action = "reorder" /\ ~holds
  <2>1. rule.id \in 1 .. MaxRules
    BY <1>3, <1>14
  <2>2. reorder[rule.id] = held /\ held # NoRequest
    BY <1>14 DEF held
  <2>3. IsPaired(r, rule.id)
    BY <1>1, <1>5, <1>10, <1>11, <1>14, <2>2 DEF IsPaired
  <2> QED BY <1>3, <1>5, <1>6, <1>10, <1>11, <2>1, <2>3
<1> QED BY <1>12, <1>13, <1>14

\* A request that ends lets the one it holds go on.
LEMMA ReleaseEffect ==
  ASSUME GatewayTypeOK, NEW r \in Requests, req[r].pc \in {"sent", "committed"},
         NEW base \in [Requests -> RequestStates],
         \A q \in Requests \ {r} : base[q] = req[q],
         base[r].pc \in {"done", "answered_late"}, base[r].second = req[r].second,
         IF req[r].second = NoRequest THEN req' = base /\ UNCHANGED timer
         ELSE req' = Released(r, base) /\ timer' = [timer EXCEPT ![req[r].second] = 0],
         UNCHANGED <<reorder, expired>>
  PROVE  /\ RequestsTyped
         /\ GoesOn(r) \/ LetsGo(r)
         /\ req'[r].pc = base[r].pc
         /\ \A q \in Requests :
              /\ req'[q].generation = base[q].generation /\ req'[q].served = base[q].served
              /\ q # r => req'[q].pc = req[q].pc \/ (req[q].pc = "held" /\ req'[q].pc = "sent")
<1>1. CASE req[r].second = NoRequest
  <2>1. req' = base /\ timer' = timer
    BY <1>1
  <2>2. GoesOn(r)
    BY <2>1 DEF GoesOn, Others
  <2> QED BY <2>1, <2>2 DEF RequestsTyped
<1>2. CASE req[r].second # NoRequest
  <2> DEFINE v == req[r].second
  <2>1. v \in Requests
    BY <1>2 DEF GatewayTypeOK, RequestStates
  <2>2. base[r].second \in Requests /\ req' = Released(r, base) /\ timer' = [timer EXCEPT ![v] = 0]
    BY <1>2, <2>1
  <2>3. /\ Released(r, base) \in [Requests -> RequestStates]
        /\ \A q \in Requests :
              /\ Released(r, base)[q].pc = IF q = base[r].second /\ base[q].pc = "held"
                                           THEN "sent" ELSE base[q].pc
              /\ Released(r, base)[q].second = IF q = r THEN NoRequest ELSE base[q].second
              /\ Released(r, base)[q].generation = base[q].generation
              /\ Released(r, base)[q].served = base[q].served
    BY <2>2, ReleasedRequests
  <2>4. LetsGo(r)
    <3>1. \A q \in Requests \ {r} :
            /\ req'[q].pc = IF q = v /\ req[q].pc = "held" THEN "sent" ELSE req[q].pc
            /\ req'[q].second = req[q].second
      <4> TAKE q \in Requests \ {r}
      <4>1. base[q] = req[q] /\ q \in Requests /\ q # r /\ base[r].second = v
        OBVIOUS
      <4>2. req'[q].second = req[q].second
        BY <2>2, <2>3, <4>1
      <4>3. CASE q = v /\ req[q].pc = "held"
        BY <2>2, <2>3, <4>1, <4>2, <4>3
      <4>4. CASE ~(q = v /\ req[q].pc = "held")
        BY <2>2, <2>3, <4>1, <4>2, <4>4
      <4> QED BY <4>3, <4>4
    <3>2. req'[r].pc \in {"done", "answered_late"} /\ req'[r].second = NoRequest
      BY <2>2, <2>3
    <3> QED BY <2>1, <2>2, <3>1, <3>2 DEF LetsGo
  <2>5. req'[r].pc = base[r].pc
    BY <2>2, <2>3
  <2>6. \A q \in Requests :
          q # r => req'[q].pc = req[q].pc \/ (req[q].pc = "held" /\ req'[q].pc = "sent")
    BY <2>2, <2>3
  <2> QED BY <2>2, <2>3, <2>4, <2>5, <2>6 DEF RequestsTyped
<1> QED BY <1>1, <1>2

\* A request has moved on, and so, perhaps, has one it held.
Advanced(r, steps) ==
    /\ RequestsTyped
    /\ GoesOn(r) \/ LetsGo(r)
    /\ req'[r].pc \in steps
    /\ \A q \in Requests :
          /\ req'[q].generation = req[q].generation
          /\ q # r => /\ req'[q].served = req[q].served
                      /\ req'[q].pc = req[q].pc \/ (req[q].pc = "held" /\ req'[q].pc = "sent")

LEMMA AdvancedByStep ==
  ASSUME GatewayTypeOK, NEW r \in Requests, NEW pc \in Steps \ {"new", "held"}, Step(r, pc),
         req[r].pc \notin {"held", "done"}, pc = "reading" => req[r].pc = "new",
         UNCHANGED <<timer, reorder, expired>>
  PROVE  Advanced(r, {pc}) /\ req'[r].served = req[r].served
<1>1. /\ RequestsTyped /\ Others(r)
      /\ req'[r].pc = pc /\ req'[r].second = req[r].second
      /\ req'[r].generation = req[r].generation /\ req'[r].served = req[r].served
  BY StepEffect
<1>2. GoesOn(r)
  BY <1>1 DEF GoesOn
<1> QED BY <1>1, <1>2 DEF Advanced, Others

LEMMA CommitEffect ==
  ASSUME GatewayTypeOK, NEW r \in Requests, Commit(r)
  PROVE  /\ Advanced(r, {"done", "committed", "committed_late"})
         /\ req'[r].served = req[r].served /\ rules' \in Seq(Rules)
<1> DEFINE i == Taken("after_downstream_commit", r, req[r].ordinal)
           rule == RuleAt(i)
<1>1. /\ req[r].pc = "sent" /\ Take(i)
      /\ CASE rule.action \in {"drop", "status"} -> Release(r, "done")
           [] rule.action = "delay" -> Step(r, "committed_late") /\ UNCHANGED timer
           [] OTHER -> Step(r, "committed") /\ UNCHANGED timer
      /\ UNCHANGED <<reorder, expired>>
  BY DEF Commit
<1>2. rules' \in Seq(Rules)
  BY <1>1, TakenIsAPosition, RuleTaken
<1> HIDE DEF i, rule
<1>3. CASE rule.action \in {"drop", "status"}
  <2> DEFINE base == [req EXCEPT ![r].pc = "done"]
  <2>1. Release(r, "done")
    BY <1>1, <1>3
  <2>2. /\ base \in [Requests -> RequestStates] /\ \A q \in Requests \ {r} : base[q] = req[q]
        /\ base[r].pc = "done" /\ base[r].second = req[r].second
        /\ base[r].generation = req[r].generation /\ base[r].served = req[r].served
    BY ZenonT(40) DEF GatewayTypeOK, RequestStates, Steps
  <2>3. IF req[r].second = NoRequest THEN req' = base /\ UNCHANGED timer
        ELSE req' = Released(r, base) /\ timer' = [timer EXCEPT ![req[r].second] = 0]
    BY <2>1 DEF Release
  <2> HIDE DEF base
  <2>4. /\ RequestsTyped
        /\ GoesOn(r) \/ LetsGo(r)
        /\ req'[r].pc = base[r].pc
        /\ \A q \in Requests :
              /\ req'[q].generation = base[q].generation /\ req'[q].served = base[q].served
              /\ q # r => req'[q].pc = req[q].pc \/ (req[q].pc = "held" /\ req'[q].pc = "sent")
    BY <1>1, <2>2, <2>3, ReleaseEffect
  <2> QED BY <1>2, <2>2, <2>4 DEF Advanced
<1>4. CASE rule.action = "delay"
  <2>1. Step(r, "committed_late") /\ UNCHANGED timer
    BY <1>1, <1>4
  <2> QED BY <1>1, <1>2, <2>1, AdvancedByStep DEF Advanced, Steps
<1>5. CASE rule.action \notin {"drop", "status", "delay"}
  <2>1. Step(r, "committed") /\ UNCHANGED timer
    BY <1>1, <1>5
  <2> QED BY <1>1, <1>2, <2>1, AdvancedByStep DEF Advanced, Steps
<1> QED BY <1>3, <1>4, <1>5

\* The answers a request may be served: its own, or those remembered for the route.
Servable(r) ==
    {Len(answers) + 1} \cup {cache[k].answer : k \in Cached(Kind[r].route)}

LEMMA RememberedType ==
  ASSUME GatewayConstants, GatewayTypeOK, NEW r \in Requests
  PROVE  /\ Servable(r) \subseteq Nat
         /\ Remember(Kind[r].route, Len(answers) + 1) =>
              cache' \in Seq([route : STRING, answer : Nat])
<1> DEFINE E == [route : STRING, answer : Nat]
           entry == [route |-> Kind[r].route, answer |-> Len(answers) + 1]
           kept == IF Len(cache) = MaxStale THEN Tail(cache) ELSE cache
<1>1. cache \in Seq(E) /\ Len(answers) + 1 \in Nat /\ Kind[r].route \in STRING
  BY DEF GatewayTypeOK, GatewayConstants
<1>2. entry \in E
  BY <1>1
<1>3. Servable(r) \subseteq Nat
  <2>1. \A k \in DOMAIN cache : cache[k] \in E
    <3> HIDE DEF E
    <3> QED BY <1>1
  <2>2. \A k \in Cached(Kind[r].route) : cache[k].answer \in Nat
    BY <2>1 DEF Cached
  <2> QED BY <1>1, <2>2 DEF Servable
<1>4. kept \in Seq(E)
  <2>1. CASE Len(cache) = MaxStale
    BY <1>1, <2>1 DEF GatewayConstants
  <2>2. CASE Len(cache) # MaxStale
    BY <1>1, <2>2
  <2> QED BY <2>1, <2>2
<1>5. Append(kept, entry) \in Seq(E)
  BY <1>2, <1>4
<1>6. [k \in DOMAIN cache |-> IF cache[k].route = Kind[r].route THEN entry ELSE cache[k]] \in Seq(E)
  BY <1>1, <1>2
<1> HIDE DEF kept, entry, E
<1>7. Remember(Kind[r].route, Len(answers) + 1) => cache' \in Seq(E)
  BY <1>5, <1>6 DEF Remember, kept, entry
<1> QED BY <1>3, <1>7 DEF E

LEMMA ConsumeEffect ==
  ASSUME GatewayConstants, GatewayTypeOK, NEW r \in Requests, Consume(r)
  PROVE  /\ Advanced(r, {"done", "answered_late"})
         /\ req'[r].served \subseteq Servable(r)
         /\ rules' \in Seq(Rules)
         /\ answers' = Append(answers, [by |-> r, generation |-> req[r].generation])
<1> DEFINE i == Taken("after_downstream_response", r, req[r].ordinal)
           rule == RuleAt(i)
           answer == Len(answers) + 1
           earlier == {cache[k].answer : k \in Cached(Kind[r].route)}
           served == IF rule.action = "stale_response" THEN earlier ELSE {answer}
           pc == IF rule.action = "delay" THEN "answered_late" ELSE "done"
           given == IF rule.action \in {"drop", "status"} THEN {} ELSE served
           base == [req EXCEPT ![r].pc = pc, ![r].served = given]
<1>1. /\ req[r].pc = "committed" /\ Take(i)
      /\ answers' = Append(answers, [by |-> r, generation |-> req[r].generation])
      /\ IF req[r].second = NoRequest THEN req' = base /\ UNCHANGED timer
         ELSE req' = Released(r, base) /\ timer' = [timer EXCEPT ![req[r].second] = 0]
      /\ UNCHANGED <<reorder, expired>>
  BY DEF Consume
<1>2. rules' \in Seq(Rules)
  BY <1>1, TakenIsAPosition, RuleTaken
<1> HIDE DEF i, rule
<1>3. pc \in {"done", "answered_late"}
  OBVIOUS
<1>4. given \subseteq Servable(r)
  BY DEF Servable
<1>5. given \in SUBSET Nat
  BY <1>4, RememberedType
<1> HIDE DEF pc, given
<1>6. pc \in Steps
  BY <1>3 DEF Steps
<1>7. /\ base \in [Requests -> RequestStates] /\ \A q \in Requests \ {r} : base[q] = req[q]
      /\ base[r].pc = pc /\ base[r].second = req[r].second
      /\ base[r].generation = req[r].generation /\ base[r].served = given
  BY ZenonT(40), <1>5, <1>6 DEF GatewayTypeOK, RequestStates
<1> HIDE DEF base
<1>8. /\ RequestsTyped
      /\ GoesOn(r) \/ LetsGo(r)
      /\ req'[r].pc = base[r].pc
      /\ \A q \in Requests :
            /\ req'[q].generation = base[q].generation /\ req'[q].served = base[q].served
            /\ q # r => req'[q].pc = req[q].pc \/ (req[q].pc = "held" /\ req'[q].pc = "sent")
  BY <1>1, <1>3, <1>7, ReleaseEffect
<1>9. Advanced(r, {"done", "answered_late"})
  BY <1>3, <1>7, <1>8 DEF Advanced
<1> QED BY <1>1, <1>2, <1>4, <1>7, <1>8, <1>9

LEMMA TimerEffect ==
  ASSUME GatewayTypeOK, NEW r \in Requests, TimerFires(r)
  PROVE  /\ RequestsTyped /\ TimesOut(r)
         /\ req'[r].generation = req[r].generation /\ req'[r].served = req[r].served
<1>1. Step(r, "sent") /\ "sent" \in Steps
  BY DEF TimerFires, Steps
<1>2. /\ RequestsTyped /\ Others(r)
      /\ req'[r].pc = "sent" /\ req'[r].second = req[r].second
      /\ req'[r].generation = req[r].generation /\ req'[r].served = req[r].served
  BY <1>1, StepEffect
<1> QED BY <1>2 DEF TimerFires, TimesOut

LEMMA CloseEffect ==
  ASSUME GatewayTypeOK, Close
  PROVE  /\ RequestsTyped /\ Closes
         /\ \A q \in Requests :
              /\ req'[q].generation = req[q].generation /\ req'[q].served = req[q].served
              /\ req'[q].pc \in {req[q].pc, "sent"}
<1> DEFINE held == {r \in Requests : \E id \in DOMAIN reorder : reorder[id] = r}
           moved(q) == [req[q] EXCEPT !.pc = "sent"]
<1>1. /\ req' = [r \in Requests |-> IF r \in held THEN moved(r) ELSE req[r]]
      /\ timer' = [r \in Requests |-> IF r \in held THEN 0 ELSE timer[r]]
      /\ reorder' = [id \in DOMAIN reorder |-> NoRequest]
      /\ UNCHANGED expired
  BY DEF Close
<1>2. DOMAIN reorder = 1 .. MaxRules
  BY DEF GatewayTypeOK
<1>3. \A q \in Requests :
        /\ req[q] \in RequestStates
        /\ moved(q) \in RequestStates /\ moved(q).pc = "sent" /\ moved(q).second = req[q].second
        /\ moved(q).generation = req[q].generation /\ moved(q).served = req[q].served
  BY ZenonT(40) DEF GatewayTypeOK, RequestStates, Steps
<1> HIDE DEF moved, held
<1>4. \A q \in Requests : req'[q] = IF q \in held THEN moved(q) ELSE req[q]
  BY <1>1
<1>5. RequestsTyped
  BY <1>1, <1>3 DEF RequestsTyped
<1>6. \A q \in Requests :
        /\ req'[q].pc = (IF q \in held THEN "sent" ELSE req[q].pc)
        /\ req'[q].second = req[q].second
        /\ req'[q].generation = req[q].generation /\ req'[q].served = req[q].served
  BY <1>3, <1>4
<1>7. Closes
  BY <1>1, <1>2, <1>6 DEF Closes, held
<1> QED BY <1>5, <1>6, <1>7

-----------------------------------------------------------------------------
(* Every step of the gateway is one of these, and keeps the types.           *)

LEMMA StepIsHoldingStep ==
  ASSUME GatewayConstants, GatewayTypeOK, [GatewayNext]_gatewayVars
  PROVE  HoldingStep /\ RequestsTyped
<1>1. ASSUME UNCHANGED <<req, timer, reorder, expired>>
      PROVE  HoldingStep /\ RequestsTyped
  BY <1>1 DEF HoldingStep, RequestsTyped, GatewayTypeOK
<1>2. ASSUME NEW r \in Requests, NEW steps, Advanced(r, steps)
      PROVE  HoldingStep /\ RequestsTyped
  BY <1>2 DEF HoldingStep, Advanced
<1>3. CASE SetRule
  BY <1>1, <1>3 DEF SetRule
<1>4. CASE ClearRules
  BY <1>1, <1>4 DEF ClearRules
<1>5. CASE Reset
  BY <1>1, <1>5 DEF Reset
<1>6. CASE Close
  BY <1>6, CloseEffect DEF HoldingStep
<1>7. ASSUME NEW r \in Requests, Arrive(r)
      PROVE  HoldingStep /\ RequestsTyped
  <2>1. req[r].pc = "new" /\ Step(r, "reading") /\ UNCHANGED <<timer, reorder, expired>>
    BY <1>7 DEF Arrive
  <2>2. Advanced(r, {"reading"})
    BY <2>1, AdvancedByStep DEF Steps
  <2> QED BY <1>2, <2>2
<1>8. ASSUME NEW r \in Requests, TooLarge(r) \/ DownstreamFails(r)
      PROVE  HoldingStep /\ RequestsTyped
  <2>1. /\ req[r].pc \in {"reading", "sent", "committed"} /\ Step(r, "done")
        /\ UNCHANGED <<timer, reorder, expired>>
    BY <1>8 DEF TooLarge, DownstreamFails
  <2>2. Advanced(r, {"done"})
    BY <2>1, AdvancedByStep DEF Steps
  <2> QED BY <1>2, <2>2
<1>9. ASSUME NEW r \in Requests, Begin(r)
      PROVE  HoldingStep /\ RequestsTyped
  BY <1>9, BeginEffect DEF HoldingStep
<1>10. ASSUME NEW r \in Requests, Undelay(r)
       PROVE  HoldingStep /\ RequestsTyped
  <2>1. PICK pc \in {"sent", "committed", "done"} : Step(r, pc)
    BY <1>10 DEF Undelay
  <2>2. req[r].pc \notin {"held", "done"} /\ UNCHANGED <<timer, reorder, expired>>
    BY <1>10 DEF Undelay
  <2>3. pc \in Steps \ {"new", "held"} /\ pc # "reading"
    BY DEF Steps
  <2>4. Advanced(r, {pc})
    BY <2>1, <2>2, <2>3, AdvancedByStep
  <2> QED BY <1>2, <2>4
<1>11. ASSUME NEW r \in Requests, TimerFires(r)
       PROVE  HoldingStep /\ RequestsTyped
  BY <1>11, TimerEffect DEF HoldingStep
<1>12. ASSUME NEW r \in Requests, Commit(r)
       PROVE  HoldingStep /\ RequestsTyped
  BY <1>2, <1>12, CommitEffect
<1>13. ASSUME NEW r \in Requests, Consume(r)
       PROVE  HoldingStep /\ RequestsTyped
  BY <1>2, <1>13, ConsumeEffect
<1>14. CASE UNCHANGED gatewayVars
  BY <1>1, <1>14 DEF gatewayVars
<1> QED BY <1>3, <1>4, <1>5, <1>6, <1>7, <1>8, <1>9, <1>10, <1>11, <1>12, <1>13, <1>14
        DEF GatewayNext

LEMMA HoldingStepType ==
  ASSUME GatewayConstants, GatewayTypeOK, HoldingStep
  PROVE  /\ timer' \in [Requests -> 0 .. MaxRules]
         /\ reorder' \in [1 .. MaxRules -> Requests \cup {NoRequest}]
         /\ expired' \subseteq Requests
<1> DEFINE Goal == /\ timer' \in [Requests -> 0 .. MaxRules]
                   /\ reorder' \in [1 .. MaxRules -> Requests \cup {NoRequest}]
                   /\ expired' \subseteq Requests
<1>1. /\ timer \in [Requests -> 0 .. MaxRules]
      /\ reorder \in [1 .. MaxRules -> Requests \cup {NoRequest}]
      /\ expired \subseteq Requests /\ 0 \in 0 .. MaxRules
      /\ 1 .. MaxRules \subseteq 0 .. MaxRules
      /\ \A id \in 0 .. MaxRules : id # 0 => id \in 1 .. MaxRules
  BY DEF GatewayTypeOK, GatewayConstants
<1>2. ASSUME UNCHANGED <<timer, reorder, expired>> PROVE Goal
  BY <1>1, <1>2
<1>3. ASSUME NEW r \in Requests, GoesOn(r) PROVE Goal
  BY <1>2, <1>3 DEF GoesOn
<1>4. ASSUME NEW r \in Requests, LetsGo(r) PROVE Goal
  BY <1>1, <1>4 DEF LetsGo
<1>5. ASSUME NEW r \in Requests, TimesOut(r) PROVE Goal
  BY <1>1, <1>5 DEF TimesOut
<1>6. ASSUME NEW r \in Requests, NEW id \in 1 .. MaxRules, IsHeld(r, id) PROVE Goal
  BY <1>1, <1>6 DEF IsHeld
<1>7. ASSUME NEW r \in Requests, NEW id \in 1 .. MaxRules, IsPaired(r, id) PROVE Goal
  BY <1>1, <1>7 DEF IsPaired
<1>8. CASE Closes
  BY <1>1, <1>8 DEF Closes
<1> QED BY <1>2, <1>3, <1>4, <1>5, <1>6, <1>7, <1>8 DEF HoldingStep

\* The variables a step leaves to the control routes and to the answers.
RestTyped ==
    /\ campaign' \in Campaigns /\ rules' \in Seq(Rules)
    /\ sequence' \in 0 .. Len(campaign'.posts)
    /\ generation' \in Nat /\ seenGeneration' \in Nat
    /\ attempts' \in [{Kind[r] : r \in Requests} -> Nat]
    /\ cache' \in Seq([route : STRING, answer : Nat])
    /\ answers' \in Seq([by : Requests, generation : Nat])
    /\ closed' \in BOOLEAN /\ overlapped' \in BOOLEAN

LEMMA NoticeType ==
  ASSUME GatewayTypeOK, NoticeReset
  PROVE  seenGeneration' \in Nat /\ cache' \in Seq([route : STRING, answer : Nat])
<1>1. <<>> \in Seq([route : STRING, answer : Nat])
  OBVIOUS
<1> QED BY <1>1 DEF GatewayTypeOK, NoticeReset

LEMMA SetRuleType ==
  ASSUME GatewayConstants, GatewayTypeOK, SetRule
  PROVE  RestTyped
<1> DEFINE in == campaign.posts[sequence + 1]
           new == [id |-> sequence + 1, phase |-> in.phase, action |-> in.action,
                   route |-> in.route, occurrence |-> in.occurrence, remaining |-> in.count]
<1>1. /\ campaign \in [posts : Seq(Posted), resets : Nat] /\ Len(campaign.posts) <= MaxRules
      /\ sequence \in 0 .. Len(campaign.posts)
  BY DEF GatewayConstants, GatewayTypeOK
<1>2. /\ sequence < Len(campaign.posts) /\ sequence' = sequence + 1 /\ NoticeReset
      /\ rules' = IF ValidRule(in) THEN Append(rules, new) ELSE rules
      /\ UNCHANGED <<campaign, generation, attempts, answers, closed, overlapped>>
  BY DEF SetRule
<1>3. campaign.posts \in Seq(Posted) /\ Len(campaign.posts) \in Nat /\ MaxRules \in Nat
  BY <1>1 DEF GatewayConstants
<1>4. /\ sequence + 1 \in 1 .. MaxRules /\ sequence + 1 \in 0 .. Len(campaign.posts)
      /\ sequence + 1 \in 1 .. Len(campaign.posts)
  BY <1>1, <1>2, <1>3
<1>5. in \in Posted
  BY <1>3, <1>4
<1> HIDE DEF in
<1>6. ValidRule(in) => new \in Rules
  BY <1>4, <1>5 DEF ValidRule, Posted, Rules
<1> HIDE DEF new
<1>7. rules' \in Seq(Rules)
  BY <1>2, <1>6 DEF GatewayTypeOK
<1>8. /\ campaign' \in Campaigns /\ generation' \in Nat
      /\ attempts' \in [{Kind[r] : r \in Requests} -> Nat]
      /\ answers' \in Seq([by : Requests, generation : Nat])
      /\ closed' \in BOOLEAN /\ overlapped' \in BOOLEAN
  BY <1>2 DEF GatewayTypeOK
<1>9. sequence' \in 0 .. Len(campaign'.posts)
  BY <1>2, <1>4
<1> QED BY <1>2, <1>7, <1>8, <1>9, NoticeType DEF RestTyped

LEMMA ConsumeType ==
  ASSUME GatewayConstants, GatewayTypeOK, NEW r \in Requests, Consume(r)
  PROVE  RestTyped
<1>1. /\ rules' \in Seq(Rules)
      /\ answers' = Append(answers, [by |-> r, generation |-> req[r].generation])
  BY ConsumeEffect
<1>2. [by |-> r, generation |-> req[r].generation] \in [by : Requests, generation : Nat]
  BY DEF GatewayTypeOK, RequestStates
<1>3. answers' \in Seq([by : Requests, generation : Nat])
  BY <1>1, <1>2 DEF GatewayTypeOK
<1>4. cache' \in Seq([route : STRING, answer : Nat])
  BY RememberedType DEF Consume
<1>5. UNCHANGED <<campaign, sequence, generation, attempts, seenGeneration, closed, overlapped>>
  BY DEF Consume
<1> QED BY <1>1, <1>3, <1>4, <1>5 DEF RestTyped, GatewayTypeOK

\* Every step keeps the types of the gateway's state.
LEMMA GatewayTypeStep ==
  ASSUME GatewayConstants, GatewayTypeOK, [GatewayNext]_gatewayVars
  PROVE  GatewayTypeOK'
<1> SUFFICES RestTyped
  <2>1. /\ RequestsTyped
        /\ timer' \in [Requests -> 0 .. MaxRules]
        /\ reorder' \in [1 .. MaxRules -> Requests \cup {NoRequest}]
        /\ expired' \subseteq Requests
    BY StepIsHoldingStep, HoldingStepType
  <2> QED BY <2>1 DEF RestTyped, RequestsTyped, GatewayTypeOK
<1>1. ASSUME UNCHANGED <<campaign, sequence, generation, attempts, answers, closed, overlapped>>,
             rules' \in Seq(Rules), seenGeneration' \in Nat,
             cache' \in Seq([route : STRING, answer : Nat])
      PROVE  RestTyped
  BY <1>1 DEF RestTyped, GatewayTypeOK
<1>2. <<>> \in Seq(Rules) /\ rules \in Seq(Rules) /\ <<>> \in Seq([route : STRING, answer : Nat])
  BY DEF GatewayTypeOK
<1>3. ASSUME UNCHANGED <<campaign, rules, sequence, generation, attempts, seenGeneration, cache,
                         answers, closed, overlapped>>
      PROVE  RestTyped
  BY <1>3 DEF RestTyped, GatewayTypeOK
<1>4. CASE SetRule
  BY <1>4, SetRuleType
<1>5. CASE ClearRules
  BY <1>1, <1>2, <1>5, NoticeType DEF ClearRules
<1>6. CASE Reset
  <2>1. /\ NoticeReset /\ generation' = generation + 1 /\ rules' = <<>>
        /\ attempts' = [k \in DOMAIN attempts |-> 0]
        /\ overlapped' = (overlapped \/ \E r \in Requests : Active(r))
        /\ UNCHANGED <<campaign, sequence, answers, closed>>
    BY <1>6 DEF Reset
  <2>2. attempts' \in [{Kind[r] : r \in Requests} -> Nat]
    BY <2>1 DEF GatewayTypeOK
  <2>3. overlapped' \in BOOLEAN
    BY <2>1
  <2>4. generation' \in Nat
    BY <2>1 DEF GatewayTypeOK
  <2>5. /\ campaign' \in Campaigns /\ sequence' \in 0 .. Len(campaign'.posts)
        /\ answers' \in Seq([by : Requests, generation : Nat]) /\ closed' \in BOOLEAN
    BY <2>1 DEF GatewayTypeOK
  <2> QED BY <1>2, <2>1, <2>2, <2>3, <2>4, <2>5, NoticeType DEF RestTyped
<1>7. CASE Close
  BY <1>2, <1>7 DEF Close, controlVars, RestTyped, GatewayTypeOK
<1>8. ASSUME NEW r \in Requests, Arrive(r) PROVE RestTyped
  BY <1>1, <1>2, <1>8, NoticeType DEF Arrive, controlVars
<1>9. ASSUME NEW r \in Requests,
             TooLarge(r) \/ DownstreamFails(r) \/ Undelay(r) \/ TimerFires(r)
      PROVE  RestTyped
  BY <1>3, <1>9 DEF TooLarge, DownstreamFails, Undelay, TimerFires, controlVars
<1>10. ASSUME NEW r \in Requests, Begin(r) PROVE RestTyped
  <2>1. rules' \in Seq(Rules) /\ attempts' \in [{Kind[q] : q \in Requests} -> Nat]
    BY <1>10, BeginEffect
  <2>2. UNCHANGED <<campaign, sequence, generation, seenGeneration, cache, answers, closed,
                    overlapped>>
    BY <1>10 DEF Begin
  <2> QED BY <2>1, <2>2 DEF RestTyped, GatewayTypeOK
<1>11. ASSUME NEW r \in Requests, Commit(r) PROVE RestTyped
  <2>1. rules' \in Seq(Rules)
    BY <1>11, CommitEffect
  <2>2. UNCHANGED <<campaign, sequence, generation, attempts, seenGeneration, cache, answers,
                    closed, overlapped>>
    BY <1>11 DEF Commit
  <2> QED BY <2>1, <2>2 DEF RestTyped, GatewayTypeOK
<1>12. ASSUME NEW r \in Requests, Consume(r) PROVE RestTyped
  BY <1>12, ConsumeType
<1>13. CASE UNCHANGED gatewayVars
  BY <1>3, <1>13 DEF gatewayVars
<1> QED BY <1>4, <1>5, <1>6, <1>7, <1>8, <1>9, <1>10, <1>11, <1>12, <1>13 DEF GatewayNext

-----------------------------------------------------------------------------
(* Requests held back by a reorder rule.                                     *)

\* Exactly the held requests have a timer.
Armed == \A r \in Requests : req[r].pc = "held" <=> timer[r] # 0
\* Whoever a rule holds waits for its timer under that rule.
Listed == \A id \in 1 .. MaxRules : reorder[id] # NoRequest => timer[reorder[id]] = id
\* Nobody is to release a request that a rule still holds.
Unpaired ==
    \A id \in 1 .. MaxRules, s \in Requests :
        reorder[id] # NoRequest => req[s].second # reorder[id]
\* A request that has not been sent holds no other.
Plain ==
    \A r \in Requests : req[r].pc \in {"new", "reading", "held"} => req[r].second = NoRequest
Paired ==
    \A s \in Requests : req[s].second # NoRequest /\ Active(s) =>
        req[req[s].second].pc = "held" \/ req[s].second \in expired
\* A request is released by one other at most.
Single ==
    \A s, t \in Requests : req[s].second # NoRequest /\ req[s].second = req[t].second => s = t
Begun ==
    \A s \in Requests :
        req[s].second # NoRequest => req[req[s].second].pc \notin {"new", "reading"}

HeldOK == Armed /\ Listed /\ Unpaired /\ Plain /\ Paired /\ Single /\ Begun

LEMMA HoldingTypes ==
  ASSUME GatewayConstants, GatewayTypeOK, RequestsTyped
  PROVE  /\ \A q \in Requests : req[q].second \in Requests \cup {NoRequest}
         /\ \A q \in Requests : req'[q].second \in Requests \cup {NoRequest}
         /\ timer \in [Requests -> 0 .. MaxRules]
         /\ reorder \in [1 .. MaxRules -> Requests \cup {NoRequest}]
         /\ NoRequest \notin Requests /\ 0 \notin 1 .. MaxRules
<1>1. \A x \in RequestStates : x.second \in Requests \cup {NoRequest}
  BY DEF RequestStates
<1> QED BY <1>1 DEF GatewayConstants, GatewayTypeOK, RequestsTyped

LEMMA GoesOnKeeps ==
  ASSUME GatewayConstants, GatewayTypeOK, RequestsTyped, HeldOK,
         NEW r \in Requests, GoesOn(r)
  PROVE  HeldOK'
<1>1. /\ \A q \in Requests : req[q].second \in Requests \cup {NoRequest}
      /\ \A q \in Requests : req'[q].second \in Requests \cup {NoRequest}
      /\ timer \in [Requests -> 0 .. MaxRules]
      /\ reorder \in [1 .. MaxRules -> Requests \cup {NoRequest}]
      /\ NoRequest \notin Requests /\ 0 \notin 1 .. MaxRules
  BY HoldingTypes
<1>2. Armed'
  BY <1>1 DEF HeldOK, Armed, GoesOn, Others
<1>3. Listed'
  BY <1>1 DEF HeldOK, Listed, GoesOn, Others
<1>4. Unpaired'
  BY <1>1 DEF HeldOK, Unpaired, GoesOn, Others
<1>5. Plain'
  BY <1>1 DEF HeldOK, Plain, GoesOn, Others
<1>6. Paired'
  BY <1>1 DEF HeldOK, Paired, Plain, GoesOn, Others, Active
<1>7. Single'
  BY <1>1 DEF HeldOK, Single, GoesOn, Others
<1>8. Begun'
  BY <1>1 DEF HeldOK, Begun, GoesOn, Others
<1> QED BY <1>2, <1>3, <1>4, <1>5, <1>6, <1>7, <1>8 DEF HeldOK

LEMMA LetsGoKeeps ==
  ASSUME GatewayConstants, GatewayTypeOK, RequestsTyped, HeldOK,
         NEW r \in Requests, LetsGo(r)
  PROVE  HeldOK'
<1> DEFINE v == req[r].second
<1>1. /\ \A q \in Requests : req[q].second \in Requests \cup {NoRequest}
      /\ \A q \in Requests : req'[q].second \in Requests \cup {NoRequest}
      /\ timer \in [Requests -> 0 .. MaxRules]
      /\ reorder \in [1 .. MaxRules -> Requests \cup {NoRequest}]
      /\ NoRequest \notin Requests /\ 0 \notin 1 .. MaxRules
  BY HoldingTypes
<1>2. /\ v \in Requests /\ req[r].pc \in {"sent", "committed"}
      /\ req'[r].pc \in {"done", "answered_late"} /\ req'[r].second = NoRequest
      /\ timer' = [timer EXCEPT ![v] = 0] /\ UNCHANGED <<reorder, expired>>
  BY DEF LetsGo
<1>3. \A q \in Requests :
        /\ q = v => timer'[q] = 0
        /\ q # v => timer'[q] = timer[q]
        /\ q # r => req'[q].second = req[q].second
        /\ q # r /\ ~(q = v /\ req[q].pc = "held") => req'[q].pc = req[q].pc
        /\ q # r /\ q = v /\ req[q].pc = "held" => req'[q].pc = "sent"
  <2> TAKE q \in Requests
  <2>1. (q = v => timer'[q] = 0) /\ (q # v => timer'[q] = timer[q])
    BY <1>1, <1>2
  <2>2. CASE q = r
    BY <2>1, <2>2
  <2>3. CASE q # r /\ ~(q = v /\ req[q].pc = "held")
    BY <2>1, <2>3 DEF LetsGo
  <2>4. CASE q # r /\ q = v /\ req[q].pc = "held"
    BY <2>1, <2>4 DEF LetsGo
  <2> QED BY <2>2, <2>3, <2>4
<1> HIDE DEF v
<1>4. Armed'
  BY <1>1, <1>2, <1>3 DEF HeldOK, Armed
<1>5. Listed'
  <2>1. \A id \in 1 .. MaxRules : reorder[id] # NoRequest => reorder[id] # v
    BY DEF HeldOK, Unpaired, v
  <2> QED BY <1>1, <1>2, <1>3, <2>1 DEF HeldOK, Listed
<1>6. Unpaired'
  BY <1>1, <1>2, <1>3 DEF HeldOK, Unpaired
<1>7. Plain'
  BY <1>1, <1>2, <1>3 DEF HeldOK, Plain
<1>8. Paired'
  <2> SUFFICES ASSUME NEW s \in Requests, req'[s].second # NoRequest, Active(s)'
               PROVE  req'[req'[s].second].pc = "held" \/ req'[s].second \in expired'
    BY DEF Paired
  <2>1. s # r /\ req'[s].second = req[s].second
    BY <1>2, <1>3
  <2>2. req[s].second # v /\ req[s].second \in Requests
    BY <1>1, <2>1 DEF HeldOK, Single, v
  <2>3. Active(s)
    BY <1>3, <2>1 DEF Active
  <2>4. req[req[s].second].pc = "held" \/ req[s].second \in expired
    BY <2>1, <2>3 DEF HeldOK, Paired
  <2> QED BY <1>2, <1>3, <2>1, <2>2, <2>4
<1>9. Single'
  BY <1>1, <1>2, <1>3 DEF HeldOK, Single
<1>10. Begun'
  BY <1>1, <1>2, <1>3 DEF HeldOK, Begun
<1> QED BY <1>4, <1>5, <1>6, <1>7, <1>8, <1>9, <1>10 DEF HeldOK

LEMMA TimesOutKeeps ==
  ASSUME GatewayConstants, GatewayTypeOK, RequestsTyped, HeldOK,
         NEW r \in Requests, TimesOut(r)
  PROVE  HeldOK'
<1>1. /\ \A q \in Requests : req[q].second \in Requests \cup {NoRequest}
      /\ \A q \in Requests : req'[q].second \in Requests \cup {NoRequest}
      /\ timer \in [Requests -> 0 .. MaxRules]
      /\ reorder \in [1 .. MaxRules -> Requests \cup {NoRequest}]
      /\ NoRequest \notin Requests /\ 0 \notin 1 .. MaxRules
  BY HoldingTypes
<1>2. Armed'
  BY <1>1 DEF HeldOK, Armed, TimesOut, Others
<1>3. Listed'
  BY <1>1 DEF HeldOK, Listed, TimesOut, Others
<1>4. Unpaired'
  BY <1>1 DEF HeldOK, Unpaired, TimesOut, Others
<1>5. Plain'
  BY <1>1 DEF HeldOK, Plain, TimesOut, Others
<1>6. Paired'
  BY <1>1 DEF HeldOK, Armed, Plain, Paired, TimesOut, Others, Active
<1>7. Single'
  BY <1>1 DEF HeldOK, Single, TimesOut, Others
<1>8. Begun'
  BY <1>1 DEF HeldOK, Begun, TimesOut, Others
<1> QED BY <1>2, <1>3, <1>4, <1>5, <1>6, <1>7, <1>8 DEF HeldOK

LEMMA IsHeldKeeps ==
  ASSUME GatewayConstants, GatewayTypeOK, RequestsTyped, HeldOK,
         NEW r \in Requests, NEW id \in 1 .. MaxRules, IsHeld(r, id)
  PROVE  HeldOK'
<1>1. /\ \A q \in Requests : req[q].second \in Requests \cup {NoRequest}
      /\ \A q \in Requests : req'[q].second \in Requests \cup {NoRequest}
      /\ timer \in [Requests -> 0 .. MaxRules]
      /\ reorder \in [1 .. MaxRules -> Requests \cup {NoRequest}]
      /\ NoRequest \notin Requests /\ 0 \notin 1 .. MaxRules
  BY HoldingTypes
<1>2. Armed'
  BY <1>1 DEF HeldOK, Armed, IsHeld, Others
<1>3. Listed'
  BY <1>1 DEF HeldOK, Armed, Listed, IsHeld, Others
<1>4. Unpaired'
  BY <1>1 DEF HeldOK, Unpaired, Begun, IsHeld, Others
<1>5. Plain'
  BY <1>1 DEF HeldOK, Plain, IsHeld, Others
<1>6. Paired'
  BY <1>1 DEF HeldOK, Plain, Paired, IsHeld, Others, Active
<1>7. Single'
  BY <1>1 DEF HeldOK, Single, IsHeld, Others
<1>8. Begun'
  BY <1>1 DEF HeldOK, Begun, IsHeld, Others
<1> QED BY <1>2, <1>3, <1>4, <1>5, <1>6, <1>7, <1>8 DEF HeldOK

LEMMA IsPairedKeeps ==
  ASSUME GatewayConstants, GatewayTypeOK, RequestsTyped, HeldOK,
         NEW r \in Requests, NEW id \in 1 .. MaxRules, IsPaired(r, id)
  PROVE  HeldOK'
<1>1. /\ \A q \in Requests : req[q].second \in Requests \cup {NoRequest}
      /\ \A q \in Requests : req'[q].second \in Requests \cup {NoRequest}
      /\ timer \in [Requests -> 0 .. MaxRules]
      /\ reorder \in [1 .. MaxRules -> Requests \cup {NoRequest}]
      /\ NoRequest \notin Requests /\ 0 \notin 1 .. MaxRules
  BY HoldingTypes
<1>2. Armed'
  BY <1>1 DEF HeldOK, Armed, IsPaired, Others
<1>3. Listed'
  BY <1>1 DEF HeldOK, Listed, IsPaired, Others
<1>4. Unpaired'
  BY <1>1 DEF HeldOK, Listed, Unpaired, IsPaired, Others
<1>5. Plain'
  BY <1>1 DEF HeldOK, Plain, IsPaired, Others
<1>6. Paired'
  BY <1>1 DEF HeldOK, Armed, Listed, Paired, IsPaired, Others, Active
<1>7. Single'
  BY <1>1 DEF HeldOK, Unpaired, Single, IsPaired, Others
<1>8. Begun'
  BY <1>1 DEF HeldOK, Armed, Listed, Begun, IsPaired, Others
<1> QED BY <1>2, <1>3, <1>4, <1>5, <1>6, <1>7, <1>8 DEF HeldOK

LEMMA ClosesKeeps ==
  ASSUME GatewayConstants, GatewayTypeOK, RequestsTyped, HeldOK,
         Closes
  PROVE  HeldOK'
<1>1. /\ \A q \in Requests : req[q].second \in Requests \cup {NoRequest}
      /\ \A q \in Requests : req'[q].second \in Requests \cup {NoRequest}
      /\ timer \in [Requests -> 0 .. MaxRules]
      /\ reorder \in [1 .. MaxRules -> Requests \cup {NoRequest}]
      /\ NoRequest \notin Requests /\ 0 \notin 1 .. MaxRules
  BY HoldingTypes
<1>2. Armed'
  BY <1>1 DEF HeldOK, Armed, Closes
<1>3. Listed'
  BY <1>1 DEF HeldOK, Listed, Closes
<1>4. Unpaired'
  BY <1>1 DEF HeldOK, Unpaired, Closes
<1>5. Plain'
  BY <1>1 DEF HeldOK, Plain, Closes
<1>6. Paired'
  <2> SUFFICES ASSUME NEW s \in Requests, req'[s].second # NoRequest, Active(s)'
               PROVE  req'[req'[s].second].pc = "held" \/ req'[s].second \in expired'
    BY DEF Paired
  <2>1. req'[s].second = req[s].second /\ req[s].second \in Requests /\ expired' = expired
    BY <1>1 DEF Closes
  <2>2. \A id \in 1 .. MaxRules : reorder[id] # req[s].second
    BY <1>1, <2>1 DEF HeldOK, Unpaired
  <2>3. req'[req[s].second].pc = req[req[s].second].pc
    BY <2>1, <2>2 DEF Closes
  <2>4. \A id \in 1 .. MaxRules : reorder[id] # s
    BY <1>1, <2>1 DEF HeldOK, Armed, Listed, Plain
  <2>5. Active(s)
    BY <2>4 DEF Closes, Active
  <2> QED BY <2>1, <2>3, <2>5 DEF HeldOK, Paired
<1>7. Single'
  BY <1>1 DEF HeldOK, Single, Closes
<1>8. Begun'
  BY <1>1 DEF HeldOK, Begun, Closes
<1> QED BY <1>2, <1>3, <1>4, <1>5, <1>6, <1>7, <1>8 DEF HeldOK

LEMMA HeldStep ==
  ASSUME GatewayConstants, GatewayTypeOK, HeldOK, [GatewayNext]_gatewayVars
  PROVE  HeldOK'
<1>1. HoldingStep /\ RequestsTyped
  BY StepIsHoldingStep
<1>2. CASE UNCHANGED <<req, timer, reorder, expired>>
  BY <1>2 DEF HeldOK, Armed, Listed, Unpaired, Plain, Paired, Single, Begun, Active
<1> QED BY <1>1, <1>2, GoesOnKeeps, LetsGoKeeps, TimesOutKeeps, IsHeldKeeps, IsPairedKeeps,
           ClosesKeeps DEF HoldingStep

LEMMA GatewayInitOK ==
  ASSUME GatewayConstants, GatewayInit
  PROVE  GatewayTypeOK /\ HeldOK
<1> DEFINE fresh == [pc |-> "new", ordinal |-> 0, generation |-> 0,
                     second |-> NoRequest, served |-> {}]
<1>1. fresh \in RequestStates
  BY DEF RequestStates, Steps
<1>2. campaign \in [posts : Seq(Posted), resets : Nat]
  BY DEF GatewayConstants, GatewayInit
<1>3. 0 \in 0 .. Len(campaign.posts)
  BY <1>2
<1>4. req = [r \in Requests |-> fresh] /\ timer = [r \in Requests |-> 0]
  BY DEF GatewayInit
<1>5. req \in [Requests -> RequestStates]
  BY <1>1, <1>4
<1>6. \A r \in Requests : req[r].pc = "new" /\ req[r].second = NoRequest /\ timer[r] = 0
  BY <1>4
<1>7. timer \in [Requests -> 0 .. MaxRules]
  BY <1>4 DEF GatewayConstants
<1>8. \A id \in 1 .. MaxRules : reorder[id] = NoRequest
  BY DEF GatewayInit
<1> HIDE DEF fresh
<1>9. GatewayTypeOK
  <2>1. rules \in Seq(Rules) /\ cache \in Seq([route : STRING, answer : Nat])
        /\ answers \in Seq([by : Requests, generation : Nat])
    BY DEF GatewayInit
  <2>2. attempts \in [{Kind[r] : r \in Requests} -> Nat]
    BY DEF GatewayInit
  <2>3. /\ campaign \in Campaigns /\ sequence = 0 /\ generation \in Nat /\ seenGeneration \in Nat
        /\ reorder \in [1 .. MaxRules -> Requests \cup {NoRequest}]
        /\ expired \subseteq Requests /\ closed \in BOOLEAN /\ overlapped \in BOOLEAN
    BY DEF GatewayInit
  <2> QED BY <1>3, <1>5, <1>7, <2>1, <2>2, <2>3 DEF GatewayTypeOK
<1>10. HeldOK
  BY <1>6, <1>8 DEF HeldOK, Armed, Listed, Unpaired, Plain, Paired, Single, Begun, Active
<1> QED BY <1>9, <1>10

\* A request that a reorder rule holds back is never forgotten and is overtaken
\* by its pair unless its timer fires first (#applyBefore, secondReorder), for
\* any requests, rules and resets.
THEOREM HeldRequestsTheorem ==
  ASSUME GatewayConstants
  PROVE  GatewaySpec => []HeldRequestsAreReordered
<1>1. GatewayInit => GatewayTypeOK /\ HeldOK
  BY GatewayInitOK
<1>2. GatewayTypeOK /\ HeldOK /\ [GatewayNext]_gatewayVars => (GatewayTypeOK /\ HeldOK)'
  BY GatewayTypeStep, HeldStep
<1>3. HeldOK => HeldRequestsAreReordered
  BY DEF HeldOK, Armed, Paired, HeldRequestsAreReordered
<1> QED BY <1>1, <1>2, <1>3, PTL DEF GatewaySpec

-----------------------------------------------------------------------------
(* Which run a stale response is from. *)

Running(r) == req[r].pc \notin {"new", "reading", "done"}
Answers == 1 .. Len(answers)

\* Responses remembered under a route answer that route, in the generation seen.
CacheOK ==
    \A k \in DOMAIN cache :
        LET a == cache[k].answer
        IN  /\ a \in Answers /\ Kind[answers[a].by].route = cache[k].route
            /\ ~ overlapped => answers[a].generation = seenGeneration
ServedOK ==
    \A r \in Requests : \A a \in req[r].served :
        /\ a \in Answers /\ Kind[answers[a].by].route = Kind[r].route
        /\ ~ overlapped => answers[a].generation = req[r].generation
\* A request in the gateway belongs to the present generation unless a reset met it.
PresentOK ==
    \A r \in Requests :
        /\ ~ overlapped /\ Active(r) => seenGeneration = generation
        /\ ~ overlapped /\ Running(r) => req[r].generation = generation
UnservedOK == \A r \in Requests : req[r].pc \in {"new", "reading"} => req[r].served = {}

StaleOK == CacheOK /\ ServedOK /\ PresentOK /\ UnservedOK

\* A step that serves nothing and starts nothing.
Quiet ==
    /\ \A q \in Requests :
          /\ req'[q].served = req[q].served /\ req'[q].generation = req[q].generation
          /\ (Active(q)' => Active(q)) /\ (Running(q)' => Running(q))
          /\ req'[q].pc \in {"new", "reading"} => req[q].pc \in {"new", "reading"}
    /\ cache' \in {cache, <<>>}
    /\ UNCHANGED <<answers, generation, seenGeneration, overlapped>>

LEMMA QuietKeeps ==
  ASSUME StaleOK, Quiet
  PROVE  StaleOK'
<1>1. UNCHANGED <<answers, generation, seenGeneration, overlapped>>
  BY DEF Quiet
<1>2. CacheOK'
  <2>1. CASE cache' = cache
    BY <1>1, <2>1 DEF StaleOK, CacheOK, Answers
  <2>2. CASE cache' = <<>>
    BY <2>2 DEF CacheOK
  <2> QED BY <2>1, <2>2 DEF Quiet
<1>3. ServedOK'
  BY <1>1 DEF StaleOK, ServedOK, Answers, Quiet
<1>4. PresentOK'
  BY <1>1 DEF StaleOK, PresentOK, Quiet
<1>5. UnservedOK'
  BY DEF StaleOK, UnservedOK, Quiet
<1> QED BY <1>2, <1>3, <1>4, <1>5 DEF StaleOK

\* A control route changes no request; a reset that meets none starts a
\* generation, and the next handler to start drops what is remembered.
LEMMA ControlKeeps ==
  ASSUME GatewayTypeOK, StaleOK, NoticeReset, UNCHANGED <<req, answers>>,
         \/ UNCHANGED <<generation, overlapped>>
         \/ overlapped' = (overlapped \/ \E r \in Requests : Active(r))
  PROVE  StaleOK'
<1>1. ~ overlapped' => ~ overlapped
  OBVIOUS
<1>2. CacheOK'
  <2>1. CASE cache' = <<>>
    BY <2>1 DEF CacheOK
  <2>2. CASE cache' = cache /\ seenGeneration = generation
    <3>1. seenGeneration' = seenGeneration
      BY <2>2 DEF NoticeReset
    <3> QED BY <1>1, <2>2, <3>1 DEF StaleOK, CacheOK, Answers
  <2> QED BY <2>1, <2>2 DEF NoticeReset
<1>3. ServedOK'
  BY <1>1 DEF StaleOK, ServedOK, Answers
<1>4. PresentOK'
  <2>1. CASE UNCHANGED <<generation, overlapped>>
    BY <2>1 DEF StaleOK, PresentOK, NoticeReset, Active, Running
  <2>2. CASE overlapped' = (overlapped \/ \E r \in Requests : Active(r))
    <3>1. \A r \in Requests : (Running(r)' => Active(r)') /\ (Active(r)' => Active(r))
      BY DEF Running, Active
    <3>2. \A r \in Requests : Active(r)' => overlapped'
      BY <2>2, <3>1
    <3> QED BY <3>1, <3>2 DEF PresentOK
  <2> QED BY <2>1, <2>2
<1>5. UnservedOK'
  BY DEF StaleOK, UnservedOK
<1> QED BY <1>2, <1>3, <1>4, <1>5 DEF StaleOK

LEMMA ArriveKeeps ==
  ASSUME GatewayTypeOK, StaleOK, NEW r \in Requests, Arrive(r)
  PROVE  StaleOK'
<1>1. /\ NoticeReset /\ req[r].pc = "new" /\ Step(r, "reading")
      /\ UNCHANGED <<generation, answers, overlapped>>
  BY DEF Arrive, controlVars
<1>2. /\ Others(r) /\ req'[r].pc = "reading"
      /\ req'[r].generation = req[r].generation /\ req'[r].served = req[r].served
  BY <1>1, StepEffect DEF Steps
<1>3. \A q \in Requests :
        req'[q].generation = req[q].generation /\ req'[q].served = req[q].served
  BY <1>2 DEF Others
<1>4. CacheOK'
  <2>1. CASE cache' = <<>>
    BY <2>1 DEF CacheOK
  <2>2. CASE cache' = cache /\ seenGeneration' = seenGeneration
    BY <1>1, <2>2 DEF StaleOK, CacheOK, Answers
  <2> QED BY <1>1, <2>1, <2>2 DEF NoticeReset
<1>5. ServedOK'
  BY <1>1, <1>3 DEF StaleOK, ServedOK, Answers
<1>6. PresentOK'
  <2>1. seenGeneration' = generation'
    BY <1>1 DEF NoticeReset
  <2>2. \A q \in Requests : Running(q)' => Running(q)
    BY <1>2 DEF Others, Running
  <2> QED BY <1>1, <1>3, <2>1, <2>2 DEF StaleOK, PresentOK
<1>7. UnservedOK'
  BY <1>1, <1>2 DEF StaleOK, UnservedOK, Others
<1> QED BY <1>4, <1>5, <1>6, <1>7 DEF StaleOK

LEMMA BeginKeeps ==
  ASSUME GatewayTypeOK, StaleOK, NEW r \in Requests, Begin(r)
  PROVE  StaleOK'
<1>1. /\ req'[r].generation = generation /\ req'[r].served = req[r].served
      /\ req'[r].pc \in {"done", "delayed", "held", "sent"} /\ Others(r)
  BY BeginEffect
<1>2. /\ req[r].pc = "reading"
      /\ UNCHANGED <<generation, seenGeneration, cache, answers, overlapped>>
  BY DEF Begin
<1>3. req'[r].served = {}
  BY <1>1, <1>2 DEF StaleOK, UnservedOK
<1>4. CacheOK'
  BY <1>2 DEF StaleOK, CacheOK, Answers
<1>5. ServedOK'
  BY <1>1, <1>2, <1>3 DEF StaleOK, ServedOK, Answers, Others
<1>6. PresentOK'
  BY <1>1, <1>2 DEF StaleOK, PresentOK, Others, Active, Running
<1>7. UnservedOK'
  BY <1>1 DEF StaleOK, UnservedOK, Others
<1> QED BY <1>4, <1>5, <1>6, <1>7 DEF StaleOK

LEMMA ConsumeKeeps ==
  ASSUME GatewayConstants, GatewayTypeOK, StaleOK, NEW r \in Requests, Consume(r)
  PROVE  StaleOK'
<1> DEFINE n == Len(answers) + 1
           g == req[r].generation
<1>1. /\ Advanced(r, {"done", "answered_late"})
      /\ req'[r].served \subseteq Servable(r)
      /\ answers' = Append(answers, [by |-> r, generation |-> g])
  BY ConsumeEffect
<1>2. /\ req[r].pc = "committed" /\ Remember(Kind[r].route, n)
      /\ UNCHANGED <<generation, seenGeneration, overlapped>>
  BY DEF Consume
<1>3. answers \in Seq([by : Requests, generation : Nat])
  BY DEF GatewayTypeOK
<1>4. /\ n \in Answers' /\ answers'[n].by = r /\ answers'[n].generation = g
      /\ \A a \in Answers : a \in Answers' /\ answers'[a] = answers[a]
  BY <1>1, <1>3 DEF Answers
<1>5. ~ overlapped => g = generation /\ g = seenGeneration
  BY <1>2 DEF StaleOK, PresentOK, Active, Running
<1> HIDE DEF n, g
<1>6. CacheOK'
  <2> DEFINE Good(e) == /\ e.answer \in Answers' /\ Kind[answers'[e.answer].by].route = e.route
                        /\ ~ overlapped => answers'[e.answer].generation = seenGeneration
             entry == [route |-> Kind[r].route, answer |-> n]
             kept == IF Len(cache) = MaxStale THEN Tail(cache) ELSE cache
             E == [route : STRING, answer : Nat]
  <2>1. Good(entry)
    BY <1>4, <1>5
  <2>2. \A k \in DOMAIN cache : Good(cache[k])
    BY <1>4 DEF StaleOK, CacheOK
  <2>3. cache \in Seq(E)
    BY DEF GatewayTypeOK
  <2> HIDE DEF Good, E
  <2>4. Len(cache) = MaxStale => cache # <<>>
    BY <2>3 DEF GatewayConstants
  <2>5. kept \in Seq(E) /\ \A k \in DOMAIN kept : Good(kept[k])
    <3>1. CASE Len(cache) = MaxStale
      <4>1. Tail(cache) \in Seq(E) /\ Len(Tail(cache)) = Len(cache) - 1
        BY <2>3, <2>4, <3>1
      <4>2. \A k \in 1 .. Len(Tail(cache)) : Tail(cache)[k] = cache[k + 1] /\ k + 1 \in DOMAIN cache
        BY <2>3, <2>4, <3>1
      <4> QED BY <2>2, <3>1, <4>1, <4>2
    <3>2. CASE Len(cache) # MaxStale
      BY <2>2, <2>3, <3>2
    <3> QED BY <3>1, <3>2
  <2> HIDE DEF kept, entry
  <2>6. \A k \in DOMAIN Append(kept, entry) : Good(Append(kept, entry)[k])
    <3> TAKE k \in DOMAIN Append(kept, entry)
    <3>1. CASE k \in DOMAIN kept
      BY <2>5, <3>1
    <3>2. CASE k = Len(kept) + 1
      BY <2>1, <2>5, <3>2
    <3> QED BY <2>5, <3>1, <3>2
  <2>7. \A k \in DOMAIN cache' : Good(cache'[k])
    <3>1. CASE cache' = Append(kept, entry)
      BY <2>6, <3>1
    <3>2. CASE cache' = [k \in DOMAIN cache |-> IF cache[k].route = Kind[r].route
                                                THEN entry ELSE cache[k]]
      BY <2>1, <2>2, <3>2
    <3> QED BY <1>2, <3>1, <3>2 DEF Remember, kept, entry
  <2> QED BY <1>2, <2>7 DEF Good, CacheOK
<1>7. ServedOK'
  <2>1. \A a \in Servable(r) :
          /\ a \in Answers' /\ Kind[answers'[a].by].route = Kind[r].route
          /\ ~ overlapped => answers'[a].generation = g
    <3>1. \A k \in Cached(Kind[r].route) :
            /\ cache[k].answer \in Answers /\ Kind[answers[cache[k].answer].by].route = Kind[r].route
            /\ ~ overlapped => answers[cache[k].answer].generation = g
      BY <1>5 DEF StaleOK, CacheOK, Cached
    <3> QED BY <1>4, <3>1 DEF Servable, n
  <2>2. \A q \in Requests : req'[q].generation = req[q].generation
                          /\ (q # r => req'[q].served = req[q].served)
    BY <1>1 DEF Advanced
  <2> SUFFICES ASSUME NEW q \in Requests, NEW a \in req'[q].served
               PROVE  /\ a \in Answers' /\ Kind[answers'[a].by].route = Kind[q].route
                      /\ ~ overlapped => answers'[a].generation = req'[q].generation
    BY <1>2 DEF ServedOK
  <2>3. CASE q = r
    <3>1. a \in Servable(r) /\ req'[q].generation = g
      BY <1>1, <2>2, <2>3 DEF g
    <3> QED BY <2>1, <2>3, <3>1
  <2>4. CASE q # r
    <3>1. /\ a \in Answers /\ Kind[answers[a].by].route = Kind[q].route
          /\ ~ overlapped => answers[a].generation = req[q].generation
      BY <2>2, <2>4 DEF StaleOK, ServedOK
    <3> QED BY <1>4, <2>2, <3>1
  <2> QED BY <2>3, <2>4
<1>8. PresentOK'
  <2>1. \A q \in Requests : req'[q].generation = req[q].generation
                          /\ (Active(q)' => Active(q)) /\ (Running(q)' => Running(q))
    BY <1>1, <1>2 DEF Advanced, Active, Running
  <2> QED BY <1>2, <2>1 DEF StaleOK, PresentOK
<1>9. UnservedOK'
  BY <1>1 DEF StaleOK, UnservedOK, Advanced
<1> QED BY <1>6, <1>7, <1>8, <1>9 DEF StaleOK

LEMMA AdvancedIsQuiet ==
  ASSUME NEW r \in Requests, NEW steps, Advanced(r, steps),
         req'[r].served = req[r].served, Running(r) \/ req'[r].pc = "done", Active(r),
         req'[r].pc \notin {"new", "reading"},
         UNCHANGED <<cache, answers, generation, seenGeneration, overlapped>>
  PROVE  Quiet
<1>1. \A q \in Requests \ {r} :
        req'[q].pc = req[q].pc \/ (req[q].pc = "held" /\ req'[q].pc = "sent")
  BY DEF Advanced
<1> QED BY <1>1 DEF Quiet, Advanced, Active, Running

LEMMA StaleStep ==
  ASSUME GatewayConstants, GatewayTypeOK, HeldOK, StaleOK, [GatewayNext]_gatewayVars
  PROVE  StaleOK'
<1>1. CASE SetRule
  BY <1>1, ControlKeeps DEF SetRule
<1>2. CASE ClearRules
  BY <1>2, ControlKeeps DEF ClearRules
<1>3. CASE Reset
  BY <1>3, ControlKeeps DEF Reset
<1>4. CASE Close
  <2>1. /\ Closes
        /\ \A q \in Requests :
              req'[q].generation = req[q].generation /\ req'[q].served = req[q].served
    BY <1>4, CloseEffect
  <2>2. cache' = <<>> /\ UNCHANGED <<answers, generation, seenGeneration, overlapped>>
    BY <1>4 DEF Close, controlVars
  <2>3. 0 \notin 1 .. MaxRules
    BY DEF GatewayConstants
  <2>4. \A q \in Requests : req'[q].pc = req[q].pc \/ (req[q].pc = "held" /\ req'[q].pc = "sent")
    <3> SUFFICES ASSUME NEW q \in Requests, req'[q].pc # req[q].pc
                 PROVE  req[q].pc = "held" /\ req'[q].pc = "sent"
      OBVIOUS
    <3>1. PICK id \in 1 .. MaxRules : reorder[id] = q
      BY <2>1 DEF Closes
    <3>2. req'[q].pc = "sent"
      BY <2>1, <3>1 DEF Closes
    <3>3. timer[q] # 0
      BY <2>3, <3>1 DEF HeldOK, Listed, GatewayConstants
    <3> QED BY <3>2, <3>3 DEF HeldOK, Armed
  <2>5. Quiet
    BY <2>1, <2>2, <2>4 DEF Quiet, Active, Running
  <2> QED BY <2>5, QuietKeeps
<1>5. ASSUME NEW r \in Requests, Arrive(r) PROVE StaleOK'
  BY <1>5, ArriveKeeps
<1>6. ASSUME NEW r \in Requests, TooLarge(r) \/ DownstreamFails(r) PROVE StaleOK'
  <2>1. /\ req[r].pc \in {"reading", "sent", "committed"} /\ Step(r, "done")
        /\ UNCHANGED <<timer, reorder, expired>>
        /\ UNCHANGED <<cache, answers, generation, seenGeneration, overlapped>>
    BY <1>6 DEF TooLarge, DownstreamFails, controlVars
  <2>2. Advanced(r, {"done"}) /\ req'[r].served = req[r].served
    BY <2>1, AdvancedByStep DEF Steps
  <2>3. req'[r].pc = "done" /\ Active(r)
    BY <2>1, <2>2 DEF Advanced, Active
  <2> QED BY <2>1, <2>2, <2>3, AdvancedIsQuiet, QuietKeeps
<1>7. ASSUME NEW r \in Requests, Begin(r) PROVE StaleOK'
  BY <1>7, BeginKeeps
<1>8. ASSUME NEW r \in Requests, Undelay(r) PROVE StaleOK'
  <2>1. PICK pc \in {"sent", "committed", "done"} : Step(r, pc)
    BY <1>8 DEF Undelay
  <2>2. /\ req[r].pc \in {"delayed", "committed_late", "answered_late"}
        /\ UNCHANGED <<timer, reorder, expired>>
        /\ UNCHANGED <<cache, answers, generation, seenGeneration, overlapped>>
    BY <1>8 DEF Undelay, controlVars
  <2>3. pc \in Steps \ {"new", "held"} /\ pc # "reading"
    BY DEF Steps
  <2>4. Advanced(r, {pc}) /\ req'[r].served = req[r].served
    BY <2>1, <2>2, <2>3, AdvancedByStep
  <2>5. Running(r) /\ Active(r) /\ req'[r].pc \notin {"new", "reading"}
    BY <2>2, <2>4 DEF Running, Active, Advanced
  <2> QED BY <2>2, <2>4, <2>5, AdvancedIsQuiet, QuietKeeps
<1>9. ASSUME NEW r \in Requests, TimerFires(r) PROVE StaleOK'
  <2>1. /\ TimesOut(r)
        /\ req'[r].generation = req[r].generation /\ req'[r].served = req[r].served
    BY <1>9, TimerEffect
  <2>2. UNCHANGED <<cache, answers, generation, seenGeneration, overlapped>>
    BY <1>9 DEF TimerFires, controlVars
  <2>3. req[r].pc = "held" /\ req'[r].pc = "sent" /\ Others(r)
    BY <2>1 DEF TimesOut, HeldOK, Armed
  <2>4. Quiet
    BY <2>1, <2>2, <2>3 DEF Quiet, Others, Active, Running
  <2> QED BY <2>4, QuietKeeps
<1>10. ASSUME NEW r \in Requests, Commit(r) PROVE StaleOK'
  <2>1. Advanced(r, {"done", "committed", "committed_late"}) /\ req'[r].served = req[r].served
    BY <1>10, CommitEffect
  <2>2. /\ req[r].pc = "sent"
        /\ UNCHANGED <<cache, answers, generation, seenGeneration, overlapped>>
    BY <1>10 DEF Commit
  <2>3. Running(r) /\ Active(r) /\ req'[r].pc \notin {"new", "reading"}
    BY <2>1, <2>2 DEF Running, Active, Advanced
  <2> QED BY <2>1, <2>2, <2>3, AdvancedIsQuiet, QuietKeeps
<1>11. ASSUME NEW r \in Requests, Consume(r) PROVE StaleOK'
  BY <1>11, ConsumeKeeps
<1>12. CASE UNCHANGED gatewayVars
  <2>1. Quiet
    BY <1>12 DEF gatewayVars, Quiet, Active, Running
  <2> QED BY <2>1, QuietKeeps
<1> QED BY <1>1, <1>2, <1>3, <1>4, <1>5, <1>6, <1>7, <1>8, <1>9, <1>10, <1>11, <1>12
        DEF GatewayNext

\* A stale response answers the same route and, unless a reset met a request in
\* the gateway, was given in the same run (#rememberResponse, the check of the
\* control generation), for any requests, rules and resets and any size of the
\* cache.
THEOREM StaleTheorem ==
  ASSUME GatewayConstants
  PROVE  GatewaySpec => []StaleIsFromThisRun
<1>1. GatewayInit => GatewayTypeOK /\ HeldOK
  BY GatewayInitOK
<1>2. GatewayInit => StaleOK
  BY DEF GatewayInit, StaleOK, CacheOK, ServedOK, PresentOK, UnservedOK, Active, Running
<1>3. GatewayTypeOK /\ HeldOK /\ StaleOK /\ [GatewayNext]_gatewayVars
        => (GatewayTypeOK /\ HeldOK /\ StaleOK)'
  BY GatewayTypeStep, HeldStep, StaleStep
<1>4. StaleOK => StaleIsFromThisRun
  BY DEF StaleOK, ServedOK, StaleIsFromThisRun
<1> QED BY <1>1, <1>2, <1>3, <1>4, PTL DEF GatewaySpec

-----------------------------------------------------------------------------
(* Delivery over Nostr.                                                      *)

RequestEvents == [type : {"request"}, payment : Payments \cup {Unreadable, Misattributed},
                  n : Nat, created : Nat]
ReceiptEvents == [type : {"receipt"}, payment : Payments, n : Nat, to : RequestEvents,
                  status : {"pending", "settled", "rejected"}, created : Nat]
Sends == [pc : {"idle", "publishing", "polling", "receipt", "no_response", "permanent_failure"},
          attempt : Nat, at : Nat, event : RequestEvents \cup {<<>>},
          heard : [Relays -> {"pending", "accepted", "rejected", "nothing"}],
          polls : Nat, got : {"none", "pending", "settled", "rejected"}]
Polls == [pc : {"idle", "querying", "processing", "publishing"}, since : Nat,
          answered : [Relays -> {"no", "yes", "failed", "accepted", "rejected", "nothing"}],
          found : SUBSET RequestEvents, current : ReceiptEvents \cup {<<>>}]

NostrTypeOK ==
    /\ now \in Nat /\ lastSeen \in Nat /\ receipts \in Nat
    /\ relay \in [Relays -> SUBSET (RequestEvents \cup ReceiptEvents)]
    /\ sender \in [Payments -> Sends]
    /\ ledger \in [Payments -> {"none", "pending", "settled", "rejected"}]
    /\ processed \in SUBSET RequestEvents
    /\ poll \in Polls

(***************************************************************************)
(* The ledger vouches for every receipt there is: those the relays keep,   *)
(* the one being published, and those senders have.                        *)
(***************************************************************************)
Vouched(p, status) ==
    /\ status \in {"pending", "settled", "rejected"}
    /\ status = ledger[p] \/ (status = "pending" /\ ledger[p] \in {"settled", "rejected"})

StoredVouched ==
    \A r \in Relays : \A f \in relay[r] : f.type = "receipt" => Vouched(f.payment, f.status)
CurrentVouched ==
    poll.pc = "publishing" =>
        poll.current \in ReceiptEvents /\ Vouched(poll.current.payment, poll.current.status)
GotVouched == \A p \in Payments : sender[p].pc = "receipt" => Vouched(p, sender[p].got)

(***************************************************************************)
(* A sender knows where its event is not: a relay that has not been asked  *)
(* or has refused does not keep it.  Attempts are numbered, so an event    *)
(* wrapped anew is on no relay.                                            *)
(***************************************************************************)
Numbered(p) ==
    \A r \in Relays : \A e \in relay[r] :
        e.type = "request" /\ e.payment = p => e.n <= sender[p].attempt
EventOK(p) ==
    sender[p].pc # "idle" =>
        /\ sender[p].event \in RequestEvents
        /\ sender[p].event.payment = p /\ sender[p].event.n = sender[p].attempt
AbsentOK(p) ==
    sender[p].pc # "idle" =>
        \A r \in Relays : sender[p].heard[r] \in {"pending", "rejected"} =>
            sender[p].event \notin relay[r]
FailureOK(p) ==
    sender[p].pc = "permanent_failure" => \A r \in Relays : sender[p].heard[r] = "rejected"
SendersOK ==
    \A p \in Payments : Numbered(p) /\ EventOK(p) /\ AbsentOK(p) /\ FailureOK(p)

(***************************************************************************)
(* The receiver counts a request as processed when a relay has said that   *)
(* it keeps the receipt, and then it does, or when an error ended it for   *)
(* good, of which the expiry is one that no later clock undoes.            *)
(***************************************************************************)
Receipted(e) == \E r \in Relays : \E f \in relay[r] : f.type = "receipt" /\ f.to = e
Ended(e) ==
    \/ EndedBy(e, "expired") /\ ~ Unexpired(e.payment)
    \/ EndedBy(e, "refused") \/ EndedBy(e, "failed")
Done(e) == ~ Unwraps(e) \/ Receipted(e) \/ Ended(e)
ProcessedOK == \A e \in processed : Done(e)
KeptOK ==
    /\ poll.pc = "querying" => \A r \in Relays : poll.answered[r] \in {"no", "yes", "failed"}
    /\ poll.pc = "processing" => \A r \in Relays : poll.answered[r] \in {"yes", "failed"}
    /\ poll.pc = "publishing" =>
         \A r \in Relays : poll.answered[r] = "accepted" => poll.current \in relay[r]

NostrInv ==
    /\ NostrTypeOK
    /\ StoredVouched /\ CurrentVouched /\ GotVouched
    /\ SendersOK
    /\ ProcessedOK /\ KeptOK

-----------------------------------------------------------------------------
(* Times, and what the relays and the ledger do in any step.                 *)

LEMMA TimesAreNat ==
  ASSUME NEW t \in Nat
  PROVE  /\ Wrapped(t) \subseteq Nat
         /\ Since(t) \in Nat
         /\ \A u \in Nat : Max({t, u}) \in Nat
<1>1. Wrapped(t) \subseteq Nat
  BY NostrAssumption DEF Wrapped
<1>2. Since(t) \in Nat
  BY NostrAssumption DEF Since
<1>3. ASSUME NEW u \in Nat PROVE Max({t, u}) \in Nat
  <2>1. \E x \in {t, u} : \A y \in {t, u} : x >= y
    OBVIOUS
  <2> QED BY <2>1 DEF Max
<1> QED BY <1>1, <1>2, <1>3

\* An event is added to one relay, or to none; a refusal means it is not there.
LEMMA PublishEffect ==
  ASSUME NEW r, NEW e, NEW heard, Publish(r, e, heard)
  PROVE  /\ relay' = relay \/ relay' = [relay EXCEPT ![r] = @ \cup {e}]
         /\ heard = "accepted" => relay' = [relay EXCEPT ![r] = @ \cup {e}]
         /\ heard = "rejected" => relay' = relay /\ e \notin relay[r]
BY DEF Publish

LEMMA Grown ==
  ASSUME NostrTypeOK, NEW r \in Relays, NEW e \in RequestEvents \cup ReceiptEvents,
         relay' = relay \/ relay' = [relay EXCEPT ![r] = @ \cup {e}]
  PROVE  /\ relay' \in [Relays -> SUBSET (RequestEvents \cup ReceiptEvents)]
         /\ \A q \in Relays : relay[q] \subseteq relay'[q]
         /\ \A q \in Relays : \A f \in relay'[q] : f \in relay[q] \/ (q = r /\ f = e)
         /\ relay' = [relay EXCEPT ![r] = @ \cup {e}] => e \in relay'[r]
BY DEF NostrTypeOK
\* The ledger only goes from nothing to pending, and from there to an end.
LedgerMoves ==
    \A p \in Payments :
        \/ ledger'[p] = ledger[p]
        \/ ledger[p] = "none"
        \/ ledger[p] = "pending" /\ ledger'[p] \in {"settled", "rejected"}

LEMMA RedeemsForward ==
  ASSUME NostrTypeOK, NEW p \in Payments, NEW status \in {ledger[p]} \cup RedeemsTo(ledger[p]),
         ledger' = [ledger EXCEPT ![p] = status]
  PROVE  LedgerMoves /\ ledger' \in [Payments -> {"none", "pending", "settled", "rejected"}]
<1>1. ledger[p] \in {"none", "pending", "settled", "rejected"}
  BY DEF NostrTypeOK
<1>2. /\ status \in {"none", "pending", "settled", "rejected"}
      /\ \/ status = ledger[p] \/ ledger[p] = "none"
         \/ ledger[p] = "pending" /\ status \in {"settled", "rejected"}
  BY <1>1 DEF RedeemsTo, Final
<1> QED BY <1>2 DEF LedgerMoves, NostrTypeOK

LEMMA AcceptCases ==
  ASSUME NostrTypeOK, Accept
  PROVE  \E e \in RequestEvents :
           /\ e \in poll.found /\ e.payment \in Payments /\ poll.pc = "processing"
           /\ AcceptEvent(e) \/ LeaveEvent(e)
           /\ UNCHANGED <<now, relay, partition, sender>>
<1>1. PICK e \in poll.found : Unwraps(e) /\ (AcceptEvent(e) \/ LeaveEvent(e))
  BY DEF Accept
<1>2. e \in RequestEvents
  BY DEF NostrTypeOK, Polls
<1>3. e.payment \in Payments
  BY <1>1, <1>2 DEF RequestEvents, Unwraps, Readable
<1> QED BY <1>1, <1>2, <1>3 DEF Accept

LEMMA LedgerAdvances ==
  ASSUME NostrTypeOK, NostrNext \/ UNCHANGED nostrVars
  PROVE  LedgerMoves
<1> SUFFICES ASSUME ledger' # ledger PROVE LedgerMoves
  BY DEF LedgerMoves
<1>1. Accept \/ \E p \in Payments : EndDelivery(p)
  BY DEF NostrNext, nostrVars, SetPartition, ClearPartition, Tick, Send, PollReceipt, PublishRequest,
     StartPoll, Collect, SkipEvent, EndPoll, Restart, QueryRelay, PublishReceipt, PublishStray,
     receiverVars
<1>2. CASE Accept
  <2>1. PICK e \in RequestEvents : e.payment \in Payments /\ (AcceptEvent(e) \/ LeaveEvent(e))
    BY <1>2, AcceptCases
  <2>2. CASE AcceptEvent(e)
    <3>1. PICK status \in RedeemsTo(ledger[e.payment]) :
            ledger' = [ledger EXCEPT ![e.payment] = status]
      BY <2>2 DEF AcceptEvent
    <3> QED BY <2>1, <3>1, RedeemsForward
  <2>3. CASE LeaveEvent(e)
    <3>1. CASE FailEvent(e)
      <4>1. PICK status \in {ledger[e.payment]} \cup RedeemsTo(ledger[e.payment]) :
              ledger' = [ledger EXCEPT ![e.payment] = status]
        BY <3>1 DEF FailEvent
      <4> QED BY <2>1, <4>1, RedeemsForward
    <3>2. CASE ExpiredEvent(e) \/ RefuseEvent(e)
      BY <3>2 DEF ExpiredEvent, RefuseEvent
    <3> QED BY <2>3, <3>1, <3>2 DEF LeaveEvent
  <2> QED BY <2>1, <2>2, <2>3
<1>3. ASSUME NEW p \in Payments, EndDelivery(p) PROVE LedgerMoves
  <2>1. PICK status \in Final : ledger[p] = "pending" /\ ledger' = [ledger EXCEPT ![p] = status]
    BY <1>3 DEF EndDelivery
  <2>2. status \in RedeemsTo(ledger[p])
    BY <2>1 DEF RedeemsTo, Final
  <2> QED BY <2>1, <2>2, RedeemsForward
<1> QED BY <1>1, <1>2, <1>3

\* No clock goes back, and what ended a request stays on record.
LEMMA RefusalsStay ==
  ASSUME NostrTypeOK, NostrNext \/ UNCHANGED nostrVars
  PROVE  refusals \subseteq refusals' /\ now' \in Nat /\ now <= now'
<1>1. CASE refusals' = refusals
  <2>1. now' = now \/ now' = now + 1
    BY DEF NostrNext, nostrVars, SetPartition, ClearPartition, Tick, Send, PollReceipt,
       PublishRequest, StartPoll, Collect, SkipEvent, Accept, EndPoll, Restart, QueryRelay,
       PublishReceipt, PublishStray, EndDelivery
  <2> QED BY <1>1, <2>1 DEF NostrTypeOK
<1>2. CASE refusals' # refusals
  <2>1. Accept
    BY <1>2 DEF NostrNext, nostrVars, SetPartition, ClearPartition, Tick, Send, PollReceipt,
       PublishRequest, StartPoll, Collect, SkipEvent, EndPoll, Restart, QueryRelay,
       PublishReceipt, PublishStray, EndDelivery, receiverVars
  <2>2. PICK e \in RequestEvents : (AcceptEvent(e) \/ LeaveEvent(e)) /\ now' = now
    BY <2>1, AcceptCases
  <2>3. refusals \subseteq refusals'
    BY <2>2 DEF AcceptEvent, LeaveEvent, ExpiredEvent, RefuseEvent, FailEvent, Terminal
  <2> QED BY <2>2, <2>3 DEF NostrTypeOK
<1> QED BY <1>1, <1>2

\* Hence what the ledger vouches for it goes on vouching for.
LEMMA StaysVouched ==
  ASSUME LedgerMoves, NEW p \in Payments, NEW status, Vouched(p, status)
  PROVE  Vouched(p, status)'
BY DEF LedgerMoves, Vouched
-----------------------------------------------------------------------------
(* Type correctness.                                                         *)

LEMMA FreshRecords == NoSend \in Sends /\ NoPoll \in Polls /\ NoPoll.pc = "idle"
BY DEF NoSend, NoPoll, Sends, Polls

LEMMA StartTypes ==
  ASSUME NostrTypeOK, StartPoll
  PROVE  /\ poll' \in Polls /\ poll'.pc = "querying"
         /\ \A r \in Relays : poll'.answered[r] = "no"
<1>1. poll' = [[NoPoll EXCEPT !.pc = "querying"] EXCEPT !.since = Since(lastSeen)]
  BY DEF StartPoll
<1>2. Since(lastSeen) \in Nat
  BY TimesAreNat DEF NostrTypeOK
<1>3. poll' \in Polls /\ poll'.pc = "querying" /\ poll'.answered = NoPoll.answered
  BY <1>1, <1>2, FreshRecords DEF Polls
<1>4. NoPoll.answered = [r \in Relays |-> "no"]
  BY DEF NoPoll
<1> QED BY <1>3, <1>4

LEMMA SenderTypes ==
  ASSUME NostrTypeOK, NEW p \in Payments, NEW s \in Sends, sender' = [sender EXCEPT ![p] = s]
  PROVE  sender' \in [Payments -> Sends]
BY DEF NostrTypeOK

LEMMA SendTypes ==
  ASSUME NostrTypeOK, NEW p \in Payments, Send(p)
  PROVE  sender' \in [Payments -> Sends]
<1> DEFINE s == sender[p]
<1>1. s \in Sends /\ s.attempt \in Nat /\ now \in Nat
  BY DEF NostrTypeOK, Sends
<1>2. PICK created \in Wrapped(now) :
        sender' = [sender EXCEPT ![p] =
          [NoSend EXCEPT !.pc = "publishing", !.attempt = s.attempt + 1, !.at = now,
             !.event = [type |-> "request", payment |-> p, n |-> s.attempt + 1,
                        created |-> created]]]
  BY DEF Send
<1>3. created \in Nat /\ s.attempt + 1 \in Nat
  BY <1>1, TimesAreNat
<1>4. [type |-> "request", payment |-> p, n |-> s.attempt + 1, created |-> created] \in RequestEvents
  BY <1>3 DEF RequestEvents
<1> HIDE DEF s
<1>5. [NoSend EXCEPT !.pc = "publishing", !.attempt = s.attempt + 1, !.at = now,
         !.event = [type |-> "request", payment |-> p, n |-> s.attempt + 1,
                    created |-> created]] \in Sends
  BY <1>1, <1>3, <1>4, FreshRecords DEF Sends
<1> QED BY <1>2, <1>5, SenderTypes

\* A request is published: what the relay said is noted.
Noted(p, r, heard) ==
    /\ Publish(r, sender[p].event, heard)
    /\ sender[p].pc = "publishing" /\ sender[p].heard[r] = "pending"
    /\ sender' \in [Payments -> Sends]
    /\ \A q \in Payments \ {p} : sender'[q] = sender[q]
    /\ sender'[p].heard = [sender[p].heard EXCEPT ![r] = heard]
    /\ sender'[p].event = sender[p].event /\ sender'[p].attempt = sender[p].attempt
    /\ sender'[p].pc \in {"publishing", "polling"}
    /\ UNCHANGED <<now, partition, receiverVars>>

LEMMA PublishRequestEffect ==
  ASSUME NostrTypeOK, NEW p \in Payments, NEW r \in Relays, PublishRequest(p, r)
  PROVE  \E heard \in {"accepted", "rejected", "nothing"} : Noted(p, r, heard)
<1> DEFINE s == sender[p]
<1>1. s \in Sends /\ s.heard \in [Relays -> {"pending", "accepted", "rejected", "nothing"}]
  BY DEF NostrTypeOK, Sends
<1>2. PICK heard \in {"accepted", "rejected", "nothing"} :
        /\ Publish(r, s.event, heard)
        /\ sender' = [sender EXCEPT ![p].heard = [s.heard EXCEPT ![r] = heard],
             ![p].pc = IF \E q \in Relays : [s.heard EXCEPT ![r] = heard][q] = "pending"
                       THEN @ ELSE "polling"]
  BY DEF PublishRequest
<1> DEFINE all == [s.heard EXCEPT ![r] = heard]
           step == IF \E q \in Relays : all[q] = "pending" THEN s.pc ELSE "polling"
<1>3. all \in [Relays -> {"pending", "accepted", "rejected", "nothing"}]
  BY <1>1
<1>4. s.pc = "publishing" /\ s.heard[r] = "pending" /\ UNCHANGED <<now, partition, receiverVars>>
  BY DEF PublishRequest
<1>5. step \in {"publishing", "polling"}
  BY <1>4
<1>6. sender' = [sender EXCEPT ![p] = [[s EXCEPT !.heard = all] EXCEPT !.pc = step]]
  BY <1>2
<1> HIDE DEF s, all, step
<1>7. /\ [[s EXCEPT !.heard = all] EXCEPT !.pc = step] \in Sends
      /\ [[s EXCEPT !.heard = all] EXCEPT !.pc = step].heard = all
      /\ [[s EXCEPT !.heard = all] EXCEPT !.pc = step].pc = step
      /\ [[s EXCEPT !.heard = all] EXCEPT !.pc = step].event = s.event
      /\ [[s EXCEPT !.heard = all] EXCEPT !.pc = step].attempt = s.attempt
  BY <1>1, <1>3, <1>5 DEF Sends
<1>8. sender' \in [Payments -> Sends]
  BY <1>6, <1>7, SenderTypes
<1>9. sender'[p] = [[s EXCEPT !.heard = all] EXCEPT !.pc = step]
  BY <1>6 DEF NostrTypeOK
<1>10. \A q \in Payments \ {p} : sender'[q] = sender[q]
  BY <1>6 DEF NostrTypeOK
<1>11. Publish(r, sender[p].event, heard)
  BY <1>2 DEF s
<1>12. /\ sender'[p].heard = [sender[p].heard EXCEPT ![r] = heard]
       /\ sender'[p].event = sender[p].event /\ sender'[p].attempt = sender[p].attempt
  BY <1>7, <1>9 DEF s, all
<1>13. sender'[p].pc \in {"publishing", "polling"}
  BY <1>5, <1>7, <1>9
<1> QED BY <1>4, <1>8, <1>10, <1>11, <1>12, <1>13 DEF s, Noted
\* What mergeObservedReceipt makes of several receipts is the status of one.
LEMMA MergedIsFound ==
  ASSUME NEW S, Merged(S) # "none"
  PROVE  \E e \in S : e.status = Merged(S)
<1>1. S # {}
  BY DEF Merged
<1>2. CASE \A e \in S : e.status = "pending"
  BY <1>1, <1>2 DEF Merged
<1>3. CASE \E e \in S : e.status # "pending"
  BY <1>1, <1>3 DEF Merged
<1> QED BY <1>2, <1>3

\* A poll of the sender: what it got is on a relay, and it gives up for good
\* only when every relay had refused.
LEMMA PollReceiptEffect ==
  ASSUME NostrTypeOK, NEW p \in Payments, PollReceipt(p)
  PROVE  /\ sender[p].pc = "polling"
         /\ sender' \in [Payments -> Sends]
         /\ \A q \in Payments \ {p} : sender'[q] = sender[q]
         /\ sender'[p].heard = sender[p].heard
         /\ sender'[p].event = sender[p].event /\ sender'[p].attempt = sender[p].attempt
         /\ sender'[p].pc \in {"polling", "receipt", "no_response", "permanent_failure"}
         /\ sender'[p].pc = "receipt" =>
              \E r \in Relays : \E f \in relay[r] :
                 f.type = "receipt" /\ f.payment = p /\ f.status = sender'[p].got
         /\ sender'[p].pc = "permanent_failure" =>
              \A r \in Relays : sender[p].heard[r] = "rejected"
         /\ UNCHANGED <<now, relay, partition, receiverVars>>
<1> DEFINE s == sender[p]
           replies(up) == {e \in UNION {History(r, "receipt", Since(s.at)) : r \in up} :
                             e.payment = p}
           got(up) == Merged(replies(up))
           pc(up) == IF up = {} THEN "no_response"
                     ELSE IF got(up) # "none" THEN "receipt"
                     ELSE IF s.polls + 1 = PollAttempts THEN Concluded(s) ELSE "polling"
<1>1. s \in Sends /\ s.polls \in Nat
  BY DEF NostrTypeOK, Sends
<1>2. PICK up \in SUBSET Relays :
        sender' = [sender EXCEPT ![p].pc = pc(up), ![p].polls = @ + 1, ![p].got = got(up)]
  BY DEF PollReceipt
<1>3. s.pc = "polling" /\ UNCHANGED <<now, relay, partition, receiverVars>>
  BY DEF PollReceipt
<1>4. Concluded(s) \in {"no_response", "permanent_failure"}
  BY DEF Concluded
<1>5. Concluded(s) = "permanent_failure" => \A r \in Relays : s.heard[r] = "rejected"
  BY DEF Concluded
<1>6. \A e \in replies(up) :
        /\ \E r \in Relays : e \in relay[r]
        /\ e.type = "receipt" /\ e.payment = p
  BY DEF History
<1>7. \A e \in replies(up) : e.status \in {"pending", "settled", "rejected"}
  <2> SUFFICES ASSUME NEW e \in replies(up)
               PROVE  e.status \in {"pending", "settled", "rejected"}
    OBVIOUS
  <2>1. e \in RequestEvents \cup ReceiptEvents /\ e.type = "receipt"
    BY <1>6 DEF NostrTypeOK
  <2>2. e \in ReceiptEvents
    BY <2>1 DEF RequestEvents
  <2> QED BY <2>2 DEF ReceiptEvents
<1>8. got(up) # "none" => \E e \in replies(up) : e.status = got(up)
  BY <1>7, MergedIsFound
<1>9. got(up) \in {"none", "pending", "settled", "rejected"}
  BY <1>7, <1>8
<1>10. pc(up) \in {"polling", "receipt", "no_response", "permanent_failure"}
  BY <1>4
<1>11. pc(up) = "receipt" => got(up) # "none"
  BY <1>4
<1>12. pc(up) = "permanent_failure" => \A r \in Relays : s.heard[r] = "rejected"
  BY <1>5
<1> DEFINE new == [[[s EXCEPT !.pc = pc(up)] EXCEPT !.polls = s.polls + 1] EXCEPT !.got = got(up)]
<1>13. sender' = [sender EXCEPT ![p] = new]
  BY <1>2
<1> HIDE DEF s, replies, got, pc
<1>14. /\ new \in Sends /\ new.pc = pc(up) /\ new.got = got(up)
       /\ new.heard = s.heard /\ new.event = s.event /\ new.attempt = s.attempt
  <2> DEFINE polled == [s EXCEPT !.pc = pc(up)]
             counted == [polled EXCEPT !.polls = s.polls + 1]
  <2>1. s.polls + 1 \in Nat
    BY <1>1
  <2>2. /\ polled \in Sends /\ polled.pc = pc(up)
        /\ polled.heard = s.heard /\ polled.event = s.event /\ polled.attempt = s.attempt
    BY <1>1, <1>10 DEF Sends
  <2> HIDE DEF polled
  <2>3. /\ counted \in Sends /\ counted.pc = pc(up)
        /\ counted.heard = s.heard /\ counted.event = s.event /\ counted.attempt = s.attempt
    BY <2>1, <2>2 DEF Sends
  <2> HIDE DEF counted
  <2>4. new = [counted EXCEPT !.got = got(up)]
    BY DEF counted, polled
  <2> QED BY <1>9, <2>3, <2>4 DEF Sends
<1> HIDE DEF new
<1>15. sender' \in [Payments -> Sends]
  BY <1>13, <1>14, SenderTypes
<1>16. sender'[p] = new /\ \A q \in Payments \ {p} : sender'[q] = sender[q]
  BY <1>13 DEF NostrTypeOK
<1>17. sender'[p].pc = "receipt" =>
         \E r \in Relays : \E f \in relay[r] :
            f.type = "receipt" /\ f.payment = p /\ f.status = sender'[p].got
  BY <1>6, <1>8, <1>11, <1>14, <1>16
<1> QED BY <1>3, <1>10, <1>12, <1>14, <1>15, <1>16, <1>17 DEF s

\* A receipt is published: the event counts as processed once all relays were
\* tried and one has it.
Advertised(r, heard) ==
    LET all == [poll.answered EXCEPT ![r] = heard]
    IN  /\ Publish(r, poll.current, heard)
        /\ poll.pc = "publishing"
        /\ poll' \in Polls /\ lastSeen' \in Nat
        /\ \/ /\ poll'.pc = "publishing" /\ poll'.answered = all
              /\ poll'.current = poll.current /\ processed' = processed
           \/ /\ poll'.pc = "processing"
              /\ \A q \in Relays : poll'.answered[q] = "yes"
              /\ \/ processed' = processed
                 \/ Answered(all) /\ processed' = processed \cup {poll.current.to}
        /\ UNCHANGED <<now, partition, sender, ledger, receipts>>

LEMMA PublishReceiptEffect ==
  ASSUME NostrTypeOK, NEW r \in Relays, PublishReceipt(r), poll.current \in ReceiptEvents
  PROVE  \E heard \in {"accepted", "rejected", "nothing"} : Advertised(r, heard)
<1> DEFINE e == poll.current.to
           all(heard) == [poll.answered EXCEPT ![r] = heard]
           done(heard) == \A q \in Relays : all(heard)[q] \notin {"yes", "failed"}
<1>1. /\ poll \in Polls /\ lastSeen \in Nat
      /\ poll.answered \in
           [Relays -> {"no", "yes", "failed", "accepted", "rejected", "nothing"}]
  BY DEF NostrTypeOK, Polls
<1>2. e.created \in Nat
  BY DEF ReceiptEvents, RequestEvents
<1>3. /\ poll.pc = "publishing"
      /\ UNCHANGED <<now, partition, sender, ledger, receipts>>
  BY DEF PublishReceipt
<1>4. PICK heard \in {"accepted", "rejected", "nothing"} :
        /\ Publish(r, poll.current, heard)
        /\ IF ~ done(heard)
           THEN poll' = [poll EXCEPT !.answered = all(heard)] /\ UNCHANGED <<processed, lastSeen>>
           ELSE /\ processed' = IF Answered(all(heard)) THEN processed \cup {e} ELSE processed
                /\ lastSeen' = Max({lastSeen, e.created})
                /\ poll' = [poll EXCEPT !.pc = "processing",
                              !.answered = [q \in Relays |-> "yes"]]
  BY DEF PublishReceipt
<1>5. all(heard) \in [Relays -> {"no", "yes", "failed", "accepted", "rejected", "nothing"}]
  BY <1>1
<1>6. Max({lastSeen, e.created}) \in Nat
  BY <1>1, <1>2, TimesAreNat
<1> DEFINE every == [q \in Relays |-> "yes"]
<1>7. /\ every \in [Relays -> {"no", "yes", "failed", "accepted", "rejected", "nothing"}]
      /\ \A q \in Relays : every[q] = "yes"
  OBVIOUS
<1> HIDE DEF all, done, e, every
<1>8. CASE ~ done(heard)
  <2>1. poll' = [poll EXCEPT !.answered = all(heard)] /\ UNCHANGED <<processed, lastSeen>>
    BY <1>4, <1>8
  <2>2. /\ poll' \in Polls /\ poll'.pc = poll.pc /\ poll'.answered = all(heard)
        /\ poll'.current = poll.current
    BY <1>1, <1>5, <2>1 DEF Polls
  <2> QED BY <1>1, <1>3, <1>4, <2>1, <2>2 DEF all, Advertised
<1>9. CASE done(heard)
  <2>1. /\ processed' = processed \/ (Answered(all(heard)) /\ processed' = processed \cup {e})
        /\ lastSeen' \in Nat
        /\ poll' = [[poll EXCEPT !.pc = "processing"] EXCEPT !.answered = every]
    BY <1>4, <1>6, <1>9 DEF every
  <2>2. poll' \in Polls /\ poll'.pc = "processing" /\ poll'.answered = every
    BY <1>1, <1>7, <2>1 DEF Polls
  <2> QED BY <1>3, <1>4, <1>7, <2>1, <2>2 DEF all, e, Advertised
<1> QED BY <1>8, <1>9
\* What the receiver reads from a relay are requests.
LEMMA HistoryTypes ==
  ASSUME NostrTypeOK, NEW r \in Relays, NEW since
  PROVE  History(r, "request", since) \subseteq RequestEvents
<1>1. ASSUME NEW e \in History(r, "request", since) PROVE e \in RequestEvents
  <2>1. e \in RequestEvents \cup ReceiptEvents /\ e.type = "request"
    BY DEF History, NostrTypeOK
  <2> QED BY <2>1 DEF ReceiptEvents
<1> QED BY <1>1

LEMMA QueryTypes ==
  ASSUME NostrTypeOK, NEW r \in Relays, QueryRelay(r)
  PROVE  /\ poll' \in Polls /\ poll'.pc = "querying" /\ poll.pc = "querying"
         /\ \A q \in Relays : poll'.answered[q] \in {poll.answered[q], "yes", "failed"}
<1>1. /\ poll \in Polls /\ poll.found \subseteq RequestEvents
      /\ poll.answered \in
           [Relays -> {"no", "yes", "failed", "accepted", "rejected", "nothing"}]
  BY DEF NostrTypeOK, Polls
<1> DEFINE yes == [poll.answered EXCEPT ![r] = "yes"]
           failed == [poll.answered EXCEPT ![r] = "failed"]
           found == poll.found \cup History(r, "request", poll.since)
<1>2. /\ poll.pc = "querying"
      /\ \/ poll' = [[poll EXCEPT !.answered = yes] EXCEPT !.found = found]
         \/ poll' = [poll EXCEPT !.answered = failed]
  BY DEF QueryRelay
<1>3. /\ yes \in [Relays -> {"no", "yes", "failed", "accepted", "rejected", "nothing"}]
      /\ failed \in [Relays -> {"no", "yes", "failed", "accepted", "rejected", "nothing"}]
      /\ found \in SUBSET RequestEvents
  BY <1>1, HistoryTypes
<1> DEFINE Replies(f) == \A q \in Relays : f[q] \in {poll.answered[q], "yes", "failed"}
<1>4. Replies(yes) /\ Replies(failed)
  BY <1>1
<1> HIDE DEF yes, failed, found, Replies
<1>5. CASE poll' = [[poll EXCEPT !.answered = yes] EXCEPT !.found = found]
  <2>1. poll' \in Polls /\ poll'.pc = poll.pc /\ poll'.answered = yes
    BY <1>1, <1>3, <1>5 DEF Polls
  <2> QED BY <1>2, <1>4, <2>1 DEF Replies
<1>6. CASE poll' = [poll EXCEPT !.answered = failed]
  <2>1. poll' \in Polls /\ poll'.pc = poll.pc /\ poll'.answered = failed
    BY <1>1, <1>3, <1>6 DEF Polls
  <2> QED BY <1>2, <1>4, <2>1 DEF Replies
<1> QED BY <1>2, <1>5, <1>6

LEMMA CollectTypes ==
  ASSUME NostrTypeOK, Collect
  PROVE  /\ poll' \in Polls /\ poll'.pc \in {"idle", "processing"}
         /\ poll'.pc = "processing" => poll'.answered = poll.answered
<1>1. poll \in Polls /\ poll.found \ processed \in SUBSET RequestEvents
  BY DEF NostrTypeOK, Polls
<1>2. \/ poll' = NoPoll
      \/ poll' = [[poll EXCEPT !.pc = "processing"] EXCEPT !.found = poll.found \ processed]
  BY DEF Collect
<1>3. CASE poll' = NoPoll
  BY <1>3, FreshRecords
<1>4. CASE poll' = [[poll EXCEPT !.pc = "processing"] EXCEPT !.found = poll.found \ processed]
  BY <1>1, <1>4 DEF Polls
<1> QED BY <1>2, <1>3, <1>4

\* An event that is dealt with at once leaves the rest of the poll as it was.
LEMMA FoundTypes ==
  ASSUME NostrTypeOK, NEW e \in poll.found, poll' = [poll EXCEPT !.found = @ \ {e}]
  PROVE  /\ poll' \in Polls /\ poll'.pc = poll.pc /\ poll'.answered = poll.answered
         /\ poll'.current = poll.current
         /\ e \in RequestEvents /\ Max({lastSeen, e.created}) \in Nat
<1>1. /\ poll \in Polls /\ e \in RequestEvents
      /\ poll.found \ {e} \in SUBSET RequestEvents
  BY DEF NostrTypeOK, Polls
<1>2. /\ poll' \in Polls /\ poll'.pc = poll.pc /\ poll'.answered = poll.answered
      /\ poll'.current = poll.current
  BY <1>1 DEF Polls
<1>3. e.created \in Nat /\ lastSeen \in Nat
  BY <1>1 DEF RequestEvents, NostrTypeOK
<1> QED BY <1>1, <1>2, <1>3, TimesAreNat

LEMMA AcceptEventTypes ==
  ASSUME NostrTypeOK, NEW e \in RequestEvents, e \in poll.found, e.payment \in Payments,
         AcceptEvent(e), poll.pc = "processing"
  PROVE  /\ poll' \in Polls /\ receipts' \in Nat
         /\ poll'.pc = "publishing" /\ poll'.answered = poll.answered
         /\ poll'.current \in ReceiptEvents
         /\ poll'.current.payment = e.payment /\ poll'.current.status = ledger'[e.payment]
         /\ ledger'[e.payment] \in {"pending", "settled", "rejected"}
         /\ ledger' \in [Payments -> {"none", "pending", "settled", "rejected"}]
         /\ UNCHANGED <<processed, lastSeen>>
<1>1. PICK status \in RedeemsTo(ledger[e.payment]), created \in Wrapped(now) :
        /\ ledger' = [ledger EXCEPT ![e.payment] = status]
        /\ poll' = [poll EXCEPT !.pc = "publishing", !.found = @ \ {e},
                   !.current = [type |-> "receipt", payment |-> e.payment, n |-> receipts + 1,
                                to |-> e, status |-> status, created |-> created]]
  BY DEF AcceptEvent
<1> DEFINE current == [type |-> "receipt", payment |-> e.payment, n |-> receipts + 1, to |-> e,
                       status |-> status, created |-> created]
<1>2. receipts' = receipts + 1 /\ UNCHANGED <<processed, lastSeen>>
  BY DEF AcceptEvent
<1>3. status \in {"pending", "settled", "rejected"}
  BY DEF RedeemsTo, Final
<1>4. receipts + 1 \in Nat /\ created \in Nat
  BY TimesAreNat DEF NostrTypeOK
<1>5. poll \in Polls /\ poll.found \ {e} \in SUBSET RequestEvents
  BY DEF NostrTypeOK, Polls
<1>6. current \in ReceiptEvents /\ current.payment = e.payment /\ current.status = status
  BY <1>3, <1>4 DEF ReceiptEvents
<1> HIDE DEF current
<1>7. poll' = [[[poll EXCEPT !.pc = "publishing"] EXCEPT !.found = poll.found \ {e}]
                 EXCEPT !.current = current]
  BY <1>1 DEF current
<1>8. /\ poll' \in Polls /\ poll'.pc = "publishing" /\ poll'.answered = poll.answered
      /\ poll'.current = current
  BY <1>5, <1>6, <1>7 DEF Polls
<1>9. /\ ledger'[e.payment] = status
      /\ ledger' \in [Payments -> {"none", "pending", "settled", "rejected"}]
  BY <1>1, RedeemsForward DEF NostrTypeOK
<1> QED BY <1>2, <1>3, <1>4, <1>6, <1>8, <1>9

\* An event that gets no receipt leaves the poll where it was; it counts as
\* processed only with the error that ended it on record.
LEMMA LeaveEventEffect ==
  ASSUME NostrTypeOK, NEW e \in RequestEvents, e \in poll.found, e.payment \in Payments,
         LeaveEvent(e)
  PROVE  /\ poll' \in Polls /\ poll'.pc = poll.pc /\ poll'.answered = poll.answered
         /\ poll'.current = poll.current
         /\ lastSeen' \in Nat /\ receipts' = receipts
         /\ ledger' \in [Payments -> {"none", "pending", "settled", "rejected"}]
         /\ \/ processed' = processed
            \/ /\ processed' = processed \cup {e}
               /\ \/ EndedBy(e, "expired")' /\ ~ Unexpired(e.payment)
                  \/ EndedBy(e, "refused")' \/ EndedBy(e, "failed")'
<1>1. /\ poll' = [poll EXCEPT !.found = @ \ {e}]
      /\ lastSeen' = Max({lastSeen, e.created}) /\ receipts' = receipts
      /\ ExpiredEvent(e) \/ RefuseEvent(e) \/ FailEvent(e)
  BY DEF LeaveEvent
<1>2. /\ poll' \in Polls /\ poll'.pc = poll.pc /\ poll'.answered = poll.answered
      /\ poll'.current = poll.current /\ lastSeen' \in Nat
  BY <1>1, FoundTypes
<1>3. ASSUME NEW kind, Terminal(e, kind)
      PROVE  processed' = processed \cup {e} /\ EndedBy(e, kind)'
  BY <1>3 DEF Terminal, EndedBy
<1>4. CASE ExpiredEvent(e)
  <2>1. ledger' = ledger /\ ~ Unexpired(e.payment) /\ Terminal(e, "expired")
    BY <1>4 DEF ExpiredEvent
  <2> QED BY <1>1, <1>2, <1>3, <2>1 DEF NostrTypeOK
<1>5. CASE RefuseEvent(e)
  <2>1. ledger' = ledger /\ Terminal(e, "refused")
    BY <1>5 DEF RefuseEvent
  <2> QED BY <1>1, <1>2, <1>3, <2>1 DEF NostrTypeOK
<1>6. CASE FailEvent(e)
  <2>1. PICK status \in {ledger[e.payment]} \cup RedeemsTo(ledger[e.payment]) :
          ledger' = [ledger EXCEPT ![e.payment] = status]
    BY <1>6 DEF FailEvent
  <2>2. Terminal(e, "failed") \/ processed' = processed
    BY <1>6 DEF FailEvent
  <2>3. ledger' \in [Payments -> {"none", "pending", "settled", "rejected"}]
    BY <2>1, RedeemsForward
  <2> QED BY <1>1, <1>2, <1>3, <2>2, <2>3
<1> QED BY <1>1, <1>4, <1>5, <1>6

LEMMA NostrTypeNext ==
  ASSUME NostrTypeOK, CurrentVouched, SendersOK, NostrNext \/ UNCHANGED nostrVars
  PROVE  NostrTypeOK'
<1> USE DEF NostrTypeOK
<1>1. CASE UNCHANGED nostrVars
  BY <1>1 DEF nostrVars, receiverVars
<1>2. CASE SetPartition \/ ClearPartition
  BY <1>2 DEF SetPartition, ClearPartition, receiverVars
<1>3. CASE Tick
  BY <1>3 DEF Tick, receiverVars
<1>4. ASSUME NEW p \in Payments, Send(p) PROVE NostrTypeOK'
  BY <1>4, SendTypes DEF Send, receiverVars
<1>5. ASSUME NEW p \in Payments, PollReceipt(p) PROVE NostrTypeOK'
  <2>1. sender' \in [Payments -> Sends] /\ UNCHANGED <<now, relay, receiverVars>>
    BY <1>5, PollReceiptEffect
  <2> QED BY <2>1 DEF receiverVars
<1>6. ASSUME NEW p \in Payments, EndDelivery(p) PROVE NostrTypeOK'
  BY <1>6 DEF EndDelivery, Final
<1>7. ASSUME NEW p \in Payments, NEW r \in Relays, PublishRequest(p, r) PROVE NostrTypeOK'
  <2> HIDE DEF NostrTypeOK
  <2>0. PICK heard \in {"accepted", "rejected", "nothing"} : Noted(p, r, heard)
    BY <1>7, PublishRequestEffect
  <2>1. /\ Publish(r, sender[p].event, heard) /\ sender[p].pc = "publishing"
        /\ sender' \in [Payments -> Sends] /\ UNCHANGED <<now, receiverVars>>
    BY <2>0 DEF Noted
  <2>2. sender[p].event \in RequestEvents \cup ReceiptEvents
    <3>1. EventOK(p)
      BY DEF SendersOK
    <3>2. sender[p].pc # "idle"
      BY <2>1
    <3> QED BY <3>1, <3>2 DEF EventOK
  <2>3. relay' = relay \/ relay' = [relay EXCEPT ![r] = @ \cup {sender[p].event}]
    BY <2>1, PublishEffect
  <2>4. relay' \in [Relays -> SUBSET (RequestEvents \cup ReceiptEvents)]
    BY <2>2, <2>3, Grown
  <2> QED BY <2>1, <2>4 DEF receiverVars, NostrTypeOK
<1>8. CASE StartPoll
  BY <1>8, StartTypes DEF StartPoll
<1>9. CASE Collect
  BY <1>9, CollectTypes DEF Collect
<1>10. CASE SkipEvent
  <2>1. PICK e \in poll.found :
          /\ processed' = processed \cup {e} /\ lastSeen' = Max({lastSeen, e.created})
          /\ poll' = [poll EXCEPT !.found = @ \ {e}]
    BY <1>10 DEF SkipEvent
  <2> QED BY <1>10, <2>1, FoundTypes DEF SkipEvent
<1>11. CASE Accept
  <2>1. PICK e \in RequestEvents :
          /\ e \in poll.found /\ e.payment \in Payments /\ poll.pc = "processing"
          /\ AcceptEvent(e) \/ LeaveEvent(e)
          /\ UNCHANGED <<now, relay, partition, sender>>
    BY <1>11, AcceptCases
  <2>2. CASE AcceptEvent(e)
    BY <2>1, <2>2, AcceptEventTypes
  <2>3. CASE LeaveEvent(e)
    BY <2>1, <2>3, LeaveEventEffect
  <2> QED BY <2>1, <2>2, <2>3
<1>12. CASE EndPoll
  BY <1>12, FreshRecords DEF EndPoll
<1>13. CASE Restart
  BY <1>13, FreshRecords DEF Restart
<1>14. ASSUME NEW r \in Relays, QueryRelay(r) PROVE NostrTypeOK'
  BY <1>14, QueryTypes DEF QueryRelay
<1>15. ASSUME NEW r \in Relays, PublishReceipt(r) PROVE NostrTypeOK'
  <2>1. poll.current \in ReceiptEvents
    BY <1>15 DEF PublishReceipt, CurrentVouched
  <2>2. poll.current.to \in RequestEvents
    BY <2>1 DEF ReceiptEvents
  <2>0. PICK heard \in {"accepted", "rejected", "nothing"} : Advertised(r, heard)
    BY <1>15, <2>1, PublishReceiptEffect
  <2>3. /\ Publish(r, poll.current, heard)
        /\ poll' \in Polls /\ lastSeen' \in Nat
        /\ processed' = processed \/ processed' = processed \cup {poll.current.to}
        /\ UNCHANGED <<now, sender, ledger, receipts>>
    BY <2>0 DEF Advertised
  <2>4. relay' = relay \/ relay' = [relay EXCEPT ![r] = @ \cup {poll.current}]
    BY <2>3, PublishEffect
  <2>5. relay' \in [Relays -> SUBSET (RequestEvents \cup ReceiptEvents)]
    BY <2>1, <2>4, Grown
  <2> QED BY <2>2, <2>3, <2>5
<1>16. ASSUME NEW r \in Relays, PublishStray(r) PROVE NostrTypeOK'
  <2>1. PICK stray \in {Unreadable, Misattributed} :
          relay' = [relay EXCEPT ![r] = @ \cup
                      {[type |-> "request", payment |-> stray, n |-> 1, created |-> now]}]
    BY <1>16 DEF PublishStray
  <2>2. [type |-> "request", payment |-> stray, n |-> 1, created |-> now] \in RequestEvents
    BY DEF RequestEvents
  <2>3. relay' \in [Relays -> SUBSET (RequestEvents \cup ReceiptEvents)]
    BY <2>1, <2>2, Grown
  <2> QED BY <1>16, <2>3 DEF PublishStray, receiverVars
<1> QED BY <1>1, <1>2, <1>3, <1>4, <1>5, <1>6, <1>7, <1>8, <1>9, <1>10, <1>11, <1>12, <1>13,
           <1>14, <1>15, <1>16 DEF NostrNext
-----------------------------------------------------------------------------
(* The ledger vouches for every receipt.                                     *)

\* Relays lose nothing, and what they gain is a request or the receipt that is
\* being published.
LEMMA RelayAdds ==
  ASSUME NostrTypeOK, CurrentVouched, SendersOK, NostrNext \/ UNCHANGED nostrVars
  PROVE  /\ \A q \in Relays : relay[q] \subseteq relay'[q]
         /\ \A q \in Relays : \A f \in relay'[q] :
              f \in relay[q] \/ f \in RequestEvents \/ (f = poll.current /\ poll.pc = "publishing")
<1>1. CASE relay' = relay
  BY <1>1
<1>2. CASE relay' # relay
  <2>1. \/ \E p \in Payments, r \in Relays : PublishRequest(p, r)
        \/ \E r \in Relays : PublishReceipt(r) \/ PublishStray(r)
    BY <1>2 DEF NostrNext, nostrVars, SetPartition, ClearPartition, Tick, Send, PollReceipt, EndDelivery,
       StartPoll, Collect, SkipEvent, Accept, EndPoll, Restart, QueryRelay, receiverVars
  <2>2. ASSUME NEW p \in Payments, NEW r \in Relays, PublishRequest(p, r)
        PROVE  \E e \in RequestEvents : relay' = relay \/ relay' = [relay EXCEPT ![r] = @ \cup {e}]
    <3>1. PICK heard \in {"accepted", "rejected", "nothing"} : Noted(p, r, heard)
      BY <2>2, PublishRequestEffect
    <3>2. EventOK(p) /\ sender[p].pc = "publishing" /\ Publish(r, sender[p].event, heard)
      BY <3>1 DEF SendersOK, Noted
    <3>3. sender[p].event \in RequestEvents
      BY <3>2 DEF EventOK
    <3> QED BY <3>2, <3>3, PublishEffect
  <2>3. ASSUME NEW r \in Relays, PublishReceipt(r)
        PROVE  /\ poll.pc = "publishing" /\ poll.current \in ReceiptEvents
               /\ relay' = relay \/ relay' = [relay EXCEPT ![r] = @ \cup {poll.current}]
    <3>1. poll.pc = "publishing" /\ poll.current \in ReceiptEvents
      BY <2>3 DEF PublishReceipt, CurrentVouched
    <3>2. PICK heard \in {"accepted", "rejected", "nothing"} : Publish(r, poll.current, heard)
      BY <2>3 DEF PublishReceipt
    <3> QED BY <3>1, <3>2, PublishEffect
  <2>4. ASSUME NEW r \in Relays, PublishStray(r)
        PROVE  \E e \in RequestEvents : relay' = relay \/ relay' = [relay EXCEPT ![r] = @ \cup {e}]
    <3>1. PICK stray \in {Unreadable, Misattributed} :
            relay' = [relay EXCEPT ![r] = @ \cup
                        {[type |-> "request", payment |-> stray, n |-> 1, created |-> now]}]
      BY <2>4 DEF PublishStray
    <3>2. [type |-> "request", payment |-> stray, n |-> 1, created |-> now] \in RequestEvents
      BY DEF RequestEvents, NostrTypeOK
    <3> QED BY <3>1, <3>2
  <2> QED BY <2>1, <2>2, <2>3, <2>4, Grown
<1> QED BY <1>1, <1>2

LEMMA StoredVouchedNext ==
  ASSUME NostrTypeOK, StoredVouched, CurrentVouched, SendersOK, NostrNext \/ UNCHANGED nostrVars
  PROVE  StoredVouched'
<1> SUFFICES ASSUME NEW r \in Relays, NEW f \in relay'[r], f.type = "receipt"
             PROVE  Vouched(f.payment, f.status)'
  BY DEF StoredVouched
<1>1. f \notin RequestEvents
  BY DEF RequestEvents
<1>2. f \in relay[r] \/ (f = poll.current /\ poll.pc = "publishing")
  BY <1>1, RelayAdds
<1>3. f \in ReceiptEvents /\ Vouched(f.payment, f.status)
  BY <1>1, <1>2 DEF StoredVouched, CurrentVouched, NostrTypeOK
<1>4. f.payment \in Payments
  BY <1>3 DEF ReceiptEvents
<1> QED BY <1>3, <1>4, LedgerAdvances, StaysVouched

LEMMA CurrentVouchedNext ==
  ASSUME NostrTypeOK, StoredVouched, CurrentVouched, SendersOK, NostrNext \/ UNCHANGED nostrVars
  PROVE  CurrentVouched'
<1> SUFFICES ASSUME poll'.pc = "publishing"
             PROVE  /\ poll'.current \in ReceiptEvents
                    /\ Vouched(poll.current.payment, poll.current.status)'
  BY DEF CurrentVouched
<1>1. CASE poll.pc = "publishing" /\ poll'.current = poll.current
  <2>1. poll.current \in ReceiptEvents /\ Vouched(poll.current.payment, poll.current.status)
    BY <1>1 DEF CurrentVouched
  <2>2. poll.current.payment \in Payments
    BY <2>1 DEF ReceiptEvents
  <2> QED BY <1>1, <2>1, <2>2, LedgerAdvances, StaysVouched
<1>2. CASE poll' = poll
  BY <1>1, <1>2
<1>3. CASE StartPoll \/ EndPoll \/ Restart
  <2>1. poll'.pc \in {"idle", "querying"}
    BY <1>3, StartTypes, FreshRecords DEF EndPoll, Restart
  <2> QED BY <2>1
<1>4. CASE Collect
  BY <1>4, CollectTypes
<1>5. CASE SkipEvent
  <2>1. PICK e \in poll.found : poll' = [poll EXCEPT !.found = @ \ {e}]
    BY <1>5 DEF SkipEvent
  <2> QED BY <1>1, <2>1, FoundTypes
<1>6. CASE Accept
  <2>1. PICK e \in RequestEvents :
          /\ e \in poll.found /\ e.payment \in Payments /\ poll.pc = "processing"
          /\ AcceptEvent(e) \/ LeaveEvent(e)
    BY <1>6, AcceptCases
  <2>2. CASE AcceptEvent(e)
    <3>1. /\ poll'.current \in ReceiptEvents
          /\ poll'.current.payment = e.payment /\ poll'.current.status = ledger'[e.payment]
          /\ ledger'[e.payment] \in {"pending", "settled", "rejected"}
      BY <2>1, <2>2, AcceptEventTypes
    <3> QED BY <3>1 DEF Vouched
  <2>3. CASE LeaveEvent(e)
    BY <1>1, <2>1, <2>3, LeaveEventEffect
  <2> QED BY <2>1, <2>2, <2>3
<1>7. ASSUME NEW r \in Relays, QueryRelay(r) PROVE FALSE
  BY <1>7, QueryTypes
<1>8. ASSUME NEW r \in Relays, PublishReceipt(r)
      PROVE  poll.pc = "publishing" /\ poll'.current = poll.current
  <2>1. poll.pc = "publishing" /\ poll.current \in ReceiptEvents
    BY <1>8 DEF PublishReceipt, CurrentVouched
  <2>2. PICK heard \in {"accepted", "rejected", "nothing"} : Advertised(r, heard)
    BY <1>8, <2>1, PublishReceiptEffect
  <2> QED BY <2>1, <2>2 DEF Advertised
<1>9. \/ poll' = poll \/ StartPoll \/ EndPoll \/ Restart \/ Collect \/ SkipEvent \/ Accept
      \/ \E r \in Relays : QueryRelay(r) \/ PublishReceipt(r)
  BY DEF NostrNext, nostrVars, SetPartition, ClearPartition, Tick, Send, PollReceipt, EndDelivery,
     PublishRequest, PublishStray, receiverVars
<1> QED BY <1>1, <1>2, <1>3, <1>4, <1>5, <1>6, <1>7, <1>8, <1>9
\* What a sender does to its record: it wraps an event, publishes it, or polls.
LEMMA SenderCases ==
  ASSUME NostrNext \/ UNCHANGED nostrVars
  PROVE  \/ sender' = sender
         \/ \E p \in Payments : Send(p) \/ PollReceipt(p) \/ \E r \in Relays : PublishRequest(p, r)
BY DEF NostrNext, nostrVars, SetPartition, ClearPartition, Tick, EndDelivery, PublishStray, StartPoll,
   Collect, SkipEvent, Accept, EndPoll, Restart, QueryRelay, PublishReceipt

LEMMA SendEffect ==
  ASSUME NostrTypeOK, NEW p \in Payments, Send(p)
  PROVE  /\ \A q \in Payments \ {p} : sender'[q] = sender[q]
         /\ sender'[p].pc = "publishing" /\ sender'[p].attempt = sender[p].attempt + 1
         /\ sender'[p].event \in RequestEvents
         /\ sender'[p].event.payment = p /\ sender'[p].event.n = sender[p].attempt + 1
         /\ UNCHANGED <<now, relay, partition, receiverVars>>
<1> DEFINE s == sender[p]
<1>1. PICK created \in Wrapped(now) :
        sender' = [sender EXCEPT ![p] =
          [NoSend EXCEPT !.pc = "publishing", !.attempt = s.attempt + 1, !.at = now,
             !.event = [type |-> "request", payment |-> p, n |-> s.attempt + 1,
                        created |-> created]]]
  BY DEF Send
<1> DEFINE e == [type |-> "request", payment |-> p, n |-> s.attempt + 1, created |-> created]
           new == [NoSend EXCEPT !.pc = "publishing", !.attempt = s.attempt + 1, !.at = now,
                                 !.event = e]
<1>2. s \in Sends /\ s.attempt \in Nat /\ now \in Nat
  BY DEF NostrTypeOK, Sends
<1>3. created \in Nat /\ s.attempt + 1 \in Nat
  BY <1>2, TimesAreNat
<1> HIDE DEF s
<1>4. e \in RequestEvents /\ e.payment = p /\ e.n = s.attempt + 1
  BY <1>3 DEF RequestEvents
<1> HIDE DEF e
<1>5. new.pc = "publishing" /\ new.attempt = s.attempt + 1 /\ new.event = e
  BY DEF NoSend
<1>6. sender' = [sender EXCEPT ![p] = new]
  BY <1>1 DEF e, s
<1> HIDE DEF new
<1>7. sender'[p] = new /\ \A q \in Payments \ {p} : sender'[q] = sender[q]
  BY <1>6 DEF NostrTypeOK
<1>8. UNCHANGED <<now, relay, partition, receiverVars>>
  BY DEF Send
<1> QED BY <1>4, <1>5, <1>7, <1>8 DEF s

LEMMA GotVouchedNext ==
  ASSUME NostrTypeOK, StoredVouched, GotVouched, NostrNext \/ UNCHANGED nostrVars
  PROVE  GotVouched'
<1> SUFFICES ASSUME NEW p \in Payments, sender'[p].pc = "receipt"
             PROVE  Vouched(p, sender[p].got)'
  BY DEF GotVouched
<1>1. CASE sender'[p] = sender[p]
  <2>1. Vouched(p, sender[p].got)
    BY <1>1 DEF GotVouched
  <2>2. \A status : Vouched(p, status) => Vouched(p, status)'
    BY LedgerAdvances, StaysVouched
  <2> QED BY <1>1, <2>1, <2>2 DEF Vouched
<1>2. ASSUME NEW q \in Payments, Send(q) PROVE sender'[p] = sender[p]
  <2>1. sender'[q].pc = "publishing" /\ \A o \in Payments \ {q} : sender'[o] = sender[o]
    BY <1>2, SendEffect
  <2> QED BY <2>1
<1>3. ASSUME NEW q \in Payments, NEW r \in Relays, PublishRequest(q, r) PROVE sender'[p] = sender[p]
  <2>1. PICK heard \in {"accepted", "rejected", "nothing"} : Noted(q, r, heard)
    BY <1>3, PublishRequestEffect
  <2> QED BY <2>1 DEF Noted
<1>4. ASSUME NEW q \in Payments, PollReceipt(q)
      PROVE  sender'[p] = sender[p] \/ Vouched(p, sender[p].got)'
  <2>1. CASE q # p
    BY <1>4, <2>1, PollReceiptEffect
  <2>2. CASE q = p
    <3>1. /\ \E r \in Relays : \E f \in relay[r] :
               f.type = "receipt" /\ f.payment = p /\ f.status = sender'[p].got
          /\ UNCHANGED receiverVars
      BY <1>4, <2>2, PollReceiptEffect
    <3>2. \E status : Vouched(p, status) /\ status = sender'[p].got
      BY <3>1 DEF StoredVouched
    <3>3. ledger' = ledger
      BY <3>1 DEF receiverVars
    <3> QED BY <3>2, <3>3 DEF Vouched
  <2> QED BY <2>1, <2>2
<1>5. sender' = sender => sender'[p] = sender[p]
  OBVIOUS
<1> QED BY <1>1, <1>2, <1>3, <1>4, <1>5, SenderCases
-----------------------------------------------------------------------------
(* A sender knows where its event is not.                                    *)

\* A request for a payment comes to a relay only when its sender publishes it.
LEMMA RequestAdds ==
  ASSUME NostrTypeOK, CurrentVouched, SendersOK, NostrNext \/ UNCHANGED nostrVars,
         NEW p \in Payments, NEW q \in Relays, NEW f \in relay'[q], f \notin relay[q],
         f.type = "request", f.payment = p
  PROVE  f = sender[p].event /\ PublishRequest(p, q)
<1>1. \/ \E o \in Payments, r \in Relays : PublishRequest(o, r)
      \/ \E r \in Relays : PublishReceipt(r) \/ PublishStray(r)
  BY DEF NostrNext, nostrVars, SetPartition, ClearPartition, Tick, Send, PollReceipt, EndDelivery,
     StartPoll, Collect, SkipEvent, Accept, EndPoll, Restart, QueryRelay, receiverVars
<1>2. ASSUME NEW o \in Payments, NEW r \in Relays, PublishRequest(o, r)
      PROVE  f = sender[p].event /\ PublishRequest(p, q)
  <2>1. PICK heard \in {"accepted", "rejected", "nothing"} : Noted(o, r, heard)
    BY <1>2, PublishRequestEffect
  <2>2. EventOK(o) /\ sender[o].pc = "publishing" /\ Publish(r, sender[o].event, heard)
    BY <2>1 DEF SendersOK, Noted
  <2>3. sender[o].event \in RequestEvents /\ sender[o].event.payment = o
    BY <2>2 DEF EventOK
  <2>4. q = r /\ f = sender[o].event
    BY <2>2, <2>3, PublishEffect, Grown
  <2> QED BY <1>2, <2>3, <2>4
<1>3. ASSUME NEW r \in Relays, PublishReceipt(r) PROVE FALSE
  <2>1. poll.pc = "publishing" /\ poll.current \in ReceiptEvents
    BY <1>3 DEF PublishReceipt, CurrentVouched
  <2>2. PICK heard \in {"accepted", "rejected", "nothing"} : Publish(r, poll.current, heard)
    BY <1>3 DEF PublishReceipt
  <2>3. f = poll.current
    BY <2>1, <2>2, PublishEffect, Grown
  <2> QED BY <2>1, <2>3 DEF ReceiptEvents
<1>4. ASSUME NEW r \in Relays, PublishStray(r) PROVE FALSE
  <2>1. PICK stray \in {Unreadable, Misattributed} :
          relay' = [relay EXCEPT ![r] = @ \cup
                      {[type |-> "request", payment |-> stray, n |-> 1, created |-> now]}]
    BY <1>4 DEF PublishStray
  <2> DEFINE e == [type |-> "request", payment |-> stray, n |-> 1, created |-> now]
  <2>2. e \in RequestEvents /\ e.payment = stray
    BY DEF RequestEvents, NostrTypeOK
  <2> HIDE DEF e
  <2>3. relay' = [relay EXCEPT ![r] = @ \cup {e}]
    BY <2>1 DEF e
  <2>4. f = e
    BY <2>2, <2>3, Grown
  <2> QED BY <2>2, <2>4, NostrAssumption
<1> QED BY <1>1, <1>2, <1>3, <1>4

\* What becomes of one sender's record, whoever moves.
LEMMA OneSender ==
  ASSUME NostrTypeOK, NostrNext \/ UNCHANGED nostrVars, NEW p \in Payments
  PROVE  \/ sender'[p] = sender[p]
         \/ Send(p) \/ PollReceipt(p)
         \/ \E r \in Relays : PublishRequest(p, r)
<1>1. ASSUME NEW q \in Payments \ {p}, Send(q) PROVE sender'[p] = sender[p]
  BY <1>1, SendEffect
<1>2. ASSUME NEW q \in Payments \ {p}, PollReceipt(q) PROVE sender'[p] = sender[p]
  BY <1>2, PollReceiptEffect
<1>3. ASSUME NEW q \in Payments \ {p}, NEW r \in Relays, PublishRequest(q, r)
      PROVE  sender'[p] = sender[p]
  <2>1. PICK heard \in {"accepted", "rejected", "nothing"} : Noted(q, r, heard)
    BY <1>3, PublishRequestEffect
  <2> QED BY <2>1 DEF Noted
<1> QED BY <1>1, <1>2, <1>3, SenderCases

LEMMA NumberedNext ==
  ASSUME NostrTypeOK, CurrentVouched, SendersOK, NostrNext \/ UNCHANGED nostrVars,
         NEW p \in Payments
  PROVE  Numbered(p)'
<1>1. sender[p].attempt \in Nat /\ Numbered(p) /\ EventOK(p)
  BY DEF NostrTypeOK, Sends, SendersOK
<1>2. sender'[p].attempt \in {sender[p].attempt, sender[p].attempt + 1}
  <2>1. ASSUME NEW r \in Relays, PublishRequest(p, r)
        PROVE  sender'[p].attempt = sender[p].attempt
    <3>1. PICK heard \in {"accepted", "rejected", "nothing"} : Noted(p, r, heard)
      BY <2>1, PublishRequestEffect
    <3> QED BY <3>1 DEF Noted
  <2>2. CASE Send(p)
    BY <2>2, SendEffect
  <2>3. CASE PollReceipt(p)
    BY <2>3, PollReceiptEffect
  <2> QED BY <2>1, <2>2, <2>3, OneSender
<1>3. ASSUME NEW r \in Relays, NEW e \in relay'[r], e.type = "request", e.payment = p
      PROVE  e.n \in Nat /\ e.n <= sender[p].attempt
  <2>1. CASE e \in relay[r]
    <3>1. e \in RequestEvents
      BY <1>3, <2>1 DEF NostrTypeOK, ReceiptEvents
    <3>2. e.n <= sender[p].attempt
      BY <1>1, <1>3, <2>1 DEF Numbered
    <3> QED BY <3>1, <3>2 DEF RequestEvents
  <2>2. CASE e \notin relay[r]
    <3>1. e = sender[p].event /\ PublishRequest(p, r)
      BY <1>3, <2>2, RequestAdds
    <3>2. sender[p].pc = "publishing"
      BY <3>1 DEF PublishRequest
    <3>3. e.n = sender[p].attempt
      BY <1>1, <3>1, <3>2 DEF EventOK
    <3> QED BY <1>1, <3>3
  <2> QED BY <2>1, <2>2
<1>4. ASSUME NEW n \in Nat, n <= sender[p].attempt PROVE n <= sender'[p].attempt
  BY <1>1, <1>2, <1>4
<1> QED BY <1>3, <1>4 DEF Numbered
LEMMA AbsentNext ==
  ASSUME NostrTypeOK, CurrentVouched, SendersOK, NostrNext \/ UNCHANGED nostrVars,
         NEW p \in Payments
  PROVE  AbsentOK(p)'
<1> SUFFICES ASSUME sender'[p].pc # "idle", NEW r \in Relays,
                    sender'[p].heard[r] \in {"pending", "rejected"}
             PROVE  sender'[p].event \notin relay'[r]
  BY DEF AbsentOK
<1>0. /\ Numbered(p) /\ EventOK(p) /\ AbsentOK(p)
      /\ sender[p].heard \in [Relays -> {"pending", "accepted", "rejected", "nothing"}]
      /\ sender[p].attempt \in Nat
  BY DEF SendersOK, NostrTypeOK, Sends
<1>1. CASE Send(p)
  <2>1. /\ sender'[p].event.payment = p /\ sender'[p].event.n = sender[p].attempt + 1
        /\ sender'[p].event \in RequestEvents /\ relay' = relay
    BY <1>1, SendEffect
  <2>2. sender'[p].event.type = "request"
    BY <2>1 DEF RequestEvents
  <2>3. ~ (sender[p].attempt + 1 <= sender[p].attempt)
    BY <1>0
  <2> QED BY <1>0, <2>1, <2>2, <2>3 DEF Numbered
<1>2. CASE PollReceipt(p)
  <2>1. /\ sender'[p].event = sender[p].event /\ sender'[p].heard = sender[p].heard
        /\ sender[p].pc = "polling" /\ relay' = relay
    BY <1>2, PollReceiptEffect
  <2> QED BY <1>0, <2>1 DEF AbsentOK
<1>3. ASSUME NEW q \in Relays, PublishRequest(p, q) PROVE sender'[p].event \notin relay'[r]
  <2>1. PICK heard \in {"accepted", "rejected", "nothing"} : Noted(p, q, heard)
    BY <1>3, PublishRequestEffect
  <2>2. /\ sender[p].pc = "publishing" /\ Publish(q, sender[p].event, heard)
        /\ sender'[p].event = sender[p].event
        /\ sender'[p].heard = [sender[p].heard EXCEPT ![q] = heard]
    BY <2>1 DEF Noted
  <2>3. CASE q = r
    <3>1. heard = "rejected"
      BY <1>0, <2>2, <2>3
    <3> QED BY <2>2, <2>3, <3>1, PublishEffect
  <2>4. CASE q # r
    <3>1. sender[p].heard[r] \in {"pending", "rejected"}
      BY <1>0, <2>2, <2>4
    <3>2. sender[p].event \notin relay[r]
      BY <1>0, <2>2, <3>1 DEF AbsentOK
    <3>3. relay'[r] = relay[r]
      BY <2>2, <2>4, PublishEffect DEF NostrTypeOK
    <3> QED BY <2>2, <3>2, <3>3
  <2> QED BY <2>3, <2>4
<1>4. CASE sender'[p] = sender[p]
  <2>1. sender[p].event \notin relay[r]
    BY <1>0, <1>4 DEF AbsentOK
  <2>2. /\ sender[p].event.type = "request" /\ sender[p].event.payment = p
    BY <1>0, <1>4 DEF EventOK, RequestEvents
  <2>3. CASE sender[p].event \in relay'[r]
    <3>1. PublishRequest(p, r)
      BY <2>1, <2>2, <2>3, RequestAdds
    <3> QED BY <1>3, <3>1
  <2> QED BY <1>4, <2>3
<1> QED BY <1>1, <1>2, <1>3, <1>4, OneSender

LEMMA SendersNext ==
  ASSUME NostrTypeOK, CurrentVouched, SendersOK, NostrNext \/ UNCHANGED nostrVars
  PROVE  SendersOK'
<1> SUFFICES ASSUME NEW p \in Payments PROVE EventOK(p)' /\ FailureOK(p)'
  BY NumberedNext, AbsentNext DEF SendersOK
<1>0. EventOK(p) /\ FailureOK(p)
  BY DEF SendersOK
<1>1. CASE sender'[p] = sender[p]
  BY <1>0, <1>1 DEF EventOK, FailureOK
<1>2. CASE Send(p)
  BY <1>2, SendEffect DEF EventOK, FailureOK
<1>3. CASE PollReceipt(p)
  <2>1. EventOK(p)'
    BY <1>0, <1>3, PollReceiptEffect DEF EventOK
  <2>2. FailureOK(p)'
    BY <1>3, PollReceiptEffect DEF FailureOK
  <2> QED BY <2>1, <2>2
<1>4. ASSUME NEW r \in Relays, PublishRequest(p, r) PROVE EventOK(p)' /\ FailureOK(p)'
  <2>1. PICK heard \in {"accepted", "rejected", "nothing"} : Noted(p, r, heard)
    BY <1>4, PublishRequestEffect
  <2>2. EventOK(p)'
    BY <1>0, <2>1 DEF EventOK, Noted
  <2>3. FailureOK(p)'
    BY <2>1 DEF FailureOK, Noted
  <2> QED BY <2>2, <2>3
<1> QED BY <1>1, <1>2, <1>3, <1>4, OneSender

-----------------------------------------------------------------------------
(* A request that counts as processed is done with.                          *)

LEMMA StaysDone ==
  ASSUME NostrTypeOK, CurrentVouched, SendersOK, NostrNext \/ UNCHANGED nostrVars,
         NEW e \in RequestEvents, Done(e)
  PROVE  Done(e)'
<1>1. CASE ~ Unwraps(e)
  BY <1>1 DEF Done, Unwraps, Readable
<1>2. CASE Receipted(e)
  BY <1>2, RelayAdds DEF Done, Receipted
<1>3. CASE Unwraps(e) /\ Ended(e)
  <2>1. e.payment \in Payments
    BY <1>3 DEF Unwraps, Readable, RequestEvents
  <2>2. ASSUME NEW kind, EndedBy(e, kind) PROVE EndedBy(e, kind)'
    BY <2>2, RefusalsStay DEF EndedBy
  <2>3. ~ Unexpired(e.payment) => ~ Unexpired(e.payment)'
    <3>1. ExpiresAt[e.payment] \in Nat /\ now \in Nat
      BY <2>1, NostrAssumption DEF NostrTypeOK
    <3> QED BY <3>1, RefusalsStay DEF Unexpired
  <2>4. Ended(e)'
    BY <1>3, <2>2, <2>3 DEF Ended
  <2> QED BY <2>4 DEF Done
<1> QED BY <1>1, <1>2, <1>3 DEF Done

LEMMA KeptNext ==
  ASSUME NostrTypeOK, CurrentVouched, SendersOK, KeptOK, NostrNext \/ UNCHANGED nostrVars
  PROVE  KeptOK'
<1>0. \A q \in Relays : relay[q] \subseteq relay'[q]
  BY RelayAdds
<1>1. CASE poll'.pc = poll.pc /\ poll'.answered = poll.answered /\ poll'.current = poll.current
  BY <1>0, <1>1 DEF KeptOK
<1>2. CASE StartPoll
  BY <1>2, StartTypes DEF KeptOK
<1>3. CASE EndPoll \/ Restart
  <2>1. poll'.pc = "idle"
    BY <1>3, FreshRecords DEF EndPoll, Restart
  <2> QED BY <2>1 DEF KeptOK
<1>4. ASSUME NEW r \in Relays, QueryRelay(r) PROVE KeptOK'
  <2>1. /\ poll'.pc = "querying" /\ poll.pc = "querying"
        /\ \A q \in Relays : poll'.answered[q] \in {poll.answered[q], "yes", "failed"}
    BY <1>4, QueryTypes
  <2> QED BY <2>1 DEF KeptOK
<1>5. CASE Collect
  <2>1. /\ poll'.pc \in {"idle", "processing"}
        /\ poll'.pc = "processing" => poll'.answered = poll.answered
    BY <1>5, CollectTypes
  <2>2. poll.pc = "querying" /\ \A r \in Relays : poll.answered[r] # "no"
    BY <1>5 DEF Collect
  <2>3. \A r \in Relays : poll.answered[r] \in {"yes", "failed"}
    BY <2>2 DEF KeptOK
  <2> QED BY <2>1, <2>3 DEF KeptOK
<1>6. CASE SkipEvent
  <2>1. PICK e \in poll.found : poll' = [poll EXCEPT !.found = @ \ {e}]
    BY <1>6 DEF SkipEvent
  <2> QED BY <1>1, <2>1, FoundTypes
<1>7. CASE Accept
  <2>1. PICK e \in RequestEvents :
          /\ e \in poll.found /\ e.payment \in Payments /\ poll.pc = "processing"
          /\ AcceptEvent(e) \/ LeaveEvent(e)
    BY <1>7, AcceptCases
  <2>2. CASE AcceptEvent(e)
    <3>1. poll'.pc = "publishing" /\ poll'.answered = poll.answered
      BY <2>1, <2>2, AcceptEventTypes
    <3> QED BY <2>1, <3>1 DEF KeptOK
  <2>3. CASE LeaveEvent(e)
    BY <1>1, <2>1, <2>3, LeaveEventEffect
  <2> QED BY <2>1, <2>2, <2>3
<1>8. ASSUME NEW r \in Relays, PublishReceipt(r) PROVE KeptOK'
  <2>1. poll.pc = "publishing" /\ poll.current \in ReceiptEvents
    BY <1>8 DEF PublishReceipt, CurrentVouched
  <2>2. PICK heard \in {"accepted", "rejected", "nothing"} : Advertised(r, heard)
    BY <1>8, <2>1, PublishReceiptEffect
  <2>3. CASE poll'.pc = "processing"
    <3>1. \A q \in Relays : poll'.answered[q] = "yes"
      BY <2>2, <2>3 DEF Advertised
    <3> QED BY <2>3, <3>1 DEF KeptOK
  <2>4. CASE poll'.pc = "publishing"
    <3>1. /\ poll'.answered = [poll.answered EXCEPT ![r] = heard]
          /\ poll'.current = poll.current /\ Publish(r, poll.current, heard)
      BY <2>2, <2>4 DEF Advertised
    <3>2. heard = "accepted" => poll.current \in relay'[r]
      BY <2>1, <3>1, PublishEffect, Grown
    <3>3. \A q \in Relays : poll'.answered[q] = IF q = r THEN heard ELSE poll.answered[q]
      BY <3>1 DEF NostrTypeOK, Polls
    <3>4. \A q \in Relays : poll'.answered[q] = "accepted" => poll'.current \in relay'[q]
      BY <1>0, <2>1, <3>1, <3>2, <3>3 DEF KeptOK
    <3> QED BY <2>4, <3>4 DEF KeptOK
  <2> QED BY <2>2, <2>3, <2>4 DEF Advertised
<1>9. \/ poll' = poll \/ StartPoll \/ EndPoll \/ Restart \/ Collect \/ SkipEvent \/ Accept
      \/ \E r \in Relays : QueryRelay(r) \/ PublishReceipt(r)
  BY DEF NostrNext, nostrVars, SetPartition, ClearPartition, Tick, Send, PollReceipt, EndDelivery,
     PublishRequest, PublishStray, receiverVars
<1> QED BY <1>1, <1>2, <1>3, <1>4, <1>5, <1>6, <1>7, <1>8, <1>9

LEMMA ProcessedNext ==
  ASSUME NostrTypeOK, CurrentVouched, SendersOK, ProcessedOK, KeptOK,
         NostrNext \/ UNCHANGED nostrVars
  PROVE  ProcessedOK'
<1>1. ASSUME NEW e \in processed PROVE Done(e)'
  BY StaysDone DEF ProcessedOK, NostrTypeOK
<1>2. CASE processed' \subseteq processed
  BY <1>1, <1>2 DEF ProcessedOK
<1>3. CASE SkipEvent
  <2>1. PICK e \in poll.found : ~ Unwraps(e) /\ processed' = processed \cup {e}
    BY <1>3 DEF SkipEvent
  <2>2. Done(e)'
    BY <2>1 DEF Done, Unwraps, Readable
  <2> QED BY <1>1, <2>1, <2>2 DEF ProcessedOK
<1>4. CASE Accept
  <2>1. PICK e \in RequestEvents :
          /\ e \in poll.found /\ e.payment \in Payments /\ poll.pc = "processing"
          /\ AcceptEvent(e) \/ LeaveEvent(e)
          /\ now' = now
    BY <1>4, AcceptCases
  <2>2. CASE AcceptEvent(e)
    BY <1>2, <2>2 DEF AcceptEvent
  <2>3. CASE LeaveEvent(e) /\ processed' # processed
    <3>1. /\ processed' = processed \cup {e}
          /\ \/ EndedBy(e, "expired")' /\ ~ Unexpired(e.payment)
             \/ EndedBy(e, "refused")' \/ EndedBy(e, "failed")'
      BY <2>1, <2>3, LeaveEventEffect
    <3>2. ~ Unexpired(e.payment) => ~ Unexpired(e.payment)'
      BY <2>1 DEF Unexpired
    <3>3. Ended(e)'
      BY <3>1, <3>2 DEF Ended
    <3> QED BY <1>1, <3>1, <3>3 DEF ProcessedOK, Done
  <2> QED BY <1>2, <2>1, <2>2, <2>3
<1>5. ASSUME NEW r \in Relays, PublishReceipt(r) PROVE ProcessedOK'
  <2>1. poll.pc = "publishing" /\ poll.current \in ReceiptEvents
    BY <1>5 DEF PublishReceipt, CurrentVouched
  <2>2. PICK heard \in {"accepted", "rejected", "nothing"} : Advertised(r, heard)
    BY <1>5, <2>1, PublishReceiptEffect
  <2> DEFINE all == [poll.answered EXCEPT ![r] = heard]
  <2>3. CASE processed' = processed
    BY <1>2, <2>3
  <2>4. CASE Answered(all) /\ processed' = processed \cup {poll.current.to}
    <3>1. PICK q \in Relays : all[q] = "accepted"
      BY <2>4 DEF Answered
    <3>2. Publish(r, poll.current, heard)
      BY <2>2 DEF Advertised
    <3>3. heard = "accepted" => poll.current \in relay'[r]
      BY <2>1, <3>2, PublishEffect, Grown
    <3>4. (q = r /\ heard = "accepted") \/ poll.answered[q] = "accepted"
      BY <3>1 DEF NostrTypeOK, Polls
    <3>5. poll.current \in relay'[r] \/ poll.current \in relay'[q]
      BY <2>1, <3>3, <3>4, RelayAdds DEF KeptOK
    <3>6. poll.current.type = "receipt"
      BY <2>1 DEF ReceiptEvents
    <3>7. \A e : e = poll.current.to => Done(e)'
      BY <3>5, <3>6 DEF Receipted, Done
    <3> QED BY <1>1, <2>4, <3>7 DEF ProcessedOK
  <2> QED BY <2>2, <2>3, <2>4 DEF Advertised
<1>6. \/ processed' \subseteq processed \/ SkipEvent \/ Accept
      \/ \E r \in Relays : PublishReceipt(r)
  BY DEF NostrNext, nostrVars, SetPartition, ClearPartition, Tick, Send, PollReceipt, EndDelivery,
     PublishRequest, PublishStray, StartPoll, EndPoll, Restart, Collect, QueryRelay, receiverVars
<1> QED BY <1>2, <1>3, <1>4, <1>5, <1>6

-----------------------------------------------------------------------------
LEMMA NostrInitInv == NostrInit => NostrInv
<1> SUFFICES ASSUME NostrInit PROVE NostrInv
  OBVIOUS
<1>1. NoSend.pc = "idle"
  BY DEF NoSend
<1>2. NostrTypeOK
  BY FreshRecords, NostrAssumption DEF NostrInit, NostrTypeOK
<1>3. \A p \in Payments : sender[p].pc = "idle"
  BY <1>1 DEF NostrInit
<1>4. \A r \in Relays : relay[r] = {}
  BY DEF NostrInit
<1>5. poll.pc = "idle" /\ processed = {}
  BY FreshRecords DEF NostrInit
<1>6. StoredVouched /\ CurrentVouched /\ GotVouched
  BY <1>3, <1>4, <1>5 DEF StoredVouched, CurrentVouched, GotVouched
<1>7. SendersOK
  BY <1>3, <1>4 DEF SendersOK, Numbered, EventOK, AbsentOK, FailureOK
<1>8. ProcessedOK /\ KeptOK
  BY <1>5 DEF ProcessedOK, KeptOK
<1> QED BY <1>2, <1>6, <1>7, <1>8 DEF NostrInv

LEMMA NostrInvNext == NostrInv /\ [NostrNext]_nostrVars => NostrInv'
<1> SUFFICES ASSUME NostrInv, NostrNext \/ UNCHANGED nostrVars PROVE NostrInv'
  OBVIOUS
<1>1. /\ NostrTypeOK /\ StoredVouched /\ CurrentVouched /\ GotVouched /\ SendersOK
      /\ ProcessedOK /\ KeptOK
  BY DEF NostrInv
<1> QED BY <1>1, NostrTypeNext, StoredVouchedNext, CurrentVouchedNext, GotVouchedNext, SendersNext,
           ProcessedNext, KeptNext DEF NostrInv

\* Over Nostr the two sides do not mislead each other, whatever relays drop,
\* refuse or withhold, and however often the receiver restarts: a receipt the
\* sender reports is one the receiver's ledger stands behind, a send reported as
\* refused by every relay left nothing behind, and a request the receiver will
\* not look at again is void or has a receipt some relay keeps, unless its
\* payload has expired, accepted before or not, or it was refused or failed for
\* good (NostrPaymentTransport.send, CashuTsNostrReceiver.#process).
THEOREM NostrOutcomeHolds == NostrSpec => []NostrOutcomeIsHonest
<1>1. NostrInv => NostrOutcomeIsHonest
  <2> SUFFICES ASSUME NostrInv PROVE NostrOutcomeIsHonest
    OBVIOUS
  <2>1. ASSUME NEW p \in Payments, sender[p].pc = "receipt"
        PROVE  \/ sender[p].got = ledger[p]
               \/ sender[p].got = "pending" /\ ledger[p] \in Final
    BY <2>1 DEF NostrInv, GotVouched, Vouched, Final
  <2>2. ASSUME NEW p \in Payments, sender[p].pc = "permanent_failure"
        PROVE  Request(p) \notin Stored
    <3>1. AbsentOK(p) /\ FailureOK(p)
      BY DEF NostrInv, SendersOK
    <3>2. \A r \in Relays : sender[p].event \notin relay[r]
      BY <2>2, <3>1 DEF AbsentOK, FailureOK
    <3> QED BY <3>2 DEF Request, Stored
  <2>3. ASSUME NEW e \in processed
        PROVE  \/ ~ Unwraps(e)
               \/ \E f \in Stored : f.type = "receipt" /\ f.to = e
               \/ EndedBy(e, "expired") /\ ~ Unexpired(e.payment)
               \/ EndedBy(e, "refused") \/ EndedBy(e, "failed")
    BY DEF NostrInv, ProcessedOK, Done, Receipted, Ended, Stored
  <2> QED BY <2>1, <2>2, <2>3 DEF NostrOutcomeIsHonest
<1> QED BY <1>1, NostrInitInv, NostrInvNext, PTL DEF NostrSpec
=============================================================================
