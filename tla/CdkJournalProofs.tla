-------------------------- MODULE CdkJournalProofs --------------------------
(***************************************************************************)
(* The journal of the CDK adapter, for any number of operations, engine    *)
(* processes, requests, lease expiries, crashes and resets: one operation  *)
(* at a time changes the wallet, and a terminal phase stays.               *)
(*                                                                         *)
(* The argument looks at the claims and the phases of the rows, at the     *)
(* operation that holds the barrier, and at the operation, the token and   *)
(* the position of each run_owned frame.  What else rows, frames and       *)
(* engines hold is left open: it is in some set V.                         *)
(***************************************************************************)
EXTENDS CdkLifecycle, TLAPS, SequenceTheorems

USE ZenonT(10), SMTT(15), Z3T(15)

Claims == [owner : Processes \cup {NoOne}, token : Nat, live : BOOLEAN]
RowSet(V) == [phase : V, plan : V, unverified : V, via : V, claim : Claims]
FrameSet(V) == [op : CdkOps, token : Nat, rec : V, pc : V, gen : V, res : V]
EngineSet(V) == [wallet : V, reset : V, token : Nat, next : Int, previous : V]

RowsTyped == \E V : rows \in [CdkOps -> RowSet(V)]
StackTyped == \E V : stack \in [Workers -> Seq(FrameSet(V))]
EngineTyped == \E V : engine \in [Processes -> EngineSet(V)]

JournalTypeOK ==
    /\ setup \in Setups
    /\ RowsTyped /\ StackTyped /\ EngineTyped
    /\ barrier \in [op : CdkOps \cup {NoOp}, claim : Claims]
    /\ resetClaim \in Claims
    /\ fence \in Nat /\ active \in Int

-----------------------------------------------------------------------------
(* Records and stacks.                                                       *)

LEMMA FrameSetGrows ==
  ASSUME NEW V, NEW W, V \subseteq W
  PROVE  /\ FrameSet(V) \subseteq FrameSet(W)
         /\ Seq(FrameSet(V)) \subseteq Seq(FrameSet(W))
<1>1. FrameSet(V) \subseteq FrameSet(W)
  BY DEF FrameSet
<1> QED BY <1>1

\* Two stacks have the same n frames at the bottom.
SameBelow(n, t, s) == \A i \in 1 .. n : t[i] = s[i]

\* The top of a stack is replaced.
Retop(s, f) == Front(s) \o <<f>>

LEMMA Retopped ==
  ASSUME NEW S, NEW s \in Seq(S), Len(s) # 0, NEW f \in S
  PROVE  /\ Retop(s, f) \in Seq(S) /\ Len(Retop(s, f)) = Len(s) /\ Retop(s, f)[Len(s)] = f
         /\ SameBelow(Len(s) - 1, Retop(s, f), s)
  BY DEF Retop, Front, SameBelow

\* A stack of two or more frames, and its front.
LEMMA FrontOfStack ==
  ASSUME NEW S, NEW s \in Seq(S), Len(s) # 0
  PROVE  /\ Front(s) \in Seq(S) /\ Len(Front(s)) = Len(s) - 1
         /\ SameBelow(Len(s) - 1, Front(s), s)
         /\ Len(s) # 1 => Len(Front(s)) # 0
<1> DEFINE n == Len(s) - 1
<1>1. /\ Len(s) \in Nat \ {0} /\ n \in Int /\ 1 \in Int
      /\ \A i \in 1 .. n : s[i] \in S
  OBVIOUS
<1>2. /\ SubSeq(s, 1, n) \in Seq(S)
      /\ Len(SubSeq(s, 1, n)) = IF 1 <= n THEN n - 1 + 1 ELSE 0
      /\ \A i \in 1 .. n - 1 + 1 : SubSeq(s, 1, n)[i] = s[1 + i - 1]
  <2> HIDE DEF n
  <2> QED BY <1>1, SubSeqProperties
<1>3. /\ Front(s) \in Seq(S) /\ Len(Front(s)) = Len(s) - 1
      /\ SameBelow(Len(s) - 1, Front(s), s)
  <2>1. Front(s) = SubSeq(s, 1, n)
    BY DEF Front
  <2>2. n \in Nat
    BY <1>1
  <2> HIDE DEF n
  <2>3. /\ (IF 1 <= n THEN n - 1 + 1 ELSE 0) = n /\ n - 1 + 1 = n
        /\ \A i \in 1 .. n : 1 + i - 1 = i
    BY <2>2
  <2>4. /\ Front(s) \in Seq(S) /\ Len(Front(s)) = n
        /\ SameBelow(n, Front(s), s)
    BY <1>2, <2>1, <2>3 DEF SameBelow
  <2> QED BY <2>4 DEF n
<1>4. Len(s) # 1 => Len(Front(s)) # 0
  BY <1>1, <1>3
<1> QED BY <1>3, <1>4

\* A step of worker w that leaves its frames in place and gives the top one a pc.
Moved(w, pc) ==
    /\ \A v \in Workers \ {w} : stack'[v] = stack[v]
    /\ Len(stack'[w]) = Len(stack[w])
    /\ SameBelow(Len(stack[w]) - 1, stack'[w], stack[w])
    /\ LET f == stack'[w][Len(stack[w])]
       IN  f.op = Top(w).op /\ f.token = Top(w).token /\ f.pc = pc

LEMMA TopMovesTo ==
  ASSUME StackTyped, NEW w \in Workers, stack[w] # <<>>, NEW U, NEW g \in FrameSet(U),
         g.op = Top(w).op, g.token = Top(w).token, SetTop(w, g)
  PROVE  StackTyped' /\ Moved(w, g.pc)
<1>1. PICK V : stack \in [Workers -> Seq(FrameSet(V))]
  BY DEF StackTyped
<1> DEFINE W == V \cup U
           t == Retop(stack[w], g)
<1>2. stack \in [Workers -> Seq(FrameSet(W))]
  <2>1. Seq(FrameSet(V)) \subseteq Seq(FrameSet(W))
    BY FrameSetGrows
  <2> QED BY <1>1, <2>1
<1>3. g \in FrameSet(W)
  BY FrameSetGrows
<1> HIDE DEF W
<1>4. stack[w] \in Seq(FrameSet(W)) /\ Len(stack[w]) # 0
  BY <1>2
<1>5. stack' = [stack EXCEPT ![w] = t]
  BY DEF SetTop, Retop
<1>6. /\ t \in Seq(FrameSet(W)) /\ Len(t) = Len(stack[w]) /\ t[Len(stack[w])] = g
      /\ SameBelow(Len(stack[w]) - 1, t, stack[w])
  BY <1>3, <1>4, Retopped
<1> HIDE DEF t
<1>7. stack' \in [Workers -> Seq(FrameSet(W))] /\ stack'[w] = t
  BY <1>2, <1>5, <1>6
<1>8. \A v \in Workers \ {w} : stack'[v] = stack[v]
  BY <1>2, <1>5
<1> QED BY <1>6, <1>7, <1>8 DEF StackTyped, Moved

LEMMA TopIsFrame ==
  ASSUME StackTyped, NEW w \in Workers, stack[w] # <<>>
  PROVE  \E V : Top(w) \in FrameSet(V)
<1>1. PICK V : stack \in [Workers -> Seq(FrameSet(V))]
  BY DEF StackTyped
<1>2. stack[w] \in Seq(FrameSet(V))
  BY <1>1
<1>3. Len(stack[w]) \in 1 .. Len(stack[w])
  BY <1>2
<1> QED BY <1>2, <1>3 DEF Top, Last

\* The frame fields a step of a worker changes.
LEMMA TopMoves ==
  ASSUME StackTyped, NEW w \in Workers, stack[w] # <<>>, NEW pc, NEW gen, NEW res,
         \/ SetTop(w, [Top(w) EXCEPT !.pc = pc])
         \/ SetTop(w, [Top(w) EXCEPT !.pc = pc, !.res = res])
         \/ SetTop(w, [Top(w) EXCEPT !.pc = pc, !.gen = gen])
         \/ SetTop(w, [Top(w) EXCEPT !.gen = gen, !.pc = pc])
         \/ SetTop(w, [Top(w) EXCEPT !.pc = pc, !.gen = gen, !.res = res])
  PROVE  StackTyped' /\ Moved(w, pc)
<1> DEFINE f == Top(w)
           g1 == [f EXCEPT !.pc = pc]
           g2 == [f EXCEPT !.pc = pc, !.res = res]
           g3 == [f EXCEPT !.pc = pc, !.gen = gen]
           g4 == [f EXCEPT !.gen = gen, !.pc = pc]
           g5 == [f EXCEPT !.pc = pc, !.gen = gen, !.res = res]
<1>1. PICK V : f \in FrameSet(V)
  BY TopIsFrame
<1>2. PICK g \in {g1, g2, g3, g4, g5} : SetTop(w, g)
  OBVIOUS
<1> DEFINE W == V \cup {pc, gen, res}
<1> HIDE DEF f
<1>3. /\ g1 \in FrameSet(W) /\ g1.op = f.op /\ g1.token = f.token /\ g1.pc = pc
      /\ g2 \in FrameSet(W) /\ g2.op = f.op /\ g2.token = f.token /\ g2.pc = pc
      /\ g3 \in FrameSet(W) /\ g3.op = f.op /\ g3.token = f.token /\ g3.pc = pc
      /\ g4 \in FrameSet(W) /\ g4.op = f.op /\ g4.token = f.token /\ g4.pc = pc
      /\ g5 \in FrameSet(W) /\ g5.op = f.op /\ g5.token = f.token /\ g5.pc = pc
  BY <1>1 DEF FrameSet
<1> HIDE DEF g1, g2, g3, g4, g5, W
<1>4. g \in FrameSet(W) /\ g.op = f.op /\ g.token = f.token /\ g.pc = pc
  BY <1>2, <1>3
<1>5. StackTyped' /\ Moved(w, g.pc)
  BY <1>2, <1>4, TopMovesTo DEF f
<1> QED BY <1>4, <1>5

\* A step of worker w that leaves frames, the one below them going on to "finish".
Dropped(w) ==
    LET n == Len(stack'[w])
    IN  /\ \A v \in Workers \ {w} : stack'[v] = stack[v]
        /\ n \in 0 .. Len(stack[w]) - 1
        /\ SameBelow(n - 1, stack'[w], stack[w])
        /\ n # 0 => LET f == stack'[w][n]
                   IN  f.op = stack[w][n].op /\ f.token = stack[w][n].token /\ f.pc = "finish"

\* A stack is cut above frame n, and that frame replaced.
Cut(s, n, f) == SubSeq(s, 1, n - 1) \o <<f>>

LEMMA CutProperties ==
  ASSUME NEW S, NEW s \in Seq(S), NEW n \in 1 .. Len(s), NEW f \in S
  PROVE  /\ Cut(s, n, f) \in Seq(S) /\ Len(Cut(s, n, f)) = n /\ Cut(s, n, f)[n] = f
         /\ SameBelow(n - 1, Cut(s, n, f), s)
<1> DEFINE m == n - 1
           t == SubSeq(s, 1, m)
<1>1. m \in Nat /\ m <= Len(s) /\ n = m + 1 /\ m \in Int /\ 1 \in Int
  OBVIOUS
<1> HIDE DEF m
<1>2. \A i \in 1 .. m : s[i] \in S
  BY <1>1
<1>3. /\ t \in Seq(S) /\ Len(t) = IF 1 <= m THEN m - 1 + 1 ELSE 0
      /\ \A i \in 1 .. m - 1 + 1 : t[i] = s[1 + i - 1]
  BY <1>1, <1>2, SubSeqProperties
<1> HIDE DEF t
<1>4. Len(t) = m /\ \A i \in 1 .. m : t[i] = s[i]
  BY <1>1, <1>3
<1>5. Cut(s, n, f) = t \o <<f>>
  BY DEF Cut, t, m
<1>6. /\ t \o <<f>> \in Seq(S) /\ Len(t \o <<f>>) = m + 1 /\ (t \o <<f>>)[m + 1] = f
      /\ \A i \in 1 .. m : (t \o <<f>>)[i] = t[i]
  BY <1>1, <1>3, <1>4
<1>7. \A i \in 1 .. m : Cut(s, n, f)[i] = s[i]
  BY <1>4, <1>5, <1>6
<1> QED BY <1>1, <1>5, <1>6, <1>7 DEF SameBelow, m

LEMMA StackCut ==
  ASSUME StackTyped, NEW w \in Workers, NEW n \in 1 .. Len(stack[w]) - 1, NEW res,
         stack' = [stack EXCEPT ![w] =
                     Cut(stack[w], n, [stack[w][n] EXCEPT !.pc = "finish", !.res = res])]
  PROVE  StackTyped' /\ Dropped(w)
<1>1. PICK V : stack \in [Workers -> Seq(FrameSet(V))]
  BY DEF StackTyped
<1> DEFINE W == V \cup {"finish", res}
           f == stack[w][n]
           g == [f EXCEPT !.pc = "finish", !.res = res]
           t == Cut(stack[w], n, g)
<1>2. stack \in [Workers -> Seq(FrameSet(W))]
  <2>1. Seq(FrameSet(V)) \subseteq Seq(FrameSet(W))
    BY FrameSetGrows
  <2> QED BY <1>1, <2>1
<1>3. stack[w] \in Seq(FrameSet(V)) /\ stack[w] \in Seq(FrameSet(W))
  BY <1>1, <1>2
<1>4. n \in 1 .. Len(stack[w]) /\ n \in 0 .. Len(stack[w]) - 1 /\ n # 0
  BY <1>3
<1>5. f \in FrameSet(V)
  BY <1>3, <1>4
<1>6. stack' = [stack EXCEPT ![w] = t]
  OBVIOUS
<1> HIDE DEF f
<1>7. g \in FrameSet(W) /\ g.op = f.op /\ g.token = f.token /\ g.pc = "finish"
  BY <1>5 DEF FrameSet
<1> HIDE DEF W, g
<1>8. /\ t \in Seq(FrameSet(W)) /\ Len(t) = n /\ t[n] = g /\ SameBelow(n - 1, t, stack[w])
  BY <1>3, <1>4, <1>7, CutProperties
<1> HIDE DEF t
<1>9. /\ stack' \in [Workers -> Seq(FrameSet(W))] /\ stack'[w] = t
      /\ \A v \in Workers \ {w} : stack'[v] = stack[v]
  BY <1>2, <1>6, <1>8
<1> QED BY <1>4, <1>7, <1>8, <1>9 DEF StackTyped, Dropped, f

LEMMA StackEmptied ==
  ASSUME StackTyped, NEW w \in Workers, Len(stack[w]) # 0, stack' = [stack EXCEPT ![w] = <<>>]
  PROVE  StackTyped' /\ Dropped(w)
<1>1. PICK V : stack \in [Workers -> Seq(FrameSet(V))]
  BY DEF StackTyped
<1>2. <<>> \in Seq(FrameSet(V)) /\ Len(<<>>) = 0
  OBVIOUS
<1>3. /\ stack' \in [Workers -> Seq(FrameSet(V))] /\ stack'[w] = <<>>
      /\ \A v \in Workers \ {w} : stack'[v] = stack[v]
  BY <1>1, <1>2
<1>4. Len(stack[w]) \in Nat
  BY <1>1
<1>5. 0 \in 0 .. Len(stack[w]) - 1 /\ \A t, u : SameBelow(0 - 1, t, u)
  BY <1>4 DEF SameBelow
<1> QED BY <1>2, <1>3, <1>5 DEF StackTyped, Dropped

LEMMA LeaveEffect ==
  ASSUME StackTyped, NEW w \in Workers, stack[w] # <<>>, NEW phase, Leave(w, phase)
  PROVE  StackTyped' /\ Dropped(w)
<1> DEFINE s == stack[w]
           below == Front(s)
           n == Len(s) - 1
           res == <<TargetResult(phase)>>
<1>1. PICK V : stack \in [Workers -> Seq(FrameSet(V))]
  BY DEF StackTyped
<1>2. s \in Seq(FrameSet(V)) /\ Len(s) # 0
  BY <1>1
<1>3. CASE Len(s) = 1
  <2>1. stack' = [stack EXCEPT ![w] = <<>>]
    BY <1>3 DEF Leave
  <2> QED BY <1>2, <2>1, StackEmptied
<1>4. CASE Len(s) # 1
  <2>1. stack' = [stack EXCEPT ![w] = Front(below) \o <<[Last(below) EXCEPT !.pc = "finish",
                                                                          !.res = res]>>]
    BY <1>4 DEF Leave
  <2> HIDE DEF res
  <2>2. n \in 1 .. Len(s) - 1 /\ n \in Nat
    <3>1. Len(s) \in Nat
      BY <1>2
    <3>2. \A l \in Nat : l # 0 /\ l # 1 => l - 1 \in 1 .. l - 1 /\ l - 1 \in Nat
      OBVIOUS
    <3> QED BY <1>2, <1>4, <3>1, <3>2
  <2>3. Len(below) = n /\ SameBelow(n, below, s) /\ below \in Seq(FrameSet(V))
    BY <1>2, FrontOfStack
  <2>4. Last(below) = s[n]
    BY <2>2, <2>3 DEF Last, SameBelow
  <2>5. Front(below) = SubSeq(s, 1, n - 1)
    <3>1. Front(below) = SubSeq(below, 1, n - 1)
      BY <2>3 DEF Front
    <3>2. n - 1 \in Nat /\ \A i \in 1 .. n - 1 : below[i] = s[i]
      BY <2>2, <2>3 DEF SameBelow
    <3>3. SubSeq(below, 1, n - 1) = SubSeq(s, 1, n - 1)
      <4> HIDE DEF n, s, below
      <4> QED BY <3>2
    <3> QED BY <3>1, <3>3
  <2>6. stack' = [stack EXCEPT ![w] = Cut(s, n, [s[n] EXCEPT !.pc = "finish", !.res = res])]
    BY <2>1, <2>4, <2>5 DEF Cut
  <2> QED BY <2>2, <2>6, StackCut
<1> QED BY <1>3, <1>4

LEMMA ClaimLostEffect ==
  ASSUME StackTyped, NEW w \in Workers, ClaimLost(w)
  PROVE  StackTyped' /\ Dropped(w)
<1>1. PICK V : stack \in [Workers -> Seq(FrameSet(V))]
  BY DEF StackTyped
<1>2. stack[w] \in Seq(FrameSet(V))
  BY <1>1
<1>3. PICK i \in 1 .. Len(stack[w]) :
        stack' = [stack EXCEPT ![w] =
               IF i = 1 THEN <<>>
               ELSE SubSeq(@, 1, i - 2) \o <<[@[i - 1] EXCEPT !.pc = "finish",
                                                             !.res = <<Blocked>>]>>]
  BY DEF ClaimLost
<1>4. CASE i = 1
  <2>1. Len(stack[w]) # 0 /\ stack' = [stack EXCEPT ![w] = <<>>]
    BY <1>2, <1>3, <1>4
  <2> QED BY <2>1, StackEmptied
<1>5. CASE i # 1
  <2> DEFINE n == i - 1
             res == <<Blocked>>
  <2>1. n \in 1 .. Len(stack[w]) - 1 /\ i - 2 = n - 1
    BY <1>2, <1>5
  <2>2. stack' = [stack EXCEPT ![w] = SubSeq(stack[w], 1, i - 2) \o
                                <<[stack[w][n] EXCEPT !.pc = "finish", !.res = res]>>]
    BY <1>3, <1>5
  <2> HIDE DEF n, res
  <2>3. stack' = [stack EXCEPT ![w] =
                    Cut(stack[w], n, [stack[w][n] EXCEPT !.pc = "finish", !.res = res])]
    BY <2>1, <2>2 DEF Cut
  <2> QED BY <2>1, <2>3, StackCut
<1> QED BY <1>4, <1>5

\* A step that changes the row of o in its phase and in data, and not in its claim.
Rewritten(o, phase) ==
    /\ \A q \in CdkOps \ {o} : rows'[q] = rows[q]
    /\ rows'[o].phase = phase /\ rows'[o].claim = rows[o].claim

LEMMA RowUpdates ==
  ASSUME RowsTyped, NEW o \in CdkOps, NEW phase, NEW plan, NEW via, NEW unverified,
         \/ rows' = [rows EXCEPT ![o].phase = phase]
         \/ rows' = [rows EXCEPT ![o].phase = phase, ![o].plan = plan]
         \/ rows' = [rows EXCEPT ![o] = [@ EXCEPT !.phase = phase, !.via = via, !.plan = plan,
                                                 !.unverified = unverified]]
  PROVE  RowsTyped' /\ Rewritten(o, phase)
<1>1. PICK V : rows \in [CdkOps -> RowSet(V)]
  BY DEF RowsTyped
<1> DEFINE W == V \cup {phase, plan, via, unverified}
           r1 == [rows[o] EXCEPT !.phase = phase]
           r2 == [rows[o] EXCEPT !.phase = phase, !.plan = plan]
           r3 == [rows[o] EXCEPT !.phase = phase, !.via = via, !.plan = plan,
                                 !.unverified = unverified]
<1>2. rows[o] \in RowSet(V)
  BY <1>1
<1>3. \A r \in {r1, r2, r3} :
        r \in RowSet(W) /\ r.phase = phase /\ r.claim = rows[o].claim
  BY <1>2 DEF RowSet
<1>4. \E r \in {r1, r2, r3} : rows' = [rows EXCEPT ![o] = r]
  OBVIOUS
<1> HIDE DEF r1, r2, r3
<1>5. PICK r \in {r1, r2, r3} : rows' = [rows EXCEPT ![o] = r]
  BY <1>4
<1>6. rows \in [CdkOps -> RowSet(W)]
  <2>1. RowSet(V) \subseteq RowSet(W)
    BY DEF RowSet
  <2> QED BY <1>1, <2>1
<1> HIDE DEF W
<1>7. rows' \in [CdkOps -> RowSet(W)] /\ rows'[o] = r
      /\ \A q \in CdkOps \ {o} : rows'[q] = rows[q]
  BY <1>3, <1>5, <1>6
<1> QED BY <1>3, <1>7 DEF RowsTyped, Rewritten

\* A claim is taken, with the phase a first claim creates, or given up.
LEMMA ClaimUpdates ==
  ASSUME RowsTyped, NEW o \in CdkOps, NEW claim \in Claims, NEW phase,
         \/ rows' = [rows EXCEPT ![o].claim = claim]
         \/ rows' = [rows EXCEPT ![o].claim = claim, ![o].phase = phase]
  PROVE  /\ RowsTyped'
         /\ \A q \in CdkOps \ {o} : rows'[q] = rows[q]
         /\ rows'[o].claim = claim /\ rows'[o].phase \in {rows[o].phase, phase}
<1>1. PICK V : rows \in [CdkOps -> RowSet(V)]
  BY DEF RowsTyped
<1> DEFINE W == V \cup {phase}
           r1 == [rows[o] EXCEPT !.claim = claim]
           r2 == [rows[o] EXCEPT !.claim = claim, !.phase = phase]
<1>2. rows[o] \in RowSet(V)
  BY <1>1
<1>3. \A r \in {r1, r2} :
        r \in RowSet(W) /\ r.claim = claim /\ r.phase \in {rows[o].phase, phase}
  BY <1>2 DEF RowSet
<1>4. \E r \in {r1, r2} : rows' = [rows EXCEPT ![o] = r]
  OBVIOUS
<1> HIDE DEF r1, r2
<1>5. PICK r \in {r1, r2} : rows' = [rows EXCEPT ![o] = r]
  BY <1>4
<1>6. rows \in [CdkOps -> RowSet(W)]
  <2>1. RowSet(V) \subseteq RowSet(W)
    BY DEF RowSet
  <2> QED BY <1>1, <2>1
<1> HIDE DEF W
<1>7. rows' \in [CdkOps -> RowSet(W)] /\ rows'[o] = r
      /\ \A q \in CdkOps \ {o} : rows'[q] = rows[q]
  BY <1>3, <1>5, <1>6
<1> QED BY <1>3, <1>7 DEF RowsTyped

-----------------------------------------------------------------------------
(* The inductive invariant.                                                  *)

\* A frame between the barrier and the commit.
Working(f) == f.pc \notin {"claimed", "release"}

\* A reset's lease excludes those of operations.
ResetExcludes == resetClaim.live => \A o \in CdkOps : ~rows[o].claim.live

\* An operation whose outcome is open holds the barrier.
UnresolvedHolds == \A o \in CdkOps : Unresolved(o) => barrier.op = o

\* Every frame has a token of its own that the journal has issued.
TokensIssued ==
    \A v \in Workers : \A i \in DOMAIN stack[v] :
        stack[v][i].op \in CdkOps /\ stack[v][i].token \in 0 .. fence
TokensUnique ==
    \A v, u \in Workers : \A i \in DOMAIN stack[v], j \in DOMAIN stack[u] :
        stack[v][i].token = stack[u][j].token => v = u /\ i = j

\* A frame that works under a lease has an operation that is not terminal and, unless
\* it reconciles another one, holds the barrier.
Entitled(o) ==
    rows[o].phase \notin Terminal /\ (kind(o) # "reconcile" => barrier.op = o)
WorkIsOwned ==
    \A v \in Workers : \A i \in DOMAIN stack[v] :
        Working(stack[v][i]) /\ Owns(v, stack[v][i]) => Entitled(stack[v][i].op)

\* Below the top of a stack every frame waits for the one above it.
OthersWait ==
    \A v \in Workers : \A i \in DOMAIN stack[v] :
        i = Len(stack[v]) \/ stack[v][i].pc = "running"

\* The reset that holds the lease builds the generation after the active one.
NextGeneration ==
    \A p \in Processes : Resetting(p) /\ engine[p].reset \in {"claimed", "built"} =>
        engine[p].next = active + 1

JournalInv ==
    /\ ResetExcludes /\ UnresolvedHolds /\ TokensIssued /\ TokensUnique /\ WorkIsOwned
    /\ OthersWait

\* No frame is new and none starts to work.
FramesOnly ==
    \A v \in Workers : \A i \in DOMAIN stack'[v] :
        /\ i \in DOMAIN stack[v]
        /\ stack'[v][i].op = stack[v][i].op /\ stack'[v][i].token = stack[v][i].token
        /\ Working(stack'[v][i]) => Working(stack[v][i])
        /\ i = Len(stack'[v]) \/ stack'[v][i].pc = "running"

\* No lease is new.
ClaimsOnly ==
    \A o \in CdkOps :
        /\ rows'[o].claim.live => rows[o].claim.live
        /\ \A p, t : Holds(rows'[o].claim, p, t) => Holds(rows[o].claim, p, t)

\* Steps that start nothing: no new lease, no new frame, no other phase, the same operation
\* at the barrier.
LEMMA QuietStep ==
  ASSUME JournalInv, setup' = setup, FramesOnly, ClaimsOnly,
         \A t \in 0 .. fence : t \in 0 .. fence',
         \A o \in CdkOps : rows'[o].phase = rows[o].phase, barrier'.op = barrier.op,
         resetClaim'.live => resetClaim.live \/ \A o \in CdkOps : ~rows[o].claim.live
  PROVE  JournalInv'
<1>1. ResetExcludes'
  BY DEF JournalInv, ResetExcludes, ClaimsOnly
<1>2. UnresolvedHolds'
  BY DEF JournalInv, UnresolvedHolds, Unresolved, kind
<1>3. TokensIssued'
  BY DEF JournalInv, TokensIssued, FramesOnly
<1>4. TokensUnique'
  BY DEF JournalInv, TokensUnique, FramesOnly
<1>5. WorkIsOwned'
  <2> SUFFICES ASSUME NEW v \in Workers, NEW i \in DOMAIN stack'[v],
                      Working(stack'[v][i]), Owns(v, stack[v][i])'
               PROVE  Entitled(stack[v][i].op)'
    BY DEF WorkIsOwned, Working
  <2>1. /\ i \in DOMAIN stack[v] /\ stack'[v][i].op = stack[v][i].op
        /\ stack'[v][i].token = stack[v][i].token /\ Working(stack[v][i])
    BY DEF FramesOnly
  <2>2. stack[v][i].op \in CdkOps
    BY <2>1 DEF JournalInv, TokensIssued
  <2>3. Owns(v, stack[v][i])
    BY <2>1, <2>2 DEF Owns, home, ClaimsOnly
  <2>4. Entitled(stack[v][i].op)
    BY <2>1, <2>3 DEF JournalInv, WorkIsOwned
  <2> QED BY <2>1, <2>2, <2>4 DEF Entitled, kind
<1>6. OthersWait'
  BY DEF OthersWait, FramesOnly
<1> QED BY <1>1, <1>2, <1>3, <1>4, <1>5, <1>6 DEF JournalInv

LEMMA LeaseNamesHolder ==
  ASSUME NEW p, NEW q, NEW t, NEW u, Lease(p, t) = Lease(q, u)
  PROVE  p = q /\ t = u
<1>1. Lease(p, t).owner = Lease(q, u).owner /\ Lease(p, t).token = Lease(q, u).token
  OBVIOUS
<1> QED BY <1>1 DEF Lease

\* Two frames that hold the lease of the same operation are the same frame.
LEMMA OneOwner ==
  ASSUME JournalInv, NEW v \in Workers, NEW i \in DOMAIN stack[v], Owns(v, stack[v][i]),
         NEW w \in Workers, NEW j \in DOMAIN stack[w], Owns(w, stack[w][j]),
         stack[v][i].op = stack[w][j].op
  PROVE  v = w /\ i = j
<1>1. Lease(home(v), stack[v][i].token) = Lease(home(w), stack[w][j].token)
  BY DEF Owns, Holds
<1>2. stack[v][i].token = stack[w][j].token
  BY <1>1, LeaseNamesHolder
<1> QED BY <1>2 DEF JournalInv, TokensUnique

\* The owner of an operation writes its phase: the journal entries and the commit.
LEMMA WriteStep ==
  ASSUME JournalInv, setup' = setup, FramesOnly, fence' = fence, resetClaim' = resetClaim,
         NEW w \in Workers, NEW j \in DOMAIN stack[w],
         Working(stack[w][j]), Owns(w, stack[w][j]),
         NEW phase, Rewritten(stack[w][j].op, phase),
         \/ barrier' = barrier
         \/ barrier.op = stack[w][j].op /\ phase \in {"succeeded", "failed_definitive"},
         phase \in Terminal /\ j \in DOMAIN stack'[w] => ~Working(stack'[w][j])
  PROVE  JournalInv'
<1> DEFINE o == stack[w][j].op
<1>1. /\ o \in CdkOps /\ Entitled(o) /\ rows'[o].phase = phase
      /\ \A q \in CdkOps \ {o} : rows'[q] = rows[q]
      /\ \A q \in CdkOps : rows'[q].claim = rows[q].claim
  BY DEF JournalInv, TokensIssued, WorkIsOwned, Rewritten
<1> HIDE DEF o
<1>2. \A q \in CdkOps \ {o} : barrier.op = q => barrier'.op = q
  BY DEF o
<1>3. ResetExcludes'
  BY <1>1 DEF JournalInv, ResetExcludes
<1>4. UnresolvedHolds'
  <2> SUFFICES ASSUME NEW q \in CdkOps, Unresolved(q)' PROVE barrier'.op = q
    BY DEF UnresolvedHolds
  <2>1. CASE q = o
    <3>1. kind(o) # "reconcile" /\ phase \notin {"succeeded", "failed_definitive"}
      BY <1>1, <2>1 DEF Unresolved, kind
    <3> QED BY <1>1, <2>1, <3>1 DEF Entitled, o
  <2>2. CASE q # o
    <3>1. Unresolved(q)
      BY <1>1, <2>2 DEF Unresolved, kind
    <3> QED BY <1>2, <2>2, <3>1 DEF JournalInv, UnresolvedHolds
  <2> QED BY <2>1, <2>2
<1>5. TokensIssued' /\ TokensUnique' /\ OthersWait'
  BY DEF JournalInv, TokensIssued, TokensUnique, OthersWait, FramesOnly
<1>6. WorkIsOwned'
  <2> SUFFICES ASSUME NEW v \in Workers, NEW i \in DOMAIN stack'[v],
                      Working(stack'[v][i]), Owns(v, stack[v][i])'
               PROVE  Entitled(stack[v][i].op)'
    BY DEF WorkIsOwned, Working
  <2>1. /\ i \in DOMAIN stack[v] /\ stack'[v][i].op = stack[v][i].op
        /\ stack'[v][i].token = stack[v][i].token /\ Working(stack[v][i])
    BY DEF FramesOnly
  <2>2. stack[v][i].op \in CdkOps
    BY <2>1 DEF JournalInv, TokensIssued
  <2>3. Owns(v, stack[v][i])
    BY <1>1, <2>1, <2>2 DEF Owns, home
  <2>4. Entitled(stack[v][i].op)
    BY <2>1, <2>3 DEF JournalInv, WorkIsOwned
  <2>5. CASE stack[v][i].op = o
    <3>1. v = w /\ i = j
      BY <2>1, <2>3, <2>5, OneOwner DEF o
    <3>2. phase \notin Terminal
      BY <3>1
    <3>3. barrier' = barrier
      BY <3>2 DEF Terminal
    <3> QED BY <1>1, <2>1, <2>4, <2>5, <3>2, <3>3 DEF Entitled, kind
  <2>6. CASE stack[v][i].op # o
    BY <1>1, <1>2, <2>1, <2>2, <2>4, <2>6 DEF Entitled, kind
  <2> QED BY <2>5, <2>6
<1> QED BY <1>3, <1>4, <1>5, <1>6 DEF JournalInv

\* A frame starts to work: it takes a free barrier, or needs none.
LEMMA BeginStep ==
  ASSUME CdkConstants, JournalInv, setup' = setup, rows' = rows, fence' = fence,
         resetClaim' = resetClaim, NEW w \in Workers, NEW j \in DOMAIN stack[w],
         rows[stack[w][j].op].phase \notin Terminal,
         \/ barrier' = barrier /\ kind(stack[w][j].op) = "reconcile"
         \/ barrier'.op = stack[w][j].op /\ barrier.op \in {NoOp, stack[w][j].op},
         \A v \in Workers : \A i \in DOMAIN stack'[v] :
            /\ i \in DOMAIN stack[v]
            /\ stack'[v][i].op = stack[v][i].op /\ stack'[v][i].token = stack[v][i].token
            /\ Working(stack'[v][i]) => Working(stack[v][i]) \/ (v = w /\ i = j)
            /\ i = Len(stack'[v]) \/ stack'[v][i].pc = "running"
  PROVE  JournalInv'
<1>1. ResetExcludes'
  BY DEF JournalInv, ResetExcludes
<1>2. \A q \in CdkOps : barrier.op = q => barrier'.op = q
  BY DEF CdkConstants
<1>3. UnresolvedHolds'
  BY <1>2 DEF JournalInv, UnresolvedHolds, Unresolved, kind
<1>4. TokensIssued' /\ TokensUnique' /\ OthersWait'
  BY DEF JournalInv, TokensIssued, TokensUnique, OthersWait
<1>5. WorkIsOwned'
  <2> SUFFICES ASSUME NEW v \in Workers, NEW i \in DOMAIN stack'[v],
                      Working(stack'[v][i]), Owns(v, stack[v][i])'
               PROVE  Entitled(stack[v][i].op)'
    BY DEF WorkIsOwned, Working
  <2>1. /\ i \in DOMAIN stack[v] /\ stack'[v][i].op = stack[v][i].op
        /\ stack'[v][i].token = stack[v][i].token
    OBVIOUS
  <2>2. stack[v][i].op \in CdkOps
    BY <2>1 DEF JournalInv, TokensIssued
  <2>3. Owns(v, stack[v][i])
    BY <2>1 DEF Owns, home
  <2>4. CASE Working(stack[v][i])
    <3>1. Entitled(stack[v][i].op)
      BY <2>1, <2>3, <2>4 DEF JournalInv, WorkIsOwned
    <3> QED BY <1>2, <2>1, <2>2, <3>1 DEF Entitled, kind
  <2>5. CASE v = w /\ i = j
    BY <2>1, <2>5 DEF Entitled, kind
  <2> QED BY <2>4, <2>5
<1> QED BY <1>1, <1>3, <1>4, <1>5 DEF JournalInv

\* Worker w gets a frame for o with the token that is issued next: frame i of
\* worker v is one it had, or that one.
FramePushed(w, o, v, i) ==
    /\ i = Len(stack'[v]) \/ stack'[v][i].pc = "running"
    /\ \/ /\ i \in DOMAIN stack[v]
          /\ stack'[v][i].op = stack[v][i].op /\ stack'[v][i].token = stack[v][i].token
          /\ Working(stack'[v][i]) => Working(stack[v][i])
       \/ /\ v = w /\ i = Len(stack'[w])
          /\ stack'[v][i].op = o /\ stack'[v][i].token = fence + 1
          /\ stack'[v][i].pc = "claimed"

Pushed(w, o) ==
    \A v \in Workers : \A i \in DOMAIN stack'[v] : FramePushed(w, o, v, i)

\* An operation is claimed: whoever held its lease has lost it.
LEMMA ClaimStep ==
  ASSUME JournalInv, setup' = setup, barrier' = barrier, resetClaim' = resetClaim,
         fence \in Nat, fence' = fence + 1, ~resetClaim.live,
         NEW w \in Workers, NEW o \in CdkOps, Pushed(w, o), NEW p,
         rows'[o].claim = Lease(p, fence + 1),
         rows'[o].phase = rows[o].phase \/ rows'[o].phase = "created",
         \A q \in CdkOps \ {o} : rows'[q] = rows[q]
  PROVE  JournalInv'
<1>1. /\ \A t \in 0 .. fence : t \in 0 .. fence' /\ t # fence + 1
      /\ fence + 1 \in 0 .. fence'
  OBVIOUS
<1>2. ResetExcludes'
  BY DEF ResetExcludes
<1>3. UnresolvedHolds'
  <2> SUFFICES ASSUME NEW q \in CdkOps, Unresolved(q)' PROVE barrier.op = q
    BY DEF UnresolvedHolds
  <2>1. Unresolved(q)
    BY DEF Unresolved, kind
  <2> QED BY <2>1 DEF JournalInv, UnresolvedHolds
<1>4. TokensIssued'
  BY <1>1 DEF JournalInv, TokensIssued, Pushed, FramePushed
<1>5. TokensUnique'
  BY <1>1 DEF JournalInv, TokensIssued, TokensUnique, Pushed, FramePushed
<1>6. WorkIsOwned'
  <2> SUFFICES ASSUME NEW v \in Workers, NEW i \in DOMAIN stack'[v],
                      Working(stack'[v][i]), Owns(v, stack[v][i])'
               PROVE  Entitled(stack[v][i].op)'
    BY DEF WorkIsOwned, Working
  <2>1. /\ i \in DOMAIN stack[v] /\ stack'[v][i].op = stack[v][i].op
        /\ stack'[v][i].token = stack[v][i].token /\ Working(stack[v][i])
    BY DEF Pushed, FramePushed, Working
  <2>2. stack[v][i].op \in CdkOps /\ stack[v][i].token # fence + 1
    BY <1>1, <2>1 DEF JournalInv, TokensIssued
  <2>3. stack[v][i].op # o
    <3> SUFFICES ASSUME stack[v][i].op = o PROVE FALSE
      OBVIOUS
    <3>1. Lease(p, fence + 1) = Lease(home(v), stack[v][i].token)
      BY <2>1 DEF Owns, Holds, home
    <3> QED BY <2>2, <3>1, LeaseNamesHolder
  <2>4. Owns(v, stack[v][i])
    BY <2>1, <2>2, <2>3 DEF Owns, home
  <2>5. Entitled(stack[v][i].op)
    BY <2>1, <2>4 DEF JournalInv, WorkIsOwned
  <2> QED BY <2>1, <2>2, <2>3, <2>5 DEF Entitled, kind
<1>7. OthersWait'
  BY DEF OthersWait, Pushed, FramePushed
<1> QED BY <1>2, <1>3, <1>4, <1>5, <1>6, <1>7 DEF JournalInv

-----------------------------------------------------------------------------
(* What the steps of a worker do to its frames.                              *)

LEMMA StackDomains ==
  ASSUME StackTyped, NEW v \in Workers
  PROVE  DOMAIN stack[v] = 1 .. Len(stack[v]) /\ Len(stack[v]) \in Nat
<1>1. PICK V : stack \in [Workers -> Seq(FrameSet(V))]
  BY DEF StackTyped
<1>2. stack[v] \in Seq(FrameSet(V))
  BY <1>1
<1> QED BY <1>2

LEMMA StackDomainsPrime ==
  ASSUME StackTyped', NEW v \in Workers
  PROVE  DOMAIN stack'[v] = 1 .. Len(stack'[v]) /\ Len(stack'[v]) \in Nat
<1>1. PICK V : stack' \in [Workers -> Seq(FrameSet(V))]
  BY DEF StackTyped
<1>2. stack'[v] \in Seq(FrameSet(V))
  BY <1>1
<1> QED BY <1>2

\* Top(w) as a frame of the stack.
LEMMA TopPosition ==
  ASSUME StackTyped, NEW w \in Workers, stack[w] # <<>>
  PROVE  Len(stack[w]) \in DOMAIN stack[w] /\ Top(w) = stack[w][Len(stack[w])]
<1>1. PICK V : stack \in [Workers -> Seq(FrameSet(V))]
  BY DEF StackTyped
<1>2. stack[w] \in Seq(FrameSet(V))
  BY <1>1
<1> QED BY <1>2 DEF Top, Last

LEMMA MovedFrames ==
  ASSUME StackTyped, StackTyped', OthersWait, NEW w \in Workers, stack[w] # <<>>, NEW pc,
         Moved(w, pc)
  PROVE  \A v \in Workers : \A i \in DOMAIN stack'[v] :
            /\ i \in DOMAIN stack[v]
            /\ stack'[v][i].op = stack[v][i].op /\ stack'[v][i].token = stack[v][i].token
            /\ \/ stack'[v][i] = stack[v][i]
               \/ v = w /\ i = Len(stack[w]) /\ stack'[v][i].pc = pc
            /\ i = Len(stack'[v]) \/ stack'[v][i].pc = "running"
<1> SUFFICES ASSUME NEW v \in Workers, NEW i \in DOMAIN stack'[v]
             PROVE  /\ i \in DOMAIN stack[v]
                    /\ stack'[v][i].op = stack[v][i].op
                    /\ stack'[v][i].token = stack[v][i].token
                    /\ \/ stack'[v][i] = stack[v][i]
                       \/ v = w /\ i = Len(stack[w]) /\ stack'[v][i].pc = pc
                    /\ i = Len(stack'[v]) \/ stack'[v][i].pc = "running"
  OBVIOUS
<1>1. CASE v # w
  BY <1>1 DEF Moved, OthersWait
<1>2. CASE v = w
  <2> DEFINE n == Len(stack[w])
  <2>1. DOMAIN stack[w] = 1 .. n /\ DOMAIN stack'[w] = 1 .. n /\ n \in Nat /\ Len(stack'[w]) = n
    BY StackDomains, StackDomainsPrime DEF Moved
  <2>2. Top(w) = stack[w][n]
    BY TopPosition
  <2>3. SameBelow(n - 1, stack'[w], stack[w])
    BY DEF Moved
  <2>4. /\ stack'[w][n].op = stack[w][n].op /\ stack'[w][n].token = stack[w][n].token
        /\ stack'[w][n].pc = pc
    BY <2>2 DEF Moved
  <2> HIDE DEF n
  <2>5. CASE i = n
    BY <1>2, <2>1, <2>4, <2>5 DEF n
  <2>6. CASE i # n
    <3>1. i \in 1 .. n - 1
      BY <1>2, <2>1, <2>6
    <3>2. stack'[w][i] = stack[w][i]
      BY <2>3, <3>1 DEF SameBelow
    <3>3. stack[w][i].pc = "running"
      BY <1>2, <2>1, <2>6 DEF OthersWait, n
    <3> QED BY <1>2, <2>1, <3>2, <3>3
  <2> QED BY <2>5, <2>6
<1> QED BY <1>1, <1>2

LEMMA MovedKeeps ==
  ASSUME StackTyped, StackTyped', OthersWait, NEW w \in Workers, stack[w] # <<>>, NEW pc,
         Moved(w, pc), pc = "release" \/ Working(Top(w))
  PROVE  FramesOnly
  BY MovedFrames, TopPosition DEF FramesOnly, Working

LEMMA DroppedKeeps ==
  ASSUME StackTyped, StackTyped', OthersWait, NEW w \in Workers, Dropped(w)
  PROVE  FramesOnly
<1> SUFFICES ASSUME NEW v \in Workers, NEW i \in DOMAIN stack'[v]
             PROVE  /\ i \in DOMAIN stack[v]
                    /\ stack'[v][i].op = stack[v][i].op
                    /\ stack'[v][i].token = stack[v][i].token
                    /\ Working(stack'[v][i]) => Working(stack[v][i])
                    /\ i = Len(stack'[v]) \/ stack'[v][i].pc = "running"
  BY DEF FramesOnly
<1>1. CASE v # w
  BY <1>1 DEF Dropped, OthersWait
<1>2. CASE v = w
  <2> DEFINE n == Len(stack'[w])
             m == Len(stack[w])
  <2>1. /\ DOMAIN stack[w] = 1 .. m /\ DOMAIN stack'[w] = 1 .. n /\ n \in Nat /\ m \in Nat
        /\ n \in 0 .. m - 1
    BY StackDomains, StackDomainsPrime DEF Dropped
  <2>2. SameBelow(n - 1, stack'[w], stack[w])
    BY DEF Dropped
  <2>3. n # 0 => /\ stack'[w][n].op = stack[w][n].op
                 /\ stack'[w][n].token = stack[w][n].token
    BY DEF Dropped
  <2>4. \A k \in DOMAIN stack[w] : k = m \/ stack[w][k].pc = "running"
    BY DEF OthersWait
  <2> HIDE DEF n, m
  <2>5. i \in 1 .. m /\ i # m /\ i \in 1 .. n /\ n # 0
    BY <1>2, <2>1
  <2>6. stack[w][i].pc = "running" /\ Working(stack[w][i])
    BY <2>1, <2>4, <2>5 DEF Working
  <2>7. CASE i = n
    BY <1>2, <2>1, <2>3, <2>5, <2>6, <2>7 DEF n
  <2>8. CASE i # n
    <3>1. i \in 1 .. n - 1
      BY <2>1, <2>5, <2>8
    <3>2. stack'[w][i] = stack[w][i]
      BY <2>2, <3>1 DEF SameBelow
    <3> QED BY <1>2, <2>1, <2>5, <2>6, <3>2
  <2> QED BY <2>7, <2>8
<1> QED BY <1>1, <1>2

LEMMA NewFrame ==
  ASSUME NEW o \in CdkOps, NEW t \in Nat, NEW rec
  PROVE  /\ Frame(o, t, rec) \in FrameSet({rec, "claimed", 0, <<>>})
         /\ Frame(o, t, rec).op = o /\ Frame(o, t, rec).token = t
         /\ Frame(o, t, rec).pc = "claimed"
  BY DEF Frame, FrameSet

LEMMA FirstFrame ==
  ASSUME StackTyped, OthersWait, fence \in Nat, NEW w \in Workers, stack[w] = <<>>,
         NEW o \in CdkOps, NEW rec,
         stack' = [stack EXCEPT ![w] = <<Frame(o, fence + 1, rec)>>]
  PROVE  StackTyped' /\ Pushed(w, o)
<1>1. PICK V : stack \in [Workers -> Seq(FrameSet(V))]
  BY DEF StackTyped
<1> DEFINE U == {rec, "claimed", 0, <<>>}
           W == V \cup U
           f == Frame(o, fence + 1, rec)
<1>2. fence + 1 \in Nat
  OBVIOUS
<1>3. f \in FrameSet(U) /\ f.op = o /\ f.token = fence + 1 /\ f.pc = "claimed"
  BY <1>2, NewFrame
<1> HIDE DEF f, U
<1>4. f \in FrameSet(W) /\ Seq(FrameSet(V)) \subseteq Seq(FrameSet(W))
  BY <1>3, FrameSetGrows
<1> HIDE DEF W
<1>5. <<f>> \in Seq(FrameSet(W)) /\ Len(<<f>>) = 1 /\ <<f>>[1] = f /\ DOMAIN <<f>> = {1}
  BY <1>4
<1>6. stack' = [stack EXCEPT ![w] = <<f>>]
  BY DEF f
<1> DEFINE s == <<f>>
<1> HIDE DEF s
<1>7. /\ stack' \in [Workers -> Seq(FrameSet(W))] /\ stack'[w] = s
      /\ \A v \in Workers \ {w} : stack'[v] = stack[v]
  BY <1>1, <1>4, <1>5, <1>6 DEF s
<1>8. Len(s) = 1 /\ s[1] = f /\ DOMAIN s = {1}
  BY <1>5 DEF s
<1>9. Pushed(w, o)
  <2> SUFFICES ASSUME NEW v \in Workers, NEW i \in DOMAIN stack'[v]
               PROVE  FramePushed(w, o, v, i)
    BY DEF Pushed
  <2>1. CASE v = w
    BY <1>3, <1>7, <1>8, <2>1 DEF FramePushed
  <2>2. CASE v # w
    BY <1>7, <2>2 DEF OthersWait, FramePushed
  <2> QED BY <2>1, <2>2
<1> QED BY <1>7, <1>9 DEF StackTyped

\* The top of a stack is replaced and a frame put on it.
Pile(s, f, g) == Front(s) \o <<f, g>>

IsPile(t, S, s, f, g) ==
    /\ t \in Seq(S) /\ Len(t) = Len(s) + 1 /\ t[Len(s)] = f /\ t[Len(s) + 1] = g
    /\ SameBelow(Len(s) - 1, t, s)

LEMMA Piled ==
  ASSUME NEW S, NEW s \in Seq(S), Len(s) # 0, NEW f \in S, NEW g \in S
  PROVE  IsPile(Pile(s, f, g), S, s, f, g)
<1> DEFINE n == Len(s)
           t == Front(s)
<1>1. t \in Seq(S) /\ Len(t) = n - 1 /\ SameBelow(n - 1, t, s) /\ n \in Nat \ {0}
  BY FrontOfStack
<1> HIDE DEF n, t
<1>2. <<f, g>> \in Seq(S) /\ Len(<<f, g>>) = 2 /\ <<f, g>>[1] = f /\ <<f, g>>[2] = g
  OBVIOUS
<1> DEFINE u == <<f, g>>
<1> HIDE DEF u
<1>3. /\ t \o u \in Seq(S) /\ Len(t \o u) = n + 1
      /\ (t \o u)[n] = u[1] /\ (t \o u)[n + 1] = u[2]
      /\ \A i \in 1 .. n - 1 : (t \o u)[i] = t[i]
  BY <1>1, <1>2 DEF u
<1>4. Pile(s, f, g) = t \o u
  BY DEF Pile, t, u
<1>5. SameBelow(n - 1, Pile(s, f, g), s)
  BY <1>1, <1>3, <1>4 DEF SameBelow
<1> QED BY <1>2, <1>3, <1>4, <1>5 DEF n, u, IsPile

LEMMA SecondFrame ==
  ASSUME StackTyped, OthersWait, fence \in Nat, NEW w \in Workers, stack[w] # <<>>,
         Working(Top(w)), NEW o \in CdkOps, NEW rec,
         stack' = [stack EXCEPT ![w] = Front(@) \o
                     <<[Top(w) EXCEPT !.pc = "running"], Frame(o, fence + 1, rec)>>]
  PROVE  StackTyped' /\ Pushed(w, o)
<1>1. PICK V : stack \in [Workers -> Seq(FrameSet(V))]
  BY DEF StackTyped
<1>2. PICK X : Top(w) \in FrameSet(X)
  BY TopIsFrame
<1> DEFINE U == {rec, "claimed", 0, <<>>}
           W == V \cup X \cup {"running"} \cup U
           f == [Top(w) EXCEPT !.pc = "running"]
           g == Frame(o, fence + 1, rec)
           n == Len(stack[w])
           s == Pile(stack[w], f, g)
<1>3. fence + 1 \in Nat
  OBVIOUS
<1>4. g \in FrameSet(U) /\ g.op = o /\ g.token = fence + 1 /\ g.pc = "claimed"
  BY <1>3, NewFrame
<1>5. stack' = [stack EXCEPT ![w] = s]
  BY DEF Pile
<1> HIDE DEF g, U
<1>6. /\ f \in FrameSet(X \cup {"running"}) /\ f.op = Top(w).op /\ f.token = Top(w).token
      /\ f.pc = "running"
  BY <1>2 DEF FrameSet
<1> HIDE DEF f
<1>7. f \in FrameSet(W) /\ g \in FrameSet(W) /\ Seq(FrameSet(V)) \subseteq Seq(FrameSet(W))
  BY <1>4, <1>6, FrameSetGrows
<1> HIDE DEF W
<1>8. stack \in [Workers -> Seq(FrameSet(W))]
  BY <1>1, <1>7
<1>9. stack[w] \in Seq(FrameSet(W)) /\ n # 0
  BY <1>8
<1>10. /\ s \in Seq(FrameSet(W)) /\ Len(s) = n + 1 /\ s[n] = f /\ s[n + 1] = g
       /\ SameBelow(n - 1, s, stack[w])
  <2>1. IsPile(Pile(stack[w], f, g), FrameSet(W), stack[w], f, g)
    BY <1>7, <1>9, Piled
  <2> QED BY <2>1 DEF IsPile
<1> HIDE DEF s
<1>11. /\ stack' \in [Workers -> Seq(FrameSet(W))] /\ stack'[w] = s
       /\ \A v \in Workers \ {w} : stack'[v] = stack[v]
  BY <1>5, <1>8, <1>10
<1>12. /\ DOMAIN stack[w] = 1 .. n /\ n \in Nat /\ Top(w) = stack[w][n]
       /\ \A k \in DOMAIN stack[w] : k = n \/ stack[w][k].pc = "running"
  BY StackDomains, TopPosition DEF OthersWait
<1>13. DOMAIN s = 1 .. n + 1
  BY <1>10
<1> HIDE DEF n
<1>14. Pushed(w, o)
  <2> SUFFICES ASSUME NEW v \in Workers, NEW i \in DOMAIN stack'[v]
               PROVE  FramePushed(w, o, v, i)
    BY DEF Pushed
  <2>1. CASE v # w
    <3>1. stack'[v] = stack[v]
      BY <1>11, <2>1
    <3>2. i \in DOMAIN stack[v] /\ (i = Len(stack[v]) \/ stack[v][i].pc = "running")
      BY <3>1 DEF OthersWait
    <3> QED BY <3>1, <3>2 DEF FramePushed
  <2>2. CASE v = w /\ i = n + 1
    BY <1>4, <1>10, <1>11, <2>2 DEF FramePushed
  <2>3. CASE v = w /\ i = n
    <3>1. n \in DOMAIN stack[w]
      BY <1>9, <1>12 DEF n
    <3> QED BY <1>6, <1>10, <1>11, <1>12, <2>3, <3>1 DEF FramePushed
  <2>4. CASE v = w /\ i # n + 1 /\ i # n
    <3>1. i \in 1 .. n - 1 /\ i \in 1 .. n
      BY <1>11, <1>12, <1>13, <2>4
    <3>2. s[i] = stack[w][i]
      BY <1>10, <3>1 DEF SameBelow
    <3> QED BY <1>11, <1>12, <2>4, <3>1, <3>2 DEF FramePushed
  <2> QED BY <2>1, <2>2, <2>3, <2>4
<1> QED BY <1>11, <1>14 DEF StackTyped

-----------------------------------------------------------------------------
(* The actions.                                                              *)

\* What every step of a worker establishes.
Outcome == RowsTyped' /\ StackTyped' /\ JournalInv' /\ TerminalPhaseStep

journalUnchanged == UNCHANGED <<setup, rows, barrier, resetClaim, fence>>

\* The top frame goes on with an answer, a wallet generation or neither.
WorksOn(w) ==
    \E pc, gen, res :
        \/ SetTop(w, [Top(w) EXCEPT !.pc = pc])
        \/ SetTop(w, [Top(w) EXCEPT !.pc = pc, !.res = res])
        \/ SetTop(w, [Top(w) EXCEPT !.pc = pc, !.gen = gen])
        \/ SetTop(w, [Top(w) EXCEPT !.gen = gen, !.pc = pc])
        \/ SetTop(w, [Top(w) EXCEPT !.pc = pc, !.gen = gen, !.res = res])

LEMMA WorkKeeps ==
  ASSUME JournalTypeOK, JournalInv, NEW w \in Workers, stack[w] # <<>>, Working(Top(w)),
         WorksOn(w), journalUnchanged
  PROVE  Outcome
<1>1. StackTyped /\ OthersWait
  BY DEF JournalTypeOK, JournalInv
<1>2. PICK pc : StackTyped' /\ Moved(w, pc)
  BY <1>1, TopMoves DEF WorksOn
<1>3. FramesOnly
  BY <1>1, <1>2, MovedKeeps
<1>4. ClaimsOnly /\ TerminalPhaseStep /\ RowsTyped'
  BY DEF ClaimsOnly, TerminalPhaseStep, journalUnchanged, JournalTypeOK, RowsTyped
<1>5. JournalInv'
  BY <1>3, <1>4, QuietStep DEF journalUnchanged
<1> QED BY <1>2, <1>4, <1>5 DEF Outcome

LEMMA AnswersWork ==
  ASSUME NEW w, NEW g, NEW r, Answer(w, r) \/ Reply(w, g, r) \/ Sent(w, g, r)
  PROVE  WorksOn(w)
  BY DEF Answer, Reply, Sent, WorksOn

LEMMA PrepareKeeps ==
  ASSUME JournalTypeOK, JournalInv, NEW w \in Workers, stack[w] # <<>>, Prepare(w)
  PROVE  Outcome
<1>1. Working(Top(w)) /\ journalUnchanged
  BY DEF Prepare, Working, journalUnchanged, engineUnchanged
<1>2. WorksOn(w)
  <2>1. \E pc, res : SetTop(w, [Top(w) EXCEPT !.pc = pc, !.res = res])
    BY DEF Prepare
  <2> QED BY <2>1 DEF WorksOn
<1> QED BY <1>1, <1>2, WorkKeeps

LEMMA ExecuteKeeps ==
  ASSUME JournalTypeOK, JournalInv, NEW w \in Workers, stack[w] # <<>>, Execute(w)
  PROVE  Outcome
<1>1. Working(Top(w)) /\ journalUnchanged
  BY DEF Execute, Working, journalUnchanged, engineUnchanged
<1>2. \E g, r : Reply(w, g, r) \/ Sent(w, g, r)
  BY DEF Execute, ExecuteMint, ExecuteSwap, ExecuteSend, ExecuteReceive, ExecuteMelt,
         ExecuteRestore
<1> QED BY <1>1, <1>2, AnswersWork, WorkKeeps

LEMMA AwaitKeeps ==
  ASSUME JournalTypeOK, JournalInv, NEW w \in Workers, stack[w] # <<>>, Await(w)
  PROVE  Outcome
<1>1. Working(Top(w)) /\ journalUnchanged
  BY DEF Await, Working, journalUnchanged, engineUnchanged
<1>2. \E r : Answer(w, r)
  BY DEF Await
<1> QED BY <1>1, <1>2, AnswersWork, WorkKeeps

LEMMA RecoverSagasKeeps ==
  ASSUME JournalTypeOK, JournalInv, NEW w \in Workers, stack[w] # <<>>, RecoverSagas(w)
  PROVE  Outcome
<1>1. Working(Top(w)) /\ journalUnchanged
  BY DEF RecoverSagas, Working, journalUnchanged, engineUnchanged
<1>2. \/ \E r : Answer(w, r)
      \/ \E pc, gen : SetTop(w, [Top(w) EXCEPT !.pc = pc, !.gen = gen])
      \/ \E pc, gen : SetTop(w, [Top(w) EXCEPT !.gen = gen, !.pc = pc])
  BY DEF RecoverSagas
<1>3. WorksOn(w)
  BY <1>2, AnswersWork DEF WorksOn
<1> QED BY <1>1, <1>3, WorkKeeps

LEMMA DecideKeeps ==
  ASSUME JournalTypeOK, JournalInv, NEW w \in Workers, stack[w] # <<>>, Decide(w)
  PROVE  Outcome
<1>1. Working(Top(w)) /\ journalUnchanged
  BY DEF Decide, Working, journalUnchanged, engineUnchanged
<1>2. \/ \E r : Answer(w, r)
      \/ \E pc, res : SetTop(w, [Top(w) EXCEPT !.pc = pc, !.res = res])
  BY DEF Decide
<1>3. WorksOn(w)
  BY <1>2, AnswersWork DEF WorksOn
<1> QED BY <1>1, <1>3, WorkKeeps

LEMMA HomeIsProcess ==
  ASSUME CdkConstants, setup \in Setups, NEW w \in Workers
  PROVE  home(w) \in Processes
  BY DEF CdkConstants, home

LEMMA ClaimKeeps ==
  ASSUME JournalTypeOK, JournalInv, NEW w \in Workers, NEW o \in CdkOps, NEW p \in Processes,
         Claim(o, p), StackTyped', Pushed(w, o), UNCHANGED <<setup, barrier, resetClaim>>
  PROVE  Outcome
<1> DEFINE lease == Lease(p, fence + 1)
           phase == IF rows[o].phase = "none" THEN "created" ELSE rows[o].phase
<1>1. /\ fence \in Nat /\ fence' = fence + 1 /\ ~resetClaim.live /\ RowsTyped
      /\ rows' = [rows EXCEPT ![o].claim = lease, ![o].phase = phase]
  <2>1. PICK V : rows \in [CdkOps -> RowSet(V)]
    BY DEF JournalTypeOK, RowsTyped
  <2>2. rows[o] \in RowSet(V)
    BY <2>1
  <2>3. [rows[o] EXCEPT !.claim = lease].phase = rows[o].phase
    BY <2>2 DEF RowSet
  <2>4. rows' = [rows EXCEPT ![o] = [rows[o] EXCEPT !.claim = lease, !.phase = phase]]
    BY <2>1, <2>3 DEF Claim
  <2>5. rows' = [rows EXCEPT ![o].claim = lease, ![o].phase = phase]
    BY <2>1, <2>4
  <2> QED BY <2>5 DEF Claim, Claimable, reset_claim_active, JournalTypeOK
<1>2. lease \in Claims
  BY <1>1 DEF Lease, Claims
<1> HIDE DEF lease
<1>3. /\ phase = rows[o].phase \/ phase = "created"
      /\ rows[o].phase \in Terminal => phase = rows[o].phase
  BY DEF Terminal
<1> HIDE DEF phase
<1>4. /\ RowsTyped' /\ \A q \in CdkOps \ {o} : rows'[q] = rows[q]
      /\ rows'[o].claim = lease /\ rows'[o].phase \in {rows[o].phase, phase}
  BY <1>1, <1>2, ClaimUpdates
<1>5. JournalInv'
  BY <1>1, <1>3, <1>4, ClaimStep DEF lease
<1>6. TerminalPhaseStep
  BY <1>3, <1>4 DEF TerminalPhaseStep
<1> QED BY <1>4, <1>5, <1>6 DEF Outcome

LEMMA StartKeeps ==
  ASSUME CdkConstants, JournalTypeOK, JournalInv, NEW w \in Workers, NEW o \in CdkOps,
         Start(w, o) \/ Resume(w, o)
  PROVE  Outcome
<1>1. /\ stack[w] = <<>> /\ Claim(o, home(w)) /\ UNCHANGED <<setup, barrier, resetClaim>>
      /\ \E rec : stack' = [stack EXCEPT ![w] = <<Frame(o, fence + 1, rec)>>]
  BY DEF Start, Resume, engineUnchanged
<1>2. StackTyped /\ OthersWait /\ fence \in Nat /\ home(w) \in Processes
  BY HomeIsProcess DEF JournalTypeOK, JournalInv
<1>3. StackTyped' /\ Pushed(w, o)
  BY <1>1, <1>2, FirstFrame
<1> QED BY <1>1, <1>2, <1>3, ClaimKeeps

LEMMA ReconcileKeeps ==
  ASSUME CdkConstants, JournalTypeOK, JournalInv, NEW w \in Workers, stack[w] # <<>>,
         Reconcile(w)
  PROVE  Outcome
<1> DEFINE t == setup.target[Top(w).op]
<1>1. Working(Top(w)) /\ UNCHANGED <<setup, barrier, resetClaim>>
  BY DEF Reconcile, Working, engineUnchanged
<1>2. CASE \E r : Answer(w, r) /\ UNCHANGED <<rows, fence>>
  <2>1. WorksOn(w) /\ journalUnchanged
    BY <1>1, <1>2, AnswersWork DEF journalUnchanged
  <2> QED BY <1>1, <2>1, WorkKeeps
<1>3. CASE /\ Claim(t, home(w))
           /\ stack' = [stack EXCEPT ![w] = Front(@) \o
                  <<[Top(w) EXCEPT !.pc = "running"], Frame(t, fence + 1, TRUE)>>]
  <2>1. StackTyped /\ OthersWait /\ fence \in Nat /\ home(w) \in Processes
    BY HomeIsProcess DEF JournalTypeOK, JournalInv
  <2>2. t \in CdkOps
    <3>1. PICK V : Top(w) \in FrameSet(V)
      BY <2>1, TopIsFrame
    <3>2. Top(w).op \in CdkOps
      BY <3>1 DEF FrameSet
    <3> QED BY <3>2 DEF JournalTypeOK, CdkConstants
  <2> HIDE DEF t
  <2>3. \E rec : stack' = [stack EXCEPT ![w] = Front(@) \o
                   <<[Top(w) EXCEPT !.pc = "running"], Frame(t, fence + 1, rec)>>]
    BY <1>3
  <2>4. StackTyped' /\ Pushed(w, t)
    BY <1>1, <2>1, <2>2, <2>3, SecondFrame
  <2> QED BY <1>1, <1>3, <2>1, <2>2, <2>4, ClaimKeeps
<1>4. \/ \E r : Answer(w, r) /\ UNCHANGED <<rows, fence>>
      \/ /\ Claim(t, home(w))
         /\ stack' = [stack EXCEPT ![w] = Front(@) \o
                  <<[Top(w) EXCEPT !.pc = "running"], Frame(t, fence + 1, TRUE)>>]
  BY DEF Reconcile
<1> QED BY <1>2, <1>3, <1>4

LEMMA TakeBarrierKeeps ==
  ASSUME CdkConstants, JournalTypeOK, JournalInv, NEW w \in Workers, stack[w] # <<>>,
         TakeBarrier(w)
  PROVE  Outcome
<1> DEFINE f == Top(w)
           n == Len(stack[w])
<1>1. /\ UNCHANGED <<setup, rows, resetClaim, fence>> /\ StackTyped /\ OthersWait
      /\ RowsTyped' /\ TerminalPhaseStep
  BY DEF TakeBarrier, engineUnchanged, JournalTypeOK, JournalInv, RowsTyped, TerminalPhaseStep
<1>2. n \in DOMAIN stack[w] /\ f = stack[w][n]
  BY <1>1, TopPosition
<1>3. CASE Goto(w, "release") /\ barrier' = barrier
  <2>1. StackTyped' /\ Moved(w, "release")
    BY <1>1, <1>3, TopMoves DEF Goto
  <2>2. FramesOnly
    BY <1>1, <2>1, MovedKeeps
  <2>3. ClaimsOnly
    BY <1>1 DEF ClaimsOnly
  <2>4. JournalInv'
    BY <1>1, <1>3, <2>2, <2>3, QuietStep
  <2> QED BY <1>1, <2>1, <2>4 DEF Outcome
<1>4. CASE /\ Goto(w, "begin") /\ rows[f.op].phase \notin Terminal
           /\ \/ barrier' = barrier /\ kind(f.op) = "reconcile"
              \/ barrier'.op = f.op /\ barrier.op \in {NoOp, f.op}
  <2>1. StackTyped' /\ Moved(w, "begin")
    BY <1>1, <1>4, TopMoves DEF Goto
  <2>2. \A v \in Workers : \A i \in DOMAIN stack'[v] :
            /\ i \in DOMAIN stack[v]
            /\ stack'[v][i].op = stack[v][i].op /\ stack'[v][i].token = stack[v][i].token
            /\ Working(stack'[v][i]) => Working(stack[v][i]) \/ (v = w /\ i = n)
            /\ i = Len(stack'[v]) \/ stack'[v][i].pc = "running"
    BY <1>1, <2>1, MovedFrames DEF Working
  <2> HIDE DEF f, n
  <2>3. JournalInv'
    BY <1>1, <1>2, <1>4, <2>2, BeginStep
  <2> QED BY <1>1, <2>1, <2>3 DEF Outcome
<1>5. \/ Goto(w, "release") /\ barrier' = barrier
      \/ /\ Goto(w, "begin") /\ rows[f.op].phase \notin Terminal
         /\ \/ barrier' = barrier /\ kind(f.op) = "reconcile"
            \/ barrier'.op = f.op /\ barrier.op \in {NoOp, f.op}
  BY DEF TakeBarrier, BarrierFree, NoBarrier
<1> QED BY <1>3, <1>4, <1>5

LEMMA WriteKeeps ==
  ASSUME JournalTypeOK, JournalInv, NEW w \in Workers, stack[w] # <<>>, Working(Top(w)),
         Owns(w, Top(w)), NEW phase, NEW pc, RowsTyped', Rewritten(Top(w).op, phase),
         StackTyped', Moved(w, pc), phase \in Terminal => pc = "release",
         UNCHANGED <<setup, resetClaim, fence>>,
         \/ barrier' = barrier
         \/ barrier.op = Top(w).op /\ phase \in {"succeeded", "failed_definitive"}
  PROVE  Outcome
<1> DEFINE n == Len(stack[w])
<1>1. StackTyped /\ OthersWait
  BY DEF JournalTypeOK, JournalInv
<1>2. n \in DOMAIN stack[w] /\ Top(w) = stack[w][n]
  BY <1>1, TopPosition
<1>3. FramesOnly
  BY <1>1, MovedKeeps
<1>4. stack'[w][n].pc = pc
  BY DEF Moved
<1> HIDE DEF n
<1>5. phase \in Terminal /\ n \in DOMAIN stack'[w] => ~Working(stack'[w][n])
  BY <1>4 DEF Working
<1>6. JournalInv'
  BY <1>2, <1>3, <1>5, WriteStep
<1>7. Entitled(Top(w).op)
  BY <1>2 DEF JournalInv, WorkIsOwned
<1>8. TerminalPhaseStep
  BY <1>7 DEF TerminalPhaseStep, Rewritten, Entitled
<1> QED BY <1>6, <1>8 DEF Outcome

LEMMA PutKeeps ==
  ASSUME JournalTypeOK, JournalInv, NEW w \in Workers, stack[w] # <<>>,
         PutPrepared(w) \/ PutSubmitted(w)
  PROVE  Outcome
<1>1. /\ Working(Top(w)) /\ Owns(w, Top(w)) /\ UNCHANGED <<setup, barrier, resetClaim, fence>>
      /\ \E pc : Goto(w, pc)
  BY DEF PutPrepared, PutSubmitted, engineUnchanged, Working
<1>2. \/ rows' = [rows EXCEPT ![Top(w).op].phase = "submitted"]
      \/ rows' = [rows EXCEPT ![Top(w).op].phase = "prepared",
                              ![Top(w).op].plan = Top(w).res[1].plan]
  BY DEF PutPrepared, PutSubmitted
<1>3. \E phase : /\ phase \in {"prepared", "submitted"}
                 /\ \/ rows' = [rows EXCEPT ![Top(w).op].phase = phase]
                    \/ rows' = [rows EXCEPT ![Top(w).op].phase = phase,
                                            ![Top(w).op].plan = Top(w).res[1].plan]
  BY <1>2
<1> PICK phase : /\ phase \in {"prepared", "submitted"}
                 /\ \/ rows' = [rows EXCEPT ![Top(w).op].phase = phase]
                    \/ rows' = [rows EXCEPT ![Top(w).op].phase = phase,
                                            ![Top(w).op].plan = Top(w).res[1].plan]
  BY <1>3
<1>4. StackTyped /\ RowsTyped
  BY DEF JournalTypeOK
<1>5. PICK V : Top(w) \in FrameSet(V)
  BY <1>4, TopIsFrame
<1>6. Top(w).op \in CdkOps
  BY <1>5 DEF FrameSet
<1>7. RowsTyped' /\ Rewritten(Top(w).op, phase)
  BY <1>4, <1>6, RowUpdates
<1>8. PICK pc : StackTyped' /\ Moved(w, pc)
  BY <1>1, <1>4, TopMoves DEF Goto
<1>9. phase \notin Terminal
  BY DEF Terminal
<1> QED BY <1>1, <1>7, <1>8, <1>9, WriteKeeps

LEMMA PutReconcilingKeeps ==
  ASSUME JournalTypeOK, JournalInv, NEW w \in Workers, stack[w] # <<>>, PutReconciling(w)
  PROVE  Outcome
<1> DEFINE o == Top(w).op
<1>1. /\ Working(Top(w)) /\ (rows[o].phase = "reconciling" \/ Owns(w, Top(w)))
      /\ UNCHANGED <<setup, barrier, resetClaim, fence>> /\ \E pc : Goto(w, pc)
      /\ rows' = [rows EXCEPT ![o].phase = "reconciling"]
  BY DEF PutReconciling, engineUnchanged, Working
<1>2. StackTyped /\ RowsTyped /\ OthersWait
  BY DEF JournalTypeOK, JournalInv
<1>3. PICK V : Top(w) \in FrameSet(V)
  BY <1>2, TopIsFrame
<1>4. o \in CdkOps
  BY <1>3 DEF FrameSet
<1>5. RowsTyped' /\ Rewritten(o, "reconciling")
  BY <1>1, <1>2, <1>4, RowUpdates
<1>6. PICK pc : StackTyped' /\ Moved(w, pc)
  BY <1>1, <1>2, TopMoves DEF Goto
<1>7. "reconciling" \notin Terminal
  BY DEF Terminal
<1>8. CASE Owns(w, Top(w))
  BY <1>1, <1>5, <1>6, <1>7, <1>8, WriteKeeps
<1>9. CASE rows[o].phase = "reconciling"
  <2>1. \A q \in CdkOps : rows'[q].phase = rows[q].phase /\ rows'[q].claim = rows[q].claim
    BY <1>5, <1>9 DEF Rewritten
  <2>2. ClaimsOnly /\ TerminalPhaseStep
    BY <2>1 DEF ClaimsOnly, TerminalPhaseStep
  <2>3. FramesOnly
    BY <1>1, <1>2, <1>6, MovedKeeps
  <2>4. JournalInv'
    BY <1>1, <2>1, <2>2, <2>3, QuietStep
  <2> QED BY <1>5, <1>6, <2>2, <2>4 DEF Outcome
<1> QED BY <1>1, <1>8, <1>9

LEMMA NobodyHoldsNoClaim ==
  ASSUME NEW p, NEW t
  PROVE  NoClaim \in Claims /\ ~NoClaim.live /\ ~Holds(NoClaim, p, t)
<1>1. NoClaim.live = FALSE /\ Lease(p, t).live = TRUE
  BY DEF NoClaim, Lease
<1>2. NoClaim # Lease(p, t)
  BY <1>1
<1>3. NoClaim \in Claims
  BY DEF NoClaim, Claims
<1> QED BY <1>1, <1>2, <1>3 DEF Holds

\* run_owned gives its lease up and returns.
LEMMA ReleaseKeeps ==
  ASSUME JournalTypeOK, JournalInv, NEW w \in Workers, stack[w] # <<>>,
         rows' = [rows EXCEPT ![Top(w).op].claim = NoClaim], NEW phase, Leave(w, phase),
         UNCHANGED <<setup, barrier, resetClaim, fence>>
  PROVE  Outcome
<1> DEFINE o == Top(w).op
<1>1. StackTyped /\ RowsTyped /\ OthersWait
  BY DEF JournalTypeOK, JournalInv
<1>2. PICK V : Top(w) \in FrameSet(V)
  BY <1>1, TopIsFrame
<1>3. o \in CdkOps
  BY <1>2 DEF FrameSet
<1>4. StackTyped' /\ Dropped(w)
  BY <1>1, LeaveEffect
<1>5. FramesOnly
  BY <1>1, <1>4, DroppedKeeps
<1>6. NoClaim \in Claims
  BY NobodyHoldsNoClaim
<1>7. /\ RowsTyped' /\ \A q \in CdkOps \ {o} : rows'[q] = rows[q]
      /\ rows'[o].claim = NoClaim /\ rows'[o].phase = rows[o].phase
  BY ZenonT(40), <1>1, <1>3, <1>6, ClaimUpdates
<1> HIDE DEF o
<1>8. \A q \in CdkOps : rows'[q].phase = rows[q].phase
  BY <1>7
<1>9. ClaimsOnly /\ TerminalPhaseStep
  BY <1>7, <1>8, NobodyHoldsNoClaim DEF ClaimsOnly, TerminalPhaseStep
<1>10. JournalInv'
  BY <1>5, <1>8, <1>9, QuietStep
<1> QED BY <1>4, <1>7, <1>9, <1>10 DEF Outcome

LEMMA ClaimLostKeeps ==
  ASSUME JournalTypeOK, JournalInv, NEW w \in Workers, ClaimLost(w)
  PROVE  Outcome
<1>1. StackTyped /\ RowsTyped /\ OthersWait
  BY DEF JournalTypeOK, JournalInv
<1>2. UNCHANGED <<setup, rows, barrier, resetClaim, fence>>
  BY DEF ClaimLost, engineUnchanged
<1>3. StackTyped' /\ Dropped(w)
  BY <1>1, ClaimLostEffect
<1>4. FramesOnly
  BY <1>1, <1>3, DroppedKeeps
<1>5. ClaimsOnly /\ TerminalPhaseStep /\ RowsTyped'
  BY <1>1, <1>2 DEF ClaimsOnly, TerminalPhaseStep, RowsTyped
<1>6. JournalInv'
  BY <1>2, <1>4, <1>5, QuietStep
<1> QED BY <1>3, <1>5, <1>6 DEF Outcome

LEMMA FinishKeeps ==
  ASSUME JournalTypeOK, JournalInv, NEW w \in Workers, stack[w] # <<>>, Finish(w)
  PROVE  Outcome
<1> DEFINE o == Top(w).op
           r == Top(w).res[1]
           phase == FinalPhase(rows[o].phase, r)
<1>1. /\ Working(Top(w)) /\ Owns(w, Top(w)) /\ UNCHANGED <<setup, resetClaim, fence>>
  BY DEF Finish, engineUnchanged, Working
<1>2. CASE rows' = [rows EXCEPT ![o].claim = NoClaim] /\ Leave(w, "error") /\ UNCHANGED barrier
  BY <1>1, <1>2, ReleaseKeeps
<1>3. CASE /\ rows' = [rows EXCEPT ![o] =
                [@ EXCEPT !.phase = phase, !.via = Top(w).gen,
                          !.plan = IF r.plan = <<>> THEN @ ELSE r.plan,
                          !.unverified = @ \/ r.unverified]]
           /\ barrier' = BarrierAfter(o, home(w), Top(w).token, phase) /\ Goto(w, "release")
  <2> HIDE DEF r, phase
  <2>1. StackTyped /\ RowsTyped
    BY DEF JournalTypeOK
  <2>2. PICK V : Top(w) \in FrameSet(V)
    BY <2>1, TopIsFrame
  <2>3. o \in CdkOps
    BY <2>2 DEF FrameSet
  <2>4. \E via, plan, unverified :
           rows' = [rows EXCEPT ![o] = [@ EXCEPT !.phase = phase, !.via = via, !.plan = plan,
                                                 !.unverified = unverified]]
    BY <1>3
  <2>5. RowsTyped' /\ Rewritten(o, phase)
    BY <2>1, <2>3, <2>4, RowUpdates
  <2>6. StackTyped' /\ Moved(w, "release")
    BY <1>3, <2>1, TopMoves DEF Goto
  <2>7. barrier' = barrier \/ (barrier.op = o /\ phase \in {"succeeded", "failed_definitive"})
    BY <1>3 DEF BarrierAfter
  <2> QED BY <1>1, <2>5, <2>6, <2>7, WriteKeeps
<1> QED BY <1>2, <1>3 DEF Finish

\* Each step of run_owned keeps the invariant and every terminal phase.
LEMMA StepKeeps ==
  ASSUME CdkConstants, JournalTypeOK, JournalInv, NEW w \in Workers, Step(w)
  PROVE  Outcome
<1>1. stack[w] # <<>>
  BY DEF Step
<1>2. CASE TakeBarrier(w)
  BY <1>1, <1>2, TakeBarrierKeeps
<1>3. CASE PutReconciling(w)
  BY <1>1, <1>3, PutReconcilingKeeps
<1>4. CASE Prepare(w)
  BY <1>1, <1>4, PrepareKeeps
<1>5. CASE PutPrepared(w) \/ PutSubmitted(w)
  BY <1>1, <1>5, PutKeeps
<1>6. CASE Execute(w)
  BY <1>1, <1>6, ExecuteKeeps
<1>7. CASE Await(w)
  BY <1>1, <1>7, AwaitKeeps
<1>8. CASE RecoverSagas(w)
  BY <1>1, <1>8, RecoverSagasKeeps
<1>9. CASE Decide(w)
  BY <1>1, <1>9, DecideKeeps
<1>10. CASE Reconcile(w)
  BY <1>1, <1>10, ReconcileKeeps
<1>11. CASE Finish(w)
  BY <1>1, <1>11, FinishKeeps
<1>12. CASE Release(w)
  <2>1. /\ rows' = [rows EXCEPT ![Top(w).op].claim = NoClaim] /\ \E phase : Leave(w, phase)
        /\ UNCHANGED <<setup, barrier, resetClaim, fence>>
    BY <1>12 DEF Release, engineUnchanged
  <2> QED BY <1>1, <2>1, ReleaseKeeps
<1>13. CASE ClaimLost(w)
  BY <1>13, ClaimLostKeeps
<1> QED BY <1>2, <1>3, <1>4, <1>5, <1>6, <1>7, <1>8, <1>9, <1>10, <1>11, <1>12, <1>13 DEF Step

Barriers == [op : CdkOps \cup {NoOp}, claim : Claims]

\* A worker leaves the resets alone.
LEMMA WorkerLeavesResets ==
  ASSUME CdkConstants, JournalTypeOK, NEW w \in Workers,
         Step(w) \/ \E o \in CdkOps : Start(w, o) \/ Resume(w, o)
  PROVE  /\ engineUnchanged
         /\ fence' \in Nat /\ barrier' \in Barriers
<1>1. engineUnchanged
  BY DEF Step, Start, Resume, TakeBarrier, PutReconciling, Prepare, PutPrepared, PutSubmitted,
         Execute, Await, RecoverSagas, Decide, Reconcile, Finish, Release, ClaimLost
<1>2. fence' \in Nat
  <2>1. fence' = fence \/ fence' = fence + 1
    BY DEF Step, Start, Resume, TakeBarrier, PutReconciling, Prepare, PutPrepared, PutSubmitted,
           Execute, Await, RecoverSagas, Decide, Reconcile, Finish, Release, ClaimLost, Claim
  <2> QED BY <2>1 DEF JournalTypeOK
<1>3. barrier' \in Barriers
  <2>1. barrier \in Barriers
    BY DEF JournalTypeOK, Barriers
  <2>2. CASE stack[w] # <<>> /\ TakeBarrier(w)
    <3>1. CASE barrier' = [op |-> Top(w).op, claim |-> Lease(home(w), Top(w).token)]
      <4>1. PICK V : Top(w) \in FrameSet(V)
        BY <2>2, TopIsFrame DEF JournalTypeOK
      <4>2. Top(w).op \in CdkOps /\ Top(w).token \in Nat
        BY <4>1 DEF FrameSet
      <4>3. home(w) \in Processes
        BY HomeIsProcess DEF JournalTypeOK
      <4>4. Lease(home(w), Top(w).token) \in Claims
        BY <4>2, <4>3 DEF Lease, Claims
      <4> QED BY <3>1, <4>2, <4>4 DEF Barriers
    <3> QED BY <2>1, <2>2, <3>1 DEF TakeBarrier
  <2>3. CASE Finish(w)
    <3>1. NoBarrier \in Barriers
      BY NobodyHoldsNoClaim DEF NoBarrier, Barriers
    <3>2. barrier' = barrier \/ barrier' = NoBarrier
      BY <2>3 DEF Finish, BarrierAfter
    <3> QED BY <2>1, <3>1, <3>2
  <2>4. \/ stack[w] # <<>> /\ TakeBarrier(w)
        \/ Finish(w)
        \/ barrier' = barrier
    BY DEF Step, Start, Resume, PutReconciling, Prepare, PutPrepared, PutSubmitted,
           Execute, Await, RecoverSagas, Decide, Reconcile, Release, ClaimLost
  <2> QED BY <2>1, <2>2, <2>3, <2>4
<1> QED BY <1>1, <1>2, <1>3

FullInv == JournalTypeOK /\ JournalInv /\ NextGeneration

LEMMA WorkerKeeps ==
  ASSUME CdkConstants, FullInv, NEW w \in Workers,
         Step(w) \/ \E o \in CdkOps : Start(w, o) \/ Resume(w, o)
  PROVE  FullInv' /\ TerminalPhaseStep
<1>1. JournalTypeOK /\ JournalInv
  BY DEF FullInv
<1>2. Outcome
  BY <1>1, StepKeeps, StartKeeps
<1>3. engineUnchanged /\ fence' \in Nat /\ barrier' \in Barriers
  BY <1>1, WorkerLeavesResets
<1>4. JournalTypeOK'
  BY <1>1, <1>2, <1>3 DEF JournalTypeOK, Outcome, engineUnchanged, EngineTyped, Barriers
<1>5. NextGeneration'
  BY <1>3 DEF FullInv, NextGeneration, engineUnchanged, Resetting
<1> QED BY <1>2, <1>4, <1>5 DEF FullInv, Outcome

-----------------------------------------------------------------------------
(* Resets, time and crashes.                                                 *)

\* The state of process p's engine is replaced.
LEMMA EngineUpdates ==
  ASSUME EngineTyped, NEW p \in Processes, NEW U, NEW e \in EngineSet(U),
         engine' = [engine EXCEPT ![p] = e]
  PROVE  EngineTyped' /\ engine'[p] = e /\ \A q \in Processes \ {p} : engine'[q] = engine[q]
<1>1. PICK V : engine \in [Processes -> EngineSet(V)]
  BY DEF EngineTyped
<1> DEFINE W == V \cup U
<1>2. EngineSet(V) \subseteq EngineSet(W) /\ EngineSet(U) \subseteq EngineSet(W)
  BY DEF EngineSet
<1> HIDE DEF W
<1>3. /\ engine' \in [Processes -> EngineSet(W)] /\ engine'[p] = e
      /\ \A q \in Processes \ {p} : engine'[q] = engine[q]
  BY <1>1, <1>2
<1> QED BY <1>3 DEF EngineTyped

\* A reset step that leaves the journal's rows and leases as they are.
LEMMA ResetQuiet ==
  ASSUME FullInv, UNCHANGED <<setup, stack, rows, barrier, active, fence>>,
         resetClaim' \in Claims, resetClaim' = resetClaim \/ ~resetClaim'.live,
         NEW p \in Processes, NEW U, NEW e \in EngineSet(U), engine' = [engine EXCEPT ![p] = e],
         e.reset \in {"claimed", "built"} => /\ engine[p].reset \in {"claimed", "built"}
                                            /\ e.next = engine[p].next
                                            /\ e.token = engine[p].token
  PROVE  FullInv' /\ TerminalPhaseStep
<1>1. EngineTyped' /\ engine'[p] = e /\ \A q \in Processes \ {p} : engine'[q] = engine[q]
  BY EngineUpdates DEF FullInv, JournalTypeOK
<1>2. JournalTypeOK'
  BY <1>1 DEF FullInv, JournalTypeOK, RowsTyped, StackTyped
<1>3. FramesOnly
  BY DEF FullInv, JournalInv, OthersWait, FramesOnly
<1>4. ClaimsOnly /\ TerminalPhaseStep
  BY DEF ClaimsOnly, TerminalPhaseStep
<1>5. JournalInv'
  BY <1>3, <1>4, QuietStep DEF FullInv
<1>6. NextGeneration'
  <2> SUFFICES ASSUME NEW q \in Processes, Resetting(q)', engine'[q].reset \in {"claimed", "built"}
               PROVE  engine'[q].next = active + 1
    BY DEF NextGeneration
  <2>1. resetClaim' = resetClaim
    <3>1. resetClaim' = Lease(q, engine'[q].token)
      BY DEF Resetting, Holds
    <3>2. resetClaim'.live
      BY <3>1 DEF Lease
    <3> QED BY <3>2
  <2>2. CASE q = p
    <3>1. Resetting(p) /\ engine[p].reset \in {"claimed", "built"}
      BY <1>1, <2>1, <2>2 DEF Resetting
    <3> QED BY <1>1, <2>2, <3>1 DEF FullInv, NextGeneration
  <2>3. CASE q # p
    <3>1. Resetting(q)
      BY <1>1, <2>1, <2>3 DEF Resetting
    <3> QED BY <1>1, <2>3, <3>1 DEF FullInv, NextGeneration
  <2> QED BY <2>2, <2>3
<1> QED BY <1>2, <1>4, <1>5, <1>6 DEF FullInv

LEMMA EngineFields ==
  ASSUME NEW V, NEW d \in EngineSet(V), NEW reset, NEW wallet, NEW previous,
         NEW t \in Nat, NEW n \in Int, NEW U, V \cup {reset, wallet, previous} \subseteq U
  PROVE  /\ [d EXCEPT !.reset = reset, !.previous = previous, !.wallet = wallet] \in EngineSet(U)
         /\ [d EXCEPT !.reset = reset, !.wallet = wallet] \in EngineSet(U)
         /\ [d EXCEPT !.reset = reset] \in EngineSet(U)
         /\ [d EXCEPT !.reset = reset, !.token = t, !.next = n] \in EngineSet(U)
         /\ [d EXCEPT !.reset = reset, !.token = t, !.next = n, !.previous = previous]
               \in EngineSet(U)
<1> DEFINE W == V \cup {reset, wallet, previous}
<1>1. EngineSet(W) \subseteq EngineSet(U)
  BY DEF EngineSet
<1>2. [d EXCEPT !.reset = reset, !.previous = previous, !.wallet = wallet] \in EngineSet(W)
  BY DEF EngineSet
<1>3. [d EXCEPT !.reset = reset, !.wallet = wallet] \in EngineSet(W)
  BY DEF EngineSet
<1>4. [d EXCEPT !.reset = reset] \in EngineSet(W)
  BY DEF EngineSet
<1>5. [d EXCEPT !.reset = reset, !.token = t, !.next = n] \in EngineSet(W)
  BY DEF EngineSet
<1>6. [d EXCEPT !.reset = reset, !.token = t, !.next = n, !.previous = previous]
         \in EngineSet(W)
  BY DEF EngineSet
<1> QED BY <1>1, <1>2, <1>3, <1>4, <1>5, <1>6

\* The states a reset step leaves an engine in, besides the claimed one.
Built(d, previous, wallet) ==
    [d EXCEPT !.reset = "built", !.previous = previous, !.wallet = wallet]
Releasing(d) == [d EXCEPT !.reset = "release"]
Lost(d) == [d EXCEPT !.reset = "idle", !.token = 0, !.next = 0]
Idle(d) == [d EXCEPT !.reset = "idle", !.token = 0, !.next = 0, !.previous = 0]

LEMMA ResetStates ==
  ASSUME NEW V, NEW d \in EngineSet(V), NEW wallet, NEW previous
  PROVE  \E U : /\ /\ Built(d, previous, wallet) \in EngineSet(U)
                  /\ Built(d, previous, wallet).reset = "built"
                  /\ Built(d, previous, wallet).next = d.next
                  /\ Built(d, previous, wallet).token = d.token
               /\ \A e \in {Releasing(d), RolledBack(d), Lost(d), Idle(d)} :
                     e \in EngineSet(U) /\ e.reset \notin {"claimed", "built"}
<1> DEFINE U == V \cup {wallet, previous, "built", "release", "idle", 0, d.previous}
<1>0. 0 \in Nat /\ 0 \in Int
  OBVIOUS
<1>1. /\ V \cup {"built", wallet, previous} \subseteq U
      /\ V \cup {"release", d.previous, previous} \subseteq U
      /\ V \cup {"idle", wallet, 0} \subseteq U
  OBVIOUS
<1> HIDE DEF U
<1>2. Built(d, previous, wallet) \in EngineSet(U)
  BY <1>0, <1>1, EngineFields DEF Built
<1>3. Releasing(d) \in EngineSet(U) /\ RolledBack(d) \in EngineSet(U)
  BY <1>0, <1>1, EngineFields DEF Releasing, RolledBack
<1>4. Lost(d) \in EngineSet(U)
  BY ZenonT(40), <1>0, <1>1, EngineFields DEF Lost
<1>5. Idle(d) \in EngineSet(U)
  BY <1>0, <1>1, EngineFields DEF Idle
<1>6. /\ Built(d, previous, wallet).reset = "built"
      /\ Built(d, previous, wallet).next = d.next /\ Built(d, previous, wallet).token = d.token
  BY DEF EngineSet, Built
<1>7. Releasing(d).reset = "release" /\ RolledBack(d).reset = "release"
  BY DEF EngineSet, Releasing, RolledBack
<1>8. Lost(d).reset = "idle" /\ Idle(d).reset = "idle"
  BY DEF EngineSet, Lost, Idle
<1> QED BY <1>2, <1>3, <1>4, <1>5, <1>6, <1>7, <1>8

\* The steps of a reset that change neither the journal's rows nor the active generation.
LEMMA ResetMoves ==
  ASSUME FullInv, NEW p \in Processes, NEW wallet, NEW previous,
         UNCHANGED <<setup, stack, rows, barrier, active, fence>>,
         resetClaim' \in Claims, resetClaim' = resetClaim \/ ~resetClaim'.live,
         \/ /\ engine[p].reset = "claimed"
            /\ engine' = [engine EXCEPT ![p] = Built(engine[p], previous, wallet)]
         \/ \E e \in {Releasing(engine[p]), RolledBack(engine[p]), Lost(engine[p]),
                       Idle(engine[p])} : engine' = [engine EXCEPT ![p] = e]
  PROVE  FullInv' /\ TerminalPhaseStep
<1> DEFINE d == engine[p]
<1>1. PICK V : engine \in [Processes -> EngineSet(V)]
  BY DEF FullInv, JournalTypeOK, EngineTyped
<1>2. d \in EngineSet(V)
  BY <1>1
<1>3. PICK U : /\ /\ Built(d, previous, wallet) \in EngineSet(U)
                  /\ Built(d, previous, wallet).reset = "built"
                  /\ Built(d, previous, wallet).next = d.next
                  /\ Built(d, previous, wallet).token = d.token
               /\ \A e \in {Releasing(d), RolledBack(d), Lost(d), Idle(d)} :
                     e \in EngineSet(U) /\ e.reset \notin {"claimed", "built"}
  BY <1>2, ResetStates
<1>4. CASE d.reset = "claimed" /\ engine' = [engine EXCEPT ![p] = Built(d, previous, wallet)]
  BY <1>3, <1>4, ResetQuiet
<1>5. CASE \E e \in {Releasing(d), RolledBack(d), Lost(d), Idle(d)} :
             engine' = [engine EXCEPT ![p] = e]
  <2>1. PICK e \in {Releasing(d), RolledBack(d), Lost(d), Idle(d)} :
           engine' = [engine EXCEPT ![p] = e]
    BY <1>5
  <2>2. e \in EngineSet(U) /\ e.reset \notin {"claimed", "built"}
    BY <1>3
  <2> QED BY <2>1, <2>2, ResetQuiet
<1> QED BY <1>4, <1>5

\* try_claim_reset finds no live lease.
LEMMA ClaimResetKeeps ==
  ASSUME FullInv, NEW p \in Processes, ClaimReset(p)
  PROVE  FullInv' /\ TerminalPhaseStep
<1>1. /\ UNCHANGED <<setup, stack, rows, barrier, active>> /\ fence \in Nat /\ fence' = fence + 1
      /\ resetClaim' = Lease(p, fence + 1) /\ \A o \in CdkOps : ~rows[o].claim.live
      /\ active \in Int
  BY DEF ClaimReset, resetUnchanged, FullInv, JournalTypeOK
<1>2. PICK V : engine \in [Processes -> EngineSet(V)]
  BY DEF FullInv, JournalTypeOK, EngineTyped
<1> DEFINE d == engine[p]
           U == V \cup {"claimed"}
           e == [d EXCEPT !.reset = "claimed", !.token = fence + 1, !.next = active + 1]
<1>3. engine' = [engine EXCEPT ![p] = e]
  BY DEF ClaimReset
<1>4. d \in EngineSet(V)
  BY <1>2
<1> HIDE DEF d
<1>5. e \in EngineSet(U) /\ e.next = active + 1
  <2>1. fence + 1 \in Nat /\ active + 1 \in Int
    BY <1>1
  <2>2. e \in EngineSet(U)
    BY <1>4, <2>1, EngineFields
  <2>3. e.next = active + 1
    BY <1>4 DEF EngineSet
  <2> QED BY <2>2, <2>3
<1> HIDE DEF e, U
<1>6. EngineTyped' /\ engine'[p] = e /\ \A q \in Processes \ {p} : engine'[q] = engine[q]
  BY <1>3, <1>5, EngineUpdates DEF FullInv, JournalTypeOK
<1>7. fence + 1 \in Nat /\ \A t \in 0 .. fence : t \in 0 .. fence'
  BY <1>1
<1>8. Lease(p, fence + 1) \in Claims
  BY <1>7 DEF Lease, Claims
<1>9. JournalTypeOK'
  BY <1>1, <1>6, <1>7, <1>8 DEF FullInv, JournalTypeOK, RowsTyped, StackTyped
<1>10. FramesOnly
  BY <1>1 DEF FullInv, JournalInv, OthersWait, FramesOnly
<1>11. ClaimsOnly /\ TerminalPhaseStep
  BY <1>1 DEF ClaimsOnly, TerminalPhaseStep
<1>12. JournalInv'
  BY <1>1, <1>7, <1>10, <1>11, QuietStep DEF FullInv
<1>13. NextGeneration'
  <2> SUFFICES ASSUME NEW q \in Processes, Resetting(q)'
               PROVE  engine'[q].next = active' + 1
    BY DEF NextGeneration
  <2>1. Lease(p, fence + 1) = Lease(q, engine'[q].token)
    BY <1>1 DEF Resetting, Holds
  <2>2. q = p
    BY <2>1, LeaseNamesHolder
  <2> QED BY <1>1, <1>5, <1>6, <2>2
<1> QED BY <1>9, <1>11, <1>12, <1>13 DEF FullInv

\* The store's reset removes every operation and moves to another generation.
LEMMA ResetStoreKeeps ==
  ASSUME CdkConstants, FullInv, NEW p \in Processes, ResetStore(p), Resetting(p)
  PROVE  FullInv' /\ TerminalPhaseStep
<1>1. /\ UNCHANGED <<setup, stack, fence, resetClaim>> /\ engine[p].reset = "built"
      /\ rows' = [o \in CdkOps |-> NoRow] /\ barrier' = NoBarrier /\ active' = engine[p].next
      /\ engine' = [engine EXCEPT ![p].reset = "cleanup"]
  BY DEF ResetStore, resetUnchanged
<1>2. PICK V : engine \in [Processes -> EngineSet(V)]
  BY DEF FullInv, JournalTypeOK, EngineTyped
<1> DEFINE d == engine[p]
           U == V \cup {"cleanup"}
           e == [d EXCEPT !.reset = "cleanup"]
<1>3. engine' = [engine EXCEPT ![p] = e]
  BY <1>1
<1>4. d \in EngineSet(V)
  BY <1>2
<1> HIDE DEF d
<1>5. e \in EngineSet(U) /\ e.reset = "cleanup" /\ d.next \in Int
  BY <1>4 DEF EngineSet
<1> HIDE DEF e, U
<1>6. EngineTyped' /\ engine'[p] = e /\ \A q \in Processes \ {p} : engine'[q] = engine[q]
  BY <1>3, <1>5, EngineUpdates DEF FullInv, JournalTypeOK
<1>7. active' # active /\ active' \in Int
  <2>1. active' = active + 1 /\ active \in Int
    BY <1>1 DEF FullInv, NextGeneration, JournalTypeOK
  <2> QED BY <2>1
<1>8. /\ \A o \in CdkOps : rows'[o].phase = "none" /\ rows'[o].claim = NoClaim
      /\ RowsTyped'
  <2>1. NoRow \in RowSet({"none", <<>>, FALSE, 0})
    BY NobodyHoldsNoClaim DEF NoRow, RowSet
  <2>2. NoRow.phase = "none" /\ NoRow.claim = NoClaim
    BY DEF NoRow
  <2> HIDE DEF NoRow
  <2> QED BY <1>1, <2>1, <2>2 DEF RowsTyped
<1>9. JournalTypeOK'
  <2>1. barrier' \in [op : CdkOps \cup {NoOp}, claim : Claims]
    BY <1>1, NobodyHoldsNoClaim DEF NoBarrier
  <2> QED BY <1>1, <1>6, <1>7, <1>8, <2>1 DEF FullInv, JournalTypeOK, StackTyped
<1>10. ResetExcludes' /\ UnresolvedHolds'
  BY <1>8, NobodyHoldsNoClaim DEF ResetExcludes, UnresolvedHolds, Unresolved, LifecyclePhases
<1>11. TokensIssued' /\ TokensUnique' /\ OthersWait'
  BY <1>1 DEF FullInv, JournalInv, TokensIssued, TokensUnique, OthersWait
<1>12. WorkIsOwned'
  BY <1>8, <1>11, NobodyHoldsNoClaim DEF WorkIsOwned, TokensIssued, Owns
<1>13. NextGeneration'
  <2> SUFFICES ASSUME NEW q \in Processes, Resetting(q)'
               PROVE  engine'[q].reset \notin {"claimed", "built"}
    BY DEF NextGeneration
  <2>1. Lease(p, engine[p].token) = Lease(q, engine'[q].token)
    BY <1>1 DEF Resetting, Holds
  <2>2. q = p
    BY <2>1, LeaseNamesHolder
  <2> QED BY <1>5, <1>6, <2>2
<1>14. TerminalPhaseStep
  BY <1>7 DEF TerminalPhaseStep
<1> QED BY <1>9, <1>10, <1>11, <1>12, <1>13, <1>14 DEF FullInv, JournalInv

LEMMA ResetStepKeeps ==
  ASSUME CdkConstants, FullInv, NEW p \in Processes, ResetStep(p)
  PROVE  FullInv' /\ TerminalPhaseStep
<1>1. resetClaim \in Claims /\ NoClaim \in Claims /\ ~NoClaim.live
  BY NobodyHoldsNoClaim DEF FullInv, JournalTypeOK
<1>2. PICK V : engine \in [Processes -> EngineSet(V)]
  BY DEF FullInv, JournalTypeOK, EngineTyped
<1>3. CASE ClaimReset(p)
  BY <1>3, ClaimResetKeeps
<1>4. CASE ResetStore(p) /\ Resetting(p)
  BY <1>4, ResetStoreKeeps
<1>5. CASE ResetStore(p) /\ ~Resetting(p)
  <2>1. /\ UNCHANGED <<setup, stack, rows, barrier, active, fence, resetClaim>>
        /\ engine' = [engine EXCEPT ![p] = RolledBack(engine[p])]
    BY <1>5 DEF ResetStore, resetUnchanged
  <2> QED BY <1>1, <2>1, ResetMoves
<1>6. CASE ResetGeneration(p)
  <2>1. /\ UNCHANGED <<setup, stack, rows, barrier, active, fence, resetClaim>>
        /\ \/ /\ engine[p].reset = "claimed"
              /\ engine' = [engine EXCEPT ![p] = Built(engine[p], engine[p].wallet,
                                                       engine[p].next)]
           \/ engine' = [engine EXCEPT ![p] = Releasing(engine[p])]
    BY <1>6, <1>2 DEF ResetGeneration, resetUnchanged, Built, Releasing
  <2> QED BY <1>1, <2>1, ResetMoves
<1>7. CASE ResetCleanup(p)
  <2>1. /\ UNCHANGED <<setup, stack, rows, barrier, active, fence, resetClaim>>
        /\ engine' = [engine EXCEPT ![p] = Releasing(engine[p])]
    BY <1>7, <1>2 DEF ResetCleanup, resetUnchanged, Releasing
  <2> QED BY <1>1, <2>1, ResetMoves
<1>8. CASE ReleaseReset(p)
  <2>1. /\ UNCHANGED <<setup, stack, rows, barrier, active, fence>>
        /\ resetClaim' = resetClaim \/ resetClaim' = NoClaim
        /\ engine' = [engine EXCEPT ![p] = Idle(engine[p])]
    BY <1>8, <1>2 DEF ReleaseReset, resetUnchanged, Idle
  <2> QED BY <1>1, <2>1, ResetMoves
<1>9. CASE ResetLost(p)
  <2>1. /\ UNCHANGED <<setup, stack, rows, barrier, active, fence, resetClaim>>
        /\ engine' = [engine EXCEPT ![p] = Lost(engine[p])]
    BY <1>9, <1>2 DEF ResetLost, resetUnchanged, Lost
  <2> QED BY <1>1, <2>1, ResetMoves
<1> QED BY <1>3, <1>4, <1>5, <1>6, <1>7, <1>8, <1>9 DEF ResetStep

\* A lease runs out: one of an operation with or before the barrier's, or a reset's.
LEMMA ExpireKeeps ==
  ASSUME FullInv, Expire
  PROVE  FullInv' /\ TerminalPhaseStep
<1>1. UNCHANGED <<setup, fence, active, engine, stack>>
  BY DEF Expire
<1>2. barrier' \in Barriers /\ barrier'.op = barrier.op
  <2>1. barrier \in Barriers
    BY DEF FullInv, JournalTypeOK, Barriers
  <2>2. [barrier EXCEPT !.claim.live = FALSE] \in Barriers
    BY <2>1 DEF Barriers, Claims
  <2>3. [barrier EXCEPT !.claim.live = FALSE].op = barrier.op
    BY <2>1 DEF Barriers
  <2>4. barrier' = barrier \/ barrier' = [barrier EXCEPT !.claim.live = FALSE]
    BY DEF Expire
  <2> QED BY <2>1, <2>2, <2>3, <2>4
<1>3. /\ resetClaim' \in Claims
      /\ resetClaim' = resetClaim \/ ~resetClaim'.live
  <2>1. resetClaim \in Claims
    BY DEF FullInv, JournalTypeOK
  <2>2. /\ [resetClaim EXCEPT !.live = FALSE] \in Claims
        /\ ~[resetClaim EXCEPT !.live = FALSE].live
    BY <2>1 DEF Claims
  <2>3. resetClaim' = resetClaim \/ resetClaim' = [resetClaim EXCEPT !.live = FALSE]
    BY DEF Expire
  <2> QED BY <2>1, <2>2, <2>3
<1>4. RowsTyped' /\ ClaimsOnly /\ \A o \in CdkOps : rows'[o].phase = rows[o].phase
  <2>1. RowsTyped
    BY DEF FullInv, JournalTypeOK
  <2>2. CASE rows' = rows
    BY <2>1, <2>2 DEF RowsTyped, ClaimsOnly
  <2>3. CASE \E o \in CdkOps : rows' = [rows EXCEPT ![o].claim.live = FALSE]
    <3>1. PICK o \in CdkOps : rows' = [rows EXCEPT ![o].claim.live = FALSE]
      BY <2>3
    <3>2. PICK V : rows \in [CdkOps -> RowSet(V)]
      BY <2>1 DEF RowsTyped
    <3> DEFINE c == [rows[o].claim EXCEPT !.live = FALSE]
    <3>3. rows[o].claim \in Claims
      <4>1. rows[o] \in RowSet(V)
        BY <3>2
      <4> QED BY <4>1 DEF RowSet
    <3>4. c \in Claims /\ c.live = FALSE
      BY <3>3 DEF Claims
    <3>5. rows' = [rows EXCEPT ![o].claim = c]
      BY <3>1
    <3> HIDE DEF c
    <3>6. /\ RowsTyped' /\ \A q \in CdkOps \ {o} : rows'[q] = rows[q]
          /\ rows'[o].claim = c /\ rows'[o].phase = rows[o].phase
      BY <2>1, <3>4, <3>5, ClaimUpdates
    <3>7. \A p, t : ~Holds(c, p, t)
      <4> SUFFICES ASSUME NEW p, NEW t, c = Lease(p, t) PROVE FALSE
        BY DEF Holds
      <4>1. c.live = TRUE
        BY DEF Lease
      <4> QED BY <3>4, <4>1
    <3> QED BY <3>4, <3>6, <3>7 DEF ClaimsOnly
  <2> QED BY <2>2, <2>3 DEF Expire
<1>5. FramesOnly
  BY <1>1 DEF FullInv, JournalInv, OthersWait, FramesOnly
<1>6. JournalInv'
  BY <1>1, <1>2, <1>3, <1>4, <1>5, QuietStep DEF FullInv
<1>7. JournalTypeOK'
  BY <1>1, <1>2, <1>3, <1>4 DEF FullInv, JournalTypeOK, StackTyped, EngineTyped, Barriers
<1>8. NextGeneration'
  <2> SUFFICES ASSUME NEW p \in Processes, Resetting(p)' PROVE resetClaim' = resetClaim
    BY <1>1 DEF FullInv, NextGeneration, Resetting
  <2>1. resetClaim' = Lease(p, engine'[p].token)
    BY DEF Resetting, Holds
  <2>2. resetClaim'.live
    BY <2>1 DEF Lease
  <2> QED BY <1>3, <2>2
<1>9. TerminalPhaseStep
  BY <1>4 DEF TerminalPhaseStep
<1> QED BY <1>6, <1>7, <1>8, <1>9 DEF FullInv

\* A claim of a process that died is nobody's.
Disowned(claim, p) == IF claim.owner = p THEN [claim EXCEPT !.owner = NoOne] ELSE claim

LEMMA DisownedClaims ==
  ASSUME CdkConstants, NEW claim \in Claims, NEW p \in Processes, NEW q \in Processes, NEW t
  PROVE  /\ Disowned(claim, p) \in Claims /\ Disowned(claim, p).live = claim.live
         /\ Holds(Disowned(claim, p), q, t) => q # p /\ Disowned(claim, p) = claim
<1>1. Disowned(claim, p) \in Claims /\ Disowned(claim, p).live = claim.live
  BY DEF Disowned, Claims
<1>2. ASSUME Disowned(claim, p) = Lease(q, t) PROVE q # p /\ Disowned(claim, p) = claim
  <2>1. Disowned(claim, p).owner = q
    BY <1>2 DEF Lease
  <2>2. CASE claim.owner = p
    <3>1. Disowned(claim, p).owner = NoOne
      BY <2>2 DEF Disowned, Claims
    <3> QED BY <2>1, <3>1 DEF CdkConstants
  <2>3. CASE claim.owner # p
    BY <2>1, <2>3 DEF Disowned
  <2> QED BY <2>2, <2>3
<1> QED BY <1>1, <1>2 DEF Holds

LEMMA CrashKeeps ==
  ASSUME CdkConstants, FullInv, NEW p \in Processes, Crash(p)
  PROVE  FullInv' /\ TerminalPhaseStep
<1> DEFINE e == [wallet |-> active, reset |-> "idle", token |-> 0, next |-> 0, previous |-> 0]
<1>1. /\ UNCHANGED <<setup, fence, active>>
      /\ stack' = [w \in Workers |-> IF home(w) = p THEN <<>> ELSE stack[w]]
      /\ rows' = [o \in CdkOps |-> [rows[o] EXCEPT !.claim = Disowned(rows[o].claim, p)]]
      /\ barrier' = [barrier EXCEPT !.claim = Disowned(barrier.claim, p)]
      /\ resetClaim' = Disowned(resetClaim, p)
      /\ engine' = [engine EXCEPT ![p] = e]
  BY DEF Crash, Disowned
<1>2. PICK V : rows \in [CdkOps -> RowSet(V)]
  BY DEF FullInv, JournalTypeOK, RowsTyped
<1>3. \A o \in CdkOps : rows[o] \in RowSet(V) /\ rows[o].claim \in Claims
  BY <1>2 DEF RowSet
<1>4. /\ RowsTyped'
      /\ \A o \in CdkOps : /\ rows'[o].phase = rows[o].phase
                           /\ rows'[o].claim = Disowned(rows[o].claim, p)
  <2> DEFINE r(o) == [rows[o] EXCEPT !.claim = Disowned(rows[o].claim, p)]
  <2>1. ASSUME NEW o \in CdkOps
        PROVE  /\ r(o) \in RowSet(V) /\ r(o).phase = rows[o].phase
               /\ r(o).claim = Disowned(rows[o].claim, p)
    <3> DEFINE c == Disowned(rows[o].claim, p)
    <3>1. c \in Claims /\ rows[o] \in RowSet(V)
      BY <1>3, DisownedClaims
    <3> HIDE DEF c
    <3>2. /\ [rows[o] EXCEPT !.claim = c] \in RowSet(V)
          /\ [rows[o] EXCEPT !.claim = c].phase = rows[o].phase
          /\ [rows[o] EXCEPT !.claim = c].claim = c
      BY <3>1 DEF RowSet
    <3> QED BY <3>2 DEF c
  <2>2. rows' = [o \in CdkOps |-> r(o)]
    BY <1>1
  <2> HIDE DEF r
  <2>3. rows' \in [CdkOps -> RowSet(V)] /\ \A o \in CdkOps : rows'[o] = r(o)
    BY <2>1, <2>2
  <2> QED BY <2>1, <2>3 DEF RowsTyped
<1>5. barrier' \in Barriers /\ barrier'.op = barrier.op
  <2> DEFINE c == Disowned(barrier.claim, p)
  <2>1. barrier \in Barriers /\ barrier.claim \in Claims
    BY DEF FullInv, JournalTypeOK, Barriers
  <2>2. c \in Claims
    BY <2>1, DisownedClaims
  <2> HIDE DEF c
  <2>3. /\ [barrier EXCEPT !.claim = c] \in Barriers
        /\ [barrier EXCEPT !.claim = c].op = barrier.op
    BY <2>1, <2>2 DEF Barriers
  <2> QED BY <1>1, <2>3 DEF c
<1>6. resetClaim' \in Claims /\ resetClaim'.live = resetClaim.live
  BY <1>1, DisownedClaims DEF FullInv, JournalTypeOK
<1>7. /\ EngineTyped' /\ engine'[p] = e /\ e.reset = "idle"
      /\ \A q \in Processes \ {p} : engine'[q] = engine[q]
  <2>1. e \in EngineSet({active, "idle", 0}) /\ e.reset = "idle"
    BY DEF EngineSet
  <2> HIDE DEF e
  <2> QED BY <1>1, <2>1, EngineUpdates DEF FullInv, JournalTypeOK
<1>8. StackTyped'
  <2>1. PICK X : stack \in [Workers -> Seq(FrameSet(X))]
    BY DEF FullInv, JournalTypeOK, StackTyped
  <2>2. <<>> \in Seq(FrameSet(X))
    OBVIOUS
  <2>3. stack' \in [Workers -> Seq(FrameSet(X))]
    BY <1>1, <2>1, <2>2
  <2> QED BY <2>3 DEF StackTyped
<1>9. \A v \in Workers : \A i \in DOMAIN stack'[v] :
         home(v) # p /\ stack'[v] = stack[v]
  <2>1. DOMAIN <<>> = {}
    OBVIOUS
  <2> QED BY <1>1, <2>1
<1>10. FramesOnly
  BY <1>9 DEF FullInv, JournalInv, OthersWait, FramesOnly
<1>11. TerminalPhaseStep
  BY <1>4 DEF TerminalPhaseStep
<1>12. ResetExcludes' /\ UnresolvedHolds'
  <2>1. \A o \in CdkOps : rows'[o].claim.live = rows[o].claim.live
    BY ZenonT(40), <1>3, <1>4, DisownedClaims
  <2>2. ResetExcludes'
    BY <1>6, <2>1 DEF FullInv, JournalInv, ResetExcludes
  <2>3. UnresolvedHolds'
    BY <1>1, <1>4, <1>5 DEF FullInv, JournalInv, UnresolvedHolds, Unresolved, kind
  <2> QED BY <2>2, <2>3
<1>13. TokensIssued' /\ TokensUnique' /\ OthersWait'
  BY <1>1, <1>9 DEF FullInv, JournalInv, TokensIssued, TokensUnique, OthersWait
<1>14. WorkIsOwned'
  <2> SUFFICES ASSUME NEW v \in Workers, NEW i \in DOMAIN stack'[v],
                      Working(stack'[v][i]), Owns(v, stack[v][i])'
               PROVE  Entitled(stack[v][i].op)'
    BY DEF WorkIsOwned, Working
  <2>1. stack'[v] = stack[v] /\ stack[v][i].op \in CdkOps /\ i \in DOMAIN stack[v]
    BY <1>9 DEF FullInv, JournalInv, TokensIssued
  <2>2. home(v) \in Processes
    BY HomeIsProcess DEF FullInv, JournalTypeOK
  <2>3. Holds(Disowned(rows[stack[v][i].op].claim, p), home(v), stack[v][i].token)
    BY <1>1, <1>4, <2>1 DEF Owns, home
  <2>4. Owns(v, stack[v][i])
    BY <1>3, <2>1, <2>2, <2>3, DisownedClaims DEF Owns
  <2>5. Entitled(stack[v][i].op)
    BY <2>1, <2>4 DEF FullInv, JournalInv, WorkIsOwned
  <2> QED BY <1>1, <1>4, <1>5, <2>1, <2>5 DEF Entitled, kind
<1>15. NextGeneration'
  <2> SUFFICES ASSUME NEW q \in Processes, Resetting(q)',
                      engine'[q].reset \in {"claimed", "built"}
               PROVE  engine'[q].next = active + 1
    BY <1>1 DEF NextGeneration
  <2>1. q # p
    BY <1>7
  <2>2. Holds(Disowned(resetClaim, p), q, engine[q].token)
    BY <1>1, <1>7, <2>1 DEF Resetting
  <2>3. Resetting(q)
    BY <2>2, DisownedClaims DEF Resetting, FullInv, JournalTypeOK
  <2> QED BY <1>7, <2>1, <2>3 DEF FullInv, NextGeneration
<1>16. JournalTypeOK'
  BY <1>1, <1>4, <1>5, <1>6, <1>7, <1>8 DEF FullInv, JournalTypeOK, Barriers
<1> QED BY <1>11, <1>12, <1>13, <1>14, <1>15, <1>16 DEF FullInv, JournalInv

\* Everything else leaves the journal as it is, but for the tokens it issues.
LEMMA OthersKeep ==
  ASSUME FullInv, UNCHANGED <<setup, rows, barrier, resetClaim, active, engine, stack>>,
         fence' = fence \/ fence' = fence + 1
  PROVE  FullInv' /\ TerminalPhaseStep
<1>1. fence \in Nat
  BY DEF FullInv, JournalTypeOK
<1>2. fence' \in Nat /\ \A t \in 0 .. fence : t \in 0 .. fence'
  BY <1>1
<1>3. FramesOnly
  BY DEF FullInv, JournalInv, OthersWait, FramesOnly
<1>4. ClaimsOnly /\ TerminalPhaseStep
  BY DEF ClaimsOnly, TerminalPhaseStep
<1>5. JournalInv'
  BY <1>2, <1>3, <1>4, QuietStep DEF FullInv
<1>6. JournalTypeOK'
  BY <1>2 DEF FullInv, JournalTypeOK, RowsTyped, StackTyped, EngineTyped
<1>7. NextGeneration'
  BY DEF FullInv, NextGeneration, Resetting
<1> QED BY <1>4, <1>5, <1>6, <1>7 DEF FullInv

LEMMA FullInvInit ==
  ASSUME CdkConstants, CdkInit
  PROVE  FullInv
<1> USE DEF CdkInit
<1>1. RowsTyped /\ \A o \in CdkOps : rows[o].phase = "none" /\ rows[o].claim = NoClaim
  <2>1. NoRow \in RowSet({"none", <<>>, FALSE, 0})
    BY NobodyHoldsNoClaim DEF NoRow, RowSet
  <2>2. NoRow.phase = "none" /\ NoRow.claim = NoClaim
    BY DEF NoRow
  <2> HIDE DEF NoRow
  <2> QED BY <2>1, <2>2 DEF RowsTyped
<1>2. StackTyped
  <2>1. <<>> \in Seq(FrameSet({}))
    OBVIOUS
  <2>2. stack \in [Workers -> Seq(FrameSet({}))]
    BY <2>1
  <2> QED BY <2>2 DEF StackTyped
<1>3. EngineTyped
  <2>1. [wallet |-> 1, reset |-> "idle", token |-> 0, next |-> 0, previous |-> 0]
           \in EngineSet({0, 1, "idle"})
    BY DEF EngineSet
  <2>2. engine \in [Processes -> EngineSet({0, 1, "idle"})]
    BY <2>1
  <2> QED BY <2>2 DEF EngineTyped
<1>4. JournalTypeOK
  <2>1. barrier \in [op : CdkOps \cup {NoOp}, claim : Claims] /\ resetClaim \in Claims
    BY NobodyHoldsNoClaim DEF NoBarrier
  <2>2. fence \in Nat /\ active \in Int
    OBVIOUS
  <2> QED BY <1>1, <1>2, <1>3, <2>1, <2>2 DEF JournalTypeOK
<1>5. \A v \in Workers : DOMAIN stack[v] = {}
  <2>1. DOMAIN <<>> = {}
    OBVIOUS
  <2> QED BY <2>1
<1>6. ResetExcludes /\ UnresolvedHolds
  BY <1>1, NobodyHoldsNoClaim DEF ResetExcludes, UnresolvedHolds, Unresolved, LifecyclePhases
<1>7. TokensIssued /\ TokensUnique /\ WorkIsOwned /\ OthersWait
  BY <1>5 DEF TokensIssued, TokensUnique, WorkIsOwned, OthersWait
<1>8. NextGeneration
  BY NobodyHoldsNoClaim DEF NextGeneration, Resetting
<1> QED BY <1>4, <1>6, <1>7, <1>8 DEF FullInv, JournalInv

LEMMA FullInvNext ==
  ASSUME CdkConstants, FullInv, CdkNext
  PROVE  FullInv' /\ TerminalPhaseStep
<1>1. CASE \E w \in Workers : (\E o \in CdkOps : Start(w, o) \/ Resume(w, o)) \/ Step(w)
  BY <1>1, WorkerKeeps
<1>2. CASE \E p \in Range(setup.home) : ResetStep(p) \/ Crash(p)
  <2>1. Range(setup.home) \subseteq Processes
    BY DEF FullInv, JournalTypeOK, CdkConstants, Range
  <2> QED BY <1>2, <2>1, ResetStepKeeps, CrashKeeps
<1>3. CASE \E c \in Consumers : SettleHandoff(c) \/ \E o \in CdkOps : ClaimHandoff(c, o)
  <2>1. /\ UNCHANGED <<setup, rows, barrier, resetClaim, active, engine, stack>>
        /\ fence' = fence \/ fence' = fence + 1
    BY <1>3 DEF SettleHandoff, ClaimHandoff, outboxUnchanged
  <2> QED BY <2>1, OthersKeep
<1>4. CASE \E g \in Generations, o \in CdkOps : MintExecutes(g, o) \/ QuotePaid(g, o)
  <2>1. UNCHANGED <<setup, rows, barrier, resetClaim, active, engine, stack, fence>>
    BY <1>4 DEF MintExecutes, QuotePaid
  <2> QED BY <2>1, OthersKeep
<1>5. CASE Expire
  BY <1>5, ExpireKeeps
<1> QED BY <1>1, <1>2, <1>3, <1>4, <1>5 DEF CdkNext

LEMMA FullInvStep ==
  ASSUME CdkConstants, FullInv, [CdkNext]_cdkVars
  PROVE  FullInv' /\ [TerminalPhaseStep]_cdkVars
<1>1. CASE CdkNext
  BY <1>1, FullInvNext
<1>2. CASE UNCHANGED cdkVars
  <2>1. UNCHANGED <<setup, rows, barrier, resetClaim, active, engine, stack, fence>>
    BY <1>2 DEF cdkVars
  <2> QED BY <1>2, <2>1, OthersKeep
<1> QED BY <1>1, <1>2

LEMMA FullInvExclusive ==
  ASSUME FullInv
  PROVE  JournalIsExclusive
  BY DEF FullInv, JournalInv, UnresolvedHolds, ResetExcludes, JournalIsExclusive

-----------------------------------------------------------------------------
(* The wallet generations of a single process.                               *)

\* At each step of a reset: which generation is open, which one comes next, and that
\* the one the journal calls active is on disk.
GenerationOK(e) ==
    /\ active \in files
    /\ e.reset \in {"idle", "claimed", "built", "cleanup", "release"}
    /\ e.reset \in {"idle", "claimed", "cleanup", "release"} => e.wallet = active
    /\ e.reset \in {"claimed", "built"} => e.next = active + 1
    /\ e.reset = "built" => e.previous = active /\ e.wallet = e.next /\ e.next \in files
    /\ e.reset = "cleanup" => e.next = active

GenerationInv ==
    \A p \in Processes : Range(setup.home) = {p} => GenerationOK(engine[p])

LEMMA EngineFieldUpdates ==
  ASSUME NEW V, NEW d \in EngineSet(V), NEW wallet, NEW previous, NEW t, NEW n, NEW r
  PROVE  /\ LET e == [d EXCEPT !.reset = r, !.token = t, !.next = n]
            IN  e.reset = r /\ e.wallet = d.wallet /\ e.next = n
         /\ LET e == Built(d, previous, wallet)
            IN  /\ e.reset = "built" /\ e.previous = previous /\ e.wallet = wallet
                /\ e.next = d.next
         /\ LET e == [d EXCEPT !.reset = r]
            IN  e.reset = r /\ e.wallet = d.wallet /\ e.next = d.next
         /\ RolledBack(d).reset = "release" /\ RolledBack(d).wallet = d.previous
         /\ Idle(d).reset = "idle" /\ Idle(d).wallet = d.wallet
<1>1. LET e == [d EXCEPT !.reset = r, !.token = t, !.next = n]
      IN  e.reset = r /\ e.wallet = d.wallet /\ e.next = n
  BY DEF EngineSet
<1>2. LET e == Built(d, previous, wallet)
      IN  /\ e.reset = "built" /\ e.previous = previous /\ e.wallet = wallet
          /\ e.next = d.next
  BY DEF EngineSet, Built
<1>3. LET e == [d EXCEPT !.reset = r]
      IN  e.reset = r /\ e.wallet = d.wallet /\ e.next = d.next
  BY DEF EngineSet
<1>4. RolledBack(d).reset = "release" /\ RolledBack(d).wallet = d.previous
  BY DEF EngineSet, RolledBack
<1>5. Idle(d).reset = "idle" /\ Idle(d).wallet = d.wallet
  BY DEF EngineSet, Idle
<1> QED BY <1>1, <1>2, <1>3, <1>4, <1>5

\* A reset leads from one generation to the next or back, and never drops the active one.
LEMMA ResetKeepsGeneration ==
  ASSUME EngineTyped, active \in Int, NEW p \in Processes, GenerationOK(engine[p]),
         ResetStep(p) \/ Crash(p)
  PROVE  GenerationOK(engine[p])'
<1> DEFINE d == engine[p]
<1>1. PICK V : engine \in [Processes -> EngineSet(V)]
  BY DEF EngineTyped
<1>2. d \in EngineSet(V) /\ \A e : engine' = [engine EXCEPT ![p] = e] => engine'[p] = e
  BY <1>1
<1>3. CASE ClaimReset(p)
  <2> DEFINE e == [d EXCEPT !.reset = "claimed", !.token = fence + 1, !.next = active + 1]
  <2>1. d.reset = "idle" /\ engine' = [engine EXCEPT ![p] = e] /\ UNCHANGED <<active, files>>
    BY <1>3 DEF ClaimReset
  <2>2. engine'[p] = e
    BY <1>2, <2>1
  <2>3. e.reset = "claimed" /\ e.wallet = d.wallet /\ e.next = active + 1
    BY <1>2, EngineFieldUpdates
  <2> HIDE DEF e
  <2> QED BY <2>1, <2>2, <2>3 DEF GenerationOK
<1>4. CASE ResetGeneration(p)
  <2>1. d.reset = "claimed" /\ UNCHANGED active /\ d.next # active
    BY <1>4 DEF ResetGeneration, GenerationOK
  <2>2. \/ /\ engine' = [engine EXCEPT ![p] = Built(d, d.wallet, d.next)]
           /\ files' = files \cup {d.next}
        \/ engine' = [engine EXCEPT ![p] = [d EXCEPT !.reset = "release"]] /\ files' = files \ {d.next}
    BY <1>1, <1>4 DEF ResetGeneration, Built
  <2>3. CASE engine' = [engine EXCEPT ![p] = Built(d, d.wallet, d.next)]
             /\ files' = files \cup {d.next}
    <3>1. engine'[p] = Built(d, d.wallet, d.next)
      BY <1>2, <2>3
    <3>2. /\ engine'[p].reset = "built" /\ engine'[p].previous = d.wallet
          /\ engine'[p].wallet = d.next /\ engine'[p].next = d.next
      BY <1>2, <3>1, EngineFieldUpdates
    <3> QED BY <2>1, <2>3, <3>2 DEF GenerationOK
  <2>4. CASE engine' = [engine EXCEPT ![p] = [d EXCEPT !.reset = "release"]] /\ files' = files \ {d.next}
    <3>1. engine'[p] = [d EXCEPT !.reset = "release"]
      BY <1>2, <2>4
    <3>2. engine'[p].reset = "release" /\ engine'[p].wallet = d.wallet
      BY <1>2, <3>1, EngineFieldUpdates
    <3> QED BY <2>1, <2>4, <3>2 DEF GenerationOK
  <2> QED BY <2>2, <2>3, <2>4
<1>5. CASE ResetStore(p)
  <2>1. /\ d.reset = "built" /\ d.next # active /\ d.previous = active /\ d.wallet = d.next
        /\ d.next \in files /\ active \in files
    BY <1>5 DEF ResetStore, GenerationOK
  <2>2. \/ /\ engine' = [engine EXCEPT ![p] = [d EXCEPT !.reset = "cleanup"]]
           /\ active' = d.next /\ files' = files
        \/ /\ engine' = [engine EXCEPT ![p] = RolledBack(d)]
           /\ active' = active /\ files' = files \ {d.next}
    BY <1>1, <1>5 DEF ResetStore
  <2>3. CASE /\ engine' = [engine EXCEPT ![p] = [d EXCEPT !.reset = "cleanup"]]
             /\ active' = d.next /\ files' = files
    <3>1. engine'[p] = [d EXCEPT !.reset = "cleanup"]
      BY <1>2, <2>3
    <3>2. engine'[p].reset = "cleanup" /\ engine'[p].wallet = d.wallet /\ engine'[p].next = d.next
      BY <1>2, <3>1, EngineFieldUpdates
    <3> QED BY <2>1, <2>3, <3>2 DEF GenerationOK
  <2>4. CASE /\ engine' = [engine EXCEPT ![p] = RolledBack(d)]
             /\ active' = active /\ files' = files \ {d.next}
    <3>1. engine'[p] = RolledBack(d)
      BY <1>2, <2>4
    <3>2. engine'[p].reset = "release" /\ engine'[p].wallet = d.previous
      BY <1>2, <3>1, EngineFieldUpdates
    <3> QED BY <2>1, <2>4, <3>2 DEF GenerationOK
  <2> QED BY <2>2, <2>3, <2>4
<1>6. CASE ResetCleanup(p)
  <2>1. /\ d.reset = "cleanup" /\ UNCHANGED active /\ files' \in {files, files \cap {d.next}}
        /\ engine' = [engine EXCEPT ![p] = [d EXCEPT !.reset = "release"]]
    BY <1>1, <1>6 DEF ResetCleanup
  <2>2. engine'[p] = [d EXCEPT !.reset = "release"]
    BY <1>2, <2>1
  <2>3. engine'[p].reset = "release" /\ engine'[p].wallet = d.wallet
    BY <1>2, <2>2, EngineFieldUpdates
  <2> QED BY <2>1, <2>3 DEF GenerationOK
<1>7. CASE ReleaseReset(p)
  <2>1. /\ d.reset = "release" /\ UNCHANGED <<active, files>>
        /\ engine' = [engine EXCEPT ![p] = Idle(d)]
    BY <1>1, <1>7 DEF ReleaseReset, Idle
  <2>2. engine'[p] = Idle(d)
    BY <1>2, <2>1
  <2>3. engine'[p].reset = "idle" /\ engine'[p].wallet = d.wallet
    BY <1>2, <2>2, EngineFieldUpdates
  <2> QED BY <2>1, <2>3 DEF GenerationOK
<1>8. CASE ResetLost(p)
  <2> DEFINE e == [d EXCEPT !.reset = "idle", !.token = 0, !.next = 0]
  <2>1. /\ d.reset = "claimed" /\ UNCHANGED <<active, files>>
        /\ engine' = [engine EXCEPT ![p] = e]
    BY <1>1, <1>8 DEF ResetLost
  <2>2. engine'[p] = e
    BY <1>2, <2>1
  <2>3. e.reset = "idle" /\ e.wallet = d.wallet
    BY <1>2, EngineFieldUpdates
  <2> HIDE DEF e
  <2> QED BY <2>1, <2>2, <2>3 DEF GenerationOK
<1>9. CASE Crash(p)
  <2> DEFINE e == [wallet |-> active, reset |-> "idle", token |-> 0, next |-> 0, previous |-> 0]
  <2>1. /\ UNCHANGED active /\ files' = {active}
        /\ engine' = [engine EXCEPT ![p] = e]
    BY <1>9 DEF Crash
  <2>2. engine'[p] = e
    BY <1>2, <2>1
  <2>3. e.reset = "idle" /\ e.wallet = active
    OBVIOUS
  <2> HIDE DEF e
  <2> QED BY <2>1, <2>2, <2>3 DEF GenerationOK
<1> QED BY <1>3, <1>4, <1>5, <1>6, <1>7, <1>8, <1>9 DEF ResetStep

LEMMA GenerationStep ==
  ASSUME CdkConstants, FullInv, GenerationInv, [CdkNext]_cdkVars
  PROVE  GenerationInv'
<1>1. CASE UNCHANGED <<setup, active, files, engine>>
  BY <1>1 DEF GenerationInv, GenerationOK
<1>2. CASE \E p \in Range(setup.home) : ResetStep(p) \/ Crash(p)
  <2>1. setup' = setup
    BY <1>2 DEF ResetStep, ClaimReset, ResetGeneration, ResetStore, ResetCleanup, ReleaseReset,
                ResetLost, resetUnchanged, Crash
  <2> SUFFICES ASSUME NEW p \in Processes, Range(setup.home) = {p}
               PROVE  GenerationOK(engine[p])'
    BY <2>1 DEF GenerationInv
  <2>2. ResetStep(p) \/ Crash(p)
    BY <1>2
  <2>3. GenerationOK(engine[p]) /\ EngineTyped /\ active \in Int
    BY DEF GenerationInv, FullInv, JournalTypeOK
  <2> QED BY <2>2, <2>3, ResetKeepsGeneration
<1>3. ASSUME NEW w \in Workers,
             (\E o \in CdkOps : Start(w, o) \/ Resume(w, o)) \/ Step(w)
      PROVE  UNCHANGED <<setup, active, files, engine>>
  BY <1>3, WorkerLeavesResets DEF FullInv, engineUnchanged
<1>4. ASSUME \E c \in Consumers : SettleHandoff(c) \/ \E o \in CdkOps : ClaimHandoff(c, o)
      PROVE  UNCHANGED <<setup, active, files, engine>>
  BY <1>4 DEF SettleHandoff, ClaimHandoff, outboxUnchanged
<1>5. ASSUME \E g \in Generations, o \in CdkOps : MintExecutes(g, o) \/ QuotePaid(g, o)
      PROVE  UNCHANGED <<setup, active, files, engine>>
  BY <1>5 DEF MintExecutes, QuotePaid
<1>6. Expire \/ UNCHANGED cdkVars => UNCHANGED <<setup, active, files, engine>>
  BY DEF Expire, cdkVars
<1> QED BY <1>1, <1>2, <1>3, <1>4, <1>5, <1>6 DEF CdkNext

-----------------------------------------------------------------------------
(* The theorems.                                                             *)

\* However many workers and processes share the journal of the CDK adapter, and whatever
\* leases run out, processes crash and resets intervene: at most one operation that
\* changes the wallet has an open outcome, and a reset's lease excludes the operations'.
THEOREM JournalTheorem ==
  ASSUME CdkConstants
  PROVE  CdkSpec => []JournalIsExclusive
<1>1. CdkInit => FullInv
  BY FullInvInit
<1>2. FullInv /\ [CdkNext]_cdkVars => FullInv'
  BY FullInvStep
<1>3. FullInv => JournalIsExclusive
  BY FullInvExclusive
<1> QED BY <1>1, <1>2, <1>3, PTL DEF CdkSpec

\* A phase that commit made terminal is never overwritten by a worker whose lease was
\* taken over or by a recovery that started earlier: only a reset removes it.
THEOREM TerminalTheorem ==
  ASSUME CdkConstants
  PROVE  CdkSpec => TerminalPhaseStands
<1>1. CdkInit => FullInv
  BY FullInvInit
<1>2. FullInv /\ [CdkNext]_cdkVars => FullInv' /\ [TerminalPhaseStep]_cdkVars
  BY FullInvStep
<1> QED BY <1>1, <1>2, PTL DEF CdkSpec, TerminalPhaseStands

\* With one process, the wallet generation that the journal calls active is on disk and
\* open, wherever a reset fails, loses its lease or is cut short by a crash
\* (LifecycleEngine::reset, rollback_reset, post_commit_reset_cleanup).
THEOREM GenerationTheorem ==
  ASSUME CdkConstants
  PROVE  CdkSpec => []ActiveGenerationInUse
<1>1. CdkInit => FullInv /\ GenerationInv
  <2> SUFFICES ASSUME CdkInit PROVE FullInv /\ GenerationInv
    OBVIOUS
  <2>1. \A p \in Processes : engine[p].reset = "idle" /\ engine[p].wallet = 1
    BY DEF CdkInit
  <2>2. active = 1 /\ active \in files
    BY DEF CdkInit
  <2>3. GenerationInv
    BY <2>1, <2>2 DEF GenerationInv, GenerationOK
  <2> QED BY <2>3, FullInvInit
<1>2. FullInv /\ GenerationInv /\ [CdkNext]_cdkVars => FullInv' /\ GenerationInv'
  BY FullInvStep, GenerationStep
<1>3. GenerationInv => ActiveGenerationInUse
  BY DEF GenerationInv, GenerationOK, ActiveGenerationInUse
<1> QED BY <1>1, <1>2, <1>3, PTL DEF CdkSpec
=============================================================================
