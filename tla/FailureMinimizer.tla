-------------------------- MODULE FailureMinimizer --------------------------
(***************************************************************************)
(* What wallet-lifecycle-runner does with the artifact of a failed         *)
(* scenario: replay it against a fresh driver, or minimize it by dropping  *)
(* one command at a time and starting over whenever the same failure is    *)
(* still there (replay.ts).  The commands kept are a subset of the         *)
(* artifact's; what a subset does when it is run is the behaviour of a     *)
(* deterministic driver.                                                   *)
(***************************************************************************)
EXTENDS Integers, FiniteSets

CONSTANTS Length     \* commands of the artifact

ASSUME LengthAssumption == Length \in Nat

Commands == 1 .. Length

VARIABLES
    fails,                 \* what each subset of the commands comes to
    secret, given,         \* redacted inputs; the seed handed over
    kept, index, ended

minimizerVars == <<fails, secret, given, kept, index, ended>>

\* The commands still kept that come before c, and the i-th command kept.
Before(c) == {d \in kept : d < c}
Nth(i) == CHOOSE c \in kept : Cardinality(Before(c)) = i

\* replayLifecycleFailure and minimizeLifecycleFailure refuse an artifact whose
\* inputs were redacted, and a seed that is not the artifact's.
Refuse ==
    /\ ended = "no" /\ index = 0 /\ kept = Commands
    /\ secret \/ given # "seed"
    /\ ended' = "refused"
    /\ UNCHANGED <<fails, secret, given, kept, index>>

\* replayLifecycleFailure: the whole scenario again; a match needs the same
\* observations too.
Replay ==
    /\ ended = "no" /\ index = 0 /\ kept = Commands
    /\ ~ secret /\ given = "seed"
    /\ ended' \in IF fails[Commands] = "same" THEN {"matched", "unmatched"}
                                             ELSE {"unmatched"}
    /\ UNCHANGED <<fails, secret, given, kept, index>>

\* Mutant: the search goes on from where it stands.
MinimizeOnward ==
    LET without == kept \ {Nth(index)}
    IN  /\ ended = "no" /\ ~ secret /\ given = "seed"
        /\ index < Cardinality(kept)
        /\ IF fails[without] = "same" THEN kept' = without /\ UNCHANGED index
           ELSE index' = index + 1 /\ UNCHANGED kept
        /\ UNCHANGED <<fails, secret, given, ended>>

\* One candidate of minimizeLifecycleFailure.
Minimize ==
    LET without == kept \ {Nth(index)}
    IN  /\ ended = "no" /\ ~ secret /\ given = "seed"
        /\ index < Cardinality(kept)
        /\ IF fails[without] = "same" THEN kept' = without /\ index' = 0
           ELSE index' = index + 1 /\ UNCHANGED kept
        /\ UNCHANGED <<fails, secret, given, ended>>

Minimized ==
    /\ ended = "no" /\ ~ secret /\ given = "seed"
    /\ index >= Cardinality(kept)
    /\ ended' = "minimized"
    /\ UNCHANGED <<fails, secret, given, kept, index>>

\* An artifact of a failed run: the whole scenario failed once; a driver that
\* does not reproduce it is possible.
MinimizerInit ==
    /\ fails \in [SUBSET Commands -> {"passes", "same", "other"}]
    /\ secret \in BOOLEAN /\ given \in {"none", "seed", "other seed"}
    /\ secret \/ given # "seed" => \A S \in SUBSET Commands : fails[S] = "same"
    /\ kept = Commands /\ index = 0 /\ ended = "no"

MinimizerNext == Refuse \/ Replay \/ Minimize \/ Minimized

MinimizerSpec == MinimizerInit /\ [][MinimizerNext]_minimizerVars

\* minimizeLifecycleFailure never returns commands that do not reproduce the
\* failure unless the artifact it was given does not, and no single command can
\* be dropped from what it returns.
MinimizedIsMinimal ==
    ended = "minimized" =>
        /\ kept = Commands \/ fails[kept] = "same"
        /\ \A c \in kept : fails[kept \ {c}] # "same"
=============================================================================
