------------------------- MODULE LifecycleOperation -------------------------
(***************************************************************************)
(* A wallet operation as packages/wallet-lifecycle-core defines it: the    *)
(* kinds, the phases, and the transitions a journal may record.  Both      *)
(* wallet adapters and the lifecycle oracle are built on it.               *)
(***************************************************************************)
EXTENDS Integers, FiniteSets, Functions

CONSTANT NoOp     \* no operation

Kinds == {"mint", "swap", "send", "receive", "melt", "restore", "reconcile"}

LifecyclePhases ==
    {"created", "prepared", "submitted", "ambiguous", "reconciling",
     "succeeded", "failed_definitive", "recovery_blocked"}

Terminal == {"succeeded", "failed_definitive", "recovery_blocked"}

\* The transition table of the core package.
transitions ==
    [p \in LifecyclePhases |->
        CASE p = "created"     -> {"prepared"}
          [] p = "prepared"    -> {"submitted"}
          [] p = "submitted"   -> {"succeeded", "ambiguous"}
          [] p = "ambiguous"   -> {"reconciling"}
          [] p = "reconciling" -> Terminal
          [] OTHER             -> {}]

\* transitionOperation: the same phase again, or one the table allows.
CanTransition(from, to) == from = to \/ to \in transitions[from]
=============================================================================
