--------------------------- MODULE MCFreshInstall ---------------------------
(* Instances of FreshInstall for TLC: a helper that serves two machines.     *)
(* Revision a1 renders both of them, a2 only the first.                      *)
EXTENDS FreshInstall, TLC

CONSTANTS m1, m2, a1, a2

TwoMachines == m1 :> {a1, a2} @@ m2 :> {a1}
OneMachine == m1 :> {a1, a2}
=============================================================================
