----------------------------- MODULE MCOrderRig -----------------------------
(* Instances of OrderRig for TLC: two choices within one project and one in  *)
(* a project of its own, or a single choice.                                 *)
EXTENDS OrderRig, TLC

CONSTANTS x1, x2, y1

ThreeChoices == x1 :> "x" @@ x2 :> "x" @@ y1 :> "y"
OneChoice == x1 :> "x"
=============================================================================
