----------------------------- MODULE MCTrusteeLab -----------------------------
(* Instances of TrusteeLab for TLC. *)
EXTENDS TrusteeLab

CONSTANTS r1, r2, l1, l2, k1, k2
===============================================================================
