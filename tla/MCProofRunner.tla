--------------------------- MODULE MCProofRunner ---------------------------
(* Instances of ProofRunner for TLC: two controllers that race for the lock *)
(* with short plans, or one controller among the other tools.               *)
EXTENDS ProofRunner, TLC

CONSTANTS c1, c2

\* Consecutive cases with and without an edit, edits before and after the control, all
\* three resources, one of which other tools also write.
MixedPlan == c1 :> <<"rung-rvps", "rung-encrypted">>
             @@ c2 :> <<"isolation", "rung-kbs", "air-gap">>

\* Both controllers edit the ConfigMap that other tools also write, one of them after a
\* case of its own.
SharedPlan == c1 :> <<"air-gap", "rung-rvps">> @@ c2 :> <<"rung-rvps">>

\* One controller alone with the other tools.
SinglePlan == c1 :> <<"rung-rvps", "rung-encrypted">>
=============================================================================
