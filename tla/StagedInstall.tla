---------------------------- MODULE StagedInstall ----------------------------
(***************************************************************************)
(* What a staged installation promises to the owner of a cluster: nothing  *)
(* is granted before he agreed, nothing but the release is installed, what *)
(* is there already is left alone, the runtime is asked for only when      *)
(* every Operator is there, and success is reported only when every node   *)
(* has the runtime.  Nothing is said of plans, polls and configurations.   *)
(***************************************************************************)
CONSTANTS Operators, Nodes, None

VARIABLES
    consent,    \* the owner agreed
    granted,    \* what may be installed for each Operator
    installed,  \* what is installed for each
    applied,    \* the runtime was asked for
    equipped,   \* the nodes that have it
    reported    \* success was reported

vars == <<consent, granted, installed, applied, equipped, reported>>

Complete == \A o \in Operators : installed[o] = "expected"

\* An earlier installation may have left Operators, or everything.
Init == /\ consent \in BOOLEAN
        /\ granted = [o \in Operators |-> {}]
        /\ installed \in [Operators -> {"expected", None}]
        /\ \/ ~applied /\ equipped = {}
           \/ applied /\ equipped = Nodes /\ Complete
        /\ applied \in BOOLEAN
        /\ ~reported

Agree == /\ ~consent /\ consent' = TRUE
         /\ UNCHANGED <<granted, installed, applied, equipped, reported>>

Grant(o) == /\ consent /\ installed[o] = None
            /\ granted' = [granted EXCEPT ![o] = {"expected"}]
            /\ UNCHANGED <<consent, installed, applied, equipped, reported>>

Install(o) == /\ installed[o] = None
              /\ \E csv \in granted[o] : installed' = [installed EXCEPT ![o] = csv]
              /\ UNCHANGED <<consent, granted, applied, equipped, reported>>

Apply == /\ Complete /\ ~applied /\ applied' = TRUE
         /\ UNCHANGED <<consent, granted, installed, equipped, reported>>

Equip(n) == /\ applied /\ n \notin equipped
            /\ equipped' = equipped \cup {n}
            /\ UNCHANGED <<consent, granted, installed, applied, reported>>

Report == /\ applied /\ equipped = Nodes
          /\ ~reported /\ reported' = TRUE
          /\ UNCHANGED <<consent, granted, installed, applied, equipped>>

Next == \/ Agree \/ Apply \/ Report
        \/ \E o \in Operators : Grant(o) \/ Install(o)
        \/ \E n \in Nodes : Equip(n)

Spec == Init /\ [][Next]_vars
==============================================================================
