---------------------------- MODULE ServerFleet ----------------------------
(***************************************************************************)
(* What the one who pays for the servers may rely on: a project has at     *)
(* most one server of each role, and none is ordered in the place of one   *)
(* that is there; while an ordering session is under way nothing goes but  *)
(* the helper of a complete pair, after an agreement that ends with the    *)
(* session.  Nothing is said of states, plans and interruptions.           *)
(***************************************************************************)
CONSTANTS Projects, Ids

VARIABLES
    servers,  \* the servers that are billed
    ever,     \* what names all that were ordered
    working,  \* an ordering session is under way
    agreed    \* in it, the replacement of the helper was agreed to

vars == <<servers, ever, working, agreed>>

Roles == {"node", "helper"}

Server(i, r, p) == [id |-> i, role |-> r, project |-> p]

Has(r, p) == \E s \in servers : s.role = r /\ s.project = p

Init == servers = {} /\ ever = {} /\ ~working /\ ~agreed

GoOn == UNCHANGED <<working, agreed>>
Stop == ~working' /\ ~agreed'

Begin == /\ ~working
         /\ working' /\ ~agreed'
         /\ UNCHANGED <<servers, ever>>

Finish == working /\ Stop /\ UNCHANGED <<servers, ever>>

\* Only the helper of a pair that is complete can be worth replacing.
Agree == /\ working /\ ~agreed
         /\ \E p \in Projects : Has("node", p) /\ Has("helper", p)
         /\ agreed'
         /\ UNCHANGED <<servers, ever, working>>

Order(i, r, p) == /\ working /\ ~Has(r, p) /\ i \notin ever
                  /\ servers' = servers \cup {Server(i, r, p)}
                  /\ ever' = ever \cup {i}
                  /\ GoOn \/ Stop

Replace(s) == /\ working /\ agreed
              /\ s.role = "helper" /\ Has("node", s.project)
              /\ servers' = servers \ {s}
              /\ UNCHANGED ever
              /\ GoOn \/ Stop

\* Between sessions the owner deletes what he likes.
Remove(s) == /\ ~working
             /\ servers' = servers \ {s}
             /\ UNCHANGED <<ever, working, agreed>>

Next == \/ Begin \/ Agree \/ Finish
        \/ \E i \in Ids, r \in Roles, p \in Projects : Order(i, r, p)
        \/ \E s \in servers : Replace(s) \/ Remove(s)

Spec == Init /\ [][Next]_vars
=============================================================================
