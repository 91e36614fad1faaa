---------------------------- MODULE ReferenceGate ----------------------------
(***************************************************************************)
(* What the lab's owner may rely on when secrets are handed to guests.  He *)
(* stands by at most one reference set; no other is published, the policy  *)
(* is pinned and the resources are opened only with that one in place, and *)
(* a session is called done only when the pods have loaded all of it.      *)
(* Nothing is said of files, steps, servers and certificates.              *)
(***************************************************************************)
CONSTANTS References, None

VARIABLES
    standing,  \* the reference set that the owner stands by, if any
    gate,      \* what was published
    live,      \* what the serving pods have loaded of it
    working,   \* a session is under way
    done       \* the last one ended well, and nothing was withdrawn since

vars == <<standing, gate, live, working, done>>

Closed == [references |-> None, pinned |-> FALSE, open |-> FALSE]

Init == /\ standing = None
        /\ gate = Closed /\ live = Closed
        /\ ~working /\ ~done

\* The published set is the one that the owner stands by.
InPlace == standing # None /\ gate.references = standing

MayReconsider == standing' \in {standing, None}

Begin == /\ ~working /\ working' /\ ~done'
         /\ MayReconsider
         /\ UNCHANGED <<gate, live>>

Approve(r) == /\ working /\ standing = None
              /\ standing' = r
              /\ UNCHANGED <<gate, live, working, done>>

Write(new) == /\ working
              /\ gate' = new
              /\ UNCHANGED <<standing, live, working, done>>

Publish == standing # None /\ Write([gate EXCEPT !.references = standing])
Pin == InPlace /\ Write([gate EXCEPT !.pinned = TRUE])
Open == InPlace /\ gate.pinned /\ Write([gate EXCEPT !.open = TRUE])

\* Pods may be replaced at any time.
Load == live' = gate /\ UNCHANGED <<standing, gate, working, done>>

Finish == /\ working /\ ~working' /\ done'
          /\ InPlace /\ gate.pinned /\ gate.open /\ live = gate
          /\ UNCHANGED <<standing, gate, live>>

GiveUp == /\ working /\ ~working'
          /\ MayReconsider
          /\ UNCHANGED <<gate, live, done>>

Withdraw == /\ ~working /\ ~done'
            /\ gate' = Closed /\ live' = Closed
            /\ MayReconsider
            /\ UNCHANGED working

Next == \/ Begin \/ Publish \/ Pin \/ Open \/ Load \/ Finish \/ GiveUp \/ Withdraw
        \/ \E r \in References : Approve(r)

Spec == Init /\ [][Next]_vars
===============================================================================
