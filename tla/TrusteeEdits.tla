---------------------------- MODULE TrusteeEdits ----------------------------
(***************************************************************************)
(* What the proof runner promises to everyone who shares a Trustee: edits  *)
(* are made by one owner at a time, on top of the value that review last   *)
(* approved, and the owner leaves only when none of its edits is left.     *)
(* Reviews may replace a value at any time, and end an edit of it.         *)
(***************************************************************************)
EXTENDS Naturals, TLAPS

CONSTANTS Editors, Nobody, Resources

VARIABLES
    owner,     \* the editor that may modify resources, or Nobody
    value,     \* the value of each resource
    reviewed   \* the version that review last approved, by resource

vars == <<owner, value, reviewed>>

Values == [version : Nat, by : Editors \cup {Nobody}]

Reviewed(n) == [version |-> n, by |-> Nobody]

Init == /\ owner = Nobody
        /\ reviewed = [r \in Resources |-> 0]
        /\ value = [r \in Resources |-> Reviewed(0)]

Take(e) == /\ owner = Nobody
           /\ owner' = e
           /\ UNCHANGED <<value, reviewed>>

Modify(e, r) == /\ owner = e
                /\ value[r] = Reviewed(reviewed[r])
                /\ value' = [value EXCEPT ![r].by = e]
                /\ UNCHANGED <<owner, reviewed>>

Undo(r) == /\ value' = [value EXCEPT ![r] = Reviewed(reviewed[r])]
           /\ UNCHANGED <<owner, reviewed>>

Leave == /\ \A r \in Resources : value[r].by = Nobody
         /\ owner' = Nobody
         /\ UNCHANGED <<value, reviewed>>

\* The operator of an owner that ended with edits left undoes them and takes
\* the ownership away in one go.
Recover == /\ owner' = Nobody
           /\ value' = [r \in Resources |-> Reviewed(reviewed[r])]
           /\ UNCHANGED reviewed

Review(r) == /\ reviewed' = [reviewed EXCEPT ![r] = @ + 1]
             /\ value' = [value EXCEPT ![r] = Reviewed(reviewed[r] + 1)]
             /\ UNCHANGED owner

Next == \/ \E e \in Editors : Take(e) \/ \E r \in Resources : Modify(e, r)
        \/ \E r \in Resources : Undo(r) \/ Review(r)
        \/ Leave
        \/ Recover

Spec == Init /\ [][Next]_vars

---------------------------------------------------------------------------
TypeOK == /\ owner \in Editors \cup {Nobody}
          /\ value \in [Resources -> Values]
          /\ reviewed \in [Resources -> Nat]

\* Every value is the approved version, as approved or as modified by the one
\* editor that owns the resources (the purpose of ProofLock and ResourceEdit).
EditsOwned == \A r \in Resources : /\ value[r].version = reviewed[r]
                                   /\ value[r].by \in {owner, Nobody}

\* The types of the three variables are kept.
THEOREM EditsTyped == Spec => []TypeOK
  <1>1. Init => TypeOK
    BY DEF Init, TypeOK, Values, Reviewed
  <1>2. TypeOK /\ [Next]_vars => TypeOK'
    <2> SUFFICES ASSUME TypeOK, [Next]_vars PROVE TypeOK'
      OBVIOUS
    <2>1. ASSUME NEW e \in Editors, Take(e) PROVE TypeOK'
      BY <2>1 DEF TypeOK, Take
    <2>2. ASSUME NEW e \in Editors, NEW r \in Resources, Modify(e, r) PROVE TypeOK'
      BY <2>2 DEF TypeOK, Modify, Values
    <2>3. ASSUME NEW r \in Resources, Undo(r) PROVE TypeOK'
      BY <2>3 DEF TypeOK, Undo, Values, Reviewed
    <2>4. ASSUME NEW r \in Resources, Review(r) PROVE TypeOK'
      BY <2>4 DEF TypeOK, Review, Values, Reviewed
    <2>5. CASE Leave \/ Recover \/ UNCHANGED vars
      BY <2>5 DEF TypeOK, Leave, Recover, Values, Reviewed, vars
    <2> QED BY <2>1, <2>2, <2>3, <2>4, <2>5 DEF Next
  <1> QED BY <1>1, <1>2, PTL DEF Spec

\* Whatever the order of edits and reviews, a value is the approved version and
\* only its owner's modification of it (ProofLock and ResourceEdit).
THEOREM EditsAreOwned == Spec => []EditsOwned
  <1>1. Init => EditsOwned
    BY DEF Init, EditsOwned, Reviewed
  <1>2. TypeOK /\ EditsOwned /\ [Next]_vars => EditsOwned'
    <2> SUFFICES ASSUME TypeOK, EditsOwned, [Next]_vars PROVE EditsOwned'
      OBVIOUS
    <2>1. ASSUME NEW e \in Editors, Take(e) PROVE EditsOwned'
      BY <2>1 DEF EditsOwned, Take
    <2>2. ASSUME NEW e \in Editors, NEW r \in Resources, Modify(e, r) PROVE EditsOwned'
      BY <2>2 DEF TypeOK, EditsOwned, Modify, Values, Reviewed
    <2>3. ASSUME NEW r \in Resources, Undo(r) PROVE EditsOwned'
      BY <2>3 DEF TypeOK, EditsOwned, Undo, Reviewed
    <2>4. ASSUME NEW r \in Resources, Review(r) PROVE EditsOwned'
      BY <2>4 DEF TypeOK, EditsOwned, Review, Reviewed
    <2>5. CASE Leave \/ Recover \/ UNCHANGED vars
      BY <2>5 DEF EditsOwned, Leave, Recover, Reviewed, vars
    <2> QED BY <2>1, <2>2, <2>3, <2>4, <2>5 DEF Next
  <1> QED BY <1>1, <1>2, EditsTyped, PTL DEF Spec
=============================================================================
