--------------------------- MODULE OrderRigProofs ---------------------------
(***************************************************************************)
(* Theorems about OrderRig for any choices, projects, number of servers    *)
(* and of invocations, and that it implements ServerFleet.                 *)
(***************************************************************************)
EXTENDS OrderRig, TLAPS

(* The inductive invariants *)

OfRole(r, a) == {s \in Servers : /\ Exists(s) /\ cloud[s].role = r
                                 /\ ProjectOf[cloud[s].choice] = ProjectOf[a]}

\* What Terraform recorded it saw delivered.
RecordedWasActive ==
    \A r \in Roles : recorded[r] # None =>
        cloud[recorded[r]].role = r /\ cloud[recorded[r]].status \in {"active", "deleted"}

\* Only a helper that a run deleted for its replacement may be recorded and gone.
\* Its node is then still there, and no helper is left in the node's project.
RecordedAndGone ==
    /\ recorded["node"] # None => Exists(recorded["node"])
    /\ recorded["helper"] # None /\ ~Exists(recorded["helper"]) =>
         /\ recorded["node"] # None
         /\ OfRole("helper", cloud[recorded["node"]].choice) = {}

\* What an invocation knows of the project before it plans: of a role that the
\* state lacks, all servers; once the role had its turn, that there are none.
Listed ==
    /\ pc \notin {"idle", "choose"} => order # None
    /\ pc \in {"choose", "list", "adoptNode", "adoptHelper"} => ~run.replace
    /\ pc \in {"choose", "list", "adoptNode", "adoptHelper", "plan"} => run.waiting = {}
    /\ \A r \in Roles : recorded[r] = None =>
         /\ pc = "adoptNode" => run.found[r] = OfRole(r, order)
         /\ pc = "adoptHelper" =>
               (IF r = "helper" THEN run.found[r] ELSE {}) = OfRole(r, order)
         /\ pc = "plan" => OfRole(r, order) = {}
    /\ pc = "plan" /\ run.replace =>
         \A r \in Roles : Exists(recorded[r]) /\ cloud[recorded[r]].choice = order

\* What the apply may rely on.
Planned == pc = "apply" =>
    /\ \A r \in run.todo :
         IF Exists(recorded[r])
         THEN /\ r = "helper" /\ run.replace
              /\ recorded["node"] # None
              /\ \A q \in Roles : cloud[recorded[q]].choice = order
         ELSE OfRole(r, order) = {}
    /\ \A s \in run.waiting : /\ Exists(s) /\ cloud[s].choice = order
                              /\ cloud[s].role \notin run.todo
                              /\ recorded[cloud[s].role] = None

OrderInv == /\ TypeOK /\ NothingOrderedTwice
            /\ RecordedWasActive /\ RecordedAndGone /\ Listed /\ Planned

\* The keys, and what the steps between the marker and the last key may rely on.
KeyInv ==
    /\ KeysOfMarkedRig
    /\ pc = "mark" => known = {} \/ marker = run.values
    /\ pc \in {"reachHelper", "reachNode"} => marker = run.values

---------------------------------------------------------------------------
(* Types *)

LEMMA NewRunType == NewRun \in Runs /\ NoRig \in Rigs
  BY DEF NewRun, NoRig, Runs, Rigs, Roles

\* The end of a run keeps its types.
LEMMA EndType ==
    ASSUME NEW result \in {"PASS", "FAIL"}, End(result)
    PROVE  run' \in Runs /\ pc' \in Labels
  BY NewRunType DEF End, Runs, Labels

LEMMA FailType == ASSUME Fail PROVE run' \in Runs /\ pc' \in Labels
  BY EndType DEF Fail

\* The definitions that give the variables their types.
LEMMA TypeInit == Init => TypeOK
  <1> SUFFICES ASSUME Init PROVE TypeOK
    OBVIOUS
  <1>1. cloud \in [Servers -> States]
    BY DEF Init, States, Roles
  <1>2. mirror \in [Servers -> {"none", "running", "failed", "ready"}]
    BY DEF Init
  <1>3. runs \in 0..MaxRuns
    BY BoundsAssumption DEF Init
  <1> QED
    BY <1>1, <1>2, <1>3, NewRunType DEF Init, TypeOK, Labels

LEMMA TypeNext == TypeOK /\ [Next]_vars => TypeOK'
  <1> SUFFICES ASSUME TypeOK, [Next]_vars PROVE TypeOK'
    OBVIOUS
  <1> USE DEF provider, controller
  <1>1. CASE Start
    BY <1>1, NewRunType, BoundsAssumption DEF Start, TypeOK, Labels
  <1>2. CASE Choose
    BY <1>2 DEF Choose, Goto, TypeOK, Labels
  <1>3. CASE List
    <2>1. run' \in Runs
      BY <1>3 DEF List, TypeOK, Runs
    <2> QED
      BY <1>3, <2>1 DEF List, TypeOK, Labels
  <1>4. ASSUME NEW r \in Roles, NEW label \in Labels, Adopt(r, label) PROVE TypeOK'
    <2>1. run.found[r] \subseteq Servers
      BY DEF TypeOK, Runs
    <2>2. recorded' \in Rigs
      BY <1>4, <2>1 DEF Adopt, TypeOK, Rigs
    <2>3. run' \in Runs
      BY <1>4 DEF Adopt, TypeOK, Runs
    <2> QED
      BY <1>4, <2>2, <2>3 DEF Adopt, TypeOK
  <1>5. CASE AdoptNode \/ AdoptHelper
    BY <1>4, <1>5 DEF AdoptNode, AdoptHelper, Roles, Labels
  <1>6. CASE Plan
    <2> DEFINE todo == Missing \cup Replaced
    <2>a. todo \subseteq Roles
      BY DEF Missing, Replaced
    <2>b. \/ run' = [run EXCEPT !.replace = TRUE]
          \/ run' = [run EXCEPT !.values = recorded]
          \/ run' = [run EXCEPT !.todo = todo]
      BY <1>6 DEF Plan
    <2> HIDE DEF todo
    <2>c. [run EXCEPT !.replace = TRUE] \in Runs /\ [run EXCEPT !.values = recorded] \in Runs
      BY DEF TypeOK, Runs
    <2>d. [run EXCEPT !.todo = todo] \in Runs
      BY <2>a DEF TypeOK, Runs
    <2>1. run' \in Runs
      BY <2>b, <2>c, <2>d
    <2> QED
      BY <1>6, <2>1 DEF Plan, TypeOK, Labels
  <1>7. ASSUME NEW r \in Roles, Destroy(r) PROVE TypeOK'
    <2>1. recorded[r] \in Servers
      BY <1>7 DEF Destroy, Exists, TypeOK, Rigs
    <2>2. Gone(recorded[r]) \in States
      BY <2>1 DEF Gone, States, TypeOK
    <2>3. cloud' \in [Servers -> States]
      BY <1>7, <2>2 DEF Destroy, TypeOK
    <2>4. recorded' \in Rigs
      BY <1>7 DEF Destroy, TypeOK, Rigs
    <2>5. run' \in Runs /\ pc' \in Labels
      BY <1>7, FailType DEF Destroy, Goto, TypeOK, Labels
    <2> QED
      BY <1>7, <2>3, <2>4, <2>5 DEF Destroy, TypeOK
  <1>8. ASSUME NEW r \in Roles, Create(r) PROVE TypeOK'
    <2>1. PICK s \in Servers, switch \in {1, 2} :
             /\ cloud' = [cloud EXCEPT ![s] = [role |-> r, choice |-> order,
                                               status |-> "delivering", switch |-> switch]]
             /\ \/ /\ run' = [run EXCEPT !.todo = @ \ {r}, !.waiting = @ \cup {s}]
                   /\ UNCHANGED pc
                \/ Fail
      BY <1>8 DEF Create
    <2>2. [role |-> r, choice |-> order, status |-> "delivering", switch |-> switch] \in States
      BY DEF States, TypeOK
    <2>3. cloud' \in [Servers -> States]
      BY <2>1, <2>2 DEF TypeOK
    <2>4. recorded' \in Rigs
      BY <1>8 DEF Create, TypeOK, Rigs
    <2> DEFINE todo == run.todo \ {r}
               waiting == run.waiting \cup {s}
    <2>a. todo \subseteq Roles /\ waiting \subseteq Servers
      BY DEF TypeOK, Runs
    <2>b. \/ run' = [run EXCEPT !.todo = todo, !.waiting = waiting] /\ pc' = pc
          \/ Fail
      BY <2>1
    <2> HIDE DEF todo, waiting
    <2>c. [run EXCEPT !.todo = todo, !.waiting = waiting] \in Runs
      BY <2>a DEF TypeOK, Runs
    <2>5. run' \in Runs /\ pc' \in Labels
      BY <2>b, <2>c, FailType DEF TypeOK
    <2> QED
      BY <1>8, <2>3, <2>4, <2>5 DEF Create, TypeOK
  <1>9. ASSUME NEW s \in Servers, Delivered(s) PROVE TypeOK'
    <2>1. recorded' \in Rigs
      BY <1>9 DEF Delivered, TypeOK, Rigs
    <2>2. run' \in Runs
      BY <1>9 DEF Delivered, TypeOK, Runs
    <2> QED
      BY <1>9, <2>1, <2>2 DEF Delivered, TypeOK
  <1>10. CASE Applied
    <2>1. run' \in Runs /\ pc' \in Labels
      BY <1>10, FailType DEF Applied, TypeOK, Runs, Labels
    <2> QED
      BY <1>10, <2>1 DEF Applied, TypeOK
  <1>11. CASE Finished
    <2>1. run' \in Runs /\ pc' \in Labels
      BY <1>11, EndType DEF Finished, Goto, TypeOK, Labels
    <2> QED
      BY <1>11, <2>1 DEF Finished, TypeOK
  <1>12. CASE MoveKeys
    BY <1>12 DEF MoveKeys, Goto, TypeOK, Labels
  <1>13. CASE MarkKeys
    BY <1>13 DEF MarkKeys, Goto, TypeOK, Labels, Runs
  <1>14. CASE ReachHelper \/ ReachNode
    BY <1>14 DEF ReachHelper, ReachNode, Reach, Exists, Goto, TypeOK, Labels, Runs, Rigs, Roles
  <1>15. CASE StartBootstrap
    <2>1. run' \in Runs /\ pc' \in Labels
      BY <1>15, FailType DEF StartBootstrap, Goto, TypeOK, Labels
    <2>2. mirror' \in [Servers -> {"none", "running", "failed", "ready"}]
      BY <1>15 DEF StartBootstrap, TypeOK
    <2> QED
      BY <1>15, <2>1, <2>2 DEF StartBootstrap, TypeOK
  <1>16. CASE CheckNode
    <2>1. run' \in Runs /\ pc' \in Labels
      BY <1>16, FailType DEF CheckNode, Goto, TypeOK, Labels
    <2>2. bonded' \subseteq Servers
      BY <1>16 DEF CheckNode, Answers, Exists, TypeOK, Runs, Rigs, Roles
    <2> QED
      BY <1>16, <2>1, <2>2 DEF CheckNode, TypeOK
  <1>17. CASE WaitForMirror
    <2>1. run' \in Runs /\ pc' \in Labels
      BY <1>17, FailType DEF WaitForMirror, Goto, TypeOK, Labels
    <2> QED
      BY <1>17, <2>1 DEF WaitForMirror, TypeOK
  <1>18. CASE MoveRigFile
    BY <1>18 DEF MoveRigFile, Goto, TypeOK, Labels
  <1>19. CASE WriteRigFile
    <2>1. run' \in Runs /\ pc' \in Labels
      BY <1>19, EndType DEF WriteRigFile
    <2>2. rigFile' \in Rigs
      BY <1>19 DEF WriteRigFile, TypeOK, Runs
    <2> QED
      BY <1>19, <2>1, <2>2 DEF WriteRigFile, TypeOK
  <1>20. CASE Interrupt
    BY <1>20, FailType DEF Interrupt, TypeOK
  <1>21. ASSUME NEW s \in Servers, Deliver(s) PROVE TypeOK'
    <2>1. cloud' \in [Servers -> States]
      <3>1. PICK status \in {"active", "failed"} : cloud' = [cloud EXCEPT ![s].status = status]
        BY <1>21 DEF Deliver
      <3>2. [cloud[s] EXCEPT !.status = status] \in States
        BY DEF States, TypeOK
      <3> QED
        BY <3>1, <3>2 DEF TypeOK
    <2> QED
      BY <1>21, <2>1 DEF Deliver, TypeOK
  <1>22. ASSUME NEW s \in Servers, Bootstrap(s) PROVE TypeOK'
    BY <1>22 DEF Bootstrap, TypeOK
  <1>23. ASSUME NEW s \in Servers, Delete(s) PROVE TypeOK'
    <2>1. Gone(s) \in States
      BY DEF Gone, States, TypeOK
    <2>2. cloud' \in [Servers -> States]
      BY <1>23, <2>1 DEF Delete, TypeOK
    <2>3. recorded' \in Rigs
      BY <1>23 DEF Delete, TypeOK, Rigs
    <2> QED
      BY <1>23, <2>2, <2>3 DEF Delete, TypeOK
  <1>24. CASE UNCHANGED vars
    BY <1>24 DEF vars, TypeOK
  <1> QED
    BY <1>1, <1>2, <1>3, <1>5, <1>6, <1>7, <1>8, <1>9, <1>10, <1>11, <1>12, <1>13, <1>14,
       <1>15, <1>16, <1>17, <1>18, <1>19, <1>20, <1>21, <1>22, <1>23, <1>24 DEF Next, Step

\* Every reachable state is of its type (the state files of order-rig.py, the
\* servers, the run), for any choices and bounds.
THEOREM TypeCorrect == Spec => []TypeOK
  BY TypeInit, TypeNext, PTL DEF Spec

---------------------------------------------------------------------------
(* Pinned keys *)

LEMMA KeyFrame ==
    ASSUME KeyInv, UNCHANGED <<marker, known>>,
           \/ pc' \notin {"mark", "reachHelper", "reachNode"}
           \/ UNCHANGED <<pc, run>>
    PROVE  KeyInv'
  BY DEF KeyInv, KeysOfMarkedRig

LEMMA KeyNext == TypeOK /\ KeyInv /\ [Next]_vars => KeyInv'
  <1> SUFFICES ASSUME TypeOK, KeyInv, [Next]_vars PROVE KeyInv'
    OBVIOUS
  <1> USE DEF provider, controller
  <1>1. CASE Start \/ Choose \/ List
    BY <1>1, KeyFrame DEF Start, Choose, List, Goto
  <1>2. CASE AdoptNode \/ AdoptHelper
    BY <1>2, KeyFrame DEF AdoptNode, AdoptHelper, Adopt
  <1>3. CASE Plan
    BY <1>3, KeyFrame DEF Plan
  <1>4. ASSUME NEW r \in Roles, Destroy(r) \/ Create(r) PROVE KeyInv'
    BY <1>4, KeyFrame DEF Destroy, Create, Goto, Fail, End
  <1>5. ASSUME NEW s \in Servers, Delivered(s) PROVE KeyInv'
    BY <1>5, KeyFrame DEF Delivered
  <1>6. CASE Applied \/ Finished
    BY <1>6, KeyFrame DEF Applied, Finished, Goto, Fail, End
  <1>7. CASE MoveKeys
    BY <1>7 DEF MoveKeys, Goto, KeyInv, KeysOfMarkedRig
  <1>8. CASE MarkKeys
    BY <1>8, NoneAssumption DEF MarkKeys, Goto, KeyInv, KeysOfMarkedRig, TypeOK, Runs
  <1>9. ASSUME NEW r \in Roles, NEW label \in {"reachNode", "bootstrap"},
               marker = run.values, Reach(r, label)
        PROVE  KeyInv'
    <2>1. run.values # None
      BY NoneAssumption DEF TypeOK, Runs
    <2>2. KeysOfMarkedRig'
      BY <1>9, <2>1 DEF Reach, KeyInv, KeysOfMarkedRig
    <2> QED
      BY <1>9, <2>2 DEF Reach, Goto, KeyInv
  <1>10. CASE ReachHelper \/ ReachNode
    BY <1>9, <1>10 DEF ReachHelper, ReachNode, KeyInv, Roles
  <1>11. CASE StartBootstrap \/ CheckNode \/ WaitForMirror
    BY <1>11, KeyFrame DEF StartBootstrap, CheckNode, WaitForMirror, Goto, Fail, End
  <1>12. CASE MoveRigFile \/ WriteRigFile \/ Interrupt
    BY <1>12, KeyFrame DEF MoveRigFile, WriteRigFile, Interrupt, Goto, Fail, End
  <1>13. ASSUME NEW s \in Servers, Deliver(s) \/ Bootstrap(s) \/ Delete(s) PROVE KeyInv'
    BY <1>13, KeyFrame DEF Deliver, Bootstrap, Delete
  <1>14. CASE UNCHANGED vars
    BY <1>14, KeyFrame DEF vars
  <1> QED
    BY <1>1, <1>2, <1>3, <1>4, <1>5, <1>6, <1>7, <1>8, <1>10, <1>11, <1>12, <1>13, <1>14
    DEF Next, Step

\* Whatever stops reach, and however rigs and addresses follow one another, the
\* keys in known_hosts are of the servers in known_hosts.servers.
THEOREM KeysBelong == Spec => []KeysOfMarkedRig
  <1>1. Init => KeyInv
    BY DEF Init, KeyInv, KeysOfMarkedRig
  <1>2. TypeOK /\ KeyInv /\ [Next]_vars => KeyInv'
    BY KeyNext
  <1>3. KeyInv => KeysOfMarkedRig
    BY DEF KeyInv
  <1> QED
    BY <1>1, <1>2, <1>3, TypeCorrect, PTL DEF Spec

---------------------------------------------------------------------------
(* Servers are ordered once *)

\* The parts of the invariant that speak of the provider and the Terraform state.
LEMMA StateFrame ==
    ASSUME OrderInv, UNCHANGED <<cloud, recorded>>
    PROVE  (NothingOrderedTwice /\ RecordedWasActive /\ RecordedAndGone)'
  BY DEF OrderInv, NothingOrderedTwice, RecordedWasActive, RecordedAndGone, OfRole, Exists

\* The parts that speak of the run, before its choice and once it has ordered.
LEMMA RunFrame ==
    ASSUME OrderInv,
           \/ pc' = "idle"
           \/ /\ pc' \notin {"choose", "list", "adoptNode", "adoptHelper", "plan", "apply"}
              /\ pc \notin {"idle", "choose"}
              /\ UNCHANGED order
    PROVE  (Listed /\ Planned)'
  BY DEF OrderInv, Listed, Planned

\* The steps of the apply.
LEMMA DestroyNext ==
    ASSUME OrderInv, TypeOK', NEW r \in Roles, Destroy(r)
    PROVE  OrderInv'
  <1> DEFINE h == recorded[r]
  <1>1. h \in Servers /\ Exists(h) /\ cloud' = [cloud EXCEPT ![h] = Gone(h)]
    BY DEF Destroy, Exists, OrderInv, TypeOK, Rigs
  <1>2. /\ r = "helper" /\ run.replace
        /\ recorded["node"] # None
        /\ \A q \in Roles : cloud[recorded[q]].choice = order
    BY DEF Destroy, OrderInv, Planned
  <1>3. /\ recorded["node"] \in Servers /\ Exists(recorded["node"])
        /\ cloud[recorded["node"]].role = "node" /\ cloud[h].role = "helper"
    <2>1. recorded["node"] \in Servers
      BY <1>2 DEF OrderInv, TypeOK, Rigs, Roles
    <2>2. Exists(recorded["node"])
      BY <1>2 DEF OrderInv, RecordedAndGone
    <2>3. h # None
      BY <1>1 DEF Exists
    <2>4. cloud[recorded["node"]].role = "node" /\ cloud[h].role = "helper"
      BY <1>2, <2>3 DEF OrderInv, RecordedWasActive, Roles
    <2> QED
      BY <2>1, <2>2, <2>4
  <1>4. /\ \A s \in Servers : Exists(s)' <=> Exists(s) /\ s # h
        /\ \A s \in Servers : s # h => cloud'[s] = cloud[s]
        /\ cloud'[h] = Gone(h)
    BY <1>1, NoneAssumption DEF Exists, Gone, OrderInv, TypeOK
  <1>5. OfRole("helper", order)' = {}
    <2> SUFFICES ASSUME NEW s \in Servers, Exists(s)', cloud'[s].role = "helper",
                        ProjectOf[cloud'[s].choice] = ProjectOf[order]
                 PROVE  FALSE
      BY DEF OfRole, Destroy
    <2> QED
      BY <1>1, <1>2, <1>3, <1>4 DEF OrderInv, NothingOrderedTwice, Roles
  <1>6. NothingOrderedTwice'
    BY <1>4 DEF OrderInv, NothingOrderedTwice
  <1>7. RecordedWasActive'
    BY <1>1, <1>3, <1>4 DEF Destroy, Gone, OrderInv, RecordedWasActive, TypeOK, Rigs, Roles
  <1>8. RecordedAndGone'
    <2>1. recorded'["node"] = recorded["node"] /\ recorded["node"] # h
      BY <1>2, <1>3 DEF Destroy, OrderInv, TypeOK, Rigs, Roles
    <2>2. Exists(recorded["node"])' /\ cloud'[recorded["node"]].choice = order
      BY <1>2, <1>3, <1>4, <2>1 DEF Roles
    <2> QED
      BY <1>2, <1>5, <2>1, <2>2 DEF RecordedAndGone, Destroy, OfRole
  <1>9. Listed' /\ Planned'
    <2>1. CASE Fail
      BY <2>1, RunFrame DEF Fail, End
    <2>2. CASE recorded' = [recorded EXCEPT ![r] = None] /\ Goto("apply")
      <3>1. Listed'
        BY <2>2 DEF Destroy, Goto, OrderInv, Listed
      <3>2. recorded'["node"] = recorded["node"] /\ recorded'["helper"] = None
        BY <1>2, <2>2 DEF OrderInv, TypeOK, Rigs, Roles
      <3>3. ASSUME NEW q \in run.todo PROVE q = "helper"
        <4>1. q \in Roles
          BY DEF OrderInv, TypeOK, Runs
        <4>2. q = "node" => Exists(recorded[q])
          BY <1>3
        <4> QED
          BY <4>1, <4>2, <3>3 DEF Destroy, OrderInv, Planned, Roles
      <3>4. ~Exists(recorded["helper"])'
        BY <3>2 DEF Exists
      <3>5. ASSUME NEW s \in run.waiting PROVE s \in Servers /\ s # h
        BY <1>2, NoneAssumption DEF Destroy, OrderInv, Planned, TypeOK, Runs, RecordedWasActive
      <3> QED
        BY <1>2, <1>4, <1>5, <2>2, <3>1, <3>2, <3>3, <3>4, <3>5
        DEF Destroy, Goto, OrderInv, Planned, Roles
    <2> QED
      BY <2>1, <2>2 DEF Destroy
  <1> QED
    BY <1>6, <1>7, <1>8, <1>9 DEF OrderInv

LEMMA CreateNext ==
    ASSUME OrderInv, TypeOK', NEW r \in Roles, Create(r)
    PROVE  OrderInv'
  <1>1. PICK s \in Servers, switch \in {1, 2} :
           /\ cloud[s].status = "unordered"
           /\ cloud' = [cloud EXCEPT ![s] = [role |-> r, choice |-> order,
                                             status |-> "delivering", switch |-> switch]]
           /\ \/ /\ run' = [run EXCEPT !.todo = @ \ {r}, !.waiting = @ \cup {s}]
                 /\ UNCHANGED pc
              \/ Fail
    BY DEF Create
  <1>2. /\ r \in run.todo /\ ~Exists(recorded[r]) /\ OfRole(r, order) = {}
        /\ pc = "apply" /\ order' = order
        /\ recorded' = [recorded EXCEPT ![r] = None]
    BY DEF Create, OrderInv, Planned
  <1>3. /\ \A t \in Servers : Exists(t)' <=> Exists(t) \/ t = s
        /\ \A t \in Servers : t # s => cloud'[t] = cloud[t]
        /\ cloud'[s].role = r /\ cloud'[s].choice = order /\ cloud'[s].status = "delivering"
        /\ ~Exists(s)
    BY <1>1, NoneAssumption DEF Exists, OrderInv, TypeOK
  <1>4. NothingOrderedTwice'
    BY <1>2, <1>3 DEF OrderInv, NothingOrderedTwice, OfRole
  <1>5. RecordedWasActive'
    <2> SUFFICES ASSUME NEW q \in Roles, recorded'[q] # None
                 PROVE  /\ cloud'[recorded'[q]].role = q
                        /\ cloud'[recorded'[q]].status \in {"active", "deleted"}
      BY DEF RecordedWasActive
    <2>1. q # r /\ recorded'[q] = recorded[q] /\ recorded[q] \in Servers
      BY <1>2 DEF OrderInv, TypeOK, Rigs
    <2>2. /\ cloud[recorded[q]].role = q
          /\ cloud[recorded[q]].status \in {"active", "deleted"}
      BY <2>1 DEF OrderInv, RecordedWasActive
    <2> QED
      BY <1>1, <1>3, <2>1, <2>2
  <1>6. r = "node" => recorded["node"] = None
    BY <1>2 DEF OrderInv, RecordedAndGone
  <1>7. /\ recorded'["node"] = recorded["node"]
        /\ recorded'["helper"] = IF r = "helper" THEN None ELSE recorded["helper"]
    BY <1>2, <1>6 DEF OrderInv, TypeOK, Rigs, Roles
  <1>8. recorded["node"] # None =>
          /\ recorded["node"] \in Servers /\ recorded["node"] # s
          /\ Exists(recorded["node"])
    BY <1>3 DEF OrderInv, RecordedAndGone, TypeOK, Rigs, Roles
  <1>9. RecordedAndGone'
    <2>1. recorded'["node"] # None => Exists(recorded["node"])'
      BY <1>3, <1>7, <1>8
    <2>2. ASSUME recorded'["helper"] # None, ~Exists(recorded["helper"])'
          PROVE  /\ recorded'["node"] # None
                 /\ OfRole("helper", cloud[recorded["node"]].choice)' = {}
      <3>1. r = "node" /\ recorded["helper"] # None /\ recorded'["helper"] = recorded["helper"]
        BY <1>7, <2>2 DEF Roles
      <3>2. recorded["helper"] \in Servers
        BY <3>1 DEF OrderInv, TypeOK, Rigs, Roles
      <3>3. ~Exists(recorded["helper"])
        BY <1>3, <2>2, <3>1, <3>2
      <3>4. recorded["node"] # None
        BY <3>1, <3>3 DEF OrderInv, RecordedAndGone
      <3> QED
        BY <1>6, <3>1, <3>4
    <2> QED
      BY <2>1, <2>2 DEF RecordedAndGone, OfRole
  <1>10. Listed' /\ Planned'
    <2>1. CASE Fail
      BY <2>1, RunFrame DEF Fail, End
    <2>2. CASE /\ run' = [run EXCEPT !.todo = @ \ {r}, !.waiting = @ \cup {s}]
               /\ UNCHANGED pc
      <3>1. /\ run'.todo = run.todo \ {r} /\ run'.waiting = run.waiting \cup {s}
            /\ run'.replace = run.replace
        BY <2>2 DEF OrderInv, TypeOK, Runs
      <3>2. Listed'
        BY <1>2, <2>2 DEF OrderInv, Listed
      <3>3. ASSUME NEW q \in run.todo \ {r}
            PROVE  IF Exists(recorded[q])'
                   THEN /\ q = "helper" /\ run'.replace
                        /\ recorded'["node"] # None
                        /\ \A p \in Roles : cloud'[recorded'[p]].choice = order'
                   ELSE OfRole(q, order)' = {}
        <4>1. q \in Roles /\ q # r /\ recorded'[q] = recorded[q]
          BY <1>2 DEF OrderInv, TypeOK, Runs, Rigs
        <4>2. CASE Exists(recorded[q])
          <5>1. q = "helper" /\ recorded["node"] # None
            BY <1>2, <4>2 DEF OrderInv, Planned
          <5> QED
            BY <1>6, <4>1, <5>1 DEF Roles
        <4>3. CASE ~Exists(recorded[q])
          <5>1. OfRole(q, order) = {}
            BY <1>2, <4>3 DEF OrderInv, Planned
          <5>2. OfRole(q, order)' = {}
            BY <1>2, <1>3, <4>1, <5>1 DEF OfRole
          <5>3. ~Exists(recorded[q])'
            <6>1. recorded[q] = None \/ recorded[q] \in Servers
              BY <4>1 DEF OrderInv, TypeOK, Rigs
            <6>2. recorded[q] # s
              <7>1. recorded[q] # None =>
                        cloud[recorded[q]].status \in {"active", "deleted"}
                BY <4>1 DEF OrderInv, RecordedWasActive
              <7> QED
                BY <1>1, <7>1, NoneAssumption
            <6> QED
              BY <1>3, <4>1, <4>3, <6>1, <6>2 DEF Exists
          <5> QED
            BY <1>2, <5>2, <5>3
        <4> QED
          BY <4>2, <4>3
      <3>4. ASSUME NEW t \in run.waiting \cup {s}
            PROVE  /\ Exists(t)' /\ cloud'[t].choice = order
                   /\ cloud'[t].role \notin run.todo \ {r}
                   /\ recorded'[cloud'[t].role] = None
        <4>1. CASE t = s
          BY <1>2, <1>3, <4>1 DEF OrderInv, TypeOK, Rigs
        <4>2. CASE t # s
          <5>1. /\ t \in Servers /\ cloud[t].role \in Roles
                /\ Exists(t) /\ cloud[t].choice = order
                /\ cloud[t].role \notin run.todo /\ recorded[cloud[t].role] = None
            BY <1>2, <4>2 DEF OrderInv, Planned, TypeOK, Runs, States
          <5> QED
            BY <1>2, <1>3, <4>2, <5>1 DEF OrderInv, TypeOK, Rigs
        <4> QED
          BY <4>1, <4>2
      <3>5. Planned'
        BY <1>2, <3>1, <3>3, <3>4 DEF Planned, OfRole
      <3> QED
        BY <3>2, <3>5
    <2> QED
      BY <1>1, <2>1, <2>2
  <1> QED
    BY <1>4, <1>5, <1>9, <1>10 DEF OrderInv

LEMMA DeliveredNext ==
    ASSUME OrderInv, TypeOK', NEW s \in Servers, Delivered(s)
    PROVE  OrderInv'
  <1> DEFINE r == cloud[s].role
  <1>1. /\ pc = "apply" /\ pc' = "apply" /\ s \in run.waiting /\ cloud[s].status = "active"
        /\ r \in Roles /\ Exists(s) /\ cloud[s].choice = order
        /\ r \notin run.todo /\ recorded[r] = None
        /\ recorded' = [recorded EXCEPT ![r] = s]
        /\ UNCHANGED <<cloud, order>>
    BY DEF Delivered, OrderInv, Planned, provider, TypeOK, States
  <1>2. /\ run'.waiting = run.waiting \ {s} /\ run'.todo = run.todo
        /\ run'.replace = run.replace
    BY DEF Delivered, OrderInv, TypeOK, Runs
  <1>3. recorded'[r] = s /\ \A q \in Roles \ {r} : recorded'[q] = recorded[q]
    BY <1>1 DEF OrderInv, TypeOK, Rigs
  <1> HIDE DEF r
  <1>4. \A t \in Servers \cup {None} : Exists(t)' <=> Exists(t)
    BY <1>1 DEF Exists
  <1>5. NothingOrderedTwice'
    BY <1>1, <1>4 DEF OrderInv, NothingOrderedTwice
  <1>6. RecordedWasActive'
    BY <1>1, <1>3 DEF OrderInv, RecordedWasActive, r
  <1>7. RecordedAndGone'
    <2>1. recorded'["node"] # None => Exists(recorded["node"])'
      BY <1>1, <1>3, <1>4 DEF OrderInv, RecordedAndGone, TypeOK, Rigs, Roles
    <2>2. ASSUME recorded'["helper"] # None, ~Exists(recorded["helper"])'
          PROVE  /\ recorded'["node"] # None
                 /\ OfRole("helper", cloud[recorded["node"]].choice)' = {}
      <3>1. r = "node"
        BY <1>1, <1>3, <1>4, <2>2 DEF Roles
      <3>2. recorded["helper"] # None /\ recorded'["helper"] = recorded["helper"]
        BY <1>3, <2>2, <3>1 DEF Roles
      <3>3. ~Exists(recorded["helper"])
        BY <1>1, <2>2, <3>2 DEF Exists
      <3> QED
        BY <1>1, <3>1, <3>2, <3>3 DEF OrderInv, RecordedAndGone
    <2> QED
      BY <2>1, <2>2 DEF RecordedAndGone
  <1>8. Listed'
    BY <1>1 DEF OrderInv, Listed
  <1>9. ASSUME NEW q \in run.todo
        PROVE  IF Exists(recorded[q])'
               THEN /\ q = "helper" /\ run'.replace
                    /\ recorded'["node"] # None
                    /\ \A p \in Roles : cloud'[recorded'[p]].choice = order'
               ELSE OfRole(q, order)' = {}
    <2>1. q \in Roles /\ q # r /\ recorded'[q] = recorded[q]
      BY <1>1, <1>3 DEF OrderInv, TypeOK, Runs
    <2>2. CASE Exists(recorded[q])
      <3>1. q = "helper" /\ recorded["node"] # None
        BY <1>1, <2>2 DEF OrderInv, Planned
      <3>2. r = "node"
        BY <1>1, <2>1, <3>1 DEF Roles
      <3> QED
        BY <1>1, <3>1, <3>2
    <2>3. CASE ~Exists(recorded[q])
      <3>1. OfRole(q, order) = {}
        BY <1>1, <2>3 DEF OrderInv, Planned
      <3> QED
        BY <1>1, <2>1, <2>3, <3>1 DEF Exists, OfRole
    <2> QED
      BY <2>2, <2>3
  <1>10. ASSUME NEW t \in run.waiting, t # s
         PROVE  /\ Exists(t)' /\ cloud'[t].choice = order
                /\ cloud'[t].role \notin run.todo
                /\ recorded'[cloud'[t].role] = None
    <2>1. /\ t \in Servers /\ cloud[t].role \in Roles
          /\ Exists(t) /\ cloud[t].choice = order
          /\ cloud[t].role \notin run.todo /\ recorded[cloud[t].role] = None
      BY <1>1 DEF OrderInv, Planned, TypeOK, Runs, States
    <2>2. cloud[t].role # r
      BY <1>1, <1>10, <2>1 DEF OrderInv, NothingOrderedTwice, r
    <2> QED
      BY <1>1, <1>3, <1>4, <2>1, <2>2
  <1>11. Planned'
    BY <1>1, <1>2, <1>9, <1>10 DEF Planned
  <1> QED
    BY <1>5, <1>6, <1>7, <1>8, <1>11 DEF OrderInv

\* The steps before the apply.
LEMMA ListNext ==
    ASSUME OrderInv, TypeOK', List
    PROVE  OrderInv'
  <1>1. UNCHANGED <<cloud, recorded, order>> /\ pc = "list" /\ pc' = "adoptNode"
    BY DEF List, provider
  <1>2. order # None /\ ~run.replace /\ run.waiting = {}
    BY <1>1 DEF OrderInv, Listed
  <1>3. run'.replace = run.replace /\ run'.waiting = run.waiting
    BY DEF List, OrderInv, TypeOK, Runs
  <1>4. ASSUME NEW r \in Roles, recorded[r] = None
        PROVE  run'.found[r] = OfRole(r, order)
    BY <1>4 DEF List, OfRole, OrderInv, TypeOK, Runs
  <1>5. Listed'
    BY <1>1, <1>2, <1>3, <1>4 DEF Listed, OfRole, Exists
  <1>6. Planned'
    BY <1>1 DEF Planned
  <1> QED
    BY <1>1, <1>5, <1>6, StateFrame DEF OrderInv

LEMMA AdoptNext ==
    ASSUME OrderInv, TypeOK', NEW r \in Roles, NEW label, Adopt(r, label),
           \/ pc = "adoptNode" /\ r = "node" /\ label = "adoptHelper"
           \/ pc = "adoptHelper" /\ r = "helper" /\ label = "plan"
    PROVE  OrderInv'
  <1>1. UNCHANGED <<cloud, order>> /\ pc' = label
    BY DEF Adopt, provider
  <1>2. /\ run'.replace = run.replace /\ run'.waiting = run.waiting
        /\ run'.found["helper"] = IF r = "helper" THEN {} ELSE run.found["helper"]
    BY DEF Adopt, OrderInv, TypeOK, Runs, Roles
  <1>3. order # None /\ ~run.replace /\ run.waiting = {}
    BY DEF OrderInv, Listed
  <1>4. recorded[r] = None => run.found[r] = OfRole(r, order)
    BY DEF OrderInv, Listed
  <1>5. \A q \in Roles \ {r} : recorded'[q] = recorded[q]
    BY DEF Adopt, OrderInv, TypeOK, Rigs
  <1>6. recorded'[r] = None => run.found[r] = {} /\ recorded'[r] = recorded[r]
    BY NoneAssumption DEF Adopt, OrderInv, TypeOK, Rigs, Runs
  <1>7. \/ UNCHANGED recorded
        \/ /\ recorded[r] = None
           /\ recorded'[r] \in Servers
           /\ cloud[recorded'[r]].role = r /\ cloud[recorded'[r]].status = "active"
    <2> SUFFICES ASSUME NEW s \in run.found[r], run.found[r] = {s},
                        cloud[s].status = "active", recorded[r] = None,
                        recorded' = [recorded EXCEPT ![r] = s]
                 PROVE  /\ recorded'[r] \in Servers
                        /\ cloud[recorded'[r]].role = r
                        /\ cloud[recorded'[r]].status = "active"
      BY DEF Adopt
    <2>1. s \in Servers /\ cloud[s].role = r
      BY <1>4 DEF OfRole
    <2> QED
      BY <2>1 DEF OrderInv, TypeOK, Rigs
  <1>8. NothingOrderedTwice'
    BY <1>1 DEF OrderInv, NothingOrderedTwice, Exists
  <1>9. RecordedWasActive'
    BY <1>1, <1>5, <1>7 DEF OrderInv, RecordedWasActive
  <1>10. RecordedAndGone'
    <2>1. CASE UNCHANGED recorded
      BY <1>1, <2>1, StateFrame
    <2>2. CASE /\ recorded[r] = None
               /\ recorded'[r] \in Servers
               /\ cloud[recorded'[r]].role = r /\ cloud[recorded'[r]].status = "active"
      <3>1. Exists(recorded[r])'
        BY <1>1, <2>2, NoneAssumption DEF Exists
      <3>2. CASE r = "node"
        <4>1. recorded'["helper"] = recorded["helper"]
          BY <1>5, <3>2 DEF Roles
        <4>2. recorded["helper"] # None => Exists(recorded["helper"])
          BY <2>2, <3>2 DEF OrderInv, RecordedAndGone
        <4> QED
          BY <1>1, <3>1, <3>2, <4>1, <4>2 DEF RecordedAndGone, Exists
      <3>3. CASE r = "helper"
        <4>1. recorded'["node"] = recorded["node"]
          BY <1>5, <3>3 DEF Roles
        <4> QED
          BY <1>1, <3>1, <3>3, <4>1 DEF OrderInv, RecordedAndGone, Exists
      <3> QED
        BY <3>2, <3>3 DEF Roles
    <2> QED
      BY <1>7, <2>1, <2>2
  <1>11. Listed'
    <2>1. ASSUME NEW q \in Roles, recorded'[q] = None
          PROVE  /\ label = "adoptHelper" =>
                       (IF q = "helper" THEN run'.found[q] ELSE {}) = OfRole(q, order)
                 /\ label = "plan" => OfRole(q, order) = {}
      BY <1>2, <1>4, <1>5, <1>6, <2>1 DEF OrderInv, Listed, Roles
    <2> QED
      BY <1>1, <1>2, <1>3, <2>1 DEF Listed, OfRole, Exists
  <1>12. Planned'
    BY <1>1 DEF Planned
  <1> QED
    BY <1>8, <1>9, <1>10, <1>11, <1>12 DEF OrderInv

LEMMA PlanNext ==
    ASSUME OrderInv, TypeOK', Plan
    PROVE  OrderInv'
  <1>1. UNCHANGED <<cloud, recorded, order>> /\ pc = "plan"
    BY DEF Plan, provider
  <1>2. order # None /\ run.waiting = {}
    BY <1>1 DEF OrderInv, Listed
  <1>3. CASE Missing \cup Replaced = {} /\ run' = [run EXCEPT !.replace = TRUE] /\ UNCHANGED pc
    <2>1. \A r \in Roles : Exists(recorded[r]) /\ cloud[recorded[r]].choice = order
      BY <1>3 DEF Missing, Replaced
    <2>2. run'.waiting = run.waiting
      BY <1>3 DEF OrderInv, TypeOK, Runs
    <2>3. Listed'
      BY <1>1, <1>2, <1>3, <2>1, <2>2 DEF OrderInv, Listed, OfRole, Exists
    <2>4. Planned'
      BY <1>1, <1>3 DEF Planned
    <2> QED
      BY <1>1, <2>3, <2>4, StateFrame DEF OrderInv
  <1>4. CASE pc' = "finished"
    BY <1>1, <1>4, StateFrame, RunFrame DEF OrderInv
  <1>5. CASE /\ Unexpected = {}
             /\ run' = [run EXCEPT !.todo = Missing \cup Replaced]
             /\ pc' = "apply"
    <2> DEFINE todo == Missing \cup Replaced
    <2>a. todo \subseteq Roles
      BY DEF Missing, Replaced
    <2>1. Listed'
      BY <1>1, <1>2, <1>5 DEF Listed
    <2>2. ASSUME NEW r \in todo, Exists(recorded[r])
          PROVE  r = "helper" /\ run.replace
      BY <1>5, <2>2 DEF Missing, Replaced, Unexpected
    <2>3. ASSUME NEW r \in todo, ~Exists(recorded[r])
          PROVE  OfRole(r, order) = {}
      <3>1. CASE recorded[r] = None
        BY <1>1, <2>a, <3>1 DEF OrderInv, Listed
      <3>2. CASE recorded[r] # None
        \* The helper is gone but recorded; its node is of this choice, as nothing
        \* unexpected would be deleted.
        <4>1. /\ r = "helper" /\ recorded["node"] # None /\ Exists(recorded["node"])
              /\ OfRole("helper", cloud[recorded["node"]].choice) = {}
          BY <2>a, <2>3, <3>2 DEF OrderInv, RecordedAndGone, Roles
        <4>2. cloud[recorded["node"]].choice = order
          BY <1>5, <4>1 DEF Unexpected, Replaced, Missing, Roles
        <4> QED
          BY <4>1, <4>2
      <3> QED
        BY <3>1, <3>2
    <2> HIDE DEF todo
    <2>b. run' = [run EXCEPT !.todo = todo]
      BY <1>5 DEF todo
    <2>4. run'.todo = todo /\ run'.waiting = {} /\ run'.replace = run.replace
      BY <1>2, <2>b DEF OrderInv, TypeOK, Runs
    <2>5. ASSUME run.replace
          PROVE  /\ recorded["node"] # None
                 /\ \A r \in Roles : cloud[recorded[r]].choice = order
      BY <1>1, <2>5 DEF OrderInv, Listed, Exists, Roles
    <2>6. Planned'
      BY <1>1, <1>5, <2>2, <2>3, <2>4, <2>5 DEF Planned, OfRole, Exists
    <2> QED
      BY <1>1, <2>1, <2>6, StateFrame DEF OrderInv
  <1> QED
    BY <1>3, <1>4, <1>5 DEF Plan

\* The steps of the provider and of the operator.
LEMMA DeliverNext ==
    ASSUME OrderInv, TypeOK', NEW s \in Servers, Deliver(s)
    PROVE  OrderInv'
  <1>1. /\ cloud[s].status = "delivering" /\ cloud'[s].status \in {"active", "failed"}
        /\ cloud'[s].role = cloud[s].role /\ cloud'[s].choice = cloud[s].choice
        /\ \A t \in Servers \ {s} : cloud'[t] = cloud[t]
        /\ UNCHANGED <<recorded, order, pc, run>>
    BY DEF Deliver, OrderInv, TypeOK, States
  <1>2. /\ \A t \in Servers \cup {None} : Exists(t)' <=> Exists(t)
        /\ \A t \in Servers : cloud'[t].role = cloud[t].role /\ cloud'[t].choice = cloud[t].choice
    BY <1>1, NoneAssumption DEF Exists
  <1>3. \A r \in Roles : \A a : OfRole(r, a)' = OfRole(r, a)
    BY <1>2 DEF OfRole
  <1>4. /\ \A r \in Roles : recorded[r] \in Servers \cup {None}
        /\ run.waiting \subseteq Servers /\ run.todo \subseteq Roles
    BY DEF OrderInv, TypeOK, Rigs, Runs
  <1>5. NothingOrderedTwice'
    BY <1>2 DEF OrderInv, NothingOrderedTwice
  <1>6. RecordedWasActive'
    BY <1>1, <1>4 DEF OrderInv, RecordedWasActive
  <1>7. RecordedAndGone'
    BY <1>1, <1>2, <1>3, <1>4 DEF OrderInv, RecordedAndGone, Roles
  <1>8. Listed'
    <2>1. \A r \in Roles : Exists(recorded[r])' <=> Exists(recorded[r])
      BY <1>1, <1>2, <1>4
    <2>2. \A r \in Roles : recorded[r] # None => cloud'[recorded[r]].choice = cloud[recorded[r]].choice
      BY <1>2, <1>4
    <2> QED
      BY <1>1, <1>3, <2>1, <2>2 DEF OrderInv, Listed, Exists
  <1>9. Planned'
    <2>1. \A r \in Roles : Exists(recorded[r])' <=> Exists(recorded[r])
      BY <1>1, <1>2, <1>4
    <2>2. \A r \in Roles : recorded[r] # None => cloud'[recorded[r]].choice = cloud[recorded[r]].choice
      BY <1>2, <1>4
    <2>3. ASSUME pc = "apply", NEW r \in run.todo
          PROVE  IF Exists(recorded[r])'
                 THEN /\ r = "helper" /\ run.replace
                      /\ recorded["node"] # None
                      /\ \A q \in Roles : cloud'[recorded[q]].choice = order
                 ELSE OfRole(r, order)' = {}
      <3>1. r \in Roles
        BY <1>4
      <3>2. CASE Exists(recorded[r])
        <4>1. /\ r = "helper" /\ run.replace
              /\ recorded["node"] # None
              /\ \A q \in Roles : cloud[recorded[q]].choice = order
          BY <2>3, <3>2 DEF OrderInv, Planned
        <4>2. recorded["helper"] # None
          BY <3>2, <4>1 DEF Exists
        <4> QED
          BY <2>1, <2>2, <3>1, <3>2, <4>1, <4>2 DEF Roles
      <3>3. CASE ~Exists(recorded[r])
        <4>1. OfRole(r, order) = {}
          BY <2>3, <3>3 DEF OrderInv, Planned
        <4>3. ~Exists(recorded[r])'
          BY <2>1, <3>1, <3>3
        <4>4. OfRole(r, order)' = {}
          BY <1>1, <1>3, <3>1, <4>1
        <4> QED
          BY <4>3, <4>4
      <3> QED
        BY <3>2, <3>3
    <2>4. ASSUME pc = "apply", NEW t \in run.waiting
          PROVE  /\ Exists(t)' /\ cloud'[t].choice = order
                 /\ cloud'[t].role \notin run.todo
                 /\ recorded[cloud'[t].role] = None
      BY <1>2, <1>4, <2>4 DEF OrderInv, Planned
    <2>5. UNCHANGED <<recorded, order, pc, run>>
      BY <1>1
    <2> QED
      BY <2>3, <2>4, <2>5 DEF Planned, OfRole, Exists
  <1> QED
    BY <1>5, <1>6, <1>7, <1>8, <1>9 DEF OrderInv

LEMMA DeleteNext ==
    ASSUME OrderInv, TypeOK', NEW s \in Servers, Delete(s)
    PROVE  OrderInv'
  <1>1. /\ cloud'[s].status = "deleted" /\ cloud'[s].role = cloud[s].role
        /\ \A t \in Servers \ {s} : cloud'[t] = cloud[t]
        /\ pc = "idle" /\ pc' = "idle"
    BY DEF Delete, Gone, OrderInv, TypeOK
  <1>2. \A t \in Servers \cup {None} : Exists(t)' <=> Exists(t) /\ t # s
    BY <1>1, NoneAssumption DEF Exists
  <1>3. NothingOrderedTwice'
    BY <1>1, <1>2 DEF OrderInv, NothingOrderedTwice
  <1>4. \A r \in Roles : recorded[r] \in Servers \cup {None}
    BY DEF OrderInv, TypeOK, Rigs
  <1>5. \/ (\A r \in Roles : recorded[r] # s) /\ UNCHANGED recorded
        \/ \A r \in Roles : recorded'[r] = IF Exists(recorded[r]) /\ recorded[r] # s
                                            THEN recorded[r] ELSE None
    BY DEF Delete
  <1>6. RecordedWasActive'
    BY <1>1, <1>4, <1>5 DEF OrderInv, RecordedWasActive
  <1>7. RecordedAndGone'
    <2>1. CASE (\A r \in Roles : recorded[r] # s) /\ UNCHANGED recorded
      <3>1. \A r \in Roles : Exists(recorded[r])' <=> Exists(recorded[r])
        BY <1>2, <1>4, <2>1
      <3>2. recorded["node"] # None =>
                /\ recorded["node"] \in Servers
                /\ cloud'[recorded["node"]] = cloud[recorded["node"]]
        BY <1>1, <1>4, <2>1 DEF Roles
      <3>3. \A a : OfRole("helper", a)' \subseteq OfRole("helper", a)
        BY <1>1, <1>2 DEF OfRole
      <3> QED
        BY <2>1, <3>1, <3>2, <3>3 DEF OrderInv, RecordedAndGone, Roles
    <2>2. CASE \A r \in Roles : recorded'[r] = IF Exists(recorded[r]) /\ recorded[r] # s
                                               THEN recorded[r] ELSE None
      BY <1>2, <1>4, <2>2 DEF RecordedAndGone, Roles
    <2> QED
      BY <1>5, <2>1, <2>2
  <1>8. Listed' /\ Planned'
    BY <1>1, RunFrame
  <1> QED
    BY <1>3, <1>6, <1>7, <1>8 DEF OrderInv

LEMMA OrderNext == OrderInv /\ TypeOK' /\ [Next]_vars => OrderInv'
  <1> SUFFICES ASSUME OrderInv, TypeOK', [Next]_vars PROVE OrderInv'
    OBVIOUS
  <1> USE DEF provider, controller
  <1>1. CASE Start
    <2>1. run'.replace = FALSE /\ run'.waiting = {}
      BY <1>1 DEF Start, NewRun
    <2>2. Listed' /\ Planned'
      BY <1>1, <2>1 DEF Start, Listed, Planned
    <2> QED
      BY <1>1, <2>2, StateFrame DEF Start, OrderInv
  <1>2. CASE Choose
    <2>1. order' # None
      BY <1>2, NoneAssumption DEF Choose
    <2>2. Listed' /\ Planned'
      BY <1>2, <2>1 DEF Choose, Goto, OrderInv, Listed, Planned
    <2> QED
      BY <1>2, <2>2, StateFrame DEF Choose, OrderInv
  <1>3. CASE List
    BY <1>3, ListNext
  <1>4. CASE AdoptNode \/ AdoptHelper
    BY <1>4, AdoptNext DEF AdoptNode, AdoptHelper, Roles
  <1>5. CASE Plan
    BY <1>5, PlanNext
  <1>6. ASSUME NEW r \in Roles, Destroy(r) \/ Create(r) PROVE OrderInv'
    BY <1>6, DestroyNext, CreateNext
  <1>7. ASSUME NEW s \in Servers, Delivered(s) PROVE OrderInv'
    BY <1>7, DeliveredNext
  <1>8. ASSUME UNCHANGED <<cloud, recorded, order>>,
               \/ pc' = "idle"
               \/ /\ pc' \notin {"choose", "list", "adoptNode", "adoptHelper", "plan", "apply"}
                  /\ pc \notin {"idle", "choose"}
        PROVE  OrderInv'
    BY <1>8, StateFrame, RunFrame DEF OrderInv
  <1>9. CASE Applied \/ Finished \/ Interrupt
    BY <1>8, <1>9 DEF Applied, Finished, Interrupt, Goto, Fail, End
  <1>10. CASE MoveKeys \/ MarkKeys \/ ReachHelper \/ ReachNode
    BY <1>8, <1>10 DEF MoveKeys, MarkKeys, ReachHelper, ReachNode, Reach, Goto
  <1>11. CASE StartBootstrap \/ CheckNode \/ WaitForMirror
    BY <1>8, <1>11 DEF StartBootstrap, CheckNode, WaitForMirror, Goto, Fail, End
  <1>12. CASE MoveRigFile \/ WriteRigFile
    BY <1>8, <1>12 DEF MoveRigFile, WriteRigFile, Goto, End
  <1>13. ASSUME NEW s \in Servers, Deliver(s) \/ Delete(s) PROVE OrderInv'
    BY <1>13, DeliverNext, DeleteNext
  <1>14. ASSUME UNCHANGED <<cloud, recorded, order, pc, run>> PROVE OrderInv'
    <2>1. Listed' /\ Planned'
      BY <1>14 DEF OrderInv, Listed, Planned, OfRole, Exists
    <2> QED
      BY <1>14, <2>1, StateFrame DEF OrderInv
  <1>15. ASSUME NEW s \in Servers, Bootstrap(s) PROVE OrderInv'
    BY <1>14, <1>15 DEF Bootstrap
  <1>16. CASE UNCHANGED vars
    BY <1>14, <1>16 DEF vars
  <1> QED
    BY <1>1, <1>2, <1>3, <1>4, <1>5, <1>6, <1>7, <1>9, <1>10, <1>11, <1>12, <1>13, <1>15, <1>16
    DEF Next, Step

LEMMA OrderInit == Init => OrderInv
  <1> SUFFICES ASSUME Init PROVE OrderInv
    OBVIOUS
  <1>1. \A s \in Servers : ~Exists(s)
    BY DEF Init, Exists
  <1>2. \A r \in Roles : recorded[r] = None
    BY DEF Init, NoRig
  <1>3. NothingOrderedTwice /\ RecordedWasActive /\ RecordedAndGone
    BY <1>1, <1>2 DEF NothingOrderedTwice, RecordedWasActive, RecordedAndGone, Roles
  <1>4. Listed /\ Planned
    BY DEF Init, Listed, Planned
  <1> QED
    BY <1>3, <1>4, TypeInit DEF OrderInv

LEMMA OrderInvHolds == Spec => []OrderInv
  <1>1. OrderInv /\ [Next]_vars => OrderInv'
    BY OrderNext, TypeNext DEF OrderInv
  <1> QED
    BY <1>1, OrderInit, PTL DEF Spec

\* A project never holds two servers of a role, for any choices, projects and
\* bounds: what Terraform did not record is taken over (adopt_servers).
THEOREM OrderedOnce == Spec => []NothingOrderedTwice
  BY OrderInvHolds, PTL DEF OrderInv

\* An invocation deletes nothing but a helper that it was told to replace
\* (order_servers).
THEOREM OnlyTheHelperIsReplaced == Spec => NothingElseDeleted
  <1> USE DEF provider, controller
  <1>1. OrderInv /\ [Next]_vars =>
            [\A s \in Servers : Exists(s) /\ ~Exists(s)' /\ pc # "idle" =>
                cloud[s].role = "helper" /\ run.replace]_vars
    <2> SUFFICES ASSUME OrderInv, [Next]_vars, NEW s \in Servers,
                        Exists(s), ~Exists(s)', pc # "idle"
                 PROVE  cloud[s].role = "helper" /\ run.replace
      OBVIOUS
    <2>1. cloud' # cloud
      BY DEF Exists
    <2>2. PICK r \in Roles, t \in Servers : Destroy(r) \/ Create(r) \/ Deliver(t)
      BY <2>1
      DEF Next, Step, vars, Start, Choose, List, AdoptNode, AdoptHelper, Adopt, Plan, Delivered,
          Applied, Finished, MoveKeys, MarkKeys, ReachHelper, ReachNode, Reach, StartBootstrap,
          CheckNode, WaitForMirror, MoveRigFile, WriteRigFile, Interrupt, Bootstrap, Delete, Roles
    <2>3. CASE Destroy(r)
      <3>1. s = recorded[r] /\ r \in run.todo /\ pc = "apply"
        BY <2>3 DEF Destroy, Exists, OrderInv, TypeOK
      <3>2. r = "helper" /\ run.replace
        BY <3>1 DEF OrderInv, Planned
      <3>3. s # None
        BY DEF Exists
      <3> QED
        BY <3>1, <3>2, <3>3 DEF OrderInv, RecordedWasActive
    <2>4. CASE Create(r)
      BY <2>4 DEF Create, Exists, OrderInv, TypeOK, States
    <2>5. CASE Deliver(t)
      BY <2>5 DEF Deliver, Exists, OrderInv, TypeOK, States
    <2> QED
      BY <2>2, <2>3, <2>4, <2>5
  <1> QED
    BY <1>1, OrderInvHolds, PTL DEF Spec, NothingElseDeleted

---------------------------------------------------------------------------
(* What a run that ends well has checked *)

Stages == {"finished", "move", "mark", "reachHelper", "reachNode", "bootstrap", "check",
           "mirror", "old", "write"}

\* A role is still to be ordered, on its way, or there as it was chosen.
OnTheWay == pc = "apply" =>
    \A r \in Roles : \/ r \in run.todo
                     \/ \E s \in run.waiting : cloud[s].role = r
                     \/ Exists(recorded[r]) /\ cloud[recorded[r]].choice = order

\* From the finished plan on the run names the recorded servers, and each stage
\* leaves what it checked of them.
StagesDone ==
    /\ pc \in Stages =>
         /\ run.values = recorded
         /\ \A r \in Roles : Exists(recorded[r]) /\ cloud[recorded[r]].choice = order
    /\ pc \in Stages \ {"finished", "move", "mark", "reachHelper"} => recorded["helper"] \in known
    /\ pc \in Stages \ {"finished", "move", "mark", "reachHelper", "reachNode"} =>
         recorded["node"] \in known
    /\ pc \in {"mirror", "old", "write"} => recorded["node"] \in bonded
    /\ pc \in {"old", "write"} => mirror[recorded["helper"]] = "ready"

\* As long as the node of the rig file is there, it is the recorded one and passed its
\* stages, and so did the helper of the file, unless it is gone.
FileVouches == rigFile # None =>
    /\ \A r \in Roles : /\ rigFile[r] \in Servers /\ cloud[rigFile[r]].role = r
                        /\ cloud[rigFile[r]].status # "unordered"
    /\ Exists(rigFile["node"]) =>
         /\ rigFile["node"] = recorded["node"] /\ pc # "move"
         /\ rigFile["node"] \in known \cap bonded
         /\ Exists(rigFile["helper"]) =>
              /\ rigFile["helper"] \in known /\ mirror[rigFile["helper"]] = "ready"
              /\ cloud[rigFile["helper"]].choice = cloud[rigFile["node"]].choice

ReadyInv == OnTheWay /\ StagesDone /\ FileVouches

\* A server that stays keeps its role, its choice and what was checked of it.
LEMMA ServersStay ==
    ASSUME TypeOK, [Next]_vars, NEW s \in Servers, cloud[s].status # "unordered"
    PROVE  /\ cloud'[s].status # "unordered" /\ cloud'[s].role = cloud[s].role
           /\ Exists(s)' => /\ Exists(s) /\ cloud'[s].choice = cloud[s].choice
                            /\ s \in bonded => s \in bonded'
                            /\ mirror[s] = "ready" => mirror'[s] = "ready"
  <1> USE DEF provider, controller
  <1>1. CASE StartBootstrap
    BY <1>1 DEF StartBootstrap, Exists, TypeOK
  <1>2. CASE CheckNode
    BY <1>2 DEF CheckNode, Exists
  <1>3. ASSUME NEW t \in Servers, Bootstrap(t)
        PROVE  /\ UNCHANGED <<cloud, bonded>>
               /\ mirror[s] = "ready" => mirror'[s] = "ready"
    BY <1>3 DEF Bootstrap, TypeOK
  <1>4. ASSUME NEW t \in Servers, Deliver(t)
        PROVE  /\ cloud'[s].status # "unordered" /\ cloud'[s].role = cloud[s].role
               /\ Exists(s)' => Exists(s) /\ cloud'[s].choice = cloud[s].choice
               /\ mirror' = mirror
               /\ s \in bonded => s \in bonded'
    BY <1>4 DEF Deliver, Exists, TypeOK, States
  <1>5. ASSUME NEW t \in Servers, cloud' = [cloud EXCEPT ![t] = Gone(t)],
               mirror' = [mirror EXCEPT ![t] = "none"], bonded' = bonded \ {t}
        PROVE  /\ cloud'[s].status # "unordered" /\ cloud'[s].role = cloud[s].role
               /\ Exists(s)' => /\ Exists(s) /\ cloud'[s].choice = cloud[s].choice
                                /\ s \in bonded => s \in bonded'
                                /\ mirror[s] = "ready" => mirror'[s] = "ready"
    <2>1. CASE s = t
      BY <1>5, <2>1 DEF Gone, Exists, TypeOK
    <2>2. CASE s # t
      BY <1>5, <2>2 DEF Exists, TypeOK
    <2> QED BY <2>1, <2>2
  <1>6. ASSUME NEW t \in Servers, Delete(t)
        PROVE  cloud' = [cloud EXCEPT ![t] = Gone(t)] /\ mirror' = [mirror EXCEPT ![t] = "none"]
               /\ bonded' = bonded \ {t}
    BY <1>6 DEF Delete
  <1>7. ASSUME NEW r \in Roles, Destroy(r)
        PROVE  /\ recorded[r] \in Servers
               /\ cloud' = [cloud EXCEPT ![recorded[r]] = Gone(recorded[r])]
               /\ mirror' = [mirror EXCEPT ![recorded[r]] = "none"]
               /\ bonded' = bonded \ {recorded[r]}
    BY <1>7 DEF Destroy, Exists, TypeOK, Rigs
  <1>8. ASSUME NEW r \in Roles, Create(r)
        PROVE  cloud'[s] = cloud[s] /\ UNCHANGED <<mirror, bonded>>
    <2>1. PICK t \in Servers, switch \in {1, 2} :
             /\ cloud[t].status = "unordered"
             /\ cloud' = [cloud EXCEPT ![t] = [role |-> r, choice |-> order,
                                               status |-> "delivering", switch |-> switch]]
      BY <1>8 DEF Create
    <2> QED BY <1>8, <2>1 DEF Create, TypeOK
  <1>9. CASE \/ Start \/ Choose \/ List \/ AdoptNode \/ AdoptHelper \/ Plan
             \/ \E t \in Servers : Delivered(t)
             \/ Applied \/ Finished \/ MoveKeys \/ MarkKeys \/ ReachHelper \/ ReachNode
             \/ WaitForMirror \/ MoveRigFile \/ WriteRigFile \/ Interrupt \/ UNCHANGED vars
    <2>1. UNCHANGED <<cloud, mirror, bonded>>
      BY <1>9 DEF Start, Choose, List, AdoptNode, AdoptHelper, Adopt, Plan,
            Delivered, Applied, Finished, MoveKeys, MarkKeys, ReachHelper, ReachNode, Reach,
            WaitForMirror, MoveRigFile, WriteRigFile, Interrupt, vars
    <2> QED BY <2>1 DEF Exists
  <1>10. CASE \/ \E t \in Servers : Delete(t)
              \/ \E r \in Roles : Destroy(r)
    BY <1>5, <1>6, <1>7, <1>10
  <1>11. CASE \/ \E t \in Servers : Bootstrap(t)
              \/ \E r \in Roles : Create(r)
    <2>1. /\ cloud'[s] = cloud[s] /\ bonded' = bonded
          /\ mirror[s] = "ready" => mirror'[s] = "ready"
      BY <1>3, <1>8, <1>11
    <2> QED BY <2>1 DEF Exists
  <1> QED BY <1>1, <1>2, <1>4, <1>9, <1>10, <1>11 DEF Next, Step

\* The steps before the apply, and those of the apply.
LEMMA WayNext == OrderInv /\ OnTheWay /\ [Next]_vars => OnTheWay'
  <1> SUFFICES ASSUME OrderInv, OnTheWay, [Next]_vars, pc' = "apply", NEW r \in Roles
               PROVE  \/ r \in run'.todo
                      \/ \E s \in run'.waiting : cloud'[s].role = r
                      \/ Exists(recorded[r])' /\ cloud'[recorded'[r]].choice = order'
    BY DEF OnTheWay
  <1> USE DEF provider, controller
  <1>1. TypeOK
    BY DEF OrderInv
  <1>2. CASE Plan
    <2>1. run'.todo = Missing \cup Replaced /\ UNCHANGED <<cloud, recorded, order>>
      BY <1>1, <1>2 DEF Plan, TypeOK, Runs
    <2> QED
      BY <2>1 DEF Missing, Replaced, Exists
  <1>3. ASSUME pc = "apply", NEW s \in run.waiting, cloud[s].role = r
        PROVE  s \in Servers /\ cloud[s].status # "unordered" /\ cloud'[s].role = r
    <2>1. s \in Servers /\ Exists(s)
      BY <1>3 DEF OrderInv, Planned, TypeOK, Runs
    <2> QED BY <1>1, <1>3, <2>1, ServersStay DEF Exists
  <1>4. ASSUME pc = "apply", Exists(recorded[r]), cloud[recorded[r]].choice = order,
               recorded'[r] = recorded[r], order' = order,
               cloud'[recorded[r]].status \notin {"unordered", "deleted"}
        PROVE  Exists(recorded[r])' /\ cloud'[recorded'[r]].choice = order'
    <2>1. recorded[r] \in Servers
      BY <1>4 DEF Exists, OrderInv, TypeOK, Rigs
    <2> QED BY <1>1, <1>4, <2>1, ServersStay DEF Exists
  <1>5. ASSUME NEW q \in Roles, Destroy(q)
        PROVE  \/ r \in run'.todo
               \/ \E s \in run'.waiting : cloud'[s].role = r
               \/ Exists(recorded[r])' /\ cloud'[recorded'[r]].choice = order'
    <2>1. /\ pc = "apply" /\ q \in run.todo /\ Exists(recorded[q]) /\ run' = run
          /\ order' = order /\ recorded' = [recorded EXCEPT ![q] = None]
          /\ cloud' = [cloud EXCEPT ![recorded[q]] = Gone(recorded[q])]
      BY <1>5 DEF Destroy, Goto, Fail, End
    <2>2. CASE Exists(recorded[r]) /\ cloud[recorded[r]].choice = order /\ r # q
      <3>1. recorded[r] # recorded[q]
        BY <2>1, <2>2 DEF OrderInv, RecordedWasActive, Exists
      <3>2. recorded'[r] = recorded[r] /\ recorded[r] \in Servers
        BY <1>1, <2>1, <2>2 DEF TypeOK, Rigs, Exists
      <3>3. cloud'[recorded[r]] = cloud[recorded[r]]
        BY <1>1, <2>1, <3>1, <3>2 DEF TypeOK
      <3> QED BY <1>4, <2>1, <2>2, <3>2, <3>3 DEF Exists
    <2> QED BY <1>3, <2>1, <2>2 DEF OnTheWay
  <1>6. ASSUME NEW q \in Roles, Create(q)
        PROVE  \/ r \in run'.todo
               \/ \E s \in run'.waiting : cloud'[s].role = r
               \/ Exists(recorded[r])' /\ cloud'[recorded'[r]].choice = order'
    <2>1. PICK s \in Servers, switch \in {1, 2} :
             /\ cloud[s].status = "unordered"
             /\ cloud' = [cloud EXCEPT ![s] = [role |-> q, choice |-> order,
                                               status |-> "delivering", switch |-> switch]]
             /\ run' = [run EXCEPT !.todo = @ \ {q}, !.waiting = @ \cup {s}]
      BY <1>6 DEF Create, Fail, End
    <2>2. /\ run'.todo = run.todo \ {q} /\ run'.waiting = run.waiting \cup {s}
          /\ cloud'[s].role = q
      BY <1>1, <2>1 DEF TypeOK, Runs
    <2>3. pc = "apply" /\ order' = order /\ recorded' = [recorded EXCEPT ![q] = None]
      BY <1>6 DEF Create
    <2>4. CASE Exists(recorded[r]) /\ cloud[recorded[r]].choice = order /\ r # q
      <3>1. recorded'[r] = recorded[r] /\ recorded[r] \in Servers /\ recorded[r] # s
        BY <1>1, <2>1, <2>3, <2>4 DEF TypeOK, Rigs, Exists
      <3>2. cloud'[recorded[r]] = cloud[recorded[r]]
        BY <1>1, <2>1, <3>1 DEF TypeOK
      <3> QED BY <1>4, <2>3, <2>4, <3>1, <3>2 DEF Exists
    <2> QED BY <1>3, <2>2, <2>3, <2>4 DEF OnTheWay
  <1>7. ASSUME NEW s \in Servers, Delivered(s)
        PROVE  \/ r \in run'.todo
               \/ \E t \in run'.waiting : cloud'[t].role = r
               \/ Exists(recorded[r])' /\ cloud'[recorded'[r]].choice = order'
    <2>1. /\ pc = "apply" /\ s \in run.waiting /\ UNCHANGED <<cloud, order>>
          /\ recorded' = [recorded EXCEPT ![cloud[s].role] = s]
      BY <1>7 DEF Delivered
    <2>2. run'.todo = run.todo /\ run'.waiting = run.waiting \ {s}
      BY <1>1, <1>7 DEF Delivered, TypeOK, Runs
    <2>3. Exists(s) /\ cloud[s].choice = order
      BY <2>1 DEF OrderInv, Planned
    <2>4. CASE cloud[s].role = r
      <3>1. recorded'[r] = s
        BY <1>1, <2>1, <2>4 DEF TypeOK, Rigs
      <3> QED BY <2>1, <2>3, <3>1 DEF Exists
    <2>5. CASE cloud[s].role # r
      <3>1. recorded'[r] = recorded[r]
        BY <1>1, <2>1, <2>5 DEF TypeOK, Rigs
      <3> QED BY <2>1, <2>2, <2>5, <3>1 DEF OnTheWay, Exists
    <2> QED BY <2>4, <2>5
  <1>8. ASSUME NEW s \in Servers, Deliver(s)
        PROVE  \/ r \in run'.todo
               \/ \E t \in run'.waiting : cloud'[t].role = r
               \/ Exists(recorded[r])' /\ cloud'[recorded'[r]].choice = order'
    <2>1. /\ UNCHANGED <<recorded, order, pc, run>>
          /\ \A t \in Servers : Exists(t) => cloud'[t].status \notin {"unordered", "deleted"}
      BY <1>1, <1>8 DEF Deliver, Exists, TypeOK
    <2>2. Exists(recorded[r]) => recorded[r] \in Servers
      BY <1>1 DEF Exists, TypeOK, Rigs
    <2> QED BY <1>3, <1>4, <2>1, <2>2 DEF OnTheWay
  <1>9. CASE (\E s \in Servers : Bootstrap(s)) \/ UNCHANGED vars
    BY <1>9 DEF Bootstrap, vars, OnTheWay, Exists
  <1>10. ~(Start \/ Choose \/ List \/ AdoptNode \/ AdoptHelper \/ Applied \/ Finished \/ Interrupt)
    BY DEF Start, Choose, List, AdoptNode, AdoptHelper, Adopt, Applied, Finished, Interrupt,
        Goto, Fail, End
  <1>11. ~(MoveKeys \/ MarkKeys \/ ReachHelper \/ ReachNode \/ StartBootstrap \/ CheckNode)
    BY DEF MoveKeys, MarkKeys, ReachHelper, ReachNode, Reach, StartBootstrap, CheckNode,
        Goto, Fail, End
  <1>12. ~(WaitForMirror \/ MoveRigFile \/ WriteRigFile \/ \E s \in Servers : Delete(s))
    BY DEF WaitForMirror, MoveRigFile, WriteRigFile, Delete, Goto, Fail, End
  <1> QED
    BY <1>2, <1>5, <1>6, <1>7, <1>8, <1>9, <1>10, <1>11, <1>12 DEF Next, Step

\* A step that keeps the run within its stage, or leaves the stages.
LEMMA StageFrame ==
    ASSUME OrderInv, StagesDone, [Next]_vars, UNCHANGED <<recorded, order>>, known \subseteq known',
           pc' \notin Stages \/ pc' = pc,
           pc' \in Stages => /\ run'.values = run.values
                             /\ \A s \in Servers : Exists(s) => Exists(s)'
    PROVE  StagesDone'
  <1> SUFFICES ASSUME pc \in Stages, pc' = pc PROVE StagesDone'
    BY DEF StagesDone, Stages
  <1>1. ASSUME NEW r \in Roles
        PROVE  /\ Exists(recorded[r])' /\ cloud'[recorded[r]].choice = order
               /\ recorded[r] \in bonded => recorded[r] \in bonded'
               /\ mirror[recorded[r]] = "ready" => mirror'[recorded[r]] = "ready"
    <2>1. recorded[r] \in Servers /\ Exists(recorded[r]) /\ cloud[recorded[r]].choice = order
      BY DEF StagesDone, Exists, OrderInv, TypeOK, Rigs
    <2>2. Exists(recorded[r])'
      BY <2>1 DEF Exists
    <2> QED BY <2>1, <2>2, ServersStay DEF OrderInv, Exists
  <1>2. /\ run'.values = recorded'
        /\ \A r \in Roles : Exists(recorded[r])' /\ cloud'[recorded'[r]].choice = order'
    BY <1>1 DEF StagesDone
  <1> QED BY <1>1, <1>2 DEF StagesDone, Roles

\* A step to the next stage adds what that stage checked.
LEMMA StageAhead ==
    ASSUME StagesDone, UNCHANGED <<cloud, recorded, order, run>>, pc \in Stages, pc' \in Stages,
           pc' \in Stages \ {"finished", "move", "mark", "reachHelper"} => recorded["helper"] \in known',
           pc' \in Stages \ {"finished", "move", "mark", "reachHelper", "reachNode"} =>
             recorded["node"] \in known',
           pc' \in {"mirror", "old", "write"} => recorded["node"] \in bonded',
           pc' \in {"old", "write"} => mirror'[recorded["helper"]] = "ready"
    PROVE  StagesDone'
  BY DEF StagesDone, Exists

LEMMA StagesNext == OrderInv /\ OnTheWay /\ StagesDone /\ [Next]_vars => StagesDone'
  <1> SUFFICES ASSUME OrderInv, OnTheWay, StagesDone, [Next]_vars PROVE StagesDone'
    OBVIOUS
  <1> USE DEF provider, controller
  <1>0. TypeOK
    BY DEF OrderInv
  <1>1. CASE Start \/ Choose \/ List \/ Interrupt \/ AdoptNode \/ AdoptHelper
    <2>1. pc' \notin Stages
      BY <1>1 DEF Start, Choose, List, AdoptNode, AdoptHelper, Adopt, Interrupt, Goto, Fail, End,
            Stages
    <2> QED BY <2>1 DEF StagesDone, Stages
  <1>2. ASSUME NEW r \in Roles, Destroy(r) \/ Create(r) PROVE StagesDone'
    <2>1. pc' \notin Stages
      BY <1>2 DEF Destroy, Create, Goto, Fail, End, Stages
    <2> QED BY <2>1 DEF StagesDone, Stages
  <1>3. ASSUME NEW s \in Servers, Delivered(s) \/ Delete(s) PROVE StagesDone'
    <2>1. pc' \notin Stages
      BY <1>3 DEF Delivered, Delete, Stages
    <2> QED BY <2>1 DEF StagesDone, Stages
  <1>4. CASE Plan
    <2>1. CASE pc' = "finished"
      <3>1. /\ Missing \cup Replaced = {} /\ run'.values = recorded
            /\ UNCHANGED <<cloud, recorded, order>>
        BY <1>0, <1>4, <2>1 DEF Plan, TypeOK, Runs
      <3>2. \A r \in Roles : Exists(recorded[r]) /\ cloud[recorded[r]].choice = order
        BY <3>1 DEF Missing, Replaced
      <3> QED BY <2>1, <3>1, <3>2 DEF StagesDone, Exists
    <2>2. CASE pc' # "finished"
      <3>1. pc' \notin Stages
        BY <1>4, <2>2 DEF Plan, Stages
      <3> QED BY <3>1 DEF StagesDone, Stages
    <2> QED BY <2>1, <2>2
  <1>5. CASE Applied
    <2>1. CASE pc' = "finished"
      <3>1. /\ pc = "apply" /\ run.todo = {} /\ run.waiting = {} /\ run'.values = recorded
            /\ UNCHANGED <<cloud, recorded, order>>
        BY <1>0, <1>5, <2>1 DEF Applied, Fail, End, TypeOK, Runs
      <3>2. \A r \in Roles : Exists(recorded[r]) /\ cloud[recorded[r]].choice = order
        BY <3>1 DEF OnTheWay
      <3> QED BY <2>1, <3>1, <3>2 DEF StagesDone, Exists
    <2>2. CASE pc' # "finished"
      <3>1. pc' \notin Stages
        BY <1>5, <2>2 DEF Applied, Fail, End, Stages
      <3> QED BY <3>1 DEF StagesDone, Stages
    <2> QED BY <2>1, <2>2
  <1>6. CASE Finished \/ MoveKeys \/ MarkKeys
    <2>1. CASE pc' = "idle"
      BY <2>1 DEF StagesDone, Stages
    <2>2. CASE pc' # "idle"
      BY <1>6, <2>2, StageAhead DEF Finished, MoveKeys, MarkKeys, Goto, End, Stages
    <2> QED BY <2>1, <2>2
  <1>7. CASE ReachHelper
    BY <1>7, StageAhead DEF ReachHelper, Reach, Goto, Stages, StagesDone
  <1>8. CASE ReachNode
    BY <1>8, StageAhead DEF ReachNode, Reach, Goto, Stages, StagesDone
  <1>9. CASE StartBootstrap
    <2>1. CASE pc' = "idle"
      BY <2>1 DEF StagesDone, Stages
    <2>2. CASE pc' # "idle"
      BY <1>9, <2>2, StageAhead DEF StartBootstrap, Goto, Fail, End, Stages, StagesDone
    <2> QED BY <2>1, <2>2
  <1>10. CASE CheckNode
    <2>1. CASE pc' = "idle"
      BY <2>1 DEF StagesDone, Stages
    <2>2. CASE pc' # "idle"
      BY <1>10, <2>2, StageAhead DEF CheckNode, Goto, Fail, End, Stages, StagesDone
    <2> QED BY <2>1, <2>2
  <1>11. CASE WaitForMirror
    <2>1. CASE pc' = "idle"
      BY <2>1 DEF StagesDone, Stages
    <2>2. CASE pc' # "idle"
      BY <1>11, <2>2, StageAhead DEF WaitForMirror, Goto, Fail, End, Stages, StagesDone
    <2> QED BY <2>1, <2>2
  <1>12. CASE MoveRigFile
    BY <1>12, StageAhead DEF MoveRigFile, Goto, Stages, StagesDone
  <1>13. CASE WriteRigFile
    BY <1>13 DEF WriteRigFile, End, Stages, StagesDone
  <1>14. ASSUME NEW s \in Servers, Deliver(s) \/ Bootstrap(s) PROVE StagesDone'
    <2>1. \A t \in Servers : Exists(t) => Exists(t)'
      <3>1. CASE Deliver(s)
        BY <1>0, <3>1 DEF Deliver, Exists, TypeOK
      <3>2. CASE Bootstrap(s)
        BY <3>2 DEF Bootstrap, Exists
      <3> QED BY <1>14, <3>1, <3>2
    <2> QED BY <1>14, <2>1, StageFrame DEF Deliver, Bootstrap
  <1>15. CASE UNCHANGED vars
    BY <1>15, StageFrame DEF vars, Exists
  <1> QED
    BY <1>1, <1>2, <1>3, <1>4, <1>5, <1>6, <1>7, <1>8, <1>9, <1>10, <1>11, <1>12, <1>13,
       <1>14, <1>15 DEF Next, Step

\* A rig file that stays vouches for what it did, as long as its node is recorded.
LEMMA FileFrame ==
    ASSUME OrderInv, FileVouches, [Next]_vars, rigFile' = rigFile, known \subseteq known',
           pc' = "move" => pc = "move",
           Exists(recorded["node"]) /\ cloud'[recorded["node"]].status # "deleted" =>
             recorded'["node"] = recorded["node"]
    PROVE  FileVouches'
  <1> SUFFICES ASSUME rigFile # None PROVE FileVouches'
    BY DEF FileVouches
  <1> DEFINE n == rigFile["node"]
             h == rigFile["helper"]
  <1>1. ASSUME NEW r \in Roles
        PROVE  /\ rigFile[r] \in Servers /\ cloud'[rigFile[r]].role = r
               /\ cloud'[rigFile[r]].status # "unordered"
               /\ Exists(rigFile[r])' =>
                    /\ Exists(rigFile[r]) /\ cloud'[rigFile[r]].choice = cloud[rigFile[r]].choice
                    /\ rigFile[r] \in bonded => rigFile[r] \in bonded'
                    /\ mirror[rigFile[r]] = "ready" => mirror'[rigFile[r]] = "ready"
    BY ServersStay DEF OrderInv, FileVouches, Exists
  <1> QED BY <1>1 DEF FileVouches, Exists, Roles

LEMMA FileNext == OrderInv /\ StagesDone /\ FileVouches /\ [Next]_vars => FileVouches'
  <1> SUFFICES ASSUME OrderInv, StagesDone, FileVouches, [Next]_vars PROVE FileVouches'
    OBVIOUS
  <1> USE DEF provider, controller
  <1>0. TypeOK
    BY DEF OrderInv
  <1>1. CASE Start \/ Choose \/ List \/ Plan \/ Applied \/ Interrupt
    BY <1>1, FileFrame DEF Start, Choose, List, Plan, Applied, Interrupt, Goto, Fail, End
  <1>2. CASE AdoptNode \/ AdoptHelper
    <2>1. recorded["node"] # None => recorded'["node"] = recorded["node"]
      BY <1>0, <1>2 DEF AdoptNode, AdoptHelper, Adopt, TypeOK, Rigs, Roles
    <2> QED BY <1>2, <2>1, FileFrame DEF AdoptNode, AdoptHelper, Adopt, Exists
  <1>3. ASSUME NEW r \in Roles, Destroy(r) PROVE FileVouches'
    <2>1. r = "helper"
      BY <1>3 DEF Destroy, OrderInv, Planned
    <2>2. recorded'["node"] = recorded["node"]
      BY <1>0, <1>3, <2>1 DEF Destroy, TypeOK, Rigs, Roles
    <2> QED BY <1>3, <2>2, FileFrame DEF Destroy, Goto, Fail, End
  <1>4. ASSUME NEW r \in Roles, Create(r) PROVE FileVouches'
    <2>1. Exists(recorded["node"]) => recorded'["node"] = recorded["node"]
      BY <1>0, <1>4 DEF Create, TypeOK, Rigs, Roles
    <2>2. rigFile' = rigFile /\ known' = known /\ pc' # "move"
      BY <1>4 DEF Create, Fail, End
    <2> QED BY <2>1, <2>2, FileFrame
  <1>5. ASSUME NEW s \in Servers, Delivered(s) PROVE FileVouches'
    <2>1. recorded[cloud[s].role] = None
      BY <1>5 DEF Delivered, OrderInv, Planned
    <2>2. recorded["node"] # None => recorded'["node"] = recorded["node"]
      BY <1>0, <1>5, <2>1 DEF Delivered, TypeOK, Rigs, Roles
    <2> QED BY <1>5, <2>2, FileFrame DEF Delivered, Exists
  <1>6. ASSUME NEW s \in Servers, Delete(s) PROVE FileVouches'
    <2>1. recorded["node"] = s => cloud'[s].status = "deleted"
      BY <1>0, <1>6 DEF Delete, Gone, TypeOK
    <2>2. Exists(recorded["node"]) /\ cloud'[recorded["node"]].status # "deleted" =>
             recorded'["node"] = recorded["node"]
      BY <1>6, <2>1 DEF Delete, Roles
    <2> QED BY <1>6, <2>2, FileFrame DEF Delete
  <1>7. CASE Finished
    <2>1. CASE pc' = "idle"
      BY <1>7, <2>1, FileFrame DEF Finished
    <2>2. CASE pc' # "idle"
      <3>1. /\ ~(rigFile # None /\ rigFile["node"] = recorded["node"])
            /\ UNCHANGED <<cloud, recorded, rigFile, mirror, known, bonded>>
        BY <1>7, <2>2 DEF Finished, Goto, End, StagesDone, Stages
      <3>2. rigFile # None => ~Exists(rigFile["node"])
        BY <3>1 DEF FileVouches
      <3> QED BY <3>1, <3>2 DEF FileVouches, Exists
    <2> QED BY <2>1, <2>2
  <1>8. CASE MoveKeys
    BY <1>8 DEF MoveKeys, Goto, FileVouches, Exists
  <1>9. CASE MarkKeys \/ ReachHelper \/ ReachNode
    BY <1>9, FileFrame DEF MarkKeys, ReachHelper, ReachNode, Reach, Goto
  <1>10. CASE StartBootstrap \/ CheckNode \/ WaitForMirror
    BY <1>10, FileFrame DEF StartBootstrap, CheckNode, WaitForMirror, Goto, Fail, End
  <1>11. CASE MoveRigFile
    BY <1>11 DEF MoveRigFile, FileVouches
  <1>12. CASE WriteRigFile
    <2>1. /\ rigFile' = recorded /\ pc' = "idle"
          /\ UNCHANGED <<cloud, mirror, bonded, recorded, known>>
      BY <1>12 DEF WriteRigFile, End, StagesDone, Stages
    <2>2. ASSUME NEW r \in Roles
          PROVE  /\ recorded[r] \in Servers /\ Exists(recorded[r])
                 /\ cloud[recorded[r]].role = r /\ cloud[recorded[r]].choice = order
      BY <1>12 DEF WriteRigFile, StagesDone, Stages, OrderInv, TypeOK, Rigs, RecordedWasActive,
            Exists
    <2>3. /\ recorded["node"] \in known \cap bonded /\ recorded["helper"] \in known
          /\ mirror[recorded["helper"]] = "ready"
      BY <1>12 DEF WriteRigFile, StagesDone, Stages
    <2> QED BY <2>1, <2>2, <2>3 DEF FileVouches, Exists, Roles
  <1>13. ASSUME NEW s \in Servers, Deliver(s) \/ Bootstrap(s) PROVE FileVouches'
    BY <1>13, FileFrame DEF Deliver, Bootstrap
  <1>14. CASE UNCHANGED vars
    BY <1>14, FileFrame DEF vars
  <1> QED
    BY <1>1, <1>2, <1>3, <1>4, <1>5, <1>6, <1>7, <1>8, <1>9, <1>10, <1>11, <1>12, <1>13, <1>14
    DEF Next, Step

LEMMA ReadyInvHolds == Spec => []ReadyInv
  <1>1. Init => ReadyInv
    BY DEF Init, ReadyInv, OnTheWay, StagesDone, Stages, FileVouches
  <1>2. OrderInv /\ ReadyInv /\ [Next]_vars => ReadyInv'
    BY WayNext, StagesNext, FileNext DEF ReadyInv
  <1> QED
    BY <1>1, <1>2, OrderInvHolds, PTL DEF Spec

\* The result of a run is given where it ends well, and nowhere else.
LEMMA ResultGiven ==
    ASSUME TypeOK, [Next]_vars, EndsWell
    PROVE  Finished \/ WriteRigFile
  <1> USE DEF provider, controller, EndsWell
  <1>1. ~(Start \/ Interrupt)
    BY DEF Start, Interrupt, Fail, End, NewRun
  <1>2. ~(\/ Choose \/ MoveKeys \/ MarkKeys \/ ReachHelper \/ ReachNode \/ MoveRigFile)
    BY DEF Choose, MoveKeys, MarkKeys, ReachHelper, ReachNode, Reach, MoveRigFile, Goto
  <1>3. ~(StartBootstrap \/ CheckNode \/ WaitForMirror)
    BY DEF StartBootstrap, CheckNode, WaitForMirror, Goto, Fail, End, NewRun
  <1>4. ~List
    BY DEF List, TypeOK, Runs
  <1>5. ~(AdoptNode \/ AdoptHelper)
    BY DEF AdoptNode, AdoptHelper, Adopt, TypeOK, Runs
  <1>6. ~(Plan \/ Applied)
    BY DEF Plan, Applied, Fail, End, NewRun, TypeOK, Runs
  <1>7. \A r \in Roles : ~(Destroy(r) \/ Create(r))
    BY DEF Destroy, Create, Goto, Fail, End, NewRun, TypeOK, Runs
  <1>8. \A s \in Servers : ~(Delivered(s) \/ Deliver(s) \/ Bootstrap(s) \/ Delete(s))
    BY DEF Delivered, Deliver, Bootstrap, Delete, TypeOK, Runs
  <1>9. ~UNCHANGED vars
    BY DEF vars
  <1> QED
    BY <1>1, <1>2, <1>3, <1>4, <1>5, <1>6, <1>7, <1>8, <1>9 DEF Next, Step

\* A run that ends well leaves a rig file of its own servers, which passed every stage by
\* itself or in the run that wrote the file; only a helper that came in the place of one
\* that is gone may be missing from it (finished, write_rig_file).
THEOREM OnlyTheHelperIsUnchecked == Spec => OnlyNewHelperUnchecked
  <1> USE DEF provider, controller
  <1>1. OrderInv /\ ReadyInv /\ [Next]_vars =>
            [EndsWell =>
               \/ rigFile' = recorded /\ StagesPassed(recorded)
               \/ /\ rigFile' # None /\ rigFile'["node"] = recorded["node"]
                  /\ recorded["node"] \in known \cap bonded
                  /\ ~Exists(rigFile'["helper"])]_vars
    <2> SUFFICES ASSUME OrderInv, StagesDone, FileVouches, [Next]_vars, EndsWell
                 PROVE  \/ rigFile' = recorded /\ StagesPassed(recorded)
                        \/ /\ rigFile' # None /\ rigFile'["node"] = recorded["node"]
                           /\ recorded["node"] \in known \cap bonded
                           /\ ~Exists(rigFile'["helper"])
      BY DEF ReadyInv
    <2>1. CASE WriteRigFile
      BY <2>1 DEF WriteRigFile, StagesDone, Stages, StagesPassed, Roles
    <2>2. CASE Finished
      <3>1. /\ pc = "finished" /\ rigFile' = rigFile
            /\ rigFile # None /\ rigFile["node"] = run.values["node"]
        BY <2>2 DEF Finished, Goto, EndsWell
      <3>2. /\ rigFile["node"] = recorded["node"]
            /\ \A r \in Roles : Exists(recorded[r]) /\ cloud[recorded[r]].choice = order
        BY <3>1 DEF StagesDone, Stages
      <3>3. recorded["node"] \in known \cap bonded
        BY <3>1, <3>2 DEF FileVouches, Roles
      <3>4. CASE Exists(rigFile["helper"])
        <4>1. /\ rigFile["helper"] \in known /\ mirror[rigFile["helper"]] = "ready"
              /\ cloud[rigFile["helper"]].choice = order
          BY <3>1, <3>2, <3>4 DEF FileVouches, Roles
        <4>2. /\ recorded["helper"] \in Servers /\ rigFile["helper"] \in Servers
              /\ cloud[recorded["helper"]].role = cloud[rigFile["helper"]].role
          BY <3>1, <3>2 DEF FileVouches, Exists, OrderInv, TypeOK, Rigs, RecordedWasActive, Roles
        <4>3. rigFile["helper"] = recorded["helper"]
          BY <3>2, <3>4, <4>1, <4>2 DEF OrderInv, NothingOrderedTwice, Roles
        <4>4. rigFile = recorded
          <5>1. rigFile \in Rigs /\ recorded \in Rigs
            BY <3>1 DEF OrderInv, TypeOK
          <5> QED BY <3>2, <4>3, <5>1 DEF Rigs, Roles
        <4> QED
          BY <3>1, <3>3, <4>1, <4>3, <4>4 DEF StagesPassed, Roles
      <3> QED BY <3>1, <3>2, <3>3, <3>4
    <2> QED BY <2>1, <2>2, ResultGiven DEF OrderInv
  <1> QED
    BY <1>1, OrderInvHolds, ReadyInvHolds, PTL DEF Spec, OnlyNewHelperUnchecked

---------------------------------------------------------------------------
(* The abstract fleet *)

Bill(s) == [id |-> s, role |-> cloud[s].role, project |-> ProjectOf[cloud[s].choice]]

\* What the fleet sees of the provider.
SameFleet ==
    \A s \in Servers : /\ Exists(s)' <=> Exists(s)
                       /\ Exists(s) => /\ cloud'[s].role = cloud[s].role
                                       /\ cloud'[s].choice = cloud[s].choice
                       /\ cloud'[s].status = "unordered" <=> cloud[s].status = "unordered"

LEMMA FleetKept ==
    ASSUME SameFleet
    PROVE  /\ Billed' = Billed
           /\ {s \in Servers : cloud[s].status # "unordered"}' =
                  {s \in Servers : cloud[s].status # "unordered"}
  <1>1. Billed' = Billed
    <2>1. \A s \in Servers : Exists(s) => Bill(s)' = Bill(s)
      BY DEF SameFleet, Bill
    <2>2. Billed = {Bill(s) : s \in {t \in Servers : Exists(t)}}
      BY DEF Billed, Bill
    <2>3. Billed' = {Bill(s)' : s \in {t \in Servers : Exists(t)'}}
      BY DEF Billed, Bill
    <2>4. {t \in Servers : Exists(t)'} = {t \in Servers : Exists(t)}
      BY DEF SameFleet
    <2> QED BY <2>1, <2>2, <2>3, <2>4
  <1> QED BY <1>1 DEF SameFleet

LEMMA BilledHas ==
    ASSUME NEW s \in Servers, Exists(s)
    PROVE  Bill(s) \in Billed /\ Fleet!Has(cloud[s].role, ProjectOf[cloud[s].choice])
  <1>1. Bill(s) \in Billed
    BY DEF Billed, Bill
  <1>2. Bill(s).role = cloud[s].role /\ Bill(s).project = ProjectOf[cloud[s].choice]
    BY DEF Bill
  <1> QED BY <1>1, <1>2 DEF Fleet!Has

\* One server less, and nothing else changes at the provider.
LEMMA FleetLess ==
    ASSUME TypeOK, NEW s \in Servers, Exists(s), cloud' = [cloud EXCEPT ![s] = Gone(s)]
    PROVE  /\ Billed' = Billed \ {Bill(s)}
           /\ {t \in Servers : cloud[t].status # "unordered"}' =
                  {t \in Servers : cloud[t].status # "unordered"}
  <1>1. /\ \A t \in Servers : Exists(t)' <=> Exists(t) /\ t # s
        /\ \A t \in Servers : t # s => cloud'[t] = cloud[t]
        /\ cloud'[s].status = "deleted" /\ cloud[s].status # "unordered"
    BY NoneAssumption DEF Exists, Gone, TypeOK
  <1>2. Billed' = Billed \ {Bill(s)}
    <2>1. \A t \in Servers : t # s => Bill(t)' = Bill(t)
      BY <1>1 DEF Bill
    <2>2. \A t, u \in Servers : Bill(t) = Bill(u) => t = u
      BY DEF Bill
    <2>3. Billed = {Bill(t) : t \in {u \in Servers : Exists(u)}}
      BY DEF Billed, Bill
    <2>4. Billed' = {Bill(t)' : t \in {u \in Servers : Exists(u)'}}
      BY DEF Billed, Bill
    <2>5. {u \in Servers : Exists(u)'} = {u \in Servers : Exists(u)} \ {s}
      BY <1>1
    <2>6. Billed' = {Bill(t) : t \in {u \in Servers : Exists(u)} \ {s}}
      BY <2>1, <2>4, <2>5
    <2> QED BY <2>2, <2>3, <2>6
  <1> QED BY <1>1, <1>2

LEMMA CreateMaps ==
    ASSUME OrderInv, NEW r \in Roles, Create(r)
    PROVE  Fleet!Next
  <1>1. PICK s \in Servers, switch \in {1, 2} :
           /\ cloud[s].status = "unordered"
           /\ cloud' = [cloud EXCEPT ![s] = [role |-> r, choice |-> order,
                                             status |-> "delivering", switch |-> switch]]
           /\ \/ /\ run' = [run EXCEPT !.todo = @ \ {r}, !.waiting = @ \cup {s}]
                 /\ UNCHANGED pc
              \/ Fail
    BY DEF Create
  <1>2. /\ pc = "apply" /\ OfRole(r, order) = {} /\ order \in Choices
    BY DEF Create, OrderInv, Planned, Listed, TypeOK
  <1>3. /\ \A t \in Servers : Exists(t)' <=> Exists(t) \/ t = s
        /\ \A t \in Servers : t # s => cloud'[t] = cloud[t]
        /\ cloud'[s].role = r /\ cloud'[s].choice = order /\ cloud'[s].status = "delivering"
        /\ ~Exists(s)
    BY <1>1, NoneAssumption DEF Exists, OrderInv, TypeOK
  <1>p. PICK p \in {ProjectOf[a] : a \in Choices} : p = ProjectOf[order]
    BY <1>2
  <1> DEFINE ever == {t \in Servers : cloud[t].status # "unordered"}
  <1>4. ~Fleet!Has(r, p)
    <2> SUFFICES ASSUME NEW x \in Billed, x.role = r, x.project = p PROVE FALSE
      BY DEF Fleet!Has
    <2>1. PICK t \in Servers : Exists(t) /\ x = Bill(t)
      BY DEF Billed, Bill
    <2>2. cloud[t].role = r /\ ProjectOf[cloud[t].choice] = p
      BY <2>1 DEF Bill
    <2> QED BY <1>2, <1>p, <2>1, <2>2 DEF OfRole
  <1>5. Billed' = Billed \cup {Fleet!Server(s, r, p)}
    <2>1. \A t \in Servers : t # s => Bill(t)' = Bill(t)
      BY <1>3 DEF Bill
    <2>2. [id |-> s, role |-> cloud'[s].role, project |-> ProjectOf[cloud'[s].choice]]
              = Fleet!Server(s, r, p)
      BY <1>3, <1>p DEF Fleet!Server
    <2>3. Billed = {Bill(t) : t \in {u \in Servers : Exists(u)}}
      BY DEF Billed, Bill
    <2>4. Billed' = {[id |-> t, role |-> cloud'[t].role, project |-> ProjectOf[cloud'[t].choice]] :
                       t \in {u \in Servers : Exists(u)'}}
      BY DEF Billed
    <2>5. {u \in Servers : Exists(u)'} = {u \in Servers : Exists(u)} \cup {s}
      BY <1>3
    <2>6. \A t \in Servers : t # s =>
             [id |-> t, role |-> cloud'[t].role, project |-> ProjectOf[cloud'[t].choice]] = Bill(t)
      BY <1>3 DEF Bill
    <2> QED BY <1>3, <2>2, <2>3, <2>4, <2>5, <2>6
  <1>6. ever' = ever \cup {s} /\ s \notin ever
    BY <1>1, <1>3
  <1>7. \/ (pc # "idle")' = (pc # "idle") /\ run'.replace = run.replace
        \/ ~(pc' # "idle") /\ ~run'.replace
    <2>1. CASE Fail
      BY <2>1 DEF Fail, End, NewRun
    <2>2. CASE /\ run' = [run EXCEPT !.todo = @ \ {r}, !.waiting = @ \cup {s}]
               /\ UNCHANGED pc
      BY <2>2 DEF OrderInv, TypeOK, Runs
    <2> QED BY <1>1, <2>1, <2>2
  <1>8. Fleet!Order(s, r, p)
    BY <1>2, <1>4, <1>5, <1>6, <1>7 DEF Fleet!Order, Fleet!GoOn, Fleet!Stop
  <1>9. r \in Fleet!Roles
    BY DEF Fleet!Roles, Roles
  <1> QED BY <1>8, <1>9 DEF Fleet!Next

LEMMA DestroyMaps ==
    ASSUME OrderInv, NEW r \in Roles, Destroy(r)
    PROVE  Fleet!Next
  <1> DEFINE h == recorded[r]
  <1>1. h \in Servers /\ Exists(h) /\ cloud' = [cloud EXCEPT ![h] = Gone(h)] /\ pc = "apply"
    BY DEF Destroy, Exists, OrderInv, TypeOK, Rigs
  <1>2. /\ r = "helper" /\ run.replace
        /\ recorded["node"] # None
        /\ \A q \in Roles : cloud[recorded[q]].choice = order
    BY DEF Destroy, OrderInv, Planned
  <1>3. /\ recorded["node"] \in Servers /\ Exists(recorded["node"])
        /\ cloud[recorded["node"]].role = "node"
    BY <1>2 DEF OrderInv, TypeOK, Rigs, Roles, RecordedAndGone, RecordedWasActive
  <1>4. cloud[h].role = "helper"
    <2>1. h # None
      BY <1>1 DEF Exists
    <2> QED BY <1>2, <2>1 DEF OrderInv, RecordedWasActive
  <1>5. Bill(h).role = "helper" /\ Bill(h).project = ProjectOf[order]
    BY <1>2, <1>4 DEF Bill
  <1>6. Fleet!Has("node", ProjectOf[order]) /\ Bill(h) \in Billed
    BY <1>1, <1>2, <1>3, BilledHas DEF Roles
  <1>7. /\ Billed' = Billed \ {Bill(h)}
        /\ {t \in Servers : cloud[t].status # "unordered"}' =
               {t \in Servers : cloud[t].status # "unordered"}
    BY <1>1, FleetLess DEF OrderInv
  <1>8. \/ (pc # "idle")' = (pc # "idle") /\ run'.replace = run.replace
        \/ ~(pc' # "idle") /\ ~run'.replace
    BY <1>1 DEF Destroy, Fail, End, NewRun, Goto
  <1>9. Fleet!Replace(Bill(h))
    BY <1>1, <1>2, <1>5, <1>6, <1>7, <1>8 DEF Fleet!Replace, Fleet!GoOn, Fleet!Stop
  <1> QED BY <1>6, <1>9 DEF Fleet!Next

LEMMA DeleteMaps ==
    ASSUME OrderInv, NEW s \in Servers, Delete(s)
    PROVE  Fleet!Next
  <1>1. /\ Exists(s) /\ cloud' = [cloud EXCEPT ![s] = Gone(s)] /\ UNCHANGED <<pc, run>>
        /\ pc = "idle"
    BY DEF Delete
  <1>2. Fleet!Remove(Bill(s))
    BY <1>1, FleetLess DEF Fleet!Remove, OrderInv
  <1> QED BY <1>1, <1>2, BilledHas DEF Fleet!Next

LEMMA QuietMaps ==
    ASSUME SameFleet, pc' = "idle" <=> pc = "idle", run'.replace = run.replace
    PROVE  UNCHANGED Fleet!vars
  BY FleetKept DEF Fleet!vars

LEMMA EndMaps ==
    ASSUME SameFleet, pc # "idle", End("FAIL") \/ End("PASS")
    PROVE  Fleet!Finish
  <1>1. pc' = "idle" /\ ~run'.replace
    BY DEF End, NewRun
  <1> QED BY <1>1, FleetKept DEF Fleet!Finish, Fleet!Stop

LEMMA SameCloud == ASSUME UNCHANGED cloud PROVE SameFleet
  BY DEF SameFleet, Exists

\* The operator is asked only when both servers of this choice are there.
LEMMA PlanMaps == OrderInv /\ Plan => [Fleet!Next]_Fleet!vars
  <1> SUFFICES ASSUME OrderInv, Plan PROVE [Fleet!Next]_Fleet!vars
    OBVIOUS
  <1>1. SameFleet /\ pc = "plan" /\ pc' # "idle"
    BY SameCloud DEF Plan, provider
  <1>2. CASE run' = [run EXCEPT !.values = recorded]
    <2>1. run'.replace = run.replace
      BY <1>2 DEF OrderInv, TypeOK, Runs
    <2> QED BY <1>1, <2>1, QuietMaps
  <1> DEFINE todo == Missing \cup Replaced
  <1>3. CASE run' = [run EXCEPT !.todo = todo]
    <2> HIDE DEF todo
    <2>1. run'.replace = run.replace
      BY <1>3 DEF OrderInv, TypeOK, Runs
    <2> QED BY <1>1, <2>1, QuietMaps
  <1>4. CASE todo = {} /\ run' = [run EXCEPT !.replace = TRUE]
    <2>1. run'.replace /\ order \in Choices
      BY <1>1, <1>4 DEF OrderInv, TypeOK, Runs, Listed
    <2>2. ASSUME NEW r \in Roles
          PROVE  /\ recorded[r] \in Servers /\ Exists(recorded[r])
                 /\ cloud[recorded[r]].choice = order /\ cloud[recorded[r]].role = r
                 /\ ~(r = "helper" /\ run.replace)
      <3>1. Exists(recorded[r]) /\ recorded[r] \in Servers
        BY <1>4 DEF Missing, Exists, OrderInv, TypeOK, Rigs
      <3>2. cloud[recorded[r]].choice = order /\ ~(r = "helper" /\ run.replace)
        BY <1>4, <3>1 DEF Missing, Replaced
      <3>3. recorded[r] # None
        BY <3>1 DEF Exists
      <3> QED BY <3>1, <3>2, <3>3 DEF OrderInv, RecordedWasActive
    <2>3. ~run.replace
      BY <2>2 DEF Roles
    <2>4. \A r \in Roles : Fleet!Has(r, ProjectOf[order])
      <3> SUFFICES ASSUME NEW r \in Roles PROVE Fleet!Has(r, ProjectOf[order])
        OBVIOUS
      <3>1. /\ recorded[r] \in Servers /\ Exists(recorded[r])
            /\ cloud[recorded[r]].choice = order /\ cloud[recorded[r]].role = r
        BY <2>2
      <3>2. Fleet!Has(cloud[recorded[r]].role, ProjectOf[cloud[recorded[r]].choice])
        BY <3>1, BilledHas
      <3> QED BY <3>1, <3>2
    <2>5. Fleet!Agree
      BY <1>1, <2>1, <2>3, <2>4, FleetKept DEF Fleet!Agree, Roles
    <2> QED BY <2>5 DEF Fleet!Next
  <1> QED BY <1>2, <1>3, <1>4 DEF Plan

LEMMA FleetStep == OrderInv /\ [Next]_vars => [Fleet!Next]_Fleet!vars
  <1> SUFFICES ASSUME OrderInv, [Next]_vars PROVE [Fleet!Next]_Fleet!vars
    OBVIOUS
  <1> USE DEF provider
  <1>1. CASE Start
    <2>1. SameFleet /\ pc = "idle" /\ pc' # "idle" /\ ~run'.replace
      BY <1>1, SameCloud DEF Start, NewRun
    <2>2. Fleet!Begin
      BY <2>1, FleetKept DEF Fleet!Begin
    <2> QED BY <2>2 DEF Fleet!Next
  <1>2. ASSUME UNCHANGED cloud, pc # "idle", End("FAIL") \/ End("PASS")
        PROVE  [Fleet!Next]_Fleet!vars
    BY <1>2, EndMaps, SameCloud DEF Fleet!Next
  <1>3. ASSUME UNCHANGED <<cloud, run>>, pc' = "idle" <=> pc = "idle"
        PROVE  [Fleet!Next]_Fleet!vars
    BY <1>3, QuietMaps, SameCloud
  <1>4. CASE Interrupt
    BY <1>2, <1>4 DEF Interrupt, Fail
  <1>5. CASE Choose \/ MoveKeys \/ MarkKeys \/ ReachHelper \/ ReachNode \/ MoveRigFile
    BY <1>3, <1>5 DEF Choose, MoveKeys, MarkKeys, ReachHelper, ReachNode, Reach, MoveRigFile, Goto
  <1>6. CASE Finished \/ StartBootstrap \/ CheckNode \/ WaitForMirror \/ WriteRigFile
    BY <1>2, <1>3, <1>6 DEF Finished, StartBootstrap, CheckNode, WaitForMirror, WriteRigFile,
                            Goto, Fail
  <1>7. CASE List \/ AdoptNode \/ AdoptHelper \/ \E s \in Servers : Delivered(s)
    <2>1. run'.replace = run.replace
      <3>1. CASE List
        BY <3>1 DEF List, OrderInv, TypeOK, Runs
      <3>2. CASE AdoptNode \/ AdoptHelper
        BY <3>2 DEF AdoptNode, AdoptHelper, Adopt, OrderInv, TypeOK, Runs
      <3>3. CASE \E s \in Servers : Delivered(s)
        BY <3>3 DEF Delivered, OrderInv, TypeOK, Runs
      <3> QED BY <1>7, <3>1, <3>2, <3>3
    <2>2. UNCHANGED cloud /\ pc # "idle" /\ pc' # "idle"
      BY <1>7 DEF List, AdoptNode, AdoptHelper, Adopt, Delivered
    <2> QED BY <2>1, <2>2, QuietMaps, SameCloud
  <1>8. CASE Plan
    BY <1>8, PlanMaps
  <1>9. CASE Applied
    <2>1. UNCHANGED cloud /\ pc = "apply"
      BY <1>9 DEF Applied
    <2>2. CASE Fail
      BY <1>2, <2>1, <2>2 DEF Fail
    <2>3. CASE run' = [run EXCEPT !.values = recorded] /\ pc' = "finished"
      <3>1. run'.replace = run.replace
        BY <2>3 DEF OrderInv, TypeOK, Runs
      <3> QED BY <2>1, <2>3, <3>1, QuietMaps, SameCloud
    <2> QED BY <1>9, <2>2, <2>3 DEF Applied
  <1>10. CASE \E r \in Roles : Destroy(r) \/ Create(r)
    BY <1>10, DestroyMaps, CreateMaps
  <1>11. ASSUME NEW s \in Servers, Deliver(s) PROVE [Fleet!Next]_Fleet!vars
    <2>1. PICK status \in {"active", "failed"} : cloud' = [cloud EXCEPT ![s].status = status]
      BY <1>11 DEF Deliver
    <2>2. /\ \A t \in Servers : t # s => cloud'[t] = cloud[t]
          /\ cloud'[s].role = cloud[s].role /\ cloud'[s].choice = cloud[s].choice
          /\ cloud'[s].status = status /\ cloud[s].status = "delivering"
      BY <1>11, <2>1 DEF Deliver, OrderInv, TypeOK, States
    <2>3. SameFleet
      BY <2>2 DEF SameFleet, Exists
    <2> QED BY <1>11, <2>3, QuietMaps DEF Deliver
  <1>12. CASE \E s \in Servers : Delete(s)
    BY <1>12, DeleteMaps
  <1>13. CASE UNCHANGED vars \/ \E s \in Servers : Bootstrap(s)
    BY <1>3, <1>13 DEF vars, Bootstrap
  <1> QED
    BY <1>1, <1>4, <1>5, <1>6, <1>7, <1>8, <1>9, <1>10, <1>11, <1>12, <1>13 DEF Next, Step

\* Wherever an invocation stops and whatever Terraform did not record, the project's
\* owner sees the abstract fleet: no second server of a role, nothing gone but a helper whose
\* replacement he agreed to in this run, when the pair was complete (order_servers).
THEOREM FleetImplemented == Spec => ImplementsFleet
  <1>1. Init => Fleet!Init
    BY DEF Init, Fleet!Init, Billed, Exists, NewRun
  <1> QED
    BY <1>1, FleetStep, OrderInvHolds, PTL DEF Spec, ImplementsFleet, Fleet!Spec
=============================================================================
