------------------------- MODULE ProofRunnerProofs -------------------------
(***************************************************************************)
(* Theorems about ProofRunner for every set of controllers, every plan and *)
(* any number of reviews.  Those about who owns a modification, and the    *)
(* refinement of TrusteeEdits in ProofRunnerRefinement, assume that no     *)
(* request commits after its client gave up on it; the others hold         *)
(* whatever commits late.                                                  *)
(***************************************************************************)
EXTENDS ProofRunner, TLAPS

\* Every state of the runner is of its type.
LEMMA EditedType == \A c : Edited(c) \in Resources
  BY DEF Edited, EditedBy, Resources, ConfigMaps

LEMMA LabelTypes ==
    ASSUME NEW x \in Locals
    PROVE  /\ AfterFinally(x) \in Labels
           /\ AfterRemoval(x) \in Labels
           /\ Finally(x) \in Labels
           /\ Exit(x) \in Labels
  BY DEF Finally, AfterRemoval, AfterFinally, Exit, Labels

LEMMA UnstartedType == Unstarted \in Locals
  BY DEF Unstarted, Locals, Reviewed, Values

LEMMA FreshType ==
    ASSUME NEW x \in Locals
    PROVE  [x EXCEPT !.fresh = TRUE] \in Locals
  BY DEF Locals

LEMMA StepType ==
    ASSUME TypeOK, NEW c \in Controllers, NEW x \in Locals, NEW label \in Labels,
           Step(c, x, label)
    PROVE  /\ run' \in [Controllers -> Locals]
           /\ pc' \in [Controllers -> Labels]
  BY DEF Step, TypeOK

LEMMA RaiseType ==
    ASSUME TypeOK, NEW c \in Controllers, NEW kind \in {"INCOMPLETE", "FAIL"}, Raise(c, kind)
    PROVE  /\ run' \in [Controllers -> Locals]
           /\ pc' \in [Controllers -> Labels]
  <1> DEFINE x == [run[c] EXCEPT !.outcome = kind]
  <1>1. x \in Locals
    BY DEF TypeOK, Locals
  <1>2. Finally(x) \in Labels
    BY <1>1, LabelTypes
  <1> QED BY <1>1, <1>2, StepType DEF Raise, LeaveTry

LEMMA AbandonType ==
    ASSUME TypeOK, NEW c \in Controllers, Abandon(c)
    PROVE  /\ run' \in [Controllers -> Locals]
           /\ pc' \in [Controllers -> Labels]
  <1> DEFINE x == [run[c] EXCEPT !.restoration = "FAIL", !.outcome = "FAIL"]
  <1>1. x \in Locals
    BY DEF TypeOK, Locals
  <1>2. "record" \in Labels
    BY DEF Labels
  <1> QED BY <1>1, <1>2, StepType DEF Abandon

\* The type of the shared state is kept by a step that writes no resource.
LEMMA RunnerType ==
    ASSUME TypeOK, NEW c \in Controllers, Runner(c) \/ Kill(c)
    PROVE  /\ run' \in [Controllers -> Locals]
           /\ pc' \in [Controllers -> Labels]
  <1> USE StepType, RaiseType, AbandonType, LabelTypes DEF LeaveTry, Goto
  <1> run[c] \in Locals
    BY DEF TypeOK
  <1>1. CASE Acquire(c)
    BY <1>1 DEF Acquire, Locals, Labels
  <1>2. CASE Confirm(c)
    <2>1. [run[c] EXCEPT !.holds = TRUE] \in Locals
      BY DEF Locals
    <2>2. {"case", "release"} \subseteq Labels
      BY DEF Labels
    <2> QED BY <1>2, <2>1, <2>2 DEF Confirm
  <1>3. CASE Release(c)
    BY <1>3 DEF Release, Locals, Labels
  <1>4. CASE Unlock(c)
    BY <1>4 DEF Unlock, Locals, Labels
  <1>5. CASE StartCase(c)
    <2> DEFINE new == [Unstarted EXCEPT !.holds = run[c].holds, !.k = run[c].k]
               stop == [new EXCEPT !.outcome = "INCOMPLETE"]
    <2>1. new \in Locals
      BY UnstartedType DEF Locals
    <2>2. stop \in Locals
      BY <2>1 DEF Locals
    <2>3. {"isolation", "read", "control", "record"} \subseteq Labels
      BY DEF Labels
    <2> HIDE DEF new, stop
    <2>4. \E label \in {"isolation", "read", "control"} : Step(c, new, label)
          \/ Step(c, stop, "record")
      BY <1>5 DEF StartCase, new, stop
    <2> QED BY <2>1, <2>2, <2>3, <2>4
  <1>6. CASE Isolation(c)
    BY <1>6 DEF Isolation, Locals, Labels
  <1>7. CASE Control(c)
    BY <1>7 DEF Control, Locals, Labels
  <1>8. CASE StartNegative(c)
    <2> DEFINE named == [run[c] EXCEPT !.named = TRUE]
               lost == [named EXCEPT !.outcome = "INCOMPLETE"]
    <2>1. named \in Locals /\ lost \in Locals
      BY DEF Locals
    <2>2. "negative" \in Labels
      BY DEF Labels
    <2>3. Step(c, named, "negative") \/ Step(c, lost, Finally(lost))
      BY <1>8 DEF StartNegative
    <2> HIDE DEF named, lost
    <2> QED BY <2>1, <2>2, <2>3
  <1>9. CASE Negative(c)
    BY <1>9 DEF Negative, Locals, Labels
  <1>10. CASE ReadOriginal(c)
    <2> DEFINE object == resource[Edited(c)]
               edit == [run[c] EXCEPT !.hasEdit = TRUE,
                                      !.orig = [data |-> object.data, uid |-> object.uid]]
               lost == [edit EXCEPT !.outcome = "INCOMPLETE"]
    <2>1. object \in Objects
      BY EditedType DEF TypeOK
    <2>2. edit \in Locals
      BY <2>1 DEF Locals, Objects
    <2>3. lost \in Locals
      BY <2>2 DEF Locals
    <2>4. "compare" \in Labels
      BY DEF Labels
    <2>5. Step(c, edit, "compare") \/ Step(c, lost, Finally(lost)) \/ Raise(c, "INCOMPLETE")
      BY <1>10 DEF ReadOriginal
    <2> HIDE DEF edit, lost
    <2> QED BY <2>2, <2>3, <2>4, <2>5
  <1>11. CASE Compare(c)
    <2> DEFINE edit == [run[c] EXCEPT !.armed = TRUE]
               seen == [edit EXCEPT !.seen = resource[Edited(c)].rv]
               failed == [edit EXCEPT !.outcome = "FAIL"]
               lost == [edit EXCEPT !.outcome = "INCOMPLETE"]
    <2>1. resource[Edited(c)].rv \in Nat
      BY EditedType DEF TypeOK, Objects
    <2>2. edit \in Locals
      BY DEF Locals
    <2>3. seen \in Locals /\ failed \in Locals /\ lost \in Locals
      BY <2>1, <2>2 DEF Locals
    <2>4. "patch" \in Labels
      BY DEF Labels
    <2>5. \/ Step(c, seen, "patch")
          \/ Step(c, failed, Finally(failed))
          \/ Step(c, lost, Finally(lost))
      BY <1>11 DEF Compare
    <2> HIDE DEF edit, seen, failed, lost
    <2> QED BY <2>3, <2>4, <2>5
  <1>12. CASE Patch(c)
    BY <1>12 DEF Patch, Locals, Labels
  <1>13. CASE Observe(c)
    BY <1>13 DEF Observe, Locals, Labels
  <1>14. CASE Rotate(c)
    BY <1>14 DEF Rotate, Locals, Labels
  <1>15. CASE Serving(c)
    BY <1>15 DEF Serving, Locals, Labels
  <1>16. CASE DeleteNegative(c)
    BY <1>16 DEF DeleteNegative, Locals, Labels
  <1>17. CASE Restore(c)
    <2>1. resource[Edited(c)].rv \in Nat
      BY EditedType DEF TypeOK, Objects
    <2>2. /\ [run[c] EXCEPT !.armed = FALSE] \in Locals
          /\ [run[c] EXCEPT !.seen = resource[Edited(c)].rv] \in Locals
      BY <2>1 DEF Locals
    <2>3. {"rerotate", "unpatch"} \subseteq Labels
      BY DEF Labels
    <2> QED BY <1>17, <2>2, <2>3 DEF Restore
  <1>18. CASE Unpatch(c)
    BY <1>18 DEF Unpatch, Locals, Labels
  <1>19. CASE Unobserve(c)
    BY <1>19 DEF Unobserve, Locals, Labels
  <1>20. CASE Recovery(c)
    BY <1>20 DEF Recovery, Locals, Labels
  <1>21. CASE Record(c)
    <2>1. /\ [run[c] EXCEPT !.k = @ + 1] \in Locals
          /\ \A rep \in {"PASS", "INCOMPLETE", "FAIL"} :
                [run[c] EXCEPT !.report = rep] \in Locals
      BY DEF Locals
    <2>2. {"case", "cleanup"} \subseteq Labels
      BY DEF Labels
    <2> QED BY <1>21, <2>1, <2>2 DEF Record
  <1>22. CASE Cleanup(c)
    BY <1>22 DEF Cleanup, Locals, Labels
  <1>23. CASE Kill(c)
    BY <1>23 DEF Kill, Locals, Labels
  <1> QED
    BY <1>1, <1>2, <1>3, <1>4, <1>5, <1>6, <1>7, <1>8, <1>9, <1>10, <1>11, <1>12,
       <1>13, <1>14, <1>15, <1>16, <1>17, <1>18, <1>19, <1>20, <1>21, <1>22, <1>23
    DEF Runner

LEMMA ChangeType ==
    ASSUME TypeOK, NEW c \in Controllers
    PROVE  Change(c) \in Values /\ run[c].orig.data \in Values
  BY DEF TypeOK, Locals, Change, Values

LEMMA WriteType ==
    ASSUME TypeOK, NEW r \in Resources, NEW data \in Values, Write(r, data)
    PROVE  resource' \in [Resources -> Objects]
  BY DEF TypeOK, Write, Objects

LEMMA CommitsType ==
    ASSUME TypeOK, NEW c \in Controllers, NEW data \in Values,
           Commits(c, data) \/ Drops \/ Delays(c, data)
    PROVE  /\ resource' \in [Resources -> Objects]
           /\ inflight' \subseteq Requests
  <1>1. CASE Commits(c, data)
    BY <1>1, WriteType, EditedType DEF Commits, TypeOK
  <1>2. CASE Drops
    BY <1>2 DEF Drops, TypeOK
  <1>3. CASE Delays(c, data)
    <2>1. [name |-> Edited(c), rv |-> run[c].seen, data |-> data] \in Requests
      BY EditedType DEF TypeOK, Locals, Requests
    <2> QED BY <1>3, <2>1 DEF Delays, TypeOK
  <1> QED BY <1>1, <1>2, <1>3

LEMMA TypeInit == Init => TypeOK
  BY UnstartedType DEF Init, TypeOK, Objects, Values, Reviewed, Guests, Labels

LEMMA TypeStep == TypeOK /\ [Next]_vars => TypeOK'
  <1> SUFFICES ASSUME TypeOK, [Next]_vars
               PROVE  TypeOK'
    OBVIOUS
  <1>1. ASSUME NEW c \in Controllers, Runner(c) \/ Kill(c)
        PROVE  TypeOK'
    <2>1. run' \in [Controllers -> Locals] /\ pc' \in [Controllers -> Labels]
      BY <1>1, RunnerType
    <2>2. lock' \in Controllers \cup {Nobody}
      BY <1>1 DEF TypeOK, Runner, Kill, Acquire, Confirm, Release, Unlock, StartCase,
            Isolation, Control, StartNegative, Negative, ReadOriginal, Compare, Patch,
            Observe, Rotate, Serving, DeleteNegative, Restore, Unpatch, Unobserve,
            Recovery, Record, Cleanup
    <2>3. resource' \in [Resources -> Objects] /\ inflight' \subseteq Requests
      <3>1. CASE Patch(c) \/ Unpatch(c)
        BY <3>1, ChangeType, CommitsType DEF Patch, Unpatch
      <3>2. CASE ~Patch(c) /\ ~Unpatch(c)
        BY <1>1, <3>2 DEF TypeOK, Runner, Kill, Acquire, Confirm, Release, Unlock,
              StartCase, Isolation, Control, StartNegative, Negative, ReadOriginal,
              Compare, Observe, Rotate, Serving, DeleteNegative, Restore, Unobserve,
              Recovery, Record, Cleanup
      <3> QED BY <3>1, <3>2
    <2>4. guest' \in [Controllers -> Guests]
      BY <1>1 DEF TypeOK, Guests, Runner, Kill, Acquire, Confirm, Release, Unlock,
            StartCase, Isolation, Control, StartNegative, Negative, ReadOriginal, Compare,
            Patch, Observe, Rotate, Serving, DeleteNegative, Restore, Unpatch, Unobserve,
            Recovery, Record, Cleanup
    <2>5. UNCHANGED <<reviewed, served>>
      BY <1>1 DEF TypeOK, Runner, Kill, Acquire, Confirm, Release, Unlock, StartCase,
            Isolation, Control, StartNegative, Negative, ReadOriginal, Compare, Patch,
            Observe, Rotate, Serving, DeleteNegative, Restore, Unpatch, Unobserve,
            Recovery, Record, Cleanup
    <2> QED BY <2>1, <2>2, <2>3, <2>4, <2>5 DEF TypeOK
  <1>2. ASSUME NEW c \in Controllers, Attest(c)
        PROVE  TypeOK'
    BY <1>2 DEF TypeOK, Attest, Guests
  <1>3. ASSUME NEW c \in Controllers, Recover(c)
        PROVE  TypeOK'
    <2> DEFINE undone(r) == IF resource[r].data.by = c
                            THEN [data |-> run[c].orig.data, rv |-> resource[r].rv + 1,
                                  uid |-> resource[r].uid]
                            ELSE resource[r]
    <2>1. \A r \in Resources : undone(r) \in Objects
      BY ChangeType DEF TypeOK, Objects
    <2>2. \A r \in Resources : [data |-> undone(r).data, rv |-> undone(r).rv]
                                   \in [data : Values, rv : Nat]
      BY <2>1 DEF Objects
    <2>3. \A d \in Controllers : [run[d] EXCEPT !.fresh = TRUE] \in Locals
      BY FreshType DEF TypeOK
    <2> HIDE DEF undone
    <2>4. /\ resource' = [r \in Resources |-> undone(r)]
          /\ served' = [r \in Resources |-> [data |-> undone(r).data, rv |-> undone(r).rv]]
      BY <1>3 DEF Recover, undone
    <2>5. guest' \in [Controllers -> Guests]
      BY <1>3 DEF TypeOK, Recover, Guests
    <2>6. resource' \in [Resources -> Objects]
      BY <2>1, <2>4
    <2>7. served' \in [Resources -> [data : Values, rv : Nat]]
      BY <2>2, <2>4
    <2>8. run' \in [Controllers -> Locals]
      BY <1>3, <2>3 DEF Recover
    <2> QED BY <1>3, <2>5, <2>6, <2>7, <2>8 DEF TypeOK, Recover
  <1>4. ASSUME NEW r \in Resources, Review(r)
        PROVE  TypeOK'
    BY <1>4, WriteType DEF TypeOK, Review, Reviewed, Values
  <1>5. ASSUME NEW r \in Resources, Reinstate(r)
        PROVE  TypeOK'
    BY <1>5 DEF TypeOK, Reinstate, Reviewed, Values, Objects
  <1>6. ASSUME NEW q \in inflight, CommitLate(q)
        PROVE  TypeOK'
    BY <1>6, WriteType DEF TypeOK, CommitLate, Requests
  <1>7. CASE Serve
    <2>1. \A r \in Resources : [data |-> resource[r].data, rv |-> resource[r].rv]
                                   \in [data : Values, rv : Nat]
      BY DEF TypeOK, Objects
    <2>2. \A d \in Controllers : [run[d] EXCEPT !.fresh = TRUE] \in Locals
      BY FreshType DEF TypeOK
    <2> QED BY <1>7, <2>1, <2>2 DEF TypeOK, Serve
  <1>8. CASE UNCHANGED vars
    BY <1>8 DEF TypeOK, vars
  <1> QED BY <1>1, <1>2, <1>3, <1>4, <1>5, <1>6, <1>7, <1>8 DEF Next

\* Every reachable state is of its type.
THEOREM TypeCorrect == Spec => []TypeOK
  BY TypeInit, TypeStep, PTL DEF Spec
---------------------------------------------------------------------------
(* The inductive invariant behind ModificationOwned and ServedChangeOwned   *)

\* Where a controller's modification may be in the resource, and where Trustee
\* may still serve it.
Unlocked == {"acquire", "release", "done", "killed"}
Modifying == {"observe", "rotate", "serving", "control", "start", "negative",
              "deleteNegative", "restore", "unpatch", "record", "done", "killed"}
Exposing == Modifying \cup {"unobserve", "rerotate", "reserving"}

\* A controller past the edit and with something to undo cannot pass the control
\* of a later edit, nor be recorded as anything but a failed restoration.
MustUndo(c) == /\ lock = c
               /\ run[c].hasEdit
               /\ pc[c] = "control" => Case(c) \notin EditLater
               /\ pc[c] = "record" => /\ run[c].restoration = "FAIL"
                                      /\ run[c].outcome = "FAIL"

HoldsLock(c) == pc[c] \notin Unlocked => lock = c

EditReady(c) == /\ run[c].hasEdit => run[c].orig.data.by = Nobody
                /\ pc[c] \in {"compare", "patch", "unpatch"} => run[c].hasEdit
                /\ pc[c] = "patch" => run[c].armed

\* What the resourceVersion in the patch stands for.
PatchTested(c) ==
    pc[c] \in {"patch", "unpatch"} =>
        LET object == resource[Edited(c)]
        IN /\ run[c].seen <= object.rv
           /\ object.rv = run[c].seen =>
                object.data = IF pc[c] = "patch" THEN run[c].orig.data ELSE Change(c)

OwnsModified(c) ==
    \A r \in Resources : resource[r].data.by = c =>
        /\ MustUndo(c) /\ pc[c] \in Modifying
        /\ run[c].armed
        /\ r = Edited(c)
        /\ run[c].orig.data = Reviewed(reviewed[r])

OwnsServed(c) ==
    \A r \in Resources : served[r].data.by = c =>
        /\ MustUndo(c) /\ pc[c] \in Exposing
        /\ pc[c] = "reserving" => ~run[c].fresh

CInv(c) == /\ HoldsLock(c) /\ EditReady(c) /\ PatchTested(c)
           /\ OwnsModified(c) /\ OwnsServed(c)

IInv == /\ TypeOK
        /\ inflight = {}
        /\ LatestReviewKept
        /\ \A c \in Controllers : CInv(c)

\* The runner's steps that change no shared state but the negative pod.
Local(c) == \/ Confirm(c) \/ Release(c) \/ StartCase(c) \/ Isolation(c) \/ Control(c)
            \/ StartNegative(c) \/ Negative(c) \/ ReadOriginal(c) \/ Compare(c) \/ Observe(c)
            \/ Rotate(c) \/ Serving(c) \/ DeleteNegative(c) \/ Restore(c) \/ Unobserve(c)
            \/ Recovery(c) \/ Record(c) \/ Cleanup(c) \/ Kill(c)

Frame == UNCHANGED <<lock, resource, reviewed, served>>

LEMMA LocalFrame ==
    ASSUME NEW c \in Controllers, Local(c)
    PROVE  Frame /\ UNCHANGED inflight
  BY DEF Frame, Local, Confirm, Release, StartCase, Isolation, Control, StartNegative,
        Negative, ReadOriginal, Compare, Observe, Rotate, Serving, DeleteNegative, Restore,
        Unobserve, Recovery, Record, Cleanup, Kill

\* A modification by c is in a resource, or Trustee still serves one.
Modified(c) == \E r \in Resources : resource[r].data.by = c
Exposed(c) == Modified(c) \/ \E r \in Resources : served[r].data.by = c

LEMMA ModifiedFacts ==
    ASSUME NEW c \in Controllers, CInv(c), Modified(c)
    PROVE  pc[c] \in Modifying /\ run[c].armed
  BY DEF CInv, OwnsModified, Modified

LEMMA ExposedFacts ==
    ASSUME NEW c \in Controllers, CInv(c), Exposed(c)
    PROVE  /\ MustUndo(c)
           /\ pc[c] \in Exposing
           /\ pc[c] = "reserving" => ~run[c].fresh
  BY DEF CInv, OwnsModified, OwnsServed, Modified, Exposed, Exposing, Modifying

\* A step of c that leaves its edit as it is keeps the invariant of c, if c
\* stays where an exposed modification is undone.
LEMMA StepKeeps ==
    ASSUME TypeOK, NEW c \in Controllers, CInv(c), Frame,
           NEW x \in Locals, NEW label \in Labels, Step(c, x, label),
           x.hasEdit = run[c].hasEdit, x.orig = run[c].orig, x.k = run[c].k,
           label \notin Unlocked => lock = c,
           label \notin {"compare", "patch", "unpatch"},
           Modified(c) => label \in Modifying /\ x.armed,
           Exposed(c) => /\ label \in Exposing
                         /\ label = "reserving" => ~x.fresh
                         /\ label = "control" => Case(c) \notin EditLater
                         /\ label = "record" => x.restoration = "FAIL" /\ x.outcome = "FAIL"
    PROVE  CInv(c)'
  <1>1. run'[c] = x /\ pc'[c] = label
    BY DEF Step, TypeOK
  <1>2. /\ lock' = lock /\ resource' = resource /\ reviewed' = reviewed /\ served' = served
    BY DEF Frame
  <1>3. Case(c)' = Case(c) /\ Edited(c)' = Edited(c)
    BY <1>1 DEF Case, Edited
  <1>4. HoldsLock(c)' /\ PatchTested(c)' /\ EditReady(c)'
    BY <1>1, <1>2 DEF CInv, HoldsLock, PatchTested, EditReady
  <1>5. Exposed(c) => MustUndo(c)'
    BY <1>1, <1>2, <1>3, ExposedFacts DEF MustUndo
  <1>6. OwnsModified(c)'
    BY <1>1, <1>2, <1>3, <1>5 DEF CInv, OwnsModified, Modified, Exposed
  <1>7. OwnsServed(c)'
    BY <1>1, <1>2, <1>5 DEF CInv, OwnsServed, Exposed
  <1> QED BY <1>4, <1>6, <1>7 DEF CInv

LEMMA CleanStepKeeps ==
    ASSUME TypeOK, NEW c \in Controllers, CInv(c), Frame, ~Exposed(c),
           NEW x \in Locals, NEW label \in Labels, Step(c, x, label),
           x.hasEdit = run[c].hasEdit, x.orig = run[c].orig, x.k = run[c].k,
           label \notin Unlocked => lock = c,
           label \notin {"compare", "patch", "unpatch"}
    PROVE  CInv(c)'
  BY StepKeeps DEF Exposed

LEMMA RaiseKeeps ==
    ASSUME TypeOK, NEW c \in Controllers, CInv(c), Frame, pc[c] \notin Unlocked,
           NEW kind \in {"INCOMPLETE", "FAIL"}, Raise(c, kind),
           Modified(c) => run[c].armed
    PROVE  CInv(c)'
  <1> DEFINE x == [run[c] EXCEPT !.outcome = kind]
  <1>1. x \in Locals /\ Finally(x) \in Labels
    BY LabelTypes DEF TypeOK, Locals
  <1>2. /\ x.hasEdit = run[c].hasEdit /\ x.orig = run[c].orig /\ x.k = run[c].k
        /\ x.armed = run[c].armed /\ x.outcome # "none"
    BY DEF TypeOK, Locals
  <1>3. Step(c, x, Finally(x))
    BY DEF Raise, LeaveTry
  <1> HIDE DEF x
  <1>4. /\ Finally(x) \in {"deleteNegative", "restore", "record"}
        /\ x.hasEdit => Finally(x) # "record"
    BY <1>2 DEF Finally, AfterRemoval, AfterFinally
  <1>5. Exposed(c) => run[c].hasEdit
    BY ExposedFacts DEF MustUndo
  <1>6. lock = c
    BY DEF CInv, HoldsLock
  <1> QED BY <1>1, <1>2, <1>3, <1>4, <1>5, <1>6, StepKeeps
          DEF Unlocked, Modifying, Exposing, Exposed

LEMMA AbandonKeeps ==
    ASSUME TypeOK, NEW c \in Controllers, CInv(c), Frame, pc[c] \notin Unlocked,
           Abandon(c)
    PROVE  CInv(c)'
  <1> DEFINE x == [run[c] EXCEPT !.restoration = "FAIL", !.outcome = "FAIL"]
  <1>0. "record" \in Labels
    BY DEF Labels
  <1>1. x \in Locals
    BY DEF TypeOK, Locals
  <1>2. /\ x.hasEdit = run[c].hasEdit /\ x.orig = run[c].orig /\ x.k = run[c].k
        /\ x.armed = run[c].armed /\ x.outcome = "FAIL" /\ x.restoration = "FAIL"
    BY DEF TypeOK, Locals
  <1>3. Step(c, x, "record")
    BY DEF Abandon
  <1> HIDE DEF x
  <1>4. lock = c /\ (Modified(c) => run[c].armed)
    BY ModifiedFacts DEF CInv, HoldsLock
  <1> QED BY <1>0, <1>1, <1>2, <1>3, <1>4, StepKeeps DEF Unlocked, Modifying, Exposing


LEMMA LocalKeeps ==
    ASSUME TypeOK, NEW c \in Controllers, \A d \in Controllers : CInv(d), Local(c)
    PROVE  CInv(c)'
  <1> CInv(c)
    OBVIOUS
  <1> Frame
    BY LocalFrame
  <1> run[c] \in Locals
    BY DEF TypeOK
  <1> USE StepKeeps, RaiseKeeps, AbandonKeeps, ModifiedFacts, ExposedFacts
          DEF Goto, MustUndo, Unlocked, Modifying, Exposing
  <1>0. pc[c] \notin Unlocked => lock = c
    BY DEF CInv, HoldsLock
  <1>1. CASE Confirm(c)
    <2>1. [run[c] EXCEPT !.holds = TRUE] \in Locals
      BY DEF Locals
    <2> QED BY <1>0, <1>1, <2>1 DEF Confirm, Labels, Locals
  <1>2. CASE Release(c)
    <2>1. [run[c] EXCEPT !.report = "FAIL"] \in Locals
      BY DEF Locals
    <2> QED BY <1>0, <1>2, <2>1 DEF Release, Labels, Locals
  <1>3. CASE StartCase(c)
    <2> DEFINE new == [Unstarted EXCEPT !.holds = run[c].holds, !.k = run[c].k]
               stop == [new EXCEPT !.outcome = "INCOMPLETE"]
    <2>1. ~Exposed(c) /\ ~Modified(c)
      BY <1>3 DEF StartCase, Exposed
    <2>2. new.orig.data.by = Nobody /\ stop.orig.data.by = Nobody /\ ~new.hasEdit /\ ~stop.hasEdit
      BY DEF Unstarted, Reviewed
    <2>3. \/ \E label \in {"isolation", "read", "control"} : Step(c, new, label)
          \/ Step(c, stop, "record")
      BY <1>3 DEF StartCase
    <2>4. /\ run'[c] \in {new, stop}
          /\ pc'[c] \in {"isolation", "read", "control", "record"}
      BY <2>3 DEF Step, TypeOK
    <2>5. ~run'[c].hasEdit
      BY <2>2, <2>4
    <2> QED BY <1>0, <1>3, <2>1, <2>4, <2>5 DEF StartCase, Frame, Exposed, Modified, CInv,
                HoldsLock, EditReady, PatchTested, OwnsModified, OwnsServed
  <1>4. CASE Isolation(c)
    <2>1. \A o \in {"PASS", "INCOMPLETE", "FAIL"} : [run[c] EXCEPT !.outcome = o] \in Locals
      BY DEF Locals
    <2> QED BY <1>0, <1>4, <2>1 DEF Isolation, Labels, Locals
  <1>5. CASE Control(c)
    <2>1. CASE Case(c) \in EditLater /\ Goto(c, "read")
      <3>1. ~Exposed(c)
        BY <1>5, <2>1 DEF Control
      <3>2. "read" \in Labels
        BY DEF Labels
      <3> QED BY <1>0, <1>5, <2>1, <3>1, <3>2, CleanStepKeeps DEF Control
    <2>2. CASE Goto(c, "start")
      BY <1>0, <1>5, <2>2 DEF Control, Labels
    <2>3. CASE Raise(c, "INCOMPLETE")
      BY <1>5, <2>3 DEF Control
    <2> QED BY <1>5, <2>1, <2>2, <2>3 DEF Control
  <1>6. CASE StartNegative(c)
    <2> DEFINE named == [run[c] EXCEPT !.named = TRUE]
               lost == [named EXCEPT !.outcome = "INCOMPLETE"]
    <2>1. named \in Locals /\ lost \in Locals
      BY DEF Locals
    <2>2. /\ named.hasEdit = run[c].hasEdit /\ named.orig = run[c].orig
          /\ named.k = run[c].k /\ named.armed = run[c].armed
          /\ lost.hasEdit = run[c].hasEdit /\ lost.orig = run[c].orig
          /\ lost.k = run[c].k /\ lost.armed = run[c].armed
      BY DEF Locals
    <2>3. Finally(lost) = "deleteNegative"
      BY DEF Finally, Locals
    <2>4. pc[c] = "start" /\ (Step(c, named, "negative") \/ Step(c, lost, "deleteNegative"))
      BY <1>6, <2>3 DEF StartNegative, LeaveTry
    <2> HIDE DEF named, lost
    <2> QED BY <1>0, <2>1, <2>2, <2>4 DEF Labels
  <1>7. CASE Negative(c)
    <2>1. CASE Step(c, run[c], Finally(run[c]))
      <3>1. /\ Finally(run[c]) \in {"deleteNegative", "restore", "recovery", "record"}
            /\ run[c].hasEdit => Finally(run[c]) \in {"deleteNegative", "restore"}
        BY DEF Finally, AfterRemoval, AfterFinally
      <3>2. Finally(run[c]) \in Labels
        BY LabelTypes
      <3>3. /\ Exposed(c) => run[c].hasEdit
            /\ Modified(c) => run[c].armed /\ Exposed(c)
            /\ lock = c
        BY <1>0, <1>7 DEF Negative, Exposed
      <3> HIDE ExposedFacts, ModifiedFacts, RaiseKeeps, AbandonKeeps
      <3> QED BY <2>1, <3>1, <3>2, <3>3
    <2>2. ASSUME NEW kind \in {"INCOMPLETE", "FAIL"}, Raise(c, kind)
          PROVE  CInv(c)'
      BY <1>7, <2>2 DEF Negative
    <2> QED BY <1>7, <2>1, <2>2 DEF Negative, LeaveTry
  <1>8. CASE ReadOriginal(c)
    <2> DEFINE object == resource[Edited(c)]
               edit == [run[c] EXCEPT !.hasEdit = TRUE,
                                      !.orig = [data |-> object.data, uid |-> object.uid]]
               lost == [edit EXCEPT !.outcome = "INCOMPLETE"]
    <2>1. ~Exposed(c) /\ ~Modified(c)
      BY <1>8 DEF ReadOriginal, Exposed
    <2>2. CASE Raise(c, "INCOMPLETE")
      BY <1>8, <2>1, <2>2 DEF ReadOriginal
    <2>3. CASE Step(c, edit, "compare") \/ Step(c, lost, Finally(lost))
      <3>1. /\ Finally(lost) \in {"deleteNegative", "restore"}
            /\ run'[c] \in {edit, lost}
            /\ pc'[c] \in {"compare", Finally(lost)}
        BY <2>3 DEF Step, TypeOK, Finally, AfterRemoval, Locals
      <3>2. /\ edit.hasEdit /\ edit.orig.data = object.data
            /\ lost.hasEdit /\ lost.orig.data = object.data
        BY DEF Locals
      <3>3. object.data.by = Nobody
        <4>1. lock = c
          BY <1>0, <1>8 DEF ReadOriginal
        <4>2. object.data.by \in Controllers \cup {Nobody}
          BY EditedType DEF TypeOK, Objects, Values
        <4>3. ASSUME NEW d \in Controllers, object.data.by = d
              PROVE  d = c
          BY <4>1, <4>3, EditedType DEF CInv, OwnsModified
        <4> QED BY <2>1, <4>2, <4>3, EditedType DEF Modified
      <3>4. run'[c].hasEdit /\ run'[c].orig.data.by = Nobody
        BY <3>1, <3>2, <3>3
      <3> QED BY <1>0, <1>8, <2>1, <3>1, <3>4 DEF ReadOriginal, Frame, Exposed, Modified,
                  CInv, HoldsLock, EditReady, PatchTested, OwnsModified, OwnsServed
    <2> QED BY <1>8, <2>2, <2>3 DEF ReadOriginal, LeaveTry
  <1>9. CASE Compare(c)
    <2> DEFINE object == resource[Edited(c)]
               edit == [run[c] EXCEPT !.armed = TRUE]
               seen == [edit EXCEPT !.seen = object.rv]
               failed == [edit EXCEPT !.outcome = "FAIL"]
               lost == [edit EXCEPT !.outcome = "INCOMPLETE"]
    <2>1. ~Exposed(c) /\ ~Modified(c) /\ run[c].hasEdit /\ lock = c /\ pc[c] = "compare"
      BY <1>0, <1>9 DEF Compare, Exposed, CInv, EditReady
    <2>2. object.rv \in Nat
      BY EditedType DEF TypeOK, Objects
    <2>3. CASE object.data = run[c].orig.data /\ Step(c, seen, "patch")
      <3>1. pc'[c] = "patch" /\ run'[c] = seen
        BY <2>3 DEF Step, TypeOK
      <3>2. /\ seen.hasEdit = run[c].hasEdit /\ seen.orig = run[c].orig
            /\ seen.k = run[c].k /\ seen.armed /\ seen.seen = object.rv
        BY DEF Locals
      <3>3. Edited(c)' = Edited(c)
        BY <3>1, <3>2 DEF Edited, Case
      <3> HIDE DEF seen
      <3>4. PatchTested(c)'
        BY <2>2, <2>3, <3>1, <3>2, <3>3 DEF PatchTested, Frame
      <3> QED BY <2>1, <3>1, <3>2, <3>4 DEF Frame, Exposed, Modified,
                  CInv, HoldsLock, EditReady, OwnsModified, OwnsServed
    <2>4. ASSUME NEW x \in {failed, lost}, Step(c, x, Finally(x))
          PROVE  CInv(c)'
      <3>1. /\ x \in Locals /\ x.hasEdit = run[c].hasEdit /\ x.orig = run[c].orig
            /\ x.k = run[c].k
        <4>1. CASE x = failed
          BY <4>1 DEF Locals
        <4>2. CASE x = lost
          BY <4>2 DEF Locals
        <4> QED BY <2>4, <4>1, <4>2
      <3>2. Finally(x) \in {"deleteNegative", "restore"} /\ Finally(x) \in Labels
        BY <2>1, <3>1, LabelTypes DEF Finally, AfterRemoval
      <3> QED BY <2>1, <2>4, <3>1, <3>2, CleanStepKeeps
    <2> QED BY <1>9, <2>3, <2>4 DEF Compare, LeaveTry
  <1>10. CASE Observe(c)
    BY <1>0, <1>10 DEF Observe, Labels
  <1>11. CASE Rotate(c)
    <2>1. [run[c] EXCEPT !.fresh = FALSE] \in Locals
      BY DEF Locals
    <2> QED BY <1>0, <1>11, <2>1 DEF Rotate, Labels, Locals
  <1>12. CASE Serving(c)
    <2>1. [run[c] EXCEPT !.restoration = "PASS"] \in Locals
      BY DEF Locals
    <2>2. AfterFinally(run[c]) \in {"recovery", "record"} /\ AfterFinally(run[c]) \in Labels
      BY DEF AfterFinally, Labels
    <2>3. CASE pc[c] = "serving" /\ Case(c) \in EditFirst /\ Goto(c, "control")
      <3>1. Case(c) \notin EditLater
        BY <2>3 DEF EditFirst, EditLater
      <3> QED BY <1>0, <2>3, <3>1 DEF Labels
    <2>4. CASE pc[c] = "serving" /\ Goto(c, "start")
      BY <1>0, <2>4 DEF Labels
    <2>5. CASE pc[c] = "serving" /\ Raise(c, "INCOMPLETE")
      BY <2>5
    <2>6. CASE /\ pc[c] = "reserving" /\ run[c].fresh
               /\ Step(c, [run[c] EXCEPT !.restoration = "PASS"], AfterFinally(run[c]))
      <3>1. ~Exposed(c) /\ ~Modified(c)
        BY <2>6 DEF Exposed
      <3> QED BY <1>0, <2>1, <2>2, <2>6, <3>1 DEF Locals
    <2>7. CASE pc[c] = "reserving" /\ Abandon(c)
      BY <2>7
    <2> QED BY <1>12, <2>3, <2>4, <2>5, <2>6, <2>7 DEF Serving, ServingReady
  <1>13. CASE DeleteNegative(c)
    <2>1. /\ AfterRemoval(run[c]) \in {"restore", "recovery", "record"}
          /\ run[c].hasEdit => AfterRemoval(run[c]) = "restore"
      BY DEF AfterRemoval, AfterFinally
    <2>2. AfterRemoval(run[c]) \in Labels
      BY LabelTypes
    <2>3. CASE pc[c] = "deleteNegative" /\ Goto(c, AfterRemoval(run[c]))
      <3>1. /\ Exposed(c) => run[c].hasEdit
            /\ Modified(c) => run[c].armed /\ Exposed(c)
            /\ lock = c
        BY <1>0, <2>3 DEF Exposed
      <3> HIDE ExposedFacts, ModifiedFacts, RaiseKeeps, AbandonKeeps
      <3> QED BY <2>1, <2>2, <2>3, <3>1
    <2>4. CASE pc[c] = "deleteNegative" /\ Abandon(c)
      BY <2>4
    <2> QED BY <1>13, <2>3, <2>4 DEF DeleteNegative
  <1>14. CASE Restore(c)
    <2> DEFINE object == resource[Edited(c)]
               disarmed == [run[c] EXCEPT !.armed = FALSE]
               seen == [run[c] EXCEPT !.seen = object.rv]
    <2>1. object.rv \in Nat /\ pc[c] = "restore" /\ lock = c
      BY <1>0, <1>14, EditedType DEF Restore, TypeOK, Objects
    <2>2. CASE ~run[c].armed /\ Goto(c, "rerotate")
      BY <2>1, <2>2 DEF Labels
    <2>3. CASE object.data = run[c].orig.data /\ Step(c, disarmed, "rerotate")
      <3>1. ~Modified(c)
        <4>1. ASSUME Modified(c) PROVE FALSE
          <5>1. object.data.by = c /\ run[c].orig.data = Reviewed(reviewed[Edited(c)])
            BY <4>1 DEF CInv, OwnsModified, Modified
          <5> QED BY <2>3, <5>1, ControllersAssumption DEF Reviewed
        <4> QED BY <4>1
      <3>2. /\ disarmed \in Locals /\ disarmed.hasEdit = run[c].hasEdit
            /\ disarmed.orig = run[c].orig /\ disarmed.k = run[c].k
        BY DEF Locals
      <3>3. "rerotate" \in Labels
        BY DEF Labels
      <3> HIDE DEF disarmed
      <3> QED BY <2>1, <2>3, <3>1, <3>2, <3>3
    <2>4. CASE object.data = Change(c) /\ run[c].armed /\ Step(c, seen, "unpatch")
      <3>1. pc'[c] = "unpatch" /\ run'[c] = seen
        BY <2>4 DEF Step, TypeOK
      <3>2. /\ seen.hasEdit = run[c].hasEdit /\ seen.orig = run[c].orig
            /\ seen.k = run[c].k /\ seen.armed /\ seen.seen = object.rv
        BY <2>4 DEF Locals
      <3>3. Edited(c)' = Edited(c) /\ Change(c)' = Change(c)
        BY <3>1, <3>2 DEF Edited, Case, Change
      <3>4. Modified(c)
        BY <2>4, EditedType DEF Modified, Change
      <3> HIDE DEF seen
      <3>5. PatchTested(c)'
        BY <2>1, <2>4, <3>1, <3>2, <3>3 DEF PatchTested, Frame
      <3> QED BY <2>1, <3>1, <3>2, <3>3, <3>4, <3>5 DEF Frame, Exposed,
                  CInv, HoldsLock, EditReady, OwnsModified, OwnsServed
    <2>5. CASE Abandon(c)
      BY <2>1, <2>5
    <2> QED BY <1>14, <2>2, <2>3, <2>4, <2>5 DEF Restore
  <1>15. CASE Unobserve(c)
    <2>1. [run[c] EXCEPT !.armed = FALSE] \in Locals
      BY DEF Locals
    <2> QED BY <1>0, <1>15, <2>1 DEF Unobserve, Labels, Locals
  <1>16. CASE Recovery(c)
    <2>1. \A o \in {"PASS", "INCOMPLETE"} : [run[c] EXCEPT !.outcome = o] \in Locals
      BY DEF Locals
    <2> QED BY <1>0, <1>16, <2>1 DEF Recovery, Labels, Locals
  <1>17. CASE Record(c)
    <2>1. /\ [run[c] EXCEPT !.k = @ + 1] \in Locals
          /\ \A rep \in {"PASS", "INCOMPLETE", "FAIL"} :
                [run[c] EXCEPT !.report = rep] \in Locals
      BY DEF Locals
    <2>2. Exit(run[c]) \in {"done", "release"} /\ Exit(run[c]) \in Labels
      BY DEF Exit, Labels
    <2>3. CASE run[c].outcome = "PASS" /\ Step(c, [run[c] EXCEPT !.k = @ + 1], "case")
      <3>1. ~Exposed(c) /\ ~Modified(c)
        BY <1>17, <2>3 DEF Record, Exposed
      <3>2. pc'[c] = "case" /\ run'[c] = [run[c] EXCEPT !.k = @ + 1]
        BY <2>3 DEF Step, TypeOK
      <3>3. run'[c].hasEdit = run[c].hasEdit /\ run'[c].orig = run[c].orig
        BY <3>2 DEF Locals
      <3> QED BY <1>0, <1>17, <3>1, <3>2, <3>3 DEF Record, Frame, Exposed, Modified, CInv,
                  HoldsLock, EditReady, PatchTested, OwnsModified, OwnsServed
    <2>4. CASE run[c].outcome = "PASS" /\ Step(c, [run[c] EXCEPT !.report = "PASS"], "cleanup")
      <3>1. ~Exposed(c) /\ ~Modified(c)
        BY <1>17, <2>4 DEF Record, Exposed
      <3> DEFINE x == [run[c] EXCEPT !.report = "PASS"]
      <3>2. x \in Locals /\ Step(c, x, "cleanup")
        BY <2>1, <2>4
      <3>3. x.hasEdit = run[c].hasEdit /\ x.orig = run[c].orig /\ x.k = run[c].k
        BY DEF Locals
      <3>4. "cleanup" \in Labels
        BY DEF Labels
      <3> HIDE DEF x
      <3> QED BY <1>0, <1>17, <3>1, <3>2, <3>3, <3>4, CleanStepKeeps DEF Record
    <2>5. ASSUME NEW rep \in {"INCOMPLETE", "FAIL"},
                 Step(c, [run[c] EXCEPT !.report = rep], Exit(run[c]))
          PROVE  CInv(c)'
      <3> DEFINE x == [run[c] EXCEPT !.report = rep]
      <3>1. x \in Locals
        BY <2>1
      <3>2. /\ x.hasEdit = run[c].hasEdit /\ x.orig = run[c].orig /\ x.k = run[c].k
            /\ x.armed = run[c].armed
        BY DEF Locals
      <3>3. Exposed(c) => Exit(run[c]) = "done"
        BY <1>17 DEF Record, Exit
      <3>4. Step(c, x, Exit(run[c]))
        BY <2>5
      <3> HIDE DEF x
      <3> QED BY <1>0, <1>17, <2>2, <3>1, <3>2, <3>3, <3>4 DEF Record, Exposed
    <2> QED BY <1>17, <2>3, <2>4, <2>5 DEF Record
  <1>18. CASE Cleanup(c)
    <2>1. [run[c] EXCEPT !.report = "FAIL"] \in Locals
      BY DEF Locals
    <2> QED BY <1>0, <1>18, <2>1 DEF Cleanup, Labels, Locals
  <1>19. CASE Kill(c)
    BY <1>0, <1>19 DEF Kill, Labels
  <1> QED BY <1>1, <1>2, <1>3, <1>4, <1>5, <1>6, <1>7, <1>8, <1>9, <1>10, <1>11, <1>12,
             <1>13, <1>14, <1>15, <1>16, <1>17, <1>18, <1>19 DEF Local

---------------------------------------------------------------------------
(* The calls that write shared state, and the controllers that look on      *)

Untouched(d) == run'[d] = run[d] /\ pc'[d] = pc[d]

LEMMA StepUntouched ==
    ASSUME TypeOK, NEW c \in Controllers, NEW d \in Controllers, d # c,
           NEW x, NEW label, Step(c, x, label)
    PROVE  Untouched(d)
  BY DEF TypeOK, Step, Untouched

LEMMA RunnerUntouched ==
    ASSUME TypeOK, NEW c \in Controllers, NEW d \in Controllers, d # c,
           Runner(c) \/ Kill(c)
    PROVE  Untouched(d)
  <1>1. \E x, label : Step(c, x, label)
    <2>1. CASE Local(c)
      BY <2>1 DEF Local, Goto, Raise, LeaveTry, Abandon, Confirm, Release, StartCase,
            Isolation, Control, StartNegative, Negative, ReadOriginal, Compare, Observe,
            Rotate, Serving, DeleteNegative, Restore, Unobserve, Recovery, Record,
            Cleanup, Kill
    <2>2. CASE Acquire(c) \/ Unlock(c) \/ Patch(c) \/ Unpatch(c)
      BY <2>2 DEF Goto, Raise, LeaveTry, Abandon, Acquire, Unlock, Patch, Unpatch
    <2> QED BY <2>1, <2>2 DEF Runner, Local
  <1> QED BY <1>1, StepUntouched

LEMMA FrameBystander ==
    ASSUME NEW d \in Controllers, CInv(d), Frame, Untouched(d)
    PROVE  CInv(d)'
  <1>1. Case(d)' = Case(d) /\ Edited(d)' = Edited(d) /\ Change(d)' = Change(d)
    BY DEF Untouched, Case, Edited, Change
  <1> QED BY <1>1 DEF Frame, Untouched, CInv, HoldsLock, EditReady, PatchTested,
              OwnsModified, OwnsServed, MustUndo

\* A controller without the lock has nothing to lose.
LEMMA UnlockedBystander ==
    ASSUME NEW d \in Controllers, CInv(d), Untouched(d), lock # d, served' = served,
           \A r \in Resources : resource'[r].data.by = d => resource[r].data.by = d
    PROVE  CInv(d)'
  <1>1. pc[d] \in Unlocked
    BY DEF CInv, HoldsLock
  <1>2. \A r \in Resources : resource[r].data.by # d /\ served[r].data.by # d
    BY DEF CInv, OwnsModified, OwnsServed, MustUndo
  <1> QED BY <1>1, <1>2 DEF Untouched, Unlocked, CInv, HoldsLock, EditReady, PatchTested,
              OwnsModified, OwnsServed

LEMMA AcquireKeeps ==
    ASSUME TypeOK, NEW c \in Controllers, CInv(c), Acquire(c)
    PROVE  CInv(c)'
  <1>1. /\ pc[c] = "acquire" /\ UNCHANGED <<resource, reviewed, served>>
        /\ \/ lock' = c /\ pc'[c] \in {"confirm", "release"}
           \/ pc'[c] = "release"
        /\ run'[c] = run[c]
    BY DEF Acquire, Goto, Step, TypeOK
  <1>2. \A r \in Resources : resource[r].data.by # c /\ served[r].data.by # c
    BY <1>1 DEF CInv, OwnsModified, OwnsServed, Modifying, Exposing
  <1> QED BY <1>1, <1>2 DEF CInv, HoldsLock, EditReady, PatchTested, OwnsModified,
              OwnsServed, Unlocked

LEMMA UnlockKeeps ==
    ASSUME TypeOK, NEW c \in Controllers, CInv(c), Unlock(c)
    PROVE  CInv(c)'
  <1>1. /\ pc[c] = "unlock" /\ UNCHANGED <<resource, reviewed, served>>
        /\ pc'[c] = "done"
        /\ run'[c].hasEdit = run[c].hasEdit /\ run'[c].orig = run[c].orig
    BY DEF Unlock, Step, TypeOK, Locals
  <1>2. \A r \in Resources : resource[r].data.by # c /\ served[r].data.by # c
    BY <1>1 DEF CInv, OwnsModified, OwnsServed, Modifying, Exposing
  <1> QED BY <1>1, <1>2 DEF CInv, HoldsLock, EditReady, PatchTested, OwnsModified,
              OwnsServed, Unlocked

\* A patch writes one resource, and only the data that its tests stand for.
LEMMA WriteFacts ==
    ASSUME TypeOK, NEW r \in Resources, NEW data, Write(r, data)
    PROVE  /\ resource'[r].data = data
           /\ resource'[r].rv = resource[r].rv + 1
           /\ \A s \in Resources : s # r => resource'[s] = resource[s]
  BY DEF TypeOK, Objects, Write

\* The patch of a change, if it commits, modifies the approved value.
LEMMA PatchWrites ==
    ASSUME TypeOK, LatestReviewKept, NEW c \in Controllers, CInv(c), pc[c] = "patch",
           Commits(c, Change(c))
    PROVE  /\ run[c].orig.data = Reviewed(reviewed[Edited(c)])
           /\ resource[Edited(c)].data = run[c].orig.data
           /\ resource'[Edited(c)].data = Change(c)
           /\ \A s \in Resources : s # Edited(c) => resource'[s] = resource[s]
  <1>1. run[c].hasEdit /\ run[c].orig.data.by = Nobody /\ Edited(c) \in Resources
    BY EditedType DEF CInv, EditReady
  <1>2. resource[Edited(c)].data = run[c].orig.data
    BY DEF Commits, PatchTests, CInv, PatchTested
  <1>3. run[c].orig.data.version = reviewed[Edited(c)]
    BY <1>1, <1>2 DEF LatestReviewKept
  <1>4. run[c].orig.data = Reviewed(reviewed[Edited(c)])
    BY <1>1, <1>3 DEF TypeOK, Locals, Values, Reviewed
  <1> QED BY <1>1, <1>2, <1>4, WriteFacts DEF Commits

\* The patch of a restoration, if it commits, puts the approved value back.
LEMMA UnpatchWrites ==
    ASSUME TypeOK, LatestReviewKept, NEW c \in Controllers, CInv(c), pc[c] = "unpatch",
           Commits(c, run[c].orig.data)
    PROVE  /\ run[c].orig.data = Reviewed(reviewed[Edited(c)])
           /\ resource'[Edited(c)].data = run[c].orig.data
           /\ \A s \in Resources : s # Edited(c) => resource'[s] = resource[s]
  <1>1. run[c].hasEdit /\ run[c].orig.data.by = Nobody /\ Edited(c) \in Resources
    BY EditedType DEF CInv, EditReady
  <1>2. resource[Edited(c)].data = Change(c)
    BY DEF Commits, PatchTests, CInv, PatchTested
  <1>3. run[c].orig.data.version = reviewed[Edited(c)]
    BY <1>1, <1>2 DEF LatestReviewKept, Change
  <1>4. run[c].orig.data = Reviewed(reviewed[Edited(c)])
    BY <1>1, <1>3 DEF TypeOK, Locals, Values, Reviewed
  <1> QED BY <1>1, <1>4, WriteFacts DEF Commits

LEMMA PatchKeeps ==
    ASSUME TypeOK, LatestReviewKept, NEW c \in Controllers, CInv(c), Patch(c), ~LateCommits
    PROVE  /\ CInv(c)' /\ LatestReviewKept'
           /\ \A d \in Controllers, r \in Resources :
                 d # c /\ resource'[r].data.by = d => resource[r].data.by = d
  <1> DEFINE e == Edited(c)
             x == [run[c] EXCEPT !.outcome = "INCOMPLETE"]
  <1>0. /\ pc[c] = "patch" /\ lock = c /\ run[c].hasEdit /\ run[c].armed /\ e \in Resources
        /\ run[c].orig.data.by = Nobody
        /\ UNCHANGED <<lock, reviewed, served>>
    BY EditedType DEF Patch, CInv, HoldsLock, EditReady, Unlocked
  <1>1. CASE Drops
    <2>1. Frame
      BY <1>0, <1>1 DEF Frame, Drops
    <2>2. Raise(c, "INCOMPLETE") \/ Commits(c, Change(c))
      BY DEF Patch, Delays
    <2>3. ~Commits(c, Change(c))
      <3>1. SUFFICES ASSUME Write(e, Change(c)) PROVE FALSE
        BY DEF Commits
      <3>2. resource'[e].rv = resource[e].rv + 1 /\ resource'[e] = resource[e]
        BY <1>0, <1>1, <3>1, WriteFacts DEF Drops
      <3> QED BY <1>0, <3>2 DEF TypeOK, Objects
    <2> QED BY <1>0, <2>1, <2>2, <2>3, RaiseKeeps DEF Unlocked, Frame, LatestReviewKept
  <1>2. CASE Commits(c, Change(c))
    <2>2. run[c].orig.data = Reviewed(reviewed[e])
      BY <1>0, <1>2, PatchWrites
    <2>3. /\ resource'[e].data = Change(c)
          /\ \A s \in Resources : s # e => resource'[s] = resource[s]
      BY <1>0, <1>2, PatchWrites
    <2>4. Change(c).by = c /\ Change(c).version = reviewed[e]
      BY <2>2 DEF Change, Reviewed
    <2>5. \A r \in Resources : resource[r].data.by # c /\ served[r].data.by # c
      BY <1>0 DEF CInv, OwnsModified, OwnsServed, Modifying, Exposing
    <2>6. LatestReviewKept'
      BY <1>0, <2>3, <2>4 DEF LatestReviewKept
    <2>7. /\ pc'[c] \in {"observe", "deleteNegative", "restore"}
          /\ run'[c].hasEdit /\ run'[c].orig = run[c].orig /\ run'[c].k = run[c].k
          /\ run'[c].armed
      <3>1. Goto(c, "observe") \/ Step(c, x, Finally(x))
        BY DEF Patch, Raise, LeaveTry
      <3>2. x.hasEdit /\ x.orig = run[c].orig /\ x.k = run[c].k /\ x.armed
        BY <1>0 DEF TypeOK, Locals
      <3>3. Finally(x) \in {"deleteNegative", "restore"}
        BY <3>2 DEF Finally, AfterRemoval
      <3> HIDE DEF x
      <3> QED BY <1>0, <3>1, <3>2, <3>3 DEF Goto, Step, TypeOK
    <2>8. Edited(c)' = e
      BY <2>7 DEF Edited, Case
    <2>9. CInv(c)'
      BY <1>0, <2>2, <2>3, <2>5, <2>7, <2>8 DEF CInv, HoldsLock, EditReady, PatchTested,
            OwnsModified, OwnsServed, MustUndo, Modifying
    <2> QED BY <2>3, <2>4, <2>6, <2>9
  <1> QED BY <1>1, <1>2 DEF Patch, Delays

LEMMA UnpatchKeeps ==
    ASSUME TypeOK, LatestReviewKept, NEW c \in Controllers, CInv(c), Unpatch(c), ~LateCommits
    PROVE  /\ CInv(c)' /\ LatestReviewKept'
           /\ \A d \in Controllers, r \in Resources :
                 d # c /\ resource'[r].data.by = d => resource[r].data.by = d
  <1> DEFINE e == Edited(c)
             original == run[c].orig.data
             x == [run[c] EXCEPT !.restoration = "FAIL", !.outcome = "FAIL"]
  <1>0. /\ pc[c] = "unpatch" /\ lock = c /\ run[c].hasEdit /\ e \in Resources
        /\ original.by = Nobody
        /\ UNCHANGED <<lock, reviewed, served>>
    BY EditedType DEF Unpatch, CInv, HoldsLock, EditReady, Unlocked
  <1>1. CASE Drops /\ Abandon(c)
    <2>1. Frame
      BY <1>0, <1>1 DEF Frame, Drops
    <2> QED BY <1>0, <1>1, <2>1, AbandonKeeps DEF Unlocked, Frame, LatestReviewKept
  <1>2. CASE Commits(c, original)
    <2>2. original.version = reviewed[e]
      <3>1. original = Reviewed(reviewed[e])
        BY <1>0, <1>2, UnpatchWrites
      <3> HIDE DEF original
      <3> QED BY <3>1 DEF Reviewed
    <2>3. /\ resource'[e].data = original
          /\ \A s \in Resources : s # e => resource'[s] = resource[s]
      BY <1>0, <1>2, UnpatchWrites
    <2>4. \A r \in Resources : resource'[r].data.by # c
      BY <1>0, <2>3, ControllersAssumption DEF CInv, OwnsModified
    <2>5. LatestReviewKept'
      BY <1>0, <2>2, <2>3 DEF LatestReviewKept
    <2>6. /\ \/ pc'[c] = "unobserve"
             \/ pc'[c] = "record" /\ run'[c].restoration = "FAIL" /\ run'[c].outcome = "FAIL"
          /\ run'[c].hasEdit /\ run'[c].orig = run[c].orig
      <3>1. Step(c, run[c], "unobserve") \/ Step(c, x, "record")
        BY DEF Unpatch, Abandon, Goto
      <3>2. /\ x.restoration = "FAIL" /\ x.outcome = "FAIL"
            /\ x.hasEdit = run[c].hasEdit /\ x.orig = run[c].orig
        BY DEF TypeOK, Locals
      <3> HIDE DEF x
      <3> QED BY <1>0, <3>1, <3>2 DEF Step, TypeOK
    <2>7. CInv(c)'
      BY <1>0, <2>4, <2>6 DEF CInv, HoldsLock, EditReady, PatchTested,
            OwnsModified, OwnsServed, MustUndo, Modifying, Exposing
    <2>8. \A d \in Controllers : original.by # d
      BY <1>0, ControllersAssumption
    <2> QED BY <2>3, <2>5, <2>7, <2>8
  <1> QED BY <1>1, <1>2 DEF Unpatch, Delays

LEMMA RunnerKeeps ==
    ASSUME IInv, ~LateCommits, NEW c \in Controllers, Runner(c) \/ Kill(c)
    PROVE  /\ inflight' = {} /\ LatestReviewKept'
           /\ \A d \in Controllers : CInv(d)'
  <1> TypeOK /\ LatestReviewKept /\ \A d \in Controllers : CInv(d)
    BY DEF IInv
  <1>0. \A d \in Controllers : d # c => Untouched(d)
    BY RunnerUntouched
  <1>1. inflight' = {}
    <2>1. CASE Patch(c) \/ Unpatch(c)
      BY <2>1 DEF IInv, Patch, Unpatch, Commits, Drops, Delays
    <2>2. CASE Acquire(c) \/ Unlock(c)
      BY <2>2 DEF IInv, Acquire, Unlock
    <2>3. CASE Local(c)
      BY <2>3, LocalFrame DEF IInv
    <2> QED BY <2>1, <2>2, <2>3 DEF Runner, Local
  <1>2. CASE Local(c)
    <2>1. Frame
      BY <1>2, LocalFrame
    <2>2. LatestReviewKept'
      BY <2>1 DEF Frame, LatestReviewKept
    <2>3. \A d \in Controllers : CInv(d)'
      BY <1>0, <1>2, <2>1, FrameBystander, LocalKeeps
    <2> QED BY <1>1, <2>2, <2>3
  <1>3. CASE Acquire(c) \/ Unlock(c)
    <2>1. /\ UNCHANGED <<resource, reviewed, served>>
          /\ lock' = lock \/ lock = Nobody \/ lock = c
      BY <1>3 DEF Acquire, Unlock, CInv, HoldsLock, Unlocked
    <2>2. ASSUME NEW d \in Controllers, d # c
          PROVE  CInv(d)'
      BY <1>0, <2>1, <2>2, FrameBystander, UnlockedBystander, ControllersAssumption DEF Frame
    <2>3. CInv(c)'
      BY <1>3, AcquireKeeps, UnlockKeeps
    <2> QED BY <1>1, <2>1, <2>2, <2>3 DEF LatestReviewKept
  <1>4. CASE Patch(c) \/ Unpatch(c)
    <2>1. /\ CInv(c)' /\ LatestReviewKept'
          /\ \A d \in Controllers, r \in Resources :
                d # c /\ resource'[r].data.by = d => resource[r].data.by = d
      BY <1>4, PatchKeeps, UnpatchKeeps
    <2>2. served' = served /\ lock = c
      BY <1>4 DEF Patch, Unpatch, CInv, HoldsLock, Unlocked
    <2>3. ASSUME NEW d \in Controllers, d # c
          PROVE  CInv(d)'
      BY <1>0, <2>1, <2>2, <2>3, UnlockedBystander
    <2> QED BY <1>1, <2>1, <2>3
  <1> QED BY <1>2, <1>3, <1>4 DEF Runner, Local

---------------------------------------------------------------------------
(* The environment *)

\* A step of the environment leaves every controller where it is, and may only
\* give it fresh pods.
Kept == \A d \in Controllers :
            /\ pc'[d] = pc[d]
            /\ run'[d].hasEdit = run[d].hasEdit /\ run'[d].orig = run[d].orig
            /\ run'[d].k = run[d].k /\ run'[d].armed = run[d].armed
            /\ run'[d].seen = run[d].seen
            /\ run'[d].outcome = run[d].outcome
            /\ run'[d].restoration = run[d].restoration

\* A resource is left alone or overwritten with the reviewed value.
Overwritten(r) ==
    \/ resource'[r] = resource[r] /\ reviewed'[r] = reviewed[r]
    \/ /\ resource'[r].data = Reviewed(reviewed'[r])
       /\ resource'[r].rv = resource[r].rv + 1

LEMMA OverwriteKeeps ==
    ASSUME IInv, Kept, \A r \in Resources : Overwritten(r), UNCHANGED <<lock, served, run>>
    PROVE  LatestReviewKept' /\ \A d \in Controllers : CInv(d)'
  <1>1. LatestReviewKept'
    <2> SUFFICES ASSUME NEW r \in Resources
                 PROVE  resource'[r].data.version = reviewed'[r]
      BY DEF LatestReviewKept
    <2>1. Overwritten(r) /\ resource[r].data.version = reviewed[r]
      BY DEF IInv, LatestReviewKept
    <2>2. Reviewed(reviewed'[r]).version = reviewed'[r]
      BY DEF Reviewed
    <2> QED BY <2>1, <2>2 DEF Overwritten
  <1>2. ASSUME NEW d \in Controllers
        PROVE  CInv(d)'
    <2>1. Case(d)' = Case(d) /\ Edited(d)' = Edited(d) /\ Change(d)' = Change(d)
      BY DEF Case, Edited, Change
    <2>2. CInv(d) /\ pc'[d] = pc[d] /\ Edited(d) \in Resources
      BY EditedType DEF IInv, Kept
    <2>3. PatchTested(d)'
      <3>1. /\ resource[Edited(d)].rv \in Nat /\ run[d].seen \in Nat
        BY <2>2 DEF IInv, TypeOK, Objects, Locals
      <3>2. \/ resource'[Edited(d)] = resource[Edited(d)]
            \/ resource'[Edited(d)].rv = resource[Edited(d)].rv + 1
        BY <2>2 DEF Overwritten
      <3> QED BY <2>1, <2>2, <3>1, <3>2 DEF CInv, PatchTested
    <2>4. OwnsModified(d)'
      BY <2>1, <2>2, ControllersAssumption DEF CInv, OwnsModified, MustUndo, Overwritten, Reviewed
    <2> QED BY <2>1, <2>2, <2>3, <2>4 DEF CInv, HoldsLock, EditReady, OwnsServed, MustUndo
  <1> QED BY <1>1, <1>2

LEMMA ServeKeeps ==
    ASSUME IInv, Serve
    PROVE  LatestReviewKept' /\ \A d \in Controllers : CInv(d)'
  <1>1. Kept /\ UNCHANGED <<lock, resource, reviewed>>
    BY DEF IInv, TypeOK, Locals, Kept, Serve
  <1>2. \A r \in Resources : served'[r].data = resource[r].data
    BY DEF Serve
  <1>3. ASSUME NEW d \in Controllers
        PROVE  CInv(d)'
    <2>1. Case(d)' = Case(d) /\ Edited(d)' = Edited(d) /\ Change(d)' = Change(d)
      BY <1>1 DEF Kept, Case, Edited, Change
    <2>2. CInv(d)
      BY DEF IInv
    <2>3. OwnsServed(d)'
      BY <1>1, <1>2, <2>1, <2>2
         DEF Kept, CInv, OwnsModified, OwnsServed, MustUndo, Modifying, Exposing
    <2> QED BY <1>1, <2>1, <2>2, <2>3 DEF Kept, CInv, HoldsLock, EditReady, PatchTested,
               OwnsModified, MustUndo
  <1> QED BY <1>1, <1>3 DEF IInv, LatestReviewKept

LEMMA RecoverKeeps ==
    ASSUME IInv, NEW c \in Controllers, Recover(c)
    PROVE  LatestReviewKept' /\ \A d \in Controllers : CInv(d)'
  <1>1. /\ lock = c /\ pc[c] \in {"done", "killed"} /\ lock' = Nobody
        /\ Kept /\ reviewed' = reviewed
    BY DEF IInv, TypeOK, Locals, Kept, Recover
  <1>2. \A d \in Controllers : pc[d] \in Unlocked
    BY <1>1 DEF IInv, CInv, HoldsLock, Unlocked
  <1>3. ASSUME NEW r \in Resources
        PROVE  /\ resource'[r].data \in Values
               /\ resource'[r].data.by = Nobody /\ resource'[r].data.version = reviewed[r]
               /\ served'[r].data = resource'[r].data
    <2>1. resource[r].data \in Values /\ resource[r].data.version = reviewed[r]
      BY DEF IInv, TypeOK, Objects, LatestReviewKept
    <2>2. CASE resource[r].data.by = c
      <3>1. resource'[r].data = run[c].orig.data /\ served'[r].data = run[c].orig.data
        BY <2>2 DEF Recover
      <3>2. run[c].orig.data = Reviewed(reviewed[r])
        BY <2>2 DEF IInv, CInv, OwnsModified
      <3> QED BY <3>1, <3>2 DEF IInv, TypeOK, Reviewed, Values
    <2>3. CASE resource[r].data.by # c
      <3>1. resource'[r] = resource[r] /\ served'[r].data = resource[r].data
        BY <2>3 DEF Recover
      <3>2. \A d \in Controllers : resource[r].data.by # d
        BY <1>1, <2>3 DEF IInv, CInv, OwnsModified, MustUndo
      <3> QED BY <2>1, <3>1, <3>2 DEF Values
    <2> QED BY <2>2, <2>3
  <1>4. ASSUME NEW d \in Controllers
        PROVE  CInv(d)'
    BY <1>1, <1>2, <1>3, ControllersAssumption DEF IInv, Kept, Unlocked, CInv, HoldsLock,
       EditReady, PatchTested, OwnsModified, OwnsServed
  <1> QED BY <1>1, <1>3, <1>4 DEF LatestReviewKept

LEMMA InvInit == Init => IInv
  <1> SUFFICES ASSUME Init PROVE IInv
    OBVIOUS
  <1>1. TypeOK
    BY TypeInit
  <1>2. \A c \in Controllers : CInv(c)
    BY ControllersAssumption DEF Init, Unstarted, Reviewed, CInv, HoldsLock, EditReady,
       PatchTested, OwnsModified, OwnsServed, Unlocked
  <1> QED BY <1>1, <1>2 DEF Init, IInv, LatestReviewKept, Reviewed

LEMMA InvStep == ASSUME ~LateCommits PROVE IInv /\ [Next]_vars => IInv'
  <1> SUFFICES ASSUME IInv, [Next]_vars PROVE IInv'
    OBVIOUS
  <1>1. TypeOK'
    BY TypeStep DEF IInv
  <1>2. inflight' = {} /\ LatestReviewKept' /\ \A d \in Controllers : CInv(d)'
    <2>1. ASSUME NEW c \in Controllers, Runner(c) \/ Kill(c)
          PROVE  inflight' = {} /\ LatestReviewKept' /\ \A d \in Controllers : CInv(d)'
      BY <2>1, RunnerKeeps
    <2>2. CASE (\E c \in Controllers : Attest(c)) \/ UNCHANGED vars
      <3>1. Frame /\ UNCHANGED <<inflight, pc, run>>
        BY <2>2 DEF Attest, Frame, vars
      <3> QED BY <3>1, FrameBystander DEF IInv, Frame, LatestReviewKept, Untouched
    <2>3. ASSUME NEW c \in Controllers, Recover(c)
          PROVE  inflight' = {} /\ LatestReviewKept' /\ \A d \in Controllers : CInv(d)'
      BY <2>3, RecoverKeeps DEF IInv, Recover
    <2>4. ASSUME NEW r \in Resources, Review(r) \/ Reinstate(r)
          PROVE  inflight' = {} /\ LatestReviewKept' /\ \A d \in Controllers : CInv(d)'
      <3>1. UNCHANGED <<lock, served, inflight, pc, run>> /\ Kept
        BY <2>4 DEF Review, Reinstate, Kept
      <3>2. \A s \in Resources : Overwritten(s)
        BY <2>4 DEF IInv, TypeOK, Objects, Review, Reinstate, Write, Overwritten, Reviewed
      <3> QED BY <3>1, <3>2, OverwriteKeeps DEF IInv
    <2>5. CASE Serve
      BY <2>5, ServeKeeps DEF IInv, Serve
    <2>6. CASE \E q \in inflight : CommitLate(q)
      BY <2>6 DEF IInv
    <2> QED BY <2>1, <2>2, <2>3, <2>4, <2>5, <2>6 DEF Next
  <1> QED BY <1>1, <1>2 DEF IInv

\* If no request commits after its client gave up on it, a modification is in a
\* resource only under the lock of its author, with the approved value in the
\* recovery file.
THEOREM ModificationIsOwned ==
    ASSUME ~LateCommits PROVE Spec => []ModificationOwned
  <1>1. IInv => ModificationOwned
    <2> SUFFICES ASSUME IInv, NEW r \in Resources, resource[r].data.by # Nobody
                 PROVE  /\ lock = resource[r].data.by
                        /\ run[resource[r].data.by].hasEdit
                        /\ r = Edited(resource[r].data.by)
                        /\ run[resource[r].data.by].orig.data = Reviewed(reviewed[r])
      BY DEF ModificationOwned
    <2>1. resource[r].data.by \in Controllers
      BY DEF IInv, TypeOK, Objects, Values
    <2> QED BY <2>1 DEF IInv, CInv, OwnsModified, MustUndo
  <1> QED BY <1>1, InvInit, InvStep, PTL DEF Spec

\* On the same condition Trustee serves a modified value only under the lock of
\* its author, whatever failed in between.
THEOREM ServedChangeIsOwned ==
    ASSUME ~LateCommits PROVE Spec => []ServedChangeOwned
  <1>1. IInv => ServedChangeOwned
    <2> SUFFICES ASSUME IInv, NEW r \in Resources, served[r].data.by # Nobody
                 PROVE  lock = served[r].data.by
      BY DEF ServedChangeOwned
    <2>1. served[r].data.by \in Controllers
      BY DEF IInv, TypeOK, Values
    <2> QED BY <2>1 DEF IInv, CInv, OwnsServed, MustUndo
  <1> QED BY <1>1, InvInit, InvStep, PTL DEF Spec

---------------------------------------------------------------------------
(* A reported restoration *)

\* Once restore succeeded and Trustee serves the result, the controller has
\* only calls before it that write no resource, until its next case starts.
Concluded == {"recovery", "record", "case", "cleanup", "release", "unlock", "done",
              "killed"}
Restored(c) == run[c].restoration = "PASS" => pc[c] \in Concluded /\ ~Modified(c)

\* Only a controller's own patch puts its modification into a resource.
LEMMA OthersModifyNot ==
    ASSUME ~LateCommits, IInv, [Next]_vars, NEW c \in Controllers,
           NEW r \in Resources, resource'[r].data.by = c
    PROVE  resource[r].data.by = c \/ Patch(c)
  <1> USE DEF IInv
  <1>1. ASSUME NEW d \in Controllers, Runner(d) \/ Kill(d)
        PROVE  resource[r].data.by = c \/ Patch(c)
    <2>1. CASE Local(d)
      BY <2>1, LocalFrame DEF Frame
    <2>2. CASE Acquire(d) \/ Unlock(d)
      BY <2>2 DEF Acquire, Unlock
    <2>3. CASE Patch(d)
      <3>1. resource' = resource \/ Commits(d, Change(d))
        BY <2>3 DEF Patch, Drops, Delays
      <3>2. ASSUME Commits(d, Change(d)) PROVE resource[r].data.by = c \/ Patch(c)
        <4>1. /\ resource'[Edited(d)].data = Change(d)
              /\ \A s \in Resources : s # Edited(d) => resource'[s] = resource[s]
          BY <2>3, <3>2, PatchWrites DEF Patch
        <4> QED BY <2>3, <4>1 DEF Change
      <3> QED BY <3>1, <3>2
    <2>4. CASE Unpatch(d)
      <3>1. resource' = resource \/ Commits(d, run[d].orig.data)
        BY <2>4 DEF Unpatch, Drops, Delays
      <3>2. ASSUME Commits(d, run[d].orig.data) PROVE resource[r].data.by = c
        <4>1. /\ run[d].orig.data = Reviewed(reviewed[Edited(d)])
              /\ resource'[Edited(d)].data = run[d].orig.data
              /\ \A s \in Resources : s # Edited(d) => resource'[s] = resource[s]
          BY <2>4, <3>2, UnpatchWrites DEF Unpatch
        <4>2. resource'[Edited(d)].data.by = Nobody
          BY <4>1 DEF Reviewed
        <4> QED BY <4>1, <4>2, ControllersAssumption
      <3> QED BY <3>1, <3>2
    <2> QED BY <1>1, <2>1, <2>2, <2>3, <2>4 DEF Runner, Local
  <1>2. ASSUME NEW d \in Controllers, Attest(d) PROVE resource[r].data.by = c
    BY <1>2 DEF Attest
  <1>3. ASSUME NEW d \in Controllers, Recover(d) PROVE resource[r].data.by = c
    <2>1. CASE resource[r].data.by = d
      <3>1. run[d].orig.data.by = Nobody
        BY <2>1 DEF CInv, OwnsModified, MustUndo, EditReady
      <3>2. resource'[r].data.by = Nobody
        BY <1>3, <2>1, <3>1 DEF Recover
      <3> QED BY <3>2, ControllersAssumption
    <2>2. CASE resource[r].data.by # d
      BY <1>3, <2>2 DEF Recover
    <2> QED BY <2>1, <2>2
  <1>4. ASSUME NEW s \in Resources, Review(s) \/ Reinstate(s)
        PROVE  resource[r].data.by = c
    <2>1. resource'[r] = resource[r] \/ resource'[r].data.by = Nobody
      BY <1>4 DEF TypeOK, Objects, Review, Reinstate, Write, Reviewed
    <2> QED BY <2>1, ControllersAssumption
  <1>5. CASE Serve \/ UNCHANGED vars
    BY <1>5 DEF Serve, vars
  <1> QED BY <1>1, <1>2, <1>3, <1>4, <1>5 DEF Next

\* The one step that reports a restoration as PASS.
LEMMA RestorationSet ==
    ASSUME TypeOK, NEW c \in Controllers, Runner(c) \/ Kill(c),
           run[c].restoration # "PASS", run'[c].restoration = "PASS"
    PROVE  Serving(c) /\ pc[c] = "reserving"
  <1>1. ASSUME NEW x, NEW label, Step(c, x, label) PROVE run'[c] = x
    BY <1>1 DEF Step, TypeOK
  <1>2. run[c] \in Locals
    BY DEF TypeOK
  <1>3. ASSUME NEW label PROVE ~Goto(c, label)
    BY <1>1 DEF Goto
  <1>4. ASSUME NEW kind PROVE ~Raise(c, kind)
    <2>1. [run[c] EXCEPT !.outcome = kind].restoration # "PASS"
      BY <1>2 DEF Locals
    <2> QED BY <1>1, <2>1 DEF Raise, LeaveTry
  <1>5. ~Abandon(c)
    <2>1. [run[c] EXCEPT !.restoration = "FAIL", !.outcome = "FAIL"].restoration # "PASS"
      BY <1>2 DEF Locals
    <2> QED BY <1>1, <2>1 DEF Abandon
  <1>6. ~LeaveTry(c, run[c])
    BY <1>1 DEF LeaveTry
  <1>7. /\ ~Acquire(c) /\ ~Patch(c) /\ ~Unpatch(c) /\ ~Control(c) /\ ~Observe(c)
        /\ ~Negative(c) /\ ~DeleteNegative(c) /\ ~Kill(c)
    BY <1>3, <1>4, <1>5, <1>6 DEF Acquire, Patch, Unpatch, Control, Observe, Negative,
       DeleteNegative, Kill
  <1>8. /\ ~Confirm(c) /\ ~Release(c) /\ ~Unlock(c) /\ ~Isolation(c) /\ ~Recovery(c)
        /\ ~Record(c) /\ ~Cleanup(c)
    <2>1. \A v : [run[c] EXCEPT !.holds = v].restoration # "PASS"
      BY <1>2 DEF Locals
    <2>2. \A v : [run[c] EXCEPT !.report = v].restoration # "PASS"
      BY <1>2 DEF Locals
    <2>3. \A v : [run[c] EXCEPT !.outcome = v].restoration # "PASS"
      BY <1>2 DEF Locals
    <2>4. [run[c] EXCEPT !.k = @ + 1].restoration # "PASS"
      BY <1>2 DEF Locals
    <2> QED BY <1>1, <1>3, <2>1, <2>2, <2>3, <2>4 DEF Confirm, Release, Unlock, Isolation,
            Recovery, Record, Cleanup
  <1>9. ~StartCase(c)
    <2> DEFINE new == [Unstarted EXCEPT !.holds = run[c].holds, !.k = run[c].k]
               stop == [new EXCEPT !.outcome = "INCOMPLETE"]
    <2>1. new.restoration = "none" /\ stop.restoration = "none"
      BY DEF Unstarted
    <2>2. StartCase(c) => run'[c] \in {new, stop}
      BY <1>1 DEF StartCase
    <2> QED BY <2>1, <2>2
  <1>10. ~StartNegative(c) /\ ~ReadOriginal(c) /\ ~Compare(c)
    BY <1>1, <1>2, <1>4 DEF StartNegative, ReadOriginal, Compare, LeaveTry, Locals
  <1>11. ~Restore(c) /\ ~Unobserve(c) /\ ~Rotate(c)
    BY <1>1, <1>2, <1>3, <1>4, <1>5 DEF Restore, Unobserve, Rotate, Locals
  <1>12. Serving(c) => pc[c] = "reserving"
    BY <1>3, <1>4 DEF Serving
  <1> QED BY <1>7, <1>8, <1>9, <1>10, <1>11, <1>12 DEF Runner

LEMMA RestoredStep ==
    ASSUME ~LateCommits, IInv, [Next]_vars, NEW c \in Controllers, Restored(c)
    PROVE  Restored(c)'
  <1> SUFFICES ASSUME run'[c].restoration = "PASS"
               PROVE  pc'[c] \in Concluded /\ ~Modified(c)'
    BY DEF Restored
  <1>1. IInv' /\ TypeOK
    BY InvStep DEF IInv
  <1>2. CASE run[c].restoration = "PASS"
    <2>1. pc[c] \in Concluded /\ ~Modified(c)
      BY <1>2 DEF Restored
    <2>2. ~Modified(c)'
      BY <2>1, OthersModifyNot DEF Modified, Concluded, Patch
    <2>3. ASSUME NEW d \in Controllers, Runner(d) \/ Kill(d)
          PROVE  pc'[c] \in Concluded
      <3>1. CASE d # c
        BY <1>1, <2>1, <2>3, <3>1, RunnerUntouched DEF Untouched
      <3>2. CASE d = c
        <4>1. \/ Release(c) \/ Unlock(c) \/ StartCase(c) \/ Recovery(c) \/ Record(c)
              \/ Cleanup(c) \/ Kill(c)
          BY <2>1, <2>3, <3>2 DEF Concluded, Runner, Acquire, Confirm, Isolation,
             Control, StartNegative, Negative, ReadOriginal, Compare, Patch, Observe,
             Rotate, Serving, DeleteNegative, Restore, Unpatch, Unobserve
        <4>2. CASE StartCase(c)
          <5> DEFINE new == [Unstarted EXCEPT !.holds = run[c].holds, !.k = run[c].k]
                     stop == [new EXCEPT !.outcome = "INCOMPLETE"]
          <5>1. new.restoration = "none" /\ stop.restoration = "none"
            BY DEF Unstarted
          <5>2. run'[c] \in {new, stop}
            BY <1>1, <4>2 DEF StartCase, Step, TypeOK
          <5> QED BY <5>1, <5>2
        <4>3. CASE Record(c)
          BY <1>1, <4>3 DEF TypeOK, Record, Step, Exit, Concluded
        <4> QED BY <1>1, <4>1, <4>2, <4>3 DEF TypeOK, Concluded, Release, Unlock, Recovery,
                Cleanup, Kill, Goto, Step
      <3> QED BY <3>1, <3>2
    <2>4. CASE UNCHANGED pc
      BY <2>1, <2>2, <2>4
    <2> QED BY <2>2, <2>3, <2>4
        DEF Next, vars, Attest, Recover, Review, Reinstate, Serve, CommitLate
  <1>3. CASE run[c].restoration # "PASS"
    <2>1. PICK d \in Controllers : Runner(d) \/ Kill(d)
      <3>1. CASE Serve
        BY <1>1, <1>3, <3>1 DEF Serve, TypeOK, Locals
      <3>2. ASSUME NEW d \in Controllers, Recover(d) PROVE FALSE
        BY <1>1, <1>3, <3>2 DEF Recover, TypeOK, Locals
      <3> QED BY <1>3, <3>1, <3>2 DEF Next, vars, Attest, Review, Reinstate, CommitLate
    <2>2. d = c
      BY <1>1, <1>3, <2>1, RunnerUntouched DEF Untouched
    <2>3. pc[c] = "reserving" /\ Serving(c)
      BY <1>1, <1>3, <2>1, <2>2, RestorationSet
    <2>4. pc'[c] \in {"recovery", "record"}
      BY <1>1, <2>3 DEF TypeOK, Serving, Step, AfterFinally, Abandon
    <2>5. Modified(c)' => run'[c].restoration = "FAIL" /\ pc'[c] = "record"
      BY <1>1, <2>4 DEF Modified, IInv, CInv, OwnsModified, MustUndo, Modifying
    <2> QED BY <2>4, <2>5 DEF Concluded
  <1> QED BY <1>2, <1>3

\* If no request commits after its client gave up on it, a restoration that is
\* reported as PASS holds: the modification of the case is gone, and it stays
\* gone through the rest of the run and after it.
THEOREM RestorationIsReal ==
    ASSUME ~LateCommits PROVE Spec => []RestorationHolds
  <1> DEFINE I == IInv /\ \A c \in Controllers : Restored(c)
  <1>1. Init => I
    <2>1. Init => \A c \in Controllers : Restored(c)
      BY DEF Init, Restored, Unstarted
    <2> QED BY <2>1, InvInit
  <1>2. I /\ [Next]_vars => I'
    BY InvStep, RestoredStep
  <1>3. I => RestorationHolds
    BY EditedType DEF RestorationHolds, Restored, Modified
  <1> QED BY <1>1, <1>2, <1>3, PTL DEF Spec

---------------------------------------------------------------------------
(* What a passed run leaves *)

\* A report says PASS only on the way from the last case to the exit, with the
\* lock in hand until it is deleted; a negative pod is still there only where it
\* is deleted, or in a run that failed to.
PassInv(c) ==
    /\ run[c].report = "PASS" => pc[c] \in {"cleanup", "release", "unlock", "done", "killed"}
    /\ pc[c] \notin Unlocked \cup {"confirm"} => run[c].holds
    /\ run[c].report = "PASS" /\ pc[c] = "release" => run[c].holds
    /\ run[c].report = "PASS" /\ pc[c] = "done" => lock # c
    /\ pc[c] = "negative" => run[c].named
    /\ guest[c] # "absent" =>
         \/ pc[c] \in {"negative", "deleteNegative"}
         \/ pc[c] = "record" /\ run[c].outcome = "FAIL" /\ run[c].restoration = "FAIL"
         \/ pc[c] \in {"done", "killed"} /\ run[c].report # "PASS"

\* Where a case is under way.
Midway(label) == label \notin Unlocked \cup {"confirm", "cleanup", "unlock"}

LEMMA FinallyFacts ==
    ASSUME NEW x \in Locals
    PROVE  /\ Finally(x) \in {"deleteNegative", "restore", "recovery", "record"}
           /\ AfterRemoval(x) \in {"restore", "recovery", "record"}
           /\ AfterFinally(x) \in {"recovery", "record"}
           /\ x.named => Finally(x) = "deleteNegative"
           /\ x.hasEdit => Finally(x) \in {"deleteNegative", "restore"}
  BY DEF Locals, Finally, AfterRemoval, AfterFinally

\* A step within a case keeps it, if it takes care of the pod.
LEMMA StepPasses ==
    ASSUME TypeOK, NEW c \in Controllers, PassInv(c), Midway(pc[c]), lock' = lock,
           NEW x \in Locals, NEW label, Step(c, x, label), Midway(label),
           x.holds = run[c].holds, x.report \in {run[c].report, "INCOMPLETE"},
           label = "negative" => x.named,
           guest'[c] # "absent" =>
             \/ label \in {"negative", "deleteNegative"}
             \/ label = "record" /\ x.outcome = "FAIL" /\ x.restoration = "FAIL"
    PROVE  PassInv(c)'
  <1>1. run'[c] = x /\ pc'[c] = label
    BY DEF Step, TypeOK
  <1>2. run[c].holds /\ run[c].report # "PASS"
    BY DEF PassInv, Midway, Unlocked
  <1> QED BY <1>1, <1>2 DEF PassInv, Midway, Unlocked

LEMMA RaisePasses ==
    ASSUME TypeOK, NEW c \in Controllers, PassInv(c), Midway(pc[c]), lock' = lock,
           guest' = guest, pc[c] \notin {"deleteNegative", "record"},
           NEW kind \in {"INCOMPLETE", "FAIL"}, Raise(c, kind)
    PROVE  PassInv(c)'
  <1> DEFINE x == [run[c] EXCEPT !.outcome = kind]
  <1>1. /\ x \in Locals /\ x.holds = run[c].holds /\ x.report = run[c].report
        /\ x.named = run[c].named
    BY DEF TypeOK, Locals
  <1>2. Step(c, x, Finally(x))
    BY DEF Raise, LeaveTry
  <1> HIDE DEF x
  <1>3. /\ Finally(x) \in {"deleteNegative", "restore", "recovery", "record"}
        /\ x.named => Finally(x) = "deleteNegative"
    BY <1>1, FinallyFacts
  <1>4. guest[c] # "absent" => x.named
    BY <1>1 DEF PassInv, Midway, Unlocked
  <1> QED BY <1>1, <1>2, <1>3, <1>4, StepPasses DEF Midway, Unlocked

LEMMA AbandonPasses ==
    ASSUME TypeOK, NEW c \in Controllers, PassInv(c), Midway(pc[c]), lock' = lock, Abandon(c)
    PROVE  PassInv(c)'
  <1> DEFINE x == [run[c] EXCEPT !.restoration = "FAIL", !.outcome = "FAIL"]
  <1>1. /\ x \in Locals /\ x.holds = run[c].holds /\ x.report = run[c].report
        /\ x.outcome = "FAIL" /\ x.restoration = "FAIL"
    BY DEF TypeOK, Locals
  <1>2. Step(c, x, "record")
    BY DEF Abandon
  <1> HIDE DEF x
  <1> QED BY <1>1, <1>2, StepPasses DEF Midway, Unlocked

LEMMA RunnerPasses ==
    ASSUME TypeOK, NEW c \in Controllers, PassInv(c), Runner(c) \/ Kill(c)
    PROVE  PassInv(c)'
  <1> run[c] \in Locals
    BY DEF TypeOK
  <1> USE FinallyFacts, StepPasses, RaisePasses, AbandonPasses DEF Unlocked, Midway, Goto
  <1>0. guest[c] # "absent" => \/ pc[c] \in {"negative", "deleteNegative", "done", "killed"}
                               \/ pc[c] = "record" /\ run[c].outcome = "FAIL"
                                  /\ run[c].restoration = "FAIL"
    BY DEF PassInv
  <1>1. CASE Confirm(c) \/ Release(c)
    <2> HIDE StepPasses, RaisePasses, AbandonPasses
    <2> QED BY <1>1 DEF Confirm, Release, PassInv, TypeOK, Locals, Step
  <1>2. CASE StartCase(c)
    <2> DEFINE new == [Unstarted EXCEPT !.holds = run[c].holds, !.k = run[c].k]
               stop == [new EXCEPT !.outcome = "INCOMPLETE"]
    <2>1. /\ new \in Locals /\ new.holds = run[c].holds /\ new.report = "INCOMPLETE"
          /\ stop \in Locals /\ stop.holds = run[c].holds /\ stop.report = "INCOMPLETE"
      BY UnstartedType DEF Unstarted, Locals
    <2>2. /\ \/ \E label \in {"isolation", "read", "control"} : Step(c, new, label)
             \/ Step(c, stop, "record")
          /\ lock' = lock /\ guest' = guest /\ pc[c] = "case"
      BY <1>2 DEF StartCase
    <2> HIDE DEF new, stop
    <2> QED BY <1>0, <2>1, <2>2
  <1>3. CASE Isolation(c) \/ Recovery(c)
    <2>1. \A o \in {"PASS", "INCOMPLETE", "FAIL"} :
            LET x == [run[c] EXCEPT !.outcome = o]
            IN x \in Locals /\ x.holds = run[c].holds /\ x.report = run[c].report
      BY DEF Locals
    <2> QED BY <1>0, <1>3, <2>1 DEF Isolation, Recovery
  <1>4. CASE Control(c)
    BY <1>0, <1>4 DEF Control
  <1>5. CASE StartNegative(c)
    <2> DEFINE named == [run[c] EXCEPT !.named = TRUE]
               lost == [named EXCEPT !.outcome = "INCOMPLETE"]
    <2>1. /\ named \in Locals /\ named.holds = run[c].holds /\ named.report = run[c].report
          /\ lost \in Locals /\ lost.holds = run[c].holds /\ lost.report = run[c].report
          /\ named.named /\ lost.named
      BY DEF Locals
    <2>2. /\ Step(c, named, "negative") \/ Step(c, lost, "deleteNegative")
          /\ lock' = lock /\ pc[c] = "start"
      BY <1>5, <2>1 DEF StartNegative, LeaveTry
    <2> HIDE DEF named, lost
    <2> QED BY <2>1, <2>2
  <1>6. CASE Negative(c)
    <2>1. run[c].named
      BY <1>6 DEF Negative, PassInv
    <2> QED BY <1>6, <2>1 DEF Negative, LeaveTry
  <1>7. CASE ReadOriginal(c)
    <2> DEFINE object == resource[Edited(c)]
               edit == [run[c] EXCEPT !.hasEdit = TRUE,
                                      !.orig = [data |-> object.data, uid |-> object.uid]]
               lost == [edit EXCEPT !.outcome = "INCOMPLETE"]
    <2>1. object \in Objects
      BY EditedType DEF TypeOK
    <2>2. /\ edit \in Locals /\ edit.holds = run[c].holds /\ edit.report = run[c].report
          /\ lost \in Locals /\ lost.holds = run[c].holds /\ lost.report = run[c].report
      BY <2>1 DEF Locals, Objects
    <2>3. /\ \/ Step(c, edit, "compare") \/ Step(c, lost, Finally(lost))
             \/ Raise(c, "INCOMPLETE")
          /\ lock' = lock /\ guest' = guest /\ pc[c] = "read"
      BY <1>7 DEF ReadOriginal, LeaveTry
    <2> HIDE DEF edit, lost
    <2>4. Finally(lost) \in {"deleteNegative", "restore", "recovery", "record"}
      BY <2>2
    <2> QED BY <1>0, <2>2, <2>3, <2>4
  <1>8. CASE Compare(c)
    <2> DEFINE edit == [run[c] EXCEPT !.armed = TRUE]
               tested == [edit EXCEPT !.seen = resource[Edited(c)].rv]
               failed(kind) == [edit EXCEPT !.outcome = kind]
    <2>1. resource[Edited(c)].rv \in Nat
      BY EditedType DEF TypeOK, Objects
    <2>2. /\ tested \in Locals /\ tested.holds = run[c].holds
          /\ tested.report = run[c].report
          /\ \A kind \in {"INCOMPLETE", "FAIL"} :
                /\ failed(kind) \in Locals /\ failed(kind).holds = run[c].holds
                /\ failed(kind).report = run[c].report
      BY <2>1 DEF Locals
    <2>3. /\ \/ Step(c, tested, "patch")
             \/ \E kind \in {"INCOMPLETE", "FAIL"} : Step(c, failed(kind), Finally(failed(kind)))
          /\ lock' = lock /\ guest' = guest /\ pc[c] = "compare"
      BY <1>8 DEF Compare, LeaveTry
    <2> HIDE DEF tested, failed
    <2>4. \A kind \in {"INCOMPLETE", "FAIL"} :
            Finally(failed(kind)) \in {"deleteNegative", "restore", "recovery", "record"}
      BY <2>2
    <2> QED BY <1>0, <2>2, <2>3, <2>4
  <1>9. CASE Patch(c) \/ Observe(c)
    <2>1. /\ \/ Step(c, run[c], "observe") \/ Step(c, run[c], "rotate")
             \/ \E kind \in {"INCOMPLETE", "FAIL"} : Raise(c, kind)
          /\ lock' = lock /\ guest' = guest /\ pc[c] \in {"patch", "observe"}
      BY <1>9 DEF Patch, Observe
    <2> QED BY <1>0, <2>1
  <1>10. CASE Rotate(c)
    <2>1. LET x == [run[c] EXCEPT !.fresh = FALSE]
          IN x \in Locals /\ x.holds = run[c].holds /\ x.report = run[c].report
      BY DEF Locals
    <2> QED BY <1>0, <1>10, <2>1 DEF Rotate
  <1>11. CASE Serving(c)
    <2>1. LET x == [run[c] EXCEPT !.restoration = "PASS"]
          IN x \in Locals /\ x.holds = run[c].holds /\ x.report = run[c].report
      BY DEF Locals
    <2> QED BY <1>0, <1>11, <2>1 DEF Serving
  <1>12. CASE DeleteNegative(c)
    <2>1. CASE Abandon(c)
      BY <1>12, <2>1 DEF DeleteNegative
    <2>2. CASE guest' = [guest EXCEPT ![c] = "absent"] /\ Goto(c, AfterRemoval(run[c]))
      BY <1>12, <2>2 DEF DeleteNegative, TypeOK
    <2> QED BY <1>12, <2>1, <2>2 DEF DeleteNegative
  <1>13. CASE Restore(c) \/ Unobserve(c)
    <2> DEFINE x == [run[c] EXCEPT !.armed = FALSE]
               y == [run[c] EXCEPT !.seen = resource[Edited(c)].rv]
    <2>1. resource[Edited(c)].rv \in Nat
      BY EditedType DEF TypeOK, Objects
    <2>2. /\ x \in Locals /\ x.holds = run[c].holds /\ x.report = run[c].report
          /\ y \in Locals /\ y.holds = run[c].holds /\ y.report = run[c].report
      BY <2>1 DEF Locals
    <2>3. /\ \/ Step(c, run[c], "rerotate") \/ Step(c, x, "rerotate") \/ Step(c, y, "unpatch")
             \/ Abandon(c)
          /\ lock' = lock /\ guest' = guest /\ pc[c] \in {"restore", "unobserve"}
      BY <1>13 DEF Restore, Unobserve
    <2> HIDE DEF x, y
    <2> QED BY <1>0, <2>2, <2>3
  <1>14. CASE Unpatch(c)
    BY <1>0, <1>14 DEF Unpatch
  <1>15. CASE Record(c)
    <2>1. /\ pc[c] = "record" /\ run[c].holds /\ run[c].report # "PASS"
          /\ guest' = guest /\ lock' = lock
          /\ run'[c].holds = run[c].holds /\ run'[c].restoration = run[c].restoration
      BY <1>15 DEF Record, PassInv, TypeOK, Locals, Step
    <2>2. CASE run[c].outcome = "PASS"
      <3>1. guest[c] = "absent"
        BY <1>0, <2>1, <2>2
      <3>2. \/ pc'[c] = "case" /\ run'[c].report = run[c].report
            \/ pc'[c] = "cleanup"
            \/ pc'[c] \in {"release", "done"} /\ run'[c].report # "PASS"
        BY <1>15, <2>1 DEF Record, Exit, TypeOK, Locals, Step
      <3> QED BY <2>1, <3>1, <3>2 DEF PassInv
    <2>3. CASE run[c].outcome # "PASS"
      <3>1. /\ run'[c].report # "PASS"
            /\ pc'[c] = IF run[c].restoration = "FAIL" THEN "done" ELSE "release"
        BY <1>15, <2>3 DEF Record, Exit, TypeOK, Locals, Step
      <3> QED BY <1>0, <2>1, <3>1 DEF PassInv
    <2> QED BY <2>2, <2>3
  <1>16. CASE Cleanup(c) \/ Kill(c)
    <2> HIDE StepPasses, RaisePasses, AbandonPasses
    <2> QED BY <1>16 DEF Cleanup, Kill, PassInv, TypeOK, Locals, Step
  <1>17. CASE Acquire(c) \/ Unlock(c)
    <2> HIDE StepPasses, RaisePasses, AbandonPasses
    <2> QED BY <1>17, ControllersAssumption DEF Acquire, Unlock, PassInv, TypeOK, Locals, Step
  <1> QED BY <1>1, <1>2, <1>3, <1>4, <1>5, <1>6, <1>7, <1>8, <1>9, <1>10, <1>11,
             <1>12, <1>13, <1>14, <1>15, <1>16, <1>17 DEF Runner

EachPasses == \A c \in Controllers : PassInv(c)

\* The other controllers' pods, and a lock that is not theirs to take twice.
LEMMA PassBystander ==
    ASSUME TypeOK, NEW d \in Controllers, PassInv(d),
           pc'[d] = pc[d], run'[d].report = run[d].report, run'[d].holds = run[d].holds,
           run'[d].named = run[d].named, run'[d].outcome = run[d].outcome,
           run'[d].restoration = run[d].restoration,
           guest'[d] # "absent" => guest[d] # "absent",
           lock' = d => lock = d
    PROVE  PassInv(d)'
  BY DEF PassInv

LEMMA OthersPass ==
    ASSUME TypeOK, NEW c \in Controllers, NEW d \in Controllers, d # c, PassInv(d),
           Runner(c) \/ Kill(c)
    PROVE  PassInv(d)' /\ guest'[d] = guest[d]
  <1>1. run'[d] = run[d] /\ pc'[d] = pc[d]
    BY RunnerUntouched DEF Untouched
  <1>2. guest'[d] = guest[d]
    <2>1. CASE Local(c)
      BY <2>1 DEF TypeOK, Local, Confirm, Release, StartCase, Isolation, Control,
            StartNegative, Negative, ReadOriginal, Compare, Observe, Rotate, Serving,
            DeleteNegative, Restore, Unobserve, Recovery, Record, Cleanup, Kill
    <2>2. CASE Acquire(c) \/ Unlock(c) \/ Patch(c) \/ Unpatch(c)
      BY <2>2 DEF Acquire, Unlock, Patch, Unpatch
    <2> QED BY <2>1, <2>2 DEF Runner, Local
  <1>3. lock' \in {lock, Nobody, c}
    <2>1. CASE Local(c)
      BY <2>1, LocalFrame DEF Frame
    <2>2. CASE Acquire(c) \/ Unlock(c) \/ Patch(c) \/ Unpatch(c)
      BY <2>2 DEF Acquire, Unlock, Patch, Unpatch
    <2> QED BY <2>1, <2>2 DEF Runner, Local
  <1> QED BY <1>1, <1>2, <1>3, PassBystander, ControllersAssumption

LEMMA PassInit == Init => EachPasses
  <1> SUFFICES ASSUME Init, NEW c \in Controllers PROVE PassInv(c)
    BY DEF EachPasses
  <1>1. pc[c] = "acquire" /\ run[c] = Unstarted /\ guest[c] = "absent"
    BY DEF Init
  <1>2. run[c].report = "INCOMPLETE"
    BY <1>1 DEF Unstarted
  <1> QED BY <1>1, <1>2 DEF PassInv, Unlocked

LEMMA PassStep == TypeOK /\ EachPasses /\ [Next]_vars => EachPasses'
  <1> SUFFICES ASSUME TypeOK, EachPasses, [Next]_vars, NEW d \in Controllers
               PROVE  PassInv(d)'
    BY DEF EachPasses
  <1> \A c \in Controllers : PassInv(c)
    BY DEF EachPasses
  <1>1. ASSUME NEW c \in Controllers, Runner(c) \/ Kill(c)
        PROVE  PassInv(d)'
    BY <1>1, RunnerPasses, OthersPass
  <1>2. ASSUME NEW c \in Controllers, Attest(c)
        PROVE  PassInv(d)'
    BY <1>2, PassBystander DEF Attest, TypeOK
  <1>3. CASE UNCHANGED vars
    BY <1>3, PassBystander DEF vars
  <1>4. ASSUME NEW c \in Controllers, Recover(c)
        PROVE  PassInv(d)'
    <2>1. /\ lock' = Nobody /\ pc' = pc
          /\ guest'[d] # "absent" => guest[d] # "absent"
          /\ run'[d] = [run[d] EXCEPT !.fresh = TRUE]
      BY <1>4 DEF Recover, TypeOK
    <2> QED BY <2>1, PassBystander, ControllersAssumption DEF TypeOK, Locals
  <1>5. ASSUME NEW r \in Resources, Review(r) \/ Reinstate(r)
        PROVE  PassInv(d)'
    BY <1>5, PassBystander DEF Review, Reinstate
  <1>6. CASE \E q \in inflight : CommitLate(q)
    BY <1>6, PassBystander DEF CommitLate
  <1>7. CASE Serve
    <2>1. /\ lock' = lock /\ pc' = pc /\ guest' = guest
          /\ run'[d] = [run[d] EXCEPT !.fresh = TRUE]
      BY <1>7 DEF Serve
    <2> QED BY <2>1, PassBystander DEF TypeOK, Locals
  <1> QED BY <1>1, <1>2, <1>3, <1>4, <1>5, <1>6, <1>7 DEF Next

---------------------------------------------------------------------------
(* Requests that commit late.  What follows needs no assumption on them.    *)

\* Where a run is past its cases, where it undoes one, where its edit stands and
\* where nothing has failed yet.
Past == {"release", "unlock", "done", "killed"}
Undoing == {"deleteNegative", "restore", "unpatch", "unobserve", "rerotate",
            "reserving", "record"}
Standing == {"observe", "rotate", "serving", "control", "start", "negative"}
Trying == Standing \cup {"read", "compare", "patch", "isolation"}

\* A controller whose patch may still commit, or did so behind its back: it
\* will not report PASS.
Lingering(x, label) ==
    /\ label = "killed" \/ x.report # "PASS"
    /\ \/ label \in Past
       \/ label \in Undoing /\ x.outcome \notin {"none", "PASS"}

\* A controller that knows of its modification, and one whose modification
\* Trustee may still serve.
InHand(x, label) ==
    /\ x.outcome = "none" /\ x.hasEdit /\ x.armed
    /\ label \in Standing \cup {"deleteNegative", "restore", "unpatch"}
OnShow(x, label) ==
    /\ x.outcome = "none" /\ x.hasEdit
    /\ label # "record" /\ label \in Standing \cup Undoing
    /\ label = "reserving" => ~x.fresh

Tidy(d) == /\ pc[d] \in Trying => run[d].outcome = "none"
           /\ pc[d] \in {"compare", "patch"} => run[d].hasEdit
           /\ pc[d] = "patch" => run[d].armed
           /\ pc[d] = "control" /\ run[d].hasEdit => Case(d) \notin EditLater

\* A modification by d that is about is of the version that d's recovery file
\* holds, wherever it is: in a resource, in a request or in the recovery file
\* of a controller that read it as its original.
Held(d) ==
    \A r \in Resources : resource[r].data.by = d =>
        /\ resource[r].data.version = run[d].orig.data.version
        /\ Lingering(run[d], pc[d]) \/ (InHand(run[d], pc[d]) /\ r = Edited(d))

Shown(d) ==
    \A r \in Resources : served[r].data.by = d =>
        Lingering(run[d], pc[d]) \/ OnShow(run[d], pc[d])

Carried(d, data) ==
    data.by = d => /\ data.version = run[d].orig.data.version
                   /\ Lingering(run[d], pc[d])

Requested(d) == \A q \in inflight : Carried(d, q.data)

Copied(d) == \A e \in Controllers : /\ Carried(d, run[e].orig.data)
                                    /\ run[e].orig.data.by = d => pc[d] \in Past

Traced(d) == /\ HoldsLock(d) /\ PatchTested(d) /\ Tidy(d)
             /\ Held(d) /\ Shown(d) /\ Requested(d) /\ Copied(d)

\* A request still to commit was overtaken, or is based on the value reviewed last.
Overtaken ==
    \A q \in inflight :
        /\ q.rv <= resource[q.name].rv
        /\ q.rv = resource[q.name].rv => q.data.version = reviewed[q.name]

LateInv == /\ TypeOK
           /\ EachPasses
           /\ LatestReviewKept
           /\ Overtaken
           /\ \A d \in Controllers : Traced(d)

LEMMA LateInit == Init => LateInv
  <1> SUFFICES ASSUME Init PROVE LateInv
    OBVIOUS
  <1>1. TypeOK /\ EachPasses
    BY TypeInit, PassInit
  <1>2. \A d \in Controllers : Traced(d)
    BY ControllersAssumption DEF Init, Unstarted, Reviewed, Traced, HoldsLock, PatchTested,
       Tidy, Held, Shown, Requested, Copied, Carried, Unlocked, Trying, Standing
  <1>3. LatestReviewKept /\ Overtaken
    BY DEF Init, LatestReviewKept, Overtaken, Reviewed
  <1> QED BY <1>1, <1>2, <1>3 DEF LateInv

\* A resource is left alone, or gets a new version of itself based on the value
\* that is then the reviewed one.
Advanced(r) ==
    \/ resource'[r] = resource[r] /\ reviewed'[r] = reviewed[r]
    \/ /\ resource'[r].data.version = reviewed'[r]
       /\ resource'[r].rv > resource[r].rv

LEMMA VersionsKept ==
    ASSUME TypeOK, TypeOK', LatestReviewKept, Overtaken,
           \A r \in Resources : Advanced(r),
           \A q \in inflight' :
              \/ q \in inflight
              \/ /\ q.name \in Resources /\ resource' = resource /\ reviewed' = reviewed
                 /\ q.rv <= resource[q.name].rv
                 /\ q.rv = resource[q.name].rv => q.data.version = reviewed[q.name]
    PROVE  LatestReviewKept' /\ Overtaken'
  <1>1. LatestReviewKept'
    BY DEF LatestReviewKept, Advanced
  <1>2. ASSUME NEW q \in inflight'
        PROVE  /\ q.rv <= resource'[q.name].rv
               /\ q.rv = resource'[q.name].rv => q.data.version = reviewed'[q.name]
    <2>1. CASE q \in inflight
      <3>1. /\ q.name \in Resources /\ q.rv \in Nat /\ resource[q.name].rv \in Nat
            /\ q.rv <= resource[q.name].rv
            /\ q.rv = resource[q.name].rv => q.data.version = reviewed[q.name]
        BY <2>1 DEF TypeOK, Requests, Objects, Overtaken
      <3>2. CASE resource'[q.name] = resource[q.name] /\ reviewed'[q.name] = reviewed[q.name]
        BY <3>1, <3>2
      <3>3. CASE resource'[q.name].rv > resource[q.name].rv
        <4>1. resource'[q.name].rv \in Nat
          BY <3>1 DEF TypeOK, Objects
        <4> QED BY <3>1, <3>3, <4>1
      <3> QED BY <3>1, <3>2, <3>3 DEF Advanced
    <2>2. CASE q \notin inflight
      BY <1>2, <2>2
    <2> QED BY <2>1, <2>2
  <1> QED BY <1>1, <1>2 DEF Overtaken

\* A step in which d takes no part.
Same(d) ==
    /\ pc'[d] = pc[d]
    /\ run'[d].orig = run[d].orig /\ run'[d].k = run[d].k
    /\ run'[d].hasEdit = run[d].hasEdit /\ run'[d].armed = run[d].armed
    /\ run'[d].seen = run[d].seen /\ run'[d].outcome = run[d].outcome
    /\ run'[d].report = run[d].report

LEMMA BystanderTraced ==
    ASSUME TypeOK, TypeOK', NEW d \in Controllers, Traced(d), Same(d),
           lock = d => lock' = d \/ pc[d] \in Unlocked,
           \A r \in Resources :
              \/ resource'[r] = resource[r]
              \/ resource'[r].rv > resource[r].rv /\ Carried(d, resource'[r].data)
              \/ resource'[r].rv > resource[r].rv /\ resource'[r].data.by # d,
           \A q \in inflight' : q \in inflight \/ Carried(d, q.data),
           \A e \in Controllers :
              \/ run'[e].orig.data = run[e].orig.data
              \/ /\ Carried(d, run'[e].orig.data)
                 /\ run'[e].orig.data.by = d => pc[d] \in Past,
           \/ served' = served /\ run'[d] = run[d]
           \/ \A r \in Resources : served'[r].data = resource'[r].data
    PROVE  Traced(d)'
  <1>1. Case(d)' = Case(d) /\ Edited(d)' = Edited(d) /\ Change(d)' = Change(d)
    BY DEF Same, Case, Edited, Change
  <1>2. /\ Lingering(run'[d], pc'[d]) = Lingering(run[d], pc[d])
        /\ InHand(run'[d], pc'[d]) = InHand(run[d], pc[d])
    BY DEF Same, Lingering, InHand
  <1>3. ASSUME NEW v
        PROVE  Carried(d, v) =>
                  (v.by = d => /\ v.version = run'[d].orig.data.version
                               /\ Lingering(run'[d], pc'[d]))
    BY <1>2 DEF Same, Carried
  <1>4. HoldsLock(d)' /\ Tidy(d)'
    BY <1>1 DEF Same, Traced, HoldsLock, Tidy
  <1>5. PatchTested(d)'
    <2> SUFFICES ASSUME pc[d] \in {"patch", "unpatch"} PROVE PatchTested(d)'
      BY DEF Same, PatchTested
    <2> DEFINE r == Edited(d)
    <2>1. r \in Resources
      BY EditedType
    <2>2. /\ resource[r].rv \in Nat /\ run[d].seen \in Nat /\ resource'[r].rv \in Nat
          /\ run[d].seen <= resource[r].rv
      BY <2>1 DEF TypeOK, Objects, Locals, Traced, PatchTested
    <2>3. CASE resource'[r] = resource[r]
      BY <1>1, <2>3 DEF Same, Traced, PatchTested
    <2>4. CASE resource'[r].rv > resource[r].rv
      <3>1. run[d].seen <= resource'[r].rv /\ resource'[r].rv # run[d].seen
        BY <2>2, <2>4
      <3> QED BY <1>1, <3>1 DEF Same, PatchTested
    <2> QED BY <2>1, <2>3, <2>4
  <1>6. Held(d)'
    <2> SUFFICES ASSUME NEW r \in Resources, resource'[r].data.by = d
                 PROVE  /\ resource'[r].data.version = run'[d].orig.data.version
                        /\ \/ Lingering(run'[d], pc'[d])
                           \/ InHand(run'[d], pc'[d]) /\ r = Edited(d)'
      BY DEF Held
    <2>1. CASE resource'[r] = resource[r]
      BY <1>1, <1>2, <2>1 DEF Same, Traced, Held
    <2>2. CASE Carried(d, resource'[r].data)
      BY <1>3, <2>2
    <2> QED BY <2>1, <2>2
  <1>7. Requested(d)'
    <2> SUFFICES ASSUME NEW q \in inflight' PROVE Carried(d, q.data)'
      BY DEF Requested
    <2>1. Carried(d, q.data)
      BY DEF Traced, Requested
    <2> QED BY <1>3, <2>1 DEF Carried
  <1>8. Copied(d)'
    <2> SUFFICES ASSUME NEW e \in Controllers
                 PROVE  /\ Carried(d, run[e].orig.data)'
                        /\ run'[e].orig.data.by = d => pc'[d] \in Past
      BY DEF Copied
    <2>1. /\ Carried(d, run'[e].orig.data)
          /\ run'[e].orig.data.by = d => pc[d] \in Past
      <3>1. CASE run'[e].orig.data = run[e].orig.data
        BY <3>1 DEF Traced, Copied
      <3> QED BY <3>1
    <2> QED BY <1>3, <2>1 DEF Carried, Same
  <1>9. Shown(d)'
    <2>1. CASE served' = served /\ run'[d] = run[d]
      <3>1. OnShow(run'[d], pc'[d]) = OnShow(run[d], pc[d])
        BY <2>1 DEF Same
      <3> QED BY <1>2, <2>1, <3>1 DEF Traced, Shown
    <2>2. CASE \A r \in Resources : served'[r].data = resource'[r].data
      <3>1. InHand(run'[d], pc'[d]) => OnShow(run'[d], pc'[d])
        BY DEF InHand, OnShow, Standing, Undoing
      <3> QED BY <1>6, <2>2, <3>1 DEF Held, Shown
    <2> QED BY <2>1, <2>2
  <1> QED BY <1>4, <1>5, <1>6, <1>7, <1>8, <1>9 DEF Traced


\* The steps of c itself.  A step that moves on with the edit as it is.
Modifies(c) == \E r \in Resources : resource[r].data.by = c
Shows(c) == \E r \in Resources : served[r].data.by = c

LEMMA MoveTraced ==
    ASSUME TypeOK, NEW c \in Controllers, Traced(c), Frame, inflight' = inflight,
           \A d \in Controllers : d # c => Untouched(d),
           NEW x \in Locals, NEW label \in Labels, Step(c, x, label),
           x.orig = run[c].orig, x.hasEdit = run[c].hasEdit,
           Modifies(c) => x.k = run[c].k,
           label \notin Unlocked => lock = c,
           label \notin {"compare", "patch"}, label = "unpatch" => PatchTested(c)',
           label \in Trying => x.outcome = "none",
           label = "control" /\ x.hasEdit => Case(c)' \notin EditLater,
           pc[c] \in Past => label \in Past,
           Lingering(run[c], pc[c]) => Lingering(x, label),
           Modifies(c) /\ InHand(run[c], pc[c]) => InHand(x, label) \/ Lingering(x, label),
           Shows(c) /\ OnShow(run[c], pc[c]) => OnShow(x, label) \/ Lingering(x, label)
    PROVE  Traced(c)'
  <1>1. run'[c] = x /\ pc'[c] = label
    BY DEF Step, TypeOK
  <1>2. lock' = lock /\ resource' = resource /\ served' = served
    BY DEF Frame
  <1>3. \A e \in Controllers : run'[e].orig = run[e].orig
    BY <1>1 DEF Untouched
  <1>4. HoldsLock(c)' /\ PatchTested(c)' /\ Tidy(c)'
    BY <1>1, <1>2 DEF HoldsLock, PatchTested, Tidy
  <1>5. Modifies(c) => Edited(c)' = Edited(c)
    BY <1>1 DEF Edited, Case
  <1>6. Held(c)'
    <2> SUFFICES ASSUME NEW r \in Resources, resource[r].data.by = c
                 PROVE  /\ resource[r].data.version = x.orig.data.version
                        /\ Lingering(x, label) \/ (InHand(x, label) /\ r = Edited(c)')
      BY <1>1, <1>2 DEF Held
    <2> QED BY <1>5 DEF Modifies, Traced, Held
  <1>7. Shown(c)'
    <2> SUFFICES ASSUME NEW r \in Resources, served[r].data.by = c
                 PROVE  Lingering(x, label) \/ OnShow(x, label)
      BY <1>1, <1>2 DEF Shown
    <2> QED BY DEF Shows, Traced, Shown
  <1>8. Requested(c)'
    <2> SUFFICES ASSUME NEW q \in inflight, q.data.by = c
                 PROVE  q.data.version = x.orig.data.version /\ Lingering(x, label)
      BY <1>1 DEF Requested, Carried
    <2> QED BY DEF Traced, Requested, Carried
  <1>9. Copied(c)'
    <2> SUFFICES ASSUME NEW e \in Controllers, run[e].orig.data.by = c
                 PROVE  /\ run[e].orig.data.version = x.orig.data.version
                        /\ Lingering(x, label) /\ label \in Past
      BY <1>1, <1>3 DEF Copied, Carried
    <2> QED BY DEF Traced, Copied, Carried
  <1> QED BY <1>4, <1>6, <1>7, <1>8, <1>9 DEF Traced

\* Before its first patch a case has nothing about.
Blank == {"acquire", "confirm", "case", "isolation", "read", "compare", "patch",
          "recovery", "cleanup"}

LEMMA BlankFacts ==
    ASSUME NEW c \in Controllers, Traced(c), pc[c] \in Blank
    PROVE  /\ ~Lingering(run[c], pc[c]) /\ ~OnShow(run[c], pc[c]) /\ pc[c] \notin Past
           /\ ~InHand(run[c], pc[c])
           /\ \A r \in Resources : resource[r].data.by # c /\ served[r].data.by # c
           /\ \A q \in inflight : q.data.by # c
           /\ \A e \in Controllers : run[e].orig.data.by # c
  <1>1. /\ ~Lingering(run[c], pc[c]) /\ ~OnShow(run[c], pc[c]) /\ pc[c] \notin Past
        /\ ~InHand(run[c], pc[c])
    BY DEF Lingering, OnShow, InHand, Past, Undoing, Standing, Blank
  <1> QED BY <1>1 DEF Traced, Held, Shown, Requested, Copied, Carried

\* A step that takes up a case anew, or its original.
LEMMA BlankTraced ==
    ASSUME TypeOK, NEW c \in Controllers, Traced(c), Frame, inflight' = inflight,
           \A d \in Controllers : d # c => Untouched(d), pc[c] \in Blank,
           run'[c].orig.data.by # c,
           HoldsLock(c)', PatchTested(c)', Tidy(c)'
    PROVE  Traced(c)'
  <1>1. /\ \A r \in Resources : resource[r].data.by # c /\ served[r].data.by # c
        /\ \A q \in inflight : q.data.by # c
        /\ \A e \in Controllers : run[e].orig.data.by # c
    BY BlankFacts
  <1>2. \A e \in Controllers : run'[e].orig.data.by # c
    BY <1>1 DEF Untouched
  <1> QED BY <1>1, <1>2 DEF Frame, Traced, Held, Shown, Requested, Copied, Carried

\* Whatever fails within a case leaves c lingering.
LEMMA FailureTraced ==
    ASSUME TypeOK, NEW c \in Controllers, Traced(c), PassInv(c), Frame, inflight' = inflight,
           \A d \in Controllers : d # c => Untouched(d), Midway(pc[c]),
           NEW x \in Locals, NEW label \in Labels \cap Undoing, Step(c, x, label),
           x.orig = run[c].orig, x.hasEdit = run[c].hasEdit, x.k = run[c].k,
           x.report = run[c].report, x.outcome \notin {"none", "PASS"},
           label # "unpatch"
    PROVE  Traced(c)' /\ Lingering(x, label)
  <1>1. lock = c /\ pc[c] \notin Past
    BY DEF Traced, HoldsLock, Midway, Past, Unlocked
  <1>2. run[c].report # "PASS"
    BY DEF PassInv, Midway, Unlocked
  <1>3. Lingering(x, label)
    BY <1>2 DEF Lingering
  <1>4. label \in Labels /\ label \notin {"compare", "patch"}
        /\ label \notin Trying /\ label # "control"
    BY DEF Undoing, Trying, Standing
  <1> QED BY <1>1, <1>3, <1>4, MoveTraced

LEMMA RaiseTraced ==
    ASSUME TypeOK, NEW c \in Controllers, Traced(c), PassInv(c), Frame, inflight' = inflight,
           \A d \in Controllers : d # c => Untouched(d), Midway(pc[c]),
           NEW kind \in {"INCOMPLETE", "FAIL"}, Raise(c, kind)
    PROVE  Traced(c)'
  <1> DEFINE x == [run[c] EXCEPT !.outcome = kind]
  <1>1. /\ x \in Locals /\ x.orig = run[c].orig /\ x.hasEdit = run[c].hasEdit
        /\ x.k = run[c].k /\ x.report = run[c].report /\ x.outcome = kind
    BY DEF TypeOK, Locals
  <1>2. Step(c, x, Finally(x))
    BY DEF Raise, LeaveTry
  <1> HIDE DEF x
  <1>3. /\ Finally(x) \in Labels \cap Undoing /\ Finally(x) # "unpatch"
        /\ x.outcome \notin {"none", "PASS"}
    BY <1>1 DEF Finally, AfterRemoval, AfterFinally, Undoing, Labels
  <1> QED BY <1>1, <1>2, <1>3, FailureTraced

LEMMA AbandonTraced ==
    ASSUME TypeOK, NEW c \in Controllers, Traced(c), PassInv(c), Frame, inflight' = inflight,
           \A d \in Controllers : d # c => Untouched(d), Midway(pc[c]), Abandon(c)
    PROVE  Traced(c)'
  <1> DEFINE x == [run[c] EXCEPT !.restoration = "FAIL", !.outcome = "FAIL"]
  <1>1. /\ x \in Locals /\ x.orig = run[c].orig /\ x.hasEdit = run[c].hasEdit
        /\ x.k = run[c].k /\ x.report = run[c].report /\ x.outcome = "FAIL"
    BY DEF TypeOK, Locals
  <1>2. Step(c, x, "record")
    BY DEF Abandon
  <1> HIDE DEF x
  <1>3. "record" \in Labels \cap Undoing
    BY DEF Labels, Undoing
  <1> QED BY <1>1, <1>2, <1>3, FailureTraced


LEMMA LocalTraced ==
    ASSUME TypeOK, TypeOK', NEW c \in Controllers, \A d \in Controllers : Traced(d),
           PassInv(c), Local(c)
    PROVE  Traced(c)'
  <1> /\ Frame /\ inflight' = inflight
      /\ \A d \in Controllers : d # c => Untouched(d)
    BY LocalFrame, RunnerUntouched DEF Local, Runner
  <1> run[c] \in Locals /\ Traced(c) /\ HoldsLock(c) /\ Tidy(c)
    BY DEF TypeOK, Traced
  <1>0. /\ \A label : Goto(c, label) => Step(c, run[c], label)
        /\ pc[c] \notin Unlocked => lock = c
        /\ pc[c] \in Blank => /\ ~Lingering(run[c], pc[c]) /\ ~OnShow(run[c], pc[c])
                              /\ ~InHand(run[c], pc[c]) /\ pc[c] \notin Past
                              /\ ~Modifies(c)
    BY BlankFacts DEF Goto, HoldsLock, Modifies
  <1> USE DEF Unlocked, Trying, Standing, Undoing, Past, Lingering, InHand, OnShow
  <1>1. CASE Confirm(c)
    <2>1. [run[c] EXCEPT !.holds = TRUE] \in Locals
      BY DEF Locals
    <2> QED BY <1>0, <1>1, <2>1, MoveTraced DEF Confirm, Labels, Locals, Blank
  <1>2. CASE Release(c)
    <2>1. [run[c] EXCEPT !.report = "FAIL"] \in Locals
      BY DEF Locals
    <2> QED BY <1>0, <1>2, <2>1, MoveTraced DEF Release, Labels, Locals
  <1>3. CASE StartCase(c)
    <2> DEFINE new == [Unstarted EXCEPT !.holds = run[c].holds, !.k = run[c].k]
               stop == [new EXCEPT !.outcome = "INCOMPLETE"]
    <2>1. /\ run'[c] \in {new, stop}
          /\ \/ run'[c] = new /\ pc'[c] \in {"isolation", "read", "control"}
             \/ pc'[c] = "record"
          /\ pc[c] = "case"
      BY <1>3 DEF StartCase, Step, TypeOK
    <2>2. /\ new.orig.data.by = Nobody /\ ~new.hasEdit
          /\ stop.orig.data.by = Nobody /\ ~stop.hasEdit
      BY DEF Unstarted, Reviewed
    <2>3. new.outcome = "none"
      BY DEF Unstarted
    <2> HIDE DEF new, stop
    <2>4. run'[c].orig.data.by # c /\ ~run'[c].hasEdit
      BY <2>1, <2>2, ControllersAssumption
    <2>5. HoldsLock(c)' /\ PatchTested(c)' /\ Tidy(c)'
      BY <1>0, <2>1, <2>3, <2>4 DEF HoldsLock, PatchTested, Tidy, Frame
    <2> QED BY <2>1, <2>4, <2>5, BlankTraced DEF Blank
  <1>4. CASE Isolation(c)
    <2>1. PICK o \in {"PASS", "INCOMPLETE", "FAIL"} :
             Step(c, [run[c] EXCEPT !.outcome = o], "record")
      BY <1>4 DEF Isolation
    <2>2. [run[c] EXCEPT !.outcome = o] \in Locals
      BY DEF Locals
    <2> QED BY <1>0, <1>4, <2>1, <2>2, MoveTraced DEF Isolation, Labels, Locals, Blank
  <1>5. CASE Control(c)
    <2>1. CASE Raise(c, "INCOMPLETE")
      BY <1>5, <2>1, RaiseTraced DEF Control, Midway
    <2>2. CASE Case(c) \in EditLater /\ Goto(c, "read")
      <3>1. ~run[c].hasEdit /\ run[c].outcome = "none"
        BY <1>5, <2>2 DEF Control, Tidy
      <3> QED BY <1>0, <1>5, <2>2, <3>1, MoveTraced DEF Control, Labels
    <2>3. CASE Goto(c, "start")
      <3>1. run[c].outcome = "none"
        BY <1>5 DEF Control, Tidy
      <3> QED BY <1>0, <1>5, <2>3, <3>1, MoveTraced DEF Control, Labels
    <2> QED BY <1>5, <2>1, <2>2, <2>3 DEF Control
  <1>6. CASE StartNegative(c)
    <2> DEFINE named == [run[c] EXCEPT !.named = TRUE]
               lost == [named EXCEPT !.outcome = "INCOMPLETE"]
    <2>1. /\ named \in Locals /\ named.orig = run[c].orig /\ named.hasEdit = run[c].hasEdit
          /\ named.k = run[c].k /\ named.outcome = run[c].outcome /\ named.armed = run[c].armed
          /\ named.fresh = run[c].fresh
          /\ lost \in Locals /\ lost.orig = run[c].orig /\ lost.hasEdit = run[c].hasEdit
          /\ lost.k = run[c].k /\ lost.report = run[c].report /\ lost.outcome = "INCOMPLETE"
          /\ lost.named
      BY DEF Locals
    <2>2. pc[c] = "start" /\ (Step(c, named, "negative") \/ Step(c, lost, Finally(lost)))
      BY <1>6 DEF StartNegative, LeaveTry
    <2> HIDE DEF named, lost
    <2>3. Finally(lost) = "deleteNegative"
      BY <2>1 DEF Finally
    <2>4. CASE Step(c, named, "negative")
      <3>1. run[c].outcome = "none"
        BY <2>2 DEF Tidy
      <3> QED BY <1>0, <2>1, <2>2, <2>4, <3>1, MoveTraced DEF Labels
    <2>5. CASE Step(c, lost, "deleteNegative")
      BY <2>1, <2>2, <2>5, FailureTraced DEF Labels, Midway
    <2> QED BY <2>2, <2>3, <2>4, <2>5
  <1>7. CASE Negative(c)
    <2>1. ASSUME NEW kind \in {"INCOMPLETE", "FAIL"}, Raise(c, kind)
          PROVE  Traced(c)'
      BY <1>7, <2>1, RaiseTraced DEF Negative, Midway
    <2>2. CASE Step(c, run[c], Finally(run[c]))
      <3>1. /\ Finally(run[c]) \in {"deleteNegative", "restore", "recovery", "record"}
            /\ run[c].hasEdit => Finally(run[c]) \in {"deleteNegative", "restore"}
            /\ Finally(run[c]) \in Labels
        BY LabelTypes DEF Finally, AfterRemoval, AfterFinally
      <3>2. run[c].outcome = "none" /\ pc[c] = "negative"
        BY <1>7 DEF Negative, Tidy
      <3> QED BY <1>0, <2>2, <3>1, <3>2, MoveTraced
    <2> QED BY <1>7, <2>1, <2>2 DEF Negative, LeaveTry
  <1>8. CASE ReadOriginal(c)
    <2> DEFINE object == resource[Edited(c)]
               edit == [run[c] EXCEPT !.hasEdit = TRUE,
                                      !.orig = [data |-> object.data, uid |-> object.uid]]
               lost == [edit EXCEPT !.outcome = "INCOMPLETE"]
    <2>1. CASE Raise(c, "INCOMPLETE")
      BY <1>8, <2>1, RaiseTraced DEF ReadOriginal, Midway
    <2>2. CASE Step(c, edit, "compare") \/ Step(c, lost, Finally(lost))
      <3>1. /\ \/ run'[c] = edit /\ pc'[c] = "compare"
               \/ run'[c] = lost /\ pc'[c] = Finally(lost)
            /\ pc[c] = "read"
        BY <1>8, <2>2 DEF ReadOriginal, Step, TypeOK
      <3>2. /\ edit.hasEdit /\ edit.orig.data = object.data /\ edit.outcome = run[c].outcome
            /\ lost.hasEdit /\ lost.orig.data = object.data
        BY DEF Locals
      <3>3. run[c].outcome = "none" /\ lock = c
        BY <1>0, <3>1 DEF Tidy
      <3>4. object.data.by # c
        BY <3>1, BlankFacts, EditedType DEF Blank
      <3> HIDE DEF edit, lost
      <3>5. Finally(lost) \in {"deleteNegative", "restore"}
        BY <3>2 DEF Finally, AfterRemoval
      <3>6. HoldsLock(c)' /\ PatchTested(c)' /\ Tidy(c)'
        BY <3>1, <3>2, <3>3, <3>5 DEF HoldsLock, PatchTested, Tidy, Frame
      <3> QED BY <3>1, <3>2, <3>4, <3>6, BlankTraced DEF Blank
    <2> QED BY <1>8, <2>1, <2>2 DEF ReadOriginal, LeaveTry
  <1>9. CASE Compare(c)
    <2> DEFINE object == resource[Edited(c)]
               edit == [run[c] EXCEPT !.armed = TRUE]
               seen == [edit EXCEPT !.seen = object.rv]
    <2>0. /\ pc[c] = "compare" /\ run[c].outcome = "none" /\ run[c].hasEdit /\ lock = c
          /\ object.rv \in Nat
      BY <1>0, <1>9, EditedType DEF Compare, Tidy, TypeOK, Objects
    <2>1. CASE object.data = run[c].orig.data /\ Step(c, seen, "patch")
      <3>1. pc'[c] = "patch" /\ run'[c] = seen
        BY <2>1 DEF Step, TypeOK
      <3>2. /\ seen.hasEdit = run[c].hasEdit /\ seen.orig = run[c].orig /\ seen.armed
            /\ seen.k = run[c].k /\ seen.outcome = run[c].outcome /\ seen.seen = object.rv
        BY DEF Locals
      <3>3. Edited(c)' = Edited(c)
        BY <3>1, <3>2 DEF Edited, Case
      <3> HIDE DEF seen
      <3>4. HoldsLock(c)' /\ PatchTested(c)' /\ Tidy(c)'
        BY <2>0, <2>1, <3>1, <3>2, <3>3 DEF HoldsLock, PatchTested, Tidy, Frame
      <3>5. run'[c].orig.data.by # c
        BY <2>0, <3>1, <3>2, BlankFacts DEF Blank
      <3> QED BY <2>0, <3>4, <3>5, BlankTraced DEF Blank
    <2>2. ASSUME NEW kind \in {"INCOMPLETE", "FAIL"},
                 LeaveTry(c, [edit EXCEPT !.outcome = kind])
          PROVE  Traced(c)'
      <3> DEFINE x == [edit EXCEPT !.outcome = kind]
      <3>1. /\ x \in Locals /\ x.orig = run[c].orig /\ x.hasEdit = run[c].hasEdit
            /\ x.k = run[c].k /\ x.report = run[c].report /\ x.outcome = kind
        BY DEF Locals
      <3>2. Step(c, x, Finally(x))
        BY <2>2 DEF LeaveTry
      <3> HIDE DEF x
      <3>3. Finally(x) \in {"deleteNegative", "restore"} /\ Finally(x) \in Labels
        BY <2>0, <3>1, LabelTypes DEF Finally, AfterRemoval
      <3> QED BY <2>0, <3>1, <3>2, <3>3, FailureTraced DEF Midway
    <2> QED BY <1>9, <2>1, <2>2 DEF Compare
  <1>10. CASE Observe(c)
    <2>1. ASSUME NEW kind \in {"INCOMPLETE", "FAIL"}, Raise(c, kind)
          PROVE  Traced(c)'
      BY <1>10, <2>1, RaiseTraced DEF Observe, Midway
    <2>2. CASE Goto(c, "rotate")
      <3>1. run[c].outcome = "none"
        BY <1>10 DEF Observe, Tidy
      <3> QED BY <1>0, <1>10, <2>2, <3>1, MoveTraced DEF Observe, Labels
    <2> QED BY <1>10, <2>1, <2>2 DEF Observe
  <1>11. CASE Rotate(c)
    <2> DEFINE x == [run[c] EXCEPT !.fresh = FALSE]
    <2>0. /\ x \in Locals /\ x.orig = run[c].orig /\ x.hasEdit = run[c].hasEdit
          /\ x.k = run[c].k /\ x.armed = run[c].armed /\ x.outcome = run[c].outcome
          /\ x.report = run[c].report /\ ~x.fresh
      BY DEF Locals
    <2>1. \/ pc[c] = "rotate" /\ (Step(c, x, "serving") \/ Raise(c, "INCOMPLETE"))
          \/ pc[c] = "rerotate" /\ (Step(c, x, "reserving") \/ Abandon(c))
      BY <1>11 DEF Rotate
    <2> HIDE DEF x
    <2>2. CASE pc[c] = "rotate" /\ Step(c, x, "serving")
      <3>1. run[c].outcome = "none"
        BY <2>2 DEF Tidy
      <3> QED BY <1>0, <2>0, <2>2, <3>1, MoveTraced DEF Labels
    <2>3. CASE pc[c] = "rerotate" /\ Step(c, x, "reserving")
      BY <1>0, <2>0, <2>3, MoveTraced DEF Labels
    <2> QED BY <2>1, <2>2, <2>3, RaiseTraced, AbandonTraced DEF Midway
  <1>12. CASE Serving(c)
    <2>1. CASE pc[c] = "serving" /\ Goto(c, IF Case(c) \in EditFirst THEN "control" ELSE "start")
      <3>1. run[c].outcome = "none"
        BY <2>1 DEF Tidy
      <3>2. Case(c)' = Case(c)
        BY <2>1 DEF Goto, Step, TypeOK, Case
      <3> QED BY <1>0, <2>1, <3>1, <3>2, MoveTraced DEF Labels, EditFirst, EditLater
    <2>2. CASE /\ pc[c] = "reserving" /\ run[c].fresh
               /\ Step(c, [run[c] EXCEPT !.restoration = "PASS"], AfterFinally(run[c]))
      <3> DEFINE x == [run[c] EXCEPT !.restoration = "PASS"]
      <3>1. /\ x \in Locals /\ x.orig = run[c].orig /\ x.hasEdit = run[c].hasEdit
            /\ x.k = run[c].k /\ x.outcome = run[c].outcome /\ x.report = run[c].report
        BY DEF Locals
      <3>2. Step(c, x, AfterFinally(run[c]))
        BY <2>2
      <3> HIDE DEF x
      <3>3. /\ AfterFinally(run[c]) \in Labels
            /\ AfterFinally(run[c]) = IF run[c].outcome = "none" THEN "recovery" ELSE "record"
        BY DEF AfterFinally, Labels
      <3> QED BY <1>0, <2>2, <3>1, <3>2, <3>3, MoveTraced
    <2>3. CASE pc[c] = "serving" /\ Raise(c, "INCOMPLETE")
      BY <2>3, RaiseTraced DEF Midway
    <2>4. CASE pc[c] = "reserving" /\ Abandon(c)
      BY <2>4, AbandonTraced DEF Midway
    <2> QED BY <1>12, <2>1, <2>2, <2>3, <2>4 DEF Serving, ServingReady
  <1>13. CASE DeleteNegative(c)
    <2>1. CASE pc[c] = "deleteNegative" /\ Goto(c, AfterRemoval(run[c]))
      <3>1. /\ AfterRemoval(run[c]) \in Labels
            /\ AfterRemoval(run[c]) =
                  IF run[c].hasEdit THEN "restore"
                  ELSE IF run[c].outcome = "none" THEN "recovery" ELSE "record"
        BY LabelTypes DEF AfterRemoval, AfterFinally
      <3> QED BY <1>0, <2>1, <3>1, MoveTraced
    <2>2. CASE pc[c] = "deleteNegative" /\ Abandon(c)
      BY <2>2, AbandonTraced DEF Midway
    <2> QED BY <1>13, <2>1, <2>2 DEF DeleteNegative
  <1>14. CASE Restore(c)
    <2> DEFINE object == resource[Edited(c)]
               disarmed == [run[c] EXCEPT !.armed = FALSE]
               seen == [run[c] EXCEPT !.seen = object.rv]
    <2>0. pc[c] = "restore" /\ lock = c /\ object.rv \in Nat
      BY <1>0, <1>14, EditedType DEF Restore, TypeOK, Objects
    <2>1. CASE ~run[c].armed /\ Goto(c, "rerotate")
      BY <1>0, <2>0, <2>1, MoveTraced DEF Labels
    <2>2. CASE object.data = run[c].orig.data /\ Step(c, disarmed, "rerotate")
      <3>1. Modifies(c) /\ InHand(run[c], pc[c]) => Lingering(run[c], pc[c])
        <4>1. run[c].orig.data.by # c
          BY <2>0 DEF Traced, Copied
        <4> QED BY <2>0, <2>2, <4>1 DEF Modifies, Traced, Held
      <3>2. /\ disarmed \in Locals /\ disarmed.hasEdit = run[c].hasEdit
            /\ disarmed.orig = run[c].orig /\ disarmed.k = run[c].k
            /\ disarmed.outcome = run[c].outcome /\ disarmed.report = run[c].report
        BY DEF Locals
      <3> HIDE DEF disarmed
      <3> QED BY <1>0, <2>0, <2>2, <3>1, <3>2, MoveTraced DEF Labels
    <2>3. CASE /\ run[c].armed /\ object.data = Change(c)
               /\ Step(c, seen, "unpatch")
      <3>1. pc'[c] = "unpatch" /\ run'[c] = seen
        BY <2>3 DEF Step, TypeOK
      <3>2. /\ seen \in Locals /\ seen.hasEdit = run[c].hasEdit /\ seen.orig = run[c].orig
            /\ seen.k = run[c].k /\ seen.armed = run[c].armed /\ seen.seen = object.rv
            /\ seen.outcome = run[c].outcome /\ seen.report = run[c].report
        BY <2>0 DEF Locals
      <3>3. Edited(c)' = Edited(c) /\ Change(c)' = Change(c)
        BY <3>1, <3>2 DEF Edited, Case, Change
      <3>4. Step(c, seen, "unpatch") /\ run[c].armed
        BY <2>3
      <3> HIDE DEF seen
      <3>5. PatchTested(c)'
        BY <2>0, <2>3, <3>1, <3>2, <3>3 DEF PatchTested, Frame
      <3> QED BY <1>0, <2>0, <3>2, <3>4, <3>5, MoveTraced DEF Labels
    <2>4. CASE Abandon(c)
      BY <2>0, <2>4, AbandonTraced DEF Midway
    <2> QED BY <1>14, <2>1, <2>2, <2>3, <2>4 DEF Restore
  <1>15. CASE Unobserve(c)
    <2>1. CASE pc[c] = "unobserve" /\ Step(c, [run[c] EXCEPT !.armed = FALSE], "rerotate")
      <3>1. [run[c] EXCEPT !.armed = FALSE] \in Locals
        BY DEF Locals
      <3> QED BY <1>0, <2>1, <3>1, MoveTraced DEF Labels, Locals
    <2>2. CASE pc[c] = "unobserve" /\ Abandon(c)
      BY <2>2, AbandonTraced DEF Midway
    <2> QED BY <1>15, <2>1, <2>2 DEF Unobserve
  <1>16. CASE Recovery(c)
    <2>1. \A o \in {"PASS", "INCOMPLETE"} : [run[c] EXCEPT !.outcome = o] \in Locals
      BY DEF Locals
    <2> QED BY <1>0, <1>16, <2>1, MoveTraced DEF Recovery, Labels, Locals, Blank
  <1>17. CASE Record(c)
    <2>0. pc[c] = "record" /\ lock = c
      BY <1>0, <1>17 DEF Record
    <2>1. CASE run[c].outcome = "PASS" /\ Step(c, [run[c] EXCEPT !.k = @ + 1], "case")
      <3> DEFINE x == [run[c] EXCEPT !.k = @ + 1]
      <3>1. /\ x \in Locals /\ x.hasEdit = run[c].hasEdit /\ x.orig = run[c].orig
        BY DEF Locals
      <3>2. Step(c, x, "case")
        BY <2>1
      <3> HIDE DEF x
      <3>3. ~Modifies(c)
        BY <2>0, <2>1 DEF Modifies, Traced, Held
      <3> QED BY <2>0, <2>1, <3>1, <3>2, <3>3, MoveTraced DEF Labels
    <2>2. CASE run[c].outcome = "PASS" /\ Step(c, [run[c] EXCEPT !.report = "PASS"], "cleanup")
      <3> DEFINE x == [run[c] EXCEPT !.report = "PASS"]
      <3>1. /\ x \in Locals /\ x.hasEdit = run[c].hasEdit /\ x.orig = run[c].orig
            /\ x.k = run[c].k
        BY DEF Locals
      <3>2. Step(c, x, "cleanup")
        BY <2>2
      <3> HIDE DEF x
      <3> QED BY <2>0, <2>2, <3>1, <3>2, MoveTraced DEF Labels
    <2>3. ASSUME NEW rep \in {"INCOMPLETE", "FAIL"},
                 Step(c, [run[c] EXCEPT !.report = rep], Exit(run[c]))
          PROVE  Traced(c)'
      <3> DEFINE x == [run[c] EXCEPT !.report = rep]
      <3>1. /\ x \in Locals /\ x.hasEdit = run[c].hasEdit /\ x.orig = run[c].orig
            /\ x.k = run[c].k /\ x.report = rep
        BY DEF Locals
      <3>2. Step(c, x, Exit(run[c]))
        BY <2>3
      <3> HIDE DEF x
      <3>3. Exit(run[c]) \in {"done", "release"} /\ Exit(run[c]) \in Labels
        BY DEF Exit, Labels
      <3> QED BY <2>0, <3>1, <3>2, <3>3, MoveTraced
    <2> QED BY <1>17, <2>1, <2>2, <2>3 DEF Record
  <1>18. CASE Cleanup(c)
    <2>1. [run[c] EXCEPT !.report = "FAIL"] \in Locals
      BY DEF Locals
    <2> QED BY <1>0, <1>18, <2>1, MoveTraced DEF Cleanup, Labels, Locals, Blank
  <1>19. CASE Kill(c)
    <2>1. Step(c, run[c], "killed")
      BY <1>0, <1>19 DEF Kill
    <2> QED BY <2>1, MoveTraced DEF Labels
  <1> QED BY <1>1, <1>2, <1>3, <1>4, <1>5, <1>6, <1>7, <1>8, <1>9, <1>10, <1>11,
             <1>12, <1>13, <1>14, <1>15, <1>16, <1>17, <1>18, <1>19 DEF Local


\* What a step of c on its own program leaves of another controller's traces.
LEMMA LocalOrigin ==
    ASSUME TypeOK, NEW c \in Controllers, Local(c)
    PROVE  \/ run'[c].orig.data = run[c].orig.data
           \/ run'[c].orig.data.by = Nobody
           \/ pc[c] = "read" /\ run'[c].orig.data = resource[Edited(c)].data
  <1> run[c] \in Locals
    BY DEF TypeOK
  <1>0. ASSUME NEW x, NEW label, Step(c, x, label)
        PROVE  run'[c] = x
    BY <1>0 DEF Step, TypeOK
  <1>1. CASE \E kind \in {"INCOMPLETE", "FAIL"} : Raise(c, kind)
    BY <1>0, <1>1 DEF Raise, LeaveTry, Locals
  <1>2. CASE Abandon(c)
    BY <1>0, <1>2 DEF Abandon, Locals
  <1> USE DEF Goto, LeaveTry, Locals
  <1>3. CASE Confirm(c) \/ Release(c) \/ Isolation(c)
    BY <1>0, <1>1, <1>2, <1>3 DEF Confirm, Release, Isolation
  <1>4. CASE Control(c) \/ Negative(c)
    BY <1>0, <1>1, <1>2, <1>4 DEF Control, Negative
  <1>5. CASE Observe(c) \/ Rotate(c)
    BY <1>0, <1>1, <1>2, <1>5 DEF Observe, Rotate
  <1>6. CASE Serving(c) \/ DeleteNegative(c)
    BY <1>0, <1>1, <1>2, <1>6 DEF Serving, DeleteNegative
  <1>7. CASE Unobserve(c) \/ Recovery(c)
    BY <1>0, <1>1, <1>2, <1>7 DEF Unobserve, Recovery
  <1>8. CASE Record(c)
    BY <1>0, <1>1, <1>2, <1>8 DEF Record
  <1>9. CASE Cleanup(c) \/ Kill(c)
    BY <1>0, <1>1, <1>2, <1>9 DEF Cleanup, Kill
  <1>10. CASE StartNegative(c)
    BY <1>0, <1>1, <1>2, <1>10 DEF StartNegative
  <1>11. CASE Compare(c)
    BY <1>0, <1>1, <1>2, <1>11 DEF Compare
  <1>12. CASE Restore(c)
    BY <1>0, <1>1, <1>2, <1>12 DEF Restore
  <1>13. CASE ReadOriginal(c)
    <2> DEFINE object == resource[Edited(c)]
               edit == [run[c] EXCEPT !.hasEdit = TRUE,
                                      !.orig = [data |-> object.data, uid |-> object.uid]]
               lost == [edit EXCEPT !.outcome = "INCOMPLETE"]
    <2>1. edit.orig.data = object.data /\ lost.orig.data = object.data
      OBVIOUS
    <2>2. \/ pc[c] = "read" /\ run'[c] \in {edit, lost}
          \/ Raise(c, "INCOMPLETE")
      BY <1>0, <1>13 DEF ReadOriginal
    <2> QED BY <1>1, <2>1, <2>2
  <1>14. CASE StartCase(c)
    <2> DEFINE new == [Unstarted EXCEPT !.holds = run[c].holds, !.k = run[c].k]
               stop == [new EXCEPT !.outcome = "INCOMPLETE"]
    <2>1. new.orig.data.by = Nobody /\ stop.orig.data.by = Nobody
      BY DEF Unstarted, Reviewed
    <2>2. run'[c] \in {new, stop}
      BY <1>0, <1>14 DEF StartCase
    <2> QED BY <2>1, <2>2
  <1> QED
    BY <1>1, <1>2, <1>3, <1>4, <1>5, <1>6, <1>7, <1>8, <1>9, <1>10, <1>11, <1>12, <1>13, <1>14
    DEF Local

\* A controller without the lock can only have left a modification behind.
LEMMA UnlockedFacts ==
    ASSUME NEW d \in Controllers, Traced(d), pc[d] \in Unlocked
    PROVE  \A r \in Resources : /\ Carried(d, resource[r].data)
                                /\ resource[r].data.by = d => pc[d] \in Past
  BY DEF Traced, Held, Carried, Lingering, InHand, Unlocked, Past, Undoing, Standing

LEMMA LocalOthers ==
    ASSUME TypeOK, TypeOK', NEW c \in Controllers, NEW d \in Controllers, d # c,
           Traced(c), Traced(d), Local(c)
    PROVE  Traced(d)'
  <1>1. Untouched(d) /\ Frame /\ inflight' = inflight
    BY LocalFrame, RunnerUntouched DEF Local, Runner
  <1>2. Same(d)
    BY <1>1 DEF Same, Untouched
  <1>3. ASSUME NEW e \in Controllers
        PROVE  \/ run'[e].orig.data = run[e].orig.data
               \/ /\ Carried(d, run'[e].orig.data)
                  /\ run'[e].orig.data.by = d => pc[d] \in Past
    <2>1. CASE e # c
      BY <2>1, RunnerUntouched DEF Local, Runner, Untouched
    <2>2. CASE pc[c] = "read" /\ run'[c].orig.data = resource[Edited(c)].data
      <3>1. pc[d] \in Unlocked
        BY <2>2 DEF Traced, HoldsLock, Unlocked
      <3> QED BY <2>1, <2>2, <3>1, UnlockedFacts, EditedType
    <2>3. CASE run'[c].orig.data.by = Nobody
      BY <2>1, <2>3, ControllersAssumption DEF Carried
    <2> QED BY <2>1, <2>2, <2>3, LocalOrigin
  <1> QED BY <1>1, <1>2, <1>3, BystanderTraced DEF Frame, Untouched

LEMMA AcquireTraced ==
    ASSUME TypeOK, TypeOK', NEW c \in Controllers, \A d \in Controllers : Traced(d),
           NEW d \in Controllers, Acquire(c)
    PROVE  Traced(d)'
  <1>1. /\ UNCHANGED <<resource, served, inflight>> /\ run' = run
        /\ lock' = lock \/ lock = Nobody
        /\ lock' = lock \/ lock' = c
        /\ pc[c] = "acquire" /\ pc'[c] \in {"confirm", "release"}
        /\ pc'[c] = "confirm" => lock' = c
    BY DEF Acquire, Goto, Step, TypeOK
  <1>2. CASE d # c
    <2>1. Same(d) /\ run'[d] = run[d]
      BY <1>1, <1>2, RunnerUntouched DEF Runner, Same, Untouched
    <2>2. lock = d => lock' = d
      BY <1>1, ControllersAssumption
    <2> QED BY <1>1, <2>1, <2>2, BystanderTraced DEF Traced
  <1>3. CASE d = c
    <2>1. /\ \A r \in Resources : resource[r].data.by # c /\ served[r].data.by # c
          /\ \A q \in inflight : q.data.by # c
          /\ \A e \in Controllers : run[e].orig.data.by # c
      BY <1>1, BlankFacts DEF Blank
    <2> QED BY <1>1, <1>3, <2>1 DEF Traced, HoldsLock, PatchTested, Tidy, Held, Shown,
                Requested, Copied, Carried, Unlocked, Trying, Standing
  <1> QED BY <1>2, <1>3

LEMMA UnlockTraced ==
    ASSUME TypeOK, TypeOK', NEW c \in Controllers, \A d \in Controllers : Traced(d),
           NEW d \in Controllers, Unlock(c)
    PROVE  Traced(d)'
  <1> DEFINE x == [run[c] EXCEPT !.holds = FALSE]
             y == [run[c] EXCEPT !.report = "FAIL"]
  <1>1. /\ UNCHANGED <<resource, served, inflight>> /\ pc[c] = "unlock" /\ lock = c
        /\ lock' \in {lock, Nobody}
        /\ Step(c, x, "done") \/ Step(c, y, "done")
    BY DEF Unlock, Traced, HoldsLock, Unlocked
  <1>2. /\ x.orig = run[c].orig /\ x.report = run[c].report
        /\ y.orig = run[c].orig /\ y.report = "FAIL"
    BY DEF TypeOK, Locals
  <1> HIDE DEF x, y
  <1>3. /\ pc'[c] = "done" /\ run'[c].orig = run[c].orig
        /\ run'[c].report \in {run[c].report, "FAIL"}
    BY <1>1, <1>2 DEF Step, TypeOK
  <1>4. \A e \in Controllers : e # c => Untouched(e)
    BY RunnerUntouched DEF Runner
  <1>5. \A e \in Controllers : run'[e].orig = run[e].orig
    BY <1>3, <1>4 DEF Untouched
  <1>6. CASE d # c
    BY <1>1, <1>4, <1>5, <1>6, BystanderTraced DEF Traced, Untouched, Same
  <1>7. CASE d = c
    <2>1. Lingering(run[c], pc[c]) => Lingering(run'[c], pc'[c])
      BY <1>1, <1>3 DEF Lingering, Past
    <2>2. ~InHand(run[c], pc[c]) /\ ~OnShow(run[c], pc[c])
      BY <1>1 DEF InHand, OnShow, Standing, Undoing
    <2>3. Traced(c)
      OBVIOUS
    <2>4. Held(c)' /\ Shown(c)'
      BY <1>1, <1>3, <2>1, <2>2, <2>3 DEF Traced, Held, Shown
    <2>5. Requested(c)' /\ Copied(c)'
      BY <1>1, <1>3, <1>5, <2>1, <2>3 DEF Traced, Requested, Copied, Carried, Past
    <2>6. HoldsLock(c)' /\ PatchTested(c)' /\ Tidy(c)'
      BY <1>3 DEF HoldsLock, PatchTested, Tidy, Unlocked, Trying, Standing
    <2> QED BY <1>7, <2>4, <2>5, <2>6 DEF Traced
  <1> QED BY <1>6, <1>7

\* A patch writes, or leaves behind, data of the version of the original, and only
\* over the data its test stands for.
LEMMA CallFacts ==
    ASSUME TypeOK, LatestReviewKept, NEW c \in Controllers, Traced(c),
           pc[c] \in {"patch", "unpatch"},
           NEW data, data = IF pc[c] = "patch" THEN Change(c) ELSE run[c].orig.data,
           Commits(c, data) \/ Drops \/ Delays(c, data), UNCHANGED <<reviewed, served>>
    PROVE  /\ \A r \in Resources : r # Edited(c) => resource'[r] = resource[r]
           /\ \/ resource' = resource
              \/ /\ resource'[Edited(c)].rv > resource[Edited(c)].rv
                 /\ resource'[Edited(c)].data = data
                 /\ inflight' = inflight
           /\ \A r \in Resources : Advanced(r)
           /\ \A q \in inflight' : \/ q \in inflight
                                   \/ /\ q.name \in Resources /\ q.data = data
                                      /\ resource' = resource
                                      /\ q.rv <= resource[q.name].rv
                                      /\ q.rv = resource[q.name].rv =>
                                            q.data.version = reviewed[q.name]
  <1> DEFINE e == Edited(c)
  <1>0. e \in Resources /\ resource[e].rv \in Nat
    BY EditedType DEF TypeOK, Objects
  <1>1. /\ run[c].seen <= resource[e].rv
        /\ resource[e].rv = run[c].seen => data.version = reviewed[e]
    <2>1. data.version = run[c].orig.data.version
      BY DEF Change
    <2>2. resource[e].rv = run[c].seen => resource[e].data.version = run[c].orig.data.version
      BY DEF Traced, PatchTested, Change
    <2> QED BY <1>0, <2>1, <2>2 DEF Traced, PatchTested, LatestReviewKept
  <1>2. CASE Commits(c, data)
    <2>1. /\ resource'[e].data = data /\ resource'[e].rv = resource[e].rv + 1
          /\ \A s \in Resources : s # e => resource'[s] = resource[s]
      BY <1>0, <1>2, WriteFacts DEF Commits
    <2>2. data.version = reviewed[e] /\ inflight' = inflight
      BY <1>1, <1>2 DEF Commits, PatchTests
    <2> QED BY <1>0, <2>1, <2>2 DEF Advanced
  <1>3. CASE Drops
    BY <1>3 DEF Drops, Advanced
  <1>4. CASE Delays(c, data)
    <2>1. /\ inflight' = inflight \cup {[name |-> e, rv |-> run[c].seen, data |-> data]}
          /\ resource' = resource
      BY <1>4 DEF Delays
    <2> QED BY <1>0, <1>1, <2>1 DEF Advanced
  <1> QED BY <1>2, <1>3, <1>4

LEMMA PatchTraced ==
    ASSUME TypeOK, TypeOK', LatestReviewKept, NEW c \in Controllers, Traced(c), PassInv(c),
           Patch(c)
    PROVE  Traced(c)'
  <1> DEFINE e == Edited(c)
             x == [run[c] EXCEPT !.outcome = "INCOMPLETE"]
  <1>0. /\ pc[c] = "patch" /\ lock = c /\ run[c].hasEdit /\ run[c].armed /\ e \in Resources
        /\ run[c].outcome = "none" /\ run[c].report # "PASS"
        /\ UNCHANGED <<lock, reviewed, served>>
    BY EditedType DEF Patch, Traced, HoldsLock, Tidy, PassInv, Unlocked, Trying
  <1>1. /\ \A r \in Resources : resource[r].data.by # c /\ served[r].data.by # c
        /\ \A q \in inflight : q.data.by # c
        /\ \A d \in Controllers : run[d].orig.data.by # c
    BY <1>0, BlankFacts DEF Blank
  <1>2. Change(c).by = c /\ Change(c).version = run[c].orig.data.version
    BY DEF Change
  <1>3. /\ \A r \in Resources : \/ resource'[r] = resource[r]
                                \/ (r = e /\ resource'[r].data = Change(c))
        /\ \A q \in inflight' : q \in inflight \/ q.data = Change(c)
    <2>1. Commits(c, Change(c)) \/ Drops \/ Delays(c, Change(c))
      BY DEF Patch
    <2> HIDE DEF x
    <2> QED BY <1>0, <2>1, CallFacts
  <1>4. /\ run'[c].orig = run[c].orig /\ run'[c].k = run[c].k
        /\ run'[c].hasEdit /\ run'[c].armed
        /\ \/ inflight' = inflight /\ pc'[c] = "observe" /\ run'[c].outcome = "none"
           \/ Lingering(run'[c], pc'[c]) /\ pc'[c] \in {"deleteNegative", "restore"}
    <2>1. \/ Commits(c, Change(c)) /\ Step(c, run[c], "observe")
          \/ Step(c, x, Finally(x))
      BY DEF Patch, Goto, Raise, LeaveTry
    <2>2. /\ x.hasEdit /\ x.orig = run[c].orig /\ x.k = run[c].k /\ x.armed
          /\ x.report # "PASS" /\ x.outcome = "INCOMPLETE"
      BY <1>0 DEF TypeOK, Locals
    <2> HIDE DEF x
    <2>3. Finally(x) \in {"deleteNegative", "restore"}
      BY <2>2 DEF Finally, AfterRemoval
    <2>4. Lingering(x, Finally(x))
      BY <2>2, <2>3 DEF Lingering, Undoing
    <2> QED BY <1>0, <2>1, <2>2, <2>3, <2>4 DEF Step, TypeOK, Commits
  <1>5. Edited(c)' = e
    BY <1>4 DEF Edited, Case
  <1>6. InHand(run'[c], pc'[c]) \/ Lingering(run'[c], pc'[c])
    BY <1>4 DEF InHand, Standing
  <1>7. HoldsLock(c)' /\ PatchTested(c)' /\ Tidy(c)'
    BY <1>0, <1>4 DEF HoldsLock, PatchTested, Tidy, Trying, Standing
  <1>8. Held(c)' /\ Shown(c)'
    BY <1>0, <1>1, <1>2, <1>3, <1>4, <1>5, <1>6 DEF Held, Shown
  <1>9. Requested(c)'
    <2> SUFFICES ASSUME NEW q \in inflight', q.data.by = c
                 PROVE  /\ q.data.version = run'[c].orig.data.version
                        /\ Lingering(run'[c], pc'[c])
      BY DEF Requested, Carried
    <2> QED BY <1>1, <1>2, <1>3, <1>4
  <1>10. Copied(c)'
    <2>1. \A d \in Controllers : run'[d].orig = run[d].orig
      BY <1>4, RunnerUntouched DEF Runner, Untouched
    <2> QED BY <1>1, <2>1 DEF Copied, Carried
  <1> QED BY <1>7, <1>8, <1>9, <1>10 DEF Traced

LEMMA UnpatchTraced ==
    ASSUME TypeOK, TypeOK', LatestReviewKept, NEW c \in Controllers, Traced(c), PassInv(c),
           Unpatch(c)
    PROVE  Traced(c)'
  <1> DEFINE e == Edited(c)
             original == run[c].orig.data
             x == [run[c] EXCEPT !.restoration = "FAIL", !.outcome = "FAIL"]
  <1>0. /\ pc[c] = "unpatch" /\ lock = c /\ e \in Resources /\ run[c].report # "PASS"
        /\ UNCHANGED <<lock, reviewed, served>>
    BY EditedType DEF Unpatch, Traced, HoldsLock, PassInv, Unlocked
  <1>1. original.by # c
    BY <1>0 DEF Traced, Copied, Past
  <1>2. /\ \A r \in Resources : resource'[r] = resource[r] \/ resource'[r].data.by # c
        /\ \A q \in inflight' : q \in inflight \/ q.data.by # c
    <2>1. Commits(c, original) \/ Drops \/ Delays(c, original)
      BY DEF Unpatch
    <2> QED BY <1>0, <1>1, <2>1, CallFacts
  <1>3. /\ run'[c].orig = run[c].orig
        /\ \/ /\ pc'[c] = "unobserve" /\ run'[c] = run[c]
              /\ resource'[e].data.by # c
           \/ pc'[c] = "record" /\ Lingering(run'[c], pc'[c])
    <2>1. \/ Commits(c, original) /\ Step(c, run[c], "unobserve")
          \/ Step(c, x, "record")
      BY DEF Unpatch, Abandon, Goto
    <2>2. x.orig = run[c].orig /\ x.report # "PASS" /\ x.outcome = "FAIL"
      BY <1>0 DEF TypeOK, Locals
    <2>3. Lingering(x, "record")
      BY <2>2 DEF Lingering, Undoing
    <2>4. Commits(c, original) => resource'[e].data.by # c
      BY <1>0, <1>1, WriteFacts DEF Commits
    <2> HIDE DEF x
    <2> QED BY <1>0, <2>1, <2>2, <2>3, <2>4 DEF Step, TypeOK
  <1>4. Lingering(run[c], pc[c]) => Lingering(run'[c], pc'[c])
    BY <1>0, <1>3 DEF Lingering, Undoing, Past
  <1>5. HoldsLock(c)' /\ PatchTested(c)' /\ Tidy(c)'
    BY <1>0, <1>3 DEF HoldsLock, PatchTested, Tidy, Trying, Standing
  <1>6. Held(c)'
    <2> SUFFICES ASSUME NEW r \in Resources, resource'[r].data.by = c
                 PROVE  /\ resource'[r].data.version = run'[c].orig.data.version
                        /\ Lingering(run'[c], pc'[c])
      BY DEF Held
    <2>1. resource'[r] = resource[r]
      BY <1>2
    <2> QED BY <1>3, <1>4, <2>1 DEF Traced, Held
  <1>7. Shown(c)'
    <2>1. OnShow(run[c], pc[c]) => OnShow(run'[c], pc'[c]) \/ Lingering(run'[c], pc'[c])
      BY <1>3 DEF OnShow, Undoing
    <2> QED BY <1>0, <1>4, <2>1 DEF Traced, Shown
  <1>8. Requested(c)'
    <2> SUFFICES ASSUME NEW q \in inflight', q.data.by = c
                 PROVE  /\ q.data.version = run'[c].orig.data.version
                        /\ Lingering(run'[c], pc'[c])
      BY DEF Requested, Carried
    <2> QED BY <1>2, <1>3, <1>4 DEF Traced, Requested, Carried
  <1>9. Copied(c)'
    <2>1. \A d \in Controllers : run'[d].orig = run[d].orig
      BY <1>3, RunnerUntouched DEF Runner, Untouched
    <2>2. \A d \in Controllers : run[d].orig.data.by # c
      BY <1>0 DEF Traced, Copied, Past
    <2> QED BY <2>1, <2>2 DEF Copied, Carried
  <1> QED BY <1>5, <1>6, <1>7, <1>8, <1>9 DEF Traced


LEMMA CallOthers ==
    ASSUME TypeOK, TypeOK', LatestReviewKept, NEW c \in Controllers, NEW d \in Controllers,
           d # c, Traced(c), Traced(d), Patch(c) \/ Unpatch(c)
    PROVE  Traced(d)'
  <1> DEFINE data == IF pc[c] = "patch" THEN Change(c) ELSE run[c].orig.data
             x == [run[c] EXCEPT !.outcome = "INCOMPLETE"]
             y == [run[c] EXCEPT !.restoration = "FAIL", !.outcome = "FAIL"]
  <1>1. /\ pc[c] \in {"patch", "unpatch"} /\ UNCHANGED <<lock, reviewed, served>>
        /\ Commits(c, data) \/ Drops \/ Delays(c, data)
    BY DEF Patch, Unpatch
  <1>2. Carried(d, data)
    <2>1. CASE pc[c] = "patch"
      BY <2>1 DEF Change, Carried
    <2>2. CASE pc[c] # "patch"
      BY <2>2 DEF Traced, Copied
    <2> QED BY <2>1, <2>2
  <1>3. \A e \in Controllers : run'[e].orig.data = run[e].orig.data
    <2>1. \/ \E label : Step(c, run[c], label) \/ Step(c, x, label) \/ Step(c, y, label)
      BY DEF Patch, Unpatch, Goto, Raise, LeaveTry, Abandon
    <2>2. x.orig = run[c].orig /\ y.orig = run[c].orig
      BY DEF TypeOK, Locals
    <2> HIDE DEF x, y
    <2>3. run'[c].orig = run[c].orig
      BY <2>1, <2>2 DEF Step, TypeOK
    <2> QED BY <2>3, RunnerUntouched DEF Runner, Untouched
  <1>4. Untouched(d) /\ Same(d)
    BY RunnerUntouched DEF Runner, Untouched, Same
  <1> HIDE DEF data
  <1>5. /\ \A r \in Resources :
              \/ resource'[r] = resource[r]
              \/ resource'[r].rv > resource[r].rv /\ Carried(d, resource'[r].data)
        /\ \A q \in inflight' : q \in inflight \/ Carried(d, q.data)
    BY <1>1, <1>2, CallFacts DEF data
  <1> QED BY <1>1, <1>3, <1>4, <1>5, BystanderTraced DEF Untouched

LEMMA RunnerTraced ==
    ASSUME TypeOK, TypeOK', LatestReviewKept, Overtaken, EachPasses,
           \A d \in Controllers : Traced(d), NEW c \in Controllers, Runner(c) \/ Kill(c)
    PROVE  /\ \A d \in Controllers : Traced(d)'
           /\ LatestReviewKept' /\ Overtaken'
  <1>0. PassInv(c)
    BY DEF EachPasses
  <1>1. CASE Local(c)
    <2>1. \A d \in Controllers : Traced(d)'
      BY <1>0, <1>1, LocalTraced, LocalOthers
    <2>2. Frame /\ inflight' = inflight
      BY <1>1, LocalFrame
    <2> QED BY <2>1, <2>2 DEF Frame, LatestReviewKept, Overtaken
  <1>2. CASE Acquire(c) \/ Unlock(c)
    <2>1. \A d \in Controllers : Traced(d)'
      BY <1>2, AcquireTraced, UnlockTraced
    <2>2. UNCHANGED <<resource, reviewed, inflight>>
      BY <1>2 DEF Acquire, Unlock
    <2> QED BY <2>1, <2>2 DEF LatestReviewKept, Overtaken
  <1>3. CASE Patch(c) \/ Unpatch(c)
    <2>1. \A d \in Controllers : Traced(d)'
      BY <1>0, <1>3, PatchTraced, UnpatchTraced, CallOthers
    <2> DEFINE data == IF pc[c] = "patch" THEN Change(c) ELSE run[c].orig.data
    <2>2. /\ pc[c] \in {"patch", "unpatch"} /\ UNCHANGED <<reviewed, served>>
          /\ Commits(c, data) \/ Drops \/ Delays(c, data)
      BY <1>3 DEF Patch, Unpatch
    <2>3. /\ \A r \in Resources : Advanced(r)
          /\ \A q \in inflight' : \/ q \in inflight
                                  \/ /\ q.name \in Resources /\ resource' = resource
                                     /\ q.rv <= resource[q.name].rv
                                     /\ q.rv = resource[q.name].rv =>
                                           q.data.version = reviewed[q.name]
      BY <2>2, CallFacts
    <2>4. LatestReviewKept' /\ Overtaken'
      BY <2>2, <2>3, VersionsKept
    <2> QED BY <2>1, <2>4
  <1> QED BY <1>1, <1>2, <1>3 DEF Runner, Local

LEMMA WritersTraced ==
    ASSUME LateInv, TypeOK', UNCHANGED <<lock, served, pc, run>>,
           \A r \in Resources :
              \/ resource'[r] = resource[r]
              \/ /\ resource'[r].rv > resource[r].rv
                 /\ \A d \in Controllers : Carried(d, resource'[r].data),
           inflight' \subseteq inflight, NEW d \in Controllers
    PROVE  Traced(d)'
  <1>1. Traced(d) /\ TypeOK
    BY DEF LateInv
  <1> QED BY <1>1, BystanderTraced DEF Same

LEMMA RecoverTraced ==
    ASSUME LateInv, TypeOK', NEW c \in Controllers, Recover(c)
    PROVE  /\ \A d \in Controllers : Traced(d)'
           /\ LatestReviewKept' /\ Overtaken'
  <1>0. TypeOK /\ LatestReviewKept /\ Overtaken /\ \A d \in Controllers : Traced(d)
    BY DEF LateInv
  <1>1. /\ lock = c /\ pc[c] \in {"done", "killed"} /\ pc' = pc
        /\ UNCHANGED <<reviewed, inflight>>
        /\ \A d \in Controllers : run'[d] = [run[d] EXCEPT !.fresh = TRUE]
        /\ \A r \in Resources : served'[r].data = resource'[r].data
    BY DEF Recover
  <1>2. ASSUME NEW r \in Resources
        PROVE  \/ resource'[r] = resource[r]
               \/ /\ resource'[r].rv > resource[r].rv
                  /\ resource'[r].data = run[c].orig.data
                  /\ resource'[r].data.version = reviewed[r]
    <2>1. CASE resource[r].data.by = c
      <3>1. /\ resource'[r].data = run[c].orig.data
            /\ resource'[r].rv = resource[r].rv + 1
        BY <2>1 DEF Recover
      <3>2. resource[r].rv \in Nat
        BY <1>0 DEF TypeOK, Objects
      <3>3. run[c].orig.data.version = reviewed[r]
        BY <1>0, <2>1 DEF Traced, Held, LatestReviewKept
      <3> QED BY <3>1, <3>2, <3>3
    <2>2. CASE resource[r].data.by # c
      BY <2>2 DEF Recover
    <2> QED BY <2>1, <2>2
  <1>3. ASSUME NEW d \in Controllers
        PROVE  Traced(d)'
    <2>1. Same(d) /\ \A e \in Controllers : run'[e].orig = run[e].orig
      BY <1>0, <1>1 DEF TypeOK, Locals, Same
    <2>2. lock = d => pc[d] \in Unlocked
      BY <1>1 DEF Unlocked
    <2>3. Carried(d, run[c].orig.data)
      BY <1>0 DEF Traced, Copied
    <2>4. \A r \in Resources :
             \/ resource'[r] = resource[r]
             \/ resource'[r].rv > resource[r].rv /\ Carried(d, resource'[r].data)
      BY <1>2, <2>3
    <2> QED BY <1>0, <1>1, <2>1, <2>2, <2>4, BystanderTraced
  <1>4. \A r \in Resources : Advanced(r)
    BY <1>1, <1>2 DEF Advanced
  <1>5. LatestReviewKept' /\ Overtaken'
    BY <1>0, <1>1, <1>4, VersionsKept
  <1> QED BY <1>3, <1>5

LEMMA LateStep == LateInv /\ [Next]_vars => LateInv'
  <1> SUFFICES ASSUME LateInv, [Next]_vars PROVE LateInv'
    OBVIOUS
  <1>0. /\ TypeOK /\ EachPasses /\ LatestReviewKept /\ Overtaken
        /\ \A d \in Controllers : Traced(d)
    BY DEF LateInv
  <1>1. TypeOK' /\ EachPasses'
    BY <1>0, TypeStep, PassStep
  <1>2. (\A d \in Controllers : Traced(d)') /\ LatestReviewKept' /\ Overtaken'
    <2>1. ASSUME NEW c \in Controllers, Runner(c) \/ Kill(c)
          PROVE  (\A d \in Controllers : Traced(d)') /\ LatestReviewKept' /\ Overtaken'
      BY <1>0, <1>1, <2>1, RunnerTraced
    <2>2. CASE (\E c \in Controllers : Attest(c)) \/ UNCHANGED vars
      <3>1. UNCHANGED <<lock, resource, reviewed, served, inflight, pc, run>>
        BY <2>2 DEF Attest, vars
      <3> QED BY <1>0, <1>1, <3>1, WritersTraced DEF LatestReviewKept, Overtaken
    <2>3. ASSUME NEW c \in Controllers, Recover(c)
          PROVE  (\A d \in Controllers : Traced(d)') /\ LatestReviewKept' /\ Overtaken'
      BY <1>1, <2>3, RecoverTraced
    <2>4. ASSUME NEW r \in Resources, Review(r) \/ Reinstate(r)
          PROVE  (\A d \in Controllers : Traced(d)') /\ LatestReviewKept' /\ Overtaken'
      <3>1. UNCHANGED <<lock, served, inflight, pc, run>>
        BY <2>4 DEF Review, Reinstate
      <3>2. /\ \A s \in Resources : s # r => /\ resource'[s] = resource[s]
                                             /\ reviewed'[s] = reviewed[s]
            /\ resource'[r].data = Reviewed(reviewed'[r])
            /\ resource'[r].rv = resource[r].rv + 1
        BY <1>0, <2>4 DEF TypeOK, Objects, Review, Reinstate, Write
      <3>3. /\ Reviewed(reviewed'[r]).version = reviewed'[r]
            /\ Reviewed(reviewed'[r]).by = Nobody
            /\ resource[r].rv \in Nat
        BY <1>0 DEF Reviewed, TypeOK, Objects
      <3>4. \A s \in Resources : Advanced(s)
        BY <3>2, <3>3 DEF Advanced
      <3>5. \A d \in Controllers : Carried(d, resource'[r].data)
        BY <3>2, <3>3, ControllersAssumption DEF Carried
      <3> QED BY <1>0, <1>1, <3>1, <3>2, <3>3, <3>4, <3>5, VersionsKept, WritersTraced
    <2>5. CASE Serve
      <3>1. /\ UNCHANGED <<lock, resource, reviewed, inflight, pc>>
            /\ \A d \in Controllers : run'[d] = [run[d] EXCEPT !.fresh = TRUE]
            /\ \A r \in Resources : served'[r].data = resource[r].data
        BY <2>5 DEF Serve
      <3>2. ASSUME NEW d \in Controllers
            PROVE  Same(d) /\ run'[d].orig = run[d].orig
        <4>1. run[d] \in Locals /\ run'[d] = [run[d] EXCEPT !.fresh = TRUE]
          BY <1>0, <3>1 DEF TypeOK
        <4> QED BY <3>1, <4>1 DEF Locals, Same
      <3>3. \A d \in Controllers : Traced(d)'
        BY <1>0, <1>1, <3>1, <3>2, BystanderTraced
      <3> QED BY <1>0, <3>1, <3>3 DEF LatestReviewKept, Overtaken
    <2>6. ASSUME NEW q \in inflight, CommitLate(q)
          PROVE  (\A d \in Controllers : Traced(d)') /\ LatestReviewKept' /\ Overtaken'
      <3>0. q.name \in Resources /\ resource[q.name].rv \in Nat
        BY <1>0 DEF TypeOK, Requests, Objects
      <3>1. UNCHANGED <<lock, reviewed, served, pc, run>> /\ inflight' \subseteq inflight
        BY <2>6 DEF CommitLate
      <3>2. \/ resource' = resource
            \/ /\ q.rv = resource[q.name].rv
               /\ resource'[q.name].data = q.data
               /\ resource'[q.name].rv = resource[q.name].rv + 1
               /\ \A s \in Resources : s # q.name => resource'[s] = resource[s]
        BY <1>0, <2>6, <3>0, WriteFacts DEF CommitLate
      <3>3. \A s \in Resources : Advanced(s)
        BY <1>0, <3>0, <3>1, <3>2 DEF Advanced, Overtaken
      <3>4. \A d \in Controllers : Carried(d, q.data)
        BY <1>0 DEF Traced, Requested
      <3> QED BY <1>0, <1>1, <3>0, <3>1, <3>2, <3>3, <3>4, VersionsKept, WritersTraced
    <2> QED BY <2>1, <2>2, <2>3, <2>4, <2>5, <2>6 DEF Next
  <1> QED BY <1>0, <1>1, <1>2 DEF LateInv

\* No reviewed value is lost, whatever commits late and however many values are
\* approved while cases run.
THEOREM LatestReviewIsKept == Spec => []LatestReviewKept
  <1>1. LateInv => LatestReviewKept
    BY DEF LateInv
  <1> QED BY <1>1, LateInit, LateStep, PTL DEF Spec

\* Exit status 0 means that no lock, negative pod or modification of the run is left,
\* in the cluster or in Trustee, and that no request can bring one back.
THEOREM PassIsClean == Spec => []PassLeavesNothing
  <1>1. LateInv => PassLeavesNothing
    <2> SUFFICES ASSUME LateInv, NEW c \in Controllers, pc[c] = "done",
                        run[c].report = "PASS"
                 PROVE  /\ lock # c /\ guest[c] = "absent"
                        /\ \A r \in Resources :
                              resource[r].data.by # c /\ served[r].data.by # c
                        /\ \A q \in inflight : q.data.by # c
      BY DEF PassLeavesNothing
    <2>1. PassInv(c) /\ Traced(c)
      BY DEF LateInv, EachPasses
    <2>2. ~Lingering(run[c], pc[c]) /\ ~InHand(run[c], pc[c]) /\ ~OnShow(run[c], pc[c])
      BY DEF Lingering, InHand, OnShow, Standing, Undoing
    <2> QED BY <2>1, <2>2 DEF PassInv, Traced, Held, Shown, Requested, Carried
  <1> QED BY <1>1, LateInit, LateStep, PTL DEF Spec

---------------------------------------------------------------------------
(* What a denial is owed to *)

\* The edit of a case that edits, while its verdict depends on it.
Editing(c) == Case(c) \in EditFirst \cup EditLater
Guarded(c) == \/ pc[c] \in {"start", "negative"} /\ Editing(c)
              \/ pc[c] = "control" /\ Case(c) \in EditFirst
              \/ guest[c] # "absent" /\ Editing(c)

\* Every request that others gave up on has lost its race for r.
Settled(r) == \A q \in inflight : q.name = r => q.rv < resource[r].rv

\* Until the pod is gone the resource holds the edit, no late request can replace
\* it, and once Trustee was rotated it serves it.
Changing == {"read", "compare", "patch", "observe", "rotate", "serving"}
InForce(c) ==
    /\ pc[c] \in Changing => Editing(c)
    /\ pc[c] \in {"control", "start", "negative"} /\ run[c].hasEdit => Editing(c)
    /\ Unreviewed(c) =>
         /\ Guarded(c) \/ pc[c] \in {"rotate", "serving"} => resource[Edited(c)].data.by = c
         /\ Guarded(c) \/ (pc[c] = "serving" /\ run[c].fresh) => served[Edited(c)].data.by = c
         /\ Guarded(c) \/ pc[c] \in {"observe", "rotate", "serving"} => Settled(Edited(c))
    /\ guest[c] # "absent" => lock = c

Toward == Changing \cup {"control", "start", "negative"}

\* Only the negative pod's own steps are taken while it is there.
LEMMA GuestFrame ==
    ASSUME TypeOK, NEW c \in Controllers, PassInv(c), Runner(c) \/ Kill(c),
           guest'[c] # "absent"
    PROVE  /\ Frame /\ inflight' = inflight /\ Case(c)' = Case(c)
           /\ guest[c] # "absent" \/ pc[c] = "start"
  <1>1. \/ pc[c] \in {"start", "negative", "deleteNegative"}
        \/ pc[c] = "record" /\ run[c].outcome = "FAIL"
        \/ pc[c] \in {"done", "killed"}
        \/ guest[c] = "absent"
    BY DEF PassInv
  <1>2. CASE pc[c] = "start"
    <2>1. StartNegative(c) \/ Kill(c)
      BY <1>2 DEF Runner, Acquire, Confirm, Release, Unlock, StartCase, Isolation, Control,
            Negative, ReadOriginal, Compare, Patch, Observe, Rotate, Serving, DeleteNegative,
            Restore, Unpatch, Unobserve, Recovery, Record, Cleanup
    <2>2. run'[c].k = run[c].k
      <3> DEFINE named == [run[c] EXCEPT !.named = TRUE]
                 lost == [named EXCEPT !.outcome = "INCOMPLETE"]
      <3>1. run'[c] \in {named, lost, run[c]}
        BY <2>1 DEF StartNegative, Kill, LeaveTry, Goto, Step, TypeOK
      <3>2. named.k = run[c].k /\ lost.k = run[c].k
        BY DEF TypeOK, Locals
      <3> HIDE DEF named, lost
      <3> QED BY <3>1, <3>2
    <2> QED BY <1>2, <2>1, <2>2, LocalFrame DEF Local, Case
  <1>3. CASE pc[c] # "start"
    <2>1. guest[c] # "absent"
      BY <1>3 DEF TypeOK, Runner, Acquire, Confirm, Release, Unlock, StartCase, Isolation,
            Control, StartNegative, Negative, ReadOriginal, Compare, Patch, Observe, Rotate,
            Serving, DeleteNegative, Restore, Unpatch, Unobserve, Recovery, Record, Cleanup,
            Kill
    <2>2. \/ pc[c] \in {"negative", "deleteNegative"}
          \/ pc[c] = "record" /\ run[c].outcome # "PASS"
          \/ pc[c] \in {"done", "killed"}
      BY <1>1, <1>3, <2>1
    <2>3. Negative(c) \/ DeleteNegative(c) \/ Kill(c) \/ Record(c)
      BY <2>2 DEF Runner, Acquire, Confirm, Release, Unlock, StartCase, Isolation, Control,
            StartNegative, ReadOriginal, Compare, Patch, Observe, Rotate, Serving,
            Restore, Unpatch, Unobserve, Recovery, Cleanup
    <2>4. run'[c].k = run[c].k
      <3>1. CASE Record(c)
        <4>1. run[c].outcome # "PASS"
          BY <2>2, <3>1 DEF Record
        <4>2. \E rep \in {"INCOMPLETE", "FAIL"} : run'[c] = [run[c] EXCEPT !.report = rep]
          BY <3>1, <4>1 DEF Record, Step, TypeOK
        <4> QED BY <4>2 DEF TypeOK, Locals
      <3>2. CASE Negative(c) \/ DeleteNegative(c) \/ Kill(c)
        <4>1. \/ run'[c] = run[c]
              \/ \E kind \in {"INCOMPLETE", "FAIL"} : run'[c] = [run[c] EXCEPT !.outcome = kind]
              \/ run'[c] = [run[c] EXCEPT !.restoration = "FAIL", !.outcome = "FAIL"]
          BY <3>2 DEF Negative, DeleteNegative, Kill, Raise, Abandon, LeaveTry, Goto, Step,
                TypeOK
        <4> QED BY <4>1 DEF TypeOK, Locals
      <3> QED BY <2>3, <3>1, <3>2
    <2> QED BY <2>1, <2>3, <2>4, LocalFrame DEF Local, Case
  <1> QED BY <1>2, <1>3

\* A step away from the edit leaves at most the pod to answer for.
LEMMA AwayForces ==
    ASSUME TypeOK, NEW c \in Controllers, PassInv(c), HoldsLock(c), InForce(c),
           Runner(c) \/ Kill(c), pc'[c] \notin Toward
    PROVE  InForce(c)'
  <1>1. CASE guest'[c] = "absent"
    BY <1>1 DEF InForce, Guarded, Toward, Changing
  <1>2. CASE guest'[c] # "absent"
    <2>1. /\ Frame /\ inflight' = inflight /\ Case(c)' = Case(c)
          /\ guest[c] # "absent" \/ pc[c] = "start"
      BY <1>2, GuestFrame
    <2>2. lock = c
      BY <2>1 DEF InForce, HoldsLock, Unlocked
    <2> QED BY <2>1, <2>2 DEF InForce, Guarded, Editing, Edited, Unreviewed, Settled,
                Frame, Toward, Changing
  <1> QED BY <1>1, <1>2

\* The steps that lead to the edit or on to the verdict.
Advance(c) ==
    \/ /\ pc[c] = "case" /\ ~run'[c].hasEdit
       /\ \/ pc'[c] = "read" /\ Case(c)' \in EditFirst
          \/ pc'[c] = "control" /\ Case(c)' \notin EditFirst
    \/ /\ run'[c].k = run[c].k
       /\ \/ pc[c] = "control" /\ pc'[c] = "read" /\ Case(c) \in EditLater
          \/ /\ pc[c] = "control" /\ pc'[c] = "start" /\ Case(c) \notin EditLater
             /\ run'[c].hasEdit = run[c].hasEdit
          \/ /\ pc[c] = "start" /\ pc'[c] = "negative"
             /\ run'[c].hasEdit = run[c].hasEdit
          \/ pc[c] = "read" /\ pc'[c] = "compare"
          \/ pc[c] = "compare" /\ pc'[c] = "patch"
          \/ /\ pc[c] = "observe" /\ pc'[c] = "rotate"
             /\ resource[Edited(c)].data = Change(c)
          \/ pc[c] = "rotate" /\ pc'[c] = "serving" /\ ~run'[c].fresh
          \/ /\ pc[c] = "serving" /\ run[c].fresh
             /\ pc'[c] = IF Case(c) \in EditFirst THEN "control" ELSE "start"

LEMMA TowardAdvances ==
    ASSUME TypeOK, NEW c \in Controllers, Runner(c) \/ Kill(c), pc'[c] \in Toward
    PROVE  \/ Frame /\ inflight' = inflight /\ Advance(c)
           \/ /\ pc[c] = "patch" /\ pc'[c] = "observe" /\ run'[c].k = run[c].k
              /\ lock' = lock /\ Commits(c, Change(c))
  <1> run[c] \in Locals
    BY DEF TypeOK
  <1> USE FinallyFacts DEF Toward, Changing
  <1>0. ~Abandon(c) /\ \A kind \in {"INCOMPLETE", "FAIL"} : ~Raise(c, kind)
    <2>1. \A kind \in {"INCOMPLETE", "FAIL"} : [run[c] EXCEPT !.outcome = kind] \in Locals
      BY DEF Locals
    <2> QED BY <2>1 DEF Abandon, Raise, LeaveTry, Step, TypeOK
  <1>1. CASE Confirm(c) \/ Release(c) \/ Isolation(c) \/ Restore(c) \/ Unobserve(c)
             \/ Recovery(c) \/ Cleanup(c) \/ Kill(c) \/ Acquire(c) \/ Unlock(c) \/ Unpatch(c)
    BY <1>0, <1>1 DEF Confirm, Release, Isolation, Restore, Unobserve, Recovery, Cleanup, Kill,
          Acquire, Unlock, Unpatch, Goto, Step, TypeOK
  <1>2. CASE Record(c) \/ DeleteNegative(c) \/ Negative(c)
    BY <1>0, <1>2 DEF Record, Exit, DeleteNegative, Negative, LeaveTry, Goto, Step, TypeOK
  <1>3. CASE StartCase(c)
    <2>1. Frame /\ inflight' = inflight
      BY <1>3 DEF StartCase, Frame
    <2>2. run'[c].k = run[c].k /\ ~run'[c].hasEdit
      <3> DEFINE new == [Unstarted EXCEPT !.holds = run[c].holds, !.k = run[c].k]
                 stop == [new EXCEPT !.outcome = "INCOMPLETE"]
      <3>1. run'[c] \in {new, stop}
        BY <1>3 DEF StartCase, Step, TypeOK
      <3>2. new.k = run[c].k /\ ~new.hasEdit /\ stop.k = run[c].k /\ ~stop.hasEdit
        BY DEF Unstarted
      <3> HIDE DEF new, stop
      <3> QED BY <3>1, <3>2
    <2>3. /\ pc[c] = "case"
          /\ \/ pc'[c] = "read" /\ Case(c) \in EditFirst
             \/ pc'[c] = "control" /\ Case(c) \notin EditFirst
      BY <1>3 DEF StartCase, Step, TypeOK
    <2> QED BY <2>1, <2>2, <2>3 DEF Advance, Case
  <1>4. CASE Control(c)
    BY <1>0, <1>4 DEF Control, Goto, Step, TypeOK, Frame, Advance
  <1>5. CASE StartNegative(c)
    <2> DEFINE named == [run[c] EXCEPT !.named = TRUE]
               lost == [named EXCEPT !.outcome = "INCOMPLETE"]
    <2>1. lost \in Locals
      BY DEF Locals
    <2>2. ~LeaveTry(c, lost)
      BY <2>1 DEF LeaveTry, Step, TypeOK
    <2>3. Step(c, named, "negative") /\ pc[c] = "start" /\ Frame /\ inflight' = inflight
      BY <1>5, <2>2 DEF StartNegative, Frame
    <2> QED BY <2>3 DEF Step, TypeOK, Locals, Advance
  <1>6. CASE ReadOriginal(c)
    <2> DEFINE object == resource[Edited(c)]
               edit == [run[c] EXCEPT !.hasEdit = TRUE,
                                      !.orig = [data |-> object.data, uid |-> object.uid]]
               lost == [edit EXCEPT !.outcome = "INCOMPLETE"]
    <2>1. object \in Objects
      BY EditedType DEF TypeOK
    <2>2. lost \in Locals
      BY <2>1 DEF Locals, Objects
    <2>3. ~LeaveTry(c, lost)
      BY <2>2 DEF LeaveTry, Step, TypeOK
    <2>4. Step(c, edit, "compare") /\ pc[c] = "read" /\ Frame /\ inflight' = inflight
      BY <1>0, <1>6, <2>3 DEF ReadOriginal, Frame
    <2> QED BY <2>4 DEF Step, TypeOK, Locals, Advance
  <1>7. CASE Compare(c)
    <2> DEFINE edit == [run[c] EXCEPT !.armed = TRUE]
               tested == [edit EXCEPT !.seen = resource[Edited(c)].rv]
    <2>1. \A kind \in {"INCOMPLETE", "FAIL"} : [edit EXCEPT !.outcome = kind] \in Locals
      BY DEF Locals
    <2>2. \A kind \in {"INCOMPLETE", "FAIL"} : ~LeaveTry(c, [edit EXCEPT !.outcome = kind])
      BY <2>1 DEF LeaveTry, Step, TypeOK
    <2>3. Step(c, tested, "patch") /\ pc[c] = "compare" /\ Frame /\ inflight' = inflight
      BY <1>7, <2>2 DEF Compare, Frame
    <2> QED BY <2>3 DEF Step, TypeOK, Locals, Advance
  <1>8. CASE Patch(c)
    BY <1>0, <1>8 DEF Patch, Goto, Step, TypeOK
  <1>9. CASE Observe(c)
    BY <1>0, <1>9 DEF Observe, Goto, Step, TypeOK, Frame, Advance
  <1>10. CASE Rotate(c)
    BY <1>0, <1>10 DEF Rotate, Step, TypeOK, Locals, Frame, Advance
  <1>11. CASE Serving(c)
    BY <1>0, <1>11 DEF Serving, ServingReady, Goto, Step, TypeOK, Frame, Advance
  <1> QED BY <1>1, <1>2, <1>3, <1>4, <1>5, <1>6, <1>7, <1>8, <1>9, <1>10, <1>11 DEF Runner

LEMMA RunnerForces ==
    ASSUME TypeOK, Overtaken, NEW c \in Controllers, PassInv(c), PassInv(c)',
           HoldsLock(c), InForce(c), Runner(c) \/ Kill(c)
    PROVE  InForce(c)'
  <1>1. CASE pc'[c] \in Toward
    <2>1. guest'[c] # "absent" => pc'[c] = "negative"
      BY <1>1 DEF PassInv, Toward, Changing
    <2>2. CASE /\ pc[c] = "patch" /\ pc'[c] = "observe" /\ run'[c].k = run[c].k
               /\ lock' = lock /\ Commits(c, Change(c))
      <3>1. Edited(c)' = Edited(c) /\ Edited(c) \in Resources
        BY <2>2, EditedType DEF Edited, Case
      <3>2. /\ resource'[Edited(c)].rv = resource[Edited(c)].rv + 1
            /\ inflight' = inflight
        BY <2>2, <3>1, WriteFacts DEF Commits
      <3>3. Settled(Edited(c))'
        BY <3>1, <3>2 DEF Settled, Overtaken, TypeOK, Requests, Objects
      <3> QED BY <2>1, <2>2, <3>3 DEF InForce, Guarded, Editing, Edited, Case, Changing
    <2>3. CASE Frame /\ pc[c] = "case" /\ Advance(c)
      <3>1. /\ ~run'[c].hasEdit /\ guest'[c] = "absent"
            /\ \/ pc'[c] = "read" /\ Case(c)' \in EditFirst
               \/ pc'[c] = "control" /\ Case(c)' \notin EditFirst
        BY <2>1, <2>3 DEF Advance
      <3> QED BY <3>1 DEF InForce, Guarded, Editing, Changing
    <2>4. CASE Frame /\ inflight' = inflight /\ pc[c] # "case" /\ Advance(c)
      <3>1. Case(c)' = Case(c) /\ Edited(c)' = Edited(c) /\ Frame
        BY <2>4 DEF Advance, Case, Edited
      <3>2. Change(c).by = c
        BY DEF Change
      <3>3. Settled(Edited(c))' = Settled(Edited(c))
        BY <2>4, <3>1 DEF Settled, Frame
      <3>4. guest'[c] # "absent" => lock' = c
        BY <2>1, <2>4 DEF Advance, Frame, HoldsLock, Unlocked
      <3> QED BY <2>1, <2>4, <3>1, <3>2, <3>3, <3>4
              DEF Advance, Frame, InForce, Guarded, Editing, Unreviewed, Changing
    <2> QED BY <1>1, <2>2, <2>3, <2>4, TowardAdvances
  <1> QED BY <1>1, AwayForces

EachInForce == \A c \in Controllers : InForce(c)

\* Whoever is under way with an edit that is in force has the lock.
LEMMA ForceLocks ==
    ASSUME NEW d \in Controllers, HoldsLock(d), InForce(d),
           Guarded(d) \/ pc[d] \in {"observe", "rotate", "serving"}
    PROVE  lock = d
  BY DEF HoldsLock, InForce, Guarded, Unlocked

LEMMA ForceBystander ==
    ASSUME TypeOK, NEW c \in Controllers, NEW d \in Controllers, d # c, HoldsLock(c),
           HoldsLock(d), PassInv(d), InForce(d), Runner(c) \/ Kill(c)
    PROVE  InForce(d)'
  <1>1. run'[d] = run[d] /\ pc'[d] = pc[d] /\ guest'[d] = guest[d]
    BY RunnerUntouched, OthersPass DEF Untouched
  <1>2. /\ Case(d)' = Case(d) /\ Edited(d)' = Edited(d) /\ Editing(d)' = Editing(d)
        /\ Guarded(d)' = Guarded(d)
    BY <1>1 DEF Case, Edited, Editing, Guarded
  <1>3. ASSUME lock = d
        PROVE  UNCHANGED <<lock, resource, served, inflight>>
    <2>1. pc[c] \in Unlocked
      BY <1>3 DEF HoldsLock
    <2>2. ~Patch(c) /\ ~Unpatch(c) /\ ~Unlock(c)
      BY <2>1 DEF Patch, Unpatch, Unlock, Unlocked
    <2>3. CASE Local(c)
      BY <2>3, LocalFrame DEF Frame
    <2>4. CASE Acquire(c)
      BY <1>3, <2>4, ControllersAssumption DEF Acquire
    <2> QED BY <2>2, <2>3, <2>4 DEF Runner, Local
  <1>4. lock = d => Settled(Edited(d))' = Settled(Edited(d))
    BY <1>2, <1>3 DEF Settled
  <1>5. guest[d] # "absent" => lock = d
    BY DEF InForce
  <1> QED BY <1>1, <1>2, <1>3, <1>4, <1>5, ForceLocks DEF InForce, Unreviewed

LEMMA ForceStep == LateInv /\ LateInv' /\ EachInForce /\ [Next]_vars => EachInForce'
  <1> SUFFICES ASSUME LateInv, LateInv', EachInForce, [Next]_vars,
                      NEW d \in Controllers
               PROVE  InForce(d)'
    BY DEF EachInForce
  <1>0. /\ TypeOK /\ Overtaken /\ PassInv(d) /\ PassInv(d)' /\ InForce(d)
        /\ \A c \in Controllers : HoldsLock(c)
    BY DEF LateInv, EachPasses, EachInForce, Traced
  <1>1. ASSUME NEW c \in Controllers, Runner(c) \/ Kill(c)
        PROVE  InForce(d)'
    BY <1>0, <1>1, RunnerForces, ForceBystander
  <1>2. CASE (\E c \in Controllers : Attest(c)) \/ UNCHANGED vars
    <2>1. /\ UNCHANGED <<lock, pc, run, resource, served, inflight>>
          /\ guest'[d] # "absent" => guest[d] # "absent"
      <3>1. CASE UNCHANGED vars
        BY <3>1 DEF vars
      <3>2. ASSUME NEW c \in Controllers, Attest(c)
            PROVE  /\ UNCHANGED <<lock, pc, run, resource, served, inflight>>
                   /\ guest'[d] # "absent" => guest[d] # "absent"
        BY <1>0, <3>2 DEF Attest, TypeOK
      <3> QED BY <1>2, <3>1, <3>2
    <2> QED BY <1>0, <2>1 DEF InForce, Guarded, Editing, Edited, Unreviewed, Case, Settled
  <1>3. ASSUME NEW c \in Controllers, Recover(c)
        PROVE  InForce(d)'
    <2>1. /\ lock = c /\ pc[c] \in {"done", "killed"} /\ pc' = pc
          /\ guest' = [guest EXCEPT ![c] = "absent"]
          /\ run'[d] = [run[d] EXCEPT !.fresh = TRUE]
      BY <1>3 DEF Recover
    <2>2. run'[d].k = run[d].k /\ run'[d].hasEdit = run[d].hasEdit
      BY <1>0, <2>1 DEF TypeOK, Locals
    <2>3. Case(d)' = Case(d) /\ Editing(d)' = Editing(d)
      BY <2>2 DEF Case, Editing
    <2>4. Guarded(d)' => Guarded(d) /\ d # c
      BY <1>0, <2>1, <2>3 DEF Guarded, TypeOK
    <2>5. ~Guarded(d)' /\ pc'[d] \notin {"observe", "rotate", "serving"}
      BY <1>0, <2>1, <2>4, ForceLocks
    <2>6. guest'[d] = "absent"
      BY <1>0, <2>1 DEF InForce, TypeOK
    <2> QED BY <1>0, <2>1, <2>2, <2>3, <2>5, <2>6 DEF InForce
  <1>4. CASE Serve
    <2>1. /\ UNCHANGED <<lock, pc, guest, resource, inflight>>
          /\ run'[d] = [run[d] EXCEPT !.fresh = TRUE]
          /\ \A r \in Resources : served'[r].data = resource[r].data
      BY <1>4 DEF Serve
    <2>2. run'[d].k = run[d].k /\ run'[d].hasEdit = run[d].hasEdit
      BY <1>0, <2>1 DEF TypeOK, Locals
    <2>3. /\ Case(d)' = Case(d) /\ Edited(d)' = Edited(d) /\ Editing(d)' = Editing(d)
          /\ Guarded(d)' = Guarded(d)
      BY <2>1, <2>2 DEF Case, Edited, Editing, Guarded
    <2> QED BY <1>0, <2>1, <2>2, <2>3, EditedType DEF InForce, Unreviewed, Settled
  <1>5. ASSUME NEW q \in inflight, CommitLate(q)
        PROVE  InForce(d)'
    <2>1. /\ UNCHANGED <<lock, served, guest, pc, run>> /\ inflight' \subseteq inflight
          /\ resource' = resource \/ (q.rv = resource[q.name].rv /\ Write(q.name, q.data))
      BY <1>5 DEF CommitLate
    <2>2. /\ Edited(d)' = Edited(d) /\ Editing(d)' = Editing(d) /\ Guarded(d)' = Guarded(d)
          /\ q.name \in Resources /\ Edited(d) \in Resources
      BY <1>0, <2>1, EditedType DEF Case, Edited, Editing, Guarded, TypeOK, Requests
    <2>3. Settled(Edited(d)) => resource'[Edited(d)] = resource[Edited(d)]
      <3>1. Settled(Edited(d)) /\ q.name = Edited(d) => q.rv # resource[q.name].rv
        BY <1>0, <2>2 DEF Settled, TypeOK, Requests, Objects
      <3> QED BY <1>0, <2>1, <2>2, <3>1, WriteFacts
    <2>4. Settled(Edited(d)) => Settled(Edited(d))'
      BY <2>1, <2>2, <2>3 DEF Settled
    <2> QED BY <1>0, <2>1, <2>2, <2>3, <2>4 DEF InForce, Unreviewed
  <1>6. ASSUME NEW r \in Resources, Review(r) \/ Reinstate(r)
        PROVE  InForce(d)'
    <2>1. UNCHANGED <<lock, served, inflight, guest, pc, run>>
      BY <1>6 DEF Review, Reinstate
    <2>2. Unreviewed(d) => resource'[Edited(d)] = resource[Edited(d)]
      <3>1. r \in Reviewable /\ Edited(d) \in Resources
        BY <1>0, <1>6, EditedType DEF Review, Reinstate
      <3> QED BY <1>0, <1>6, <3>1, WriteFacts DEF Review, Reinstate, Unreviewed, TypeOK
    <2>3. /\ Case(d)' = Case(d) /\ Edited(d)' = Edited(d) /\ Editing(d)' = Editing(d)
          /\ Guarded(d)' = Guarded(d) /\ Unreviewed(d)' = Unreviewed(d)
      BY <2>1 DEF Case, Edited, Editing, Guarded, Unreviewed
    <2>4. Unreviewed(d) => Settled(Edited(d))' = Settled(Edited(d))
      BY <2>1, <2>2, <2>3 DEF Settled
    <2> QED BY <1>0, <2>1, <2>2, <2>3, <2>4 DEF InForce
  <1> QED BY <1>1, <1>2, <1>3, <1>4, <1>5, <1>6 DEF Next

LEMMA ForceInit == Init => EachInForce
  <1> SUFFICES ASSUME Init, NEW c \in Controllers PROVE InForce(c)
    BY DEF EachInForce
  <1>1. pc[c] = "acquire" /\ guest[c] = "absent"
    BY DEF Init
  <1> QED BY <1>1 DEF InForce, Guarded, Changing

LEMMA ForceInvariant == Spec => [](LateInv /\ EachInForce)
  <1> QED BY LateInit, LateStep, ForceInit, ForceStep, PTL DEF Spec

\* A denial counts for a case with an edit only while Trustee serves that edit, even if
\* requests of other runs are still to commit and other tools write other resources.
THEOREM DenialIsAttributable == Spec => DenialAttributable
  <1>1. ASSUME LateInv, EachInForce, NEW c \in Controllers,
               pc[c] = "negative", run[c].hasEdit, Unreviewed(c)
        PROVE  served[Edited(c)].data.by = c
    BY <1>1 DEF EachInForce, InForce, Guarded
  <1>2. LateInv /\ EachInForce /\ [Next]_vars =>
          [\A c \in Controllers :
             /\ pc[c] = "negative" /\ pc'[c] # "killed" /\ pc' # pc
             /\ run'[c].outcome = "none"
             /\ run[c].hasEdit /\ Unreviewed(c)
             => served[Edited(c)].data.by = c]_vars
    BY <1>1
  <1> QED BY <1>2, ForceInvariant, PTL DEF Spec, DenialAttributable

\* On the same condition a guest that was denied is never given the secret, however
\* often it asks again and however the run ends.
THEOREM DeniedIsNeverReleased == Spec => DeniedStaysDenied
  <1>1. ASSUME LateInv, EachInForce, [Next]_vars,
               NEW c \in Controllers, guest[c] = "denied", Unreviewed(c)
        PROVE  guest'[c] # "released"
    <2>1. TypeOK /\ InForce(c)
      BY <1>1 DEF LateInv, EachInForce
    <2>2. CASE Attest(c)
      <3>1. Case(c) \in EditFirst \cup EditLater
        BY <1>1, <2>2 DEF Attest
      <3>2. served[Edited(c)].data.by = c
        BY <1>1, <2>1, <3>1 DEF InForce, Guarded, Editing
      <3> QED BY <2>1, <2>2, <3>1, <3>2 DEF Attest, TypeOK
    <2>3. ASSUME NEW d \in Controllers, d # c, Attest(d)
          PROVE  guest'[c] # "released"
      BY <1>1, <2>1, <2>3 DEF Attest, TypeOK
    <2>4. CASE Runner(c) \/ Kill(c)
      BY <1>1, <2>1, <2>4 DEF TypeOK, Runner, Acquire, Confirm, Release, Unlock, StartCase,
            Isolation, Control, StartNegative, Negative, ReadOriginal, Compare, Patch, Observe,
            Rotate, Serving, DeleteNegative, Restore, Unpatch, Unobserve, Recovery, Record,
            Cleanup, Kill
    <2>5. ASSUME NEW d \in Controllers, d # c, Runner(d) \/ Kill(d)
          PROVE  guest'[c] # "released"
      BY <1>1, <2>1, <2>5, OthersPass DEF LateInv, EachPasses
    <2>6. ASSUME NEW d \in Controllers, Recover(d)
          PROVE  guest'[c] # "released"
      BY <1>1, <2>1, <2>6 DEF Recover, TypeOK
    <2>7. ASSUME NEW r \in Resources, Review(r) \/ Reinstate(r)
          PROVE  guest'[c] # "released"
      BY <1>1, <2>7 DEF Review, Reinstate
    <2>8. CASE Serve \/ UNCHANGED vars \/ \E q \in inflight : CommitLate(q)
      BY <1>1, <2>8 DEF Serve, CommitLate, vars
    <2> QED BY <1>1, <2>2, <2>3, <2>4, <2>5, <2>6, <2>7, <2>8 DEF Next
  <1>2. LateInv /\ EachInForce /\ [Next]_vars =>
          [\A c \in Controllers :
             guest[c] = "denied" /\ Unreviewed(c) => guest'[c] # "released"]_vars
    BY <1>1
  <1> QED BY <1>2, ForceInvariant, PTL DEF Spec, DeniedStaysDenied
=============================================================================
