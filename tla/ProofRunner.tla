---------------------------- MODULE ProofRunner ----------------------------
(***************************************************************************)
(* The proof runner: scripts/run-proofs.py with ProofLock, ResourceEdit    *)
(* and restart_trustee of scripts/lib/proof_core.py.                       *)
(*                                                                         *)
(* A controller is one execution of run-proofs.py.  It takes a lock in the *)
(* Trustee namespace, then runs the cases of its plan one after another.   *)
(* A case may change the data of one resource that every controller and    *)
(* every other tool shares, have Trustee serve the change, watch a guest   *)
(* being denied, and put the resource back.  Every call to the API may     *)
(* fail, may be applied with its answer lost, and may be the one during    *)
(* which SIGTERM arrives; SIGKILL may stop a controller anywhere.          *)
(***************************************************************************)
EXTENDS Naturals, Sequences

CONSTANTS
    Controllers,  \* executions of run-proofs.py
    Nobody,       \* holder of a free lock, author of a reviewed value
    Plan,         \* Plan[c]: the cases that controller c was asked to run
    Reviewable,   \* resources that other tools (apply-trustee.sh) also write
    MaxReviews,   \* bound: new reviewed values of one resource
    LateCommits   \* TRUE: a request may commit after its client gave up

Cases == {"rung-kbs", "rung-initdata", "rung-rvps", "rung-signed",
          "air-gap", "rung-encrypted", "isolation"}

\* The resources a case may edit.  "policy" and "rvps" are ConfigMaps named by
\* the KbsConfig; "vcek" is a Secret.
ConfigMaps == {"policy", "rvps"}
Resources == ConfigMaps \cup {"vcek"}

ASSUME ControllersAssumption == Nobody \notin Controllers
ASSUME PlanAssumption == Plan \in [Controllers -> Seq(Cases)]
                         /\ \A c \in Controllers : Plan[c] # <<>>
ASSUME BoundsAssumption == /\ Reviewable \subseteq Resources
                           /\ MaxReviews \in Nat
                           /\ LateCommits \in BOOLEAN

\* The cases whose edit precedes the positive control, and those whose edit
\* follows it; the others edit nothing.
EditFirst == {"rung-initdata", "rung-encrypted"}
EditLater == {"rung-rvps", "air-gap"}

EditedBy(case) == IF case \in EditFirst THEN "policy"
                  ELSE IF case = "rung-rvps" THEN "rvps" ELSE "vcek"

VARIABLES
    lock,      \* the controller whose run ID the coco-proof-lock holds
    resource,  \* the API server's copy of each resource
    reviewed,  \* the version that review last approved, by resource
    served,    \* what the serving Trustee pods loaded, by resource
    inflight,  \* requests their clients gave up on, not yet committed
    guest,     \* the negative pod of each controller's current case
    pc,        \* the next call of each controller
    run        \* the local state of each controller

vars == <<lock, resource, reviewed, served, inflight, guest, pc, run>>

---------------------------------------------------------------------------
(* Types *)

\* A value of a resource: a reviewed version, as reviewed or as the replacement
\* {**original, key: changed} that one controller makes of it.
Values == [version : Nat, by : Controllers \cup {Nobody}]
Objects == [data : Values, rv : Nat, uid : Nat]
Requests == [name : Resources, rv : Nat, data : Values]

Labels == {"acquire", "confirm", "case", "isolation", "read", "compare", "patch",
           "observe", "rotate", "serving", "control", "start", "negative",
           "deleteNegative", "restore", "unpatch", "unobserve", "rerotate",
           "reserving", "recovery", "record", "cleanup", "release", "unlock",
           "done", "killed"}

Guests == {"absent", "pending", "denied", "released"}

Locals == [holds : BOOLEAN,        \* lock.uid is not None
           k : Nat,                \* the case being run, an index of Plan[c]
           hasEdit : BOOLEAN,      \* edit is not None
           orig : [data : Values, uid : Nat],
           armed : BOOLEAN,        \* edit.modified is not None
           seen : Nat,             \* resourceVersion the pending patch tests
           named : BOOLEAN,        \* negative_name is not None
           fresh : BOOLEAN,        \* Trustee pods were replaced since rotation
           outcome : {"none", "PASS", "INCOMPLETE", "FAIL"},
           restoration : {"none", "PASS", "FAIL"},
           report : {"INCOMPLETE", "PASS", "FAIL"}]

TypeOK == /\ lock \in Controllers \cup {Nobody}
          /\ resource \in [Resources -> Objects]
          /\ reviewed \in [Resources -> Nat]
          /\ served \in [Resources -> [data : Values, rv : Nat]]
          /\ inflight \subseteq Requests
          /\ guest \in [Controllers -> Guests]
          /\ pc \in [Controllers -> Labels]
          /\ run \in [Controllers -> Locals]

---------------------------------------------------------------------------
Reviewed(n) == [version |-> n, by |-> Nobody]

Unstarted == [holds |-> FALSE, k |-> 1, hasEdit |-> FALSE,
          orig |-> [data |-> Reviewed(0), uid |-> 0], armed |-> FALSE,
          seen |-> 0, named |-> FALSE, fresh |-> FALSE, outcome |-> "none",
          restoration |-> "none", report |-> "INCOMPLETE"]

Init == /\ lock = Nobody
        /\ resource = [r \in Resources |-> [data |-> Reviewed(0), rv |-> 0, uid |-> 0]]
        /\ reviewed = [r \in Resources |-> 0]
        /\ served = [r \in Resources |-> [data |-> Reviewed(0), rv |-> 0]]
        /\ inflight = {}
        /\ guest = [c \in Controllers |-> "absent"]
        /\ pc = [c \in Controllers |-> "acquire"]
        /\ run = [c \in Controllers |-> Unstarted]

---------------------------------------------------------------------------
(* Control flow of one controller *)

Case(c) == Plan[c][run[c].k]
Edited(c) == EditedBy(Case(c))
Change(c) == [version |-> run[c].orig.data.version, by |-> c]

Step(c, x, label) == /\ run' = [run EXCEPT ![c] = x]
                     /\ pc' = [pc EXCEPT ![c] = label]

Goto(c, label) == Step(c, run[c], label)

\* The finally block of Runner.run: remove the negative pod, then restore, and
\* only then the recovery control or the exception that was pending.
AfterFinally(x) == IF x.outcome = "none" THEN "recovery" ELSE "record"
AfterRemovalUnrestored(x) == AfterFinally(x)  \* mutant: nothing is restored
AfterRemoval(x) == IF x.hasEdit THEN "restore" ELSE AfterFinally(x)
FinallyKeepingPod(x) == AfterRemoval(x)       \* mutant: the denied pod stays
Finally(x) == IF x.named THEN "deleteNegative" ELSE AfterRemoval(x)

LeaveTry(c, x) == Step(c, x, Finally(x))

\* An oc failure, a timeout or a signal is Incomplete; a contradicted
\* expectation is a ProofFailure.  Either ends the try block.
RaiseDisarmed(c, kind) ==  \* mutant: a failed call is taken as not applied
    LeaveTry(c, [run[c] EXCEPT !.outcome = kind, !.armed = FALSE])
Raise(c, kind) == LeaveTry(c, [run[c] EXCEPT !.outcome = kind])

\* An exception inside the finally block: nothing more is restored.
AbandonIncomplete(c) ==  \* mutant: reported with the status of an oc failure
    Step(c, [run[c] EXCEPT !.restoration = "INCOMPLETE", !.outcome = "FAIL"], "record")
Abandon(c) == Step(c, [run[c] EXCEPT !.restoration = "FAIL", !.outcome = "FAIL"],
                   "record")

\* main's finally: a failed restoration skips the release of the lock.
ExitReleasing(x) == "release"  \* mutant: the lock is released regardless
Exit(x) == IF x.restoration = "FAIL" THEN "done" ELSE "release"

---------------------------------------------------------------------------
(* The lock *)

\* ProofLock.acquire, the create: at most one ConfigMap of that name exists.
\* When the answer is lost the lock may be ours without our knowing its uid.
Acquire(c) ==
    /\ pc[c] = "acquire"
    /\ \/ /\ lock = Nobody
          /\ lock' = c
          /\ Goto(c, "confirm") \/ Goto(c, "release")
       \/ UNCHANGED lock /\ Goto(c, "release")
    /\ UNCHANGED <<resource, reviewed, served, inflight, guest>>

\* ProofLock.acquire, the read back; then the provenance of the report.
Confirm(c) ==
    /\ pc[c] = "confirm"
    /\ \/ /\ lock = c
          /\ \E label \in {"case", "release"} :
                Step(c, [run[c] EXCEPT !.holds = TRUE], label)
       \/ Goto(c, "release")
    /\ UNCHANGED <<lock, resource, reviewed, served, inflight, guest>>

\* The last exit of main: ProofLock.release reads the lock and compares it.
Release(c) ==
    /\ pc[c] = "release"
    /\ \/ ~run[c].holds /\ Goto(c, "done")
       \/ run[c].holds /\ lock = c /\ Goto(c, "unlock")
       \/ run[c].holds /\ Step(c, [run[c] EXCEPT !.report = "FAIL"], "done")
    /\ UNCHANGED <<lock, resource, reviewed, served, inflight, guest>>

\* ProofLock.release deletes the lock by name; the answer may be lost.
Unlock(c) ==
    /\ pc[c] = "unlock"
    /\ \/ lock' = Nobody /\ Step(c, [run[c] EXCEPT !.holds = FALSE], "done")
       \/ lock' \in {lock, Nobody} /\ Step(c, [run[c] EXCEPT !.report = "FAIL"], "done")
    /\ UNCHANGED <<resource, reviewed, served, inflight, guest>>

---------------------------------------------------------------------------
(* The edit: ResourceEdit *)

\* What the API server tests before it applies the patch of controller c.
PatchTestsUid(c) ==  \* mutant: no test of the resourceVersion
    resource[Edited(c)].uid = run[c].orig.uid
PatchTests(c) == LET r == Edited(c) IN /\ resource[r].uid = run[c].orig.uid
                                       /\ resource[r].rv = run[c].seen

Write(r, data) ==
    resource' = [resource EXCEPT ![r] = [data |-> data, rv |-> @.rv + 1, uid |-> @.uid]]

\* The three fates of a patch: applied; never applied; applied perhaps later.
Commits(c, data) == PatchTests(c) /\ Write(Edited(c), data) /\ UNCHANGED inflight
Drops == UNCHANGED <<resource, inflight>>
Delays(c, data) ==
    /\ LateCommits
    /\ inflight' = inflight \cup {[name |-> Edited(c), rv |-> run[c].seen, data |-> data]}
    /\ UNCHANGED resource

\* ResourceEdit.__init__: read the original and save it in the recovery file.
\* The case may still find, with the edit created, that the data is unusable.
ReadOriginal(c) ==
    LET object == resource[Edited(c)]
        edit == [run[c] EXCEPT !.hasEdit = TRUE,
                               !.orig = [data |-> object.data, uid |-> object.uid]]
    IN /\ pc[c] = "read"
       /\ \/ Step(c, edit, "compare")
          \/ LeaveTry(c, [edit EXCEPT !.outcome = "INCOMPLETE"])
          \/ Raise(c, "INCOMPLETE")
       /\ UNCHANGED <<lock, resource, reviewed, served, inflight, guest>>

\* ResourceEdit.change: arm restoration, then read and compare.
Compare(c) ==
    LET object == resource[Edited(c)]
        edit == [run[c] EXCEPT !.armed = TRUE]
        same == object.data = edit.orig.data /\ object.uid = edit.orig.uid
    IN /\ pc[c] = "compare"
       /\ \/ same /\ Step(c, [edit EXCEPT !.seen = object.rv], "patch")
          \/ ~same /\ LeaveTry(c, [edit EXCEPT !.outcome = "FAIL"])
          \/ LeaveTry(c, [edit EXCEPT !.outcome = "INCOMPLETE"])
       /\ UNCHANGED <<lock, resource, reviewed, served, inflight, guest>>

Patch(c) ==
    /\ pc[c] = "patch"
    /\ \/ Commits(c, Change(c)) /\ Goto(c, "observe")
       \/ (Commits(c, Change(c)) \/ Drops \/ Delays(c, Change(c)))
          /\ Raise(c, "INCOMPLETE")
    /\ UNCHANGED <<lock, reviewed, served, guest>>

Observe(c) ==
    /\ pc[c] = "observe"
    /\ \/ resource[Edited(c)].data = Change(c) /\ Goto(c, "rotate")
       \/ resource[Edited(c)].data # Change(c) /\ Raise(c, "FAIL")
       \/ Raise(c, "INCOMPLETE")
    /\ UNCHANGED <<lock, resource, reviewed, served, inflight, guest>>

\* ResourceEdit.restore: nothing to do, already original, ours, or foreign.
Restore(c) ==
    LET object == resource[Edited(c)]
        mine == object.uid = run[c].orig.uid
    IN /\ pc[c] = "restore"
       /\ \/ ~run[c].armed /\ Goto(c, "rerotate")
          \/ /\ run[c].armed /\ mine /\ object.data = run[c].orig.data
             /\ Step(c, [run[c] EXCEPT !.armed = FALSE], "rerotate")
          \/ /\ run[c].armed /\ mine /\ object.data = Change(c)
             /\ Step(c, [run[c] EXCEPT !.seen = object.rv], "unpatch")
          \/ run[c].armed /\ Abandon(c)
       /\ UNCHANGED <<lock, resource, reviewed, served, inflight, guest>>

Unpatch(c) ==
    LET original == run[c].orig.data
    IN /\ pc[c] = "unpatch"
       /\ \/ Commits(c, original) /\ Goto(c, "unobserve")
          \/ (Commits(c, original) \/ Drops \/ Delays(c, original)) /\ Abandon(c)
       /\ UNCHANGED <<lock, reviewed, served, guest>>

Unobserve(c) ==
    /\ pc[c] = "unobserve"
    /\ \/ /\ resource[Edited(c)].data = run[c].orig.data
          /\ Step(c, [run[c] EXCEPT !.armed = FALSE], "rerotate")
       \/ Abandon(c)
    /\ UNCHANGED <<lock, resource, reviewed, served, inflight, guest>>

---------------------------------------------------------------------------
(* Rotation of the serving pods: restart_trustee *)

\* Every serving pod is younger than the rotation, and the pod template names
\* the current version of each ConfigMap.  Secrets have no such annotation.
ServingVersions(c) ==  \* mutant: old pods are accepted
    \A r \in ConfigMaps : served[r].rv = resource[r].rv
ServingReady(c) == /\ run[c].fresh
                   /\ \A r \in ConfigMaps : served[r].rv = resource[r].rv

\* Deleting the pods that serve, for the change and for its restoration.
Rotate(c) ==
    LET rotating == [run[c] EXCEPT !.fresh = FALSE]
    IN /\ \/ pc[c] = "rotate" /\ (Step(c, rotating, "serving") \/ Raise(c, "INCOMPLETE"))
          \/ pc[c] = "rerotate" /\ (Step(c, rotating, "reserving") \/ Abandon(c))
       /\ UNCHANGED <<lock, resource, reviewed, served, inflight, guest>>

\* Waiting for convergence; the deadline or a changed identity ends it.
Serving(c) ==
    /\ \/ /\ pc[c] = "serving"
          /\ \/ ServingReady(c) /\ Goto(c, IF Case(c) \in EditFirst THEN "control" ELSE "start")
             \/ Raise(c, "INCOMPLETE")
       \/ /\ pc[c] = "reserving"
          /\ \/ /\ ServingReady(c)
                /\ Step(c, [run[c] EXCEPT !.restoration = "PASS"], AfterFinally(run[c]))
             \/ Abandon(c)
    /\ UNCHANGED <<lock, resource, reviewed, served, inflight, guest>>

---------------------------------------------------------------------------
(* A case: Runner.run *)

\* Fresh evidence; image digests and the experimental flag are checked before
\* anything is touched.
StartCase(c) ==
    LET new == [Unstarted EXCEPT !.holds = run[c].holds, !.k = run[c].k]
    IN /\ pc[c] = "case"
       /\ \/ /\ Case(c) = "isolation" /\ Step(c, new, "isolation")
          \/ /\ Case(c) # "isolation"
             /\ Step(c, new, IF Case(c) \in EditFirst THEN "read" ELSE "control")
          \/ Step(c, [new EXCEPT !.outcome = "INCOMPLETE"], "record")
       /\ UNCHANGED <<lock, resource, reviewed, served, inflight, guest>>

\* Runner.isolation edits nothing and has no recovery control.
Isolation(c) ==
    /\ pc[c] = "isolation"
    /\ \E o \in {"PASS", "INCOMPLETE", "FAIL"} :
          Step(c, [run[c] EXCEPT !.outcome = o], "record")
    /\ UNCHANGED <<lock, resource, reviewed, served, inflight, guest>>

\* Runner.positive before the negative.
Control(c) ==
    /\ pc[c] = "control"
    /\ \/ Goto(c, IF Case(c) \in EditLater THEN "read" ELSE "start")
       \/ Raise(c, "INCOMPLETE")
    /\ UNCHANGED <<lock, resource, reviewed, served, inflight, guest>>

\* Runner.negative up to start: the pod is named before the ambiguous create.
StartNegative(c) ==
    LET named == [run[c] EXCEPT !.named = TRUE]
        lost == [named EXCEPT !.outcome = "INCOMPLETE"]
    IN /\ pc[c] = "start"
       /\ \/ /\ guest' = [guest EXCEPT ![c] = "pending"]
             /\ Step(c, named, "negative") \/ LeaveTry(c, lost)
          \/ UNCHANGED guest /\ LeaveTry(c, lost)
       /\ UNCHANGED <<lock, resource, reviewed, served, inflight>>

\* The verdict at the deadline: a released guest fails the case, a denied one
\* passes if its denial is attributable.
Negative(c) ==
    /\ pc[c] = "negative"
    /\ \/ guest[c] = "denied" /\ LeaveTry(c, run[c])
       \/ guest[c] = "released" /\ Raise(c, "FAIL")
       \/ Raise(c, "INCOMPLETE")
    /\ UNCHANGED <<lock, resource, reviewed, served, inflight, guest>>

\* Runner.delete_pod of the negative pod, read back as gone.
DeleteNegative(c) ==
    /\ pc[c] = "deleteNegative"
    /\ \/ /\ guest' = [guest EXCEPT ![c] = "absent"]
          /\ Goto(c, AfterRemoval(run[c])) \/ Abandon(c)
       \/ UNCHANGED guest /\ Abandon(c)
    /\ UNCHANGED <<lock, resource, reviewed, served, inflight>>

Recovery(c) ==
    /\ pc[c] = "recovery"
    /\ \E o \in {"PASS", "INCOMPLETE"} : Step(c, [run[c] EXCEPT !.outcome = o], "record")
    /\ UNCHANGED <<lock, resource, reviewed, served, inflight, guest>>

\* main records the case, goes on after a PASS and stops at anything else.
Record(c) ==
    LET passed == run[c].outcome = "PASS"
        last == run[c].k = Len(Plan[c])
    IN /\ pc[c] = "record"
       /\ \/ passed /\ ~last /\ Step(c, [run[c] EXCEPT !.k = @ + 1], "case")
          \/ passed /\ last /\ Step(c, [run[c] EXCEPT !.report = "PASS"], "cleanup")
          \/ \E rep \in {"INCOMPLETE", "FAIL"} :
                /\ rep = "FAIL" => run[c].outcome = "FAIL"
                /\ Step(c, [run[c] EXCEPT !.report = rep], Exit(run[c]))
       /\ UNCHANGED <<lock, resource, reviewed, served, inflight, guest>>

\* Runner.cleanup of the other pods; its failure also keeps the lock.
Cleanup(c) ==
    /\ pc[c] = "cleanup"
    /\ \/ Goto(c, "release")
       \/ Step(c, [run[c] EXCEPT !.report = "FAIL"], "done")
    /\ UNCHANGED <<lock, resource, reviewed, served, inflight, guest>>

---------------------------------------------------------------------------
(* The environment *)

\* SIGKILL or a lost machine.
Kill(c) == /\ pc[c] \notin {"acquire", "done", "killed"}
           /\ Goto(c, "killed")
           /\ UNCHANGED <<lock, resource, reviewed, served, inflight, guest>>

\* The Operator and the kubelet start Trustee pods on the current data, whether
\* a rotation asked for it or not.
Serve ==
    LET current == [r \in Resources |-> [data |-> resource[r].data, rv |-> resource[r].rv]]
    IN /\ served # current \/ \E c \in Controllers : ~run[c].fresh
       /\ served' = current
       /\ run' = [c \in Controllers |-> [run[c] EXCEPT !.fresh = TRUE]]
       /\ UNCHANGED <<lock, resource, reviewed, inflight, guest, pc>>

\* A negative guest asks Trustee for its resource and, denied, asks again.  The
\* modified data denies it.  Any other data may deny or release it; without an
\* edit the guest is denied for a reason of its own, or not at all.
Attest(c) ==
    LET edits == Case(c) \in EditFirst \cup EditLater
        denies == edits /\ served[Edited(c)].data.by = c
    IN /\ \/ guest[c] = "pending"
          \/ guest[c] = "denied" /\ edits
       /\ \/ guest' = [guest EXCEPT ![c] = "denied"]
          \/ ~denies /\ guest' = [guest EXCEPT ![c] = "released"]
       /\ UNCHANGED <<lock, resource, reviewed, served, inflight, pc, run>>

\* Another tool publishes a newly reviewed value; none of them reads the lock.
Review(r) ==
    /\ r \in Reviewable /\ reviewed[r] < MaxReviews
    /\ reviewed' = [reviewed EXCEPT ![r] = @ + 1]
    /\ Write(r, Reviewed(reviewed[r] + 1))
    /\ UNCHANGED <<lock, served, inflight, guest, pc, run>>

\* Another tool, or the Operator after a deletion, puts the reviewed value back
\* over a modification, in the same object or a new one.
Reinstate(r) ==
    /\ r \in Reviewable /\ resource[r].data.by # Nobody
    /\ \E uid \in {resource[r].uid, resource[r].rv + 1} :
          resource' = [resource EXCEPT ![r] = [data |-> Reviewed(reviewed[r]),
                                               rv |-> @.rv + 1, uid |-> uid]]
    /\ UNCHANGED <<lock, reviewed, served, inflight, guest, pc, run>>

\* A request whose client gave up commits if its resourceVersion still holds.
CommitLate(q) ==
    /\ inflight' = inflight \ {q}
    /\ IF resource[q.name].rv = q.rv THEN Write(q.name, q.data) ELSE UNCHANGED resource
    /\ UNCHANGED <<lock, reviewed, served, guest, pc, run>>

\* The operator of an ended run removes its negative pod, restores from the
\* recovery file, refreshes Trustee and only then removes the lock.
Recover(c) ==
    LET undone(r) == IF resource[r].data.by = c
                     THEN [data |-> run[c].orig.data, rv |-> resource[r].rv + 1,
                           uid |-> resource[r].uid]
                     ELSE resource[r]
    IN /\ lock = c /\ pc[c] \in {"done", "killed"}
       /\ lock' = Nobody
       /\ guest' = [guest EXCEPT ![c] = "absent"]
       /\ resource' = [r \in Resources |-> undone(r)]
       /\ served' = [r \in Resources |-> [data |-> undone(r).data, rv |-> undone(r).rv]]
       /\ run' = [d \in Controllers |-> [run[d] EXCEPT !.fresh = TRUE]]
       /\ UNCHANGED <<reviewed, inflight, pc>>

---------------------------------------------------------------------------
Runner(c) ==
    \/ Acquire(c) \/ Confirm(c) \/ Release(c) \/ Unlock(c)
    \/ StartCase(c) \/ Isolation(c) \/ Control(c) \/ StartNegative(c) \/ Negative(c)
    \/ ReadOriginal(c) \/ Compare(c) \/ Patch(c) \/ Observe(c)
    \/ Rotate(c) \/ Serving(c)
    \/ DeleteNegative(c) \/ Restore(c) \/ Unpatch(c) \/ Unobserve(c)
    \/ Recovery(c) \/ Record(c) \/ Cleanup(c)

Ended == \A c \in Controllers : pc[c] \in {"done", "killed"}

Next == \/ \E c \in Controllers : Runner(c) \/ Kill(c) \/ Attest(c) \/ Recover(c)
        \/ \E r \in Resources : Review(r) \/ Reinstate(r)
        \/ \E q \in inflight : CommitLate(q)
        \/ Serve
        \/ Ended /\ UNCHANGED vars

Spec == Init /\ [][Next]_vars

\* Every loop of the runner has a deadline, so a live process always takes its
\* next step; the Operator keeps reconciling.
FairSpec == /\ Spec
            /\ \A c \in Controllers : WF_vars(Runner(c))
            /\ WF_vars(Serve)

---------------------------------------------------------------------------
(* Properties *)

\* What the runner promises: the lock holder is the one editor, and the data of
\* each resource is its value.
Edits == INSTANCE TrusteeEdits
         WITH Editors <- Controllers, owner <- lock,
              value <- [r \in Resources |-> resource[r].data]

ImplementsEdits == Edits!Spec

\* While a resource holds a controller's modification, that controller has the
\* lock and its recovery file holds the value that review last approved
\* (ProofLock, ResourceEdit): however the run ends, the change can be undone.
ModificationOwned ==
    \A r \in Resources : resource[r].data.by # Nobody =>
        LET a == resource[r].data.by
        IN /\ lock = a
           /\ run[a].hasEdit /\ r = Edited(a)
           /\ run[a].orig.data = Reviewed(reviewed[r])

\* Trustee serves a modified value only under the lock of its author: no run
\* gives the lock back before the restored value is served (restart_trustee
\* in the finally block).
ServedChangeOwned ==
    \A r \in Resources : served[r].data.by # Nobody => lock = served[r].data.by

\* No write of a runner loses a reviewed value: what a resource holds is always
\* based on the version approved last (the tests in ResourceEdit._patch).
LatestReviewKept == \A r \in Resources : resource[r].data.version = reviewed[r]

\* No other tool writes what the case edits; one that overwrites the edit while the
\* guest asks would decide the verdict.
Unreviewed(c) == Edited(c) \notin Reviewable

\* A guest that was denied is never given the secret, although it asks again:
\* it is gone before the restored data is served (finally in Runner.run).
DeniedStaysDenied ==
    [][\A c \in Controllers :
         guest[c] = "denied" /\ Unreviewed(c) => guest'[c] # "released"]_vars

\* A denial counts for a case with an edit only if the modification is what
\* Trustee serves when the verdict is given (restart_trustee before negative).
DenialAttributable ==
    [][\A c \in Controllers :
         /\ pc[c] = "negative" /\ pc'[c] # "killed" /\ pc' # pc
         /\ run'[c].outcome = "none"
         /\ run[c].hasEdit /\ Unreviewed(c)
         => served[Edited(c)].data.by = c]_vars

\* Exit status 0 means that nothing of the run is left: no lock, no negative
\* pod, no modified resource, no pod that serves one and no request that may
\* still modify one.
PassLeavesNothing ==
    \A c \in Controllers : (pc[c] = "done" /\ run[c].report = "PASS") =>
        /\ lock # c
        /\ guest[c] = "absent"
        /\ \A r \in Resources : resource[r].data.by # c /\ served[r].data.by # c
        /\ \A q \in inflight : q.data.by # c

\* Every modification is undone, unless its run was killed or reports a failed
\* restoration and keeps the lock: no exit from a case forgets it (the finally block
\* of Runner.run).
ChangeUndoneOrRetained ==
    \A c \in Controllers :
        (\E r \in Resources : resource[r].data.by = c) ~>
            \/ \A r \in Resources : resource[r].data.by # c
            \/ pc[c] = "killed"
            \/ pc[c] = "done" /\ run[c].restoration = "FAIL" /\ lock = c

\* A reported restoration is one: the change whose patch was ambiguous is not
\* in the resource (change arms restoration "before a possibly ambiguous API
\* response").
RestorationHolds ==
    \A c \in Controllers : run[c].restoration = "PASS" =>
        resource[Edited(c)].data.by # c
=============================================================================
