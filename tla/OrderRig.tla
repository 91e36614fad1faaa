------------------------------ MODULE OrderRig ------------------------------
(***************************************************************************)
(* Ordering the two servers of a rig and setting them up: scripts/         *)
(* order-rig.py with the Terraform of infra/cherry.                        *)
(*                                                                         *)
(* One invocation follows another ("run make order-rig again"), each from  *)
(* whatever earlier ones left in COCO_STATE_DIR and at the provider, and   *)
(* each may stop at any of its questions, calls or files.  A server that   *)
(* Terraform ordered is in its state only once it was delivered; one that  *)
(* Terraform stopped waiting for bills on, unrecorded.                     *)
(***************************************************************************)
EXTENDS Naturals, FiniteSets

CONSTANTS
    Choices,    \* what may be ordered: plans of both servers, region, project; two of
                \* one project differ in region
    ProjectOf,  \* ProjectOf[a]: the project of a choice
    None,
    MaxServers, \* bound: servers ordered
    MaxRuns     \* bound: invocations

Roles == {"node", "helper"}
Servers == 1..MaxServers  \* in the order in which they are ordered

\* What names the server of each role.
Rigs == [Roles -> Servers \cup {None}]

ASSUME NoneAssumption == None \notin Choices \cup Servers \cup Rigs
ASSUME BoundsAssumption == MaxServers \in Nat /\ MaxRuns \in Nat

VARIABLES
    cloud,     \* the provider's servers
    mirror,    \* the mirror bootstrap of each helper
    bonded,    \* the nodes whose bond has both members
    recorded,  \* the Terraform state: the server of each role
    order,     \* rig-order.json
    marker,    \* known_hosts.servers
    known,     \* known_hosts: the servers whose keys are pinned
    rigFile,   \* rig.yml: the servers it names
    runs,      \* invocations so far
    pc,        \* the next step of the invocation
    run        \* its local state

provider == <<cloud, mirror, bonded>>
controller == <<marker, known, rigFile>>
vars == <<provider, recorded, order, controller, runs, pc, run>>

---------------------------------------------------------------------------
States == [role : Roles, choice : Choices \cup {None},
           status : {"unordered", "delivering", "active", "failed", "deleted"},
           switch : {1, 2}]

Labels == {"idle", "choose", "list", "adoptNode", "adoptHelper", "plan", "apply", "finished",
           "move", "mark", "reachHelper", "reachNode", "bootstrap", "check", "mirror",
           "old", "write"}

Runs == [found : [Roles -> SUBSET Servers],  \* adopt_servers: the servers of the project
         replace : BOOLEAN,                  \* the operator agreed to replace the helper
         todo : SUBSET Roles,                \* the plan: roles still to be ordered
         waiting : SUBSET Servers,           \* apply: ordered and not delivered
         values : Rigs,                      \* rig_values
         result : {"none", "PASS", "FAIL"}]

TypeOK == /\ cloud \in [Servers -> States]
          /\ mirror \in [Servers -> {"none", "running", "failed", "ready"}]
          /\ bonded \subseteq Servers
          /\ recorded \in Rigs
          /\ order \in Choices \cup {None}
          /\ marker \in Rigs \cup {None}
          /\ known \subseteq Servers
          /\ rigFile \in Rigs \cup {None}
          /\ runs \in 0..MaxRuns
          /\ pc \in Labels
          /\ run \in Runs

NoRig == [r \in Roles |-> None]

NewRun == [found |-> [r \in Roles |-> {}], replace |-> FALSE, todo |-> {}, waiting |-> {},
           values |-> NoRig, result |-> "none"]

Init == /\ cloud = [s \in Servers |-> [role |-> "node", choice |-> None,
                                       status |-> "unordered", switch |-> 1]]
        /\ mirror = [s \in Servers |-> "none"]
        /\ bonded = {}
        /\ recorded = NoRig
        /\ order = None
        /\ marker = None
        /\ known = {}
        /\ rigFile = None
        /\ runs = 0
        /\ pc = "idle"
        /\ run = NewRun

---------------------------------------------------------------------------
Exists(s) == s # None /\ cloud[s].status \notin {"unordered", "deleted"}

Gone(s) == [role |-> cloud[s].role, choice |-> None, status |-> "deleted", switch |-> 1]

Goto(label) == pc' = label /\ UNCHANGED run

End(result) == pc' = "idle" /\ run' = [NewRun EXCEPT !.result = result]

\* Stop, RigError and KeyboardInterrupt all end the invocation.
Fail == End("FAIL")

Start == /\ pc = "idle" /\ runs < MaxRuns
         /\ runs' = runs + 1
         /\ run' = NewRun
         /\ pc' = "choose"
         /\ UNCHANGED <<provider, recorded, order, controller>>

\* The operator interrupts it, a call fails or times out, a wait runs out.
Interrupt == /\ pc # "idle"
             /\ Fail
             /\ UNCHANGED <<provider, recorded, order, controller, runs>>

---------------------------------------------------------------------------
(* choose *)

\* An earlier choice is kept, or replaced if the Terraform state holds no server
\* or cannot be listed.
Choose ==
    /\ pc = "choose"
    /\ \/ order # None /\ UNCHANGED order
       \/ order' \in Choices
    /\ Goto("list")
    /\ UNCHANGED <<provider, recorded, controller, runs>>

---------------------------------------------------------------------------
(* adopt_servers *)

\* The servers of the project by hostname, for each role that the state lacks
\* (or for both, when the state cannot be listed).
ListNothing ==  \* mutant: servers that Terraform did not record are not looked for
    /\ pc = "list"
    /\ Goto("plan")
    /\ UNCHANGED <<provider, recorded, order, controller, runs>>
List ==
    /\ pc = "list"
    /\ \E missing \in {{r \in Roles : recorded[r] = None}, Roles} :
          run' = [run EXCEPT !.found =
                    [r \in Roles |-> IF r \in missing
                                     THEN {s \in Servers :
                                             /\ Exists(s) /\ cloud[s].role = r
                                             /\ ProjectOf[cloud[s].choice] = ProjectOf[order]}
                                     ELSE {}]]
    /\ pc' = "adoptNode"
    /\ UNCHANGED <<provider, recorded, order, controller, runs>>

\* Import the one server found, after its delivery; Terraform refuses to import
\* a role that it has.
Adopt(r, label) ==
    /\ \/ run.found[r] = {} /\ UNCHANGED recorded
       \/ \E s \in run.found[r] :
             /\ run.found[r] = {s}
             /\ cloud[s].status = "active" /\ cloud[s].choice = order
             /\ recorded[r] = None
             /\ recorded' = [recorded EXCEPT ![r] = s]
    /\ run' = [run EXCEPT !.found[r] = {}]
    /\ pc' = label
    /\ UNCHANGED <<provider, order, controller, runs>>

AdoptNode == pc = "adoptNode" /\ Adopt("node", "adoptHelper")
AdoptHelper == pc = "adoptHelper" /\ Adopt("helper", "plan")

---------------------------------------------------------------------------
(* order_servers *)

\* What terraform plan finds after a refresh: roles without a server, and servers
\* that it must replace, since they are of another choice or by request.
Missing == {r \in Roles : ~Exists(recorded[r])}
Replaced == {r \in Roles \ Missing : \/ cloud[recorded[r]].choice # order
                                     \/ r = "helper" /\ run.replace}

\* The precondition of rig_values.
Apart(rig) == cloud[rig["node"]].switch # cloud[rig["helper"]].switch

UnexpectedNever == {}  \* mutant: the plan is not searched for deletions
Unexpected == Replaced \ (IF run.replace THEN {"helper"} ELSE {})

PlanEager ==  \* mutant: the replacement is also asked for while a server is missing
    /\ pc = "plan"
    /\ \/ ~run.replace /\ run' = [run EXCEPT !.replace = TRUE] /\ UNCHANGED pc
       \/ /\ Missing \cup Replaced # {} /\ Unexpected = {}
          /\ run' = [run EXCEPT !.todo = Missing \cup Replaced]
          /\ pc' = "apply"
    /\ UNCHANGED <<provider, recorded, order, controller, runs>>
Plan ==
    /\ pc = "plan"
    /\ \/ /\ Missing \cup Replaced = {} /\ Apart(recorded)
          /\ run' = [run EXCEPT !.replace = TRUE]
          /\ UNCHANGED pc
       \/ /\ Missing \cup Replaced = {} /\ ~Apart(recorded)
          /\ run' = [run EXCEPT !.values = recorded]
          /\ pc' = "finished"
       \/ /\ Missing \cup Replaced # {} /\ Unexpected = {}
          /\ run' = [run EXCEPT !.todo = Missing \cup Replaced]
          /\ pc' = "apply"
    /\ UNCHANGED <<provider, recorded, order, controller, runs>>

---------------------------------------------------------------------------
(* terraform apply *)

\* A server to be replaced is deleted first; Terraform may stop before it records so.
Destroy(r) ==
    /\ pc = "apply" /\ r \in run.todo /\ Exists(recorded[r])
    /\ cloud' = [cloud EXCEPT ![recorded[r]] = Gone(recorded[r])]
    /\ mirror' = [mirror EXCEPT ![recorded[r]] = "none"]
    /\ bonded' = bonded \ {recorded[r]}
    /\ \/ recorded' = [recorded EXCEPT ![r] = None] /\ Goto("apply")
       \/ UNCHANGED recorded /\ Fail
    /\ UNCHANGED <<order, controller, runs>>

\* Order a server; without an answer Terraform stops, and writes its state as
\* the plan refreshed it.
Create(r) ==
    /\ pc = "apply" /\ r \in run.todo /\ ~Exists(recorded[r])
    /\ \E s \in Servers, switch \in {1, 2} :
          /\ cloud[s].status = "unordered"
          /\ \A t \in Servers : t < s => cloud[t].status # "unordered"
          /\ cloud' = [cloud EXCEPT ![s] = [role |-> r, choice |-> order,
                                            status |-> "delivering", switch |-> switch]]
          /\ \/ /\ run' = [run EXCEPT !.todo = @ \ {r}, !.waiting = @ \cup {s}]
                /\ UNCHANGED pc
             \/ Fail
    /\ recorded' = [recorded EXCEPT ![r] = None]
    /\ UNCHANGED <<mirror, bonded, order, controller, runs>>

\* Only a server that was delivered while Terraform waited is recorded.
Delivered(s) ==
    /\ pc = "apply" /\ s \in run.waiting /\ cloud[s].status = "active"
    /\ recorded' = [recorded EXCEPT ![cloud[s].role] = s]
    /\ run' = [run EXCEPT !.waiting = @ \ {s}]
    /\ UNCHANGED <<provider, order, controller, runs, pc>>

Applied ==
    /\ pc = "apply" /\ run.todo = {} /\ run.waiting = {}
    /\ IF Apart(recorded) THEN Fail
       ELSE run' = [run EXCEPT !.values = recorded] /\ pc' = "finished"
    /\ UNCHANGED <<provider, recorded, order, controller, runs>>

---------------------------------------------------------------------------
(* finished, reach *)

\* The rig file of an earlier run is looked at by its node only.
FinishedAny ==  \* mutant: any rig file counts
    /\ pc = "finished"
    /\ IF rigFile # None
       THEN End("PASS")
       ELSE Goto("move")
    /\ UNCHANGED <<provider, recorded, order, controller, runs>>
Finished ==
    /\ pc = "finished"
    /\ IF rigFile # None /\ rigFile["node"] = run.values["node"]
       THEN End("PASS")
       ELSE Goto("move")
    /\ UNCHANGED <<provider, recorded, order, controller, runs>>

\* Host keys of an earlier rig go before the marker changes.
MoveKeysNever ==  \* mutant: the keys of an earlier rig stay
    /\ pc = "move"
    /\ Goto("mark")
    /\ UNCHANGED <<provider, recorded, order, controller, runs>>
MoveKeys ==
    /\ pc = "move"
    /\ known' = IF marker = run.values THEN known ELSE {}
    /\ Goto("mark")
    /\ UNCHANGED <<provider, recorded, order, marker, rigFile, runs>>

MarkKeys ==
    /\ pc = "mark"
    /\ marker' = run.values
    /\ Goto("reachHelper")
    /\ UNCHANGED <<provider, recorded, order, known, rigFile, runs>>

\* wait_for_ssh pins the key on first contact.
Reach(r, label) ==
    /\ Exists(run.values[r])
    /\ known' = known \cup {run.values[r]}
    /\ Goto(label)
    /\ UNCHANGED <<provider, recorded, order, marker, rigFile, runs>>

ReachHelper == pc = "reachHelper" /\ Reach("helper", "reachNode")
ReachNode == pc = "reachNode" /\ Reach("node", "bootstrap")

---------------------------------------------------------------------------
(* start_bootstrap, check_node, wait_for_mirror, write_rig_file *)

Answers(r) == Exists(run.values[r])

StartBootstrapUnknown ==  \* mutant: a bootstrap that begins is in a status of its own
    LET h == run.values["helper"] IN
    /\ pc = "bootstrap" /\ Answers("helper")
    /\ mirror' = [mirror EXCEPT ![h] = "activating"]
    /\ Goto("check")
    /\ UNCHANGED <<cloud, bonded, recorded, order, controller, runs>>
\* A failed bootstrap is started again if the operator agrees; the answer to the
\* start may be lost.
StartBootstrap ==
    LET h == run.values["helper"] IN
    /\ pc = "bootstrap" /\ Answers("helper")
    /\ \/ mirror[h] \in {"ready", "running"} /\ Goto("check") /\ UNCHANGED mirror
       \/ /\ mirror[h] \in {"none", "failed"}
          /\ mirror' = [mirror EXCEPT ![h] = "running"]
          /\ Goto("check") \/ Fail
    /\ UNCHANGED <<cloud, bonded, recorded, order, controller, runs>>

\* A bond that misses a member gets one reboot, which may help.
CheckNode ==
    LET n == run.values["node"] IN
    /\ pc = "check" /\ Answers("node")
    /\ \/ n \in bonded /\ Goto("mirror") /\ UNCHANGED bonded
       \/ n \notin bonded /\ bonded' = bonded \cup {n} /\ Goto("mirror")
       \/ n \notin bonded /\ Fail /\ UNCHANGED bonded
    /\ UNCHANGED <<cloud, mirror, recorded, order, controller, runs>>

WaitForMirror ==
    LET h == run.values["helper"] IN
    /\ pc = "mirror" /\ Answers("helper")
    /\ \/ mirror[h] = "ready" /\ Goto("old")
       \/ mirror[h] \in {"none", "failed"} /\ Fail
    /\ UNCHANGED <<provider, recorded, order, controller, runs>>

MoveRigFile ==
    /\ pc = "old"
    /\ rigFile' = None
    /\ Goto("write")
    /\ UNCHANGED <<provider, recorded, order, marker, known, runs>>

WriteRigFile ==
    /\ pc = "write"
    /\ rigFile' = run.values
    /\ End("PASS")
    /\ UNCHANGED <<provider, recorded, order, marker, known, runs>>

---------------------------------------------------------------------------
(* The provider, the helpers and the operator *)

\* A delivered node may have a bond that misses a member.
Deliver(s) ==
    /\ cloud[s].status = "delivering"
    /\ \E status \in {"active", "failed"} : cloud' = [cloud EXCEPT ![s].status = status]
    /\ \/ cloud[s].role = "node" /\ bonded' = bonded \cup {s}
       \/ UNCHANGED bonded
    /\ UNCHANGED <<mirror, recorded, order, controller, runs, pc, run>>

Bootstrap(s) ==
    /\ mirror[s] = "running"
    /\ \E status \in {"ready", "failed"} : mirror' = [mirror EXCEPT ![s] = status]
    /\ UNCHANGED <<cloud, bonded, recorded, order, controller, runs, pc, run>>

\* Between invocations the operator deletes a server: one that Terraform recorded with
\* terraform destroy (of both, which may stop between the two, or of one), which also
\* forgets what it finds gone, another in the portal.
Delete(s) ==
    /\ pc = "idle" /\ Exists(s)
    /\ cloud' = [cloud EXCEPT ![s] = Gone(s)]
    /\ mirror' = [mirror EXCEPT ![s] = "none"]
    /\ bonded' = bonded \ {s}
    /\ recorded' = IF \A r \in Roles : recorded[r] # s THEN recorded
                   ELSE [r \in Roles |-> IF Exists(recorded[r]) /\ recorded[r] # s
                                         THEN recorded[r] ELSE None]
    /\ UNCHANGED <<order, controller, runs, pc, run>>

Step == \/ Choose \/ List \/ AdoptNode \/ AdoptHelper \/ Plan
        \/ \E r \in Roles : Destroy(r) \/ Create(r)
        \/ \E s \in Servers : Delivered(s)
        \/ Applied \/ Finished \/ MoveKeys \/ MarkKeys \/ ReachHelper \/ ReachNode
        \/ StartBootstrap \/ CheckNode \/ WaitForMirror \/ MoveRigFile \/ WriteRigFile

Next == \/ Start
        \/ Step
        \/ Interrupt
        \/ \E s \in Servers : Deliver(s) \/ Bootstrap(s) \/ Delete(s)

Spec == Init /\ [][Next]_vars

---------------------------------------------------------------------------
(* Safety *)

\* However often it is run and wherever it stopped, a project never holds two
\* servers of a role: one that Terraform does not know is taken over, not
\* ordered again (adopt_servers; docs/cherry-servers.md:24-27).
NothingOrderedTwice ==
    \A s, t \in Servers :
        /\ Exists(s) /\ Exists(t) /\ cloud[s].role = cloud[t].role
        /\ ProjectOf[cloud[s].choice] = ProjectOf[cloud[t].choice]
        => s = t

\* Ordering deletes nothing but a helper that the operator agreed to replace in
\* this very run, whatever changed between choice, state and provider
\* (order-rig.py:455-459).
NothingElseDeleted ==
    [][\A s \in Servers : Exists(s) /\ ~Exists(s)' /\ pc # "idle" =>
          cloud[s].role = "helper" /\ run.replace]_vars

\* Pinned keys are of the servers that the marker names: no stop between moving
\* the old keys and writing the marker makes those of an earlier rig, at addresses
\* that the provider reuses, look like this rig's (order-rig.py:493-499).
KeysOfMarkedRig ==
    known # {} => marker # None /\ \A s \in known : \E r \in Roles : marker[r] = s

EndsWell == run'.result = "PASS" /\ run.result # "PASS"

\* What the stages leave of a rig: its keys are pinned, the node's bond is complete and
\* the helper's mirror is ready.
StagesPassed(rig) == /\ \A r \in Roles : rig[r] \in known
                     /\ rig["node"] \in bonded
                     /\ mirror[rig["helper"]] = "ready"

\* "Rig ready" is said of a rig whose servers are those of the rig file and passed every
\* stage, in this run or in the one that wrote the file ("one for these servers means every
\* stage passed", order-rig.py:611).
ReadyIsChecked ==
    [][EndsWell => rigFile' = recorded /\ StagesPassed(recorded)]_vars

\* A file that finished accepts may be wrong about one thing only: it may name a helper that
\* is gone, in whose place another was ordered.  A node that was not checked, or was checked
\* with the keys of another rig, is never reported as ready (order-rig.py:613).
OnlyNewHelperUnchecked ==
    [][EndsWell =>
         \/ rigFile' = recorded /\ StagesPassed(recorded)
         \/ /\ rigFile' # None /\ rigFile'["node"] = recorded["node"]
            /\ recorded["node"] \in known \cap bonded
            /\ ~Exists(rigFile'["helper"])]_vars

(* The abstract fleet *)

Billed == {[id |-> s, role |-> cloud[s].role, project |-> ProjectOf[cloud[s].choice]] :
             s \in {t \in Servers : Exists(t)}}

Fleet == INSTANCE ServerFleet
    WITH Projects <- {ProjectOf[a] : a \in Choices}, Ids <- Servers,
         servers <- Billed, ever <- {s \in Servers : cloud[s].status # "unordered"},
         working <- pc # "idle", agreed <- run.replace

\* Wherever invocations stop and whatever Terraform did not record, ordering is that of
\* the abstract fleet: a server comes where there is none, and goes by its owner's hand
\* only, or as the helper of a complete pair that he agreed to replace in the same run
\* (order-rig.py:421-470).
ImplementsFleet == Fleet!Spec
=============================================================================
