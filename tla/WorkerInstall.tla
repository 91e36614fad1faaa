----------------------------- MODULE WorkerInstall -----------------------------
(***************************************************************************)
(* Installation of the worker Operators and the confidential runtime:      *)
(* scripts/apply-sno.sh with lib/worker_install.py.                        *)
(*                                                                         *)
(* The installer polls.  OLM resolves install plans, replaces them by      *)
(* newer ones and installs what is approved, the Machine Config Operator   *)
(* renders configurations and rolls them out node by node, all between     *)
(* any two reads of a poll.                                                *)
(***************************************************************************)
EXTENDS Naturals, Sequences

CONSTANTS
    Operators,   \* the selected Operators, each with its Subscription
    Nodes,       \* the selected nodes
    Ahead,       \* whether APPROVE_INSTALLPLANS=1 may be set, as a set of Booleans
    None,
    MaxPlans,    \* bound: install plans of a Subscription
    MaxConfigs,  \* bound: configurations rendered for the pool
    MaxErrors    \* bound: calls that fail

ASSUME AheadAssumption == Ahead \subseteq BOOLEAN
ASSUME BoundsAssumption == MaxPlans \in Nat /\ MaxConfigs \in Nat /\ MaxErrors \in Nat

VARIABLES
    plans,      \* the install plans of each Subscription; the last is the current one
    installed,  \* what OLM installed for each: the CSV
    node,       \* the configuration that each node runs
    pool,       \* the MachineConfigPool
    kata,       \* the KataConfig and its status
    errors,     \* calls that failed so far
    pc,         \* the next read or call of the installer
    run         \* its local state

olm == <<plans, installed>>
machines == <<node, pool, kata>>
vars == <<olm, machines, errors, pc, run>>

---------------------------------------------------------------------------
\* A plan is for the CSVs of the release manifest from their catalog, or for others.
CSVs == {"expected", "other"}
Plans == [csv : CSVs, resolved : BOOLEAN, approved : BOOLEAN]

ASSUME NoneAssumption == None \notin CSVs \cup Operators

PlansUpToMax == UNION {[1..n -> Plans] : n \in 0..MaxPlans}

\* Configuration 0 is the one before the KataConfig; `runtime` is the first with the runtime.
Configs == 0..MaxConfigs
Pools == [spec : Configs,
          observed : Configs, completed : Configs]  \* the status, as of its last update
Katas == [applied : BOOLEAN, runtime : Configs,
          finished : BOOLEAN]                       \* the status, as of its last update

Pending == [operator : Operators, plan : 1..MaxPlans]

Runs == [todo : SUBSET Operators,    \* Subscriptions still to be read in this poll
         ready : BOOLEAN, planless : BOOLEAN,
         pending : SUBSET Pending,   \* PENDING_PLANS
         approve : BOOLEAN,          \* APPROVE_INSTALLPLANS
         finished : BOOLEAN,         \* kata_ready: what it read so far
         nodes : [Nodes -> Configs] \cup {None}]

Labels == {"poll", "subscription", "plan", "table", "approve", "kata", "kataStatus", "nodes",
           "pool", "done", "failed"}

TypeOK == /\ plans \in [Operators -> PlansUpToMax]
          /\ installed \in [Operators -> CSVs \cup {None}]
          /\ node \in [Nodes -> Configs]
          /\ pool \in Pools
          /\ kata \in Katas
          /\ errors \in 0..MaxErrors
          /\ pc \in Labels \X (Operators \cup {None})
          /\ run \in Runs

Start(approve) == [todo |-> Operators, ready |-> TRUE, planless |-> FALSE, pending |-> {},
                   approve |-> approve, finished |-> FALSE, nodes |-> None]

\* The Subscriptions are there, each with Manual approval; an earlier installation may have
\* installed some, and the runtime.
Init == /\ plans = [o \in Operators |-> <<>>]
        /\ installed \in [Operators -> {"expected", None}]
        /\ \E c \in {0, 1} \cap Configs :
             /\ c = 1 => \A o \in Operators : installed[o] = "expected"
             /\ node = [n \in Nodes |-> c]
             /\ pool = [spec |-> c, observed |-> c, completed |-> c]
             /\ kata = [applied |-> c = 1, runtime |-> c, finished |-> c = 1]
        /\ errors = 0
        /\ pc = <<"poll", None>>
        /\ \E approve \in Ahead : run = Start(approve)

---------------------------------------------------------------------------
At(label) == pc[1] = label
Goto(label) == pc' = <<label, None>>

Unchanged == UNCHANGED <<olm, machines, errors>>

\* operators_ready: the next Subscription, or the end of the poll.
NextSubscription == /\ At("poll") /\ run.todo # {}
                    /\ \E o \in run.todo : /\ pc' = <<"subscription", o>>
                                           /\ run' = [run EXCEPT !.todo = @ \ {o}]
                    /\ Unchanged

\* manage_subscription, in its reads: the installed CSV first.
ReadSubscriptionHopeful ==  \* mutant: a Subscription with a plan counts as ready
    LET o == pc[2] IN
    /\ At("subscription")
    /\ IF installed[o] = "expected" THEN Goto("poll") /\ UNCHANGED run
       ELSE /\ pc' = IF plans[o] = <<>> THEN <<"poll", None>> ELSE <<"plan", o>>
            /\ run' = [run EXCEPT !.ready = @ /\ plans[o] # <<>>,
                                  !.planless = @ \/ plans[o] = <<>>]
    /\ Unchanged
ReadSubscription ==
    LET o == pc[2] IN
    /\ At("subscription")
    /\ IF installed[o] = "expected" THEN Goto("poll") /\ UNCHANGED run
       ELSE /\ pc' = IF plans[o] = <<>> THEN <<"poll", None>> ELSE <<"plan", o>>
            /\ run' = [run EXCEPT !.ready = FALSE, !.planless = @ \/ plans[o] = <<>>]
    /\ Unchanged

\* check_plan: CSVs, approval, catalog and steps, which an unresolved plan lacks.
Checked(plan) == plan.csv = "expected" /\ plan.resolved

ReadPlan ==
    LET o == pc[2]
        plan == plans[o][Len(plans[o])] IN
    /\ At("plan")
    /\ IF Checked(plan)
       THEN /\ Goto("poll")
            /\ run' = IF plan.approved THEN run
                      ELSE [run EXCEPT !.pending =
                              @ \cup {[operator |-> o, plan |-> Len(plans[o])]}]
       ELSE Goto("failed") /\ UNCHANGED run
    /\ Unchanged

\* The plan is named, and cannot be read.
PlanUnread == /\ At("plan") /\ errors < MaxErrors
              /\ errors' = errors + 1
              /\ Goto("poll")
              /\ run' = [run EXCEPT !.planless = TRUE]
              /\ UNCHANGED <<olm, machines>>

\* The end of a poll: the table is shown once it is complete.
EndPollEarly ==  \* mutant: the table is shown as soon as there is a plan
    /\ At("poll") /\ run.todo = {}
    /\ IF run.ready THEN Goto("kata") /\ UNCHANGED run
       ELSE IF run.pending # {}
       THEN Goto(IF run.approve THEN "approve" ELSE "table") /\ UNCHANGED run
       ELSE Goto("poll") /\ run' = Start(run.approve)
    /\ Unchanged
EndPollAll ==  \* mutant: every Subscription must have a plan that waits
    /\ At("poll") /\ run.todo = {}
    /\ IF run.ready THEN Goto("kata") /\ UNCHANGED run
       ELSE IF \/ run.approve /\ run.pending # {}
               \/ \A o \in Operators : \E p \in run.pending : p.operator = o
       THEN Goto(IF run.approve THEN "approve" ELSE "table") /\ UNCHANGED run
       ELSE Goto("poll") /\ run' = Start(run.approve)
    /\ Unchanged
EndPoll ==
    /\ At("poll") /\ run.todo = {}
    /\ IF run.ready THEN Goto("kata") /\ UNCHANGED run
       ELSE IF run.pending # {} /\ (run.approve \/ ~run.planless)
       THEN Goto(IF run.approve THEN "approve" ELSE "table") /\ UNCHANGED run
       ELSE Goto("poll") /\ run' = Start(run.approve)
    /\ Unchanged

\* approve_pending_plans: one typed yes, also for the plans that come later.
Answer == /\ At("table")
          /\ \/ Goto("approve") /\ run' = [run EXCEPT !.approve = TRUE]
             \/ Goto("failed") /\ UNCHANGED run
          /\ Unchanged

\* The plan that was checked is approved by its name.  A patch that fails is not noticed.
ApproveCurrent == /\ At("approve") /\ run.pending # {}  \* mutant: the current plan's name
                  /\ \E p \in run.pending :
                       /\ plans' = [plans EXCEPT ![p.operator][Len(plans[p.operator])].approved = TRUE]
                       /\ run' = [run EXCEPT !.pending = @ \ {p}]
                  /\ UNCHANGED <<installed, machines, errors, pc>>
Approve == /\ At("approve") /\ run.pending # {}
           /\ \E p \in run.pending :
                /\ \/ /\ plans' = [plans EXCEPT ![p.operator][p.plan].approved = TRUE]
                      /\ UNCHANGED errors
                   \/ /\ errors < MaxErrors
                      /\ errors' = errors + 1
                      /\ UNCHANGED plans
                /\ run' = [run EXCEPT !.pending = @ \ {p}]
           /\ UNCHANGED <<installed, machines, pc>>

EndApproval == /\ At("approve") /\ run.pending = {}
               /\ Goto("poll")
               /\ run' = Start(run.approve)
               /\ Unchanged

---------------------------------------------------------------------------
(* Stage 3 *)

ApplyKata == /\ At("kata")
             /\ kata' = [kata EXCEPT !.applied = TRUE]
             /\ Goto("kataStatus")
             /\ UNCHANGED <<olm, node, pool, errors, run>>

\* kata_ready: four reads, one after the other; a failed one ends the poll.
ReadKata == /\ At("kataStatus")
            /\ run' = [run EXCEPT !.finished = kata.finished]
            /\ Goto("nodes")
            /\ Unchanged

ReadNodesUpdated ==  \* mutant: only the nodes that are done
    /\ At("nodes")
    /\ run' = [run EXCEPT !.nodes = [n \in {m \in Nodes : node[m] = pool.spec} |-> node[n]]]
    /\ Goto("pool")
    /\ Unchanged
ReadNodes == /\ At("nodes")
             /\ run' = [run EXCEPT !.nodes = node]
             /\ Goto("pool")
             /\ Unchanged

\* check_kata: the pool has observed and completed its current configuration, which every
\* node that was read runs.
CheckKataStatus ==  \* mutant: the configuration of the status, instead of the current one
    run.finished /\ \A n \in Nodes : run.nodes[n] = pool.completed
CheckKata == /\ run.finished
             /\ pool.observed = pool.spec /\ pool.completed = pool.spec
             /\ \A n \in Nodes : run.nodes[n] = pool.spec

ReadPool == /\ At("pool")
            /\ Goto(IF CheckKata THEN "done" ELSE "kataStatus")
            /\ UNCHANGED run
            /\ Unchanged

\* A node reboots, and the API with it.
Unanswered == /\ pc[1] \in {"kataStatus", "nodes", "pool"} /\ errors < MaxErrors
              /\ errors' = errors + 1
              /\ Goto("kataStatus")
              /\ UNCHANGED <<olm, machines, run>>

\* wait_until's deadline, which is looked at between two polls.
TimeOut == /\ \/ At("poll") /\ run.todo = Operators
              \/ At("kataStatus")
           /\ Goto("failed")
           /\ UNCHANGED run
           /\ Unchanged

Install == \/ NextSubscription \/ ReadSubscription \/ ReadPlan \/ EndPoll \/ Answer \/ Approve
           \/ EndApproval \/ ApplyKata \/ ReadKata \/ ReadNodes \/ ReadPool

---------------------------------------------------------------------------
(* OLM *)

\* Later plans are not looked at.
StageOne == pc[1] \in {"poll", "subscription", "plan", "table", "approve"}

\* A Subscription gets a plan, or a newer one than it has; what is installed is offered no
\* second upgrade.
Propose(o) == /\ StageOne /\ Len(plans[o]) < MaxPlans
              /\ installed[o] = None \/ plans[o] = <<>>
              /\ \E csv \in CSVs, resolved \in BOOLEAN :
                   /\ csv = "other" => resolved  \* it is refused in any case
                   /\ plans' = [plans EXCEPT ![o] =
                               Append(@, [csv |-> csv, resolved |-> resolved, approved |-> FALSE])]
              /\ UNCHANGED <<installed, machines, errors, pc, run>>

Resolve(o) == \E n \in DOMAIN plans[o] :
    /\ StageOne /\ ~plans[o][n].resolved
    /\ plans' = [plans EXCEPT ![o][n].resolved = TRUE]
    /\ UNCHANGED <<installed, machines, errors, pc, run>>

InstallCSV(o) == \E n \in DOMAIN plans[o] :
    /\ plans[o][n].approved /\ plans[o][n].resolved /\ installed[o] = None
    /\ installed' = [installed EXCEPT ![o] = plans[o][n].csv]
    /\ UNCHANGED <<plans, machines, errors, pc, run>>

(* The Machine Config Operator and the sandboxed containers Operator *)

\* A configuration is rendered: the first with the runtime is the KataConfig's, for which
\* the bound leaves room.  What is rolled out before stage 3 is not looked at.
Render == /\ ~StageOne /\ pool.spec < MaxConfigs
          /\ kata.applied \/ pool.spec + 1 < MaxConfigs
          /\ pool' = [pool EXCEPT !.spec = @ + 1]
          /\ kata' = IF kata.applied /\ kata.runtime = 0
                     THEN [kata EXCEPT !.runtime = pool.spec + 1] ELSE kata
          /\ UNCHANGED <<olm, node, errors, pc, run>>

UpdateNode == \E n \in Nodes :
    /\ node[n] # pool.spec
    /\ node' = [node EXCEPT ![n] = pool.spec]
    /\ UNCHANGED <<olm, pool, kata, errors, pc, run>>

Completed == IF \A n \in Nodes : node[n] = pool.spec THEN pool.spec ELSE pool.completed

UpdatePool == /\ pool' = [pool EXCEPT !.observed = pool.spec, !.completed = Completed]
              /\ pool' # pool
              /\ UNCHANGED <<olm, node, kata, errors, pc, run>>

HasRuntime(n) == kata.runtime # 0 /\ node[n] >= kata.runtime

UpdateKata == /\ kata' = [kata EXCEPT !.finished = \A n \in Nodes : HasRuntime(n)]
              /\ kata' # kata
              /\ UNCHANGED <<olm, node, pool, errors, pc, run>>

Controllers == \/ \E o \in Operators : Propose(o) \/ Resolve(o) \/ InstallCSV(o)
               \/ Render \/ UpdateNode \/ UpdatePool \/ UpdateKata

Next == Install \/ PlanUnread \/ Unanswered \/ TimeOut \/ Controllers

Spec == Init /\ [][Next]_vars

\* The installer goes on, and so do the controllers with what they were given.
FairSpec == /\ Spec
            /\ WF_vars(Install)
            /\ \A o \in Operators : /\ WF_vars(plans[o] = <<>> /\ Propose(o))
                                    /\ WF_vars(Resolve(o))
                                    /\ WF_vars(InstallCSV(o))
            /\ WF_vars(kata.applied /\ kata.runtime = 0 /\ Render)
            /\ WF_vars(UpdateNode) /\ WF_vars(UpdatePool) /\ WF_vars(UpdateKata)

---------------------------------------------------------------------------
(* Safety *)

\* "Each of these InstallPlans installs exactly the CSV in the release manifest"
\* (apply-sno.sh:61): whatever plan OLM puts in the place of one that was checked, only
\* the expected CSVs are installed.
OnlyExpectedInstalled == \A o \in Operators : installed[o] # "other"

\* "Ask once, when every Subscription has its plan, so that the table is complete"
\* (apply-sno.sh:92): while the question is open, every Subscription is in the table, or its
\* expected CSV is approved.
TableIsComplete ==
    At("table") => \A o \in Operators :
        \/ installed[o] = "expected"
        \/ \E n \in DOMAIN plans[o] : plans[o][n].approved
        \/ \E p \in run.pending : p.operator = o

\* The reads of kata_ready are not one snapshot, and no status says which KataConfig it is
\* about; nevertheless, when the check passes, every node has the runtime and no rollout is
\* under way (worker_install.py:68-118).
DoneIsConverged ==
    [][At("pool") /\ pc'[1] = "done" =>
         \A n \in Nodes : HasRuntime(n) /\ node[n] = pool.spec]_vars

(* The abstract installation *)

Granted(o) == {plans[o][n].csv : n \in {k \in DOMAIN plans[o] : plans[o][k].approved}}

Stages == INSTANCE StagedInstall
    WITH consent <- run.approve, granted <- [o \in Operators |-> Granted(o)],
         applied <- kata.applied, equipped <- {n \in Nodes : HasRuntime(n)},
         reported <- At("done")

\* Polls, replaced plans, failing calls and rollouts implement the stages that apply-sno.sh
\* announces: nothing is approved without the typed yes, nor for an Operator that is
\* there; the KataConfig is applied when every Subscription has its CSV, and the
\* success is that of every node (apply-sno.sh:179-192).
ImplementsStages == Stages!Spec

(* Liveness *)

\* Whatever OLM proposes and whichever calls fail, the installation ends, without waiting
\* for its deadline: nobody waits for an answer that does not come (apply-sno.sh:82-101).
Ends == <>(pc[1] \in {"done", "failed"})
===============================================================================
