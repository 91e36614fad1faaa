-------------------------- MODULE WorkerInstallProofs --------------------------
(***************************************************************************)
(* Theorems about WorkerInstall for any Operators, nodes and bounds, and   *)
(* that it implements StagedInstall.                                       *)
(***************************************************************************)
EXTENDS WorkerInstall, SequenceTheorems, TLAPS

(* The inductive invariant *)

\* The Subscription that is being read, and that it has the plan.
Reading == /\ pc[1] \in {"subscription", "plan"} => pc[2] \in Operators
           /\ pc[1] = "plan" => plans[pc[2]] # <<>>

\* What waits for approval was checked, and so was what is approved; the CSV of a plan does
\* not change.
PendingChecked ==
    \A p \in run.pending : /\ p.plan \in 1..Len(plans[p.operator])
                           /\ plans[p.operator][p.plan].csv = "expected"

ApprovedExpected ==
    \A o \in Operators : \A n \in 1..Len(plans[o]) :
        plans[o][n].approved => plans[o][n].csv = "expected"

PlanInv == Reading /\ PendingChecked /\ ApprovedExpected /\ OnlyExpectedInstalled

\* A Subscription that was read in this poll is in the table, needs no question, or holds
\* the question back.
Asked(o) == \/ installed[o] = "expected"
            \/ \E n \in DOMAIN plans[o] : plans[o][n].approved
            \/ \E p \in run.pending : p.operator = o

PollInv == pc[1] \in {"poll", "subscription", "plan"} =>
    \A o \in Operators \ run.todo :
        Asked(o) \/ run.planless \/ (pc[1] # "poll" /\ pc[2] = o)

\* Configurations only grow, so what was read of a node is a lower bound.
Bounded == /\ \A n \in Nodes : node[n] <= pool.spec
           /\ kata.runtime <= pool.spec

ReadInv == /\ kata.finished \/ run.finished => \A n \in Nodes : HasRuntime(n)
           /\ pc[1] = "pool" => /\ run.nodes \in [Nodes -> Configs]
                                /\ \A n \in Nodes : run.nodes[n] <= node[n]

InstallInv == /\ TypeOK /\ PlanInv /\ PollInv /\ TableIsComplete /\ Bounded /\ ReadInv
--------------------------------------------------------------------------------
(* Install plans *)

LEMMA PlansAreSeqs ==
    ASSUME NEW s \in PlansUpToMax
    PROVE  /\ s \in Seq(Plans) /\ Len(s) \in 0..MaxPlans /\ DOMAIN s = 1..Len(s)
           /\ s # <<>> => Len(s) \in 1..MaxPlans
  <1>1. PICK n \in 0..MaxPlans : s \in [1..n -> Plans]
    BY DEF PlansUpToMax
  <1>2. n \in Nat
    BY <1>1, BoundsAssumption
  <1>3. s \in Seq(Plans) /\ Len(s) = n
    BY <1>1, <1>2, IsASeq
  <1>4. s # <<>> => Len(s) # 0
    BY <1>3, EmptySeq
  <1> QED
    BY <1>1, <1>2, <1>3, <1>4, LenProperties, BoundsAssumption

LEMMA SeqsArePlans ==
    ASSUME NEW s \in Seq(Plans), Len(s) <= MaxPlans
    PROVE  s \in PlansUpToMax
  <1>1. Len(s) \in 0..MaxPlans
    BY LenProperties, BoundsAssumption
  <1>2. s \in [1..Len(s) -> Plans]
    BY LenProperties
  <1> QED
    BY <1>1, <1>2 DEF PlansUpToMax

LEMMA NoPlans == <<>> \in PlansUpToMax /\ Len(<<>>) = 0
  <1>1. <<>> \in Seq(Plans) /\ Len(<<>>) = 0
    BY EmptySeq
  <1>2. 0 <= MaxPlans
    BY BoundsAssumption
  <1> QED
    BY <1>1, <1>2, SeqsArePlans

\* A plan of a Subscription is replaced by one with the same CSV and no less approved.
LEMMA UpdatePlan ==
    ASSUME NEW s \in PlansUpToMax, NEW n \in 1..Len(s), NEW plan \in Plans
    PROVE  LET t == [s EXCEPT ![n] = plan] IN
           /\ t \in PlansUpToMax /\ Len(t) = Len(s) /\ t[n] = plan
           /\ \A i \in 1..Len(s) : i # n => t[i] = s[i]
  <1>1. s \in Seq(Plans) /\ Len(s) <= MaxPlans
    BY PlansAreSeqs
  <1> DEFINE t == [s EXCEPT ![n] = plan]
  <1>2. t \in Seq(Plans) /\ Len(t) = Len(s) /\ \A i \in 1..Len(s) : t[i] = IF i = n THEN plan ELSE s[i]
    BY <1>1, ExceptSeq
  <1> QED
    BY <1>1, <1>2, SeqsArePlans

LEMMA AddPlan ==
    ASSUME NEW s \in PlansUpToMax, Len(s) < MaxPlans, NEW plan \in Plans
    PROVE  LET t == Append(s, plan) IN
           /\ t \in PlansUpToMax /\ Len(t) = Len(s) + 1 /\ t[Len(t)] = plan
           /\ \A i \in 1..Len(s) : t[i] = s[i]
  <1>1. s \in Seq(Plans) /\ Len(s) \in 0..MaxPlans
    BY PlansAreSeqs
  <1> DEFINE t == Append(s, plan)
  <1>2. t \in Seq(Plans) /\ Len(t) = Len(s) + 1 /\ t[Len(s) + 1] = plan
        /\ \A i \in 1..Len(s) : t[i] = s[i]
    BY <1>1, AppendProperties
  <1>3. Len(t) <= MaxPlans
    BY <1>1, <1>2, BoundsAssumption
  <1>4. t \in PlansUpToMax
    BY <1>2, <1>3, SeqsArePlans
  <1>5. t[Len(t)] = plan
    BY <1>2
  <1> HIDE DEF t
  <1>6. /\ t \in PlansUpToMax /\ Len(t) = Len(s) + 1 /\ t[Len(t)] = plan
        /\ \A i \in 1..Len(s) : t[i] = s[i]
    BY <1>2, <1>4, <1>5
  <1> QED
    BY <1>6 DEF t

\* Every step keeps the plans there are, their CSVs and their approvals.
PlansGrow ==
    /\ plans' \in [Operators -> PlansUpToMax]
    /\ \A o \in Operators :
         /\ Len(plans[o]) <= Len(plans'[o])
         /\ \A n \in 1..Len(plans[o]) :
              /\ plans'[o][n].csv = plans[o][n].csv
              /\ plans[o][n].approved => plans'[o][n].approved

LEMMA PlansStay == ASSUME TypeOK, plans' = plans PROVE PlansGrow
  <1>1. \A o \in Operators : Len(plans[o]) \in Nat
    BY PlansAreSeqs, BoundsAssumption DEF TypeOK
  <1> QED
    BY <1>1 DEF PlansGrow, TypeOK

\* The plan is updated as UpdatePlan says.
LEMMA UpdateGrows ==
    ASSUME TypeOK, NEW o \in Operators, NEW n \in 1..Len(plans[o]), NEW plan \in Plans,
           plan.csv = plans[o][n].csv, plans[o][n].approved => plan.approved,
           plans' = [plans EXCEPT ![o] = [plans[o] EXCEPT ![n] = plan]]
    PROVE  PlansGrow
  <1>1. plans[o] \in PlansUpToMax
    BY DEF TypeOK
  <1> DEFINE t == [plans[o] EXCEPT ![n] = plan]
  <1>2. /\ t \in PlansUpToMax /\ Len(t) = Len(plans[o]) /\ t[n] = plan
        /\ \A i \in 1..Len(plans[o]) : i # n => t[i] = plans[o][i]
    BY <1>1, UpdatePlan
  <1>3. plans' = [plans EXCEPT ![o] = t]
    OBVIOUS
  <1> HIDE DEF t
  <1>4. \A p \in Operators : Len(plans[p]) \in Nat
    BY PlansAreSeqs, BoundsAssumption DEF TypeOK
  <1>5. plans' \in [Operators -> PlansUpToMax]
    BY <1>2, <1>3 DEF TypeOK
  <1>6. plans'[o] = t /\ \A p \in Operators : p # o => plans'[p] = plans[p]
    BY <1>3 DEF TypeOK
  <1>7. \A i \in 1..Len(plans[o]) : /\ t[i].csv = plans[o][i].csv
                                   /\ plans[o][i].approved => t[i].approved
    BY <1>2
  <1> QED
    BY <1>2, <1>4, <1>5, <1>6, <1>7 DEF PlansGrow

LEMMA ProposeGrows == ASSUME TypeOK, NEW o \in Operators, Propose(o) PROVE PlansGrow
  <1>1. PICK csv \in CSVs, resolved \in BOOLEAN :
           plans' = [plans EXCEPT ![o] = Append(plans[o], [csv |-> csv, resolved |-> resolved,
                                                           approved |-> FALSE])]
    BY DEF Propose, TypeOK
  <1> DEFINE plan == [csv |-> csv, resolved |-> resolved, approved |-> FALSE]
             t == Append(plans[o], plan)
  <1>2. plan \in Plans
    BY DEF Plans
  <1>3. plans[o] \in PlansUpToMax /\ Len(plans[o]) < MaxPlans
    BY DEF Propose, TypeOK
  <1>4. plans' = [plans EXCEPT ![o] = t]
    BY <1>1
  <1> HIDE DEF plan
  <1>5. /\ t \in PlansUpToMax /\ Len(t) = Len(plans[o]) + 1
        /\ \A i \in 1..Len(plans[o]) : t[i] = plans[o][i]
    BY <1>2, <1>3, AddPlan
  <1> HIDE DEF t
  <1>6. \A p \in Operators : Len(plans[p]) \in Nat
    BY PlansAreSeqs, BoundsAssumption DEF TypeOK
  <1> QED
    BY <1>4, <1>5, <1>6 DEF PlansGrow, TypeOK

LEMMA ResolveGrows == ASSUME TypeOK, NEW o \in Operators, Resolve(o) PROVE PlansGrow
  <1>1. PICK n \in DOMAIN plans[o] : plans' = [plans EXCEPT ![o][n].resolved = TRUE]
    BY DEF Resolve
  <1>2. plans[o] \in PlansUpToMax
    BY DEF TypeOK
  <1>3. n \in 1..Len(plans[o]) /\ plans[o][n] \in Plans
    BY <1>2, PlansAreSeqs, ElementOfSeq
  <1> DEFINE plan == [plans[o][n] EXCEPT !.resolved = TRUE]
  <1>4. plan \in Plans /\ plan.csv = plans[o][n].csv /\ plan.approved = plans[o][n].approved
    BY <1>3 DEF Plans
  <1>5. plans' = [plans EXCEPT ![o] = [plans[o] EXCEPT ![n] = plan]]
    BY <1>1, <1>3
  <1> HIDE DEF plan
  <1> QED
    BY <1>3, <1>4, <1>5, UpdateGrows

\* Approving a plan that waits.
LEMMA ApproveGrows ==
    ASSUME TypeOK, PlanInv, NEW p \in run.pending,
           plans' = [plans EXCEPT ![p.operator][p.plan].approved = TRUE]
    PROVE  /\ PlansGrow
           /\ \E n \in DOMAIN plans'[p.operator] : plans'[p.operator][n].approved
           /\ ApprovedExpected'
  <1>1. p.operator \in Operators
    BY DEF TypeOK, Runs, Pending
  <1> DEFINE o == p.operator
             n == p.plan
  <1>2. plans[o] \in PlansUpToMax
    BY <1>1 DEF TypeOK
  <1>3. n \in 1..Len(plans[o]) /\ plans[o][n].csv = "expected"
    BY DEF PlanInv, PendingChecked
  <1>4. plans[o][n] \in Plans
    BY <1>2, <1>3, PlansAreSeqs, ElementOfSeq
  <1> DEFINE plan == [plans[o][n] EXCEPT !.approved = TRUE]
  <1>5. plan \in Plans /\ plan.csv = plans[o][n].csv /\ plan.approved
    BY <1>4 DEF Plans
  <1>6. plans' = [plans EXCEPT ![o] = [plans[o] EXCEPT ![n] = plan]]
    BY <1>1, <1>3
  <1> HIDE DEF plan
  <1>7. PlansGrow
    BY <1>1, <1>3, <1>5, <1>6, UpdateGrows
  <1>a. plans'[o] = [plans[o] EXCEPT ![n] = plan]
    BY <1>1, <1>6 DEF TypeOK
  <1>8. plans'[o] \in PlansUpToMax /\ plans'[o][n] = plan /\ Len(plans'[o]) = Len(plans[o])
    BY <1>2, <1>3, <1>5, <1>a, UpdatePlan
  <1>9. n \in DOMAIN plans'[o]
    BY <1>3, <1>8, PlansAreSeqs
  <1>10. \A i \in 1..Len(plans[o]) : i # n => plans'[o][i] = plans[o][i]
    BY <1>2, <1>3, <1>5, <1>a, UpdatePlan
  <1>11. \A q \in Operators : q # o => plans'[q] = plans[q]
    BY <1>6 DEF TypeOK
  <1>12. ApprovedExpected'
    BY <1>3, <1>5, <1>8, <1>10, <1>11 DEF PlanInv, ApprovedExpected
  <1> QED
    BY <1>5, <1>7, <1>8, <1>9, <1>12

LEMMA PlansNext == TypeOK /\ PlanInv /\ [Next]_vars => PlansGrow /\ ApprovedExpected'
  <1> SUFFICES ASSUME TypeOK, PlanInv, [Next]_vars PROVE PlansGrow /\ ApprovedExpected'
    OBVIOUS
  <1>1. ASSUME plans' = plans PROVE PlansGrow /\ ApprovedExpected'
    BY <1>1, PlansStay DEF PlanInv, ApprovedExpected
  <1>2. CASE Approve
    <2>1. PICK p \in run.pending :
             plans' = [plans EXCEPT ![p.operator][p.plan].approved = TRUE] \/ plans' = plans
      BY <1>2 DEF Approve
    <2> QED
      BY <1>1, <2>1, ApproveGrows
  <1>3. ASSUME NEW o \in Operators, Propose(o) PROVE PlansGrow /\ ApprovedExpected'
    <2>1. PlansGrow
      BY <1>3, ProposeGrows
    <2>2. PICK csv \in CSVs, resolved \in BOOLEAN :
             plans' = [plans EXCEPT ![o] = Append(plans[o], [csv |-> csv, resolved |-> resolved,
                                                             approved |-> FALSE])]
      BY <1>3 DEF Propose, TypeOK
    <2> DEFINE plan == [csv |-> csv, resolved |-> resolved, approved |-> FALSE]
    <2>3. plan \in Plans /\ ~plan.approved
      BY DEF Plans
    <2>4. plans'[o] = Append(plans[o], plan) /\ \A q \in Operators : q # o => plans'[q] = plans[q]
      BY <2>2 DEF TypeOK
    <2> HIDE DEF plan
    <2>5. plans[o] \in PlansUpToMax /\ Len(plans[o]) < MaxPlans
      BY <1>3 DEF Propose, TypeOK
    <2>6. /\ Len(plans'[o]) = Len(plans[o]) + 1 /\ plans'[o][Len(plans'[o])] = plan
          /\ \A i \in 1..Len(plans[o]) : plans'[o][i] = plans[o][i]
      BY <2>3, <2>4, <2>5, AddPlan
    <2>7. Len(plans[o]) \in Nat
      BY <2>5, PlansAreSeqs, BoundsAssumption
    <2>8. \A i \in 1..Len(plans'[o]) : plans'[o][i].approved => plans'[o][i].csv = "expected"
      BY <2>3, <2>6, <2>7 DEF PlanInv, ApprovedExpected
    <2> QED
      BY <2>1, <2>4, <2>8 DEF PlanInv, ApprovedExpected
  <1>4. ASSUME NEW o \in Operators, Resolve(o) PROVE PlansGrow /\ ApprovedExpected'
    <2>1. PlansGrow
      BY <1>4, ResolveGrows
    <2>2. PICK n \in DOMAIN plans[o] : plans' = [plans EXCEPT ![o][n].resolved = TRUE]
      BY <1>4 DEF Resolve
    <2>3. plans[o] \in PlansUpToMax
      BY DEF TypeOK
    <2>4. n \in 1..Len(plans[o]) /\ plans[o][n] \in Plans
      BY <2>2, <2>3, PlansAreSeqs, ElementOfSeq
    <2> DEFINE plan == [plans[o][n] EXCEPT !.resolved = TRUE]
    <2>5. plan \in Plans /\ plan.csv = plans[o][n].csv /\ plan.approved = plans[o][n].approved
      BY <2>4 DEF Plans
    <2>6. plans' = [plans EXCEPT ![o] = [plans[o] EXCEPT ![n] = plan]]
      BY <2>2, <2>4
    <2> HIDE DEF plan
    <2>7. /\ plans'[o] = [plans[o] EXCEPT ![n] = plan]
          /\ \A q \in Operators : q # o => plans'[q] = plans[q]
      BY <2>6 DEF TypeOK
    <2>8. /\ Len(plans'[o]) = Len(plans[o]) /\ plans'[o][n] = plan
          /\ \A i \in 1..Len(plans[o]) : i # n => plans'[o][i] = plans[o][i]
      BY <2>3, <2>4, <2>5, <2>7, UpdatePlan
    <2> QED
      BY <2>1, <2>4, <2>5, <2>7, <2>8 DEF PlanInv, ApprovedExpected
  <1> USE <1>1 DEF olm, machines, Unchanged
  <1>5. CASE Install \/ PlanUnread \/ Unanswered \/ TimeOut
    BY <1>2, <1>5
    DEF Install, PlanUnread, Unanswered, TimeOut, NextSubscription, ReadSubscription, ReadPlan,
        EndPoll, Answer, EndApproval, ApplyKata, ReadKata, ReadNodes, ReadPool
  <1>6. CASE Controllers
    BY <1>3, <1>4, <1>6 DEF Controllers, InstallCSV, Render, UpdateNode, UpdatePool, UpdateKata
  <1> QED
    BY <1>5, <1>6 DEF Next, vars

--------------------------------------------------------------------------------
(* Types *)

LEMMA StartType == ASSUME NEW approve \in BOOLEAN PROVE Start(approve) \in Runs
  BY DEF Start, Runs

LEMMA GotoType ==
    ASSUME NEW label \in Labels, Goto(label)
    PROVE  pc' \in Labels \X (Operators \cup {None}) /\ pc'[1] = label
  BY DEF Goto

\* The fields of the installer's state.
LEMMA RunType ==
    ASSUME TypeOK
    PROVE  /\ \A o \in Operators : [run EXCEPT !.todo = @ \ {o}] \in Runs
           /\ \A b \in BOOLEAN : [run EXCEPT !.ready = FALSE, !.planless = b] \in Runs
           /\ \A p \in Pending : [run EXCEPT !.pending = @ \cup {p}] \in Runs
           /\ \A p \in Pending : [run EXCEPT !.pending = @ \ {p}] \in Runs
           /\ [run EXCEPT !.planless = TRUE] \in Runs
           /\ [run EXCEPT !.approve = TRUE] \in Runs
           /\ [run EXCEPT !.finished = kata.finished] \in Runs
           /\ [run EXCEPT !.nodes = node] \in Runs
           /\ run.approve \in BOOLEAN /\ run.planless \in BOOLEAN
           /\ run.todo \subseteq Operators /\ run.pending \subseteq Pending
           /\ run \in Runs
  BY DEF TypeOK, Runs, Katas

LEMMA TypeInit == Init => TypeOK
  <1> SUFFICES ASSUME Init PROVE TypeOK
    OBVIOUS
  <1>1. plans \in [Operators -> PlansUpToMax]
    BY NoPlans DEF Init
  <1>2. installed \in [Operators -> CSVs \cup {None}]
    BY DEF Init, CSVs
  <1>3. PICK c \in {0, 1} \cap Configs :
           /\ node = [n \in Nodes |-> c]
           /\ pool = [spec |-> c, observed |-> c, completed |-> c]
           /\ kata = [applied |-> c = 1, runtime |-> c, finished |-> c = 1]
    BY DEF Init
  <1>4. node \in [Nodes -> Configs] /\ pool \in Pools /\ kata \in Katas
    BY <1>3 DEF Pools, Katas
  <1>5. run \in Runs
    BY StartType, AheadAssumption DEF Init
  <1>6. errors \in 0..MaxErrors /\ pc \in Labels \X (Operators \cup {None})
    BY BoundsAssumption DEF Init, Labels
  <1> QED
    BY <1>1, <1>2, <1>4, <1>5, <1>6 DEF TypeOK

LEMMA TypeNext == TypeOK /\ PlanInv /\ [Next]_vars => TypeOK'
  <1> SUFFICES ASSUME TypeOK, PlanInv, [Next]_vars PROVE TypeOK'
    OBVIOUS
  <1> USE DEF olm, machines, Unchanged
  <1>a. plans' \in [Operators -> PlansUpToMax]
    BY PlansNext DEF PlansGrow
  <1>b. ASSUME UNCHANGED <<installed, machines, errors>>,
               pc' \in Labels \X (Operators \cup {None}), run' \in Runs
        PROVE  TypeOK'
    BY <1>a, <1>b DEF TypeOK
  <1>c. ASSUME NEW label \in Labels, Goto(label), run' = run,
               UNCHANGED <<installed, machines, errors>>
        PROVE  TypeOK'
    BY <1>b, <1>c, GotoType DEF TypeOK
  <1>l. /\ "poll" \in Labels /\ "subscription" \in Labels /\ "plan" \in Labels
        /\ "table" \in Labels /\ "approve" \in Labels /\ "kata" \in Labels
        /\ "kataStatus" \in Labels /\ "nodes" \in Labels /\ "pool" \in Labels
        /\ "done" \in Labels /\ "failed" \in Labels
    BY DEF Labels
  <1>s. Start(run.approve) \in Runs
    BY RunType, StartType
  <1>1. CASE NextSubscription
    <2>1. PICK o \in run.todo : pc' = <<"subscription", o>> /\ run' = [run EXCEPT !.todo = @ \ {o}]
      BY <1>1 DEF NextSubscription
    <2>2. o \in Operators
      BY RunType
    <2>3. run' \in Runs
      BY <2>1, <2>2, RunType
    <2> QED
      BY <1>1, <1>b, <1>l, <2>1, <2>2, <2>3 DEF NextSubscription
  <1>2. CASE ReadSubscription
    <2>1. pc[2] \in Operators
      BY <1>2 DEF ReadSubscription, At, PlanInv, Reading
    <2>2. pc' \in Labels \X (Operators \cup {None})
      BY <1>2, <1>l, <2>1, GotoType DEF ReadSubscription
    <2>3. (run.planless \/ plans[pc[2]] = <<>>) \in BOOLEAN
      OBVIOUS
    <2> DEFINE planless == run.planless \/ plans[pc[2]] = <<>>
    <2>4. run' = run \/ run' = [run EXCEPT !.ready = FALSE, !.planless = planless]
      BY <1>2 DEF ReadSubscription
    <2>5. run' \in Runs
      <3> HIDE DEF planless
      <3> QED
        BY <2>3, <2>4, RunType DEF planless
    <2> QED
      BY <1>2, <1>b, <2>2, <2>5 DEF ReadSubscription
  <1>3. CASE ReadPlan
    <2> DEFINE o == pc[2]
    <2>1. o \in Operators /\ plans[o] # <<>>
      BY <1>3 DEF ReadPlan, At, PlanInv, Reading
    <2>2. Len(plans[o]) \in 1..MaxPlans
      BY <2>1, PlansAreSeqs DEF TypeOK
    <2> DEFINE entry == [operator |-> o, plan |-> Len(plans[o])]
    <2>3. entry \in Pending
      BY <2>1, <2>2 DEF Pending
    <2>4. run' = run \/ run' = [run EXCEPT !.pending = @ \cup {entry}]
      BY <1>3 DEF ReadPlan
    <2>5. pc' \in Labels \X (Operators \cup {None})
      BY <1>3, <1>l, GotoType DEF ReadPlan
    <2> HIDE DEF entry
    <2>6. run' \in Runs
      BY <2>3, <2>4, RunType
    <2> QED
      BY <1>3, <1>b, <2>5, <2>6 DEF ReadPlan
  <1>4. CASE EndPoll
    <2>1. run' = run \/ run' = Start(run.approve)
      BY <1>4 DEF EndPoll
    <2>2. pc' \in Labels \X (Operators \cup {None})
      BY <1>4, <1>l, GotoType DEF EndPoll
    <2> QED
      BY <1>4, <1>b, <1>s, <2>1, <2>2, RunType DEF EndPoll
  <1>5. CASE Answer
    <2>1. run' \in Runs /\ pc' \in Labels \X (Operators \cup {None})
      BY <1>5, <1>l, RunType, GotoType DEF Answer
    <2> QED
      BY <1>5, <1>b, <2>1 DEF Answer
  <1>6. CASE Approve
    <2>1. PICK p \in run.pending : run' = [run EXCEPT !.pending = @ \ {p}]
      BY <1>6 DEF Approve
    <2>2. run' \in Runs
      BY <2>1, RunType
    <2>3. errors' \in 0..MaxErrors
      BY <1>6, BoundsAssumption DEF Approve, TypeOK
    <2> QED
      BY <1>6, <1>a, <2>2, <2>3 DEF Approve, TypeOK
  <1>7. CASE EndApproval
    BY <1>7, <1>b, <1>l, <1>s, GotoType DEF EndApproval
  <1>8. CASE ApplyKata
    <2>1. kata' \in Katas
      BY <1>8 DEF ApplyKata, TypeOK, Katas
    <2> QED
      BY <1>8, <1>a, <1>l, <2>1, GotoType DEF ApplyKata, TypeOK
  <1>9. CASE ReadKata \/ ReadNodes
    <2>1. run' \in Runs /\ pc' \in Labels \X (Operators \cup {None})
      BY <1>9, <1>l, RunType, GotoType DEF ReadKata, ReadNodes
    <2> QED
      BY <1>9, <1>b, <2>1 DEF ReadKata, ReadNodes
  <1>10. CASE ReadPool \/ TimeOut
    BY <1>10, <1>c, <1>l DEF ReadPool, TimeOut
  <1>11. CASE PlanUnread \/ Unanswered
    <2>1. run' \in Runs /\ pc' \in Labels \X (Operators \cup {None})
      BY <1>11, <1>l, RunType, GotoType DEF PlanUnread, Unanswered
    <2>2. errors' \in 0..MaxErrors
      BY <1>11, BoundsAssumption DEF PlanUnread, Unanswered, TypeOK
    <2> QED
      BY <1>11, <1>a, <2>1, <2>2 DEF PlanUnread, Unanswered, TypeOK
  <1>12. ASSUME NEW o \in Operators, Propose(o) \/ Resolve(o) PROVE TypeOK'
    BY <1>12, <1>b DEF Propose, Resolve, TypeOK
  <1>13. ASSUME NEW o \in Operators, InstallCSV(o) PROVE TypeOK'
    <2>1. PICK n \in DOMAIN plans[o] : installed' = [installed EXCEPT ![o] = plans[o][n].csv]
      BY <1>13 DEF InstallCSV
    <2>2. plans[o] \in PlansUpToMax
      BY DEF TypeOK
    <2>3. plans[o][n] \in Plans
      BY <2>1, <2>2, PlansAreSeqs, ElementOfSeq
    <2>4. plans[o][n].csv \in CSVs
      BY <2>3 DEF Plans
    <2>5. installed' \in [Operators -> CSVs \cup {None}]
      BY <2>1, <2>4 DEF TypeOK
    <2> QED
      BY <1>13, <1>a, <2>5 DEF InstallCSV, TypeOK
  <1>14. CASE Render
    <2>1. pool.spec + 1 \in Configs
      BY <1>14, BoundsAssumption DEF Render, TypeOK, Pools, Configs
    <2>2. pool' \in Pools
      BY <1>14, <2>1 DEF Render, TypeOK, Pools
    <2>3. kata' \in Katas
      BY <1>14, <2>1 DEF Render, TypeOK, Katas
    <2> QED
      BY <1>14, <1>a, <2>2, <2>3 DEF Render, TypeOK
  <1>15. CASE UpdateNode
    <2>1. node' \in [Nodes -> Configs]
      BY <1>15 DEF UpdateNode, TypeOK, Pools
    <2> QED
      BY <1>15, <1>a, <2>1 DEF UpdateNode, TypeOK
  <1>16. CASE UpdatePool
    <2>1. Completed \in Configs
      BY DEF Completed, TypeOK, Pools
    <2>2. pool' \in Pools
      BY <1>16, <2>1 DEF UpdatePool, TypeOK, Pools
    <2> QED
      BY <1>16, <1>a, <2>2 DEF UpdatePool, TypeOK
  <1>17. CASE UpdateKata
    <2>1. kata' \in Katas
      BY <1>17 DEF UpdateKata, TypeOK, Katas
    <2> QED
      BY <1>17, <1>a, <2>1 DEF UpdateKata, TypeOK
  <1>18. CASE UNCHANGED vars
    BY <1>18, <1>b DEF vars, TypeOK
  <1> QED
    BY <1>1, <1>2, <1>3, <1>4, <1>5, <1>6, <1>7, <1>8, <1>9, <1>10, <1>11, <1>12, <1>13, <1>14,
       <1>15, <1>16, <1>17, <1>18 DEF Next, Install, Controllers
--------------------------------------------------------------------------------
(* Plans that wait *)

\* What was checked stays so.
LEMMA PendingStays ==
    ASSUME TypeOK, PlanInv, PlansGrow, run'.pending \subseteq run.pending
    PROVE  PendingChecked'
  <1> SUFFICES ASSUME NEW p \in run'.pending
               PROVE  /\ p.plan \in 1..Len(plans'[p.operator])
                      /\ plans'[p.operator][p.plan].csv = "expected"
    BY DEF PendingChecked
  <1>1. p \in run.pending /\ p.operator \in Operators
    BY DEF TypeOK, Runs, Pending
  <1>2. p.plan \in 1..Len(plans[p.operator]) /\ plans[p.operator][p.plan].csv = "expected"
    BY <1>1 DEF PlanInv, PendingChecked
  <1>3. plans[p.operator] \in PlansUpToMax /\ plans'[p.operator] \in PlansUpToMax
    BY <1>1 DEF TypeOK, PlansGrow
  <1>4. Len(plans[p.operator]) \in Nat /\ Len(plans'[p.operator]) \in Nat
    BY <1>3, PlansAreSeqs, BoundsAssumption
  <1> QED
    BY <1>1, <1>2, <1>4 DEF PlansGrow

LEMMA PlanInvNext == TypeOK /\ PlanInv /\ [Next]_vars => PlanInv'
  <1> SUFFICES ASSUME TypeOK, PlanInv, [Next]_vars PROVE PlanInv'
    OBVIOUS
  <1> USE DEF olm, machines, Unchanged
  <1>a. PlansGrow /\ ApprovedExpected'
    BY PlansNext
  <1>b. ASSUME run'.pending \subseteq run.pending, installed' = installed,
               \/ pc' = pc
               \/ pc'[1] \notin {"subscription", "plan"}
        PROVE  PlanInv'
    <2>1. PendingChecked'
      BY <1>a, <1>b, PendingStays
    <2>2. Reading'
      <3>1. CASE pc' = pc
        <4>1. ASSUME pc[1] = "plan" PROVE plans'[pc[2]] # <<>>
          <5>1. pc[2] \in Operators /\ plans[pc[2]] # <<>>
            BY <4>1 DEF PlanInv, Reading
          <5>2. Len(plans[pc[2]]) >= 1 /\ Len(plans[pc[2]]) \in Nat
            BY <5>1, PlansAreSeqs, BoundsAssumption DEF TypeOK
          <5>3. Len(plans'[pc[2]]) # 0
            BY <1>a, <5>1, <5>2, PlansAreSeqs, BoundsAssumption DEF PlansGrow
          <5> QED
            BY <5>3, NoPlans
        <4> QED
          BY <3>1, <4>1 DEF PlanInv, Reading
      <3> QED
        BY <1>b, <3>1 DEF Reading
    <2> QED
      BY <1>a, <1>b, <2>1, <2>2 DEF PlanInv, OnlyExpectedInstalled
  <1>1. CASE NextSubscription
    <2>1. PICK o \in run.todo : pc' = <<"subscription", o>> /\ run' = [run EXCEPT !.todo = @ \ {o}]
      BY <1>1 DEF NextSubscription
    <2>2. o \in Operators /\ run'.pending = run.pending
      BY <2>1 DEF TypeOK, Runs
    <2>3. PendingChecked'
      BY <1>a, <2>2, PendingStays
    <2> QED
      BY <1>1, <1>a, <2>1, <2>2, <2>3
      DEF NextSubscription, PlanInv, Reading, OnlyExpectedInstalled
  <1>2. CASE ReadSubscription
    <2>1. run'.pending = run.pending
      BY <1>2 DEF ReadSubscription, TypeOK, Runs
    <2>2. PendingChecked'
      BY <1>a, <2>1, PendingStays
    <2>3. Reading'
      BY <1>2 DEF ReadSubscription, Goto, At, PlanInv, Reading
    <2> QED
      BY <1>2, <1>a, <2>2, <2>3 DEF ReadSubscription, PlanInv, OnlyExpectedInstalled
  <1>3. CASE ReadPlan
    <2> DEFINE o == pc[2]
               entry == [operator |-> o, plan |-> Len(plans[o])]
    <2>1. o \in Operators /\ plans[o] # <<>>
      BY <1>3 DEF ReadPlan, At, PlanInv, Reading
    <2>2. Len(plans[o]) \in 1..MaxPlans
      BY <2>1, PlansAreSeqs DEF TypeOK
    <2>3. pc'[1] \notin {"subscription", "plan"} /\ UNCHANGED <<plans, installed>>
      BY <1>3 DEF ReadPlan, Goto
    <2>4. CASE run' = run
      BY <1>b, <2>3, <2>4
    <2>5. CASE /\ run' = [run EXCEPT !.pending = @ \cup {entry}]
               /\ Checked(plans[o][Len(plans[o])])
      <3>1. entry.operator = o /\ entry.plan = Len(plans[o])
        OBVIOUS
      <3> HIDE DEF entry
      <3>2. run'.pending = run.pending \cup {entry}
        BY <2>5 DEF TypeOK, Runs
      <3>3. PendingChecked'
        BY <2>2, <2>3, <2>5, <3>1, <3>2 DEF Checked, PlanInv, PendingChecked
      <3> QED
        BY <1>a, <2>3, <3>3 DEF PlanInv, Reading, OnlyExpectedInstalled
    <2> QED
      BY <1>3, <2>4, <2>5 DEF ReadPlan
  <1>4. CASE EndPoll \/ Answer \/ EndApproval
    <2>1. run'.pending \subseteq run.pending
      BY <1>4 DEF EndPoll, Answer, EndApproval, Start, TypeOK, Runs
    <2>2. pc'[1] \notin {"subscription", "plan"}
      BY <1>4 DEF EndPoll, Answer, EndApproval, Goto
    <2> QED
      BY <1>4, <1>b, <2>1, <2>2 DEF EndPoll, Answer, EndApproval
  <1>5. CASE Approve
    <2>1. run'.pending \subseteq run.pending
      BY <1>5 DEF Approve, TypeOK, Runs
    <2> QED
      BY <1>5, <1>b, <2>1 DEF Approve
  <1>6. CASE \/ ApplyKata \/ ReadKata \/ ReadNodes \/ ReadPool
             \/ PlanUnread \/ Unanswered \/ TimeOut
    <2>1. run'.pending \subseteq run.pending
      BY <1>6 DEF ApplyKata, ReadKata, ReadNodes, ReadPool, PlanUnread, Unanswered, TimeOut,
                  TypeOK, Runs
    <2>2. pc'[1] \notin {"subscription", "plan"}
      BY <1>6 DEF ApplyKata, ReadKata, ReadNodes, ReadPool, PlanUnread, Unanswered, TimeOut, Goto
    <2> QED
      BY <1>6, <1>b, <2>1, <2>2
      DEF ApplyKata, ReadKata, ReadNodes, ReadPool, PlanUnread, Unanswered, TimeOut
  <1>7. CASE \/ \E o \in Operators : Propose(o) \/ Resolve(o)
             \/ Render \/ UpdateNode \/ UpdatePool \/ UpdateKata \/ UNCHANGED vars
    BY <1>7, <1>b DEF Propose, Resolve, Render, UpdateNode, UpdatePool, UpdateKata, vars
  <1>8. ASSUME NEW o \in Operators, InstallCSV(o) PROVE PlanInv'
    <2>1. PICK n \in DOMAIN plans[o] : /\ plans[o][n].approved
                                      /\ installed' = [installed EXCEPT ![o] = plans[o][n].csv]
      BY <1>8 DEF InstallCSV
    <2>2. n \in 1..Len(plans[o])
      BY <2>1, PlansAreSeqs DEF TypeOK
    <2>3. plans[o][n].csv = "expected"
      BY <2>1, <2>2 DEF PlanInv, ApprovedExpected
    <2>4. OnlyExpectedInstalled'
      BY <2>1, <2>3 DEF PlanInv, OnlyExpectedInstalled, TypeOK
    <2> QED
      BY <1>8, <1>a, <2>4 DEF InstallCSV, PlanInv, Reading, PendingChecked
  <1> QED
    BY <1>1, <1>2, <1>3, <1>4, <1>5, <1>6, <1>7, <1>8 DEF Next, Install, Controllers

--------------------------------------------------------------------------------
(* The table *)

\* What was asked for, approved or installed stays so while the poll goes on.
LEMMA AskedStays ==
    ASSUME TypeOK, PlansGrow, NEW o \in Operators, Asked(o),
           installed[o] = "expected" => installed'[o] = "expected",
           run.pending \subseteq run'.pending
    PROVE  Asked(o)'
  <1>1. CASE installed[o] = "expected"
    BY <1>1 DEF Asked
  <1>2. CASE \E n \in DOMAIN plans[o] : plans[o][n].approved
    <2>1. plans[o] \in PlansUpToMax /\ plans'[o] \in PlansUpToMax
      BY DEF TypeOK, PlansGrow
    <2>2. PICK n \in 1..Len(plans[o]) : plans[o][n].approved
      BY <1>2, <2>1, PlansAreSeqs
    <2>3. n \in 1..Len(plans'[o]) /\ plans'[o][n].approved
      BY <2>1, <2>2, PlansAreSeqs, BoundsAssumption DEF PlansGrow
    <2> QED
      BY <2>1, <2>3, PlansAreSeqs DEF Asked
  <1>3. CASE \E p \in run.pending : p.operator = o
    BY <1>3 DEF Asked
  <1> QED
    BY <1>1, <1>2, <1>3 DEF Asked

LEMMA TableNext ==
    TypeOK /\ PlanInv /\ PollInv /\ TableIsComplete /\ [Next]_vars => (PollInv /\ TableIsComplete)'
  <1> SUFFICES ASSUME TypeOK, PlanInv, PollInv, TableIsComplete, [Next]_vars
               PROVE  (PollInv /\ TableIsComplete)'
    OBVIOUS
  <1> USE DEF olm, machines, Unchanged
  <1>a. PlansGrow
    BY PlansNext
  <1>t. TableIsComplete <=> (pc[1] = "table" => \A o \in Operators : Asked(o))
    BY DEF TableIsComplete, At, Asked
  <1>u. TableIsComplete' <=> (pc'[1] = "table" => \A o \in Operators : Asked(o)')
    BY DEF TableIsComplete, At, Asked
  <1>b. ASSUME run' = run, pc' = pc,
               \A o \in Operators : installed[o] = "expected" => installed'[o] = "expected"
        PROVE  (PollInv /\ TableIsComplete)'
    <2>1. \A o \in Operators : Asked(o) => Asked(o)'
      BY <1>a, <1>b, AskedStays
    <2> QED
      BY <1>b, <1>t, <1>u, <2>1 DEF PollInv
  <1>c. ASSUME pc'[1] \notin {"poll", "subscription", "plan", "table"}
        PROVE  (PollInv /\ TableIsComplete)'
    BY <1>c, <1>u DEF PollInv
  <1>d. ASSUME NEW approve, run' = Start(approve), pc'[1] = "poll"
        PROVE  (PollInv /\ TableIsComplete)'
    BY <1>d, <1>u DEF PollInv, Start
  <1>1. CASE NextSubscription
    <2>1. PICK s \in run.todo : pc' = <<"subscription", s>> /\ run' = [run EXCEPT !.todo = @ \ {s}]
      BY <1>1 DEF NextSubscription
    <2>2. /\ run'.pending = run.pending /\ run'.planless = run.planless
          /\ run'.todo = run.todo \ {s} /\ UNCHANGED installed /\ pc[1] = "poll"
      BY <1>1, <2>1 DEF NextSubscription, At, TypeOK, Runs
    <2>3. \A o \in Operators : Asked(o) => Asked(o)'
      BY <1>a, <2>2, AskedStays
    <2> QED
      BY <1>u, <2>1, <2>2, <2>3 DEF PollInv
  <1>2. CASE ReadSubscription
    <2>1. UNCHANGED <<plans, installed>> /\ pc[1] = "subscription"
      BY <1>2 DEF ReadSubscription, At
    <2>s. PICK s \in Operators : s = pc[2]
      BY <2>1 DEF PlanInv, Reading
    <2>2. /\ run'.todo = run.todo /\ run'.pending = run.pending
          /\ run.planless => run'.planless
      BY <1>2 DEF ReadSubscription, TypeOK, Runs
    <2>3. \A o \in Operators : Asked(o) => Asked(o)'
      BY <2>1, <2>2 DEF Asked
    <2>4. \/ pc'[1] = "poll" /\ installed[s] = "expected"
          \/ pc'[1] = "poll" /\ run'.planless
          \/ pc'[1] = "plan" /\ pc'[2] = s
      <3>1. CASE installed[s] = "expected"
        BY <1>2, <2>s, <3>1 DEF ReadSubscription, Goto
      <3>2. CASE installed[s] # "expected" /\ plans[s] # <<>>
        BY <1>2, <2>s, <3>2 DEF ReadSubscription
      <3>3. CASE installed[s] # "expected" /\ plans[s] = <<>>
        <4> DEFINE planless == run.planless \/ plans[s] = <<>>
        <4>1. planless = TRUE
          BY <3>3
        <4>2. /\ pc' = <<"poll", None>>
              /\ run' = [run EXCEPT !.ready = FALSE, !.planless = planless]
          BY <1>2, <2>s, <3>3 DEF ReadSubscription, TypeOK, Runs
        <4> HIDE DEF planless
        <4> QED
          BY <4>1, <4>2 DEF TypeOK, Runs
      <3> QED
        BY <3>1, <3>2, <3>3
    <2>5. installed[s] = "expected" => Asked(s)'
      BY <2>1 DEF Asked
    <2> QED
      BY <1>u, <2>s, <2>1, <2>2, <2>3, <2>4, <2>5 DEF PollInv
  <1>3. CASE ReadPlan
    <2>1. UNCHANGED <<plans, installed>> /\ pc[1] = "plan"
      BY <1>3 DEF ReadPlan, At
    <2>s. PICK s \in Operators : s = pc[2] /\ plans[s] # <<>>
      BY <2>1 DEF PlanInv, Reading
    <2> DEFINE entry == [operator |-> s, plan |-> Len(plans[s])]
    <2>2. CASE Goto("failed")
      BY <1>c, <2>2 DEF Goto
    <2>3. CASE /\ Goto("poll")
               /\ run' = IF plans[s][Len(plans[s])].approved THEN run
                         ELSE [run EXCEPT !.pending = @ \cup {entry}]
      <3>2. Len(plans[s]) \in DOMAIN plans[s]
        BY <2>s, PlansAreSeqs, BoundsAssumption DEF TypeOK
      <3>3. entry.operator = s
        OBVIOUS
      <3> HIDE DEF entry
      <3>4. /\ run'.todo = run.todo /\ run'.planless = run.planless
            /\ run.pending \subseteq run'.pending
            /\ plans[s][Len(plans[s])].approved \/ entry \in run'.pending
        BY <2>3 DEF TypeOK, Runs
      <3>5. \A o \in Operators : Asked(o) => Asked(o)'
        BY <2>1, <3>4 DEF Asked
      <3>6. Asked(s)'
        BY <2>1, <3>2, <3>3, <3>4 DEF Asked
      <3>7. pc'[1] = "poll"
        BY <2>3 DEF Goto
      <3> QED
        BY <1>u, <2>s, <2>1, <3>4, <3>5, <3>6, <3>7 DEF PollInv
    <2> QED
      BY <1>3, <2>s, <2>2, <2>3 DEF ReadPlan
  <1>4. CASE PlanUnread
    <2>1. run'.planless /\ pc'[1] = "poll"
      BY <1>4 DEF PlanUnread, Goto, TypeOK, Runs
    <2> QED
      BY <1>u, <2>1 DEF PollInv
  <1>5. CASE EndPoll
    <2>1. CASE run' = Start(run.approve) /\ Goto("poll")
      BY <1>d, <2>1 DEF Goto
    <2>2. CASE Goto("kata") \/ Goto("approve")
      BY <1>c, <2>2 DEF Goto
    <2>3. CASE Goto("table") /\ ~run.planless /\ run' = run
      <3>1. pc[1] = "poll" /\ run.todo = {} /\ UNCHANGED <<plans, installed>>
        BY <1>5 DEF EndPoll, At
      <3>2. \A o \in Operators : Asked(o)'
        BY <2>3, <3>1 DEF PollInv, Asked
      <3>3. pc'[1] = "table"
        BY <2>3 DEF Goto
      <3> QED
        BY <1>u, <3>2, <3>3 DEF PollInv
    <2> QED
      BY <1>5, <2>1, <2>2, <2>3 DEF EndPoll
  <1>6. CASE Answer \/ ApplyKata \/ ReadKata \/ ReadNodes \/ ReadPool \/ Unanswered \/ TimeOut
    BY <1>6, <1>c DEF Answer, ApplyKata, ReadKata, ReadNodes, ReadPool, Unanswered, TimeOut, Goto
  <1>7. CASE Approve
    BY <1>7, <1>c DEF Approve, At
  <1>8. CASE EndApproval
    BY <1>8, <1>d DEF EndApproval, Goto
  <1>9. CASE \/ \E o \in Operators : Propose(o) \/ Resolve(o)
             \/ Render \/ UpdateNode \/ UpdatePool \/ UpdateKata \/ UNCHANGED vars
    BY <1>9, <1>b DEF Propose, Resolve, Render, UpdateNode, UpdatePool, UpdateKata, vars
  <1>10. ASSUME NEW o \in Operators, InstallCSV(o) PROVE (PollInv /\ TableIsComplete)'
    <2>2. \A q \in Operators : installed[q] = "expected" => installed'[q] = "expected"
      <3>1. PICK n \in DOMAIN plans[o] : /\ plans[o][n].approved
                                        /\ installed' = [installed EXCEPT ![o] = plans[o][n].csv]
        BY <1>10 DEF InstallCSV
      <3>2. n \in 1..Len(plans[o])
        BY <3>1, PlansAreSeqs DEF TypeOK
      <3>3. plans[o][n].csv = "expected"
        BY <3>1, <3>2 DEF PlanInv, ApprovedExpected
      <3> QED
        BY <3>1, <3>3 DEF TypeOK
    <2> QED
      BY <1>10, <1>b, <2>2 DEF InstallCSV
  <1> QED
    BY <1>1, <1>2, <1>3, <1>4, <1>5, <1>6, <1>7, <1>8, <1>9, <1>10 DEF Next, Install, Controllers
--------------------------------------------------------------------------------
(* The runtime *)

LEMMA MachineTypes ==
    /\ TypeOK => /\ \A n \in Nodes : node[n] \in Nat
                 /\ pool.spec \in Nat /\ pool.observed \in Nat /\ pool.completed \in Nat
                 /\ kata.runtime \in Nat
    /\ TypeOK' => kata'.runtime \in Nat /\ \A n \in Nodes : node'[n] \in Nat
  BY BoundsAssumption DEF TypeOK, Pools, Katas, Configs

\* Nodes go on only, and the first configuration with the runtime does not change.
LEMMA ReadFrame ==
    ASSUME TypeOK, TypeOK', ReadInv, \A n \in Nodes : node[n] <= node'[n],
           kata.runtime = 0 \/ kata'.runtime = kata.runtime,
           kata'.finished => kata.finished \/ \A n \in Nodes : HasRuntime(n),
           run'.finished => run.finished \/ kata.finished,
           pc'[1] = "pool" => pc[1] = "pool" /\ run'.nodes = run.nodes
    PROVE  ReadInv'
  <1>1. \A n \in Nodes : HasRuntime(n) => HasRuntime(n)'
    BY MachineTypes DEF HasRuntime
  <1>2. pc'[1] = "pool" => /\ run'.nodes \in [Nodes -> Configs]
                           /\ \A n \in Nodes : run'.nodes[n] <= node'[n]
    <2> SUFFICES ASSUME pc'[1] = "pool"
                 PROVE  /\ run'.nodes \in [Nodes -> Configs]
                        /\ \A n \in Nodes : run'.nodes[n] <= node'[n]
      OBVIOUS
    <2>1. /\ run'.nodes \in [Nodes -> Configs]
          /\ \A n \in Nodes : run'.nodes[n] <= node[n]
      BY DEF ReadInv
    <2>2. \A n \in Nodes : run'.nodes[n] \in Nat
      BY <2>1, BoundsAssumption DEF Configs
    <2> QED
      BY <2>1, <2>2, MachineTypes
  <1> QED
    BY <1>1, <1>2 DEF ReadInv

LEMMA MachinesNext ==
    TypeOK /\ TypeOK' /\ Bounded /\ ReadInv /\ [Next]_vars => (Bounded /\ ReadInv)'
  <1> SUFFICES ASSUME TypeOK, TypeOK', Bounded, ReadInv, [Next]_vars PROVE (Bounded /\ ReadInv)'
    OBVIOUS
  <1> USE DEF olm, machines, Unchanged
  <1>a. ASSUME node' = node, pool'.spec = pool.spec, kata'.runtime = kata.runtime PROVE Bounded'
    BY <1>a DEF Bounded
  <1>b. ASSUME UNCHANGED <<node, kata>>, pool'.spec = pool.spec,
               run'.finished => run.finished \/ kata.finished,
               pc'[1] = "pool" => pc[1] = "pool" /\ run'.nodes = run.nodes
        PROVE  (Bounded /\ ReadInv)'
    BY <1>a, <1>b, ReadFrame, MachineTypes
  <1>1. CASE \/ NextSubscription \/ ReadSubscription \/ ReadPlan \/ EndPoll \/ Answer
             \/ Approve \/ EndApproval \/ PlanUnread \/ TimeOut \/ Unanswered
    <2>1. run'.finished => run.finished
      <3>1. CASE ReadSubscription
        <4> DEFINE planless == run.planless \/ plans[pc[2]] = <<>>
        <4>1. run' = run \/ run' = [run EXCEPT !.ready = FALSE, !.planless = planless]
          BY <3>1 DEF ReadSubscription
        <4> HIDE DEF planless
        <4> QED
          BY <4>1 DEF TypeOK, Runs
      <3>2. CASE ReadPlan
        <4> DEFINE entry == [operator |-> pc[2], plan |-> Len(plans[pc[2]])]
        <4>1. run' = run \/ run' = [run EXCEPT !.pending = @ \cup {entry}]
          BY <3>2 DEF ReadPlan
        <4> HIDE DEF entry
        <4> QED
          BY <4>1 DEF TypeOK, Runs
      <3> QED
        <4>1. CASE NextSubscription \/ Answer \/ Approve \/ PlanUnread \/ TimeOut \/ Unanswered
          BY <4>1 DEF NextSubscription, Answer, Approve, PlanUnread, TimeOut, Unanswered,
                      TypeOK, Runs
        <4>2. CASE EndPoll \/ EndApproval
          BY <4>2 DEF EndPoll, EndApproval, Start
        <4> QED
          BY <1>1, <3>1, <3>2, <4>1, <4>2
    <2>2. pc'[1] # "pool"
      BY <1>1 DEF NextSubscription, ReadSubscription, ReadPlan, EndPoll, Answer, Approve,
                  EndApproval, PlanUnread, TimeOut, Unanswered, At, Goto
    <2>3. UNCHANGED <<node, pool, kata>>
      BY <1>1 DEF NextSubscription, ReadSubscription, ReadPlan, EndPoll, Answer, Approve,
                  EndApproval, PlanUnread, TimeOut, Unanswered
    <2> QED
      BY <1>b, <2>1, <2>2, <2>3
  <1>2. CASE ApplyKata
    <2>1. /\ kata'.runtime = kata.runtime /\ kata'.finished = kata.finished
          /\ UNCHANGED <<node, pool, run>> /\ pc'[1] # "pool"
      BY <1>2 DEF ApplyKata, Goto, TypeOK, Katas
    <2> QED
      BY <1>a, <2>1, ReadFrame, MachineTypes
  <1>3. CASE ReadKata
    <2>1. /\ run'.finished = kata.finished /\ pc'[1] # "pool" /\ UNCHANGED <<node, pool, kata>>
      BY <1>3 DEF ReadKata, Goto, TypeOK, Runs
    <2> QED
      BY <1>b, <2>1
  <1>4. CASE ReadNodes
    <2>1. /\ run'.nodes = node /\ run'.finished = run.finished /\ pc'[1] = "pool"
          /\ UNCHANGED <<node, pool, kata>>
      BY <1>4 DEF ReadNodes, Goto, TypeOK, Runs
    <2>2. \A n \in Nodes : HasRuntime(n) <=> HasRuntime(n)'
      BY <2>1 DEF HasRuntime
    <2>3. ReadInv'
      BY <2>1, <2>2, MachineTypes DEF ReadInv, TypeOK
    <2> QED
      BY <1>a, <2>1, <2>3
  <1>5. CASE ReadPool
    <2>1. UNCHANGED <<node, pool, kata, run>> /\ pc'[1] # "pool"
      BY <1>5 DEF ReadPool, Goto
    <2> QED
      BY <1>b, <2>1
  <1>6. CASE \E o \in Operators : Propose(o) \/ Resolve(o) \/ InstallCSV(o)
    BY <1>6, <1>b DEF Propose, Resolve, InstallCSV
  <1>7. CASE Render
    <2>1. UNCHANGED <<node, run, pc>> /\ pool'.spec = pool.spec + 1
      BY <1>7 DEF Render, TypeOK, Pools
    <2>2. kata'.finished = kata.finished
      BY <1>7 DEF Render, TypeOK, Katas
    <2>3. kata.runtime = 0 \/ kata'.runtime = kata.runtime
      BY <1>7 DEF Render, TypeOK, Katas
    <2>4. kata'.runtime \in {kata.runtime, pool.spec + 1}
      BY <1>7 DEF Render, TypeOK, Katas
    <2>5. Bounded'
      BY <2>1, <2>4, MachineTypes DEF Bounded
    <2>6. ReadInv'
      BY <2>1, <2>2, <2>3, ReadFrame, MachineTypes
    <2> QED
      BY <2>5, <2>6
  <1>8. CASE UpdateNode
    <2>1. PICK n \in Nodes : node' = [node EXCEPT ![n] = pool.spec]
      BY <1>8 DEF UpdateNode
    <2>2. UNCHANGED <<pool, kata, pc, run>>
      BY <1>8 DEF UpdateNode
    <2>3. \A m \in Nodes : node'[m] = IF m = n THEN pool.spec ELSE node[m]
      BY <2>1 DEF TypeOK
    <2>4. Bounded'
      BY <2>2, <2>3, MachineTypes DEF Bounded
    <2>5. \A m \in Nodes : node[m] <= node'[m]
      BY <2>3, MachineTypes DEF Bounded
    <2> QED
      BY <2>2, <2>4, <2>5, ReadFrame
  <1>9. CASE UpdatePool
    <2>1. UNCHANGED <<node, kata, pc, run>> /\ pool'.spec = pool.spec
      BY <1>9 DEF UpdatePool, TypeOK, Pools
    <2> QED
      BY <1>b, <2>1
  <1>10. CASE UpdateKata
    <2> DEFINE finished == \A n \in Nodes : HasRuntime(n)
    <2>1. kata' = [kata EXCEPT !.finished = finished] /\ UNCHANGED <<node, pool, pc, run>>
      BY <1>10 DEF UpdateKata
    <2> HIDE DEF finished
    <2>2. kata'.runtime = kata.runtime /\ kata'.finished = finished
      BY <2>1 DEF TypeOK, Katas
    <2>3. kata'.finished => \A n \in Nodes : HasRuntime(n)
      BY <2>2 DEF finished
    <2> QED
      BY <1>a, <2>1, <2>2, <2>3, ReadFrame, MachineTypes
  <1>11. CASE UNCHANGED vars
    BY <1>11, <1>b DEF vars
  <1> QED
    BY <1>1, <1>2, <1>3, <1>4, <1>5, <1>6, <1>7, <1>8, <1>9, <1>10, <1>11
    DEF Next, Install, Controllers

--------------------------------------------------------------------------------
LEMMA InstallInit == Init => InstallInv
  <1> SUFFICES ASSUME Init PROVE InstallInv
    OBVIOUS
  <1>1. pc = <<"poll", None>> /\ run.pending = {} /\ run.todo = Operators /\ run.finished = FALSE
    BY DEF Init, Start
  <1>2. PlanInv
    <2>1. Reading /\ PendingChecked
      BY <1>1 DEF Reading, PendingChecked
    <2>2. \A o \in Operators : Len(plans[o]) = 0
      BY NoPlans DEF Init
    <2>3. ApprovedExpected
      BY <2>2 DEF ApprovedExpected
    <2>4. OnlyExpectedInstalled
      BY NoneAssumption DEF Init, OnlyExpectedInstalled, CSVs
    <2> QED
      BY <2>1, <2>3, <2>4 DEF PlanInv
  <1>3. PollInv /\ TableIsComplete
    BY <1>1 DEF PollInv, TableIsComplete, At
  <1>4. PICK c \in {0, 1} : /\ node = [n \in Nodes |-> c]
                            /\ pool = [spec |-> c, observed |-> c, completed |-> c]
                            /\ kata = [applied |-> c = 1, runtime |-> c, finished |-> c = 1]
    BY DEF Init
  <1>5. Bounded
    BY <1>4 DEF Bounded
  <1>6. ReadInv
    <2>1. kata.finished => \A n \in Nodes : HasRuntime(n)
      <3>1. CASE c = 0
        <4>1. (c = 1) = FALSE
          BY <3>1
        <4>2. kata.finished = (c = 1)
          BY <1>4, Zenon
        <4>3. kata.finished = FALSE
          BY <4>1, <4>2, Zenon
        <4> QED
          BY <4>3, Zenon
      <3>2. CASE c = 1
        BY <1>4, <3>2 DEF HasRuntime
      <3> QED
        BY <3>1, <3>2
    <2> QED
      BY <1>1, <2>1 DEF ReadInv
  <1> QED
    BY <1>2, <1>3, <1>5, <1>6, TypeInit DEF InstallInv

LEMMA InstallInvNext == InstallInv /\ [Next]_vars => InstallInv'
  BY TypeNext, PlanInvNext, TableNext, MachinesNext DEF InstallInv

LEMMA InstallInvHolds == Spec => []InstallInv
  BY InstallInvNext, InstallInit, PTL DEF Spec

\* Every reachable state is of its type, for any Operators, nodes and bounds: the plans that
\* wait are plans that there are.
THEOREM TypeCorrect == Spec => []TypeOK
  BY InstallInvHolds, PTL DEF InstallInv

\* Whatever OLM proposes in the place of a plan that was checked, only the CSVs of the
\* release manifest are installed (approve_pending_plans, apply-sno.sh:61).
THEOREM OnlyTheManifest == Spec => []OnlyExpectedInstalled
  BY InstallInvHolds, PTL DEF InstallInv, PlanInv

\* The one question shows every Subscription that needs approval (operators_ready,
\* apply-sno.sh:92).
THEOREM OneQuestion == Spec => []TableIsComplete
  BY InstallInvHolds, PTL DEF InstallInv

\* The installation ends only when every node has the runtime, although the reads of
\* kata_ready are not one snapshot (check_kata, worker_install.py:68).
THEOREM RuntimeEverywhere == Spec => DoneIsConverged
  <1>1. InstallInv /\ [Next]_vars =>
            [At("pool") /\ pc'[1] = "done" =>
                \A n \in Nodes : HasRuntime(n) /\ node[n] = pool.spec]_vars
    <2> SUFFICES ASSUME InstallInv, [Next]_vars, At("pool"), pc'[1] = "done", NEW n \in Nodes
                 PROVE  HasRuntime(n) /\ node[n] = pool.spec
      OBVIOUS
    <2> USE DEF olm, machines, Unchanged
    <2>1. pc[1] = "pool" /\ pc' # pc
      BY DEF At
    <2>2. CheckKata
      BY <2>1
      DEF Next, Install, Controllers, vars, At, Goto, NextSubscription, ReadSubscription, ReadPlan,
          PlanUnread, EndPoll, Answer, Approve, EndApproval, ApplyKata, ReadKata, ReadNodes,
          ReadPool, Unanswered, TimeOut, Propose, Resolve, InstallCSV, Render, UpdateNode,
          UpdatePool, UpdateKata
    <2>3. run.finished /\ run.nodes[n] = pool.spec
      BY <2>2 DEF CheckKata
    <2>4. HasRuntime(n) /\ run.nodes[n] <= node[n] /\ node[n] <= pool.spec
      BY <2>1, <2>3 DEF InstallInv, ReadInv, Bounded
    <2> QED
      BY <2>3, <2>4, MachineTypes DEF InstallInv
  <1> QED
    BY <1>1, InstallInvHolds, PTL DEF Spec, DoneIsConverged

--------------------------------------------------------------------------------
(* The abstract installation *)

Approved(o) == \E n \in DOMAIN plans[o] : plans[o][n].approved

\* A plan waits only for what is not installed, unless one was approved meanwhile.
Lacking(o) == installed[o] = None \/ Approved(o)

LackingRead == /\ pc[1] = "plan" => Lacking(pc[2])
               /\ \A p \in run.pending : Lacking(p.operator)

\* A poll that is ready found every Subscription it has read installed.
ReadyRead ==
    /\ pc[1] \in {"poll", "subscription"} /\ run.ready =>
         \A o \in Operators \ run.todo :
             installed[o] = "expected" \/ (pc[1] = "subscription" /\ pc[2] = o)
    /\ pc[1] = "plan" => ~run.ready

\* Stages follow one another.
StagesFollow ==
    /\ pc[1] = "approve" => run.approve
    /\ pc[1] \in {"kata", "kataStatus", "nodes", "pool", "done"} =>
         \A o \in Operators : installed[o] = "expected"
    /\ pc[1] \in {"kataStatus", "nodes", "pool", "done"} => kata.applied
    /\ kata.runtime # 0 => kata.applied

StageInv == InstallInv /\ LackingRead /\ ReadyRead /\ StagesFollow

LEMMA LackingStays ==
    InstallInv /\ [Next]_vars =>
        \A o \in Operators : /\ Approved(o) => Approved(o)'
                             /\ Lacking(o) => Lacking(o)'
                             /\ installed[o] = "expected" => installed'[o] = "expected"
  <1> SUFFICES ASSUME InstallInv, [Next]_vars, NEW o \in Operators
               PROVE  /\ Approved(o) => Approved(o)'
                      /\ Lacking(o) => Lacking(o)'
                      /\ installed[o] = "expected" => installed'[o] = "expected"
    OBVIOUS
  <1>1. PlansGrow
    BY PlansNext DEF InstallInv
  <1>2. Approved(o) => Approved(o)'
    <2>1. plans[o] \in PlansUpToMax /\ plans'[o] \in PlansUpToMax
      BY <1>1 DEF PlansGrow, InstallInv, TypeOK
    <2>2. /\ DOMAIN plans[o] = 1..Len(plans[o]) /\ DOMAIN plans'[o] = 1..Len(plans'[o])
          /\ Len(plans[o]) \in Nat /\ Len(plans'[o]) \in Nat
      BY <2>1, PlansAreSeqs, BoundsAssumption
    <2> QED BY <1>1, <2>2 DEF PlansGrow, Approved
  <1>3. installed' = installed \/ \E q \in Operators : InstallCSV(q)
    BY DEF Next, Install, Controllers, vars, olm, Unchanged, NextSubscription, ReadSubscription,
           ReadPlan, PlanUnread, EndPoll, Answer, Approve, EndApproval, ApplyKata, ReadKata,
           ReadNodes, ReadPool, Unanswered, TimeOut, Propose, Resolve, Render, UpdateNode,
           UpdatePool, UpdateKata
  <1>4. CASE installed' = installed
    BY <1>2, <1>4 DEF Lacking
  <1>5. ASSUME NEW q \in Operators, InstallCSV(q) PROVE installed[q] = None /\ Approved(q)
    BY <1>5 DEF InstallCSV, Approved
  <1>6. ASSUME NEW q \in Operators, InstallCSV(q), q # o PROVE installed'[o] = installed[o]
    BY <1>6 DEF InstallCSV
  <1> QED BY <1>2, <1>3, <1>4, <1>5, <1>6, NoneAssumption DEF Lacking, CSVs

LEMMA StageFrame ==
    ASSUME StageInv, [Next]_vars, UNCHANGED <<pc, run>>, kata'.applied = kata.applied,
           kata'.runtime = kata.runtime \/ kata.applied
    PROVE  (LackingRead /\ ReadyRead /\ StagesFollow)'
  <1>1. LackingRead'
    BY LackingStays DEF StageInv, InstallInv, PlanInv, LackingRead, Reading, TypeOK, Runs, Pending
  <1>2. ReadyRead' /\ StagesFollow'
    BY LackingStays DEF StageInv, ReadyRead, StagesFollow
  <1> QED BY <1>1, <1>2

LEMMA StageInvNext == StageInv /\ [Next]_vars => StageInv'
  <1> SUFFICES ASSUME StageInv, [Next]_vars PROVE (LackingRead /\ ReadyRead /\ StagesFollow)'
    BY InstallInvNext DEF StageInv
  <1> USE DEF Unchanged
  <1>t. TypeOK /\ run \in Runs /\ run.todo \subseteq Operators /\ run.pending \subseteq Pending
    BY DEF StageInv, InstallInv, TypeOK, Runs
  <1>l. \A o \in Operators : /\ Lacking(o) => Lacking(o)'
                             /\ installed[o] = "expected" => installed'[o] = "expected"
    BY LackingStays DEF StageInv
  <1>p. \A p \in run.pending : p.operator \in Operators /\ Lacking(p.operator)'
    BY <1>t, <1>l DEF Pending, StageInv, LackingRead
  <1>1. CASE Controllers \/ UNCHANGED vars
    <2>1. kata'.applied = kata.applied /\ (kata'.runtime = kata.runtime \/ kata.applied)
      BY <1>1, <1>t DEF Controllers, vars, machines, Propose, Resolve, InstallCSV, Render,
                        UpdateNode, UpdatePool, UpdateKata, TypeOK, Katas
    <2>2. UNCHANGED <<pc, run>>
      BY <1>1 DEF Controllers, vars, Propose, Resolve, InstallCSV, Render, UpdateNode,
                  UpdatePool, UpdateKata
    <2> QED BY <2>1, <2>2, StageFrame
  <1>2. CASE NextSubscription
    <2>1. PICK o \in run.todo : /\ pc' = <<"subscription", o>>
                                /\ run' = [run EXCEPT !.todo = @ \ {o}]
      BY <1>2 DEF NextSubscription
    <2>2. /\ run'.todo = run.todo \ {o} /\ run'.ready = run.ready /\ run'.pending = run.pending
          /\ pc'[1] = "subscription" /\ pc'[2] = o /\ pc[1] = "poll"
      BY <1>2, <1>t, <2>1 DEF NextSubscription, At, Runs
    <2>3. UNCHANGED kata
      BY <1>2 DEF NextSubscription, machines
    <2> QED BY <1>p, <1>l, <2>2, <2>3 DEF StageInv, LackingRead, ReadyRead, StagesFollow
  <1>3. CASE ReadSubscription
    <2>1. pc[1] = "subscription" /\ UNCHANGED <<kata, installed, plans>>
      BY <1>3 DEF ReadSubscription, At, machines, olm
    <2>o. PICK o \in Operators : o = pc[2]
      BY <2>1 DEF StageInv, InstallInv, PlanInv, Reading
    <2> DEFINE planless == run.planless \/ plans[o] = <<>>
    <2>2. CASE installed[o] = "expected"
      <3>1. pc'[1] = "poll" /\ run' = run
        BY <1>3, <2>o, <2>2 DEF ReadSubscription, Goto
      <3> QED BY <1>p, <2>o, <2>1, <2>2, <3>1 DEF StageInv, LackingRead, ReadyRead, StagesFollow
    <2>3. CASE installed[o] # "expected"
      <3>1. /\ pc' = IF plans[o] = <<>> THEN <<"poll", None>> ELSE <<"plan", o>>
            /\ run' = [run EXCEPT !.ready = FALSE, !.planless = planless]
        BY <1>3, <2>o, <2>3 DEF ReadSubscription
      <3> HIDE DEF planless
      <3>2. /\ ~run'.ready /\ run'.pending = run.pending
            /\ pc'[1] \in {"poll", "plan"} /\ (pc'[1] = "plan" => pc'[2] = o)
        BY <1>t, <3>1 DEF Runs
      <3>3. installed[o] = None
        BY <2>1, <2>3 DEF StageInv, InstallInv, PlanInv, OnlyExpectedInstalled, TypeOK, CSVs
      <3>4. Lacking(o)'
        BY <1>l, <2>1, <3>3 DEF Lacking
      <3> QED BY <1>p, <2>o, <2>1, <3>2, <3>4 DEF StageInv, LackingRead, ReadyRead, StagesFollow
    <2> QED BY <2>2, <2>3
  <1>4. CASE ReadPlan
    <2>1. pc[1] = "plan" /\ UNCHANGED kata
      BY <1>4 DEF ReadPlan, At, machines
    <2>o. PICK o \in Operators : o = pc[2]
      BY <2>1 DEF StageInv, InstallInv, PlanInv, Reading
    <2> DEFINE entry == [operator |-> o, plan |-> Len(plans[o])]
    <2>2. /\ pc'[1] \in {"poll", "failed"}
          /\ run' = run \/ run' = [run EXCEPT !.pending = @ \cup {entry}]
      BY <1>4, <2>o DEF ReadPlan, Goto
    <2>3. entry.operator = o /\ Lacking(o)' /\ ~run.ready
      BY <1>l, <2>o, <2>1 DEF StageInv, LackingRead, ReadyRead
    <2> HIDE DEF entry
    <2>4. run'.ready = run.ready /\ run'.pending \subseteq run.pending \cup {entry}
      BY <1>t, <2>2 DEF Runs
    <2>5. \A p \in run'.pending : Lacking(p.operator)'
      BY <1>p, <2>3, <2>4
    <2> QED BY <2>1, <2>2, <2>3, <2>4, <2>5 DEF StageInv, LackingRead, ReadyRead, StagesFollow
  <1>5. CASE PlanUnread
    <2>1. /\ pc[1] = "plan" /\ pc'[1] = "poll" /\ UNCHANGED kata
          /\ run'.ready = run.ready /\ run'.pending = run.pending
      BY <1>5, <1>t DEF PlanUnread, At, Goto, machines, Runs
    <2> QED BY <1>p, <2>1 DEF StageInv, LackingRead, ReadyRead, StagesFollow
  <1>6. CASE EndPoll \/ EndApproval
    <2>1. UNCHANGED kata /\ pc[1] \in {"poll", "approve"}
      BY <1>6 DEF EndPoll, EndApproval, At, machines
    <2>2. CASE Goto("poll") /\ run' = Start(run.approve)
      <3>1. pc'[1] = "poll" /\ run'.pending = {} /\ run'.todo = Operators
        BY <2>2 DEF Goto, Start
      <3> QED BY <2>1, <3>1 DEF StageInv, LackingRead, ReadyRead, StagesFollow
    <2>3. CASE run' = run /\ run.ready /\ Goto("kata") /\ pc[1] = "poll" /\ run.todo = {}
      <3>1. \A o \in Operators : installed'[o] = "expected"
        BY <1>l, <2>3 DEF StageInv, ReadyRead
      <3>2. pc'[1] = "kata"
        BY <2>3 DEF Goto
      <3> QED BY <1>p, <2>1, <2>3, <3>1, <3>2 DEF StageInv, LackingRead, ReadyRead, StagesFollow
    <2>4. CASE run' = run /\ Goto(IF run.approve THEN "approve" ELSE "table")
      <3>1. pc'[1] = IF run.approve THEN "approve" ELSE "table"
        BY <2>4 DEF Goto
      <3> QED BY <1>p, <2>1, <2>4, <3>1 DEF StageInv, LackingRead, ReadyRead, StagesFollow
    <2> QED BY <1>6, <2>2, <2>3, <2>4 DEF EndPoll, EndApproval, At
  <1>7. CASE Answer \/ Approve
    <2>1. /\ pc'[1] \in {"approve", "failed"} /\ UNCHANGED kata
          /\ run'.pending \subseteq run.pending
          /\ pc'[1] = "approve" => run'.approve
      <3>1. CASE Answer
        BY <1>t, <3>1 DEF Answer, Goto, machines, Runs
      <3>2. CASE Approve
        BY <1>t, <3>2 DEF Approve, At, machines, Runs, StageInv, StagesFollow
      <3> QED BY <1>7, <3>1, <3>2
    <2> QED BY <1>p, <2>1 DEF StageInv, LackingRead, ReadyRead, StagesFollow
  <1>8. CASE ApplyKata
    <2>1. /\ pc[1] = "kata" /\ pc'[1] = "kataStatus" /\ kata'.applied /\ run' = run
      BY <1>8, <1>t DEF ApplyKata, At, Goto, TypeOK, Katas
    <2> QED BY <1>p, <1>l, <2>1 DEF StageInv, LackingRead, ReadyRead, StagesFollow
  <1>9. CASE ReadKata \/ ReadNodes \/ ReadPool \/ Unanswered
    <2>1. /\ pc[1] \in {"kataStatus", "nodes", "pool"}
          /\ pc'[1] \in {"kataStatus", "nodes", "pool", "done"}
          /\ UNCHANGED kata /\ run'.pending = run.pending
      BY <1>9, <1>t DEF ReadKata, ReadNodes, ReadPool, Unanswered, At, Goto, machines, Runs
    <2> QED BY <1>p, <1>l, <2>1 DEF StageInv, LackingRead, ReadyRead, StagesFollow
  <1>10. CASE TimeOut
    <2>1. pc'[1] = "failed" /\ UNCHANGED <<kata, run>>
      BY <1>10 DEF TimeOut, Goto, machines
    <2> QED BY <1>p, <2>1 DEF StageInv, LackingRead, ReadyRead, StagesFollow
  <1> QED BY <1>1, <1>2, <1>3, <1>4, <1>5, <1>6, <1>7, <1>8, <1>9, <1>10 DEF Next, Install

\* What the abstract installation sees of a state.
SameView == /\ run'.approve = run.approve /\ installed' = installed
            /\ kata'.applied = kata.applied /\ (pc'[1] = "done" <=> pc[1] = "done")

LEMMA GrantedValue ==
    InstallInv => \A o \in Operators : Granted(o) = IF Approved(o) THEN {"expected"} ELSE {}
  <1> SUFFICES ASSUME InstallInv, NEW o \in Operators
               PROVE  Granted(o) = IF Approved(o) THEN {"expected"} ELSE {}
    OBVIOUS
  <1>1. DOMAIN plans[o] = 1..Len(plans[o])
    BY PlansAreSeqs DEF InstallInv, TypeOK
  <1>2. \A n \in DOMAIN plans[o] : plans[o][n].approved => plans[o][n].csv = "expected"
    BY <1>1 DEF InstallInv, PlanInv, ApprovedExpected
  <1> QED BY <1>2 DEF Granted, Approved

LEMMA GrantedSteps ==
    InstallInv /\ InstallInv' =>
        /\ (\A o \in Operators : Approved(o)' <=> Approved(o)) =>
               [o \in Operators |-> Granted(o)]' = [o \in Operators |-> Granted(o)]
        /\ \A o \in Operators :
               Approved(o)' /\ (\A q \in Operators \ {o} : Approved(q)' <=> Approved(q)) =>
                   [q \in Operators |-> Granted(q)]' =
                       [[q \in Operators |-> Granted(q)] EXCEPT ![o] = {"expected"}]
  <1> SUFFICES ASSUME InstallInv, InstallInv'
               PROVE /\ (\A o \in Operators : Approved(o)' <=> Approved(o)) =>
                           [o \in Operators |-> Granted(o)]' = [o \in Operators |-> Granted(o)]
                     /\ \A o \in Operators :
                           Approved(o)' /\ (\A q \in Operators \ {o} : Approved(q)' <=> Approved(q)) =>
                               [q \in Operators |-> Granted(q)]' =
                                   [[q \in Operators |-> Granted(q)] EXCEPT ![o] = {"expected"}]
    OBVIOUS
  <1>1. \A o \in Operators : Granted(o) = IF Approved(o) THEN {"expected"} ELSE {}
    BY GrantedValue
  <1>2. (InstallInv => \A o \in Operators : Granted(o) = IF Approved(o) THEN {"expected"} ELSE {})'
    BY GrantedValue, PTL
  <1> QED BY <1>1, <1>2

LEMMA ViewKept ==
    ASSUME InstallInv, InstallInv', SameView, \A o \in Operators : Approved(o)' <=> Approved(o),
           \A n \in Nodes : HasRuntime(n)' <=> HasRuntime(n)
    PROVE  UNCHANGED Stages!vars
  <1>1. [o \in Operators |-> Granted(o)]' = [o \in Operators |-> Granted(o)]
    BY GrantedSteps
  <1>2. {n \in Nodes : HasRuntime(n)}' = {n \in Nodes : HasRuntime(n)}
    OBVIOUS
  <1>3. At("done")' = At("done")
    BY DEF SameView, At
  <1> QED BY <1>1, <1>2, <1>3 DEF Stages!vars, SameView

LEMMA NothingApproved ==
    ASSUME StageInv, plans' = plans \/ \E q \in Operators : Propose(q) \/ Resolve(q)
    PROVE  \A o \in Operators : Approved(o)' <=> Approved(o)
  <1>t. TypeOK
    BY DEF StageInv, InstallInv
  <1>s. \A o \in Operators : plans[o] \in PlansUpToMax /\ DOMAIN plans[o] = 1..Len(plans[o])
    BY <1>t, PlansAreSeqs DEF TypeOK
  <1>1. CASE plans' = plans
    BY <1>1 DEF Approved
  <1>2. ASSUME NEW q \in Operators, Propose(q)
        PROVE  \A o \in Operators : Approved(o)' <=> Approved(o)
    <2>1. PICK csv \in CSVs, resolved \in BOOLEAN :
             plans' = [plans EXCEPT ![q] = Append(plans[q], [csv |-> csv, resolved |-> resolved,
                                                             approved |-> FALSE])]
      BY <1>2, <1>t DEF Propose, TypeOK
    <2> DEFINE plan == [csv |-> csv, resolved |-> resolved, approved |-> FALSE]
    <2>2. plan \in Plans /\ ~plan.approved
      BY DEF Plans
    <2>3. plans'[q] = Append(plans[q], plan) /\ \A o \in Operators : o # q => plans'[o] = plans[o]
      BY <1>t, <2>1 DEF TypeOK
    <2> HIDE DEF plan
    <2>4. Len(plans[q]) < MaxPlans
      BY <1>2 DEF Propose
    <2>5. /\ plans'[q] \in PlansUpToMax
          /\ Len(plans'[q]) = Len(plans[q]) + 1 /\ plans'[q][Len(plans'[q])] = plan
          /\ \A i \in 1..Len(plans[q]) : plans'[q][i] = plans[q][i]
      BY <1>s, <2>2, <2>3, <2>4, AddPlan
    <2>6. DOMAIN plans'[q] = 1..Len(plans'[q]) /\ Len(plans[q]) \in Nat
      BY <1>s, <2>5, PlansAreSeqs, BoundsAssumption
    <2>7. \A i \in DOMAIN plans'[q] : i \in DOMAIN plans[q] \/ plans'[q][i] = plan
      BY <1>s, <2>5, <2>6
    <2>8. \A i \in DOMAIN plans[q] : i \in DOMAIN plans'[q] /\ plans'[q][i] = plans[q][i]
      BY <1>s, <2>5, <2>6
    <2>9. Approved(q)' <=> Approved(q)
      BY <2>2, <2>7, <2>8 DEF Approved
    <2> QED BY <2>3, <2>9 DEF Approved
  <1>3. ASSUME NEW q \in Operators, Resolve(q)
        PROVE  \A o \in Operators : Approved(o)' <=> Approved(o)
    <2>1. PICK n \in DOMAIN plans[q] : plans' = [plans EXCEPT ![q][n].resolved = TRUE]
      BY <1>3 DEF Resolve
    <2>2. n \in 1..Len(plans[q]) /\ plans[q][n] \in Plans
      BY <1>s, <2>1, PlansAreSeqs, ElementOfSeq
    <2> DEFINE plan == [plans[q][n] EXCEPT !.resolved = TRUE]
    <2>3. plan \in Plans /\ plan.approved = plans[q][n].approved
      BY <2>2 DEF Plans
    <2>4. plans' = [plans EXCEPT ![q] = [plans[q] EXCEPT ![n] = plan]]
      BY <2>1, <2>2
    <2> HIDE DEF plan
    <2>5. /\ plans'[q] = [plans[q] EXCEPT ![n] = plan]
          /\ \A o \in Operators : o # q => plans'[o] = plans[o]
      BY <1>t, <2>4 DEF TypeOK
    <2>6. /\ plans'[q] \in PlansUpToMax
          /\ Len(plans'[q]) = Len(plans[q]) /\ plans'[q][n] = plan
          /\ \A i \in 1..Len(plans[q]) : i # n => plans'[q][i] = plans[q][i]
      BY <1>s, <2>2, <2>3, <2>5, UpdatePlan
    <2>7. DOMAIN plans'[q] = 1..Len(plans[q])
      BY <2>6, PlansAreSeqs
    <2>8. Approved(q)' <=> Approved(q)
      BY <1>s, <2>3, <2>6, <2>7 DEF Approved
    <2> QED BY <2>5, <2>8 DEF Approved
  <1> QED BY <1>1, <1>2, <1>3

\* The runtime reaches a node with its configuration, and in no other way.
LEMMA RuntimeSteps ==
    ASSUME StageInv, [Next]_vars
    PROVE  \/ \A n \in Nodes : HasRuntime(n)' <=> HasRuntime(n)
           \/ /\ UpdateNode
              /\ \E n \in Nodes : /\ ~HasRuntime(n) /\ HasRuntime(n)'
                                  /\ \A m \in Nodes \ {n} : HasRuntime(m)' <=> HasRuntime(m)
  <1>t. TypeOK /\ Bounded
    BY DEF StageInv, InstallInv
  <1> USE DEF machines, Unchanged
  <1>1. CASE UNCHANGED <<node, kata>>
    BY <1>1 DEF HasRuntime
  <1>2. CASE ApplyKata \/ UpdateKata
    <2>1. node' = node /\ kata'.runtime = kata.runtime
      <3>1. CASE ApplyKata
        BY <1>t, <3>1 DEF ApplyKata, TypeOK, Katas
      <3>2. CASE UpdateKata
        <4> DEFINE finished == \A n \in Nodes : HasRuntime(n)
        <4>1. kata' = [kata EXCEPT !.finished = finished] /\ node' = node
          BY <3>2 DEF UpdateKata
        <4> HIDE DEF finished
        <4> QED BY <1>t, <4>1 DEF TypeOK, Katas
      <3> QED BY <1>2, <3>1, <3>2
    <2> QED BY <2>1 DEF HasRuntime
  <1>3. CASE Render
    <2>1. /\ node' = node
          /\ kata.runtime = 0 \/ kata'.runtime = kata.runtime
          /\ kata'.runtime \in {kata.runtime, pool.spec + 1}
      BY <1>3, <1>t DEF Render, TypeOK, Katas
    <2>2. \A n \in Nodes : node[n] < pool.spec + 1
      BY <1>t, MachineTypes DEF Bounded
    <2>3. \A n \in Nodes : ~(node[n] >= pool.spec + 1)
      BY <1>t, <2>2, MachineTypes
    <2> QED BY <2>1, <2>3 DEF HasRuntime
  <1>4. CASE UpdateNode
    <2>1. PICK n \in Nodes : node' = [node EXCEPT ![n] = pool.spec]
      BY <1>4 DEF UpdateNode
    <2>2. kata' = kata /\ \A m \in Nodes \ {n} : node'[m] = node[m]
      BY <1>4, <1>t, <2>1 DEF UpdateNode, TypeOK
    <2>3. node'[n] = pool.spec /\ node[n] <= pool.spec
      BY <1>t, <2>1 DEF TypeOK, Bounded
    <2>4. HasRuntime(n) => HasRuntime(n)'
      BY <1>t, <2>2, <2>3, MachineTypes DEF HasRuntime
    <2>5. \A m \in Nodes \ {n} : HasRuntime(m)' <=> HasRuntime(m)
      BY <2>2 DEF HasRuntime
    <2> QED BY <1>4, <2>4, <2>5
  <1>5. UNCHANGED <<node, kata>> \/ ApplyKata \/ UpdateKata \/ Render \/ UpdateNode
    BY DEF Next, Install, Controllers, vars, NextSubscription, ReadSubscription, ReadPlan,
           PlanUnread, EndPoll, Answer, Approve, EndApproval, ReadKata, ReadNodes, ReadPool,
           Unanswered, TimeOut, Propose, Resolve, InstallCSV, UpdatePool
  <1> QED BY <1>1, <1>2, <1>3, <1>4, <1>5

LEMMA ApproveMaps == StageInv /\ Approve /\ InstallInv' => [Stages!Next]_Stages!vars
  <1> SUFFICES ASSUME StageInv, Approve, InstallInv' PROVE [Stages!Next]_Stages!vars
    OBVIOUS
  <1>t. TypeOK /\ run \in Runs
    BY DEF StageInv, InstallInv, TypeOK
  <1>1. /\ pc[1] = "approve" /\ run.approve
        /\ UNCHANGED <<installed, node, kata, pc>> /\ run'.approve = run.approve
    BY <1>t DEF Approve, At, machines, StageInv, StagesFollow, Runs
  <1>2. SameView /\ (\A n \in Nodes : HasRuntime(n)' <=> HasRuntime(n))
    BY <1>1 DEF SameView, HasRuntime
  <1>3. PICK p \in run.pending :
           plans' = [plans EXCEPT ![p.operator][p.plan].approved = TRUE] \/ plans' = plans
    BY DEF Approve
  <1>4. p.operator \in Operators /\ Lacking(p.operator)
    BY <1>t DEF Runs, Pending, StageInv, LackingRead
  <1>5. CASE plans' = plans
    BY <1>2, <1>5, NothingApproved, ViewKept DEF StageInv
  <1>6. CASE plans' = [plans EXCEPT ![p.operator][p.plan].approved = TRUE]
    <2>1. Approved(p.operator)'
      BY <1>6, <1>t, ApproveGrows DEF StageInv, InstallInv, Approved
    <2>2. \A q \in Operators \ {p.operator} : plans'[q] = plans[q]
      BY <1>6, <1>t, <1>4 DEF TypeOK
    <2>3. \A q \in Operators \ {p.operator} : Approved(q)' <=> Approved(q)
      BY <2>2 DEF Approved
    <2>4. CASE Approved(p.operator)
      <3>1. \A q \in Operators : Approved(q)' <=> Approved(q)
        BY <2>1, <2>3, <2>4
      <3> QED BY <1>2, <3>1, ViewKept DEF StageInv
    <2>5. CASE ~Approved(p.operator)
      <3>1. installed[p.operator] = None
        BY <1>4, <2>5 DEF Lacking
      <3>2. [q \in Operators |-> Granted(q)]' =
                [[q \in Operators |-> Granted(q)] EXCEPT ![p.operator] = {"expected"}]
        BY <1>4, <2>1, <2>3, GrantedSteps DEF StageInv
      <3>3. /\ {n \in Nodes : HasRuntime(n)}' = {n \in Nodes : HasRuntime(n)}
            /\ At("done")' = At("done")
        BY <1>1 DEF HasRuntime, At
      <3>4. Stages!Grant(p.operator)
        BY <1>1, <3>1, <3>2, <3>3 DEF Stages!Grant
      <3> QED BY <1>4, <3>4 DEF Stages!Next
    <2> QED BY <2>4, <2>5
  <1> QED BY <1>3, <1>5, <1>6

LEMMA InstallMaps ==
    ASSUME StageInv, NEW q \in Operators, InstallCSV(q), InstallInv'
    PROVE  [Stages!Next]_Stages!vars
  <1>1. PICK n \in DOMAIN plans[q] :
           /\ plans[q][n].approved /\ installed[q] = None
           /\ installed' = [installed EXCEPT ![q] = plans[q][n].csv]
    BY DEF InstallCSV
  <1>2. plans[q][n].csv \in Granted(q)
    BY <1>1 DEF Granted
  <1>3. UNCHANGED <<plans, node, pool, kata, pc, run>>
    BY DEF InstallCSV, machines
  <1>4. /\ [o \in Operators |-> Granted(o)]' = [o \in Operators |-> Granted(o)]
        /\ {m \in Nodes : HasRuntime(m)}' = {m \in Nodes : HasRuntime(m)}
        /\ At("done")' = At("done")
    BY <1>3 DEF Granted, HasRuntime, At
  <1>5. \E csv \in [o \in Operators |-> Granted(o)][q] :
            installed' = [installed EXCEPT ![q] = csv]
    BY <1>1, <1>2
  <1>6. Stages!Install(q)
    BY <1>1, <1>3, <1>4, <1>5 DEF Stages!Install
  <1> QED BY <1>6 DEF Stages!Next

\* The runtime is asked for, reaches a node, or is reported: nothing of the plans changes.
LEMMA RuntimeMaps ==
    ASSUME StageInv, [Next]_vars, InstallInv', ApplyKata \/ UpdateNode \/ ReadPool \/ Answer
    PROVE  [Stages!Next]_Stages!vars
  <1>t. TypeOK /\ run \in Runs
    BY DEF StageInv, InstallInv, TypeOK
  <1> USE DEF machines, olm, Unchanged
  <1>1. UNCHANGED <<plans, installed>>
    BY DEF ApplyKata, UpdateNode, ReadPool, Answer
  <1>2. /\ \A o \in Operators : Approved(o)' <=> Approved(o)
        /\ [o \in Operators |-> Granted(o)]' = [o \in Operators |-> Granted(o)]
    BY <1>1 DEF Approved, Granted
  <1>3. CASE ApplyKata
    <2>1. /\ pc[1] = "kata" /\ pc'[1] = "kataStatus" /\ kata'.applied = TRUE
          /\ kata'.runtime = kata.runtime /\ UNCHANGED <<node, run>>
      BY <1>3, <1>t DEF ApplyKata, At, Goto, TypeOK, Katas
    <2>2. \A n \in Nodes : HasRuntime(n)' <=> HasRuntime(n)
      BY <2>1 DEF HasRuntime
    <2>3. CASE kata.applied
      <3>1. kata'.applied = kata.applied
        BY <1>t, <2>1, <2>3 DEF TypeOK, Katas
      <3> QED BY <1>1, <1>2, <2>1, <2>2, <3>1, ViewKept DEF SameView, StageInv
    <2>4. CASE ~kata.applied
      <3>1. /\ {n \in Nodes : HasRuntime(n)}' = {n \in Nodes : HasRuntime(n)}
            /\ At("done")' = At("done")
        BY <2>1, <2>2 DEF At
      <3>2. Stages!Complete
        BY <2>1 DEF StageInv, StagesFollow, Stages!Complete
      <3>3. Stages!Apply
        BY <1>1, <1>2, <2>1, <2>4, <3>1, <3>2 DEF Stages!Apply
      <3> QED BY <3>3 DEF Stages!Next
    <2> QED BY <2>3, <2>4
  <1>4. CASE UpdateNode
    <2>1. UNCHANGED <<kata, pc, run>>
      BY <1>4 DEF UpdateNode
    <2>2. At("done")' = At("done") /\ SameView
      BY <1>1, <2>1 DEF At, SameView
    <2>3. CASE \A n \in Nodes : HasRuntime(n)' <=> HasRuntime(n)
      BY <1>2, <2>2, <2>3, ViewKept DEF StageInv
    <2>4. CASE \E n \in Nodes : /\ ~HasRuntime(n) /\ HasRuntime(n)'
                                /\ \A m \in Nodes \ {n} : HasRuntime(m)' <=> HasRuntime(m)
      <3>1. PICK n \in Nodes : /\ ~HasRuntime(n) /\ HasRuntime(n)'
                               /\ \A m \in Nodes \ {n} : HasRuntime(m)' <=> HasRuntime(m)
        BY <2>4
      <3>2. /\ n \notin {m \in Nodes : HasRuntime(m)}
            /\ {m \in Nodes : HasRuntime(m)}' = {m \in Nodes : HasRuntime(m)} \cup {n}
        BY <3>1
      <3>3. kata.applied
        BY <2>1, <3>1 DEF StageInv, StagesFollow, HasRuntime
      <3>4. Stages!Equip(n)
        BY <1>1, <1>2, <2>1, <2>2, <3>2, <3>3 DEF Stages!Equip
      <3> QED BY <3>4 DEF Stages!Next
    <2> QED BY <2>3, <2>4, RuntimeSteps
  <1>5. CASE ReadPool
    <2>1. /\ pc[1] = "pool" /\ UNCHANGED <<node, kata, run>>
          /\ pc'[1] = IF CheckKata THEN "done" ELSE "kataStatus"
      BY <1>5 DEF ReadPool, At, Goto
    <2>2. /\ {n \in Nodes : HasRuntime(n)}' = {n \in Nodes : HasRuntime(n)}
          /\ \A n \in Nodes : HasRuntime(n)' <=> HasRuntime(n)
      BY <2>1 DEF HasRuntime
    <2>3. CASE ~CheckKata
      <3>1. SameView
        BY <1>1, <2>1, <2>3 DEF SameView
      <3> QED BY <1>2, <2>2, <3>1, ViewKept DEF StageInv
    <2>4. CASE CheckKata
      <3>1. {n \in Nodes : HasRuntime(n)} = Nodes
        BY <2>4 DEF CheckKata, StageInv, InstallInv, ReadInv
      <3>2. kata.applied /\ ~At("done") /\ At("done")' = TRUE
        BY <2>1, <2>4 DEF StageInv, StagesFollow, At
      <3>3. Stages!Report
        BY <1>1, <1>2, <2>1, <2>2, <3>1, <3>2 DEF Stages!Report
      <3> QED BY <3>3 DEF Stages!Next
    <2> QED BY <2>3, <2>4
  <1>6. CASE Answer
    <2>1. /\ UNCHANGED <<node, kata>> /\ pc[1] = "table" /\ pc'[1] # "done"
          /\ run'.approve = run.approve \/ run'.approve = TRUE
      BY <1>6, <1>t DEF Answer, At, Goto, Runs
    <2>2. /\ {n \in Nodes : HasRuntime(n)}' = {n \in Nodes : HasRuntime(n)}
          /\ \A n \in Nodes : HasRuntime(n)' <=> HasRuntime(n)
          /\ At("done")' = At("done")
      BY <2>1 DEF HasRuntime, At
    <2>3. CASE run'.approve = run.approve
      <3>1. SameView
        BY <1>1, <2>1, <2>3 DEF SameView
      <3> QED BY <1>2, <2>2, <3>1, ViewKept DEF StageInv
    <2>4. CASE run'.approve # run.approve
      <3>1. ~run.approve /\ run'.approve = TRUE
        BY <1>t, <2>1, <2>4 DEF Runs
      <3>2. Stages!Agree
        BY <1>1, <1>2, <2>1, <2>2, <3>1 DEF Stages!Agree
      <3> QED BY <3>2 DEF Stages!Next
    <2> QED BY <2>3, <2>4
  <1> QED BY <1>3, <1>4, <1>5, <1>6

LEMMA StageFrameMaps ==
    ASSUME StageInv, [Next]_vars, InstallInv'
    PROVE  \/ UNCHANGED Stages!vars
           \/ Approve \/ ApplyKata \/ UpdateNode \/ ReadPool \/ Answer
           \/ \E q \in Operators : InstallCSV(q)
  <1> SUFFICES ASSUME ~Approve, ~ApplyKata, ~UpdateNode, ~ReadPool, ~Answer,
                      ~\E q \in Operators : InstallCSV(q)
               PROVE  UNCHANGED Stages!vars
    OBVIOUS
  <1>t. TypeOK /\ run \in Runs
    BY DEF StageInv, InstallInv, TypeOK
  <1> USE DEF machines, olm, Unchanged
  <1>1. \A n \in Nodes : HasRuntime(n)' <=> HasRuntime(n)
    BY RuntimeSteps
  <1>2. plans' = plans \/ \E q \in Operators : Propose(q) \/ Resolve(q)
    BY DEF Next, Install, Controllers, vars, NextSubscription, ReadSubscription, ReadPlan,
           PlanUnread, EndPoll, EndApproval, ReadKata, ReadNodes, Unanswered, TimeOut, Render,
           UpdatePool, UpdateKata
  <1>3. \A o \in Operators : Approved(o)' <=> Approved(o)
    BY <1>2, NothingApproved
  <1>4. SameView
    <2>1. CASE NextSubscription \/ PlanUnread \/ Unanswered \/ TimeOut \/ ReadKata \/ ReadNodes
      BY <2>1, <1>t DEF NextSubscription, PlanUnread, Unanswered, TimeOut, ReadKata, ReadNodes,
                        At, Goto, Runs, SameView
    <2>2. CASE ReadSubscription
      <3> DEFINE planless == run.planless \/ plans[pc[2]] = <<>>
      <3>1. /\ run' = run \/ run' = [run EXCEPT !.ready = FALSE, !.planless = planless]
            /\ pc[1] = "subscription" /\ UNCHANGED <<installed, kata>>
        BY <2>2 DEF ReadSubscription, At
      <3>2. pc'[1] # "done"
        BY <2>2 DEF ReadSubscription, Goto
      <3> HIDE DEF planless
      <3> QED BY <1>t, <3>1, <3>2 DEF Runs, SameView
    <2>3. CASE ReadPlan
      <3> DEFINE entry == [operator |-> pc[2], plan |-> Len(plans[pc[2]])]
      <3>1. /\ run' = run \/ run' = [run EXCEPT !.pending = @ \cup {entry}]
            /\ pc[1] = "plan" /\ pc'[1] # "done" /\ UNCHANGED <<installed, kata>>
        BY <2>3 DEF ReadPlan, At, Goto
      <3> HIDE DEF entry
      <3> QED BY <1>t, <3>1 DEF Runs, SameView
    <2>4. CASE EndPoll \/ EndApproval
      <3>1. run'.approve = run.approve
        BY <2>4 DEF EndPoll, EndApproval, Start
      <3>2. /\ pc[1] \in {"poll", "approve"} /\ pc'[1] # "done"
            /\ UNCHANGED <<installed, kata>>
        BY <2>4 DEF EndPoll, EndApproval, At, Goto
      <3> QED BY <3>1, <3>2 DEF SameView
    <2>5. CASE Controllers \/ UNCHANGED vars
      <3>1. CASE Render
        BY <1>t, <3>1 DEF Render, SameView, TypeOK, Katas
      <3>2. CASE UpdateKata
        <4>1. UNCHANGED <<pc, run, installed>> /\ kata'.applied = kata.applied
          BY <1>t, <3>2 DEF UpdateKata, TypeOK, Katas
        <4> QED BY <4>1 DEF SameView
      <3>3. CASE \/ \E o \in Operators : Propose(o) \/ Resolve(o)
                 \/ UpdatePool \/ UNCHANGED vars
        BY <3>3 DEF Propose, Resolve, UpdatePool, SameView, vars
      <3> QED BY <2>5, <3>1, <3>2, <3>3 DEF Controllers
    <2> QED BY <2>1, <2>2, <2>3, <2>4, <2>5 DEF Next, Install
  <1> QED BY <1>1, <1>3, <1>4, ViewKept DEF StageInv

LEMMA StagesInit == Init => Stages!Init
  <1> SUFFICES ASSUME Init PROVE Stages!Init
    OBVIOUS
  <1>1. PICK c \in {0, 1} :
           /\ c = 1 => \A o \in Operators : installed[o] = "expected"
           /\ node = [n \in Nodes |-> c]
           /\ kata = [applied |-> c = 1, runtime |-> c, finished |-> c = 1]
    BY DEF Init
  <1>2. run.approve \in BOOLEAN /\ ~At("done")
    BY AheadAssumption DEF Init, Start, At
  <1>3. [o \in Operators |-> Granted(o)] = [o \in Operators |-> {}]
    <2>1. \A o \in Operators : plans[o] \in PlansUpToMax /\ Len(plans[o]) = 0
      BY NoPlans DEF Init
    <2>2. \A o \in Operators : DOMAIN plans[o] = 1..0
      BY <2>1, PlansAreSeqs
    <2>3. \A o \in Operators : DOMAIN plans[o] = {}
      <3>1. 1..0 = {}
        OBVIOUS
      <3> QED BY <2>2, <3>1
    <2>4. \A o \in Operators : Granted(o) = {}
      BY <2>3 DEF Granted
    <2> QED BY <2>4
  <1>4. CASE c = 1
    <2>1. kata.applied = TRUE
      BY <1>1, <1>4
    <2>2. {n \in Nodes : HasRuntime(n)} = Nodes
      BY <1>1, <1>4 DEF HasRuntime
    <2> QED BY <1>1, <1>2, <1>3, <1>4, <2>1, <2>2 DEF Init, Stages!Init, Stages!Complete
  <1>5. CASE c = 0
    <2>1. kata.applied = FALSE
      <3>1. (c = 1) = FALSE
        BY <1>5
      <3>2. kata.applied = (c = 1)
        BY <1>1, Zenon
      <3> QED BY <3>1, <3>2, Zenon
    <2>2. {n \in Nodes : HasRuntime(n)} = {}
      BY <1>1, <1>5 DEF HasRuntime
    <2> QED BY <1>2, <1>3, <2>1, <2>2 DEF Init, Stages!Init
  <1> QED BY <1>4, <1>5

\* Whatever OLM, the rollouts and failing calls do between two reads, the stages keep
\* their order: no plan is approved without consent or for what is installed, the runtime is
\* asked for when every Operator is there, and reported when every node has it
\* (apply-sno.sh:179-192).
THEOREM StagesImplemented == Spec => ImplementsStages
  <1>1. Init => StageInv
    <2> SUFFICES ASSUME Init PROVE StageInv
      OBVIOUS
    <2>1. pc[1] = "poll" /\ run.pending = {} /\ run.todo = Operators
      BY DEF Init, Start
    <2>2. kata.runtime # 0 => kata.applied
      <3>1. PICK c \in {0, 1} :
               kata = [applied |-> c = 1, runtime |-> c, finished |-> c = 1]
        BY DEF Init
      <3>2. kata.runtime = c /\ (c = 1 => kata.applied)
        BY <3>1
      <3> QED BY <3>2
    <2> QED BY <2>1, <2>2, InstallInit DEF StageInv, LackingRead, ReadyRead, StagesFollow
  <1>2. StageInv /\ InstallInv' /\ [Next]_vars => [Stages!Next]_Stages!vars
    BY StageFrameMaps, ApproveMaps, InstallMaps, RuntimeMaps
  <1>3. StageInv => InstallInv
    BY DEF StageInv
  <1> QED
    BY <1>1, <1>2, <1>3, StagesInit, StageInvNext, PTL DEF Spec, ImplementsStages, Stages!Spec

================================================================================
