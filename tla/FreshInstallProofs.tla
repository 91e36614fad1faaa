------------------------- MODULE FreshInstallProofs -------------------------
(***************************************************************************)
(* Theorems about FreshInstall for any number of machines, revisions,      *)
(* invocations and builds: its safety properties from one inductive        *)
(* invariant, and that the journal implements ReinstallLedger.             *)
(***************************************************************************)
EXTENDS FreshInstall, TLAPS

---------------------------------------------------------------------------
(* The inductive invariant *)

\* Boot files and kubeconfig under a marker were built for the marker's revision.
AssetsAgree == assets.marker # None =>
    /\ assets.files # None => assets.files.rev = assets.marker
    /\ assets.kubeconfig # None => assets.kubeconfig.rev = assets.marker

\* A machine was erased by an accepted request, and runs nothing until it boots.
ProviderAgrees == \A m \in Machines :
    /\ rebuilds[m] # 0 => accepted[m] # None
    /\ m \in pending => accepted[m] # None /\ installed[m] = None

\* What a job knows of its arguments.
ArgumentsAgree ==
    /\ job.mode \in {"fresh", "resume"} => job.machine \in Machines
    /\ pc \notin {"idle", "unpublish", "reload"} => job.mode \in {"fresh", "resume"}
    /\ pc \in {"prepare", "remove", "build", "record", "stage", "publish",
               "gate", "intend", "post"} => job.mode = "fresh"
    /\ job.mode = "fresh" => job.rev \in Revisions

\* What a job has made of the assets so far.
BuildAgrees ==
    /\ pc = "remove" => \A m \in Machines : legacy[m] = None
    /\ pc \in {"build", "record"} => assets.marker = None
    /\ pc = "record" => /\ assets.files # None /\ assets.files.rev = job.rev
                        /\ assets.kubeconfig # None => assets.kubeconfig.rev = job.rev
    /\ pc = "stage" => assets.files # None
    /\ pc \in {"stage", "publish"} => assets.marker = job.rev
    /\ pc = "publish" => webroot # None /\ webroot.rev = assets.marker

\* From publication to the request a fresh installation publishes what its
\* identity names.
Publishes(revision) == Served # None /\ Served.rev = revision

PublicationAgrees ==
    /\ pc = "identity" /\ job.mode = "fresh" => Publishes(assets.marker)
    /\ pc \in {"request", "gate", "intend", "post", "accepted", "wait"} =>
         job.identity = assets.marker /\ job.identity \in Revisions
    /\ pc = "request" /\ job.mode = "fresh" => Publishes(job.identity)
    /\ pc \in {"gate", "intend", "post"} => Publishes(job.identity)

\* What a job knows of the journal and of the provider around its request.
RequestAgrees == LET m == job.machine IN
    /\ pc \in {"gate", "intend", "post"} =>
         /\ rebuilds[m] # 0 => job.existing \/ job.retry
         /\ accepted[m] = job.identity => job.retry
    /\ pc = "post" => journal[m] = [identity |-> job.identity, state |-> "sending"]
    /\ pc = "accepted" => accepted[m] = job.identity
    /\ pc = "wait" => journal[m] = [identity |-> job.identity, state |-> "requested"]

\* Why a publication is being closed, and how the job ends.
ClosingAgrees == LET m == job.machine IN
    /\ job.closing # "none" => pc \in {"idle", "unpublish", "reload"}
    /\ job.closing = "gate" /\ pc # "idle" => pending = {}
    /\ job.closing = "done" /\ job.mode # "stop" =>
         /\ job.mode \in {"fresh", "resume"} /\ job.identity \in Revisions
         /\ m \notin pending
         /\ installed[m] # None /\ installed[m].rev = accepted[m]
         /\ journal[m] = [identity |-> job.identity, state |-> "requested"]
    /\ job.result = "PASS" => job.closing = "done" /\ pc = "idle"

IInv == /\ TypeOK
        /\ JournalCoversProvider
        /\ AssetsAgree /\ ProviderAgrees
        /\ ArgumentsAgree /\ BuildAgrees /\ PublicationAgrees
        /\ RequestAgrees /\ ClosingAgrees

---------------------------------------------------------------------------
(* Initial states *)

LEMMA InvInit == Init => IInv
  <1> SUFFICES ASSUME Init PROVE IInv
    OBVIOUS
  <1> USE DEF Init
  <1>0. job \in Jobs /\ pc = "idle" /\ pc \in Labels
    BY DEF NoJob, Jobs, Labels
  <1>1. TypeOK
    <2>1. CASE NewHelper
      <3>1. /\ assets \in [marker : Revisions \cup {None}, files : Builds \cup {None},
                            kubeconfig : Builds \cup {None}]
            /\ webroot \in Builds \cup {None}
            /\ builds \in 0..MaxBuilds
        BY <2>1, BoundsAssumption DEF NewHelper, NoFiles
      <3>0. listening \in BOOLEAN
        BY <2>1, Zenon DEF NewHelper
      <3>2. /\ legacy \in [Machines -> Requests \cup {None}]
            /\ accepted \in [Machines -> Revisions \cup {None}]
            /\ pending = {}
        BY <2>1 DEF NewHelper
      <3>3. /\ journal \in [Machines -> Requests \cup {None}]
            /\ installed \in [Machines -> Builds \cup {None}]
            /\ jobs \in 0..MaxJobs
        BY BoundsAssumption
      <3>4. /\ attempt \in [Machines -> {"none", "refused", "accepted"}]
            /\ rebuilds \in [Machines -> Nat]
        BY <3>2
      <3> QED BY <1>0, <3>0, <3>1, <3>2, <3>3, <3>4 DEF TypeOK
    <2>2. CASE MaxBuilds > 0 /\ OldHelper
      <3> PICK m \in Machines, took \in BOOLEAN, s \in {"sending", "requested"} :
               \E i \in RevisionsOf[m] : LET first == [rev |-> i, n |-> 1] IN
               /\ s = "requested" => took
               /\ assets = [marker |-> i, files |-> first, kubeconfig |-> first]
               /\ legacy = [x \in Machines |->
                               IF x = m THEN [identity |-> i, state |-> s] ELSE None]
               /\ webroot = first
               /\ listening \in BOOLEAN
               /\ accepted = [x \in Machines |-> IF x = m /\ took THEN i ELSE None]
               /\ pending = IF took THEN {m} ELSE {}
               /\ builds = 1
        BY <2>2 DEF OldHelper
      <3> PICK i \in RevisionsOf[m] : LET first == [rev |-> i, n |-> 1] IN
               /\ s = "requested" => took
               /\ assets = [marker |-> i, files |-> first, kubeconfig |-> first]
               /\ legacy = [x \in Machines |->
                               IF x = m THEN [identity |-> i, state |-> s] ELSE None]
               /\ webroot = first
               /\ listening \in BOOLEAN
               /\ accepted = [x \in Machines |-> IF x = m /\ took THEN i ELSE None]
               /\ pending = IF took THEN {m} ELSE {}
               /\ builds = 1
        OBVIOUS
      <3>1. i \in Revisions
        BY RevisionsAssumption
      <3> DEFINE first == [rev |-> i, n |-> 1]
                 record == [identity |-> i, state |-> s]
      <3>2. first \in Builds
        BY <2>2, <3>1, BoundsAssumption DEF Builds
      <3>3. record \in Requests
        BY <3>1 DEF Requests
      <3>4. legacy \in [Machines -> Requests \cup {None}]
        BY <3>3
      <3> HIDE DEF first, record
      <3> QED BY <1>0, <2>2, <3>1, <3>2, <3>4, BoundsAssumption DEF TypeOK, first
    <2> QED BY <2>1, <2>2
  <1>2. JournalCoversProvider /\ AssetsAgree /\ ProviderAgrees
    <2>1. CASE NewHelper
      BY <2>1 DEF NewHelper, NoFiles, JournalCoversProvider, Record, AssetsAgree, ProviderAgrees
    <2>2. CASE MaxBuilds > 0 /\ OldHelper
      BY <2>2, RevisionsAssumption, NoneAssumption
         DEF OldHelper, JournalCoversProvider, Record, AssetsAgree, ProviderAgrees, Requests
    <2> QED BY <2>1, <2>2
  <1>3. ArgumentsAgree /\ BuildAgrees /\ PublicationAgrees /\ RequestAgrees /\ ClosingAgrees
    BY DEF NoJob, ArgumentsAgree, BuildAgrees, PublicationAgrees, RequestAgrees, ClosingAgrees
  <1> QED BY <1>1, <1>2, <1>3 DEF IInv

---------------------------------------------------------------------------
(* Type correctness *)

LEMMA FlowTypes ==
    ASSUME TypeOK, NEW cause \in {"done", "rescue", "gate"}, NEW label \in Labels,
           Goto(label) \/ Fail \/ Close(cause)
    PROVE  job' \in Jobs /\ pc' \in Labels
  BY DEF TypeOK, Goto, Fail, Close, Jobs, Labels

\* The variables that only the tasks between preparation and publication change.
LEMMA HelperType ==
    ASSUME TypeOK, UNCHANGED helper
    PROVE  /\ assets' \in [marker : Revisions \cup {None}, files : Builds \cup {None},
                           kubeconfig : Builds \cup {None}]
           /\ journal' \in [Machines -> Requests \cup {None}]
           /\ legacy' \in [Machines -> Requests \cup {None}]
           /\ webroot' \in Builds \cup {None}
           /\ listening' \in BOOLEAN
  BY DEF TypeOK, helper

LEMMA ProviderType ==
    ASSUME TypeOK, UNCHANGED <<provider, installed>>
    PROVE  /\ accepted' \in [Machines -> Revisions \cup {None}]
           /\ attempt' \in [Machines -> {"none", "refused", "accepted"}]
           /\ pending' \subseteq Machines
           /\ rebuilds' \in [Machines -> Nat]
           /\ installed' \in [Machines -> Builds \cup {None}]
  BY DEF TypeOK, provider

\* A task that changes nothing but the job keeps every type.
LEMMA QuietType ==
    ASSUME TypeOK, UNCHANGED <<helper, provider, installed, builds, jobs>>,
           job' \in Jobs, pc' \in Labels
    PROVE  TypeOK'
  BY HelperType, ProviderType DEF TypeOK

LEMMA BeginType ==
    ASSUME TypeOK, StartFreshInstall \/ StartResumeInstall \/ StartPxeStop
    PROVE  TypeOK'
  <1>1. /\ job' \in Jobs /\ pc' \in Labels
        /\ jobs' = jobs + 1 /\ jobs < MaxJobs
        /\ UNCHANGED <<helper, provider, installed, builds>>
    <2>1. CASE StartFreshInstall
      <3> PICK m \in Machines, retry, existing \in BOOLEAN : \E i \in RevisionsOf[m] :
               Begin([NoJob EXCEPT !.mode = "fresh", !.machine = m, !.rev = i,
                                   !.retry = retry, !.existing = existing], "prepare")
        BY <2>1 DEF StartFreshInstall
      <3> PICK i \in RevisionsOf[m] :
               Begin([NoJob EXCEPT !.mode = "fresh", !.machine = m, !.rev = i,
                                   !.retry = retry, !.existing = existing], "prepare")
        OBVIOUS
      <3> DEFINE new == [NoJob EXCEPT !.mode = "fresh", !.machine = m, !.rev = i,
                                      !.retry = retry, !.existing = existing]
      <3>1. i \in Revisions
        BY RevisionsAssumption
      <3>2. new \in Jobs
        BY <3>1 DEF NoJob, Jobs
      <3>3. "prepare" \in Labels
        BY DEF Labels
      <3> HIDE DEF new
      <3>4. Begin(new, "prepare")
        BY DEF new
      <3> QED BY <3>2, <3>3, <3>4 DEF Begin
    <2>2. CASE StartResumeInstall
      BY <2>2 DEF StartResumeInstall, Begin, NoJob, Jobs, Labels
    <2>3. CASE StartPxeStop
      BY <2>3 DEF StartPxeStop, Begin, NoJob, Jobs, Labels
    <2> QED BY <2>1, <2>2, <2>3
  <1>2. jobs' \in 0..MaxJobs
    BY <1>1, BoundsAssumption DEF TypeOK
  <1> QED BY <1>1, <1>2, HelperType, ProviderType DEF TypeOK

\* The tasks that build and publish.
LEMMA PublicationType ==
    ASSUME TypeOK, ArgumentsAgree,
           RemoveAssets \/ BuildFiles \/ RecordIdentity \/ StageFiles \/ Publish
             \/ Unpublish \/ Reload
    PROVE  TypeOK'
  <1>1. CASE RemoveAssets
    <2>1. job' \in Jobs /\ pc' \in Labels
      <3>1. "build" \in Labels
        BY DEF Labels
      <3> QED BY <1>1, <3>1, FlowTypes DEF RemoveAssets
    <2>2. /\ assets' \in [marker : Revisions \cup {None}, files : Builds \cup {None},
                          kubeconfig : Builds \cup {None}]
          /\ legacy' \in [Machines -> Requests \cup {None}]
      BY <1>1 DEF RemoveAssets, NoFiles, TypeOK
    <2> QED BY <1>1, <2>1, <2>2, ProviderType DEF RemoveAssets, TypeOK
  <1>2. CASE BuildFiles
    <2> DEFINE new == [rev |-> job.rev, n |-> builds + 1]
    <2>1. new \in Builds
      BY <1>2, BoundsAssumption DEF BuildFiles, ArgumentsAgree, TypeOK, Builds
    <2>2. job' \in Jobs /\ pc' \in Labels
      <3>1. "record" \in Labels
        BY DEF Labels
      <3> QED BY <1>2, <3>1, FlowTypes DEF BuildFiles
    <2>3. \E f, k \in {new, None} : assets' = [assets EXCEPT !.files = f, !.kubeconfig = k]
      BY <1>2 DEF BuildFiles
    <2>4. builds' \in 0..MaxBuilds
      BY <1>2, BoundsAssumption DEF BuildFiles, TypeOK
    <2> HIDE DEF new
    <2>5. assets' \in [marker : Revisions \cup {None}, files : Builds \cup {None},
                       kubeconfig : Builds \cup {None}]
      <3> PICK f, k \in {new, None} :
               assets' = [assets EXCEPT !.files = f, !.kubeconfig = k]
        BY <2>3
      <3>1. f \in Builds \cup {None} /\ k \in Builds \cup {None}
        BY <2>1
      <3> QED BY <3>1 DEF TypeOK
    <2> QED BY <1>2, <2>2, <2>4, <2>5, ProviderType DEF BuildFiles, TypeOK
  <1>3. CASE RecordIdentity
    <2>1. job' \in Jobs /\ pc' \in Labels
      <3>1. "stage" \in Labels
        BY DEF Labels
      <3> QED BY <1>3, <3>1, FlowTypes DEF RecordIdentity
    <2>2. assets' \in [marker : Revisions \cup {None}, files : Builds \cup {None},
                       kubeconfig : Builds \cup {None}]
      BY <1>3 DEF RecordIdentity, TypeOK, Jobs
    <2> QED BY <1>3, <2>1, <2>2, ProviderType DEF RecordIdentity, TypeOK
  <1>4. CASE StageFiles
    <2>1. job' \in Jobs /\ pc' \in Labels
      <3>1. "publish" \in Labels
        BY DEF Labels
      <3> QED BY <1>4, <3>1, FlowTypes DEF StageFiles
    <2>2. webroot' \in Builds \cup {None}
      BY <1>4 DEF StageFiles, TypeOK
    <2> QED BY <1>4, <2>1, <2>2, ProviderType DEF StageFiles, TypeOK
  <1>5. CASE Publish
    <2>1. job' \in Jobs /\ pc' \in Labels
      <3>1. "identity" \in Labels
        BY DEF Labels
      <3> QED BY <1>5, <3>1, FlowTypes DEF Publish
    <2>2. listening' \in BOOLEAN
      BY <1>5, Zenon DEF Publish, TypeOK
    <2> QED BY <1>5, <2>1, <2>2, ProviderType DEF Publish, TypeOK
  <1>6. CASE Unpublish
    <2>1. job' \in Jobs /\ pc' \in Labels
      <3>1. "reload" \in Labels
        BY DEF Labels
      <3> QED BY <1>6, <3>1, FlowTypes DEF Unpublish
    <2>2. webroot' \in Builds \cup {None}
      BY <1>6 DEF Unpublish, TypeOK
    <2> QED BY <1>6, <2>1, <2>2, ProviderType DEF Unpublish, TypeOK
  <1>7. CASE Reload
    <2>1. job' \in Jobs /\ pc' \in Labels
      BY <1>7 DEF Reload, TypeOK, Jobs, Labels
    <2>2. listening' \in BOOLEAN
      BY <1>7, Zenon DEF Reload
    <2> QED BY <1>7, <2>1, <2>2, ProviderType DEF Reload, TypeOK
  <1> QED BY <1>1, <1>2, <1>3, <1>4, <1>5, <1>6, <1>7

\* The tasks that only look at the helper and the cluster.
LEMMA ReadingType ==
    ASSUME TypeOK, Prepare \/ ReadIdentity \/ DecideRequest \/ Gate \/ Wait \/ Interrupt
    PROVE  TypeOK'
  <1>1. {"remove", "stage", "request", "wait", "gate", "intend"} \subseteq Labels
    BY DEF Labels
  <1>2. CASE ReadIdentity
    <2>1. job' \in Jobs /\ pc' \in Labels
      <3>1. CASE assets.marker = None
        BY <1>1, <1>2, <3>1, FlowTypes DEF ReadIdentity
      <3>2. CASE assets.marker # None
        BY <1>1, <1>2, <3>2 DEF ReadIdentity, TypeOK, Jobs
      <3> QED BY <3>1, <3>2
    <2> QED BY <1>2, <2>1, QuietType DEF ReadIdentity
  <1>3. CASE Prepare
    BY <1>1, <1>3, FlowTypes, QuietType DEF Prepare
  <1>4. CASE DecideRequest
    BY <1>1, <1>4, FlowTypes, QuietType DEF DecideRequest
  <1>5. CASE Gate
    BY <1>1, <1>5, FlowTypes, QuietType DEF Gate
  <1>6. CASE Wait
    BY <1>1, <1>6, FlowTypes, QuietType DEF Wait
  <1>7. CASE Interrupt
    BY <1>1, <1>7, FlowTypes, QuietType DEF Interrupt
  <1> QED BY <1>2, <1>3, <1>4, <1>5, <1>6, <1>7

\* The tasks of the request, the machines and the operator.
LEMMA RequestType ==
    ASSUME TypeOK, ArgumentsAgree, PublicationAgrees,
           \/ RecordIntent \/ PostRebuild \/ RecordAccepted
           \/ \E m \in Machines : MigrateLegacy(m) \/ Boot(m)
    PROVE  TypeOK'
  <1>1. {"post", "accepted", "wait"} \subseteq Labels
    BY DEF Labels
  <1>2. CASE RecordIntent
    <2>1. job' \in Jobs /\ pc' \in Labels
      BY <1>1, <1>2, FlowTypes DEF RecordIntent
    <2>2. [identity |-> job.identity, state |-> "sending"] \in Requests
      BY <1>2 DEF RecordIntent, PublicationAgrees, Requests
    <2>3. /\ journal' \in [Machines -> Requests \cup {None}]
          /\ attempt' \in [Machines -> {"none", "refused", "accepted"}]
      BY <1>2, <2>2 DEF RecordIntent, TypeOK
    <2> QED BY <1>2, <2>1, <2>3 DEF RecordIntent, TypeOK
  <1>3. CASE PostRebuild
    <2>1. job' \in Jobs /\ pc' \in Labels
      BY <1>1, <1>3, FlowTypes DEF PostRebuild
    <2>2. job.identity \in Revisions /\ job.machine \in Machines
      BY <1>3 DEF PostRebuild, PublicationAgrees, ArgumentsAgree
    <2>3. CASE Accept(job.machine, job.identity)
      <3>1. /\ accepted' \in [Machines -> Revisions \cup {None}]
            /\ installed' \in [Machines -> Builds \cup {None}]
            /\ attempt' \in [Machines -> {"none", "refused", "accepted"}]
            /\ pending' \subseteq Machines
            /\ rebuilds' \in [Machines -> Nat]
        BY <2>2, <2>3 DEF Accept, TypeOK
      <3> QED BY <1>3, <2>1, <3>1, HelperType DEF PostRebuild, TypeOK
    <2>4. CASE ~Accept(job.machine, job.identity)
      <3>1. attempt' \in [Machines -> {"none", "refused", "accepted"}]
        BY <1>3, <2>4 DEF PostRebuild, TypeOK
      <3>2. UNCHANGED <<accepted, installed, pending, rebuilds>>
        BY <1>3, <2>4 DEF PostRebuild
      <3> QED BY <1>3, <2>1, <3>1, <3>2, HelperType DEF PostRebuild, TypeOK
    <2> QED BY <2>3, <2>4
  <1>4. CASE RecordAccepted
    <2>1. job' \in Jobs /\ pc' \in Labels
      BY <1>1, <1>4, FlowTypes DEF RecordAccepted
    <2>2. [identity |-> job.identity, state |-> "requested"] \in Requests
      BY <1>4 DEF RecordAccepted, PublicationAgrees, Requests
    <2>3. journal' \in [Machines -> Requests \cup {None}]
      BY <1>4, <2>2 DEF RecordAccepted, TypeOK
    <2> QED BY <1>4, <2>1, <2>3, ProviderType DEF RecordAccepted, TypeOK
  <1>5. ASSUME NEW m \in Machines, MigrateLegacy(m) PROVE TypeOK'
    <2>1. /\ journal' \in [Machines -> Requests \cup {None}]
          /\ legacy' \in [Machines -> Requests \cup {None}]
      BY <1>5 DEF MigrateLegacy, TypeOK
    <2> QED BY <1>5, <2>1, ProviderType DEF MigrateLegacy, TypeOK
  <1>6. ASSUME NEW m \in Machines, Boot(m) PROVE TypeOK'
    <2>1. Served \in Builds \cup {None}
      BY DEF TypeOK, Served
    <2>2. /\ installed' \in [Machines -> Builds \cup {None}]
          /\ pending' \subseteq Machines
      BY <1>6, <2>1 DEF Boot, TypeOK
    <2> QED BY <1>6, <2>2, HelperType DEF Boot, TypeOK
  <1> QED BY <1>2, <1>3, <1>4, <1>5, <1>6

LEMMA TypeStep == IInv /\ [Next]_vars => TypeOK'
  <1> SUFFICES ASSUME IInv, [Next]_vars PROVE TypeOK'
    OBVIOUS
  <1> USE DEF IInv
  <1>1. CASE UNCHANGED vars
    BY <1>1, QuietType DEF vars, TypeOK
  <1>2. CASE Next
    BY <1>2, BeginType, PublicationType, ReadingType, RequestType DEF Next, Task
  <1> QED BY <1>1, <1>2

---------------------------------------------------------------------------
(* The journal, the assets and the provider *)

LEMMA JournalStep == IInv /\ [Next]_vars => JournalCoversProvider'
  <1> SUFFICES ASSUME IInv, [Next]_vars PROVE JournalCoversProvider'
    OBVIOUS
  <1> USE DEF IInv
  <1>1. CASE UNCHANGED <<journal, legacy, accepted>>
    BY <1>1 DEF JournalCoversProvider, Record
  <1>2. CASE RemoveAssets
    <2>1. \A m \in Machines : legacy'[m] = legacy[m]
      BY <1>2 DEF RemoveAssets, BuildAgrees
    <2>2. UNCHANGED <<journal, accepted>>
      BY <1>2 DEF RemoveAssets, provider
    <2> QED BY <2>1, <2>2 DEF JournalCoversProvider, Record
  <1>3. CASE RecordIntent
    <2> DEFINE record == [identity |-> job.identity, state |-> "sending"]
    <2>1. record \in Requests
      BY <1>3 DEF RecordIntent, PublicationAgrees, Requests
    <2>2. record # None /\ record.state = "sending"
      BY <2>1, NoneAssumption
    <2>3. /\ journal' = [journal EXCEPT ![job.machine] = record]
          /\ UNCHANGED <<legacy, accepted>>
      BY <1>3 DEF RecordIntent
    <2> HIDE DEF record
    <2> QED BY <2>2, <2>3 DEF JournalCoversProvider, Record, TypeOK
  <1>4. CASE PostRebuild
    <2> DEFINE m == job.machine
    <2>1. m \in Machines /\ UNCHANGED <<journal, legacy>>
      BY <1>4 DEF PostRebuild, ArgumentsAgree, helper
    <2>2. journal[m] = [identity |-> job.identity, state |-> "sending"] /\ journal[m] # None
      <3>1. journal[m] = [identity |-> job.identity, state |-> "sending"]
        BY <1>4 DEF PostRebuild, RequestAgrees
      <3>2. journal[m] \in Requests
        BY <1>4, <3>1 DEF PostRebuild, PublicationAgrees, Requests
      <3> QED BY <3>1, <3>2, NoneAssumption
    <2>3. \A x \in Machines \ {m} : accepted'[x] = accepted[x]
      BY <1>4 DEF PostRebuild, Accept, TypeOK
    <2> QED BY <2>1, <2>2, <2>3 DEF JournalCoversProvider, Record
  <1>5. CASE RecordAccepted
    <2> DEFINE record == [identity |-> job.identity, state |-> "requested"]
    <2>1. record \in Requests
      BY <1>5 DEF RecordAccepted, PublicationAgrees, Requests
    <2>2. record # None /\ record.identity = job.identity
      BY <2>1, NoneAssumption
    <2>3. /\ journal' = [journal EXCEPT ![job.machine] = record]
          /\ UNCHANGED <<legacy, accepted>>
      BY <1>5 DEF RecordAccepted, provider
    <2>4. accepted[job.machine] = job.identity
      BY <1>5 DEF RecordAccepted, RequestAgrees
    <2> HIDE DEF record
    <2> QED BY <2>2, <2>3, <2>4 DEF JournalCoversProvider, Record, TypeOK
  <1>6. ASSUME NEW m \in Machines, MigrateLegacy(m) PROVE JournalCoversProvider'
    <2>1. /\ UNCHANGED accepted
          /\ journal[m] = None /\ legacy[m] # None
          /\ journal' = [journal EXCEPT ![m] = legacy[m]]
          /\ legacy' = [legacy EXCEPT ![m] = None]
      BY <1>6 DEF MigrateLegacy, provider
    <2>2. \A x \in Machines : Record(x)' = Record(x)
      BY <2>1 DEF Record, TypeOK
    <2> QED BY <2>1, <2>2 DEF JournalCoversProvider
  <1>7. CASE \/ StartFreshInstall \/ StartResumeInstall \/ StartPxeStop \/ Interrupt
             \/ Prepare \/ BuildFiles \/ RecordIdentity \/ StageFiles \/ Publish
             \/ Unpublish \/ Reload \/ ReadIdentity \/ DecideRequest \/ Gate \/ Wait
             \/ \E m \in Machines : Boot(m)
    <2>1. UNCHANGED <<journal, legacy, accepted>>
      BY <1>7 DEF StartFreshInstall, StartResumeInstall, StartPxeStop, Begin, Interrupt,
           Prepare, BuildFiles, RecordIdentity, StageFiles, Publish, Unpublish, Reload,
           ReadIdentity, DecideRequest, Gate, Wait, Boot, helper, provider
    <2> QED BY <1>1, <2>1
  <1>8. CASE UNCHANGED vars
    BY <1>1, <1>8 DEF vars, helper, provider
  <1> QED BY <1>2, <1>3, <1>4, <1>5, <1>6, <1>7, <1>8 DEF Next, Task

LEMMA AssetsStep == IInv /\ [Next]_vars => AssetsAgree'
  <1> SUFFICES ASSUME IInv, [Next]_vars PROVE AssetsAgree'
    OBVIOUS
  <1> USE DEF IInv
  <1>1. CASE RemoveAssets
    BY <1>1 DEF RemoveAssets, AssetsAgree, NoFiles
  <1>2. CASE BuildFiles
    <2> DEFINE new == [rev |-> job.rev, n |-> builds + 1]
    <2>2. \E f, k \in {new, None} : assets' = [assets EXCEPT !.files = f, !.kubeconfig = k]
      BY <1>2 DEF BuildFiles
    <2> HIDE DEF new
    <2>1. assets'.marker = None
      BY <1>2, <2>2 DEF BuildFiles, BuildAgrees, TypeOK
    <2> QED BY <2>1 DEF AssetsAgree
  <1>3. CASE RecordIdentity
    BY <1>3 DEF RecordIdentity, BuildAgrees, AssetsAgree, TypeOK
  <1>4. CASE UNCHANGED assets
    BY <1>4 DEF AssetsAgree
  <1>5. UNCHANGED assets \/ RemoveAssets \/ BuildFiles \/ RecordIdentity
    BY DEF Next, Task, vars, helper, StartFreshInstall, StartResumeInstall, StartPxeStop,
         Begin, Interrupt, Prepare, StageFiles, Publish, Unpublish, Reload, ReadIdentity,
         DecideRequest, Gate, RecordIntent, PostRebuild, RecordAccepted, Wait,
         MigrateLegacy, Boot
  <1> QED BY <1>1, <1>2, <1>3, <1>4, <1>5

LEMMA ProviderStep == IInv /\ [Next]_vars => ProviderAgrees'
  <1> SUFFICES ASSUME IInv, [Next]_vars PROVE ProviderAgrees'
    OBVIOUS
  <1> USE DEF IInv
  <1>1. CASE UNCHANGED <<accepted, rebuilds, pending, installed>>
    BY <1>1 DEF ProviderAgrees
  <1>2. CASE Accept(job.machine, job.identity) /\ PostRebuild
    <2>1. job.identity # None
      BY <1>2, RevisionsAssumption DEF PostRebuild, PublicationAgrees
    <2> QED BY <1>2, <2>1 DEF Accept, ProviderAgrees, TypeOK
  <1>3. ASSUME NEW m \in Machines, Boot(m) PROVE ProviderAgrees'
    BY <1>3 DEF Boot, ProviderAgrees, TypeOK
  <1>4. \/ UNCHANGED <<accepted, rebuilds, pending, installed>>
        \/ Accept(job.machine, job.identity) /\ PostRebuild
        \/ \E m \in Machines : Boot(m)
    BY DEF Next, Task, vars, provider, StartFreshInstall, StartResumeInstall, StartPxeStop,
         Begin, Interrupt, Prepare, RemoveAssets, BuildFiles, RecordIdentity, StageFiles,
         Publish, Unpublish, Reload, ReadIdentity, DecideRequest, Gate, RecordIntent,
         PostRebuild, RecordAccepted, Wait, MigrateLegacy
  <1> QED BY <1>1, <1>2, <1>3, <1>4

---------------------------------------------------------------------------
(* The flow of a job *)

\* What begins a job, and what it begins with.
Beginning ==
    /\ pc = "idle" /\ UNCHANGED <<helper, provider, installed, builds>>
    /\ \/ StartFreshInstall /\ pc' = "prepare" /\ job'.mode = "fresh"
          /\ job'.machine \in Machines /\ job'.rev \in Revisions
       \/ StartResumeInstall /\ pc' = "identity" /\ job'.mode = "resume"
          /\ job'.machine \in Machines
       \/ StartPxeStop /\ pc' = "unpublish" /\ job'.mode = "stop"
    /\ job'.closing = IF job'.mode = "stop" THEN "done" ELSE "none"
    /\ job'.result = "none"

LEMMA StartBegins ==
    ASSUME StartFreshInstall \/ StartResumeInstall \/ StartPxeStop
    PROVE  Beginning
  <1>1. CASE StartFreshInstall
    <2> PICK m \in Machines, retry, existing \in BOOLEAN : \E i \in RevisionsOf[m] :
             Begin([NoJob EXCEPT !.mode = "fresh", !.machine = m, !.rev = i,
                                 !.retry = retry, !.existing = existing], "prepare")
      BY <1>1 DEF StartFreshInstall
    <2> PICK i \in RevisionsOf[m] :
             Begin([NoJob EXCEPT !.mode = "fresh", !.machine = m, !.rev = i,
                                 !.retry = retry, !.existing = existing], "prepare")
      OBVIOUS
    <2>1. i \in Revisions
      BY RevisionsAssumption
    <2> DEFINE new == [NoJob EXCEPT !.mode = "fresh", !.machine = m, !.rev = i,
                                    !.retry = retry, !.existing = existing]
    <2>2. /\ new.mode = "fresh" /\ new.machine = m /\ new.rev = i
          /\ new.closing = "none" /\ new.result = "none"
      BY DEF NoJob
    <2> HIDE DEF new
    <2>3. Begin(new, "prepare")
      BY DEF new
    <2> QED BY <1>1, <2>1, <2>2, <2>3 DEF Begin, Beginning
  <1>2. CASE StartResumeInstall
    BY <1>2 DEF StartResumeInstall, Begin, NoJob, Beginning
  <1>3. CASE StartPxeStop
    BY <1>3 DEF StartPxeStop, Begin, NoJob, Beginning
  <1> QED BY <1>1, <1>2, <1>3

\* The arguments of a job, which its tasks leave alone.
KeepsArguments == /\ job'.mode = job.mode /\ job'.machine = job.machine
                  /\ job'.rev = job.rev
                  /\ job'.retry = job.retry /\ job'.existing = job.existing

\* How a task ends.
Advances == UNCHANGED job
Fails == /\ KeepsArguments /\ pc' = "idle" /\ job'.identity = job.identity
         /\ job'.closing = job.closing /\ job'.result = "FAIL"
Closes(cause) == /\ KeepsArguments /\ pc' = "unpublish" /\ job'.identity = job.identity
                 /\ job'.closing = cause /\ job'.result = job.result

LEMMA FlowKeeps ==
    ASSUME TypeOK
    PROVE  /\ Fail => Fails
           /\ Close("done") => Closes("done")
           /\ Close("rescue") => Closes("rescue")
           /\ Close("gate") => Closes("gate")
  BY DEF TypeOK, Jobs, Fail, Close, Fails, Closes, KeepsArguments

\* Every step begins a job, is one of its tasks, or leaves the job alone.
Tasks == \/ pc = "prepare" /\ Prepare
             /\ (Fails \/ (Advances /\ pc' \in {"remove", "stage"}))
         \/ pc = "remove" /\ RemoveAssets /\ (Fails \/ (Advances /\ pc' = "build"))
         \/ pc = "build" /\ BuildFiles /\ (Fails \/ (Advances /\ pc' = "record"))
         \/ pc = "record" /\ RecordIdentity /\ Advances /\ pc' = "stage"
         \/ pc = "stage" /\ StageFiles
             /\ (Fails \/ Closes("rescue") \/ (Advances /\ pc' = "publish"))
         \/ pc = "publish" /\ Publish
             /\ (Fails \/ Closes("rescue") \/ (Advances /\ pc' = "identity"))
         \/ pc = "unpublish" /\ Unpublish /\ (Fails \/ (Advances /\ pc' = "reload"))
         \/ pc = "reload" /\ Reload /\ KeepsArguments /\ pc' = "idle"
             /\ job'.identity = job.identity /\ job'.closing = job.closing
             /\ job'.result = IF job.closing = "done" THEN "PASS" ELSE "FAIL"
         \/ pc = "identity" /\ ReadIdentity
             /\ \/ Fails
                \/ /\ KeepsArguments /\ pc' = "request" /\ assets.marker # None
                   /\ job'.identity = assets.marker
                   /\ job'.closing = job.closing /\ job'.result = job.result
         \/ pc = "request" /\ DecideRequest
             /\ (Fails \/ (Advances /\ pc' \in {"wait", "gate"}))
         \/ pc = "gate" /\ Gate
             /\ (Fails \/ Closes("gate") \/ (Advances /\ pc' = "intend"))
         \/ pc = "intend" /\ RecordIntent /\ Advances /\ pc' = "post"
         \/ pc = "post" /\ PostRebuild /\ (Fails \/ (Advances /\ pc' = "accepted"))
         \/ pc = "accepted" /\ RecordAccepted /\ Advances /\ pc' = "wait"
         \/ pc = "wait" /\ Wait /\ (Fails \/ Closes("done"))

Bystanders == \/ \E m \in Machines : MigrateLegacy(m) \/ Boot(m)
              \/ UNCHANGED vars

LEMMA StepCases ==
    ASSUME TypeOK, [Next]_vars
    PROVE  \/ Beginning
           \/ Tasks
           \/ Interrupt /\ Fails
           \/ Bystanders /\ UNCHANGED <<job, pc>>
  <1>1. CASE StartFreshInstall \/ StartResumeInstall \/ StartPxeStop
    BY <1>1, StartBegins
  <1>2. CASE Task
    <2> USE DEF Goto, Advances
    <2>1. CASE Reload
      BY <2>1 DEF Reload, Tasks, KeepsArguments, TypeOK, Jobs
    <2>2. CASE ReadIdentity
      BY <2>2, FlowKeeps DEF ReadIdentity, Tasks, KeepsArguments, TypeOK, Jobs
    <2>3. CASE Prepare
      <3>1. pc = "prepare" /\ (Fails \/ (Advances /\ pc' \in {"remove", "stage"}))
        BY <2>3, FlowKeeps DEF Prepare
      <3> QED BY <2>3, <3>1 DEF Tasks
    <2>4. CASE RemoveAssets
      <3>1. pc = "remove" /\ (Fails \/ (Advances /\ pc' = "build"))
        BY <2>4, FlowKeeps DEF RemoveAssets
      <3> QED BY <2>4, <3>1 DEF Tasks
    <2>5. CASE BuildFiles
      <3>1. pc = "build" /\ (Fails \/ (Advances /\ pc' = "record"))
        BY <2>5, FlowKeeps DEF BuildFiles
      <3> QED BY <2>5, <3>1 DEF Tasks
    <2>6. CASE RecordIdentity
      <3>1. pc = "record" /\ Advances /\ pc' = "stage"
        BY <2>6 DEF RecordIdentity
      <3> QED BY <2>6, <3>1 DEF Tasks
    <2>7. CASE StageFiles
      <3>1. pc = "stage" /\ (Fails \/ Closes("rescue") \/ (Advances /\ pc' = "publish"))
        BY <2>7, FlowKeeps DEF StageFiles
      <3> QED BY <2>7, <3>1 DEF Tasks
    <2>8. CASE Publish
      <3>1. pc = "publish" /\ (Fails \/ Closes("rescue") \/ (Advances /\ pc' = "identity"))
        BY <2>8, FlowKeeps DEF Publish
      <3> QED BY <2>8, <3>1 DEF Tasks
    <2>9. CASE Unpublish
      <3>1. pc = "unpublish" /\ (Fails \/ (Advances /\ pc' = "reload"))
        BY <2>9, FlowKeeps DEF Unpublish
      <3> QED BY <2>9, <3>1 DEF Tasks
    <2>10. CASE DecideRequest
      <3>1. pc = "request" /\ (Fails \/ (Advances /\ pc' \in {"wait", "gate"}))
        BY <2>10, FlowKeeps DEF DecideRequest
      <3> QED BY <2>10, <3>1 DEF Tasks
    <2>11. CASE Gate
      <3>1. pc = "gate" /\ (Fails \/ Closes("gate") \/ (Advances /\ pc' = "intend"))
        BY <2>11, FlowKeeps DEF Gate
      <3> QED BY <2>11, <3>1 DEF Tasks
    <2>12. CASE RecordIntent
      <3>1. pc = "intend" /\ Advances /\ pc' = "post"
        BY <2>12 DEF RecordIntent
      <3> QED BY <2>12, <3>1 DEF Tasks
    <2>13. CASE PostRebuild
      <3>1. pc = "post" /\ (Fails \/ (Advances /\ pc' = "accepted"))
        BY <2>13, FlowKeeps DEF PostRebuild
      <3> QED BY <2>13, <3>1 DEF Tasks
    <2>14. CASE RecordAccepted
      <3>1. pc = "accepted" /\ Advances /\ pc' = "wait"
        BY <2>14 DEF RecordAccepted
      <3> QED BY <2>14, <3>1 DEF Tasks
    <2>15. CASE Wait
      <3>1. pc = "wait" /\ (Fails \/ Closes("done"))
        BY <2>15, FlowKeeps DEF Wait
      <3> QED BY <2>15, <3>1 DEF Tasks
    <2> QED BY <1>2, <2>1, <2>2, <2>3, <2>4, <2>5, <2>6, <2>7, <2>8,
               <2>9, <2>10, <2>11, <2>12, <2>13, <2>14, <2>15 DEF Task
  <1>3. CASE Interrupt
    BY <1>3, FlowKeeps DEF Interrupt
  <1>4. CASE Bystanders
    BY <1>4 DEF Bystanders, MigrateLegacy, Boot, vars
  <1> QED BY <1>1, <1>2, <1>3, <1>4 DEF Next, Bystanders

LEMMA ArgumentsStep == IInv /\ [Next]_vars => ArgumentsAgree'
  <1> SUFFICES ASSUME IInv, [Next]_vars PROVE ArgumentsAgree'
    OBVIOUS
  <1> USE DEF IInv
  <1>1. CASE Beginning
    BY <1>1 DEF Beginning, ArgumentsAgree
  <1>2. CASE Interrupt /\ Fails
    BY <1>2 DEF Fails, KeepsArguments, ArgumentsAgree
  <1>3. CASE UNCHANGED <<job, pc>>
    BY <1>3 DEF ArgumentsAgree
  <1>4. CASE Tasks
    <2>1. CASE pc # "request"
      BY <1>4, <2>1 DEF Tasks, Advances, Fails, Closes, KeepsArguments, ArgumentsAgree
    <2>2. CASE pc = "request" /\ job.mode = "fresh"
      BY <1>4, <2>2 DEF Tasks, Advances, Fails, Closes, KeepsArguments, ArgumentsAgree
    <2>3. CASE pc = "request" /\ job.mode # "fresh"
      <3>1. job.mode = "resume" /\ DecideRequest
        BY <1>4, <2>3 DEF ArgumentsAgree, Tasks
      <3>2. Fails \/ (Advances /\ pc' = "wait")
        <4>1. RequestRefused \/ RequestedAlready
          BY <3>1 DEF RequestRefused
        <4> QED BY <3>1, <4>1, FlowKeeps DEF DecideRequest, Goto, Advances
      <3> QED BY <2>3, <3>2 DEF Advances, Fails, KeepsArguments, ArgumentsAgree
    <2> QED BY <2>1, <2>2, <2>3
  <1> QED BY <1>1, <1>2, <1>3, <1>4, StepCases

LEMMA BuildStep == IInv /\ [Next]_vars => BuildAgrees'
  <1> SUFFICES ASSUME IInv, [Next]_vars PROVE BuildAgrees'
    OBVIOUS
  <1> USE DEF IInv
  <1>1. CASE pc' \in {"idle", "prepare", "identity", "request", "gate", "intend", "post",
                      "accepted", "wait", "unpublish", "reload"}
    BY <1>1 DEF BuildAgrees
  <1>2. CASE Bystanders /\ UNCHANGED <<job, pc>>
    <2>1. UNCHANGED <<assets, webroot>>
      BY <1>2 DEF Bystanders, MigrateLegacy, Boot, helper, vars
    <2>2. \A m \in Machines : legacy[m] = None => legacy'[m] = None
      BY <1>2 DEF Bystanders, MigrateLegacy, Boot, helper, vars, TypeOK
    <2> QED BY <1>2, <2>1, <2>2 DEF BuildAgrees
  <1>3. CASE Prepare /\ Advances /\ pc' \in {"remove", "stage"}
    <2>1. ~PrepareRefused /\ (IF Rebuild THEN pc' = "remove" ELSE pc' = "stage")
      BY <1>3, FlowKeeps DEF Prepare, Goto, Fails
    <2>2. UNCHANGED <<assets, legacy>>
      BY <1>3 DEF Prepare, helper
    <2>3. CASE Rebuild
      BY <2>1, <2>2, <2>3 DEF PrepareRefused, BuildAgrees
    <2>4. CASE ~Rebuild
      BY <1>3, <2>1, <2>2, <2>4 DEF Rebuild, Advances, BuildAgrees
    <2> QED BY <2>3, <2>4
  <1>4. CASE RemoveAssets /\ Advances /\ pc' = "build"
    <2>1. assets' = NoFiles
      BY <1>4, FlowKeeps DEF RemoveAssets, Fails
    <2> QED BY <1>4, <2>1 DEF NoFiles, BuildAgrees
  <1>5. CASE pc = "build" /\ BuildFiles /\ Advances /\ pc' = "record"
    <2> DEFINE new == [rev |-> job.rev, n |-> builds + 1]
    <2>1. assets' = [assets EXCEPT !.files = new, !.kubeconfig = new]
      BY <1>5, FlowKeeps DEF BuildFiles, Fails
    <2>2. new.rev = job.rev /\ new # None
      <3>1. new \in Builds
        BY <1>5, BoundsAssumption DEF BuildFiles, ArgumentsAgree, TypeOK, Builds
      <3> QED BY <3>1, NoneAssumption
    <2>3. assets.marker = None
      BY <1>5 DEF BuildAgrees
    <2> HIDE DEF new
    <2>4. /\ assets'.marker = None /\ assets'.files = new /\ assets'.kubeconfig = new
          /\ job'.rev = job.rev
      BY <1>5, <2>1, <2>3 DEF TypeOK, Advances
    <2> QED BY <1>5, <2>2, <2>4 DEF BuildAgrees
  <1>6. CASE pc = "record" /\ RecordIdentity /\ Advances /\ pc' = "stage"
    <2>1. assets'.marker = job.rev /\ assets'.files = assets.files
      BY <1>6 DEF RecordIdentity, TypeOK
    <2> QED BY <1>6, <2>1 DEF Advances, BuildAgrees
  <1>7. CASE pc = "stage" /\ StageFiles /\ Advances /\ pc' = "publish"
    <2>1. webroot' = assets.files /\ UNCHANGED assets
      BY <1>7, FlowKeeps DEF StageFiles, Fails, Closes
    <2>2. job.rev # None
      BY <1>7, RevisionsAssumption DEF ArgumentsAgree
    <2> QED BY <1>7, <2>1, <2>2 DEF BuildAgrees, AssetsAgree, Advances
  <1> QED BY <1>1, <1>2, <1>3, <1>4, <1>5, <1>6, <1>7, StepCases
          DEF Beginning, Tasks, Fails, Closes

\* A running publication is left alone between its readiness checks and the request.
LEMMA PublicationStep == IInv /\ [Next]_vars => PublicationAgrees'
  <1> SUFFICES ASSUME IInv, [Next]_vars PROVE PublicationAgrees'
    OBVIOUS
  <1> USE DEF IInv
  <1>1. CASE pc' \notin {"identity", "request", "gate", "intend", "post", "accepted", "wait"}
    BY <1>1 DEF PublicationAgrees
  <1>2. CASE Beginning
    BY <1>2 DEF Beginning, PublicationAgrees
  <1>3. CASE Bystanders /\ UNCHANGED <<job, pc>>
    <2>1. UNCHANGED <<assets, webroot, listening>>
      BY <1>3 DEF Bystanders, MigrateLegacy, Boot, helper, vars
    <2> QED BY <1>3, <2>1 DEF PublicationAgrees, Publishes, Served
  <1>4. CASE pc = "publish" /\ Publish /\ Advances /\ pc' = "identity"
    <2>1. UNCHANGED <<assets, webroot>>
      BY <1>4 DEF Publish
    <2>2. listening' = TRUE
      BY <1>4, FlowKeeps DEF Publish, Fails, Closes
    <2>3. webroot # None /\ webroot.rev = assets.marker
      BY <1>4 DEF BuildAgrees
    <2>4. Publishes(assets.marker)'
      BY <2>1, <2>2, <2>3 DEF Publishes, Served
    <2> QED BY <1>4, <2>4 DEF PublicationAgrees
  <1>5. CASE /\ pc = "identity" /\ ReadIdentity /\ KeepsArguments /\ pc' = "request"
             /\ assets.marker # None /\ job'.identity = assets.marker
    <2>1. UNCHANGED <<assets, webroot, listening>>
      BY <1>5 DEF ReadIdentity, helper
    <2>2. job'.mode = job.mode /\ assets.marker \in Revisions
      BY <1>5 DEF KeepsArguments, TypeOK
    <2> QED BY <1>5, <2>1, <2>2 DEF PublicationAgrees, Publishes, Served
  <1>6. CASE /\ pc \in {"request", "gate", "intend", "post", "accepted"}
             /\ DecideRequest \/ Gate \/ RecordIntent \/ PostRebuild \/ RecordAccepted
             /\ Advances /\ pc' \in {"gate", "intend", "post", "accepted", "wait"}
             /\ pc = "request" => pc' \in {"gate", "wait"}
             /\ pc \in {"post", "accepted"} => pc' \in {"accepted", "wait"}
    <2>1. UNCHANGED <<assets, webroot, listening>>
      BY <1>6 DEF DecideRequest, Gate, RecordIntent, PostRebuild, RecordAccepted, helper
    <2>2. pc = "request" /\ pc' = "gate" => job.mode = "fresh"
      BY <1>6, ArgumentsStep DEF ArgumentsAgree, Advances
    <2> QED BY <1>6, <2>1, <2>2 DEF PublicationAgrees, Publishes, Served, Advances
  <1> QED BY <1>1, <1>2, <1>3, <1>4, <1>5, <1>6, StepCases DEF Tasks, Fails, Closes

LEMMA RequestStep == IInv /\ [Next]_vars => RequestAgrees'
  <1> SUFFICES ASSUME IInv, [Next]_vars PROVE RequestAgrees'
    OBVIOUS
  <1> USE DEF IInv
  <1> DEFINE m == job.machine
  <1>1. CASE pc' \notin {"gate", "intend", "post", "accepted", "wait"}
    BY <1>1 DEF RequestAgrees
  <1>2. CASE Bystanders /\ UNCHANGED <<job, pc>> /\ pc # "idle"
    <2>1. UNCHANGED <<journal, accepted, rebuilds>>
      BY <1>2 DEF Bystanders, MigrateLegacy, Boot, helper, provider, vars
    <2> QED BY <1>2, <2>1 DEF RequestAgrees
  <1>3. CASE pc = "request" /\ DecideRequest /\ Advances /\ pc' \in {"wait", "gate"}
    <2>1. /\ ~RequestRefused
          /\ IF RequestedAlready THEN pc' = "wait" ELSE pc' = "gate"
      BY <1>3, FlowKeeps DEF DecideRequest, Goto, Fails
    <2>2. UNCHANGED <<journal, accepted, rebuilds, job>>
      BY <1>3 DEF DecideRequest, helper, provider, Advances
    <2>3. CASE RequestedAlready
      BY <2>1, <2>2, <2>3 DEF RequestedAlready, RequestAgrees
    <2>4. CASE ~RequestedAlready
      <3>1. m \in Machines /\ job.identity \in Revisions
        BY <1>3 DEF ArgumentsAgree, PublicationAgrees
      <3>2. SUFFICES /\ rebuilds[m] # 0 => job.existing \/ job.retry
                     /\ accepted[m] = job.identity => job.retry
        BY <2>1, <2>2, <2>4 DEF RequestAgrees
      <3>3. SUFFICES ASSUME accepted[m] # None, ~job.retry
                     PROVE  job.existing /\ accepted[m] # job.identity
        BY <3>1, RevisionsAssumption DEF ProviderAgrees
      <3>4. Record(m) = journal[m] /\ journal[m] # None
        BY <2>1, <3>1, <3>3 DEF RequestRefused, JournalCoversProvider, Record
      <3>5. journal[m] \in Requests /\ journal[m].state = "requested"
        BY <2>1, <3>1, <3>3, <3>4 DEF RequestRefused, Ambiguous, TypeOK, Requests
      <3>6. journal[m].identity = accepted[m]
        BY <3>1, <3>4, <3>5 DEF JournalCoversProvider
      <3>7. accepted[m] # job.identity
        BY <2>4, <3>5, <3>6 DEF RequestedAlready, Requests
      <3> QED BY <2>1, <3>4, <3>6, <3>7 DEF RequestRefused
    <2> QED BY <2>3, <2>4
  <1>4. CASE pc = "gate" /\ Gate /\ Advances /\ pc' = "intend"
    <2>1. UNCHANGED <<journal, accepted, rebuilds>>
      BY <1>4 DEF Gate, helper, provider
    <2> QED BY <1>4, <2>1 DEF RequestAgrees, Advances
  <1>5. CASE pc = "intend" /\ RecordIntent /\ Advances /\ pc' = "post"
    <2>1. UNCHANGED <<accepted, rebuilds, job>> /\ m \in Machines
      BY <1>5 DEF RecordIntent, Advances, ArgumentsAgree
    <2>2. journal'[m] = [identity |-> job.identity, state |-> "sending"]
      BY <1>5, <2>1 DEF RecordIntent, TypeOK
    <2> QED BY <1>5, <2>1, <2>2 DEF RequestAgrees
  <1>6. CASE pc = "post" /\ PostRebuild /\ Advances /\ pc' = "accepted"
    <2>1. Accept(job.machine, job.identity) /\ m \in Machines
      BY <1>6, FlowKeeps DEF PostRebuild, Fails, ArgumentsAgree
    <2>2. accepted'[m] = job.identity
      BY <2>1 DEF Accept, TypeOK
    <2> QED BY <1>6, <2>2 DEF RequestAgrees, Advances
  <1>7. CASE pc = "accepted" /\ RecordAccepted /\ Advances /\ pc' = "wait"
    <2>1. m \in Machines
      BY <1>7 DEF ArgumentsAgree
    <2>2. journal'[m] = [identity |-> job.identity, state |-> "requested"]
      BY <1>7, <2>1 DEF RecordAccepted, TypeOK
    <2> QED BY <1>7, <2>2 DEF RequestAgrees, Advances
  <1> QED BY <1>1, <1>2, <1>3, <1>4, <1>5, <1>6, <1>7, StepCases
          DEF Beginning, Tasks, Fails, Closes

\* The network proof closes the publication only if no record is left, and then
\* no machine is still to boot.
LEMMA NoIntentNoPending == IInv /\ ActiveIntents = {} => pending = {}
  <1> SUFFICES ASSUME IInv, ActiveIntents = {}, NEW m \in pending PROVE FALSE
    OBVIOUS
  <1> USE DEF IInv
  <1>1. m \in Machines /\ accepted[m] # None
    BY DEF TypeOK, ProviderAgrees
  <1>2. journal[m] # None \/ legacy[m] # None
    BY <1>1 DEF JournalCoversProvider, Record
  <1> QED BY <1>1, <1>2 DEF ActiveIntents

\* An installation that ends well waited for the build that its request named.
LEMMA WaitIsInstalled ==
    ASSUME IInv, Wait, pc' = "unpublish"
    PROVE  LET m == job.machine IN
           /\ job.mode \in {"fresh", "resume"} /\ job.identity \in Revisions
           /\ m \notin pending
           /\ installed[m] # None /\ installed[m].rev = accepted[m]
           /\ journal[m] = [identity |-> job.identity, state |-> "requested"]
  <1> USE DEF IInv
  <1> DEFINE m == job.machine
  <1>1. assets.kubeconfig # None /\ installed[m] = assets.kubeconfig /\ pc = "wait"
    BY FlowKeeps DEF Wait, Fails
  <1>2. m \in Machines /\ job.mode \in {"fresh", "resume"}
    BY <1>1 DEF ArgumentsAgree
  <1>3. job.identity = assets.marker /\ job.identity \in Revisions
    BY <1>1 DEF PublicationAgrees
  <1>4. installed[m].rev = job.identity
    BY <1>1, <1>3, RevisionsAssumption DEF AssetsAgree
  <1>5. journal[m] = [identity |-> job.identity, state |-> "requested"]
    BY <1>1 DEF RequestAgrees
  <1>6. journal[m] # None
    <2>1. journal[m] \in Requests
      BY <1>3, <1>5 DEF Requests
    <2> QED BY <2>1, NoneAssumption
  <1>7. accepted[m] = job.identity
    BY <1>2, <1>5, <1>6 DEF JournalCoversProvider, Record
  <1>8. m \notin pending
    BY <1>1, <1>2 DEF ProviderAgrees
  <1> QED BY <1>1, <1>2, <1>3, <1>4, <1>5, <1>7, <1>8

LEMMA ClosingStep == IInv /\ [Next]_vars => ClosingAgrees'
  <1> SUFFICES ASSUME IInv, [Next]_vars PROVE ClosingAgrees'
    OBVIOUS
  <1> USE DEF IInv
  <1>1. CASE Beginning
    BY <1>1 DEF Beginning, ClosingAgrees
  <1>2. CASE Bystanders /\ UNCHANGED <<job, pc>>
    <2> DEFINE m == job.machine
    <2>1. pending' \subseteq pending /\ UNCHANGED accepted
      BY <1>2 DEF Bystanders, MigrateLegacy, Boot, provider, vars
    <2>2. m \in Machines \ pending => installed'[m] = installed[m]
      BY <1>2 DEF Bystanders, MigrateLegacy, Boot, vars, TypeOK
    <2>3. m \in Machines /\ journal[m] # None => journal'[m] = journal[m]
      BY <1>2 DEF Bystanders, MigrateLegacy, Boot, helper, vars, TypeOK
    <2>4. ASSUME job.identity \in Revisions
          PROVE  [identity |-> job.identity, state |-> "requested"] # None
      <3>1. [identity |-> job.identity, state |-> "requested"] \in Requests
        BY <2>4 DEF Requests
      <3> QED BY <3>1, NoneAssumption
    <2> QED BY <1>2, <2>1, <2>2, <2>3, <2>4 DEF ClosingAgrees, ArgumentsAgree
  <1>3. CASE Closes("done") /\ pc = "wait" /\ Wait
    <2>1. UNCHANGED <<journal, accepted, pending, installed>>
      BY <1>3 DEF Wait, helper, provider
    <2>2. pc' = "unpublish"
      BY <1>3 DEF Closes
    <2> HIDE DEF IInv
    <2>3. /\ job.mode \in {"fresh", "resume"} /\ job.identity \in Revisions
          /\ job.machine \notin pending
          /\ installed[job.machine] # None
          /\ installed[job.machine].rev = accepted[job.machine]
          /\ journal[job.machine] = [identity |-> job.identity, state |-> "requested"]
      BY <1>3, <2>2, WaitIsInstalled
    <2>4. job.result # "PASS"
      BY <1>3 DEF IInv, ClosingAgrees
    <2> QED BY <1>3, <2>1, <2>3, <2>4 DEF Closes, KeepsArguments, ClosingAgrees
  <1>4. CASE Closes("gate") /\ pc = "gate" /\ Gate
    <2>1. ActiveIntents = {} /\ UNCHANGED pending
      BY <1>4, FlowKeeps DEF Gate, Goto, Fails, Closes, provider
    <2>2. pending = {}
      BY <2>1, NoIntentNoPending
    <2> QED BY <1>4, <2>1, <2>2 DEF Closes, KeepsArguments, ClosingAgrees
  <1>5. CASE Closes("rescue") /\ pc \in {"stage", "publish"}
    BY <1>5 DEF Closes, KeepsArguments, ClosingAgrees
  <1>6. CASE \/ Interrupt /\ Fails
             \/ pc = "unpublish" /\ Unpublish
                  /\ (Fails \/ (Advances /\ pc' = "reload"))
             \/ pc = "reload" /\ Reload /\ KeepsArguments /\ pc' = "idle"
                  /\ job'.identity = job.identity /\ job'.closing = job.closing
                  /\ job'.result = IF job.closing = "done" THEN "PASS" ELSE "FAIL"
    <2>1. UNCHANGED <<journal, accepted, pending, installed>>
      BY <1>6 DEF Interrupt, Unpublish, Reload, helper, provider
    <2> QED BY <1>6, <2>1 DEF Interrupt, Fails, Advances, KeepsArguments, ClosingAgrees
  <1>7. CASE /\ pc \notin {"idle", "unpublish", "reload"}
             /\ job'.closing = job.closing
             /\ job'.result \in {job.result, "FAIL"}
    BY <1>7 DEF ClosingAgrees
  <1> QED
    <2>1. CASE Tasks
      BY <1>3, <1>4, <1>5, <1>6, <1>7, <2>1 DEF Tasks, Fails, Advances
    <2> QED BY <1>1, <1>2, <1>6, <2>1, StepCases

LEMMA InvStep == IInv /\ [Next]_vars => IInv'
  BY TypeStep, JournalStep, AssetsStep, ProviderStep, ArgumentsStep, BuildStep,
     PublicationStep, RequestStep, ClosingStep DEF IInv

---------------------------------------------------------------------------
(* Theorems *)

\* Every reachable state is of its type.
THEOREM TypeCorrect == Spec => []TypeOK
  <1>1. IInv => TypeOK
    BY DEF IInv
  <1> QED BY <1>1, InvInit, InvStep, PTL DEF Spec

\* Every reinstall that the provider accepted is on record, and a record that says
\* "requested" names the revision that was accepted last, through any sequence of
\* interrupted invocations (reinstall.yml:110-154, prepare.yml:99-145).
THEOREM JournalIsComplete == Spec => []JournalCoversProvider
  <1>1. IInv => JournalCoversProvider
    BY DEF IInv
  <1> QED BY <1>1, InvInit, InvStep, PTL DEF Spec

\* An installation reported as done is on the machine, and is the one its accepted
\* request named (install_drive/tasks/main.yml:100-144).
THEOREM SuccessIsReal == Spec => []SuccessIsInstalled
  <1>1. IInv => SuccessIsInstalled
    <2> SUFFICES ASSUME IInv, job.result = "PASS", job.mode # "stop"
                 PROVE  LET m == job.machine IN
                        /\ m \notin pending
                        /\ installed[m] # None /\ installed[m].rev = accepted[m]
                        /\ journal[m] = [identity |-> job.identity, state |-> "requested"]
      BY DEF SuccessIsInstalled
    <2> QED BY DEF IInv, ClosingAgrees
  <1> QED BY <1>1, InvInit, InvStep, PTL DEF Spec

\* A step that has a machine erased again is a request of a fresh installation.
LEMMA OnlyPostErases ==
    ASSUME IInv, [Next]_vars, NEW m \in Machines, rebuilds'[m] # rebuilds[m]
    PROVE  /\ pc = "post" /\ m = job.machine
           /\ accepted'[m] = job.identity
           /\ UNCHANGED <<webroot, listening>>
  <1>1. Accept(job.machine, job.identity) /\ PostRebuild
    BY DEF Next, Task, vars, provider, StartFreshInstall, StartResumeInstall, StartPxeStop,
         Begin, Interrupt, Prepare, RemoveAssets, BuildFiles, RecordIdentity, StageFiles,
         Publish, Unpublish, Reload, ReadIdentity, DecideRequest, Gate, RecordIntent,
         PostRebuild, RecordAccepted, Wait, MigrateLegacy, Boot
  <1>2. m = job.machine
    BY <1>1 DEF Accept, IInv, TypeOK
  <1>3. accepted'[m] = job.identity
    BY <1>1, <1>2 DEF Accept, IInv, TypeOK
  <1> QED BY <1>1, <1>2, <1>3 DEF PostRebuild, helper

\* No machine is erased again without the operator's consent, nor for the revision
\* it was erased for last without a retry (reinstall.yml:53-80).
THEOREM NoSilentRepeat == Spec => RepeatNeedsConsent
  <1> DEFINE Consented ==
        \A m \in Machines :
          rebuilds'[m] # rebuilds[m] =>
            /\ job.mode = "fresh" /\ m = job.machine
            /\ rebuilds[m] # 0 => job.existing \/ job.retry
            /\ accepted[m] = accepted'[m] => job.retry
  <1>1. IInv /\ [Next]_vars => [Consented]_vars
    <2> SUFFICES ASSUME IInv, [Next]_vars, NEW m \in Machines, rebuilds'[m] # rebuilds[m]
                 PROVE  /\ job.mode = "fresh" /\ m = job.machine
                        /\ rebuilds[m] # 0 => job.existing \/ job.retry
                        /\ accepted[m] = accepted'[m] => job.retry
      OBVIOUS
    <2> QED BY OnlyPostErases DEF IInv, ArgumentsAgree, RequestAgrees
  <1> QED BY <1>1, InvInit, InvStep, PTL DEF Spec, RepeatNeedsConsent

\* What the provider is asked to install is what the endpoint serves at that
\* moment (prepare.yml:84-90, reinstall.yml:110-145).
THEOREM RequestIsServed == Spec => PostedIsServed
  <1> DEFINE ServedAtPost ==
        \A m \in Machines :
          rebuilds'[m] # rebuilds[m] => Served # None /\ Served.rev = accepted'[m]
  <1>1. IInv /\ [Next]_vars => [ServedAtPost]_vars
    <2> SUFFICES ASSUME IInv, [Next]_vars, NEW m \in Machines, rebuilds'[m] # rebuilds[m]
                 PROVE  Served # None /\ Served.rev = accepted'[m]
      OBVIOUS
    <2>1. pc = "post" /\ accepted'[m] = job.identity
      BY OnlyPostErases
    <2> QED BY <2>1 DEF IInv, PublicationAgrees, Publishes
  <1> QED BY <1>1, InvInit, InvStep, PTL DEF Spec, PostedIsServed

\* A failed network proof never closes an endpoint from which an accepted machine
\* has still to boot (private_link_failure.yml:21-46).
THEOREM GateIsSafe == Spec => GateKeepsPublication
  <1>1. IInv /\ [Next]_vars => [job.closing = "gate" /\ Served' # Served => pending = {}]_vars
    <2> SUFFICES ASSUME IInv, [Next]_vars, job.closing = "gate", Served' # Served
                 PROVE  pending = {}
      OBVIOUS
    <2>1. CASE pc # "idle"
      BY <2>1 DEF IInv, ClosingAgrees
    <2>2. CASE pc = "idle"
      <3>1. UNCHANGED <<webroot, listening>>
        BY <2>2, StepCases DEF IInv, Beginning, Tasks, Interrupt, Bystanders, MigrateLegacy,
             Boot, helper, vars
      <3> QED BY <3>1 DEF Served
    <2> QED BY <2>1, <2>2
  <1> QED BY <1>1, InvInit, InvStep, PTL DEF Spec, GateKeepsPublication

---------------------------------------------------------------------------
(* The ledger that the journal implements *)

\* What a job knows of the record and of the attempt that it announces: consent to
\* a retry holds until its request, which is the next one that is announced.
Confirmed(m) == Ambiguous(Record(m)) => attempt[m] # "accepted"

LedgerAgrees == LET m == job.machine IN
    /\ pc \notin {"idle", "unpublish", "reload", "post", "accepted", "wait"} /\ job.retry =>
         \A x \in Machines : Confirmed(x)
    /\ pc \in {"gate", "intend"} =>
         /\ Record(m) # [identity |-> job.identity, state |-> "requested"]
         /\ Confirmed(m)
    /\ pc = "post" => attempt[m] = "none"
    /\ pc = "accepted" => /\ attempt[m] = "accepted"
                          /\ journal[m] = [identity |-> job.identity, state |-> "sending"]

LInv == IInv /\ LedgerAgrees

ledgerVars == <<journal, legacy, attempt, accepted, rebuilds>>

\* The steps that neither write a record nor ask the provider.
LEMMA LedgerFrame ==
    ASSUME [Next]_vars
    PROVE  \/ UNCHANGED ledgerVars
           \/ RemoveAssets \/ RecordIntent \/ PostRebuild \/ RecordAccepted
           \/ \E m \in Machines : MigrateLegacy(m)
  BY DEF ledgerVars, Next, Task, vars, helper, provider, StartFreshInstall,
     StartResumeInstall, StartPxeStop, Begin, Interrupt, Prepare, BuildFiles,
     RecordIdentity, StageFiles, Publish, Unpublish, Reload, ReadIdentity, DecideRequest,
     Gate, Wait, Boot

\* Moving a record and removing the assets leave every machine its record.
LEMMA RecordsKept ==
    ASSUME IInv, RemoveAssets \/ \E m \in Machines : MigrateLegacy(m), NEW x \in Machines
    PROVE  Record(x)' = Record(x) /\ UNCHANGED provider
  <1>1. CASE RemoveAssets
    <2>1. legacy[x] = None /\ legacy'[x] = None /\ UNCHANGED <<journal, provider>>
      BY <1>1 DEF RemoveAssets, IInv, BuildAgrees
    <2> QED BY <2>1 DEF Record
  <1>2. CASE \E m \in Machines : MigrateLegacy(m)
    BY <1>2 DEF MigrateLegacy, IInv, TypeOK, Record
  <1> QED BY <1>1, <1>2

\* Every step of the job is one of its tasks, so its arguments say what it may
\* have found: the answers of a retry were given before the job began.
LEMMA ConfirmedStep ==
    ASSUME LInv, [Next]_vars, job'.retry,
           pc' \notin {"idle", "unpublish", "reload", "post", "accepted", "wait"},
           NEW x \in Machines
    PROVE  Confirmed(x)'
  <1> USE DEF LInv, IInv
  <1>1. CASE StartFreshInstall
    <2>1. UNCHANGED ledgerVars
      BY <1>1 DEF StartFreshInstall, Begin, ledgerVars, helper, provider
    <2>2. OperatorConfirmed
      <3> PICK m \in Machines, retry, existing \in BOOLEAN : \E i \in RevisionsOf[m] :
               /\ retry => OperatorConfirmed
               /\ Begin([NoJob EXCEPT !.mode = "fresh", !.machine = m, !.rev = i,
                                      !.retry = retry, !.existing = existing], "prepare")
        BY <1>1 DEF StartFreshInstall
      <3> PICK i \in RevisionsOf[m] :
               /\ retry => OperatorConfirmed
               /\ Begin([NoJob EXCEPT !.mode = "fresh", !.machine = m, !.rev = i,
                                      !.retry = retry, !.existing = existing], "prepare")
        OBVIOUS
      <3>1. job'.retry = retry
        BY DEF Begin, NoJob
      <3> QED BY <3>1
    <2> QED BY <2>1, <2>2 DEF OperatorConfirmed, Confirmed, Record, Ambiguous, ledgerVars
  <1>2. CASE StartResumeInstall \/ StartPxeStop
    BY <1>2 DEF StartResumeInstall, StartPxeStop, Begin, NoJob
  <1>3. CASE ~StartFreshInstall /\ ~StartResumeInstall /\ ~StartPxeStop
    <2>1. /\ job'.retry = job.retry
          /\ pc \notin {"idle", "unpublish", "reload", "post", "accepted", "wait"}
          /\ ~RecordIntent
      <3>1. Tasks \/ (Interrupt /\ Fails) \/ (Bystanders /\ UNCHANGED <<job, pc>>)
        BY <1>3, StepCases DEF Beginning
      <3>2. ~RecordIntent
        BY DEF RecordIntent, Goto
      <3> QED BY <3>1, <3>2 DEF Tasks, Fails, Closes, KeepsArguments, Advances
    <2>2. Confirmed(x)
      BY <2>1 DEF LedgerAgrees
    <2>3. CASE UNCHANGED ledgerVars
      BY <2>2, <2>3 DEF Confirmed, Record, Ambiguous, ledgerVars
    <2>4. CASE RemoveAssets \/ \E m \in Machines : MigrateLegacy(m)
      BY <2>2, <2>4, RecordsKept DEF Confirmed, Ambiguous, provider
    <2>5. ~RecordIntent /\ ~PostRebuild /\ ~RecordAccepted
      BY <2>1 DEF PostRebuild, RecordAccepted
    <2> QED BY <2>3, <2>4, <2>5, LedgerFrame
  <1> QED BY <1>1, <1>2, <1>3

\* A request that was not refused is neither on record nor waiting for an answer.
LEMMA DecidedConfirmed ==
    ASSUME LInv, pc = "request", ~RequestRefused, ~RequestedAlready
    PROVE  LET m == job.machine IN
           /\ Record(m) # [identity |-> job.identity, state |-> "requested"]
           /\ Confirmed(m)
  <1> DEFINE m == job.machine
  <1>1. m \in Machines /\ legacy[m] = None
    BY DEF LInv, IInv, ArgumentsAgree, RequestRefused
  <1>2. Record(m) = journal[m]
    BY <1>1 DEF Record
  <1>3. Ambiguous(journal[m]) => job.retry
    BY DEF RequestRefused
  <1>4. Confirmed(m)
    BY <1>1, <1>2, <1>3 DEF LInv, LedgerAgrees, Confirmed
  <1> QED BY <1>2, <1>4 DEF RequestedAlready

LEMMA LedgerStep == LInv /\ [Next]_vars => LInv'
  <1> SUFFICES ASSUME LInv, [Next]_vars PROVE LedgerAgrees'
    BY InvStep DEF LInv
  <1> USE DEF LInv, IInv
  <1> DEFINE m == job.machine
  <1>1. pc' \notin {"idle", "unpublish", "reload", "post", "accepted", "wait"} /\ job'.retry
          => \A x \in Machines : Confirmed(x)'
    BY ConfirmedStep
  <1>2. CASE pc' \notin {"gate", "intend", "post", "accepted"}
    BY <1>1, <1>2 DEF LedgerAgrees
  <1>3. CASE Bystanders /\ UNCHANGED <<job, pc>> /\ pc # "idle"
    <2>1. UNCHANGED ledgerVars
      BY <1>3 DEF Bystanders, MigrateLegacy, Boot, helper, provider, vars, ledgerVars
    <2> QED BY <1>3, <2>1 DEF LedgerAgrees, ledgerVars, Record, Confirmed, Ambiguous
  <1>4. CASE pc = "request" /\ DecideRequest /\ Advances /\ pc' \in {"wait", "gate"}
    <2>1. /\ ~RequestRefused
          /\ IF RequestedAlready THEN pc' = "wait" ELSE pc' = "gate"
      BY <1>4, FlowKeeps DEF DecideRequest, Goto, Fails
    <2>2. UNCHANGED <<ledgerVars, job>>
      BY <1>4 DEF DecideRequest, helper, provider, ledgerVars, Advances
    <2>3. CASE pc' = "gate"
      <3>1. /\ Record(m) # [identity |-> job.identity, state |-> "requested"]
            /\ Confirmed(m)
        BY <1>4, <2>1, <2>3, DecidedConfirmed
      <3> QED BY <1>1, <2>2, <2>3, <3>1 DEF LedgerAgrees, ledgerVars, Record, Confirmed,
              Ambiguous
    <2> QED BY <1>2, <1>4, <2>3
  <1>5. CASE pc = "gate" /\ Gate /\ Advances /\ pc' = "intend"
    <2>1. UNCHANGED <<ledgerVars, job>>
      BY <1>5 DEF Gate, helper, provider, ledgerVars, Advances
    <2> QED BY <1>1, <1>5, <2>1 DEF LedgerAgrees, ledgerVars, Record, Confirmed, Ambiguous
  <1>6. CASE pc = "intend" /\ RecordIntent /\ Advances /\ pc' = "post"
    <2>1. m \in Machines /\ UNCHANGED job
      BY <1>6 DEF Advances, ArgumentsAgree
    <2>2. attempt'[m] = "none"
      BY <1>6, <2>1 DEF RecordIntent, TypeOK
    <2> QED BY <1>6, <2>1, <2>2 DEF LedgerAgrees
  <1>7. CASE pc = "post" /\ PostRebuild /\ Advances /\ pc' = "accepted"
    <2>1. /\ Accept(job.machine, job.identity) /\ m \in Machines
          /\ UNCHANGED <<journal, job>>
      BY <1>7, FlowKeeps DEF PostRebuild, Fails, ArgumentsAgree, helper, Advances
    <2>2. attempt'[m] = "accepted"
      BY <2>1 DEF Accept, TypeOK
    <2>3. journal'[m] = [identity |-> job.identity, state |-> "sending"]
      BY <1>7, <2>1 DEF RequestAgrees
    <2> QED BY <1>7, <2>1, <2>2, <2>3 DEF LedgerAgrees
  <1> QED BY <1>2, <1>3, <1>4, <1>5, <1>6, <1>7, StepCases
          DEF Beginning, Tasks, Fails, Closes

\* The steps of a request are those of the ledger.
LEMMA AnnounceMaps == LInv /\ RecordIntent => Ledger!Next
  <1> SUFFICES ASSUME LInv, RecordIntent PROVE Ledger!Next
    OBVIOUS
  <1> DEFINE m == job.machine
             new == [identity |-> job.identity, state |-> "sending"]
             record == [x \in Machines |-> Record(x)]
  <1>1. m \in Machines /\ job.identity \in Revisions /\ pc = "intend"
    BY DEF RecordIntent, LInv, IInv, ArgumentsAgree, PublicationAgrees
  <1>2. /\ journal' = [journal EXCEPT ![m] = new]
        /\ attempt' = [attempt EXCEPT ![m] = "none"]
        /\ UNCHANGED <<legacy, accepted, rebuilds>>
    BY DEF RecordIntent
  <1>3. new # None
    BY <1>1, NoneAssumption DEF Requests
  <1>4. record' = [record EXCEPT ![m] = new]
    BY <1>1, <1>2, <1>3 DEF LInv, IInv, TypeOK, Record
  <1>5. record[m] # Ledger!Requested(job.identity) /\ (Ledger!Open(m) => attempt[m] # "accepted")
    BY <1>1 DEF LInv, LedgerAgrees, Confirmed, Ambiguous, Ledger!Requested, Ledger!Open
  <1>6. Ledger!Announce(m, job.identity)
    BY <1>2, <1>4, <1>5 DEF Ledger!Announce, Ledger!Sending
  <1> QED BY <1>1, <1>6 DEF Ledger!Next

LEMMA PostMaps == LInv /\ PostRebuild => Ledger!Next
  <1> SUFFICES ASSUME LInv, PostRebuild PROVE Ledger!Next
    OBVIOUS
  <1> DEFINE m == job.machine
             record == [x \in Machines |-> Record(x)]
  <1>1. /\ m \in Machines /\ attempt[m] = "none"
        /\ journal[m] = [identity |-> job.identity, state |-> "sending"]
        /\ job.identity \in Revisions
    BY DEF PostRebuild, LInv, LedgerAgrees, IInv, ArgumentsAgree, RequestAgrees,
           PublicationAgrees
  <1>2. journal[m] # None
    BY <1>1, NoneAssumption DEF Requests
  <1>3. record[m] = [identity |-> job.identity, state |-> "sending"] /\ Ledger!Open(m)
    BY <1>1, <1>2 DEF Record, Ledger!Open
  <1>4. UNCHANGED <<journal, legacy>>
    BY DEF PostRebuild, helper
  <1>5. UNCHANGED record
    BY <1>4 DEF Record
  <1>6. CASE Accept(m, job.identity)
    <2>1. /\ attempt' = [attempt EXCEPT ![m] = "accepted"]
          /\ accepted' = [accepted EXCEPT ![m] = record[m].identity]
          /\ rebuilds' = [rebuilds EXCEPT ![m] = @ + 1]
      <3>1. record[m].identity = job.identity
        BY <1>3
      <3> HIDE DEF record
      <3> QED BY <1>6, <3>1 DEF Accept
    <2>2. Ledger!Erase(m)
      BY <1>1, <1>3, <1>5, <2>1 DEF Ledger!Erase
    <2> QED BY <1>1, <2>2 DEF Ledger!Next
  <1>7. CASE ~Accept(m, job.identity)
    BY <1>1, <1>3, <1>5, <1>7 DEF PostRebuild, Ledger!Refuse, Ledger!Next
  <1> QED BY <1>6, <1>7

LEMMA SettleMaps == LInv /\ RecordAccepted => Ledger!Next
  <1> SUFFICES ASSUME LInv, RecordAccepted PROVE Ledger!Next
    OBVIOUS
  <1> DEFINE m == job.machine
             new == [identity |-> job.identity, state |-> "requested"]
             record == [x \in Machines |-> Record(x)]
  <1>1. /\ m \in Machines /\ attempt[m] = "accepted" /\ accepted[m] = job.identity
        /\ journal[m] = [identity |-> job.identity, state |-> "sending"]
        /\ job.identity \in Revisions
    BY DEF RecordAccepted, LInv, LedgerAgrees, IInv, ArgumentsAgree, RequestAgrees,
           PublicationAgrees
  <1>2. journal[m] # None /\ new # None
    BY <1>1, NoneAssumption DEF Requests
  <1>3. record[m] = [identity |-> job.identity, state |-> "sending"] /\ Ledger!Open(m)
    BY <1>1, <1>2 DEF Record, Ledger!Open
  <1>4. /\ journal' = [journal EXCEPT ![m] = new]
        /\ UNCHANGED <<legacy, attempt, accepted, rebuilds>>
    BY DEF RecordAccepted, provider
  <1>5. record' = [record EXCEPT ![m] = new]
    BY <1>1, <1>2, <1>4 DEF LInv, IInv, TypeOK, Record
  <1>6. Ledger!Settle(m)
    BY <1>1, <1>3, <1>4, <1>5 DEF Ledger!Settle, Ledger!Requested
  <1> QED BY <1>1, <1>6 DEF Ledger!Next

LEMMA LedgerInit == Init => Ledger!Init
  <1> SUFFICES ASSUME Init, NEW m \in Machines
               PROVE  \/ Record(m) = None /\ Ledger!Never(m)
                      \/ \E i \in Revisions : /\ Record(m) = Ledger!Sending(i)
                                              /\ Ledger!Never(m) \/ Ledger!Once(m, i)
                      \/ \E i \in Revisions : /\ Record(m) = Ledger!Requested(i)
                                              /\ Ledger!Once(m, i)
    BY DEF Ledger!Init
  <1> USE DEF Init, Record, Ledger!Never, Ledger!Once, Ledger!Sending, Ledger!Requested
  <1>1. CASE NewHelper
    BY <1>1 DEF NewHelper
  <1>2. CASE MaxBuilds > 0 /\ OldHelper
    BY <1>2, RevisionsAssumption DEF OldHelper
  <1> QED BY <1>1, <1>2

\* Whatever stops the jobs and wherever their records are kept, each announcement
\* of a reinstall is good for at most one erasure, and another takes its place only
\* once it is settled, or known not to have been accepted (reinstall.yml:53-154).
THEOREM LedgerImplemented == Spec => ImplementsLedger
  <1>1. Init => LInv
    BY InvInit DEF LInv, LedgerAgrees, Init, NoJob
  <1>2. LInv /\ [Next]_vars => [Ledger!Next]_Ledger!vars
    <2> SUFFICES ASSUME LInv, [Next]_vars PROVE [Ledger!Next]_Ledger!vars
      OBVIOUS
    <2>1. CASE UNCHANGED ledgerVars
      BY <2>1 DEF ledgerVars, Ledger!vars, Record
    <2>2. CASE RemoveAssets \/ \E m \in Machines : MigrateLegacy(m)
      <3>1. \A x \in Machines : Record(x)' = Record(x)
        BY <2>2, RecordsKept DEF LInv
      <3>2. UNCHANGED provider
        BY <2>2 DEF RemoveAssets, MigrateLegacy
      <3> QED BY <3>1, <3>2 DEF Ledger!vars, provider
    <2> QED BY <2>1, <2>2, LedgerFrame, AnnounceMaps, PostMaps, SettleMaps
  <1> QED BY <1>1, <1>2, LedgerInit, LedgerStep, PTL DEF Spec, ImplementsLedger, Ledger!Spec

=============================================================================
