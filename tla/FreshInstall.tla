---------------------------- MODULE FreshInstall ----------------------------
(***************************************************************************)
(* One bare-metal installation: ansible/up.sh with the roles pxe_serve     *)
(* (build the boot files of an input revision, publish them, close the     *)
(* publication) and install_drive (journal and request the reinstall at    *)
(* the provider, wait for the cluster).                                    *)
(*                                                                         *)
(* A job is one invocation of up.sh, or of the pxe-stop tag.  Jobs follow  *)
(* one another; each may be stopped between any two tasks, and everything  *)
(* it keeps on the helper and at the provider outlives it.  The provider   *)
(* accepts a reinstall with or without the answer reaching the job, and    *)
(* the machine boots later from whatever is published by then.             *)
(***************************************************************************)
EXTENDS Naturals, FiniteSets

CONSTANTS
    Machines,     \* provider server IDs
    Revisions,    \* digests of configurations, installer and release
    RevisionsOf,  \* RevisionsOf[m]: the input revisions that install m
    None,
    LegacyHelper, \* TRUE: the helper may predate provider_request_dir
    MaxJobs,      \* bound: invocations
    MaxBuilds     \* bound: runs of openshift-install agent create pxe-files

ASSUME RevisionsAssumption == /\ RevisionsOf \in [Machines -> SUBSET Revisions]
                              /\ None \notin Revisions
ASSUME BoundsAssumption == /\ MaxJobs \in Nat /\ MaxBuilds \in Nat
                           /\ LegacyHelper \in BOOLEAN

VARIABLES
    assets,     \* cluster_assets_dir: marker, boot files and kubeconfig
    journal,    \* provider_request_dir: one request record per machine
    legacy,     \* request records still inside cluster_assets_dir
    webroot,    \* the published copy of the boot files
    listening,  \* the nginx configuration publishes the webroot
    accepted,   \* provider: the revision of the last accepted reinstall
    attempt,    \* provider: what became of the last request it was sent
    pending,    \* provider: machines accepted but not yet netbooted
    installed,  \* the build that each machine last booted
    rebuilds,   \* provider: how many reinstalls it accepted, by machine
    builds,     \* boot file builds so far
    jobs,       \* invocations so far
    job,        \* arguments and facts of the current, or last, invocation
    pc          \* its next task

helper == <<assets, journal, legacy, webroot, listening>>
provider == <<accepted, attempt, pending, rebuilds>>
vars == <<helper, provider, installed, builds, jobs, job, pc>>

---------------------------------------------------------------------------
\* Every build makes new keys, so two builds of a revision differ.
Builds == [rev : Revisions, n : 1..MaxBuilds]
Requests == [identity : Revisions, state : {"sending", "requested"}]

ASSUME NoneAssumption == None \notin Builds \cup Requests

Labels == {"idle", "prepare", "remove", "build", "record", "stage", "publish",
           "identity", "request", "gate", "intend", "post", "accepted", "wait",
           "unpublish", "reload"}

Jobs == [mode : {"none", "fresh", "resume", "stop"},
         machine : Machines \cup {None},
         rev : Revisions \cup {None},        \* what render_configs wrote
         retry : BOOLEAN,                    \* retry_reinstall
         existing : BOOLEAN,                 \* reinstall_existing
         identity : Revisions \cup {None},   \* install_identity
         closing : {"none", "done", "rescue", "gate"},
         result : {"none", "PASS", "FAIL"}]

TypeOK == /\ assets \in [marker : Revisions \cup {None},
                         files : Builds \cup {None},
                         kubeconfig : Builds \cup {None}]
          /\ journal \in [Machines -> Requests \cup {None}]
          /\ legacy \in [Machines -> Requests \cup {None}]
          /\ webroot \in Builds \cup {None}
          /\ listening \in BOOLEAN
          /\ accepted \in [Machines -> Revisions \cup {None}]
          /\ attempt \in [Machines -> {"none", "refused", "accepted"}]
          /\ pending \subseteq Machines
          /\ installed \in [Machines -> Builds \cup {None}]
          /\ rebuilds \in [Machines -> Nat]
          /\ builds \in 0..MaxBuilds
          /\ jobs \in 0..MaxJobs
          /\ job \in Jobs
          /\ pc \in Labels

---------------------------------------------------------------------------
NoFiles == [marker |-> None, files |-> None, kubeconfig |-> None]

NoJob == [mode |-> "none", machine |-> None, rev |-> None, retry |-> FALSE,
          existing |-> FALSE, identity |-> None, closing |-> "none", result |-> "none"]

NewHelper == /\ assets = NoFiles
             /\ legacy = [m \in Machines |-> None]
             /\ webroot = None
             /\ listening = FALSE
             /\ accepted = [m \in Machines |-> None]
             /\ pending = {}
             /\ builds = 0

\* A helper of before the journals moved: its assets hold the record of one
\* request, which was accepted, or ("sending") may have been, and not yet booted.
OldHelper == \E m \in Machines, took \in BOOLEAN, s \in {"sending", "requested"} :
    \E i \in RevisionsOf[m] : LET first == [rev |-> i, n |-> 1] IN
    /\ s = "requested" => took
    /\ assets = [marker |-> i, files |-> first, kubeconfig |-> first]
    /\ legacy = [x \in Machines |-> IF x = m THEN [identity |-> i, state |-> s] ELSE None]
    /\ webroot = first
    /\ listening \in BOOLEAN
    /\ accepted = [x \in Machines |-> IF x = m /\ took THEN i ELSE None]
    /\ pending = IF took THEN {m} ELSE {}
    /\ builds = 1

Init == /\ NewHelper \/ (LegacyHelper /\ MaxBuilds > 0 /\ OldHelper)
        /\ journal = [m \in Machines |-> None]
        /\ attempt = [m \in Machines |-> IF m \in pending THEN "accepted" ELSE "none"]
        /\ rebuilds = [m \in Machines |-> IF m \in pending THEN 1 ELSE 0]
        /\ installed = [m \in Machines |-> None]
        /\ jobs = 0
        /\ job = NoJob
        /\ pc = "idle"

Served == IF listening THEN webroot ELSE None

\* The record of m's request, wherever it is kept.
Record(m) == IF journal[m] # None THEN journal[m] ELSE legacy[m]

Ambiguous(record) == record # None /\ record.state = "sending"

---------------------------------------------------------------------------
(* Flow of a job *)

Goto(label) == pc' = label /\ UNCHANGED job

Fail == pc' = "idle" /\ job' = [job EXCEPT !.result = "FAIL"]

\* Include stop_publication.yml, and end as `cause` says.
Close(cause) == pc' = "unpublish" /\ job' = [job EXCEPT !.closing = cause]

\* retry_reinstall may be set only after confirming that no ambiguous request
\* was accepted (install_drive/defaults/main.yml:6).
OperatorConfirmed == \A m \in Machines : Ambiguous(Record(m)) => attempt[m] # "accepted"

Begin(arguments, label) ==
    /\ pc = "idle" /\ jobs < MaxJobs
    /\ job' = arguments
    /\ jobs' = jobs + 1
    /\ pc' = label
    /\ UNCHANGED <<helper, provider, installed, builds>>

\* up.sh --mode fresh-install, after the node checks and the erase question.
StartFreshInstall == \E m \in Machines, retry, existing \in BOOLEAN : \E i \in RevisionsOf[m] :
    /\ retry => OperatorConfirmed
    /\ Begin([NoJob EXCEPT !.mode = "fresh", !.machine = m, !.rev = i,
                           !.retry = retry, !.existing = existing], "prepare")

\* up.sh --mode resume-install: only the drive step and pxe-stop.
StartResumeInstall == \E m \in Machines :
    Begin([NoJob EXCEPT !.mode = "resume", !.machine = m], "identity")

\* ansible-playbook site.yml --tags pxe-stop, once no accepted request needs it.
StartPxeStop == /\ pending = {}
           /\ Begin([NoJob EXCEPT !.mode = "stop", !.closing = "done"], "unpublish")

\* The operator moves a legacy record to provider_request_dir.
MigrateLegacy(m) ==
    /\ pc = "idle" /\ legacy[m] # None /\ journal[m] = None
    /\ journal' = [journal EXCEPT ![m] = legacy[m]]
    /\ legacy' = [legacy EXCEPT ![m] = None]
    /\ UNCHANGED <<assets, webroot, listening, provider, installed, builds, jobs, job, pc>>

\* The controller dies between two tasks, or a task outside the rescue of pxe_serve
\* fails: nothing is cleaned up.
Interrupt == /\ pc # "idle"
             /\ Fail
             /\ UNCHANGED <<helper, provider, installed, builds, jobs>>

---------------------------------------------------------------------------
(* pxe_serve: prepare.yml *)

\* pxe_rebuild
Rebuild == assets.marker # job.rev \/ assets.files = None

PrepareRefusedForgetful ==  \* mutant: legacy records are not looked for
    /\ Rebuild
    /\ \/ assets.kubeconfig # None /\ ~job.existing
       \/ ~job.retry /\ \E m \in Machines : Ambiguous(journal[m])
PrepareRefused ==
    /\ Rebuild
    /\ \/ assets.kubeconfig # None /\ ~job.existing
       \/ \E m \in Machines : legacy[m] # None
       \/ ~job.retry /\ \E m \in Machines : Ambiguous(journal[m])

Prepare == /\ pc = "prepare"
           /\ IF PrepareRefused THEN Fail
              ELSE Goto(IF Rebuild THEN "remove" ELSE "stage")
           /\ UNCHANGED <<helper, provider, installed, builds, jobs>>

\* Removing the directory is not atomic: stopped half-way, any part remains.
RemoveAssets ==
    /\ pc = "remove"
    /\ \/ /\ assets' = NoFiles
          /\ legacy' = [m \in Machines |-> None]
          /\ Goto("build")
       \/ /\ assets' \in [marker : {assets.marker, None}, files : {assets.files, None},
                          kubeconfig : {assets.kubeconfig, None}]
          /\ UNCHANGED legacy
          /\ Fail
    /\ UNCHANGED <<journal, webroot, listening, provider, installed, builds, jobs>>

\* openshift-install agent create pxe-files, and the check of what it wrote.
BuildFiles ==
    /\ pc = "build" /\ builds < MaxBuilds
    /\ builds' = builds + 1
    /\ LET new == [rev |-> job.rev, n |-> builds + 1] IN
       \/ /\ assets' = [assets EXCEPT !.files = new, !.kubeconfig = new]
          /\ Goto("record")
       \/ /\ \E f, k \in {new, None} : assets' = [assets EXCEPT !.files = f, !.kubeconfig = k]
          /\ Fail
    /\ UNCHANGED <<journal, legacy, webroot, listening, provider, installed, jobs>>

\* Record successful boot input identity: the last task of a rebuild.
RecordIdentity ==
    /\ pc = "record"
    /\ assets' = [assets EXCEPT !.marker = job.rev]
    /\ Goto("stage")
    /\ UNCHANGED <<journal, legacy, webroot, listening, provider, installed, builds, jobs>>

---------------------------------------------------------------------------
(* pxe_serve: main.yml and stop_publication.yml *)

\* rm -rf and cp -rf into the tokenized webroot, which nginx may be serving: half a
\* copy boots nothing.
StageFilesOnce ==  \* mutant: an existing publication is taken as current
    /\ pc = "stage"
    /\ webroot' = IF webroot = None THEN assets.files ELSE webroot
    /\ Goto("publish")
    /\ UNCHANGED <<assets, journal, legacy, listening, provider, installed, builds, jobs>>
StageFiles ==
    /\ pc = "stage"
    /\ \/ webroot' = assets.files /\ Goto("publish")
       \/ webroot' \in {webroot, None} /\ (Close("rescue") \/ Fail)
    /\ UNCHANGED <<assets, journal, legacy, listening, provider, installed, builds, jobs>>

\* Write the server block, restart nginx, and verify the published files.
Publish ==
    /\ pc = "publish"
    /\ \/ listening' = TRUE /\ Goto("identity")
       \/ listening' \in {listening, TRUE} /\ (Close("rescue") \/ Fail)
    /\ UNCHANGED <<assets, journal, legacy, webroot, provider, installed, builds, jobs>>

\* cleanup_publication.yml in stop mode removes the webroot; it may refuse.
Unpublish ==
    /\ pc = "unpublish"
    /\ \/ webroot' = None /\ Goto("reload")
       \/ UNCHANGED webroot /\ Fail
    /\ UNCHANGED <<assets, journal, legacy, listening, provider, installed, builds, jobs>>

\* Remove the nginx configuration, reload or stop nginx, end as the cause says.
Reload ==
    /\ pc = "reload"
    /\ listening' = FALSE
    /\ pc' = "idle"
    /\ job' = [job EXCEPT !.result = IF job.closing = "done" THEN "PASS" ELSE "FAIL"]
    /\ UNCHANGED <<assets, journal, legacy, webroot, provider, installed, builds, jobs>>

---------------------------------------------------------------------------
(* install_drive *)

\* Read the prepared boot input identity before any reinstall.
ReadIdentity ==
    /\ pc = "identity"
    /\ IF assets.marker = None THEN Fail
       ELSE job' = [job EXCEPT !.identity = assets.marker] /\ pc' = "request"
    /\ UNCHANGED <<helper, provider, installed, builds, jobs>>

\* This machine's accepted request for the unchanged inputs.
RequestedAlready ==
    journal[job.machine] = [identity |-> job.identity, state |-> "requested"]

RequestRefusedNever ==  \* mutant: an ambiguous request is repeated
    LET prior == journal[job.machine] IN
    \/ legacy[job.machine] # None
    \/ job.mode = "resume" /\ ~RequestedAlready
    \/ prior # None /\ prior.identity # job.identity /\ ~job.existing
RequestRefused ==
    LET prior == journal[job.machine] IN
    \/ legacy[job.machine] # None
    \/ job.mode = "resume" /\ ~RequestedAlready
    \/ Ambiguous(prior) /\ ~job.retry
    \/ prior # None /\ prior.identity # job.identity /\ ~job.existing

DecideRequest ==
    /\ pc = "request"
    /\ IF RequestRefused THEN Fail
       ELSE Goto(IF RequestedAlready THEN "wait" ELSE "gate")
    /\ UNCHANGED <<helper, provider, installed, builds, jobs>>

\* Records of any machine, in either place, whose request may need the files.
ActiveIntentsHere ==  \* mutant: only the selected machine's record counts
    {m \in {job.machine} : journal[m] # None \/ legacy[m] # None}
ActiveIntents == {m \in Machines : journal[m] # None \/ legacy[m] # None}

\* The provider identity, then the raw-host proof of the private network: both
\* look at the world, so either may fail at any time.
Gate == /\ pc = "gate"
        /\ \/ Goto("intend")
           \/ Fail
           \/ ActiveIntents = {} /\ Close("gate")
        /\ UNCHANGED <<helper, provider, installed, builds, jobs>>

RecordIntent ==
    /\ pc = "intend"
    /\ journal' = [journal EXCEPT ![job.machine] = [identity |-> job.identity, state |-> "sending"]]
    /\ attempt' = [attempt EXCEPT ![job.machine] = "none"]
    /\ Goto("post")
    /\ UNCHANGED <<assets, legacy, webroot, listening, accepted, pending, rebuilds, installed,
                   builds, jobs>>

\* The provider takes the request: the machine is erased, and netboots later.
Accept(m, i) == /\ accepted' = [accepted EXCEPT ![m] = i]
                /\ installed' = [installed EXCEPT ![m] = None]
                /\ attempt' = [attempt EXCEPT ![m] = "accepted"]
                /\ pending' = pending \cup {m}
                /\ rebuilds' = [rebuilds EXCEPT ![m] = @ + 1]

\* POST the rebuild: accepted and answered, accepted and the answer lost, or refused.
PostRebuild ==
    /\ pc = "post"
    /\ \/ Accept(job.machine, job.identity) /\ (Goto("accepted") \/ Fail)
       \/ /\ attempt' = [attempt EXCEPT ![job.machine] = "refused"]
          /\ Fail
          /\ UNCHANGED <<accepted, installed, pending, rebuilds>>
    /\ UNCHANGED <<helper, builds, jobs>>

RecordAcceptedBare ==  \* mutant: the acceptance overwrites the identity
    /\ pc = "accepted"
    /\ journal' = [journal EXCEPT ![job.machine] = [state |-> "requested"]]
    /\ Goto("wait")
    /\ UNCHANGED <<assets, legacy, webroot, listening, provider, installed, builds, jobs>>
RecordAccepted ==
    /\ pc = "accepted"
    /\ journal' = [journal EXCEPT
                      ![job.machine] = [identity |-> job.identity, state |-> "requested"]]
    /\ Goto("wait")
    /\ UNCHANGED <<assets, legacy, webroot, listening, provider, installed, builds, jobs>>

\* Poll the cluster with the kubeconfig of the assets: only the cluster whose
\* build made that kubeconfig answers it.  up.sh then runs pxe-stop.
WaitAnyCluster ==  \* mutant: whatever the machine runs is taken as the installation
    /\ pc = "wait"
    /\ installed[job.machine] # None /\ Close("done")
    /\ UNCHANGED <<helper, provider, installed, builds, jobs>>
Wait == /\ pc = "wait"
        /\ \/ /\ assets.kubeconfig # None
              /\ installed[job.machine] = assets.kubeconfig
              /\ Close("done")
           \/ Fail
        /\ UNCHANGED <<helper, provider, installed, builds, jobs>>

---------------------------------------------------------------------------
\* An accepted machine netboots what the helper publishes, and installs it.
Boot(m) == /\ m \in pending /\ Served # None
           /\ installed' = [installed EXCEPT ![m] = Served]
           /\ pending' = pending \ {m}
           /\ UNCHANGED <<helper, accepted, attempt, rebuilds, builds, jobs, job, pc>>

Task == \/ Prepare \/ RemoveAssets \/ BuildFiles \/ RecordIdentity
        \/ StageFiles \/ Publish \/ Unpublish \/ Reload
        \/ ReadIdentity \/ DecideRequest \/ Gate
        \/ RecordIntent \/ PostRebuild \/ RecordAccepted \/ Wait

Next == \/ StartFreshInstall \/ StartResumeInstall \/ StartPxeStop
        \/ Task
        \/ Interrupt
        \/ \E m \in Machines : MigrateLegacy(m) \/ Boot(m)

Spec == Init /\ [][Next]_vars

---------------------------------------------------------------------------
(* Safety *)

\* What the two places of records and the provider amount to, whatever stops the
\* jobs: a ledger in which an announcement is good for at most one erasure and is
\* settled before another takes its place (reinstall.yml:53-154).
Ledger == INSTANCE ReinstallLedger
          WITH record <- [m \in Machines |-> Record(m)], erased <- rebuilds

ImplementsLedger == Ledger!Spec

\* A record is written before the request it announces and never lost: every
\* reinstall that the provider accepted is on record, and a record that says
\* "requested" names the revision the provider accepted last.  Deleting the
\* assets, crashing between POST and answer, and changing inputs all keep this
\* (reinstall.yml:110-154, prepare.yml:99-145).
JournalCoversProvider ==
    \A m \in Machines :
        /\ accepted[m] # None => Record(m) # None
        /\ Record(m) # None /\ Record(m).state = "requested" => Record(m).identity = accepted[m]

\* A machine is never erased a second time by a mere re-run: not without
\* reinstall_existing or retry_reinstall, and not for the revision it was erased
\* for last without retry_reinstall, that is without an inspection that found an
\* attempt in between not accepted (main.yml:48, "once per input revision"); a
\* resume erases nothing.
RepeatNeedsConsent ==
    [][\A m \in Machines :
         rebuilds'[m] # rebuilds[m] =>
           /\ job.mode = "fresh" /\ m = job.machine
           /\ rebuilds[m] # 0 => job.existing \/ job.retry
           /\ accepted[m] = accepted'[m] => job.retry]_vars

\* When the provider accepts a reinstall, the endpoint already publishes boot
\* files built from exactly the revision that the journal records.
PostedIsServed ==
    [][\A m \in Machines :
         rebuilds'[m] # rebuilds[m] => Served # None /\ Served.rev = accepted'[m]]_vars

\* A failed network proof closes the publication only when no accepted machine
\* still waits to boot from it (private_link_failure.yml:21-46).
GateKeepsPublication ==
    [][job.closing = "gate" /\ Served' # Served => pending = {}]_vars

\* An installation that ends well ended on the machine: it runs the build that
\* the kept kubeconfig belongs to, of the revision that its accepted request
\* named, and no reinstall of it is outstanding to find the endpoint closed.
SuccessIsInstalled ==
    job.result = "PASS" /\ job.mode # "stop" =>
        /\ job.machine \notin pending
        /\ installed[job.machine] # None
        /\ installed[job.machine].rev = accepted[job.machine]
        /\ journal[job.machine] = [identity |-> job.identity, state |-> "requested"]

\* "explicitly set reinstall_existing=true for the disposable machines being
\* rebuilt" (prepare.yml:95): a fresh installation that regenerated the assets
\* and now waits has a reinstall under way, or the machine already runs the
\* cluster that the regenerated kubeconfig belongs to.
WaitCanSucceed ==
    pc = "wait" /\ job.mode = "fresh" /\ assets.kubeconfig # None =>
        job.machine \in pending \/ installed[job.machine] = assets.kubeconfig
=============================================================================
