--------------------------- MODULE TrusteeLabProofs ---------------------------
(***************************************************************************)
(* Theorems about TrusteeLab for any rigs, command lines, keys and number  *)
(* of stops.                                                               *)
(***************************************************************************)
EXTENDS TrusteeLab, TLAPS

(* The inductive invariant *)

\* Certificates are of rigs there have been, so another rig has none yet.
BundleUsed == rig \in used /\ files.bundle \subseteq used

\* With this chip's certificate at hand the sequence began at vcek for this rig, and what
\* the steps before the one that is due have left belongs together.
FilesBelong == rig \in files.bundle =>
    /\ Due > 3 => files.ca = rig /\ files.password = rig
    /\ Due > 4 => files.initdata = rig
    /\ Due > 5 => files.cmdline \in Lines
    /\ Due > 6 => files.generated = Expected.launch
    /\ Due > 7 /\ files.reviewed # None => files.reviewed = Expected /\ Expected \in approvals
    /\ Due > 8 /\ files.reviewed # None =>
          files.pub \in Keys /\ files.manifest = [signer |-> files.pub, rig |-> rig]

\* Within a step.
StepInv ==
    /\ pc = "password" => files.ca = rig
    /\ pc = "approve" => /\ rig \in files.bundle
                         /\ files.reviewed = [launch |-> files.generated, tcb |-> rig]
    /\ pc = "manifest" => files.pub = built
    /\ pc \in {"configuring", "env"} \/ finished =>
          rig \in files.bundle /\ files.reviewed # None
    /\ finished => pc = "idle" /\ resume = 9

\* Which call is under way, and for what.
CallInv ==
    /\ pc \notin {"bootstrap", "configuring"} => call = NoCall
    /\ pc = "bootstrap" =>
          ~call.configure /\ call.pc \notin {"rvps", "policy", "cert", "credential", "sig"}
    /\ pc = "configuring" =>
          /\ call.pc # "idle" /\ call.configure
          /\ call.hwid = rig /\ call.rvps = Expected
          /\ call.seeds = [cert |-> rig, credential |-> rig, sig |-> files.pub]

\* How far this rig's configuration is published.
Place == CASE pc = "configuring" -> call.pc
           [] pc = "env" \/ finished -> "complete"
           [] OTHER -> "idle"

Refreshed == {"recheck", "complete"}
Attached == Refreshed \cup {"refresh"}
KeySeeded == Attached \cup {"attach"}
CredentialSeeded == KeySeeded \cup {"sig"}
CertSeeded == CredentialSeeded \cup {"credential"}
PolicyPatched == CertSeeded \cup {"cert"}
ReferencesPatched == PolicyPatched \cup {"policy"}
OfflinePatched == ReferencesPatched \cup {"rvps"}

Published ==
    /\ Place \in OfflinePatched => config.offline
    /\ Place \in ReferencesPatched => config.rvps = Expected
    /\ Place \in PolicyPatched => config.policy = "pinned"
    /\ Place \in CertSeeded => secrets.cert = rig
    /\ Place \in CredentialSeeded => secrets.credential = rig
    /\ Place \in KeySeeded => secrets.sig = files.pub /\ rig \in trustee.vceks
    /\ Place \in Attached => config.attached /\ rig \in config.mounts
    /\ Place \in Refreshed => serving = config

EnvInv == finished => files.env = [node |-> rig, manifest |-> files.manifest]

\* A call is for a chip; TypeOK alone would let SeedKey put None into the Secrets.
HwidInv == call.pc # "idle" => call.hwid \in Rigs

\* What an operation takes is there.
Present == /\ pc = "approve" => files.reviewed # None
           /\ pc \in {"key", "pub", "manifest"} => built # None
           /\ pc \in {"configuring", "env"} => files.manifest # None

LabInv == /\ TypeOK /\ HwidInv /\ Present /\ PublishedWasApproved /\ ResourcesBehindPolicy
          /\ BundleUsed /\ FilesBelong /\ StepInv /\ CallInv /\ Published /\ EnvInv

---------------------------------------------------------------------------
(* Types *)

LEMMA NoCallType == NoSecrets \in Secrets /\ NoCall \in Calls
  BY DEF NoSecrets, NoCall, Secrets, Calls, CallLabels

LEMMA FirstType ==
    ASSUME NEW s \in Steps
    PROVE  First[s] \in Labels \ {"idle", "password", "approve", "key", "pub", "manifest",
                                  "configuring", "env"}
  <1>1. First[s] \in {First[i] : i \in Steps}
    OBVIOUS
  <1>2. s \in {1, 2, 3, 4, 5, 6, 7, 8, 9}
    BY DEF Steps
  <1> QED
    BY <1>1, <1>2 DEF Labels, First

LEMMA StepOfFirst == ASSUME NEW s \in Steps PROVE StepOf(First[s]) = s
  <1>1. s \in {1, 2, 3, 4, 5, 6, 7, 8, 9}
    BY DEF Steps
  <1> QED
    BY <1>1 DEF StepOf, First

LEMMA LabelsAre ==
    Labels = {"vcek", "bootstrap", "mirror", "initdata", "cmdline", "veritas", "references",
              "images", "configure", "idle", "seed", "label", "password", "approve", "key",
              "pub", "manifest", "configuring", "env"}
  <1>1. Steps = {1, 2, 3, 4, 5, 6, 7, 8, 9}
    BY DEF Steps
  <1>2. {First[s] : s \in Steps} = {"vcek", "bootstrap", "mirror", "initdata", "cmdline",
                                    "veritas", "references", "images", "configure"}
    BY <1>1 DEF First
  <1> QED
    BY <1>2 DEF Labels

LEMMA StepOfType == ASSUME NEW label \in Labels PROVE StepOf(label) \in Steps
  BY DEF StepOf, Steps

LEMMA TypeInit == Init => TypeOK
  <1> SUFFICES ASSUME Init PROVE TypeOK
    OBVIOUS
  <1>1. files \in Files
    BY DEF Init, NoFiles, Files
  <1>2. TrusteeTypeOK
    BY NoCallType
    DEF Init, TrusteeInit, TrusteeTypeOK, NoTrustee, Trustees, Generated, Configurations, Policies
  <1>3. resume \in Steps /\ pc \in Labels /\ stops \in 0..MaxStops
    BY BoundsAssumption DEF Init, Steps, Labels
  <1> QED
    BY <1>1, <1>2, <1>3 DEF Init, TypeOK

\* apply-trustee.sh and the Operator.
LEMMA ApplyType ==
    ASSUME TrusteeTypeOK, HwidInv, Apply \/ Generate \/ Rollout
    PROVE  TrusteeTypeOK' /\ HwidInv'
  <1> USE DEF objects, TrusteeTypeOK, HwidInv
  <1>1. ASSUME NEW from \in CallLabels \ {"idle"}, NEW label \in CallLabels, At(from, label)
        PROVE  call' \in Calls /\ call'.hwid \in Rigs /\ call.hwid \in Rigs
    BY <1>1 DEF At, Calls
  <1>2. CASE CheckCollateral \/ AwaitGenerated \/ Recheck
    BY <1>1, <1>2 DEF CheckCollateral, AwaitGenerated, Recheck, CallLabels
  <1>3. CASE Create
    BY <1>1, <1>3 DEF Create, CallLabels, Trustees
  <1>4. CASE PatchOffline
    BY <1>1, <1>4 DEF PatchOffline, CallLabels, Configurations
  <1>5. CASE PatchReferences
    BY <1>1, <1>5 DEF PatchReferences, CallLabels, Configurations, Calls
  <1>6. CASE PatchPolicy
    BY <1>1, <1>6 DEF PatchPolicy, CallLabels, Configurations, Policies
  <1>7. CASE SeedCert
    BY <1>1, <1>7 DEF SeedCert, CallLabels, Calls, Secrets
  <1>8. CASE SeedCredential
    BY <1>1, <1>8 DEF SeedCredential, CallLabels, Calls, Secrets
  <1>9. CASE SeedKey
    <2>1. call' \in Calls /\ call'.hwid \in Rigs /\ call.hwid \in Rigs
      BY <1>1, <1>9 DEF SeedKey, CallLabels
    <2>2. secrets' \in Secrets
      BY <1>9 DEF SeedKey, Calls, Secrets
    <2>3. trustee' \in Trustees
      BY <1>9, <2>1 DEF SeedKey, Trustees
    <2> QED
      BY <1>9, <2>1, <2>2, <2>3 DEF SeedKey
  <1>10. CASE Attach
    <2>1. call' \in Calls /\ call'.hwid \in Rigs /\ call.hwid \in Rigs
      BY <1>1, <1>10 DEF Attach, CallLabels
    <2>2. config.mounts \cup {call.hwid} \in SUBSET Rigs
      BY <2>1 DEF Configurations
    <2>3. config.attached \/ call.configure \in BOOLEAN
      BY DEF Configurations, Calls
    <2>4. config' \in Configurations
      BY <1>10, <2>2, <2>3 DEF Attach, Configurations
    <2> QED
      BY <1>10, <2>1, <2>4 DEF Attach
  <1>11. CASE Refresh
    BY <1>1, <1>11 DEF Refresh, CallLabels
  <1>12. CASE Generate \/ Rollout
    BY <1>12 DEF Generate, Rollout, Trustees
  <1> QED
    BY <1>2, <1>3, <1>4, <1>5, <1>6, <1>7, <1>8, <1>9, <1>10, <1>11, <1>12 DEF Apply

LEMMA NoneFacts ==
    /\ None \notin Rigs /\ None \notin Lines /\ None \notin Keys
    /\ None \notin Launches /\ None \notin References
    /\ None \notin Manifests /\ None \notin Environments
  BY NoneAssumption, NoFileAssumption

\* The end of an invocation keeps the types of what it resets.
LEMMA EndType ==
    ASSUME TypeOK, NEW step \in Steps, End(step)
    PROVE  /\ TrusteeTypeOK' /\ HwidInv'
           /\ resume' \in Steps /\ pc' \in Labels /\ built' \in Keys \cup {None}
           /\ rig' = rig /\ used' = used /\ labeled' = labeled
           /\ approvals' = approvals /\ finished' = finished
  <1>1. UNCHANGED <<trustee, config, secrets, serving, labeled, rig, used, approvals, finished>>
    BY DEF End, cluster, objects
  <1>2. call' = NoCall /\ NoCall.pc = "idle" /\ pc' = "idle" /\ resume' = step /\ built' = None
    BY DEF End, NoCall
  <1> QED
    BY <1>1, <1>2, NoCallType, LabelsAre DEF TypeOK, TrusteeTypeOK, HwidInv

LEMMA MissingType == ASSUME NEW step \in MissingFor(pc) PROVE step \in Steps
  BY DEF MissingFor

\* A file that an operation writes is of its type.
LEMMA FilesType ==
    ASSUME TypeOK
    PROVE  /\ [files EXCEPT !.bundle = @ \cup {rig}] \in Files
           /\ [files EXCEPT !.ca = rig] \in Files
           /\ [files EXCEPT !.password = rig] \in Files
           /\ [files EXCEPT !.initdata = files.ca] \in Files
           /\ \A line \in Lines : [files EXCEPT !.cmdline = line] \in Files
           /\ [files EXCEPT !.key = built] \in Files
           /\ [files EXCEPT !.pub = built] \in Files
           /\ [files EXCEPT !.reviewed = None] \in Files
  BY DEF TypeOK, Files

LEMMA PresentNext == TypeOK /\ Present /\ [Next]_vars => Present'
  <1> SUFFICES ASSUME TypeOK, Present, [Next]_vars PROVE Present'
    OBVIOUS
  <1>1. ASSUME UNCHANGED <<pc, files, built>> PROVE Present'
    BY <1>1 DEF Present
  <1>2. ASSUME pc' \notin {"approve", "key", "pub", "manifest", "configuring", "env"}
        PROVE  Present'
    BY <1>2 DEF Present
  <1>3. CASE (Apply \/ Operator) /\ UNCHANGED lab
    BY <1>1, <1>3 DEF lab
  <1>4. CASE \/ Collect \/ Seed \/ Bootstrapped \/ Label \/ CopyCA \/ CopyPassword
             \/ WriteInitdata \/ ReadCmdline \/ Veritas \/ Approve
    BY <1>2, <1>4 DEF Collect, Seed, Bootstrapped, Label, CopyCA, CopyPassword, WriteInitdata,
                      ReadCmdline, Veritas, Approve, Do
  <1>5. CASE CallBootstrap
    BY <1>1, <1>5 DEF CallBootstrap
  <1>6. CASE Review
    <2>1. pc' = "approve" /\ files'.reviewed = [launch |-> files.generated, tcb |-> rig]
      BY <1>6 DEF Review, Do, TypeOK, Files
    <2>2. [launch |-> files.generated, tcb |-> rig] \in References
      BY <1>6 DEF Review, TypeOK, Files, References
    <2> QED
      BY <2>1, <2>2, NoneFacts DEF Present
  <1>7. CASE Build
    <2>1. pc' = "key" /\ built' \in Keys
      BY <1>7 DEF Build, TypeOK, Files
    <2> QED
      BY <2>1, NoneFacts DEF Present
  <1>8. CASE CopyKey \/ CopyPub
    BY <1>8 DEF CopyKey, CopyPub, Do, Present
  <1>9. CASE CopyManifest \/ WriteEnv
    BY <1>2, <1>9 DEF CopyManifest, WriteEnv
  <1>10. CASE CallConfigure \/ Configured
    BY <1>10 DEF CallConfigure, Configured, Present
  <1>11. CASE Missing \/ Stop \/ Refuse
    BY <1>2, <1>11 DEF Missing, Stop, Refuse, End
  <1>12. CASE Start
    <2>1. PICK s \in 1..resume : pc' = First[s]
      BY <1>12 DEF Start
    <2>2. s \in Steps
      BY DEF Steps, TypeOK
    <2> QED
      BY <1>2, <2>1, <2>2, FirstType
  <1>13. CASE NewRig \/ ResetLab
    BY <1>2, <1>13 DEF NewRig, ResetLab
  <1>14. CASE UNCHANGED vars
    BY <1>1, <1>14 DEF vars
  <1> QED
    BY <1>3, <1>4, <1>5, <1>6, <1>7, <1>8, <1>9, <1>10, <1>11, <1>12, <1>13, <1>14
    DEF Next, Working

LEMMA TypeNext == TypeOK /\ HwidInv /\ Present /\ [Next]_vars => TypeOK' /\ HwidInv'
  <1> SUFFICES ASSUME TypeOK, HwidInv, Present, [Next]_vars PROVE TypeOK' /\ HwidInv'
    OBVIOUS
  <1> USE DEF cluster, objects
  <1>a. TrusteeTypeOK
    BY DEF TypeOK
  <1>1. CASE (Apply \/ Operator) /\ UNCHANGED lab
    <2>1. TrusteeTypeOK' /\ HwidInv'
      BY <1>1, <1>a, ApplyType DEF Operator
    <2> QED
      BY <1>1, <2>1 DEF lab, TypeOK
  <1>2. ASSUME UNCHANGED <<cluster, call>> PROVE TrusteeTypeOK' /\ HwidInv'
    BY <1>2, <1>a DEF TrusteeTypeOK, HwidInv
  <1>3. ASSUME NEW label, NEW next \in Labels, NEW new \in Files, Do(label, next, new)
        PROVE  TypeOK' /\ HwidInv'
    BY <1>2, <1>3 DEF Do, TypeOK
  <1>4. CASE Collect \/ CopyCA \/ CopyPassword \/ WriteInitdata \/ ReadCmdline
    BY <1>3, <1>4, FilesType, LabelsAre
    DEF Collect, CopyCA, CopyPassword, WriteInitdata, ReadCmdline
  <1>5. CASE Veritas
    <2>1. [initdata |-> files.initdata, cmdline |-> files.cmdline] \in Launches
      BY <1>5 DEF Veritas, TypeOK, Files, Launches
    <2> DEFINE launch == [initdata |-> files.initdata, cmdline |-> files.cmdline]
    <2> HIDE DEF launch
    <2>2. [files EXCEPT !.generated = launch] \in Files
      BY <2>1 DEF launch, TypeOK, Files
    <2> QED
      BY <1>3, <1>5, <2>2, LabelsAre DEF Veritas, launch
  <1>6. CASE Review
    <2> DEFINE references == [launch |-> files.generated, tcb |-> rig]
    <2>1. references \in References
      BY <1>6 DEF Review, TypeOK, Files, References
    <2> HIDE DEF references
    <2>2. [files EXCEPT !.reviewed = references] \in Files
      BY <2>1 DEF TypeOK, Files
    <2> QED
      BY <1>3, <1>6, <2>2, LabelsAre DEF Review, references
  <1>7. CASE CopyKey \/ CopyPub
    BY <1>3, <1>7, FilesType, LabelsAre DEF CopyKey, CopyPub
  <1>8. CASE Seed
    <2>1. trustee' \in Trustees
      BY <1>8 DEF Seed, TypeOK, TrusteeTypeOK, Trustees
    <2> QED
      BY <1>8, <2>1, LabelsAre DEF Seed, TypeOK, TrusteeTypeOK, HwidInv
  <1>9. CASE CallBootstrap
    <2>1. call' \in Calls /\ call'.hwid \in Rigs
      BY <1>9, NoCallType DEF CallBootstrap, Bootstrap, Calls, CallLabels, TypeOK
    <2> QED
      BY <1>9, <2>1 DEF CallBootstrap, TypeOK, TrusteeTypeOK, HwidInv
  <1>10. CASE CallConfigure
    <2>1. [cert |-> files.ca, credential |-> files.password, sig |-> files.pub] \in Secrets
      BY DEF TypeOK, Files, Secrets
    <2>2. call' \in Calls /\ call'.hwid \in Rigs
      BY <1>10, <2>1 DEF CallConfigure, Configure, Calls, CallLabels, TypeOK, Files
    <2> QED
      BY <1>10, <2>2, LabelsAre DEF CallConfigure, TypeOK, TrusteeTypeOK, HwidInv
  <1>11. CASE Bootstrapped \/ Configured
    <2>1. call' = NoCall
      BY <1>11 DEF Bootstrapped, Configured
    <2>2. NoCall.pc = "idle"
      BY DEF NoCall
    <2> QED
      BY <1>11, <2>1, <2>2, NoCallType, LabelsAre
      DEF Bootstrapped, Configured, TypeOK, TrusteeTypeOK, HwidInv
  <1>12. CASE Label
    BY <1>12, LabelsAre DEF Label, TypeOK, TrusteeTypeOK, HwidInv
  <1>13. CASE Approve
    <2>1. files.reviewed \in References
      BY <1>13 DEF Approve, Present, TypeOK, Files
    <2> QED
      BY <1>2, <1>13, <2>1, LabelsAre DEF Approve, TypeOK
  <1>14. CASE Build
    <2>1. built' \in Keys \cup {None}
      BY <1>14 DEF Build, TypeOK, Files
    <2> QED
      BY <1>2, <1>14, <2>1, LabelsAre DEF Build, TypeOK
  <1>15. CASE CopyManifest
    <2> DEFINE manifest == [signer |-> built, rig |-> rig]
    <2>1. manifest \in Manifests
      BY <1>15 DEF CopyManifest, Present, TypeOK, Manifests
    <2> HIDE DEF manifest
    <2>2. [files EXCEPT !.manifest = manifest] \in Files
      BY <2>1 DEF TypeOK, Files
    <2>3. files' \in Files
      BY <1>15, <2>2 DEF CopyManifest, manifest
    <2> QED
      BY <1>2, <1>15, <2>3, LabelsAre DEF CopyManifest, TypeOK
  <1>16. CASE WriteEnv
    <2> DEFINE env == [node |-> rig, manifest |-> files.manifest]
    <2>1. env \in Environments
      BY <1>16 DEF WriteEnv, Present, TypeOK, Files, Environments
    <2> HIDE DEF env
    <2>2. [files EXCEPT !.env = env] \in Files
      BY <2>1 DEF TypeOK, Files
    <2>3. files' \in Files
      BY <1>16, <2>2 DEF WriteEnv, env
    <2> QED
      BY <1>2, <1>16, <2>3, LabelsAre DEF WriteEnv, TypeOK, Steps
  <1>17. CASE Missing
    <2>1. PICK step \in MissingFor(pc) : End(step) /\ UNCHANGED <<files, stops>>
      BY <1>17 DEF Missing
    <2> QED
      BY <2>1, EndType, MissingType DEF TypeOK
  <1>18. CASE Start
    <2>1. PICK s \in 1..resume : pc' = First[s]
      BY <1>18 DEF Start
    <2>2. s \in Steps
      BY DEF Steps, TypeOK
    <2> QED
      BY <1>2, <1>18, <2>1, <2>2, FirstType DEF Start, TypeOK
  <1>19. CASE Stop
    <2>1. StepOf(pc) \in Steps
      BY StepOfType DEF TypeOK
    <2>2. stops' \in 0..MaxStops
      BY <1>19, BoundsAssumption DEF Stop, TypeOK
    <2> QED
      BY <1>19, <2>1, <2>2, EndType DEF Stop, TypeOK
  <1>20. CASE Refuse
    <2>1. stops' \in 0..MaxStops /\ 9 \in Steps
      BY <1>20, BoundsAssumption DEF Refuse, TypeOK, Steps
    <2>2. files' \in Files
      BY <1>20, FilesType DEF Refuse
    <2> QED
      BY <1>20, <2>1, <2>2, EndType DEF Refuse, TypeOK
  <1>21. CASE NewRig \/ ResetLab
    <2>1. Unpublish /\ UNCHANGED call
      BY <1>21 DEF NewRig, ResetLab
    <2>2. TrusteeTypeOK' /\ HwidInv'
      BY <1>a, <2>1, NoCallType
      DEF Unpublish, TrusteeTypeOK, HwidInv, NoTrustee, Trustees, Generated, Configurations,
          Policies
    <2>3. stops' \in 0..MaxStops
      BY <1>21, BoundsAssumption DEF NewRig, ResetLab, TypeOK
    <2> QED
      BY <1>21, <2>2, <2>3 DEF NewRig, ResetLab, TypeOK
  <1>22. CASE UNCHANGED vars
    BY <1>2, <1>22 DEF vars, TypeOK
  <1> QED
    BY <1>1, <1>4, <1>5, <1>6, <1>7, <1>8, <1>9, <1>10, <1>11, <1>12, <1>13, <1>14, <1>15, <1>16,
       <1>17, <1>18, <1>19, <1>20, <1>21, <1>22 DEF Next, Working

LEMMA HwidInit == Init => HwidInv /\ Present
  BY DEF Init, NoCall, HwidInv, Present

\* Every reachable state is of its type (the files, what is published, the calls), for any
\* rigs, keys and number of stops.
THEOREM TypeCorrect == Spec => []TypeOK
  <1>1. Init => TypeOK /\ HwidInv /\ Present
    BY TypeInit, HwidInit
  <1> QED
    BY <1>1, TypeNext, PresentNext, PTL DEF Spec

---------------------------------------------------------------------------
(* The files *)

SequenceInv == BundleUsed /\ FilesBelong /\ StepInv

LEMMA DueType == (TypeOK => Due \in Steps) /\ (TypeOK' => Due' \in Steps)
  BY StepOfType DEF Due, TypeOK

\* The invocation at a label.
LEMMA DueAt == ASSUME pc # "idle" PROVE Due = StepOf(pc)
  BY DEF Due

LEMMA DueNext == ASSUME pc' # "idle" PROVE Due' = StepOf(pc')
  BY DEF Due

\* Up to mirror nothing is said of the files.
LEMMA FilesStart == ASSUME TypeOK', Due' <= 3 PROVE FilesBelong'
  <1>1. Due' \in Steps
    BY DueType
  <1> QED
    BY <1>1 DEF FilesBelong, Steps

\* Going back, and going on where only approvals or files that nothing is said of change.
LEMMA FilesFrame ==
    ASSUME TypeOK, TypeOK', FilesBelong, Due' <= Due, rig' = rig, approvals \subseteq approvals',
           files'.bundle = files.bundle, files'.ca = files.ca, files'.password = files.password,
           files'.initdata = files.initdata, files'.cmdline = files.cmdline,
           files'.generated = files.generated, files'.reviewed \in {None, files.reviewed},
           files'.pub = files.pub, files'.manifest = files.manifest
    PROVE  FilesBelong'
  <1>1. Due \in Steps /\ Due' \in Steps
    BY DueType
  <1>2. Expected' = Expected
    BY DEF Expected
  <1>3. SUFFICES ASSUME rig \in files.bundle PROVE FilesBelong'
    BY DEF FilesBelong
  <1>4. \A n \in Steps : Due' > n => Due > n
    BY <1>1 DEF Steps
  <1>5. 3 \in Steps /\ 4 \in Steps /\ 5 \in Steps /\ 6 \in Steps /\ 7 \in Steps /\ 8 \in Steps
    BY DEF Steps
  <1> QED
    BY <1>2, <1>3, <1>4, <1>5 DEF FilesBelong

LEMMA StartNext == TypeOK /\ TypeOK' /\ SequenceInv /\ Start => SequenceInv'
  <1> SUFFICES ASSUME TypeOK, TypeOK', SequenceInv, Start PROVE SequenceInv'
    OBVIOUS
  <1>1. PICK s \in 1..resume : pc' = First[s]
    BY DEF Start
  <1>2. s \in Steps /\ s <= resume
    BY DEF Steps, TypeOK
  <1>3. Due' = s /\ Due = resume
    BY <1>1, <1>2, FirstType, StepOfFirst, DueNext DEF Due, Start
  <1>4. UNCHANGED <<rig, used, files, approvals>>
    BY DEF Start
  <1>5. FilesBelong'
    BY <1>2, <1>3, <1>4, FilesFrame DEF SequenceInv
  <1>6. StepInv'
    BY <1>1, <1>2, FirstType DEF Start, StepInv
  <1> QED
    BY <1>4, <1>5, <1>6 DEF SequenceInv, BundleUsed

\* vcek, bootstrap and mirror.
LEMMA EarlyNext ==
    ASSUME TypeOK, TypeOK', SequenceInv,
           \/ Collect \/ Seed \/ Bootstrapped \/ Label \/ CopyCA
    PROVE  SequenceInv'
  <1>1. pc' \in {"seed", "bootstrap", "label", "mirror", "password"}
    BY DEF Collect, Seed, Bootstrapped, Label, CopyCA, Do
  <1>2. Due' <= 3
    BY <1>1, DueNext DEF StepOf
  <1>3. rig' = rig /\ used' = used /\ ~finished'
    BY DEF SequenceInv, StepInv, Collect, Seed, Bootstrapped, Label, CopyCA, Do
  <1>4. files'.bundle \subseteq files.bundle \cup {rig}
    BY DEF Collect, Seed, Bootstrapped, Label, CopyCA, Do, TypeOK, Files
  <1>5. pc' = "password" => files'.ca = rig
    BY DEF Collect, Seed, Bootstrapped, Label, CopyCA, Do, TypeOK, Files
  <1>6. StepInv'
    BY <1>1, <1>3, <1>5 DEF StepInv
  <1> QED
    BY <1>2, <1>3, <1>4, <1>6, FilesStart DEF SequenceInv, BundleUsed

LEMMA MiddleNext ==
    ASSUME TypeOK, TypeOK', SequenceInv,
           \/ CopyPassword \/ WriteInitdata \/ ReadCmdline \/ Veritas \/ Review
    PROVE  SequenceInv'
  <1>1. rig' = rig /\ used' = used /\ approvals' = approvals /\ ~finished'
    BY DEF SequenceInv, StepInv, CopyPassword, WriteInitdata, ReadCmdline, Veritas, Review, Do
  <1>2. files'.bundle = files.bundle
    BY DEF CopyPassword, WriteInitdata, ReadCmdline, Veritas, Review, Do, TypeOK, Files
  <1>3. CASE CopyPassword
    <2>1. Due' = 4 /\ pc' = "initdata" /\ pc = "password"
      BY <1>3, DueNext DEF CopyPassword, Do, StepOf
    <2>2. files'.ca = files.ca /\ files'.password = rig
      BY <1>3 DEF CopyPassword, Do, TypeOK, Files
    <2> QED
      BY <1>1, <1>2, <2>1, <2>2 DEF SequenceInv, BundleUsed, FilesBelong, StepInv
  <1>4. CASE WriteInitdata
    <2>1. Due = 4 /\ Due' = 5 /\ pc' = "cmdline"
      BY <1>4, DueAt, DueNext DEF WriteInitdata, Do, StepOf
    <2>2. /\ files'.ca = files.ca /\ files'.password = files.password
          /\ files'.initdata = files.ca
      BY <1>4 DEF WriteInitdata, Do, TypeOK, Files
    <2> QED
      BY <1>1, <1>2, <2>1, <2>2 DEF SequenceInv, BundleUsed, FilesBelong, StepInv
  <1>5. CASE ReadCmdline
    <2>1. Due = 5 /\ Due' = 6 /\ pc' = "veritas"
      BY <1>5, DueAt, DueNext DEF ReadCmdline, Do, StepOf
    <2>2. /\ files'.ca = files.ca /\ files'.password = files.password
          /\ files'.initdata = files.initdata /\ files'.cmdline \in Lines
      BY <1>5 DEF ReadCmdline, Do, TypeOK, Files
    <2> QED
      BY <1>1, <1>2, <2>1, <2>2 DEF SequenceInv, BundleUsed, FilesBelong, StepInv
  <1>6. CASE Veritas
    <2>1. Due = 6 /\ Due' = 7 /\ pc' = "references"
      BY <1>6, DueAt, DueNext DEF Veritas, Do, StepOf
    <2>2. /\ files'.ca = files.ca /\ files'.password = files.password
          /\ files'.initdata = files.initdata /\ files'.cmdline = files.cmdline
          /\ files'.generated = [initdata |-> files.initdata, cmdline |-> files.cmdline]
      BY <1>6 DEF Veritas, Do, TypeOK, Files
    <2>3. FilesBelong'
      BY <1>1, <1>2, <2>1, <2>2 DEF SequenceInv, FilesBelong, Expected
    <2> QED
      BY <1>1, <1>2, <2>1, <2>3 DEF SequenceInv, BundleUsed, StepInv
  <1>7. CASE Review
    <2>1. Due = 7 /\ Due' = 7 /\ pc' = "approve" /\ rig \in files.bundle
      BY <1>7, DueAt, DueNext DEF Review, Do, StepOf, HwidMissing
    <2>2. /\ files'.ca = files.ca /\ files'.password = files.password
          /\ files'.initdata = files.initdata /\ files'.cmdline = files.cmdline
          /\ files'.generated = files.generated
          /\ files'.reviewed = [launch |-> files.generated, tcb |-> rig]
      BY <1>7 DEF Review, Do, TypeOK, Files
    <2>3. FilesBelong'
      BY <1>1, <1>2, <2>1, <2>2 DEF SequenceInv, FilesBelong, Expected
    <2> QED
      BY <1>1, <1>2, <2>1, <2>2, <2>3 DEF SequenceInv, BundleUsed, StepInv
  <1> QED
    BY <1>3, <1>4, <1>5, <1>6, <1>7

LEMMA ReviewedNext ==
    ASSUME TypeOK, TypeOK', Present, SequenceInv, Approve \/ Refuse
    PROVE  SequenceInv'
  <1>1. /\ pc = "approve" /\ Due = 7
        /\ rig' = rig /\ used' = used /\ approvals \subseteq approvals' /\ ~finished'
    BY DueAt DEF Approve, Refuse, End, StepOf, SequenceInv, StepInv
  <1>2. rig \in files.bundle /\ files.generated = Expected.launch
    BY <1>1 DEF SequenceInv, StepInv, FilesBelong
  <1>3. files.reviewed = Expected
    BY <1>1, <1>2 DEF SequenceInv, StepInv, Expected
  <1>4. Expected' = Expected
    BY <1>1 DEF Approve, Refuse, Expected, TypeOK, Files
  <1>5. CASE Approve
    <2>1. Due' = 8 /\ pc' = "images"
      BY <1>5, DueNext DEF Approve, StepOf
    <2>2. UNCHANGED files /\ Expected \in approvals'
      BY <1>3, <1>5 DEF Approve
    <2>3. FilesBelong'
      BY <1>1, <1>3, <1>4, <2>1, <2>2 DEF SequenceInv, FilesBelong
    <2> QED
      BY <1>1, <2>1, <2>2, <2>3 DEF SequenceInv, BundleUsed, StepInv
  <1>6. CASE Refuse
    <2>1. pc' = "idle" /\ files' = [files EXCEPT !.reviewed = None]
      BY <1>6 DEF Refuse, End
    <2>2. /\ files'.bundle = files.bundle /\ files'.reviewed = None
          /\ files'.ca = files.ca /\ files'.password = files.password
          /\ files'.initdata = files.initdata /\ files'.cmdline = files.cmdline
          /\ files'.generated = files.generated
      BY <2>1 DEF TypeOK, Files
    <2>3. FilesBelong'
      BY <1>1, <1>2, <1>4, <2>2 DEF SequenceInv, FilesBelong
    <2> QED
      BY <1>1, <2>1, <2>2, <2>3 DEF SequenceInv, BundleUsed, StepInv
  <1> QED
    BY <1>5, <1>6

LEMMA ImagesNext ==
    ASSUME TypeOK, TypeOK', Present, SequenceInv,
           Build \/ CopyKey \/ CopyPub \/ CopyManifest
    PROVE  SequenceInv'
  <1>1. /\ rig' = rig /\ used' = used /\ approvals' = approvals /\ ~finished'
        /\ files'.bundle = files.bundle
        /\ files'.ca = files.ca /\ files'.password = files.password
        /\ files'.initdata = files.initdata /\ files'.cmdline = files.cmdline
        /\ files'.generated = files.generated /\ files'.reviewed = files.reviewed
    BY DEF Build, CopyKey, CopyPub, CopyManifest, Do, SequenceInv, StepInv, TypeOK, Files
  <1>2. Expected' = Expected /\ BundleUsed'
    BY <1>1 DEF Expected, SequenceInv, BundleUsed
  <1>3. Due = 8
    BY DueAt DEF Build, CopyKey, CopyPub, CopyManifest, Do, StepOf
  <1>4. CASE Build \/ CopyKey \/ CopyPub
    <2>1. Due' = 8
      BY <1>4, DueNext DEF Build, CopyKey, CopyPub, Do, StepOf
    <2>2. FilesBelong'
      BY <1>1, <1>2, <1>3, <2>1 DEF SequenceInv, FilesBelong
    <2>3. \/ pc' \in {"key", "pub"}
          \/ pc' = "manifest" /\ files'.pub = built /\ built' = built
      BY <1>4 DEF Build, CopyKey, CopyPub, Do, TypeOK, Files
    <2> QED
      BY <1>1, <1>2, <2>2, <2>3 DEF SequenceInv, StepInv
  <1>5. CASE CopyManifest
    <2>1. Due' = 9 /\ pc' = "configure" /\ pc = "manifest"
      BY <1>5, DueNext DEF CopyManifest, StepOf
    <2>2. files.pub = built /\ built \in Keys
      BY <2>1 DEF SequenceInv, StepInv, Present, TypeOK
    <2>3. files'.pub \in Keys /\ files'.manifest = [signer |-> files'.pub, rig |-> rig]
      BY <1>5, <2>2 DEF CopyManifest, TypeOK, Files
    <2>4. FilesBelong'
      BY <1>1, <1>2, <1>3, <2>1, <2>3 DEF SequenceInv, FilesBelong
    <2> QED
      BY <1>1, <1>2, <2>1, <2>4 DEF SequenceInv, StepInv
  <1> QED
    BY <1>4, <1>5

LEMMA LateNext ==
    ASSUME TypeOK, TypeOK', SequenceInv, CallConfigure \/ Configured \/ WriteEnv
    PROVE  SequenceInv'
  <1>1. UNCHANGED <<rig, used, approvals>> /\ Due = 9 /\ Due' = 9
    BY DueAt DEF CallConfigure, Configured, WriteEnv, StepOf, Due
  <1>2. /\ files'.bundle = files.bundle /\ files'.ca = files.ca /\ files'.password = files.password
        /\ files'.initdata = files.initdata /\ files'.cmdline = files.cmdline
        /\ files'.generated = files.generated /\ files'.reviewed = files.reviewed
        /\ files'.pub = files.pub /\ files'.manifest = files.manifest
    BY DEF CallConfigure, Configured, WriteEnv, TypeOK, Files
  <1>3. FilesBelong' /\ BundleUsed'
    BY <1>1, <1>2, FilesFrame DEF SequenceInv, BundleUsed
  <1>4. rig \in files.bundle /\ files.reviewed # None
    BY DEF CallConfigure, Configured, WriteEnv, HwidMissing, SequenceInv, StepInv
  <1>5. \/ pc' \in {"configuring", "env"} /\ ~finished'
        \/ pc' = "idle" /\ resume' = 9
    BY DEF CallConfigure, Configured, WriteEnv, SequenceInv, StepInv
  <1> QED
    BY <1>1, <1>2, <1>3, <1>4, <1>5 DEF SequenceInv, StepInv

\* An invocation under way ends where it is, or earlier.
LEMMA EndsEarlier ==
    ASSUME TypeOK, CallInv, Stop \/ Missing
    PROVE  \E step \in Steps : step <= Due /\ End(step) /\ pc # "idle" /\ UNCHANGED files
  <1>1. CASE Stop
    BY <1>1, DueAt, DueType DEF Stop, Steps
  <1>2. CASE Missing
    <2>1. PICK step \in MissingFor(pc) : End(step) /\ UNCHANGED files
      BY <1>2 DEF Missing
    <2>2. CASE step = 1
      <3>1. pc # "idle"
        BY <2>1, <2>2 DEF MissingFor, CallInv, NoCall
      <3> QED
        BY <2>1, <2>2, <3>1, DueType DEF Steps
    <2>3. CASE step = 2
      BY <2>1, <2>3, DueAt DEF MissingFor, StepOf, Steps
    <2>4. CASE step = 7
      BY <2>1, <2>4, DueAt DEF MissingFor, StepOf, Steps
    <2>5. CASE step = 8
      BY <2>1, <2>5, DueAt DEF MissingFor, StepOf, Steps
    <2> QED
      BY <2>1, <2>2, <2>3, <2>4, <2>5 DEF MissingFor
  <1> QED
    BY <1>1, <1>2

\* What ends an invocation sends the operator back, never further.
LEMMA EndNext ==
    ASSUME TypeOK, TypeOK', SequenceInv, CallInv, Stop \/ Missing
    PROVE  SequenceInv'
  <1>1. PICK step \in Steps : step <= Due /\ End(step) /\ pc # "idle" /\ UNCHANGED files
    BY EndsEarlier
  <1>2. pc' = "idle" /\ resume' = step /\ UNCHANGED <<rig, used, approvals, finished, files>>
    BY <1>1 DEF End
  <1>3. Due' <= Due
    BY <1>1, <1>2 DEF Due
  <1>4. ~finished
    BY <1>1 DEF SequenceInv, StepInv
  <1> QED
    BY <1>2, <1>3, <1>4, FilesFrame DEF SequenceInv, BundleUsed, StepInv

LEMMA SequenceNext ==
    TypeOK /\ TypeOK' /\ Present /\ SequenceInv /\ CallInv /\ [Next]_vars => SequenceInv'
  <1> SUFFICES ASSUME TypeOK, TypeOK', Present, SequenceInv, CallInv, [Next]_vars
               PROVE  SequenceInv'
    OBVIOUS
  <1>1. ASSUME UNCHANGED <<rig, used, files, approvals, resume, pc, built, finished>>
        PROVE  SequenceInv'
    BY <1>1 DEF SequenceInv, BundleUsed, FilesBelong, StepInv, Due, Expected
  <1>2. CASE \/ (Apply \/ Operator) /\ UNCHANGED lab
             \/ CallBootstrap \/ UNCHANGED vars
    BY <1>1, <1>2 DEF lab, vars, CallBootstrap
  <1>3. CASE NewRig
    <2>1. rig' \notin files'.bundle /\ rig' \in used' /\ files'.bundle \subseteq used'
      BY <1>3 DEF NewRig, SequenceInv, BundleUsed
    <2>2. pc' = "idle" /\ ~finished'
      BY <1>3 DEF NewRig
    <2> QED
      BY <2>1, <2>2 DEF SequenceInv, BundleUsed, FilesBelong, StepInv
  <1>4. CASE ResetLab
    <2>1. UNCHANGED <<rig, used, files, approvals, resume, pc>> /\ pc' = "idle" /\ ~finished'
      BY <1>4 DEF ResetLab
    <2> QED
      BY <2>1 DEF SequenceInv, BundleUsed, FilesBelong, StepInv, Due, Expected
  <1> QED
    BY <1>2, <1>3, <1>4, StartNext, EarlyNext, MiddleNext, ReviewedNext, ImagesNext, LateNext,
       EndNext
    DEF Next, Working

---------------------------------------------------------------------------
(* What is published *)

PublishInv == /\ PublishedWasApproved /\ ResourcesBehindPolicy
              /\ CallInv /\ Published /\ EnvInv

\* Nothing of a call or of what it published changes.
LEMMA PublishFrame ==
    ASSUME PublishInv, UNCHANGED <<trustee, config, secrets, serving, call, rig, files, pc>>,
           approvals \subseteq approvals', finished' = finished
    PROVE  PublishInv'
  BY DEF PublishInv, PublishedWasApproved, ResourcesBehindPolicy, CallInv, Published, Place,
         Expected, EnvInv

\* The invocation is between its calls, and nothing that a policy guards changes.
LEMMA BetweenFrame ==
    ASSUME PublishInv, UNCHANGED <<config, serving>>, call' = NoCall, ~finished',
           pc' \notin {"configuring", "env"}, approvals \subseteq approvals'
    PROVE  PublishInv'
  <1>1. Place' = "idle"
    BY DEF Place
  <1>2. CallInv' /\ Published' /\ EnvInv'
    BY <1>1
    DEF CallInv, NoCall, Published, EnvInv, Refreshed, Attached, KeySeeded, CredentialSeeded,
        CertSeeded, PolicyPatched, ReferencesPatched, OfflinePatched
  <1> QED
    BY <1>2 DEF PublishInv, PublishedWasApproved, ResourcesBehindPolicy

\* Before and after a call there is none.
LEMMA NoCallAt == ASSUME CallInv, pc \notin {"bootstrap", "configuring"} PROVE call = NoCall
  BY DEF CallInv

\* apply-trustee.sh for bootstrap: it publishes no resources.
LEMMA BootstrapStep ==
    ASSUME TypeOK, PublishInv, StepInv, Apply, UNCHANGED lab, pc = "bootstrap"
    PROVE  PublishInv'
  <1> USE DEF objects
  <1>1. pc' = "bootstrap" /\ UNCHANGED <<rig, files, approvals, finished>> /\ ~finished
    BY DEF lab, StepInv
  <1>2. call.configure = FALSE /\ call.pc \notin {"rvps", "policy", "cert", "credential", "sig"}
    BY DEF PublishInv, CallInv
  <1>3. Place' = "idle"
    BY <1>1 DEF Place
  <1>4. Published' /\ EnvInv'
    BY <1>1, <1>3
    DEF Published, EnvInv, Refreshed, Attached, KeySeeded, CredentialSeeded, CertSeeded,
        PolicyPatched, ReferencesPatched, OfflinePatched
  <1>5. CallInv'
    BY <1>1, <1>2
    DEF CallInv, Apply, At, CheckCollateral, Create, AwaitGenerated, PatchOffline,
        PatchReferences, PatchPolicy, SeedCert, SeedCredential, SeedKey, Attach, Refresh, Recheck,
        TypeOK, TrusteeTypeOK, Calls
  <1>6. /\ config'.attached = config.attached /\ config'.policy = config.policy
        /\ config'.rvps = config.rvps /\ (serving' = serving \/ serving' = config)
    BY <1>2
    DEF Apply, At, CheckCollateral, Create, AwaitGenerated, PatchOffline,
        PatchReferences, PatchPolicy, SeedCert, SeedCredential, SeedKey, Attach, Refresh, Recheck,
        TypeOK, TrusteeTypeOK, Configurations
  <1> QED
    BY <1>1, <1>4, <1>5, <1>6 DEF PublishInv, PublishedWasApproved, ResourcesBehindPolicy

\* apply-trustee.sh for configure.
LEMMA ConfigureStep ==
    ASSUME TypeOK, PublishInv, SequenceInv, Apply, UNCHANGED lab, pc = "configuring"
    PROVE  PublishInv'
  <1> USE DEF objects
  <1>1. UNCHANGED <<pc, rig, files, approvals, finished>> /\ ~finished
    BY DEF lab, SequenceInv, StepInv
  <1>2. Expected' = Expected /\ Expected # None /\ Expected \in approvals
    <2>1. rig \in files.bundle /\ files.reviewed # None
      BY DEF SequenceInv, StepInv
    <2>2. Due = 9
      BY DueAt DEF StepOf
    <2>3. files.reviewed = Expected /\ Expected \in approvals
      BY <2>1, <2>2 DEF SequenceInv, FilesBelong
    <2> QED
      BY <1>1, <2>1, <2>3 DEF Expected
  <1>3. /\ call.configure = TRUE /\ call.hwid = rig /\ call.rvps = Expected
        /\ call.seeds = [cert |-> rig, credential |-> rig, sig |-> files.pub]
    BY DEF PublishInv, CallInv
  <1>4. Place = call.pc /\ Place' = call'.pc
    BY <1>1 DEF Place
  <1>5. PICK label \in CallLabels \ {"idle"} : call' = [call EXCEPT !.pc = label]
    BY <1>3
    DEF Apply, At, CheckCollateral, Create, AwaitGenerated, PatchOffline,
        PatchReferences, PatchPolicy, SeedCert, SeedCredential, SeedKey, Attach, Refresh, Recheck,
        CallLabels
  <1>6. /\ call'.pc = label /\ call'.configure = TRUE /\ call'.hwid = rig
        /\ call'.rvps = Expected
        /\ call'.seeds = [cert |-> rig, credential |-> rig, sig |-> files.pub]
    BY <1>3, <1>5 DEF TypeOK, TrusteeTypeOK, Calls
  <1>7. CallInv' /\ EnvInv'
    BY <1>1, <1>2, <1>6 DEF CallInv, EnvInv
  <1>8. /\ config \in Configurations /\ secrets \in Secrets /\ trustee \in Trustees
        /\ call \in Calls
    BY DEF TypeOK, TrusteeTypeOK
  <1>9. Published' /\ PublishedWasApproved' /\ ResourcesBehindPolicy'
    <2> USE DEF Refreshed, Attached, KeySeeded, CredentialSeeded, CertSeeded, PolicyPatched,
                ReferencesPatched, OfflinePatched
    <2>a. Published /\ PublishedWasApproved /\ ResourcesBehindPolicy
      BY DEF PublishInv
    <2>1. CASE CheckCollateral \/ Create \/ AwaitGenerated
      <3>1. Place' \in {"create", "ready", "offline"}
        BY <1>4, <1>8, <2>1 DEF CheckCollateral, Create, AwaitGenerated, At, Calls
      <3>2. Published'
        BY <3>1 DEF Published
      <3> QED
        BY <1>1, <2>1, <2>a, <3>2
        DEF CheckCollateral, Create, AwaitGenerated, PublishedWasApproved, ResourcesBehindPolicy
    <2>2. CASE PatchOffline
      <3>1. Place' = "rvps"
        BY <1>3, <1>4, <1>8, <2>2 DEF PatchOffline, At, Calls
      <3>2. /\ config'.offline /\ config'.rvps = config.rvps /\ config'.policy = config.policy
            /\ config'.attached = config.attached /\ serving' = serving
        BY <1>8, <2>2 DEF PatchOffline, Configurations
      <3> QED
        BY <1>1, <2>a, <3>1, <3>2 DEF Published, PublishedWasApproved, ResourcesBehindPolicy
    <2>3. CASE PatchReferences
      <3>1. Place = "rvps" /\ Place' = "policy"
        BY <1>4, <1>8, <2>3 DEF PatchReferences, At, Calls
      <3>2. /\ config'.offline = config.offline /\ config'.rvps = Expected
            /\ config'.policy = config.policy
            /\ config'.attached = config.attached /\ serving' = serving
        BY <1>3, <1>8, <2>3 DEF PatchReferences, Configurations
      <3> QED
        BY <1>1, <1>2, <2>a, <3>1, <3>2 DEF Published, PublishedWasApproved, ResourcesBehindPolicy
    <2>4. CASE PatchPolicy
      <3>1. Place = "policy" /\ Place' = "cert"
        BY <1>4, <1>8, <2>4 DEF PatchPolicy, At, Calls
      <3>2. /\ config'.offline = config.offline /\ config'.rvps = config.rvps
            /\ config'.policy = "pinned"
            /\ config'.attached = config.attached /\ serving' = serving
        BY <1>8, <2>4 DEF PatchPolicy, Configurations
      <3> QED
        BY <1>1, <1>2, <2>a, <3>1, <3>2 DEF Published, PublishedWasApproved, ResourcesBehindPolicy
    <2>5. ASSUME UNCHANGED <<config, serving>>
          PROVE  PublishedWasApproved' /\ ResourcesBehindPolicy'
      BY <1>1, <2>5, <2>a DEF PublishedWasApproved, ResourcesBehindPolicy
    <2>6. CASE SeedCert
      <3>1. Place = "cert" /\ Place' = "credential"
        BY <1>4, <1>8, <2>6 DEF SeedCert, At, Calls
      <3>2. secrets'.cert = rig /\ UNCHANGED <<config, serving>>
        BY <1>3, <1>8, <2>6 DEF SeedCert, Secrets
      <3> QED
        BY <1>1, <1>2, <2>a, <2>5, <3>1, <3>2 DEF Published
    <2>7. CASE SeedCredential
      <3>1. Place = "credential" /\ Place' = "sig"
        BY <1>4, <1>8, <2>7 DEF SeedCredential, At, Calls
      <3>2. /\ secrets'.cert = secrets.cert /\ secrets'.credential = rig
            /\ UNCHANGED <<config, serving>>
        BY <1>3, <1>8, <2>7 DEF SeedCredential, Secrets
      <3> QED
        BY <1>1, <1>2, <2>a, <2>5, <3>1, <3>2 DEF Published
    <2>8. CASE SeedKey
      <3>1. Place = "sig" /\ Place' = "attach"
        BY <1>4, <1>8, <2>8 DEF SeedKey, At, Calls
      <3>2. /\ secrets'.cert = secrets.cert /\ secrets'.credential = secrets.credential
            /\ secrets'.sig = files.pub /\ UNCHANGED <<config, serving>>
        BY <1>3, <1>8, <2>8 DEF SeedKey, Secrets
      <3>3. rig \in trustee'.vceks
        BY <1>3, <1>8, <2>8 DEF SeedKey, Trustees
      <3> QED
        BY <1>1, <1>2, <2>a, <2>5, <3>1, <3>2, <3>3 DEF Published
    <2>9. CASE Attach
      <3>1. Place = "attach" /\ Place' = "refresh"
        BY <1>4, <1>8, <2>9 DEF Attach, At, Calls
      <3>2. /\ config'.offline = config.offline /\ config'.rvps = config.rvps
            /\ config'.policy = config.policy /\ rig \in config'.mounts
            /\ UNCHANGED <<trustee, secrets, serving>>
        BY <1>3, <1>8, <2>9 DEF Attach, Configurations
      <3>3. config'.attached
        BY <1>3, <1>8, <2>9 DEF Attach, Configurations
      <3>4. config.rvps = Expected /\ config.policy = "pinned"
        BY <2>a, <3>1 DEF Published
      <3>5. Published'
        BY <1>1, <1>2, <2>a, <3>1, <3>2, <3>3 DEF Published
      <3> QED
        BY <1>1, <1>2, <2>a, <3>2, <3>4, <3>5 DEF PublishedWasApproved, ResourcesBehindPolicy
    <2>10. CASE Refresh
      <3>1. Place = "refresh" /\ Place' = "recheck"
        BY <1>4, <1>8, <2>10 DEF Refresh, At, Calls
      <3>2. serving' = config /\ UNCHANGED <<trustee, config, secrets>>
        BY <2>10 DEF Refresh
      <3> QED
        BY <1>1, <1>2, <2>a, <3>1, <3>2
        DEF Published, PublishedWasApproved, ResourcesBehindPolicy
    <2>11. CASE Recheck
      <3>1. Place = "recheck" /\ Place' = "complete"
        BY <1>4, <1>8, <2>11 DEF Recheck, At, Calls
      <3>2. UNCHANGED <<trustee, config, secrets, serving>>
        BY <2>11 DEF Recheck
      <3> QED
        BY <1>1, <1>2, <2>a, <2>5, <3>1, <3>2 DEF Published
    <2> QED
      BY <2>1, <2>2, <2>3, <2>4, <2>6, <2>7, <2>8, <2>9, <2>10, <2>11 DEF Apply
  <1> QED
    BY <1>7, <1>9 DEF PublishInv

LEMMA OperatorStep ==
    ASSUME TypeOK, PublishInv, Operator, UNCHANGED lab
    PROVE  PublishInv'
  <1>1. UNCHANGED <<config, secrets, call, pc, rig, files, approvals, finished>>
    BY DEF Operator, Generate, Rollout, lab
  <1>2. serving' = serving \/ serving' = config
    BY DEF Operator, Generate, Rollout
  <1>3. trustee'.vceks = trustee.vceks
    BY DEF Operator, Generate, Rollout, TypeOK, TrusteeTypeOK, Trustees
  <1>4. CallInv' /\ EnvInv' /\ PublishedWasApproved' /\ ResourcesBehindPolicy'
    BY <1>1, <1>2
    DEF PublishInv, CallInv, EnvInv, PublishedWasApproved, ResourcesBehindPolicy, Expected
  <1>5. Place' = Place /\ Expected' = Expected
    BY <1>1 DEF Place, Expected
  <1>6. Published'
    BY <1>1, <1>2, <1>3, <1>5 DEF PublishInv, Published
  <1> QED
    BY <1>4, <1>6 DEF PublishInv

LEMMA CallNext ==
    ASSUME TypeOK, PublishInv, SequenceInv,
           \/ CallBootstrap \/ CallConfigure \/ Configured \/ WriteEnv
    PROVE  PublishInv'
  <1> USE DEF cluster, objects
  <1>1. /\ UNCHANGED <<trustee, config, secrets, serving, rig, approvals>>
        /\ files'.cmdline = files.cmdline /\ files'.pub = files.pub
        /\ files'.manifest = files.manifest
    BY DEF CallBootstrap, CallConfigure, Configured, WriteEnv, TypeOK, Files
  <1>2. Expected' = Expected
    BY <1>1 DEF Expected
  <1>3. PublishedWasApproved' /\ ResourcesBehindPolicy'
    BY <1>1 DEF PublishInv, PublishedWasApproved, ResourcesBehindPolicy
  <1>4. pc # "idle" /\ ~finished
    BY DEF CallBootstrap, CallConfigure, Configured, WriteEnv, SequenceInv, StepInv
  <1> USE DEF Refreshed, Attached, KeySeeded, CredentialSeeded, CertSeeded, PolicyPatched,
              ReferencesPatched, OfflinePatched
  <1>5. CASE CallBootstrap
    <2>1. call'.pc = "collateral" /\ ~call'.configure /\ pc' = "bootstrap" /\ ~finished'
      BY <1>4, <1>5 DEF CallBootstrap, Bootstrap, NoCall
    <2>2. Place' = "idle"
      BY <2>1 DEF Place
    <2> QED
      BY <1>3, <2>1, <2>2 DEF PublishInv, CallInv, Published, EnvInv
  <1>6. CASE CallConfigure
    <2>1. rig \in files.bundle /\ files.reviewed # None /\ Due = 9
      BY <1>6, DueAt DEF CallConfigure, HwidMissing, StepOf
    <2>2. files.reviewed = Expected /\ files.ca = rig /\ files.password = rig
      BY <2>1 DEF SequenceInv, FilesBelong
    <2>3. /\ call' = [pc |-> "collateral", configure |-> TRUE, hwid |-> rig, rvps |-> Expected,
                      seeds |-> [cert |-> rig, credential |-> rig, sig |-> files.pub]]
          /\ pc' = "configuring" /\ ~finished'
      BY <1>4, <1>6, <2>2 DEF CallConfigure, Configure
    <2>4. Place' = "collateral"
      BY <2>3 DEF Place
    <2>5. CallInv'
      BY <1>1, <1>2, <2>3 DEF CallInv
    <2> QED
      BY <1>3, <2>3, <2>4, <2>5 DEF PublishInv, Published, EnvInv
  <1>7. CASE Configured
    <2>1. pc = "configuring" /\ call.pc = "complete" /\ pc' = "env" /\ ~finished' /\ call' = NoCall
      BY <1>4, <1>7 DEF Configured
    <2>2. Place = "complete" /\ Place' = "complete"
      BY <2>1 DEF Place
    <2> QED
      BY <1>1, <1>2, <1>3, <2>1, <2>2 DEF PublishInv, CallInv, Published, EnvInv
  <1>8. CASE WriteEnv
    <2>1. pc = "env" /\ pc' = "idle" /\ finished' /\ call' = call
      BY <1>8 DEF WriteEnv
    <2>2. Place = "complete" /\ Place' = "complete"
      BY <2>1 DEF Place
    <2>3. EnvInv'
      BY <1>1, <1>8 DEF WriteEnv, EnvInv, TypeOK, Files
    <2> QED
      BY <1>1, <1>2, <1>3, <2>1, <2>2, <2>3 DEF PublishInv, CallInv, Published
  <1> QED
    BY <1>5, <1>6, <1>7, <1>8

LEMMA PublishNext ==
    TypeOK /\ SequenceInv /\ PublishInv /\ [Next]_vars => PublishInv'
  <1> SUFFICES ASSUME TypeOK, SequenceInv, PublishInv, [Next]_vars PROVE PublishInv'
    OBVIOUS
  <1> USE DEF cluster, objects
  <1>a. CallInv /\ StepInv
    BY DEF PublishInv, SequenceInv
  <1>1. CASE (Apply \/ Operator) /\ UNCHANGED lab
    <2>1. CASE Apply
      <3>1. call.pc # "idle"
        BY <2>1
        DEF Apply, At, CheckCollateral, Create, AwaitGenerated, PatchOffline, PatchReferences,
            PatchPolicy, SeedCert, SeedCredential, SeedKey, Attach, Refresh, Recheck
      <3>2. pc \in {"bootstrap", "configuring"}
        BY <1>a, <3>1 DEF CallInv, NoCall
      <3> QED
        BY <1>1, <1>a, <2>1, <3>2, BootstrapStep, ConfigureStep
    <2>2. CASE Operator
      BY <1>1, <2>2, OperatorStep
    <2> QED
      BY <1>1, <2>1, <2>2
  <1>2. CASE \/ Collect \/ Seed \/ Label \/ CopyCA \/ CopyPassword \/ WriteInitdata
             \/ ReadCmdline \/ Veritas \/ Review \/ Approve \/ Build \/ CopyKey \/ CopyPub
             \/ CopyManifest
    <2>1. /\ pc \notin {"idle", "bootstrap", "configuring"} /\ UNCHANGED <<config, serving, call>>
          /\ pc' \notin {"configuring", "env"} /\ approvals \subseteq approvals'
          /\ finished' = finished
      BY <1>2 DEF Collect, Seed, Label, CopyCA, CopyPassword, WriteInitdata, ReadCmdline, Veritas,
                  Review, Approve, Build, CopyKey, CopyPub, CopyManifest, Do
    <2>2. call' = NoCall /\ ~finished'
      BY <1>a, <2>1, NoCallAt DEF StepInv
    <2> QED
      BY <2>1, <2>2, BetweenFrame
  <1>3. CASE Bootstrapped
    <2>1. ~finished'
      BY <1>3, <1>a DEF Bootstrapped, StepInv
    <2> QED
      BY <1>3, <2>1, BetweenFrame DEF Bootstrapped
  <1>4. CASE CallBootstrap \/ CallConfigure \/ Configured \/ WriteEnv
    BY <1>4, CallNext
  <1>5. ASSUME NEW step, End(step), ~finished PROVE PublishInv'
    BY <1>5, BetweenFrame DEF End
  <1>6. CASE Stop \/ Refuse
    BY <1>5, <1>6, <1>a DEF Stop, Refuse, StepInv
  <1>7. CASE Missing
    <2>1. PICK step \in MissingFor(pc) : End(step)
      BY <1>7 DEF Missing
    <2>2. pc # "idle"
      BY <1>a DEF MissingFor, CallInv, NoCall
    <2> QED
      BY <1>5, <1>a, <2>1, <2>2 DEF StepInv
  <1>8. CASE Start
    <2>1. PICK s \in 1..resume : pc' = First[s]
      BY <1>8 DEF Start
    <2>2. s \in Steps
      BY DEF Steps, TypeOK
    <2>3. call' = NoCall
      BY <1>8, <1>a, NoCallAt DEF Start
    <2> QED
      BY <1>8, <2>1, <2>2, <2>3, FirstType, BetweenFrame DEF Start
  <1>9. CASE NewRig \/ ResetLab
    <2>1. /\ config' = Generated /\ serving' = Generated /\ pc' = "idle" /\ ~finished'
          /\ call' = NoCall
      BY <1>9, <1>a, NoCallAt DEF NewRig, ResetLab, Unpublish
    <2>2. Place' = "idle"
      BY <2>1 DEF Place
    <2>3. PublishedWasApproved' /\ ResourcesBehindPolicy'
      BY <2>1 DEF Generated, PublishedWasApproved, ResourcesBehindPolicy
    <2>4. CallInv' /\ Published' /\ EnvInv'
      BY <2>1, <2>2
      DEF CallInv, Published, EnvInv, Refreshed, Attached, KeySeeded, CredentialSeeded,
          CertSeeded, PolicyPatched, ReferencesPatched, OfflinePatched
    <2> QED
      BY <2>3, <2>4 DEF PublishInv
  <1>10. CASE UNCHANGED vars
    BY <1>10, PublishFrame DEF vars
  <1> QED
    BY <1>1, <1>2, <1>3, <1>4, <1>6, <1>7, <1>8, <1>9, <1>10 DEF Next, Working

---------------------------------------------------------------------------
LEMMA LabInit == Init => LabInv
  <1> SUFFICES ASSUME Init PROVE LabInv
    OBVIOUS
  <1>1. BundleUsed /\ FilesBelong /\ StepInv
    BY DEF Init, NoFiles, BundleUsed, FilesBelong, StepInv
  <1>2. Place = "idle"
    BY DEF Init, Place
  <1>3. CallInv /\ Published /\ EnvInv
    BY <1>2
    DEF Init, CallInv, Published, EnvInv, Refreshed, Attached, KeySeeded, CredentialSeeded,
        CertSeeded, PolicyPatched, ReferencesPatched, OfflinePatched
  <1>4. PublishedWasApproved /\ ResourcesBehindPolicy
    BY DEF Init, TrusteeInit, Generated, PublishedWasApproved, ResourcesBehindPolicy
  <1> QED
    BY <1>1, <1>3, <1>4, TypeInit, HwidInit DEF LabInv

LEMMA LabInvHolds == Spec => []LabInv
  <1>1. LabInv /\ [Next]_vars => LabInv'
    BY TypeNext, PresentNext, SequenceNext, PublishNext DEF LabInv, SequenceInv, PublishInv
  <1> QED
    BY <1>1, LabInit, PTL DEF Spec

\* No reference set that nobody approved is ever published, for any rigs, command lines
\* and stops (references, trustee-lab.py:235).
THEOREM OnlyApprovedPublished == Spec => []PublishedWasApproved
  BY LabInvHolds, PTL DEF LabInv

\* No pod ever serves resources under the Operator's own policy or without references,
\* wherever an invocation stopped (apply-trustee.sh:5).
THEOREM PolicyFirst == Spec => []ResourcesBehindPolicy
  BY LabInvHolds, PTL DEF LabInv

\* An invocation that ended well left this rig's approved configuration, whatever the
\* files of earlier rigs and invocations were (main, trustee-lab.py:353).
THEOREM FinishedBelongs == Spec => []FinishedIsCurrent
  <1>1. LabInv => FinishedIsCurrent
    <2> SUFFICES ASSUME LabInv, finished PROVE FinishedIsCurrent
      BY DEF FinishedIsCurrent
    <2>1. rig \in files.bundle /\ files.reviewed # None /\ Due = 9
      BY DEF LabInv, StepInv, Due
    <2>2. Place = "complete"
      BY DEF LabInv, StepInv, Place
    <2>3. /\ config.offline /\ config.rvps = Expected /\ config.policy = "pinned"
          /\ secrets.cert = rig /\ secrets.credential = rig /\ secrets.sig = files.pub
          /\ rig \in trustee.vceks /\ config.attached /\ rig \in config.mounts
          /\ serving = config
      BY <2>2
      DEF LabInv, Published, Refreshed, Attached, KeySeeded, CredentialSeeded, CertSeeded,
          PolicyPatched, ReferencesPatched, OfflinePatched
    <2>4. Expected \in approvals /\ files.manifest = [signer |-> files.pub, rig |-> rig]
      BY <2>1 DEF LabInv, FilesBelong
    <2>5. secrets = [cert |-> rig, credential |-> rig, sig |-> files.manifest.signer]
      BY <2>3, <2>4 DEF LabInv, TypeOK, TrusteeTypeOK, Secrets
    <2> QED
      BY <2>3, <2>4, <2>5 DEF LabInv, EnvInv, FinishedIsCurrent
  <1> QED
    BY <1>1, LabInvHolds, PTL
---------------------------------------------------------------------------
(* The abstract gate *)

\* What the gate shows of a configuration.
LEMMA SameGate ==
    ASSUME NEW c, NEW d, c.rvps = d.rvps, c.policy = d.policy, c.attached = d.attached
    PROVE  GateOf(c) = GateOf(d)
  BY DEF GateOf

LEMMA GateFrame ==
    ASSUME UNCHANGED <<config, serving, finished>>, Standing' = Standing,
           (pc # "idle") <=> (pc' # "idle")
    PROVE  UNCHANGED Gate!vars
  <1>1. (pc # "idle") = (pc' # "idle")
    OBVIOUS
  <1>2. GateOf(config)' = GateOf(config) /\ GateOf(serving)' = GateOf(serving)
    BY DEF GateOf
  <1> QED
    BY <1>1, <1>2 DEF Gate!vars

\* The files before the approval do not count.
LEMMA StandingEarly == ASSUME TypeOK, Due <= 7 PROVE Standing = None
  BY DueType DEF Standing, Steps

LEMMA StandingEarlyNext == ASSUME TypeOK', Due' <= 7 PROVE Standing' = None
  BY DueType DEF Standing, Steps

LEMMA StandingFrame ==
    ASSUME UNCHANGED rig, files'.bundle = files.bundle, files'.reviewed = files.reviewed,
           Due > 7, Due' > 7
    PROVE  Standing' = Standing
  BY DEF Standing

\* Going back, or on with another chip, is to stand by the same or by none.
LEMMA StandingLess ==
    ASSUME TypeOK, TypeOK', UNCHANGED <<rig, files>>, Due' <= Due
    PROVE  Standing' \in {Standing, None}
  BY DueType DEF Standing, Steps

\* While configure is at work and after it, the file is the expected set.
LEMMA StandingLate ==
    ASSUME LabInv, pc \in {"configuring", "env"}
    PROVE  Standing = Expected /\ Standing # None /\ Due = 9
  <1>1. rig \in files.bundle /\ files.reviewed # None
    BY DEF LabInv, StepInv
  <1>2. Due = 9
    BY DueAt DEF StepOf
  <1> QED
    BY <1>1, <1>2 DEF LabInv, FilesBelong, Standing

\* The sequence, but for its calls of apply-trustee.sh.
LEMMA GateSequence ==
    ASSUME LabInv, TypeOK',
           \/ Collect \/ Seed \/ CallBootstrap \/ Bootstrapped \/ Label \/ CopyCA \/ CopyPassword
           \/ WriteInitdata \/ ReadCmdline \/ Veritas \/ Review \/ Build \/ CopyKey \/ CopyPub
           \/ CopyManifest \/ CallConfigure \/ Configured
    PROVE  UNCHANGED Gate!vars
  <1> USE DEF cluster, objects
  <1>a. TypeOK
    BY DEF LabInv
  <1>1. UNCHANGED <<config, serving, finished, rig>> /\ pc # "idle" /\ pc' # "idle"
    BY DEF Collect, Seed, CallBootstrap, Bootstrapped, Label, CopyCA, CopyPassword, WriteInitdata,
           ReadCmdline, Veritas, Review, Build, CopyKey, CopyPub, CopyManifest, CallConfigure,
           Configured, Do
  <1>2. CASE \/ Collect \/ Seed \/ CallBootstrap \/ Bootstrapped \/ Label \/ CopyCA
             \/ CopyPassword \/ WriteInitdata \/ ReadCmdline \/ Veritas \/ Review
    <2>1. StepOf(pc) <= 7 /\ StepOf(pc') <= 7
      BY <1>2
      DEF Collect, Seed, CallBootstrap, Bootstrapped, Label, CopyCA, CopyPassword, WriteInitdata,
          ReadCmdline, Veritas, Review, Do, StepOf
    <2>2. Standing = None /\ Standing' = None
      BY <1>a, <1>1, <2>1, DueAt, DueNext, StandingEarly, StandingEarlyNext
    <2> QED
      BY <1>1, <2>2, GateFrame
  <1>3. CASE Build \/ CopyKey \/ CopyPub \/ CopyManifest \/ CallConfigure \/ Configured
    <2>1. StepOf(pc) > 7 /\ StepOf(pc') > 7
      BY <1>3 DEF Build, CopyKey, CopyPub, CopyManifest, CallConfigure, Configured, Do, StepOf
    <2>2. files'.bundle = files.bundle /\ files'.reviewed = files.reviewed
      BY <1>a, <1>3
      DEF Build, CopyKey, CopyPub, CopyManifest, CallConfigure, Configured, Do, TypeOK, Files
    <2>3. Standing' = Standing
      BY <1>1, <2>1, <2>2, DueAt, DueNext, StandingFrame
    <2> QED
      BY <1>1, <2>3, GateFrame
  <1> QED
    BY <1>2, <1>3

\* What pinning the policy and attaching the resources change of what the gate shows.
LEMMA OpenGate ==
    /\ [GateOf(config) EXCEPT !.pinned = TRUE]
         = [references |-> config.rvps, pinned |-> TRUE, open |-> config.attached]
    /\ [GateOf(config) EXCEPT !.open = TRUE]
         = [references |-> config.rvps, pinned |-> config.policy = "pinned", open |-> TRUE]
  <1>1. PICK p : p = (config.policy = "pinned")
    OBVIOUS
  <1>2. PICK v : v = TRUE
    OBVIOUS
  <1>3. GateOf(config) = [references |-> config.rvps, pinned |-> p, open |-> config.attached]
    BY <1>1, Zenon DEF GateOf
  <1>4. /\ [GateOf(config) EXCEPT !.pinned = v]
             = [references |-> config.rvps, pinned |-> v, open |-> config.attached]
        /\ [GateOf(config) EXCEPT !.open = v]
             = [references |-> config.rvps, pinned |-> p, open |-> v]
    BY <1>3
  <1> QED
    BY <1>1, <1>2, <1>4, Zenon

\* bootstrap changes nothing that the gate shows, but new pods load what was published.
LEMMA GateBootstrap ==
    ASSUME LabInv, Apply, UNCHANGED lab, pc = "bootstrap"
    PROVE  Gate!Load \/ UNCHANGED Gate!vars
  <1>1. UNCHANGED <<pc, rig, files, resume, finished>> /\ Standing' = Standing
    BY DEF lab, Standing, Due
  <1>2. call.configure = FALSE /\ call.pc \notin {"rvps", "policy", "cert", "credential", "sig"}
    BY DEF LabInv, CallInv, TypeOK, TrusteeTypeOK, Calls
  <1>3. /\ config'.attached = config.attached /\ config'.policy = config.policy
        /\ config'.rvps = config.rvps
        /\ \/ serving' = serving
           \/ serving' = config /\ config' = config
    BY <1>2
    DEF Apply, At, objects, CheckCollateral, Create, AwaitGenerated, PatchOffline,
        PatchReferences, PatchPolicy, SeedCert, SeedCredential, SeedKey, Attach, Refresh, Recheck,
        LabInv, TypeOK, TrusteeTypeOK, Configurations
  <1>4. GateOf(config') = GateOf(config)
    BY <1>3, SameGate
  <1>5. GateOf(config)' = GateOf(config')
    BY DEF GateOf
  <1>6. (pc # "idle")' = (pc # "idle")
    BY <1>1
  <1>7. CASE serving' = serving
    <2>1. GateOf(serving)' = GateOf(serving)
      BY <1>7 DEF GateOf
    <2> QED
      BY <1>1, <1>4, <1>5, <1>6, <2>1 DEF Gate!vars
  <1>8. CASE serving' = config /\ config' = config
    <2>1. GateOf(serving)' = GateOf(config)
      BY <1>8 DEF GateOf
    <2> QED
      BY <1>1, <1>4, <1>5, <1>6, <2>1 DEF Gate!Load
  <1> QED
    BY <1>3, <1>7, <1>8

\* configure publishes the set that stands, then pins the policy, then opens.
LEMMA GateConfigure ==
    ASSUME LabInv, Apply, UNCHANGED lab, pc = "configuring"
    PROVE  Gate!Publish \/ Gate!Pin \/ Gate!Open \/ Gate!Load \/ UNCHANGED Gate!vars
  <1>1. UNCHANGED <<pc, rig, files, resume, finished>> /\ Standing' = Standing
    BY DEF lab, Standing, Due
  <1>2. Standing = Expected /\ Standing # None
    BY StandingLate
  <1>3. call.configure = TRUE /\ call.rvps = Expected /\ Place = call.pc
    <2>1. call.configure \in BOOLEAN
      BY DEF LabInv, TypeOK, TrusteeTypeOK, Calls
    <2>2. call.configure /\ call.rvps = Expected
      BY DEF LabInv, CallInv
    <2>3. Place = call.pc
      BY DEF Place, LabInv, StepInv
    <2> QED
      BY <2>1, <2>2, <2>3
  <1>4. config \in Configurations /\ Published
    BY DEF LabInv, TypeOK, TrusteeTypeOK
  <1>5. (pc # "idle")' = (pc # "idle") /\ pc # "idle"
    BY <1>1
  <1>6. GateOf(config)' = GateOf(config') /\ GateOf(serving)' = GateOf(serving')
    BY DEF GateOf
  <1>7. ASSUME UNCHANGED serving, NEW g, GateOf(config') = g
        PROVE  Gate!Write(g)
    <2>1. GateOf(serving)' = GateOf(serving)
      BY <1>6, <1>7
    <2> QED
      BY <1>1, <1>5, <1>6, <1>7, <2>1 DEF Gate!Write
  <1>8. ASSUME GateOf(config') = GateOf(config), UNCHANGED serving PROVE UNCHANGED Gate!vars
    BY <1>1, <1>5, <1>6, <1>8 DEF Gate!vars
  <1>9. CASE \/ CheckCollateral \/ Create \/ AwaitGenerated \/ PatchOffline \/ SeedCert
             \/ SeedCredential \/ SeedKey \/ Recheck
    <2>1. /\ config'.attached = config.attached /\ config'.policy = config.policy
          /\ config'.rvps = config.rvps /\ UNCHANGED serving
      BY <1>4, <1>9
      DEF objects, CheckCollateral, Create, AwaitGenerated, PatchOffline, SeedCert,
          SeedCredential, SeedKey, Recheck, Configurations
    <2> QED
      BY <1>8, <2>1, SameGate
  <1>10. CASE PatchReferences
    <2>1. config' = [config EXCEPT !.rvps = Standing] /\ UNCHANGED serving
      BY <1>2, <1>3, <1>10 DEF PatchReferences
    <2>2. /\ config'.rvps = Standing /\ config'.policy = config.policy
          /\ config'.attached = config.attached
      BY <1>4, <2>1 DEF Configurations
    <2>3. GateOf(config') = [GateOf(config) EXCEPT !.references = Standing]
      BY <2>2 DEF GateOf
    <2> QED
      BY <1>2, <1>7, <2>1, <2>3 DEF Gate!Publish
  <1>11. Place \in PolicyPatched \cup {"policy"} => Gate!InPlace
    BY <1>2, <1>4
    DEF Published, Gate!InPlace, GateOf, ReferencesPatched, PolicyPatched, Refreshed, Attached,
        KeySeeded, CredentialSeeded, CertSeeded
  <1>12. CASE PatchPolicy
    <2>1. config' = [config EXCEPT !.policy = "pinned"] /\ UNCHANGED serving /\ call.pc = "policy"
      BY <1>12 DEF PatchPolicy, At
    <2>2. /\ config'.rvps = config.rvps /\ config'.policy = "pinned"
          /\ config'.attached = config.attached
      BY <1>4, <2>1 DEF Configurations
    <2>3. GateOf(config') = [GateOf(config) EXCEPT !.pinned = TRUE]
      <3>1. (config'.policy = "pinned") = TRUE
        BY <2>2
      <3>2. GateOf(config') = [references |-> config.rvps, pinned |-> TRUE,
                               open |-> config.attached]
        BY <2>2, <3>1, Zenon DEF GateOf
      <3> QED
        BY <3>2, OpenGate
    <2>4. Gate!InPlace
      BY <1>3, <1>11, <2>1
    <2> QED
      BY <1>7, <2>1, <2>3, <2>4 DEF Gate!Pin
  <1>13. CASE Attach
    <2>1. UNCHANGED serving /\ call.pc = "attach"
      BY <1>13 DEF Attach, At
    <2>2. /\ config'.rvps = config.rvps /\ config'.policy = config.policy
          /\ config'.attached = TRUE
      BY <1>3, <1>4, <1>13 DEF Attach, Configurations
    <2>3. GateOf(config') = [GateOf(config) EXCEPT !.open = TRUE]
      <3>1. GateOf(config') = [references |-> config.rvps, pinned |-> config.policy = "pinned",
                               open |-> TRUE]
        BY <2>2, Zenon DEF GateOf
      <3> QED
        BY <3>1, OpenGate
    <2>4. Gate!InPlace
      BY <1>3, <1>11, <2>1
          DEF PolicyPatched, CertSeeded, CredentialSeeded, KeySeeded
    <2>5. config.policy = "pinned"
      BY <1>3, <1>4, <2>1 DEF Published, PolicyPatched, CertSeeded, CredentialSeeded, KeySeeded
    <2>6. GateOf(config).pinned
      BY <2>5 DEF GateOf
    <2> QED
      BY <1>7, <2>1, <2>3, <2>4, <2>6 DEF Gate!Open
  <1>14. CASE Refresh
    <2>1. GateOf(serving)' = GateOf(config) /\ GateOf(config)' = GateOf(config)
      BY <1>14 DEF Refresh, GateOf
    <2> QED
      BY <1>1, <1>5, <2>1 DEF Gate!Load
  <1> QED
    BY <1>9, <1>10, <1>12, <1>13, <1>14 DEF Apply

LEMMA GateOperator ==
    ASSUME LabInv, Operator, UNCHANGED lab
    PROVE  Gate!Load \/ UNCHANGED Gate!vars
  <1>1. /\ UNCHANGED <<pc, rig, files, resume, finished, config>> /\ Standing' = Standing
        /\ serving' = serving \/ serving' = config
    BY DEF lab, Standing, Due, Operator, Generate, Rollout
  <1>2. (pc # "idle")' = (pc # "idle") /\ GateOf(config)' = GateOf(config)
    BY <1>1 DEF GateOf
  <1>3. GateOf(serving)' = GateOf(serving) \/ GateOf(serving)' = GateOf(config)
    BY <1>1 DEF GateOf
  <1> QED
    BY <1>1, <1>2, <1>3 DEF Gate!Load, Gate!vars

LEMMA GateApprove ==
    ASSUME LabInv, Approve
    PROVE  \E r \in References : Gate!Approve(r)
  <1> USE DEF cluster, objects
  <1>1. /\ UNCHANGED <<config, serving, finished, rig, files>>
        /\ pc = "approve" /\ pc' = "images" /\ Due = 7 /\ Due' = 8
    BY DueAt, DueNext DEF Approve, StepOf
  <1>2. rig \in files.bundle /\ files.reviewed \in References
    BY <1>1 DEF LabInv, StepInv, Present, TypeOK, Files
  <1>3. Standing = None /\ Standing' = files.reviewed
    BY <1>1, <1>2 DEF Standing
  <1>4. /\ GateOf(config)' = GateOf(config) /\ GateOf(serving)' = GateOf(serving)
        /\ (pc # "idle")' = (pc # "idle")
    BY <1>1 DEF GateOf
  <1> QED
    BY <1>1, <1>2, <1>3, <1>4 DEF Gate!Approve

\* The end is reached with everything in place.
LEMMA GateFinish ==
    ASSUME LabInv, WriteEnv
    PROVE  Gate!Finish
  <1> USE DEF cluster, objects
  <1>1. /\ UNCHANGED <<config, serving, rig>> /\ finished'
        /\ pc = "env" /\ pc' = "idle" /\ Due' = 9
    BY DEF WriteEnv, Due
  <1>2. files'.bundle = files.bundle /\ files'.reviewed = files.reviewed
    BY DEF WriteEnv, LabInv, TypeOK, Files
  <1>3. Standing = Expected /\ Standing # None /\ Due = 9
    BY <1>1, StandingLate
  <1>4. Standing' = Standing
    BY <1>1, <1>2, <1>3, StandingFrame
  <1>5. Place = "complete"
    BY <1>1 DEF Place
  <1>6. config.rvps = Expected /\ config.policy = "pinned" /\ config.attached /\ serving = config
    BY <1>5
    DEF LabInv, Published, Refreshed, Attached, KeySeeded, CredentialSeeded, CertSeeded,
        PolicyPatched, ReferencesPatched, OfflinePatched
  <1>7. /\ GateOf(config).references = Standing /\ GateOf(config).pinned
        /\ GateOf(config).open /\ GateOf(serving) = GateOf(config)
    BY <1>3, <1>6 DEF GateOf
  <1>8. GateOf(config)' = GateOf(config) /\ GateOf(serving)' = GateOf(serving)
    BY <1>1 DEF GateOf
  <1> QED
    BY <1>1, <1>3, <1>4, <1>7, <1>8 DEF Gate!Finish, Gate!InPlace

LEMMA GateEnd ==
    ASSUME LabInv, LabInv', Stop \/ Missing \/ Refuse
    PROVE  Gate!GiveUp
  <1> USE DEF cluster, objects
  <1>1. /\ UNCHANGED <<config, serving, finished, rig>>
        /\ pc # "idle" /\ pc' = "idle"
    <2>1. CASE Stop \/ Missing
      BY <2>1, EndsEarlier DEF LabInv, End
    <2>2. CASE Refuse
      BY <2>2 DEF Refuse, End
    <2> QED
      BY <2>1, <2>2
  <1>2. Standing' \in {Standing, None}
    <2>1. CASE Stop \/ Missing
      <3>1. PICK step \in Steps : step <= Due /\ End(step) /\ UNCHANGED files
        BY <2>1, EndsEarlier DEF LabInv
      <3>2. Due' <= Due
        BY <3>1 DEF End, Due
      <3> QED
        BY <1>1, <3>1, <3>2, StandingLess DEF LabInv
    <2>2. CASE Refuse
      <3>1. files'.reviewed = None
        BY <2>2 DEF Refuse, LabInv, TypeOK, Files
      <3> QED
        BY <3>1 DEF Standing
    <2> QED
      BY <2>1, <2>2
  <1>3. GateOf(config)' = GateOf(config) /\ GateOf(serving)' = GateOf(serving)
    BY <1>1 DEF GateOf
  <1> QED
    BY <1>1, <1>2, <1>3 DEF Gate!GiveUp, Gate!MayReconsider

LEMMA GateStart ==
    ASSUME LabInv, LabInv', Start
    PROVE  Gate!Begin
  <1> USE DEF cluster, objects
  <1>1. PICK s \in 1..resume :
            /\ pc = "idle" /\ pc' = First[s] /\ ~finished'
            /\ UNCHANGED <<config, serving, rig, files>>
    BY DEF Start
  <1>2. s \in Steps /\ s <= resume
    BY DEF LabInv, TypeOK, Steps
  <1>3. pc' # "idle" /\ Due' = s /\ Due = resume
    BY <1>1, <1>2, FirstType, StepOfFirst, DueNext DEF Due
  <1>4. Standing' \in {Standing, None}
    BY <1>1, <1>2, <1>3, StandingLess DEF LabInv
  <1>5. GateOf(config)' = GateOf(config) /\ GateOf(serving)' = GateOf(serving)
    BY <1>1 DEF GateOf
  <1> QED
    BY <1>1, <1>3, <1>4, <1>5 DEF Gate!Begin, Gate!MayReconsider

\* What the Operator generates shows nothing.
LEMMA GateClosed == GateOf(Generated) = Gate!Closed
  <1>1. ("operator" = "pinned") = FALSE
    OBVIOUS
  <1> QED
    BY <1>1, Zenon DEF GateOf, Generated, Gate!Closed

\* With the rig its certificate is gone, with the lab only what was published.
LEMMA GateWithdraw ==
    ASSUME LabInv, LabInv', NewRig \/ ResetLab
    PROVE  Gate!Withdraw
  <1>1. /\ pc = "idle" /\ pc' = "idle" /\ ~finished'
        /\ config' = Generated /\ serving' = Generated /\ UNCHANGED <<files, resume>>
    BY DEF NewRig, ResetLab, Unpublish
  <1>2. Standing' \in {Standing, None}
    <2>1. CASE NewRig
      <3>1. rig' \notin files.bundle
        BY <2>1 DEF NewRig, LabInv, BundleUsed
      <3> QED
        BY <1>1, <3>1 DEF Standing
    <2>2. CASE ResetLab
      BY <1>1, <2>2 DEF ResetLab, Standing, Due
    <2> QED
      BY <2>1, <2>2
  <1>3. GateOf(config)' = GateOf(config') /\ GateOf(serving)' = GateOf(serving')
    BY DEF GateOf
  <1>4. GateOf(config)' = Gate!Closed /\ GateOf(serving)' = Gate!Closed
    BY <1>1, <1>3, GateClosed
  <1> QED
    BY <1>1, <1>2, <1>4 DEF Gate!Withdraw, Gate!MayReconsider

LEMMA GateStep == LabInv /\ LabInv' /\ [Next]_vars => [Gate!Next]_Gate!vars
  <1> SUFFICES ASSUME LabInv, LabInv', [Next]_vars PROVE Gate!Next \/ UNCHANGED Gate!vars
    OBVIOUS
  <1>a. TypeOK'
    BY DEF LabInv
  <1>1. CASE Apply /\ UNCHANGED lab
    <2>1. call.pc # "idle"
      BY <1>1
      DEF Apply, At, CheckCollateral, Create, AwaitGenerated, PatchOffline, PatchReferences,
          PatchPolicy, SeedCert, SeedCredential, SeedKey, Attach, Refresh, Recheck
    <2>2. pc \in {"bootstrap", "configuring"}
      BY <2>1 DEF LabInv, CallInv, NoCall
    <2> QED
      BY <1>1, <2>2, GateBootstrap, GateConfigure DEF Gate!Next
  <1>2. CASE Operator /\ UNCHANGED lab
    BY <1>2, GateOperator DEF Gate!Next
  <1>3. CASE \/ Collect \/ Seed \/ CallBootstrap \/ Bootstrapped \/ Label \/ CopyCA
             \/ CopyPassword \/ WriteInitdata \/ ReadCmdline \/ Veritas \/ Review \/ Build
             \/ CopyKey \/ CopyPub \/ CopyManifest \/ CallConfigure \/ Configured
    BY <1>a, <1>3, GateSequence
  <1>4. CASE Approve
    BY <1>4, GateApprove DEF Gate!Next
  <1>5. CASE WriteEnv
    BY <1>5, GateFinish DEF Gate!Next
  <1>6. CASE Stop \/ Missing \/ Refuse
    BY <1>6, GateEnd DEF Gate!Next
  <1>7. CASE Start
    BY <1>7, GateStart DEF Gate!Next
  <1>8. CASE NewRig \/ ResetLab
    BY <1>8, GateWithdraw DEF Gate!Next
  <1>9. CASE UNCHANGED vars
    <2>1. UNCHANGED <<config, serving, finished, pc>> /\ Standing' = Standing
      BY <1>9 DEF vars, cluster, objects, Standing, Due
    <2> QED
      BY <2>1, GateFrame
  <1> QED
    BY <1>1, <1>2, <1>3, <1>4, <1>5, <1>6, <1>7, <1>8, <1>9 DEF Next, Working

\* For any rigs, command lines, keys and stops, make trustee-lab implements the abstract
\* gate: only the set that was approved last is published, the policy and the resources
\* follow it, and a finished invocation has the pods serve all of it
\* (trustee-lab.py:218-235, apply-trustee.sh:126-153).
THEOREM GateImplemented == Spec => ImplementsGate
  <1>1. Init => Gate!Init
    <2> SUFFICES ASSUME Init PROVE Gate!Init
      OBVIOUS
    <2>1. /\ pc = "idle" /\ resume = 1 /\ ~finished
          /\ config = Generated /\ serving = Generated
      BY DEF Init, TrusteeInit
    <2>2. Standing = None
      BY <2>1 DEF Standing, Due
    <2> QED
      BY <2>1, <2>2, GateClosed DEF Gate!Init
  <1> QED
    BY <1>1, GateStep, LabInvHolds, PTL DEF Spec, ImplementsGate, Gate!Spec
===============================================================================
