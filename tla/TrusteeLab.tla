------------------------------ MODULE TrusteeLab ------------------------------
(***************************************************************************)
(* make trustee-lab: scripts/trustee-lab.py and review-references.py over  *)
(* ApplyTrustee.                                                           *)
(*                                                                         *)
(* The sequence hands its results on in files of COCO_STATE_DIR, which     *)
(* stays when the rig is replaced or the lab reset.  An invocation may     *)
(* stop anywhere; the next one starts where the operator says, which is at *)
(* the latest where the last one failed, or the step that its message      *)
(* named.                                                                  *)
(***************************************************************************)
EXTENDS ApplyTrustee

CONSTANT MaxStops  \* bound: stops, refused approvals and resets together

ASSUME BoundsAssumption == MaxStops \in Nat

VARIABLES
    rig,        \* the rig of rig.yml
    used,       \* the rigs there have been
    labeled,    \* the workload namespace is there, and both are labeled
    files,      \* COCO_STATE_DIR
    approvals,  \* the reference sets that were approved
    resume,     \* the last step that the next invocation may start at
    pc,         \* the next operation of the invocation
    built,      \* what the helper built: the signing key
    finished,   \* it ended well, for this rig and since the last reset
    stops

cluster == <<objects, labeled>>
vars == <<cluster, call, rig, used, files, approvals, resume, pc, built, finished, stops>>

---------------------------------------------------------------------------
Steps == 1..9

\* STEPS: the first operation of each.
First == <<"vcek", "bootstrap", "mirror", "initdata", "cmdline", "veritas", "references",
           "images", "configure">>

Labels == {First[s] : s \in Steps} \cup {"idle", "seed", "label", "password", "approve", "key",
                                         "pub", "manifest", "configuring", "env"}

StepOf(label) == CASE label \in {"vcek", "seed"} -> 1
                   [] label \in {"bootstrap", "label"} -> 2
                   [] label \in {"mirror", "password"} -> 3
                   [] label = "initdata" -> 4
                   [] label = "cmdline" -> 5
                   [] label = "veritas" -> 6
                   [] label \in {"references", "approve"} -> 7
                   [] label \in {"images", "key", "pub", "manifest"} -> 8
                   [] OTHER -> 9

Manifests == [signer : Keys, rig : Rigs]
Environments == [node : Rigs, manifest : Manifests]

Files == [bundle : SUBSET Rigs,  \* vcek-bundle-<server>, with a certificate
          ca : Rigs \cup {None}, password : Rigs \cup {None},
          initdata : Rigs \cup {None},  \* the CA in it
          cmdline : Lines \cup {None},
          generated : Launches \cup {None},
          reviewed : References \cup {None},
          key : Keys \cup {None}, pub : Keys \cup {None},
          manifest : Manifests \cup {None},
          env : Environments \cup {None}]

ASSUME NoFileAssumption == None \notin Manifests \cup Environments

TypeOK == /\ TrusteeTypeOK
          /\ rig \in Rigs /\ used \subseteq Rigs
          /\ labeled \in BOOLEAN
          /\ files \in Files
          /\ approvals \subseteq References
          /\ resume \in Steps
          /\ pc \in Labels
          /\ built \in Keys \cup {None}
          /\ finished \in BOOLEAN
          /\ stops \in 0..MaxStops

NoFiles == [bundle |-> {}, ca |-> None, password |-> None, initdata |-> None, cmdline |-> None,
            generated |-> None, reviewed |-> None, key |-> None, pub |-> None,
            manifest |-> None, env |-> None]

Init == /\ TrusteeInit /\ call = NoCall
        /\ rig \in Rigs /\ used = {rig}
        /\ labeled = FALSE
        /\ files = NoFiles
        /\ approvals = {}
        /\ resume = 1
        /\ pc = "idle"
        /\ built = None
        /\ finished = FALSE
        /\ stops = 0

---------------------------------------------------------------------------
\* An operation of the invocation that writes files, if anything.
Do(label, next, new) ==
    /\ pc = label /\ pc' = next
    /\ files' = new
    /\ UNCHANGED <<cluster, call, rig, used, approvals, resume, built, finished, stops>>

\* FROM=<step>.
Start == \E s \in 1..resume :
    /\ pc = "idle" /\ pc' = First[s]
    /\ finished' = FALSE
    /\ UNCHANGED <<cluster, call, rig, used, files, approvals, resume, built, stops>>

\* The invocation ends, the next one starts at `step` or before.
End(step) == /\ pc' = "idle" /\ resume' = step
             /\ call' = NoCall /\ built' = None
             /\ UNCHANGED <<cluster, rig, used, approvals, finished>>

\* The operator interrupts it, a call fails or its answer is lost.
Stop == /\ pc # "idle" /\ stops < MaxStops
        /\ stops' = stops + 1
        /\ End(StepOf(pc))
        /\ UNCHANGED files

(* vcek *)

\* What collect-vcek.sh keeps is the subject of VcekBundle.
Collect == Do("vcek", "seed", [files EXCEPT !.bundle = @ \cup {rig}])

Seed == /\ pc = "seed" /\ pc' = "bootstrap"
        /\ trustee' = [trustee EXCEPT !.vceks = @ \cup {rig}]
        /\ UNCHANGED <<config, secrets, serving, call, rig, used, labeled, files, approvals,
                       resume, built, finished, stops>>

\* hwid: the certificate of this server's own chip.
HwidMissing == rig \notin files.bundle

(* bootstrap *)

CallBootstrap == /\ pc = "bootstrap" /\ call.pc = "idle" /\ ~HwidMissing
                 /\ Bootstrap(rig)
                 /\ UNCHANGED <<cluster, rig, used, files, approvals, resume, pc, built,
                                finished, stops>>

Bootstrapped == /\ pc = "bootstrap" /\ pc' = "label"
                /\ call.pc = "complete" /\ call' = NoCall
                /\ UNCHANGED <<cluster, rig, used, files, approvals, resume, built, finished,
                               stops>>

Label == /\ pc = "label" /\ pc' = "mirror"
         /\ labeled' = TRUE
         /\ UNCHANGED <<objects, call, rig, used, files, approvals, resume, built,
                        finished, stops>>

(* mirror, initdata, cmdline and veritas *)

CopyCA == Do("mirror", "password", [files EXCEPT !.ca = rig])
CopyPassword == Do("password", "initdata", [files EXCEPT !.password = rig])

WriteInitdata == /\ files.ca # None
                 /\ Do("initdata", "cmdline", [files EXCEPT !.initdata = files.ca])

\* Any confidential VM of the node is taken for the probe's if it is the only one.
ReadCmdline == /\ labeled /\ files.ca # None
               /\ \E line \in Lines : Do("cmdline", "veritas", [files EXCEPT !.cmdline = line])

Veritas == /\ files.initdata # None /\ files.cmdline # None
           /\ Do("veritas", "references",
                 [files EXCEPT !.generated = [initdata |-> files.initdata,
                                              cmdline |-> files.cmdline]])

(* references *)

\* review: the launch reference and the levels that the chip's certificate was
\* requested for.  The file is there before the question is asked.
ReviewOnce ==  \* mutant: a file that is there is not written again
    /\ files.generated # None /\ ~HwidMissing
    /\ Do("references", "approve",
          [files EXCEPT !.reviewed = IF @ # None THEN @
                                     ELSE [launch |-> files.generated, tcb |-> rig]])
Review == /\ files.generated # None /\ ~HwidMissing
          /\ Do("references", "approve",
                [files EXCEPT !.reviewed = [launch |-> files.generated, tcb |-> rig]])

\* At the terminal, or ahead with APPROVE_REFERENCES=1.
Approve == /\ pc = "approve" /\ pc' = "images"
           /\ approvals' = approvals \cup {files.reviewed}
           /\ UNCHANGED <<cluster, call, rig, used, files, resume, built, finished, stops>>

\* An answer other than yes, or no terminal.  Nothing failed, and the file is gone: the
\* next invocation may start at any step.
RefuseKept == /\ pc = "approve" /\ stops < MaxStops  \* mutant: the file stays
              /\ stops' = stops + 1
              /\ End(9)
              /\ UNCHANGED files
Refuse == /\ pc = "approve" /\ stops < MaxStops
          /\ stops' = stops + 1
          /\ files' = [files EXCEPT !.reviewed = None]
          /\ End(9)

(* images *)

\* A key pair is sent to the helper, which generates one if nothing was sent and
\* refuses half of one.
HalfPair == (files.key = None) # (files.pub = None)

Build == /\ pc = "images" /\ pc' = "key"
         /\ ~HalfPair
         /\ built' \in IF files.key # None THEN {files.key} ELSE Keys
         /\ UNCHANGED <<cluster, call, rig, used, files, approvals, resume, finished, stops>>

\* The results are copied back one by one.
CopyKey == Do("key", "pub", [files EXCEPT !.key = built])
CopyPub == Do("pub", "manifest", [files EXCEPT !.pub = built])

CopyManifest == /\ pc = "manifest" /\ pc' = "configure"
                /\ files' = [files EXCEPT !.manifest = [signer |-> built, rig |-> rig]]
                /\ built' = None
                /\ UNCHANGED <<cluster, call, rig, used, approvals, resume, finished, stops>>

(* configure and write_env *)

CallConfigure == /\ pc = "configure" /\ pc' = "configuring"
                 /\ ~HwidMissing /\ files.reviewed # None /\ files.manifest # None
                 /\ Configure(rig, files.reviewed,
                              [cert |-> files.ca, credential |-> files.password,
                               sig |-> files.pub])
                 /\ UNCHANGED <<cluster, rig, used, files, approvals, resume, built, finished,
                                stops>>

Configured == /\ pc = "configuring" /\ pc' = "env"
              /\ call.pc = "complete" /\ call' = NoCall
              /\ UNCHANGED <<cluster, rig, used, files, approvals, resume, built, finished,
                             stops>>

WriteEnvBare == /\ pc = "env" /\ pc' = "idle"  \* mutant: without the manifest
                /\ files' = [files EXCEPT !.env = [node |-> rig]]
                /\ finished' = TRUE
                /\ resume' = 9
                /\ UNCHANGED <<cluster, call, rig, used, approvals, built, stops>>
WriteEnv == /\ pc = "env" /\ pc' = "idle"
            /\ files' = [files EXCEPT !.env = [node |-> rig, manifest |-> files.manifest]]
            /\ finished' = TRUE
            /\ resume' = 9
            /\ UNCHANGED <<cluster, call, rig, used, approvals, built, stops>>

---------------------------------------------------------------------------
\* The step that makes what an operation finds missing: hwid and need name it in their
\* message, a Secret or namespace that is not there shows which it is.
MissingForItself(label) ==  \* mutant: the step that found it missing
    IF label = "idle" THEN {} ELSE
    {s \in {StepOf(label)} :
       \/ label \in {"bootstrap", "references", "configure"} /\ HwidMissing
       \/ call.pc = "collateral" /\ CollateralMissing}
MissingFor(label) ==
    {s \in Steps :
       \/ s = 1 /\ label \in {"bootstrap", "references", "configure"} /\ HwidMissing
       \/ s = 1 /\ call.pc = "collateral" /\ CollateralMissing
       \/ s = 2 /\ label = "cmdline" /\ ~labeled
       \/ s = 7 /\ label = "configure" /\ ~HwidMissing /\ files.reviewed = None
       \/ s = 8 /\ label = "images" /\ HalfPair}

Missing == \E step \in MissingFor(pc) : End(step) /\ UNCHANGED <<files, stops>>

\* The rig is deleted and another one is ordered and installed.
NewRig == /\ pc = "idle"
          /\ rig' \in Rigs \ used /\ used' = used \cup {rig'}
          /\ Unpublish /\ labeled' = FALSE
          /\ finished' = FALSE
          /\ UNCHANGED <<call, files, approvals, resume, pc, built, stops>>

\* make reset-lab, and the Operators installed again.
ResetLab == /\ pc = "idle" /\ trustee # NoTrustee /\ stops < MaxStops
            /\ Unpublish /\ labeled' = FALSE
            /\ finished' = FALSE
            /\ stops' = stops + 1
            /\ UNCHANGED <<call, rig, used, files, approvals, resume, pc, built>>

lab == <<rig, used, labeled, files, approvals, resume, pc, built, finished, stops>>

Working == \/ Apply /\ UNCHANGED lab
           \/ Collect \/ Seed \/ CallBootstrap \/ Bootstrapped \/ Label
           \/ CopyCA \/ CopyPassword \/ WriteInitdata \/ ReadCmdline \/ Veritas
           \/ Review \/ Approve \/ Build \/ CopyKey \/ CopyPub \/ CopyManifest
           \/ CallConfigure \/ Configured \/ WriteEnv \/ Missing

Next == \/ Working \/ Start \/ Stop \/ Refuse \/ NewRig \/ ResetLab
        \/ Operator /\ UNCHANGED lab

Spec == Init /\ [][Next]_vars

\* The invocation and the Operator go on, and the operator starts again until it is
\* finished.
FairSpec == /\ Spec
            /\ WF_vars(Working)
            /\ WF_vars(Generate /\ UNCHANGED lab)
            /\ WF_vars(~finished /\ Start)

---------------------------------------------------------------------------
(* Safety *)

\* What the guests of this rig are measured against: its own mirror's CA, the command
\* line that was read, and the firmware levels of its own chip.
Expected == [launch |-> [initdata |-> rig, cmdline |-> files.cmdline], tcb |-> rig]

\* Whichever stops, refusals, resets and rigs came before, and wherever the operator
\* started again, an invocation that ended well leaves Trustee serving the approved
\* references of this rig, its certificate and the Secrets that fit the signed images
\* (trustee-lab.py:353-365).
FinishedIsCurrent ==
    finished => /\ serving.rvps = Expected /\ Expected \in approvals
                /\ serving.policy = "pinned" /\ serving.offline /\ serving.attached
                /\ rig \in serving.mounts \cap trustee.vceks
                /\ secrets = [cert |-> rig, credential |-> rig,
                              sig |-> files.manifest.signer]
                /\ files.env = [node |-> rig, manifest |-> files.manifest]
                /\ files.manifest.rig = rig

\* "reference values not approved; nothing was published" (trustee-lab.py:235): the file
\* is written before the question, yet no reference set reaches the cluster unapproved.
PublishedWasApproved == config.rvps \in approvals \cup {None}

(* Liveness *)

\* Only half of a key pair keeps the sequence from its end.
Finishes == []<>finished \/ <>[]HalfPair

\* "After a failure, fix the cause and start again at the failed step"
\* (trustee-lab.py:18): a stop that goes away does not keep it from its end.
RestartFinishes == []<>finished

---------------------------------------------------------------------------
(* Refinement *)

\* The step whose results may still change.
Due == IF pc = "idle" THEN resume ELSE StepOf(pc)

\* The file of references counts from the approval on, until an invocation starts before
\* it or another rig comes.
Standing == IF rig \in files.bundle /\ Due > 7 THEN files.reviewed ELSE None

GateOf(c) == [references |-> c.rvps, pinned |-> c.policy = "pinned", open |-> c.attached]

Gate == INSTANCE ReferenceGate
    WITH standing <- Standing, gate <- GateOf(config), live <- GateOf(serving),
         working <- pc # "idle", done <- finished

\* The sequence is the abstract gate: of all the reference sets in old files only the one
\* that was approved last is ever published, not one that an earlier answer or an earlier
\* rig left; policy and resources follow it, and the end is reached when the pods serve it
\* (trustee-lab.py:218-235, apply-trustee.sh:126-153).
ImplementsGate == Gate!Spec
===============================================================================
