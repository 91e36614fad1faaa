----------------------------- MODULE ApplyTrustee -----------------------------
(***************************************************************************)
(* The disposable lab's Trustee and what publishes to it:                  *)
(* scripts/apply-trustee.sh with lib/trustee_config.py and                 *)
(* seed-trustee-secrets.sh, in the Permissive profile.                     *)
(*                                                                         *)
(* A call is an invocation for one chip.  Each of its steps is a write to  *)
(* the cluster, or a check that a later write waits for, so that an        *)
(* invocation may stop between any two.  The Operator works beside it.     *)
(***************************************************************************)
EXTENDS Naturals

CONSTANTS
    Rigs,   \* a rig stands for its node, that node's chip and its mirror
    Lines,  \* guest kernel command lines
    Keys,   \* signing keys
    None

\* A launch reference is calculated from an initdata, which holds a mirror's CA, and a
\* command line; the reviewed set adds the firmware levels of a chip.
Launches == [initdata : Rigs, cmdline : Lines]
References == [launch : Launches, tcb : Rigs]

ASSUME NoneAssumption == None \notin Rigs \cup Lines \cup Keys \cup Launches \cup References

VARIABLES
    trustee,  \* the TrusteeConfig, what the Operator made of it, and collateral Secrets
    config,   \* what the ConfigMaps and the KbsConfig say
    secrets,  \* the resource Secrets
    serving,  \* the configuration that the serving pods loaded
    call      \* the invocation of apply-trustee.sh

objects == <<trustee, config, secrets, serving>>

---------------------------------------------------------------------------
Policies == {"operator", "pinned"}

Configurations == [rvps : References \cup {None}, policy : Policies, offline : BOOLEAN,
                   mounts : SUBSET Rigs, attached : BOOLEAN]

Secrets == [cert : Rigs \cup {None}, credential : Rigs \cup {None}, sig : Keys \cup {None}]

Trustees == [created : BOOLEAN,    \* the TrusteeConfig
             generated : BOOLEAN,  \* the Operator's KbsConfig and migrated ConfigMaps
             vceks : SUBSET Rigs]  \* collateral Secrets

CallLabels == {"idle", "collateral", "create", "ready", "offline", "rvps", "policy",
               "cert", "credential", "sig", "attach", "refresh", "recheck", "complete"}

Calls == [pc : CallLabels,
          configure : BOOLEAN,  \* else bootstrap
          hwid : Rigs \cup {None},
          rvps : References \cup {None}, seeds : Secrets]

NoSecrets == [cert |-> None, credential |-> None, sig |-> None]

Generated == [rvps |-> None, policy |-> "operator", offline |-> FALSE, mounts |-> {},
              attached |-> FALSE]

NoTrustee == [created |-> FALSE, generated |-> FALSE, vceks |-> {}]

NoCall == [pc |-> "idle", configure |-> FALSE, hwid |-> None, rvps |-> None, seeds |-> NoSecrets]

TrusteeTypeOK == /\ trustee \in Trustees
                 /\ config \in Configurations
                 /\ secrets \in Secrets
                 /\ serving \in Configurations
                 /\ call \in Calls

TrusteeInit == /\ trustee = NoTrustee /\ config = Generated
               /\ secrets = NoSecrets /\ serving = Generated

\* The Operators and their namespace are gone.
Unpublish == /\ trustee' = NoTrustee /\ config' = Generated
             /\ secrets' = NoSecrets /\ serving' = Generated

---------------------------------------------------------------------------
\* The invocation is at a label and goes on to the next one.
At(label, next) == /\ call.pc = label
                   /\ call' = [call EXCEPT !.pc = next]

Bootstrap(rig) == call' = [NoCall EXCEPT !.pc = "collateral", !.hwid = rig]

\* rvps_values validates the references into a copy that is published later.
Configure(rig, references, seeds) ==
    call' = [pc |-> "collateral", configure |-> TRUE, hwid |-> rig, rvps |-> references,
             seeds |-> seeds]

\* The Secret of every mount is there; otherwise see CollateralMissing.
CheckCollateral == /\ At("collateral", "create")
                   /\ call.hwid \in trustee.vceks
                   /\ UNCHANGED objects

\* "missing collateral Secret ...; collect/import it first"
CollateralMissing == call.pc = "collateral" /\ call.hwid \notin trustee.vceks

\* An existing TrusteeConfig is kept as it is.
Create == /\ At("create", "ready")
          /\ trustee' = [trustee EXCEPT !.created = TRUE]
          /\ UNCHANGED <<config, secrets, serving>>

\* generated_ready, before the first write: exactly one KbsConfig, owned by this
\* TrusteeConfig, and all its ConfigMaps migrated.
AwaitGenerated == /\ At("ready", "offline")
                  /\ trustee.generated
                  /\ UNCHANGED objects

\* patch_toml: certificates come from the offline store only.
PatchOfflineLast == /\ At("offline", "attach")  \* mutant: resources come first
                    /\ config' = [config EXCEPT !.offline = TRUE]
                    /\ UNCHANGED <<trustee, secrets, serving>>
PatchOffline == /\ At("offline", IF call.configure THEN "rvps" ELSE "attach")
                /\ config' = [config EXCEPT !.offline = TRUE]
                /\ UNCHANGED <<trustee, secrets, serving>>

PatchReferencesKept ==  \* mutant: references that are there are kept
    /\ At("rvps", "policy")
    /\ config' = [config EXCEPT !.rvps = IF @ = None THEN call.rvps ELSE @]
    /\ UNCHANGED <<trustee, secrets, serving>>
PatchReferences == /\ At("rvps", "policy")
                   /\ config' = [config EXCEPT !.rvps = call.rvps]
                   /\ UNCHANGED <<trustee, secrets, serving>>

PatchPolicy == /\ At("policy", "cert")
               /\ config' = [config EXCEPT !.policy = "pinned"]
               /\ UNCHANGED <<trustee, secrets, serving>>

\* seed-trustee-secrets.sh: the Secrets in its order; the last one goes with the VCEK's.
SeedCert == /\ At("cert", "credential")
            /\ secrets' = [secrets EXCEPT !.cert = call.seeds.cert]
            /\ UNCHANGED <<trustee, config, serving>>

SeedCredential == /\ At("credential", "sig")
                  /\ secrets' = [secrets EXCEPT !.credential = call.seeds.credential]
                  /\ UNCHANGED <<trustee, config, serving>>

SeedKey == /\ At("sig", "attach")
           /\ secrets' = [secrets EXCEPT !.sig = call.seeds.sig]
           /\ trustee' = [trustee EXCEPT !.vceks = @ \cup {call.hwid}]
           /\ UNCHANGED <<config, serving>>

\* kbs_patch adds to the mounts and resources that are there; bootstrap brings no resources.
Attach == /\ At("attach", "refresh")
          /\ config' = [config EXCEPT !.mounts = @ \cup {call.hwid},
                                      !.attached = @ \/ call.configure]
          /\ UNCHANGED <<trustee, secrets, serving>>

\* refresh-trustee.py replaces the pods and waits until the new ones serve the current
\* versions and mounts.
Refresh == /\ At("refresh", "recheck")
           /\ serving' = config
           /\ UNCHANGED <<trustee, config, secrets>>

Recheck == /\ At("recheck", "complete")
           /\ trustee.generated
           /\ UNCHANGED objects

Apply == \/ CheckCollateral \/ Create \/ AwaitGenerated \/ PatchOffline
         \/ PatchReferences \/ PatchPolicy \/ SeedCert \/ SeedCredential \/ SeedKey
         \/ Attach \/ Refresh \/ Recheck

---------------------------------------------------------------------------
(* The Operator *)

Generate == /\ trustee.created /\ ~trustee.generated
            /\ trustee' = [trustee EXCEPT !.generated = TRUE]
            /\ UNCHANGED <<config, secrets, serving, call>>

\* The Deployment may replace its pods at any time.
Rollout == /\ trustee.generated /\ serving # config
           /\ serving' = config
           /\ UNCHANGED <<trustee, config, secrets, call>>

Operator == Generate \/ Rollout

---------------------------------------------------------------------------
\* "configure: publish approved policy/RVPS before attaching workload resources"
\* (apply-trustee.sh:5): wherever an invocation stopped and whenever the pods were
\* replaced, no pod serves resources under the Operator's own policy, or without
\* references.
ResourcesBehindPolicy ==
    \A c \in {config, serving} :
        c.attached => c.policy = "pinned" /\ c.rvps # None
===============================================================================
