# Verification of the confidential-containers lab

This directory holds TLA+ models of the parts of this repository whose mistakes cost the most: a
proof run that leaves Trustee serving a weakened policy, an installation that erases a machine
twice, a certificate cache that vouches for the wrong request, a server that is ordered and paid
twice, reference values of another rig, Operators of another release. TLC checks the models on
small instances, TLAPS proves the central facts for every instance.

`PROJECT.json` is the index: components, runs, the mutant that each property catches, the
source lines of every definition, hazards, findings and theorems. All `src/` paths below
are relative to the repository's root.

## 1. The system

The repository installs a bare-metal OpenShift node with confidential containers and then
proves, with guests that must be denied, that attestation works. It is a set of command
line programs around four stores that outlive each of them: the Kubernetes API server, the
disk of the helper (bastion), the server provider, and cache directories on the controller.
Almost nothing is concurrent inside one program. What is hard is what happens *between*
programs: each may stop anywhere, each call may be applied with its answer lost, and the
next invocation, or another tool, starts from whatever is left.

| component | state it keeps | operations | status |
|---|---|---|---|
| Proof runner (`scripts/run-proofs.py`, `lib/proof_core.py`) | ConfigMap `coco-proof-lock`, three shared Trustee resources, recovery files, negative pods, report | acquire, edit, rotate, control, negative, restore, record, release | modelled |
| Reinstall journal (`ansible/roles/install_drive`) | `provider_request_dir/<server>.json`, the provider's reinstall | decide, gate, record intent, POST, record acceptance, wait | modelled |
| PXE publication (`ansible/roles/pxe_serve`) | `cluster_assets_dir` (marker, boot files, kubeconfig), webroot, nginx server block | prepare, remove, build, record identity, stage, publish, close | partly |
| `ansible/up.sh`, `playbooks/site.yml` | none of its own | the modes fresh-install and resume-install, the tag pxe-stop | partly |
| VCEK bundle (`lib/vcek_bundle.py`, `collect-vcek.sh`) | per hardware ID: input, request, certificate, its record, history | request, fetch, publish, archive, seed | partly |
| Trustee rotation (`lib/trustee_config.py`, `refresh-trustee.py`) | pods and ReplicaSets of Trustee | restart, wait until the current data is served | partly |
| Trustee configuration (`apply-trustee.sh`, `seed-trustee-secrets.sh`) | TrusteeConfig, KbsConfig, its ConfigMaps and Secrets | check collateral, create, publish configuration, reference values, policy, Secrets, resources, refresh | partly |
| Trustee lab (`trustee-lab.py`, `review-references.py`) | files of `COCO_STATE_DIR` | nine steps from `vcek` to `configure`, restarts with `FROM` | modelled |
| Denial recognition (`lib/proof_core.py`) | none | match log frames against the expected denial | planned |
| Rig ordering (`order-rig.py`, `infra/cherry`) | order and rig files, host keys, Terraform state, the provider's servers | choose, adopt, plan, apply, reach, bootstrap, check, write | partly |
| Worker installation (`apply-sno.sh`, `lib/worker_install.py`) | Subscriptions, InstallPlans, CSVs, KataConfig, MachineConfigPool | check plans, ask, approve, apply, wait for the runtime | partly |
| Removal and reset (`uninstall-coco.sh`, `reset-lab.sh`) | the cluster | ordered deletion | planned later |
| Mirror, helper preparation, node checks, workloads, releases and tools | files, packages | see section 8 | not modelled |

### How they interact

* **Through the Trustee namespace.** Runs of `run-proofs.py` exclude one another with the
  lock. `apply-trustee.sh`, `seed-trustee-secrets.sh` and `refresh-trustee.py` write the same
  ConfigMaps and Secrets and never read the lock. The Operator and the kubelet restart pods
  on their own; a pod serves what it loaded when it started, so what is *stored* and what is
  *served* differ until a rotation has converged.
* **Through the helper's disk.** `pxe_serve` produces boot files for an input revision and
  leaves a marker; `install_drive` of the same or of a later invocation trusts that marker.
  The kubeconfig of the same directory is what the wait polls with.
* **Through the provider.** A reinstall is accepted at one moment, erases the machine, and
  only later makes the machine netboot from whatever the helper publishes *then*.
* **Through `COCO_STATE_DIR`.** `trustee-lab.py` hands the results of a step to the next one in
  files. The directory outlives the rig and the lab, and no file says which rig it is of.
* **Through OLM and the Machine Config Operator.** `apply-sno.sh` reads what they did one object
  after the other; both go on between any two reads.
* **Through the VCEK cache.** Any number of collectors replace its files atomically one by
  one, without a lock across files; `--seed` later trusts whatever counts as current.

### What is hard, and what makes each part correct

1. *Proof runner.* A modification must never outlive the knowledge of how to undo it: not
   after lost answers, failed restorations, signals or kills, and not by editing on top of
   another run's leftovers. A value that review approved in between must not be lost. A
   denied guest keeps asking, so it must be gone before the original policy is served again.
   A denial proves something only if the modified value was what Trustee served.
2. *Installation.* No machine may be erased by a mere re-run. The journal must know of
   every accepted reinstall although the controller can die between POST and answer. The
   boot files that are published when the reinstall is accepted must be of the recorded
   revision although builds, removals and inputs change in between. A success must mean that
   the requested installation is what runs.
3. *VCEK bundle.* A certificate that `current` accepts must have been issued for the
   current request, whatever overlaps or stops, and one undisturbed invocation must repair
   whatever earlier ones left.

4. *Rig ordering.* However often it is run and wherever it stopped, no server may be ordered
   while another of its role runs unrecorded, and none deleted that nobody agreed to replace.
   Keys pinned for an earlier rig must not be trusted for this one, and "Rig ready" must mean
   that its servers were checked; for a helper that was ordered again it does not (section 4).
5. *Trustee lab.* Wherever it stopped and started again, whichever rigs came before and
   whenever Trustee's pods were replaced, resources are served only under the reviewed policy
   and with references that somebody approved; and an invocation that ended well left what
   belongs to this rig.
6. *Worker installation.* Only the plans that were checked may be approved, after one question
   that shows them all, and nobody may wait for an answer that does not come. The end must
   mean that every node has the runtime, although no two objects were read together.

`PROJECT.json` lists 40 such hazards, each at its line, with the properties that cover it or
the reason why none does yet.

## 2. Modules

| module | what it is |
|---|---|
| `TrusteeEdits` | abstract specification: one owner edits reviewed values, and leaves when no edit is left |
| `ProofRunner` | detailed specification of `run-proofs.py`: one action for each API call |
| `ProofRunnerProofs` | inductive invariant of `ProofRunner` and its safety theorems |
| `ProofRunnerRefinement` | `ProofRunner` implements `TrusteeEdits` |
| `ReinstallLedger` | abstract specification: an erasure is announced, asked for once, then settled |
| `FreshInstall` | `pxe_serve`, `install_drive` and `up.sh` composed over helper, provider and machines |
| `FreshInstallProofs` | inductive invariant of `FreshInstall`, its theorems, and that it implements `ReinstallLedger` |
| `VcekBundle` | the cache of one hardware ID, one action for each file operation |
| `VcekBundleProofs` | inductive invariants of `VcekBundle` and its theorems |
| `ServerFleet` | abstract specification: the servers that are billed, session by session |
| `OrderRig` | successive invocations of `make order-rig` with Terraform and the provider |
| `OrderRigProofs` | inductive invariants of `OrderRig`, its theorems, and that it implements `ServerFleet` |
| `ReferenceGate` | abstract specification: one approved reference set, then the policy, then the resources |
| `ApplyTrustee` | one invocation of `apply-trustee.sh` write by write, and the Trustee Operator |
| `TrusteeLab` | `make trustee-lab` over `ApplyTrustee`: successive invocations, rigs and resets |
| `TrusteeLabProofs` | inductive invariant of `TrusteeLab` with `ApplyTrustee`, their theorems, and that they implement `ReferenceGate` |
| `StagedInstall` | abstract specification: consent, Operators, runtime, report, in this order |
| `WorkerInstall` | `apply-sno.sh` beside OLM, the Machine Config Operator and the sandboxed containers Operator |
| `WorkerInstallProofs` | inductive invariant of `WorkerInstall`, its theorems, and that it implements `StagedInstall` |
| `MCProofRunner`, `MCFreshInstall`, `MCVcekBundle`, `MCOrderRig`, `MCTrusteeLab`, `MCWorkerInstall` | instances for TLC |

### ProofRunner

`lock`, `resource`, `served` and `guest` are the cluster: the ConfigMap `coco-proof-lock`;
data, resourceVersion and uid of the policy and reference-value ConfigMaps and of the VCEK
Secret; what the serving pods loaded; the negative pod of each run. `pc` and `run` are one
process of `run-proofs.py` per controller: `run[c].orig` is the recovery file, `armed` is
`ResourceEdit.modified is not None`, `named` is `negative_name is not None`, `holds` is
`ProofLock.uid is not None`. `inflight` holds requests whose client has given up.

Each action is one call to the API together with the local code up to the next call. Every
call has the outcomes the code distinguishes: success, a refusal, a failure before or after
it took effect (a lost answer), and, for patches with `LateCommits`, a commit after the
client gave up. An exception ends the try block, and `Finally`, `AfterRemoval` and
`AfterFinally` are the order of the finally block: remove the negative pod, restore, rotate,
then the recovery control or the pending exception. `Kill` is SIGKILL; SIGTERM is a failure of
the call during which it arrives, because `run-proofs.py` turns it into an exception.

A value is a reviewed version, or one controller's modification of it: `{**original, key:
changed}` always differs from its original and from those of other runs, which is all the
properties tell apart. `Attest` is a guest of the case: the modification denies it, anything
else may deny or release it. `Serve` starts pods on current data at any time, `Review` and
`Reinstate` are the other tools and the Operator, `Recover` is the documented manual recovery
(`docs/capability-status.md`).

### TrusteeEdits

What everyone who shares a Trustee may rely on: `Take`, `Modify` only the approved value and
only as owner, `Undo`, `Leave` only when nothing is modified, and `Review` at any time. The
refinement maps `owner` to `lock` and `value` to the data of the resources.

### FreshInstall

`assets`, `journal`, `legacy`, `webroot` and `listening` are the helper's disk and nginx;
`accepted`, `attempt`, `pending` and `rebuilds` are the provider; `installed` is what each machine
booted. `job` and `pc` are one invocation. Each action is one task, or a block of tasks that
only reads: the refusals of `prepare.yml` are `PrepareRefused`, those of `reinstall.yml` are
`RequestRefused`, the provider identity and network proof are `Gate`. `RemoveAssets` and
`BuildFiles` may stop half-way and leave any part; `StageFiles` may leave no usable copy.
`PostRebuild` is accepted with its answer, accepted without it, or refused. `Boot` is the
machine: it netboots what is published at that time. `OldHelper` is a helper of before the
records moved out of the assets directory, and `MigrateLegacy` the documented move.

Each build makes new keys, so builds are numbered: a kubeconfig belongs to one build. That is
what the finding `fresh_install_revert` turns on.

`ReinstallLedger` says what the records are for, without jobs, files or places: `Announce`,
then `Erase` or `Refuse`, then `Settle`. The refinement maps `record` to the record in the
journal or, before its migration, in the legacy directory, and `erased` to `rebuilds`.

Assumed of operators, because the repository documents it: `retry_reinstall` is set only
after it was confirmed that the ambiguous request was not accepted
(`install_drive/defaults/main.yml:6`), and pxe-stop by hand only when no accepted machine
still needs the files (`docs/troubleshooting.md`).

### VcekBundle

`input`, `request`, `der`, `source` and `history` are the files of `<cache>/<hardware ID>/`.
`request` holds the input whose digest `vcek.request.json` records. A certificate carries the
input it was issued for, which no file of the bundle knows: that is what the properties
compare with. A collector is `collect-vcek.sh` in one of its modes; `Start` runs up to the
first file operation, `ReadDigest` and `CopyFiles` are `archive`, `WriteInput` and `WriteRequest`
the rest of `request`, `Decide` is `current`, `Check`, `WriteDer` and `WriteSource` are
`publish`. `Interrupt` stops a collector between any two of them. Files are replaced
atomically (`os.replace`), except copies into the history, which may be `Torn`.

### OrderRig

`cloud` is what the provider has delivered or is delivering, `recorded` the Terraform state,
`order`, `marker`, `known` and `rigFile` the files `rig-order.json`, `known_hosts.servers`,
`known_hosts` and `rig.yml`; `mirror` and `bonded` are the helper's bootstrap and the node's bond.
`run` is one invocation; the next starts when it ended. `Choose` to `WriteRigFile` are
the stages of `main` in order; `Interrupt` ends the invocation at any of them, whether by
Ctrl-C, a `Stop` or a deadline. A state that cannot be listed makes `Choose` ask for a
choice although servers are recorded, and makes `List` look for servers of both roles.

Terraform is modelled by what `order-rig.py` relies on (`infra/cherry/main.tf:18-21`): a plan
refreshes the state, a server of another choice must be replaced, a server is recorded only
once it was delivered (`Delivered`), and an order whose answer was lost is not recorded
(`Create`). `Destroy` may stop between the deletion and its record. `switch` decides whether the
two servers share a network, the precondition of `rig_values`.

`ServerFleet` is what the one who pays is told: `Order` where there is no server of the role,
`Replace` the helper of a complete pair after `Agree` in the same session, `Remove` by hand between
sessions. The refinement maps its servers to those that the provider bills (`Billed`), the
session to the invocation and `agreed` to `run.replace`; Terraform's state does not appear in it.

Assumed of operators, because the messages and `docs/maintenance.md` say so: recorded servers
are deleted with terraform destroy, others in the portal.

### ApplyTrustee and TrusteeLab

`trustee`, `config` and `secrets` are what the namespace holds: the TrusteeConfig, what the
Operator generated of it and the collateral Secrets; what the KbsConfig and the ConfigMaps
say; the resource Secrets. `serving` is the configuration that the serving pods loaded.
`call` is one invocation of `apply-trustee.sh`, `bootstrap` or `configure`, with the references and
Secrets it was given. `CheckCollateral` to `Recheck` are its writes, and the checks between
them, in order. `Generate` and `Rollout` are the Operator and Kubernetes, at any time.

`TrusteeLab` shares those variables and adds the sequence: `files` is `COCO_STATE_DIR`, `pc` the
next operation of the invocation, `built` what the helper built, `approvals` the reference sets
somebody approved, `resume` the last step that the next invocation may start at. Every file is
written by an action of its own, because `write_private` is atomic and nothing else is: the CA
and the registry password, the key, its public half and the manifest. `Review` writes the file
before the question, `Approve` and `Refuse` are the answers. `Missing` is `need`, `hwid` or a
failing call that names what is not there; it sends the operator to the step that makes it.

A rig stands for its node, that node's chip and its mirror, so a certificate, a CA or a
reference set is identified with the rig it is of. No code compares them: that the published
ones are this rig's follows from the order of the steps alone, which is what
`FinishedIsCurrent` is about. `NewRig` deletes the rig and installs another, `ResetLab` is `make
reset-lab`; both leave the files.

`ReferenceGate` is what the lab's owner is told: he stands by at most one reference set;
`Publish`, `Pin` and `Open` happen in this order and with that set, `Load` is what pods see of
it, `Finish` needs all of it loaded. The refinement maps `standing` to the file of reviewed
references, but only from the approval on and while this rig's certificate is at hand
(`Standing`): the file itself is there before the question and outlives the rig.

Assumed of operators, because the documentation says so: the next invocation starts where the
last one failed or earlier (`trustee-lab.py:17-18`, `docs/trustee.md:56`), after a message at the
latest at the step it names, and rigs change only between invocations. The rest of a bundle
of another server's chip never fits, because hardware IDs differ.

### WorkerInstall

`plans` and `installed` are OLM: the install plans of each Subscription, of which the last is
the current one, and the CSV that was installed. `node`, `pool` and `kata` are configurations:
what each node runs, what the pool should run and what its status says, and which one brought
the runtime. `run` is the state of the installer: the Subscriptions still to be read in this
poll, the plans that wait (`PENDING_PLANS`), what `kata_ready` has read so far.

`StagedInstall` is what the owner of the cluster is told: `Agree`, `Grant` and `Install` for each
Operator that is not there, `Apply` when all are, `Equip` node by node, `Report`. The refinement
maps `granted` to the CSVs of the approved plans, and `equipped` to the nodes with the runtime.

One action is one read or one call: `ReadSubscription` and `ReadPlan` are `manage_subscription`,
`EndPoll` the decision of `operators_ready` when to ask, `Answer` and `Approve` are
`approve_pending_plans`, `ReadKata`, `ReadNodes` and `ReadPool` the reads of `kata_ready` with
`check_kata` at the last. Between any two, `Propose` puts a newer plan in the place of the
current one, `InstallCSV` installs what is approved, `Render`, `UpdateNode`, `UpdatePool` and
`UpdateKata` roll a configuration out and update the statuses, in any order.

## 3. Runs

| run | instance | shows |
|---|---|---|
| `proof_runner` | two runs with different plans over all three resources under `FairSpec`, one review of the reference values, 751k states | `TypeOK`, `ServedChangeOwned`, `RestorationHolds`, `ModificationOwned`; `ImplementsEdits`; `ChangeUndoneOrRetained`: every modification ends, or is kept under its lock and reported, or its run was killed |
| `proof_runner_shared` | two runs that edit the same ConfigMap, one of them a Secret before; one review, late commits, 2.9M states | `LatestReviewKept`, `PassLeavesNothing`, `DeniedStaysDenied`, `DenialAttributable`: what a run overwrites, concludes and leaves after a PASS does not depend on when requests commit |
| `proof_runner_late` | one run, late commits | violation of `RestorationHolds` |
| `fresh_install` | three jobs, two machines, two revisions, old or new helper, 396k states | `JournalCoversProvider`, `RepeatNeedsConsent`, `PostedIsServed`, `GateKeepsPublication`, `SuccessIsInstalled`; `ImplementsLedger` |
| `fresh_install_revert` | one machine, two revisions | violation of `WaitCanSucceed` |
| `vcek_bundle` | a collector of URLs and one of reports, two invocations each, 2.4M states | `CurrentIsCertified`, `LoneRunConverges` |
| `vcek_bundle_reread` | two collectors of URLs | violation of `CurrentIsCertified` |
| `order_rig` | three invocations, three servers, two choices in one project and one in another, 932k states | `NothingOrderedTwice`, `NothingElseDeleted`, `KeysOfMarkedRig`, `OnlyNewHelperUnchecked`; `ImplementsFleet` |
| `order_rig_helper` | one choice, three servers, two invocations | violation of `ReadyIsChecked` |
| `trustee_lab` | two rigs, two command lines, two keys; two stops, refusals or resets anywhere, 1.3M states | `FinishedIsCurrent`, `PublishedWasApproved`, `ResourcesBehindPolicy`; `ImplementsGate`; `Finishes` |
| `trustee_lab_copy` | one rig, one stop | violation of `RestartFinishes` |
| `worker_install` | two Subscriptions with two plans each, two nodes, two rollouts, one failing call, 946k states | `OnlyExpectedInstalled`, `TableIsComplete`, `DoneIsConverged`; `ImplementsStages`; `Ends` |

### Bounds, and why they are enough to meet the interesting cases

* *Controllers.* The lock is what two runs compete for; a third adds no new kind of step.
  `MixedPlan` has consecutive editing cases (state that could leak from case to case), edits
  before and after the control, all three resources, an ambiguous lock and runs that take
  over after a manual recovery; `SharedPlan` has both controllers edit the ConfigMap that other
  tools write, and before it a resource that they do not. `Plan` is arbitrary in the proofs.
* `MaxReviews = 1`: one review at each point of an edit. More reviews repeat the same
  comparison. The proofs have no bound but the constant.
* `MaxJobs = 3`: the finding needs three (install A, interrupted B, A again); so do
  migration, interrupted retry and success. `MaxBuilds = 4` leaves every job a build of its
  own besides the one of an old helper.
* *Two machines, one shared revision:* a configuration may render several machines, so the
  files of one may serve another; `a2` renders only the first, so a rebuild for one machine
  can take the other's files away.
* `MaxRuns = 2`, `MaxIssued = 2`: an invocation that stops anywhere, another that overlaps
  it anywhere, and a later one alone; old and new certificate.
* `MaxServers = 3`, `MaxRuns = 3` in `OrderRig`: node, helper and a replacement or a duplicate;
  an order that stops, one that takes over, one for another choice. The theorems have no bound.
* `Rigs`, `Lines` and `Keys` of two in `TrusteeLab`: what is there and what another rig, another
  probe or another build left. `MaxStops = 2`: one stop leaves files of two generations, the
  second one meets them. Rigs are used once each, so a rig that comes back is not met.
* `MaxPlans = 2` in `WorkerInstall`: the plan that was checked and the one in its place.
  `MaxConfigs = 2`: the configuration with the runtime, and another before or after it.
  `MaxErrors = 1`: a read of a plan, an approval or a read of a status that fails once.
  Every subset of the Subscriptions may be installed already, and so may the runtime.
* No counter wraps, and nothing else is bounded. Only `Start*` actions and the guards on
  builds and certificates mention bounds, so bounded runs are prefixes of unbounded ones.

`CHECK_DEADLOCK FALSE` appears where invocations are bounded: once all are used nothing is
left to do. The proof runner ends in a state that stutters explicitly, so its deadlock check
is on: no process of it waits for ever.

### Fairness

Four runs use fairness. `proof_runner`: weak fairness of each process (`Runner(c)`), because
every loop of `run-proofs.py` and `restart_trustee` has a deadline after which it raises and
every `oc` call a timeout; and weak fairness of `Serve`, because the Operator and kubelet keep
reconciling. No fairness is assumed of kills, guests, reviews, late commits or the
operator's recovery. A process may be killed, and the property says so.

`trustee_lab` and `trustee_lab_copy`: weak fairness of the invocation (`Working`; its calls have
timeouts, and a failure is a `Stop`, of which there are finitely many), of the Operator's
`Generate`, and of starting again while it is not finished, which is what the documentation
tells the operator to do. None of rollouts, refusals, resets or new rigs.

`worker_install`: weak fairness of the installer, of OLM with a Subscription that has no plan, a
plan that is not resolved and a plan that is approved, and of the rollout, whose controllers
reconcile. None of a newer plan or of another configuration, and none of `TimeOut`: `Ends` says that
the installer needs no deadline. It does not say that it succeeds; a plan for other versions
and a refusal end it too.

## 4. What the violations mean

* `proof_runner_late` (code): `change` arms restoration "before a possibly ambiguous API
  response", but `restore` takes *data equal to the original* as proof that there is nothing
  to undo. If the patch timed out at the client and commits after that read, the run reports
  restoration PASS, releases the lock, and the modification stays.
* `fresh_install_revert` (code): after A is installed and a rebuild for B with
  `reinstall_existing` is interrupted, a run for A builds A again with new keys; the journal
  still says "requested" for A, so nothing is posted, and the run waits with a kubeconfig
  that no cluster has.
* `vcek_bundle_reread` (code): `--download` reads the URL file once more after its request;
  if another collector exchanges the URL and back in between, digests agree and the
  certificate of the other URL is published as current.
* `trustee_lab_copy` (code): `images` copies `cosign.key` and `cosign.pub` back one after the
  other. An invocation that stops between the two leaves the key alone, and
  `ensure_cosign_keys` refuses half of a pair whenever the step is started again; the other half
  was deleted on the helper. `trustee-lab.py` says "fix the cause and start again at the failed
  step". `Finishes` shows that it is the only thing that keeps the sequence from its end.

* `order_rig_helper` (code): a rig file ends the run early, because "one for these servers means
  every stage passed" (`order-rig.py:611`), but `finished` compares the node only. After a complete
  run, the helper alone is deleted and recorded as gone; the next invocation orders another one and
  prints "Rig ready" with the rig file of the old one. Nobody reached the new helper, its key is
  not pinned, and no mirror runs on it. `OnlyNewHelperUnchecked` shows that this is the only way:
  the node of a rig that is reported as ready has passed every stage, and so has its helper
  unless it took the place of one that is gone.

Two divergences were met that need no run, because a single step of the code shows them. A
retained lock does not stop anything else from changing the namespace, as
`docs/capability-status.md:54` has it: only `run-proofs.py` reads it. An input of the VCEK cache
that was requested and never certified is replaced without a copy, although
`vcek_bundle.py:60` says that the last input is preserved.

On the safe side, and no finding: a failure after a PASS (cleanup, or the deletion of the
lock) keeps the lock without saying `retainedLock` in the report.

## 5. Proofs

All theorems are of the form `Spec => []P`, `Spec => [][A]_vars` or, for the five refinements,
`Spec => Abstract!Spec`, for every value of the
constants: any number of controllers and plans, machines and revisions, collectors and
inputs, and any bounds.

**ProofRunner** (`ProofRunnerProofs`). There are two inductive invariants, because requests that
commit after their client gave up divide the properties in two.

* *Without late commits* (`~LateCommits`): `ModificationIsOwned`, `ServedChangeIsOwned` and
  `RestorationIsReal`. None is inductive. That a modification is recoverable when a patch
  applies depends on what was compared two calls earlier, under the same lock, with the same
  resourceVersion; that the lock may be released depends on which exits of the finally block
  lead there. `IInv` therefore says, for each `pc`, what the process has established: who
  holds the lock, whether its edit is armed, that a resource whose version is still the one
  seen still holds the data seen, and that past the restoration nothing of the run is left in
  the resource nor, after convergence, in the serving pods. The condition cannot be dropped:
  `proof_runner_late` shows a restoration reported as PASS whose modification then commits, and
  `RestorationIsReal` that nothing else can make such a report wrong.
* *Whatever commits late*: `TypeCorrect`, `LatestReviewIsKept`, `PassIsClean`,
  `DenialIsAttributable` and `DeniedIsNeverReleased`. The last two speak of cases whose resource no
  other tool writes (`Unreviewed`): one that overwrites the edit while the guest asks makes both
  false. `LateInv` follows the traces that a
  controller's modification may leave (`Traced`): in the resources and the serving pods, among
  the requests on their way, and in the recovery files of runs that read it later. A request is
  either overtaken, and its version test will fail, or it is based on the latest review
  (`Overtaken`). A run whose requests may still commit has failed, and never reports PASS
  (`Lingering`), which is why a PASS leaves nothing on its way. A run that has its edit in
  place has overtaken every older request for that resource (`Settled`), so that none can
  replace the edit while the guest asks.

`PassInv` adds where a report may say PASS and where a negative pod may still be, `InForce` from
where to where the resource holds the case's edit and Trustee serves it: as long as the pod is
there, also in a run that was killed, until the operator has removed the pod.

**Refinement** (`ProofRunnerRefinement`). `EditsImplemented`: under `~LateCommits` every step of
`ProofRunner` is a step of `TrusteeEdits` or stutters, using the same invariant.
`TrusteeEdits` itself has `EditsAreOwned`.

**FreshInstall** (`FreshInstallProofs`). All seven properties of the run are theorems:
`TypeCorrect`, `JournalIsComplete`, `SuccessIsReal`, `NoSilentRepeat`, `RequestIsServed`,
`GateIsSafe` and the refinement `LedgerImplemented`. What a job reads at one task is used many
tasks later, so the inductive invariant `IInv` relates them: `AssetsAgree` and `BuildAgrees`
(marker and files name one revision, except while a build is under way), `PublicationAgrees`
(between `identity` and `post` the endpoint publishes the revision of the marker),
`ArgumentsAgree` and `RequestAgrees` (what the refusals excluded still holds when the request is
sent), `ProviderAgrees` (an unaccepted attempt, the number of rebuilds and the pending machines)
and `ClosingAgrees` (why the publication is closed). The refinement adds `LedgerAgrees`, what a
job that is about to record an intent, to post or to record the answer knows of the record and
of the attempt: that is how a record which moves from place to place stays one record, and why
an announcement is replaced only when its request is known not to have been accepted.

**VcekBundle** (`VcekBundleProofs`). `TypeCorrect` is unconditional. `CurrentIsIssued` and
`LoneRunRepairs` assume `SoleWriters`: no two collectors write the kind of input that one of
them reads back, so a `--download` runs beside reports but not beside another collector of
URLs. `vcek_bundle_reread` shows that this is needed; a `<node>` invocation uses the URL it was
given and needs nothing. Three invariants build on one another: `RunInv` (what an invocation
has in hand at each step), `CertifiedInv` (`fetched`, `req` and `source` belong to what was
requested, and an input that will be read back is still in place) and `IInv` (what a lone
invocation has made of the files so far).

**OrderRig** (`OrderRigProofs`). `TypeCorrect`, `OrderedOnce`, `OnlyTheHelperIsReplaced`,
`KeysBelong`, `OnlyTheHelperIsUnchecked` and the refinement `FleetImplemented`: all properties
of its passing run. That nothing is ordered twice depends on what was looked for several calls
before: `Listed` says that a role which the state lacks has, once its turn of `adopt_servers`
is over, no server in the project; `RecordedAndGone` that a recorded server can be gone only if
it was a helper in the middle of its replacement, so that its node still stops a plan of
another choice; `Planned` that the apply deletes only that helper and orders only where there
is nothing. The keys need only that marker and run name the same servers from the marker to the
last key. `ReadyInv` follows what was checked: `OnTheWay` that a server which the apply did not
order is the recorded one, `StagesDone` what the stages so far have made of the recorded
servers, as long as they exist, and `FileVouches` what an old rig file is still worth: while
its node exists it is the recorded one and has passed all stages, and so has its helper unless
that is gone. The refinement needs no more than the first of these invariants: `Planned` and
`RecordedAndGone` say that an order meets no server of its role and that a replacement leaves a
node behind it.

**TrusteeLab** (`TrusteeLabProofs`). `TypeCorrect`, `OnlyApprovedPublished`, `PolicyFirst`,
`FinishedBelongs` and the refinement `GateImplemented`: all safety properties of its run. No
step compares a file with the rig, so the invariant says what the order of the steps makes of
them: `FilesBelong` that, once this chip's certificate is at hand, the files of all steps before
the one that is due (`Due`) belong together; `StepInv` what holds within a step, `CallInv` what
a call was given, and `Published` how much of this rig's configuration the cluster has at each
write. `BundleUsed` is why a new rig starts without a certificate, and so at `vcek`. The
refinement rests on the same invariant and is stronger than `OnlyApprovedPublished`: an approved
set that was superseded, by a refusal, a new review or another rig, is not published any more
(`StandingLess`).

**WorkerInstall** (`WorkerInstallProofs`). `TypeCorrect`, `OnlyTheManifest`, `OneQuestion`,
`RuntimeEverywhere` and the refinement `StagesImplemented`: all safety properties of its run.
`PendingChecked` and `ApprovedExpected` rest on `PlansGrow`: plans keep their name and their
CSV. `PollInv` says what a poll knows of the Subscriptions it has read. `Bounded` and `ReadInv`
say why reads at different times suffice: configurations only grow, so an old read of a node is
a lower bound and the pool's current configuration an upper one, and a status that once was
finished stays true. The refinement adds `ReadyRead` (a poll that says "ready" read every
Subscription at another time, and each still has its CSV), `LackingRead` (what waits for
approval was not installed when it was read, nor is now, unless another plan was approved for it
meanwhile) and `StagesFollow`.

TLC confirmed every inductive invariant on the instances of section 3 before it was proved.

The assumptions on constants are the named ASSUMEs of each module (`PlanAssumption`,
`RevisionsAssumption`, `NoneAssumption`, ...): types, and that the values standing for
"nothing" are not data. TLC evaluates them in the runs.

**Only model-checked.** What the violation runs refute, and the liveness properties
`ChangeUndoneOrRetained`, `Finishes` and `Ends`: ENABLED and fairness are beyond the backends of
TLAPS used here. So are induction over data and what a
RECURSIVE operator computes; no module here declares one.

## 6. Abstractions

* *ProofRunner.* Rendering, evidence files, log frames and wording are left out; how the runner
  recognises a denial is a verdict on `guest[c]`. Pods are identified with their run, so
  confusion between pods of the same label is not explored. A signal arrives at a call, not
  between two statements. Only patches commit late, creates and deletes do not. The serving
  check is one step; the real one reads Deployment, ReplicaSets and pods in turn.
* *FreshInstall.* Jobs are serial, although nothing in the code locks the helper. The provider
  erases a machine at the moment of acceptance and never accepts a request later than its
  answer. Release checks, BIOS gate, discovery and consoles only refuse, before anything
  modelled changes; they are no steps of their own. Half a staged copy boots nothing. The four
  boot files are there or not there together: a removal that stops leaves all of them or none,
  whereas `prepare.yml` looks at only some of them.
* *VcekBundle.* The two small reads of `current_request` are one step. The validity window of
  a certificate, its key and its parsing are failures of `Fetch`. `--seed` is left out.
* *OrderRig.* Invocations do not overlap, although nothing locks `COCO_STATE_DIR`. Servers with
  the rig's hostnames come only from `make order-rig`. Terraform is not killed outright:
  however an apply ends, it writes its state as refreshed. A Terraform that is killed during an
  order, or a recorded server that is deleted in the portal, would leave a stale entry, for
  which `adopt_servers` does not look: then a second server could be ordered. A mirror stays
  ready and a bond complete as long as their server exists. Prices, stock, tfvars and what the
  rig file holds besides the two servers are left out, and so are the commands `plans`, which
  only reads, and `check-snp`. The latter pins the key of the recorded node when that is not
  known yet (`accept-new`, `order-rig.py:191`), and never writes the marker: after an
  invocation that stopped between its apply and the marker, it can leave a key that the marker
  does not know of, until the next invocation moves the keys away.
* *ApplyTrustee.* The Permissive profile that `trustee-lab.py` uses. Preflights refuse before
  anything modelled changes. The refresh is one step; its own steps are in `ProofRunner`.
* *TrusteeLab.* `ReadCmdline` may read any line: which kata-cc VM of the node a poll sees first
  is not decided by the code. The namespace and its labels are one step. What a step builds on
  the helper is gone when the invocation ends. `CopyManifest` folds the two writes of the
  manifest (`trustee-lab.py:306` and `:310`), as copied and with the local path of the public
  key, into one. Invocations do not overlap, although nothing locks `COCO_STATE_DIR`.
* *WorkerInstall.* Manifests, node labels and the stages 0, 2 and 4 are left out, and so are
  plans that come after stage 1 and rollouts before stage 3. A configuration that was rendered
  keeps the runtime. A checked plan is for the expected CSV, of the right catalog and resolved,
  in one Boolean each. OLM proposes no second upgrade for what is installed. The order of the
  Subscriptions in a poll is open. `ReadSubscription` stands for the three reads of
  `apply-sno.sh:39`, `:41` and `:44`: `installed` is the installed CSV once it has succeeded,
  and the reads do not fail. In the code a failed one counts as "not installed" (`|| true`), so
  that a plan for an Operator that is there could be read, and approved once more. `Init` has
  no approved plan and no rollout under way: an installer that is started again after some of
  its approvals, or in the middle of a rollout, is not met; plans are being installed only
  after the answer.

## 7. Plan

1. `TrusteeRotation`: `restart_trustee` and `serving_ready` pod by pod, shown to implement the
   atomic serve of `ProofRunner`: deletion, rollouts in flight, ReplicaSets that change while
   they are read.
2. `OrderRig` and `TrusteeLab`: two overlapping invocations over one state directory.
3. `DenialOracle`: `trustee_denial_matches`, `denial_matches` and `bind_initdata_policy` against a
   reference definition over bounded logs.
4. `FreshInstall`: two overlapping jobs; a POST accepted after it timed out.
   `ProofRunner`: a create of the negative pod that commits late. `VcekBundle`: `--seed`.
   `WorkerInstall`: reads of a Subscription that fail, and an installer that starts again
   after an approval.
5. `UninstallCoco`: ordered deletion with finalizers and preconditions.

Theorems to come: the refinement of item 1, and `VcekBundle` as an implementation of an abstract
cache that holds, for the request it names, a certificate issued for it or none.

## 8. Not modelled

The mirror is a sequence of downloads, pushes and rewritten documents whose resumption is left
to the tools it calls. Helper preparation is idempotent, declarative Ansible. Node and host
checks only read; their failures are refusals. Workloads and rungs are rendered
manifests; how the proof runner uses them is in `ProofRunner`. Releases, tools, tests and
documents do not act on the running system. Removal and reset are planned; `ResetLab` is what
the reset means to the Trustee lab.
