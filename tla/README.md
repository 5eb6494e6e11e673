# Verification of the AtlasRetail lakehouse platform

TLA+ specifications of the parts of AtlasRetail whose correctness depends on order, concurrency,
failure or time, the TLC configurations that check them on small instances, and TLAPS proofs of
what matters most. Paths are relative to the root of the repository.

## 1. Inventory of the system

| Component | State it keeps | Operations | Interacts through |
|---|---|---|---|
| Control plane (`aws/lambda/control.py`) | DynamoDB items: batch identities, generation records, the active pointer | register, start_build, validate, publish, fail, resolve | Lambda invocations; conditional writes and transactions |
| Step Functions execution (`infra/atlas/main.tf`, `scripts/start_execution.sh`) | state of each execution and the data it carries | ten states with Retry and Catch; start, stop | invokes the control plane, starts the Glue run |
| Glue transformation (`aws/glue/atlasretail_iceberg.py`) | six Iceberg tables per generation, the evidence object | verify objects and rows, check rules, delete/append per table, put evidence | reads S3 by version, is awaited by the execution |
| Local engine (`src/atlasretail/engine.py`, `simulator.py`) | `state.json`, `snapshots/` | build_generation, publish, resolve, assert_consistent | files replaced atomically one by one |
| Account lease and managed run (`manage_part4_lease.py`, `verify_*`, `acquire_lock.sh`, `aws-bounded-lab*.yml`, `aws-controlled-deployment.yml`) | the lease item, Terraform state and lock, resources in the account, persisted artifacts | acquire, bind, recover, release, apply, destroy, prove clean | one lease item, one Terraform state, artifacts between jobs |
| Controlled deployment recovery (`aws-controlled-deployment-recovery.yml`, `validate_recovery_handoff.py`) | the same lease, its own artifact | take over from the failed run or a named recovery, destroy, hand over by failing | the same lease; artifacts of the deployment and of earlier recoveries |
| Retail rules (`quality.py`, `validate_frames` of the Spark job), generator | none | generate, make faulty, validate | decide what may be built, and how a lab scenario must fail |
| Manifest and object identity (`manifest.py`, `upload_immutable_batch.py`) | S3 object versions, `manifest.json` | upload, bind, head, copy, read | exact versions and digests |
| Serving (`serving.py`), stale-publisher proof | none | queries of one resolution; resolve, stale publish, resolve | control plane |
| Admission, teardown authority, contract (`part4_admission.py`, `part4_stage6_prerequisites.py`, `part4_teardown_authority.py`) | receipts and digests | build, rebuild and compare in every job | artifacts by run id and attempt |
| Evidence finality (`part4_evidence.py`, finalizers) | evidence directory, checkpoint, final summary | collect, validate, finalize | one directory and an artifact between two jobs |
| Release and project completion (`release/`, `part4_stage7_closure.py`, `ci.yml`) | receipts in the tree, two tags | controls, receipts, completion of seven stages | commits, digests of earlier receipts, pinned commits |
| Provenance, Terraform envelope, Glue probe, preflights | documents, or a single definition in the account | see `PROJECT.json` | - |

What is hard in it:

* invocations of one Lambda function interleave between a read and the conditional write that
  relies on it; the condition is on a status, not on an attempt;
* a Task that gets a service error does not know whether its invocation committed, invokes again,
  and the first one may still be running;
* a Glue run writes six tables in twelve commits, may die anywhere, may be an orphan;
* an execution may be stopped between any two tasks;
* two files, or a lease and an artifact, are written one after the other and a process may die in
  between;
* leases expire and are deleted by a TTL while resources are still there;
* files are read twice, and S3 keys without a version are shared by runs that overlap;
* two rule sets in two languages must reach one verdict, with several faults at once;
* what an evidence directory shows of a history is a few snapshots, and it passes through artifacts;
* documents are found by typed run ids and attempt numbers, while `main` and the attempts move on;
* a receipt about a tree is verified again in every later tree.

What makes each part correct is stated by the properties of section 4; the hazards they are for
are listed in `PROJECT.json` at the line where each one bites.

## 2. Modules and how they compose

```text
GenerationPublication          abstract: permanent identity, append-only publication log
   ^ refined by                           ^ refined by
ControlPlane  <- ControlPlaneProofs   AtlasEngine <- LocalEngineProofs
   ^ EXTENDS, and refined by
Pipeline      <- PipelineProofs       (Step Functions, Lambda retries, Glue run)

ManagedRun      lease, lab, deployment, recoveries     RunAuthority   the documents they act on
LabEvidence     the lab's script and its verdicts      ReleaseChain   controls, receipts, tags
ObjectIdentity  from files to what Spark reads         RetailQuality  the rules, twice
...Proofs       theorems about each of these; those about RetailQuality are in LocalEngineProofs
MC*             instances for TLC
```

### GenerationPublication

What readers and producers are promised, without items or calls: a batch is bound once to one
identity; publication appends an accepted generation to a log, each at most once. The pointer of
the code is the log's last entry, its version the log's length.

### ControlPlane

| TLA+ | code |
|---|---|
| `batchItem[b]` | item `BATCH#b / IDENTITY`; a record of generation, digest and exact location |
| `genItem[g]` | item `GENERATION#g / STATE`; `ABSENT` when there is none |
| `pointer` | item `CONTROL / ACTIVE`; version 0 when absent, as `_pointer_version` has it |
| `evidence[g]` | the one S3 key `validation/<g>.json`, overwritten by every attempt |
| `pc, req, seen, loaded, reply` | an invocation: its next table access, its event, the status it read, the evidence it read, its answer |
| `published` | history variable: the generations in the order of publication |

Every read, conditional update and transaction is one action (`GetBatch`, `PutIdentity`,
`RegetBatch`, `GetGeneration`, `GetPointer`, `ReadStatus`, `UpdateStatus`, `LoadEvidence`,
`CheckEvidence`, `GetValidated`, `Transact`, `GetFailing`, `GetActive`, `GetResolved`). `Abort` is an
SDK error, a crash or the timeout of the function at any point. Clients may send any action about
any generation, except that a publisher's expected version is one that a registration could have
returned. The generation identifier is an arbitrary function of batch and digest, so collisions of
the truncated hash are included. Attributes that nothing decides on (timestamps, ARNs, failure texts)
are left out. The two cancellation reasons of the registration and of the publication need no
variable: the code reconciles by reading again.

### Pipeline

EXTENDS ControlPlane; `InvokeTask` sends the payload that the state machine builds, `TaskReturns`
follows `Next`, the choice `AlreadyBuilt`, or `Catch`. `Lose` is a service error of `lambda_retry`:
the task invokes again or gives up while the lost invocation keeps its slot and goes on or never
commits; so replies are lost, calls duplicated and answers late. `StopExecution` is the lab's deadline.
`StartJob` may report an error although the run started, which `MaxRaise` bounds like the errors of the handler. A Glue run is a counter: verification, one
delete and one append per table, evidence, commit; `JobFails` ends it at any of them. The three
`Mark...Failure` states are one, as they differ only in the text they record. The retries for Glue
concurrency are one decision: the run is started when none is in progress, or the task gives up.

### AtlasEngine

`manifests`, `generations`, `active`, `pointer_version` are the keys of `state.json`; `snapshots` the files.
`CommitSnapshot` and `CommitBuild` are the two `os.replace` calls, `AbortBuild` an exception or the death
of the process anywhere before either. `publish` writes one file and is one action. A
payload is the pair its digest depends on (generation, identity digest).

### ObjectIdentity

`file` and `proof` are the generated files and their `manifest.json`; `landing` and `verified` the versions of
the S3 keys; `manifests` the versions of `managed-manifest.json`. An upload checks the records, then for every
table reads the bytes (`ReadBytes`) and lets the AWS CLI read the path again (`PutObject`); the new version exists
before its checksum is compared. The job's steps are `GetManifest`, and per table `HeadObject`, `CopyObject`,
`VerifyTableDigest`, `Count`; `Build` evaluates the lazy frame of each table again, from a key without a version that
overlapping runs of the generation share. Contents have bytes and records apart (`RowsOf`), as a file may be
compressed anew. `used` records what every evaluation of a frame saw.

### RetailQuality

`Generated` is `generate_batch` for any outcome of its draws, `with_...` the five faults; `LocalFinds` is `validate`
of `quality.py`, `SparkFinds` with `SparkOrder` the job's `validate_frames`, filter by filter with SQL's NULL. Edits
then change a row, a field, or remove one, so that faults coincide. Sums are `Total` of a sequence with a number for every
row, zero for a row that is not selected. The variables and the specification are named apart (`batchVars`, `BatchSpec`), so that
`LocalEngineProofs` can extend this module and AtlasEngine.

### LabEvidence

`at` walks through the steps of `aws-bounded-lab.yml`: eight executions, a snapshot of the pointer after (and
before some of) them, stale publisher, queries, collection, checkpoint, teardown, final summary. The deployed system
is the subject of the test, so an execution may be anything (`Departures`), the pointer may move at any time
(`Drift`), a receipt may be missing or another run's, an artifact lost, a file altered: `surprises` counts these.
`validate_execution` and `finalize_evidence` are the conjunctions the code checks.

### RunAuthority

`store` holds artifacts by name, `runs` the runs of the lab with attempt and phase, `ran` what prerequisite runs
really found. A digest is the document it digests, so comparing digests compares documents; `AdmissionHolds` and
`AuthorityHolds` rebuild the document from the job's context as the code does. `Misplace` puts an artifact, or one
file of an admission or an authority, under another's name; the artifact of a prerequisite is one document and moves
as a whole (section 6). ManagedRun has the lease's protocol in detail; here it is owner and bound authority, and `TimeToLive`,
the table's removal of an expired item (`infra/foundation/template.yml:93`): 7 days after it was put, so not under
the attempt that put it. `lapsed` records that this happened to what is deployed.

### ReleaseChain

`graph` holds commits with ancestors and trees, reduced to the parts that checks tell apart; a receipt is its
position in `issued`. One operator per check (`...Builds`, `...Rebuilds`, `...Holds`) and per stage's controls;
`CIPass` is the workflow. `Scripted` is the runbook's order, all else (edits, unmerged pull requests, wrong
pins, receipts that name another commit or are issued again, completion elsewhere) a counted detour.
`OneChain` asks of the candidate's links to the gap and handoff receipts only what was true where it was verified, when
CI passed at the commit it names (`CandidateGreen`); section 6 says why.

### ManagedRun

`wf` is the workflow that holds the concurrency group `portfolio-aws-account`, with its job, lease
owner, target run and next step; `lease` the item `portfolio-lab`; `tfstate` and `cloud` the runs with
resources in the Terraform state and in the account (they differ when a runner is lost);
`stateLock` a Terraform lock whose holder is gone; `leaseArtifact` and `authority` what was uploaded. A job may
fail at any step (`JobFails`), a conditional write may be done and its reply lost (`Written`), a runner
may be lost in `terraform apply` or destroy. The recovery of a deployment (`rescue`) takes the lease from the deployment or
from the earlier recovery it names (`previous`), which must be in `handoffs`: a recovery that failed with the lease leaves
its artifact there, one whose runner or whose write's reply was lost does not. It goes on only for a deployment in
`refused`, and under the exact envelope unless it names an earlier one (`partial`). `Expire` and `TimeToLive` are the clock. `expires_at` is a flag, because
only its order relative to the jobs matters: 7 days (3 hours for `acquire_lock.sh`) exceed the
timeouts of the jobs that put the lease, so a lease does not expire under the workflow that put it.

## 3. Plan

Done, in this order: GenerationPublication, ControlPlane, its proofs, Pipeline, AtlasEngine with its proofs,
ManagedRun with its proofs, ObjectIdentity with its proofs, RetailQuality, LabEvidence, RunAuthority, ReleaseChain, and
the proofs of Pipeline, RunAuthority, ReleaseChain, LabEvidence and RetailQuality.

Left, most important first:

1. An abstract account of who may hold resources, and ManagedRun as its refinement.
2. `SourceMaterialization` and `GlueProbe`.
3. `RulesAgree` with NULLs on the one side and exceptions on the other, stated as how the two differ.

No module that is or will be proved about uses RECURSIVE operators.

## 4. Runs

Deadlock is checked for the control plane, whose clients never stop. It is not checked
elsewhere, because executions, builds, labs, releases and runs of a finite instance come to an end.

| Run | Instance | What it shows |
|---|---|---|
| `publication` | 2 batches, 2 contents, colliding identifiers, 2 invocations, 1 attempt, 2 kinds of evidence | `PointerFollowsLog`, `ResolveNeverDangles`, `ReplayIsPublished`, `BatchOwnsGeneration`, `ValidatedOnEvidence`, `ImplementsPublication`, `Lifecycle` |
| `pipeline` | 2 executions, 2 batches, 1 table, 2 lost replies | `SuccessSucceedsItsBase`, `OneBusinessEffect`, `ImplementsControlPlane` |
| `partial` | 3 executions of one batch, 2 tables, 1 stop, 1 error of the handler or of StartJobRun, no lost reply | `PublishedIsComplete`, `FaultFreeStrandsNothing` |
| `ends` | 2 executions, 1 lost reply, 1 stop, fairness | `ExecutionsEnd` |
| `engine` | 3 batches, 3 contents of which 2 pass | `Consistent`, `ServedPassed`, `ImplementsPublication` |
| `managed` | 1 lab run, 2 recovery identities, 2 deployments, 2 recoveries of them, 2 faults, 1 lost runner, expiry, fairness | `ResourcesHaveAuthority`, `LeaseCoversResources`, `ReleasedOnlyClean`, `OnlyOwnResources`, `ResourcesGo`, `AccountFreed` |
| `quality` | 2 orders of 1 or 2 lines, 4 products, 2 stores, any fault, 2 edits | `FaultSignalled`, `RulesAgree`, `RowOrderIrrelevant` |
| `objects` | 2 tables, 3 contents, 1 upload, 2 jobs, 1 edit, 1 overwrite, 1 foreign manifest | `SparkReadsRegistered`, `VerifiedHoldsEvidence`, `RegistrationHolds`, `UndisturbedAccepted` |
| `lab` | 2 surprises, fairness | `PassMeansOneMove`, `VerifiedIsFinal`, `VerifiedOnTrueEvidence`, `FaithfulRunVerified` |
| `authority` | 2 commits, 2 kinds and 3 runs of prerequisites, 2 attempts, 1 misplaced artifact or file, expiry | `DeployedOnCurrentEvidence`, `TornByItsOwn`, `RecoveryOpen` |
| `release` | 2 detours, fairness | `CompletedIsFrozen`, `OneChain`, `CandidateStands`, `FaithfulReleaseCompletes` |
| `zombie` | 3 executions, 1 table, 1 lost reply | a violation, section 6 |

Bounds, and why they are enough:

* Two concurrent invocations: every condition in `control.py` compares what one invocation read with
  what one other has changed since; the properties relate at most two invocations.
* One attempt in `publication`, where two batches and colliding identifiers fill the instance; the pipeline runs
  have up to six, and the theorems hold for any number.
* The pipeline's `MaxAttempt` is at least what its executions and retries can reach and never binds there
  (`ClientsAssumption`, which every run of the pipeline evaluates; `CountInv` is why it is enough).
* `MaxRetry` is 1 instead of 3: one retry is enough for a duplicate, more only repeat it.
* Two tables: between the two commits of one, and between one table and the next. The job treats tables one by one.
* `MaxLost`, `MaxStop`, `MaxRaise`, `MaxFault`, `MaxKill`, `MaxSurprise`, `MaxDetours`, `MaxEdit`, `MaxOverwrite`,
  `MaxTamper`, `MaxMisplace` bound how many faults happen, not where.
* `managed`: three runs whose leases, resources and state may be confused; two recoveries of deployments make a chain, and two
  deployments let it name the wrong one. Of the lab's runs one is enough for the liveness; safety is proved for any number.
* Recovery identities are reused once the lease no longer names them, so two stand for any number.
* `quality`: two orders so that one can be confused with another, a refunded first order (every seventeenth is),
  lines of one and of two, products fewer than lines can name; two edits so that two faults coincide. The rules
  relate at most two rows of a table, apart from sums. `LocalEngineProofs` has the three properties for any number of orders, lines,
  products, stores and edits.
* `lab`: a wrong verdict from one surprise is excluded, and one that takes a surprise to hide another; `authority`: one
  attempt is confused with one other; prerequisites are alike, so two kinds stand for three. `Over` ends the run where no
  attempt is left and nothing is deployed, as nothing can be destroyed any more.
* Symmetry is used on invocations and executions, uploads and jobs; never in a run with a liveness property.

Fairness. `ends`: Step Functions drives a started execution on (weak fairness of each execution's own
steps); an invocation and a Glue run make progress or end by their timeouts; faults and new executions
are not assumed to happen. `managed`: a job goes on until it ends (the job's timeout); time passes and the
TTL removes expired items (weak fairness); the operator keeps dispatching the recovery of a run with resources,
which competes for the concurrency group with other workflows and is therefore strongly fair. A runner lost during
Terraform leaves a state lock that nothing in the repository releases, so `ResourcesGo` excepts it. `lab`: a
workflow's steps follow one another (the property says nothing once something else happened). `release`: the
maintainers take the next step of the script; the property says that none of the checks then stops them.

`LeaseCoversResources` and `OnlyOwnResources` of `managed` hold while no lease has expired under resources (`lapsed`), and
`TornByItsOwn` of `authority` speaks of deployments whose lease the table has not given up; section 6 says what an expiry opens.

## 5. Proofs

Eight modules hold theorems, `LocalEngineProofs` about two components and the others about one, for all values of the constants. None of the invariants is
inductive as it stands; each module defines `IInv` (`PInv` for the pipeline), proves `Init => IInv`,
`IInv /\ [Next]_vars => IInv'` with one lemma per action, and takes the properties from it.

| Module | Theorems | Properties |
|---|---|---|
| `ControlPlaneProofs` | `Invariance`, `PointerTheorem`, `IdentityTheorem`, `EvidenceTheorem`, `ResolveTheorem`, `ReplayTheorem`, `LifecycleTheorem`, `Refinement` | all seven of `publication`, among them `Spec => Abstract!Spec` (GenerationPublication) |
| `PipelineProofs` | `PipelineInvariance`, `PipelineRefinement`, `PipelinePublication`, `SuccessTheorem`, `OneEffectTheorem`, `CompleteTheorem`, `LosslessTheorem`, `StrandTheorem` | all safety properties of `pipeline` and `partial`, among them `PipelineSpec => Spec` of the control plane; `PublishedIsComplete` while no reply is lost |
| `LocalEngineProofs` | `EngineInvariance`, `ConsistencyTheorem`, `ServedTheorem`, `EngineRefinement` | all three of `engine`, among them the refinement of GenerationPublication |
| `LocalEngineProofs` | `RulesAgreeTheorem`, `RowOrderTheorem`, `GeneratedPasses`, `FaultSignalledTheorem` | all three of `quality` |
| `ObjectIdentityProofs` | `ObjectInvariance`, `SparkTheorem`, `VerifiedTheorem`, `RegistrationTheorem`, `AcceptanceTheorem` | all four of `objects` |
| `ManagedRunProofs` | `ManagedInvariance`, `ManagedTypes`, `AuthorityTheorem`, `CoverTheorem`, `ReleaseTheorem`, `OwnTheorem` | the four safety properties of `managed` |
| `RunAuthorityProofs` | `AuthorityInvariance`, `CurrentEvidenceTheorem`, `TornTheorem`, `RecoveryTheorem` | all three of `authority` |
| `ReleaseChainProofs` | `ReleaseInvariance`, `FrozenTheorem`, `CandidateTheorem`, `ChainTheorem` | the three safety properties of `release` |
| `LabEvidenceProofs` | `LabInvariance`, `OneMoveTheorem`, `FinalTheorem`, `TrueEvidenceTheorem` | the three safety properties of `lab` |

**Control plane.** Arbitrary sets of batches, digests, locations, generations and invocations, any derivation of
identifiers, any evidence and any number of attempts, under the four assumptions that `ControlPlane.tla` names (the
derivation is a function into generations; the null value is none of the values; evidence is a set of reports; the bound
is a number). A read followed by a conditional write needs to know what the invocation in between still relies on,
so `IInv` adds `CallInv(c)` for every invocation: its control point
belongs to its action (`RunsItsAction`); evidence that was checked still agrees with the generation, since a digest never changes
(`HoldsAgreedEvidence`); the status read is one the transition allows, so that the update, whose condition
is equality with it, moves along an edge (`SawAllowedStatus`); a resolution in progress holds an entry of the log
(`HoldsResolution`); a registration classified as a replay is in the log already, so that the pointer read later
is at or past it (`HoldsClassification`). The refinement uses
`BatchOwnsGeneration` to show that a generation accepted by the code is one no other batch has, and
`PointerFollowsLog` to show that a published one is not in the log.

**Pipeline.** Any executions, invocation slots, inputs, tables, retries and budgets of faults, under the control plane's
assumptions and two more: `PipelineAssumption` (inputs name known values; the null value is no invocation, execution or run) and
`ClientsAssumption` (the control plane's clients may do what executions do: its evidence includes that of a complete build, its
bound on attempts is at least the number of tries that executions can make). With these every step of an execution is a step of the
control plane or leaves its variables alone (`PipelineRefinement`), so the control plane's invariant is also one of the pipeline, and
its refinement of GenerationPublication carries over (`PipelinePublication`). `PInv` adds three layers.

* Always (`DriveInv`): an execution's invocation runs the payload of its task, for it alone; the reply of an invocation says
  something true of the table; a successful publication belongs to one execution or to one unanswered invocation
  (`OnePublisher`). From these follow `SuccessSucceedsItsBase` and `OneBusinessEffect`, whatever is lost and retried.
  `CountInv` counts the attempts against the tries of `StartGenerationBuild`.
* While no reply was lost (`NoneLost`): it is the turn of one execution or one invocation of a generation at a time
  (`OneTurn`), its status is the one that turn expects, and the rows of a generation agree with the step of the Glue run on it. Hence
  `PublishedIsComplete`, although executions are stopped, the job fails, and a run reported as failed goes on as an orphan: under an
  orphan the generation may be marked FAILED and its next attempt begin, but whoever has the turn is still before its own run
  or at the failure (`FailsOrBuilds`), and relies on nothing the orphan writes. The layer
  cannot hold without its condition: the `zombie` run shows two turns after one lost reply. `CompleteTheorem` is therefore
  `[](NoneLost => PublishedIsComplete)`, for any budget; `LosslessTheorem` is the property itself where `MaxLost = 0`, as in `partial`.
* While there was no fault at all: somebody works on every generation that is neither published nor failed, which is
  `FaultFreeStrandsNothing`.

**Local engine.** The assumptions are that a generation's identifier is injective in the batch, as the engine derives it, and that the
absent registry item is no item. `IInv` relates the two files, the registry and the log: every accepted generation's snapshot has the
recorded digest and passed the gate; the active one is the last published; a build under way is of a batch whose
generation is not in `state.json`, so that replacing its snapshot, and dying before the registry is replaced, cannot touch an accepted one.

**Object identity.** The assumptions are that there is a table and that every content has a number of rows. `IInv` says that every
version named anywhere exists and that its evidence is true of its bytes; for every upload and every job, what its control point
has established of each table; and that an upload during which no file changed digested what it sent. Versions are never removed or
changed, which makes these facts stable against edits, overwrites and foreign manifests by others.

**Managed runs.** The assumptions are that runs, recoveries and deployments have different identifiers. `IInv` adds to the
properties: a lease owned by a run was put by it, one owned by a deployment's recovery stands for the deployment that every handoff of
that recovery names (`LeaseInv`, `HandoffInv`); the state knows all resources unless its lock was left behind
(`ResourcesInv`); the first job and the teardown job of a run with authority are alone in the account, and from the
preflight to the apply it is empty and leased to it (`OwnInv`); what a cleanup has established at its step (`CleanupInv`). With
these the check of one run's tags in `verify_teardown.py` implies an empty account, which is `ReleaseTheorem`, also after leases expired;
`CoverTheorem` and `OwnTheorem` need that none has.

**Run authority.** The assumption is that the bounds are numbers and that no kind of prerequisite has the name of another artifact.
The storage is a function of names, so its invariant is a typing of what a name holds (`Artifact`): a prerequisite's receipt
is the one its run wrote, an admission consists of such receipts, a package is an authority with what it was built from; an artifact or a
file under a wrong name stays within this typing, which is why the comparisons in the next job suffice. `OneActive` is the concurrency
group. `ExecuteInv` says what the execute job has established at its step: prerequisites that ran and passed at its commit
(`Based`), nothing deployed and its package persisted before it binds, the lease bound to that package's authority before it applies.
`DeployedInv` carries this over to what is deployed, through re-runs and a moving `main`: until its lease lapses the lease is
the deploying attempt's, bound to that attempt's authority, or a recovery's, which admits nobody; afterwards it may be anybody's,
but never again that attempt's. Hence `TornTheorem`, and why it needs `lapsed`. As long as nothing was misplaced the authority is
also where the recovery looks for it (`Recoverable`), so that the own recovery is accepted under the own lease and under none.

**Release chain.** Any number of detours. Pins and the commits that receipts name stay untyped: a wrong one may be anything, and a
check that accepts it has seen it in the history. `IInv` types trees by the receipts written so far (`Trees`), relates each commit to
its ancestors (`History`: controls, their pins and the contract are never taken back, so a pin read in a later tree is the pin that
was checked), and keeps that CI passed at every completed commit (`CompletedPassed`), which needs that checks which passed in a
tree pass in it for ever: receipts are only appended, and the graph only grows. `ChainTheorem` and `FrozenTheorem` unfold the
checks of CI at the completed commit.

**Lab evidence.** Any number of surprises. The script's place decides what may be written next, so `IInv` relates the files to
`at`: a snapshot is a length that the log had (`SnapshotInv`); there is no history before collection, and until the checkpoint a
history is that of its execution (`HistoryInv`); a checkpoint that passed has seen the snapshots and digested true histories, and
keeps saying so although the files may change or be lost afterwards (`CheckpointInv`); a passing teardown receipt exists only
after the verification, a passing release only after the lease is gone (`TeardownInv`, `LeaseInv`). `OneMoveTheorem` is arithmetic
on the snapshots: `AdvancedOnce` leaves no other entry of the log between them.

**Retail quality rules.** Any number of orders, products, stores and edits. The batches are those of the `quality` run
without its bounds: generated, faulty, and edited any number of times, with neither null nor identifiers of several parts
(`Unchecked = FALSE`; with them `RulesAgree` is false, see section 6). The argument has four parts.

* *Clean batches.* `CleanBatch` types the six tables with rows whose fields are numbers and whose identifiers have one part.
  `BatchInv` says that the batch is clean, which the generator establishes and faults and edits preserve.
* *The rules agree on every clean batch* (`CleanBatchesAgree`). Code by code: where the rules are the same question the operators are
  shown equal (`IndependentAgree`). The three about returns differ, as the kernel skips a return whose line does not exist and the job
  does not; they agree unless ORPHAN_RETURN is raised, which the job looks at before them (`DependentAgree`). `FirstFailure` turns
  this into the job's one answer.
* *The order of rows.* With distinct identifiers (`Distinct`) `OrderNamed` and `LineNamed` find the only row of that
  name from either end, every sum of a reversed table is the sum (`ReversedSum`), and so is the stock after each movement, as
  sorting by time and identifier leaves no ties (`ReversedStock`). A batch that passes has distinct identifiers, so its
  reversal passes too (`ReversedPasses`); reversed twice it is itself, which gives the other direction.
* *The faults.* `GeneratedPasses`: no check of the job finds anything in a generated batch, however the draws fall. Identifiers and
  keys are distinct (`GeneratedDistinct`), the lines of an order have its subtotal and its payment its total, one unit comes back of a line
  that has at least one, every line matches one product version, and the opening stock of a product in a store covers its sales
  (`GeneratedStock`: an order takes at most four of a product). Then one lemma for each fault: its code is found, and every
  check that the job makes before it still finds nothing, since the fault leaves the tables of those checks alone or keeps
  what they look at (`SharedUntilReturns`, `SharedUntilMovements`).

`GeneratedPasses` and `FaultSignalledTheorem` assume that an order has no more lines than there are products (in the code at most 3, and
20), no quantity above four (at most 3), and `FaultSignalledTheorem` also that there are fewer than 250,000 orders (`validate_order_count`
of `provenance.py:130` admits 2000, the failure lab uses 30). Each is used: with more lines than products an order may have
two lines of one product, with a quantity above four sales may exceed four times the number of orders, and with 250,000
orders the opening stock of four for each is the million that the corrupted movement takes away. No assumption about the order of the draws
is made, nor about which products or stores they hit.

Sums and flattened tables are recursive functions, and what they give for every table is proved by induction on
the number of rows: the library's induction theorems take an operator, but the well-foundedness of < on the naturals is a fact about
a set, and taking the set of the numbers where a claim fails (`EveryNumber`) gives the same argument to the installed provers. From it
come what a sum adds up to over a concatenation, a reversal or a single nonzero row (`TotalConcat`, `ReversedSum`, `TotalOne`),
that it grows with its terms (`TotalMonotone`), and where the rows of a flattened table come from (`FlattenRange`, `FlattenApart`,
`FlattenTotal`).

Only model-checked: everything about liveness (`ExecutionsEnd`, `ResourcesGo`, `AccountFreed`, `FaithfulRunVerified`,
`FaithfulReleaseCompletes`), which the prover cannot do, and the violation of the `zombie` run, which is a behaviour. That no bound
hides a case rests on the theorems for the safety properties, and on the bounds of section 4 for these.

## 6. Where the code and its documents differ

| Run | Document | Behaviour |
|---|---|---|
| `zombie` | `docs/architecture.md:43` "Partial data remains inactive" | A first `fail` is delayed between its read and its update while its retry fails the generation and the next delivery starts it again; the update then applies to that attempt. Two builds of the generation overlap, and rows of the published generation are rewritten. The same run without lost replies (`partial`) has no such behaviour. |

Also visible in the models, without a run of their own:

* A lost reply of `register` or `start_build` (`infra/atlas/main.tf:391,416`): the retry is answered `IN_PROGRESS` or
  an illegal transition, neither task has a Catch, and the generation stays `REGISTERED` or `BUILDING`, where
  `docs/architecture.md:35` has failures routed into the lifecycle record. `FaultFreeStrandsNothing` excepts this.
* A `publish` whose reply is lost ends its execution as failed although the pointer moved.
* A recovery that fails after its lease transition is itself not recoverable while the lease lives: `recover`
  (`scripts/manage_part4_lease.py:301`) accepts `AUTHORITY_BOUND` of the failed run or an absent lease, not
  `RECOVERY_BOUND` of the earlier recovery (`docs/runbook.md:458`). `ResourcesGo` holds by way of the TTL.
* After the TTL removed the lease of a failed run, the recovery of another run, with that run's own valid authority,
  acquires the absent lease and destroys what the shared state holds (`docs/adr/0006-immutable-teardown-authority.md:46`);
  `acquire_lock.sh:18` takes over an expired lease of a lab run. `OnlyOwnResources`, `LeaseCoversResources` and
  `TornByItsOwn` are therefore stated up to the lapse; without that condition both `managed` and `authority` have a counterexample.
* `build_prerequisite_receipt` binds a prerequisite artifact to run and commit by its `source-identity.json`. `preflight.json`
  (`part4_stage6_prerequisites.py:152`) and the plan-validation and no-change files beside it carry neither, so a file exchanged between two
  artifacts of one kind would be admitted. `DeployedOnCurrentEvidence` therefore takes a prerequisite's artifact as a whole.
* The recovery of a deployment takes the lease before it looks at the deployment's verification, and stops unless that says
  FAIL (`aws-controlled-deployment-recovery.yml:265`). A deployment whose apply failed, or whose verification passed, and whose
  teardown then failed is recovered by no workflow, and each attempt moves the lease.
* A run lost between writing its lease and uploading the lease artifact leaves a lease that the lease recovery
  cannot release; `AccountFreed` holds by the TTL only.
* The two rule sets agree on what the generator can give. They do not on JSON nulls, which SQL's comparisons skip and
  Python's raise on, or on identifiers with a colon, which the kernel joins (`Unchecked = TRUE` shows both).
* `with_negative_inventory` takes a fixed 1,000,000 (`generator.py:180`) while the opening stock grows with the orders
  (`generator.py:41`): at 250,000 orders or more the corrupted movement no longer makes the stock negative. No caller comes near.
* The frozen contract of an authority is compared with constants of `main`, so a source from before a change of the
  contract is not recovered with the code after it. A prerequisite is bound to a commit, not to an age.
* The checkpoint's test of six Glue runs does not by itself give one run for each scenario; the histories do.
* The CI run ids in the receipts of stages 4 to 6 are compared with a pattern only (ADR 0013); the gap and handoff
  receipts may name any commit in their range. Completion recomputes no runtime digest and rests on the push run of its
  commit (`CompletedIsFrozen`).
* The builder of the completion receipt compares the candidate's links to the gap and handoff receipts with the tree of the commit
  that the candidate names (`release/part5/stage4/completion_candidate.py:496`), never with its own tree
  (`release/part5/stage5/project_completion.py:150`). With four detours (the handoff receipt published again, a candidate published
  that names that commit, the first handoff receipt restored, the controls of completion landing with their pin there) the completed
  tree's handoff receipt is not the one the candidate digested, and CI passes. It had failed at the commits in between, which
  nothing later looks at. This came up in the attempt to prove `OneChain` without `CandidateGreen`; two detours do not reach it.

## 7. Not modelled

The components listed `not_modelled` in `PROJECT.json`, each with its reason: the Glue probe (its own resource), reads of the account (preflights,
foundation, IAM, deployment verification). Of the partly modelled ones: the materialization of all source families and
its receipts, a deterministic function that CI computes twice and compares; the address sets of the Terraform
envelope; the admission and evidence of the controlled deployment; schemas, catalogues and naming audits of the release.
In the modelled parts: wall-clock time beyond the order of expiry and job, the text of errors and evidence, KMS keys
pending deletion, tables with several objects.
