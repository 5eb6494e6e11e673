---------------------------- MODULE RunAuthority ----------------------------
(***************************************************************************)
(* The documents a bounded lab acts on: three prerequisite artifacts named *)
(* by run id, the admission rebuilt from them in every job, the teardown   *)
(* authority built from the admission and the validated apply plan, and    *)
(* the recovery that trusts main's code and the failed run's source.       *)
(*                                                                         *)
(* A digest is the document it digests.  An artifact is written once and   *)
(* afterwards changed only by Misplace, which puts an artifact where       *)
(* another of its kind belongs, or one file of an admission or an          *)
(* authority; a prerequisite's artifact is one document here and is        *)
(* misplaced as a whole.  The workflows share one concurrency group, so at *)
(* most one of them is running; the preflight is outside it.               *)
(***************************************************************************)
EXTENDS Naturals, FiniteSets
LOCAL INSTANCE FiniteSetsExt

CONSTANTS
    Kinds,          \* prerequisites: read-only preflight, Glue capability probe, plan-only proof
    MaxCommit,      \* bound: commits on main
    MaxEvidence,    \* bound: runs of the prerequisite workflows
    MaxFailing,     \* bound: those of them that do not pass
    MaxAttempt,     \* bound: attempts, of all the runs of the bounded lab together
    MaxMisplace     \* bound: artifacts or files put in another's place

ASSUME AuthorityAssumption ==
    /\ {MaxCommit, MaxEvidence, MaxAttempt} \subseteq Nat \ {0}
    /\ {MaxFailing, MaxMisplace} \subseteq Nat
    /\ {"admission", "authority"} \cap Kinds = {}     \* artifact names

VARIABLES
    tip,            \* tip of main
    contract,       \* version of the frozen contract at each commit
    ran,            \* what the prerequisite runs really found
    runs,           \* runs of the bounded lab
    store,          \* artifacts by name
    lease,          \* the item of the account lease: owner and bound authority
    deployed,       \* what the Terraform state holds
    lapsed,         \* history: the table gave up a lease while that was deployed
    torn,           \* history: deployments destroyed, with the authority and source used
    misplaced

vars == <<tip, contract, ran, runs, store, lease, deployed, lapsed, torn, misplaced>>

-----------------------------------------------------------------------------
Commits == 1..MaxCommit
None == [none |-> TRUE]
Free == [owner |-> <<0, 0>>, bound |-> None]

\* The lease belongs to an attempt of a run, to nobody or to a recovery.
Recovery == <<0, 1>>

Put(f, key, value) == [k \in DOMAIN f \union {key} |-> IF k = key THEN value ELSE f[k]]

Held(name) == name \in DOMAIN store
Save(name, content) == store' = Put(store, name, content)

(* Prerequisites: part4_stage6_prerequisites.py *)

\* source-identity.json and the summary of one prerequisite artifact
Evidence(kind, id, commit, ok) == [kind |-> kind, run |-> id, commit |-> commit, ok |-> ok]

\* Plausible bug: the commit of the prerequisite is not compared.
RunOnly(e, id, commit) == e.run = id

IdentityMatches(e, id, commit) == e.run = id /\ e.commit = commit

PrerequisitesPass(evidence, inputs, commit) ==
    \A k \in Kinds : evidence[k].ok /\ IdentityMatches(evidence[k], inputs[k], commit)

(* Admission: part4_admission.py *)

\* The receipt rebuilt from the context of a job and what it finds on disk.
Receipt(run, attempt, commit, evidence, sources) ==
    [run |-> run, attempt |-> attempt, commit |-> commit, evidence |-> evidence, sources |-> sources]

Admissible(a, inputs, commit) == PrerequisitesPass(a.evidence, inputs, commit) /\ a.sources.commit = commit

AdmissionHolds(a, run, attempt, commit, inputs) ==
    /\ Admissible(a, inputs, commit)
    /\ a.receipt = Receipt(run, attempt, commit, a.evidence, a.sources)

(* Authority: part4_teardown_authority.py *)

\* `root` stands for the digests of contract, target, provider lock and infrastructure.
Authority(run, attempt, commit, root, admission, plan, validation) ==
    [run |-> run, attempt |-> attempt, commit |-> commit, root |-> root,
     admission |-> admission, plan |-> plan, validation |-> validation]

AuthorityPackage(run, attempt, commit, admission) ==
    LET plan == <<run, attempt>>
        authority == Authority(run, attempt, commit, commit, admission, plan, plan)
    IN  [authority |-> authority, admission |-> admission, validation |-> plan,
         digest |-> [authority |-> authority, run |-> run, attempt |-> attempt]]

FrozenContract(trusted, root) == contract[root] = contract[trusted]

\* Plausible bug: the authority is compared with its digest, not rebuilt from the source.
SelfConsistent(p, run, attempt, commit, trusted) ==
    /\ FrozenContract(trusted, commit)
    /\ p.authority.run = run /\ p.authority.attempt = attempt
    /\ p.digest = [authority |-> p.authority, run |-> run, attempt |-> attempt]

\* Plausible bug: the digests are those of main's source.
TrustedRoot(p, run, attempt, commit, trusted) ==
    /\ FrozenContract(trusted, commit)
    /\ p.admission.run = run /\ p.admission.attempt = attempt /\ p.admission.commit = commit
    /\ p.authority = Authority(run, attempt, commit, trusted, p.admission, p.authority.plan, p.validation)
    /\ p.digest = [authority |-> p.authority, run |-> run, attempt |-> attempt]

\* Without the plan's files, its digests are taken from the authority.
AuthorityHolds(p, run, attempt, commit, trusted) ==
    /\ FrozenContract(trusted, commit)
    /\ p.admission.run = run /\ p.admission.attempt = attempt /\ p.admission.commit = commit
    /\ p.authority = Authority(run, attempt, commit, commit, p.admission, p.authority.plan, p.validation)
    /\ p.digest = [authority |-> p.authority, run |-> run, attempt |-> attempt]

\* Owner and bound authority as manage_part4_lease.py compares them.
LeaseNames(owner, authority) == lease.owner = owner /\ lease.bound = authority

-----------------------------------------------------------------------------
Init ==
    /\ tip = 1
    /\ contract = [c \in Commits |-> 1]
    /\ ran = << >> /\ runs = << >> /\ store = << >>
    /\ lease = Free /\ deployed = None /\ lapsed = FALSE /\ torn = {}
    /\ misplaced = 0

AttemptsMade == MapThenSumSet(LAMBDA r : runs[r].attempt, DOMAIN runs)
Quiet == \A r \in DOMAIN runs : runs[r].phase \in {"failed", "done"}

\* Bound: no attempt is left and nothing is deployed, so nothing is destroyed any more.
Over == Quiet /\ deployed = None /\ AttemptsMade = MaxAttempt

\* A change set merges to main; some move the frozen contract and its constants.
Merge(version) ==
    /\ tip < MaxCommit /\ ~Over
    /\ version \in {contract[tip], contract[tip] + 1}
    /\ tip' = tip + 1
    /\ contract' = [c \in Commits |-> IF c > tip THEN version ELSE contract[c]]
    /\ UNCHANGED <<ran, runs, store, lease, deployed, lapsed, torn, misplaced>>

\* A prerequisite that no later attempt could use is left out.
Prerequisite(kind, ok) ==
    LET id == Cardinality(DOMAIN ran) + 1
        e == Evidence(kind, id, tip, ok)
    IN  /\ id <= MaxEvidence /\ AttemptsMade < MaxAttempt
        /\ kind # "preflight" => Quiet
        /\ IF ok THEN kind = "preflight" => deployed = None
                 ELSE Cardinality({i \in DOMAIN ran : ~ran[i].ok}) < MaxFailing
        /\ ran' = Put(ran, id, e)
        /\ Save(<<kind, id>>, e)
        /\ UNCHANGED <<tip, contract, runs, lease, deployed, lapsed, torn, misplaced>>

\* The dispatcher names three prerequisite runs; the source is the tip.
Dispatch(inputs) ==
    LET r == Cardinality(DOMAIN runs) + 1
    IN  /\ Quiet /\ \A k \in Kinds : Held(<<k, inputs[k]>>)
        /\ AttemptsMade < MaxAttempt
        /\ runs' = Put(runs, r, [commit |-> tip, inputs |-> inputs, attempt |-> 1,
                                 phase |-> "admission", failed |-> {}, disk |-> None])
        /\ UNCHANGED <<tip, contract, ran, store, lease, deployed, lapsed, torn, misplaced>>

Move(r, phase) == runs' = [runs EXCEPT ![r].phase = phase]

\* A job that fails leads to the next one that runs always, or ends the run.
Fail(r, job, next) == runs' = [runs EXCEPT ![r].phase = next, ![r].failed = @ \union {job}]

AdmissionName(r, attempt) == <<"admission", r, attempt>>
AuthorityName(r, attempt) == <<"authority", r, attempt>>

\* The admission job: download, build, build again, generate the sources, admit, upload.
Admit(r) ==
    LET me == runs[r]
        evidence == [k \in Kinds |-> store[<<k, me.inputs[k]>>]]
        sources == [commit |-> me.commit, run |-> r]
        a == [evidence |-> evidence, sources |-> sources,
              receipt |-> Receipt(r, me.attempt, me.commit, evidence, sources)]
    IN  /\ me.phase = "admission"
        /\ IF Admissible(a, me.inputs, me.commit)
             THEN Save(AdmissionName(r, me.attempt), a) /\ Move(r, "revalidate")
             ELSE Fail(r, "admission", "failed") /\ UNCHANGED store
        /\ UNCHANGED <<tip, contract, ran, lease, deployed, lapsed, torn, misplaced>>

AdmissionOf(r) == store[AdmissionName(r, runs[r].attempt)]
Admitted(r) ==
    /\ Held(AdmissionName(r, runs[r].attempt))
    /\ AdmissionHolds(AdmissionOf(r), r, runs[r].attempt, runs[r].commit, runs[r].inputs)

Owner(r) == <<r, runs[r].attempt>>

\* Revalidation and the acquisition of the lease.  The job keeps what it downloaded.
Acquire(r) ==
    /\ runs[r].phase = "revalidate"
    /\ Admitted(r) /\ lease = Free
    /\ lease' = [owner |-> Owner(r), bound |-> None]
    /\ runs' = [runs EXCEPT ![r].phase = "plan", ![r].disk = AdmissionOf(r).receipt]
    /\ UNCHANGED <<tip, contract, ran, store, deployed, lapsed, torn, misplaced>>

PackageOf(r) == AuthorityPackage(r, runs[r].attempt, runs[r].commit, runs[r].disk)

\* Clean preflight, saved plan, authority built, validated with the plan's files and uploaded.
Authorize(r) ==
    /\ runs[r].phase = "plan" /\ deployed = None
    /\ AuthorityHolds(PackageOf(r), r, runs[r].attempt, runs[r].commit, runs[r].commit)
    /\ Save(AuthorityName(r, runs[r].attempt), PackageOf(r))
    /\ Move(r, "bind")
    /\ UNCHANGED <<tip, contract, ran, lease, deployed, lapsed, torn, misplaced>>

Bind(r) ==
    /\ runs[r].phase = "bind"
    /\ lease' = [lease EXCEPT !.bound = PackageOf(r).authority]
    /\ Move(r, "apply")
    /\ UNCHANGED <<tip, contract, ran, store, deployed, lapsed, torn, misplaced>>

\* The workload after the apply may fail.
Apply(r, failed) ==
    /\ runs[r].phase = "apply"
    /\ deployed' = [run |-> r, attempt |-> runs[r].attempt, commit |-> runs[r].commit]
    /\ IF failed THEN Fail(r, "execute", "teardown") ELSE Move(r, "teardown")
    /\ UNCHANGED <<tip, contract, ran, store, lease, lapsed, torn, misplaced>>

ExecuteFails(r) ==
    /\ runs[r].phase \in {"revalidate", "plan", "bind", "apply"}
    /\ Fail(r, "execute", "teardown")
    /\ UNCHANGED <<tip, contract, ran, store, lease, deployed, lapsed, torn, misplaced>>

(* Teardown: the admission is revalidated, the authority decides what may be destroyed. *)

AuthorityPresent(r) ==
    LET name == AuthorityName(r, runs[r].attempt)
    IN  /\ Held(name)
        /\ AuthorityHolds(store[name], r, runs[r].attempt, runs[r].commit, runs[r].commit)
        /\ LeaseNames(Owner(r), store[name].authority)

Destroy(authority, root) ==
    /\ deployed' = None /\ lapsed' = FALSE
    /\ torn' = torn \union {[deployment |-> deployed, authority |-> authority, root |-> root, lapsed |-> lapsed]}

Teardown(r) ==
    /\ runs[r].phase = "teardown" /\ Admitted(r) /\ AuthorityPresent(r) /\ deployed # None
    /\ Destroy(store[AuthorityName(r, runs[r].attempt)].authority, runs[r].commit)
    /\ lease' = Free
    /\ Move(r, "done")
    /\ UNCHANGED <<tip, contract, ran, store, misplaced>>

\* The preflight accepts the run's own lease; only a bound lease can be released.
NoDeployment(r) ==
    /\ runs[r].phase = "teardown" /\ Admitted(r)
    /\ deployed = None /\ lease.owner = Owner(r)
    /\ IF lease.bound # None THEN lease' = Free /\ Move(r, "done")
                             ELSE UNCHANGED lease /\ Fail(r, "teardown", "failed")
    /\ UNCHANGED <<tip, contract, ran, store, deployed, lapsed, torn, misplaced>>

TeardownFails(r) ==
    /\ runs[r].phase = "teardown"
    /\ Fail(r, "teardown", "failed")
    /\ UNCHANGED <<tip, contract, ran, store, lease, deployed, lapsed, torn, misplaced>>

\* Re-run all jobs, or the failed ones and those that need them.
Rerun(r, phase) ==
    /\ Quiet
    /\ \/ phase = "admission"
       \/ phase = "revalidate" /\ "execute" \in runs[r].failed
       \/ phase = "teardown" /\ runs[r].failed = {"teardown"}
    /\ AttemptsMade < MaxAttempt
    /\ runs' = [runs EXCEPT ![r].attempt = @ + 1, ![r].phase = phase, ![r].failed = {},
                             ![r].disk = None]
    /\ UNCHANGED <<tip, contract, ran, store, lease, deployed, lapsed, torn, misplaced>>

\* The table removes an item whose expires_at has passed.  That is 7 days after a lease was
\* put, which no attempt lasts that put one; a re-run is another attempt.
TimeToLive ==
    /\ lease # Free /\ ~Over
    /\ \A r \in DOMAIN runs : lease.owner = Owner(r) => runs[r].phase \in {"failed", "done"}
    /\ lease' = Free
    /\ lapsed' = (deployed # None)
    /\ UNCHANGED <<tip, contract, ran, runs, store, deployed, torn, misplaced>>

-----------------------------------------------------------------------------
(* aws-bounded-lab-recovery.yml: run, attempt and source are typed in by the operator. *)

RecoveryAccepts(r, attempt, commit) ==
    LET name == AuthorityName(r, attempt)
    IN  /\ Held(name)
        /\ AuthorityHolds(store[name], r, attempt, commit, tip)
        /\ lease = Free \/ LeaseNames(<<r, attempt>>, store[name].authority)

\* The lease passes to the recovery; the rest may fail and leave it there.
Recover(r, attempt, commit, completes) ==
    /\ Quiet /\ ~Over /\ RecoveryAccepts(r, attempt, commit)
    /\ IF completes
         THEN /\ lease' = Free
              /\ IF deployed = None THEN UNCHANGED <<deployed, lapsed, torn>>
                                    ELSE Destroy(store[AuthorityName(r, attempt)].authority, commit)
         ELSE /\ lease' = [owner |-> Recovery, bound |-> store[AuthorityName(r, attempt)].authority]
              /\ UNCHANGED <<deployed, lapsed, torn>>
    /\ UNCHANGED <<tip, contract, ran, runs, store, misplaced>>

Misplace(name, other) ==
    /\ misplaced < MaxMisplace /\ ~Over
    /\ name # other /\ name[1] = other[1]
    /\ \/ store' = [store EXCEPT ![name] = store[other]]
       \/ /\ name[1] \in {"admission", "authority"}
          /\ \E f \in DOMAIN store[name] : store' = [store EXCEPT ![name][f] = store[other][f]]
    /\ store' # store
    /\ misplaced' = misplaced + 1
    /\ UNCHANGED <<tip, contract, ran, runs, lease, deployed, lapsed, torn>>

Next ==
    \/ \E v \in 1..MaxCommit : Merge(v)
    \/ \E k \in Kinds, ok \in BOOLEAN : Prerequisite(k, ok)
    \/ \E inputs \in [Kinds -> 1..MaxEvidence] : Dispatch(inputs)
    \/ \E r \in DOMAIN runs :
         \/ Admit(r) \/ Acquire(r) \/ Authorize(r) \/ Bind(r) \/ ExecuteFails(r)
         \/ \E failed \in BOOLEAN : Apply(r, failed)
         \/ Teardown(r) \/ NoDeployment(r) \/ TeardownFails(r)
         \/ \E phase \in {"admission", "revalidate", "teardown"} : Rerun(r, phase)
         \/ \E a \in 1..MaxAttempt, c \in 1..tip, done \in BOOLEAN : Recover(r, a, c, done)
    \/ TimeToLive
    \/ \E name, other \in DOMAIN store : Misplace(name, other)

Spec == Init /\ [][Next]_vars

-----------------------------------------------------------------------------
\* "Admit only current-source prerequisite evidence" (aws-bounded-lab.yml:94): what is
\* deployed comes from a commit at which each of the three prerequisites ran and passed,
\* whatever ids were dispatched and whatever artifact was found under their names.  Each
\* artifact is looked at as a whole: build_prerequisite_receipt compares run and commit in
\* its source-identity.json, while preflight.json carries neither.
DeployedOnCurrentEvidence ==
    deployed # None =>
        \A k \in Kinds : LET id == runs[deployed.run].inputs[k]
                         IN  ran[id] = Evidence(k, id, deployed.commit, TRUE)

\* "Missing, altered, cross-attempt, cross-source or cross-account authority fails before
\* mutation" (ADR 0006:46): a deployment is destroyed under the authority of its own
\* attempt and from its own source, by teardown and by recovery, unless the table has
\* given up its lease.  An absent lease admits the recovery of any run, over the one state.
TornByItsOwn ==
    \A t \in torn : ~t.lapsed =>
        /\ t.root = t.deployment.commit
        /\ t.deployment = [run |-> t.authority.run, attempt |-> t.authority.attempt, commit |-> t.authority.commit]

\* What a failed run leaves behind can be recovered with its own run id, attempt and
\* source (runbook.md:239), while its lease stands and again once the table has given that
\* up, as long as no artifact was changed and main keeps the frozen contract of that source.
RecoveryOpen ==
    /\ Quiet /\ misplaced = 0 /\ deployed # None
    /\ lease = Free \/ lease.owner = <<deployed.run, deployed.attempt>>
    /\ FrozenContract(tip, deployed.commit)
    => RecoveryAccepts(deployed.run, deployed.attempt, deployed.commit)
=============================================================================
