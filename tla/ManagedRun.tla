----------------------------- MODULE ManagedRun -----------------------------
(***************************************************************************)
(* The account lease and the workflows that create and destroy the managed *)
(* environment: the bounded lab with its teardown job, its recovery and    *)
(* lease recovery, and the controlled deployment with its teardown job and *)
(* its recovery (.github/workflows, scripts/manage_part4_lease.py,         *)
(* verify_preflight.py, verify_teardown.py, verify_lease_release.py,       *)
(* acquire_lock.sh, release_lock.sh, validate_recovery_handoff.py).        *)
(*                                                                         *)
(* The concurrency group portfolio-aws-account lets one workflow run at a  *)
(* time; what interleaves with it is the expiry of the lease.  A job may   *)
(* fail at any step, the reply of a conditional write may be lost (the     *)
(* CLI's retry then meets its own write), and a runner may be lost while   *)
(* Terraform holds the state lock, which nothing here releases.            *)
(***************************************************************************)
EXTENDS Naturals

CONSTANTS
    Run,         \* attempts of the bounded lab
    Recovery,    \* identities of its recovery, taken anew when the lease no longer names them
    Deployment,  \* runs of the controlled deployment
    Rescue,      \* runs of its recovery
    Expiring,    \* whether a lease outlives its expires_at
    MaxFault,    \* bound on failures, partial operations and lost replies
    MaxKill,     \* bound on runners lost while Terraform runs
    None         \* no lease, or no workflow

Owner == Run \cup Recovery \cup Deployment \cup Rescue
Target == Run \cup Deployment

Lease == [owner : Owner, run : Target, putBy : Owner, expired : BOOLEAN,
          state : {"ACQUIRED", "AUTHORITY_BOUND", "RECOVERY_BOUND", "PLAIN"}]

Workflow == [kind : {"execute", "teardown", "recover", "release", "deploy", "undeploy", "rescue"},
             owner : Owner, run : Target, previous : Rescue \cup {None},
             step : {"acquire", "persist", "preflight", "authority", "bind", "apply", "operate",
                     "decide", "prove", "surface", "plan", "destroy", "verify", "release"}]

ASSUME ManagedAssumption ==
    /\ Expiring \in BOOLEAN
    /\ {MaxFault, MaxKill} \subseteq Nat
    /\ Run \cap Recovery = {} /\ Run \cap Deployment = {} /\ Run \cap Rescue = {}
    /\ Recovery \cap Deployment = {} /\ Recovery \cap Rescue = {} /\ Deployment \cap Rescue = {}
    /\ None \notin Lease /\ None \notin Workflow /\ None \notin Rescue

VARIABLES
    lease,          \* the item portfolio-lab of the account lease table
    wf,             \* the workflow that runs: kind, lease owner, target run, next step,
                    \* and the earlier recovery it takes the lease from
    used,           \* runs that are over or under way
    leaseArtifact,  \* runs whose lease artifact is persisted
    authority,      \* runs whose teardown authority is persisted
    refused,        \* deployments whose persisted verification says FAIL
    lost,           \* deployments whose runner was lost with their evidence
    handoffs,       \* recoveries of a deployment that failed holding its lease, by artifact
    cloud,          \* runs with resources in the account
    tfstate,        \* runs with resources in the one Terraform state
    partial,        \* whether the Terraform state holds part of an envelope only
    stateLock,      \* the Terraform lock, when its holder is gone
    lapsed,         \* whether a lease has ever expired
    budget          \* faults left

evidenceVars == <<used, leaseArtifact, authority, refused, lost>>
environment  == <<cloud, tfstate, partial, stateLock, lapsed>>
vars == <<lease, wf, evidenceVars, handoffs, environment, budget>>

Init ==
    /\ lease = None
    /\ wf = None
    /\ used = {} /\ leaseArtifact = {} /\ authority = {}
    /\ refused = {} /\ lost = {} /\ handoffs = {}
    /\ cloud = {} /\ tfstate = {} /\ partial = FALSE /\ stateLock = FALSE /\ lapsed = FALSE
    /\ budget = [fault |-> MaxFault, kill |-> MaxKill]

-----------------------------------------------------------------------------
(* Jobs *)

At(kinds, step) == wf # None /\ wf.kind \in kinds /\ wf.step = step

Goto(step) == wf' = [wf EXCEPT !.step = step] /\ UNCHANGED handoffs

\* The first job of a run is followed by its teardown job.
NextJob(kind) == IF kind = "execute" THEN "teardown" ELSE "undeploy"

RunnerGone ==
    /\ wf' = IF wf.kind \in {"execute", "deploy"}
             THEN [wf EXCEPT !.kind = NextJob(wf.kind), !.step = "decide"]
             ELSE None
    /\ UNCHANGED handoffs

\* A recovery that fails with the lease, its authority verified and no clean teardown,
\* leaves the summary that validate_recovery_handoff.py asks for.
HandsOver == wf.kind = "rescue" /\ wf.step \in {"surface", "plan", "destroy", "verify"}

\* A job ends, well or badly.
JobEnds ==
    \/ ~HandsOver /\ RunnerGone
    \/ HandsOver /\ wf' = None /\ handoffs' = handoffs \cup {<<wf.owner, wf.run>>}

\* A conditional write of the lease is done, but its reply may be lost.
Written(step) == \/ Goto(step) /\ UNCHANGED budget
                 \/ /\ budget.fault > 0
                    /\ budget' = [budget EXCEPT !.fault = @ - 1]
                    /\ JobEnds

Dispatch(kind, owner, run, previous) ==
    /\ wf = None
    /\ wf' = [kind |-> kind, owner |-> owner, run |-> run, previous |-> previous,
              step |-> IF kind = "release" THEN "prove" ELSE "acquire"]
    /\ UNCHANGED <<lease, leaseArtifact, authority, refused, lost, handoffs, environment, budget>>

StartRun(r) == r \notin used /\ used' = used \cup {r} /\ Dispatch("execute", r, r, None)

StartDeployment(d) == d \notin used /\ used' = used \cup {d} /\ Dispatch("deploy", d, d, None)

\* The operator names any run whose artifacts exist.
StartRecovery(v, r) ==
    /\ r \in authority \cap Run
    /\ lease # None => v \notin {lease.owner, lease.putBy}
    /\ Dispatch("recover", v, r, None)
    /\ UNCHANGED used

StartLeaseRecovery(r) ==
    /\ r \in leaseArtifact
    /\ Dispatch("release", r, r, None)
    /\ UNCHANGED used

\* Mutant: the handoff's failed run is not compared with the one to recover.
HandedOverAny(p, d) == \E e \in Deployment : <<p, e>> \in handoffs

\* validate_recovery_handoff.py
HandedOver(p, d) == <<p, d>> \in handoffs

\* The operator names a deployment whose artifacts exist and, after an earlier recovery of
\* it failed, that one.
StartRescue(w, d, p) ==
    /\ w \notin used
    /\ d \in (authority \cap Deployment) \ lost
    /\ p # None => HandedOver(p, d)
    /\ used' = used \cup {w}
    /\ Dispatch("rescue", w, d, p)

\* An SDK or service error, a validation that fails, a timeout.
JobFails ==
    /\ wf # None
    /\ budget.fault > 0
    /\ budget' = [budget EXCEPT !.fault = @ - 1]
    /\ JobEnds
    /\ UNCHANGED <<lease, evidenceVars, environment>>

-----------------------------------------------------------------------------
(* The lease *)

Fresh(owner, run, state) ==
    [owner |-> owner, run |-> run, putBy |-> owner, expired |-> FALSE, state |-> state]

\* attribute_not_exists(lock_id) OR expires_at < :now
AbsentOrExpired == lease # None => lease.expired

\* attribute_not_exists(lock_id)
Absent == lease = None

\* manage_part4_lease.py acquire
Acquire ==
    /\ At({"execute"}, "acquire")
    /\ \/ Absent /\ lease' = Fresh(wf.owner, wf.run, "ACQUIRED") /\ Written("persist")
       \/ ~Absent /\ JobEnds /\ UNCHANGED <<lease, budget>>
    /\ UNCHANGED <<evidenceVars, environment>>

\* acquire_lock.sh: also an expired lease, whoever owns it.
AcquireLock ==
    /\ At({"deploy"}, "acquire")
    /\ \/ AbsentOrExpired /\ lease' = Fresh(wf.owner, wf.run, "PLAIN") /\ Written("persist")
       \/ ~AbsentOrExpired /\ JobEnds /\ UNCHANGED <<lease, budget>>
    /\ UNCHANGED <<evidenceVars, environment>>

OwnLease(state) == lease # None /\ lease.owner = wf.owner /\ lease.run = wf.run /\ lease.state = state

AuthorityBound(l) == [l EXCEPT !.state = "AUTHORITY_BOUND"]

\* manage_part4_lease.py bind
Bind ==
    /\ At({"execute"}, "bind")
    /\ \/ OwnLease("ACQUIRED") /\ lease' = AuthorityBound(lease) /\ Written("apply")
       \/ ~OwnLease("ACQUIRED") /\ JobEnds /\ UNCHANGED <<lease, budget>>
    /\ UNCHANGED <<evidenceVars, environment>>

\* The lease of the failed run, bound to its authority.
FailedRunsLease ==
    lease # None /\ lease.owner = wf.run /\ lease.run = wf.run /\ lease.state = "AUTHORITY_BOUND"

\* Mutant: an absent lease is not acquired.
NeverAbsent == FALSE

RecoversAbsent == lease = None

\* manage_part4_lease.py recover: the update keeps expires_at, the put renews it.
RecoverLease ==
    /\ At({"recover"}, "acquire")
    /\ \/ /\ FailedRunsLease
          /\ lease' = [lease EXCEPT !.owner = wf.owner, !.run = wf.run, !.state = "RECOVERY_BOUND"]
          /\ Written("decide")
       \/ /\ RecoversAbsent
          /\ lease' = Fresh(wf.owner, wf.run, "RECOVERY_BOUND")
          /\ Written("decide")
       \/ /\ ~FailedRunsLease /\ ~RecoversAbsent
          /\ JobEnds
          /\ UNCHANGED <<lease, budget>>
    /\ UNCHANGED <<evidenceVars, environment>>

\* attribute_not_exists(lock_id) OR owner = :expected_owner
NamedOrAbsent ==
    lease # None => lease.owner = IF wf.previous = None THEN wf.run ELSE wf.previous

\* The recovery of a deployment puts a lease of its own over the named one.
TakeOver ==
    /\ At({"rescue"}, "acquire")
    /\ \/ NamedOrAbsent /\ lease' = Fresh(wf.owner, wf.run, "PLAIN") /\ Written("surface")
       \/ ~NamedOrAbsent /\ JobEnds /\ UNCHANGED <<lease, budget>>
    /\ UNCHANGED <<evidenceVars, environment>>

\* The condition of the deletion, by workflow; release_lock.sh compares the owner only.
Releasable ==
    CASE wf.kind = "teardown" -> OwnLease("AUTHORITY_BOUND")
      [] wf.kind = "recover"  -> OwnLease("RECOVERY_BOUND")
      [] wf.kind = "release"  -> OwnLease("ACQUIRED")
      [] OTHER                -> lease # None /\ lease.owner = wf.owner

Release ==
    /\ At({"teardown", "recover", "release", "undeploy", "rescue"}, "release")
    /\ \/ Releasable /\ lease' = None
       \/ ~Releasable /\ UNCHANGED lease
    /\ JobEnds
    /\ UNCHANGED <<evidenceVars, environment, budget>>

\* expires_at passes.  A lease outlives the workflow that put it: 7 days (3 hours for
\* acquire_lock.sh) against the jobs' timeouts.  A lease recovery comes later.
Expire ==
    /\ Expiring
    /\ lease # None
    /\ ~lease.expired
    /\ wf # None => wf.kind = "release" \/ wf.owner # lease.putBy
    /\ lease' = [lease EXCEPT !.expired = TRUE]
    /\ lapsed' = TRUE
    /\ UNCHANGED <<wf, evidenceVars, handoffs, cloud, tfstate, partial, stateLock, budget>>

\* Mutant: the TTL of the table names another attribute.
NeverStale(l) == FALSE

Stale(l) == l.expired

\* The TTL of the lease table removes an expired item.
TimeToLive ==
    /\ lease # None
    /\ Stale(lease)
    /\ lease' = None
    /\ UNCHANGED <<wf, evidenceVars, handoffs, environment, budget>>

-----------------------------------------------------------------------------
(* From the lease to the apply *)

\* Mutant: the saved plan is applied before the authority is persisted.
ApplyFirst(kind) == "apply"

AfterPreflight(kind) == "authority"

Persist ==
    /\ At({"execute", "deploy"}, "persist")
    /\ leaseArtifact' = IF wf.kind = "execute" THEN leaseArtifact \cup {wf.run} ELSE leaseArtifact
    /\ Goto("preflight")
    /\ UNCHANGED <<lease, used, authority, refused, lost, environment, budget>>

\* Mutant: the tag inventory is not looked at.
StateEmpty == tfstate = {}

NothingDeployed == tfstate = {} /\ cloud = {}

\* verify_preflight.py with the expected owner
Clean == /\ NothingDeployed
         /\ lease # None
         /\ lease.owner = wf.owner
         /\ ~lease.expired

Preflight ==
    /\ At({"execute", "deploy"}, "preflight")
    /\ \/ Clean /\ Goto(AfterPreflight(wf.kind))
       \/ ~Clean /\ JobEnds
    /\ UNCHANGED <<lease, evidenceVars, environment, budget>>

\* The artifact of the authority.  The lab plans before it, for which Terraform takes the
\* state lock, the deployment after it.
PersistAuthority ==
    /\ At({"execute", "deploy"}, "authority")
    /\ authority' = IF wf.kind = "execute" /\ stateLock THEN authority ELSE authority \cup {wf.run}
    /\ \/ ~stateLock /\ Goto(IF wf.kind = "execute" THEN "bind" ELSE "apply")
       \/ stateLock /\ JobEnds
    /\ UNCHANGED <<lease, used, leaseArtifact, refused, lost, environment, budget>>

Apply ==
    /\ At({"execute", "deploy"}, "apply")
    /\ cloud' = cloud \cup {wf.run}
    /\ \/ /\ tfstate' = tfstate \cup {wf.run}
          /\ Goto("operate")
          /\ UNCHANGED <<lost, partial, stateLock, budget>>
       \/ \* Terraform fails, and has recorded what it made.
          /\ budget.fault > 0
          /\ budget' = [budget EXCEPT !.fault = @ - 1]
          /\ tfstate' = tfstate \cup {wf.run}
          /\ partial' = TRUE
          /\ JobEnds
          /\ UNCHANGED <<lost, stateLock>>
       \/ \* The runner is lost with it.
          /\ budget.kill > 0
          /\ budget' = [budget EXCEPT !.kill = @ - 1]
          /\ tfstate' \in {tfstate, tfstate \cup {wf.run}}
          /\ partial' = (tfstate' # {})
          /\ stateLock' = TRUE
          /\ lost' = lost \cup ({wf.run} \cap Deployment)
          /\ RunnerGone
    /\ UNCHANGED <<lease, used, leaseArtifact, authority, refused, lapsed>>

\* Deployment verification, workload and evidence.
Operate ==
    /\ At({"execute", "deploy"}, "operate")
    /\ refused' \in {refused, refused \cup ({wf.run} \cap Deployment)}
    /\ JobEnds
    /\ UNCHANGED <<lease, used, leaseArtifact, authority, lost, environment, budget>>

-----------------------------------------------------------------------------
(* Cleanup *)

AuthorityProved == wf.run \in authority /\ OwnLease("AUTHORITY_BOUND")

\* The teardown job destroys under proved authority and a state with resources; without
\* them it proves that nothing is deployed.  Its artifact may be out of reach.
DecideTeardown ==
    /\ At({"teardown"}, "decide")
    /\ \/ Goto(IF AuthorityProved /\ tfstate # {} THEN "destroy" ELSE "prove") /\ UNCHANGED budget
       \/ /\ budget.fault > 0
          /\ budget' = [budget EXCEPT !.fault = @ - 1]
          /\ Goto("prove")
    /\ UNCHANGED <<lease, evidenceVars, environment>>

\* The recovery has checked the authority and taken the lease.
DecideRecovery ==
    /\ At({"recover"}, "decide")
    /\ Goto(IF tfstate # {} THEN "destroy" ELSE "prove")
    /\ UNCHANGED <<lease, evidenceVars, environment, budget>>

\* The controlled deployment's teardown looks at the authority alone.
DecideUndeploy ==
    /\ At({"undeploy"}, "decide")
    /\ \/ wf.run \in authority /\ Goto("destroy")
       \/ wf.run \notin authority /\ JobEnds
    /\ UNCHANGED <<lease, evidenceVars, environment, budget>>

\* The lease recovery also accepts that the lease is gone.
CleanOrAbsent ==
    /\ NothingDeployed
    /\ lease # None => OwnLease("ACQUIRED") /\ ~lease.expired

Prove ==
    LET clean == IF wf.kind = "release" THEN CleanOrAbsent ELSE Clean IN
    /\ At({"teardown", "recover", "release"}, "prove")
    /\ \/ clean /\ Goto("release")
       \/ ~clean /\ JobEnds
    /\ UNCHANGED <<lease, evidenceVars, environment, budget>>

\* Only a deployment whose verification failed is recovered: the recovery stops, with the
\* lease, when the persisted verification passed or was never written.
Surface ==
    /\ At({"rescue"}, "surface")
    /\ \/ wf.run \in refused /\ Goto("plan")
       \/ wf.run \notin refused /\ JobEnds
    /\ UNCHANGED <<lease, evidenceVars, environment, budget>>

\* A first recovery accepts a destroy plan of the exact envelope only, a later one of any part.
EnvelopeAccepted == wf.previous = None => tfstate # {} /\ ~partial

Plan ==
    /\ At({"rescue"}, "plan")
    /\ \/ ~stateLock /\ EnvelopeAccepted /\ Goto("destroy")
       \/ (stateLock \/ ~EnvelopeAccepted) /\ JobEnds
    /\ UNCHANGED <<lease, evidenceVars, environment, budget>>

\* The destroy plan covers all of the state.
Destroy ==
    /\ At({"teardown", "recover", "undeploy", "rescue"}, "destroy")
    /\ ~stateLock
    /\ \/ /\ cloud' = cloud \ tfstate
          /\ tfstate' = {}
          /\ partial' = FALSE
          /\ Goto("verify")
          /\ UNCHANGED <<stateLock, budget>>
       \/ /\ budget.kill > 0
          /\ budget' = [budget EXCEPT !.kill = @ - 1]
          /\ stateLock' = TRUE
          /\ RunnerGone
          /\ UNCHANGED <<cloud, tfstate, partial>>
    /\ UNCHANGED <<lease, evidenceVars, lapsed>>

\* The plan is refused, the state is locked, or resources remain; all but the lab's
\* recovery verify all the same.
DestroyFails ==
    /\ At({"teardown", "recover", "undeploy", "rescue"}, "destroy")
    /\ \/ stateLock /\ UNCHANGED <<partial, budget>>
       \/ /\ budget.fault > 0
          /\ budget' = [budget EXCEPT !.fault = @ - 1]
          /\ partial' \in {partial, tfstate # {}}
    /\ \/ wf.kind # "recover" /\ Goto("verify")
       \/ wf.kind = "recover" /\ JobEnds
    /\ UNCHANGED <<lease, evidenceVars, cloud, tfstate, stateLock, lapsed>>

\* Mutant: a run is taken for clean whatever is left.
AssumedGone == TRUE

\* verify_teardown.py: the whole state, and the resources of the run's RunId.
TeardownProved == tfstate = {} /\ wf.run \notin cloud

Verify ==
    /\ At({"teardown", "recover", "undeploy", "rescue"}, "verify")
    /\ \/ TeardownProved /\ Goto("release")
       \/ ~TeardownProved /\ JobEnds
    /\ UNCHANGED <<lease, evidenceVars, environment, budget>>

-----------------------------------------------------------------------------
JobStep == \/ Acquire \/ AcquireLock \/ RecoverLease \/ TakeOver \/ Bind \/ Release
           \/ Persist \/ Preflight \/ PersistAuthority \/ Apply \/ Operate
           \/ DecideTeardown \/ DecideRecovery \/ DecideUndeploy
           \/ Surface \/ Plan \/ Prove \/ Destroy \/ DestroyFails \/ Verify

Next ==
    \/ \E r \in Run : StartRun(r) \/ StartLeaseRecovery(r)
    \/ \E v \in Recovery, r \in Run : StartRecovery(v, r)
    \/ \E d \in Deployment : StartDeployment(d)
    \/ \E w \in Rescue, d \in Deployment, p \in Rescue \cup {None} : StartRescue(w, d, p)
    \/ JobStep
    \/ JobFails
    \/ Expire
    \/ TimeToLive

Spec == Init /\ [][Next]_vars

\* A job goes on until it ends; the operator's recovery of a run that left resources
\* behind gets its turn in the concurrency group; time passes and the TTL works.
Operated ==
    /\ WF_vars(JobStep)
    /\ SF_vars(\E v \in Recovery, r \in cloud : StartRecovery(v, r))
    /\ WF_vars(Expire)
    /\ WF_vars(TimeToLive)

OperatedSpec == Spec /\ Operated

-----------------------------------------------------------------------------
(* Properties *)

\* Types of the lease, the workflow and what they leave behind.
TypeOK ==
    /\ lease \in Lease \cup {None}
    /\ wf \in Workflow \cup {None}
    /\ used \subseteq Target \cup Rescue
    /\ leaseArtifact \subseteq Run
    /\ refused \subseteq Deployment /\ lost \subseteq Deployment
    /\ handoffs \subseteq Rescue \X Deployment
    /\ authority \subseteq Target /\ cloud \subseteq Target /\ tfstate \subseteq Target
    /\ partial \in BOOLEAN /\ stateLock \in BOOLEAN /\ lapsed \in BOOLEAN
    /\ budget \in [fault : 0..MaxFault, kill : 0..MaxKill]

\* Whatever fails, resources exist only for a run whose teardown authority was persisted
\* before: there is always something to clean them up with.
ResourcesHaveAuthority == cloud \cup tfstate \subseteq authority

\* As long as no lease expires, the account is leased to the one run whose resources
\* it holds.
LeaseCoversResources ==
    ~lapsed /\ cloud \cup tfstate # {} => lease # None /\ cloud \cup tfstate = {lease.run}

\* A workflow gives the lease up only when nothing is left in the account or the state,
\* although verify_teardown.py looks for the resources of one run only.
GivesUpOnlyClean == lease # None /\ lease' = None /\ wf' # wf => tfstate = {} /\ cloud = {}
ReleasedOnlyClean == [][GivesUpOnlyClean]_vars

\* "Missing, altered, cross-attempt, cross-source or cross-account authority fails before
\* mutation" (ADR 0006:46): a workflow destroys only the resources of the run whose
\* authority it was given, as long as no lease expires.
DestroysOwn == cloud \ cloud' \subseteq {wf.run}
OnlyOwnResources == [][wf # None /\ ~lapsed => DestroysOwn]_vars

\* Once no more fails, the resources a run left behind are destroyed: by its own teardown,
\* or by a recovery, which waits for a lease it cannot take over to leave the table.  Only
\* a Terraform lock whose holder is gone stops this: nothing here releases it.
ResourcesGo == \A r \in Run : r \in cloud ~> r \notin cloud \/ stateLock

\* The account is never leased for ever.  A runner lost between the write of the lease and
\* the upload of its artifact leaves a lease that no workflow may release.
AccountFreed == []<>(lease = None)
=============================================================================
