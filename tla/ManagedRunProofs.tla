-------------------------- MODULE ManagedRunProofs --------------------------
(***************************************************************************)
(* Theorems about ManagedRun for any runs, recoveries and deployments, and *)
(* any number of failures, lost replies and lost runners.                  *)
(***************************************************************************)
EXTENDS ManagedRun, TLAPS

-----------------------------------------------------------------------------
(* The inductive invariant *)

Resources == cloud \cup tfstate

\* A lease of a lab run or a deployment is as that run put it; one of a recovery of a
\* deployment stands for the deployment it was taken for.
LeaseInv ==
    lease # None =>
        /\ lease.expired => lapsed
        /\ lease.owner \in Target => lease.putBy = lease.owner /\ lease.run = lease.owner
        /\ lease.owner \in Rescue =>
             /\ lease.owner \in used
             /\ \A d \in Deployment : <<lease.owner, d>> \in handoffs => d = lease.run

\* Authority is persisted by runs under way, before they have resources; the state loses
\* sight of resources only with its lock.
ResourcesInv ==
    /\ authority \subseteq used
    /\ Resources \subseteq authority
    /\ tfstate \subseteq cloud
    /\ ~stateLock => tfstate = cloud

\* A recovery that handed its lease over did it for one deployment, and is over.
HandoffInv ==
    /\ \A p \in Rescue, d \in Deployment : <<p, d>> \in handoffs => p \in used
    /\ wf # None /\ wf.kind = "rescue" =>
         /\ wf.owner \in used
         /\ \A d \in Deployment : <<wf.owner, d>> \notin handoffs
         /\ wf.previous # None => <<wf.previous, wf.run>> \in handoffs
         /\ lease # None /\ lease.owner = wf.owner => lease.run = wf.run

\* Whom a workflow works for.
KindInv ==
    wf # None =>
        /\ wf.kind \in {"execute", "teardown", "release"} => wf.owner = wf.run /\ wf.run \in Run
        /\ wf.kind \in {"deploy", "undeploy"} => wf.owner = wf.run /\ wf.run \in Deployment
        /\ wf.kind = "recover" => wf.owner \in Recovery /\ wf.run \in Run
        /\ wf.kind = "rescue" => wf.owner \in Rescue /\ wf.run \in Deployment

\* The first job of a run and its teardown job: with authority, all resources are the run's.
OwnInv ==
    wf # None =>
        /\ wf.kind \in {"execute", "teardown", "deploy", "undeploy"} /\ wf.run \in authority =>
             Resources \subseteq {wf.run}
        /\ wf.kind \in {"execute", "deploy"} =>
             /\ wf.run \in used
             /\ wf.step \in {"acquire", "persist", "preflight"} => wf.run \notin authority
             /\ wf.step \in {"authority", "bind", "apply"} =>
                  Resources = {} /\ lease # None /\ lease.owner = wf.owner /\ ~lease.expired
             /\ wf.step \in {"bind", "apply"} => wf.run \in authority

\* What a cleanup has established at each of its steps.
CleanupInv ==
    wf # None =>
        /\ wf.kind \in {"teardown", "undeploy"} /\ wf.step \in {"destroy", "verify"} =>
             wf.run \in authority
        /\ wf.kind \in {"recover", "rescue"} /\ wf.step # "acquire" /\ ~lapsed =>
             lease # None /\ lease.owner = wf.owner /\ lease.run = wf.run
        /\ wf.kind = "rescue" /\ wf.step = "destroy" => ~stateLock
        /\ wf.kind \in {"recover", "rescue"} /\ wf.step = "verify" => cloud = tfstate
        /\ wf.step = "release" => Resources = {}

IInv ==
    /\ TypeOK
    /\ LeaseInv
    /\ ResourcesInv
    /\ HandoffInv
    /\ KindInv
    /\ OwnInv
    /\ CleanupInv
    /\ LeaseCoversResources

-----------------------------------------------------------------------------
(* What moves a workflow *)

Steps == {"acquire", "persist", "preflight", "authority", "bind", "apply", "operate",
          "decide", "prove", "surface", "plan", "destroy", "verify", "release"}

\* The next step of the same job.
Moved(step) ==
    /\ wf' \in Workflow /\ wf' # None
    /\ wf'.kind = wf.kind /\ wf'.owner = wf.owner /\ wf'.run = wf.run
    /\ wf'.previous = wf.previous /\ wf'.step = step
    /\ handoffs' = handoffs

\* The end of a job: nothing runs, or the teardown of the same run.
Ended ==
    /\ wf' \in Workflow \cup {None}
    /\ wf' # None =>
         /\ wf'.step = "decide" /\ wf'.owner = wf.owner /\ wf'.run = wf.run
         /\ \/ wf.kind = "execute" /\ wf'.kind = "teardown"
            \/ wf.kind = "deploy" /\ wf'.kind = "undeploy"
    /\ \/ handoffs' = handoffs
       \/ wf.kind = "rescue" /\ handoffs' = handoffs \cup {<<wf.owner, wf.run>>}

\* What Goto and the two ends of a job do.
LEMMA GotoMoves ==
    ASSUME TypeOK, wf # None, NEW s \in Steps, Goto(s)
    PROVE  Moved(s)
BY ManagedAssumption DEF TypeOK, Workflow, Goto, Moved, Steps

LEMMA GoneEnds ==
    ASSUME TypeOK, wf # None, RunnerGone
    PROVE  Ended
<1>1. CASE wf.kind = "execute"
    BY <1>1, ManagedAssumption DEF TypeOK, Workflow, RunnerGone, NextJob, Ended
<1>2. CASE wf.kind = "deploy"
    BY <1>2, ManagedAssumption DEF TypeOK, Workflow, RunnerGone, NextJob, Ended
<1>3. CASE wf.kind \notin {"execute", "deploy"}
    BY <1>3 DEF RunnerGone, Ended
<1> QED BY <1>1, <1>2, <1>3

LEMMA JobEndsEnds ==
    ASSUME TypeOK, wf # None, JobEnds
    PROVE  Ended
<1>1. CASE RunnerGone
    BY <1>1, GoneEnds
<1>2. CASE HandsOver /\ wf' = None /\ handoffs' = handoffs \cup {<<wf.owner, wf.run>>}
    BY <1>2 DEF HandsOver, Ended
<1> QED BY <1>1, <1>2 DEF JobEnds

\* Handoffs stay pairs of a recovery and a deployment.
LEMMA HandoffTypes ==
    ASSUME TypeOK, KindInv, wf # None, handoffs' = handoffs \/ Ended
    PROVE  handoffs' \subseteq Rescue \X Deployment
BY DEF TypeOK, KindInv, Ended

\* What the end of a job leaves of the invariant, when the rest of the step keeps the
\* resources of a run with authority its own.
LEMMA EndKeeps ==
    ASSUME IInv, wf # None, Ended, used' = used,
           wf.kind \in {"execute", "deploy"} /\ wf.run \in authority' => Resources' \subseteq {wf.run}
    PROVE  HandoffInv' /\ KindInv' /\ OwnInv' /\ CleanupInv'
<1>1. HandoffInv'
    <2>1. ASSUME NEW p \in Rescue, NEW d \in Deployment, <<p, d>> \in handoffs'
          PROVE  p \in used'
        BY <2>1 DEF IInv, HandoffInv, KindInv, Ended
    <2>2. wf' # None => wf'.kind # "rescue"
        BY DEF Ended
    <2> QED BY <2>1, <2>2 DEF HandoffInv
<1>2. KindInv'
    BY DEF IInv, KindInv, Ended
<1>3. OwnInv'
    BY DEF Ended, OwnInv
<1>4. CleanupInv'
    BY DEF Ended, CleanupInv
<1> QED BY <1>1, <1>2, <1>3, <1>4

\* What a step that leaves all but the workflow keeps.
LEMMA DataKept ==
    ASSUME IInv, wf # None, UNCHANGED <<lease, evidenceVars, environment>>,
           budget' \in [fault : 0..MaxFault, kill : 0..MaxKill],
           (wf' \in Workflow /\ handoffs' = handoffs) \/ Ended
    PROVE  TypeOK' /\ LeaseInv' /\ ResourcesInv' /\ LeaseCoversResources'
<1>1. TypeOK'
    BY HandoffTypes DEF IInv, TypeOK, Ended, evidenceVars, environment
<1>2. LeaseInv'
    BY DEF IInv, LeaseInv, HandoffInv, Ended, evidenceVars, environment
<1>3. ResourcesInv' /\ LeaseCoversResources'
    BY DEF IInv, ResourcesInv, LeaseCoversResources, Resources, evidenceVars, environment
<1> QED BY <1>1, <1>2, <1>3

\* A job that ends with nothing else changed keeps the invariant.
LEMMA EndStep ==
    ASSUME IInv, wf # None, JobEnds, UNCHANGED <<lease, evidenceVars, environment>>,
           budget' \in [fault : 0..MaxFault, kill : 0..MaxKill]
    PROVE  IInv'
<1>1. Ended
    BY JobEndsEnds DEF IInv
<1>2. TypeOK' /\ LeaseInv' /\ ResourcesInv' /\ LeaseCoversResources'
    BY <1>1, DataKept
<1>3. wf.kind \in {"execute", "deploy"} /\ wf.run \in authority' => Resources' \subseteq {wf.run}
    BY DEF IInv, OwnInv, Resources, evidenceVars, environment
<1>4. used' = used
    BY DEF evidenceVars
<1> QED BY <1>1, <1>2, <1>3, <1>4, EndKeeps DEF IInv

\* A fault, or a lost runner, stays within the budget.
LEMMA FaultSpent ==
    ASSUME TypeOK, budget.fault > 0, budget' = [budget EXCEPT !.fault = budget.fault - 1]
    PROVE  budget' \in [fault : 0..MaxFault, kill : 0..MaxKill]
BY ManagedAssumption DEF TypeOK

LEMMA KillSpent ==
    ASSUME TypeOK, budget.kill > 0, budget' = [budget EXCEPT !.kill = budget.kill - 1]
    PROVE  budget' \in [fault : 0..MaxFault, kill : 0..MaxKill]
BY ManagedAssumption DEF TypeOK

\* A conditional write moves the job on, or its lost reply ends it.
LEMMA WrittenMoves ==
    ASSUME TypeOK, wf # None, NEW s \in Steps, Written(s)
    PROVE  /\ Moved(s) \/ Ended
           /\ budget' \in [fault : 0..MaxFault, kill : 0..MaxKill]
<1>1. CASE Goto(s) /\ UNCHANGED budget
    BY <1>1, GotoMoves DEF TypeOK
<1>2. CASE /\ budget.fault > 0
           /\ budget' = [budget EXCEPT !.fault = budget.fault - 1]
           /\ JobEnds
    BY <1>2, FaultSpent, JobEndsEnds
<1> QED BY <1>1, <1>2 DEF Written

\* A step of a job that changes nothing else keeps the invariant when it keeps the two
\* parts about the job's steps.
LEMMA MoveStep ==
    ASSUME IInv, wf # None, NEW s \in Steps, Moved(s),
           UNCHANGED <<lease, evidenceVars, environment>>,
           budget' \in [fault : 0..MaxFault, kill : 0..MaxKill],
           OwnInv', CleanupInv'
    PROVE  IInv'
<1>1. TypeOK' /\ LeaseInv' /\ ResourcesInv' /\ LeaseCoversResources'
    BY DataKept DEF Moved
<1>2. HandoffInv'
    BY DEF IInv, HandoffInv, Moved, evidenceVars
<1>3. KindInv'
    BY DEF IInv, KindInv, Moved
<1> QED BY <1>1, <1>2, <1>3 DEF IInv

\* A lease that is written keeps the invariant when the new one fits the resources and,
\* if the job goes on, the job.
LEMMA LeaseStep ==
    ASSUME IInv, wf # None, NEW s \in Steps, Moved(s) \/ Ended,
           lease' \in Lease, UNCHANGED <<evidenceVars, environment>>,
           budget' \in [fault : 0..MaxFault, kill : 0..MaxKill],
           LeaseInv', LeaseCoversResources',
           Moved(s) => HandoffInv' /\ OwnInv' /\ CleanupInv'
    PROVE  IInv'
<1>1. TypeOK'
    BY HandoffTypes DEF IInv, TypeOK, Moved, Ended, evidenceVars, environment
<1>2. ResourcesInv'
    BY DEF IInv, ResourcesInv, Resources, evidenceVars, environment
<1>3. CASE Moved(s)
    <2>1. KindInv'
        BY <1>3 DEF IInv, KindInv, Moved
    <2> QED BY <1>1, <1>2, <1>3, <2>1 DEF IInv
<1>4. CASE Ended
    <2>1. wf.kind \in {"execute", "deploy"} /\ wf.run \in authority' => Resources' \subseteq {wf.run}
        BY DEF IInv, OwnInv, Resources, evidenceVars, environment
    <2>2. used' = used
        BY DEF evidenceVars
    <2> QED BY <1>1, <1>2, <1>4, <2>1, <2>2, EndKeeps DEF IInv
<1> QED BY <1>3, <1>4

-----------------------------------------------------------------------------
(* The steps that write the lease *)

LEMMA AcquireStep ==
    ASSUME IInv, Acquire
    PROVE  IInv'
<1>1. wf # None /\ wf.kind = "execute" /\ wf.step = "acquire"
    BY DEF Acquire, At
<1>2. CASE lease = None /\ lease' = Fresh(wf.owner, wf.run, "ACQUIRED") /\ Written("persist")
    <2>1. /\ Moved("persist") \/ Ended
          /\ budget' \in [fault : 0..MaxFault, kill : 0..MaxKill]
        BY <1>1, <1>2, WrittenMoves DEF IInv, Steps
    <2>2. wf.owner = wf.run /\ wf.run \in Run
        BY <1>1 DEF IInv, KindInv
    <2>3. lease' \in Lease /\ LeaseInv'
        BY <1>2, <2>2, ManagedAssumption DEF Fresh, Lease, LeaseInv, Owner, Target
    <2>4. LeaseCoversResources'
        BY <1>2 DEF Acquire, IInv, LeaseCoversResources, environment
    <2>5. ASSUME Moved("persist") PROVE HandoffInv' /\ OwnInv' /\ CleanupInv'
        BY <1>1, <2>5 DEF Acquire, IInv, HandoffInv, OwnInv, CleanupInv, Moved, Resources,
                          evidenceVars, environment
    <2> QED BY <1>1, <2>1, <2>3, <2>4, <2>5, LeaseStep DEF Acquire, Steps
<1>3. CASE JobEnds /\ UNCHANGED <<lease, budget>>
    BY <1>1, <1>3, EndStep DEF Acquire, IInv, TypeOK
<1> QED BY <1>2, <1>3 DEF Acquire, Absent

LEMMA AcquireLockStep ==
    ASSUME IInv, AcquireLock
    PROVE  IInv'
<1>1. wf # None /\ wf.kind = "deploy" /\ wf.step = "acquire"
    BY DEF AcquireLock, At
<1>2. CASE AbsentOrExpired /\ lease' = Fresh(wf.owner, wf.run, "PLAIN") /\ Written("persist")
    <2>1. /\ Moved("persist") \/ Ended
          /\ budget' \in [fault : 0..MaxFault, kill : 0..MaxKill]
        BY <1>1, <1>2, WrittenMoves DEF IInv, Steps
    <2>2. wf.owner = wf.run /\ wf.run \in Deployment
        BY <1>1 DEF IInv, KindInv
    <2>3. lease' \in Lease /\ LeaseInv'
        BY <1>2, <2>2, ManagedAssumption DEF Fresh, Lease, LeaseInv, Owner, Target
    <2>4. LeaseCoversResources'
        BY <1>2 DEF AcquireLock, AbsentOrExpired, IInv, LeaseInv, LeaseCoversResources, environment
    <2>5. ASSUME Moved("persist") PROVE HandoffInv' /\ OwnInv' /\ CleanupInv'
        BY <1>1, <2>5 DEF AcquireLock, IInv, HandoffInv, OwnInv, CleanupInv, Moved, Resources,
                          evidenceVars, environment
    <2> QED BY <1>1, <2>1, <2>3, <2>4, <2>5, LeaseStep DEF AcquireLock, Steps
<1>3. CASE JobEnds /\ UNCHANGED <<lease, budget>>
    BY <1>1, <1>3, EndStep DEF AcquireLock, IInv, TypeOK
<1> QED BY <1>2, <1>3 DEF AcquireLock

LEMMA BindStep ==
    ASSUME IInv, Bind
    PROVE  IInv'
<1>1. wf # None /\ wf.kind = "execute" /\ wf.step = "bind"
    BY DEF Bind, At
<1>2. CASE OwnLease("ACQUIRED") /\ lease' = AuthorityBound(lease) /\ Written("apply")
    <2>1. /\ Moved("apply") \/ Ended
          /\ budget' \in [fault : 0..MaxFault, kill : 0..MaxKill]
        BY <1>1, <1>2, WrittenMoves DEF IInv, Steps
    <2>2. /\ lease \in Lease /\ lease # None /\ lease' \in Lease /\ lease' # None
          /\ lease'.owner = lease.owner /\ lease'.run = lease.run
          /\ lease'.putBy = lease.putBy /\ lease'.expired = lease.expired
        BY <1>2, ManagedAssumption DEF OwnLease, AuthorityBound, IInv, TypeOK, Lease
    <2>3. LeaseInv'
        <3>1. wf.owner \notin Rescue
            BY <1>1, ManagedAssumption DEF IInv, KindInv
        <3> QED BY <1>1, <2>1, <2>2, <3>1 DEF Bind, IInv, LeaseInv, Moved, Ended, evidenceVars, environment
    <2>4. LeaseCoversResources'
        BY <2>2 DEF Bind, IInv, LeaseCoversResources, environment
    <2>5. ASSUME Moved("apply") PROVE HandoffInv' /\ OwnInv' /\ CleanupInv'
        BY <1>1, <2>2, <2>5 DEF Bind, IInv, HandoffInv, OwnInv, CleanupInv, Moved, Resources,
                                evidenceVars, environment
    <2> QED BY <1>1, <2>1, <2>2, <2>3, <2>4, <2>5, LeaseStep DEF Bind, Steps
<1>3. CASE JobEnds /\ UNCHANGED <<lease, budget>>
    BY <1>1, <1>3, EndStep DEF Bind, IInv, TypeOK
<1> QED BY <1>2, <1>3 DEF Bind

LEMMA RecoverLeaseStep ==
    ASSUME IInv, RecoverLease
    PROVE  IInv'
<1>1. wf # None /\ wf.kind = "recover" /\ wf.step = "acquire"
    BY DEF RecoverLease, At
<1>2. wf.owner \in Recovery /\ wf.run \in Run /\ wf.owner \notin Target \cup Rescue
    BY <1>1, ManagedAssumption DEF IInv, KindInv, Target
<1>3. ASSUME lease' \in Lease, lease'.owner = wf.owner, lease'.run = wf.run,
             lease'.expired => lapsed, LeaseCoversResources', Written("decide"),
             UNCHANGED <<evidenceVars, environment>>
      PROVE  IInv'
    <2>1. /\ Moved("decide") \/ Ended
          /\ budget' \in [fault : 0..MaxFault, kill : 0..MaxKill]
        BY <1>1, <1>3, WrittenMoves DEF IInv, Steps
    <2>2. lease' # None
        BY <1>3, ManagedAssumption
    <2>3. LeaseInv'
        BY <1>2, <1>3 DEF LeaseInv, environment
    <2>4. ASSUME Moved("decide") PROVE HandoffInv' /\ OwnInv' /\ CleanupInv'
        BY <1>1, <1>3, <2>2, <2>4 DEF IInv, HandoffInv, OwnInv, CleanupInv, Moved, Resources,
                                      evidenceVars, environment
    <2> QED BY <1>1, <1>3, <2>1, <2>3, <2>4, LeaseStep DEF Steps
<1>4. CASE /\ FailedRunsLease
           /\ lease' = [lease EXCEPT !.owner = wf.owner, !.run = wf.run, !.state = "RECOVERY_BOUND"]
           /\ Written("decide")
    <2>1. /\ lease \in Lease /\ lease' \in Lease /\ lease' # None
          /\ lease'.owner = wf.owner /\ lease'.run = wf.run /\ lease'.expired = lease.expired
        <3>1. lease \in Lease
            BY <1>4 DEF FailedRunsLease, IInv, TypeOK
        <3>2. wf.owner \in Owner /\ wf.run \in Target
            BY <1>2 DEF Owner, Target
        <3>3. lease' \in Lease
            BY <1>4, <3>1, <3>2 DEF Lease
        <3>4. lease'.owner = wf.owner /\ lease'.run = wf.run /\ lease'.expired = lease.expired
            BY <1>4, <3>1 DEF Lease
        <3> QED BY <3>1, <3>3, <3>4, ManagedAssumption
    <2>2. lease'.expired => lapsed
        BY <1>4, <2>1 DEF FailedRunsLease, IInv, LeaseInv
    <2>3. LeaseCoversResources'
        BY <1>4, <2>1 DEF RecoverLease, FailedRunsLease, IInv, LeaseCoversResources, environment
    <2> QED BY <1>3, <1>4, <2>1, <2>2, <2>3 DEF RecoverLease
<1>5. CASE /\ RecoversAbsent
           /\ lease' = Fresh(wf.owner, wf.run, "RECOVERY_BOUND")
           /\ Written("decide")
    <2>1. /\ lease' \in Lease
          /\ lease'.owner = wf.owner /\ lease'.run = wf.run /\ ~lease'.expired
        BY <1>2, <1>5 DEF Fresh, Lease, Owner, Target
    <2>2. LeaseCoversResources'
        BY <1>5 DEF RecoverLease, RecoversAbsent, IInv, LeaseCoversResources, environment
    <2> QED BY <1>3, <1>5, <2>1, <2>2 DEF RecoverLease
<1>6. CASE JobEnds /\ UNCHANGED <<lease, budget>>
    BY <1>1, <1>6, EndStep DEF RecoverLease, IInv, TypeOK
<1> QED BY <1>4, <1>5, <1>6 DEF RecoverLease

\* The handed-over lease was taken for the deployment that is recovered now.
LEMMA TakeOverStep ==
    ASSUME IInv, TakeOver
    PROVE  IInv'
<1>1. wf # None /\ wf.kind = "rescue" /\ wf.step = "acquire"
    BY DEF TakeOver, At
<1>2. wf.owner \in Rescue /\ wf.run \in Deployment /\ wf.owner \notin Target
    BY <1>1, ManagedAssumption DEF IInv, KindInv, Target
<1>3. CASE NamedOrAbsent /\ lease' = Fresh(wf.owner, wf.run, "PLAIN") /\ Written("surface")
    <2>1. /\ Moved("surface") \/ Ended
          /\ budget' \in [fault : 0..MaxFault, kill : 0..MaxKill]
        BY <1>1, <1>3, WrittenMoves DEF IInv, Steps
    <2>2. /\ lease' \in Lease /\ lease' # None
          /\ lease'.owner = wf.owner /\ lease'.run = wf.run /\ ~lease'.expired
        <3>1. wf.owner \in Owner /\ wf.run \in Target
            BY <1>2 DEF Owner, Target
        <3>2. lease' \in Lease
            BY <1>3, <3>1 DEF Fresh, Lease
        <3>3. lease'.owner = wf.owner /\ lease'.run = wf.run /\ ~lease'.expired
            BY <1>3 DEF Fresh
        <3> QED BY <3>2, <3>3, ManagedAssumption
    <2>3. LeaseInv'
        <3>1. wf.owner \in used /\ \A d \in Deployment : <<wf.owner, d>> \notin handoffs
            BY <1>1 DEF IInv, HandoffInv
        <3>2. \A d \in Deployment : <<wf.owner, d>> \in handoffs' => d = wf.run
            BY <2>1, <3>1 DEF Moved, Ended
        <3> QED BY <1>2, <2>2, <3>1, <3>2 DEF TakeOver, LeaseInv, evidenceVars
    <2>4. lease # None => lease.run = wf.run
        <3>1. CASE wf.previous = None
            BY <1>2, <1>3, <3>1 DEF NamedOrAbsent, IInv, LeaseInv, Target
        <3>2. CASE wf.previous # None
            <4>1. wf.previous \in Rescue /\ <<wf.previous, wf.run>> \in handoffs
                BY <1>1, <3>2 DEF IInv, TypeOK, Workflow, HandoffInv
            <4> QED BY <1>2, <1>3, <3>2, <4>1 DEF NamedOrAbsent, IInv, LeaseInv
        <3> QED BY <3>1, <3>2
    <2>5. LeaseCoversResources'
        BY <2>2, <2>4 DEF TakeOver, IInv, LeaseCoversResources, environment
    <2>6. ASSUME Moved("surface") PROVE HandoffInv' /\ OwnInv' /\ CleanupInv'
        BY <1>1, <2>2, <2>6 DEF TakeOver, IInv, HandoffInv, OwnInv, CleanupInv, Moved, Resources,
                                evidenceVars, environment
    <2> QED BY <1>1, <2>1, <2>2, <2>3, <2>5, <2>6, LeaseStep DEF TakeOver, Steps
<1>4. CASE JobEnds /\ UNCHANGED <<lease, budget>>
    BY <1>1, <1>4, EndStep DEF TakeOver, IInv, TypeOK
<1> QED BY <1>3, <1>4 DEF TakeOver

LEMMA ReleaseStep ==
    ASSUME IInv, Release
    PROVE  IInv'
<1>1. /\ wf # None /\ wf.kind \in {"teardown", "recover", "release", "undeploy", "rescue"}
      /\ wf.step = "release"
    BY DEF Release, At
<1>2. CASE lease' = lease
    BY <1>1, <1>2, EndStep DEF Release, IInv, TypeOK
<1>3. CASE lease' = None
    <2>1. Ended /\ wf' = None
        BY <1>1, JobEndsEnds DEF Release, JobEnds, RunnerGone, IInv
    <2>2. Resources = {}
        BY <1>1 DEF IInv, CleanupInv
    <2>3. TypeOK'
        BY <1>1, <1>3, <2>1, HandoffTypes DEF Release, IInv, TypeOK, evidenceVars, environment
    <2>4. LeaseInv' /\ ResourcesInv' /\ LeaseCoversResources'
        BY <1>3, <2>2 DEF Release, IInv, LeaseInv, ResourcesInv, LeaseCoversResources, Resources,
                          evidenceVars, environment
    <2>5. HandoffInv' /\ KindInv' /\ OwnInv' /\ CleanupInv'
        BY <1>1, <2>1, EndKeeps DEF Release, evidenceVars
    <2> QED BY <2>3, <2>4, <2>5 DEF IInv
<1> QED BY <1>2, <1>3 DEF Release

\* The lease of a job that still relies on it does not expire.
LEMMA ExpireStep ==
    ASSUME IInv, Expire
    PROVE  IInv'
<1>1. lease \in Lease /\ lease # None
    BY DEF Expire, IInv, TypeOK
<1>2. /\ lease' \in Lease /\ lease' # None /\ lease'.expired
      /\ lease'.owner = lease.owner /\ lease'.run = lease.run /\ lease'.putBy = lease.putBy
    BY <1>1, ManagedAssumption DEF Expire, Lease
<1>3. TypeOK'
    BY <1>2 DEF Expire, IInv, TypeOK, evidenceVars
<1>4. LeaseInv' /\ ResourcesInv' /\ HandoffInv' /\ KindInv' /\ LeaseCoversResources'
    BY <1>1, <1>2 DEF Expire, IInv, LeaseInv, ResourcesInv, HandoffInv, KindInv,
                      LeaseCoversResources, Resources, evidenceVars
<1>5. OwnInv'
    <2>1. ASSUME wf # None, wf.kind \in {"execute", "deploy"}, lease.owner = wf.owner
          PROVE  FALSE
        <3>1. wf.owner \in Target
            BY <2>1 DEF IInv, KindInv, Target
        <3> QED BY <1>1, <2>1, <3>1 DEF Expire, IInv, LeaseInv
    <2> QED BY <2>1 DEF Expire, IInv, OwnInv, Resources, evidenceVars
<1>6. CleanupInv'
    BY DEF Expire, IInv, CleanupInv, Resources, evidenceVars
<1> QED BY <1>3, <1>4, <1>5, <1>6 DEF IInv

LEMMA TimeToLiveStep ==
    ASSUME IInv, TimeToLive
    PROVE  IInv'
<1>1. lease # None /\ lease.expired /\ lease' = None /\ lapsed
    BY DEF TimeToLive, Stale, IInv, LeaseInv
<1>2. TypeOK'
    BY <1>1 DEF TimeToLive, IInv, TypeOK, evidenceVars, environment
<1>3. LeaseInv' /\ ResourcesInv' /\ HandoffInv' /\ KindInv' /\ LeaseCoversResources'
    BY <1>1 DEF TimeToLive, IInv, LeaseInv, ResourcesInv, HandoffInv, KindInv,
                LeaseCoversResources, Resources, evidenceVars, environment
<1>4. OwnInv' /\ CleanupInv'
    BY <1>1 DEF TimeToLive, IInv, OwnInv, CleanupInv, Resources, evidenceVars, environment
<1> QED BY <1>2, <1>3, <1>4 DEF IInv

-----------------------------------------------------------------------------
(* The dispatch of a workflow *)

LEMMA Dispatched ==
    ASSUME IInv,
           NEW kind \in {"execute", "recover", "release", "deploy", "rescue"},
           NEW owner \in Owner, NEW run \in Target, NEW previous \in Rescue \cup {None},
           Dispatch(kind, owner, run, previous)
    PROVE  /\ wf = None /\ wf' \in Workflow /\ wf' # None
           /\ wf'.kind = kind /\ wf'.owner = owner /\ wf'.run = run /\ wf'.previous = previous
           /\ wf'.step = IF kind = "release" THEN "prove" ELSE "acquire"
<1>1. wf = None
    BY DEF Dispatch
<1>2. wf' = [kind |-> kind, owner |-> owner, run |-> run, previous |-> previous,
             step |-> IF kind = "release" THEN "prove" ELSE "acquire"]
    BY DEF Dispatch
<1>3. wf' \in Workflow
    BY <1>2 DEF Workflow
<1>4. /\ wf'.kind = kind /\ wf'.owner = owner /\ wf'.run = run /\ wf'.previous = previous
      /\ wf'.step = IF kind = "release" THEN "prove" ELSE "acquire"
    BY <1>2
<1> QED BY <1>1, <1>3, <1>4, ManagedAssumption

\* A workflow that starts disturbs nothing; a first job is of a run without authority.
LEMMA DispatchStep ==
    ASSUME IInv,
           NEW kind \in {"execute", "recover", "release", "deploy", "rescue"},
           NEW owner \in Owner, NEW run \in Target, NEW previous \in Rescue \cup {None},
           Dispatch(kind, owner, run, previous),
           used \subseteq used', used' \subseteq Target \cup Rescue,
           kind \in {"execute", "release"} => owner = run /\ run \in Run,
           kind = "deploy" => owner = run /\ run \in Deployment,
           kind = "recover" => owner \in Recovery /\ run \in Run,
           kind = "rescue" =>
               /\ owner \in Rescue /\ run \in Deployment
               /\ owner \notin used /\ owner \in used'
               /\ previous # None => <<previous, run>> \in handoffs,
           kind \in {"execute", "deploy"} => run \in used' /\ run \notin authority
    PROVE  IInv'
<1>1. /\ wf = None /\ wf' \in Workflow /\ wf' # None
      /\ wf'.kind = kind /\ wf'.owner = owner /\ wf'.run = run /\ wf'.previous = previous
      /\ wf'.step = IF kind = "release" THEN "prove" ELSE "acquire"
    BY Dispatched
<1>2. UNCHANGED <<lease, leaseArtifact, authority, refused, lost, handoffs, environment, budget>>
    BY DEF Dispatch
<1>3. TypeOK'
    BY <1>1, <1>2 DEF IInv, TypeOK, environment
<1>4. LeaseInv' /\ ResourcesInv' /\ LeaseCoversResources'
    BY <1>2 DEF IInv, LeaseInv, ResourcesInv, LeaseCoversResources, Resources, environment
<1>5. HandoffInv'
    <2>1. \A p \in Rescue, d \in Deployment : <<p, d>> \in handoffs' => p \in used'
        BY <1>2 DEF IInv, HandoffInv
    <2>2. ASSUME kind = "rescue", lease # None, lease.owner = owner PROVE FALSE
        BY <2>2 DEF IInv, LeaseInv
    <2>3. ASSUME kind = "rescue", NEW d \in Deployment PROVE <<owner, d>> \notin handoffs
        BY <2>3 DEF IInv, HandoffInv
    <2> QED BY <1>1, <1>2, <2>1, <2>2, <2>3 DEF HandoffInv
<1>6. KindInv'
    BY <1>1 DEF KindInv
<1>7. OwnInv' /\ CleanupInv'
    BY <1>1, <1>2 DEF OwnInv, CleanupInv
<1> QED BY <1>3, <1>4, <1>5, <1>6, <1>7 DEF IInv

LEMMA StartRunStep ==
    ASSUME IInv, NEW r \in Run, StartRun(r)
    PROVE  IInv'
<1>1. r \notin authority
    BY DEF StartRun, IInv, ResourcesInv
<1>2. used' \subseteq Target \cup Rescue
    BY DEF StartRun, IInv, TypeOK, Target
<1> QED BY <1>1, <1>2, DispatchStep DEF StartRun, Owner, Target

LEMMA StartDeploymentStep ==
    ASSUME IInv, NEW d \in Deployment, StartDeployment(d)
    PROVE  IInv'
<1>1. d \notin authority
    BY DEF StartDeployment, IInv, ResourcesInv
<1>2. used' \subseteq Target \cup Rescue
    BY DEF StartDeployment, IInv, TypeOK, Target
<1> QED BY <1>1, <1>2, DispatchStep DEF StartDeployment, Owner, Target

LEMMA StartRecoveryStep ==
    ASSUME IInv, NEW v \in Recovery, NEW r \in Run, StartRecovery(v, r)
    PROVE  IInv'
<1>1. used' = used /\ used \subseteq Target \cup Rescue
    BY DEF StartRecovery, IInv, TypeOK
<1> QED BY <1>1, DispatchStep DEF StartRecovery, Owner, Target

LEMMA StartLeaseRecoveryStep ==
    ASSUME IInv, NEW r \in Run, StartLeaseRecovery(r)
    PROVE  IInv'
<1>1. used' = used /\ used \subseteq Target \cup Rescue
    BY DEF StartLeaseRecovery, IInv, TypeOK
<1> QED BY <1>1, DispatchStep DEF StartLeaseRecovery, Owner, Target

LEMMA StartRescueStep ==
    ASSUME IInv, NEW w \in Rescue, NEW d \in Deployment, NEW p \in Rescue \cup {None},
           StartRescue(w, d, p)
    PROVE  IInv'
<1>1. w \notin used /\ used' = used \cup {w} /\ Dispatch("rescue", w, d, p)
    BY DEF StartRescue
<1>2. p # None => <<p, d>> \in handoffs
    BY DEF StartRescue, HandedOver
<1>3. used' \subseteq Target \cup Rescue
    BY <1>1 DEF IInv, TypeOK
<1> QED BY <1>1, <1>2, <1>3, DispatchStep DEF Owner, Target

-----------------------------------------------------------------------------
(* From the lease to the apply *)

LEMMA PersistStep ==
    ASSUME IInv, Persist
    PROVE  IInv'
<1>1. wf # None /\ wf.kind \in {"execute", "deploy"} /\ wf.step = "persist" /\ Moved("preflight")
    BY GotoMoves DEF Persist, At, IInv, Steps
<1>2. TypeOK'
    BY <1>1 DEF Persist, IInv, TypeOK, KindInv, Moved, environment
<1>3. LeaseInv' /\ ResourcesInv' /\ HandoffInv' /\ KindInv' /\ LeaseCoversResources'
    BY <1>1 DEF Persist, IInv, LeaseInv, ResourcesInv, HandoffInv, KindInv,
                LeaseCoversResources, Resources, Moved, environment
<1>4. OwnInv' /\ CleanupInv'
    BY <1>1 DEF Persist, IInv, OwnInv, CleanupInv, Resources, Moved, environment
<1> QED BY <1>2, <1>3, <1>4 DEF IInv

LEMMA PreflightStep ==
    ASSUME IInv, Preflight
    PROVE  IInv'
<1>1. wf # None /\ wf.kind \in {"execute", "deploy"} /\ wf.step = "preflight"
    BY DEF Preflight, At
<1>2. CASE Clean /\ Goto("authority")
    <2>1. Moved("authority")
        BY <1>1, <1>2, GotoMoves DEF IInv, Steps
    <2>2. OwnInv' /\ CleanupInv'
        BY <1>1, <1>2, <2>1 DEF Preflight, Clean, NothingDeployed, IInv, OwnInv, CleanupInv,
                                Resources, Moved, evidenceVars, environment
    <2> QED BY <1>1, <2>1, <2>2, MoveStep DEF Preflight, IInv, TypeOK, Steps
<1>3. CASE JobEnds
    BY <1>1, <1>3, EndStep DEF Preflight, IInv, TypeOK
<1> QED BY <1>2, <1>3 DEF Preflight, AfterPreflight

LEMMA PersistAuthorityStep ==
    ASSUME IInv, PersistAuthority
    PROVE  IInv'
<1>1. wf # None /\ wf.kind \in {"execute", "deploy"} /\ wf.step = "authority"
    BY DEF PersistAuthority, At
<1>2. wf.run \in Target /\ wf.run \in used /\ Resources = {}
    BY <1>1 DEF IInv, KindInv, OwnInv, Target
<1>3. \/ Ended
      \/ ~stateLock /\ (Moved("bind") \/ Moved("apply")) /\ wf.run \in authority'
    BY <1>1, GotoMoves, JobEndsEnds DEF PersistAuthority, IInv, Steps
<1>4. authority' \subseteq authority \cup {wf.run} /\ authority \subseteq authority'
    BY DEF PersistAuthority
<1>5. TypeOK'
    BY <1>1, <1>2, <1>3, <1>4, HandoffTypes DEF PersistAuthority, IInv, TypeOK, Moved, Ended, environment
<1>6. LeaseInv'
    BY <1>1, <1>3 DEF PersistAuthority, IInv, LeaseInv, Moved, Ended, environment
<1>7. ResourcesInv' /\ LeaseCoversResources'
    BY <1>2, <1>4 DEF PersistAuthority, IInv, ResourcesInv, LeaseCoversResources, Resources, environment
<1>8. HandoffInv' /\ KindInv' /\ OwnInv' /\ CleanupInv'
    <2>1. CASE Ended
        BY <1>1, <1>2, <2>1, EndKeeps DEF PersistAuthority, Resources, environment
    <2>2. CASE (Moved("bind") \/ Moved("apply")) /\ wf.run \in authority'
        BY <1>1, <1>2, <2>2 DEF PersistAuthority, IInv, HandoffInv, KindInv, OwnInv, CleanupInv,
                                Resources, Moved, environment
    <2> QED BY <1>3, <2>1, <2>2
<1> QED BY <1>5, <1>6, <1>7, <1>8 DEF IInv

LEMMA ApplyStep ==
    ASSUME IInv, Apply
    PROVE  IInv'
<1>1. wf # None /\ wf.kind \in {"execute", "deploy"} /\ wf.step = "apply"
    BY DEF Apply, At
<1>2. wf.run \in Target /\ wf.run \in authority /\ wf.owner = wf.run
    BY <1>1 DEF IInv, KindInv, OwnInv, Target
<1>3. cloud = {} /\ tfstate = {} /\ lease # None /\ lease.owner = wf.owner /\ lease.run = wf.run
    BY <1>1, <1>2 DEF IInv, OwnInv, Resources, LeaseInv
<1>4. /\ Moved("operate") \/ Ended
      /\ budget' \in [fault : 0..MaxFault, kill : 0..MaxKill]
      /\ partial' \in BOOLEAN /\ stateLock' \in BOOLEAN /\ lost' \subseteq Deployment
      /\ tfstate' \in {{}, {wf.run}} /\ (~stateLock' => tfstate' = {wf.run})
    <2>1. CASE /\ tfstate' = tfstate \cup {wf.run}
               /\ Goto("operate")
               /\ UNCHANGED <<lost, partial, stateLock, budget>>
        BY <1>1, <1>3, <2>1, GotoMoves DEF IInv, TypeOK, Steps
    <2>2. CASE /\ budget.fault > 0
               /\ budget' = [budget EXCEPT !.fault = budget.fault - 1]
               /\ tfstate' = tfstate \cup {wf.run}
               /\ partial' = TRUE
               /\ JobEnds
               /\ UNCHANGED <<lost, stateLock>>
        BY <1>1, <1>3, <2>2, FaultSpent, JobEndsEnds DEF IInv, TypeOK
    <2>3. CASE /\ budget.kill > 0
               /\ budget' = [budget EXCEPT !.kill = budget.kill - 1]
               /\ tfstate' \in {tfstate, tfstate \cup {wf.run}}
               /\ partial' = (tfstate' # {})
               /\ stateLock' = TRUE
               /\ lost' = lost \cup ({wf.run} \cap Deployment)
               /\ RunnerGone
        <3>1. Ended /\ budget' \in [fault : 0..MaxFault, kill : 0..MaxKill]
            BY <1>1, <2>3, KillSpent, GoneEnds DEF IInv
        <3>2. partial' \in BOOLEAN /\ lost' \subseteq Deployment
            BY <2>3 DEF IInv, TypeOK
        <3> QED BY <1>3, <2>3, <3>1, <3>2
    <2> QED BY <2>1, <2>2, <2>3 DEF Apply
<1>5. cloud' = {wf.run} /\ Resources' = {wf.run}
    BY <1>3, <1>4 DEF Apply, Resources
<1>6. TypeOK'
    BY <1>1, <1>2, <1>4, <1>5, HandoffTypes DEF Apply, IInv, TypeOK, Moved, Ended
<1>7. LeaseInv'
    BY <1>1, <1>4 DEF Apply, IInv, LeaseInv, Moved, Ended
<1>8. ResourcesInv' /\ LeaseCoversResources'
    BY <1>2, <1>3, <1>4, <1>5 DEF Apply, IInv, ResourcesInv, LeaseCoversResources, Resources
<1>9. HandoffInv' /\ KindInv' /\ OwnInv' /\ CleanupInv'
    <2>1. CASE Ended
        BY <1>1, <1>5, <2>1, EndKeeps DEF Apply
    <2>2. CASE Moved("operate")
        BY <1>1, <1>5, <2>2 DEF Apply, IInv, HandoffInv, KindInv, OwnInv, CleanupInv, Moved
    <2> QED BY <1>4, <2>1, <2>2
<1> QED BY <1>6, <1>7, <1>8, <1>9 DEF IInv

LEMMA OperateStep ==
    ASSUME IInv, Operate
    PROVE  IInv'
<1>1. wf # None /\ wf.kind \in {"execute", "deploy"} /\ Ended
    BY JobEndsEnds DEF Operate, At, IInv
<1>2. TypeOK'
    BY <1>1, HandoffTypes DEF Operate, IInv, TypeOK, Ended, environment
<1>3. LeaseInv' /\ ResourcesInv' /\ LeaseCoversResources'
    BY <1>1 DEF Operate, IInv, LeaseInv, ResourcesInv, LeaseCoversResources, Resources, Ended, environment
<1>4. HandoffInv' /\ KindInv' /\ OwnInv' /\ CleanupInv'
    BY <1>1, EndKeeps DEF Operate, IInv, OwnInv, Resources, environment
<1> QED BY <1>2, <1>3, <1>4 DEF IInv

-----------------------------------------------------------------------------
(* Cleanup *)

LEMMA JobFailsStep ==
    ASSUME IInv, JobFails
    PROVE  IInv'
BY FaultSpent, EndStep DEF JobFails, IInv

LEMMA DecideTeardownStep ==
    ASSUME IInv, DecideTeardown
    PROVE  IInv'
<1>1. wf # None /\ wf.kind = "teardown" /\ wf.step = "decide"
    BY DEF DecideTeardown, At
<1>2. /\ Moved("prove") \/ (AuthorityProved /\ Moved("destroy"))
      /\ budget' \in [fault : 0..MaxFault, kill : 0..MaxKill]
    <2>1. CASE Goto(IF AuthorityProved /\ tfstate # {} THEN "destroy" ELSE "prove") /\ UNCHANGED budget
        BY <1>1, <2>1, GotoMoves DEF IInv, TypeOK, Steps
    <2>2. CASE /\ budget.fault > 0
               /\ budget' = [budget EXCEPT !.fault = budget.fault - 1]
               /\ Goto("prove")
        BY <1>1, <2>2, GotoMoves, FaultSpent DEF IInv, Steps
    <2> QED BY <2>1, <2>2 DEF DecideTeardown
<1>3. OwnInv' /\ CleanupInv'
    BY <1>1, <1>2 DEF DecideTeardown, AuthorityProved, IInv, OwnInv, CleanupInv, Resources, Moved,
                      evidenceVars, environment
<1> QED BY <1>1, <1>2, <1>3, MoveStep DEF DecideTeardown, Steps

LEMMA DecideRecoveryStep ==
    ASSUME IInv, DecideRecovery
    PROVE  IInv'
<1>1. wf # None /\ wf.kind = "recover" /\ wf.step = "decide"
    BY DEF DecideRecovery, At
<1>2. Moved("prove") \/ Moved("destroy")
    BY <1>1, GotoMoves DEF DecideRecovery, IInv, Steps
<1>3. OwnInv' /\ CleanupInv'
    BY <1>1, <1>2 DEF DecideRecovery, IInv, OwnInv, CleanupInv, Resources, Moved,
                      evidenceVars, environment
<1> QED BY <1>1, <1>2, <1>3, MoveStep DEF DecideRecovery, IInv, TypeOK, Steps

LEMMA DecideUndeployStep ==
    ASSUME IInv, DecideUndeploy
    PROVE  IInv'
<1>1. wf # None /\ wf.kind = "undeploy" /\ wf.step = "decide"
    BY DEF DecideUndeploy, At
<1>2. CASE wf.run \in authority /\ Goto("destroy")
    <2>1. Moved("destroy")
        BY <1>1, <1>2, GotoMoves DEF IInv, Steps
    <2>2. OwnInv' /\ CleanupInv'
        BY <1>1, <1>2, <2>1 DEF DecideUndeploy, IInv, OwnInv, CleanupInv, Resources, Moved,
                                evidenceVars, environment
    <2> QED BY <1>1, <2>1, <2>2, MoveStep DEF DecideUndeploy, IInv, TypeOK, Steps
<1>3. CASE JobEnds
    BY <1>1, <1>3, EndStep DEF DecideUndeploy, IInv, TypeOK
<1> QED BY <1>2, <1>3 DEF DecideUndeploy

LEMMA SurfaceStep ==
    ASSUME IInv, Surface
    PROVE  IInv'
<1>1. wf # None /\ wf.kind = "rescue" /\ wf.step = "surface"
    BY DEF Surface, At
<1>2. CASE Goto("plan")
    <2>1. Moved("plan")
        BY <1>1, <1>2, GotoMoves DEF IInv, Steps
    <2>2. OwnInv' /\ CleanupInv'
        BY <1>1, <2>1 DEF Surface, IInv, OwnInv, CleanupInv, Resources, Moved, evidenceVars, environment
    <2> QED BY <1>1, <2>1, <2>2, MoveStep DEF Surface, IInv, TypeOK, Steps
<1>3. CASE JobEnds
    BY <1>1, <1>3, EndStep DEF Surface, IInv, TypeOK
<1> QED BY <1>2, <1>3 DEF Surface

LEMMA PlanStep ==
    ASSUME IInv, Plan
    PROVE  IInv'
<1>1. wf # None /\ wf.kind = "rescue" /\ wf.step = "plan"
    BY DEF Plan, At
<1>2. CASE ~stateLock /\ Goto("destroy")
    <2>1. Moved("destroy")
        BY <1>1, <1>2, GotoMoves DEF IInv, Steps
    <2>2. OwnInv' /\ CleanupInv'
        BY <1>1, <1>2, <2>1 DEF Plan, IInv, OwnInv, CleanupInv, Resources, Moved, evidenceVars, environment
    <2> QED BY <1>1, <2>1, <2>2, MoveStep DEF Plan, IInv, TypeOK, Steps
<1>3. CASE JobEnds
    BY <1>1, <1>3, EndStep DEF Plan, IInv, TypeOK
<1> QED BY <1>2, <1>3 DEF Plan

LEMMA ProveStep ==
    ASSUME IInv, Prove
    PROVE  IInv'
<1>1. wf # None /\ wf.kind \in {"teardown", "recover", "release"} /\ wf.step = "prove"
    BY DEF Prove, At
<1>2. CASE NothingDeployed /\ Goto("release")
    <2>1. Moved("release")
        BY <1>1, <1>2, GotoMoves DEF IInv, Steps
    <2>2. OwnInv' /\ CleanupInv'
        BY <1>1, <1>2, <2>1 DEF Prove, NothingDeployed, IInv, OwnInv, CleanupInv, Resources, Moved,
                                evidenceVars, environment
    <2> QED BY <1>1, <2>1, <2>2, MoveStep DEF Prove, IInv, TypeOK, Steps
<1>3. CASE JobEnds
    BY <1>1, <1>3, EndStep DEF Prove, IInv, TypeOK
<1> QED BY <1>2, <1>3 DEF Prove, Clean, CleanOrAbsent

\* Without the lock the state knows all resources, so a destroy leaves none.
LEMMA DestroyStep ==
    ASSUME IInv, Destroy
    PROVE  IInv'
<1>1. wf # None /\ wf.kind \in {"teardown", "recover", "undeploy", "rescue"} /\ wf.step = "destroy"
    BY DEF Destroy, At
<1>2. CASE /\ cloud' = cloud \ tfstate /\ tfstate' = {} /\ partial' = FALSE
           /\ Goto("verify")
           /\ UNCHANGED <<stateLock, budget>>
    <2>1. Moved("verify")
        BY <1>1, <1>2, GotoMoves DEF IInv, Steps
    <2>2. cloud' = {} /\ tfstate' = {} /\ Resources' = {}
        BY <1>2 DEF Destroy, IInv, ResourcesInv, Resources
    <2>3. TypeOK'
        BY <1>2, <2>1, <2>2 DEF Destroy, IInv, TypeOK, Moved, evidenceVars
    <2>4. LeaseInv' /\ HandoffInv' /\ KindInv'
        <3>1. UNCHANGED <<lease, lapsed, used, handoffs>>
            BY <2>1 DEF Destroy, Moved, evidenceVars
        <3>2. wf' # None /\ wf'.kind = wf.kind /\ wf'.owner = wf.owner /\ wf'.run = wf.run
              /\ wf'.previous = wf.previous
            BY <2>1 DEF Moved
        <3>3. LeaseInv'
            BY <3>1 DEF IInv, LeaseInv
        <3>4. HandoffInv'
            BY <1>1, <3>1, <3>2 DEF IInv, HandoffInv
        <3>5. KindInv'
            BY <1>1, <3>2 DEF IInv, KindInv
        <3> QED BY <3>3, <3>4, <3>5
    <2>5. ResourcesInv' /\ LeaseCoversResources'
        BY <2>2 DEF Destroy, IInv, ResourcesInv, LeaseCoversResources, evidenceVars
    <2>6. OwnInv' /\ CleanupInv'
        BY <1>1, <1>2, <2>1, <2>2 DEF Destroy, IInv, OwnInv, CleanupInv, Moved, evidenceVars
    <2> QED BY <2>3, <2>4, <2>5, <2>6 DEF IInv
<1>3. CASE /\ budget.kill > 0
           /\ budget' = [budget EXCEPT !.kill = budget.kill - 1]
           /\ stateLock' = TRUE
           /\ RunnerGone
           /\ UNCHANGED <<cloud, tfstate, partial>>
    <2>1. Ended /\ budget' \in [fault : 0..MaxFault, kill : 0..MaxKill]
        BY <1>1, <1>3, GoneEnds, KillSpent DEF IInv
    <2>2. TypeOK'
        BY <1>1, <1>3, <2>1, HandoffTypes DEF Destroy, IInv, TypeOK, Ended, evidenceVars
    <2>3. LeaseInv'
        BY <1>1, <1>3, <2>1 DEF Destroy, IInv, LeaseInv, HandoffInv, Ended, evidenceVars
    <2>4. ResourcesInv' /\ LeaseCoversResources'
        BY <1>3 DEF Destroy, IInv, ResourcesInv, LeaseCoversResources, Resources, evidenceVars
    <2>5. HandoffInv' /\ KindInv' /\ OwnInv' /\ CleanupInv'
        BY <1>1, <1>3, <2>1, EndKeeps DEF Destroy, evidenceVars
    <2> QED BY <2>2, <2>3, <2>4, <2>5 DEF IInv
<1> QED BY <1>2, <1>3 DEF Destroy

LEMMA DestroyFailsStep ==
    ASSUME IInv, DestroyFails
    PROVE  IInv'
<1>1. wf # None /\ wf.kind \in {"teardown", "recover", "undeploy", "rescue"} /\ wf.step = "destroy"
    BY DEF DestroyFails, At
<1>2. partial' \in BOOLEAN /\ budget' \in [fault : 0..MaxFault, kill : 0..MaxKill]
    <2>1. CASE UNCHANGED <<partial, budget>>
        BY <2>1 DEF IInv, TypeOK
    <2>2. CASE /\ budget.fault > 0
               /\ budget' = [budget EXCEPT !.fault = budget.fault - 1]
               /\ partial' \in {partial, tfstate # {}}
        <3>1. partial' \in BOOLEAN
            BY <2>2 DEF IInv, TypeOK
        <3> QED BY <2>2, <3>1, FaultSpent DEF IInv
    <2> QED BY <2>1, <2>2 DEF DestroyFails
<1>3. (wf.kind # "recover" /\ Moved("verify")) \/ Ended
    BY <1>1, GotoMoves, JobEndsEnds DEF DestroyFails, IInv, Steps
<1>4. TypeOK'
    BY <1>1, <1>2, <1>3, HandoffTypes DEF DestroyFails, IInv, TypeOK, Moved, Ended, evidenceVars
<1>5. LeaseInv'
    BY <1>1, <1>3 DEF DestroyFails, IInv, LeaseInv, HandoffInv, Moved, Ended, evidenceVars
<1>6. ResourcesInv' /\ LeaseCoversResources'
    BY DEF DestroyFails, IInv, ResourcesInv, LeaseCoversResources, Resources, evidenceVars
<1>7. HandoffInv' /\ KindInv' /\ OwnInv' /\ CleanupInv'
    <2>1. CASE Ended
        BY <1>1, <2>1, EndKeeps DEF DestroyFails, evidenceVars
    <2>2. CASE wf.kind # "recover" /\ Moved("verify")
        BY <1>1, <2>2 DEF DestroyFails, IInv, ResourcesInv, HandoffInv, KindInv, OwnInv, CleanupInv,
                          Resources, Moved, evidenceVars
    <2> QED BY <1>3, <2>1, <2>2
<1> QED BY <1>4, <1>5, <1>6, <1>7 DEF IInv

\* verify_teardown.py looks for one run's resources, and there are no others.
LEMMA VerifyStep ==
    ASSUME IInv, Verify
    PROVE  IInv'
<1>1. wf # None /\ wf.kind \in {"teardown", "recover", "undeploy", "rescue"} /\ wf.step = "verify"
    BY DEF Verify, At
<1>2. CASE TeardownProved /\ Goto("release")
    <2>1. Moved("release")
        BY <1>1, <1>2, GotoMoves DEF IInv, Steps
    <2>2. Resources = {}
        <3>1. CASE wf.kind \in {"teardown", "undeploy"}
            BY <1>1, <1>2, <3>1 DEF TeardownProved, IInv, OwnInv, CleanupInv, Resources
        <3>2. CASE wf.kind \in {"recover", "rescue"}
            BY <1>1, <1>2, <3>2 DEF TeardownProved, IInv, CleanupInv, Resources
        <3> QED BY <1>1, <3>1, <3>2
    <2>3. OwnInv' /\ CleanupInv'
        BY <1>1, <2>1, <2>2 DEF Verify, IInv, OwnInv, CleanupInv, Resources, Moved,
                                evidenceVars, environment
    <2> QED BY <1>1, <2>1, <2>3, MoveStep DEF Verify, IInv, TypeOK, Steps
<1>3. CASE JobEnds
    BY <1>1, <1>3, EndStep DEF Verify, IInv, TypeOK
<1> QED BY <1>2, <1>3 DEF Verify

-----------------------------------------------------------------------------
(* The theorems *)

LEMMA InitIInv == Init => IInv
<1> SUFFICES ASSUME Init PROVE IInv
    OBVIOUS
<1>1. budget \in [fault : 0..MaxFault, kill : 0..MaxKill]
    BY ManagedAssumption DEF Init
<1>2. TypeOK
    BY <1>1 DEF Init, TypeOK
<1>3. LeaseInv /\ ResourcesInv /\ HandoffInv /\ KindInv /\ OwnInv /\ CleanupInv
    BY DEF Init, LeaseInv, ResourcesInv, HandoffInv, KindInv, OwnInv, CleanupInv, Resources
<1>4. LeaseCoversResources
    BY DEF Init, LeaseCoversResources
<1> QED BY <1>2, <1>3, <1>4 DEF IInv

LEMMA NextIInv == IInv /\ [Next]_vars => IInv'
<1> SUFFICES ASSUME IInv, [Next]_vars PROVE IInv'
    OBVIOUS
<1>1. ASSUME NEW r \in Run, StartRun(r) \/ StartLeaseRecovery(r) PROVE IInv'
    BY <1>1, StartRunStep, StartLeaseRecoveryStep
<1>2. ASSUME NEW v \in Recovery, NEW r \in Run, StartRecovery(v, r) PROVE IInv'
    BY <1>2, StartRecoveryStep
<1>3. ASSUME NEW d \in Deployment, StartDeployment(d) PROVE IInv'
    BY <1>3, StartDeploymentStep
<1>4. ASSUME NEW w \in Rescue, NEW d \in Deployment, NEW p \in Rescue \cup {None},
             StartRescue(w, d, p)
      PROVE IInv'
    BY <1>4, StartRescueStep
<1>5. CASE JobStep
    BY <1>5, AcquireStep, AcquireLockStep, RecoverLeaseStep, TakeOverStep, BindStep, ReleaseStep,
       PersistStep, PreflightStep, PersistAuthorityStep, ApplyStep, OperateStep,
       DecideTeardownStep, DecideRecoveryStep, DecideUndeployStep, SurfaceStep, PlanStep,
       ProveStep, DestroyStep, DestroyFailsStep, VerifyStep
       DEF JobStep
<1>6. CASE JobFails \/ Expire \/ TimeToLive
    BY <1>6, JobFailsStep, ExpireStep, TimeToLiveStep
<1>7. CASE UNCHANGED vars
    BY <1>7 DEF vars, evidenceVars, environment, IInv, TypeOK, LeaseInv, ResourcesInv, HandoffInv,
                KindInv, OwnInv, CleanupInv, LeaseCoversResources, Resources
<1> QED BY <1>1, <1>2, <1>3, <1>4, <1>5, <1>6, <1>7 DEF Next

\* The inductive invariant holds in every reachable state.
THEOREM ManagedInvariance == Spec => []IInv
BY InitIInv, NextIInv, PTL DEF Spec

\* Types of the lease, the workflow and what they leave behind.
THEOREM ManagedTypes == Spec => []TypeOK
<1>1. IInv => TypeOK
    BY DEF IInv
<1> QED BY <1>1, ManagedInvariance, PTL

\* Whatever fails, resources exist only for runs whose teardown authority was persisted.
THEOREM AuthorityTheorem == Spec => []ResourcesHaveAuthority
<1>1. IInv => ResourcesHaveAuthority
    BY DEF IInv, ResourcesInv, ResourcesHaveAuthority, Resources
<1> QED BY <1>1, ManagedInvariance, PTL

\* As long as no lease expires, the account is leased to the run whose resources it holds,
\* also along a chain of recoveries that hand the lease over.
THEOREM CoverTheorem == Spec => []LeaseCoversResources
<1>1. IInv => LeaseCoversResources
    BY DEF IInv
<1> QED BY <1>1, ManagedInvariance, PTL

\* Only Release gives the lease up in a step of a workflow.
LEMMA LeaseStays ==
    ASSUME IInv, Next, ~Release, lease # None, wf' # wf
    PROVE  lease' # None
<1>1. CASE \/ Acquire \/ AcquireLock \/ TakeOver \/ RecoverLease
    <2>1. wf.owner \in Owner /\ wf.run \in Target /\ lease \in Lease
        BY <1>1 DEF Acquire, AcquireLock, TakeOver, RecoverLease, At, IInv, TypeOK, Workflow
    <2>2. \A state \in {"ACQUIRED", "RECOVERY_BOUND", "PLAIN"} :
              Fresh(wf.owner, wf.run, state) \in Lease
        BY <2>1 DEF Fresh, Lease
    <2>3. [lease EXCEPT !.owner = wf.owner, !.run = wf.run, !.state = "RECOVERY_BOUND"] \in Lease
        BY <2>1 DEF Lease
    <2> QED BY <1>1, <2>2, <2>3, ManagedAssumption DEF Acquire, AcquireLock, TakeOver, RecoverLease
<1>2. CASE Bind
    <2>1. lease \in Lease
        BY DEF IInv, TypeOK
    <2>2. AuthorityBound(lease) \in Lease
        BY <2>1 DEF AuthorityBound, Lease
    <2> QED BY <1>2, <2>2, ManagedAssumption DEF Bind
<1>3. CASE ~(\/ Acquire \/ AcquireLock \/ TakeOver \/ RecoverLease \/ Bind)
    BY <1>3 DEF Next, JobStep, StartRun, StartLeaseRecovery, StartRecovery, StartDeployment,
       StartRescue, Dispatch, Persist, Preflight, PersistAuthority, Apply, Operate,
       DecideTeardown, DecideRecovery, DecideUndeploy, Surface, Plan, Prove, Destroy,
       DestroyFails, Verify, JobFails, Expire, TimeToLive
<1> QED BY <1>1, <1>2, <1>3

\* A workflow gives the lease up only when nothing is left.
THEOREM ReleaseTheorem == Spec => ReleasedOnlyClean
<1>1. IInv /\ [Next]_vars => [GivesUpOnlyClean]_vars
    <2> SUFFICES ASSUME IInv, Next, lease # None, lease' = None, wf' # wf
                 PROVE  tfstate = {} /\ cloud = {}
        BY DEF GivesUpOnlyClean
    <2>1. wf # None /\ wf.step = "release"
        <3>1. CASE Release
            BY <3>1 DEF Release, At
        <3>2. CASE ~Release
            BY <3>2, LeaseStays
        <3> QED BY <3>1, <3>2
    <2> QED BY <2>1 DEF IInv, CleanupInv, Resources
<1> QED BY <1>1, ManagedInvariance, PTL DEF Spec, ReleasedOnlyClean

\* As long as no lease expires, a workflow destroys only resources of the run it works for.
THEOREM OwnTheorem == Spec => OnlyOwnResources
<1>1. IInv /\ [Next]_vars => [wf # None /\ ~lapsed => DestroysOwn]_vars
    <2> SUFFICES ASSUME IInv, Next, wf # None, ~lapsed
                 PROVE  cloud \ cloud' \subseteq {wf.run}
        BY DEF DestroysOwn
    <2>1. CASE Destroy
        <3>1. wf.kind \in {"teardown", "recover", "undeploy", "rescue"} /\ wf.step = "destroy"
            BY <2>1 DEF Destroy, At
        <3>2. CASE wf.kind \in {"teardown", "undeploy"}
            BY <3>1, <3>2 DEF IInv, OwnInv, CleanupInv, Resources
        <3>3. CASE wf.kind \in {"recover", "rescue"}
            BY <3>1, <3>3 DEF IInv, CleanupInv, LeaseCoversResources
        <3> QED BY <3>1, <3>2, <3>3
    <2>2. CASE Apply
        BY <2>2 DEF Apply
    <2>3. CASE ~Destroy /\ ~Apply
        <3>1. cloud' = cloud
            BY <2>3 DEF Next, JobStep, StartRun, StartLeaseRecovery, StartRecovery, StartDeployment,
               StartRescue, Dispatch, Acquire, AcquireLock, RecoverLease, TakeOver, Bind, Release,
               Persist, Preflight, PersistAuthority, Operate, DecideTeardown, DecideRecovery,
               DecideUndeploy, Surface, Plan, Prove, DestroyFails, Verify, JobFails, Expire,
               TimeToLive, environment
        <3> QED BY <3>1
    <2> QED BY <2>1, <2>2, <2>3
<1> QED BY <1>1, ManagedInvariance, PTL DEF Spec, OnlyOwnResources
=============================================================================
