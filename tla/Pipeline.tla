------------------------------ MODULE Pipeline ------------------------------
(***************************************************************************)
(* Step Functions executions (infra/atlas/main.tf) that drive the control  *)
(* plane and the Glue job (aws/glue/atlasretail_iceberg.py).               *)
(*                                                                         *)
(* A Task invokes the control function and waits for one invocation.  The  *)
(* errors of lambda_retry are service errors: the caller does not know     *)
(* whether the function ran, so the invocation given up (Lose) may have    *)
(* committed, may still be running, or may never commit, while the Task    *)
(* invokes the function again.  Each kind of fault has a budget.           *)
(***************************************************************************)
EXTENDS ControlPlane

CONSTANTS
    Execution,  \* executions, each started at most once
    Input,      \* the inputs they are started with
    Tables,     \* the number of Iceberg tables a generation is written to
    MaxRetry,   \* MaxAttempts of lambda_retry
    MaxLost,    \* bound on service errors of an invocation
    MaxStop,    \* bound on executions stopped by the lab's deadline
    MaxRaise    \* bound on invocations and calls of StartJobRun that end in an error or a crash

\* A run of the Glue job: the execution that started it, its arguments, and its progress.
GlueRun == [owner : Execution, generation : Generation, digest : Digest, attempt : Nat, step : Nat]

ASSUME PipelineAssumption ==
    /\ Input \subseteq [batch : Batch, digest : Digest, location : Location]
    /\ {Tables, MaxRetry, MaxLost, MaxStop, MaxRaise} \subseteq Nat
    /\ NoItem \notin Call \cup Execution \cup GlueRun

\* The control plane's clients may do what executions do: write the evidence of a complete
\* build, and start as many builds as there are tries of StartGenerationBuild.
ASSUME ClientsAssumption ==
    /\ \A input \in Input : [digest |-> input.digest, complete |-> TRUE, casOnly |-> FALSE] \in Report
    /\ IsFiniteSet(Call)
    /\ LET tries == Execution \X (0..MaxRetry) IN
       IsFiniteSet(tries) /\ Cardinality(tries) <= MaxAttempt

VARIABLES
    exec,     \* per execution: state of the machine, and the data it carries
    caller,   \* the execution that invoked the function of each slot
    job,      \* the Glue run in progress; max_concurrent_runs is 1
    rows,     \* copies of each table's rows that a generation has
    budget    \* faults left

pvars == <<vars, exec, caller, job, rows, budget>>

LambdaStates == {"RegisterBatch", "StartGenerationBuild", "ValidateGeneration",
                 "PublishGeneration", "MarkFailure"}

FailedStates == {"ConcurrentExecutionRejected", "GenerationFailed", "ExecutionFailed"}

Terminal == {"Succeeded", "ReplaySucceeded", "Stopped"} \cup FailedStates

NotStarted == [state |-> "NotStarted", input |-> NoItem, generation |-> NoItem, version |-> 0,
               call |-> NoItem, tries |-> 0, glue |-> "none"]

PInit ==
    /\ Init
    /\ exec = [e \in Execution |-> NotStarted]
    /\ caller = [c \in Call |-> NoItem]
    /\ job = NoItem
    /\ rows = [g \in Generation |-> [t \in 1..Tables |-> 0]]
    /\ budget = [lost |-> MaxLost, stop |-> MaxStop, raise |-> MaxRaise]

\* Entering a state resets the task's retries.
Enter(e, state) == [exec[e] EXCEPT !.state = state, !.call = NoItem, !.tries = 0]

(* scripts/start_execution.sh *)
StartExecution(e) ==
    /\ exec[e].state = "NotStarted"
    /\ \E input \in Input :
          exec' = [exec EXCEPT ![e] = [Enter(e, "RegisterBatch") EXCEPT !.input = input]]
    /\ UNCHANGED <<vars, caller, job, rows, budget>>

-----------------------------------------------------------------------------
(* Lambda tasks *)

\* Mutant: the publisher expects the version it is about to write.
VersionToWrite(x) == x.version + 1

\* $.registration.result.pointer_version
VersionExpected(x) == x.version

Payload(e) ==
    LET x == exec[e] IN
    CASE x.state = "RegisterBatch" ->
           [action |-> "register", batch |-> x.input.batch, digest |-> x.input.digest,
            location |-> x.input.location]
      [] x.state = "StartGenerationBuild" ->
           [action |-> "start_build", generation |-> x.generation]
      [] x.state = "ValidateGeneration" ->
           [action |-> "validate", generation |-> x.generation, glueRun |-> TRUE]
      [] x.state = "PublishGeneration" ->
           [action |-> "publish", generation |-> x.generation,
            expected |-> VersionExpected(x)]
      [] x.state = "MarkFailure" ->
           [action |-> "fail", generation |-> x.generation]

InvokeTask(e) ==
    /\ exec[e].state \in LambdaStates
    /\ exec[e].call = NoItem
    /\ \E c \in Call :
          /\ Invoke(c, Payload(e))
          /\ exec' = [exec EXCEPT ![e].call = c]
          /\ caller' = [caller EXCEPT ![c] = e]
    /\ UNCHANGED <<job, rows, budget>>

\* Mutant: the build has no Catch.
CaughtAfterBuild(state) ==
    IF state \in {"ValidateGeneration", "PublishGeneration"} THEN "MarkFailure" ELSE "ExecutionFailed"

\* Catch of the build, validation and publication tasks; the others have none.
Caught(state) ==
    IF state \in {"BuildIcebergGeneration", "ValidateGeneration", "PublishGeneration"}
    THEN "MarkFailure" ELSE "ExecutionFailed"

\* Mutant: a registration in progress is waited for instead of being rejected.
AlreadyBuiltPolls(status) ==
    CASE status = "REPLAYED"    -> "ReplaySucceeded"
      [] status = "IN_PROGRESS" -> "RegisterBatch"
      [] OTHER                  -> "StartGenerationBuild"

\* The choice AlreadyBuilt on the registration's status.
AlreadyBuilt(status) ==
    CASE status = "REPLAYED"    -> "ReplaySucceeded"
      [] status = "IN_PROGRESS" -> "ConcurrentExecutionRejected"
      [] OTHER                  -> "StartGenerationBuild"

\* The state after a task whose function returned or raised.
After(state, code) ==
    CASE state = "RegisterBatch" /\ code \in {"REGISTERED", "REPLAYED", "RECOVERING", "IN_PROGRESS"} ->
           AlreadyBuilt(code)
      [] state = "StartGenerationBuild" /\ code = "BUILDING"  -> "BuildIcebergGeneration"
      [] state = "ValidateGeneration" /\ code = "VALIDATED"   -> "PublishGeneration"
      [] state = "PublishGeneration" /\ code = "PUBLISHED"    -> "Succeeded"
      [] state = "MarkFailure" /\ code = "FAILED"             -> "GenerationFailed"
      [] OTHER                                                -> Caught(state)

TaskReturns(e) ==
    LET c == exec[e].call
        next == Enter(e, After(exec[e].state, reply[c].code))
    IN
    /\ c # NoItem
    /\ Release(c)
    /\ exec' = [exec EXCEPT ![e] =
          IF exec[e].state = "RegisterBatch"
          THEN [next EXCEPT !.generation = reply[c].generation, !.version = reply[c].version]
          ELSE next]
    /\ caller' = [caller EXCEPT ![c] = NoItem]
    /\ UNCHANGED <<job, rows, budget>>

\* A service error of lambda_retry: the task tries again, or gives up.
Lose(e) ==
    /\ exec[e].call # NoItem
    /\ budget.lost > 0
    /\ budget' = [budget EXCEPT !.lost = @ - 1]
    /\ exec' = [exec EXCEPT ![e] =
          IF exec[e].tries < MaxRetry
          THEN [exec[e] EXCEPT !.call = NoItem, !.tries = @ + 1]
          ELSE Enter(e, Caught(exec[e].state))]
    /\ UNCHANGED <<vars, caller, job, rows>>

\* An invocation nobody waits for ends.
AbandonedReturns(c) ==
    /\ \A e \in Execution : exec[e].call # c
    /\ Release(c)
    /\ caller' = [caller EXCEPT ![c] = NoItem]
    /\ UNCHANGED <<exec, job, rows, budget>>

FunctionStep(c) ==
    /\ HandlerStep(c)
    /\ UNCHANGED <<exec, caller, job, rows, budget>>

FunctionRaises(c) ==
    /\ budget.raise > 0
    /\ Abort(c)
    /\ budget' = [budget EXCEPT !.raise = @ - 1]
    /\ UNCHANGED <<exec, caller, job, rows>>

(* The lab's deadline: stop-execution.  The invocation in progress goes on by itself,
   and so may the Glue run. *)
StopExecution(e) ==
    /\ exec[e].state \notin Terminal \cup {"NotStarted"}
    /\ budget.stop > 0
    /\ budget' = [budget EXCEPT !.stop = @ - 1]
    /\ exec' = [exec EXCEPT ![e] = Enter(e, "Stopped")]
    /\ UNCHANGED <<vars, caller, job, rows>>

-----------------------------------------------------------------------------
(* The Glue task and the Glue run *)

\* A run replaces table after table (a delete, then an append, two commits), puts
\* the evidence and commits: its step counts what it has done.
NewJob(e) == [owner |-> e, generation |-> exec[e].generation, digest |-> exec[e].input.digest,
              attempt |-> genItem[exec[e].generation].attempt, step |-> 0]

EvidenceStep == 2 * Tables + 1

\* startJobRun.sync; the run may have started although the call reports an error.
StartJob(e) ==
    /\ exec[e].state = "BuildIcebergGeneration"
    /\ exec[e].glue = "none"
    /\ job = NoItem
    /\ job' = NewJob(e)
    /\ \/ /\ exec' = [exec EXCEPT ![e].glue = "running"]
          /\ UNCHANGED budget
       \/ /\ budget.raise > 0
          /\ budget' = [budget EXCEPT !.raise = @ - 1]
          /\ exec' = [exec EXCEPT ![e] = Enter(e, Caught(exec[e].state))]
    /\ UNCHANGED <<vars, caller, rows>>

\* ConcurrentRunsExceededException until its retries are used up.
JobRefused(e) ==
    /\ exec[e].state = "BuildIcebergGeneration"
    /\ exec[e].glue = "none"
    /\ job # NoItem
    /\ exec' = [exec EXCEPT ![e] = Enter(e, Caught(exec[e].state))]
    /\ UNCHANGED <<vars, caller, job, rows, budget>>

\* Verification of manifest, objects and rows, and the quality rules.
JobValidates ==
    /\ job # NoItem
    /\ job.step = 0
    /\ job' = [job EXCEPT !.step = 1]
    /\ UNCHANGED <<vars, exec, caller, rows, budget>>

\* Mutant: a rebuild appends without deleting what an earlier attempt wrote.
AppendedOnly(copies, step) == IF step % 2 = 1 THEN copies ELSE copies + 1

\* Odd steps delete the generation's rows of a table, even ones append them.
Replaced(copies, step) == IF step % 2 = 1 THEN 0 ELSE copies + 1

JobWrites ==
    /\ job # NoItem
    /\ job.step \in 1..(2 * Tables)
    /\ rows' = [rows EXCEPT ![job.generation][(job.step + 1) \div 2] = Replaced(@, job.step)]
    /\ job' = [job EXCEPT !.step = @ + 1]
    /\ UNCHANGED <<vars, exec, caller, budget>>

JobPutsEvidence ==
    /\ job # NoItem
    /\ job.step = EvidenceStep
    /\ evidence' = [evidence EXCEPT ![job.generation] =
          [generation |-> job.generation, digest |-> job.digest, complete |-> TRUE,
           casOnly |-> FALSE, attempt |-> job.attempt]]
    /\ job' = [job EXCEPT !.step = @ + 1]
    /\ UNCHANGED <<items, pc, locals, reply, exec, caller, rows, budget>>

\* The run ends; the execution that still waits for it learns how.
JobEnds(result) ==
    /\ job' = NoItem
    /\ exec' = [e \in Execution |->
          IF job.owner = e /\ exec[e].glue = "running" /\ exec[e].state = "BuildIcebergGeneration"
          THEN [exec[e] EXCEPT !.glue = result] ELSE exec[e]]
    /\ UNCHANGED <<vars, caller, rows, budget>>

JobSucceeds == job # NoItem /\ job.step = EvidenceStep + 1 /\ JobEnds("SUCCEEDED")

\* A failed check, an injected failure, a lost worker, the job's timeout.
JobFails == job # NoItem /\ JobEnds("FAILED")

BuildReturns(e) ==
    /\ exec[e].glue \in {"SUCCEEDED", "FAILED"}
    /\ exec[e].state = "BuildIcebergGeneration"
    /\ exec' = [exec EXCEPT ![e] =
          [Enter(e, IF exec[e].glue = "SUCCEEDED" THEN "ValidateGeneration" ELSE Caught(exec[e].state))
             EXCEPT !.glue = "none"]]
    /\ UNCHANGED <<vars, caller, job, rows, budget>>

-----------------------------------------------------------------------------
JobStep == JobValidates \/ JobWrites \/ JobPutsEvidence \/ JobSucceeds

Machine(e) == InvokeTask(e) \/ TaskReturns(e) \/ StartJob(e) \/ JobRefused(e) \/ BuildReturns(e)

PNext ==
    \/ \E e \in Execution : StartExecution(e) \/ Machine(e) \/ Lose(e) \/ StopExecution(e)
    \/ \E c \in Call : FunctionStep(c) \/ FunctionRaises(c) \/ AbandonedReturns(c)
    \/ JobStep
    \/ JobFails

PipelineSpec == PInit /\ [][PNext]_pvars

\* Step Functions drives a started execution on, a Lambda invocation and a Glue run
\* end within their timeouts.
Fairness ==
    /\ \A e \in Execution : WF_pvars(Machine(e))
    /\ \A c \in Call : WF_pvars(FunctionStep(c)) /\ WF_pvars(AbandonedReturns(c))
    /\ WF_pvars(JobStep)

FairPipelineSpec == PipelineSpec /\ Fairness

-----------------------------------------------------------------------------
(* Properties *)

\* Whatever is lost, retried or stopped, executions change the control table only as
\* the control plane's own specification allows.
ImplementsControlPlane == Spec

\* An execution that succeeded published its generation as the direct successor of
\* the version its registration read: nobody's publication is overwritten unseen.
SuccessSucceedsItsBase ==
    \A e \in Execution : exec[e].state = "Succeeded" =>
        /\ exec[e].version + 1 \in 1..Len(published)
        /\ published[exec[e].version + 1] = exec[e].generation

\* "The same batch ID and digest has one business effect" (docs/correctness.md:12):
\* of the executions of one generation at most one succeeds, and a replay means the
\* generation is published.
OneBusinessEffect ==
    \A e, f \in Execution :
        /\ exec[e].state = "Succeeded" /\ exec[f].state = "Succeeded" /\ e # f =>
              exec[e].generation # exec[f].generation
        /\ exec[e].state = "ReplaySucceeded" =>
              \E i \in 1..Len(published) : published[i] = exec[e].generation

\* "Partial data remains inactive" (docs/architecture.md:43): a published generation
\* has each table's rows exactly once, and the evidence of its last attempt.
PublishedIsComplete ==
    \A g \in Generation : genItem[g].status = "PUBLISHED" =>
        /\ \A t \in 1..Tables : rows[g][t] = 1
        /\ genItem[g].validation.attempt = genItem[g].attempt

Settled(g) ==
    /\ \A e \in Execution : exec[e].state = "NotStarted" \/ exec[e].state \in Terminal
    /\ \A c \in Call : pc[c] = "idle"
    /\ job = NoItem

\* "Step Functions routes managed failures into the lifecycle record"
\* (docs/architecture.md:35): when everything has come to rest a generation is
\* published or marked FAILED, so that the next execution can rebuild it.
NothingStranded ==
    \A g \in Generation : Settled(g) => genItem[g].status \in {"ABSENT", "FAILED", "PUBLISHED"}

\* As long as no reply is lost and nothing is stopped or raises, NothingStranded holds.
FaultFree == budget = [lost |-> MaxLost, stop |-> MaxStop, raise |-> MaxRaise]
FaultFreeStrandsNothing == FaultFree => NothingStranded

\* Every started execution ends, whatever the handler, Glue and the retries do.
ExecutionsEnd ==
    \A e \in Execution : exec[e].state = "RegisterBatch" ~> exec[e].state \in Terminal
=============================================================================
