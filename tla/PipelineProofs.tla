--------------------------- MODULE PipelineProofs ---------------------------
(***************************************************************************)
(* Theorems about Pipeline for any executions, invocation slots, inputs    *)
(* and budgets of faults.                                                  *)
(***************************************************************************)
EXTENDS Pipeline, ControlPlaneProofs, FiniteSetTheorems

-----------------------------------------------------------------------------
(* Types *)

States == {"NotStarted", "BuildIcebergGeneration"} \cup LambdaStates \cup Terminal

ExecutionRecord ==
    [state : States, input : Input \cup {NoItem}, generation : Generation \cup {NoItem},
     version : Nat, call : Call \cup {NoItem}, tries : Nat,
     glue : {"none", "running", "SUCCEEDED", "FAILED"}]

PTypeOK ==
    /\ exec \in [Execution -> ExecutionRecord]
    /\ caller \in [Call -> Execution \cup {NoItem}]
    /\ job \in GlueRun \cup {NoItem}
    /\ rows \in [Generation -> [1..Tables -> Nat]]
    /\ budget \in [lost : 0..MaxLost, stop : 0..MaxStop, raise : 0..MaxRaise]

-----------------------------------------------------------------------------
(* What holds whatever is lost, stopped or raised *)

\* The states in which an execution works on the generation it has registered.
Working == {"StartGenerationBuild", "BuildIcebergGeneration", "ValidateGeneration",
            "PublishGeneration", "MarkFailure"}

Registered == {"REGISTERED", "REPLAYED", "RECOVERING", "IN_PROGRESS"}

\* The invocation an execution waits for runs the payload of its task, for it alone.
WaitsForItsCall(e) ==
    exec[e].call # NoItem =>
        /\ exec[e].state \in LambdaStates
        /\ caller[exec[e].call] = e
        /\ pc[exec[e].call] # "idle"
        /\ req[exec[e].call] = Payload(e)

CarriesItsData(e) ==
    /\ exec[e].state # "NotStarted" => exec[e].input \in Input
    /\ exec[e].state \in Working \cup {"Succeeded", "ReplaySucceeded"} =>
          exec[e].generation \in Generation
    /\ exec[e].state \notin {"BuildIcebergGeneration", "Stopped"} => exec[e].glue = "none"
    /\ exec[e].state = "BuildIcebergGeneration" => genItem[exec[e].generation].attempt > 0
    /\ exec[e].version <= Len(published)
    /\ exec[e].tries <= MaxRetry

EndedAsPublished(e) ==
    /\ exec[e].state = "Succeeded" =>
          /\ exec[e].version + 1 \in 1..Len(published)
          /\ published[exec[e].version + 1] = exec[e].generation
    /\ exec[e].state = "ReplaySucceeded" => PublishedAt(exec[e].generation, Len(published))

ExecInv(e) == WaitsForItsCall(e) /\ CarriesItsData(e) /\ EndedAsPublished(e)

\* What the reply of an invocation says of the table.
ReplyInv(c) ==
    /\ reply[c].version <= Len(published)
    /\ pc[c] = "get_pointer" => reply[c].generation # NoItem
    /\ req[c].action = "register" /\ pc[c] = "done" /\ reply[c].code \in Registered =>
          reply[c].generation # NoItem
    /\ req[c].action = "start_build" /\ pc[c] = "done" /\ reply[c].code = "BUILDING" =>
          genItem[req[c].generation].attempt > 0
    /\ req[c].action = "publish" /\ pc[c] = "done" /\ reply[c].code = "PUBLISHED" =>
          /\ req[c].expected + 1 \in 1..Len(published)
          /\ published[req[c].expected + 1] = req[c].generation

\* An invocation that published, until its caller has its reply.
Published(c) == req[c].action = "publish" /\ pc[c] = "done" /\ reply[c].code = "PUBLISHED"

\* A generation is published for one execution or one invocation only.
OnePublisher ==
    /\ \A e, f \in Execution : exec[e].state = "Succeeded" /\ exec[f].state = "Succeeded" /\ e # f =>
          exec[e].generation # exec[f].generation
    /\ \A c, d \in Call : Published(c) /\ Published(d) /\ c # d =>
          req[c].generation # req[d].generation
    /\ \A e \in Execution, c \in Call : exec[e].state = "Succeeded" /\ Published(c) =>
          exec[e].generation # req[c].generation

JobInv ==
    job # NoItem =>
        /\ job.attempt \in 1..genItem[job.generation].attempt
        /\ \E input \in Input : job.digest = input.digest

\* The invocations of start_build that the executions have made, by execution and try.
Tried == {p \in Execution \X (0..MaxRetry) :
            LET x == exec[p[1]] IN
            /\ x.state \notin {"NotStarted", "RegisterBatch"}
            /\ x.state = "StartGenerationBuild" =>
                 p[2] < x.tries \/ (p[2] = x.tries /\ x.call # NoItem)}

CountInv == \A g \in Generation :
               genItem[g].attempt + Cardinality(Building(g)) <= Cardinality(Tried)

DriveInv ==
    /\ \A e \in Execution : ExecInv(e)
    /\ \A c \in Call : ReplyInv(c)
    /\ OnePublisher
    /\ JobInv
    /\ CountInv

-----------------------------------------------------------------------------
(* What holds as long as no reply is lost: one at a time works on a generation *)

NoneLost == budget.lost = MaxLost

\* It is the turn of an execution, between two of its tasks or during the Glue task.
ExecTurn(e, g) ==
    /\ exec[e].generation = g
    /\ \/ exec[e].state = "BuildIcebergGeneration"
       \/ /\ exec[e].state \in {"ValidateGeneration", "PublishGeneration", "MarkFailure"}
          /\ exec[e].call = NoItem

\* It is the turn of an invocation, with or without an execution that waits for it.
CallTurn(c, g) ==
    /\ req[c].action \in {"start_build", "validate", "publish", "fail"}
    /\ req[c].generation = g
    /\ pc[c] # "idle"
    /\ req[c].action = "start_build" => pc[c] = "done" /\ reply[c].code = "BUILDING"
    /\ req[c].action = "fail" => pc[c] # "done"

OneTurn(g) ==
    /\ \A e, f \in Execution : ExecTurn(e, g) /\ ExecTurn(f, g) => e = f
    /\ \A c, d \in Call : CallTurn(c, g) /\ CallTurn(d, g) => c = d
    /\ \A e \in Execution, c \in Call : ~(ExecTurn(e, g) /\ CallTurn(c, g))

\* The Glue run has left the tables and the evidence of the generation's attempt.
Built(g) ==
    /\ \A t \in 1..Tables : rows[g][t] = 1
    /\ evidence[g] # NoItem
    /\ evidence[g].attempt = genItem[g].attempt

JobOn(g) == job # NoItem /\ job.generation = g

ExecTurnInv(e, g) ==
    ExecTurn(e, g) =>
        /\ exec[e].state = "BuildIcebergGeneration" =>
             /\ genItem[g].status = "BUILDING"
             /\ exec[e].glue = "running" =>
                  JobOn(g) /\ job.owner = e /\ job.attempt = genItem[g].attempt
             /\ exec[e].glue = "SUCCEEDED" => Built(g)
        /\ exec[e].state = "ValidateGeneration" => genItem[g].status = "BUILDING" /\ Built(g)
        /\ exec[e].state = "PublishGeneration" => genItem[g].status = "VALIDATED"
        /\ exec[e].state = "MarkFailure" => genItem[g].status \in {"BUILDING", "VALIDATED"}

CallTurnInv(c, g) ==
    CallTurn(c, g) =>
        /\ req[c].action = "start_build" => genItem[g].status = "BUILDING"
        /\ req[c].action = "validate" /\ pc[c] # "done" =>
             /\ genItem[g].status = "BUILDING"
             /\ Built(g)
             /\ pc[c] # "load" => loaded[c].attempt = genItem[g].attempt
        /\ req[c].action = "validate" /\ pc[c] = "done" =>
             genItem[g].status = IF reply[c].code = "VALIDATED" THEN "VALIDATED" ELSE "BUILDING"
        /\ req[c].action = "publish" =>
             genItem[g].status = IF pc[c] = "done" /\ reply[c].code = "PUBLISHED"
                                 THEN "PUBLISHED" ELSE "VALIDATED"
        /\ req[c].action = "fail" =>
             /\ genItem[g].status \in {"BUILDING", "VALIDATED"}
             /\ pc[c] = "update" => seen[c] = genItem[g].status

\* Who has the turn relies on nothing that a run on the generation still writes.
FailsOrBuilds(e) ==
    /\ exec[e].state \in {"BuildIcebergGeneration", "MarkFailure"}
    /\ exec[e].glue # "SUCCEEDED"

\* The run's step counts its deletes and appends.  An orphan may see its generation marked
\* FAILED, and the next attempt begin, but none get past its own run.
JobTurnInv(g) ==
    JobOn(g) =>
        /\ genItem[g].status \in {"BUILDING", "FAILED"}
        /\ \A c \in Call : CallTurn(c, g) => req[c].action \in {"start_build", "fail"}
        /\ \A e \in Execution : ExecTurn(e, g) => FailsOrBuilds(e)
        /\ \A t \in 1..Tables : /\ job.step > 2 * t => rows[g][t] = 1
                                /\ job.step = 2 * t => rows[g][t] = 0
        /\ job.step > EvidenceStep => evidence[g] # NoItem /\ evidence[g].attempt = job.attempt

\* What a build leaves is still there when the generation is validated and published.
CompleteInv(g) ==
    genItem[g].status \in {"VALIDATED", "PUBLISHED"} =>
        /\ \A t \in 1..Tables : rows[g][t] = 1
        /\ genItem[g].validation.attempt = genItem[g].attempt

TurnInv(g) ==
    /\ OneTurn(g)
    /\ \A e \in Execution : ExecTurnInv(e, g)
    /\ \A c \in Call : CallTurnInv(c, g)
    /\ JobTurnInv(g)
    /\ CompleteInv(g)

-----------------------------------------------------------------------------
(* What holds without faults: somebody works on every generation that is not settled *)

Waited(c) == caller[c] \in Execution /\ exec[caller[c]].call = c

\* The registration that accepted the generation, or the build that follows it.
Starts(e, g) ==
    LET c == exec[e].call IN
    \/ /\ exec[e].state = "RegisterBatch"
       /\ c # NoItem
       /\ pc[c] \in {"get_pointer", "done"}
       /\ reply[c].code = "REGISTERED"
       /\ reply[c].generation = g
    \/ /\ exec[e].state = "StartGenerationBuild"
       /\ exec[e].generation = g
       /\ c # NoItem => pc[c] = "read" \/ (pc[c] = "update" /\ seen[c] = "REGISTERED")

StrandInv ==
    /\ \A c \in Call : pc[c] # "idle" => Waited(c)
    /\ \A g \in Generation :
          /\ genItem[g].status = "REGISTERED" => \E e \in Execution : Starts(e, g)
          /\ genItem[g].status \in {"BUILDING", "VALIDATED"} =>
                \/ \E e \in Execution : ExecTurn(e, g)
                \/ \E c \in Call : CallTurn(c, g)

PInv == /\ IInv
        /\ PTypeOK
        /\ DriveInv
        /\ NoneLost => \A g \in Generation : TurnInv(g)
        /\ FaultFree => StrandInv

-----------------------------------------------------------------------------
(* The steps of an invocation, by what they do to the table and tell the caller *)

\* The transaction of register.
AcceptStep(c) ==
    LET g == GenerationId[req[c].batch][req[c].digest] IN
    /\ req[c].action = "register"
    /\ pc[c] = "put"
    /\ g \in Generation
    /\ genItem[g].status = "ABSENT"
    /\ genItem' = [genItem EXCEPT ![g] = [status |-> "REGISTERED", digest |-> req[c].digest,
                                          attempt |-> 0, validation |-> NoItem]]
    /\ pc'[c] = "get_pointer"
    /\ reply'[c] = [code |-> "REGISTERED", generation |-> g, version |-> 0]
    /\ UNCHANGED <<pointer, published, evidence, locals>>

\* The update of a transition.
MoveStep(c) ==
    LET g == req[c].generation IN
    /\ req[c].action \in {"start_build", "validate", "fail"}
    /\ g \in Generation
    /\ pc[c] = "update"
    /\ seen[c] \in Allowed(req[c].action)
    /\ genItem[g].status = seen[c]
    /\ genItem' = [genItem EXCEPT ![g] = Updated(c, genItem[g])]
    /\ pc'[c] = "done"
    /\ reply'[c] = [code |-> Target(req[c].action), generation |-> g, version |-> 0]
    /\ UNCHANGED <<batchItem, pointer, published, evidence, locals>>

\* The transaction of publish.
PublishStep(c) ==
    LET g == req[c].generation IN
    /\ req[c].action = "publish"
    /\ g \in Generation
    /\ pc[c] = "transact"
    /\ genItem[g].status = "VALIDATED"
    /\ genItem' = [genItem EXCEPT ![g].status = "PUBLISHED"]
    /\ req[c].expected = Len(published)
    /\ published' = Append(published, g)
    /\ pc'[c] = "done"
    /\ reply'[c] = [code |-> "PUBLISHED", generation |-> g, version |-> Len(published) + 1]
    /\ UNCHANGED <<batchItem, evidence, locals>>

Outcomes == Registered \cup {"BUILDING", "VALIDATED", "PUBLISHED", "FAILED"}

\* A read, or a write whose condition fails.
ReadStep(c) ==
    LET g == req[c].generation IN
    /\ UNCHANGED <<items, evidence, req>>
    /\ pc'[c] = "done" /\ pc[c] # "get_pointer" => reply'[c].code \notin Outcomes
    /\ pc[c] = "get_pointer" =>
         /\ pc'[c] = "done"
         /\ reply'[c].code = reply[c].code /\ reply'[c].generation = reply[c].generation
    /\ pc'[c] = "get_pointer" => reply'[c].generation # NoItem
    /\ reply'[c].version \in {reply[c].version, pointer.version}
    /\ pc'[c] # "load"
    /\ pc[c] = "load" /\ pc'[c] # "done" => evidence[g] # NoItem /\ loaded'[c] = evidence[g]
    /\ pc[c] # "load" => loaded'[c] = loaded[c]
    /\ pc'[c] = "update" => seen'[c] = genItem[g].status
    /\ pc[c] = "get_failing" /\ pc'[c] = "done" => genItem[g].status \in {"ABSENT", "PUBLISHED"}
    /\ pc[c] = "read" /\ pc'[c] = "done" => genItem[g].status \notin Allowed(req[c].action)
    /\ pc[c] = "update" => genItem[g].status # seen[c]
    /\ pc[c] = "read" /\ pc'[c] # "done" => pc'[c] = "update"

LEMMA AcceptOrRead ==
  ASSUME IInv, NEW c \in Call, Register(c)
  PROVE  AcceptStep(c) \/ ReadStep(c)
<1>1. TypeOK /\ CallInv(c) /\ RunsItsAction(c)
  BY DEF IInv, CallInv
<1>2. CASE PutIdentity(c)
  <2>1. /\ req[c].action = "register" /\ req[c].batch \in Batch /\ req[c].digest \in Digest
        /\ pc[c] = "put"
    BY <1>1, <1>2, RegisterRequest DEF PutIdentity
  <2>2. GenerationId[req[c].batch][req[c].digest] \in Generation
    BY <2>1, GenerationIdAssumption
  <2>3. CASE BothAbsent(req[c].batch, GenerationId[req[c].batch][req[c].digest])
    BY <1>1, <1>2, <2>1, <2>2, <2>3
    DEF PutIdentity, BothAbsent, Exists, AcceptStep, Goto, TypeOK
  <2>4. CASE ~BothAbsent(req[c].batch, GenerationId[req[c].batch][req[c].digest])
    BY <1>1, <1>2, <2>1, <2>4 DEF PutIdentity, ReadStep, Goto, TypeOK, locals, items
  <2>. QED  BY <2>3, <2>4
<1>3. CASE GetBatch(c) \/ RegetBatch(c)
  <2>1. batchItem[req[c].batch] # NoItem => batchItem[req[c].batch].generation \in Generation
    BY <1>1, <1>3, RegisterRequest DEF GetBatch, RegetBatch, TypeOK, Identity
  <2>. QED  BY <1>1, <1>3, <2>1, NoItemAssumption
    DEF GetBatch, RegetBatch, ExistingRegistration, Finish, Goto, ReadStep, TypeOK, Reply, locals, items,
        Outcomes, Registered
<1>4. CASE GetGeneration(c)
  <2>1. reply[c].generation # NoItem
    BY <1>1, <1>4 DEF GetGeneration, CallInv, HoldsClassification
  <2>. QED  BY <1>1, <1>4, <2>1
    DEF GetGeneration, Finish, Goto, ReadStep, TypeOK, Reply, locals, items, Outcomes, Registered
<1>5. CASE GetPointer(c)
  BY <1>1, <1>5 DEF GetPointer, Goto, ReadStep, TypeOK, Reply, locals, items
<1>. QED  BY <1>2, <1>3, <1>4, <1>5 DEF Register

LEMMA MoveOrRead ==
  ASSUME IInv, NEW c \in Call, Transition(c)
  PROVE  MoveStep(c) \/ ReadStep(c)
<1>1. TypeOK /\ CallInv(c) /\ RunsItsAction(c)
  BY DEF IInv, CallInv
<1>2. CASE ReadStatus(c)
  <2>1. "ABSENT" \notin Allowed(req[c].action)
    BY DEF Allowed
  <2>. QED  BY <1>1, <1>2, <2>1 DEF ReadStatus, Finish, Goto, ReadStep, TypeOK, Reply, Exists, items,
                                    Outcomes, Registered
<1>3. CASE UpdateStatus(c)
  <2>1. /\ req[c].generation \in Generation /\ req[c].action \in {"start_build", "validate", "fail"}
        /\ seen[c] \in Allowed(req[c].action) /\ pc[c] = "update"
    BY <1>1, <1>3, GenerationRequest DEF UpdateStatus, CallInv, SawAllowedStatus
  <2>2. CASE StatusStill(c)
    BY <1>1, <1>3, <2>1, <2>2 DEF UpdateStatus, StatusStill, MoveStep, Goto, TypeOK
  <2>3. CASE ~StatusStill(c)
    BY <1>1, <1>3, <2>1, <2>3 DEF UpdateStatus, StatusStill, Finish, Goto, ReadStep, TypeOK, Reply, locals,
       items, Outcomes, Registered
  <2>. QED  BY <2>2, <2>3
<1>. QED  BY <1>2, <1>3 DEF Transition

LEMMA PublishOrRead ==
  ASSUME IInv, NEW c \in Call, Publish(c)
  PROVE  PublishStep(c) \/ ReadStep(c)
<1>1. TypeOK /\ CallInv(c) /\ RunsItsAction(c) /\ PointerFollowsLog
  BY DEF IInv, CallInv
<1>2. CASE GetValidated(c)
  BY <1>1, <1>2 DEF GetValidated, Finish, Goto, ReadStep, TypeOK, Reply, locals, items, Outcomes, Registered
<1>3. CASE Transact(c)
  <2>1. /\ req[c].generation \in Generation /\ req[c].action = "publish" /\ req[c].expected \in Nat
        /\ pc[c] = "transact"
    BY <1>1, <1>3, GenerationRequest DEF Transact
  <2>2. CASE PointerMatches(req[c].expected) /\ genItem[req[c].generation].status = "VALIDATED"
    <3>1. req[c].expected = Len(published)
      BY <1>1, <2>2 DEF PointerMatches, PointerFollowsLog, NoPointer
    <3>. QED  BY <1>1, <1>3, <2>1, <2>2, <3>1 DEF Transact, PublishStep, Goto, TypeOK
  <2>3. CASE ~(PointerMatches(req[c].expected) /\ genItem[req[c].generation].status = "VALIDATED")
    BY <1>1, <1>3, <2>1, <2>3 DEF Transact, Finish, Goto, ReadStep, TypeOK, Reply, locals, items,
       Outcomes, Registered
  <2>. QED  BY <2>2, <2>3
<1>. QED  BY <1>2, <1>3 DEF Publish

LEMMA OthersRead ==
  ASSUME IInv, NEW c \in Call, Validate(c) \/ GetFailing(c) \/ Resolve(c)
  PROVE  ReadStep(c)
<1>1. TypeOK /\ CallInv(c) /\ RunsItsAction(c)
  BY DEF IInv, CallInv
<1>2. CASE LoadEvidence(c)
  BY <1>1, <1>2 DEF LoadEvidence, Finish, Goto, ReadStep, TypeOK, Reply, items, Outcomes, Registered
<1>3. CASE CheckEvidence(c)
  BY <1>1, <1>3 DEF CheckEvidence, Finish, Goto, ReadStep, TypeOK, Reply, locals, items, Outcomes, Registered
<1>4. CASE GetFailing(c)
  BY <1>1, <1>4 DEF GetFailing, Finish, Goto, ReadStep, TypeOK, Reply, Exists, locals, items, Outcomes, Registered
<1>5. CASE GetActive(c)
  BY <1>1, <1>5 DEF GetActive, Finish, Goto, ReadStep, TypeOK, Reply, locals, items, Outcomes, Registered
<1>6. CASE GetResolved(c)
  BY <1>1, <1>6 DEF GetResolved, Finish, Goto, ReadStep, TypeOK, Reply, locals, items, Outcomes, Registered
<1>. QED  BY <1>2, <1>3, <1>4, <1>5, <1>6 DEF Validate, Resolve

\* What every step of an invocation leaves alone.
LEMMA StepFrame ==
  ASSUME IInv, NEW c \in Call, HandlerStep(c)
  PROVE  /\ UNCHANGED <<evidence, req>>
         /\ pc[c] \notin {"idle", "done"} /\ pc'[c] # "idle"
         /\ \A o \in Call \ {c} : SameCall(o)
         /\ AcceptStep(c) \/ MoveStep(c) \/ PublishStep(c) \/ ReadStep(c)
<1>1. TypeOK
  BY DEF IInv
<1>2. UNCHANGED <<evidence, req>>
  BY DEF HandlerStep, Register, GetBatch, PutIdentity, RegetBatch, GetGeneration, GetPointer, Transition,
     ReadStatus, UpdateStatus, Validate, LoadEvidence, CheckEvidence, Publish, GetValidated, Transact,
     GetFailing, Resolve, GetActive, GetResolved, locals
<1>3. pc[c] \notin {"idle", "done"} /\ pc'[c] # "idle"
  <2>1. CASE Register(c)
    BY <1>1, <2>1 DEF Register, GetBatch, PutIdentity, RegetBatch, GetGeneration, GetPointer,
       ExistingRegistration, Finish, Goto, TypeOK
  <2>2. CASE Transition(c)
    BY <1>1, <2>2 DEF Transition, ReadStatus, UpdateStatus, Finish, Goto, TypeOK
  <2>3. CASE Validate(c) \/ GetFailing(c)
    BY <1>1, <2>3 DEF Validate, LoadEvidence, CheckEvidence, GetFailing, Finish, Goto, TypeOK
  <2>4. CASE Publish(c) \/ Resolve(c)
    BY <1>1, <2>4 DEF Publish, GetValidated, Transact, Resolve, GetActive, GetResolved, Finish, Goto, TypeOK
  <2>. QED  BY <2>1, <2>2, <2>3, <2>4 DEF HandlerStep
<1>4. \A o \in Call \ {c} : SameCall(o)
  BY <1>1, StepLeavesOthers
<1>5. AcceptStep(c) \/ MoveStep(c) \/ PublishStep(c) \/ ReadStep(c)
  BY AcceptOrRead, MoveOrRead, PublishOrRead, OthersRead DEF HandlerStep
<1>. QED  BY <1>2, <1>3, <1>4, <1>5

-----------------------------------------------------------------------------
(* Records *)

\* The step is one of this execution alone.
StepOf(e) == /\ exec' \in [Execution -> ExecutionRecord]
             /\ \A f \in Execution \ {e} : exec'[f] = exec[f]

LEMMA EnterFields ==
  ASSUME PTypeOK, NEW e \in Execution, NEW state \in States
  PROVE  /\ Enter(e, state) \in ExecutionRecord
         /\ Enter(e, state).state = state
         /\ Enter(e, state).call = NoItem /\ Enter(e, state).tries = 0
         /\ Enter(e, state).input = exec[e].input
         /\ Enter(e, state).generation = exec[e].generation
         /\ Enter(e, state).version = exec[e].version
         /\ Enter(e, state).glue = exec[e].glue
  BY DEF PTypeOK, ExecutionRecord, Enter

LEMMA PayloadOf ==
  ASSUME NEW e
  PROVE  /\ exec[e].state = "RegisterBatch" => Payload(e) =
              [action |-> "register", batch |-> exec[e].input.batch, digest |-> exec[e].input.digest,
               location |-> exec[e].input.location]
         /\ exec[e].state = "StartGenerationBuild" =>
              Payload(e) = [action |-> "start_build", generation |-> exec[e].generation]
         /\ exec[e].state = "ValidateGeneration" =>
              Payload(e) = [action |-> "validate", generation |-> exec[e].generation, glueRun |-> TRUE]
         /\ exec[e].state = "PublishGeneration" =>
              Payload(e) = [action |-> "publish", generation |-> exec[e].generation,
                            expected |-> exec[e].version]
         /\ exec[e].state = "MarkFailure" =>
              Payload(e) = [action |-> "fail", generation |-> exec[e].generation]
  BY DEF Payload, VersionExpected

LEMMA AfterOf ==
  ASSUME NEW state \in LambdaStates, NEW code
  PROVE  /\ After(state, code) \in States \ {"NotStarted"}
         /\ state = "RegisterBatch" =>
              /\ After(state, code) \in {"ReplaySucceeded", "ConcurrentExecutionRejected",
                                         "StartGenerationBuild", "ExecutionFailed"}
              /\ After(state, code) = "ReplaySucceeded" => code = "REPLAYED"
              /\ After(state, code) = "StartGenerationBuild" => code \in Registered
              /\ code = "REGISTERED" => After(state, code) = "StartGenerationBuild"
         /\ state = "StartGenerationBuild" =>
              After(state, code) = IF code = "BUILDING" THEN "BuildIcebergGeneration" ELSE "ExecutionFailed"
         /\ state = "ValidateGeneration" =>
              After(state, code) = IF code = "VALIDATED" THEN "PublishGeneration" ELSE "MarkFailure"
         /\ state = "PublishGeneration" =>
              After(state, code) = IF code = "PUBLISHED" THEN "Succeeded" ELSE "MarkFailure"
         /\ state = "MarkFailure" => After(state, code) \in {"GenerationFailed", "ExecutionFailed"}
  BY DEF LambdaStates, After, AlreadyBuilt, Caught, States, Terminal, FailedStates, Registered

\* What a task that returns leaves of its execution.
LEMMA ReturnedFields ==
  ASSUME TypeOK, PTypeOK, NEW e \in Execution, ExecInv(e), TaskReturns(e)
  PROVE  /\ exec[e].call \in Call /\ exec[e].state \in LambdaStates
         /\ StepOf(e)
         /\ exec'[e].state = After(exec[e].state, reply[exec[e].call].code)
         /\ exec'[e].call = NoItem /\ exec'[e].tries = 0
         /\ exec'[e].input = exec[e].input /\ exec'[e].glue = exec[e].glue
         /\ exec[e].state = "RegisterBatch" =>
              /\ exec'[e].generation = reply[exec[e].call].generation
              /\ exec'[e].version = reply[exec[e].call].version
         /\ exec[e].state # "RegisterBatch" =>
              exec'[e].generation = exec[e].generation /\ exec'[e].version = exec[e].version
<1> DEFINE c == exec[e].call
           state == After(exec[e].state, reply[c].code)
           next == Enter(e, state)
<1>1. c \in Call /\ exec[e].state \in LambdaStates /\ exec[e] \in ExecutionRecord
  BY DEF TaskReturns, PTypeOK, ExecutionRecord, ExecInv, WaitsForItsCall
<1>2. state \in States
  BY <1>1, AfterOf
<1>3. /\ next \in ExecutionRecord /\ next.state = state /\ next.call = NoItem /\ next.tries = 0
      /\ next.input = exec[e].input /\ next.glue = exec[e].glue
      /\ next.generation = exec[e].generation /\ next.version = exec[e].version
  BY <1>2, EnterFields
<1>4. reply[c].generation \in Generation \cup {NoItem} /\ reply[c].version \in Nat
  BY <1>1 DEF TypeOK, Reply
<1>5. exec' = [exec EXCEPT ![e] =
          IF exec[e].state = "RegisterBatch"
          THEN [next EXCEPT !.generation = reply[c].generation, !.version = reply[c].version]
          ELSE next]
  BY DEF TaskReturns
<1>6. exec'[e] = IF exec[e].state = "RegisterBatch"
                 THEN [next EXCEPT !.generation = reply[c].generation, !.version = reply[c].version]
                 ELSE next
  BY <1>5 DEF PTypeOK
<1>7. CASE exec[e].state = "RegisterBatch"
  <2>1. exec'[e] = [next EXCEPT !.generation = reply[c].generation, !.version = reply[c].version]
    BY <1>6, <1>7
  <2>2. /\ exec'[e] \in ExecutionRecord /\ exec'[e].state = state /\ exec'[e].call = NoItem
        /\ exec'[e].tries = 0 /\ exec'[e].input = exec[e].input /\ exec'[e].glue = exec[e].glue
        /\ exec'[e].generation = reply[c].generation /\ exec'[e].version = reply[c].version
    BY <1>3, <1>4, <2>1 DEF ExecutionRecord
  <2>3. StepOf(e)
    BY <1>5, <2>2 DEF StepOf, PTypeOK
  <2>. QED  BY <1>1, <1>7, <2>2, <2>3
<1>8. CASE exec[e].state # "RegisterBatch"
  <2>1. exec'[e] = next
    BY <1>6, <1>8
  <2>2. StepOf(e)
    BY <1>3, <1>5, <2>1 DEF StepOf, PTypeOK
  <2>. QED  BY <1>1, <1>3, <1>8, <2>1, <2>2
<1>. QED  BY <1>7, <1>8

\* The other steps of an execution: the state it enters keeps its data.
Enters(e, state) ==
    /\ StepOf(e)
    /\ exec'[e].state = state
    /\ exec'[e].call = NoItem /\ exec'[e].tries = 0
    /\ exec'[e].input = exec[e].input /\ exec'[e].generation = exec[e].generation
    /\ exec'[e].version = exec[e].version

LEMMA EnterStep ==
  ASSUME PTypeOK, NEW e \in Execution, NEW state \in States,
         exec' = [exec EXCEPT ![e] = Enter(e, state)]
  PROVE  Enters(e, state) /\ exec'[e].glue = exec[e].glue
<1>1. exec'[e] = Enter(e, state)
  BY DEF PTypeOK
<1>2. StepOf(e)
  BY <1>1, EnterFields DEF StepOf, PTypeOK
<1>. QED  BY <1>1, <1>2, EnterFields DEF Enters

LEMMA BuildReturnsStep ==
  ASSUME PTypeOK, NEW e \in Execution, BuildReturns(e)
  PROVE  /\ Enters(e, IF exec[e].glue = "SUCCEEDED" THEN "ValidateGeneration" ELSE "MarkFailure")
         /\ exec'[e].glue = "none"
<1> DEFINE state == IF exec[e].glue = "SUCCEEDED" THEN "ValidateGeneration" ELSE Caught(exec[e].state)
<1>1. /\ state = IF exec[e].glue = "SUCCEEDED" THEN "ValidateGeneration" ELSE "MarkFailure"
      /\ state \in States
  BY DEF BuildReturns, Caught, States, LambdaStates
<1>2. exec'[e] = [Enter(e, state) EXCEPT !.glue = "none"]
  BY DEF BuildReturns, PTypeOK
<1>3. /\ exec'[e] \in ExecutionRecord /\ exec'[e].glue = "none"
      /\ exec'[e].state = state /\ exec'[e].call = NoItem /\ exec'[e].tries = 0
      /\ exec'[e].input = exec[e].input /\ exec'[e].generation = exec[e].generation
      /\ exec'[e].version = exec[e].version
  BY <1>1, <1>2, EnterFields DEF ExecutionRecord
<1>4. StepOf(e)
  BY <1>3 DEF BuildReturns, StepOf, PTypeOK
<1>. QED  BY <1>1, <1>3, <1>4 DEF Enters

LEMMA InvokeTaskStep ==
  ASSUME PTypeOK, NEW e \in Execution, NEW c \in Call, exec' = [exec EXCEPT ![e].call = c]
  PROVE  /\ StepOf(e)
         /\ exec'[e].call = c
         /\ exec'[e].state = exec[e].state /\ exec'[e].input = exec[e].input
         /\ exec'[e].generation = exec[e].generation /\ exec'[e].version = exec[e].version
         /\ exec'[e].tries = exec[e].tries /\ exec'[e].glue = exec[e].glue
  BY DEF PTypeOK, ExecutionRecord, StepOf

\* A service error: another try, or the state of a task that failed.
LEMMA LoseStep ==
  ASSUME PTypeOK, NEW e \in Execution, exec[e].state \in LambdaStates, Lose(e)
  PROVE  /\ StepOf(e)
         /\ exec'[e].call = NoItem
         /\ exec'[e].input = exec[e].input /\ exec'[e].generation = exec[e].generation
         /\ exec'[e].version = exec[e].version /\ exec'[e].glue = exec[e].glue
         /\ \/ /\ exec[e].tries < MaxRetry
               /\ exec'[e].state = exec[e].state /\ exec'[e].tries = exec[e].tries + 1
            \/ exec'[e].state \in {"MarkFailure", "ExecutionFailed"} /\ exec'[e].tries = 0
         /\ budget'.lost < MaxLost
<1>1. budget'.lost < MaxLost
  BY PipelineAssumption DEF Lose, PTypeOK
<1>2. CASE exec[e].tries < MaxRetry
  <2>1. exec' = [exec EXCEPT ![e] = [exec[e] EXCEPT !.call = NoItem, !.tries = exec[e].tries + 1]]
    BY <1>2 DEF Lose
  <2>2. exec'[e] = [exec[e] EXCEPT !.call = NoItem, !.tries = exec[e].tries + 1]
    BY <2>1 DEF PTypeOK
  <2>3. exec[e] \in ExecutionRecord
    BY DEF PTypeOK
  <2>4. /\ exec'[e] \in ExecutionRecord /\ exec'[e].call = NoItem
        /\ exec'[e].input = exec[e].input /\ exec'[e].generation = exec[e].generation
        /\ exec'[e].version = exec[e].version /\ exec'[e].glue = exec[e].glue
        /\ exec'[e].state = exec[e].state /\ exec'[e].tries = exec[e].tries + 1
    <3> DEFINE n == exec[e].tries + 1
    <3>1. n \in Nat
      BY <2>3 DEF ExecutionRecord
    <3> HIDE DEF n
    <3>2. exec'[e] = [exec[e] EXCEPT !.call = NoItem, !.tries = n]
      BY <2>2 DEF n
    <3>3. /\ exec'[e] \in ExecutionRecord /\ exec'[e].call = NoItem /\ exec'[e].tries = n
          /\ exec'[e].input = exec[e].input /\ exec'[e].generation = exec[e].generation
          /\ exec'[e].version = exec[e].version /\ exec'[e].glue = exec[e].glue
          /\ exec'[e].state = exec[e].state
      BY <2>3, <3>1, <3>2 DEF ExecutionRecord
    <3>. QED  BY <3>3 DEF n
  <2>5. StepOf(e)
    BY <2>1, <2>4 DEF StepOf, PTypeOK
  <2>. QED  BY <1>1, <1>2, <2>4, <2>5
<1>3. CASE ~(exec[e].tries < MaxRetry)
  <2>1. Caught(exec[e].state) \in {"MarkFailure", "ExecutionFailed"} /\ Caught(exec[e].state) \in States
    BY DEF Caught, States, LambdaStates, Terminal, FailedStates
  <2>2. exec' = [exec EXCEPT ![e] = Enter(e, Caught(exec[e].state))]
    BY <1>3 DEF Lose
  <2>3. Enters(e, Caught(exec[e].state)) /\ exec'[e].glue = exec[e].glue
    BY <2>1, <2>2, EnterStep
  <2>. QED  BY <1>1, <2>1, <2>3 DEF Enters
<1>. QED  BY <1>2, <1>3

LEMMA StartExecutionStep ==
  ASSUME PTypeOK, NEW e \in Execution, StartExecution(e)
  PROVE  /\ StepOf(e)
         /\ exec'[e].state = "RegisterBatch" /\ exec'[e].call = NoItem /\ exec'[e].tries = 0
         /\ exec'[e].input \in Input /\ exec'[e].glue = exec[e].glue
         /\ exec'[e].version = exec[e].version
<1>1. PICK input \in Input :
        exec' = [exec EXCEPT ![e] = [Enter(e, "RegisterBatch") EXCEPT !.input = input]]
  BY DEF StartExecution
<1>2. exec'[e] = [Enter(e, "RegisterBatch") EXCEPT !.input = input]
  BY <1>1 DEF PTypeOK
<1>3. "RegisterBatch" \in States
  BY DEF States, LambdaStates
<1>4. /\ exec'[e] \in ExecutionRecord
      /\ exec'[e].state = "RegisterBatch" /\ exec'[e].call = NoItem /\ exec'[e].tries = 0
      /\ exec'[e].input \in Input /\ exec'[e].glue = exec[e].glue
      /\ exec'[e].version = exec[e].version
  BY <1>2, <1>3, EnterFields DEF ExecutionRecord
<1>5. StepOf(e)
  BY <1>1, <1>4 DEF StepOf, PTypeOK
<1>. QED  BY <1>4, <1>5

\* The Glue task's own steps.
LEMMA StartJobStep ==
  ASSUME PTypeOK, NEW e \in Execution, StartJob(e)
  PROVE  \/ /\ StepOf(e)
            /\ exec'[e] = [exec[e] EXCEPT !.glue = "running"]
            /\ UNCHANGED budget
         \/ /\ Enters(e, "MarkFailure") /\ exec'[e].glue = "none"
            /\ budget'.lost = budget.lost
            /\ budget' \in [lost : 0..MaxLost, stop : 0..MaxStop, raise : 0..MaxRaise]
<1>1. CASE exec' = [exec EXCEPT ![e].glue = "running"] /\ UNCHANGED budget
  <2>1. exec'[e] = [exec[e] EXCEPT !.glue = "running"]
    BY <1>1 DEF PTypeOK
  <2>2. exec'[e] \in ExecutionRecord
    BY <2>1 DEF PTypeOK, ExecutionRecord
  <2>3. StepOf(e)
    BY <1>1, <2>2 DEF PTypeOK, StepOf
  <2>. QED  BY <1>1, <2>1, <2>3
<1>2. CASE /\ budget.raise > 0
           /\ budget' = [budget EXCEPT !.raise = @ - 1]
           /\ exec' = [exec EXCEPT ![e] = Enter(e, Caught(exec[e].state))]
  <2>1. Caught(exec[e].state) = "MarkFailure" /\ "MarkFailure" \in States /\ exec[e].glue = "none"
    BY DEF StartJob, Caught, States, LambdaStates
  <2>2. /\ budget'.lost = budget.lost
        /\ budget' \in [lost : 0..MaxLost, stop : 0..MaxStop, raise : 0..MaxRaise]
    BY <1>2, PipelineAssumption DEF PTypeOK
  <2>3. Enters(e, Caught(exec[e].state)) /\ exec'[e].glue = exec[e].glue
    BY <1>2, <2>1, EnterStep
  <2>. QED  BY <2>1, <2>2, <2>3
<1>. QED  BY <1>1, <1>2 DEF StartJob

LEMMA JobRefusedStep ==
  ASSUME PTypeOK, NEW e \in Execution, JobRefused(e)
  PROVE  Enters(e, "MarkFailure") /\ exec'[e].glue = "none"
<1>1. Caught(exec[e].state) = "MarkFailure" /\ "MarkFailure" \in States /\ exec[e].glue = "none"
  BY DEF JobRefused, Caught, States, LambdaStates
<1>. QED  BY <1>1, EnterStep DEF JobRefused

LEMMA StopStep ==
  ASSUME PTypeOK, NEW e \in Execution, StopExecution(e)
  PROVE  /\ Enters(e, "Stopped")
         /\ budget' \in [lost : 0..MaxLost, stop : 0..MaxStop, raise : 0..MaxRaise]
         /\ budget'.lost = budget.lost /\ budget'.stop < MaxStop
<1>1. "Stopped" \in States
  BY DEF States, Terminal
<1>2. /\ budget' \in [lost : 0..MaxLost, stop : 0..MaxStop, raise : 0..MaxRaise]
      /\ budget'.lost = budget.lost /\ budget'.stop < MaxStop
  BY PipelineAssumption DEF StopExecution, PTypeOK
<1>. QED  BY <1>1, <1>2, EnterStep DEF StopExecution

\* The end of the Glue run.
LEMMA JobEndsStep ==
  ASSUME PTypeOK, NEW result \in {"SUCCEEDED", "FAILED"}, JobEnds(result)
  PROVE  /\ exec' \in [Execution -> ExecutionRecord]
         /\ \A e \in Execution :
              /\ exec'[e].state = exec[e].state /\ exec'[e].input = exec[e].input
              /\ exec'[e].generation = exec[e].generation /\ exec'[e].version = exec[e].version
              /\ exec'[e].call = exec[e].call /\ exec'[e].tries = exec[e].tries
              /\ exec'[e].glue = IF /\ job.owner = e /\ exec[e].glue = "running"
                                    /\ exec[e].state = "BuildIcebergGeneration"
                                 THEN result ELSE exec[e].glue
<1> DEFINE Ended(e) == /\ job.owner = e /\ exec[e].glue = "running"
                       /\ exec[e].state = "BuildIcebergGeneration"
<1>1. exec' = [e \in Execution |-> IF Ended(e) THEN [exec[e] EXCEPT !.glue = result] ELSE exec[e]]
  BY DEF JobEnds
<1>2. ASSUME NEW e \in Execution
      PROVE  /\ exec'[e] = IF Ended(e) THEN [exec[e] EXCEPT !.glue = result] ELSE exec[e]
             /\ exec[e] \in ExecutionRecord
  BY <1>1 DEF PTypeOK
<1> HIDE DEF Ended
<1>3. ASSUME NEW e \in Execution
      PROVE  /\ exec'[e] \in ExecutionRecord
             /\ exec'[e].state = exec[e].state /\ exec'[e].input = exec[e].input
             /\ exec'[e].generation = exec[e].generation /\ exec'[e].version = exec[e].version
             /\ exec'[e].call = exec[e].call /\ exec'[e].tries = exec[e].tries
             /\ exec'[e].glue = IF Ended(e) THEN result ELSE exec[e].glue
  BY <1>2, <1>3 DEF ExecutionRecord
<1>. QED  BY <1>1, <1>3 DEF Ended

-----------------------------------------------------------------------------
(* Every step of the pipeline is a step of the control plane *)

LEMMA PInvParts ==
  PInv <=> /\ IInv
           /\ TypeOK
           /\ PTypeOK
           /\ \A e \in Execution : ExecInv(e)
           /\ \A c \in Call : ReplyInv(c)
           /\ OnePublisher /\ JobInv /\ CountInv
           /\ NoneLost => \A g \in Generation : TurnInv(g)
           /\ FaultFree => StrandInv
  BY DEF PInv, DriveInv, IInv

LEMMA TriedFinite ==
  ASSUME PTypeOK
  PROVE  IsFiniteSet(Tried) /\ Cardinality(Tried) \in Nat
<1>1. Tried \subseteq Execution \X (0..MaxRetry)
  BY DEF Tried
<1>. QED  BY <1>1, ClientsAssumption, FS_Subset, FS_CardinalityType

LEMMA BuildingFinite ==
  ASSUME NEW g
  PROVE  IsFiniteSet(Building(g)) /\ Cardinality(Building(g)) \in Nat
<1>1. Building(g) \subseteq Call
  BY DEF Building
<1>. QED  BY <1>1, ClientsAssumption, FS_Subset, FS_CardinalityType

\* A try of StartGenerationBuild that is about to be made has not been made.
LEMMA NewTry ==
  ASSUME PTypeOK, NEW e \in Execution, exec[e].state = "StartGenerationBuild",
         exec[e].call = NoItem, exec[e].tries <= MaxRetry
  PROVE  /\ <<e, exec[e].tries>> \notin Tried
         /\ Cardinality(Tried) + 1 = Cardinality(Tried \cup {<<e, exec[e].tries>>})
         /\ Cardinality(Tried) < MaxAttempt
<1> DEFINE p == <<e, exec[e].tries>>
<1>1. exec[e].tries \in 0..MaxRetry
  BY PipelineAssumption DEF PTypeOK, ExecutionRecord
<1>2. p \notin Tried
  BY <1>1 DEF Tried, PTypeOK, ExecutionRecord
<1>3. Tried \cup {p} \subseteq Execution \X (0..MaxRetry)
  BY <1>1 DEF Tried
<1>4. Cardinality(Tried \cup {p}) = Cardinality(Tried) + 1
  BY <1>2, TriedFinite, FS_AddElement
<1>5. /\ Cardinality(Tried \cup {p}) <= Cardinality(Execution \X (0..MaxRetry))
      /\ Cardinality(Execution \X (0..MaxRetry)) \in Nat
  BY <1>3, ClientsAssumption, FS_Subset, FS_CardinalityType
<1>. QED  BY <1>2, <1>4, <1>5, TriedFinite, ClientsAssumption, BoundAssumption

LEMMA InvokeRefines ==
  ASSUME PInv, NEW e \in Execution, InvokeTask(e)
  PROVE  Next
<1>1. /\ TypeOK /\ PTypeOK /\ ExecInv(e) /\ CountInv /\ PointerFollowsLog
  BY PInvParts DEF IInv
<1>2. PICK c \in Call : Invoke(c, Payload(e))
  BY DEF InvokeTask
<1>3. /\ exec[e].state \in LambdaStates /\ exec[e].call = NoItem
      /\ exec[e].state # "NotStarted" /\ exec[e].input \in Input
  BY <1>1 DEF InvokeTask, LambdaStates, ExecInv, CarriesItsData
<1>4. CASE exec[e].state = "RegisterBatch"
  <2>1. /\ exec[e].input.batch \in Batch /\ exec[e].input.digest \in Digest
        /\ exec[e].input.location \in Location
    BY <1>3, PipelineAssumption
  <2>. QED  BY <1>2, <1>4, <2>1, PayloadOf DEF Next, ClientRegister
<1>5. CASE exec[e].state # "RegisterBatch"
  <2>1. exec[e].generation \in Generation
    BY <1>1, <1>3, <1>5 DEF LambdaStates, ExecInv, CarriesItsData, Working
  <2>2. CASE exec[e].state = "StartGenerationBuild"
    <3>1. Cardinality(Tried) < MaxAttempt
      BY <1>1, <1>3, <2>2, NewTry DEF ExecInv, CarriesItsData
    <3>2. genItem[exec[e].generation].attempt + Cardinality(Building(exec[e].generation)) <= Cardinality(Tried)
      BY <1>1, <2>1 DEF CountInv
    <3>3. genItem[exec[e].generation].attempt + Cardinality(Building(exec[e].generation)) < MaxAttempt
      BY <1>1, <2>1, <3>1, <3>2, TriedFinite, BuildingFinite, BoundAssumption DEF TypeOK, GenerationItem
    <3>. QED  BY <1>2, <2>1, <2>2, <3>3, PayloadOf DEF Next, ClientStartBuild
  <2>3. CASE exec[e].state = "ValidateGeneration"
    BY <1>2, <2>1, <2>3, PayloadOf DEF Next, ClientValidate
  <2>4. CASE exec[e].state = "PublishGeneration"
    <3>1. exec[e].version \in 0..pointer.version
      BY <1>1 DEF ExecInv, CarriesItsData, PointerFollowsLog, PTypeOK, ExecutionRecord, TypeOK, Pointer
    <3>. QED  BY <1>2, <2>1, <2>4, <3>1, PayloadOf DEF Next, ClientPublish
  <2>5. CASE exec[e].state = "MarkFailure"
    BY <1>2, <2>1, <2>5, PayloadOf DEF Next, ClientFail
  <2>. QED  BY <1>3, <1>5, <2>2, <2>3, <2>4, <2>5 DEF LambdaStates
<1>. QED  BY <1>4, <1>5

LEMMA EvidenceRefines ==
  ASSUME PInv, JobPutsEvidence
  PROVE  Next
<1>1. PTypeOK /\ JobInv /\ job # NoItem
  BY PInvParts DEF JobPutsEvidence
<1>2. job.generation \in Generation /\ job.attempt \in 1..genItem[job.generation].attempt
  BY <1>1 DEF PTypeOK, GlueRun, JobInv
<1>3. PICK input \in Input : job.digest = input.digest
  BY <1>1 DEF JobInv
<1> DEFINE report == [digest |-> job.digest, complete |-> TRUE, casOnly |-> FALSE]
<1>4. report \in Report
  BY <1>3, ClientsAssumption
<1>5. evidence' = [evidence EXCEPT ![job.generation] =
         [generation |-> job.generation, digest |-> report.digest, complete |-> report.complete,
          casOnly |-> report.casOnly, attempt |-> job.attempt]]
  BY DEF JobPutsEvidence
<1> HIDE DEF report
<1>6. PutEvidence(job.generation)
  BY <1>2, <1>4, <1>5 DEF PutEvidence, JobPutsEvidence
<1>. QED  BY <1>2, <1>6 DEF Next

LEMMA Refines ==
  ASSUME PInv, PNext
  PROVE  Next \/ UNCHANGED vars
<1>1. ASSUME NEW e \in Execution, InvokeTask(e)  PROVE Next
  BY <1>1, InvokeRefines
<1>2. ASSUME NEW e \in Execution, TaskReturns(e)  PROVE Next
  <2>1. exec[e].call \in Call
    BY <1>2, PInvParts DEF TaskReturns, PTypeOK, ExecutionRecord
  <2>. QED  BY <1>2, <2>1 DEF TaskReturns, Next
<1>3. ASSUME NEW e \in Execution,
             StartExecution(e) \/ StartJob(e) \/ JobRefused(e) \/ BuildReturns(e)
             \/ Lose(e) \/ StopExecution(e)
      PROVE  UNCHANGED vars
  BY <1>3 DEF StartExecution, StartJob, JobRefused, BuildReturns, Lose, StopExecution
<1>4. ASSUME NEW c \in Call, FunctionStep(c) \/ FunctionRaises(c) \/ AbandonedReturns(c)
      PROVE  Next
  BY <1>4 DEF FunctionStep, FunctionRaises, AbandonedReturns, Next
<1>5. CASE JobPutsEvidence
  BY <1>5, EvidenceRefines
<1>6. CASE JobValidates \/ JobWrites \/ JobSucceeds \/ JobFails
  BY <1>6 DEF JobValidates, JobWrites, JobSucceeds, JobFails, JobEnds
<1>. QED  BY <1>1, <1>2, <1>3, <1>4, <1>5, <1>6 DEF PNext, Machine, JobStep

\* The table grows: what has been accepted, built or published stays so.
TableGrows ==
    /\ ItemsGrow
    /\ \A g \in Generation : genItem[g].attempt <= genItem'[g].attempt

LEMMA ControlPlanePart ==
  ASSUME PInv, PNext
  PROVE  IInv' /\ TypeOK' /\ TableGrows
<1>1. IInv /\ TypeOK
  BY PInvParts
<1>2. CASE Next
  <2>1. IInv' /\ ItemsGrow /\ LifecycleStep
    BY <1>1, <1>2, NextInv, NextLifecycle
  <2>2. ASSUME NEW g \in Generation  PROVE genItem[g].attempt <= genItem'[g].attempt
    <3>1. genItem[g].attempt \in Nat
      BY <1>1 DEF TypeOK, GenerationItem
    <3>2. \/ genItem'[g].attempt = genItem[g].attempt
          \/ genItem'[g].attempt = genItem[g].attempt + 1
      BY <2>1 DEF LifecycleStep
    <3>. QED  BY <3>1, <3>2
  <2>. QED  BY <2>1, <2>2 DEF TableGrows, IInv
<1>3. CASE UNCHANGED vars
  <2>1. IInv' /\ ItemsGrow
    BY <1>1, <1>3, StutterInv
  <2>. QED  BY <1>1, <1>3, <2>1 DEF TableGrows, IInv, vars, items, TypeOK, GenerationItem
<1>. QED  BY <1>2, <1>3, Refines

-----------------------------------------------------------------------------
(* Types *)

LEMMA NewJobType ==
  ASSUME TypeOK, PTypeOK, NEW e \in Execution, ExecInv(e), StartJob(e)
  PROVE  /\ job' \in GlueRun /\ job' # NoItem
         /\ job'.owner = e /\ job'.generation = exec[e].generation /\ job'.step = 0
         /\ job'.attempt = genItem[exec[e].generation].attempt
         /\ job'.digest = exec[e].input.digest /\ exec[e].input \in Input
         /\ exec[e].generation \in Generation
<1>1. exec[e].generation \in Generation /\ exec[e].input \in Input
  BY DEF StartJob, ExecInv, CarriesItsData, Working
<1>2. exec[e].input.digest \in Digest /\ genItem[exec[e].generation].attempt \in Nat
  BY <1>1, PipelineAssumption DEF TypeOK, GenerationItem
<1>3. job' = NewJob(e)
  BY DEF StartJob
<1>. QED  BY <1>1, <1>2, <1>3, PipelineAssumption DEF NewJob, GlueRun

\* A step of the Glue run.
LEMMA JobAdvances ==
  ASSUME PTypeOK, JobValidates \/ JobWrites \/ JobPutsEvidence
  PROVE  /\ job \in GlueRun /\ job' \in GlueRun /\ job' # NoItem
         /\ job'.step = job.step + 1 /\ job'.owner = job.owner /\ job'.generation = job.generation
         /\ job'.attempt = job.attempt /\ job'.digest = job.digest
<1>1. job \in GlueRun
  BY DEF PTypeOK, JobValidates, JobWrites, JobPutsEvidence
<1>2. job' = [job EXCEPT !.step = job.step + 1]
  BY <1>1 DEF JobValidates, JobWrites, JobPutsEvidence, GlueRun
<1>3. job.step + 1 \in Nat
  BY <1>1 DEF GlueRun
<1> DEFINE n == job.step + 1
<1> HIDE DEF n
<1>4. job' = [job EXCEPT !.step = n] /\ n \in Nat
  BY <1>2, <1>3 DEF n
<1>5. /\ job' \in GlueRun /\ job'.step = n /\ job'.owner = job.owner
      /\ job'.generation = job.generation /\ job'.attempt = job.attempt /\ job'.digest = job.digest
  BY <1>1, <1>4 DEF GlueRun
<1>. QED  BY <1>1, <1>5, PipelineAssumption DEF n

LEMMA TableOfStep ==
  ASSUME NEW n \in Nat, NEW k \in 1..(2 * n)
  PROVE  /\ (k + 1) \div 2 \in 1..n
         /\ k % 2 = 1 => k + 1 = 2 * ((k + 1) \div 2)
         /\ k % 2 # 1 => k = 2 * ((k + 1) \div 2)
  OBVIOUS

\* The table that a step of the run works on.
LEMMA JobWritesTable ==
  ASSUME PTypeOK, JobWrites
  PROVE  /\ rows' \in [Generation -> [1..Tables -> Nat]]
         /\ \A g \in Generation \ {job.generation} : rows'[g] = rows[g]
         /\ \A t \in 1..Tables :
              /\ job.step + 1 = 2 * t => rows'[job.generation][t] = 0
              /\ job.step = 2 * t => rows'[job.generation][t] = rows[job.generation][t] + 1
              /\ job.step + 1 # 2 * t /\ job.step # 2 * t =>
                   rows'[job.generation][t] = rows[job.generation][t]
<1> DEFINE g == job.generation
           t == (job.step + 1) \div 2
<1>1. /\ g \in Generation /\ job.step \in 1..(2 * Tables) /\ job.step \in Nat
      /\ rows \in [Generation -> [1..Tables -> Nat]] /\ Tables \in Nat
  BY PipelineAssumption DEF PTypeOK, JobWrites, GlueRun
<1>2. /\ t \in 1..Tables
      /\ job.step % 2 = 1 => job.step + 1 = 2 * t
      /\ job.step % 2 # 1 => job.step = 2 * t
  BY <1>1, TableOfStep
<1>t. t \in Nat
  BY <1>1, <1>2
<1>3. rows' = [rows EXCEPT ![g][t] = Replaced(rows[g][t], job.step)]
  BY DEF JobWrites
<1> HIDE DEF t
<1>4. /\ job.step + 1 = 2 * t => Replaced(rows[g][t], job.step) = 0
      /\ job.step = 2 * t => Replaced(rows[g][t], job.step) = rows[g][t] + 1
      /\ job.step = 2 * t \/ job.step + 1 = 2 * t
  BY <1>1, <1>2, <1>t DEF Replaced
<1>5. Replaced(rows[g][t], job.step) \in Nat
  BY <1>1, <1>2, <1>4
<1> HIDE DEF g
<1>6. /\ rows' \in [Generation -> [1..Tables -> Nat]]
      /\ \A h \in Generation \ {g} : rows'[h] = rows[h]
      /\ rows'[g][t] = Replaced(rows[g][t], job.step)
      /\ \A u \in 1..Tables \ {t} : rows'[g][u] = rows[g][u]
  BY <1>1, <1>2, <1>3, <1>5
<1>7. ASSUME NEW u \in 1..Tables
      PROVE  /\ job.step + 1 = 2 * u => u = t
             /\ job.step = 2 * u => u = t
  BY <1>1, <1>4, <1>t
<1>8. ASSUME NEW u \in 1..Tables
      PROVE  /\ job.step + 1 = 2 * u => rows'[g][u] = 0
             /\ job.step = 2 * u => rows'[g][u] = rows[g][u] + 1
             /\ job.step + 1 # 2 * u /\ job.step # 2 * u => rows'[g][u] = rows[g][u]
  BY <1>4, <1>6, <1>7
<1>. QED  BY <1>6, <1>8 DEF g

LEMMA PipelineTypes ==
  ASSUME PInv, PNext
  PROVE  PTypeOK'
<1>1. /\ TypeOK /\ PTypeOK /\ \A e \in Execution : ExecInv(e)
  BY PInvParts
<1> DEFINE Budgets == [lost : 0..MaxLost, stop : 0..MaxStop, raise : 0..MaxRaise]
<1>2. ASSUME NEW e \in Execution, StartExecution(e)  PROVE PTypeOK'
  BY <1>1, <1>2, StartExecutionStep DEF PTypeOK, StartExecution, StepOf
<1>3. ASSUME NEW e \in Execution, InvokeTask(e)  PROVE PTypeOK'
  BY <1>1, <1>3, InvokeTaskStep DEF PTypeOK, InvokeTask, StepOf
<1>4. ASSUME NEW e \in Execution, TaskReturns(e)  PROVE PTypeOK'
  BY <1>1, <1>4, ReturnedFields DEF PTypeOK, TaskReturns, StepOf
<1>5. ASSUME NEW e \in Execution, StartJob(e)  PROVE PTypeOK'
  <2>1. exec' \in [Execution -> ExecutionRecord] /\ budget' \in Budgets
    BY <1>1, <1>5, StartJobStep DEF PTypeOK, StepOf, Enters
  <2>. QED  BY <1>1, <1>5, <2>1, NewJobType DEF PTypeOK, StartJob
<1>6. ASSUME NEW e \in Execution, JobRefused(e)  PROVE PTypeOK'
  BY <1>1, <1>6, JobRefusedStep DEF PTypeOK, JobRefused, StepOf, Enters
<1>7. ASSUME NEW e \in Execution, BuildReturns(e)  PROVE PTypeOK'
  BY <1>1, <1>7, BuildReturnsStep DEF PTypeOK, BuildReturns, StepOf, Enters
<1>8. ASSUME NEW e \in Execution, Lose(e)  PROVE PTypeOK'
  <2>1. exec[e].state \in LambdaStates
    BY <1>1, <1>8 DEF Lose, ExecInv, WaitsForItsCall
  <2>2. budget' \in Budgets
    BY <1>1, <1>8, PipelineAssumption DEF PTypeOK, Lose
  <2>. QED  BY <1>1, <1>8, <2>1, <2>2, LoseStep DEF PTypeOK, Lose, StepOf
<1>9. ASSUME NEW e \in Execution, StopExecution(e)  PROVE PTypeOK'
  BY <1>1, <1>9, StopStep DEF PTypeOK, StopExecution, StepOf, Enters
<1>10. ASSUME NEW c \in Call, FunctionStep(c)  PROVE PTypeOK'
  BY <1>1, <1>10 DEF PTypeOK, FunctionStep
<1>11. ASSUME NEW c \in Call, FunctionRaises(c)  PROVE PTypeOK'
  <2>1. budget' \in Budgets
    BY <1>1, <1>11, PipelineAssumption DEF PTypeOK, FunctionRaises
  <2>. QED  BY <1>1, <1>11, <2>1 DEF PTypeOK, FunctionRaises
<1>12. ASSUME NEW c \in Call, AbandonedReturns(c)  PROVE PTypeOK'
  BY <1>1, <1>12 DEF PTypeOK, AbandonedReturns
<1>13. CASE JobValidates \/ JobPutsEvidence
  BY <1>1, <1>13, JobAdvances DEF PTypeOK, JobValidates, JobPutsEvidence
<1>14. CASE JobWrites
  BY <1>1, <1>14, JobAdvances, JobWritesTable DEF PTypeOK, JobWrites
<1>15. ASSUME NEW result \in {"SUCCEEDED", "FAILED"}, JobEnds(result)  PROVE PTypeOK'
  BY <1>1, <1>15, JobEndsStep DEF PTypeOK, JobEnds
<1>. QED  BY <1>2, <1>3, <1>4, <1>5, <1>6, <1>7, <1>8, <1>9, <1>10, <1>11, <1>12, <1>13, <1>14, <1>15
          DEF PNext, Machine, JobStep, JobSucceeds, JobFails

-----------------------------------------------------------------------------
(* Executions, whatever is lost *)

LEMMA RequestOf ==
  ASSUME TypeOK, NEW c \in Call
  PROVE  /\ req[c].action \in {"start_build", "validate", "publish", "fail"} =>
              req[c].generation \in Generation
         /\ req[c].action = "publish" => req[c].expected \in Nat
  BY DEF TypeOK, Request

LEMMA PublishedStays ==
  ASSUME TypeOK, TypeOK', TableGrows, NEW g, NEW n \in Nat
  PROVE  /\ Len(published) \in Nat /\ Len(published') \in Nat /\ Len(published) <= Len(published')
         /\ n \in 1..Len(published) /\ published[n] = g =>
              n \in 1..Len(published') /\ published'[n] = g
         /\ PublishedAt(g, Len(published)) => PublishedAt(g, Len(published))'
<1>1. /\ Len(published) \in Nat /\ Len(published') \in Nat /\ Len(published) <= Len(published')
      /\ \A i \in 1..Len(published) : published'[i] = published[i]
  BY DEF TypeOK, TableGrows, ItemsGrow
<1>. QED  BY <1>1 DEF PublishedAt

LEMMA ExecFrame ==
  ASSUME TypeOK, TypeOK', PTypeOK, TableGrows, NEW e \in Execution, ExecInv(e), exec'[e] = exec[e],
         exec[e].call # NoItem => /\ caller'[exec[e].call] = caller[exec[e].call]
                                  /\ pc'[exec[e].call] # "idle"
                                  /\ req'[exec[e].call] = req[exec[e].call]
  PROVE  ExecInv(e)'
<1>1. WaitsForItsCall(e)'
  BY DEF ExecInv, WaitsForItsCall, Payload, VersionExpected
<1>2. exec[e].version \in Nat
  BY DEF PTypeOK, ExecutionRecord
<1>3. CarriesItsData(e)'
  <2>1. Len(published) \in Nat /\ Len(published') \in Nat /\ Len(published) <= Len(published')
    BY <1>2, PublishedStays
  <2>2. exec[e].state = "BuildIcebergGeneration" =>
          /\ exec[e].generation \in Generation
          /\ genItem[exec[e].generation].attempt \in Nat
          /\ genItem'[exec[e].generation].attempt \in Nat
          /\ genItem[exec[e].generation].attempt <= genItem'[exec[e].generation].attempt
    BY DEF ExecInv, CarriesItsData, Working, TableGrows, TypeOK, GenerationItem
  <2>3. exec[e].version <= Len(published')
    BY <1>2, <2>1 DEF ExecInv, CarriesItsData
  <2>4. exec[e].state = "BuildIcebergGeneration" => genItem'[exec[e].generation].attempt > 0
    BY <2>2 DEF ExecInv, CarriesItsData
  <2>. QED  BY <2>3, <2>4 DEF ExecInv, CarriesItsData
<1>4. EndedAsPublished(e)'
  <2>1. exec[e].version + 1 \in Nat
    BY <1>2
  <2>. QED  BY <1>2, <2>1, PublishedStays DEF ExecInv, EndedAsPublished
<1>. QED  BY <1>1, <1>3, <1>4 DEF ExecInv

\* The others are left alone by a step of one execution, and by one of its calls.
LEMMA OtherExecutions ==
  ASSUME PInv, TypeOK', TableGrows, NEW e \in Execution, StepOf(e), NEW f \in Execution, f # e,
         \A c \in Call : caller[c] # f \/ /\ caller'[c] = caller[c]
                                          /\ pc[c] # "idle" => pc'[c] # "idle"
                                          /\ pc[c] # "idle" => req'[c] = req[c]
  PROVE  ExecInv(f)'
<1>1. /\ TypeOK /\ PTypeOK /\ ExecInv(f) /\ exec'[f] = exec[f]
  BY PInvParts DEF StepOf
<1>2. exec[f].call # NoItem => exec[f].call \in Call /\ caller[exec[f].call] = f /\ pc[exec[f].call] # "idle"
  BY <1>1 DEF ExecInv, WaitsForItsCall, PTypeOK, ExecutionRecord
<1>. QED  BY <1>1, <1>2, ExecFrame

\* A step of an execution that does not touch the invocations, entering a state
\* that carries on with its data.
LEMMA EntersInv ==
  ASSUME PInv, TypeOK', TableGrows, NEW e \in Execution, NEW state \in Working \cup {"ExecutionFailed"},
         state # "BuildIcebergGeneration", exec[e].state \in Working \/ state = "ExecutionFailed",
         Enters(e, state), exec[e].state # "NotStarted", exec'[e].glue = "none"
  PROVE  ExecInv(e)'
<1>1. TypeOK /\ PTypeOK /\ ExecInv(e)
  BY PInvParts
<1>2. /\ exec[e].version \in Nat /\ Len(published) \in Nat /\ Len(published') \in Nat
      /\ Len(published) <= Len(published')
  BY <1>1, PublishedStays DEF PTypeOK, ExecutionRecord
<1>3. exec'[e].version <= Len(published')
  BY <1>1, <1>2 DEF Enters, ExecInv, CarriesItsData
<1>4. exec'[e].tries <= MaxRetry
  BY PipelineAssumption DEF Enters
<1>5. WaitsForItsCall(e)' /\ EndedAsPublished(e)'
  BY DEF Enters, WaitsForItsCall, EndedAsPublished, Working
<1>6. CarriesItsData(e)'
  BY <1>1, <1>3, <1>4 DEF Enters, ExecInv, CarriesItsData, Working
<1>. QED  BY <1>5, <1>6 DEF ExecInv

LEMMA LogGrows ==
  ASSUME TypeOK, TypeOK', TableGrows
  PROVE  Len(published) \in Nat /\ Len(published') \in Nat /\ Len(published) <= Len(published')
  BY DEF TypeOK, TableGrows, ItemsGrow

\* The version an execution carries stays one that has been published.
LEMMA VersionStays ==
  ASSUME PInv, TypeOK', TableGrows, NEW e \in Execution
  PROVE  exec[e].version \in Nat /\ exec[e].version <= Len(published')
<1>1. TypeOK /\ PTypeOK /\ ExecInv(e)
  BY PInvParts
<1>2. exec[e].version \in Nat /\ exec[e].version <= Len(published)
  BY <1>1 DEF ExecInv, CarriesItsData, PTypeOK, ExecutionRecord
<1>. QED  BY <1>1, <1>2, LogGrows

LEMMA StartExecutionInv ==
  ASSUME PInv, TypeOK', TableGrows, NEW e \in Execution, StartExecution(e)
  PROVE  ExecInv(e)'
<1>1. PTypeOK /\ ExecInv(e) /\ TypeOK
  BY PInvParts
<1>2. /\ exec'[e].state = "RegisterBatch" /\ exec'[e].call = NoItem /\ exec'[e].tries = 0
      /\ exec'[e].input \in Input /\ exec'[e].glue = exec[e].glue
      /\ exec'[e].version = exec[e].version
  BY <1>1, StartExecutionStep
<1>3. exec[e].glue = "none" /\ exec[e].version <= Len(published) /\ exec[e].version \in Nat
  BY <1>1 DEF StartExecution, ExecInv, CarriesItsData, PTypeOK, ExecutionRecord
<1>4. exec'[e].version <= Len(published') /\ exec'[e].tries <= MaxRetry
  BY <1>1, <1>2, <1>3, PublishedStays, PipelineAssumption
<1>. QED  BY <1>2, <1>3, <1>4 DEF ExecInv, WaitsForItsCall, CarriesItsData, EndedAsPublished, Working

LEMMA InvokeTaskInv ==
  ASSUME PInv, TypeOK', TableGrows, NEW e \in Execution, NEW c \in Call,
         exec[e].state \in LambdaStates,
         Invoke(c, Payload(e)), exec' = [exec EXCEPT ![e].call = c], caller' = [caller EXCEPT ![c] = e]
  PROVE  ExecInv(e)'
<1>1. PTypeOK /\ ExecInv(e) /\ TypeOK
  BY PInvParts
<1>2. /\ exec'[e].call = c
      /\ exec'[e].state = exec[e].state /\ exec'[e].input = exec[e].input
      /\ exec'[e].generation = exec[e].generation /\ exec'[e].version = exec[e].version
      /\ exec'[e].tries = exec[e].tries /\ exec'[e].glue = exec[e].glue
  BY <1>1, InvokeTaskStep
<1>3. Payload(e)' = Payload(e)
  BY <1>2 DEF Payload, VersionExpected
<1>4. req'[c] = Payload(e) /\ caller'[c] = e /\ pc'[c] = FirstStep(Payload(e))
  BY <1>1 DEF Invoke, TypeOK, PTypeOK
<1>5. pc'[c] # "idle"
  BY <1>4, PayloadOf DEF FirstStep, LambdaStates
<1>6. exec[e].version <= Len(published')
  BY VersionStays
<1>7. /\ exec[e].state \notin {"BuildIcebergGeneration", "Succeeded", "ReplaySucceeded"}
  BY DEF LambdaStates
<1>8. WaitsForItsCall(e)'
  BY <1>2, <1>3, <1>4, <1>5 DEF WaitsForItsCall
<1>9. CarriesItsData(e)' /\ EndedAsPublished(e)'
  BY <1>1, <1>2, <1>6, <1>7 DEF ExecInv, CarriesItsData, EndedAsPublished
<1>. QED  BY <1>8, <1>9 DEF ExecInv

LEMMA TaskReturnsInv ==
  ASSUME PInv, TypeOK', TableGrows, NEW e \in Execution, TaskReturns(e)
  PROVE  ExecInv(e)'
<1> DEFINE c == exec[e].call
           state == exec[e].state
<1>1. /\ PTypeOK /\ ExecInv(e) /\ TypeOK /\ IInv /\ \A o \in Call : ReplyInv(o) /\ CallInv(o)
  BY PInvParts DEF IInv
<1>2. /\ c \in Call /\ state \in LambdaStates /\ pc[c] = "done" /\ req[c] = Payload(e)
      /\ UNCHANGED items
  BY <1>1, ReturnedFields DEF TaskReturns, Release, ExecInv, WaitsForItsCall
<1>3. /\ exec'[e].state = After(state, reply[c].code)
      /\ exec'[e].call = NoItem /\ exec'[e].tries = 0
      /\ exec'[e].input = exec[e].input /\ exec'[e].glue = exec[e].glue
      /\ state = "RegisterBatch" => /\ exec'[e].generation = reply[c].generation
                                    /\ exec'[e].version = reply[c].version
      /\ state # "RegisterBatch" =>
           exec'[e].generation = exec[e].generation /\ exec'[e].version = exec[e].version
  BY <1>1, ReturnedFields
<1>4. /\ exec[e].input \in Input /\ exec[e].glue = "none" /\ exec[e].version <= Len(published)
      /\ reply[c].version <= Len(published) /\ UNCHANGED <<genItem, published>>
  BY <1>1, <1>2 DEF ExecInv, CarriesItsData, LambdaStates, ReplyInv, items
<1>5. exec'[e].version <= Len(published') /\ exec'[e].tries <= MaxRetry
  BY <1>3, <1>4, PipelineAssumption
<1>6. exec'[e].state \in Working \cup {"Succeeded", "ReplaySucceeded"} => exec'[e].generation \in Generation
  <2>1. CASE state = "RegisterBatch"
    <3>1. req[c].action = "register"
      BY <1>2, <2>1, PayloadOf
    <3>2. exec'[e].state \in Working \cup {"Succeeded", "ReplaySucceeded"} =>
            reply[c].code \in Registered
      BY <1>2, <1>3, <2>1, AfterOf DEF Working, Registered
    <3>. QED  BY <1>1, <1>2, <1>3, <2>1, <3>1, <3>2 DEF ReplyInv, TypeOK, Reply
  <2>2. CASE state # "RegisterBatch"
    BY <1>1, <1>2, <1>3, <2>2 DEF ExecInv, CarriesItsData, LambdaStates, Working
  <2>. QED  BY <2>1, <2>2
<1>7. exec'[e].state = "BuildIcebergGeneration" => genItem'[exec'[e].generation].attempt > 0
  <2>1. ASSUME exec'[e].state = "BuildIcebergGeneration"
        PROVE  genItem'[exec'[e].generation].attempt > 0
    <3>1. state = "StartGenerationBuild" /\ reply[c].code = "BUILDING"
      BY <1>2, <1>3, <2>1, AfterOf DEF LambdaStates
    <3>2. req[c].action = "start_build" /\ req[c].generation = exec[e].generation
      BY <1>2, <3>1, PayloadOf
    <3>. QED  BY <1>1, <1>2, <1>3, <1>4, <3>1, <3>2 DEF ReplyInv
  <2>. QED  BY <2>1
<1>8. EndedAsPublished(e)'
  <2>1. ASSUME exec'[e].state = "Succeeded"
        PROVE  /\ exec'[e].version + 1 \in 1..Len(published')
               /\ published'[exec'[e].version + 1] = exec'[e].generation
    <3>1. state = "PublishGeneration" /\ reply[c].code = "PUBLISHED"
      BY <1>2, <1>3, <2>1, AfterOf DEF LambdaStates
    <3>2. /\ req[c].action = "publish" /\ req[c].generation = exec[e].generation
          /\ req[c].expected = exec[e].version
      BY <1>2, <3>1, PayloadOf
    <3>. QED  BY <1>1, <1>2, <1>3, <1>4, <3>1, <3>2 DEF ReplyInv
  <2>2. ASSUME exec'[e].state = "ReplaySucceeded"
        PROVE  \E i \in 1..Len(published') : i <= Len(published') /\ published'[i] = exec'[e].generation
    <3>1. state = "RegisterBatch" /\ reply[c].code = "REPLAYED"
      BY <1>2, <1>3, <2>2, AfterOf DEF LambdaStates
    <3>2. PublishedAt(reply[c].generation, reply[c].version)
      BY <1>1, <1>2, <3>1 DEF CallInv, HoldsClassification
    <3>3. exec'[e].generation = reply[c].generation /\ reply[c].version \in Nat /\ Len(published) \in Nat
      BY <1>1, <1>2, <1>3, <3>1 DEF TypeOK, Reply
    <3>4. PICK i \in 1..Len(published) : i <= reply[c].version /\ published[i] = reply[c].generation
      BY <3>2 DEF PublishedAt
    <3>5. published' = published
      BY <1>4
    <3>6. i \in 1..Len(published) /\ i <= Len(published) /\ published[i] = exec'[e].generation
      BY <3>3, <3>4
    <3>. QED  BY <3>5, <3>6
  <2>. QED  BY <2>1, <2>2 DEF EndedAsPublished, PublishedAt
<1>9. exec'[e].state # "NotStarted" => exec'[e].input \in Input
  BY <1>3, <1>4
<1>10. exec'[e].glue = "none"
  BY <1>3, <1>4
<1>. QED  BY <1>3, <1>5, <1>6, <1>7, <1>8, <1>9, <1>10 DEF ExecInv, WaitsForItsCall, CarriesItsData

LEMMA LoseInv ==
  ASSUME PInv, TypeOK', TableGrows, NEW e \in Execution, Lose(e)
  PROVE  ExecInv(e)'
<1>1. /\ PTypeOK /\ ExecInv(e) /\ TypeOK
  BY PInvParts
<1>2. exec[e].state \in LambdaStates
  BY <1>1 DEF Lose, ExecInv, WaitsForItsCall
<1>3. /\ exec'[e].call = NoItem
      /\ exec'[e].input = exec[e].input /\ exec'[e].generation = exec[e].generation
      /\ exec'[e].version = exec[e].version /\ exec'[e].glue = exec[e].glue
      /\ \/ /\ exec[e].tries < MaxRetry
            /\ exec'[e].state = exec[e].state /\ exec'[e].tries = exec[e].tries + 1
         \/ exec'[e].state \in {"MarkFailure", "ExecutionFailed"} /\ exec'[e].tries = 0
  BY <1>1, <1>2, LoseStep
<1>4. exec'[e].version <= Len(published') /\ exec[e].glue = "none" /\ exec[e].input \in Input
  <2>1. exec[e].state \notin {"NotStarted", "BuildIcebergGeneration", "Stopped"}
    BY <1>2 DEF LambdaStates
  <2>. QED  BY <1>1, <1>3, <2>1, VersionStays DEF ExecInv, CarriesItsData
<1>5. exec'[e].tries <= MaxRetry
  BY <1>1, <1>3, PipelineAssumption DEF PTypeOK, ExecutionRecord
<1>6. exec'[e].state \in Working => exec[e].generation \in Generation
  <2>1. exec'[e].state = "MarkFailure" => exec[e].state # "RegisterBatch"
    BY <1>2, <1>1 DEF Lose, Caught, LambdaStates, Enter, PTypeOK, ExecutionRecord
  <2>. QED  BY <1>1, <1>2, <1>3, <2>1 DEF ExecInv, CarriesItsData, Working, LambdaStates
<1>7. exec'[e].state \notin {"BuildIcebergGeneration", "Succeeded", "ReplaySucceeded"}
  BY <1>2, <1>3 DEF LambdaStates
<1>. QED  BY <1>3, <1>4, <1>5, <1>6, <1>7
          DEF ExecInv, WaitsForItsCall, CarriesItsData, EndedAsPublished

LEMMA StartJobInv ==
  ASSUME PInv, TypeOK', TableGrows, NEW e \in Execution, StartJob(e)
  PROVE  ExecInv(e)'
<1>1. /\ PTypeOK /\ ExecInv(e) /\ TypeOK /\ exec[e].state = "BuildIcebergGeneration"
  BY PInvParts DEF StartJob
<1>2. CASE Enters(e, "MarkFailure") /\ exec'[e].glue = "none"
  BY <1>1, <1>2, EntersInv DEF Working
<1>3. CASE exec'[e] = [exec[e] EXCEPT !.glue = "running"]
  <2>1. /\ exec'[e].state = exec[e].state /\ exec'[e].input = exec[e].input
        /\ exec'[e].generation = exec[e].generation /\ exec'[e].version = exec[e].version
        /\ exec'[e].call = exec[e].call /\ exec'[e].tries = exec[e].tries
    BY <1>1, <1>3 DEF PTypeOK, ExecutionRecord
  <2>2. exec[e].call = NoItem
    BY <1>1 DEF ExecInv, WaitsForItsCall, LambdaStates
  <2>3. UNCHANGED <<published, genItem>>
    BY DEF StartJob, vars, items
  <2>. QED  BY <1>1, <2>1, <2>2, <2>3 DEF ExecInv, WaitsForItsCall, CarriesItsData, EndedAsPublished
<1>. QED  BY <1>1, <1>2, <1>3, StartJobStep

LEMMA StopInv ==
  ASSUME PInv, TypeOK', TableGrows, NEW e \in Execution, StopExecution(e)
  PROVE  ExecInv(e)'
<1>1. /\ PTypeOK /\ ExecInv(e) /\ TypeOK /\ exec[e].state # "NotStarted" /\ Enters(e, "Stopped")
  BY PInvParts, StopStep DEF StopExecution
<1>2. exec'[e].version <= Len(published') /\ exec'[e].tries <= MaxRetry
  BY <1>1, VersionStays, PipelineAssumption DEF Enters
<1>. QED  BY <1>1, <1>2 DEF Enters, ExecInv, WaitsForItsCall, CarriesItsData, EndedAsPublished, Working

LEMMA JobEndsInv ==
  ASSUME PInv, TypeOK', TableGrows, NEW result \in {"SUCCEEDED", "FAILED"}, JobEnds(result), job # NoItem,
         NEW e \in Execution
  PROVE  ExecInv(e)'
<1>1. /\ PTypeOK /\ ExecInv(e) /\ TypeOK
  BY PInvParts
<1>2. /\ exec'[e].state = exec[e].state /\ exec'[e].input = exec[e].input
      /\ exec'[e].generation = exec[e].generation /\ exec'[e].version = exec[e].version
      /\ exec'[e].call = exec[e].call /\ exec'[e].tries = exec[e].tries
      /\ exec[e].state # "BuildIcebergGeneration" => exec'[e].glue = exec[e].glue
  BY <1>1, JobEndsStep
<1>3. UNCHANGED <<published, genItem, pc, req, caller>>
  BY DEF JobEnds, vars, items, locals
<1>4. WaitsForItsCall(e)'
  BY <1>1, <1>2, <1>3 DEF ExecInv, WaitsForItsCall, Payload, VersionExpected
<1>. QED  BY <1>1, <1>2, <1>3, <1>4 DEF ExecInv, CarriesItsData, EndedAsPublished, PublishedAt

\* The calls an execution waits for, when no execution moves.
LEMMA CallsMove ==
  ASSUME PInv, TypeOK', TableGrows, UNCHANGED exec,
         \A e \in Execution, c \in Call :
            exec[e].call = c => /\ caller'[c] = caller[c] /\ pc'[c] # "idle" /\ req'[c] = req[c],
         NEW e \in Execution
  PROVE  ExecInv(e)'
<1>1. TypeOK /\ PTypeOK /\ ExecInv(e) /\ (exec[e].call # NoItem => exec[e].call \in Call)
  BY PInvParts DEF PTypeOK, ExecutionRecord
<1>. QED  BY <1>1, ExecFrame

LEMMA ExecutionsInv ==
  ASSUME PInv, PNext, TypeOK', TableGrows
  PROVE  \A e \in Execution : ExecInv(e)'
<1>1. /\ TypeOK /\ PTypeOK /\ \A e \in Execution : ExecInv(e)
  BY PInvParts
<1>2. ASSUME NEW e \in Execution,
             StartExecution(e) \/ StartJob(e) \/ JobRefused(e) \/ BuildReturns(e)
             \/ Lose(e) \/ StopExecution(e),
             NEW f \in Execution
      PROVE  ExecInv(f)'
  <2>1. UNCHANGED <<pc, req, caller>>
    BY <1>2 DEF StartExecution, StartJob, JobRefused, BuildReturns, Lose, StopExecution, vars, locals
  <2>2. Lose(e) => exec[e].state \in LambdaStates
    BY <1>1 DEF Lose, ExecInv, WaitsForItsCall
  <2>3. StepOf(e)
    BY <1>1, <1>2, <2>2, StartExecutionStep, StartJobStep, JobRefusedStep, BuildReturnsStep, LoseStep,
       StopStep DEF Enters
  <2>4. f # e => ExecInv(f)'
    BY <2>1, <2>3, OtherExecutions
  <2>5. JobRefused(e) \/ BuildReturns(e) => ExecInv(e)'
    <3>1. JobRefused(e) \/ BuildReturns(e) => exec[e].state = "BuildIcebergGeneration"
      BY DEF JobRefused, BuildReturns
    <3>. QED  BY <1>1, <3>1, JobRefusedStep, BuildReturnsStep, EntersInv DEF Working
  <2>6. ExecInv(e)'
    BY <1>2, <2>5, StartExecutionInv, StartJobInv, LoseInv, StopInv
  <2>. QED  BY <2>4, <2>6
<1>3. ASSUME NEW e \in Execution, InvokeTask(e), NEW f \in Execution  PROVE ExecInv(f)'
  <2>1. PICK c \in Call : /\ Invoke(c, Payload(e)) /\ exec' = [exec EXCEPT ![e].call = c]
                          /\ caller' = [caller EXCEPT ![c] = e]
    BY <1>3 DEF InvokeTask
  <2>2. ExecInv(e)'
    BY <1>3, <2>1, InvokeTaskInv DEF InvokeTask
  <2>3. pc[c] = "idle" /\ \A o \in Call \ {c} : pc'[o] = pc[o] /\ req'[o] = req[o] /\ caller'[o] = caller[o]
    BY <1>1, <2>1 DEF Invoke, TypeOK, PTypeOK
  <2>4. ASSUME f # e  PROVE ExecInv(f)'
    <3>1. exec'[f] = exec[f]
      BY <1>1, <2>1, <2>4, InvokeTaskStep DEF StepOf
    <3>2. exec[f].call # NoItem => exec[f].call \in Call \ {c} /\ pc[exec[f].call] # "idle"
      BY <1>1, <2>3 DEF ExecInv, WaitsForItsCall, PTypeOK, ExecutionRecord
    <3>. QED  BY <1>1, <2>3, <3>1, <3>2, ExecFrame
  <2>. QED  BY <2>2, <2>4
<1>4. ASSUME NEW e \in Execution, TaskReturns(e), NEW f \in Execution  PROVE ExecInv(f)'
  <2> DEFINE c == exec[e].call
  <2>1. c \in Call /\ StepOf(e) /\ caller[c] = e
    BY <1>1, <1>4, ReturnedFields DEF TaskReturns, ExecInv, WaitsForItsCall
  <2>2. \A o \in Call \ {c} : pc'[o] = pc[o] /\ req'[o] = req[o] /\ caller'[o] = caller[o]
    BY <1>1, <1>4, <2>1 DEF TaskReturns, Release, TypeOK, PTypeOK
  <2>3. ASSUME f # e  PROVE ExecInv(f)'
    <3>1. \A o \in Call : caller[o] = f => o # c
      BY <2>1, <2>3
    <3>2. exec'[f] = exec[f]
      BY <2>1, <2>3 DEF StepOf
    <3>3. exec[f].call # NoItem => exec[f].call \in Call \ {c} /\ pc[exec[f].call] # "idle"
      BY <1>1, <3>1 DEF ExecInv, WaitsForItsCall, PTypeOK, ExecutionRecord
    <3>. QED  BY <1>1, <2>2, <3>2, <3>3, ExecFrame
  <2>. QED  BY <1>4, <2>3, TaskReturnsInv
<1>5. ASSUME NEW c \in Call, FunctionStep(c) \/ FunctionRaises(c), NEW e \in Execution  PROVE ExecInv(e)'
  <2>1. UNCHANGED <<exec, caller, req>>
    BY <1>5, StepFrame DEF FunctionStep, FunctionRaises, Abort, locals, PInv
  <2>2. \A o \in Call : pc[o] # "idle" => pc'[o] # "idle"
    <3>1. CASE FunctionStep(c)
      BY <3>1, StepFrame DEF FunctionStep, SameCall, PInv
    <3>2. CASE FunctionRaises(c)
      BY <1>1, <3>2 DEF FunctionRaises, Abort, Finish, Goto, TypeOK
    <3>. QED  BY <1>5, <3>1, <3>2
  <2>3. \A f \in Execution, o \in Call : exec[f].call = o => pc[o] # "idle"
    BY <1>1, PipelineAssumption DEF ExecInv, WaitsForItsCall
  <2>. QED  BY <2>1, <2>2, <2>3, CallsMove
<1>6. ASSUME NEW c \in Call, AbandonedReturns(c), NEW e \in Execution  PROVE ExecInv(e)'
  <2>1. UNCHANGED exec /\ \A f \in Execution : exec[f].call # c
    BY <1>6 DEF AbandonedReturns
  <2>2. \A o \in Call \ {c} : pc'[o] = pc[o] /\ req'[o] = req[o] /\ caller'[o] = caller[o]
    BY <1>1, <1>6 DEF AbandonedReturns, Release, TypeOK, PTypeOK
  <2>3. \A f \in Execution, o \in Call : exec[f].call = o => pc[o] # "idle"
    BY <1>1, PipelineAssumption DEF ExecInv, WaitsForItsCall
  <2>. QED  BY <2>1, <2>2, <2>3, CallsMove
<1>7. ASSUME JobValidates \/ JobWrites \/ JobPutsEvidence, NEW e \in Execution  PROVE ExecInv(e)'
  <2>1. UNCHANGED <<exec, caller, pc, req>>
    BY <1>7 DEF JobValidates, JobWrites, JobPutsEvidence, vars, locals
  <2>2. \A f \in Execution, o \in Call : exec[f].call = o => pc[o] # "idle"
    BY <1>1, PipelineAssumption DEF ExecInv, WaitsForItsCall
  <2>. QED  BY <2>1, <2>2, CallsMove
<1>8. ASSUME JobSucceeds \/ JobFails, NEW e \in Execution  PROVE ExecInv(e)'
  BY <1>8, JobEndsInv DEF JobSucceeds, JobFails
<1>. QED  BY <1>2, <1>3, <1>4, <1>5, <1>6, <1>7, <1>8 DEF PNext, Machine, JobStep

-----------------------------------------------------------------------------
(* Replies, whatever is lost *)

\* What a step does to an invocation.
LEMMA CallMoves ==
  ASSUME PInv, PNext, NEW c \in Call
  PROVE  \/ SameCall(c)
         \/ HandlerStep(c)
         \/ Abort(c)
         \/ Release(c)
         \/ \E e \in Execution : InvokeTask(e) /\ Invoke(c, Payload(e))
<1>1. TypeOK /\ PTypeOK
  BY PInvParts
<1>2. ASSUME NEW e \in Execution,
             StartExecution(e) \/ StartJob(e) \/ JobRefused(e) \/ BuildReturns(e)
             \/ Lose(e) \/ StopExecution(e)
      PROVE  SameCall(c)
  BY <1>2 DEF StartExecution, StartJob, JobRefused, BuildReturns, Lose, StopExecution, vars, locals, SameCall
<1>3. ASSUME NEW e \in Execution, InvokeTask(e)
      PROVE  SameCall(c) \/ Invoke(c, Payload(e))
  <2>1. PICK d \in Call : Invoke(d, Payload(e))
    BY <1>3 DEF InvokeTask
  <2>2. d # c => SameCall(c)
    BY <1>1, <2>1 DEF Invoke, SameCall, TypeOK
  <2>. QED  BY <2>1, <2>2
<1>4. ASSUME NEW d \in Call, Release(d)
      PROVE  SameCall(c) \/ Release(c)
  <2>1. d # c => SameCall(c)
    BY <1>1, <1>4 DEF Release, SameCall, TypeOK
  <2>. QED  BY <1>4, <2>1
<1>5. ASSUME NEW e \in Execution, TaskReturns(e)
      PROVE  SameCall(c) \/ Release(c)
  BY <1>1, <1>4, <1>5 DEF TaskReturns, PTypeOK, ExecutionRecord
<1>6. ASSUME NEW d \in Call, AbandonedReturns(d)
      PROVE  SameCall(c) \/ Release(c)
  BY <1>4, <1>6 DEF AbandonedReturns
<1>7. ASSUME NEW d \in Call, FunctionStep(d)
      PROVE  SameCall(c) \/ HandlerStep(c)
  BY <1>1, <1>7, StepLeavesOthers DEF FunctionStep
<1>8. ASSUME NEW d \in Call, FunctionRaises(d)
      PROVE  SameCall(c) \/ Abort(c)
  <2>1. d # c => SameCall(c)
    BY <1>1, <1>8 DEF FunctionRaises, Abort, Finish, Goto, SameCall, TypeOK, locals
  <2>. QED  BY <1>8, <2>1 DEF FunctionRaises
<1>9. CASE JobValidates \/ JobWrites \/ JobPutsEvidence \/ JobSucceeds \/ JobFails
  BY <1>9 DEF JobValidates, JobWrites, JobPutsEvidence, JobSucceeds, JobFails, JobEnds, vars, locals, SameCall
<1>. QED  BY <1>2, <1>3, <1>5, <1>6, <1>7, <1>8, <1>9 DEF PNext, Machine, JobStep

LEMMA ReplyFrame ==
  ASSUME PInv, TypeOK', TableGrows, NEW c \in Call, SameCall(c)
  PROVE  ReplyInv(c)'
<1>1. TypeOK /\ ReplyInv(c)
  BY PInvParts
<1>2. /\ Len(published) \in Nat /\ Len(published') \in Nat /\ Len(published) <= Len(published')
      /\ reply[c].version \in Nat
  BY <1>1, LogGrows DEF TypeOK, Reply
<1>3. reply'[c].version <= Len(published')
  BY <1>1, <1>2 DEF SameCall, ReplyInv
<1>4. ASSUME req[c].action = "start_build", pc[c] = "done", reply[c].code = "BUILDING"
      PROVE  genItem'[req[c].generation].attempt > 0
  <2>1. req[c].generation \in Generation
    BY <1>1, <1>4, RequestOf
  <2>2. /\ genItem[req[c].generation].attempt > 0
        /\ genItem[req[c].generation].attempt <= genItem'[req[c].generation].attempt
        /\ genItem[req[c].generation].attempt \in Nat /\ genItem'[req[c].generation].attempt \in Nat
    BY <1>1, <1>4, <2>1 DEF ReplyInv, TableGrows, TypeOK, GenerationItem
  <2>. QED  BY <2>2
<1>5. ASSUME req[c].action = "publish", pc[c] = "done", reply[c].code = "PUBLISHED"
      PROVE  /\ req[c].expected + 1 \in 1..Len(published')
             /\ published'[req[c].expected + 1] = req[c].generation
  <2>1. req[c].expected + 1 \in Nat
    BY <1>1, <1>5, RequestOf
  <2>2. /\ req[c].expected + 1 \in 1..Len(published)
        /\ published[req[c].expected + 1] = req[c].generation
    BY <1>1, <1>5 DEF ReplyInv
  <2>. QED  BY <1>1, <2>1, <2>2, PublishedStays
<1>. QED  BY <1>1, <1>3, <1>4, <1>5 DEF SameCall, ReplyInv

LEMMA ReplyOfStep ==
  ASSUME PInv, TypeOK', TableGrows, NEW c \in Call, HandlerStep(c)
  PROVE  ReplyInv(c)'
<1>1. TypeOK /\ IInv /\ ReplyInv(c) /\ CallInv(c) /\ PointerFollowsLog
  BY PInvParts DEF IInv
<1>2. req'[c] = req[c]
  BY <1>1, StepFrame
<1>3. Len(published) \in Nat /\ Len(published') \in Nat /\ Len(published) <= Len(published')
  BY <1>1, LogGrows
<1>4. CASE AcceptStep(c)
  BY <1>2, <1>3, <1>4, NoItemAssumption DEF AcceptStep, ReplyInv
<1>5. CASE MoveStep(c)
  <2> DEFINE g == req[c].generation
  <2>1. /\ g \in Generation /\ pc'[c] = "done" /\ req[c].action \notin {"register", "publish"}
        /\ reply'[c].version = 0 /\ genItem'[g] = Updated(c, genItem[g])
    BY <1>1, <1>5 DEF MoveStep, TypeOK
  <2>2. genItem[g] \in GenerationItem /\ loaded[c] \in Evidence \cup {NoItem} /\ genItem[g].attempt \in Nat
    BY <1>1, <2>1 DEF TypeOK, GenerationItem
  <2>3. req[c].action = "start_build" => genItem'[g].attempt = genItem[g].attempt + 1
    BY <2>1, <2>2, UpdatedFields
  <2>4. req[c].action = "start_build" => genItem'[g].attempt > 0
    BY <2>2, <2>3
  <2>. QED  BY <1>2, <1>3, <2>1, <2>4 DEF ReplyInv
<1>6. CASE PublishStep(c)
  <2>1. /\ published' = Append(published, req[c].generation) /\ req[c].expected = Len(published)
        /\ pc'[c] = "done" /\ req[c].action = "publish" /\ req[c].generation \in Generation
        /\ reply'[c].version = Len(published) + 1
    BY <1>6 DEF PublishStep
  <2>2. /\ Len(published') = Len(published) + 1
        /\ published'[Len(published) + 1] = req[c].generation
    BY <1>1, <2>1 DEF TypeOK
  <2>3. /\ reply'[c].version <= Len(published')
        /\ req[c].expected + 1 \in 1..Len(published')
        /\ published'[req[c].expected + 1] = req[c].generation
    BY <1>3, <2>1, <2>2
  <2>. QED  BY <1>2, <2>1, <2>3 DEF ReplyInv
<1>7. CASE ReadStep(c)
  <2>1. reply'[c].version <= Len(published')
    <3>1. /\ reply[c].version <= Len(published) /\ pointer.version = Len(published)
          /\ reply'[c].version \in {reply[c].version, pointer.version} /\ published' = published
      BY <1>1, <1>7 DEF ReadStep, ReplyInv, PointerFollowsLog, items
    <3>2. reply[c].version \in Nat
      BY <1>1 DEF TypeOK, Reply
    <3>. QED  BY <1>3, <3>1, <3>2
  <2>2. CASE pc[c] = "get_pointer"
    <3>1. req[c].action = "register"
      BY <1>1, <2>2, RegisterRequest DEF CallInv
    <3>2. reply'[c].generation # NoItem
      BY <1>1, <1>7, <2>2 DEF ReadStep, ReplyInv
    <3>. QED  BY <1>2, <2>1, <3>1, <3>2 DEF ReplyInv
  <2>3. CASE pc[c] # "get_pointer"
    <3>1. pc'[c] = "done" => reply'[c].code \notin Registered \cup {"BUILDING", "PUBLISHED"}
      BY <1>7, <2>3 DEF ReadStep, Outcomes
    <3>2. pc'[c] = "get_pointer" => reply'[c].generation # NoItem
      BY <1>7 DEF ReadStep
    <3>. QED  BY <2>1, <3>1, <3>2 DEF ReplyInv
  <2>. QED  BY <2>2, <2>3
<1>. QED  BY <1>1, <1>4, <1>5, <1>6, <1>7, StepFrame

LEMMA RepliesInv ==
  ASSUME PInv, PNext, TypeOK', TableGrows
  PROVE  \A c \in Call : ReplyInv(c)'
<1> SUFFICES ASSUME NEW c \in Call  PROVE ReplyInv(c)'
  OBVIOUS
<1>1. TypeOK /\ ReplyInv(c) /\ Len(published') \in Nat
  BY PInvParts, LogGrows
<1>2. CASE Abort(c)
  <2>1. /\ pc'[c] = "done" /\ reply'[c].code = "ERROR" /\ reply'[c].version = reply[c].version
        /\ UNCHANGED published
    BY <1>1, <1>2 DEF Abort, Finish, Goto, TypeOK, Reply, items
  <2>. QED  BY <1>1, <2>1 DEF ReplyInv, Registered
<1>3. CASE Release(c)
  <2>1. pc'[c] = "idle" /\ reply'[c].version = 0
    BY <1>1, <1>3 DEF Release, TypeOK, NoReply
  <2>. QED  BY <1>1, <2>1 DEF ReplyInv
<1>4. ASSUME NEW e \in Execution, InvokeTask(e), Invoke(c, Payload(e))  PROVE ReplyInv(c)'
  <2>1. pc'[c] \notin {"done", "get_pointer"} /\ reply'[c].version = 0
    <3>1. pc'[c] = FirstStep(Payload(e)) /\ reply'[c].version = 0
      BY <1>1, <1>4 DEF Invoke, TypeOK, NoReply
    <3>2. FirstStep(Payload(e)) \notin {"done", "get_pointer"}
      BY <1>4, PayloadOf DEF FirstStep, LambdaStates, InvokeTask
    <3>. QED  BY <3>1, <3>2
  <2>. QED  BY <1>1, <2>1 DEF ReplyInv
<1>. QED  BY <1>2, <1>3, <1>4, CallMoves, ReplyFrame, ReplyOfStep

-----------------------------------------------------------------------------
(* One publisher, whatever is lost *)

\* Who has published what: nobody claims a publication anew.
ClaimsKept ==
    /\ \A e \in Execution : exec'[e].state = "Succeeded" =>
          exec[e].state = "Succeeded" /\ exec'[e].generation = exec[e].generation
    /\ \A c \in Call : Published(c)' => Published(c) /\ req'[c].generation = req[c].generation

LEMMA KeptClaims ==
  ASSUME OnePublisher, ClaimsKept
  PROVE  OnePublisher'
  BY DEF OnePublisher, ClaimsKept

\* The steps that leave the executions that succeeded alone.
LEMMA SucceedsByTask ==
  ASSUME PInv, PNext, NEW f \in Execution, exec'[f].state = "Succeeded"
  PROVE  \/ exec[f].state = "Succeeded" /\ exec'[f].generation = exec[f].generation
         \/ TaskReturns(f)
<1>1. PTypeOK /\ TypeOK /\ \A e \in Execution : ExecInv(e)
  BY PInvParts
<1>2. ASSUME NEW e \in Execution,
             StartExecution(e) \/ StartJob(e) \/ JobRefused(e) \/ BuildReturns(e)
             \/ Lose(e) \/ StopExecution(e)
      PROVE  exec[f].state = "Succeeded" /\ exec'[f].generation = exec[f].generation
  <2>1. Lose(e) => exec[e].state \in LambdaStates
    BY <1>1 DEF Lose, ExecInv, WaitsForItsCall
  <2>2. StepOf(e)
    BY <1>1, <1>2, <2>1, StartExecutionStep, StartJobStep, JobRefusedStep, BuildReturnsStep, LoseStep,
       StopStep DEF Enters
  <2>3. exec'[e].state # "Succeeded"
    <3>1. CASE StartExecution(e) \/ JobRefused(e) \/ BuildReturns(e) \/ StopExecution(e)
      BY <1>1, <3>1, StartExecutionStep, JobRefusedStep, BuildReturnsStep, StopStep DEF Enters
    <3>2. CASE Lose(e)
      BY <1>1, <2>1, <3>2, LoseStep DEF LambdaStates
    <3>3. CASE StartJob(e)
      BY <1>1, <3>3, StartJobStep DEF Enters, StartJob, PTypeOK, ExecutionRecord
    <3>. QED  BY <1>2, <3>1, <3>2, <3>3
  <2>. QED  BY <2>2, <2>3 DEF StepOf
<1>3. ASSUME NEW e \in Execution, InvokeTask(e)
      PROVE  exec[f].state = "Succeeded" /\ exec'[f].generation = exec[f].generation
  BY <1>1, <1>3, InvokeTaskStep DEF InvokeTask, StepOf
<1>4. ASSUME NEW e \in Execution, TaskReturns(e), e # f
      PROVE  exec[f].state = "Succeeded" /\ exec'[f].generation = exec[f].generation
  BY <1>1, <1>4, ReturnedFields DEF StepOf
<1>5. ASSUME JobSucceeds \/ JobFails
      PROVE  exec[f].state = "Succeeded" /\ exec'[f].generation = exec[f].generation
  BY <1>1, <1>5, JobEndsStep DEF JobSucceeds, JobFails
<1>6. ASSUME UNCHANGED exec
      PROVE  exec[f].state = "Succeeded" /\ exec'[f].generation = exec[f].generation
  BY <1>6
<1>. QED  BY <1>2, <1>3, <1>4, <1>5, <1>6 DEF PNext, Machine, JobStep, FunctionStep, FunctionRaises,
             AbandonedReturns, JobValidates, JobWrites, JobPutsEvidence

\* An invocation has published only by the transaction.
LEMMA PublishesByTransaction ==
  ASSUME PInv, PNext, NEW c \in Call, Published(c)'
  PROVE  \/ Published(c) /\ req'[c].generation = req[c].generation
         \/ FunctionStep(c) /\ PublishStep(c)
<1>1. TypeOK /\ IInv /\ CallInv(c)
  BY PInvParts DEF IInv
<1>2. CASE SameCall(c)
  BY <1>2 DEF SameCall, Published
<1>3. CASE HandlerStep(c)
  <2>1. FunctionStep(c) \/ SameCall(c)
    <3>1. pc[c] # "idle"
      BY <1>1, <1>3, StepFrame
    <3>2. pc'[c] = "done"
      BY DEF Published
    <3>3. ASSUME NEW d \in Call, FunctionStep(d), d # c  PROVE SameCall(c)
      BY <1>1, <3>3, StepLeavesOthers DEF FunctionStep
    <3>4. reply'[c].code = "PUBLISHED"
      BY DEF Published
    <3>5. ASSUME NEW d \in Call, FunctionRaises(d)  PROVE SameCall(c)
      BY <1>1, <3>4, <3>5 DEF FunctionRaises, Abort, Finish, Goto, SameCall, TypeOK, locals, Reply
    <3>6. ASSUME NEW d \in Call, AbandonedReturns(d)  PROVE SameCall(c)
      BY <1>1, <3>2, <3>6 DEF AbandonedReturns, Release, SameCall, TypeOK
    <3>7. ASSUME NEW e \in Execution, TaskReturns(e)  PROVE SameCall(c)
      <4>1. exec[e].call \in Call
        BY <3>7, PInvParts DEF TaskReturns, PTypeOK, ExecutionRecord
      <4>. QED  BY <1>1, <3>2, <3>7, <4>1 DEF TaskReturns, Release, SameCall, TypeOK
    <3>8. ASSUME NEW e \in Execution, InvokeTask(e)  PROVE SameCall(c)
      <4>1. PICK d \in Call : Invoke(d, Payload(e))
        BY <3>8 DEF InvokeTask
      <4>. QED  BY <1>1, <3>1, <4>1 DEF Invoke, SameCall, TypeOK
    <3>9. ASSUME UNCHANGED <<pc, locals, reply>>  PROVE SameCall(c)
      BY <3>9 DEF SameCall, locals
    <3>. QED  BY <3>3, <3>5, <3>6, <3>7, <3>8, <3>9 DEF PNext, Machine, JobStep, StartExecution, StartJob,
                 JobRefused, BuildReturns, Lose, StopExecution, JobValidates, JobWrites, JobPutsEvidence,
                 JobSucceeds, JobFails, JobEnds, vars
  <2>2. ASSUME FunctionStep(c)
        PROVE  FunctionStep(c) /\ PublishStep(c)
    <3>1. UNCHANGED req /\ pc[c] # "idle" /\ (AcceptStep(c) \/ MoveStep(c) \/ PublishStep(c) \/ ReadStep(c))
      BY <1>1, <1>3, StepFrame
    <3>2. ~AcceptStep(c)
      BY <1>1 DEF AcceptStep, Published
    <3>3. ~MoveStep(c)
      BY <3>1 DEF MoveStep, Published
    <3>4. ~ReadStep(c)
      <4>1. pc[c] = "get_pointer" => req[c].action = "register"
        BY <1>1, RegisterRequest DEF CallInv
      <4>. QED  BY <3>1, <4>1 DEF ReadStep, Published, Outcomes
    <3>. QED  BY <2>2, <3>1, <3>2, <3>3, <3>4
  <2>. QED  BY <1>2, <2>1, <2>2
<1>4. ~Abort(c)
  BY <1>1 DEF Abort, Finish, Published, TypeOK, Reply
<1>5. ~Release(c)
  BY <1>1 DEF Release, Published, TypeOK
<1>6. ASSUME NEW e \in Execution, InvokeTask(e), Invoke(c, Payload(e))  PROVE FALSE
  BY <1>1, <1>6 DEF Invoke, Published, TypeOK, NoReply
<1>. QED  BY <1>2, <1>3, <1>4, <1>5, <1>6, CallMoves

\* A publication that claims a generation is in the log under it.
LEMMA ClaimsAreLogged ==
  ASSUME PInv
  PROVE  /\ \A e \in Execution : exec[e].state = "Succeeded" =>
              genItem[exec[e].generation].status = "PUBLISHED"
         /\ \A c \in Call : Published(c) => genItem[req[c].generation].status = "PUBLISHED"
<1>1. PTypeOK /\ TypeOK /\ PointerFollowsLog
  BY PInvParts DEF IInv
<1>2. ASSUME NEW e \in Execution, exec[e].state = "Succeeded"
      PROVE  genItem[exec[e].generation].status = "PUBLISHED"
  <2>1. ExecInv(e)
    BY PInvParts
  <2>2. /\ exec[e].generation \in Generation /\ exec[e].version + 1 \in 1..Len(published)
        /\ published[exec[e].version + 1] = exec[e].generation
    BY <1>2, <2>1 DEF ExecInv, CarriesItsData, EndedAsPublished
  <2>. QED  BY <1>1, <2>2 DEF PointerFollowsLog
<1>3. ASSUME NEW c \in Call, Published(c)
      PROVE  genItem[req[c].generation].status = "PUBLISHED"
  <2>1. ReplyInv(c)
    BY PInvParts
  <2>2. /\ req[c].generation \in Generation /\ req[c].expected + 1 \in 1..Len(published)
        /\ published[req[c].expected + 1] = req[c].generation
    BY <1>1, <1>3, <2>1, RequestOf DEF ReplyInv, Published
  <2>. QED  BY <1>1, <2>2 DEF PointerFollowsLog
<1>. QED  BY <1>2, <1>3

LEMMA PublisherInv ==
  ASSUME PInv, PNext
  PROVE  OnePublisher'
<1>1. PTypeOK /\ TypeOK /\ OnePublisher /\ IInv /\ \A e \in Execution : ExecInv(e)
  BY PInvParts
<1>2. ASSUME NEW e \in Execution, TaskReturns(e)
      PROVE  OnePublisher'
  <2> DEFINE c == exec[e].call
  <2>1. /\ c \in Call /\ exec[e].state \in LambdaStates /\ req[c] = Payload(e) /\ pc[c] = "done"
        /\ pc'[c] = "idle"
    BY <1>1, <1>2, ReturnedFields DEF TaskReturns, Release, ExecInv, WaitsForItsCall, TypeOK
  <2>2. \A d \in Call : Published(d)' => d # c /\ Published(d) /\ req'[d].generation = req[d].generation
    <3>1. ASSUME NEW d \in Call, FunctionStep(d)  PROVE FALSE
      <4>1. exec' = exec /\ exec'[e].call = NoItem
        BY <1>1, <1>2, <3>1, ReturnedFields DEF FunctionStep
      <4>. QED  BY <1>2, <4>1 DEF TaskReturns
    <3>. QED  BY <2>1, <3>1, PublishesByTransaction DEF Published
  <2>3. \A f \in Execution \ {e} : exec'[f] = exec[f]
    BY <1>1, <1>2, ReturnedFields DEF StepOf
  <2>4. exec'[e].state = "Succeeded" => Published(c) /\ exec'[e].generation = req[c].generation
    <3>1. exec'[e].state = "Succeeded" =>
            exec[e].state = "PublishGeneration" /\ reply[c].code = "PUBLISHED"
      BY <1>1, <1>2, <2>1, ReturnedFields, AfterOf DEF LambdaStates
    <3>. QED  BY <1>1, <1>2, <2>1, <3>1, ReturnedFields, PayloadOf DEF Published
  <2> HIDE DEF c
  <2>. QED  BY <1>1, <2>1, <2>2, <2>3, <2>4 DEF OnePublisher
<1>3. ASSUME NEW c \in Call, FunctionStep(c), PublishStep(c)
      PROVE  OnePublisher'
  <2> DEFINE g == req[c].generation
  <2>1. UNCHANGED <<exec, req>>
    BY <1>1, <1>3, StepFrame DEF FunctionStep
  <2>2. genItem[g].status = "VALIDATED"
    BY <1>3 DEF PublishStep
  <2>3. /\ \A e \in Execution : exec[e].state = "Succeeded" => exec[e].generation # g
        /\ \A d \in Call : Published(d) => req[d].generation # g
    BY <2>2, ClaimsAreLogged
  <2>4. \A d \in Call \ {c} : Published(d)' => Published(d)
    BY <1>1, <1>3, StepFrame DEF FunctionStep, SameCall, Published
  <2>. QED  BY <1>1, <2>1, <2>3, <2>4 DEF OnePublisher
<1>4. CASE ClaimsKept
  BY <1>1, <1>4, KeptClaims
<1>. QED  BY <1>2, <1>3, <1>4, SucceedsByTask, PublishesByTransaction DEF ClaimsKept

LEMMA JobsInv ==
  ASSUME PInv, PNext, TypeOK', TableGrows
  PROVE  JobInv'
<1>1. PTypeOK /\ TypeOK /\ JobInv
  BY PInvParts
<1>2. CASE UNCHANGED job
  <2>1. job # NoItem => /\ job.generation \in Generation /\ job.attempt \in Nat
                        /\ genItem[job.generation].attempt \in Nat /\ genItem'[job.generation].attempt \in Nat
                        /\ genItem[job.generation].attempt <= genItem'[job.generation].attempt
    BY <1>1 DEF PTypeOK, GlueRun, TypeOK, GenerationItem, TableGrows
  <2>. QED  BY <1>1, <1>2, <2>1 DEF JobInv
<1>3. CASE JobValidates \/ JobWrites \/ JobPutsEvidence
  <2>1. /\ job'.generation = job.generation /\ job'.attempt = job.attempt /\ job'.digest = job.digest
        /\ job # NoItem /\ UNCHANGED genItem
    BY <1>1, <1>3, JobAdvances DEF JobValidates, JobWrites, JobPutsEvidence, vars, items
  <2>. QED  BY <1>1, <2>1 DEF JobInv
<1>4. CASE JobSucceeds \/ JobFails
  BY <1>4 DEF JobSucceeds, JobFails, JobEnds, JobInv
<1>5. ASSUME NEW e \in Execution, StartJob(e)  PROVE JobInv'
  <2>1. ExecInv(e)
    BY PInvParts
  <2>2. /\ job'.generation = exec[e].generation /\ job'.attempt = genItem[exec[e].generation].attempt
        /\ job'.digest = exec[e].input.digest /\ exec[e].input \in Input /\ exec[e].generation \in Generation
    BY <1>1, <1>5, <2>1, NewJobType
  <2>3. /\ genItem[exec[e].generation].attempt > 0 /\ genItem[exec[e].generation].attempt \in Nat
        /\ UNCHANGED genItem
    BY <1>1, <1>5, <2>1, <2>2 DEF StartJob, ExecInv, CarriesItsData, TypeOK, GenerationItem, vars, items
  <2>. QED  BY <2>2, <2>3 DEF JobInv
<1>. QED  BY <1>2, <1>3, <1>4, <1>5 DEF PNext, Machine, JobStep, StartExecution, InvokeTask, TaskReturns,
             JobRefused, BuildReturns, Lose, StopExecution, FunctionStep, FunctionRaises, AbandonedReturns

-----------------------------------------------------------------------------
(* The builds are counted, whatever is lost *)

\* The tries of StartGenerationBuild that an execution has made stay made.
TriesKept(e) ==
    exec[e].state \notin {"NotStarted", "RegisterBatch"} =>
       /\ exec'[e].state \notin {"NotStarted", "RegisterBatch"}
       /\ exec'[e].state = "StartGenerationBuild" =>
             /\ exec[e].state = "StartGenerationBuild"
             /\ \/ exec'[e].tries = exec[e].tries + 1
                \/ /\ exec'[e].tries = exec[e].tries
                   /\ exec[e].call # NoItem => exec'[e].call # NoItem

LEMMA TriesStay ==
  ASSUME PInv, PNext, NEW f \in Execution
  PROVE  TriesKept(f)
<1>1. PTypeOK /\ TypeOK /\ \A e \in Execution : ExecInv(e)
  BY PInvParts
<1>2. ASSUME NEW e \in Execution, InvokeTask(e)  PROVE TriesKept(f)
  <2>1. \E c \in Call : c # NoItem /\ exec' = [exec EXCEPT ![e].call = c]
    BY <1>2, PipelineAssumption DEF InvokeTask
  <2>. QED  BY <1>1, <1>2, <2>1, InvokeTaskStep DEF InvokeTask, TriesKept, StepOf
<1>3. ASSUME NEW e \in Execution, TaskReturns(e)  PROVE TriesKept(f)
  <2>1. /\ exec[e].state \in LambdaStates /\ StepOf(e)
        /\ exec'[e].state = After(exec[e].state, reply[exec[e].call].code)
    BY <1>1, <1>3, ReturnedFields
  <2>2. exec[e].state # "RegisterBatch" =>
          exec'[e].state \notin {"NotStarted", "RegisterBatch", "StartGenerationBuild"}
    BY <2>1, AfterOf DEF LambdaStates
  <2>. QED  BY <2>1, <2>2 DEF TriesKept, StepOf
<1>4. ASSUME NEW e \in Execution, Lose(e)  PROVE TriesKept(f)
  <2>1. exec[e].state \in LambdaStates
    BY <1>1, <1>4 DEF Lose, ExecInv, WaitsForItsCall
  <2>. QED  BY <1>1, <1>4, <2>1, LoseStep DEF TriesKept, StepOf
<1>5. ASSUME NEW e \in Execution, JobRefused(e) \/ BuildReturns(e) \/ StopExecution(e)  PROVE TriesKept(f)
  BY <1>1, <1>5, JobRefusedStep, BuildReturnsStep, StopStep DEF TriesKept, StepOf, Enters
<1>6. ASSUME NEW e \in Execution, StartExecution(e)  PROVE TriesKept(f)
  BY <1>1, <1>6, StartExecutionStep DEF StartExecution, TriesKept, StepOf
<1>7. ASSUME NEW e \in Execution, StartJob(e)  PROVE TriesKept(f)
  <2>1. \/ Enters(e, "MarkFailure")
        \/ StepOf(e) /\ exec'[e].state = "BuildIcebergGeneration"
    BY <1>1, <1>7, StartJobStep DEF StartJob, PTypeOK, ExecutionRecord
  <2>. QED  BY <1>1, <2>1 DEF TriesKept, StepOf, Enters
<1>8. CASE JobSucceeds \/ JobFails
  BY <1>1, <1>8, JobEndsStep DEF JobSucceeds, JobFails, TriesKept
<1>9. CASE UNCHANGED exec
  BY <1>9 DEF TriesKept
<1>. QED  BY <1>2, <1>3, <1>4, <1>5, <1>6, <1>7, <1>8, <1>9 DEF PNext, Machine, JobStep, FunctionStep,
             FunctionRaises, AbandonedReturns, JobValidates, JobWrites, JobPutsEvidence

LEMMA TriedGrows ==
  ASSUME PInv, PNext
  PROVE  Tried \subseteq Tried'
<1>1. PTypeOK
  BY PInvParts
<1>2. ASSUME NEW p \in Tried
      PROVE  p \in Tried'
  <2>1. PICK e \in Execution, n \in 0..MaxRetry : p = <<e, n>>
    BY DEF Tried
  <2>2. TriesKept(e)
    BY TriesStay
  <2>3. /\ exec[e].state \notin {"NotStarted", "RegisterBatch"}
        /\ exec[e].state = "StartGenerationBuild" =>
             n < exec[e].tries \/ (n = exec[e].tries /\ exec[e].call # NoItem)
    BY <2>1 DEF Tried
  <2>4. exec[e].tries \in Nat /\ n \in Nat
    BY <1>1, PipelineAssumption DEF PTypeOK, ExecutionRecord
  <2>5. /\ exec'[e].state \notin {"NotStarted", "RegisterBatch"}
        /\ exec'[e].state = "StartGenerationBuild" =>
             n < exec'[e].tries \/ (n = exec'[e].tries /\ exec'[e].call # NoItem)
    BY <2>2, <2>3, <2>4 DEF TriesKept
  <2>. QED  BY <2>1, <2>5 DEF Tried
<1>. QED  BY <1>2

\* The builds in progress: one more by an invocation, one less by its update.
LEMMA BuildingMoves ==
  ASSUME PInv, PNext
  PROVE  \/ \A g \in Generation : /\ Building(g)' \subseteq Building(g)
                                  /\ genItem'[g].attempt = genItem[g].attempt
         \/ \E c \in Call :
              /\ req[c].action = "start_build"
              /\ \A g \in Generation :
                   IF g = req[c].generation
                   THEN /\ c \in Building(g) /\ Building(g)' \subseteq Building(g) \ {c}
                        /\ genItem'[g].attempt = genItem[g].attempt + 1
                   ELSE /\ Building(g)' \subseteq Building(g)
                        /\ genItem'[g].attempt = genItem[g].attempt
         \/ \E e \in Execution, c \in Call :
              /\ exec[e].state = "StartGenerationBuild" /\ exec[e].call = NoItem
              /\ <<e, exec[e].tries>> \in Tried'
              /\ c \notin Building(exec[e].generation)
              /\ \A g \in Generation :
                   /\ Building(g)' \subseteq Building(g) \cup {c}
                   /\ genItem'[g].attempt = genItem[g].attempt
<1>1. PTypeOK /\ TypeOK /\ IInv /\ \A e \in Execution : ExecInv(e)
  BY PInvParts
<1>2. ASSUME NEW c \in Call,
             \A o \in Call \ {c} : SameCall(o), UNCHANGED genItem,
             \/ pc'[c] \in {"idle", "done"}
             \/ pc[c] \notin {"idle", "done"} /\ req'[c] = req[c]
      PROVE  \A g \in Generation : /\ Building(g)' \subseteq Building(g)
                                   /\ genItem'[g].attempt = genItem[g].attempt
  BY <1>2 DEF Building, SameCall
<1>3. ASSUME NEW c \in Call, FunctionStep(c), MoveStep(c), req[c].action = "start_build"
      PROVE  \A g \in Generation :
                IF g = req[c].generation
                THEN /\ c \in Building(g) /\ Building(g)' \subseteq Building(g) \ {c}
                     /\ genItem'[g].attempt = genItem[g].attempt + 1
                ELSE /\ Building(g)' \subseteq Building(g)
                     /\ genItem'[g].attempt = genItem[g].attempt
  <2> DEFINE h == req[c].generation
  <2>1. /\ h \in Generation /\ pc[c] \notin {"idle", "done"} /\ pc'[c] = "done"
        /\ \A o \in Call \ {c} : SameCall(o)
        /\ genItem' = [genItem EXCEPT ![h] = Updated(c, genItem[h])]
    BY <1>1, <1>3, StepFrame DEF FunctionStep, MoveStep
  <2>2. genItem'[h] = Updated(c, genItem[h]) /\ \A g \in Generation \ {h} : genItem'[g] = genItem[g]
    BY <1>1, <2>1 DEF TypeOK
  <2>3. Updated(c, genItem[h]).attempt = genItem[h].attempt + 1
    BY <1>1, <1>3, <2>1, UpdatedFields DEF TypeOK
  <2>. QED  BY <1>3, <2>1, <2>2, <2>3 DEF Building, SameCall
<1>4. ASSUME NEW c \in Call, FunctionStep(c), ~(MoveStep(c) /\ req[c].action = "start_build")
      PROVE  \A g \in Generation : /\ Building(g)' \subseteq Building(g)
                                   /\ genItem'[g].attempt = genItem[g].attempt
  <2>1. /\ UNCHANGED req /\ pc[c] \notin {"idle", "done"} /\ \A o \in Call \ {c} : SameCall(o)
        /\ AcceptStep(c) \/ MoveStep(c) \/ PublishStep(c) \/ ReadStep(c)
    BY <1>1, <1>4, StepFrame DEF FunctionStep
  <2>2. \A g \in Generation : Building(g)' \subseteq Building(g)
    BY <2>1 DEF Building, SameCall
  <2>3. \A g \in Generation : genItem'[g].attempt = genItem[g].attempt
    <3>1. CASE AcceptStep(c)
      <4>1. \A g \in Generation : genItem[g].status = "ABSENT" => genItem[g].attempt = 0
        BY <1>1 DEF IInv, ValidatedOnEvidence
      <4>. QED  BY <1>1, <3>1, <4>1 DEF AcceptStep, TypeOK, GenerationItem
    <3>2. CASE MoveStep(c)
      <4> DEFINE h == req[c].generation
      <4>1. h \in Generation /\ genItem' = [genItem EXCEPT ![h] = Updated(c, genItem[h])]
        BY <3>2 DEF MoveStep
      <4>2. Updated(c, genItem[h]).attempt = genItem[h].attempt
        BY <1>1, <1>4, <3>2, <4>1, UpdatedFields DEF TypeOK
      <4>. QED  BY <1>1, <4>1, <4>2 DEF TypeOK
    <3>3. CASE PublishStep(c)
      BY <1>1, <3>3 DEF PublishStep, TypeOK, GenerationItem
    <3>4. CASE ReadStep(c)
      BY <3>4 DEF ReadStep, items
    <3>. QED  BY <2>1, <3>1, <3>2, <3>3, <3>4
  <2>. QED  BY <2>2, <2>3
<1>5. ASSUME NEW c \in Call, Release(c) \/ Abort(c)
      PROVE  \A g \in Generation : /\ Building(g)' \subseteq Building(g)
                                   /\ genItem'[g].attempt = genItem[g].attempt
  BY <1>1, <1>2, <1>5 DEF Release, Abort, Finish, Goto, TypeOK, SameCall, items, locals
<1>6. ASSUME NEW e \in Execution, NEW c \in Call, exec[e].state \in LambdaStates, exec[e].call = NoItem,
             Invoke(c, Payload(e)), exec' = [exec EXCEPT ![e].call = c]
      PROVE  /\ exec[e].state = "StartGenerationBuild" =>
                  /\ <<e, exec[e].tries>> \in Tried'
                  /\ c \notin Building(exec[e].generation)
             /\ \A g \in Generation :
                  /\ Building(g)' \subseteq
                       Building(g) \cup IF exec[e].state = "StartGenerationBuild" THEN {c} ELSE {}
                  /\ genItem'[g].attempt = genItem[g].attempt
  <2>1. /\ \A o \in Call \ {c} : SameCall(o)
        /\ pc[c] = "idle" /\ req'[c] = Payload(e) /\ UNCHANGED genItem
    BY <1>1, <1>6 DEF Invoke, SameCall, TypeOK, items
  <2>2. exec[e].state # "StartGenerationBuild" => req'[c].action # "start_build"
    BY <1>6, <2>1, PayloadOf DEF LambdaStates
  <2>3. exec[e].state = "StartGenerationBuild" => <<e, exec[e].tries>> \in Tried'
    <3>1. exec[e].tries \in 0..MaxRetry
      BY <1>1, PipelineAssumption DEF ExecInv, CarriesItsData, PTypeOK, ExecutionRecord
    <3>2. exec'[e].state = exec[e].state /\ exec'[e].tries = exec[e].tries /\ exec'[e].call # NoItem
      BY <1>1, <1>6, InvokeTaskStep, PipelineAssumption
    <3>. QED  BY <3>1, <3>2 DEF Tried
  <2>. QED  BY <2>1, <2>2, <2>3 DEF Building, SameCall
<1>7. ASSUME NEW e \in Execution, TaskReturns(e)
      PROVE  \A g \in Generation : /\ Building(g)' \subseteq Building(g)
                                   /\ genItem'[g].attempt = genItem[g].attempt
  BY <1>1, <1>5, <1>7, ReturnedFields DEF TaskReturns
<1>8. ASSUME UNCHANGED <<pc, req, genItem>>
      PROVE  \A g \in Generation : /\ Building(g)' \subseteq Building(g)
                                   /\ genItem'[g].attempt = genItem[g].attempt
  BY <1>8 DEF Building
<1>9. ASSUME NEW e \in Execution, InvokeTask(e)
      PROVE  \/ \A g \in Generation : /\ Building(g)' \subseteq Building(g)
                                      /\ genItem'[g].attempt = genItem[g].attempt
             \/ \E c \in Call :
                  /\ exec[e].state = "StartGenerationBuild" /\ exec[e].call = NoItem
                  /\ <<e, exec[e].tries>> \in Tried'
                  /\ c \notin Building(exec[e].generation)
                  /\ \A g \in Generation :
                       /\ Building(g)' \subseteq Building(g) \cup {c}
                       /\ genItem'[g].attempt = genItem[g].attempt
  BY <1>6, <1>9 DEF InvokeTask
<1>10. CASE \E c \in Call : FunctionStep(c) /\ MoveStep(c) /\ req[c].action = "start_build"
  BY <1>3, <1>10
<1>11. CASE \E c \in Call : FunctionStep(c) /\ ~(MoveStep(c) /\ req[c].action = "start_build")
  BY <1>4, <1>11
<1>12. CASE \E c \in Call : FunctionRaises(c) \/ AbandonedReturns(c)
  BY <1>5, <1>12 DEF FunctionRaises, AbandonedReturns
<1>13. CASE \E e \in Execution : InvokeTask(e)
  BY <1>9, <1>13
<1>14. CASE \E e \in Execution : TaskReturns(e)
  BY <1>7, <1>14
<1>15. CASE UNCHANGED <<pc, req, genItem>>
  BY <1>8, <1>15
<1>. QED  BY <1>10, <1>11, <1>12, <1>13, <1>14, <1>15 DEF PNext, Machine, JobStep, StartExecution, StartJob,
             JobRefused, BuildReturns, Lose, StopExecution, JobValidates, JobWrites, JobPutsEvidence,
             JobSucceeds, JobFails, JobEnds, vars, items, locals

LEMMA CountsInv ==
  ASSUME PInv, PNext, PTypeOK'
  PROVE  CountInv'
<1> SUFFICES ASSUME NEW g \in Generation
             PROVE  genItem'[g].attempt + Cardinality(Building(g)') <= Cardinality(Tried')
  BY DEF CountInv
<1> DEFINE n == Cardinality(Building(g))
           m == Cardinality(Building(g)')
           t == Cardinality(Tried)
           u == Cardinality(Tried')
<1>1. PTypeOK /\ TypeOK /\ \A e \in Execution : ExecInv(e)
  BY PInvParts
<1>2. IsFiniteSet(Tried) /\ t \in Nat /\ IsFiniteSet(Tried') /\ u \in Nat
  <2>1. Tried' \subseteq Execution \X (0..MaxRetry)
    BY DEF Tried
  <2>. QED  BY <1>1, <2>1, TriedFinite, ClientsAssumption, FS_Subset, FS_CardinalityType
<1>3. /\ IsFiniteSet(Building(g)) /\ n \in Nat /\ IsFiniteSet(Building(g)') /\ m \in Nat
      /\ Building(g)' \subseteq Call
  <2>1. Building(g)' \subseteq Call
    BY DEF Building
  <2>. QED  BY <2>1, BuildingFinite, ClientsAssumption, FS_Subset, FS_CardinalityType
<1>4. t <= u
  BY <1>2, TriedGrows, FS_Subset
<1>5. genItem[g].attempt \in Nat /\ genItem[g].attempt + n <= t
  BY <1>1, PInvParts DEF CountInv, TypeOK, GenerationItem
<1>6. Building(g)' \subseteq Building(g) => m <= n
  BY <1>3, FS_Subset
<1>7. CASE \A h \in Generation : /\ Building(h)' \subseteq Building(h)
                                 /\ genItem'[h].attempt = genItem[h].attempt
  <2>1. m <= n /\ genItem'[g].attempt = genItem[g].attempt
    BY <1>6, <1>7
  <2> HIDE DEF n, m, t, u
  <2>2. genItem[g].attempt + m <= u
    BY <1>2, <1>3, <1>4, <1>5, <2>1
  <2>. QED  BY <2>1, <2>2 DEF m, u
<1>8. ASSUME NEW c \in Call,
             req[c].action = "start_build",
             \A h \in Generation :
                IF h = req[c].generation
                THEN /\ c \in Building(h) /\ Building(h)' \subseteq Building(h) \ {c}
                     /\ genItem'[h].attempt = genItem[h].attempt + 1
                ELSE /\ Building(h)' \subseteq Building(h)
                     /\ genItem'[h].attempt = genItem[h].attempt
      PROVE  genItem'[g].attempt + m <= u
  <2>1. CASE g = req[c].generation
    <3>1. m + 1 <= n
      <4>1. c \in Building(g) /\ Building(g)' \subseteq Building(g) \ {c}
        BY <1>8, <2>1
      <4>2. IsFiniteSet(Building(g) \ {c}) /\ Cardinality(Building(g) \ {c}) = n - 1
        BY <1>3, <4>1, FS_RemoveElement
      <4>3. m <= Cardinality(Building(g) \ {c})
        BY <4>1, <4>2, FS_Subset
      <4> HIDE DEF n, m
      <4>. QED  BY <1>3, <4>2, <4>3
    <3>2. genItem'[g].attempt = genItem[g].attempt + 1
      BY <1>8, <2>1
    <3> HIDE DEF n, m, t, u
    <3>3. (genItem[g].attempt + 1) + m <= u
      BY <1>2, <1>3, <1>4, <1>5, <3>1
    <3>. QED  BY <3>2, <3>3
  <2>2. CASE g # req[c].generation
    <3>1. m <= n /\ genItem'[g].attempt = genItem[g].attempt
      BY <1>6, <1>8, <2>2
    <3> HIDE DEF n, m, t, u
    <3>2. genItem[g].attempt + m <= u
      BY <1>2, <1>3, <1>4, <1>5, <3>1
    <3>. QED  BY <3>1, <3>2
  <2>. QED  BY <2>1, <2>2
<1>9. ASSUME NEW e \in Execution, NEW c \in Call,
             exec[e].state = "StartGenerationBuild", exec[e].call = NoItem,
             <<e, exec[e].tries>> \in Tried',
             \A h \in Generation :
                /\ Building(h)' \subseteq Building(h) \cup {c}
                /\ genItem'[h].attempt = genItem[h].attempt
      PROVE  genItem'[g].attempt + m <= u
  <2>1. t + 1 <= u
    <3>1. Cardinality(Tried) + 1 = Cardinality(Tried \cup {<<e, exec[e].tries>>})
      BY <1>1, <1>9, NewTry DEF ExecInv, CarriesItsData
    <3>2. Tried \cup {<<e, exec[e].tries>>} \subseteq Tried'
      BY <1>9, TriedGrows
    <3>. QED  BY <1>2, <3>1, <3>2, FS_Subset
  <2>2. m <= n + 1
    <3>1. IsFiniteSet(Building(g) \cup {c}) /\ Cardinality(Building(g) \cup {c}) \in {n, n + 1}
      BY <1>3, FS_AddElement
    <3>2. m <= Cardinality(Building(g) \cup {c})
      BY <1>9, <3>1, FS_Subset
    <3> HIDE DEF n, m
    <3>. QED  BY <1>3, <3>1, <3>2
  <2>3. genItem'[g].attempt = genItem[g].attempt
    BY <1>9
  <2> HIDE DEF n, m, t, u
  <2>4. genItem[g].attempt + m <= u
    BY <1>2, <1>3, <1>5, <2>1, <2>2
  <2>. QED  BY <2>3, <2>4
<1>. QED  BY <1>7, <1>8, <1>9, BuildingMoves

\* What holds whatever is lost is preserved.
LEMMA DriveStep ==
  ASSUME PInv, PNext
  PROVE  IInv' /\ PTypeOK' /\ DriveInv'
<1>1. IInv' /\ TypeOK' /\ TableGrows /\ PTypeOK'
  BY ControlPlanePart, PipelineTypes
<1>. QED  BY <1>1, ExecutionsInv, RepliesInv, PublisherInv, JobsInv, CountsInv DEF DriveInv

-----------------------------------------------------------------------------
(* One at a time, as long as no reply is lost *)

\* Nobody gets a turn at the generation, and those who have one are left alone.
SameExecTurns(g) ==
    \A e \in Execution : ExecTurn(e, g)' =>
       /\ ExecTurn(e, g)
       /\ exec'[e].state = exec[e].state /\ exec'[e].glue = exec[e].glue

SameCallTurns(g) ==
    \A c \in Call : CallTurn(c, g)' => CallTurn(c, g) /\ SameCall(c)

SameTurns(g) == SameExecTurns(g) /\ SameCallTurns(g)

SameGeneration(g) == genItem'[g] = genItem[g] /\ evidence'[g] = evidence[g] /\ rows'[g] = rows[g]

SameJob(g) == (JobOn(g)' => JobOn(g)) /\ (JobOn(g) => job' = job)

LEMMA TurnFrame ==
  ASSUME NEW g, TurnInv(g), SameTurns(g), SameGeneration(g), SameJob(g)
  PROVE  TurnInv(g)'
<1>1. OneTurn(g)'
  BY DEF TurnInv, OneTurn, SameTurns, SameExecTurns, SameCallTurns
<1>2. Built(g) => Built(g)'
  BY DEF Built, SameGeneration
<1>3. JobOn(g)' <=> JobOn(g)
  BY DEF JobOn, SameJob
<1>4. ASSUME NEW e \in Execution  PROVE ExecTurnInv(e, g)'
  BY <1>2, <1>3 DEF TurnInv, ExecTurnInv, SameTurns, SameExecTurns, SameGeneration, SameJob
<1>5. ASSUME NEW c \in Call  PROVE CallTurnInv(c, g)'
  <2>1. CallTurn(c, g)' => CallTurn(c, g) /\ SameCall(c)
    BY DEF SameTurns, SameCallTurns
  <2>. QED  BY <1>2, <2>1 DEF TurnInv, CallTurnInv, SameGeneration, SameCall
<1>6. JobTurnInv(g)'
  <2>1. JobOn(g) => job' = job
    BY DEF SameJob
  <2>2. \A c \in Call : CallTurn(c, g)' => CallTurn(c, g) /\ req'[c] = req[c]
    BY DEF SameTurns, SameCallTurns, SameCall
  <2>. QED  BY <1>3, <2>1, <2>2 DEF TurnInv, JobTurnInv, FailsOrBuilds, SameTurns, SameExecTurns, SameGeneration
<1>7. CompleteInv(g)'
  BY DEF TurnInv, CompleteInv, SameGeneration
<1>. QED  BY <1>1, <1>4, <1>5, <1>6, <1>7 DEF TurnInv

\* Who has the turn has it alone.
LEMMA CallAlone ==
  ASSUME NEW g, TurnInv(g), NEW c \in Call, CallTurn(c, g)
  PROVE  /\ \A e \in Execution : ~ExecTurn(e, g)
         /\ \A d \in Call : CallTurn(d, g) => d = c
         /\ JobOn(g) => req[c].action \in {"start_build", "fail"}
         /\ CallTurnInv(c, g)
  BY DEF TurnInv, OneTurn, JobTurnInv

LEMMA ExecAlone ==
  ASSUME NEW g, TurnInv(g), NEW e \in Execution, ExecTurn(e, g)
  PROVE  /\ \A f \in Execution : ExecTurn(f, g) => f = e
         /\ \A c \in Call : ~CallTurn(c, g)
         /\ JobOn(g) => FailsOrBuilds(e)
         /\ ExecTurnInv(e, g)
  BY DEF TurnInv, OneTurn, JobTurnInv

\* Without a build there is no turn.
LEMMA NoTurn ==
  ASSUME NEW g, TurnInv(g), genItem[g].status \notin {"BUILDING", "VALIDATED", "PUBLISHED"}
  PROVE  /\ \A e \in Execution : ~ExecTurn(e, g)
         /\ \A c \in Call : ~CallTurn(c, g)
         /\ JobOn(g) => genItem[g].status = "FAILED"
<1>1. ASSUME NEW e \in Execution, ExecTurn(e, g)  PROVE FALSE
  BY <1>1 DEF TurnInv, ExecTurnInv, ExecTurn
<1>2. ASSUME NEW c \in Call, CallTurn(c, g)  PROVE FALSE
  BY <1>2 DEF TurnInv, CallTurnInv, CallTurn
<1>3. JobOn(g) => genItem[g].status = "FAILED"
  BY DEF TurnInv, JobTurnInv
<1>. QED  BY <1>1, <1>2, <1>3

LEMMA CallTakesTurn ==
  ASSUME NEW g, NEW c \in Call,
         \A e \in Execution : ~ExecTurn(e, g)',
         \A d \in Call : CallTurn(d, g)' => d = c,
         CallTurnInv(c, g)', JobTurnInv(g)', CompleteInv(g)'
  PROVE  TurnInv(g)'
<1>1. OneTurn(g)'
  BY DEF OneTurn
<1>2. \A e \in Execution : ExecTurnInv(e, g)'
  BY DEF ExecTurnInv
<1>3. \A d \in Call : CallTurnInv(d, g)'
  <2>1. ASSUME NEW d \in Call, d # c  PROVE CallTurnInv(d, g)'
    BY <2>1 DEF CallTurnInv
  <2>. QED  BY <2>1
<1>. QED  BY <1>1, <1>2, <1>3 DEF TurnInv

LEMMA ExecTakesTurn ==
  ASSUME NEW g, NEW e \in Execution,
         \A f \in Execution : ExecTurn(f, g)' => f = e,
         \A c \in Call : ~CallTurn(c, g)',
         ExecTurnInv(e, g)', JobTurnInv(g)', CompleteInv(g)'
  PROVE  TurnInv(g)'
<1>1. OneTurn(g)'
  BY DEF OneTurn
<1>2. \A f \in Execution : ExecTurnInv(f, g)'
  <2>1. ASSUME NEW f \in Execution, f # e  PROVE ExecTurnInv(f, g)'
    BY <2>1 DEF ExecTurnInv
  <2>. QED  BY <2>1
<1>3. \A c \in Call : CallTurnInv(c, g)'
  BY DEF CallTurnInv
<1>. QED  BY <1>1, <1>2, <1>3 DEF TurnInv

\* Steps of those who have no turn after it.
LEMMA ExecTurnsFrame ==
  ASSUME NEW g, NEW e \in Execution, StepOf(e), ~ExecTurn(e, g)'
  PROVE  SameExecTurns(g)
<1>1. ASSUME NEW f \in Execution, ExecTurn(f, g)'
      PROVE  /\ ExecTurn(f, g)
             /\ exec'[f].state = exec[f].state /\ exec'[f].glue = exec[f].glue
  <2>1. f # e
    BY <1>1
  <2>. QED  BY <1>1, <2>1 DEF StepOf, ExecTurn
<1>. QED  BY <1>1 DEF SameExecTurns

LEMMA CallTurnsFrame ==
  ASSUME NEW g, NEW c \in Call, \A o \in Call \ {c} : SameCall(o), ~CallTurn(c, g)'
  PROVE  SameCallTurns(g)
<1>1. ASSUME NEW d \in Call, CallTurn(d, g)'
      PROVE  CallTurn(d, g) /\ SameCall(d)
  <2>1. d # c
    BY <1>1
  <2>2. SameCall(d)
    BY <2>1
  <2>. QED  BY <1>1, <2>2 DEF SameCall, CallTurn
<1>. QED  BY <1>1 DEF SameCallTurns

LEMMA QuietTurns ==
  ASSUME NEW g
  PROVE  /\ UNCHANGED exec => SameExecTurns(g)
         /\ UNCHANGED <<pc, locals, reply>> => SameCallTurns(g)
         /\ UNCHANGED <<items, evidence, rows>> => SameGeneration(g)
         /\ UNCHANGED job => SameJob(g)
<1>1. ASSUME UNCHANGED exec  PROVE SameExecTurns(g)
  BY <1>1 DEF SameExecTurns, ExecTurn
<1>2. ASSUME UNCHANGED <<pc, locals, reply>>  PROVE SameCallTurns(g)
  BY <1>2 DEF SameCallTurns, CallTurn, SameCall, locals
<1>3. ASSUME UNCHANGED <<items, evidence, rows>>  PROVE SameGeneration(g)
  BY <1>3 DEF SameGeneration, items
<1>4. ASSUME UNCHANGED job  PROVE SameJob(g)
  BY <1>4 DEF SameJob, JobOn
<1>. QED  BY <1>1, <1>2, <1>3, <1>4

-----------------------------------------------------------------------------
(* The turns of executions *)

\* Steps between two states without a turn.
LEMMA QuietExecutionTurn ==
  ASSUME PInv, NEW g \in Generation, TurnInv(g), NEW e \in Execution,
         StartExecution(e) \/ StopExecution(e)
  PROVE  TurnInv(g)'
<1>1. PTypeOK
  BY PInvParts
<1>2. StepOf(e) /\ exec'[e].state \in {"RegisterBatch", "Stopped"}
  BY <1>1, StartExecutionStep, StopStep DEF Enters
<1>3. SameExecTurns(g)
  <2>1. ~ExecTurn(e, g)'
    BY <1>2 DEF ExecTurn
  <2>. QED  BY <1>2, <2>1, ExecTurnsFrame
<1>4. UNCHANGED <<items, evidence, pc, locals, reply, job, rows>>
  BY DEF StartExecution, StopExecution, vars
<1>. QED  BY <1>3, <1>4, QuietTurns, TurnFrame DEF SameTurns

\* An invocation takes over the turn of its execution.
LEMMA InvokeTaskTurn ==
  ASSUME PInv, NEW g \in Generation, TurnInv(g), NEW e \in Execution, InvokeTask(e)
  PROVE  TurnInv(g)'
<1>1. PTypeOK /\ TypeOK /\ ExecInv(e)
  BY PInvParts
<1>2. PICK c \in Call : Invoke(c, Payload(e)) /\ exec' = [exec EXCEPT ![e].call = c]
  BY DEF InvokeTask
<1>3. /\ exec[e].state \in LambdaStates /\ exec[e].call = NoItem /\ exec[e].glue = "none"
      /\ UNCHANGED <<items, evidence, job, rows>>
  BY <1>1, <1>2 DEF InvokeTask, Invoke, ExecInv, CarriesItsData, LambdaStates
<1>4. /\ StepOf(e) /\ exec'[e].state = exec[e].state /\ exec'[e].call = c /\ c # NoItem
      /\ exec'[e].generation = exec[e].generation
  BY <1>1, <1>2, InvokeTaskStep, PipelineAssumption
<1>5. /\ req'[c] = Payload(e) /\ pc'[c] = FirstStep(Payload(e))
      /\ \A o \in Call \ {c} : SameCall(o)
  BY <1>1, <1>2 DEF Invoke, TypeOK, SameCall
<1>6. SameExecTurns(g)
  <2>1. ~ExecTurn(e, g)'
    BY <1>3, <1>4 DEF ExecTurn, LambdaStates
  <2>. QED  BY <1>4, <2>1, ExecTurnsFrame
<1>7. CASE ExecTurn(e, g)
  <2>1. /\ \A f \in Execution : ExecTurn(f, g) => f = e
        /\ \A d \in Call : ~CallTurn(d, g)
        /\ JobOn(g) => FailsOrBuilds(e)
        /\ ExecTurnInv(e, g)
    BY <1>7, ExecAlone
  <2>2. /\ exec[e].generation = g
        /\ exec[e].state \in {"ValidateGeneration", "PublishGeneration", "MarkFailure"}
    BY <1>3, <1>7 DEF ExecTurn, LambdaStates
  <2>3. \A f \in Execution : ~ExecTurn(f, g)'
    <3>1. ASSUME NEW f \in Execution, ExecTurn(f, g)'  PROVE FALSE
      <4>1. f = e
        BY <1>6, <2>1, <3>1 DEF SameExecTurns
      <4>. QED  BY <1>3, <1>4, <3>1, <4>1 DEF ExecTurn, LambdaStates
    <3>. QED  BY <3>1
  <2>4. \A d \in Call : CallTurn(d, g)' => d = c
    <3>1. ASSUME NEW d \in Call, d # c, CallTurn(d, g)'  PROVE FALSE
      <4>1. SameCall(d)
        BY <1>5, <3>1
      <4>2. CallTurn(d, g)
        BY <3>1, <4>1 DEF CallTurn, SameCall
      <4>. QED  BY <2>1, <4>2
    <3>. QED  BY <3>1
  <2>5. CompleteInv(g)' /\ (Built(g) => Built(g)')
    BY <1>3 DEF TurnInv, CompleteInv, Built, items
  <2>6. CallTurnInv(c, g)'
    <3>1. genItem' = genItem
      BY <1>3 DEF items
    <3>2. CASE exec[e].state = "ValidateGeneration"
      <4>1. req'[c].action = "validate" /\ pc'[c] = "load"
        BY <1>5, <3>2, PayloadOf DEF FirstStep
      <4>2. genItem[g].status = "BUILDING" /\ Built(g)
        BY <1>7, <2>1, <3>2 DEF ExecTurnInv
      <4>. QED  BY <2>5, <3>1, <4>1, <4>2 DEF CallTurnInv
    <3>3. CASE exec[e].state = "PublishGeneration"
      <4>1. req'[c].action = "publish" /\ pc'[c] = "get_validated"
        BY <1>5, <3>3, PayloadOf DEF FirstStep
      <4>2. genItem[g].status = "VALIDATED"
        BY <1>7, <2>1, <3>3 DEF ExecTurnInv
      <4>. QED  BY <3>1, <4>1, <4>2 DEF CallTurnInv
    <3>4. CASE exec[e].state = "MarkFailure"
      <4>1. req'[c].action = "fail" /\ pc'[c] = "get_failing"
        BY <1>5, <3>4, PayloadOf DEF FirstStep
      <4>2. genItem[g].status \in {"BUILDING", "VALIDATED"}
        BY <1>7, <2>1, <3>4 DEF ExecTurnInv
      <4>. QED  BY <3>1, <4>1, <4>2 DEF CallTurnInv
    <3>. QED  BY <2>2, <3>2, <3>3, <3>4
  <2>7. JobTurnInv(g)'
    <3>1. ASSUME JobOn(g)'
          PROVE  JobOn(g) /\ genItem' = genItem /\ job' = job /\ rows' = rows /\ evidence' = evidence
      BY <1>3, <3>1 DEF JobOn, items
    <3>2. ASSUME JobOn(g)'  PROVE req'[c].action = "fail"
      BY <1>3, <1>5, <2>1, <2>2, <3>1, <3>2, PayloadOf DEF FailsOrBuilds
    <3>3. EvidenceStep' = EvidenceStep
      BY DEF EvidenceStep
    <3>. QED  BY <2>3, <2>4, <3>1, <3>2, <3>3 DEF TurnInv, JobTurnInv
  <2>. QED  BY <2>3, <2>4, <2>5, <2>6, <2>7, CallTakesTurn
<1>8. CASE ~ExecTurn(e, g)
  <2>1. ~CallTurn(c, g)'
    <3>1. CASE exec[e].state = "RegisterBatch"
      BY <1>5, <3>1, PayloadOf DEF CallTurn
    <3>2. CASE exec[e].state = "StartGenerationBuild"
      BY <1>5, <3>2, PayloadOf DEF CallTurn, FirstStep
    <3>3. CASE exec[e].state \notin {"RegisterBatch", "StartGenerationBuild"}
      <4>1. /\ exec[e].state \in {"ValidateGeneration", "PublishGeneration", "MarkFailure"}
            /\ exec[e].generation # g
        BY <1>3, <1>8, <3>3 DEF ExecTurn, LambdaStates
      <4>2. req'[c].generation = exec[e].generation
        BY <1>5, <4>1, PayloadOf
      <4>. QED  BY <4>1, <4>2 DEF CallTurn
    <3>. QED  BY <3>1, <3>2, <3>3
  <2>. QED  BY <1>3, <1>5, <1>6, <2>1, CallTurnsFrame, QuietTurns, TurnFrame DEF SameTurns
<1>. QED  BY <1>7, <1>8

\* The execution takes it back with the reply.
LEMMA TaskReturnsTurn ==
  ASSUME PInv, NEW g \in Generation, TurnInv(g), NEW e \in Execution, TaskReturns(e)
  PROVE  TurnInv(g)'
<1> DEFINE c == exec[e].call
           code == reply[c].code
<1>1. PTypeOK /\ TypeOK /\ ExecInv(e)
  BY PInvParts
<1>2. /\ c \in Call /\ exec[e].state \in LambdaStates /\ StepOf(e)
      /\ exec'[e].state = After(exec[e].state, code)
      /\ exec'[e].call = NoItem /\ exec'[e].glue = "none"
      /\ exec[e].state # "RegisterBatch" => exec'[e].generation = exec[e].generation
  BY <1>1, ReturnedFields DEF ExecInv, CarriesItsData, LambdaStates
<1>3. /\ req[c] = Payload(e) /\ pc[c] = "done" /\ pc'[c] = "idle"
      /\ \A o \in Call \ {c} : SameCall(o)
      /\ UNCHANGED <<items, evidence, job, rows>>
  BY <1>1, <1>2 DEF TaskReturns, Release, ExecInv, WaitsForItsCall, TypeOK, SameCall
<1>4. ASSUME NEW d \in Call, CallTurn(d, g)'  PROVE d # c /\ SameCall(d) /\ CallTurn(d, g)
  <2>1. d # c
    BY <1>3, <1>4 DEF CallTurn
  <2>2. SameCall(d)
    BY <1>3, <2>1
  <2>. QED  BY <1>4, <2>1, <2>2 DEF CallTurn, SameCall
<1>5. CASE ExecTurn(e, g)'
  <2>1. /\ exec'[e].state \in {"BuildIcebergGeneration", "PublishGeneration", "MarkFailure"}
        /\ exec[e].state # "RegisterBatch" /\ exec[e].generation = g
    BY <1>2, <1>5, AfterOf DEF ExecTurn, LambdaStates
  <2>2. /\ \/ exec[e].state = "StartGenerationBuild" /\ code = "BUILDING"
           \/ exec[e].state \in {"ValidateGeneration", "PublishGeneration"}
    BY <1>2, <2>1, AfterOf DEF LambdaStates
  <2>3. /\ req[c].generation = g
        /\ exec[e].state = "StartGenerationBuild" => req[c].action = "start_build"
        /\ exec[e].state = "ValidateGeneration" => req[c].action = "validate"
        /\ exec[e].state = "PublishGeneration" => req[c].action = "publish"
    BY <1>3, <2>1, <2>2, PayloadOf
  <2>4. CallTurn(c, g)
    BY <1>3, <2>2, <2>3 DEF CallTurn
  <2>5. /\ \A f \in Execution : ~ExecTurn(f, g)
        /\ \A d \in Call : CallTurn(d, g) => d = c
        /\ JobOn(g) => req[c].action \in {"start_build", "fail"}
        /\ CallTurnInv(c, g)
    BY <1>2, <2>4, CallAlone
  <2>6. \A f \in Execution : ExecTurn(f, g)' => f = e
    BY <1>2, <2>5 DEF StepOf, ExecTurn
  <2>7. \A d \in Call : ~CallTurn(d, g)'
    BY <1>4, <2>5
  <2>8. genItem' = genItem /\ CompleteInv(g)'
    BY <1>3 DEF TurnInv, CompleteInv, items
  <2>10. JobTurnInv(g)'
    <3>1. ASSUME JobOn(g)'
          PROVE  JobOn(g) /\ job' = job /\ rows' = rows /\ evidence' = evidence
      BY <1>3, <3>1 DEF JobOn
    <3>2. ASSUME JobOn(g)'  PROVE FailsOrBuilds(e)'
      <4>1. exec[e].state = "StartGenerationBuild" /\ code = "BUILDING"
        BY <2>2, <2>3, <2>5, <3>1, <3>2
      <4>2. exec'[e].state = "BuildIcebergGeneration"
        BY <1>2, <4>1, AfterOf
      <4>. QED  BY <1>2, <4>2 DEF FailsOrBuilds
    <3>3. EvidenceStep' = EvidenceStep
      BY DEF EvidenceStep
    <3>. QED  BY <2>6, <2>7, <2>8, <3>1, <3>2, <3>3 DEF TurnInv, JobTurnInv
  <2>9. ExecTurnInv(e, g)'
    <3>1. CASE exec[e].state = "StartGenerationBuild"
      <4>1. exec'[e].state = "BuildIcebergGeneration" /\ genItem[g].status = "BUILDING"
        BY <1>2, <2>2, <2>3, <2>4, <2>5, <3>1, AfterOf DEF CallTurnInv
      <4>. QED  BY <1>2, <2>8, <4>1 DEF ExecTurnInv
    <3>2. CASE exec[e].state = "ValidateGeneration"
      <4>1. /\ exec'[e].state = IF code = "VALIDATED" THEN "PublishGeneration" ELSE "MarkFailure"
            /\ genItem[g].status = IF code = "VALIDATED" THEN "VALIDATED" ELSE "BUILDING"
        BY <1>2, <1>3, <2>3, <2>4, <2>5, <3>2, AfterOf DEF CallTurnInv
      <4>. QED  BY <1>2, <2>8, <4>1 DEF ExecTurnInv
    <3>3. CASE exec[e].state = "PublishGeneration"
      <4>1. /\ exec'[e].state = IF code = "PUBLISHED" THEN "Succeeded" ELSE "MarkFailure"
            /\ genItem[g].status = IF code = "PUBLISHED" THEN "PUBLISHED" ELSE "VALIDATED"
        BY <1>2, <1>3, <2>3, <2>4, <2>5, <3>3, AfterOf DEF CallTurnInv
      <4>. QED  BY <1>2, <2>1, <2>8, <4>1 DEF ExecTurnInv
    <3>. QED  BY <2>2, <3>1, <3>2, <3>3
  <2>. QED  BY <2>6, <2>7, <2>8, <2>9, <2>10, ExecTakesTurn
<1>6. CASE ~ExecTurn(e, g)'
  <2>1. SameTurns(g)
    BY <1>2, <1>4, <1>6, ExecTurnsFrame DEF SameTurns, SameCallTurns
  <2>. QED  BY <1>3, <2>1, QuietTurns, TurnFrame
<1>. QED  BY <1>5, <1>6

-----------------------------------------------------------------------------
(* The turns of invocations *)

\* Another generation's invocation, or one without a turn, moves.
LEMMA OtherCallTurn ==
  ASSUME NEW g \in Generation, TurnInv(g), NEW c \in Call, \A o \in Call \ {c} : SameCall(o),
         ~CallTurn(c, g)', SameGeneration(g), UNCHANGED <<exec, job>>
  PROVE  TurnInv(g)'
  BY CallTurnsFrame, QuietTurns, TurnFrame DEF SameTurns

LEMMA AbandonedReturnsTurn ==
  ASSUME PInv, NEW g \in Generation, TurnInv(g), NEW c \in Call, AbandonedReturns(c)
  PROVE  TurnInv(g)'
<1>1. TypeOK
  BY PInvParts
<1>2. /\ \A o \in Call \ {c} : SameCall(o)
      /\ pc'[c] = "idle" /\ UNCHANGED <<items, evidence, rows, exec, job>>
  BY <1>1 DEF AbandonedReturns, Release, SameCall, TypeOK
<1>3. ~CallTurn(c, g)'
  BY <1>2 DEF CallTurn
<1>. QED  BY <1>2, <1>3, QuietTurns, OtherCallTurn

\* An invocation with the turn moves and keeps it, or marks the generation FAILED.
LEMMA CallKeepsTurn ==
  ASSUME NEW g \in Generation, TurnInv(g), NEW c \in Call, CallTurn(c, g),
         \A o \in Call \ {c} : SameCall(o), UNCHANGED <<req, exec, job, rows, evidence>>,
         JobOn(g) => genItem'[g].status \in {genItem[g].status, "FAILED"},
         CallTurnInv(c, g)', CompleteInv(g)'
  PROVE  TurnInv(g)'
<1>1. /\ \A e \in Execution : ~ExecTurn(e, g)
      /\ \A d \in Call : CallTurn(d, g) => d = c
      /\ JobOn(g) => req[c].action \in {"start_build", "fail"}
  BY CallAlone
<1>2. \A e \in Execution : ~ExecTurn(e, g)'
  BY <1>1 DEF ExecTurn
<1>3. ASSUME NEW d \in Call, CallTurn(d, g)'  PROVE d = c
  <2>1. d # c => SameCall(d)
    OBVIOUS
  <2>. QED  BY <1>1, <1>3, <2>1 DEF CallTurn, SameCall
<1>4. JobTurnInv(g)'
  <2>1. (JobOn(g)' => JobOn(g)) /\ EvidenceStep' = EvidenceStep
    BY DEF JobOn, EvidenceStep
  <2>. QED  BY <1>1, <1>2, <1>3, <2>1 DEF TurnInv, JobTurnInv
<1>. QED  BY <1>2, <1>3, <1>4, CallTakesTurn

LEMMA FunctionRaisesTurn ==
  ASSUME PInv, NEW g \in Generation, TurnInv(g), NEW c \in Call, FunctionRaises(c)
  PROVE  TurnInv(g)'
<1>1. TypeOK
  BY PInvParts
<1>2. /\ \A o \in Call \ {c} : SameCall(o)
      /\ pc[c] \notin {"idle", "done"} /\ pc'[c] = "done" /\ reply'[c].code = "ERROR"
      /\ UNCHANGED <<req, items, evidence, rows, exec, job>>
  BY <1>1 DEF FunctionRaises, Abort, Finish, Goto, SameCall, TypeOK, Reply, locals
<1>3. CASE CallTurn(c, g)'
  <2>1. CallTurn(c, g) /\ req[c].action \in {"validate", "publish"}
    BY <1>2, <1>3 DEF CallTurn
  <2>2. CallTurnInv(c, g) /\ CompleteInv(g)
    BY <2>1, CallAlone DEF TurnInv
  <2>3. CallTurnInv(c, g)' /\ CompleteInv(g)' /\ genItem' = genItem
    BY <1>2, <2>1, <2>2 DEF CallTurnInv, CompleteInv, items
  <2>. QED  BY <1>2, <2>1, <2>3, CallKeepsTurn
<1>4. CASE ~CallTurn(c, g)'
  BY <1>2, <1>4, QuietTurns, OtherCallTurn
<1>. QED  BY <1>3, <1>4

\* The steps of an invocation.
LEMMA AcceptTurn ==
  ASSUME PInv, NEW g \in Generation, TurnInv(g), NEW c \in Call, FunctionStep(c), AcceptStep(c)
  PROVE  TurnInv(g)'
<1> DEFINE h == GenerationId[req[c].batch][req[c].digest]
<1>1. /\ TypeOK /\ UNCHANGED <<req, evidence, exec, job, rows>> /\ \A o \in Call \ {c} : SameCall(o)
      /\ req[c].action = "register" /\ h \in Generation /\ genItem[h].status = "ABSENT"
      /\ genItem' = [genItem EXCEPT ![h] = [status |-> "REGISTERED", digest |-> req[c].digest,
                                            attempt |-> 0, validation |-> NoItem]]
  BY PInvParts, StepFrame DEF FunctionStep, AcceptStep
<1>2. ~CallTurn(c, g)'
  BY <1>1 DEF CallTurn
<1>3. SameTurns(g)
  BY <1>1, <1>2, CallTurnsFrame, QuietTurns DEF SameTurns
<1>4. CASE g # h
  <2>1. SameGeneration(g)
    BY <1>1, <1>4 DEF SameGeneration, TypeOK
  <2>. QED  BY <1>1, <1>3, <2>1, QuietTurns, TurnFrame
<1>5. CASE g = h
  <2>1. /\ \A e \in Execution : ~ExecTurn(e, g)
        /\ \A d \in Call : ~CallTurn(d, g)
        /\ ~JobOn(g)
    BY <1>1, <1>5, NoTurn DEF TypeOK
  <2>2. /\ \A e \in Execution : ~ExecTurn(e, g)'
        /\ \A d \in Call : ~CallTurn(d, g)'
        /\ ~JobOn(g)'
    BY <1>1, <1>3, <2>1 DEF SameTurns, SameExecTurns, SameCallTurns, JobOn
  <2>3. genItem'[g].status = "REGISTERED"
    BY <1>1, <1>5 DEF TypeOK
  <2>. QED  BY <2>2, <2>3 DEF TurnInv, OneTurn, ExecTurnInv, CallTurnInv, JobTurnInv, CompleteInv
<1>. QED  BY <1>4, <1>5

LEMMA MoveTurn ==
  ASSUME PInv, NEW g \in Generation, TurnInv(g), NEW c \in Call, FunctionStep(c), MoveStep(c)
  PROVE  TurnInv(g)'
<1> DEFINE h == req[c].generation
<1>1. /\ TypeOK /\ UNCHANGED <<req, evidence, exec, job, rows, loaded>> /\ \A o \in Call \ {c} : SameCall(o)
      /\ req[c].action \in {"start_build", "validate", "fail"} /\ h \in Generation
      /\ pc[c] = "update" /\ pc'[c] = "done" /\ reply'[c].code = Target(req[c].action)
      /\ seen[c] \in Allowed(req[c].action) /\ genItem[h].status = seen[c]
      /\ genItem' = [genItem EXCEPT ![h] = Updated(c, genItem[h])]
  BY PInvParts, StepFrame DEF FunctionStep, MoveStep, locals
<1>2. /\ \A k \in Generation \ {h} : genItem'[k] = genItem[k]
      /\ genItem'[h] = Updated(c, genItem[h])
      /\ genItem[h] \in GenerationItem /\ loaded[c] \in Evidence \cup {NoItem}
  BY <1>1 DEF TypeOK
<1>3. CASE g # h
  <2>1. SameGeneration(g) /\ ~CallTurn(c, g)'
    BY <1>1, <1>2, <1>3 DEF SameGeneration, CallTurn
  <2>. QED  BY <1>1, <2>1, OtherCallTurn
<1>4. CASE g = h /\ req[c].action = "start_build"
  <2>1. genItem[g].status \in {"REGISTERED", "FAILED"}
    BY <1>1, <1>4 DEF Allowed
  <2>2. /\ \A e \in Execution : ~ExecTurn(e, g)
        /\ \A d \in Call : ~CallTurn(d, g)
    BY <2>1, NoTurn
  <2>3. genItem'[g].status = "BUILDING"
    BY <1>2, <1>4, UpdatedFields
  <2>4. \A e \in Execution : ~ExecTurn(e, g)'
    BY <1>1, <2>2 DEF ExecTurn
  <2>5. \A d \in Call : CallTurn(d, g)' => d = c
    <3>1. ASSUME NEW d \in Call, d # c, CallTurn(d, g)'  PROVE FALSE
      <4>1. SameCall(d)
        BY <1>1, <3>1
      <4>. QED  BY <2>2, <3>1, <4>1 DEF CallTurn, SameCall
    <3>. QED  BY <3>1
  <2>6. CallTurnInv(c, g)' /\ CompleteInv(g)'
    BY <1>1, <1>4, <2>3 DEF CallTurnInv, CompleteInv
  <2>7. JobTurnInv(g)'
    <3>1. (JobOn(g)' => JobOn(g)) /\ EvidenceStep' = EvidenceStep
      BY <1>1 DEF JobOn, EvidenceStep
    <3>. QED  BY <1>1, <1>4, <2>3, <2>4, <2>5, <3>1 DEF TurnInv, JobTurnInv
  <2>. QED  BY <2>4, <2>5, <2>6, <2>7, CallTakesTurn
<1>5. CASE g = h /\ req[c].action = "validate"
  <2>1. CallTurn(c, g)
    BY <1>1, <1>5 DEF CallTurn
  <2>2. CallTurnInv(c, g)
    BY <2>1, CallAlone
  <2>3. Built(g) /\ loaded[c].attempt = genItem[g].attempt
    BY <1>1, <1>5, <2>1, <2>2 DEF CallTurnInv
  <2>4. /\ genItem'[g].status = "VALIDATED" /\ genItem'[g].attempt = genItem[g].attempt
        /\ genItem'[g].validation = loaded[c]
    BY <1>2, <1>5, UpdatedFields
  <2>5. CallTurnInv(c, g)'
    BY <1>1, <1>5, <2>4 DEF CallTurnInv, Target
  <2>6. CompleteInv(g)'
    BY <1>1, <2>3, <2>4 DEF CompleteInv, Built
  <2>7. ~JobOn(g)
    BY <1>5, <2>1, CallAlone
  <2>. QED  BY <1>1, <2>1, <2>5, <2>6, <2>7, CallKeepsTurn
<1>6. CASE g = h /\ req[c].action = "fail"
  <2>1. CallTurn(c, g)
    BY <1>1, <1>6 DEF CallTurn
  <2>2. genItem'[g].status = "FAILED"
    BY <1>2, <1>6, UpdatedFields
  <2>3. CallTurnInv(c, g)' /\ CompleteInv(g)'
    BY <1>1, <1>6, <2>2 DEF CallTurnInv, CallTurn, CompleteInv
  <2>. QED  BY <1>1, <2>1, <2>2, <2>3, CallKeepsTurn
<1>. QED  BY <1>1, <1>3, <1>4, <1>5, <1>6

LEMMA PublishTurn ==
  ASSUME PInv, NEW g \in Generation, TurnInv(g), NEW c \in Call, FunctionStep(c), PublishStep(c)
  PROVE  TurnInv(g)'
<1> DEFINE h == req[c].generation
<1>1. /\ TypeOK /\ UNCHANGED <<req, evidence, exec, job, rows>> /\ \A o \in Call \ {c} : SameCall(o)
      /\ req[c].action = "publish" /\ h \in Generation /\ pc[c] = "transact" /\ pc'[c] = "done"
      /\ reply'[c].code = "PUBLISHED" /\ genItem[h].status = "VALIDATED"
      /\ genItem' = [genItem EXCEPT ![h].status = "PUBLISHED"]
  BY PInvParts, StepFrame DEF FunctionStep, PublishStep
<1>2. /\ \A k \in Generation \ {h} : genItem'[k] = genItem[k]
      /\ genItem'[h].status = "PUBLISHED" /\ genItem'[h].attempt = genItem[h].attempt
      /\ genItem'[h].validation = genItem[h].validation
  BY <1>1 DEF TypeOK, GenerationItem
<1>3. CASE g # h
  <2>1. SameGeneration(g) /\ ~CallTurn(c, g)'
    BY <1>1, <1>2, <1>3 DEF SameGeneration, CallTurn
  <2>. QED  BY <1>1, <2>1, OtherCallTurn
<1>4. CASE g = h
  <2>1. CallTurn(c, g)
    BY <1>1, <1>4 DEF CallTurn
  <2>2. CallTurnInv(c, g)'
    BY <1>1, <1>2, <1>4 DEF CallTurnInv
  <2>3. CompleteInv(g)'
    BY <1>1, <1>2, <1>4 DEF TurnInv, CompleteInv
  <2>4. ~JobOn(g)
    BY <1>1, <2>1, CallAlone
  <2>. QED  BY <1>1, <2>1, <2>2, <2>3, <2>4, CallKeepsTurn
<1>. QED  BY <1>3, <1>4

LEMMA ReadTurn ==
  ASSUME PInv, NEW g \in Generation, TurnInv(g), NEW c \in Call, FunctionStep(c), ReadStep(c)
  PROVE  TurnInv(g)'
<1>1. /\ TypeOK /\ CallInv(c) /\ \A o \in Call \ {c} : SameCall(o)
      /\ pc[c] \notin {"idle", "done"}
      /\ UNCHANGED <<req, items, evidence, exec, job, rows>>
  BY PInvParts, StepFrame DEF FunctionStep, ReadStep, IInv
<1>2. pc[c] = "get_pointer" => req[c].action = "register"
  BY <1>1, RegisterRequest DEF CallInv
<1>3. CASE CallTurn(c, g)'
  <2>1. /\ req[c].action \in {"validate", "publish", "fail"} /\ req[c].generation = g
        /\ pc'[c] = "done" => reply'[c].code \notin Outcomes
        /\ req[c].action = "fail" => pc'[c] # "done"
    BY <1>1, <1>2, <1>3 DEF CallTurn, ReadStep, Outcomes
  <2>2. CallTurn(c, g)
    BY <1>1, <2>1 DEF CallTurn
  <2>3. CallTurnInv(c, g) /\ CompleteInv(g)
    BY <2>2, CallAlone DEF TurnInv
  <2>4. genItem' = genItem /\ (Built(g) => Built(g)')
    BY <1>1 DEF Built, items
  <2>5. CallTurnInv(c, g)'
    <3>1. CASE req[c].action = "validate"
      <4>1. genItem[g].status = "BUILDING" /\ Built(g)
        BY <1>1, <2>2, <2>3, <3>1 DEF CallTurnInv
      <4>2. pc'[c] # "done" => pc'[c] # "load" /\ loaded'[c].attempt = genItem[g].attempt
        <5>1. CASE pc[c] = "load"
          BY <2>1, <4>1, <5>1 DEF ReadStep, Built
        <5>2. CASE pc[c] # "load"
          BY <1>1, <2>2, <2>3, <3>1, <5>2 DEF ReadStep, CallTurnInv
        <5>. QED  BY <5>1, <5>2
      <4>. QED  BY <1>1, <2>1, <2>4, <3>1, <4>1, <4>2 DEF CallTurnInv, Outcomes
    <3>2. CASE req[c].action = "publish"
      BY <1>1, <2>1, <2>2, <2>3, <2>4, <3>2 DEF CallTurnInv, Outcomes
    <3>3. CASE req[c].action = "fail"
      BY <1>1, <2>1, <2>2, <2>3, <2>4, <3>3 DEF CallTurnInv, ReadStep
    <3>. QED  BY <2>1, <3>1, <3>2, <3>3
  <2>6. CompleteInv(g)'
    BY <1>1, <2>3 DEF CompleteInv, items
  <2>. QED  BY <1>1, <2>2, <2>4, <2>5, <2>6, CallKeepsTurn
<1>4. CASE ~CallTurn(c, g)'
  BY <1>1, <1>4, QuietTurns, OtherCallTurn
<1>. QED  BY <1>3, <1>4

LEMMA FunctionStepTurn ==
  ASSUME PInv, NEW g \in Generation, TurnInv(g), NEW c \in Call, FunctionStep(c)
  PROVE  TurnInv(g)'
<1>1. AcceptStep(c) \/ MoveStep(c) \/ PublishStep(c) \/ ReadStep(c)
  BY PInvParts, StepFrame DEF FunctionStep
<1>. QED  BY <1>1, AcceptTurn, MoveTurn, PublishTurn, ReadTurn

-----------------------------------------------------------------------------
(* The turns of the Glue task and of its run *)

\* The execution that has the turn takes its next step, no invocation moves.
LEMMA ExecKeepsTurn ==
  ASSUME NEW g \in Generation, TurnInv(g), NEW e \in Execution, ExecTurn(e, g), StepOf(e),
         UNCHANGED <<items, pc, locals, reply>>, UNCHANGED <<rows>>,
         ExecTurnInv(e, g)', JobTurnInv(g)'
  PROVE  TurnInv(g)'
<1>1. /\ \A f \in Execution : ExecTurn(f, g) => f = e
      /\ \A c \in Call : ~CallTurn(c, g)
  BY ExecAlone
<1>2. \A f \in Execution : ExecTurn(f, g)' => f = e
  BY <1>1 DEF StepOf, ExecTurn
<1>3. \A c \in Call : ~CallTurn(c, g)'
  BY <1>1 DEF CallTurn, locals
<1>4. CompleteInv(g)'
  BY DEF TurnInv, CompleteInv, items
<1>. QED  BY <1>2, <1>3, <1>4, ExecTakesTurn

LEMMA StartJobTurn ==
  ASSUME PInv, NEW g \in Generation, TurnInv(g), NEW e \in Execution, StartJob(e)
  PROVE  TurnInv(g)'
<1>1. /\ PTypeOK /\ TypeOK /\ ExecInv(e) /\ exec[e].state = "BuildIcebergGeneration"
      /\ exec[e].glue = "none" /\ job = NoItem /\ UNCHANGED <<vars, rows>>
  BY PInvParts DEF StartJob
<1>2. /\ StepOf(e) /\ exec'[e].generation = exec[e].generation
      /\ \/ exec'[e].state = "BuildIcebergGeneration" /\ exec'[e].glue = "running"
         \/ exec'[e].state = "MarkFailure" /\ exec'[e].glue = "none" /\ exec'[e].call = NoItem
  <2>1. CASE StepOf(e) /\ exec'[e] = [exec[e] EXCEPT !.glue = "running"]
    BY <1>1, <2>1 DEF PTypeOK, ExecutionRecord
  <2>2. CASE Enters(e, "MarkFailure") /\ exec'[e].glue = "none"
    BY <2>2 DEF Enters
  <2>. QED  BY <1>1, <2>1, <2>2, StartJobStep
<1>4. /\ job' # NoItem /\ job'.owner = e /\ job'.generation = exec[e].generation /\ job'.step = 0
      /\ job'.attempt = genItem[exec[e].generation].attempt
  BY <1>1, NewJobType
<1>5. CASE exec[e].generation = g
  <2>1. ExecTurn(e, g) /\ JobOn(g)'
    BY <1>1, <1>4, <1>5 DEF ExecTurn, JobOn
  <2>2. genItem[g].status = "BUILDING" /\ genItem' = genItem
    BY <1>1, <2>1, ExecAlone DEF ExecTurnInv, vars, items
  <2>3. ExecTurnInv(e, g)'
    BY <1>2, <1>4, <1>5, <2>1, <2>2 DEF ExecTurnInv
  <2>4. JobTurnInv(g)'
    <3>1. \A c \in Call : ~CallTurn(c, g)'
      BY <1>1, <2>1, ExecAlone DEF CallTurn, vars, locals
    <3>2. \A f \in Execution : ExecTurn(f, g)' => FailsOrBuilds(f)'
      <4>1. \A f \in Execution : ExecTurn(f, g)' => f = e
        BY <1>2, <2>1, ExecAlone DEF StepOf, ExecTurn
      <4>. QED  BY <1>2, <4>1 DEF FailsOrBuilds
    <3>3. \A t \in 1..Tables : ~(job'.step > 2 * t) /\ ~(job'.step = 2 * t)
      BY <1>4, PipelineAssumption
    <3>4. ~(job'.step > EvidenceStep)
      BY <1>4, PipelineAssumption DEF EvidenceStep
    <3>5. genItem'[g].status = "BUILDING"
      BY <2>2
    <3>6. EvidenceStep' = EvidenceStep
      BY DEF EvidenceStep
    <3>. QED  BY <3>1, <3>2, <3>3, <3>4, <3>5, <3>6 DEF JobTurnInv
  <2>. QED  BY <1>1, <1>2, <2>1, <2>3, <2>4, ExecKeepsTurn DEF vars
<1>6. CASE exec[e].generation # g
  <2>1. ~ExecTurn(e, g)' /\ SameJob(g)
    BY <1>1, <1>2, <1>4, <1>6 DEF ExecTurn, SameJob, JobOn
  <2>. QED  BY <1>1, <1>2, <2>1, ExecTurnsFrame, QuietTurns, TurnFrame DEF SameTurns, vars
<1>. QED  BY <1>5, <1>6

\* The Glue task ends: its call is refused or its run has ended.
LEMMA GlueTaskEndsTurn ==
  ASSUME PInv, NEW g \in Generation, TurnInv(g), NEW e \in Execution, JobRefused(e) \/ BuildReturns(e)
  PROVE  TurnInv(g)'
<1> DEFINE state == IF BuildReturns(e) /\ exec[e].glue = "SUCCEEDED" THEN "ValidateGeneration" ELSE "MarkFailure"
<1>1. /\ PTypeOK /\ exec[e].state = "BuildIcebergGeneration" /\ exec[e].glue # "running"
      /\ UNCHANGED <<vars, job, rows>>
      /\ state = "ValidateGeneration" => exec[e].glue = "SUCCEEDED"
  BY PInvParts DEF JobRefused, BuildReturns
<1>2. Enters(e, state) /\ exec'[e].glue = "none"
  <2>1. JobRefused(e) => exec[e].glue = "none"
    BY DEF JobRefused
  <2>2. CASE BuildReturns(e)
    BY <1>1, <2>2, BuildReturnsStep
  <2>3. CASE ~BuildReturns(e)
    BY <1>1, <2>3, JobRefusedStep
  <2>. QED  BY <2>2, <2>3
<1>3. state \in {"ValidateGeneration", "MarkFailure"}
  OBVIOUS
<1> HIDE DEF state
<1>4. CASE exec[e].generation = g
  <2>1. ExecTurn(e, g)
    BY <1>1, <1>4 DEF ExecTurn
  <2>2. ExecTurnInv(e, g) /\ (JobOn(g) => FailsOrBuilds(e))
    BY <2>1, ExecAlone
  <2>3. /\ genItem[g].status = "BUILDING" /\ genItem' = genItem
        /\ state = "ValidateGeneration" => Built(g)'
    BY <1>1, <2>1, <2>2 DEF ExecTurnInv, Built, vars, items
  <2>4. ExecTurnInv(e, g)'
    BY <1>2, <1>3, <2>3 DEF ExecTurnInv, Enters
  <2>5. JobTurnInv(g)'
    <3>1. \A c \in Call : ~CallTurn(c, g)'
      BY <1>1, <2>1, ExecAlone DEF CallTurn, vars, locals
    <3>2. \A f \in Execution : ExecTurn(f, g)' => f = e
      BY <1>2, <2>1, ExecAlone DEF Enters, StepOf, ExecTurn
    <3>3. JobOn(g)' => JobOn(g) /\ FailsOrBuilds(e)'
      BY <1>1, <1>2, <1>3, <2>2 DEF JobOn, FailsOrBuilds, Enters
    <3>4. evidence' = evidence /\ EvidenceStep' = EvidenceStep
      BY <1>1 DEF vars, EvidenceStep
    <3>. QED  BY <1>1, <2>3, <3>1, <3>2, <3>3, <3>4 DEF TurnInv, JobTurnInv
  <2>. QED  BY <1>1, <1>2, <2>1, <2>4, <2>5, ExecKeepsTurn DEF Enters, vars
<1>5. CASE exec[e].generation # g
  <2>1. ~ExecTurn(e, g)' /\ StepOf(e)
    BY <1>2, <1>5 DEF ExecTurn, Enters
  <2>. QED  BY <1>1, <2>1, ExecTurnsFrame, QuietTurns, TurnFrame DEF SameTurns, vars
<1>. QED  BY <1>4, <1>5

\* The run on a generation goes on while nothing else happens to the generation.
LEMMA RunGoesOnTurn ==
  ASSUME PInv, NEW g \in Generation, TurnInv(g), JobOn(g), JobOn(g)',
         UNCHANGED <<exec, items, pc, locals, reply>>,
         job'.owner = job.owner, job'.attempt = job.attempt,
         \A t \in 1..Tables : /\ job'.step > 2 * t => rows'[g][t] = 1
                              /\ job'.step = 2 * t => rows'[g][t] = 0,
         job'.step > EvidenceStep => evidence'[g] # NoItem /\ evidence'[g].attempt = job.attempt
  PROVE  TurnInv(g)'
<1>1. /\ genItem[g].status \in {"BUILDING", "FAILED"}
      /\ \A c \in Call : CallTurn(c, g) => req[c].action \in {"start_build", "fail"}
      /\ \A e \in Execution : ExecTurn(e, g) => FailsOrBuilds(e)
      /\ OneTurn(g)
  BY DEF TurnInv, JobTurnInv
<1>2. /\ \A c \in Call : CallTurn(c, g)' <=> CallTurn(c, g)
      /\ \A e \in Execution : (ExecTurn(e, g)' <=> ExecTurn(e, g)) /\ (FailsOrBuilds(e)' <=> FailsOrBuilds(e))
  BY DEF CallTurn, ExecTurn, FailsOrBuilds, locals
<1>3. OneTurn(g)'
  BY <1>1, <1>2 DEF OneTurn
<1>4. JobTurnInv(g)'
  <2>1. EvidenceStep' = EvidenceStep
    BY DEF EvidenceStep
  <2>. QED  BY <1>1, <1>2, <2>1 DEF JobTurnInv, items, locals
<1>5. CompleteInv(g)'
  BY <1>1 DEF CompleteInv, items
<1>6. ASSUME NEW c \in Call  PROVE CallTurnInv(c, g)'
  <2>1. CallTurnInv(c, g) /\ UNCHANGED <<genItem, pc, req, seen, reply>>
    BY DEF TurnInv, items, locals
  <2>. QED  BY <1>1, <1>2, <2>1 DEF CallTurnInv
<1>7. ASSUME NEW e \in Execution  PROVE ExecTurnInv(e, g)'
  <2>1. ExecTurnInv(e, g) /\ UNCHANGED <<genItem, exec>>
    BY DEF TurnInv, items
  <2>. QED  BY <1>1, <1>2, <2>1 DEF ExecTurnInv, FailsOrBuilds
<1>. QED  BY <1>3, <1>4, <1>5, <1>6, <1>7 DEF TurnInv

LEMMA JobWorksTurn ==
  ASSUME PInv, NEW g \in Generation, TurnInv(g), JobValidates \/ JobWrites \/ JobPutsEvidence
  PROVE  TurnInv(g)'
<1>1. /\ PTypeOK /\ job \in GlueRun /\ job' # NoItem /\ job # NoItem
      /\ job'.step = job.step + 1 /\ job'.owner = job.owner /\ job'.generation = job.generation
      /\ job'.attempt = job.attempt /\ job.step \in Nat /\ Tables \in Nat
      /\ UNCHANGED <<exec, items, pc, locals, reply>>
  BY PInvParts, JobAdvances, PipelineAssumption DEF JobValidates, JobWrites, JobPutsEvidence, GlueRun, vars
<1>2. CASE g # job.generation
  <2>1. ~JobOn(g) /\ ~JobOn(g)'
    BY <1>1, <1>2 DEF JobOn
  <2>2. SameGeneration(g)
    <3>1. CASE JobValidates
      BY <3>1 DEF JobValidates, SameGeneration, vars, items
    <3>2. CASE JobWrites
      BY <1>1, <1>2, <3>2, JobWritesTable DEF JobWrites, SameGeneration, vars, items
    <3>3. CASE JobPutsEvidence
      <4>1. evidence \in [Generation -> Evidence \cup {NoItem}]
        BY PInvParts DEF TypeOK
      <4>. QED  BY <1>2, <3>3, <4>1 DEF JobPutsEvidence, SameGeneration, items
    <3>. QED  BY <3>1, <3>2, <3>3
  <2>. QED  BY <1>1, <2>1, <2>2, QuietTurns, TurnFrame DEF SameTurns, SameJob
<1>3. CASE g = job.generation
  <2>1. JobOn(g) /\ JobOn(g)'
    BY <1>1, <1>3 DEF JobOn
  <2>2. \A t \in 1..Tables : /\ job.step > 2 * t => rows[g][t] = 1
                             /\ job.step = 2 * t => rows[g][t] = 0
    BY <2>1 DEF TurnInv, JobTurnInv
  <2> DEFINE s == job.step
  <2>t. s \in Nat /\ job'.step = s + 1
    BY <1>1
  <2> HIDE DEF s
  <2>3. CASE JobValidates
    <3>1. s = 0
      BY <2>3 DEF JobValidates, s
    <3>2. \A t \in 1..Tables : ~(job'.step > 2 * t) /\ ~(job'.step = 2 * t)
      BY <1>1, <2>t, <3>1
    <3>3. ~(job'.step > EvidenceStep)
      BY <1>1, <2>t, <3>1 DEF EvidenceStep
    <3>. QED  BY <1>1, <2>1, <3>2, <3>3, RunGoesOnTurn
  <2>4. CASE JobWrites
    <3>1. s \in 1..(2 * Tables)
      BY <2>4 DEF JobWrites, s
    <3>2. ~(job'.step > EvidenceStep)
      BY <1>1, <2>t, <3>1 DEF EvidenceStep
    <3>3. ASSUME NEW t \in 1..Tables
          PROVE  /\ job'.step > 2 * t => rows'[g][t] = 1
                 /\ job'.step = 2 * t => rows'[g][t] = 0
      <4>1. /\ s + 1 = 2 * t => rows'[g][t] = 0
            /\ s = 2 * t => rows'[g][t] = rows[g][t] + 1
            /\ s + 1 # 2 * t /\ s # 2 * t => rows'[g][t] = rows[g][t]
        BY <1>1, <1>3, <2>4, JobWritesTable DEF s
      <4>2. /\ s > 2 * t => rows[g][t] = 1
            /\ s = 2 * t => rows[g][t] = 0
        BY <2>2 DEF s
      <4>3. s + 1 > 2 * t => s = 2 * t \/ s > 2 * t
        BY <2>t
      <4>4. CASE s = 2 * t
        BY <2>t, <4>1, <4>2, <4>4
      <4>5. CASE s > 2 * t
        BY <2>t, <4>1, <4>2, <4>5
      <4>6. CASE ~(s + 1 > 2 * t)
        BY <2>t, <4>1, <4>6
      <4>. QED  BY <4>3, <4>4, <4>5, <4>6
    <3>. QED  BY <1>1, <2>1, <3>2, <3>3, RunGoesOnTurn
  <2>5. CASE JobPutsEvidence
    <3>1. s = 2 * Tables + 1 /\ rows' = rows
      BY <2>5 DEF JobPutsEvidence, EvidenceStep, s
    <3>2. \A t \in 1..Tables : s > 2 * t /\ ~(job'.step = 2 * t)
      BY <1>1, <2>t, <3>1
    <3>3. \A t \in 1..Tables : rows'[g][t] = 1
      BY <2>2, <3>1, <3>2 DEF s
    <3>4. evidence'[g] # NoItem /\ evidence'[g].attempt = job.attempt
      <4> DEFINE item == [generation |-> job.generation, digest |-> job.digest, complete |-> TRUE,
                          casOnly |-> FALSE, attempt |-> job.attempt]
      <4>1. item \in Evidence
        BY <1>1 DEF GlueRun, Evidence
      <4>2. evidence' = [evidence EXCEPT ![job.generation] = item]
        BY <2>5 DEF JobPutsEvidence
      <4>3. evidence \in [Generation -> Evidence \cup {NoItem}]
        BY PInvParts DEF TypeOK
      <4>4. evidence'[g] = item
        BY <1>3, <4>2, <4>3
      <4>5. item # NoItem
        BY <4>1, NoItemAssumption DEF Evidence
      <4>. QED  BY <4>4, <4>5
    <3>. QED  BY <1>1, <2>1, <3>2, <3>3, <3>4, RunGoesOnTurn
  <2>. QED  BY <2>3, <2>4, <2>5
<1>. QED  BY <1>2, <1>3

LEMMA JobEndsTurn ==
  ASSUME PInv, NEW g \in Generation, TurnInv(g), NEW result \in {"SUCCEEDED", "FAILED"}, job # NoItem,
         result = "SUCCEEDED" => job.step = EvidenceStep + 1, JobEnds(result)
  PROVE  TurnInv(g)'
<1>1. /\ PTypeOK /\ TypeOK /\ job \in GlueRun /\ job' = NoItem /\ UNCHANGED <<vars, rows>>
      /\ \A e \in Execution : ExecInv(e)
  BY PInvParts DEF PTypeOK, JobEnds
<1>2. \A e \in Execution :
        /\ exec'[e].state = exec[e].state /\ exec'[e].generation = exec[e].generation
        /\ exec'[e].call = exec[e].call
        /\ exec'[e].glue = IF /\ job.owner = e /\ exec[e].glue = "running"
                              /\ exec[e].state = "BuildIcebergGeneration"
                           THEN result ELSE exec[e].glue
  BY <1>1, JobEndsStep
<1>3. /\ \A e \in Execution : ExecTurn(e, g)' <=> ExecTurn(e, g)
      /\ SameCallTurns(g) /\ SameGeneration(g)
  BY <1>1, <1>2, QuietTurns DEF ExecTurn, vars
<1>4. ~JobOn(g)'
  BY <1>1 DEF JobOn
<1>5. CASE ~JobOn(g)
  <2>1. ASSUME NEW e \in Execution, ExecTurn(e, g)  PROVE exec'[e].glue = exec[e].glue
    <3>1. exec[e].state = "BuildIcebergGeneration" => exec[e].glue # "running"
      BY <1>5, <2>1 DEF TurnInv, ExecTurnInv
    <3>. QED  BY <1>2, <3>1
  <2>2. SameTurns(g)
    BY <1>2, <1>3, <2>1 DEF SameTurns, SameExecTurns
  <2>3. SameJob(g)
    BY <1>4, <1>5 DEF SameJob
  <2>. QED  BY <1>3, <2>2, <2>3, TurnFrame
<1>6. CASE JobOn(g)
  <2>1. /\ genItem[g].status \in {"BUILDING", "FAILED"}
        /\ \A c \in Call : CallTurn(c, g) => req[c].action \in {"start_build", "fail"}
        /\ \A e \in Execution : ExecTurn(e, g) => FailsOrBuilds(e)
        /\ OneTurn(g)
    BY <1>6 DEF TurnInv, JobTurnInv
  <2>2. result = "SUCCEEDED" /\ job.attempt = genItem[g].attempt => Built(g)
    <3>1. ASSUME job.step = EvidenceStep + 1, job.attempt = genItem[g].attempt  PROVE Built(g)
      <4>1. EvidenceStep \in Nat /\ \A t \in 1..Tables : EvidenceStep + 1 > 2 * t
        BY PipelineAssumption DEF EvidenceStep
      <4>2. \A t \in 1..Tables : job.step > 2 * t
        BY <3>1, <4>1
      <4>3. job.step > EvidenceStep
        BY <3>1, <4>1
      <4>. QED  BY <1>6, <3>1, <4>2, <4>3 DEF TurnInv, JobTurnInv, Built
    <3>. QED  BY <3>1
  <2>3. genItem' = genItem /\ (Built(g) => Built(g)')
    BY <1>1 DEF Built, vars, items
  <2>4. ASSUME NEW c \in Call  PROVE CallTurnInv(c, g)' /\ (CallTurn(c, g)' => CallTurn(c, g))
    <3>1. CallTurnInv(c, g) /\ UNCHANGED <<genItem, pc, req, seen, reply>>
      BY <1>1 DEF TurnInv, vars, items, locals
    <3>. QED  BY <2>1, <3>1 DEF CallTurnInv, CallTurn
  <2>5. ASSUME NEW e \in Execution  PROVE ExecTurnInv(e, g)'
    <3>1. ExecTurn(e, g) /\ exec[e].state = "BuildIcebergGeneration" =>
            /\ exec'[e].glue # "running"
            /\ exec'[e].glue = "SUCCEEDED" => Built(g)
      BY <1>2, <2>1, <2>2 DEF TurnInv, ExecTurnInv, FailsOrBuilds
    <3>2. ExecTurn(e, g) => exec[e].state \in {"BuildIcebergGeneration", "MarkFailure"}
      BY <2>1 DEF FailsOrBuilds
    <3>3. ExecTurnInv(e, g) /\ exec'[e].state = exec[e].state
      BY <1>2 DEF TurnInv
    <3>. QED  BY <1>3, <2>3, <3>1, <3>2, <3>3 DEF ExecTurnInv
  <2>6. OneTurn(g)'
    BY <1>3, <2>1, <2>4 DEF OneTurn
  <2>7. JobTurnInv(g)' /\ CompleteInv(g)'
    BY <1>4, <2>1, <2>3 DEF JobTurnInv, CompleteInv
  <2>. QED  BY <2>4, <2>5, <2>6, <2>7 DEF TurnInv
<1>. QED  BY <1>5, <1>6

LEMMA TurnsInv ==
  ASSUME PInv, PNext, NoneLost'
  PROVE  NoneLost /\ \A g \in Generation : TurnInv(g)'
<1>1. PTypeOK /\ PTypeOK'
  BY PInvParts, PipelineTypes
<1>2. budget.lost \in 0..MaxLost /\ budget'.lost = MaxLost /\ MaxLost \in Nat
  BY <1>1, PipelineAssumption DEF PTypeOK, NoneLost
<1>3. \A e \in Execution : ~Lose(e)
  BY <1>1, <1>2 DEF Lose, PTypeOK
<1>4. NoneLost
  <2>1. ASSUME NEW e \in Execution, StartJob(e)  PROVE budget'.lost = budget.lost
    BY <1>1, <2>1, StartJobStep
  <2>2. ASSUME NEW e \in Execution, StopExecution(e)  PROVE budget'.lost = budget.lost
    BY <1>1, <2>2, StopStep
  <2>3. ASSUME NEW c \in Call, FunctionRaises(c)  PROVE budget'.lost = budget.lost
    BY <1>1, <2>3 DEF FunctionRaises, PTypeOK
  <2>. QED  BY <1>2, <1>3, <2>1, <2>2, <2>3 DEF NoneLost, PNext, Machine, JobStep, StartExecution, InvokeTask,
               TaskReturns, JobRefused, BuildReturns, FunctionStep, AbandonedReturns, JobValidates, JobWrites,
               JobPutsEvidence, JobSucceeds, JobFails, JobEnds
<1>5. ASSUME NEW g \in Generation  PROVE TurnInv(g)'
  <2>1. TurnInv(g)
    BY <1>4, PInvParts
  <2>2. ASSUME NEW e \in Execution, StartExecution(e) \/ StopExecution(e)  PROVE TurnInv(g)'
    BY <2>1, <2>2, QuietExecutionTurn
  <2>3. ASSUME NEW e \in Execution, InvokeTask(e) \/ TaskReturns(e)  PROVE TurnInv(g)'
    BY <2>1, <2>3, InvokeTaskTurn, TaskReturnsTurn
  <2>4. ASSUME NEW e \in Execution, StartJob(e) \/ JobRefused(e) \/ BuildReturns(e)  PROVE TurnInv(g)'
    BY <2>1, <2>4, StartJobTurn, GlueTaskEndsTurn
  <2>5. ASSUME NEW c \in Call, FunctionStep(c) \/ FunctionRaises(c) \/ AbandonedReturns(c)  PROVE TurnInv(g)'
    BY <2>1, <2>5, FunctionStepTurn, FunctionRaisesTurn, AbandonedReturnsTurn
  <2>6. ASSUME JobValidates \/ JobWrites \/ JobPutsEvidence  PROVE TurnInv(g)'
    BY <2>1, <2>6, JobWorksTurn
  <2>7. ASSUME JobSucceeds \/ JobFails  PROVE TurnInv(g)'
    BY <2>1, <2>7, JobEndsTurn DEF JobSucceeds, JobFails
  <2>. QED  BY <1>3, <2>2, <2>3, <2>4, <2>5, <2>6, <2>7 DEF PNext, Machine, JobStep
<1>. QED  BY <1>4, <1>5

-----------------------------------------------------------------------------
(* Nothing is stranded without faults *)

\* Who works on the generation goes on, or hands it over.
WorkKept(g) ==
    /\ \A e \in Execution : Starts(e, g) => Starts(e, g)'
    /\ \A e \in Execution : ExecTurn(e, g) =>
          ExecTurn(e, g)' \/ \E c \in Call : CallTurn(c, g)'
    /\ \A c \in Call : CallTurn(c, g) /\ genItem[g].status # "PUBLISHED" =>
          CallTurn(c, g)' \/ \E e \in Execution : ExecTurn(e, g)'

LEMMA StrandFrame ==
  ASSUME StrandInv, UNCHANGED genItem, \A g \in Generation : WorkKept(g),
         \A c \in Call : pc'[c] # "idle" => Waited(c)'
  PROVE  StrandInv'
<1>1. ASSUME NEW g \in Generation, genItem'[g].status = "REGISTERED"
      PROVE  \E e \in Execution : Starts(e, g)'
  <2>1. WorkKept(g) /\ \E e \in Execution : Starts(e, g)
    BY <1>1 DEF StrandInv
  <2>. QED  BY <2>1 DEF WorkKept
<1>2. ASSUME NEW g \in Generation, genItem'[g].status \in {"BUILDING", "VALIDATED"}
      PROVE  (\E e \in Execution : ExecTurn(e, g)') \/ (\E c \in Call : CallTurn(c, g)')
  <2>1. WorkKept(g) /\ genItem[g].status # "PUBLISHED"
    BY <1>2
  <2>2. (\E e \in Execution : ExecTurn(e, g)) \/ (\E c \in Call : CallTurn(c, g))
    BY <1>2 DEF StrandInv
  <2>. QED  BY <2>1, <2>2 DEF WorkKept
<1>. QED  BY <1>1, <1>2 DEF StrandInv

\* A started invocation is waited for by its own execution.
LEMMA WaitsAlone ==
  ASSUME PInv, NEW e \in Execution, NEW f \in Execution, exec[e].call # NoItem, exec[f].call = exec[e].call
  PROVE  e = f
<1>1. ExecInv(e) /\ ExecInv(f)
  BY PInvParts
<1>. QED  BY <1>1 DEF ExecInv, WaitsForItsCall

\* The steps of an execution that has no invocation.
LEMMA ExecutionStrand ==
  ASSUME PInv, StrandInv, NEW e \in Execution,
         exec[e].state \in {"NotStarted", "BuildIcebergGeneration"},
         StepOf(e), UNCHANGED <<vars, caller>>,
         exec[e].state = "BuildIcebergGeneration" =>
           /\ exec'[e].state \in {"BuildIcebergGeneration", "ValidateGeneration", "MarkFailure"}
           /\ exec'[e].generation = exec[e].generation
           /\ exec'[e].call = NoItem
  PROVE  StrandInv'
<1>1. exec[e].call = NoItem /\ NoItem \notin Call
  BY PInvParts, PipelineAssumption DEF ExecInv, WaitsForItsCall, LambdaStates
<1>2. ASSUME NEW g \in Generation  PROVE WorkKept(g)
  <2>1. ASSUME NEW f \in Execution, Starts(f, g)  PROVE Starts(f, g)'
    <3>1. f # e
      BY <2>1 DEF Starts
    <3>. QED  BY <2>1, <3>1 DEF Starts, StepOf, vars, locals
  <2>2. ASSUME NEW f \in Execution, ExecTurn(f, g)  PROVE ExecTurn(f, g)'
    <3>1. CASE f = e
      BY <2>2, <3>1 DEF ExecTurn
    <3>2. CASE f # e
      BY <2>2, <3>2 DEF ExecTurn, StepOf
    <3>. QED  BY <3>1, <3>2
  <2>3. ASSUME NEW c \in Call, CallTurn(c, g)  PROVE CallTurn(c, g)'
    BY <2>3 DEF CallTurn, vars, locals
  <2>. QED  BY <2>1, <2>2, <2>3 DEF WorkKept
<1>3. ASSUME NEW c \in Call, pc'[c] # "idle"  PROVE Waited(c)'
  <2>1. Waited(c)
    BY <1>3 DEF StrandInv, vars
  <2>2. caller[c] # e
    BY <1>1, <2>1 DEF Waited
  <2>. QED  BY <2>1, <2>2 DEF Waited, StepOf
<1>4. UNCHANGED genItem
  BY DEF vars, items
<1>. QED  BY <1>2, <1>3, <1>4, StrandFrame

LEMMA GlueTaskStrand ==
  ASSUME PInv, StrandInv, NEW e \in Execution,
         StartExecution(e) \/ StartJob(e) \/ JobRefused(e) \/ BuildReturns(e)
  PROVE  StrandInv'
<1>1. PTypeOK /\ ExecInv(e)
  BY PInvParts
<1>2. CASE StartExecution(e)
  BY <1>1, <1>2, StartExecutionStep, ExecutionStrand DEF StartExecution
<1>3. CASE StartJob(e)
  <2>1. exec[e].state = "BuildIcebergGeneration" /\ exec[e].call = NoItem /\ UNCHANGED <<vars, caller>>
    BY <1>1, <1>3 DEF StartJob, ExecInv, WaitsForItsCall, LambdaStates
  <2>2. CASE StepOf(e) /\ exec'[e] = [exec[e] EXCEPT !.glue = "running"]
    <3>1. /\ exec'[e].state = exec[e].state /\ exec'[e].generation = exec[e].generation
          /\ exec'[e].call = exec[e].call
      BY <1>1, <2>2 DEF PTypeOK, ExecutionRecord
    <3>. QED  BY <2>1, <2>2, <3>1, ExecutionStrand
  <2>3. CASE Enters(e, "MarkFailure")
    BY <2>1, <2>3, ExecutionStrand DEF Enters
  <2>. QED  BY <1>1, <1>3, <2>2, <2>3, StartJobStep
<1>4. CASE JobRefused(e)
  BY <1>1, <1>4, JobRefusedStep, ExecutionStrand DEF JobRefused, Enters
<1>5. CASE BuildReturns(e)
  BY <1>1, <1>5, BuildReturnsStep, ExecutionStrand DEF BuildReturns, Enters
<1>. QED  BY <1>2, <1>3, <1>4, <1>5

LEMMA RunStrand ==
  ASSUME PInv, StrandInv, JobStep \/ JobFails
  PROVE  StrandInv'
<1>1. /\ UNCHANGED <<items, pc, locals, reply, caller>>
      /\ \A e \in Execution : /\ exec'[e].state = exec[e].state /\ exec'[e].call = exec[e].call
                              /\ exec'[e].generation = exec[e].generation
  <2>1. CASE JobValidates \/ JobWrites \/ JobPutsEvidence
    BY <2>1 DEF JobValidates, JobWrites, JobPutsEvidence, vars
  <2>2. CASE JobSucceeds \/ JobFails
    <3>1. UNCHANGED <<vars, caller>>
      BY <2>2 DEF JobSucceeds, JobFails, JobEnds
    <3>. QED  BY <2>2, <3>1, PInvParts, JobEndsStep DEF JobSucceeds, JobFails, vars
  <2>. QED  BY <2>1, <2>2 DEF JobStep
<1>2. ASSUME NEW g \in Generation  PROVE WorkKept(g)
  <2>1. ASSUME NEW f \in Execution, Starts(f, g)  PROVE Starts(f, g)'
    BY <1>1, <2>1 DEF Starts, locals
  <2>2. ASSUME NEW f \in Execution, ExecTurn(f, g)  PROVE ExecTurn(f, g)'
    BY <1>1, <2>2 DEF ExecTurn
  <2>3. ASSUME NEW c \in Call, CallTurn(c, g)  PROVE CallTurn(c, g)'
    BY <1>1, <2>3 DEF CallTurn, locals
  <2>. QED  BY <2>1, <2>2, <2>3 DEF WorkKept
<1>3. ASSUME NEW c \in Call, pc'[c] # "idle"  PROVE Waited(c)'
  BY <1>1, <1>3 DEF StrandInv, Waited
<1>4. UNCHANGED genItem
  BY <1>1 DEF items
<1>. QED  BY <1>2, <1>3, <1>4, StrandFrame

LEMMA InvokeTaskStrand ==
  ASSUME PInv, StrandInv, NEW e \in Execution, InvokeTask(e)
  PROVE  StrandInv'
<1>1. PTypeOK /\ TypeOK /\ ExecInv(e)
  BY PInvParts
<1>2. PICK c \in Call : /\ Invoke(c, Payload(e)) /\ exec' = [exec EXCEPT ![e].call = c]
                        /\ caller' = [caller EXCEPT ![c] = e]
  BY DEF InvokeTask
<1>3. /\ exec[e].state \in LambdaStates /\ exec[e].call = NoItem /\ c # NoItem
      /\ StepOf(e) /\ exec'[e].state = exec[e].state /\ exec'[e].call = c
      /\ exec'[e].generation = exec[e].generation
  BY <1>1, <1>2, InvokeTaskStep, PipelineAssumption DEF InvokeTask
<1>4. /\ req'[c] = Payload(e) /\ pc'[c] = FirstStep(Payload(e)) /\ pc[c] = "idle"
      /\ \A o \in Call \ {c} : SameCall(o) /\ caller'[o] = caller[o]
      /\ caller'[c] = e /\ UNCHANGED genItem
  BY <1>1, <1>2 DEF Invoke, TypeOK, PTypeOK, SameCall, items
<1>5. ASSUME NEW g \in Generation  PROVE WorkKept(g)
  <2>1. ASSUME NEW f \in Execution, Starts(f, g)  PROVE Starts(f, g)'
    <3>1. CASE f = e
      <4>1. exec[e].state = "StartGenerationBuild" /\ exec[e].generation = g
        BY <1>3, <2>1, <3>1 DEF Starts
      <4>2. pc'[c] = "read"
        BY <1>4, <4>1, PayloadOf DEF FirstStep
      <4>. QED  BY <1>3, <3>1, <4>1, <4>2 DEF Starts
    <3>2. CASE f # e
      <4>1. exec'[f] = exec[f]
        BY <1>3, <3>2 DEF StepOf
      <4>2. exec[f].call # NoItem => exec[f].call \in Call \ {c}
        <5>1. ExecInv(f)
          BY PInvParts
        <5>. QED  BY <1>1, <1>4, <5>1 DEF ExecInv, WaitsForItsCall, PTypeOK, ExecutionRecord
      <4>3. exec[f].call # NoItem => SameCall(exec[f].call)
        BY <1>4, <4>2
      <4>. QED  BY <2>1, <4>1, <4>3 DEF Starts, SameCall
    <3>. QED  BY <3>1, <3>2
  <2>2. ASSUME NEW f \in Execution, ExecTurn(f, g)
        PROVE  ExecTurn(f, g)' \/ \E d \in Call : CallTurn(d, g)'
    <3>1. CASE f = e
      <4>1. /\ exec[e].state \in {"ValidateGeneration", "PublishGeneration", "MarkFailure"}
            /\ exec[e].generation = g
        BY <1>3, <2>2, <3>1 DEF ExecTurn, LambdaStates
      <4>2. CallTurn(c, g)'
        <5>1. /\ req'[c].generation = g
              /\ req'[c].action \in {"validate", "publish", "fail"}
              /\ pc'[c] \in {"load", "get_validated", "get_failing"}
          BY <1>4, <4>1, PayloadOf DEF FirstStep
        <5>. QED  BY <5>1 DEF CallTurn
      <4>. QED  BY <4>2
    <3>2. CASE f # e
      BY <1>3, <2>2, <3>2 DEF ExecTurn, StepOf
    <3>. QED  BY <3>1, <3>2
  <2>3. ASSUME NEW d \in Call, CallTurn(d, g)  PROVE CallTurn(d, g)'
    <3>1. d # c
      BY <1>4, <2>3 DEF CallTurn
    <3>2. SameCall(d)
      BY <1>4, <3>1
    <3>. QED  BY <2>3, <3>2 DEF CallTurn, SameCall
  <2>. QED  BY <2>1, <2>2, <2>3 DEF WorkKept
<1>6. ASSUME NEW d \in Call, pc'[d] # "idle"  PROVE Waited(d)'
  <2>1. CASE d = c
    BY <1>3, <1>4, <2>1 DEF Waited
  <2>2. CASE d # c
    <3>1. SameCall(d) /\ caller'[d] = caller[d]
      BY <1>4, <2>2
    <3>2. Waited(d)
      BY <1>6, <3>1 DEF StrandInv, SameCall
    <3>3. caller[d] # e
      BY <1>3, <3>2, PipelineAssumption DEF Waited
    <3>. QED  BY <1>3, <3>1, <3>2, <3>3 DEF Waited, StepOf
  <2>. QED  BY <2>1, <2>2
<1>. QED  BY <1>4, <1>5, <1>6, StrandFrame

LEMMA TaskReturnsStrand ==
  ASSUME PInv, StrandInv, NEW e \in Execution, TaskReturns(e), \A g \in Generation : TurnInv(g)
  PROVE  StrandInv'
<1>1. PTypeOK /\ TypeOK /\ ExecInv(e)
  BY PInvParts
<1> DEFINE c == exec[e].call
           code == reply[c].code
<1>2. /\ c \in Call /\ c # NoItem /\ exec[e].state \in LambdaStates /\ StepOf(e)
      /\ exec'[e].state = After(exec[e].state, code)
      /\ exec'[e].call = NoItem
      /\ exec[e].state = "RegisterBatch" => exec'[e].generation = reply[c].generation
      /\ exec[e].state # "RegisterBatch" => exec'[e].generation = exec[e].generation
  BY <1>1, ReturnedFields DEF TaskReturns
<1>3. /\ req[c] = Payload(e) /\ pc[c] = "done" /\ pc'[c] = "idle"
      /\ \A o \in Call \ {c} : SameCall(o) /\ caller'[o] = caller[o]
      /\ UNCHANGED genItem
  BY <1>1, <1>2 DEF TaskReturns, Release, ExecInv, WaitsForItsCall, TypeOK, PTypeOK, SameCall, items
<1>4. ASSUME NEW f \in Execution, f # e
      PROVE  exec'[f] = exec[f] /\ exec[f].call # c
  BY <1>2, <1>4, WaitsAlone DEF StepOf
<1>5. ASSUME NEW g \in Generation  PROVE WorkKept(g)
  <2>1. ASSUME NEW f \in Execution, Starts(f, g)  PROVE Starts(f, g)'
    <3>1. CASE f = e
      <4>1. exec[e].state = "RegisterBatch" /\ code = "REGISTERED" /\ reply[c].generation = g
        BY <1>2, <1>3, <2>1, <3>1 DEF Starts
      <4>2. exec'[e].state = "StartGenerationBuild" /\ exec'[e].generation = g
        BY <1>2, <4>1, AfterOf
      <4>. QED  BY <1>2, <3>1, <4>2 DEF Starts
    <3>2. CASE f # e
      <4>1. exec'[f] = exec[f] /\ exec[f].call # c
        BY <1>4, <3>2
      <4>2. exec[f].call # NoItem => exec[f].call \in Call
        BY <1>1 DEF PTypeOK, ExecutionRecord
      <4>3. exec[f].call # NoItem => SameCall(exec[f].call)
        BY <1>3, <4>1, <4>2
      <4>. QED  BY <2>1, <4>1, <4>3 DEF Starts, SameCall
    <3>. QED  BY <3>1, <3>2
  <2>2. ASSUME NEW f \in Execution, ExecTurn(f, g)  PROVE ExecTurn(f, g)'
    <3>1. f # e
      BY <1>2, <2>2 DEF ExecTurn, LambdaStates
    <3>. QED  BY <1>4, <2>2, <3>1 DEF ExecTurn
  <2>3. ASSUME NEW d \in Call, CallTurn(d, g), genItem[g].status # "PUBLISHED"
        PROVE  CallTurn(d, g)' \/ ExecTurn(e, g)'
    <3>1. CASE d # c
      <4>1. SameCall(d)
        BY <1>3, <3>1
      <4>. QED  BY <2>3, <4>1 DEF CallTurn, SameCall
    <3>2. CASE d = c
      <4>1. CallTurnInv(d, g)
        BY DEF TurnInv
      <4>2. /\ req[c].generation = g /\ req[c].action \in {"start_build", "validate", "publish"}
            /\ req[c].action = "start_build" => code = "BUILDING"
            /\ req[c].action = "publish" => code # "PUBLISHED"
        BY <1>3, <2>3, <3>2, <4>1 DEF CallTurn, CallTurnInv
      <4>3. /\ exec[e].generation = g /\ exec[e].state # "RegisterBatch"
            /\ \/ exec[e].state = "StartGenerationBuild" /\ code = "BUILDING"
               \/ exec[e].state = "ValidateGeneration"
               \/ exec[e].state = "PublishGeneration" /\ code # "PUBLISHED"
        <5>1. CASE exec[e].state = "RegisterBatch"
          BY <1>3, <4>2, <5>1, PayloadOf
        <5>2. CASE exec[e].state = "MarkFailure"
          BY <1>3, <4>2, <5>2, PayloadOf
        <5>3. CASE exec[e].state \in {"StartGenerationBuild", "ValidateGeneration", "PublishGeneration"}
          BY <1>3, <4>2, <5>3, PayloadOf
        <5>. QED  BY <1>2, <5>1, <5>2, <5>3 DEF LambdaStates
      <4>4. /\ exec'[e].state \in {"BuildIcebergGeneration", "PublishGeneration", "MarkFailure"}
            /\ exec'[e].generation = g
        BY <1>2, <4>3, AfterOf
      <4>. QED  BY <1>2, <4>4 DEF ExecTurn
    <3>. QED  BY <3>1, <3>2
  <2>. QED  BY <2>1, <2>2, <2>3 DEF WorkKept
<1>6. ASSUME NEW d \in Call, pc'[d] # "idle"  PROVE Waited(d)'
  <2>1. d # c
    BY <1>3, <1>6
  <2>2. SameCall(d) /\ caller'[d] = caller[d]
    BY <1>3, <2>1
  <2>3. Waited(d)
    BY <1>6, <2>2 DEF StrandInv, SameCall
  <2>4. caller[d] # e
    BY <2>1, <2>3 DEF Waited
  <2>. QED  BY <1>4, <2>2, <2>3, <2>4 DEF Waited
<1>. QED  BY <1>3, <1>5, <1>6, StrandFrame

\* How a step of an invocation changes the status of a generation.
LEMMA StatusMoves ==
  ASSUME PInv, NEW c \in Call, HandlerStep(c), NEW g \in Generation
  PROVE  \/ genItem'[g].status = genItem[g].status
         \/ /\ AcceptStep(c) /\ reply'[c].generation = g /\ genItem'[g].status = "REGISTERED"
         \/ /\ MoveStep(c) /\ req[c].generation = g
            /\ req[c].action = "start_build" => genItem'[g].status = "BUILDING"
            /\ req[c].action = "validate" =>
                 genItem[g].status = "BUILDING" /\ genItem'[g].status = "VALIDATED"
            /\ req[c].action = "fail" => genItem'[g].status = "FAILED"
         \/ PublishStep(c) /\ req[c].generation = g /\ genItem'[g].status = "PUBLISHED"
<1>1. TypeOK /\ (AcceptStep(c) \/ MoveStep(c) \/ PublishStep(c) \/ ReadStep(c))
  BY PInvParts, StepFrame
<1>2. CASE AcceptStep(c)
  BY <1>1, <1>2 DEF AcceptStep, TypeOK
<1>3. CASE MoveStep(c)
  <2> DEFINE h == req[c].generation
  <2>1. /\ h \in Generation /\ genItem' = [genItem EXCEPT ![h] = Updated(c, genItem[h])]
        /\ seen[c] \in Allowed(req[c].action) /\ genItem[h].status = seen[c]
    BY <1>3 DEF MoveStep
  <2>2. /\ genItem'[h] = Updated(c, genItem[h]) /\ (g # h => genItem'[g] = genItem[g])
        /\ genItem[h] \in GenerationItem /\ loaded[c] \in Evidence \cup {NoItem}
    BY <1>1, <2>1 DEF TypeOK
  <2>3. /\ req[c].action = "start_build" => genItem'[h].status = "BUILDING"
        /\ req[c].action = "validate" =>
             genItem[h].status = "BUILDING" /\ genItem'[h].status = "VALIDATED"
        /\ req[c].action = "fail" => genItem'[h].status = "FAILED"
    BY <2>1, <2>2, UpdatedFields DEF Allowed
  <2>. QED  BY <1>3, <2>2, <2>3
<1>4. CASE PublishStep(c)
  BY <1>1, <1>4 DEF PublishStep, TypeOK, GenerationItem
<1>5. CASE ReadStep(c)
  BY <1>5 DEF ReadStep, items
<1>. QED  BY <1>1, <1>2, <1>3, <1>4, <1>5

LEMMA RegisteredStrand ==
  ASSUME PInv, StrandInv, NEW c \in Call, FunctionStep(c), NEW g \in Generation,
         genItem'[g].status = "REGISTERED"
  PROVE  \E e \in Execution : Starts(e, g)'
<1>1. /\ PTypeOK /\ TypeOK /\ UNCHANGED <<exec, req, caller>> /\ pc[c] \notin {"idle", "done"}
      /\ \A o \in Call \ {c} : SameCall(o) /\ HandlerStep(c)
      /\ AcceptStep(c) \/ MoveStep(c) \/ PublishStep(c) \/ ReadStep(c)
  BY PInvParts, StepFrame DEF FunctionStep
<1>h. HandlerStep(c)
  BY DEF FunctionStep
<1>2. CASE AcceptStep(c) /\ reply'[c].generation = g
  <2> DEFINE e == caller[c]
  <2>1. e \in Execution /\ exec[e].call = c /\ c # NoItem
    BY <1>1, PipelineAssumption DEF StrandInv, Waited
  <2>2. exec[e].state \in LambdaStates /\ req[c] = Payload(e)
    BY <2>1, PInvParts DEF ExecInv, WaitsForItsCall
  <2>3. exec[e].state = "RegisterBatch"
    BY <1>2, <2>2, PayloadOf DEF AcceptStep, LambdaStates
  <2>4. pc'[c] = "get_pointer" /\ reply'[c].code = "REGISTERED"
    BY <1>2 DEF AcceptStep
  <2>5. ASSUME NEW f \in Execution, f = e  PROVE Starts(f, g)'
    BY <1>1, <1>2, <2>1, <2>3, <2>4, <2>5 DEF Starts
  <2>. QED  BY <2>1, <2>5
<1>3. CASE genItem[g].status = "REGISTERED"
  <2>1. PICK f \in Execution : Starts(f, g)
    BY <1>3 DEF StrandInv
  <2>2. CASE exec[f].call # c
    <3>1. exec[f].call # NoItem => SameCall(exec[f].call)
      BY <1>1, <2>2 DEF PTypeOK, ExecutionRecord
    <3>. QED  BY <1>1, <2>1, <3>1 DEF Starts, SameCall
  <2>3. CASE exec[f].call = c
    <3>1. c # NoItem /\ req[c] = Payload(f)
      BY <2>3, PInvParts, PipelineAssumption DEF ExecInv, WaitsForItsCall
    <3>2. CASE exec[f].state = "RegisterBatch"
      <4>1. pc[c] = "get_pointer" /\ reply[c].code = "REGISTERED" /\ reply[c].generation = g
        BY <1>1, <2>1, <2>3, <3>2 DEF Starts
      <4>2. ReadStep(c)
        BY <1>1, <4>1 DEF AcceptStep, MoveStep, PublishStep
      <4>3. pc'[c] = "done" /\ reply'[c].code = "REGISTERED" /\ reply'[c].generation = g
        BY <4>1, <4>2 DEF ReadStep
      <4>. QED  BY <1>1, <2>3, <3>1, <3>2, <4>3 DEF Starts
    <3>3. CASE exec[f].state # "RegisterBatch"
      <4>1. /\ exec[f].state = "StartGenerationBuild" /\ exec[f].generation = g
            /\ pc[c] = "read" \/ (pc[c] = "update" /\ seen[c] = "REGISTERED")
        BY <2>1, <2>3, <3>1, <3>3 DEF Starts
      <4>2. req[c].action = "start_build" /\ req[c].generation = g
        BY <3>1, <4>1, PayloadOf
      <4>3. ~AcceptStep(c) /\ ~PublishStep(c)
        BY <4>1 DEF AcceptStep, PublishStep
      <4>4. ~MoveStep(c)
        <5>1. ASSUME MoveStep(c)  PROVE genItem'[g].status = "BUILDING"
          <6>1. genItem[g] \in GenerationItem /\ loaded[c] \in Evidence \cup {NoItem}
            BY <1>1 DEF TypeOK
          <6>2. genItem'[g] = Updated(c, genItem[g])
            BY <1>1, <4>2, <5>1 DEF MoveStep, TypeOK
          <6>. QED  BY <4>2, <6>1, <6>2, UpdatedFields
        <5>. QED  BY <5>1
      <4>5. ReadStep(c) /\ pc[c] = "read"
        BY <1>1, <1>3, <4>1, <4>2, <4>3, <4>4 DEF ReadStep
      <4>6. pc'[c] = "update" /\ seen'[c] = "REGISTERED"
        BY <1>3, <4>2, <4>5 DEF ReadStep, Allowed
      <4>. QED  BY <1>1, <2>3, <3>1, <4>1, <4>6 DEF Starts
    <3>. QED  BY <3>2, <3>3
  <2>. QED  BY <2>2, <2>3
<1>4. CASE MoveStep(c) /\ req[c].generation = g /\ genItem[g].status # "REGISTERED"
  <2>1. req[c].action \in {"start_build", "validate", "fail"}
    BY <1>4 DEF MoveStep
  <2>2. genItem[g] \in GenerationItem /\ loaded[c] \in Evidence \cup {NoItem}
    BY <1>1 DEF TypeOK
  <2>3. genItem'[g] = Updated(c, genItem[g])
    BY <1>1, <1>4 DEF MoveStep, TypeOK
  <2>. QED  BY <2>1, <2>2, <2>3, UpdatedFields
<1>. QED  BY <1>h, <1>2, <1>3, <1>4, StatusMoves

LEMMA BuildingStrand ==
  ASSUME PInv, StrandInv, NEW c \in Call, FunctionStep(c), NEW g \in Generation, TurnInv(g),
         genItem'[g].status \in {"BUILDING", "VALIDATED"}
  PROVE  (\E e \in Execution : ExecTurn(e, g)') \/ (\E d \in Call : CallTurn(d, g)')
<1>1. /\ PTypeOK /\ TypeOK /\ CallInv(c) /\ UNCHANGED <<exec, req>> /\ pc[c] \notin {"idle", "done"}
      /\ pc'[c] # "idle"
      /\ \A o \in Call \ {c} : SameCall(o)
      /\ AcceptStep(c) \/ MoveStep(c) \/ PublishStep(c) \/ ReadStep(c)
  BY PInvParts, StepFrame DEF FunctionStep, IInv
<1>2. HandlerStep(c)
  BY DEF FunctionStep
<1>3. CASE genItem[g].status \in {"BUILDING", "VALIDATED"}
  <2>1. ASSUME NEW e \in Execution, ExecTurn(e, g)  PROVE ExecTurn(e, g)'
    BY <1>1, <2>1 DEF ExecTurn
  <2>2. ASSUME NEW d \in Call, d # c, CallTurn(d, g)  PROVE CallTurn(d, g)'
    <3>1. SameCall(d)
      BY <1>1, <2>2
    <3>. QED  BY <2>2, <3>1 DEF CallTurn, SameCall
  <2>3. ASSUME CallTurn(c, g)  PROVE CallTurn(c, g)'
    <3>1. /\ req[c].action \in {"validate", "publish", "fail"} /\ req[c].generation = g
          /\ CallTurnInv(c, g)
      BY <1>1, <2>3 DEF CallTurn, TurnInv
    <3>2. CASE req[c].action \in {"validate", "publish"}
      BY <1>1, <3>1, <3>2 DEF CallTurn
    <3>3. CASE req[c].action = "fail"
      <4>1. pc[c] \in {"get_failing", "read", "update"}
        BY <1>1, <3>3 DEF CallInv, RunsItsAction, StepsOf
      <4>2. ~AcceptStep(c) /\ ~PublishStep(c)
        BY <3>3 DEF AcceptStep, PublishStep
      <4>3. ~MoveStep(c)
        <5>1. ASSUME MoveStep(c)  PROVE genItem'[g].status = "FAILED"
          <6>1. genItem[g] \in GenerationItem /\ loaded[c] \in Evidence \cup {NoItem}
            BY <1>1 DEF TypeOK
          <6>2. genItem'[g] = Updated(c, genItem[g])
            BY <1>1, <3>1, <5>1 DEF MoveStep, TypeOK
          <6>. QED  BY <3>3, <6>1, <6>2, UpdatedFields
        <5>. QED  BY <5>1
      <4>4. pc'[c] # "done"
        BY <1>1, <1>3, <2>3, <3>1, <3>3, <4>1, <4>2, <4>3 DEF ReadStep, Allowed, CallTurnInv
      <4>. QED  BY <1>1, <3>1, <3>3, <4>4 DEF CallTurn
    <3>. QED  BY <3>1, <3>2, <3>3
  <2>. QED  BY <1>3, <2>1, <2>2, <2>3 DEF StrandInv
<1>4. CASE genItem[g].status \notin {"BUILDING", "VALIDATED"}
  <2>1. MoveStep(c) /\ req[c].generation = g /\ req[c].action = "start_build"
    BY <1>2, <1>4, StatusMoves DEF MoveStep
  <2>2. pc'[c] = "done" /\ reply'[c].code = "BUILDING"
    BY <2>1 DEF MoveStep, Target
  <2>3. CallTurn(c, g)'
    BY <1>1, <2>1, <2>2 DEF CallTurn
  <2>. QED  BY <2>3
<1>. QED  BY <1>3, <1>4

LEMMA FunctionStepStrand ==
  ASSUME PInv, StrandInv, NEW c \in Call, FunctionStep(c), \A g \in Generation : TurnInv(g)
  PROVE  StrandInv'
<1>1. /\ UNCHANGED <<exec, caller>> /\ pc[c] \notin {"idle", "done"}
      /\ \A o \in Call \ {c} : SameCall(o)
  BY PInvParts, StepFrame DEF FunctionStep
<1>2. ASSUME NEW d \in Call, pc'[d] # "idle"  PROVE Waited(d)'
  BY <1>1, <1>2 DEF StrandInv, Waited, SameCall
<1>. QED  BY <1>2, RegisteredStrand, BuildingStrand DEF StrandInv

LEMMA StrandsInv ==
  ASSUME PInv, PNext, FaultFree'
  PROVE  StrandInv'
<1>1. PTypeOK /\ NoneLost'
  BY PInvParts DEF FaultFree, NoneLost
<1>2. /\ budget'.stop = MaxStop /\ budget'.raise = MaxRaise /\ budget'.lost = MaxLost
      /\ budget \in [lost : 0..MaxLost, stop : 0..MaxStop, raise : 0..MaxRaise]
      /\ {MaxLost, MaxStop, MaxRaise} \subseteq Nat
  BY <1>1, PipelineAssumption DEF FaultFree, PTypeOK
<1>3. \A e \in Execution : ~Lose(e) /\ ~StopExecution(e)
  BY <1>2 DEF Lose, StopExecution
<1>4. \A c \in Call : ~FunctionRaises(c)
  BY <1>2 DEF FunctionRaises
<1>5. ASSUME NEW e \in Execution, StartJob(e)  PROVE budget' = budget
  BY <1>2, <1>5 DEF StartJob
<1>6. budget' = budget
  BY <1>3, <1>4, <1>5 DEF PNext, Machine, JobStep, StartExecution, InvokeTask, TaskReturns, JobRefused,
     BuildReturns, FunctionStep, AbandonedReturns, JobValidates, JobWrites, JobPutsEvidence,
     JobSucceeds, JobFails, JobEnds
<1>7. FaultFree
  BY <1>6 DEF FaultFree
<1>8. StrandInv /\ \A g \in Generation : TurnInv(g)
  BY <1>1, <1>7, PInvParts, TurnsInv
<1>9. ASSUME NEW e \in Execution,
             StartExecution(e) \/ StartJob(e) \/ JobRefused(e) \/ BuildReturns(e)
      PROVE  StrandInv'
  BY <1>1, <1>8, <1>9, GlueTaskStrand
<1>10. ASSUME NEW e \in Execution, InvokeTask(e) \/ TaskReturns(e)  PROVE StrandInv'
  BY <1>8, <1>10, InvokeTaskStrand, TaskReturnsStrand
<1>11. ASSUME NEW c \in Call, FunctionStep(c)  PROVE StrandInv'
  BY <1>8, <1>11, FunctionStepStrand
<1>12. ASSUME NEW c \in Call  PROVE ~AbandonedReturns(c)
  BY <1>8 DEF AbandonedReturns, Release, StrandInv, Waited
<1>13. CASE JobStep \/ JobFails
  BY <1>8, <1>13, RunStrand
<1>. QED  BY <1>3, <1>4, <1>9, <1>10, <1>11, <1>12, <1>13 DEF PNext, Machine

-----------------------------------------------------------------------------
(* Theorems *)

LEMMA PInitInv == PInit => PInv
<1> SUFFICES ASSUME PInit  PROVE PInv
  OBVIOUS
<1>1. IInv /\ TypeOK
  BY InitInv DEF PInit, IInv
<1>2. PTypeOK
  BY PipelineAssumption DEF PInit, PTypeOK, ExecutionRecord, NotStarted, States, Terminal, FailedStates,
                            LambdaStates
<1>3. /\ \A e \in Execution : exec[e] = NotStarted
      /\ \A c \in Call : pc[c] = "idle" /\ reply[c] = NoReply
      /\ \A g \in Generation : genItem[g] = AbsentGeneration
      /\ published = << >> /\ job = NoItem
  BY DEF PInit, Init
<1>4. ASSUME NEW e \in Execution  PROVE ExecInv(e)
  BY <1>3, PipelineAssumption DEF ExecInv, WaitsForItsCall, CarriesItsData, EndedAsPublished, NotStarted, Working
<1>5. ASSUME NEW c \in Call  PROVE ReplyInv(c)
  BY <1>3 DEF ReplyInv, NoReply
<1>6. OnePublisher /\ JobInv
  BY <1>3 DEF OnePublisher, JobInv, NotStarted, Published
<1>7. CountInv
  <2>1. ASSUME NEW g \in Generation  PROVE Building(g) = {}
    BY <1>3 DEF Building
  <2>2. Tried = {}
    BY <1>3 DEF Tried, NotStarted
  <2>3. \A g \in Generation : genItem[g].attempt = 0
    BY <1>3 DEF AbsentGeneration
  <2>4. Cardinality({}) = 0
    BY FS_EmptySet
  <2>5. ASSUME NEW g \in Generation
        PROVE  genItem[g].attempt + Cardinality(Building(g)) <= Cardinality(Tried)
    BY <2>1, <2>2, <2>3, <2>4
  <2>. QED  BY <2>5 DEF CountInv
<1>8. ASSUME NEW g \in Generation  PROVE TurnInv(g)
  <2>1. (\A e \in Execution : ~ExecTurn(e, g)) /\ (\A c \in Call : ~CallTurn(c, g)) /\ ~JobOn(g)
    BY <1>3 DEF ExecTurn, NotStarted, CallTurn, JobOn
  <2>. QED  BY <1>3, <2>1 DEF TurnInv, OneTurn, ExecTurnInv, CallTurnInv, JobTurnInv, CompleteInv, AbsentGeneration
<1>9. StrandInv
  BY <1>3 DEF StrandInv, AbsentGeneration
<1>. QED  BY <1>1, <1>2, <1>4, <1>5, <1>6, <1>7, <1>8, <1>9 DEF PInv, DriveInv

LEMMA PStutter ==
  ASSUME PInv, UNCHANGED pvars
  PROVE  PInv'
<1>1. IInv'
  BY StutterInv DEF PInv, pvars
<1>2. DriveInv'
  <2>1. ASSUME NEW e \in Execution  PROVE ExecInv(e)'
    <3>1. ExecInv(e) /\ UNCHANGED <<exec, caller, pc, req, genItem, published>>
      BY DEF PInv, DriveInv, pvars, vars, items, locals
    <3>2. Payload(e)' = Payload(e)
      BY <3>1 DEF Payload, VersionExpected
    <3>3. WaitsForItsCall(e)'
      BY <3>1, <3>2 DEF ExecInv, WaitsForItsCall
    <3>4. CarriesItsData(e)' /\ EndedAsPublished(e)'
      BY <3>1 DEF ExecInv, CarriesItsData, EndedAsPublished, PublishedAt
    <3>. QED  BY <3>3, <3>4 DEF ExecInv
  <2>2. (\A c \in Call : ReplyInv(c))'
    BY DEF PInv, DriveInv, ReplyInv, pvars, vars, items, locals
  <2>3. OnePublisher' /\ JobInv'
    BY DEF PInv, DriveInv, OnePublisher, Published, JobInv, pvars, vars, items, locals
  <2>4. CountInv'
    <3>1. (\A g \in Generation : Building(g)' = Building(g)) /\ Tried' = Tried /\ UNCHANGED genItem
      BY DEF Building, Tried, pvars, vars, items, locals
    <3>. QED  BY <3>1 DEF PInv, DriveInv, CountInv
  <2>. QED  BY <2>1, <2>2, <2>3, <2>4 DEF DriveInv
<1>3. NoneLost' => \A g \in Generation : TurnInv(g)'
  BY DEF PInv, NoneLost, TurnInv, OneTurn, ExecTurn, CallTurn, ExecTurnInv, CallTurnInv, Built, JobOn,
         FailsOrBuilds, JobTurnInv, CompleteInv, pvars, vars, items, locals
<1>4. FaultFree' => StrandInv'
  BY DEF PInv, FaultFree, StrandInv, Waited, Starts, ExecTurn, CallTurn, pvars, vars, items, locals
<1>. QED  BY <1>1, <1>2, <1>3, <1>4 DEF PInv, PTypeOK, pvars

LEMMA PStep == PInv /\ [PNext]_pvars => PInv'
<1>1. ASSUME PInv, PNext  PROVE PInv'
  <2>1. IInv' /\ PTypeOK' /\ DriveInv'
    BY <1>1, DriveStep
  <2>2. NoneLost' => \A g \in Generation : TurnInv(g)'
    BY <1>1, TurnsInv
  <2>3. FaultFree' => StrandInv'
    BY <1>1, StrandsInv
  <2>. QED  BY <2>1, <2>2, <2>3 DEF PInv
<1>. QED  BY <1>1, PStutter

\* The inductive invariant: what executions, invocations and the Glue run rely on
\* between two of their steps, whatever is lost, stopped or raised; that one of them at
\* a time works on a generation while no reply is lost; and that somebody does while
\* there is no fault at all.
THEOREM PipelineInvariance == PipelineSpec => []PInv
<1>. QED  BY PInitInv, PStep, PTL DEF PipelineSpec

\* Step Functions and the Glue job change the control table only as the control plane's
\* own specification allows, retries, lost replies and stopped executions included.
THEOREM PipelineRefinement == PipelineSpec => ImplementsControlPlane
<1>1. PInit => Init
  BY DEF PInit
<1>2. PInv /\ [PNext]_pvars => [Next]_vars
  BY Refines DEF pvars
<1>. QED  BY <1>1, <1>2, PipelineInvariance, PTL DEF PipelineSpec, Spec, ImplementsControlPlane

\* So the log of publications that the executions leave is the abstract one: permanent
\* batch identity, and an append-only log without repetitions.
THEOREM PipelinePublication == PipelineSpec => ImplementsPublication
<1>. QED  BY PipelineRefinement, Refinement, PTL DEF ImplementsControlPlane

\* PublishGeneration overwrites nobody's publication: the machine reaches Succeeded only
\* by publishing the successor of the version that its RegisterBatch read.
THEOREM SuccessTheorem == PipelineSpec => []SuccessSucceedsItsBase
<1>1. PInv => SuccessSucceedsItsBase
  BY PInvParts DEF SuccessSucceedsItsBase, ExecInv, EndedAsPublished
<1>. QED  BY <1>1, PipelineInvariance, PTL

\* A batch and digest has one business effect: of the executions of a generation one
\* reaches Succeeded, and ReplaySucceeded is reached on a published generation only.
THEOREM OneEffectTheorem == PipelineSpec => []OneBusinessEffect
<1>1. PInv => OneBusinessEffect
  BY PInvParts DEF OneBusinessEffect, OnePublisher, ExecInv, EndedAsPublished, PublishedAt
<1>. QED  BY <1>1, PipelineInvariance, PTL

\* Partial data remains inactive as long as no reply of a task is lost: what _publish
\* points to has each table's rows once, from the attempt that was validated.
THEOREM CompleteTheorem == PipelineSpec => [](NoneLost => PublishedIsComplete)
<1>1. PInv => (NoneLost => PublishedIsComplete)
  BY PInvParts DEF PublishedIsComplete, TurnInv, CompleteInv
<1>. QED  BY <1>1, PipelineInvariance, PTL

\* Where lambda_retry never fires, whatever is stopped, crashes or fails in Glue.
THEOREM LosslessTheorem ==
  ASSUME MaxLost = 0
  PROVE  PipelineSpec => []PublishedIsComplete
<1>1. PInv => PublishedIsComplete
  <2>1. PTypeOK => NoneLost
    BY DEF PTypeOK, NoneLost
  <2>. QED  BY <2>1, PInvParts DEF PublishedIsComplete, TurnInv, CompleteInv
<1>. QED  BY <1>1, PipelineInvariance, PTL

\* Without faults every managed failure is routed into the lifecycle record: at rest a
\* generation is published or FAILED, so that the next execution can rebuild it.
THEOREM StrandTheorem == PipelineSpec => []FaultFreeStrandsNothing
<1>1. ASSUME PInv, FaultFree, NEW g \in Generation, Settled(g)
      PROVE  genItem[g].status \in {"ABSENT", "FAILED", "PUBLISHED"}
  <2>1. /\ TypeOK
        /\ genItem[g].status = "REGISTERED" => \E e \in Execution : Starts(e, g)
        /\ genItem[g].status \in {"BUILDING", "VALIDATED"} =>
              (\E e \in Execution : ExecTurn(e, g)) \/ \E c \in Call : CallTurn(c, g)
    BY <1>1, PInvParts DEF StrandInv
  <2>2. genItem[g].status \in
          {"ABSENT", "REGISTERED", "BUILDING", "VALIDATED", "PUBLISHED", "FAILED"}
    BY <2>1 DEF TypeOK, GenerationItem, Status
  <2>3. \A e \in Execution : ~Starts(e, g) /\ ~ExecTurn(e, g)
    BY <1>1 DEF Settled, Starts, ExecTurn, Terminal, FailedStates
  <2>4. \A c \in Call : ~CallTurn(c, g)
    BY <1>1 DEF Settled, CallTurn
  <2>. QED  BY <2>1, <2>2, <2>3, <2>4
<1>2. PInv => FaultFreeStrandsNothing
  BY <1>1 DEF FaultFreeStrandsNothing, NothingStranded
<1>. QED  BY <1>2, PipelineInvariance, PTL

=============================================================================
