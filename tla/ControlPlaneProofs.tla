------------------------- MODULE ControlPlaneProofs -------------------------
(***************************************************************************)
(* Theorems about ControlPlane for any batches, generations, derivation of *)
(* generation identifiers, and number of concurrent invocations.           *)
(***************************************************************************)
EXTENDS ControlPlane, TLAPS

-----------------------------------------------------------------------------
(* Requests, by the control points of their actions *)

LEMMA FirstStepType == \A r \in Request : FirstStep(r) \in PC /\ FirstStep(r) \in StepsOf(r.action)
  BY DEF Request, FirstStep, PC, StepsOf

LEMMA RegisterRequest ==
  ASSUME TypeOK, NEW c \in Call, RunsItsAction(c),
         pc[c] \in {"get_batch", "put", "reget_batch", "get_generation", "get_pointer"}
  PROVE  /\ req[c].action = "register"
         /\ req[c].batch \in Batch
         /\ req[c].digest \in Digest
         /\ req[c].location \in Location
  BY DEF TypeOK, RunsItsAction, StepsOf, Request

LEMMA GenerationRequest ==
  ASSUME TypeOK, NEW c \in Call, RunsItsAction(c),
         pc[c] \in {"load", "check", "read", "update", "get_validated", "transact", "get_failing"}
  PROVE  /\ req[c].generation \in Generation
         /\ req[c].action \in {"start_build", "validate", "publish", "fail"}
         /\ pc[c] \in {"load", "check"} => req[c].action = "validate"
         /\ pc[c] \in {"read", "update"} => req[c].action \in {"start_build", "validate", "fail"}
         /\ pc[c] \in {"get_validated", "transact"} =>
               req[c].action = "publish" /\ req[c].expected \in Nat
         /\ pc[c] = "get_failing" => req[c].action = "fail"
  BY DEF TypeOK, RunsItsAction, StepsOf, Request

-----------------------------------------------------------------------------
(* Types *)

LEMMA InitType == Init => TypeOK
  BY DEF Init, TypeOK, AbsentGeneration, GenerationItem, NoPointer, Pointer, Request, PC,
         NoReply, Reply, Code, Status

LEMMA FinishType ==
  ASSUME TypeOK, NEW c \in Call, NEW code \in Code, Finish(c, code)
  PROVE  pc' \in [Call -> PC] /\ reply' \in [Call -> Reply]
  BY DEF TypeOK, Finish, Goto, PC, Reply

LEMMA ExistingRegistrationType ==
  ASSUME TypeOK, NEW c \in Call, req[c].batch \in Batch, batchItem[req[c].batch] # NoItem,
         ExistingRegistration(c)
  PROVE  pc' \in [Call -> PC] /\ reply' \in [Call -> Reply]
<1>1. batchItem[req[c].batch] \in Identity
  BY DEF TypeOK
<1>2. CASE Finish(c, "CONFLICT")
  BY <1>2, FinishType DEF Code
<1>3. CASE /\ Goto(c, "get_generation")
           /\ reply' = [reply EXCEPT ![c].generation = batchItem[req[c].batch].generation]
  <2>1. batchItem[req[c].batch].generation \in Generation
    BY <1>1 DEF Identity
  <2>2. reply[c] \in Reply
    BY DEF TypeOK
  <2>3. [reply[c] EXCEPT !.generation = batchItem[req[c].batch].generation] \in Reply
    BY <2>1, <2>2 DEF Reply
  <2>4. reply' \in [Call -> Reply]
    BY <1>3, <2>3 DEF TypeOK
  <2>. QED BY <1>3, <2>4 DEF Goto, PC, TypeOK
<1>. QED  BY <1>2, <1>3 DEF ExistingRegistration

LEMMA RegisterType ==
  ASSUME TypeOK, NEW c \in Call, RunsItsAction(c), Register(c)
  PROVE  TypeOK'
<1>1. CASE GetBatch(c)
  <2>1. req[c].batch \in Batch
    BY <1>1, RegisterRequest DEF GetBatch
  <2>2. pc' \in [Call -> PC] /\ reply' \in [Call -> Reply]
    BY <1>1, <2>1, ExistingRegistrationType DEF GetBatch, Goto, TypeOK, PC
  <2>. QED  BY <1>1, <2>2 DEF TypeOK, GetBatch, items, locals
<1>2. CASE PutIdentity(c)
  <2>1. /\ req[c].batch \in Batch /\ req[c].digest \in Digest /\ req[c].location \in Location
        /\ GenerationId[req[c].batch][req[c].digest] \in Generation
    BY <1>2, RegisterRequest, GenerationIdAssumption DEF PutIdentity
  <2> DEFINE g == GenerationId[req[c].batch][req[c].digest]
  <2>2. [generation |-> g, digest |-> req[c].digest, location |-> req[c].location] \in Identity
    BY <2>1 DEF Identity
  <2>3. [status |-> "REGISTERED", digest |-> req[c].digest, attempt |-> 0, validation |-> NoItem]
           \in GenerationItem
    BY <2>1 DEF GenerationItem, Status
  <2>4. [code |-> "REGISTERED", generation |-> g, version |-> 0] \in Reply
    BY <2>1 DEF Reply, Code
  <2>5. batchItem' \in [Batch -> Identity \cup {NoItem}] /\ genItem' \in [Generation -> GenerationItem]
    BY <1>2, <2>1, <2>2, <2>3 DEF TypeOK, PutIdentity
  <2>6. pc' \in [Call -> PC] /\ reply' \in [Call -> Reply]
    BY <1>2, <2>4 DEF TypeOK, PutIdentity, Goto, PC
  <2>. QED  BY <1>2, <2>5, <2>6 DEF TypeOK, PutIdentity, locals
<1>3. CASE RegetBatch(c)
  <2>1. req[c].batch \in Batch
    BY <1>3, RegisterRequest DEF RegetBatch
  <2>2. pc' \in [Call -> PC] /\ reply' \in [Call -> Reply]
    BY <1>3, <2>1, ExistingRegistrationType, FinishType DEF RegetBatch, Code
  <2>. QED  BY <1>3, <2>2 DEF TypeOK, RegetBatch, items, locals
<1>4. CASE GetGeneration(c)
  <2>1. Classification(genItem[reply[c].generation].status) \in Code
    BY DEF Classification, Code
  <2>2. pc' \in [Call -> PC] /\ reply' \in [Call -> Reply]
    <3>1. [reply[c] EXCEPT !.code = Classification(genItem[reply[c].generation].status)] \in Reply
      BY <2>1 DEF TypeOK, Reply
    <3>. QED  BY <1>4, <3>1, FinishType DEF GetGeneration, Goto, TypeOK, PC, Code
  <2>. QED  BY <1>4, <2>2 DEF TypeOK, GetGeneration, items, locals
<1>5. CASE GetPointer(c)
  BY <1>5 DEF TypeOK, GetPointer, Goto, PC, Reply, Pointer, items, locals
<1>. QED  BY <1>1, <1>2, <1>3, <1>4, <1>5 DEF Register

LEMMA UpdatedFields ==
  ASSUME NEW c, NEW item \in GenerationItem, loaded[c] \in Evidence \cup {NoItem}
  PROVE  /\ Updated(c, item) \in GenerationItem
         /\ Updated(c, item).digest = item.digest
         /\ req[c].action = "start_build" =>
               /\ Updated(c, item).status = "BUILDING"
               /\ Updated(c, item).attempt = item.attempt + 1
         /\ req[c].action = "validate" =>
               /\ Updated(c, item).status = "VALIDATED"
               /\ Updated(c, item).attempt = item.attempt
               /\ Updated(c, item).validation = loaded[c]
         /\ req[c].action \notin {"start_build", "validate"} =>
               /\ Updated(c, item).status = "FAILED"
               /\ Updated(c, item).attempt = item.attempt
<1>1. CASE req[c].action = "start_build"
  <2>1. Updated(c, item) = [status |-> "BUILDING", digest |-> item.digest,
                            attempt |-> item.attempt + 1, validation |-> item.validation]
    BY <1>1 DEF Updated, GenerationItem
  <2>. QED  BY <1>1, <2>1 DEF GenerationItem, Status
<1>2. CASE req[c].action = "validate"
  <2>1. Updated(c, item) = [status |-> "VALIDATED", digest |-> item.digest,
                            attempt |-> item.attempt, validation |-> loaded[c]]
    BY <1>2 DEF Updated, GenerationItem
  <2>. QED  BY <1>2, <2>1 DEF GenerationItem, Status
<1>3. CASE req[c].action \notin {"start_build", "validate"}
  <2>1. Updated(c, item) = [status |-> "FAILED", digest |-> item.digest,
                            attempt |-> item.attempt, validation |-> item.validation]
    BY <1>3 DEF Updated, GenerationItem
  <2>. QED  BY <1>3, <2>1 DEF GenerationItem, Status
<1>. QED  BY <1>1, <1>2, <1>3

LEMMA TransitionType ==
  ASSUME TypeOK, NEW c \in Call, RunsItsAction(c), Transition(c)
  PROVE  TypeOK'
<1>1. CASE ReadStatus(c)
  <2>1. pc' \in [Call -> PC] /\ reply' \in [Call -> Reply]
    BY <1>1, FinishType DEF ReadStatus, Goto, TypeOK, PC, Code
  <2>2. seen' \in [Call -> Status]
    BY <1>1, GenerationRequest DEF ReadStatus, TypeOK, GenerationItem
  <2>. QED  BY <1>1, <2>1, <2>2 DEF TypeOK, ReadStatus, items
<1>2. CASE UpdateStatus(c)
  <2>1. req[c].generation \in Generation
    BY <1>2, GenerationRequest DEF UpdateStatus
  <2>2. Target(req[c].action) \in Code
    BY DEF Target, Code
  <2>3. pc' \in [Call -> PC] /\ reply' \in [Call -> Reply]
    <3>1. [code |-> Target(req[c].action), generation |-> req[c].generation, version |-> 0] \in Reply
      BY <2>1, <2>2 DEF Reply
    <3>2. CASE Finish(c, "CONCURRENT_TRANSITION")
      BY <3>2, FinishType DEF Code
    <3>3. CASE /\ Goto(c, "done")
               /\ reply' = [reply EXCEPT ![c] = [code |-> Target(req[c].action),
                                generation |-> req[c].generation, version |-> 0]]
      BY <3>1, <3>3 DEF Goto, TypeOK, PC
    <3>. QED  BY <1>2, <3>2, <3>3 DEF UpdateStatus
  <2>4. Updated(c, genItem[req[c].generation]) \in GenerationItem
    <3>1. genItem[req[c].generation] \in GenerationItem /\ loaded[c] \in Evidence \cup {NoItem}
      BY <2>1 DEF TypeOK
    <3>. QED  BY <3>1, UpdatedFields
  <2>5. genItem' \in [Generation -> GenerationItem]
    BY <1>2, <2>1, <2>4 DEF UpdateStatus, TypeOK
  <2>. QED  BY <1>2, <2>3, <2>5 DEF TypeOK, UpdateStatus, locals
<1>. QED  BY <1>1, <1>2 DEF Transition

LEMMA ValidateType ==
  ASSUME TypeOK, NEW c \in Call, RunsItsAction(c), Validate(c)
  PROVE  TypeOK'
<1>1. CASE LoadEvidence(c)
  <2>1. pc' \in [Call -> PC] /\ reply' \in [Call -> Reply]
    BY <1>1, FinishType DEF LoadEvidence, Goto, TypeOK, PC, Code
  <2>2. loaded' \in [Call -> Evidence \cup {NoItem}]
    BY <1>1, GenerationRequest DEF LoadEvidence, TypeOK
  <2>. QED  BY <1>1, <2>1, <2>2 DEF TypeOK, LoadEvidence, items
<1>2. CASE CheckEvidence(c)
  <2>1. pc' \in [Call -> PC] /\ reply' \in [Call -> Reply]
    BY <1>2, FinishType DEF CheckEvidence, Goto, TypeOK, PC, Code
  <2>. QED  BY <1>2, <2>1 DEF TypeOK, CheckEvidence, items, locals
<1>. QED  BY <1>1, <1>2 DEF Validate

LEMMA PublishType ==
  ASSUME TypeOK, NEW c \in Call, RunsItsAction(c), Publish(c)
  PROVE  TypeOK'
<1>1. CASE GetValidated(c)
  <2>1. pc' \in [Call -> PC] /\ reply' \in [Call -> Reply]
    BY <1>1, FinishType DEF GetValidated, Goto, TypeOK, PC, Code
  <2>. QED  BY <1>1, <2>1 DEF TypeOK, GetValidated, items, locals
<1>2. CASE Transact(c)
  <2>1. req[c].generation \in Generation /\ req[c].expected \in Nat
    BY <1>2, GenerationRequest DEF Transact
  <2>2. pc' \in [Call -> PC] /\ reply' \in [Call -> Reply]
    <3>1. [code |-> "PUBLISHED", generation |-> req[c].generation,
           version |-> req[c].expected + 1] \in Reply
      BY <2>1 DEF Reply, Code
    <3>2. CASE Finish(c, "STALE_PUBLISHER")
      BY <3>2, FinishType DEF Code
    <3>3. CASE /\ Goto(c, "done")
               /\ reply' = [reply EXCEPT ![c] = [code |-> "PUBLISHED",
                     generation |-> req[c].generation, version |-> req[c].expected + 1]]
      BY <3>1, <3>3 DEF Goto, TypeOK, PC
    <3>. QED  BY <1>2, <3>2, <3>3 DEF Transact
  <2>3. genItem' \in [Generation -> GenerationItem]
    <3>1. genItem[req[c].generation] \in GenerationItem
      BY <2>1 DEF TypeOK
    <3>2. [genItem[req[c].generation] EXCEPT !.status = "PUBLISHED"] \in GenerationItem
      BY <3>1 DEF GenerationItem, Status
    <3>. QED  BY <1>2, <3>2 DEF Transact, TypeOK
  <2>4. pointer' \in Pointer /\ published' \in Seq(Generation)
    <3>1. [generation |-> req[c].generation, version |-> req[c].expected + 1] \in Pointer
      BY <2>1 DEF Pointer
    <3>2. Append(published, req[c].generation) \in Seq(Generation)
      BY <2>1 DEF TypeOK
    <3>. QED  BY <1>2, <3>1, <3>2 DEF Transact, TypeOK
  <2>. QED  BY <1>2, <2>2, <2>3, <2>4 DEF TypeOK, Transact, locals
<1>. QED  BY <1>1, <1>2 DEF Publish

LEMMA FailType ==
  ASSUME TypeOK, NEW c \in Call, RunsItsAction(c), GetFailing(c)
  PROVE  TypeOK'
<1>1. pc' \in [Call -> PC] /\ reply' \in [Call -> Reply]
  BY FinishType DEF GetFailing, Goto, TypeOK, PC, Code
<1>. QED  BY <1>1 DEF TypeOK, GetFailing, items, locals

LEMMA ResolveType ==
  ASSUME TypeOK, NEW c \in Call, RunsItsAction(c), Resolve(c)
  PROVE  TypeOK'
<1>1. CASE GetActive(c)
  <2>1. pc' \in [Call -> PC] /\ reply' \in [Call -> Reply]
    <3>1. pointer.generation \in Generation \cup {NoItem} /\ pointer.version \in Nat
      BY DEF TypeOK, Pointer
    <3>2. [code |-> "NONE", generation |-> pointer.generation, version |-> pointer.version] \in Reply
      BY <3>1 DEF Reply, Code
    <3>. QED  BY <1>1, <3>2, FinishType DEF GetActive, Goto, TypeOK, PC, Code
  <2>. QED  BY <1>1, <2>1 DEF TypeOK, GetActive, items, locals
<1>2. CASE GetResolved(c)
  <2>1. pc' \in [Call -> PC] /\ reply' \in [Call -> Reply]
    BY <1>2, FinishType DEF GetResolved, Code
  <2>. QED  BY <1>2, <2>1 DEF TypeOK, GetResolved, items, locals
<1>. QED  BY <1>1, <1>2 DEF Resolve

LEMMA InvokeType ==
  ASSUME TypeOK, NEW c \in Call, NEW r \in Request, Invoke(c, r)
  PROVE  TypeOK'
  BY FirstStepType DEF TypeOK, Invoke, NoReply, Reply, Code, items

LEMMA EnvironmentType ==
  ASSUME TypeOK
  PROVE  /\ \A c \in Call : Abort(c) \/ Release(c) => TypeOK'
         /\ \A g \in Generation : PutEvidence(g) => TypeOK'
<1>1. ASSUME NEW c \in Call, Abort(c)  PROVE TypeOK'
  BY <1>1, FinishType DEF TypeOK, Abort, items, locals, Code
<1>2. ASSUME NEW c \in Call, Release(c)  PROVE TypeOK'
  BY <1>2 DEF TypeOK, Release, NoReply, Reply, Code, Status, Request, PC, items
<1>3. ASSUME NEW g \in Generation, PutEvidence(g)  PROVE TypeOK'
  BY <1>3, ReportAssumption DEF TypeOK, PutEvidence, Evidence, GenerationItem, items, locals
<1>. QED  BY <1>1, <1>2, <1>3

-----------------------------------------------------------------------------
(* What another invocation's step leaves in place *)

\* Generations never disappear or change content, and the log only grows.
ItemsGrow ==
    /\ \A g \in Generation : Exists(g) => /\ genItem'[g].status # "ABSENT"
                                        /\ genItem'[g].digest = genItem[g].digest
    /\ Len(published) <= Len(published')
    /\ \A i \in 1..Len(published) : published'[i] = published[i]

SameCall(o) == /\ pc'[o] = pc[o]
               /\ req'[o] = req[o]
               /\ seen'[o] = seen[o]
               /\ loaded'[o] = loaded[o]
               /\ reply'[o] = reply[o]

LEMMA UnchangedItemsGrow ==
  ASSUME TypeOK, UNCHANGED items
  PROVE  ItemsGrow
  BY DEF ItemsGrow, items, Exists, TypeOK

LEMMA StepLeavesOthers ==
  ASSUME TypeOK, NEW c \in Call, HandlerStep(c), NEW o \in Call, o # c
  PROVE  SameCall(o)
<1>1. CASE Register(c)
  BY <1>1 DEF TypeOK, SameCall, Register, GetBatch, PutIdentity, RegetBatch, GetGeneration, GetPointer,
     ExistingRegistration, Finish, Goto, locals
<1>2. CASE Transition(c)
  BY <1>2 DEF TypeOK, SameCall, Transition, ReadStatus, UpdateStatus, Finish, Goto, locals
<1>3. CASE Validate(c)
  BY <1>3 DEF TypeOK, SameCall, Validate, LoadEvidence, CheckEvidence, Finish, Goto, locals
<1>4. CASE Publish(c)
  BY <1>4 DEF TypeOK, SameCall, Publish, GetValidated, Transact, Finish, Goto, locals
<1>5. CASE GetFailing(c) \/ Resolve(c)
  BY <1>5 DEF TypeOK, SameCall, GetFailing, Resolve, GetActive, GetResolved, Finish, Goto, locals
<1>. QED  BY <1>1, <1>2, <1>3, <1>4, <1>5 DEF HandlerStep

LEMMA CallInvFrame ==
  ASSUME TypeOK, NEW o \in Call, CallInv(o), SameCall(o), ItemsGrow
  PROVE  CallInv(o)'
<1>1. RunsItsAction(o)'
  BY DEF CallInv, RunsItsAction, SameCall, StepsOf
<1>2. HoldsAgreedEvidence(o)'
  <2>1. req[o].action = "validate" /\ pc[o] \in {"read", "update"} => req[o].generation \in Generation
    BY GenerationRequest DEF CallInv
  <2>. QED  BY <2>1 DEF CallInv, HoldsAgreedEvidence, SameCall, ItemsGrow, Exists
<1>3. SawAllowedStatus(o)'
  BY DEF CallInv, SawAllowedStatus, SameCall, Allowed
<1>4. HoldsResolution(o)'
  BY DEF CallInv, HoldsResolution, SameCall, ItemsGrow, TypeOK
<1>5. HoldsClassification(o)'
  <2>1. ASSUME PublishedAt(reply[o].generation, Len(published))
        PROVE  PublishedAt(reply[o].generation, Len(published))'
    BY <2>1 DEF PublishedAt, ItemsGrow, TypeOK, SameCall
  <2>2. ASSUME PublishedAt(reply[o].generation, reply[o].version)
        PROVE  PublishedAt(reply[o].generation, reply[o].version)'
    BY <2>2 DEF PublishedAt, ItemsGrow, TypeOK, SameCall
  <2>. QED  BY <2>1, <2>2 DEF CallInv, HoldsClassification, SameCall
<1>. QED  BY <1>1, <1>2, <1>3, <1>4, <1>5 DEF CallInv

-----------------------------------------------------------------------------
(* The invocation's own step *)

ItemsInv == PointerFollowsLog /\ BatchOwnsGeneration /\ ValidatedOnEvidence

LEMMA UnchangedItemsInv ==
  ASSUME ItemsInv, UNCHANGED items
  PROVE  ItemsInv'
  BY DEF ItemsInv, items, PointerFollowsLog, BatchOwnsGeneration, ValidatedOnEvidence, Exists

\* A raise or return with a code that promises nothing ends any invocation but resolve.
LEMMA FinishCallInv ==
  ASSUME TypeOK, NEW c \in Call, NEW code \in Code, Finish(c, code), UNCHANGED req,
         code # "REPLAYED", req[c].action # "resolve"
  PROVE  CallInv(c)'
<1>1. pc'[c] = "done" /\ reply'[c].code = code /\ req'[c] = req[c]
  BY DEF Finish, Goto, TypeOK, Reply
<1>. QED  BY <1>1 DEF CallInv, RunsItsAction, HoldsAgreedEvidence, SawAllowedStatus, HoldsResolution,
              HoldsClassification

\* Reads of register.
LEMMA ExistingRegistrationInv ==
  ASSUME TypeOK, NEW c \in Call, CallInv(c), req[c].action = "register",
         pc[c] \in {"get_batch", "reget_batch"},
         req[c].batch \in Batch, batchItem[req[c].batch] # NoItem,
         ExistingRegistration(c), UNCHANGED req
  PROVE  CallInv(c)'
<1>1. CASE Finish(c, "CONFLICT")
  BY <1>1, FinishCallInv DEF Code
<1>2. CASE /\ Goto(c, "get_generation")
           /\ reply' = [reply EXCEPT ![c].generation = batchItem[req[c].batch].generation]
  <2>1. batchItem[req[c].batch].generation \in Generation
    BY DEF TypeOK, Identity
  <2>2. /\ pc'[c] = "get_generation" /\ req'[c].action = "register"
        /\ reply'[c].generation = batchItem[req[c].batch].generation
        /\ reply'[c].code = reply[c].code
    BY <1>2 DEF Goto, TypeOK, Reply
  <2>3. reply[c].code = "NONE"
    BY DEF CallInv, HoldsClassification
  <2>. QED  BY <2>1, <2>2, <2>3, NoItemAssumption
       DEF CallInv, RunsItsAction, StepsOf, HoldsAgreedEvidence, SawAllowedStatus,
           HoldsResolution, HoldsClassification
<1>. QED  BY <1>1, <1>2 DEF ExistingRegistration

LEMMA ReadBatchInv ==
  ASSUME TypeOK, NEW c \in Call, CallInv(c), GetBatch(c) \/ RegetBatch(c)
  PROVE  CallInv(c)'
<1>1. req[c].action = "register" /\ req[c].batch \in Batch /\ UNCHANGED req
  BY RegisterRequest DEF GetBatch, RegetBatch, CallInv, locals
<1>2. CASE batchItem[req[c].batch] # NoItem
  BY <1>1, <1>2, ExistingRegistrationInv DEF GetBatch, RegetBatch
<1>3. CASE batchItem[req[c].batch] = NoItem /\ GetBatch(c)
  <2>1. pc'[c] = "put" /\ reply'[c] = reply[c] /\ req'[c] = req[c] /\ pc[c] = "get_batch"
    BY <1>3 DEF GetBatch, Goto, TypeOK, locals
  <2>. QED  BY <1>1, <2>1
       DEF CallInv, RunsItsAction, StepsOf, HoldsAgreedEvidence, SawAllowedStatus,
           HoldsResolution, HoldsClassification
<1>4. CASE Finish(c, "CANCELED")
  BY <1>1, <1>4, FinishCallInv DEF Code
<1>. QED  BY <1>2, <1>3, <1>4 DEF GetBatch, RegetBatch

LEMMA ReadGenerationInv ==
  ASSUME TypeOK, ItemsInv, NEW c \in Call, CallInv(c), GetGeneration(c) \/ GetPointer(c)
  PROVE  CallInv(c)'
<1>1. req[c].action = "register" /\ UNCHANGED req /\ UNCHANGED published
  BY RegisterRequest DEF GetGeneration, GetPointer, CallInv, locals, items
<1>2. CASE GetGeneration(c) /\ Finish(c, "UNKNOWN_GENERATION")
  BY <1>1, <1>2, FinishCallInv DEF Code
<1>3. CASE GetGeneration(c) /\ ~Finish(c, "UNKNOWN_GENERATION")
  <2> DEFINE g == reply[c].generation
  <2>1. /\ pc'[c] = "get_pointer" /\ reply'[c].generation = g /\ req'[c] = req[c]
        /\ reply'[c].code = Classification(genItem[g].status)
    BY <1>3 DEF GetGeneration, Goto, TypeOK, Reply, locals
  <2>2. g \in Generation
    BY <1>3 DEF GetGeneration, CallInv, HoldsClassification, TypeOK, Reply
  <2>3. Classification(genItem[g].status) = "REPLAYED" => genItem[g].status = "PUBLISHED"
    BY DEF Classification
  <2>4. Classification(genItem[g].status) = "REPLAYED" => PublishedAt(g, Len(published))'
    <3>1. Len(published) \in Nat
      BY DEF TypeOK
    <3>2. genItem[g].status = "PUBLISHED" => PublishedAt(g, Len(published))
      BY <2>2, <3>1 DEF ItemsInv, PointerFollowsLog, PublishedAt
    <3>. QED  BY <1>1, <2>1, <2>3, <3>2 DEF PublishedAt
  <2>5. HoldsClassification(c)'
    BY <2>1, <2>4 DEF HoldsClassification
  <2>. QED  BY <1>1, <2>1, <2>5
       DEF CallInv, RunsItsAction, StepsOf, HoldsAgreedEvidence, SawAllowedStatus, HoldsResolution
<1>4. CASE GetPointer(c)
  <2>1. /\ pc'[c] = "done" /\ reply'[c].generation = reply[c].generation /\ req'[c] = req[c]
        /\ reply'[c].code = reply[c].code /\ reply'[c].version = pointer.version
    BY <1>4 DEF GetPointer, Goto, TypeOK, Reply, locals
  <2>2. reply[c].code = "REPLAYED" => PublishedAt(reply[c].generation, pointer.version)
    BY <1>4 DEF GetPointer, CallInv, HoldsClassification, ItemsInv, PointerFollowsLog
  <2>. QED  BY <1>1, <2>1, <2>2
       DEF CallInv, RunsItsAction, StepsOf, HoldsAgreedEvidence, SawAllowedStatus,
           HoldsResolution, HoldsClassification, PublishedAt
<1>. QED  BY <1>2, <1>3, <1>4

LEMMA PutIdentityInv ==
  ASSUME TypeOK, ItemsInv, NEW c \in Call, CallInv(c), PutIdentity(c)
  PROVE  ItemsInv' /\ ItemsGrow /\ CallInv(c)'
<1> DEFINE b == req[c].batch
           g == GenerationId[b][req[c].digest]
<1>1. /\ req[c].action = "register" /\ b \in Batch /\ g \in Generation
      /\ req'[c] = req[c] /\ pc[c] = "put" /\ reply[c].code = "NONE"
  BY RegisterRequest, GenerationIdAssumption
  DEF PutIdentity, CallInv, HoldsClassification, locals
<1>2. CASE ~BothAbsent(b, g)
  <2>1. UNCHANGED items /\ pc'[c] = "reget_batch" /\ reply'[c] = reply[c]
    BY <1>2 DEF PutIdentity, Goto, TypeOK, items
  <2>2. CallInv(c)'
    BY <1>1, <2>1 DEF CallInv, RunsItsAction, StepsOf, HoldsAgreedEvidence, SawAllowedStatus,
                      HoldsResolution, HoldsClassification
  <2>. QED  BY <2>1, <2>2, UnchangedItemsInv, UnchangedItemsGrow
<1>3. CASE BothAbsent(b, g)
  <2>1. /\ batchItem[b] = NoItem /\ ~Exists(g) /\ UNCHANGED <<pointer, published>>
        /\ batchItem' = [batchItem EXCEPT ![b] =
              [generation |-> g, digest |-> req[c].digest, location |-> req[c].location]]
        /\ genItem' = [genItem EXCEPT ![g] =
              [status |-> "REGISTERED", digest |-> req[c].digest,
               attempt |-> 0, validation |-> NoItem]]
    BY <1>3 DEF PutIdentity, BothAbsent
  <2>2. /\ genItem'[g].status = "REGISTERED" /\ genItem'[g].digest = req[c].digest
        /\ genItem[g].status = "ABSENT"
        /\ \A h \in Generation \ {g} : genItem'[h] = genItem[h]
    BY <1>1, <2>1 DEF TypeOK, Exists
  <2>9. [generation |-> g, digest |-> req[c].digest, location |-> req[c].location] \in Identity
    BY <1>1, RegisterRequest DEF CallInv, Identity
  <2>3. ItemsGrow
    BY <2>1, <2>2 DEF ItemsGrow, Exists, TypeOK
  <2>4. PointerFollowsLog'
    <3>1. \A h \in Generation : genItem'[h].status = "PUBLISHED" <=> genItem[h].status = "PUBLISHED"
      BY <2>2
    <3>. QED  BY <2>1, <3>1 DEF ItemsInv, PointerFollowsLog, NoPointer
  <2>5. BatchOwnsGeneration'
    <3>1. /\ batchItem'[b].generation = g /\ batchItem'[b].digest = req[c].digest
          /\ \A o \in Batch \ {b} : batchItem'[o] = batchItem[o]
      BY <1>1, <2>1 DEF TypeOK
    <3>2. \A o \in Batch \ {b} : batchItem[o] # NoItem =>
             /\ batchItem[o].generation \in Generation \ {g}
      BY <2>1 DEF ItemsInv, BatchOwnsGeneration, Exists, TypeOK, Identity
    <3>3. \A o \in Batch \ {b} : batchItem[o] # NoItem =>
             /\ genItem'[batchItem[o].generation] = genItem[batchItem[o].generation]
             /\ Exists(batchItem[o].generation)
             /\ genItem[batchItem[o].generation].digest = batchItem[o].digest
             /\ \A p \in Batch \ {o} : batchItem[p] # NoItem =>
                   batchItem[p].generation # batchItem[o].generation
      BY <2>2, <3>2 DEF ItemsInv, BatchOwnsGeneration
    <3>4. /\ genItem'[batchItem'[b].generation].status # "ABSENT"
          /\ genItem'[batchItem'[b].generation].digest = batchItem'[b].digest
          /\ \A p \in Batch \ {b} : batchItem'[p] # NoItem =>
                batchItem'[p].generation # batchItem'[b].generation
      BY <2>2, <3>1, <3>2
    <3>5. \A o \in Batch \ {b} : batchItem'[o] # NoItem =>
             /\ genItem'[batchItem'[o].generation].status # "ABSENT"
             /\ genItem'[batchItem'[o].generation].digest = batchItem'[o].digest
             /\ \A p \in Batch \ {o} : batchItem'[p] # NoItem =>
                   batchItem'[p].generation # batchItem'[o].generation
      BY <3>1, <3>2, <3>3 DEF Exists
    <3>6. \A h \in Generation : genItem'[h].status # "ABSENT" =>
             \E o \in Batch : batchItem'[o] # NoItem /\ batchItem'[o].generation = h
      <4>1. batchItem'[b] # NoItem
        BY <1>1, <2>1, <2>9, NoItemAssumption DEF TypeOK, Identity
      <4>2. ASSUME NEW h \in Generation \ {g}, genItem'[h].status # "ABSENT"
            PROVE  \E o \in Batch : batchItem'[o] # NoItem /\ batchItem'[o].generation = h
        <5>1. PICK o \in Batch : batchItem[o] # NoItem /\ batchItem[o].generation = h
          BY <2>2, <4>2 DEF ItemsInv, BatchOwnsGeneration, Exists
        <5>. QED  BY <2>1, <3>1, <5>1
      <4>. QED  BY <1>1, <3>1, <4>1, <4>2
    <3>. QED  BY <3>4, <3>5, <3>6 DEF BatchOwnsGeneration, Exists
  <2>6. ValidatedOnEvidence'
    <3>1. genItem'[g].attempt = 0
      BY <1>1, <2>1 DEF TypeOK
    <3>. QED  BY <1>1, <2>2, <3>1 DEF ItemsInv, ValidatedOnEvidence
  <2>7. CallInv(c)'
    <3>1. pc'[c] = "get_pointer" /\ reply'[c].code = "REGISTERED"
      BY <1>3 DEF PutIdentity, Goto, TypeOK
    <3>. QED  BY <1>1, <3>1 DEF CallInv, RunsItsAction, StepsOf, HoldsAgreedEvidence,
              SawAllowedStatus, HoldsResolution, HoldsClassification
  <2>. QED  BY <2>3, <2>4, <2>5, <2>6, <2>7 DEF ItemsInv
<1>. QED  BY <1>2, <1>3

LEMMA ReadStatusInv ==
  ASSUME TypeOK, NEW c \in Call, CallInv(c), ReadStatus(c)
  PROVE  CallInv(c)'
<1>1. /\ req[c].generation \in Generation /\ UNCHANGED req /\ UNCHANGED <<items, loaded>>
      /\ req[c].action \in {"start_build", "validate", "fail"}
      /\ pc[c] = "read"
  BY GenerationRequest DEF ReadStatus, CallInv
<1>2. CASE \E code \in {"UNKNOWN_GENERATION", "ILLEGAL_TRANSITION"} : Finish(c, code)
  BY <1>1, <1>2, FinishCallInv DEF Code
<1>3. CASE /\ genItem[req[c].generation].status \in Allowed(req[c].action)
           /\ Goto(c, "update")
           /\ seen' = [seen EXCEPT ![c] = genItem[req[c].generation].status]
           /\ UNCHANGED reply
  <2>1. /\ pc'[c] = "update" /\ seen'[c] \in Allowed(req[c].action) /\ reply'[c] = reply[c]
        /\ loaded'[c] = loaded[c] /\ req'[c] = req[c] /\ UNCHANGED genItem
    BY <1>1, <1>3 DEF Goto, TypeOK, items
  <2>2. HoldsAgreedEvidence(c)'
    BY <1>1, <2>1 DEF CallInv, HoldsAgreedEvidence, Exists
  <2>3. SawAllowedStatus(c)'
    BY <2>1 DEF SawAllowedStatus, Allowed
  <2>. QED  BY <1>1, <2>1, <2>2, <2>3
       DEF CallInv, RunsItsAction, StepsOf, HoldsResolution, HoldsClassification
<1>. QED  BY <1>2, <1>3 DEF ReadStatus

LEMMA UpdateStatusInv ==
  ASSUME TypeOK, ItemsInv, NEW c \in Call, CallInv(c), UpdateStatus(c)
  PROVE  ItemsInv' /\ ItemsGrow /\ CallInv(c)'
<1> DEFINE g == req[c].generation
<1>1. /\ g \in Generation /\ UNCHANGED <<req, batchItem, pointer, published>>
      /\ req[c].action \in {"start_build", "validate", "fail"}
      /\ seen[c] \in Allowed(req[c].action) /\ pc[c] = "update"
  BY GenerationRequest DEF UpdateStatus, CallInv, SawAllowedStatus, locals
<1>2. CASE ~StatusStill(c)
  BY <1>1, <1>2, FinishCallInv, UnchangedItemsInv, UnchangedItemsGrow
  DEF UpdateStatus, Code, items
<1>3. CASE StatusStill(c)
  <2>1. /\ genItem' = [genItem EXCEPT ![g] = Updated(c, genItem[g])]
        /\ genItem[g].status = seen[c]
        /\ pc'[c] = "done" /\ reply'[c].code = Target(req[c].action) /\ req'[c] = req[c]
    BY <1>1, <1>3 DEF UpdateStatus, StatusStill, Goto, TypeOK
  <2>2. genItem[g] \in GenerationItem /\ loaded[c] \in Evidence \cup {NoItem}
    BY <1>1 DEF TypeOK
  <2>3. /\ genItem'[g] = Updated(c, genItem[g])
        /\ \A h \in Generation \ {g} : genItem'[h] = genItem[h]
    BY <1>1, <2>1 DEF TypeOK
  <2>4. /\ genItem[g].status \in {"REGISTERED", "BUILDING", "VALIDATED", "FAILED"}
        /\ req[c].action = "validate" => genItem[g].status = "BUILDING"
    BY <1>1, <2>1 DEF Allowed
  <2>5. /\ genItem'[g].status \in {"BUILDING", "VALIDATED", "FAILED"}
        /\ genItem'[g].digest = genItem[g].digest
    BY <1>1, <2>2, <2>3, UpdatedFields
  <2>6. ItemsGrow
    BY <1>1, <2>3, <2>5 DEF ItemsGrow, Exists, TypeOK
  <2>7. PointerFollowsLog'
    <3>1. \A h \in Generation : genItem'[h].status = "PUBLISHED" <=> genItem[h].status = "PUBLISHED"
      BY <2>3, <2>4, <2>5
    <3>. QED  BY <1>1, <3>1 DEF ItemsInv, PointerFollowsLog, NoPointer
  <2>8. BatchOwnsGeneration'
    <3>1. \A h \in Generation : /\ Exists(h) <=> genItem'[h].status # "ABSENT"
                               /\ genItem'[h].digest = genItem[h].digest
      BY <2>3, <2>4, <2>5 DEF Exists
    <3>2. \A b \in Batch : batchItem[b] # NoItem => batchItem[b].generation \in Generation
      BY DEF TypeOK, Identity
    <3>. QED  BY <1>1, <3>1, <3>2 DEF ItemsInv, BatchOwnsGeneration, Exists
  <2>9. ValidatedOnEvidence'
    <3>1. genItem[g].attempt \in Nat
      BY <2>2 DEF GenerationItem
    <3>2. genItem'[g].status \in {"BUILDING", "VALIDATED", "PUBLISHED"} => genItem'[g].attempt > 0
      BY <1>1, <2>2, <2>3, <2>4, <3>1, UpdatedFields DEF ItemsInv, ValidatedOnEvidence
    <3>3. genItem'[g].status \in {"VALIDATED", "PUBLISHED"} =>
             req[c].action = "validate" /\ genItem'[g].validation = loaded[c]
      BY <1>1, <2>2, <2>3, UpdatedFields
    <3>4. req[c].action = "validate" =>
             /\ loaded[c] # NoItem /\ loaded[c].generation = g
             /\ loaded[c].digest = genItem[g].digest /\ loaded[c].complete
      BY <1>1 DEF CallInv, HoldsAgreedEvidence
    <3>. QED  BY <1>1, <2>3, <2>5, <3>2, <3>3, <3>4 DEF ItemsInv, ValidatedOnEvidence
  <2>10. CallInv(c)'
    BY <1>1, <2>1 DEF Target, CallInv, RunsItsAction, HoldsAgreedEvidence, SawAllowedStatus,
                      HoldsResolution, HoldsClassification
  <2>. QED  BY <2>6, <2>7, <2>8, <2>9, <2>10 DEF ItemsInv
<1>. QED  BY <1>2, <1>3

LEMMA ValidateInv ==
  ASSUME TypeOK, NEW c \in Call, CallInv(c), Validate(c)
  PROVE  CallInv(c)'
<1>1. /\ req[c].generation \in Generation /\ UNCHANGED req /\ UNCHANGED items
      /\ req[c].action = "validate"
  BY GenerationRequest DEF Validate, LoadEvidence, CheckEvidence, CallInv, locals
<1>2. CASE \E code \in {"UNKNOWN_GENERATION", "VALIDATION_EVIDENCE"} : Finish(c, code)
  BY <1>1, <1>2, FinishCallInv DEF Code
<1>3. CASE LoadEvidence(c) /\ evidence[req[c].generation] # NoItem
  <2>1. /\ pc'[c] = "check" /\ loaded'[c] # NoItem /\ reply'[c] = reply[c] /\ req'[c] = req[c]
        /\ pc[c] = "load"
    BY <1>1, <1>3 DEF LoadEvidence, Goto, TypeOK
  <2>. QED  BY <1>1, <2>1 DEF CallInv, RunsItsAction, StepsOf, HoldsAgreedEvidence, SawAllowedStatus,
                              HoldsResolution, HoldsClassification
<1>4. CASE /\ CheckEvidence(c)
           /\ Exists(req[c].generation)
           /\ EvidenceAgrees(c, req[c].generation)
  <2>1. /\ pc'[c] = "read" /\ loaded'[c] = loaded[c] /\ reply'[c] = reply[c] /\ req'[c] = req[c]
        /\ pc[c] = "check" /\ UNCHANGED genItem
    BY <1>1, <1>4 DEF CheckEvidence, Goto, TypeOK, locals, items
  <2>2. HoldsAgreedEvidence(c)'
    BY <1>1, <1>4, <2>1 DEF CallInv, HoldsAgreedEvidence, EvidenceAgrees, Exists
  <2>. QED  BY <1>1, <2>1, <2>2 DEF CallInv, RunsItsAction, StepsOf, SawAllowedStatus,
                              HoldsResolution, HoldsClassification
<1>. QED  BY <1>2, <1>3, <1>4 DEF Validate, LoadEvidence, CheckEvidence

LEMMA TransactInv ==
  ASSUME TypeOK, ItemsInv, NEW c \in Call, CallInv(c), Transact(c)
  PROVE  ItemsInv' /\ ItemsGrow /\ CallInv(c)'
<1> DEFINE g == req[c].generation
           n == req[c].expected
<1>1. /\ g \in Generation /\ n \in Nat /\ UNCHANGED <<req, batchItem>>
      /\ req[c].action = "publish"
  BY GenerationRequest DEF Transact, CallInv, locals
<1>2. CASE ~PointerMatches(n) \/ genItem[g].status # "VALIDATED"
  BY <1>1, <1>2, FinishCallInv, UnchangedItemsInv, UnchangedItemsGrow
  DEF Transact, Code, items
<1>3. CASE PointerMatches(n) /\ genItem[g].status = "VALIDATED"
  <2>1. /\ pointer' = [generation |-> g, version |-> n + 1]
        /\ genItem' = [genItem EXCEPT ![g].status = "PUBLISHED"]
        /\ published' = Append(published, g)
        /\ pc'[c] = "done" /\ reply'[c].code = "PUBLISHED" /\ req'[c] = req[c]
    BY <1>1, <1>3 DEF Transact, Goto, TypeOK
  <2>2. Len(published) \in Nat /\ pointer.version = Len(published) /\ n = Len(published)
    BY <1>3 DEF PointerMatches, NoPointer, ItemsInv, PointerFollowsLog, TypeOK
  <2>3. /\ Len(published') = Len(published) + 1 /\ published'[Len(published) + 1] = g
        /\ \A i \in 1..Len(published) : published'[i] = published[i]
    BY <1>1, <2>1 DEF TypeOK
  <2>4. /\ genItem'[g].status = "PUBLISHED" /\ genItem'[g].digest = genItem[g].digest
        /\ genItem'[g].attempt = genItem[g].attempt
        /\ genItem'[g].validation = genItem[g].validation
        /\ \A h \in Generation \ {g} : genItem'[h] = genItem[h]
    BY <1>1, <2>1 DEF TypeOK, GenerationItem
  <2>5. ItemsGrow
    BY <2>2, <2>3, <2>4 DEF ItemsGrow, Exists
  <2>6. PointerFollowsLog'
    <3>1. \A i \in 1..Len(published) : published[i] # g
      BY <1>1, <1>3 DEF ItemsInv, PointerFollowsLog
    <3>2. pointer'.version = Len(published') /\ pointer'.generation = published'[Len(published')]
      BY <2>1, <2>2, <2>3
    <3>3. \A h \in Generation \ {g} :
             genItem'[h].status = "PUBLISHED" <=> \E i \in 1..Len(published') : published'[i] = h
      <4> SUFFICES ASSUME NEW h \in Generation \ {g}
                   PROVE  genItem'[h].status = "PUBLISHED" <=>
                            \E i \in 1..Len(published') : published'[i] = h
        OBVIOUS
      <4>1. genItem[h].status = "PUBLISHED" <=> \E i \in 1..Len(published) : published[i] = h
        BY DEF ItemsInv, PointerFollowsLog
      <4>2. (\E i \in 1..Len(published) : published[i] = h) <=>
              \E i \in 1..Len(published') : published'[i] = h
        BY <2>2, <2>3
      <4>. QED  BY <2>4, <4>1, <4>2
    <3>4. \E i \in 1..Len(published') : published'[i] = g
      BY <2>2, <2>3
    <3>5. \A i, j \in 1..Len(published') : published'[i] = published'[j] => i = j
      BY <2>2, <2>3, <3>1 DEF ItemsInv, PointerFollowsLog
    <3>. QED  BY <2>4, <3>2, <3>3, <3>4, <3>5 DEF PointerFollowsLog
  <2>7. BatchOwnsGeneration'
    <3>1. \A h \in Generation : /\ Exists(h) <=> genItem'[h].status # "ABSENT"
                               /\ genItem'[h].digest = genItem[h].digest
      BY <1>3, <2>4 DEF Exists
    <3>2. \A b \in Batch : batchItem[b] # NoItem => batchItem[b].generation \in Generation
      BY DEF TypeOK, Identity
    <3>. QED  BY <1>1, <3>1, <3>2 DEF ItemsInv, BatchOwnsGeneration, Exists
  <2>8. ValidatedOnEvidence'
    BY <1>1, <1>3, <2>4 DEF ItemsInv, ValidatedOnEvidence
  <2>9. CallInv(c)'
    BY <1>1, <2>1 DEF CallInv, RunsItsAction, HoldsAgreedEvidence, SawAllowedStatus,
                      HoldsResolution, HoldsClassification
  <2>. QED  BY <2>5, <2>6, <2>7, <2>8, <2>9 DEF ItemsInv
<1>. QED  BY <1>2, <1>3

LEMMA PublishOrFailReadInv ==
  ASSUME TypeOK, NEW c \in Call, CallInv(c), GetValidated(c) \/ GetFailing(c)
  PROVE  CallInv(c)'
<1>1. /\ req[c].action \in {"publish", "fail"} /\ UNCHANGED req
      /\ GetValidated(c) => req[c].action = "publish"
      /\ GetFailing(c) => req[c].action = "fail"
  BY GenerationRequest DEF GetValidated, GetFailing, CallInv, locals
<1>2. CASE \E code \in {"UNKNOWN_GENERATION", "NOT_VALIDATED", "ILLEGAL_TRANSITION"} : Finish(c, code)
  BY <1>1, <1>2, FinishCallInv DEF Code
<1>3. CASE \/ GetValidated(c) /\ Goto(c, "transact") /\ UNCHANGED reply
           \/ GetFailing(c) /\ Goto(c, "read") /\ UNCHANGED reply
  <2>1. /\ \/ req[c].action = "publish" /\ pc'[c] = "transact"
           \/ req[c].action = "fail" /\ pc'[c] = "read"
        /\ reply'[c] = reply[c] /\ req'[c] = req[c]
        /\ pc[c] \in {"get_validated", "get_failing"}
    BY <1>1, <1>3 DEF GetValidated, GetFailing, Goto, TypeOK
  <2>. QED  BY <1>1, <2>1 DEF CallInv, RunsItsAction, StepsOf, HoldsAgreedEvidence, SawAllowedStatus,
                              HoldsResolution, HoldsClassification
<1>. QED  BY <1>2, <1>3 DEF GetValidated, GetFailing

LEMMA ResolveInv ==
  ASSUME TypeOK, ItemsInv, NEW c \in Call, CallInv(c), Resolve(c)
  PROVE  CallInv(c)'
<1>1. req[c].action = "resolve" /\ UNCHANGED req /\ UNCHANGED published
  BY DEF Resolve, GetActive, GetResolved, CallInv, RunsItsAction, StepsOf, locals, items, TypeOK, Request
<1>2. CASE GetActive(c) /\ pointer = NoPointer
  <2>1. pc'[c] = "done" /\ reply'[c].code = "NO_ACTIVE_GENERATION" /\ req'[c] = req[c]
    BY <1>1, <1>2 DEF GetActive, Finish, Goto, TypeOK, Reply
  <2>. QED  BY <1>1, <2>1 DEF CallInv, RunsItsAction, HoldsAgreedEvidence, SawAllowedStatus,
                              HoldsResolution, HoldsClassification
<1>3. CASE GetActive(c) /\ pointer # NoPointer
  <2>1. /\ pc'[c] = "get_resolved" /\ req'[c] = req[c] /\ reply'[c].code = "NONE"
        /\ reply'[c].generation = pointer.generation /\ reply'[c].version = pointer.version
    BY <1>1, <1>3 DEF GetActive, Goto, TypeOK
  <2>2. pointer.version \in 1..Len(published) /\ published[pointer.version] = pointer.generation
    <3>1. pointer.version = Len(published) /\ pointer.generation = published[Len(published)]
      BY <1>3 DEF ItemsInv, PointerFollowsLog
    <3>2. pointer.version > 0
      BY <1>3 DEF ItemsInv, PointerFollowsLog
    <3>. QED  BY <3>1, <3>2 DEF TypeOK
  <2>. QED  BY <1>1, <2>1, <2>2 DEF CallInv, RunsItsAction, StepsOf, HoldsAgreedEvidence, SawAllowedStatus,
                              HoldsResolution, HoldsClassification
<1>4. CASE GetResolved(c)
  <2>1. reply[c].version \in 1..Len(published) /\ published[reply[c].version] = reply[c].generation
    BY <1>4 DEF GetResolved, CallInv, HoldsResolution
  <2>2. reply[c].generation \in Generation /\ genItem[reply[c].generation].status = "PUBLISHED"
    BY <2>1 DEF ItemsInv, PointerFollowsLog, TypeOK
  <2>3. Finish(c, "RESOLVED")
    BY <1>4, <2>2 DEF GetResolved, Exists
  <2>4. /\ pc'[c] = "done" /\ reply'[c].code = "RESOLVED" /\ req'[c] = req[c]
        /\ reply'[c].version = reply[c].version /\ reply'[c].generation = reply[c].generation
    BY <1>1, <2>3 DEF Finish, Goto, TypeOK, Reply
  <2>. QED  BY <1>1, <2>1, <2>4 DEF CallInv, RunsItsAction, HoldsAgreedEvidence, SawAllowedStatus,
                              HoldsResolution, HoldsClassification
<1>. QED  BY <1>2, <1>3, <1>4 DEF Resolve

LEMMA InvokeInv ==
  ASSUME TypeOK, NEW c \in Call, CallInv(c), NEW r \in Request, Invoke(c, r)
  PROVE  CallInv(c)'
<1>1. /\ pc'[c] = FirstStep(r) /\ req'[c] = r /\ reply'[c].code = "NONE"
  BY DEF Invoke, TypeOK, NoReply
<1>2. /\ FirstStep(r) \in StepsOf(r.action)
      /\ FirstStep(r) \notin {"check", "update", "get_resolved", "done", "get_generation", "get_pointer"}
      /\ FirstStep(r) = "read" => r.action = "start_build"
  BY DEF FirstStep, StepsOf, Request
<1>. QED  BY <1>1, <1>2 DEF CallInv, RunsItsAction, HoldsAgreedEvidence, SawAllowedStatus,
                            HoldsResolution, HoldsClassification

LEMMA EndInv ==
  ASSUME TypeOK, NEW c \in Call, CallInv(c), Abort(c) \/ Release(c)
  PROVE  CallInv(c)'
<1>1. CASE Abort(c)
  <2>1. pc'[c] = "done" /\ reply'[c].code = "ERROR"
    BY <1>1 DEF Abort, Finish, Goto, TypeOK, Reply
  <2>. QED  BY <2>1 DEF CallInv, RunsItsAction, HoldsAgreedEvidence, SawAllowedStatus,
                              HoldsResolution, HoldsClassification
<1>2. CASE Release(c)
  <2>1. pc'[c] = "idle" /\ reply'[c].code = "NONE"
    BY <1>2 DEF Release, TypeOK, NoReply
  <2>. QED  BY <2>1 DEF CallInv, RunsItsAction, HoldsAgreedEvidence, SawAllowedStatus,
                              HoldsResolution, HoldsClassification
<1>. QED  BY <1>1, <1>2

-----------------------------------------------------------------------------
(* The inductive invariant *)

LEMMA IInvParts == IInv <=> TypeOK /\ ItemsInv /\ \A c \in Call : CallInv(c)
  BY DEF IInv, ItemsInv

LEMMA InitInv == Init => IInv
<1> SUFFICES ASSUME Init  PROVE IInv
  OBVIOUS
<1>1. TypeOK
  BY InitType
<1>2. ItemsInv
  BY DEF Init, ItemsInv, PointerFollowsLog, BatchOwnsGeneration, ValidatedOnEvidence, NoPointer,
         AbsentGeneration, Exists
<1>3. ASSUME NEW c \in Call  PROVE CallInv(c)
  BY <1>3 DEF Init, CallInv, RunsItsAction, HoldsAgreedEvidence, SawAllowedStatus,
              HoldsResolution, HoldsClassification, NoReply
<1>. QED  BY <1>1, <1>2, <1>3, IInvParts

\* A step of one invocation: its own part, the items, and every other invocation.
LEMMA HandlerInv ==
  ASSUME IInv, NEW c \in Call, HandlerStep(c)
  PROVE  IInv' /\ ItemsGrow
<1>1. TypeOK /\ ItemsInv /\ CallInv(c) /\ RunsItsAction(c) /\ \A o \in Call : CallInv(o)
  BY IInvParts DEF CallInv
<1>2. TypeOK'
  BY <1>1, RegisterType, TransitionType, ValidateType, PublishType, FailType, ResolveType
  DEF HandlerStep
<1>3. ItemsInv' /\ ItemsGrow /\ CallInv(c)'
  <2>1. CASE PutIdentity(c)
    BY <1>1, <2>1, PutIdentityInv
  <2>2. CASE UpdateStatus(c)
    BY <1>1, <2>2, UpdateStatusInv
  <2>3. CASE Transact(c)
    BY <1>1, <2>3, TransactInv
  <2>4. CASE \/ GetBatch(c) \/ RegetBatch(c) \/ GetGeneration(c) \/ GetPointer(c)
             \/ ReadStatus(c) \/ Validate(c) \/ GetValidated(c) \/ GetFailing(c) \/ Resolve(c)
    <3>1. UNCHANGED items
      BY <2>4 DEF GetBatch, RegetBatch, GetGeneration, GetPointer, ReadStatus, Validate, LoadEvidence,
         CheckEvidence, GetValidated, GetFailing, Resolve, GetActive, GetResolved
    <3>2. CallInv(c)'
      BY <1>1, <2>4, ReadBatchInv, ReadGenerationInv, ReadStatusInv, ValidateInv,
         PublishOrFailReadInv, ResolveInv
    <3>. QED  BY <1>1, <3>1, <3>2, UnchangedItemsInv, UnchangedItemsGrow
  <2>. QED  BY <2>1, <2>2, <2>3, <2>4 DEF HandlerStep, Register, Transition, Publish
<1>4. ASSUME NEW o \in Call, o # c  PROVE CallInv(o)'
  BY <1>1, <1>3, <1>4, StepLeavesOthers, CallInvFrame
<1>5. \A o \in Call : CallInv(o)'
  BY <1>3, <1>4
<1>. QED  BY <1>2, <1>3, <1>5 DEF IInv, ItemsInv

\* A step of a client or of the environment touches no item of the table.
LEMMA OutsideInv ==
  ASSUME IInv, UNCHANGED items, TypeOK',
         \A o \in Call : SameCall(o) \/ CallInv(o)'
  PROVE  IInv' /\ ItemsGrow
<1>1. TypeOK /\ ItemsInv /\ \A o \in Call : CallInv(o)
  BY IInvParts
<1>2. ItemsInv' /\ ItemsGrow
  BY <1>1, UnchangedItemsInv, UnchangedItemsGrow
<1>3. \A o \in Call : CallInv(o)'
  BY <1>1, <1>2, CallInvFrame
<1>. QED  BY <1>2, <1>3 DEF IInv, ItemsInv

LEMMA ClientRequest ==
  ASSUME TypeOK, NEW c \in Call,
         \/ ClientRegister(c) \/ ClientStartBuild(c) \/ ClientValidate(c)
         \/ ClientPublish(c) \/ ClientFail(c) \/ ClientResolve(c)
  PROVE  \E r \in Request : Invoke(c, r)
<1>1. pointer.version \in Nat
  BY DEF TypeOK, Pointer
<1>2. CASE ClientRegister(c)
  BY <1>2 DEF ClientRegister, Request
<1>3. CASE ClientStartBuild(c) \/ ClientFail(c)
  BY <1>3 DEF ClientStartBuild, ClientFail, Request
<1>4. CASE ClientValidate(c)
  BY <1>4 DEF ClientValidate, Request
<1>5. CASE ClientPublish(c)
  BY <1>1, <1>5 DEF ClientPublish, Request
<1>6. CASE ClientResolve(c)
  BY <1>6 DEF ClientResolve, Request
<1>. QED  BY <1>2, <1>3, <1>4, <1>5, <1>6

LEMMA NextInv ==
  ASSUME IInv, Next
  PROVE  IInv' /\ ItemsGrow
<1>1. TypeOK /\ \A o \in Call : CallInv(o)
  BY IInvParts
<1>2. ASSUME NEW c \in Call, HandlerStep(c)  PROVE IInv' /\ ItemsGrow
  BY <1>2, HandlerInv
<1>3. ASSUME NEW c \in Call, NEW r \in Request, Invoke(c, r)  PROVE IInv' /\ ItemsGrow
  <2>1. TypeOK' /\ CallInv(c)' /\ UNCHANGED items
    BY <1>1, <1>3, InvokeType, InvokeInv DEF Invoke
  <2>2. \A o \in Call \ {c} : SameCall(o)
    BY <1>1, <1>3 DEF SameCall, Invoke, TypeOK
  <2>. QED  BY <2>1, <2>2, OutsideInv
<1>4. ASSUME NEW c \in Call, Abort(c) \/ Release(c)  PROVE IInv' /\ ItemsGrow
  <2>1. TypeOK' /\ CallInv(c)' /\ UNCHANGED items
    BY <1>1, <1>4, EnvironmentType, EndInv DEF Abort, Release
  <2>2. \A o \in Call \ {c} : SameCall(o)
    BY <1>1, <1>4 DEF SameCall, Abort, Release, Finish, Goto, locals, TypeOK
  <2>. QED  BY <2>1, <2>2, OutsideInv
<1>5. ASSUME NEW g \in Generation, PutEvidence(g)  PROVE IInv' /\ ItemsGrow
  <2>1. TypeOK' /\ UNCHANGED items
    BY <1>1, <1>5, EnvironmentType DEF PutEvidence
  <2>2. \A o \in Call : SameCall(o)
    BY <1>5 DEF SameCall, PutEvidence, locals
  <2>. QED  BY <2>1, <2>2, OutsideInv
<1>. QED  BY <1>1, <1>2, <1>3, <1>4, <1>5, ClientRequest DEF Next

LEMMA StutterInv ==
  ASSUME IInv, UNCHANGED vars
  PROVE  IInv' /\ ItemsGrow
<1>1. TypeOK
  BY IInvParts
<1>2. UNCHANGED items /\ \A o \in Call : SameCall(o)
  BY DEF vars, locals, SameCall
<1>3. TypeOK'
  BY <1>1 DEF TypeOK, vars, items, locals
<1>. QED  BY <1>2, <1>3, OutsideInv

\* The inductive invariant holds in every reachable state, for any number of
\* concurrent invocations of handler().
THEOREM Invariance == Spec => []IInv
<1>1. Init => IInv
  BY InitInv
<1>2. IInv /\ [Next]_vars => IInv'
  BY NextInv, StutterInv
<1>. QED  BY <1>1, <1>2, PTL DEF Spec

\* The pointer always names the last publication and counts them, and exactly the
\* logged generations are PUBLISHED, each once: _publish loses no update.
THEOREM PointerTheorem == Spec => []PointerFollowsLog
  BY Invariance, PTL DEF IInv

\* No two batches ever own one generation, whatever _generation_id collides on.
THEOREM IdentityTheorem == Spec => []BatchOwnsGeneration
  BY Invariance, PTL DEF IInv

\* Nothing is VALIDATED or PUBLISHED without complete evidence of its own manifest.
THEOREM EvidenceTheorem == Spec => []ValidatedOnEvidence
  BY Invariance, PTL DEF IInv

\* _resolve never meets a dangling pointer and answers a publication that happened.
THEOREM ResolveTheorem == Spec => []ResolveNeverDangles
<1>1. IInv => ResolveNeverDangles
  BY DEF IInv, CallInv, HoldsResolution, ResolveNeverDangles
<1>. QED  BY <1>1, Invariance, PTL

\* A REPLAYED answer carries a pointer version at which the generation was published.
THEOREM ReplayTheorem == Spec => []ReplayIsPublished
<1>1. IInv => ReplayIsPublished
  BY DEF IInv, CallInv, HoldsClassification, PublishedAt, ReplayIsPublished
<1>. QED  BY <1>1, Invariance, PTL

-----------------------------------------------------------------------------
(* Steps of the items *)

\* The steps that write the table.
LEMMA WritersOnly ==
  ASSUME Next
  PROVE  \/ UNCHANGED items
         \/ \E c \in Call : PutIdentity(c) \/ UpdateStatus(c) \/ Transact(c)
<1>1. CASE \E c \in Call : HandlerStep(c)
  BY <1>1 DEF HandlerStep, Register, Transition, Validate, Publish, Resolve, GetBatch, RegetBatch,
     GetGeneration, GetPointer, ReadStatus, LoadEvidence, CheckEvidence, GetValidated, GetFailing,
     GetActive, GetResolved
<1>2. CASE ~\E c \in Call : HandlerStep(c)
  BY <1>2 DEF Next, ClientRegister, ClientStartBuild, ClientValidate, ClientPublish, ClientFail,
     ClientResolve, Invoke, Abort, Release, PutEvidence
<1>. QED  BY <1>1, <1>2

LEMMA WriterLifecycle ==
  ASSUME IInv, NEW c \in Call, PutIdentity(c) \/ UpdateStatus(c) \/ Transact(c)
  PROVE  LifecycleStep
<1>1. TypeOK /\ ItemsInv /\ CallInv(c) /\ RunsItsAction(c)
  BY IInvParts DEF CallInv
<1>2. CASE PutIdentity(c)
  <2> DEFINE g == GenerationId[req[c].batch][req[c].digest]
  <2>1. g \in Generation
    BY <1>1, <1>2, RegisterRequest, GenerationIdAssumption DEF PutIdentity
  <2>2. \/ UNCHANGED genItem
        \/ /\ genItem[g].status = "ABSENT" /\ genItem'[g].status = "REGISTERED"
           /\ genItem'[g].attempt = 0
           /\ \A h \in Generation \ {g} : genItem'[h] = genItem[h]
    <3>1. CASE BothAbsent(req[c].batch, g)
      <4>1. /\ genItem[g].status = "ABSENT"
            /\ genItem' = [genItem EXCEPT ![g] =
                  [status |-> "REGISTERED", digest |-> req[c].digest,
                   attempt |-> 0, validation |-> NoItem]]
        BY <1>2, <3>1 DEF PutIdentity, BothAbsent, Exists
      <4>. QED  BY <1>1, <2>1, <4>1 DEF TypeOK
    <3>2. CASE ~BothAbsent(req[c].batch, g)
      BY <1>2, <3>2 DEF PutIdentity
    <3>. QED  BY <3>1, <3>2
  <2>3. genItem[g].status = "ABSENT" => genItem[g].attempt = 0
    BY <1>1, <2>1 DEF ItemsInv, ValidatedOnEvidence
  <2>. QED  BY <2>1, <2>2, <2>3 DEF LifecycleStep, Edges
<1>3. CASE UpdateStatus(c)
  <2> DEFINE g == req[c].generation
  <2>1. /\ g \in Generation /\ req[c].action \in {"start_build", "validate", "fail"}
        /\ seen[c] \in Allowed(req[c].action)
    BY <1>1, <1>3, GenerationRequest DEF UpdateStatus, CallInv, SawAllowedStatus
  <2>2. genItem[g] \in GenerationItem /\ loaded[c] \in Evidence \cup {NoItem}
    BY <1>1, <2>1 DEF TypeOK
  <2>3. \/ UNCHANGED genItem
        \/ /\ genItem[g].status \in Allowed(req[c].action)
           /\ genItem'[g] = Updated(c, genItem[g])
           /\ \A h \in Generation \ {g} : genItem'[h] = genItem[h]
    BY <1>1, <1>3, <2>1 DEF UpdateStatus, StatusStill, TypeOK
  <2>4. genItem'[g] = Updated(c, genItem[g]) /\ genItem[g].status \in Allowed(req[c].action) =>
          /\ <<genItem[g].status, genItem'[g].status>> \in Edges
          /\ genItem'[g].attempt = IF genItem'[g].status = "BUILDING"
                                     THEN genItem[g].attempt + 1 ELSE genItem[g].attempt
          /\ genItem'[g].digest = genItem[g].digest
    BY <2>1, <2>2, UpdatedFields DEF Allowed, Edges
  <2>. QED  BY <2>1, <2>3, <2>4 DEF LifecycleStep
<1>4. CASE Transact(c)
  <2> DEFINE g == req[c].generation
  <2>1. g \in Generation
    BY <1>1, <1>4, GenerationRequest DEF Transact
  <2>2. \/ UNCHANGED genItem
        \/ /\ genItem[g].status = "VALIDATED" /\ genItem'[g].status = "PUBLISHED"
           /\ genItem'[g].attempt = genItem[g].attempt
           /\ genItem'[g].digest = genItem[g].digest
           /\ \A h \in Generation \ {g} : genItem'[h] = genItem[h]
    <3>1. CASE /\ genItem[g].status = "VALIDATED"
               /\ genItem' = [genItem EXCEPT ![g].status = "PUBLISHED"]
      BY <1>1, <2>1, <3>1 DEF TypeOK, GenerationItem
    <3>2. CASE UNCHANGED genItem
      BY <3>2
    <3>. QED  BY <1>4, <3>1, <3>2 DEF Transact
  <2>. QED  BY <2>1, <2>2 DEF LifecycleStep, Edges
<1>. QED  BY <1>2, <1>3, <1>4

LEMMA NextLifecycle ==
  ASSUME IInv, Next
  PROVE  LifecycleStep
<1>1. CASE UNCHANGED items
  BY <1>1 DEF LifecycleStep, items
<1>2. CASE \E c \in Call : PutIdentity(c) \/ UpdateStatus(c) \/ Transact(c)
  BY <1>2, WriterLifecycle
<1>. QED  BY <1>1, <1>2, WritersOnly

\* Every change of a generation is an edge of the lifecycle, counts its attempt and
\* keeps its digest; in particular PUBLISHED is terminal.
THEOREM LifecycleTheorem == Spec => Lifecycle
<1>1. IInv /\ [Next]_vars => [LifecycleStep]_vars
  BY NextLifecycle
<1>. QED  BY <1>1, Invariance, PTL DEF Spec, Lifecycle

-----------------------------------------------------------------------------
(* Refinement *)

LEMMA RefinesAccept ==
  ASSUME IInv, NEW c \in Call, PutIdentity(c)
  PROVE  Abstract!Next \/ UNCHANGED Abstract!vars
<1> DEFINE b == req[c].batch
           g == GenerationId[b][req[c].digest]
<1>1. TypeOK /\ ItemsInv /\ CallInv(c) /\ RunsItsAction(c)
  BY IInvParts DEF CallInv
<1>2. b \in Batch /\ req[c].digest \in Digest /\ req[c].location \in Location
  BY <1>1, RegisterRequest DEF PutIdentity
<1>3. CASE BothAbsent(b, g)
  <2>1. g \notin Abstract!Accepted
    BY <1>1, <1>3 DEF BothAbsent, Abstract!Accepted, ItemsInv, BatchOwnsGeneration
  <2>2. /\ batchItem[b] = NoItem /\ UNCHANGED published
        /\ batchItem' = [batchItem EXCEPT ![b] =
              [generation |-> g, digest |-> req[c].digest, location |-> req[c].location]]
    BY <1>3 DEF BothAbsent, PutIdentity
  <2>3. Abstract!Accept(b, req[c].digest, req[c].location)
    BY <2>1, <2>2 DEF Abstract!Accept
  <2>. QED  BY <1>2, <2>3 DEF Abstract!Next
<1>4. CASE ~BothAbsent(b, g)
  BY <1>4 DEF PutIdentity, Abstract!vars
<1>. QED  BY <1>3, <1>4

LEMMA RefinesPublish ==
  ASSUME IInv, NEW c \in Call, Transact(c)
  PROVE  Abstract!Next \/ UNCHANGED Abstract!vars
<1> DEFINE g == req[c].generation
<1>1. TypeOK /\ ItemsInv /\ CallInv(c) /\ RunsItsAction(c)
  BY IInvParts DEF CallInv
<1>2. g \in Generation
  BY <1>1, GenerationRequest DEF Transact
<1>3. CASE genItem[g].status = "VALIDATED" /\ published' = Append(published, g)
  <2>1. g \in Abstract!Accepted
    BY <1>1, <1>2, <1>3 DEF Abstract!Accepted, ItemsInv, BatchOwnsGeneration, Exists
  <2>2. g \notin Abstract!Entries(published)
    BY <1>1, <1>2, <1>3 DEF Abstract!Entries, ItemsInv, PointerFollowsLog
  <2>3. Abstract!Publish(g)
    BY <1>3, <2>1, <2>2 DEF Abstract!Publish, Transact
  <2>. QED  BY <1>2, <2>3 DEF Abstract!Next
<1>4. CASE UNCHANGED published
  BY <1>4 DEF Transact, Abstract!vars
<1>. QED  BY <1>3, <1>4 DEF Transact

\* The control plane implements the abstract publication log: batch identities are
\* permanent and the log is append-only and free of repetitions.
THEOREM Refinement == Spec => ImplementsPublication
<1>1. Init => Abstract!Init
  BY DEF Init, Abstract!Init
<1>2. IInv /\ [Next]_vars => [Abstract!Next]_(Abstract!vars)
  <2>1. CASE UNCHANGED items
    BY <2>1 DEF items, Abstract!vars
  <2>2. ASSUME IInv, NEW c \in Call, UpdateStatus(c)  PROVE UNCHANGED Abstract!vars
    BY <2>2 DEF UpdateStatus, Abstract!vars
  <2>3. CASE UNCHANGED vars
    BY <2>3 DEF vars, items, Abstract!vars
  <2>. QED  BY <2>1, <2>2, <2>3, WritersOnly, RefinesAccept, RefinesPublish
<1>. QED  BY <1>1, <1>2, Invariance, PTL DEF Spec, ImplementsPublication, Abstract!Spec
=============================================================================
