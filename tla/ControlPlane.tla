---------------------------- MODULE ControlPlane ----------------------------
(***************************************************************************)
(* The DynamoDB control plane of aws/lambda/control.py.                    *)
(*                                                                         *)
(* State: the items of the control table (batch identities, generation     *)
(* records, the active pointer), the validation evidence in S3 and the     *)
(* Lambda invocations in progress.  An invocation is a call of handler();  *)
(* each of its reads and writes of the table is one step, so any two       *)
(* invocations interleave between a read and the conditional write that    *)
(* relies on it.  A slow invocation whose caller gave up is simply one     *)
(* that takes its next step late.                                          *)
(***************************************************************************)
EXTENDS Naturals, Sequences, FiniteSets

CONSTANTS
    Batch,         \* batch identifiers
    Digest,        \* canonical manifest digests
    Location,      \* exact manifest object versions (URI and version id)
    Generation,    \* generation identifiers
    GenerationId,  \* the derivation of _generation_id: a truncated hash, so not assumed injective
    Call,          \* Lambda invocation slots
    Report,        \* what the evidence a client writes may say (a record without its generation)
    MaxAttempt,    \* bound on the build attempts of a generation
    NoItem         \* an absent item, object or attribute

ASSUME GenerationIdAssumption ==
    GenerationId \in [Batch -> [Digest -> Generation]]

ASSUME NoItemAssumption ==
    /\ NoItem \notin Generation
    /\ NoItem \notin [generation : Generation, digest : Digest, location : Location]
    /\ NoItem \notin [generation : Generation, digest : Digest, complete : BOOLEAN,
                      casOnly : BOOLEAN, attempt : Nat]

ASSUME ReportAssumption ==
    Report \subseteq [digest : Digest, complete : BOOLEAN, casOnly : BOOLEAN]

ASSUME BoundAssumption == MaxAttempt \in Nat

VARIABLES
    batchItem,   \* BATCH#<id> / IDENTITY
    genItem,     \* GENERATION#<id> / STATE
    pointer,     \* CONTROL / ACTIVE
    evidence,    \* s3://<evidence>/validation/<generation>.json
    pc, req, seen, loaded, reply,  \* per invocation: control point and locals
    published    \* history: the generations published so far, in order

items    == <<batchItem, genItem, pointer, published>>
locals   == <<req, seen, loaded>>
vars     == <<items, evidence, pc, locals, reply>>

-----------------------------------------------------------------------------
(* Items, requests and replies *)

Identity == [generation : Generation, digest : Digest, location : Location]

Evidence == [generation : Generation, digest : Digest, complete : BOOLEAN,
             casOnly : BOOLEAN, attempt : Nat]

Status == {"ABSENT", "REGISTERED", "BUILDING", "VALIDATED", "PUBLISHED", "FAILED"}

GenerationItem == [status : Status, digest : Digest \cup {NoItem},
                   attempt : Nat, validation : Evidence \cup {NoItem}]

AbsentGeneration == [status |-> "ABSENT", digest |-> NoItem,
                     attempt |-> 0, validation |-> NoItem]

Pointer == [generation : Generation \cup {NoItem}, version : Nat]

NoPointer == [generation |-> NoItem, version |-> 0]

Request ==
    [action : {"register"}, batch : Batch, digest : Digest, location : Location]
      \cup [action : {"start_build", "fail"}, generation : Generation]
      \cup [action : {"validate"}, generation : Generation, glueRun : BOOLEAN]
      \cup [action : {"publish"}, generation : Generation, expected : Nat]
      \cup [action : {"resolve"}]

Code == {"NONE", "REGISTERED", "REPLAYED", "RECOVERING", "IN_PROGRESS", "BUILDING",
         "VALIDATED", "PUBLISHED", "FAILED", "RESOLVED",
         "CONFLICT", "UNKNOWN_GENERATION", "ILLEGAL_TRANSITION", "CONCURRENT_TRANSITION",
         "VALIDATION_EVIDENCE", "NOT_VALIDATED", "STALE_PUBLISHER",
         "NO_ACTIVE_GENERATION", "ACTIVE_POINTER_INVALID", "CANCELED", "ERROR"}

Reply == [code : Code, generation : Generation \cup {NoItem}, version : Nat]

NoReply == [code |-> "NONE", generation |-> NoItem, version |-> 0]

PC == {"idle", "get_batch", "put", "reget_batch", "get_generation", "get_pointer",
       "load", "check", "read", "update", "get_validated", "transact",
       "get_failing", "get_active", "get_resolved", "done"}

Exists(g) == genItem[g].status # "ABSENT"

-----------------------------------------------------------------------------
Init ==
    /\ batchItem = [b \in Batch |-> NoItem]
    /\ genItem = [g \in Generation |-> AbsentGeneration]
    /\ pointer = NoPointer
    /\ evidence = [g \in Generation |-> NoItem]
    /\ pc = [c \in Call |-> "idle"]
    /\ req = [c \in Call |-> [action |-> "resolve"]]
    /\ seen = [c \in Call |-> "ABSENT"]
    /\ loaded = [c \in Call |-> NoItem]
    /\ reply = [c \in Call |-> NoReply]
    /\ published = << >>

(* handler(): dispatch on the action of the event *)
FirstStep(r) ==
    CASE r.action = "register"    -> "get_batch"
      [] r.action = "start_build" -> "read"
      [] r.action = "validate"    -> "load"
      [] r.action = "publish"     -> "get_validated"
      [] r.action = "fail"        -> "get_failing"
      [] r.action = "resolve"     -> "get_active"

Invoke(c, r) ==
    /\ pc[c] = "idle"
    /\ pc' = [pc EXCEPT ![c] = FirstStep(r)]
    /\ req' = [req EXCEPT ![c] = r]
    /\ reply' = [reply EXCEPT ![c] = NoReply]
    /\ UNCHANGED <<items, evidence, seen, loaded>>

Goto(c, step) == pc' = [pc EXCEPT ![c] = step]

\* Return or raise: the reply is complete.
Finish(c, code) ==
    /\ Goto(c, "done")
    /\ reply' = [reply EXCEPT ![c].code = code]

\* The invocation ends without an answer of the handler: an SDK error that the
\* code re-raises, a crash, or the function's timeout.
Abort(c) ==
    /\ pc[c] \notin {"idle", "done"}
    /\ Finish(c, "ERROR")
    /\ UNCHANGED <<items, evidence, locals>>

Release(c) ==
    /\ pc[c] = "done"
    /\ pc' = [pc EXCEPT ![c] = "idle"]
    /\ req' = [req EXCEPT ![c] = [action |-> "resolve"]]
    /\ seen' = [seen EXCEPT ![c] = "ABSENT"]
    /\ loaded' = [loaded EXCEPT ![c] = NoItem]
    /\ reply' = [reply EXCEPT ![c] = NoReply]
    /\ UNCHANGED <<items, evidence>>

-----------------------------------------------------------------------------
(* register *)

\* _existing_registration up to its read of the generation.
ExistingRegistration(c) ==
    LET existing == batchItem[req[c].batch] IN
    \/ /\ \/ existing.digest # req[c].digest
          \/ existing.location # req[c].location
       /\ Finish(c, "CONFLICT")
    \/ /\ existing.digest = req[c].digest
       /\ existing.location = req[c].location
       /\ Goto(c, "get_generation")
       /\ reply' = [reply EXCEPT ![c].generation = existing.generation]

GetBatch(c) ==
    /\ pc[c] = "get_batch"
    /\ \/ /\ batchItem[req[c].batch] # NoItem
          /\ ExistingRegistration(c)
       \/ /\ batchItem[req[c].batch] = NoItem
          /\ Goto(c, "put")
          /\ UNCHANGED reply
    /\ UNCHANGED <<items, evidence, locals>>

\* Mutants: one condition of the transaction is missing, or both are.
BatchAbsent(b, g) == batchItem[b] = NoItem
Unconditional(b, g) == TRUE

\* The conditions of the transaction of two puts: both items must be absent.
BothAbsent(b, g) == batchItem[b] = NoItem /\ ~Exists(g)

PutIdentity(c) ==
    LET b == req[c].batch
        g == GenerationId[b][req[c].digest]
    IN
    /\ pc[c] = "put"
    /\ \/ /\ BothAbsent(b, g)
          /\ batchItem' = [batchItem EXCEPT ![b] =
                [generation |-> g, digest |-> req[c].digest, location |-> req[c].location]]
          /\ genItem' = [genItem EXCEPT ![g] =
                [status |-> "REGISTERED", digest |-> req[c].digest,
                 attempt |-> 0, validation |-> NoItem]]
          /\ reply' = [reply EXCEPT ![c] =
                [code |-> "REGISTERED", generation |-> g, version |-> 0]]
          /\ Goto(c, "get_pointer")
       \/ /\ ~BothAbsent(b, g)
          /\ Goto(c, "reget_batch")
          /\ UNCHANGED <<batchItem, genItem, reply>>
    /\ UNCHANGED <<pointer, published, evidence, locals>>

\* Reconciliation after a cancelled transaction.
RegetBatch(c) ==
    /\ pc[c] = "reget_batch"
    /\ \/ /\ batchItem[req[c].batch] = NoItem
          /\ Finish(c, "CANCELED")
       \/ /\ batchItem[req[c].batch] # NoItem
          /\ ExistingRegistration(c)
    /\ UNCHANGED <<items, evidence, locals>>

\* Mutant: every generation past BUILDING counts as done.
EagerClassification(status) ==
    CASE status \in {"VALIDATED", "PUBLISHED"} -> "REPLAYED"
      [] status = "FAILED"                    -> "RECOVERING"
      [] OTHER                                -> "IN_PROGRESS"

Classification(status) ==
    CASE status = "PUBLISHED" -> "REPLAYED"
      [] status = "FAILED"    -> "RECOVERING"
      [] OTHER                -> "IN_PROGRESS"

GetGeneration(c) ==
    LET g == reply[c].generation IN
    /\ pc[c] = "get_generation"
    /\ \/ /\ ~Exists(g)
          /\ Finish(c, "UNKNOWN_GENERATION")
       \/ /\ Exists(g)
          /\ Goto(c, "get_pointer")
          /\ reply' = [reply EXCEPT ![c].code = Classification(genItem[g].status)]
    /\ UNCHANGED <<items, evidence, locals>>

\* _pointer_version, read after the classification and not with it.
GetPointer(c) ==
    /\ pc[c] = "get_pointer"
    /\ Goto(c, "done")
    /\ reply' = [reply EXCEPT ![c].version = pointer.version]
    /\ UNCHANGED <<items, evidence, locals>>

Register(c) == \/ GetBatch(c)
               \/ PutIdentity(c)
               \/ RegetBatch(c)
               \/ GetGeneration(c)
               \/ GetPointer(c)

-----------------------------------------------------------------------------
(* _transition: a read of the status, then an update conditioned on it alone *)

\* Mutant: fail relies on its own check of PUBLISHED, made before this read.
AllowedFailAny(action) ==
    CASE action = "start_build" -> {"REGISTERED", "FAILED"}
      [] action = "validate"    -> {"BUILDING"}
      [] OTHER                  -> Status \ {"ABSENT"}

Allowed(action) ==
    CASE action = "start_build" -> {"REGISTERED", "FAILED"}
      [] action = "validate"    -> {"BUILDING"}
      [] action = "fail"        -> {"REGISTERED", "BUILDING", "VALIDATED"}
      [] OTHER                  -> {}

Target(action) ==
    CASE action = "start_build" -> "BUILDING"
      [] action = "validate"    -> "VALIDATED"
      [] OTHER                  -> "FAILED"

ReadStatus(c) ==
    LET g == req[c].generation IN
    /\ pc[c] = "read"
    /\ \/ /\ ~Exists(g)
          /\ Finish(c, "UNKNOWN_GENERATION")
          /\ UNCHANGED seen
       \/ /\ Exists(g)
          /\ genItem[g].status \notin Allowed(req[c].action)
          /\ Finish(c, "ILLEGAL_TRANSITION")
          /\ UNCHANGED seen
       \/ /\ genItem[g].status \in Allowed(req[c].action)
          /\ Goto(c, "update")
          /\ seen' = [seen EXCEPT ![c] = genItem[g].status]
          /\ UNCHANGED reply
    /\ UNCHANGED <<items, evidence, req, loaded>>

\* The attributes the update sets, by action.
Updated(c, item) ==
    CASE req[c].action = "start_build" ->
           [item EXCEPT !.status = "BUILDING", !.attempt = @ + 1]
      [] req[c].action = "validate" ->
           [item EXCEPT !.status = "VALIDATED", !.validation = loaded[c]]
      [] OTHER ->
           [item EXCEPT !.status = "FAILED"]

\* Mutant: the update has no condition.
StatusUnchecked(c) == TRUE

StatusStill(c) == genItem[req[c].generation].status = seen[c]

UpdateStatus(c) ==
    LET g == req[c].generation IN
    /\ pc[c] = "update"
    /\ \/ /\ StatusStill(c)
          /\ genItem' = [genItem EXCEPT ![g] = Updated(c, genItem[g])]
          /\ Goto(c, "done")
          /\ reply' = [reply EXCEPT ![c] =
                [code |-> Target(req[c].action), generation |-> g, version |-> 0]]
       \/ /\ ~StatusStill(c)
          /\ Finish(c, "CONCURRENT_TRANSITION")
          /\ UNCHANGED genItem
    /\ UNCHANGED <<batchItem, pointer, published, evidence, locals>>

Transition(c) == ReadStatus(c) \/ UpdateStatus(c)

-----------------------------------------------------------------------------
(* validate: the evidence is read before the generation *)

LoadEvidence(c) ==
    LET g == req[c].generation IN
    /\ pc[c] = "load"
    /\ \/ /\ evidence[g] = NoItem
          /\ Finish(c, "VALIDATION_EVIDENCE")
          /\ UNCHANGED loaded
       \/ /\ evidence[g] # NoItem
          /\ loaded' = [loaded EXCEPT ![c] = evidence[g]]
          /\ Goto(c, "check")
          /\ UNCHANGED reply
    /\ UNCHANGED <<items, evidence, req, seen>>

\* Mutant: the manifest of the evidence is not compared.
EvidenceOfAnyManifest(c, g) ==
    /\ loaded[c].generation = g
    /\ loaded[c].complete
    /\ loaded[c].casOnly \/ req[c].glueRun

\* The generation and manifest of the evidence, its six snapshots, and the Glue
\* run that produced it unless it is the evidence of a control-plane-only proof.
EvidenceAgrees(c, g) ==
    /\ loaded[c].generation = g
    /\ loaded[c].digest = genItem[g].digest
    /\ loaded[c].complete
    /\ loaded[c].casOnly \/ req[c].glueRun

CheckEvidence(c) ==
    LET g == req[c].generation IN
    /\ pc[c] = "check"
    /\ \/ /\ ~Exists(g)
          /\ Finish(c, "UNKNOWN_GENERATION")
       \/ /\ Exists(g)
          /\ ~EvidenceAgrees(c, g)
          /\ Finish(c, "VALIDATION_EVIDENCE")
       \/ /\ Exists(g)
          /\ EvidenceAgrees(c, g)
          /\ Goto(c, "read")
          /\ UNCHANGED reply
    /\ UNCHANGED <<items, evidence, locals>>

Validate(c) == LoadEvidence(c) \/ CheckEvidence(c)

-----------------------------------------------------------------------------
(* publish: compare-and-swap of the pointer together with the status *)

GetValidated(c) ==
    LET g == req[c].generation IN
    /\ pc[c] = "get_validated"
    /\ \/ /\ ~Exists(g)
          /\ Finish(c, "UNKNOWN_GENERATION")
       \/ /\ Exists(g)
          /\ genItem[g].status # "VALIDATED"
          /\ Finish(c, "NOT_VALIDATED")
       \/ /\ genItem[g].status = "VALIDATED"
          /\ Goto(c, "transact")
          /\ UNCHANGED reply
    /\ UNCHANGED <<items, evidence, locals>>

\* Mutant: the pointer moves whatever its version is.
PointerUnchecked(expected) == TRUE

PointerMatches(expected) ==
    \/ pointer = NoPointer /\ expected = 0
    \/ pointer # NoPointer /\ pointer.version = expected

Transact(c) ==
    LET g == req[c].generation
        expected == req[c].expected
    IN
    /\ pc[c] = "transact"
    /\ \/ /\ PointerMatches(expected)
          /\ genItem[g].status = "VALIDATED"
          /\ pointer' = [generation |-> g, version |-> expected + 1]
          /\ genItem' = [genItem EXCEPT ![g].status = "PUBLISHED"]
          /\ published' = Append(published, g)
          /\ Goto(c, "done")
          /\ reply' = [reply EXCEPT ![c] =
                [code |-> "PUBLISHED", generation |-> g, version |-> expected + 1]]
       \/ /\ ~PointerMatches(expected) \/ genItem[g].status # "VALIDATED"
          /\ Finish(c, "STALE_PUBLISHER")
          /\ UNCHANGED <<pointer, genItem, published>>
    /\ UNCHANGED <<batchItem, evidence, locals>>

Publish(c) == GetValidated(c) \/ Transact(c)

-----------------------------------------------------------------------------
(* fail: its own check of PUBLISHED, then the transition reads again *)

GetFailing(c) ==
    LET g == req[c].generation IN
    /\ pc[c] = "get_failing"
    /\ \/ /\ ~Exists(g)
          /\ Finish(c, "UNKNOWN_GENERATION")
       \/ /\ genItem[g].status = "PUBLISHED"
          /\ Finish(c, "ILLEGAL_TRANSITION")
       \/ /\ Exists(g)
          /\ genItem[g].status # "PUBLISHED"
          /\ Goto(c, "read")
          /\ UNCHANGED reply
    /\ UNCHANGED <<items, evidence, locals>>

-----------------------------------------------------------------------------
(* resolve: the pointer, then the generation it names *)

GetActive(c) ==
    /\ pc[c] = "get_active"
    /\ \/ /\ pointer = NoPointer
          /\ Finish(c, "NO_ACTIVE_GENERATION")
       \/ /\ pointer # NoPointer
          /\ Goto(c, "get_resolved")
          /\ reply' = [reply EXCEPT ![c] = [code |-> "NONE", generation |-> pointer.generation,
                                           version |-> pointer.version]]
    /\ UNCHANGED <<items, evidence, locals>>

GetResolved(c) ==
    LET g == reply[c].generation IN
    /\ pc[c] = "get_resolved"
    /\ Finish(c, IF ~Exists(g) THEN "UNKNOWN_GENERATION"
                 ELSE IF genItem[g].status # "PUBLISHED" THEN "ACTIVE_POINTER_INVALID"
                 ELSE "RESOLVED")
    /\ UNCHANGED <<items, evidence, locals>>

Resolve(c) == GetActive(c) \/ GetResolved(c)

-----------------------------------------------------------------------------
(* One step of an invocation of handler(). *)
HandlerStep(c) ==
    \/ Register(c)
    \/ Transition(c)
    \/ Validate(c)
    \/ Publish(c)
    \/ GetFailing(c)
    \/ Resolve(c)

(* The clients: any caller may send any action about any generation.  The    *)
(* expected version of a publication is one that some registration has       *)
(* returned, so it is not above the current one.                             *)
Building(g) == {c \in Call : /\ pc[c] \notin {"idle", "done"}
                             /\ req[c].action = "start_build"
                             /\ req[c].generation = g}

ClientRegister(c) ==
    \E b \in Batch, d \in Digest, l \in Location :
        Invoke(c, [action |-> "register", batch |-> b, digest |-> d, location |-> l])

ClientStartBuild(c) ==
    \E g \in Generation :
        /\ genItem[g].attempt + Cardinality(Building(g)) < MaxAttempt
        /\ Invoke(c, [action |-> "start_build", generation |-> g])

ClientValidate(c) ==
    \E g \in Generation, run \in BOOLEAN :
        Invoke(c, [action |-> "validate", generation |-> g, glueRun |-> run])

ClientPublish(c) ==
    \E g \in Generation, expected \in 0..pointer.version :
        Invoke(c, [action |-> "publish", generation |-> g, expected |-> expected])

ClientFail(c) ==
    \E g \in Generation : Invoke(c, [action |-> "fail", generation |-> g])

ClientResolve(c) == Invoke(c, [action |-> "resolve"])

(* The Glue run or the control-plane proof of some attempt that was started    *)
(* (over)writes the evidence object.                                         *)
PutEvidence(g) ==
    /\ \E report \in Report, build \in 1..genItem[g].attempt :
          evidence' = [evidence EXCEPT ![g] =
             [generation |-> g, digest |-> report.digest, complete |-> report.complete,
              casOnly |-> report.casOnly, attempt |-> build]]
    /\ UNCHANGED <<items, pc, locals, reply>>

Next ==
    \/ \E c \in Call : \/ ClientRegister(c)
                       \/ ClientStartBuild(c)
                       \/ ClientValidate(c)
                       \/ ClientPublish(c)
                       \/ ClientFail(c)
                       \/ ClientResolve(c)
                       \/ HandlerStep(c)
                       \/ Abort(c)
                       \/ Release(c)
    \/ \E g \in Generation : PutEvidence(g)

Spec == Init /\ [][Next]_vars

-----------------------------------------------------------------------------
(* Properties *)

\* Every variable keeps its type; the control points are those of the handlers.
TypeOK ==
    /\ batchItem \in [Batch -> Identity \cup {NoItem}]
    /\ genItem \in [Generation -> GenerationItem]
    /\ pointer \in Pointer
    /\ evidence \in [Generation -> Evidence \cup {NoItem}]
    /\ pc \in [Call -> PC]
    /\ req \in [Call -> Request]
    /\ seen \in [Call -> Status]
    /\ loaded \in [Call -> Evidence \cup {NoItem}]
    /\ reply \in [Call -> Reply]
    /\ published \in Seq(Generation)

\* The pointer names the last published generation and counts the publications;
\* the generations with status PUBLISHED are those of the log, each there once.
\* (_publish moves the pointer and the status in one transaction, after a read
\* that another publisher may have made stale.)
PointerFollowsLog ==
    /\ pointer.version = Len(published)
    /\ \/ pointer = NoPointer
       \/ /\ pointer.version > 0
          /\ pointer.generation = published[Len(published)]
    /\ \A g \in Generation :
          genItem[g].status = "PUBLISHED" <=> \E i \in 1..Len(published) : published[i] = g
    /\ \A i, j \in 1..Len(published) : published[i] = published[j] => i = j

\* _resolve reads the pointer and the generation in two reads: what it pairs is
\* always a publication that happened, and it never raises ACTIVE_POINTER_INVALID.
ResolveNeverDangles ==
    \A c \in Call :
        req[c].action = "resolve" /\ pc[c] = "done" =>
            /\ reply[c].code \in {"RESOLVED", "NO_ACTIVE_GENERATION", "ERROR"}
            /\ reply[c].code = "RESOLVED" => /\ reply[c].version \in 1..Len(published)
                                             /\ published[reply[c].version] = reply[c].generation

\* A batch owns its generation alone, although _generation_id truncates a hash:
\* the generation exists under the batch's digest, no other batch has it, and no
\* generation is without a batch.
BatchOwnsGeneration ==
    /\ \A b \in Batch : batchItem[b] # NoItem =>
          /\ Exists(batchItem[b].generation)
          /\ genItem[batchItem[b].generation].digest = batchItem[b].digest
          /\ \A other \in Batch \ {b} : batchItem[other] # NoItem =>
                batchItem[other].generation # batchItem[b].generation
    /\ \A g \in Generation : Exists(g) =>
          \E b \in Batch : batchItem[b] # NoItem /\ batchItem[b].generation = g

\* A generation that is VALIDATED or PUBLISHED carries complete evidence for its
\* own manifest, whatever was in the evidence object when others validated it,
\* and has been built at least once.
ValidatedOnEvidence ==
    \A g \in Generation :
        /\ genItem[g].status \in {"BUILDING", "VALIDATED", "PUBLISHED"} => genItem[g].attempt > 0
        /\ genItem[g].status \in {"ABSENT", "REGISTERED"} => genItem[g].attempt = 0
        /\ genItem[g].status \in {"VALIDATED", "PUBLISHED"} =>
              /\ genItem[g].validation # NoItem
              /\ genItem[g].validation.generation = g
              /\ genItem[g].validation.digest = genItem[g].digest
              /\ genItem[g].validation.complete

\* A registration that answers REPLAYED returns a pointer version at which the
\* generation had been published: the classification is read before the pointer.
ReplayIsPublished ==
    \A c \in Call :
        reply[c].code = "REPLAYED" /\ pc[c] = "done" =>
            \E i \in 1..Len(published) : /\ i <= reply[c].version
                                         /\ published[i] = reply[c].generation

\* The control points of each action.
StepsOf(action) ==
    CASE action = "register"    -> {"get_batch", "put", "reget_batch", "get_generation", "get_pointer"}
      [] action = "start_build" -> {"read", "update"}
      [] action = "validate"    -> {"load", "check", "read", "update"}
      [] action = "publish"     -> {"get_validated", "transact"}
      [] action = "fail"        -> {"get_failing", "read", "update"}
      [] action = "resolve"     -> {"get_active", "get_resolved"}

PublishedAt(g, version) == \E i \in 1..Len(published) : i <= version /\ published[i] = g

\* What an invocation relies on between two of its steps.
RunsItsAction(c) == pc[c] \in StepsOf(req[c].action) \cup {"idle", "done"}

HoldsAgreedEvidence(c) ==
    /\ pc[c] = "check" => loaded[c] # NoItem
    /\ req[c].action = "validate" /\ pc[c] \in {"read", "update"} =>
          /\ loaded[c] # NoItem
          /\ Exists(req[c].generation)
          /\ loaded[c].generation = req[c].generation
          /\ loaded[c].digest = genItem[req[c].generation].digest
          /\ loaded[c].complete

SawAllowedStatus(c) == pc[c] = "update" => seen[c] \in Allowed(req[c].action)

HoldsResolution(c) ==
    /\ pc[c] = "get_resolved" =>
          /\ reply[c].version \in 1..Len(published)
          /\ published[reply[c].version] = reply[c].generation
    /\ req[c].action = "resolve" /\ pc[c] = "done" =>
            /\ reply[c].code \in {"RESOLVED", "NO_ACTIVE_GENERATION", "ERROR"}
            /\ reply[c].code = "RESOLVED" => /\ reply[c].version \in 1..Len(published)
                                             /\ published[reply[c].version] = reply[c].generation

HoldsClassification(c) ==
    /\ pc[c] = "get_generation" => reply[c].generation # NoItem
    /\ pc[c] = "get_pointer" /\ reply[c].code = "REPLAYED" =>
          PublishedAt(reply[c].generation, Len(published))
    /\ pc[c] = "done" /\ reply[c].code = "REPLAYED" =>
          PublishedAt(reply[c].generation, reply[c].version)
    /\ pc[c] # "done" /\ reply[c].code # "NONE" => pc[c] = "get_pointer"

CallInv(c) == /\ RunsItsAction(c)
              /\ HoldsAgreedEvidence(c)
              /\ SawAllowedStatus(c)
              /\ HoldsResolution(c)
              /\ HoldsClassification(c)

\* The inductive invariant.
IInv == /\ TypeOK
        /\ PointerFollowsLog
        /\ BatchOwnsGeneration
        /\ ValidatedOnEvidence
        /\ \A c \in Call : CallInv(c)

\* The lifecycle of docs/correctness.md with its recovery edge.
Edges == {<<"ABSENT", "REGISTERED">>, <<"REGISTERED", "BUILDING">>, <<"FAILED", "BUILDING">>,
          <<"BUILDING", "VALIDATED">>, <<"VALIDATED", "PUBLISHED">>,
          <<"REGISTERED", "FAILED">>, <<"BUILDING", "FAILED">>, <<"VALIDATED", "FAILED">>}

\* A generation moves along the lifecycle's edges only, its attempt counts the
\* edges into BUILDING, its digest stays, and once PUBLISHED nothing of it moves,
\* although _transition checks a status that another invocation may have changed.
LifecycleStep ==
    \A g \in Generation :
        \/ genItem'[g] = genItem[g]
        \/ /\ <<genItem[g].status, genItem'[g].status>> \in Edges
           /\ genItem'[g].attempt = IF genItem'[g].status = "BUILDING"
                                      THEN genItem[g].attempt + 1 ELSE genItem[g].attempt
           /\ genItem[g].status # "ABSENT" => genItem'[g].digest = genItem[g].digest
Lifecycle == [][LifecycleStep]_vars

\* The control plane implements GenerationPublication: permanent batch identity
\* and an append-only log without repetitions.
Abstract == INSTANCE GenerationPublication WITH identity <- batchItem
ImplementsPublication == Abstract!Spec
=============================================================================
