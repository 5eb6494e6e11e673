---------------------------- MODULE AtlasEngine ----------------------------
(***************************************************************************)
(* The local engine of src/atlasretail/engine.py: one process that keeps   *)
(* snapshots/<generation>.json and state.json, each written by an atomic   *)
(* replace of its own.  The process may die between the two; a new one     *)
(* then works with the files it finds.                                     *)
(*                                                                         *)
(* A payload is written down as what its digest depends on: the generation *)
(* and the manifest's identity digest.                                     *)
(***************************************************************************)
EXTENDS Naturals, Sequences

CONSTANTS
    Batch,         \* batch identifiers
    Digest,        \* identity digests of manifests that agree with their records
    Passing,       \* those whose records pass validate()
    Generation,    \* generation identifiers
    GenerationId,  \* "g-" followed by the batch identifier
    NoItem         \* no entry, file, operation or generation

ASSUME EngineAssumption ==
    /\ Passing \subseteq Digest
    /\ GenerationId \in [Batch -> Generation]
    /\ \A a, b \in Batch : GenerationId[a] = GenerationId[b] => a = b
    /\ NoItem \notin Generation
    /\ NoItem \notin [generation : Generation, digest : Digest]
    /\ NoItem \notin [generation : Generation, digest : Digest, location : {"local"}]
    /\ NoItem \notin [batch : Batch, digest : Digest, step : {"stage", "commit"}]
    /\ NoItem \notin [status : {"ready", "active", "retained"},
                      snapshot : [generation : Generation, digest : Digest]]

VARIABLES
    manifests,        \* state.json: the accepted manifest of each batch
    generations,      \* state.json: status and snapshot digest of each generation
    active,           \* state.json: the active generation
    pointer_version,  \* state.json
    snapshots,        \* the files under snapshots/
    build,            \* the build_generation call in progress
    published         \* history: the generations published so far, in order

state == <<manifests, generations, active, pointer_version>>
vars == <<state, snapshots, build, published>>

Payload == [generation : Generation, digest : Digest]
Entry == [status : {"ready", "active", "retained"}, snapshot : Payload]

Init ==
    /\ manifests = [b \in Batch |-> NoItem]
    /\ generations = [g \in Generation |-> NoItem]
    /\ active = NoItem
    /\ pointer_version = 0
    /\ snapshots = [g \in Generation |-> NoItem]
    /\ build = NoItem
    /\ published = << >>

-----------------------------------------------------------------------------
(* build_generation *)

\* Mutant: a batch that was accepted before is built like a new one.
NeverAccepted(b) == FALSE

Accepted(b) == manifests[b] # NoItem

\* Mutant: the report of validate() is not looked at.
UngatedQuality(d) == TRUE

Passes(d) == d \in Passing

\* A call that gets past the identity check and the quality gate.  The others
\* (replayed, ConflictError, QualityGateError) leave every file as it is.
BeginBuild(b, d) ==
    /\ build = NoItem
    /\ ~Accepted(b)
    /\ Passes(d)
    /\ build' = [batch |-> b, digest |-> d, step |-> "stage"]
    /\ UNCHANGED <<state, snapshots, published>>

PayloadOf(x) == [generation |-> GenerationId[x.batch], digest |-> x.digest]

\* os.replace of the snapshot.
CommitSnapshot ==
    /\ build # NoItem
    /\ build.step = "stage"
    /\ snapshots' = [snapshots EXCEPT ![GenerationId[build.batch]] = PayloadOf(build)]
    /\ build' = [build EXCEPT !.step = "commit"]
    /\ UNCHANGED <<state, published>>

\* os.replace of state.json with the generation and the manifest.
CommitBuild ==
    /\ build # NoItem
    /\ build.step = "commit"
    /\ generations' = [generations EXCEPT ![GenerationId[build.batch]] =
                          [status |-> "ready", snapshot |-> PayloadOf(build)]]
    /\ manifests' = [manifests EXCEPT ![build.batch] = PayloadOf(build)]
    /\ build' = NoItem
    /\ UNCHANGED <<active, pointer_version, snapshots, published>>

\* An exception (inject_failure among them) or the death of the process.
AbortBuild ==
    /\ build # NoItem
    /\ build' = NoItem
    /\ UNCHANGED <<state, snapshots, published>>

-----------------------------------------------------------------------------
(* publish: a single replace of state.json, so a crash leaves all of it or nothing *)

\* Mutant: a retained generation may be published again.
NotActive(g) == generations[g] # NoItem /\ generations[g].status # "active"

Ready(g) == generations[g] # NoItem /\ generations[g].status = "ready"

\* The generations after g replaced the active one.
Replaced(g) ==
    [x \in Generation |->
        IF x \in {g, active}
        THEN [generations[x] EXCEPT !.status = IF x = g THEN "active" ELSE "retained"]
        ELSE generations[x]]

Publish(g, expected) ==
    /\ build = NoItem
    /\ Ready(g)
    /\ pointer_version = expected
    /\ generations' = Replaced(g)
    /\ active' = g
    /\ pointer_version' = pointer_version + 1
    /\ published' = Append(published, g)
    /\ UNCHANGED <<manifests, snapshots, build>>

-----------------------------------------------------------------------------
Next ==
    \/ \E b \in Batch, d \in Digest : BeginBuild(b, d)
    \/ CommitSnapshot
    \/ CommitBuild
    \/ AbortBuild
    \/ \E g \in Generation, expected \in 0..pointer_version : Publish(g, expected)

Spec == Init /\ [][Next]_vars

-----------------------------------------------------------------------------
(* Properties *)

\* Types of the files and of the call in progress.
TypeOK ==
    /\ manifests \in [Batch -> Payload \cup {NoItem}]
    /\ generations \in [Generation -> Entry \cup {NoItem}]
    /\ active \in Generation \cup {NoItem}
    /\ pointer_version \in Nat
    /\ snapshots \in [Generation -> Payload \cup {NoItem}]
    /\ build \in [batch : Batch, digest : Digest, step : {"stage", "commit"}] \cup {NoItem}
    /\ published \in Seq(Generation)

\* assert_consistent never raises, although the snapshot and state.json are two files
\* and a build that died may be repeated with other content: every generation in
\* state.json has its snapshot, with the digest recorded.
Consistent ==
    /\ \A g \in Generation : generations[g] # NoItem => snapshots[g] = generations[g].snapshot
    /\ active # NoItem => generations[active] # NoItem

\* The pointer counts the publications and names the last; it alone is "active", the
\* earlier ones are "retained", and no other generation is either.
PointerFollowsLog ==
    /\ pointer_version = Len(published)
    /\ active = IF published = << >> THEN NoItem ELSE published[Len(published)]
    /\ \A g \in Generation : generations[g] # NoItem =>
          generations[g].status = IF g = active THEN "active"
                                  ELSE IF \E i \in 1..Len(published) : published[i] = g
                                  THEN "retained" ELSE "ready"

\* Only what passed validate() under its own batch is ever served.
ServedPassed ==
    active # NoItem =>
        \E b \in Batch : /\ manifests[b] # NoItem
                         /\ manifests[b].generation = active
                         /\ manifests[b] = snapshots[active]
                         /\ snapshots[active].digest \in Passing

\* The engine keeps the promise of the control plane it mirrors (GenerationPublication),
\* with the one location that a local batch has.
Identity(b) ==
    IF manifests[b] = NoItem THEN NoItem
    ELSE [generation |-> manifests[b].generation, digest |-> manifests[b].digest,
          location |-> "local"]

Abstract == INSTANCE GenerationPublication WITH
    identity <- [b \in Batch |-> Identity(b)],
    Location <- {"local"},
    GenerationId <- [b \in Batch |-> [d \in Digest |-> GenerationId[b]]]

ImplementsPublication == Abstract!Spec
=============================================================================
