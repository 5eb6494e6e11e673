----------------------------- MODULE LabEvidence -----------------------------
(***************************************************************************)
(* The evidence of a bounded lab: the script of aws-bounded-lab.yml with   *)
(* its eight executions and snapshots of the pointer, the checkpoint and   *)
(* the final verdict of part4_evidence.py, and the teardown in between.    *)
(*                                                                         *)
(* What is deployed is under test, so it may do anything: each departure   *)
(* from what the scenario should give is a surprise, and their number is   *)
(* bounded.  An item of DynamoDB read at the pointer is the length of the  *)
(* log of publications, which it never repeats.                            *)
(***************************************************************************)
EXTENDS Naturals, Sequences, FiniteSets

CONSTANTS
    MaxSurprise     \* bound: what goes otherwise than the scenario means it to

ASSUME SurpriseAssumption == MaxSurprise \in Nat

VARIABLES
    at,             \* next step of the workflow
    broken,         \* a step of the execute job failed, or of the teardown job
    log,            \* generations in the order in which the pointer moved to them
    exec,           \* what the executions really were
    evidence,       \* the evidence directory
    deployed,       \* resources in the account
    leased,         \* the account lease is held
    surprises

vars == <<at, broken, log, exec, evidence, deployed, leased, surprises>>
system == <<log, exec, deployed, leased>>

-----------------------------------------------------------------------------
(* EXPECTED_SCENARIOS of part4_contract.py *)

Scenarios == {"success", "replay", "conflict", "failure", "recovery", "temporal", "financial", "tamper"}

Batch(s) ==
    CASE s \in {"success", "replay", "conflict"} -> "success"
      [] s \in {"failure", "recovery"}           -> "failure"
      [] OTHER                                   -> s

Expected(s) ==
    [result |-> IF s \in {"success", "replay", "recovery"} THEN "SUCCEEDED" ELSE "FAILED",
     signal |-> s \notin {"success", "replay", "recovery"},
     glue   |-> s \notin {"replay", "conflict"}]

Generations == {"success", "failure", "temporal", "financial", "tamper", "stray"}

\* The run of Glue that belongs to a scenario; `known` when its id is in the execution's history.
GlueRun(s) ==
    [state |-> IF s \in {"success", "recovery"} THEN "SUCCEEDED" ELSE "FAILED",
     injected |-> s = "failure", generation |-> Batch(s), known |-> TRUE]

\* An execution as the scenario means it.  The input names a registration and its digest.
Meant(s) ==
    [status |-> Expected(s).result, input |-> "registered", signal |-> Expected(s).signal,
     glue |-> IF Expected(s).glue THEN <<GlueRun(s)>> ELSE << >>,
     statuses |-> IF s \in {"success", "recovery"} THEN {"VALIDATED", "PUBLISHED"} ELSE {},
     generation |-> Batch(s), attempt |-> IF s = "recovery" THEN 2 ELSE 1,
     published |-> IF s \in {"success", "recovery"} THEN <<Batch(s)>> ELSE << >>]

\* One more run, or another outcome, generation or failure of the one that there is.
OtherRuns(s, runs) ==
    {Append(runs, [GlueRun(s) EXCEPT !.state = x, !.known = k]) : x \in {"SUCCEEDED", "FAILED"}, k \in BOOLEAN}
    \cup (IF runs = << >> THEN {} ELSE
            {[runs EXCEPT ![1].injected = ~@], [runs EXCEPT ![1].generation = "stray"],
             [runs EXCEPT ![1].state = IF @ = "FAILED" THEN "SUCCEEDED" ELSE "FAILED"]})

\* A signal of the Glue job, or the validation of its output, is in a history only with a run.
Departures(s) ==
    LET e == Meant(s) IN
    {[e EXCEPT !.status = x] : x \in {"SUCCEEDED", "FAILED", "TIMED_OUT"} \ {e.status}}
    \cup {[e EXCEPT !.input = "other"], [e EXCEPT !.signal = FALSE], [e EXCEPT !.generation = "stray"]}
    \cup {[e EXCEPT !.statuses = x] : x \in {{"PUBLISHED"}, {"VALIDATED"}, {}}}
    \cup {[e EXCEPT !.attempt = 3 - e.attempt]}
    \cup {[e EXCEPT !.glue = x] : x \in OtherRuns(s, e.glue)}
    \cup (IF e.glue = << >> THEN {} ELSE {[e EXCEPT !.glue = << >>, !.signal = FALSE, !.statuses = {}]})
    \cup {[e EXCEPT !.published = x] :
            x \in {<< >>, <<e.generation>>, <<"stray">>, <<e.generation, "stray">>}}

-----------------------------------------------------------------------------
(* The workflow's steps *)

Script == <<
    <<"run", "success">>, <<"after", "success">>, <<"run", "replay">>, <<"after", "replay">>,
    <<"run", "conflict">>, <<"after", "conflict">>,
    <<"before", "failure">>, <<"run", "failure">>, <<"after", "failure">>,
    <<"run", "recovery">>, <<"after", "recovery">>,
    <<"before", "temporal">>, <<"run", "temporal">>, <<"after", "temporal">>,
    <<"before", "financial">>, <<"run", "financial">>, <<"after", "financial">>,
    <<"run", "tamper">>, <<"after", "tamper">>,
    <<"stale", "publisher">>, <<"serving", "resolution">>, <<"athena", "queries">> >>

Steps == Script \o <<
    <<"collect", "evidence">>, <<"execution", "checkpoint">>, <<"persist", "evidence">>,
    <<"recover", "authority">>, <<"destroy", "plan">>, <<"destroy", "apply">>, <<"verify", "teardown">>,
    <<"post", "budget">>, <<"release", "lease">>, <<"final", "summary">> >>

Collect == Len(Script) + 1
At(kind, name) == at <= Len(Steps) /\ Steps[at] = <<kind, name>>

\* Mutant: the recovery is compared like the others.
RecoveryToo == [replay |-> <<"after", "success">>, conflict |-> <<"after", "replay">>,
                failure |-> <<"before", "failure">>, temporal |-> <<"before", "temporal">>,
                financial |-> <<"before", "financial">>, tamper |-> <<"after", "financial">>,
                recovery |-> <<"after", "failure">>]

\* The snapshot that a later one is compared with, byte for byte, by the script itself.
Baseline == [replay |-> <<"after", "success">>, conflict |-> <<"after", "replay">>,
             failure |-> <<"before", "failure">>, temporal |-> <<"before", "temporal">>,
             financial |-> <<"before", "financial">>, tamper |-> <<"after", "financial">>]

Surprise == surprises < MaxSurprise /\ surprises' = surprises + 1
Plain == UNCHANGED surprises

\* Write files, replacing those of the same name; go on, or leave the rest of the script out.
Over(new, files) == [x \in DOMAIN new \cup DOMAIN files |-> IF x \in DOMAIN new THEN new[x] ELSE files[x]]
Put(name, content, files) == [x \in {name} \cup DOMAIN files |-> IF x = name THEN content ELSE files[x]]
Write(name, content) == evidence' = Put(name, content, evidence)
Forward == at' = at + 1 /\ UNCHANGED broken
Break == at' = Collect /\ broken' = TRUE

\* start_execution.sh waits for the end, or stops the execution at its deadline.
RunScenario ==
    \E s \in Scenarios :
        /\ At("run", s)
        /\ \E e \in {Meant(s)} \cup Departures(s) :
             /\ IF e = Meant(s) THEN Plain ELSE Surprise
             /\ exec' = Put(s, e, exec)
             /\ log' = log \o e.published
             /\ IF e.status = Expected(s).result THEN Forward ELSE Break
        /\ UNCHANGED <<evidence, deployed, leased>>

\* get-item of the pointer into a file, compared with an earlier one where the script does so.
Snapshot ==
    \E when \in {"before", "after"}, s \in Scenarios :
        /\ At(when, s)
        /\ Write(<<when, s>>, Len(log))
        /\ IF when = "after" /\ s \in DOMAIN Baseline /\ evidence[Baseline[s]] # Len(log)
           THEN Break ELSE Forward
        /\ Plain
        /\ UNCHANGED system

\* prove_stale_publisher.py: resolve, publish under version 0, resolve.
StalePublisher ==
    /\ At("stale", "publisher")
    /\ \/ /\ Plain
          /\ Write(<<"stale", "publisher">>, [before |-> Len(log), after |-> Len(log), signal |-> TRUE])
          /\ Forward
          /\ UNCHANGED log
       \/ /\ Surprise
          /\ log' = Append(log, "stray")
          /\ Break      \* not refused, or another winner: no summary
          /\ UNCHANGED evidence
    /\ UNCHANGED <<exec, deployed, leased>>

\* The resolution that the queries are pinned to.
ServingResolution ==
    /\ At("serving", "resolution")
    /\ Write(<<"serving", "resolution">>, Len(log))
    /\ IF log = << >> THEN Break ELSE Forward
    /\ Plain
    /\ UNCHANGED system

\* Both queries; validate_athena_results.py compares with the failure batch's expected results.
AthenaQueries ==
    /\ At("athena", "queries")
    /\ \E rows \in {"expected", "different"} :
         /\ IF rows = "expected" THEN Plain ELSE Surprise
         /\ Write(<<"athena", "queries">>, [generation |-> log[evidence[<<"serving", "resolution">>]], rows |-> rows])
         /\ IF rows = "expected" THEN Forward ELSE Break
    /\ UNCHANGED system

\* A late invocation, or anybody else, moves the pointer while the script runs.
Drift ==
    /\ at < Collect
    /\ Surprise
    /\ \E g \in Generations : log' = Append(log, g)
    /\ UNCHANGED <<at, broken, exec, evidence, deployed, leased>>

-----------------------------------------------------------------------------
(* The receipts of the steps before and after the script *)

\* `sha` is the digest of the teardown authority that the receipt names.
Receipt == [pass : BOOLEAN, run : {"this", "other"}, sha : {"authority", "other"}]
Good == [pass |-> TRUE, run |-> "this", sha |-> "authority"]

Earlier == {"admission", "source", "session", "lease", "authority", "digest", "binding", "apply",
            "preflight", "plan", "deployment", "budget"}
Later == {"teardown-session", "destroy-plan", "destroy-digests", "recovered-authority", "teardown-lease",
          "teardown", "lease-release", "post-budget"}

\* Fields of a receipt that its reader compares, besides its result.
RunBound == {"admission", "lease", "authority", "binding", "recovered-authority", "teardown-lease", "lease-release"}
ShaBound == {"authority", "digest", "binding", "apply", "recovered-authority", "teardown-lease", "lease-release"}

File(r) == <<"receipt", r>>

\* _pass and the comparisons after it
Accepts(r) ==
    /\ File(r) \in DOMAIN evidence
    /\ evidence[File(r)].pass
    /\ r \in RunBound => evidence[File(r)].run = "this"
    /\ r \in ShaBound => evidence[File(r)].sha = "authority"

-----------------------------------------------------------------------------
(* validate_execution *)

History(s) == evidence[<<"history", s>>]
GlueIds(s) == {i \in DOMAIN History(s).glue : History(s).glue[i].known}

\* _validate_executions: eight executions, their inputs, results and signals
ValidExecution(s) ==
    /\ <<"history", s>> \in DOMAIN evidence
    /\ History(s).status = Expected(s).result
    /\ Expected(s).signal => History(s).signal

ValidExecutions ==
    /\ \A s \in Scenarios : ValidExecution(s)
    /\ \A s \in {"success", "recovery"} : {"VALIDATED", "PUBLISHED"} \subseteq History(s).statuses
    /\ History("failure").generation = History("recovery").generation
    /\ History("recovery").attempt > History("failure").attempt
    /\ GlueIds("replay") = {} /\ GlueIds("conflict") = {}

\* _validate_scenario_inputs
ValidInputs == \A s \in Scenarios : History(s).input = "registered"

AllRuns == UNION {{<<s, i>> : i \in DOMAIN History(s).glue} : s \in Scenarios}
TheRun(x) == History(x[1]).glue[x[2]]

\* The inventory of Glue holds exactly six runs.
SixRuns(runs) == Cardinality(runs) = 6

\* _validate_glue: their states, and each of them owned by one history
ValidGlue ==
    LET ofFailure == {x \in AllRuns : Batch(x[1]) = "failure"}
        injected == {x \in ofFailure : TheRun(x).injected}
        recovered == ofFailure \ injected
    IN
    /\ SixRuns(AllRuns)
    /\ \A x \in AllRuns \ ofFailure :
         /\ TheRun(x).state = IF Batch(x[1]) = "success" THEN "SUCCEEDED" ELSE "FAILED"
         /\ ~TheRun(x).injected
    /\ Cardinality(injected) = 1 /\ Cardinality(recovered) = 1
    /\ \A x \in injected, y \in recovered :
         /\ TheRun(x).state = "FAILED" /\ TheRun(y).state = "SUCCEEDED"
         /\ TheRun(x).generation = TheRun(y).generation
    /\ \A x \in AllRuns : TheRun(x).known /\ TheRun(x).generation = History(x[1]).generation

Has(names) == names \subseteq DOMAIN evidence
Pointer(when, s) == evidence[<<when, s>>]

\* Mutant: the pointer moved on.
AdvancedAtAll(before, after) == after > before

\* recovery_version == success_version + 1
AdvancedOnce(before, after) == after = before + 1

\* _validate_control: every snapshot, the stale publisher and the resolution
ValidControl ==
    /\ Has({Script[i] : i \in {i \in DOMAIN Script : Script[i][1] \in {"before", "after", "stale", "serving"}}})
    /\ \A x \in {<<"after", "replay">>, <<"after", "conflict">>, <<"before", "failure">>, <<"after", "failure">>} :
         evidence[x] = Pointer("after", "success")
    /\ \A x \in {<<"before", "temporal">>, <<"after", "temporal">>, <<"before", "financial">>,
                 <<"after", "financial">>, <<"after", "tamper">>} :
         evidence[x] = Pointer("after", "recovery")
    /\ Pointer("after", "success") > 0
    /\ AdvancedOnce(Pointer("after", "success"), Pointer("after", "recovery"))
    /\ log[Pointer("after", "recovery")] = History("recovery").generation
    /\ LET stale == evidence[<<"stale", "publisher">>] IN stale.signal /\ stale.before = stale.after
    /\ evidence[<<"serving", "resolution">>] = Pointer("after", "recovery")

\* _validate_athena
ValidAthena ==
    /\ Has({<<"athena", "queries">>})
    /\ evidence[<<"athena", "queries">>] = [generation |-> log[evidence[<<"serving", "resolution">>]], rows |-> "expected"]

ValidCloudwatch == evidence[<<"cloudwatch", "export">>] = "PASS"

validate_execution ==
    /\ ValidExecutions /\ ValidGlue /\ ValidInputs /\ ValidControl /\ ValidAthena /\ ValidCloudwatch
    /\ \A r \in Earlier : Accepts(r)

\* Collection happens whatever failed before it; the logs may be late.
CollectEvidence ==
    /\ At("collect", "evidence")
    /\ \E logs \in {"PASS", "FAIL"} :
         /\ IF logs = "PASS" THEN Plain ELSE Surprise
         /\ LET histories == [x \in {<<"history", s>> : s \in DOMAIN exec} |-> exec[x[2]]]
            IN  evidence' = Put(<<"cloudwatch", "export">>, logs, Over(histories, evidence))
    /\ Forward
    /\ UNCHANGED system

\* Files that are written after their digests; final-summary.json and its manifest are not there yet.
Excluded == {<<"execution", "checkpoint">>}

\* The digests of all other files.
build_execution_manifest == [x \in DOMAIN evidence \ Excluded |-> evidence[x]]

\* validate_part4_execution_evidence.py
Checkpoint ==
    /\ At("execution", "checkpoint")
    /\ Write(<<"execution", "checkpoint">>,
             [result |-> IF validate_execution THEN "PASS" ELSE "FAIL", files |-> build_execution_manifest])
    /\ Forward
    /\ Plain
    /\ UNCHANGED system

-----------------------------------------------------------------------------
(* The teardown job; an `if: always()` lets a step run after one that failed *)

\* What comes out of a step that may go wrong; a receipt then says so.
Outcome(ok) == IF ok THEN Plain ELSE Surprise
Receipts(names, ok) == [x \in {File(r) : r \in names} |-> [Good EXCEPT !.pass = ok]]

\* The artifact is uploaded whatever happened, and may be missing in the teardown job.
PersistEvidence ==
    /\ At("persist", "evidence")
    /\ \E kept \in BOOLEAN :
         /\ Outcome(kept)
         /\ evidence' = IF kept THEN evidence ELSE [x \in {File("admission")} |-> Good]
    /\ at' = at + 1
    /\ broken' = FALSE
    /\ UNCHANGED system

\* Without an exact authority and lease nothing is destroyed.
RecoverAuthority ==
    /\ At("recover", "authority")
    /\ \E proved \in BOOLEAN :
         /\ Outcome(proved)
         /\ evidence' =
               Over(Receipts({"teardown-session"}, TRUE),
               Over(Receipts(IF proved THEN {"recovered-authority", "teardown-lease"} ELSE {"teardown"}, proved),
                    evidence))
         /\ at' = at + 1
         /\ broken' = ~proved
    /\ UNCHANGED system

DestroyPlan ==
    /\ At("destroy", "plan")
    /\ at' = at + 1
    /\ IF broken THEN Plain /\ UNCHANGED <<evidence, broken>>
       ELSE \E valid \in BOOLEAN :
              /\ Outcome(valid)
              /\ evidence' = Over(IF valid THEN Receipts({"destroy-plan", "destroy-digests"}, TRUE)
                                  ELSE Receipts({"destroy-plan"}, FALSE), evidence)
              /\ broken' = ~valid
    /\ UNCHANGED system

DestroyApply ==
    /\ At("destroy", "apply")
    /\ at' = at + 1
    /\ IF broken THEN Plain /\ UNCHANGED <<deployed, broken>>
       ELSE \E left \in BOOLEAN : Outcome(~left) /\ deployed' = left /\ broken' = left
    /\ UNCHANGED <<log, exec, evidence, leased>>

\* verify_teardown.py asks the account; without an authority the proof is that nothing was deployed.
VerifyTeardown ==
    /\ At("verify", "teardown")
    /\ evidence' = Over(Receipts({"teardown"}, ~deployed), evidence)
    /\ Forward
    /\ Plain
    /\ UNCHANGED system

PostBudget ==
    /\ At("post", "budget")
    /\ \E within \in BOOLEAN : Outcome(within) /\ evidence' = Over(Receipts({"post-budget"}, within), evidence)
    /\ Forward
    /\ UNCHANGED system

\* The lease is deleted after a verified teardown; the receipt tells whether it was found absent.
ReleaseLease ==
    /\ At("release", "lease")
    /\ IF evidence[File("teardown")].pass
       THEN \E absent \in BOOLEAN :
              /\ Outcome(absent)
              /\ leased' = ~absent
              /\ evidence' = Over(Receipts({"lease-release"}, absent), evidence)
       ELSE Plain /\ UNCHANGED <<leased, evidence>>
    /\ Forward
    /\ UNCHANGED <<log, exec, deployed>>

\* A file that the checkpoint vouched for is gone, or says something else.
Alter ==
    /\ at > Len(Script) + 2 /\ at <= Len(Steps)
    /\ Surprise
    /\ \E s \in Scenarios :
         /\ <<"history", s>> \in DOMAIN evidence
         /\ evidence' \in {[x \in DOMAIN evidence \ {<<"history", s>>} |-> evidence[x]],
                          [evidence EXCEPT ![<<"history", s>>].signal = ~@]}
    /\ UNCHANGED <<at, broken>> /\ UNCHANGED system

\* Mutant: the checkpoint's word is enough.
NoRecheck(files) == TRUE

\* Every file of the checkpoint's manifest is still what it was.
Unchanged(files) == \A x \in DOMAIN files : x \in DOMAIN evidence /\ evidence[x] = files[x]

\* Mutant: the release of the lease is not among the proofs.
LeaseAside == Later \ {"lease-release"}

\* The receipts that finality takes besides the checkpoint's.
Finality == Later

finalize_evidence ==
    /\ <<"execution", "checkpoint">> \in DOMAIN evidence
    /\ LET checkpoint == evidence[<<"execution", "checkpoint">>] IN
         checkpoint.result = "PASS" /\ Unchanged(checkpoint.files)
    /\ \A r \in Finality \cup {"digest"} : Accepts(r)

FinalSummary ==
    /\ At("final", "summary")
    /\ Write(<<"final", "summary">>, IF finalize_evidence THEN "AWS_VERIFIED" ELSE "UNCLAIMED")
    /\ Forward
    /\ Plain
    /\ UNCHANGED system

-----------------------------------------------------------------------------
\* The receipts that the job has collected when the script begins: all good, or one of them absent,
\* not a PASS, of another run, or about another authority.
Collected ==
    LET all == [x \in {File(r) : r \in Earlier} |-> Good]
        Others(r) == {[Good EXCEPT !.pass = FALSE], [Good EXCEPT !.run = "other"], [Good EXCEPT !.sha = "other"]}
    IN UNION {{[x \in DOMAIN all \ {File(r)} |-> Good]} \cup {[all EXCEPT ![File(r)] = o] : o \in Others(r)} :
                r \in Earlier}

Init ==
    /\ at = 1
    /\ broken = FALSE
    /\ log = << >>
    /\ exec = [s \in {} |-> << >>]
    /\ \/ evidence = [x \in {File(r) : r \in Earlier} |-> Good] /\ surprises = 0
       \/ MaxSurprise > 0 /\ evidence \in Collected /\ surprises = 1
    /\ deployed = TRUE
    /\ leased = TRUE

Next ==
    \/ RunScenario \/ Snapshot \/ StalePublisher \/ ServingResolution \/ AthenaQueries \/ Drift
    \/ CollectEvidence \/ Checkpoint \/ PersistEvidence
    \/ RecoverAuthority \/ DestroyPlan \/ DestroyApply \/ VerifyTeardown \/ PostBudget \/ ReleaseLease
    \/ Alter \/ FinalSummary

Spec == Init /\ [][Next]_vars /\ WF_vars(Next)

-----------------------------------------------------------------------------
(* Properties *)

Passed == <<"execution", "checkpoint">> \in DOMAIN evidence /\ evidence[<<"execution", "checkpoint">>].result = "PASS"
Verified == <<"final", "summary">> \in DOMAIN evidence /\ evidence[<<"final", "summary">>] = "AWS_VERIFIED"

\* A checkpoint that passed means that between the success and the queries the pointer moved once, to
\* the validated generation of the recovery: whatever executions, late invocations or others did, the
\* snapshots leave no gap in which another move goes unseen.
PassMeansOneMove ==
    Passed =>
        /\ SubSeq(log, Pointer("after", "success") + 1, evidence[<<"serving", "resolution">>]) =
              <<exec["recovery"].generation>>
        /\ "VALIDATED" \in exec["recovery"].statuses
        /\ exec["recovery"].generation = exec["failure"].generation

\* AWS_VERIFIED is claimed only when nothing is deployed and the lease is gone.
VerifiedIsFinal == Verified => ~deployed /\ ~leased

\* AWS_VERIFIED rests on evidence of what happened: every history is still the one collected, although
\* it went through an artifact and the teardown job wrote into the same directory.
VerifiedOnTrueEvidence ==
    Verified => \A s \in Scenarios : <<"history", s>> \in DOMAIN evidence /\ History(s) = exec[s]

\* A lab in which nothing goes wrong is verified in the end: none of the many checks refuses it.
FaithfulRunVerified == <>(surprises > 0 \/ Verified)
=============================================================================
