------------------------- MODULE LabEvidenceProofs -------------------------
(***************************************************************************)
(* Theorems about LabEvidence for any number of surprises.                 *)
(***************************************************************************)
EXTENDS LabEvidence, SequenceTheorems, TLAPS

-----------------------------------------------------------------------------
(* The script *)

\* The place of a step.
Place(kind, name, i) ==
    \/ i \in 1..22 /\ kind \in {"run", "before", "after", "stale", "serving", "athena"}
    \/ i = 23 /\ kind = "collect"   /\ name = "evidence"
    \/ i = 24 /\ kind = "execution" /\ name = "checkpoint"
    \/ i = 25 /\ kind = "persist"   /\ name = "evidence"
    \/ i = 26 /\ kind = "recover"   /\ name = "authority"
    \/ i = 27 /\ kind = "destroy"   /\ name = "plan"
    \/ i = 28 /\ kind = "destroy"   /\ name = "apply"
    \/ i = 29 /\ kind = "verify"    /\ name = "teardown"
    \/ i = 30 /\ kind = "post"      /\ name = "budget"
    \/ i = 31 /\ kind = "release"   /\ name = "lease"
    \/ i = 32 /\ kind = "final"     /\ name = "summary"

\* A tuple of n values is a sequence of them.
LEMMA TupleLemma ==
    ASSUME NEW S, NEW n \in Nat, NEW f, f = [i \in 1..n |-> f[i]], \A i \in 1..n : f[i] \in S
    PROVE  f \in Seq(S) /\ Len(f) = n
<1>1. f \in [1..n -> S]
  OBVIOUS
<1>2. f \in Seq(S)
  BY <1>1, SeqDef
<1>3. QED
  BY <1>1, <1>2, LenProperties

\* The steps, the ten after the script spelled out.
Rest == << <<"collect", "evidence">>, <<"execution", "checkpoint">>, <<"persist", "evidence">>,
    <<"recover", "authority">>, <<"destroy", "plan">>, <<"destroy", "apply">>, <<"verify", "teardown">>,
    <<"post", "budget">>, <<"release", "lease">>, <<"final", "summary">> >>

LEMMA StepsLemma ==
    Len(Steps) = 32 /\ \A i \in 1..32 : Steps[i] = IF i <= 22 THEN Script[i] ELSE Rest[i - 22]
<1>1. PICK R : R = Rest
  OBVIOUS
<1>2. PICK S : S = Script
  OBVIOUS
<1>3. PICK X : X = {S[i] : i \in 1..22} \cup {R[i] : i \in 1..10}
  OBVIOUS
<1>4. R \in Seq(X) /\ Len(R) = 10
  <2>1. R = [i \in 1..10 |-> R[i]]
    BY <1>1 DEF Rest
  <2>2. \A i \in 1..10 : R[i] \in X
    BY <1>3
  <2>3. QED
    BY <2>1, <2>2, TupleLemma
<1>5. S \in Seq(X) /\ Len(S) = 22
  <2>1. S = [i \in 1..22 |-> S[i]]
    BY <1>2 DEF Script
  <2>2. \A i \in 1..22 : S[i] \in X
    BY <1>3
  <2>3. QED
    BY <2>1, <2>2, TupleLemma
<1>6. Steps = S \o R
  BY <1>1, <1>2 DEF Steps, Rest
<1>7. Len(Steps) = 32 /\ \A i \in 1..32 : Steps[i] = IF i <= 22 THEN S[i] ELSE R[i - 22]
  <2>1. /\ Len(S \o R) = Len(S) + Len(R)
        /\ \A i \in 1..(Len(S) + Len(R)) : (S \o R)[i] = IF i <= Len(S) THEN S[i] ELSE R[i - Len(S)]
    BY <1>4, <1>5, ConcatProperties, Zenon
  <2>2. Len(S) + Len(R) = 32
    BY <1>4, <1>5
  <2>3. QED
    BY <1>5, <1>6, <2>1, <2>2, Zenon
<1>8. QED
  BY <1>1, <1>2, <1>7

LEMMA AtLemma ==
    ASSUME at \in 1..33, NEW kind, NEW name, At(kind, name)
    PROVE  Place(kind, name, at) /\ at \in 1..32
<1>1. PICK R, S : R = Rest /\ S = Script
  OBVIOUS
<1>7. Len(Steps) = 32 /\ \A i \in 1..32 : Steps[i] = IF i <= 22 THEN S[i] ELSE R[i - 22]
  BY <1>1, StepsLemma
<1>8. at \in 1..32 /\ Steps[at] = <<kind, name>>
  BY <1>7 DEF At
<1>9. CASE at <= 22
  <2>1. S[at] = <<kind, name>>
    BY <1>7, <1>8, <1>9
  <2>2. S[at][1] = kind
    BY <2>1
  <2>3. \A i \in 1..22 : S[i][1] \in {"run", "before", "after", "stale", "serving", "athena"}
    BY <1>1 DEF Script
  <2>4. at \in 1..22
    BY <1>8, <1>9
  <2>5. QED
    BY <1>8, <2>2, <2>3, <2>4 DEF Place
<1>10. CASE at > 22
  <2>1. PICK j \in 1..10 : j = at - 22
    BY <1>8, <1>10
  <2>2. R[j] = <<kind, name>> /\ at = 22 + j
    BY <1>7, <1>8, <1>10, <2>1
  <2>3. R[j][1] = kind /\ R[j][2] = name
    BY <2>2
  <2>4. QED
    BY <1>1, <1>8, <2>2, <2>3 DEF Place, Rest
<1>11. QED
  BY <1>8, <1>9, <1>10

LEMMA CollectLemma ==
    Collect = 23 /\ Len(Script) = 22
<1>1. PICK S : S = Script
  OBVIOUS
<1>2. S = [i \in 1..22 |-> S[i]]
  BY <1>1 DEF Script
<1>3. Len(S) = 22
  BY <1>2, TupleLemma
<1>4. QED
  BY <1>1, <1>3 DEF Collect

-----------------------------------------------------------------------------
(* The inductive invariant.  Collection is step 23, the checkpoint 24, the *)
(* verification of the teardown 29, the release of the lease 31.           *)

CheckpointFile == <<"execution", "checkpoint">>
SummaryFile == <<"final", "summary">>
Snapshots == {<<"after", "success">>, <<"after", "recovery">>, <<"serving", "resolution">>}

TypeOK ==
    /\ at \in 1..33
    /\ log \in Seq(Generations)

\* A snapshot is a length that the log had.
SnapshotInv == \A x \in Snapshots : x \in DOMAIN evidence => evidence[x] \in 0..Len(log)

\* Until the checkpoint the histories are those of the executions.
HistoryInv ==
    /\ at <= 23 => \A s \in Scenarios : <<"history", s>> \notin DOMAIN evidence
    /\ at <= 24 => \A s \in Scenarios :
                      <<"history", s>> \in DOMAIN evidence => evidence[<<"history", s>>] = exec[s]

\* The checkpoint is not there before it is written; one that passed has seen the snapshots,
\* and vouches for the true histories.
CheckpointInv ==
    CheckpointFile \in DOMAIN evidence =>
        /\ at > 24
        /\ evidence[CheckpointFile].result = "PASS" =>
             /\ Snapshots \subseteq DOMAIN evidence
             /\ \A s \in Scenarios :
                  /\ <<"history", s>> \in DOMAIN evidence[CheckpointFile].files
                  /\ evidence[CheckpointFile].files[<<"history", s>>] = exec[s]

\* The receipts of teardown and lease say what is so.
TeardownInv ==
    File("teardown") \in DOMAIN evidence /\ evidence[File("teardown")].pass => at > 29 /\ ~deployed
LeaseInv ==
    File("lease-release") \in DOMAIN evidence /\ evidence[File("lease-release")].pass => at > 31 /\ ~leased

SummaryInv == SummaryFile \in DOMAIN evidence => at = 33

IInv ==
    /\ TypeOK
    /\ SnapshotInv
    /\ HistoryInv
    /\ CheckpointInv
    /\ TeardownInv
    /\ LeaseInv
    /\ SummaryInv
    /\ PassMeansOneMove
    /\ VerifiedIsFinal
    /\ VerifiedOnTrueEvidence

-----------------------------------------------------------------------------
(* The script *)

\* Whatever an execution does, it moves the pointer to generations.
LEMMA PublishedLemma ==
    ASSUME NEW s \in Scenarios, NEW e \in {Meant(s)} \cup Departures(s)
    PROVE  e.published \in Seq(Generations)
<1>1. PICK b : b = Batch(s)
  OBVIOUS
<1>2. b \in Generations
  BY <1>1 DEF Batch, Generations, Scenarios
<1>3. PICK p : p = IF s \in {"success", "recovery"} THEN <<b>> ELSE << >>
  OBVIOUS
<1>4. p \in Seq(Generations)
  BY <1>2, <1>3
<1> DEFINE e0 == Meant(s)
<1>6. PICK st, si, gl, ss, an :
         e0 = [status |-> st, input |-> "registered", signal |-> si, glue |-> gl,
               statuses |-> ss, generation |-> b, attempt |-> an, published |-> p]
  BY <1>1, <1>3, Zenon DEF Meant
<1>7. e0.published = p /\ e0.generation = b
  BY <1>6
<1>8. <<"stray">> \in Seq(Generations) /\ <<b, "stray">> \in Seq(Generations)
      /\ << >> \in Seq(Generations) /\ <<b>> \in Seq(Generations)
  BY <1>2 DEF Generations
<1> DEFINE
  Ended == {[e0 EXCEPT !.status = x] : x \in {"SUCCEEDED", "FAILED", "TIMED_OUT"} \ {e0.status}}
  Other == {[e0 EXCEPT !.input = "other"], [e0 EXCEPT !.signal = FALSE], [e0 EXCEPT !.generation = "stray"]}
  Listed == {[e0 EXCEPT !.statuses = x] : x \in {{"PUBLISHED"}, {"VALIDATED"}, {}}}
  Tried == {[e0 EXCEPT !.attempt = 3 - e0.attempt]}
  More == {[e0 EXCEPT !.glue = x] : x \in OtherRuns(s, e0.glue)}
  None == IF e0.glue = << >> THEN {} ELSE {[e0 EXCEPT !.glue = << >>, !.signal = FALSE, !.statuses = {}]}
  Moved == {[e0 EXCEPT !.published = x] :
              x \in {<< >>, <<e0.generation>>, <<"stray">>, <<e0.generation, "stray">>}}
<1>9. Departures(s) = Ended \cup Other \cup Listed \cup Tried \cup More \cup None \cup Moved
  BY Zenon DEF Departures
<1> HIDE DEF e0
<1>10. /\ \A d \in Ended : d.published = p
       /\ \A d \in Other : d.published = p
       /\ \A d \in Listed : d.published = p
       /\ \A d \in Tried : d.published = p
  BY <1>6
<1>11. \A d \in More : d.published = p
  BY <1>6
<1>12. \A d \in None : d.published = p
  BY <1>6
<1>13. \A d \in Moved : d.published \in Seq(Generations)
  BY <1>6, <1>7, <1>8
<1>14. e = e0 \/ e \in Departures(s)
  BY DEF e0
<1> HIDE DEF Ended, Other, Listed, Tried, More, None, Moved
<1>15. e = e0 \/ e \in Ended \/ e \in Other \/ e \in Listed \/ e \in Tried \/ e \in More \/ e \in None \/ e \in Moved
  BY <1>9, <1>14
<1>16. QED
  BY <1>4, <1>7, <1>10, <1>11, <1>12, <1>13, <1>15

\* A step of the script: it may write a file of its own, and never a receipt.
LEMMA EarlyLemma ==
    ASSUME IInv, at \in 1..22, at' \in 1..23,
           log' \in Seq(Generations), Len(log) <= Len(log'),
           \/ UNCHANGED evidence
           \/ \E kind \in {"before", "after", "stale", "serving", "athena"} : \E name, content :
                /\ evidence' = Put(<<kind, name>>, content, evidence)
                /\ (<<kind, name>> \in Snapshots) => (content = Len(log))
    PROVE  IInv'
<1>1. /\ CheckpointFile \notin DOMAIN evidence
      /\ SummaryFile \notin DOMAIN evidence
      /\ \A s \in Scenarios : <<"history", s>> \notin DOMAIN evidence
  BY DEF IInv, CheckpointInv, SummaryInv, HistoryInv
<1>2. /\ File("teardown") \in DOMAIN evidence => ~evidence[File("teardown")].pass
      /\ File("lease-release") \in DOMAIN evidence => ~evidence[File("lease-release")].pass
  BY DEF IInv, TeardownInv, LeaseInv
<1>3. PICK n \in Nat, m \in Nat : n = Len(log) /\ m = Len(log') /\ n <= m
  BY DEF IInv, TypeOK
<1>4. \/ UNCHANGED evidence
      \/ \E y, c : /\ y \in Snapshots => c = Len(log)
                   /\ y # CheckpointFile /\ y # SummaryFile
                   /\ \A s : y # <<"history", s>>
                   /\ \A r : y # File(r)
                   /\ evidence' = Put(y, c, evidence)
  <2>1. CASE UNCHANGED evidence
    BY <2>1
  <2>2. ASSUME NEW kind \in {"before", "after", "stale", "serving", "athena"}, NEW name, NEW content,
               evidence' = Put(<<kind, name>>, content, evidence),
               (<<kind, name>> \in Snapshots) => (content = Len(log))
        PROVE  \E y, c : /\ y \in Snapshots => c = Len(log)
                         /\ y # CheckpointFile /\ y # SummaryFile
                         /\ \A s : y # <<"history", s>>
                         /\ \A r : y # File(r)
                         /\ evidence' = Put(y, c, evidence)
    <3>1. PICK y : y = <<kind, name>>
      OBVIOUS
    <3>2. /\ y # CheckpointFile /\ y # SummaryFile
          /\ \A s : y # <<"history", s>>
          /\ \A r : y # File(r)
      BY <3>1 DEF CheckpointFile, SummaryFile, File
    <3>4. (y \in Snapshots => content = Len(log)) /\ evidence' = Put(y, content, evidence)
      BY <2>2, <3>1, Zenon
    <3>5. QED
      BY <3>2, <3>4, Zenon
  <2>3. QED
    BY <2>1, <2>2, Zenon
<1>10. /\ CheckpointFile \notin DOMAIN evidence'
       /\ SummaryFile \notin DOMAIN evidence'
       /\ \A s \in Scenarios : <<"history", s>> \notin DOMAIN evidence'
       /\ \A r : /\ File(r) \in DOMAIN evidence' => File(r) \in DOMAIN evidence
                 /\ File(r) \in DOMAIN evidence' => evidence'[File(r)] = evidence[File(r)]
       /\ \A x \in Snapshots : x \in DOMAIN evidence' => evidence'[x] \in 0..m
  <2>1. \A x \in Snapshots : x \in DOMAIN evidence => evidence[x] \in 0..m
    <3>1. \A x \in Snapshots : x \in DOMAIN evidence => evidence[x] \in 0..n
      BY <1>3 DEF IInv, SnapshotInv
    <3>2. QED
      BY <1>3, <3>1
  <2>2. CASE UNCHANGED evidence
    BY <1>1, <2>1, <2>2
  <2>3. CASE ~UNCHANGED evidence
    <3>1. PICK y, c : /\ y \in Snapshots => c = Len(log)
                      /\ y # CheckpointFile /\ y # SummaryFile
                      /\ \A s : y # <<"history", s>>
                      /\ \A r : y # File(r)
                      /\ evidence' = Put(y, c, evidence)
      BY <1>4, <2>3, Zenon
    <3>2. PICK f : f = evidence
      OBVIOUS
    <3>3. PICK g : g = evidence'
      OBVIOUS
    <3>4. g = Put(y, c, f)
      BY <3>1, <3>2, <3>3
    <3>5. /\ DOMAIN g = {y} \cup DOMAIN f
          /\ g[y] = c
          /\ \A x \in DOMAIN f : x # y => g[x] = f[x]
      BY <3>4 DEF Put
    <3>6. y \in Snapshots => c \in 0..m
      BY <1>3, <3>1
    <3>7. \A x \in Snapshots : x \in DOMAIN g => g[x] \in 0..m
      BY <2>1, <3>2, <3>5, <3>6
    <3>8. \A r : /\ File(r) \in DOMAIN g => File(r) \in DOMAIN f
                 /\ File(r) \in DOMAIN g => g[File(r)] = f[File(r)]
      <4>1. ASSUME NEW r, File(r) \in DOMAIN g
            PROVE  File(r) \in DOMAIN f /\ g[File(r)] = f[File(r)]
        <5>1. PICK x : x = File(r)
          OBVIOUS
        <5>2. x # y
          BY <3>1, <5>1, Zenon
        <5>3. x \in DOMAIN f /\ g[x] = f[x]
          BY <3>5, <4>1, <5>1, <5>2
        <5>4. QED
          BY <5>1, <5>3, Zenon
      <4>2. QED
        BY <4>1, Zenon
    <3>9. /\ CheckpointFile \notin DOMAIN g /\ SummaryFile \notin DOMAIN g
          /\ \A s \in Scenarios : <<"history", s>> \notin DOMAIN g
      BY <1>1, <3>1, <3>2, <3>5
    <3>10. \A r : /\ File(r) \in DOMAIN g => File(r) \in DOMAIN evidence
                  /\ File(r) \in DOMAIN g => g[File(r)] = evidence[File(r)]
      BY <3>2, <3>8
    <3>11. QED
      BY <3>3, <3>7, <3>9, <3>10
  <2>4. QED
    BY <2>2, <2>3
<1>5. TypeOK'
  BY DEF TypeOK
<1>6. SnapshotInv' /\ HistoryInv' /\ CheckpointInv' /\ SummaryInv'
  BY <1>3, <1>10 DEF SnapshotInv, HistoryInv, CheckpointInv, SummaryInv, CheckpointFile, SummaryFile, Snapshots
<1>7. TeardownInv' /\ LeaseInv'
  BY <1>2, <1>10 DEF TeardownInv, LeaseInv, File
<1>8. PassMeansOneMove' /\ VerifiedIsFinal' /\ VerifiedOnTrueEvidence'
  BY <1>10 DEF PassMeansOneMove, VerifiedIsFinal, VerifiedOnTrueEvidence, Passed, Verified,
              CheckpointFile, SummaryFile
<1>9. QED
  BY <1>5, <1>6, <1>7, <1>8 DEF IInv

\* Every step of the script.
LEMMA ScriptLemma ==
    ASSUME IInv, RunScenario \/ Snapshot \/ StalePublisher \/ ServingResolution \/ AthenaQueries \/ Drift
    PROVE  IInv'
<1>1. at \in 1..33 /\ log \in Seq(Generations)
  BY DEF IInv, TypeOK
<1>2. Collect = 23
  BY CollectLemma
<1>3. \A kind \in {"run", "before", "after", "stale", "serving", "athena"} : \A name :
        At(kind, name) => at \in 1..22
  BY <1>1, AtLemma DEF Place
<1>4. \A i \in 1..22 : i + 1 \in 1..23
  OBVIOUS
<1>5. \A g \in Generations : /\ Append(log, g) \in Seq(Generations)
                             /\ Len(Append(log, g)) = Len(log) + 1
  BY <1>1
<1>6. Len(log) \in Nat
  BY <1>1
<1>7. "stray" \in Generations
  BY DEF Generations
<1>8. ASSUME RunScenario PROVE IInv'
  <2>1. PICK s \in Scenarios : /\ At("run", s)
                               /\ \E e \in {Meant(s)} \cup Departures(s) :
                                    /\ log' = log \o e.published
                                    /\ Forward \/ Break
                               /\ UNCHANGED evidence
    BY <1>8, Zenon DEF RunScenario
  <2>2. PICK e \in {Meant(s)} \cup Departures(s) : log' = log \o e.published /\ (Forward \/ Break)
    BY <2>1
  <2>3. PICK p : p = e.published
    OBVIOUS
  <2>4. p \in Seq(Generations) /\ log' = log \o p
    BY <2>2, <2>3, PublishedLemma
  <2>5. log' \in Seq(Generations) /\ Len(log) <= Len(log')
    <3>1. log \o p \in Seq(Generations) /\ Len(log \o p) = Len(log) + Len(p)
      BY <1>1, <2>4, ConcatProperties, Zenon
    <3>2. Len(p) \in Nat
      BY <2>4
    <3>3. QED
      BY <1>6, <2>4, <3>1, <3>2
  <2>6. at \in 1..22 /\ at' \in 1..23
    BY <1>2, <1>3, <1>4, <2>1, <2>2 DEF Forward, Break
  <2>7. QED
    BY <2>1, <2>5, <2>6, EarlyLemma
<1>9. ASSUME Snapshot PROVE IInv'
  <2>1. PICK when \in {"before", "after"}, s \in Scenarios :
          /\ At(when, s)
          /\ evidence' = Put(<<when, s>>, Len(log), evidence)
          /\ Forward \/ Break
          /\ UNCHANGED log
    BY <1>9 DEF Snapshot, Write, system
  <2>2. at \in 1..22 /\ at' \in 1..23
    BY <1>2, <1>3, <1>4, <2>1 DEF Forward, Break
  <2>3. \E kind \in {"before", "after", "stale", "serving", "athena"} : \E name, content :
           /\ evidence' = Put(<<kind, name>>, content, evidence)
           /\ (<<kind, name>> \in Snapshots) => (content = Len(log))
    BY <2>1
  <2>4. log' \in Seq(Generations) /\ Len(log) <= Len(log')
    BY <1>1, <1>6, <2>1
  <2>5. QED
    BY <2>2, <2>3, <2>4, EarlyLemma
<1>10. ASSUME StalePublisher PROVE IInv'
  <2>1. at \in 1..22 /\ at' \in 1..23
    BY <1>2, <1>3, <1>4, <1>10 DEF StalePublisher, Forward, Break
  <2>2. log' \in Seq(Generations) /\ Len(log) <= Len(log')
    BY <1>1, <1>5, <1>6, <1>7, <1>10 DEF StalePublisher
  <2>3. \/ UNCHANGED evidence
        \/ \E content : evidence' = Put(<<"stale", "publisher">>, content, evidence)
    BY <1>10, Zenon DEF StalePublisher, Write
  <2>4. <<"stale", "publisher">> \notin Snapshots
    BY DEF Snapshots
  <2>5. \/ UNCHANGED evidence
        \/ \E kind \in {"before", "after", "stale", "serving", "athena"} : \E name, content :
              /\ evidence' = Put(<<kind, name>>, content, evidence)
              /\ (<<kind, name>> \in Snapshots) => (content = Len(log))
    BY <2>3, <2>4
  <2>6. QED
    BY <2>1, <2>2, <2>5, EarlyLemma
<1>11. ASSUME ServingResolution PROVE IInv'
  <2>1. at \in 1..22 /\ at' \in 1..23
    BY <1>2, <1>3, <1>4, <1>11 DEF ServingResolution, Forward, Break
  <2>2. evidence' = Put(<<"serving", "resolution">>, Len(log), evidence) /\ UNCHANGED log
    BY <1>11 DEF ServingResolution, Write, system
  <2>3. \E kind \in {"before", "after", "stale", "serving", "athena"} : \E name, content :
           /\ evidence' = Put(<<kind, name>>, content, evidence)
           /\ (<<kind, name>> \in Snapshots) => (content = Len(log))
    BY <2>2
  <2>4. log' \in Seq(Generations) /\ Len(log) <= Len(log')
    BY <1>1, <1>6, <2>2
  <2>5. QED
    BY <2>1, <2>3, <2>4, EarlyLemma
<1>12. ASSUME AthenaQueries PROVE IInv'
  <2>1. at \in 1..22 /\ at' \in 1..23
    BY <1>2, <1>3, <1>4, <1>12 DEF AthenaQueries, Forward, Break
  <2>2. UNCHANGED log /\ \E content : evidence' = Put(<<"athena", "queries">>, content, evidence)
    BY <1>12, Zenon DEF AthenaQueries, Write, system
  <2>3. <<"athena", "queries">> \notin Snapshots
    BY DEF Snapshots
  <2>4. \E kind \in {"before", "after", "stale", "serving", "athena"} : \E name, content :
           /\ evidence' = Put(<<kind, name>>, content, evidence)
           /\ (<<kind, name>> \in Snapshots) => (content = Len(log))
    BY <2>2, <2>3
  <2>5. log' \in Seq(Generations) /\ Len(log) <= Len(log')
    BY <1>1, <1>6, <2>2
  <2>6. QED
    BY <2>1, <2>4, <2>5, EarlyLemma
<1>13. ASSUME Drift PROVE IInv'
  <2>1. at \in 1..22 /\ at' \in 1..23
    BY <1>1, <1>2, <1>13 DEF Drift
  <2>2. PICK g \in Generations : log' = Append(log, g)
    BY <1>13 DEF Drift
  <2>3. log' \in Seq(Generations) /\ Len(log) <= Len(log')
    BY <1>5, <1>6, <2>2
  <2>4. UNCHANGED evidence
    BY <1>13 DEF Drift
  <2>5. QED
    BY <2>1, <2>3, <2>4, EarlyLemma
<1>14. QED
  BY <1>8, <1>9, <1>10, <1>11, <1>12, <1>13, Zenon

-----------------------------------------------------------------------------
(* Collection and checkpoint *)

\* A file is what it was.
Same(x, f, g) ==
    /\ x \in DOMAIN g <=> x \in DOMAIN f
    /\ x \in DOMAIN f => g[x] = f[x]

\* What the invariant knows of these two receipts is kept with them.
LEMMA SameTeardownLemma ==
    ASSUME IInv, Same(File("teardown"), evidence, evidence'), at' \in {at, at + 1},
           at <= 29 \/ UNCHANGED deployed
    PROVE  TeardownInv'
<1>1. at \in 1..33
  BY DEF IInv, TypeOK
<1>2. PICK f, g : f = evidence /\ g = evidence'
  OBVIOUS
<1>3. SUFFICES ASSUME File("teardown") \in DOMAIN g, g[File("teardown")].pass
               PROVE  at' > 29 /\ ~deployed'
  BY <1>2 DEF TeardownInv
<1>4. File("teardown") \in DOMAIN evidence /\ evidence[File("teardown")].pass
  BY <1>2, <1>3 DEF Same
<1>5. at > 29 /\ ~deployed
  BY <1>4 DEF IInv, TeardownInv
<1>6. QED
  BY <1>1, <1>5

LEMMA SameLeaseLemma ==
    ASSUME IInv, Same(File("lease-release"), evidence, evidence'), at' \in {at, at + 1},
           at <= 31 \/ UNCHANGED leased
    PROVE  LeaseInv'
<1>1. at \in 1..33
  BY DEF IInv, TypeOK
<1>2. PICK f, g : f = evidence /\ g = evidence'
  OBVIOUS
<1>3. SUFFICES ASSUME File("lease-release") \in DOMAIN g, g[File("lease-release")].pass
               PROVE  at' > 31 /\ ~leased'
  BY <1>2 DEF LeaseInv
<1>4. File("lease-release") \in DOMAIN evidence /\ evidence[File("lease-release")].pass
  BY <1>2, <1>3 DEF Same
<1>5. at > 31 /\ ~leased
  BY <1>4 DEF IInv, LeaseInv
<1>6. QED
  BY <1>1, <1>5

LEMMA CollectStepLemma ==
    ASSUME IInv, CollectEvidence
    PROVE  IInv'
<1>1. at = 23 /\ at' = 24
  BY AtLemma DEF CollectEvidence, Forward, Place, IInv, TypeOK
<1>2. UNCHANGED <<log, exec, deployed, leased>>
  BY DEF CollectEvidence, system
<1>3. PICK h : h = [x \in {<<"history", s>> : s \in DOMAIN exec} |-> exec[x[2]]]
  OBVIOUS
<1>4. PICK logs : evidence' = Put(<<"cloudwatch", "export">>, logs, Over(h, evidence))
  BY <1>3, Zenon DEF CollectEvidence
<1>5. PICK f, g, k : f = evidence /\ g = evidence' /\ k = Over(h, f)
  OBVIOUS
<1>6. /\ DOMAIN k = DOMAIN h \cup DOMAIN f
      /\ \A x \in DOMAIN h : k[x] = h[x]
      /\ \A x \in DOMAIN f \ DOMAIN h : k[x] = f[x]
  BY <1>5 DEF Over
<1>7. /\ DOMAIN g = {<<"cloudwatch", "export">>} \cup DOMAIN k
      /\ \A x \in DOMAIN k : x # <<"cloudwatch", "export">> => g[x] = k[x]
  BY <1>4, <1>5 DEF Put
<1>8. \A x : x # <<"cloudwatch", "export">> /\ x \notin DOMAIN h => Same(x, f, g)
  BY <1>6, <1>7 DEF Same
<1>9. \A x \in DOMAIN h : x[1] = "history"
  BY <1>3
<1>10. /\ \A x \in Snapshots : Same(x, f, g)
       /\ Same(CheckpointFile, f, g)
       /\ Same(SummaryFile, f, g)
       /\ Same(File("teardown"), f, g)
       /\ Same(File("lease-release"), f, g)
  <2>1. \A x : x[1] \notin {"history", "cloudwatch"} => Same(x, f, g)
    BY <1>8, <1>9
  <2>2. /\ \A x \in Snapshots : x[1] \notin {"history", "cloudwatch"}
        /\ CheckpointFile[1] \notin {"history", "cloudwatch"}
        /\ SummaryFile[1] \notin {"history", "cloudwatch"}
        /\ \A r : File(r)[1] \notin {"history", "cloudwatch"}
    BY DEF Snapshots, CheckpointFile, SummaryFile, File
  <2>3. QED
    BY <2>1, <2>2
<1>11. /\ CheckpointFile \notin DOMAIN g
       /\ SummaryFile \notin DOMAIN g
  BY <1>1, <1>5, <1>10 DEF IInv, CheckpointInv, SummaryInv, Same
<1>12. TypeOK'
  BY <1>1, <1>2 DEF IInv, TypeOK
<1>13. SnapshotInv'
  BY <1>2, <1>5, <1>10 DEF IInv, SnapshotInv, Same
<1>14. HistoryInv'
  <2>1. ASSUME NEW s \in Scenarios, <<"history", s>> \in DOMAIN g
        PROVE  g[<<"history", s>>] = exec[s]
    <3>1. PICK x : x = <<"history", s>>
      OBVIOUS
    <3>2. x \notin DOMAIN f
      BY <1>1, <1>5, <3>1 DEF IInv, HistoryInv
    <3>3. x[1] = "history" /\ x[2] = s
      BY <3>1
    <3>4. x \in DOMAIN h /\ x # <<"cloudwatch", "export">>
      BY <1>6, <1>7, <2>1, <3>1, <3>2
    <3>5. g[x] = h[x]
      BY <1>6, <1>7, <3>4
    <3>6. h[x] = exec[x[2]]
      BY <1>3, <3>4
    <3>7. QED
      BY <3>1, <3>3, <3>5, <3>6
  <2>2. \A s \in Scenarios : <<"history", s>> \in DOMAIN evidence' => evidence'[<<"history", s>>] = exec'[s]
    BY <1>2, <1>5, <2>1
  <2>3. QED
    BY <1>1, <2>2 DEF HistoryInv
<1>15. TeardownInv' /\ LeaseInv'
  BY <1>1, <1>2, <1>5, <1>10, SameTeardownLemma, SameLeaseLemma
<1>16. QED
  BY <1>5, <1>11, <1>12, <1>13, <1>14, <1>15
     DEF IInv, CheckpointInv, SummaryInv, PassMeansOneMove, VerifiedIsFinal, VerifiedOnTrueEvidence,
         Passed, Verified, CheckpointFile, SummaryFile

\* The move from one place to the next.
LEMMA OneStepLemma ==
    ASSUME NEW S, NEW q \in Seq(S), NEW n \in 1..Len(q)
    PROVE  SubSeq(q, n, n) = <<q[n]>>
<1>1. SubSeq(q, n, n) = [i \in 1..1 |-> q[i + n - 1]]
  OBVIOUS
<1>2. \A i \in 1..1 : q[i + n - 1] = q[n]
  OBVIOUS
<1>3. SubSeq(q, n, n) \in Seq(S) /\ Len(SubSeq(q, n, n)) = 1
  OBVIOUS
<1>4. QED
  BY <1>1, <1>2, <1>3

\* What a validated execution says of the pointer.
LEMMA ValidatedLemma ==
    ASSUME IInv, at = 24, validate_execution
    PROVE  /\ Snapshots \subseteq DOMAIN evidence
           /\ \A s \in Scenarios : <<"history", s>> \in DOMAIN evidence /\ History(s) = exec[s]
           /\ SubSeq(log, Pointer("after", "success") + 1, evidence[<<"serving", "resolution">>]) =
                 <<exec["recovery"].generation>>
           /\ "VALIDATED" \in exec["recovery"].statuses
           /\ exec["recovery"].generation = exec["failure"].generation
<1>1. ValidExecutions /\ ValidControl
  BY DEF validate_execution
<1>2. \A s \in Scenarios : <<"history", s>> \in DOMAIN evidence /\ History(s) = exec[s]
  <2>1. \A s \in Scenarios : <<"history", s>> \in DOMAIN evidence
    BY <1>1, Zenon DEF ValidExecutions, ValidExecution
  <2>2. \A s \in Scenarios : <<"history", s>> \in DOMAIN evidence => evidence[<<"history", s>>] = exec[s]
    <3>1. at <= 24
      OBVIOUS
    <3>2. QED
      BY <3>1, Zenon DEF IInv, HistoryInv
  <2>3. QED
    BY <2>1, <2>2, Zenon DEF History
<1>3. "recovery" \in Scenarios /\ "failure" \in Scenarios
  BY DEF Scenarios
<1>4. Snapshots \subseteq DOMAIN evidence
  <2>1. {Script[i] : i \in {i \in DOMAIN Script : Script[i][1] \in {"before", "after", "stale", "serving"}}}
           \subseteq DOMAIN evidence
    BY <1>1 DEF ValidControl, Has
  <2>2. PICK S : S = Script
    OBVIOUS
  <2>3. {2, 11, 21} \subseteq DOMAIN S
    BY <2>2 DEF Script
  <2>4. S[2] = <<"after", "success">> /\ S[11] = <<"after", "recovery">> /\ S[21] = <<"serving", "resolution">>
    BY <2>2 DEF Script
  <2>5. \A i \in {2, 11, 21} : S[i][1] \in {"before", "after", "stale", "serving"}
    BY <2>4
  <2>6. \A i \in {2, 11, 21} : S[i] \in DOMAIN evidence
    BY <2>1, <2>2, <2>3, <2>5
  <2>7. QED
    BY <2>4, <2>6 DEF Snapshots
<1>5. PICK a, b, c : a = Pointer("after", "success") /\ b = Pointer("after", "recovery")
                     /\ c = evidence[<<"serving", "resolution">>]
  OBVIOUS
<1>6. a \in 0..Len(log) /\ b \in 0..Len(log) /\ c \in 0..Len(log)
  BY <1>4, <1>5 DEF IInv, SnapshotInv, Snapshots, Pointer
<1>7. a > 0 /\ b = a + 1 /\ c = b /\ log[b] = History("recovery").generation
  BY <1>1, <1>5 DEF ValidControl, AdvancedOnce
<1>8. Len(log) \in Nat /\ log \in Seq(Generations)
  BY DEF IInv, TypeOK
<1>9. b \in 1..Len(log)
  BY <1>6, <1>7, <1>8
<1>10. SubSeq(log, b, b) = <<log[b]>>
  BY <1>8, <1>9, OneStepLemma
<1>11. log[b] = exec["recovery"].generation
  BY <1>2, <1>3, <1>7
<1>12. {"VALIDATED", "PUBLISHED"} \subseteq History("recovery").statuses
       /\ History("failure").generation = History("recovery").generation
  BY <1>1 DEF ValidExecutions
<1>13. QED
  BY <1>2, <1>3, <1>4, <1>5, <1>7, <1>10, <1>11, <1>12

LEMMA CheckpointLemma ==
    ASSUME IInv, Checkpoint
    PROVE  IInv'
<1>1. at = 24 /\ at' = 25
  BY AtLemma DEF Checkpoint, Forward, Place, IInv, TypeOK
<1>2. UNCHANGED <<log, exec, deployed, leased>>
  BY DEF Checkpoint, system
<1>3. PICK c : /\ c = [result |-> IF validate_execution THEN "PASS" ELSE "FAIL", files |-> build_execution_manifest]
               /\ evidence' = Put(CheckpointFile, c, evidence)
  BY Zenon DEF Checkpoint, Write, CheckpointFile
<1>4. PICK f, g : f = evidence /\ g = evidence'
  OBVIOUS
<1>5. /\ DOMAIN g = {CheckpointFile} \cup DOMAIN f
      /\ g[CheckpointFile] = c
      /\ \A x \in DOMAIN f : x # CheckpointFile => g[x] = f[x]
  <2>1. g = Put(CheckpointFile, c, f)
    BY <1>3, <1>4
  <2>2. QED
    BY <2>1 DEF Put
<1>6. \A x : x # CheckpointFile => Same(x, f, g)
  BY <1>5 DEF Same
<1>7. /\ \A x \in Snapshots : x # CheckpointFile
      /\ SummaryFile # CheckpointFile
      /\ \A r : File(r) # CheckpointFile
      /\ \A s : <<"history", s>> # CheckpointFile
  BY DEF Snapshots, CheckpointFile, SummaryFile, File
<1>8. TypeOK'
  BY <1>1, <1>2 DEF IInv, TypeOK
<1>9. SnapshotInv'
  <2>1. \A x \in Snapshots : Same(x, f, g)
    BY <1>6, <1>7
  <2>2. QED
    BY <1>2, <1>4, <2>1 DEF IInv, SnapshotInv, Same
<1>10. HistoryInv'
  BY <1>1 DEF HistoryInv
<1>11. TeardownInv' /\ LeaseInv'
  BY <1>1, <1>2, <1>4, <1>6, <1>7, SameTeardownLemma, SameLeaseLemma
<1>12. SummaryFile \notin DOMAIN g
  BY <1>1, <1>4, <1>6, <1>7 DEF IInv, SummaryInv, Same
<1>13. c.result = "PASS" => validate_execution
  BY <1>3
<1>14. CheckpointInv'
  <2>1. SUFFICES ASSUME c.result = "PASS"
                 PROVE  /\ Snapshots \subseteq DOMAIN g
                        /\ \A s \in Scenarios : /\ <<"history", s>> \in DOMAIN c.files
                                                /\ c.files[<<"history", s>>] = exec[s]
    BY <1>1, <1>2, <1>4, <1>5 DEF CheckpointInv
  <2>2. Snapshots \subseteq DOMAIN g
    BY <1>1, <1>4, <1>5, <1>13, <2>1, ValidatedLemma
  <2>3. c.files = [x \in DOMAIN f \ {CheckpointFile} |-> f[x]]
    BY <1>3, <1>4 DEF build_execution_manifest, Excluded, CheckpointFile
  <2>4. \A s \in Scenarios : <<"history", s>> \in DOMAIN f /\ f[<<"history", s>>] = exec[s]
    BY <1>1, <1>4, <1>13, <2>1, ValidatedLemma DEF History
  <2>5. QED
    BY <1>7, <2>2, <2>3, <2>4
<1>15. PassMeansOneMove'
  <2>1. SUFFICES ASSUME c.result = "PASS"
                 PROVE  /\ SubSeq(log, g[<<"after", "success">>] + 1, g[<<"serving", "resolution">>]) =
                             <<exec["recovery"].generation>>
                        /\ "VALIDATED" \in exec["recovery"].statuses
                        /\ exec["recovery"].generation = exec["failure"].generation
    BY <1>2, <1>4, <1>5 DEF PassMeansOneMove, Passed, Pointer, CheckpointFile
  <2>2. /\ g[<<"after", "success">>] = f[<<"after", "success">>]
        /\ g[<<"serving", "resolution">>] = f[<<"serving", "resolution">>]
    BY <1>1, <1>4, <1>6, <1>7, <1>13, <2>1, ValidatedLemma DEF Snapshots, Same
  <2>3. QED
    BY <1>1, <1>4, <1>13, <2>1, <2>2, ValidatedLemma DEF Pointer
<1>16. QED
  BY <1>4, <1>8, <1>9, <1>10, <1>11, <1>12, <1>14, <1>15
     DEF IInv, SummaryInv, VerifiedIsFinal, VerifiedOnTrueEvidence, Verified, SummaryFile

-----------------------------------------------------------------------------
(* The teardown job *)

Kept(f, g) == \A x \in Snapshots \cup {CheckpointFile, SummaryFile} : Same(x, f, g)

\* New receipts replace those of their names, and nothing else.
LEMMA OverReceiptsLemma ==
    ASSUME NEW f, NEW names, NEW ok, NEW g, g = Over(Receipts(names, ok), f)
    PROVE  /\ \A r : r \notin names => Same(File(r), f, g)
           /\ \A r \in names : File(r) \in DOMAIN g /\ g[File(r)].pass = ok
           /\ Kept(f, g)
<1>1. PICK h : h = Receipts(names, ok)
  OBVIOUS
<1>2. /\ DOMAIN h = {File(r) : r \in names}
      /\ \A r \in names : h[File(r)].pass = ok
  BY <1>1 DEF Receipts, Good
<1>3. /\ DOMAIN g = DOMAIN h \cup DOMAIN f
      /\ \A x \in DOMAIN h : g[x] = h[x]
      /\ \A x \in DOMAIN f \ DOMAIN h : g[x] = f[x]
  BY <1>1 DEF Over
<1>4. \A x : x \notin DOMAIN h => Same(x, f, g)
  BY <1>3 DEF Same
<1>5. \A r, t : File(r) = File(t) => r = t
  BY DEF File
<1>6. \A r : r \notin names => File(r) \notin DOMAIN h
  BY <1>2, <1>5
<1>7. \A x \in Snapshots \cup {CheckpointFile, SummaryFile} : \A r : x # File(r)
  BY DEF Snapshots, CheckpointFile, SummaryFile, File
<1>8. \A x \in Snapshots \cup {CheckpointFile, SummaryFile} : x \notin DOMAIN h
  BY <1>2, <1>7
<1>9. Kept(f, g)
  BY <1>4, <1>8 DEF Kept
<1>10. \A r \in names : File(r) \in DOMAIN g /\ g[File(r)].pass = ok
  BY <1>2, <1>3
<1>11. QED
  BY <1>4, <1>6, <1>9, <1>10

LEMMA KeptTransLemma ==
    ASSUME NEW f, NEW g, NEW h
    PROVE  /\ \A x : Same(x, f, g) /\ Same(x, g, h) => Same(x, f, h)
           /\ \A x : Same(x, f, f)
           /\ Kept(f, g) /\ Kept(g, h) => Kept(f, h)
           /\ Kept(f, f)
BY DEF Same, Kept

\* What a checkpoint that passed rests on is kept with the checkpoint and the snapshots.
LEMMA PassedKeptLemma ==
    ASSUME IInv, at \in 25..32, at' \in {at, at + 1}, UNCHANGED <<log, exec>>,
           Same(CheckpointFile, evidence, evidence'), \A x \in Snapshots : Same(x, evidence, evidence')
    PROVE  SnapshotInv' /\ CheckpointInv' /\ PassMeansOneMove'
<1>1. PICK f, g : f = evidence /\ g = evidence'
  OBVIOUS
<1>2. Same(CheckpointFile, f, g) /\ \A x \in Snapshots : Same(x, f, g)
  BY <1>1
<1>3. SnapshotInv'
  BY <1>1, <1>2 DEF IInv, SnapshotInv, Same
<1>4. CheckpointInv'
  <2>1. SUFFICES ASSUME CheckpointFile \in DOMAIN g
                 PROVE  /\ at' > 24
                        /\ g[CheckpointFile].result = "PASS" =>
                             /\ Snapshots \subseteq DOMAIN g
                             /\ \A s \in Scenarios :
                                  /\ <<"history", s>> \in DOMAIN g[CheckpointFile].files
                                  /\ g[CheckpointFile].files[<<"history", s>>] = exec[s]
    BY <1>1 DEF CheckpointInv
  <2>2. CheckpointFile \in DOMAIN f /\ g[CheckpointFile] = f[CheckpointFile]
    BY <1>2, <2>1 DEF Same
  <2>3. f[CheckpointFile].result = "PASS" =>
           /\ Snapshots \subseteq DOMAIN f
           /\ \A s \in Scenarios :
                /\ <<"history", s>> \in DOMAIN f[CheckpointFile].files
                /\ f[CheckpointFile].files[<<"history", s>>] = exec[s]
    BY <1>1, <2>2 DEF IInv, CheckpointInv
  <2>4. Snapshots \subseteq DOMAIN f => Snapshots \subseteq DOMAIN g
    BY <1>2 DEF Same
  <2>5. QED
    BY <2>2, <2>3, <2>4
<1>5. PassMeansOneMove'
  <2>1. SUFFICES ASSUME CheckpointFile \in DOMAIN g, g[CheckpointFile].result = "PASS"
                 PROVE  /\ SubSeq(log, g[<<"after", "success">>] + 1, g[<<"serving", "resolution">>]) =
                             <<exec["recovery"].generation>>
                        /\ "VALIDATED" \in exec["recovery"].statuses
                        /\ exec["recovery"].generation = exec["failure"].generation
    BY <1>1 DEF PassMeansOneMove, Passed, Pointer, CheckpointFile
  <2>2. CheckpointFile \in DOMAIN f /\ f[CheckpointFile].result = "PASS"
    BY <1>2, <2>1 DEF Same
  <2>3. Snapshots \subseteq DOMAIN f
    BY <1>1, <2>2 DEF IInv, CheckpointInv
  <2>4. /\ g[<<"after", "success">>] = f[<<"after", "success">>]
        /\ g[<<"serving", "resolution">>] = f[<<"serving", "resolution">>]
    BY <1>2, <2>3 DEF Snapshots, Same
  <2>5. Passed
    BY <1>1, <2>2 DEF Passed, CheckpointFile
  <2>6. QED
    BY <1>1, <2>4, <2>5 DEF IInv, PassMeansOneMove, Pointer
<1>6. QED
  BY <1>3, <1>4, <1>5

\* A step of the teardown job keeps what the checkpoint rests on, or loses all of it.
LEMMA LateLemma ==
    ASSUME IInv, at \in 25..32, at' \in {at, at + 1}, at' <= 32,
           UNCHANGED <<log, exec>>,
           Kept(evidence, evidence') \/ DOMAIN evidence' = {File("admission")},
           TeardownInv', LeaseInv'
    PROVE  IInv'
<1>1. PICK f, g : f = evidence /\ g = evidence'
  OBVIOUS
<1>2. SummaryFile \notin DOMAIN f
  BY <1>1 DEF IInv, SummaryInv
<1>3. TypeOK' /\ HistoryInv'
  <2>1. PICK i \in 25..32 : i = at'
    OBVIOUS
  <2>2. at' \in 1..33 /\ ~(at' <= 23) /\ ~(at' <= 24)
    BY <2>1
  <2>3. QED
    BY <2>2 DEF IInv, TypeOK, HistoryInv
<1>4. CASE DOMAIN g = {File("admission")}
  <2>1. CheckpointFile \notin DOMAIN g /\ SummaryFile \notin DOMAIN g /\ \A x \in Snapshots : x \notin DOMAIN g
    BY <1>4 DEF File, CheckpointFile, SummaryFile, Snapshots
  <2>2. QED
    BY <1>1, <1>3, <2>1
       DEF IInv, SnapshotInv, CheckpointInv, SummaryInv, PassMeansOneMove, VerifiedIsFinal,
           VerifiedOnTrueEvidence, Passed, Verified, CheckpointFile, SummaryFile
<1>5. CASE Kept(f, g)
  <2>1. SummaryFile \notin DOMAIN g
    BY <1>2, <1>5 DEF Kept, Same
  <2>2. Same(CheckpointFile, f, g) /\ \A x \in Snapshots : Same(x, f, g)
    BY <1>5 DEF Kept
  <2>3. SnapshotInv' /\ CheckpointInv' /\ PassMeansOneMove'
    BY <1>1, <2>2, PassedKeptLemma
  <2>4. QED
    BY <1>1, <1>3, <2>1, <2>3
       DEF IInv, SummaryInv, VerifiedIsFinal, VerifiedOnTrueEvidence, Verified, SummaryFile
<1>6. QED
  BY <1>1, <1>4, <1>5

LEMMA PersistLemma ==
    ASSUME IInv, PersistEvidence
    PROVE  IInv'
<1>1. at = 25 /\ at' = 26
  BY AtLemma DEF PersistEvidence, Place, IInv, TypeOK
<1>2. UNCHANGED <<log, exec, deployed, leased>>
  BY DEF PersistEvidence, system
<1>3. evidence' = evidence \/ evidence' = [x \in {File("admission")} |-> Good]
  BY DEF PersistEvidence
<1>4. CASE evidence' = evidence
  <2>1. Kept(evidence, evidence') /\ \A x : Same(x, evidence, evidence')
    BY <1>4, KeptTransLemma
  <2>2. TeardownInv' /\ LeaseInv'
    BY <1>1, <1>2, <2>1, SameTeardownLemma, SameLeaseLemma
  <2>3. QED
    BY <1>1, <1>2, <2>1, <2>2, LateLemma
<1>5. CASE evidence' = [x \in {File("admission")} |-> Good]
  <2>1. DOMAIN evidence' = {File("admission")}
    BY <1>5
  <2>2. File("teardown") # File("admission") /\ File("lease-release") # File("admission")
    BY DEF File
  <2>3. TeardownInv' /\ LeaseInv'
    BY <2>1, <2>2 DEF TeardownInv, LeaseInv
  <2>4. QED
    BY <1>1, <1>2, <2>1, <2>3, LateLemma
<1>6. QED
  BY <1>3, <1>4, <1>5

LEMMA RecoverLemma ==
    ASSUME IInv, RecoverAuthority
    PROVE  IInv'
<1>1. at = 26 /\ at' = 27
  BY AtLemma DEF RecoverAuthority, Place, IInv, TypeOK
<1>2. UNCHANGED <<log, exec, deployed, leased>>
  BY DEF RecoverAuthority, system
<1>3. PICK proved \in BOOLEAN :
        evidence' = Over(Receipts({"teardown-session"}, TRUE),
                    Over(Receipts(IF proved THEN {"recovered-authority", "teardown-lease"} ELSE {"teardown"}, proved),
                         evidence))
  BY Zenon DEF RecoverAuthority
<1>4. PICK names : names = IF proved THEN {"recovered-authority", "teardown-lease"} ELSE {"teardown"}
  OBVIOUS
<1>5. PICK f, g : f = evidence /\ g = evidence'
  OBVIOUS
<1>6. PICK h : h = Over(Receipts(names, proved), f)
  OBVIOUS
<1>7. g = Over(Receipts({"teardown-session"}, TRUE), h)
  BY <1>3, <1>4, <1>5, <1>6
<1>8. /\ \A r : r \notin names => Same(File(r), f, h)
      /\ \A r \in names : File(r) \in DOMAIN h /\ h[File(r)].pass = proved
      /\ Kept(f, h)
  BY <1>6, OverReceiptsLemma
<1>9. /\ \A r : r \notin {"teardown-session"} => Same(File(r), h, g)
      /\ Kept(h, g)
  <2>1. PICK names1, ok1 : names1 = {"teardown-session"} /\ g = Over(Receipts(names1, ok1), h)
    BY <1>7
  <2>2. (\A r : r \notin names1 => Same(File(r), h, g)) /\ Kept(h, g)
    BY <2>1, OverReceiptsLemma
  <2>3. QED
    BY <2>1, <2>2
<1>10. Kept(f, g)
  BY <1>8, <1>9, KeptTransLemma
<1>11. Same(File("lease-release"), f, g)
  <2>1. "lease-release" \notin names /\ "lease-release" \notin {"teardown-session"}
    BY <1>4
  <2>2. QED
    BY <1>8, <1>9, <2>1, KeptTransLemma
<1>12. LeaseInv'
  BY <1>1, <1>2, <1>5, <1>11, SameLeaseLemma
<1>13. TeardownInv'
  <2>1. CASE proved
    <3>1. "teardown" \notin names /\ "teardown" \notin {"teardown-session"}
      BY <1>4, <2>1
    <3>2. Same(File("teardown"), f, g)
      BY <1>8, <1>9, <3>1, KeptTransLemma
    <3>3. QED
      BY <1>1, <1>2, <1>5, <3>2, SameTeardownLemma
  <2>2. CASE ~proved
    <3>1. File("teardown") \in DOMAIN h /\ h[File("teardown")].pass = FALSE
      BY <1>4, <1>8, <2>2
    <3>2. Same(File("teardown"), h, g)
      BY <1>9
    <3>3. g[File("teardown")].pass = FALSE
      BY <3>1, <3>2 DEF Same
    <3>4. QED
      BY <1>5, <3>3 DEF TeardownInv
  <2>3. QED
    BY <2>1, <2>2
<1>14. QED
  BY <1>1, <1>2, <1>5, <1>10, <1>12, <1>13, LateLemma

\* A step that writes receipts of other names than these two, or none.
LEMMA AsideLemma ==
    ASSUME IInv, at \in 25..32, at' \in {at, at + 1}, at' <= 32, UNCHANGED <<log, exec, leased>>,
           at <= 29 \/ UNCHANGED deployed,
           \/ UNCHANGED evidence
           \/ \E names, ok : /\ names \cap {"teardown", "lease-release"} = {}
                             /\ evidence' = Over(Receipts(names, ok), evidence)
    PROVE  IInv'
<1>1. PICK f, g : f = evidence /\ g = evidence'
  OBVIOUS
<1>2. Kept(f, g) /\ Same(File("teardown"), f, g) /\ Same(File("lease-release"), f, g)
  <2>1. CASE UNCHANGED evidence
    BY <1>1, <2>1, KeptTransLemma
  <2>2. CASE ~UNCHANGED evidence
    <3>1. PICK names, ok : /\ names \cap {"teardown", "lease-release"} = {}
                           /\ evidence' = Over(Receipts(names, ok), evidence)
      BY <2>2
    <3>2. g = Over(Receipts(names, ok), f)
      BY <1>1, <3>1
    <3>3. "teardown" \notin names /\ "lease-release" \notin names
      BY <3>1
    <3>4. QED
      BY <3>2, <3>3, OverReceiptsLemma
  <2>3. QED
    BY <2>1, <2>2
<1>3. TeardownInv' /\ LeaseInv'
  BY <1>1, <1>2, SameTeardownLemma, SameLeaseLemma
<1>4. QED
  BY <1>1, <1>2, <1>3, LateLemma

LEMMA DestroyLemma ==
    ASSUME IInv, DestroyPlan \/ DestroyApply \/ PostBudget
    PROVE  IInv'
<1>1. ASSUME DestroyPlan PROVE IInv'
  <2>1. at = 27 /\ at' = 28
    BY <1>1, AtLemma DEF DestroyPlan, Place, IInv, TypeOK
  <2>2. UNCHANGED <<log, exec, deployed, leased>>
    BY <1>1 DEF DestroyPlan, system
  <2>3. \/ UNCHANGED evidence
        \/ evidence' = Over(Receipts({"destroy-plan", "destroy-digests"}, TRUE), evidence)
        \/ evidence' = Over(Receipts({"destroy-plan"}, FALSE), evidence)
    BY <1>1, Zenon DEF DestroyPlan
  <2>4. /\ {"destroy-plan", "destroy-digests"} \cap {"teardown", "lease-release"} = {}
        /\ {"destroy-plan"} \cap {"teardown", "lease-release"} = {}
    OBVIOUS
  <2>5. \/ UNCHANGED evidence
        \/ \E names, ok : /\ names \cap {"teardown", "lease-release"} = {}
                          /\ evidence' = Over(Receipts(names, ok), evidence)
    BY <2>3, <2>4, Zenon
  <2>6. QED
    BY <2>1, <2>2, <2>5, AsideLemma
<1>2. ASSUME DestroyApply PROVE IInv'
  <2>1. at = 28 /\ at' = 29
    BY <1>2, AtLemma DEF DestroyApply, Place, IInv, TypeOK
  <2>2. UNCHANGED <<log, exec, evidence, leased>>
    BY <1>2 DEF DestroyApply
  <2>3. QED
    BY <2>1, <2>2, AsideLemma
<1>3. ASSUME PostBudget PROVE IInv'
  <2>1. at = 30 /\ at' = 31
    BY <1>3, AtLemma DEF PostBudget, Place, IInv, TypeOK, Forward
  <2>2. UNCHANGED <<log, exec, deployed, leased>>
    BY <1>3 DEF PostBudget, system
  <2>3. \E ok : evidence' = Over(Receipts({"post-budget"}, ok), evidence)
    BY <1>3, Zenon DEF PostBudget
  <2>4. {"post-budget"} \cap {"teardown", "lease-release"} = {}
    OBVIOUS
  <2>5. \E names, ok : /\ names \cap {"teardown", "lease-release"} = {}
                       /\ evidence' = Over(Receipts(names, ok), evidence)
    BY <2>3, <2>4, Zenon
  <2>6. QED
    BY <2>1, <2>2, <2>5, AsideLemma
<1>4. QED
  BY <1>1, <1>2, <1>3

LEMMA VerifyTeardownLemma ==
    ASSUME IInv, VerifyTeardown
    PROVE  IInv'
<1>1. at = 29 /\ at' = 30
  BY AtLemma DEF VerifyTeardown, Place, IInv, TypeOK, Forward
<1>2. UNCHANGED <<log, exec, deployed, leased>>
  BY DEF VerifyTeardown, system
<1>3. PICK ok \in BOOLEAN : ok = ~deployed
  OBVIOUS
<1>4. PICK f, g : f = evidence /\ g = evidence'
  OBVIOUS
<1>5. g = Over(Receipts({"teardown"}, ok), f)
  BY <1>3, <1>4, Zenon DEF VerifyTeardown
<1>6. /\ \A r : r \notin {"teardown"} => Same(File(r), f, g)
      /\ \A r \in {"teardown"} : File(r) \in DOMAIN g /\ g[File(r)].pass = ok
      /\ Kept(f, g)
  BY <1>5, OverReceiptsLemma
<1>7. TeardownInv'
  <2>1. g[File("teardown")].pass = ok
    BY <1>6
  <2>2. g[File("teardown")].pass => ~deployed'
    BY <1>2, <1>3, <2>1
  <2>3. QED
    BY <1>1, <1>4, <2>2 DEF TeardownInv
<1>8. LeaseInv'
  <2>1. Same(File("lease-release"), f, g)
    BY <1>6
  <2>2. QED
    BY <1>1, <1>2, <1>4, <2>1, SameLeaseLemma
<1>9. QED
  BY <1>1, <1>2, <1>4, <1>6, <1>7, <1>8, LateLemma

LEMMA ReleaseLemma ==
    ASSUME IInv, ReleaseLease
    PROVE  IInv'
<1>1. at = 31 /\ at' = 32
  BY AtLemma DEF ReleaseLease, Place, IInv, TypeOK, Forward
<1>2. UNCHANGED <<log, exec, deployed>>
  BY DEF ReleaseLease
<1>3. \/ UNCHANGED <<leased, evidence>>
      \/ \E absent \in BOOLEAN : /\ leased' = ~absent
                                 /\ evidence' = Over(Receipts({"lease-release"}, absent), evidence)
  BY Zenon DEF ReleaseLease
<1>4. CASE UNCHANGED <<leased, evidence>>
  BY <1>1, <1>2, <1>4, AsideLemma
<1>5. CASE ~UNCHANGED <<leased, evidence>>
  <2>1. PICK absent \in BOOLEAN : /\ leased' = ~absent
                                  /\ evidence' = Over(Receipts({"lease-release"}, absent), evidence)
    BY <1>3, <1>5, Zenon
  <2>2. PICK f, g : f = evidence /\ g = evidence'
    OBVIOUS
  <2>3. g = Over(Receipts({"lease-release"}, absent), f)
    BY <2>1, <2>2
  <2>4. /\ \A r : r \notin {"lease-release"} => Same(File(r), f, g)
        /\ \A r \in {"lease-release"} : File(r) \in DOMAIN g /\ g[File(r)].pass = absent
        /\ Kept(f, g)
    BY <2>3, OverReceiptsLemma
  <2>5. Same(File("teardown"), f, g)
    BY <2>4
  <2>6. TeardownInv'
    BY <1>1, <1>2, <2>2, <2>5, SameTeardownLemma
  <2>7. g[File("lease-release")].pass = absent
    BY <2>4
  <2>8. g[File("lease-release")].pass => ~leased'
    BY <2>1, <2>7
  <2>9. LeaseInv'
    BY <1>1, <2>2, <2>8 DEF LeaseInv
  <2>10. QED
    BY <1>1, <1>2, <2>2, <2>4, <2>6, <2>9, LateLemma
<1>6. QED
  BY <1>4, <1>5

LEMMA AlterLemma ==
    ASSUME IInv, Alter
    PROVE  IInv'
<1>1. at \in 25..32 /\ at' = at
  <2>1. Len(Steps) = 32 /\ Len(Script) = 22
    BY StepsLemma, CollectLemma
  <2>2. at > Len(Script) + 2 /\ at <= Len(Steps) /\ at' = at
    BY DEF Alter
  <2>3. QED
    BY <2>1, <2>2 DEF IInv, TypeOK
<1>2. UNCHANGED <<log, exec, deployed, leased>>
  BY DEF Alter, system
<1>3. PICK s \in Scenarios :
         evidence' \in {[x \in DOMAIN evidence \ {<<"history", s>>} |-> evidence[x]],
                        [evidence EXCEPT ![<<"history", s>>].signal = ~@]}
  BY Zenon DEF Alter
<1>4. PICK f, g, y : f = evidence /\ g = evidence' /\ y = <<"history", s>>
  OBVIOUS
<1>5. g = [x \in DOMAIN f \ {y} |-> f[x]] \/ \E c : g = [f EXCEPT ![y] = c]
  <2>1. \/ g = [x \in DOMAIN f \ {y} |-> f[x]]
        \/ g = [f EXCEPT ![y].signal = ~@]
    BY <1>3, <1>4
  <2>2. QED
    BY <2>1
<1>6. \A x : x # y => Same(x, f, g)
  BY <1>5 DEF Same
<1>7. /\ \A x \in Snapshots \cup {CheckpointFile, SummaryFile} : x # y
      /\ \A r : File(r) # y
  BY <1>4 DEF Snapshots, CheckpointFile, SummaryFile, File
<1>8. Kept(f, g)
  BY <1>6, <1>7 DEF Kept
<1>9. TeardownInv' /\ LeaseInv'
  BY <1>1, <1>2, <1>4, <1>6, <1>7, SameTeardownLemma, SameLeaseLemma
<1>10. QED
  BY <1>1, <1>2, <1>4, <1>8, <1>9, LateLemma

-----------------------------------------------------------------------------
(* The verdict *)

LEMMA FinalLemma ==
    ASSUME IInv, FinalSummary
    PROVE  IInv'
<1>1. at = 32 /\ at' = 33
  BY AtLemma DEF FinalSummary, Place, IInv, TypeOK, Forward
<1>2. UNCHANGED <<log, exec, deployed, leased>>
  BY DEF FinalSummary, system
<1>3. PICK v : /\ v = IF finalize_evidence THEN "AWS_VERIFIED" ELSE "UNCLAIMED"
               /\ evidence' = Put(SummaryFile, v, evidence)
  BY Zenon DEF FinalSummary, Write, SummaryFile
<1>4. PICK f, g : f = evidence /\ g = evidence'
  OBVIOUS
<1>5. /\ DOMAIN g = {SummaryFile} \cup DOMAIN f
      /\ g[SummaryFile] = v
      /\ \A x \in DOMAIN f : x # SummaryFile => g[x] = f[x]
  <2>1. g = Put(SummaryFile, v, f)
    BY <1>3, <1>4
  <2>2. QED
    BY <2>1 DEF Put
<1>6. \A x : x # SummaryFile => Same(x, f, g)
  BY <1>5 DEF Same
<1>7. /\ \A x \in Snapshots : x # SummaryFile
      /\ CheckpointFile # SummaryFile
      /\ \A r : File(r) # SummaryFile
      /\ \A s : <<"history", s>> # SummaryFile
  BY DEF Snapshots, CheckpointFile, SummaryFile, File
<1>8. TypeOK' /\ HistoryInv' /\ SummaryInv'
  BY <1>1, <1>2 DEF IInv, TypeOK, HistoryInv, SummaryInv
<1>9. TeardownInv' /\ LeaseInv'
  BY <1>1, <1>2, <1>4, <1>6, <1>7, SameTeardownLemma, SameLeaseLemma
<1>10. Same(CheckpointFile, f, g) /\ \A x \in Snapshots : Same(x, f, g)
  BY <1>6, <1>7
<1>11. SnapshotInv' /\ CheckpointInv' /\ PassMeansOneMove'
  BY <1>1, <1>2, <1>4, <1>10, PassedKeptLemma
<1>12. v = "AWS_VERIFIED" => finalize_evidence
  BY <1>3
<1>13. VerifiedIsFinal'
  <2>1. SUFFICES ASSUME v = "AWS_VERIFIED" PROVE ~deployed /\ ~leased
    BY <1>2, <1>4, <1>5 DEF VerifiedIsFinal, Verified, SummaryFile
  <2>2. Accepts("teardown") /\ Accepts("lease-release")
    BY <1>12, <2>1 DEF finalize_evidence, Finality, Later
  <2>3. QED
    BY <2>2 DEF Accepts, IInv, TeardownInv, LeaseInv
<1>14. VerifiedOnTrueEvidence'
  <2>1. SUFFICES ASSUME v = "AWS_VERIFIED", NEW s \in Scenarios
                 PROVE  <<"history", s>> \in DOMAIN g /\ g[<<"history", s>>] = exec[s]
    BY <1>2, <1>4, <1>5 DEF VerifiedOnTrueEvidence, Verified, SummaryFile, History
  <2>2. PICK files : files = f[CheckpointFile].files
    OBVIOUS
  <2>3. /\ CheckpointFile \in DOMAIN f /\ f[CheckpointFile].result = "PASS"
        /\ \A x \in DOMAIN files : x \in DOMAIN f /\ f[x] = files[x]
    BY <1>4, <1>12, <2>1, <2>2 DEF finalize_evidence, Unchanged, CheckpointFile
  <2>4. PICK y : y = <<"history", s>>
    OBVIOUS
  <2>5. y \in DOMAIN files /\ files[y] = exec[s]
    BY <1>4, <2>2, <2>3, <2>4 DEF IInv, CheckpointInv
  <2>6. y \in DOMAIN f /\ f[y] = exec[s]
    BY <2>3, <2>5
  <2>7. y \in DOMAIN g /\ g[y] = f[y]
    BY <1>6, <1>7, <2>4, <2>6 DEF Same
  <2>8. QED
    BY <2>4, <2>6, <2>7
<1>15. QED
  BY <1>8, <1>9, <1>11, <1>13, <1>14 DEF IInv

-----------------------------------------------------------------------------
(* The theorems *)

LEMMA InitLemma ==
    ASSUME Init
    PROVE  IInv
<1>1. at = 1 /\ log = << >>
  BY DEF Init
<1>2. DOMAIN evidence \subseteq {File(r) : r \in Earlier}
  <2>1. CASE evidence = [x \in {File(r) : r \in Earlier} |-> Good]
    BY <2>1
  <2>2. CASE evidence \in Collected
    <3> DEFINE all == [x \in {File(r) : r \in Earlier} |-> Good]
                 Others(r) == {[Good EXCEPT !.pass = FALSE], [Good EXCEPT !.run = "other"], [Good EXCEPT !.sha = "other"]}
                 Each(r) == {[x \in DOMAIN all \ {File(r)} |-> Good]} \cup {[all EXCEPT ![File(r)] = o] : o \in Others(r)}
    <3>2. PICK r \in Earlier :
            \/ evidence = [x \in DOMAIN all \ {File(r)} |-> Good]
            \/ \E o : evidence = [all EXCEPT ![File(r)] = o]
      <4>1. Collected = UNION {Each(r) : r \in Earlier}
        BY Zenon DEF Collected
      <4> HIDE DEF Each
      <4>2. PICK r \in Earlier : evidence \in Each(r)
        BY <2>2, <4>1
      <4> USE DEF Each
      <4> HIDE DEF all, Others
      <4>3. QED
        BY <4>2, Zenon
    <3>3. DOMAIN all = {File(t) : t \in Earlier}
      OBVIOUS
    <3>4. QED
      BY <3>2, <3>3
  <2>3. QED
    BY <2>1, <2>2 DEF Init
<1>3. /\ CheckpointFile \notin DOMAIN evidence /\ SummaryFile \notin DOMAIN evidence
      /\ \A x \in Snapshots : x \notin DOMAIN evidence
      /\ \A s : <<"history", s>> \notin DOMAIN evidence
  BY <1>2 DEF File, CheckpointFile, SummaryFile, Snapshots
<1>4. File("teardown") \notin DOMAIN evidence /\ File("lease-release") \notin DOMAIN evidence
  <2>1. \A r \in Earlier : File("teardown") # File(r) /\ File("lease-release") # File(r)
    BY DEF File, Earlier
  <2>2. QED
    BY <1>2, <2>1
<1>5. TypeOK
  BY <1>1 DEF TypeOK
<1>6. QED
  BY <1>3, <1>4, <1>5
     DEF IInv, SnapshotInv, HistoryInv, CheckpointInv, TeardownInv, LeaseInv, SummaryInv,
         PassMeansOneMove, VerifiedIsFinal, VerifiedOnTrueEvidence, Passed, Verified,
         CheckpointFile, SummaryFile

LEMMA NextLemma ==
    ASSUME IInv, [Next]_vars
    PROVE  IInv'
<1>1. CASE UNCHANGED vars
  BY <1>1 DEF vars, IInv, TypeOK, SnapshotInv, HistoryInv, CheckpointInv, TeardownInv, LeaseInv, SummaryInv,
              PassMeansOneMove, VerifiedIsFinal, VerifiedOnTrueEvidence, Passed, Verified, Pointer, History
<1>2. CASE Next
  <2>1. CASE RunScenario \/ Snapshot \/ StalePublisher \/ ServingResolution \/ AthenaQueries \/ Drift
    BY <2>1, ScriptLemma
  <2>2. CASE CollectEvidence
    BY <2>2, CollectStepLemma
  <2>3. CASE Checkpoint
    BY <2>3, CheckpointLemma
  <2>4. CASE PersistEvidence
    BY <2>4, PersistLemma
  <2>5. CASE RecoverAuthority
    BY <2>5, RecoverLemma
  <2>6. CASE DestroyPlan \/ DestroyApply \/ PostBudget
    BY <2>6, DestroyLemma
  <2>7. CASE VerifyTeardown
    BY <2>7, VerifyTeardownLemma
  <2>8. CASE ReleaseLease
    BY <2>8, ReleaseLemma
  <2>9. CASE Alter
    BY <2>9, AlterLemma
  <2>10. CASE FinalSummary
    BY <2>10, FinalLemma
  <2>11. QED
    BY <1>2, <2>1, <2>2, <2>3, <2>4, <2>5, <2>6, <2>7, <2>8, <2>9, <2>10, Zenon DEF Next
<1>3. QED
  BY <1>1, <1>2

\* A lab's files and the account keep the invariant above, however the deployment, late invocations,
\* artifacts and the teardown behave.
THEOREM LabInvariance == Spec => []IInv
<1>1. Init => IInv
  BY InitLemma
<1>2. IInv /\ [Next]_vars => IInv'
  BY NextLemma
<1>3. QED
  BY <1>1, <1>2, PTL DEF Spec

\* Whatever else moved the pointer during the lab, a checkpoint that passed vouches for exactly one move
\* between the success and the queries, to the validated generation of the recovery.
THEOREM OneMoveTheorem == Spec => []PassMeansOneMove
<1>1. IInv => PassMeansOneMove
  BY DEF IInv
<1>2. QED
  BY <1>1, LabInvariance, PTL

\* AWS_VERIFIED is written only over an account with nothing deployed and no lease.
THEOREM FinalTheorem == Spec => []VerifiedIsFinal
<1>1. IInv => VerifiedIsFinal
  BY DEF IInv
<1>2. QED
  BY <1>1, LabInvariance, PTL

\* AWS_VERIFIED is written only when every history is the one of its execution, through an artifact that
\* may be lost and files that may be altered.
THEOREM TrueEvidenceTheorem == Spec => []VerifiedOnTrueEvidence
<1>1. IInv => VerifiedOnTrueEvidence
  BY DEF IInv
<1>2. QED
  BY <1>1, LabInvariance, PTL

=============================================================================
