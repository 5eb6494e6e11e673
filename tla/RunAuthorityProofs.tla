------------------------- MODULE RunAuthorityProofs -------------------------
(***************************************************************************)
(* Theorems about RunAuthority for any prerequisites, commits, evidence,   *)
(* attempts and misplaced artifacts.                                       *)
(***************************************************************************)
EXTENDS RunAuthority, FiniteSetTheorems, TLAPS

-----------------------------------------------------------------------------
(* Types *)

EvidenceRecord == [kind : Kinds, run : Nat, commit : Nat, ok : BOOLEAN]
SourcesRecord  == [commit : Nat, run : Nat]

ReceiptRecord ==
    [run : Nat, attempt : Nat, commit : Nat, evidence : [Kinds -> EvidenceRecord],
     sources : SourcesRecord]

AdmissionRecord ==
    [evidence : [Kinds -> EvidenceRecord], sources : SourcesRecord, receipt : ReceiptRecord]

AuthorityRecord ==
    [run : Nat, attempt : Nat, commit : Nat, root : Nat, admission : ReceiptRecord,
     plan : Nat \X Nat, validation : Nat \X Nat]

PackageRecord ==
    [authority : AuthorityRecord, admission : ReceiptRecord, validation : Nat \X Nat,
     digest : [authority : AuthorityRecord, run : Nat, attempt : Nat]]

Phases == {"admission", "revalidate", "plan", "bind", "apply", "teardown", "failed", "done"}

RunRecord ==
    [commit : Nat, inputs : [Kinds -> Nat], attempt : Nat, phase : Phases,
     failed : SUBSET {"admission", "execute", "teardown"}, disk : ReceiptRecord \cup {None}]

DeploymentRecord == [run : Nat, attempt : Nat, commit : Nat]

\* What a prerequisite run wrote, whatever name it is found under.
Genuine(k, e) == e.run \in DOMAIN ran /\ e = ran[e.run] /\ e.kind = k

Artifact(name) ==
    \/ \E k \in Kinds, i \in Nat : name = <<k, i>> /\ Genuine(k, store[name])
    \/ \E r, a \in Nat : /\ name = AdmissionName(r, a)
                         /\ store[name] \in AdmissionRecord
                         /\ \A k \in Kinds : Genuine(k, store[name].evidence[k])
    \/ \E r, a \in Nat : name = AuthorityName(r, a) /\ store[name] \in PackageRecord

TypeOK ==
    /\ tip \in Commits
    /\ contract \in [Commits -> Nat]
    /\ \E n \in Nat : ran \in [1..n -> EvidenceRecord]
    /\ \E n \in Nat : runs \in [1..n -> RunRecord]
    /\ \A name \in DOMAIN store : Artifact(name)
    /\ lease \in [owner : Nat \X Nat, bound : AuthorityRecord \cup {None}]
    /\ deployed \in DeploymentRecord \cup {None}
    /\ lapsed \in BOOLEAN
    /\ torn \subseteq [deployment : DeploymentRecord, authority : AuthorityRecord, root : Nat, lapsed : BOOLEAN]
    /\ misplaced \in Nat

-----------------------------------------------------------------------------
(* The inductive invariant *)

Active(r) == runs[r].phase \notin {"failed", "done"}

\* The concurrency group.
OneActive == \A r, s \in DOMAIN runs : Active(r) /\ Active(s) => r = s

\* The artifacts that a run names exist.
InputsHeld == \A r \in DOMAIN runs, k \in Kinds : Held(<<k, runs[r].inputs[k]>>)

\* The prerequisites that a run names ran and passed at its commit.
Based(r) ==
    \A k \in Kinds : LET id == runs[r].inputs[k]
                     IN  id \in DOMAIN ran /\ ran[id] = Evidence(k, id, runs[r].commit, TRUE)

\* A package as the execute job of an attempt builds it.
Own(p, r, attempt, commit, authority) ==
    /\ p.authority = authority
    /\ p.admission.run = r /\ p.admission.attempt = attempt /\ p.admission.commit = commit
    /\ authority = Authority(r, attempt, commit, commit, p.admission, authority.plan, p.validation)
    /\ p.digest = [authority |-> authority, run |-> r, attempt |-> attempt]

\* The authority of an attempt is where its recovery looks for it.
Recoverable(r, attempt, commit, authority) ==
    misplaced = 0 => /\ Held(AuthorityName(r, attempt))
                     /\ Own(store[AuthorityName(r, attempt)], r, attempt, commit, authority)

\* What the execute job has established at its step.
ExecuteInv(r) ==
    /\ runs[r].phase \in {"plan", "bind", "apply"} =>
         lease.owner = Owner(r) /\ Based(r) /\ runs[r].disk \in ReceiptRecord
    /\ runs[r].phase \in {"bind", "apply"} =>
         /\ deployed = None
         /\ Recoverable(r, runs[r].attempt, runs[r].commit, PackageOf(r).authority)
    /\ runs[r].phase = "apply" => lease.bound = PackageOf(r).authority

\* What a run does in an attempt once its apply is over.
Ended == {"teardown", "failed", "done"}

OwnLease == lease.owner = <<deployed.run, deployed.attempt>>

\* What is deployed comes from the end of an attempt, whose authority is kept.  Until its
\* lease lapses it is covered by the lease of that attempt or by a recovery's; afterwards
\* the lease may be anybody's, but never again that attempt's.
DeployedInv ==
    /\ lapsed => deployed # None
    /\ deployed # None =>
        /\ deployed.run \in DOMAIN runs
        /\ deployed.commit = runs[deployed.run].commit
        /\ Based(deployed.run)
        /\ deployed.attempt <= runs[deployed.run].attempt
        /\ deployed.attempt = runs[deployed.run].attempt => runs[deployed.run].phase \in Ended
        /\ \E authority : Recoverable(deployed.run, deployed.attempt, deployed.commit, authority)
        /\ ~lapsed => OwnLease \/ lease.owner = Recovery
        /\ OwnLease =>
             /\ lease.bound # None
             /\ lease.bound.run = deployed.run
             /\ lease.bound.attempt = deployed.attempt
             /\ lease.bound.commit = deployed.commit
             /\ Recoverable(deployed.run, deployed.attempt, deployed.commit, lease.bound)

IInv ==
    /\ TypeOK
    /\ OneActive
    /\ InputsHeld
    /\ \A r \in DOMAIN runs : ExecuteInv(r)
    /\ DeployedInv
    /\ TornByItsOwn

-----------------------------------------------------------------------------
(* Operators of the model *)

\* Names of different kinds of artifacts differ, and a name names one artifact.
LEMMA NamesDiffer ==
  ASSUME NEW r, NEW a, NEW s, NEW b
  PROVE  /\ AuthorityName(r, a) = AuthorityName(s, b) => r = s /\ a = b
         /\ AuthorityName(r, a) # AdmissionName(s, b)
         /\ \A k \in Kinds, i \in Nat : <<k, i>> # AuthorityName(r, a) /\ <<k, i>> # AdmissionName(r, a)
<1>1. "admission" \notin Kinds /\ "authority" \notin Kinds
  BY AuthorityAssumption
<1>2. AuthorityName(r, a) = AuthorityName(s, b) => r = s /\ a = b
  BY DEF AuthorityName
<1>3. AuthorityName(r, a)[1] = "authority" /\ AdmissionName(s, b)[1] = "admission" /\ AdmissionName(r, a)[1] = "admission"
  BY DEF AuthorityName, AdmissionName
<1>4. \A k \in Kinds, i \in Nat : <<k, i>>[1] = k
  OBVIOUS
<1>. QED  BY <1>1, <1>2, <1>3, <1>4

LEMMA HoldsOwn ==
  ASSUME NEW p, NEW r, NEW a, NEW c, NEW trusted
  PROVE  AuthorityHolds(p, r, a, c, trusted) <=>
           FrozenContract(trusted, c) /\ Own(p, r, a, c, p.authority)
BY DEF AuthorityHolds, Own

\* An authority that holds is that of the run, attempt and source it is checked for.
LEMMA OwnAuthority ==
  ASSUME NEW p, NEW r, NEW a, NEW c, NEW authority, Own(p, r, a, c, authority)
  PROVE  authority.run = r /\ authority.attempt = a /\ authority.commit = c
BY DEF Own, Authority

LEMMA RunsTyped ==
  ASSUME TypeOK
  PROVE  /\ \A r \in DOMAIN runs : r \in Nat /\ r > 0 /\ runs[r] \in RunRecord
         /\ Cardinality(DOMAIN runs) + 1 \notin DOMAIN runs
         /\ Cardinality(DOMAIN runs) + 1 \in Nat
         /\ \A x \in RunRecord : \E n \in Nat :
               Put(runs, Cardinality(DOMAIN runs) + 1, x) \in [1..n -> RunRecord]
<1>1. PICK n \in Nat : runs \in [1..n -> RunRecord]
  BY DEF TypeOK
<1>2. Cardinality(DOMAIN runs) = n
  BY <1>1, FS_Interval
<1>3. ASSUME NEW x \in RunRecord  PROVE Put(runs, n + 1, x) \in [1..(n + 1) -> RunRecord]
  <2>1. (1..n) \cup {n + 1} = 1..(n + 1)
    OBVIOUS
  <2>. QED  BY <1>1, <2>1 DEF Put
<1>. QED  BY <1>1, <1>2, <1>3

LEMMA RanTyped ==
  ASSUME TypeOK
  PROVE  /\ \A i \in DOMAIN ran : i \in Nat /\ ran[i] \in EvidenceRecord
         /\ Cardinality(DOMAIN ran) + 1 \notin DOMAIN ran
         /\ Cardinality(DOMAIN ran) + 1 \in Nat
         /\ \A x \in EvidenceRecord : \E n \in Nat :
               Put(ran, Cardinality(DOMAIN ran) + 1, x) \in [1..n -> EvidenceRecord]
<1>1. PICK n \in Nat : ran \in [1..n -> EvidenceRecord]
  BY DEF TypeOK
<1>2. Cardinality(DOMAIN ran) = n
  BY <1>1, FS_Interval
<1>3. ASSUME NEW x \in EvidenceRecord  PROVE Put(ran, n + 1, x) \in [1..(n + 1) -> EvidenceRecord]
  <2>1. (1..n) \cup {n + 1} = 1..(n + 1)
    OBVIOUS
  <2>. QED  BY <1>1, <2>1 DEF Put
<1>. QED  BY <1>1, <1>2, <1>3

-----------------------------------------------------------------------------
(* How the steps move the runs and keep the artifacts *)

\* A run keeps its source and inputs, and an attempt that has ended does not resume.
Onward(r) ==
    /\ runs'[r].commit = runs[r].commit /\ runs'[r].inputs = runs[r].inputs
    /\ runs'[r].attempt \in Nat /\ runs'[r].attempt >= runs[r].attempt
    /\ runs'[r].attempt = runs[r].attempt /\ runs[r].phase \in Ended => runs'[r].phase \in Ended

RunStep(r) ==
    /\ \E n \in Nat : runs' \in [1..n -> RunRecord]
    /\ DOMAIN runs' = DOMAIN runs
    /\ \A s \in DOMAIN runs \ {r} : runs'[s] = runs[s]
    /\ Onward(r)

\* A run goes on to another record.
LEMMA StepOf ==
  ASSUME TypeOK, NEW r \in DOMAIN runs, NEW x \in RunRecord, runs' = [runs EXCEPT ![r] = x],
         x.commit = runs[r].commit, x.inputs = runs[r].inputs,
         x.attempt = runs[r].attempt, runs[r].phase \in Ended => x.phase \in Ended
  PROVE  RunStep(r) /\ runs'[r] = x
<1>1. PICK n \in Nat : runs \in [1..n -> RunRecord]
  BY DEF TypeOK
<1>2. PICK b \in Nat : b = x.attempt
  BY DEF RunRecord
<1>3. /\ runs' \in [1..n -> RunRecord] /\ runs'[r] = x
      /\ DOMAIN runs' = DOMAIN runs /\ \A s \in DOMAIN runs \ {r} : runs'[s] = runs[s]
  BY <1>1
<1>4. b >= b
  OBVIOUS
<1>5. Onward(r)
  BY <1>2, <1>3, <1>4 DEF Onward
<1>. QED  BY <1>3, <1>5 DEF RunStep

LEMMA MoveStep ==
  ASSUME TypeOK, NEW r \in DOMAIN runs, NEW phase \in Phases, Move(r, phase),
         runs[r].phase \in Ended => phase \in Ended
  PROVE  /\ RunStep(r)
         /\ runs'[r].phase = phase /\ runs'[r].attempt = runs[r].attempt /\ runs'[r].disk = runs[r].disk
<1>1. PICK n \in Nat : runs \in [1..n -> RunRecord]
  BY DEF TypeOK
<1>2. PICK x \in RunRecord : x = [runs[r] EXCEPT !.phase = phase]
  BY <1>1 DEF RunRecord
<1>3. runs' = [runs EXCEPT ![r] = x]
  BY <1>1, <1>2 DEF Move
<1>4. /\ x.phase = phase /\ x.attempt = runs[r].attempt /\ x.disk = runs[r].disk
      /\ x.commit = runs[r].commit /\ x.inputs = runs[r].inputs
  BY <1>1, <1>2 DEF RunRecord
<1>. QED  BY <1>3, <1>4, StepOf

LEMMA FailStep ==
  ASSUME TypeOK, NEW r \in DOMAIN runs, NEW phase \in Phases,
         NEW job \in {"admission", "execute", "teardown"}, Fail(r, job, phase),
         runs[r].phase \in Ended => phase \in Ended
  PROVE  /\ RunStep(r)
         /\ runs'[r].phase = phase /\ runs'[r].attempt = runs[r].attempt /\ runs'[r].disk = runs[r].disk
<1>1. PICK n \in Nat : runs \in [1..n -> RunRecord]
  BY DEF TypeOK
<1>2. runs[r].failed \union {job} \in SUBSET {"admission", "execute", "teardown"}
  BY <1>1 DEF RunRecord
<1> DEFINE x == [runs[r] EXCEPT !.phase = phase, !.failed = runs[r].failed \union {job}]
<1>3. runs' = [runs EXCEPT ![r] = x]
  BY <1>1 DEF Fail, RunRecord
<1>4. /\ x \in RunRecord
      /\ x.phase = phase /\ x.attempt = runs[r].attempt /\ x.disk = runs[r].disk
      /\ x.commit = runs[r].commit /\ x.inputs = runs[r].inputs
  BY <1>1, <1>2 DEF RunRecord
<1> HIDE DEF x
<1>. QED  BY <1>3, <1>4, StepOf

RunsKept == \A r \in DOMAIN runs : r \in DOMAIN runs' /\ Onward(r)

LEMMA RunsStay ==
  ASSUME TypeOK, UNCHANGED runs
  PROVE  RunsKept
<1>1. \A r \in DOMAIN runs : runs[r].attempt \in Nat
  BY RunsTyped DEF RunRecord
<1>. QED  BY <1>1 DEF RunsKept, Onward

LEMMA RunStepKeeps ==
  ASSUME TypeOK, NEW r \in DOMAIN runs, RunStep(r)
  PROVE  RunsKept
<1>1. \A s \in DOMAIN runs : runs[s].attempt \in Nat
  BY RunsTyped DEF RunRecord
<1>2. ASSUME NEW s \in DOMAIN runs  PROVE Onward(s)
  BY <1>1 DEF RunStep, Onward
<1>. QED  BY <1>2 DEF RunsKept, RunStep

RanKept == \A i \in DOMAIN ran : i \in DOMAIN ran' /\ ran'[i] = ran[i]

AuthoritiesKept ==
    misplaced' = 0 =>
        /\ misplaced = 0
        /\ \A r, a : Held(AuthorityName(r, a)) =>
              /\ AuthorityName(r, a) \in DOMAIN store'
              /\ store'[AuthorityName(r, a)] = store[AuthorityName(r, a)]

LEMMA BasedStays ==
  ASSUME NEW r, Based(r), RanKept, runs'[r].commit = runs[r].commit, runs'[r].inputs = runs[r].inputs
  PROVE  Based(r)'
BY DEF Based, RanKept

LEMMA RecoverableStays ==
  ASSUME NEW r, NEW a, NEW c, NEW authority, Recoverable(r, a, c, authority), AuthoritiesKept
  PROVE  Recoverable(r, a, c, authority)'
BY DEF Recoverable, AuthoritiesKept, Held

LEMMA ArtifactStays ==
  ASSUME NEW name, Artifact(name), RanKept, store'[name] = store[name]
  PROVE  Artifact(name)'
BY DEF Artifact, Genuine, RanKept

LEMMA OthersQuiet ==
  ASSUME OneActive, NEW r \in DOMAIN runs, Active(r), NEW s \in DOMAIN runs, s # r
  PROVE  runs[s].phase \in {"failed", "done"}
BY DEF OneActive, Active

\* What the runs and the artifacts say of a deployment stays true while they go on.
LEMMA DeployedRun ==
  ASSUME TypeOK, DeployedInv, deployed # None, UNCHANGED deployed, RunsKept, RanKept, AuthoritiesKept
  PROVE  /\ deployed.run \in DOMAIN runs'
         /\ deployed.commit = runs'[deployed.run].commit
         /\ Based(deployed.run)'
         /\ deployed.attempt <= runs'[deployed.run].attempt
         /\ deployed.attempt = runs'[deployed.run].attempt => runs'[deployed.run].phase \in Ended
         /\ \A authority : Recoverable(deployed.run, deployed.attempt, deployed.commit, authority)
               => Recoverable(deployed.run, deployed.attempt, deployed.commit, authority)'
<1>1. PICK r \in DOMAIN runs, d \in Nat, c \in Nat : r = deployed.run /\ d = deployed.attempt /\ c = deployed.commit
  BY DEF DeployedInv, TypeOK, DeploymentRecord
<1>2. PICK b \in Nat, n \in Nat : b = runs[r].attempt /\ n = runs'[r].attempt
  BY RunsTyped DEF RunRecord, RunsKept, Onward
<1>3. /\ r \in DOMAIN runs'
      /\ runs'[r].commit = runs[r].commit /\ runs'[r].inputs = runs[r].inputs
      /\ b <= n
      /\ b = n /\ runs[r].phase \in Ended => runs'[r].phase \in Ended
  BY <1>2 DEF RunsKept, Onward
<1>4. Based(r) /\ c = runs[r].commit /\ d <= b /\ (d = b => runs[r].phase \in Ended)
  BY <1>1, <1>2 DEF DeployedInv
<1>5. Based(r)'
  BY <1>3, <1>4, BasedStays
<1>6. d <= n /\ (d = n => runs'[r].phase \in Ended)
  BY <1>3, <1>4
<1>7. Based(deployed.run)'
  BY <1>1, <1>5 DEF Based
<1>8. \A authority : Recoverable(deployed.run, deployed.attempt, deployed.commit, authority)
                        => Recoverable(deployed.run, deployed.attempt, deployed.commit, authority)'
  BY RecoverableStays
<1>. QED  BY <1>1, <1>2, <1>3, <1>4, <1>6, <1>7, <1>8

LEMMA DeployedStays ==
  ASSUME TypeOK, DeployedInv, UNCHANGED <<lease, deployed, lapsed>>, RunsKept, RanKept, AuthoritiesKept
  PROVE  DeployedInv'
<1> SUFFICES ASSUME deployed # None  PROVE DeployedInv'
  BY DEF DeployedInv
<1>. QED  BY DeployedRun DEF DeployedInv, OwnLease

\* The lease of a deployment passes to somebody else.
LEMMA DeployedLapsed ==
  ASSUME TypeOK, DeployedInv, UNCHANGED deployed, deployed # None, RunsKept, RanKept, AuthoritiesKept,
         ~OwnLease', lapsed' \/ lease'.owner = Recovery
  PROVE  DeployedInv'
BY DeployedRun DEF DeployedInv

StoreKept == \A name \in DOMAIN store : name \in DOMAIN store'

LEMMA InputsStay ==
  ASSUME InputsHeld, DOMAIN runs' = DOMAIN runs, RunsKept, StoreKept
  PROVE  InputsHeld'
BY DEF InputsHeld, RunsKept, Onward, StoreKept, Held

\* What neither the runs nor the lease take part in.
LEMMA Frame ==
  ASSUME IInv, UNCHANGED <<runs, lease, deployed, lapsed, torn>>, RanKept, AuthoritiesKept, StoreKept
  PROVE  /\ OneActive' /\ InputsHeld'
         /\ (\A r \in DOMAIN runs : ExecuteInv(r))'
         /\ DeployedInv' /\ TornByItsOwn'
<1>1. OneActive' /\ TornByItsOwn'
  BY DEF IInv, OneActive, Active, TornByItsOwn
<1>2. RunsKept
  BY RunsStay DEF IInv
<1>3. InputsHeld' /\ DeployedInv'
  BY <1>2, InputsStay, DeployedStays DEF IInv
<1>4. ASSUME NEW r \in DOMAIN runs  PROVE ExecuteInv(r)'
  <2>1. ExecuteInv(r)
    BY DEF IInv
  <2>2. Based(r) => Based(r)'
    BY BasedStays
  <2>3. \A a, c, authority : Recoverable(r, a, c, authority) => Recoverable(r, a, c, authority)'
    BY RecoverableStays
  <2>4. PackageOf(r)' = PackageOf(r) /\ Owner(r)' = Owner(r)
    BY DEF PackageOf, Owner
  <2>. QED  BY <2>1, <2>2, <2>3, <2>4 DEF ExecuteInv
<1>. QED  BY <1>1, <1>3, <1>4

\* A step of the run that holds the concurrency group.
LEMMA ActiveStep ==
  ASSUME IInv, NEW r \in DOMAIN runs, Active(r), RunStep(r), StoreKept
  PROVE  /\ OneActive' /\ InputsHeld' /\ RunsKept
         /\ \A s \in DOMAIN runs' : s # r => ExecuteInv(s)'
<1>1. RunsKept /\ DOMAIN runs' = DOMAIN runs
  BY RunStepKeeps DEF IInv, RunStep
<1>2. InputsHeld'
  BY <1>1, InputsStay DEF IInv
<1>3. ASSUME NEW s \in DOMAIN runs', s # r  PROVE runs'[s].phase \in {"failed", "done"}
  BY <1>1, <1>3, OthersQuiet DEF IInv, RunStep
<1>4. OneActive'
  BY <1>3 DEF OneActive, Active
<1>. QED  BY <1>1, <1>2, <1>3, <1>4 DEF ExecuteInv

LEMMA ArtifactsStay ==
  ASSUME TypeOK, UNCHANGED store, RanKept
  PROVE  (\A name \in DOMAIN store : Artifact(name))'
<1>1. \A name \in DOMAIN store : Artifact(name)
  BY DEF TypeOK
<1>. QED  BY <1>1, ArtifactStays

LEMMA ArtifactsSaved ==
  ASSUME TypeOK, NEW saved, NEW content, Save(saved, content), RanKept, Artifact(saved)'
  PROVE  /\ (\A name \in DOMAIN store : Artifact(name))'
         /\ StoreKept
<1>1. /\ DOMAIN store' = DOMAIN store \cup {saved}
      /\ \A name \in DOMAIN store \ {saved} : store'[name] = store[name]
  BY DEF Save, Put
<1>2. \A name \in DOMAIN store : Artifact(name)
  BY DEF TypeOK
<1>3. ASSUME NEW name \in DOMAIN store'  PROVE Artifact(name)'
  <2>1. CASE name = saved
    BY <2>1
  <2>2. CASE name # saved
    BY <1>1, <1>2, <2>2, ArtifactStays
  <2>. QED  BY <2>1, <2>2
<1>. QED  BY <1>1, <1>3 DEF StoreKept

LEMMA SavedElsewhere ==
  ASSUME NEW saved, NEW content, Save(saved, content), UNCHANGED misplaced,
         \A r, a : saved # AuthorityName(r, a)
  PROVE  AuthoritiesKept
BY DEF Save, Put, AuthoritiesKept, Held

LEMMA AdmissionTyped ==
  ASSUME TypeOK, NEW r, NEW a, Held(AdmissionName(r, a))
  PROVE  /\ store[AdmissionName(r, a)] \in AdmissionRecord
         /\ \A k \in Kinds : Genuine(k, store[AdmissionName(r, a)].evidence[k])
<1>1. Artifact(AdmissionName(r, a))
  BY DEF TypeOK, Held
<1>2. \A s, b : AdmissionName(r, a) # AuthorityName(s, b)
  BY NamesDiffer
<1>3. \A k \in Kinds, i \in Nat : AdmissionName(r, a) # <<k, i>>
  BY NamesDiffer
<1>. QED  BY <1>1, <1>2, <1>3 DEF Artifact

LEMMA PackageTyped ==
  ASSUME TypeOK, NEW r, NEW a, Held(AuthorityName(r, a))
  PROVE  store[AuthorityName(r, a)] \in PackageRecord
<1>1. Artifact(AuthorityName(r, a))
  BY DEF TypeOK, Held
<1>2. \A s, b : AuthorityName(r, a) # AdmissionName(s, b)
  BY NamesDiffer
<1>3. \A k \in Kinds, i \in Nat : AuthorityName(r, a) # <<k, i>>
  BY NamesDiffer
<1>. QED  BY <1>1, <1>2, <1>3 DEF Artifact

-----------------------------------------------------------------------------
(* Every action keeps the invariant *)

LEMMA MergeInv ==
  ASSUME IInv, NEW v, Merge(v)
  PROVE  IInv'
<1>1. TypeOK
  BY DEF IInv
<1>2. RanKept /\ AuthoritiesKept /\ StoreKept
  BY DEF Merge, RanKept, AuthoritiesKept, StoreKept, Held
<1>3. tip' \in Commits /\ contract' \in [Commits -> Nat]
  <2>1. tip \in 1..MaxCommit /\ contract[tip] \in Nat /\ MaxCommit \in Nat
    BY <1>1, AuthorityAssumption DEF TypeOK, Commits
  <2>2. tip' \in Commits
    BY <2>1 DEF Merge, Commits
  <2>3. v \in Nat
    BY <2>1 DEF Merge
  <2>. QED  BY <1>1, <2>2, <2>3 DEF Merge, TypeOK
<1>4. (\A name \in DOMAIN store : Artifact(name))'
  BY <1>1, <1>2, ArtifactsStay DEF Merge
<1>5. TypeOK'
  BY <1>1, <1>3, <1>4 DEF TypeOK, Merge
<1>. QED  BY <1>2, <1>5, Frame DEF IInv, Merge

LEMMA PrerequisiteInv ==
  ASSUME IInv, NEW kind \in Kinds, NEW ok \in BOOLEAN, Prerequisite(kind, ok)
  PROVE  IInv'
<1>1. TypeOK
  BY DEF IInv
<1>2. Cardinality(DOMAIN ran) + 1 \in Nat /\ Cardinality(DOMAIN ran) + 1 \notin DOMAIN ran
  BY <1>1, RanTyped
<1>3. PICK id \in Nat : id = Cardinality(DOMAIN ran) + 1
  BY <1>2
<1>4. PICK e \in EvidenceRecord : e = Evidence(kind, id, tip, ok)
  <2>1. tip \in Nat
    BY <1>1, AuthorityAssumption DEF TypeOK, Commits
  <2>. QED  BY <2>1 DEF Evidence, EvidenceRecord
<1>5. /\ ran' = Put(ran, id, e) /\ Save(<<kind, id>>, e)
      /\ UNCHANGED <<tip, contract, runs, lease, deployed, lapsed, torn, misplaced>>
  BY <1>3, <1>4 DEF Prerequisite
<1>6. e.run = id /\ e.kind = kind
  BY <1>4 DEF Evidence
<1>7. \E n \in Nat : ran' \in [1..n -> EvidenceRecord]
  BY <1>1, <1>3, <1>5, RanTyped
<1>8. RanKept /\ id \in DOMAIN ran' /\ ran'[id] = e
  BY <1>2, <1>3, <1>5 DEF RanKept, Put
<1>9. store'[<<kind, id>>] = e
  BY <1>5 DEF Save, Put
<1>10. Artifact(<<kind, id>>)'
  BY <1>6, <1>8, <1>9 DEF Artifact, Genuine
<1>11. AuthoritiesKept
  BY <1>5, NamesDiffer, SavedElsewhere
<1>12. StoreKept /\ (\A name \in DOMAIN store : Artifact(name))'
  BY <1>1, <1>5, <1>8, <1>10, ArtifactsSaved
<1>13. TypeOK'
  BY <1>1, <1>5, <1>7, <1>12 DEF TypeOK
<1>. QED  BY <1>5, <1>8, <1>11, <1>12, <1>13, Frame DEF IInv

LEMMA MisplaceInv ==
  ASSUME IInv, NEW name \in DOMAIN store, NEW other \in DOMAIN store, Misplace(name, other)
  PROVE  IInv'
<1>1. TypeOK /\ Artifact(name) /\ Artifact(other)
  BY DEF IInv, TypeOK
<1>2. RanKept /\ AuthoritiesKept
  BY <1>1 DEF Misplace, RanKept, AuthoritiesKept, TypeOK
<1>3. /\ DOMAIN store' = DOMAIN store
      /\ \A n \in DOMAIN store \ {name} : store'[n] = store[n]
  BY DEF Misplace
<1>4. \/ store'[name] = store[other]
      \/ /\ name[1] \in {"admission", "authority"}
         /\ \E f \in DOMAIN store[name] : store'[name] = [store[name] EXCEPT ![f] = store[other][f]]
  BY DEF Misplace
<1>5. name[1] = other[1] /\ UNCHANGED ran
  BY DEF Misplace
<1>6. "admission" \notin Kinds /\ "authority" \notin Kinds
  BY AuthorityAssumption
<1>7. \A r, a : AdmissionName(r, a)[1] = "admission" /\ AuthorityName(r, a)[1] = "authority"
  BY DEF AdmissionName, AuthorityName
<1>8. \A k, i : <<k, i>>[1] = k
  OBVIOUS
<1>9. ASSUME NEW k \in Kinds, NEW i \in Nat, name = <<k, i>>, Genuine(k, store[name])
      PROVE  Artifact(name)'
  <2>1. name[1] = k
    BY <1>8, <1>9
  <2>2. Genuine(k, store[other])
    <3>1. other[1] = k
      BY <1>5, <2>1
    <3>. QED  BY <1>1, <1>6, <1>7, <1>8, <3>1 DEF Artifact
  <2>3. store'[name] = store[other]
    BY <1>4, <1>6, <2>1
  <2>. QED  BY <1>5, <1>9, <2>2, <2>3 DEF Artifact, Genuine
<1>10. ASSUME NEW r \in Nat, NEW a \in Nat, name = AdmissionName(r, a), store[name] \in AdmissionRecord,
              \A k \in Kinds : Genuine(k, store[name].evidence[k])
       PROVE  Artifact(name)'
  <2>1. store[other] \in AdmissionRecord /\ \A k \in Kinds : Genuine(k, store[other].evidence[k])
    BY <1>1, <1>5, <1>6, <1>7, <1>8, <1>10 DEF Artifact
  <2>2. /\ store'[name] \in AdmissionRecord
        /\ store'[name].evidence \in {store[name].evidence, store[other].evidence}
    <3>1. CASE store'[name] = store[other]
      BY <2>1, <3>1
    <3>2. ASSUME NEW f \in DOMAIN store[name], store'[name] = [store[name] EXCEPT ![f] = store[other][f]]
          PROVE  /\ store'[name] \in AdmissionRecord
                 /\ store'[name].evidence \in {store[name].evidence, store[other].evidence}
      <4>1. f \in {"evidence", "sources", "receipt"}
        BY <1>10, <3>2 DEF AdmissionRecord
      <4>. QED  BY <1>10, <2>1, <3>2, <4>1 DEF AdmissionRecord
    <3>. QED  BY <1>4, <3>1, <3>2
  <2>. QED  BY <1>5, <1>10, <2>1, <2>2 DEF Artifact, Genuine
<1>11. ASSUME NEW r \in Nat, NEW a \in Nat, name = AuthorityName(r, a), store[name] \in PackageRecord
       PROVE  Artifact(name)'
  <2>1. store[other] \in PackageRecord
    BY <1>1, <1>5, <1>6, <1>7, <1>8, <1>11 DEF Artifact
  <2>2. store'[name] \in PackageRecord
    <3>1. CASE store'[name] = store[other]
      BY <2>1, <3>1
    <3>2. ASSUME NEW f \in DOMAIN store[name], store'[name] = [store[name] EXCEPT ![f] = store[other][f]]
          PROVE  store'[name] \in PackageRecord
      <4>1. f \in {"authority", "admission", "validation", "digest"}
        BY <1>11, <3>2 DEF PackageRecord
      <4>. QED  BY <1>11, <2>1, <3>2, <4>1 DEF PackageRecord
    <3>. QED  BY <1>4, <3>1, <3>2
  <2>. QED  BY <1>11, <2>2 DEF Artifact
<1>12. (\A n \in DOMAIN store : Artifact(n))'
  <2>1. Artifact(name)'
    BY <1>1, <1>9, <1>10, <1>11 DEF Artifact
  <2>2. ASSUME NEW n \in DOMAIN store, n # name  PROVE Artifact(n)'
    BY <1>1, <1>2, <1>3, <2>2, ArtifactStays DEF TypeOK
  <2>. QED  BY <1>3, <2>1, <2>2
<1>13. TypeOK'
  BY <1>1, <1>12 DEF TypeOK, Misplace
<1>14. StoreKept
  BY <1>3 DEF StoreKept
<1>. QED  BY <1>2, <1>13, <1>14, Frame DEF IInv, Misplace

LEMMA DispatchInv ==
  ASSUME IInv, NEW inputs \in [Kinds -> 1..MaxEvidence], Dispatch(inputs)
  PROVE  IInv'
<1>1. TypeOK
  BY DEF IInv
<1>2. Cardinality(DOMAIN runs) + 1 \in Nat /\ Cardinality(DOMAIN runs) + 1 \notin DOMAIN runs
  BY <1>1, RunsTyped
<1>3. PICK r \in Nat : r = Cardinality(DOMAIN runs) + 1
  BY <1>2
<1>4. PICK x \in RunRecord : x = [commit |-> tip, inputs |-> inputs, attempt |-> 1, phase |-> "admission",
                                 failed |-> {}, disk |-> None]
  <2>1. tip \in Nat /\ inputs \in [Kinds -> Nat]
    BY <1>1, AuthorityAssumption DEF TypeOK, Commits
  <2>. QED  BY <2>1 DEF RunRecord, Phases
<1>5. /\ runs' = Put(runs, r, x)
      /\ UNCHANGED <<tip, contract, ran, store, lease, deployed, lapsed, torn, misplaced>>
  BY <1>3, <1>4 DEF Dispatch
<1>6. \E n \in Nat : runs' \in [1..n -> RunRecord]
  BY <1>1, <1>3, <1>5, RunsTyped
<1>7. /\ DOMAIN runs' = DOMAIN runs \cup {r} /\ runs'[r] = x
      /\ \A s \in DOMAIN runs : runs'[s] = runs[s]
  BY <1>2, <1>3, <1>5 DEF Put
<1>8. RunsKept /\ RanKept /\ AuthoritiesKept
  <2>1. \A s \in DOMAIN runs : runs[s].attempt \in Nat
    BY <1>1, RunsTyped DEF RunRecord
  <2>. QED  BY <1>5, <1>7, <2>1 DEF RunsKept, Onward, RanKept, AuthoritiesKept, Held
<1>9. TypeOK'
  <2>1. (\A name \in DOMAIN store : Artifact(name))'
    BY <1>1, <1>5, <1>8, ArtifactsStay
  <2>. QED  BY <1>1, <1>5, <1>6, <2>1 DEF TypeOK
<1>10. \A s \in DOMAIN runs' : s # r => runs'[s].phase \in {"failed", "done"}
  BY <1>7 DEF Dispatch, Quiet
<1>11. runs'[r].phase = "admission" /\ runs'[r].inputs = inputs
  BY <1>4, <1>7
<1>12. OneActive'
  BY <1>10 DEF OneActive, Active
<1>13. InputsHeld'
  BY <1>5, <1>7, <1>11 DEF IInv, InputsHeld, Held, Dispatch
<1>14. ASSUME NEW s \in DOMAIN runs'  PROVE ExecuteInv(s)'
  BY <1>10, <1>11 DEF ExecuteInv
<1>15. DeployedInv'
  BY <1>1, <1>5, <1>8, DeployedStays DEF IInv
<1>. QED  BY <1>5, <1>9, <1>12, <1>13, <1>14, <1>15 DEF IInv, TornByItsOwn

LEMMA AdmitInv ==
  ASSUME IInv, NEW r \in DOMAIN runs, Admit(r)
  PROVE  IInv'
<1>1. TypeOK /\ runs[r] \in RunRecord /\ r \in Nat
  BY RunsTyped DEF IInv
<1>2. UNCHANGED <<tip, contract, ran, lease, deployed, lapsed, torn, misplaced>> /\ Active(r)
  BY DEF Admit, Active
<1>3. RunStep(r) /\ runs'[r].phase \in {"revalidate", "failed"}
  BY <1>1, MoveStep, FailStep DEF Admit, Phases, Ended
<1>4. RanKept
  BY <1>2 DEF RanKept
<1>5. AuthoritiesKept /\ StoreKept /\ (\A name \in DOMAIN store : Artifact(name))'
  <2>1. CASE UNCHANGED store
    BY <1>1, <1>2, <1>4, <2>1, ArtifactsStay DEF AuthoritiesKept, StoreKept, Held
  <2>2. CASE store' # store
    <3> DEFINE ev == [k \in Kinds |-> store[<<k, runs[r].inputs[k]>>]]
               so == [commit |-> runs[r].commit, run |-> r]
               re == Receipt(r, runs[r].attempt, runs[r].commit, ev, so)
    <3>0. Save(AdmissionName(r, runs[r].attempt), [evidence |-> ev, sources |-> so, receipt |-> re])
      BY <2>2 DEF Admit
    <3> HIDE DEF ev, so, re
    <3>a. PICK a \in Nat : a = runs[r].attempt
      BY <1>1 DEF RunRecord
    <3>1. PICK evidence, sources, receipt :
            /\ evidence = [k \in Kinds |-> store[<<k, runs[r].inputs[k]>>]]
            /\ sources = [commit |-> runs[r].commit, run |-> r]
            /\ receipt = Receipt(r, runs[r].attempt, runs[r].commit, evidence, sources)
            /\ Save(AdmissionName(r, a), [evidence |-> evidence, sources |-> sources, receipt |-> receipt])
      BY <3>0, <3>a DEF ev, so, re
    <3>2. ASSUME NEW k \in Kinds  PROVE Genuine(k, evidence[k]) /\ evidence[k] \in EvidenceRecord
      <4>1. Artifact(<<k, runs[r].inputs[k]>>)
        BY <1>1 DEF IInv, InputsHeld, Held, TypeOK
      <4>2. \A s, b : <<k, runs[r].inputs[k]>> # AdmissionName(s, b) /\ <<k, runs[r].inputs[k]>> # AuthorityName(s, b)
        BY <1>1, NamesDiffer DEF RunRecord
      <4>3. Genuine(k, store[<<k, runs[r].inputs[k]>>])
        BY <4>1, <4>2 DEF Artifact
      <4>. QED  BY <1>1, <3>1, <4>3, RanTyped DEF Genuine
    <3>3. evidence \in [Kinds -> EvidenceRecord]
      BY <3>1, <3>2
    <3>4. sources \in SourcesRecord /\ receipt \in ReceiptRecord
      BY <1>1, <3>1, <3>a, <3>3 DEF SourcesRecord, ReceiptRecord, Receipt, RunRecord
    <3>5. \A k \in Kinds : Genuine(k, evidence[k])'
      BY <1>2, <3>2 DEF Genuine
    <3>6. store'[AdmissionName(r, a)] = [evidence |-> evidence, sources |-> sources, receipt |-> receipt]
      BY <3>1 DEF Save, Put
    <3>7. Artifact(AdmissionName(r, a))'
      BY <1>1, <3>3, <3>4, <3>5, <3>6 DEF Artifact, AdmissionRecord, Genuine
    <3>8. AuthoritiesKept
      BY <1>2, <3>1, NamesDiffer, SavedElsewhere
    <3>. QED  BY <1>1, <1>4, <3>1, <3>7, <3>8, ArtifactsSaved
  <2>. QED  BY <2>1, <2>2
<1>6. TypeOK'
  BY <1>1, <1>2, <1>3, <1>5 DEF TypeOK, RunStep
<1>7. /\ OneActive' /\ InputsHeld' /\ RunsKept
      /\ \A s \in DOMAIN runs' : s # r => ExecuteInv(s)'
  BY <1>2, <1>3, <1>5, ActiveStep
<1>8. ExecuteInv(r)'
  BY <1>3 DEF ExecuteInv
<1>9. DeployedInv'
  BY <1>1, <1>2, <1>4, <1>5, <1>7, DeployedStays DEF IInv
<1>. QED  BY <1>2, <1>6, <1>7, <1>8, <1>9 DEF IInv, TornByItsOwn

\* A step that leaves the artifacts alone.
LEMMA Untouched ==
  ASSUME TypeOK, UNCHANGED <<store, ran, misplaced>>
  PROVE  /\ RanKept /\ AuthoritiesKept /\ StoreKept
         /\ (\A name \in DOMAIN store : Artifact(name))'
BY ArtifactsStay DEF RanKept, AuthoritiesKept, StoreKept, Held

LeaseType == [owner : Nat \X Nat, bound : AuthorityRecord \cup {None}]
TornType == [deployment : DeploymentRecord, authority : AuthorityRecord, root : Nat, lapsed : BOOLEAN]

\* A step of a run that goes on to no step of its execute job.
LEMMA MoveOnInv ==
  ASSUME IInv, NEW r \in DOMAIN runs, Active(r), RunStep(r),
         runs'[r].phase \notin {"plan", "bind", "apply"},
         UNCHANGED <<tip, contract, ran, store, misplaced>>,
         lease' \in LeaseType, deployed' \in DeploymentRecord \cup {None}, lapsed' \in BOOLEAN,
         torn' \subseteq TornType,
         RunsKept => DeployedInv', TornByItsOwn'
  PROVE  IInv'
<1>1. TypeOK
  BY DEF IInv
<1>2. RanKept /\ AuthoritiesKept /\ StoreKept /\ (\A name \in DOMAIN store : Artifact(name))'
  BY <1>1, Untouched
<1>3. TypeOK'
  BY <1>1, <1>2 DEF TypeOK, RunStep, LeaseType, TornType
<1>4. /\ OneActive' /\ InputsHeld' /\ RunsKept
      /\ \A s \in DOMAIN runs' : s # r => ExecuteInv(s)'
  BY <1>2, ActiveStep
<1>5. ExecuteInv(r)'
  BY DEF ExecuteInv
<1>. QED  BY <1>3, <1>4, <1>5 DEF IInv

LEMMA FailsInv ==
  ASSUME IInv, NEW r \in DOMAIN runs, ExecuteFails(r) \/ TeardownFails(r)
  PROVE  IInv'
<1>1. TypeOK
  BY DEF IInv
<1>2. Active(r) /\ UNCHANGED <<tip, contract, ran, store, lease, deployed, lapsed, torn, misplaced>>
  BY DEF ExecuteFails, TeardownFails, Active
<1>3. RunStep(r) /\ runs'[r].phase \in {"teardown", "failed"}
  BY <1>1, FailStep DEF ExecuteFails, TeardownFails, Phases, Ended
<1>4. RanKept /\ AuthoritiesKept /\ TornByItsOwn'
  BY <1>1, <1>2, Untouched DEF IInv, TornByItsOwn
<1>5. RunsKept => DeployedInv'
  BY <1>1, <1>2, <1>4, DeployedStays DEF IInv
<1>. QED  BY <1>1, <1>2, <1>3, <1>4, <1>5, MoveOnInv DEF TypeOK, LeaseType, TornType

\* What is deployed under a lease that nobody holds has lost its own.
LEMMA FreeLapsed ==
  ASSUME IInv, lease = Free, deployed # None
  PROVE  lapsed
<1>1. Free.owner = <<0, 0>>
  BY DEF Free
<1>2. deployed.run > 0
  BY RunsTyped DEF IInv, DeployedInv
<1>. QED  BY <1>1, <1>2 DEF IInv, TypeOK, DeployedInv, OwnLease, Recovery

\* An admission that holds stands on the prerequisites that the run names.
LEMMA AdmittedBased ==
  ASSUME TypeOK, NEW r \in DOMAIN runs, Admitted(r)
  PROVE  Based(r) /\ AdmissionOf(r).receipt \in ReceiptRecord
<1> DEFINE x == AdmissionOf(r)
<1>1. x \in AdmissionRecord /\ \A k \in Kinds : Genuine(k, x.evidence[k])
  BY AdmissionTyped DEF Admitted, AdmissionOf
<1>2. \A k \in Kinds : x.evidence[k].ok /\ IdentityMatches(x.evidence[k], runs[r].inputs[k], runs[r].commit)
  BY DEF Admitted, AdmissionHolds, Admissible, PrerequisitesPass
<1> HIDE DEF x
<1>3. ASSUME NEW k \in Kinds
      PROVE  /\ runs[r].inputs[k] \in DOMAIN ran
             /\ ran[runs[r].inputs[k]] = Evidence(k, runs[r].inputs[k], runs[r].commit, TRUE)
  <2>1. PICK e \in EvidenceRecord : e = x.evidence[k]
    BY <1>1 DEF AdmissionRecord
  <2>0. e.run \in DOMAIN ran /\ e = ran[e.run] /\ e.kind = k
    BY <1>1, <2>1 DEF Genuine
  <2>2. e.run = runs[r].inputs[k] /\ e.commit = runs[r].commit /\ e.ok = TRUE /\ e.kind = k
    BY <1>2, <2>0, <2>1 DEF IdentityMatches, EvidenceRecord
  <2>3. e = Evidence(k, runs[r].inputs[k], runs[r].commit, TRUE)
    BY <2>2 DEF Evidence, EvidenceRecord
  <2>. QED  BY <2>0, <2>2, <2>3
<1>. QED  BY <1>1, <1>3 DEF Based, AdmissionRecord, x

LEMMA AcquireInv ==
  ASSUME IInv, NEW r \in DOMAIN runs, Acquire(r)
  PROVE  IInv'
<1>1. TypeOK /\ runs[r] \in RunRecord /\ r \in Nat
  BY RunsTyped DEF IInv
<1>2. /\ UNCHANGED <<tip, contract, ran, store, deployed, lapsed, torn, misplaced>>
      /\ Active(r) /\ runs[r].phase = "revalidate"
      /\ lease = Free /\ lease' = [owner |-> Owner(r), bound |-> None]
  BY DEF Acquire, Active
<1>3. Based(r) /\ AdmissionOf(r).receipt \in ReceiptRecord
  BY <1>1, AdmittedBased DEF Acquire
<1>4. PICK x \in RunRecord : x = [runs[r] EXCEPT !.phase = "plan", !.disk = AdmissionOf(r).receipt]
  BY <1>1, <1>3 DEF RunRecord, Phases
<1>5. runs' = [runs EXCEPT ![r] = x]
  BY <1>4 DEF Acquire
<1>6. /\ x.commit = runs[r].commit /\ x.inputs = runs[r].inputs /\ x.attempt = runs[r].attempt
      /\ x.phase = "plan" /\ x.disk = AdmissionOf(r).receipt
  BY <1>1, <1>4 DEF RunRecord
<1>7. RunStep(r) /\ runs'[r] = x
  <2>1. runs[r].phase \notin Ended
    BY <1>2 DEF Ended
  <2>. QED  BY <1>1, <1>5, <1>6, <2>1, StepOf
<1>8. RanKept /\ AuthoritiesKept /\ StoreKept /\ (\A name \in DOMAIN store : Artifact(name))'
  BY <1>1, <1>2, Untouched
<1>9. TypeOK'
  <2>1. Owner(r) \in Nat \X Nat
    BY <1>1 DEF Owner, RunRecord
  <2>. QED  BY <1>1, <1>2, <1>7, <1>8, <2>1 DEF TypeOK, RunStep
<1>10. /\ OneActive' /\ InputsHeld' /\ RunsKept
       /\ \A s \in DOMAIN runs' : s # r => ExecuteInv(s)'
  BY <1>2, <1>7, <1>8, ActiveStep
<1>11. ExecuteInv(r)'
  <2>1. Based(r)'
    BY <1>3, <1>6, <1>7, <1>8, BasedStays
  <2>. QED  BY <1>2, <1>3, <1>6, <1>7, <2>1 DEF ExecuteInv, Owner
<1>12. DeployedInv'
  <2> SUFFICES ASSUME deployed # None  PROVE DeployedInv'
    BY <1>2 DEF IInv, DeployedInv
  <2>1. lapsed
    BY <1>2, FreeLapsed
  <2>2. ~OwnLease'
    <3>1. lease'.owner = <<r, runs[r].attempt>>
      BY <1>2 DEF Owner
    <3>2. ~(deployed.run = r /\ deployed.attempt = runs[r].attempt)
      BY <1>2 DEF IInv, DeployedInv, Ended
    <3>. QED  BY <1>2, <3>1, <3>2 DEF OwnLease
  <2>. QED  BY <1>2, <1>8, <1>10, <2>1, <2>2, DeployedLapsed DEF IInv
<1>. QED  BY <1>2, <1>9, <1>10, <1>11, <1>12 DEF IInv, TornByItsOwn

LEMMA PackageType ==
  ASSUME TypeOK, NEW r \in DOMAIN runs, runs[r].disk \in ReceiptRecord
  PROVE  /\ PackageOf(r) \in PackageRecord
         /\ PackageOf(r).authority \in AuthorityRecord
         /\ PackageOf(r).authority.run = r
         /\ PackageOf(r).authority.attempt = runs[r].attempt
         /\ PackageOf(r).authority.commit = runs[r].commit
<1>1. runs[r] \in RunRecord /\ r \in Nat
  BY RunsTyped
<1>2. runs[r].attempt \in Nat /\ runs[r].commit \in Nat
  BY <1>1 DEF RunRecord
<1>3. <<r, runs[r].attempt>> \in Nat \X Nat
  BY <1>1, <1>2
<1> DEFINE x == Authority(r, runs[r].attempt, runs[r].commit, runs[r].commit, runs[r].disk,
                          <<r, runs[r].attempt>>, <<r, runs[r].attempt>>)
<1>4. x \in AuthorityRecord
  BY <1>1, <1>2, <1>3 DEF Authority, AuthorityRecord
<1>5. x.run = r /\ x.attempt = runs[r].attempt /\ x.commit = runs[r].commit
  BY DEF Authority
<1> HIDE DEF x
<1>6. PackageOf(r) = [authority |-> x, admission |-> runs[r].disk, validation |-> <<r, runs[r].attempt>>,
                      digest |-> [authority |-> x, run |-> r, attempt |-> runs[r].attempt]]
  BY DEF PackageOf, AuthorityPackage, x
<1>. QED  BY <1>1, <1>2, <1>3, <1>4, <1>5, <1>6 DEF PackageRecord

LEMMA AuthorizeInv ==
  ASSUME IInv, NEW r \in DOMAIN runs, Authorize(r)
  PROVE  IInv'
<1>1. TypeOK /\ runs[r] \in RunRecord /\ r \in Nat /\ ExecuteInv(r)
  BY RunsTyped DEF IInv
<1>2. UNCHANGED <<tip, contract, ran, lease, deployed, lapsed, torn, misplaced>> /\ Active(r) /\ deployed = None
  BY DEF Authorize, Active
<1>3. RunStep(r) /\ runs'[r].phase = "bind" /\ runs'[r].attempt = runs[r].attempt /\ runs'[r].disk = runs[r].disk
  BY <1>1, MoveStep DEF Authorize, Phases, Ended
<1>4. lease.owner = Owner(r) /\ Based(r) /\ runs[r].disk \in ReceiptRecord
  BY <1>1 DEF ExecuteInv, Authorize
<1>5. PICK a \in Nat, package \in PackageRecord : a = runs[r].attempt /\ package = PackageOf(r)
  BY <1>1, <1>4, PackageType DEF RunRecord
<1>6. Save(AuthorityName(r, a), package) /\ Own(package, r, a, runs[r].commit, package.authority)
  BY <1>5, HoldsOwn DEF Authorize
<1>7. store'[AuthorityName(r, a)] = package /\ AuthorityName(r, a) \in DOMAIN store'
  BY <1>6 DEF Save, Put
<1>8. Artifact(AuthorityName(r, a))'
  BY <1>1, <1>5, <1>7 DEF Artifact
<1>9. RanKept
  BY <1>2 DEF RanKept
<1>10. StoreKept /\ (\A name \in DOMAIN store : Artifact(name))'
  BY <1>1, <1>6, <1>8, <1>9, ArtifactsSaved
<1>11. TypeOK'
  BY <1>1, <1>2, <1>3, <1>10 DEF TypeOK, RunStep
<1>12. /\ OneActive' /\ InputsHeld'
       /\ \A s \in DOMAIN runs' : s # r => ExecuteInv(s)'
  BY <1>2, <1>3, <1>10, ActiveStep
<1>13. ExecuteInv(r)'
  <2>1. Based(r)'
    BY <1>3, <1>4, <1>9, BasedStays DEF RunStep, Onward
  <2>2. PackageOf(r)' = package
    BY <1>3, <1>5 DEF PackageOf, RunStep, Onward
  <2>3. Recoverable(r, runs[r].attempt, runs[r].commit, PackageOf(r).authority)'
    BY <1>3, <1>5, <1>6, <1>7, <2>2 DEF Recoverable, Held, RunStep, Onward
  <2>. QED  BY <1>2, <1>3, <1>4, <2>1, <2>3 DEF ExecuteInv, Owner
<1>14. DeployedInv'
  BY <1>2 DEF IInv, DeployedInv
<1>. QED  BY <1>2, <1>11, <1>12, <1>13, <1>14 DEF IInv, TornByItsOwn

LEMMA BindInv ==
  ASSUME IInv, NEW r \in DOMAIN runs, Bind(r)
  PROVE  IInv'
<1>1. TypeOK /\ runs[r] \in RunRecord /\ r \in Nat /\ ExecuteInv(r)
  BY RunsTyped DEF IInv
<1>2. /\ UNCHANGED <<tip, contract, ran, store, deployed, lapsed, torn, misplaced>> /\ Active(r)
      /\ lease' = [lease EXCEPT !.bound = PackageOf(r).authority]
  BY DEF Bind, Active
<1>3. RunStep(r) /\ runs'[r].phase = "apply" /\ runs'[r].attempt = runs[r].attempt /\ runs'[r].disk = runs[r].disk
  BY <1>1, MoveStep DEF Bind, Phases, Ended
<1>4. /\ lease.owner = Owner(r) /\ Based(r) /\ runs[r].disk \in ReceiptRecord /\ deployed = None
      /\ Recoverable(r, runs[r].attempt, runs[r].commit, PackageOf(r).authority)
  BY <1>1 DEF ExecuteInv, Bind
<1>5. PICK a \in Nat, c \in Nat, authority \in AuthorityRecord :
         a = runs[r].attempt /\ c = runs[r].commit /\ authority = PackageOf(r).authority
  BY <1>1, <1>4, PackageType DEF RunRecord
<1>6. RanKept /\ AuthoritiesKept /\ StoreKept /\ (\A name \in DOMAIN store : Artifact(name))'
  BY <1>1, <1>2, Untouched
<1>7. lease'.owner = lease.owner /\ lease'.bound = authority /\ lease' \in LeaseType
  BY <1>1, <1>2, <1>5 DEF TypeOK, LeaseType
<1>8. TypeOK'
  BY <1>1, <1>2, <1>3, <1>6, <1>7 DEF TypeOK, RunStep, LeaseType
<1>9. /\ OneActive' /\ InputsHeld'
      /\ \A s \in DOMAIN runs' : s # r => ExecuteInv(s)'
  BY <1>2, <1>3, <1>6, ActiveStep
<1>10. ExecuteInv(r)'
  <2>1. Based(r)'
    BY <1>3, <1>4, <1>6, BasedStays DEF RunStep, Onward
  <2>2. PackageOf(r)' = PackageOf(r) /\ Owner(r)' = Owner(r)
    BY <1>3 DEF PackageOf, RunStep, Onward, Owner
  <2>3. Recoverable(r, a, c, authority)'
    BY <1>4, <1>5, <1>6, RecoverableStays
  <2>4. Recoverable(r, runs[r].attempt, runs[r].commit, PackageOf(r).authority)'
    BY <1>3, <1>5, <2>2, <2>3 DEF Recoverable, Held, RunStep, Onward
  <2>. QED  BY <1>2, <1>3, <1>4, <1>5, <1>7, <2>1, <2>2, <2>4 DEF ExecuteInv
<1>11. DeployedInv'
  BY <1>2, <1>4 DEF IInv, DeployedInv
<1>. QED  BY <1>2, <1>8, <1>9, <1>10, <1>11 DEF IInv, TornByItsOwn

LEMMA ApplyInv ==
  ASSUME IInv, NEW r \in DOMAIN runs, NEW failed \in BOOLEAN, Apply(r, failed)
  PROVE  IInv'
<1>1. TypeOK /\ runs[r] \in RunRecord /\ r \in Nat /\ r > 0 /\ ExecuteInv(r)
  BY RunsTyped DEF IInv
<1>2. /\ UNCHANGED <<tip, contract, ran, store, lease, lapsed, torn, misplaced>> /\ Active(r)
      /\ deployed' = [run |-> r, attempt |-> runs[r].attempt, commit |-> runs[r].commit]
  BY DEF Apply, Active
<1>3. RunStep(r) /\ runs'[r].phase = "teardown" /\ runs'[r].attempt = runs[r].attempt
  BY <1>1, MoveStep, FailStep DEF Apply, Phases, Ended
<1>4. /\ lease.owner = Owner(r) /\ Based(r) /\ runs[r].disk \in ReceiptRecord
      /\ Recoverable(r, runs[r].attempt, runs[r].commit, PackageOf(r).authority)
      /\ lease.bound = PackageOf(r).authority
  BY <1>1 DEF ExecuteInv, Apply
<1>5. PICK a \in Nat, c \in Nat, authority \in AuthorityRecord :
         a = runs[r].attempt /\ c = runs[r].commit /\ authority = PackageOf(r).authority
  BY <1>1, <1>4, PackageType DEF RunRecord
<1>6. RanKept /\ AuthoritiesKept
  BY <1>1, <1>2, Untouched
<1>7. authority.run = r /\ authority.attempt = a /\ authority.commit = c
  BY <1>1, <1>4, <1>5, PackageType
<1>8. authority # None
  BY DEF AuthorityRecord, None
<1>9. Based(r)'
  BY <1>3, <1>4, <1>6, BasedStays DEF RunStep, Onward
<1>10. Recoverable(r, a, c, authority)'
  BY <1>4, <1>5, <1>6, RecoverableStays
<1>11. /\ deployed'.run = r /\ deployed'.attempt = a /\ deployed'.commit = c
       /\ deployed' \in DeploymentRecord
       /\ lease'.owner = <<r, a>> /\ lease'.bound = authority
       /\ r \in DOMAIN runs' /\ runs'[r].commit = c
  BY <1>1, <1>2, <1>3, <1>4, <1>5 DEF DeploymentRecord, Owner, RunStep, Onward
<1>12. DeployedInv'
  <2>1. ~lapsed' /\ deployed' # None
    BY <1>1, <1>2 DEF IInv, DeployedInv, ExecuteInv, Apply, None
  <2>2. runs'[r].attempt = a /\ runs'[r].phase \in Ended
    BY <1>3, <1>5 DEF Ended
  <2>3. OwnLease'
    BY <1>11 DEF OwnLease
  <2>. QED  BY <1>7, <1>8, <1>9, <1>10, <1>11, <2>1, <2>2, <2>3 DEF DeployedInv, Recoverable
<1>13. TornByItsOwn'
  BY <1>2 DEF IInv, TornByItsOwn
<1>. QED  BY <1>1, <1>2, <1>3, <1>11, <1>12, <1>13, MoveOnInv DEF TypeOK, LeaseType, TornType

\* A deployment destroyed under an authority of its own run, attempt and source, or after
\* its lease lapsed.
LEMMA DestroyTorn ==
  ASSUME TypeOK, TornByItsOwn, deployed # None, NEW authority \in AuthorityRecord, NEW root \in Nat,
         Destroy(authority, root),
         ~lapsed => /\ authority.run = deployed.run /\ authority.attempt = deployed.attempt
                    /\ authority.commit = deployed.commit /\ root = deployed.commit
  PROVE  TornByItsOwn' /\ torn' \subseteq TornType /\ lapsed' \in BOOLEAN
<1>1. deployed \in DeploymentRecord /\ lapsed \in BOOLEAN
  BY DEF TypeOK
<1>2. ~lapsed => /\ root = deployed.commit
                 /\ deployed = [run |-> authority.run, attempt |-> authority.attempt, commit |-> authority.commit]
  BY <1>1 DEF DeploymentRecord
<1> DEFINE t == [deployment |-> deployed, authority |-> authority, root |-> root, lapsed |-> lapsed]
<1>3. t \in TornType
  BY <1>1 DEF TornType
<1>4. torn' = torn \cup {t} /\ lapsed' = FALSE
  BY DEF Destroy
<1>5. TornByItsOwn'
  BY <1>2, <1>4 DEF TornByItsOwn
<1>. QED  BY <1>3, <1>4, <1>5 DEF TornType, TypeOK

LEMMA TeardownInv ==
  ASSUME IInv, NEW r \in DOMAIN runs, Teardown(r)
  PROVE  IInv'
<1>1. TypeOK /\ runs[r] \in RunRecord /\ r \in Nat /\ r > 0 /\ DeployedInv /\ TornByItsOwn
  BY RunsTyped DEF IInv
<1>2. UNCHANGED <<tip, contract, ran, store, misplaced>> /\ Active(r) /\ lease' = Free /\ deployed' = None
  BY DEF Teardown, Active, Destroy
<1>3. RunStep(r) /\ runs'[r].phase = "done"
  BY <1>1, MoveStep DEF Teardown, Phases, Ended
<1> DEFINE name == AuthorityName(r, runs[r].attempt)
<1>4. PICK authority \in AuthorityRecord : authority = store[name].authority
  BY <1>1, PackageTyped DEF Teardown, AuthorityPresent, PackageRecord
<1>5. authority.run = r /\ authority.attempt = runs[r].attempt /\ authority.commit = runs[r].commit
  BY <1>4, HoldsOwn, OwnAuthority DEF Teardown, AuthorityPresent
<1>6. lease.owner = <<r, runs[r].attempt>>
  BY DEF Teardown, AuthorityPresent, LeaseNames, Owner
<1>7. /\ deployed # None
      /\ ~lapsed => deployed.run = r /\ deployed.attempt = runs[r].attempt /\ deployed.commit = runs[r].commit
  BY <1>1, <1>6 DEF Teardown, DeployedInv, OwnLease, Recovery
<1>8. TornByItsOwn' /\ torn' \subseteq TornType /\ lapsed' \in BOOLEAN
  <2>1. Destroy(authority, runs[r].commit) /\ runs[r].commit \in Nat
    BY <1>1, <1>4 DEF Teardown, RunRecord
  <2>. QED  BY <1>1, <1>5, <1>7, <2>1, DestroyTorn
<1>9. lease' \in LeaseType /\ DeployedInv'
  BY <1>2 DEF Teardown, Destroy, LeaseType, Free, DeployedInv
<1>. QED  BY <1>2, <1>3, <1>8, <1>9, MoveOnInv

LEMMA NoDeploymentInv ==
  ASSUME IInv, NEW r \in DOMAIN runs, NoDeployment(r)
  PROVE  IInv'
<1>1. TypeOK
  BY DEF IInv
<1>2. /\ UNCHANGED <<tip, contract, ran, store, deployed, lapsed, torn, misplaced>> /\ Active(r)
      /\ deployed = None /\ lease' \in {lease, Free}
  BY DEF NoDeployment, Active
<1>3. RunStep(r) /\ runs'[r].phase \in {"done", "failed"}
  BY <1>1, MoveStep, FailStep DEF NoDeployment, Phases, Ended
<1>4. lease' \in LeaseType /\ DeployedInv' /\ TornByItsOwn'
  BY <1>1, <1>2 DEF IInv, TypeOK, LeaseType, Free, DeployedInv, TornByItsOwn
<1>. QED  BY <1>1, <1>2, <1>3, <1>4, MoveOnInv DEF TypeOK, TornType

LEMMA RerunInv ==
  ASSUME IInv, NEW r \in DOMAIN runs, NEW phase \in {"admission", "revalidate", "teardown"}, Rerun(r, phase)
  PROVE  IInv'
<1>1. TypeOK /\ runs[r] \in RunRecord
  BY RunsTyped DEF IInv
<1>2. UNCHANGED <<tip, contract, ran, store, lease, deployed, lapsed, torn, misplaced>> /\ Quiet
  BY DEF Rerun
<1>3. PICK x \in RunRecord : x = [runs[r] EXCEPT !.attempt = runs[r].attempt + 1, !.phase = phase, !.failed = {},
                                               !.disk = None]
  <2>1. runs[r].attempt + 1 \in Nat /\ phase \in Phases
    BY <1>1 DEF RunRecord, Phases
  <2>2. {} \in SUBSET {"admission", "execute", "teardown"} /\ None \in ReceiptRecord \cup {None}
    OBVIOUS
  <2>. QED  BY <1>1, <2>1, <2>2 DEF RunRecord
<1>4. runs' = [runs EXCEPT ![r] = x] /\ x.phase = phase /\ x.commit = runs[r].commit /\ x.inputs = runs[r].inputs
  BY <1>1, <1>3 DEF Rerun, RunRecord
<1>5. RunStep(r) /\ runs'[r].phase = phase
  <2>1. PICK b \in Nat : b = runs[r].attempt
    BY <1>1 DEF RunRecord
  <2>2. x.attempt = b + 1 /\ x.attempt # b /\ x.attempt >= b /\ x.attempt \in Nat
    BY <1>1, <1>3, <2>1 DEF RunRecord
  <2>. QED  BY <1>1, <1>4, <2>1, <2>2 DEF RunStep, Onward, TypeOK
<1>6. RanKept /\ AuthoritiesKept /\ StoreKept /\ (\A name \in DOMAIN store : Artifact(name))'
  BY <1>1, <1>2, Untouched
<1>7. RunsKept /\ DOMAIN runs' = DOMAIN runs
  BY <1>1, <1>5, RunStepKeeps DEF RunStep
<1>8. \A s \in DOMAIN runs' : s # r => runs'[s].phase \in {"failed", "done"}
  BY <1>2, <1>5 DEF Quiet, RunStep
<1>9. TypeOK'
  BY <1>1, <1>2, <1>5, <1>6 DEF TypeOK, RunStep
<1>10. OneActive' /\ InputsHeld' /\ DeployedInv'
  BY <1>1, <1>2, <1>6, <1>7, <1>8, InputsStay, DeployedStays DEF IInv, OneActive, Active
<1>11. ASSUME NEW s \in DOMAIN runs'  PROVE ExecuteInv(s)'
  BY <1>5, <1>8 DEF ExecuteInv
<1>. QED  BY <1>2, <1>9, <1>10, <1>11 DEF IInv, TornByItsOwn

LEMMA RecoverInv ==
  ASSUME IInv, NEW r \in DOMAIN runs, NEW attempt \in 1..MaxAttempt, NEW commit \in 1..tip,
         NEW completes \in BOOLEAN, Recover(r, attempt, commit, completes)
  PROVE  IInv'
<1>1. TypeOK /\ r \in Nat /\ r > 0 /\ DeployedInv /\ TornByItsOwn /\ commit \in Nat /\ attempt \in Nat
  <2>1. TypeOK /\ DeployedInv /\ TornByItsOwn
    BY DEF IInv
  <2>2. tip \in Nat /\ MaxAttempt \in Nat
    BY <2>1, AuthorityAssumption DEF TypeOK, Commits
  <2>. QED  BY <2>1, <2>2, RunsTyped
<1>2. UNCHANGED <<tip, contract, ran, runs, store, misplaced>> /\ Quiet /\ RecoveryAccepts(r, attempt, commit)
  BY DEF Recover
<1>3. PICK authority \in AuthorityRecord : authority = store[AuthorityName(r, attempt)].authority
  BY <1>1, <1>2, PackageTyped DEF RecoveryAccepts, PackageRecord
<1>4. authority.run = r /\ authority.attempt = attempt /\ authority.commit = commit
  BY <1>2, <1>3, HoldsOwn, OwnAuthority DEF RecoveryAccepts
<1>5. RanKept /\ AuthoritiesKept /\ StoreKept /\ (\A name \in DOMAIN store : Artifact(name))'
  BY <1>1, <1>2, Untouched
<1>6. ASSUME deployed # None, ~lapsed
      PROVE  deployed.run = r /\ deployed.attempt = attempt /\ deployed.commit = commit
  <2>1. lease.owner = <<r, attempt>> /\ lease.bound = authority
    BY <1>2, <1>3, <1>6, FreeLapsed DEF RecoveryAccepts, LeaseNames
  <2>. QED  BY <1>1, <1>4, <1>6, <2>1 DEF DeployedInv, OwnLease, Recovery
<1>7. /\ torn' \subseteq TornType /\ TornByItsOwn' /\ lapsed' \in BOOLEAN
      /\ deployed' \in DeploymentRecord \cup {None}
      /\ UNCHANGED <<deployed, lapsed>> \/ (deployed' = None /\ lapsed' = FALSE)
  <2>1. CASE UNCHANGED <<deployed, lapsed, torn>>
    BY <1>1, <2>1 DEF TypeOK, TornType, TornByItsOwn
  <2>2. CASE deployed # None /\ Destroy(authority, commit)
    BY <1>1, <1>4, <1>6, <2>2, DestroyTorn DEF Destroy
  <2>. QED  BY <1>3, <2>1, <2>2 DEF Recover
<1>8. lease' \in LeaseType
  BY <1>3 DEF Recover, LeaseType, Free, Recovery
<1>9. TypeOK'
  BY <1>1, <1>2, <1>5, <1>7, <1>8 DEF TypeOK, LeaseType, TornType
<1>10. OneActive' /\ InputsHeld'
  BY <1>2 DEF IInv, OneActive, Active, InputsHeld, Held
<1>11. ASSUME NEW s \in DOMAIN runs'  PROVE ExecuteInv(s)'
  BY <1>2 DEF Quiet, ExecuteInv
<1>12. DeployedInv'
  <2>1. CASE deployed' = None /\ ~lapsed'
    BY <2>1 DEF DeployedInv
  <2>2. CASE deployed' # None
    <3>1. UNCHANGED <<deployed, lapsed>> /\ lease'.owner = Recovery
      BY <1>7, <2>2 DEF Recover, Destroy
    <3>2. deployed.run > 0
      BY <1>1, <2>2, <3>1, RunsTyped DEF DeployedInv
    <3>3. ~OwnLease' /\ RunsKept
      BY <1>1, <1>2, <3>1, <3>2, RunsStay DEF OwnLease, Recovery
    <3>. QED  BY <1>1, <1>5, <2>2, <3>1, <3>3, DeployedLapsed
  <2>. QED  BY <1>1, <1>7, <2>1, <2>2 DEF DeployedInv
<1>. QED  BY <1>7, <1>9, <1>10, <1>11, <1>12 DEF IInv

LEMMA TimeToLiveInv ==
  ASSUME IInv, TimeToLive
  PROVE  IInv'
<1>1. TypeOK
  BY DEF IInv
<1>2. /\ UNCHANGED <<tip, contract, ran, runs, store, deployed, torn, misplaced>>
      /\ lease' = Free /\ lapsed' = (deployed # None)
  BY DEF TimeToLive
<1>3. RanKept /\ AuthoritiesKept /\ StoreKept /\ (\A name \in DOMAIN store : Artifact(name))'
  BY <1>1, <1>2, Untouched
<1>4. TypeOK'
  <2>1. lease' \in LeaseType /\ lapsed' \in BOOLEAN
    BY <1>2 DEF LeaseType, Free
  <2>. QED  BY <1>1, <1>2, <1>3, <2>1 DEF TypeOK, LeaseType
<1>5. OneActive' /\ InputsHeld' /\ TornByItsOwn'
  BY <1>2 DEF IInv, OneActive, Active, InputsHeld, Held, TornByItsOwn
<1>6. ASSUME NEW r \in DOMAIN runs'  PROVE ExecuteInv(r)'
  <2>1. ExecuteInv(r) /\ r \in DOMAIN runs
    BY <1>2 DEF IInv
  <2>2. runs'[r].phase \notin {"plan", "bind", "apply"}
    BY <1>2, <2>1 DEF TimeToLive, ExecuteInv
  <2>. QED  BY <2>2 DEF ExecuteInv
<1>7. DeployedInv'
  <2>1. CASE deployed = None
    BY <1>2, <2>1 DEF DeployedInv
  <2>2. CASE deployed # None
    <3>1. lease'.owner = <<0, 0>> /\ deployed.run > 0
      BY <1>1, <1>2, <2>2, RunsTyped DEF Free, IInv, DeployedInv
    <3>2. ~OwnLease' /\ RunsKept
      BY <1>1, <1>2, <3>1, RunsStay DEF OwnLease
    <3>. QED  BY <1>1, <1>2, <1>3, <2>2, <3>2, DeployedLapsed DEF IInv
  <2>. QED  BY <2>1, <2>2
<1>. QED  BY <1>4, <1>5, <1>6, <1>7 DEF IInv

LEMMA InitInv == Init => IInv
<1> SUFFICES ASSUME Init  PROVE IInv
  OBVIOUS
<1>1. DOMAIN ran = {} /\ DOMAIN runs = {} /\ DOMAIN store = {} /\ deployed = None /\ lapsed = FALSE /\ torn = {}
  BY DEF Init
<1>2. ran \in [1..0 -> EvidenceRecord] /\ runs \in [1..0 -> RunRecord]
  BY <1>1 DEF Init
<1>3. TypeOK
  <2>1. tip \in Commits /\ contract \in [Commits -> Nat]
    BY AuthorityAssumption DEF Init, Commits
  <2>2. lease \in [owner : Nat \X Nat, bound : AuthorityRecord \cup {None}] /\ misplaced \in Nat
    BY DEF Init, Free
  <2>. QED  BY <1>1, <1>2, <2>1, <2>2 DEF TypeOK
<1>. QED  BY <1>1, <1>3 DEF IInv, OneActive, InputsHeld, DeployedInv, TornByItsOwn

LEMMA StutterInv ==
  ASSUME IInv, UNCHANGED vars
  PROVE  IInv'
<1>1. UNCHANGED <<tip, contract, ran, runs, store, lease, deployed, lapsed, torn, misplaced>>
  BY DEF vars
<1>2. TypeOK
  BY DEF IInv
<1>3. RanKept /\ AuthoritiesKept /\ StoreKept /\ (\A name \in DOMAIN store : Artifact(name))'
  BY <1>1, <1>2, Untouched
<1>4. TypeOK'
  BY <1>1, <1>2, <1>3 DEF TypeOK
<1>. QED  BY <1>1, <1>3, <1>4, Frame DEF IInv

LEMMA StepInv ==
  ASSUME IInv, [Next]_vars
  PROVE  IInv'
<1>1. CASE Next
  <2>1. ASSUME NEW r \in DOMAIN runs,
               \/ Admit(r) \/ Acquire(r) \/ Authorize(r) \/ Bind(r) \/ ExecuteFails(r)
               \/ \E failed \in BOOLEAN : Apply(r, failed)
               \/ Teardown(r) \/ NoDeployment(r) \/ TeardownFails(r)
               \/ \E phase \in {"admission", "revalidate", "teardown"} : Rerun(r, phase)
               \/ \E a \in 1..MaxAttempt, c \in 1..tip, done \in BOOLEAN : Recover(r, a, c, done)
        PROVE  IInv'
    BY <2>1, AdmitInv, AcquireInv, AuthorizeInv, BindInv, FailsInv, ApplyInv, TeardownInv, NoDeploymentInv,
       RerunInv, RecoverInv
  <2>. QED  BY <1>1, <2>1, MergeInv, PrerequisiteInv, DispatchInv, TimeToLiveInv, MisplaceInv DEF Next
<1>2. CASE UNCHANGED vars
  BY <1>2, StutterInv
<1>. QED  BY <1>1, <1>2

-----------------------------------------------------------------------------
(* Theorems *)

\* The inductive invariant: what the concurrency group, the execute job's steps and the
\* lease establish about the documents, whatever was dispatched and misplaced.
THEOREM AuthorityInvariance == Spec => []IInv
<1>1. IInv /\ [Next]_vars => IInv'
  BY StepInv
<1>. QED  BY <1>1, InitInv, PTL DEF Spec

\* Only current-source evidence admits a deployment: the prerequisites that its run names
\* ran and passed at its own commit (build_prerequisite_receipt).
THEOREM CurrentEvidenceTheorem == Spec => []DeployedOnCurrentEvidence
<1>1. IInv => DeployedOnCurrentEvidence
  BY DEF IInv, DeployedInv, Based, DeployedOnCurrentEvidence
<1>. QED  BY <1>1, AuthorityInvariance, PTL

\* Teardown and recovery destroy a deployment under the authority of its own attempt and
\* from its own source (validate_authority, verify_fields), unless the table has given up
\* its lease.
THEOREM TornTheorem == Spec => []TornByItsOwn
<1>1. IInv => TornByItsOwn
  BY DEF IInv
<1>. QED  BY <1>1, AuthorityInvariance, PTL

\* What a failed attempt left deployed is accepted by the recovery under its run id,
\* attempt and source, while its lease stands or no lease does, as long as nothing was
\* misplaced and the contract is the same.
THEOREM RecoveryTheorem == Spec => []RecoveryOpen
<1> DEFINE p == store[AuthorityName(deployed.run, deployed.attempt)]
<1>1. ASSUME IInv, misplaced = 0, deployed # None, FrozenContract(tip, deployed.commit),
             NEW authority, Recoverable(deployed.run, deployed.attempt, deployed.commit, authority)
      PROVE  /\ Held(AuthorityName(deployed.run, deployed.attempt))
             /\ AuthorityHolds(p, deployed.run, deployed.attempt, deployed.commit, tip)
             /\ p.authority = authority
  <2>1. /\ Held(AuthorityName(deployed.run, deployed.attempt))
        /\ Own(p, deployed.run, deployed.attempt, deployed.commit, authority)
    BY <1>1 DEF Recoverable
  <2>2. p.authority = authority
    BY <2>1 DEF Own
  <2>. QED  BY <1>1, <2>1, <2>2, HoldsOwn
<1>2. ASSUME IInv, misplaced = 0, deployed # None, FrozenContract(tip, deployed.commit),
             lease = Free \/ lease.owner = <<deployed.run, deployed.attempt>>
      PROVE  RecoveryAccepts(deployed.run, deployed.attempt, deployed.commit)
  <2>1. CASE lease = Free
    <3>1. PICK authority : Recoverable(deployed.run, deployed.attempt, deployed.commit, authority)
      BY <1>2 DEF IInv, DeployedInv
    <3>. QED  BY <1>1, <1>2, <2>1, <3>1 DEF RecoveryAccepts
  <2>2. CASE OwnLease
    <3>1. Recoverable(deployed.run, deployed.attempt, deployed.commit, lease.bound)
      BY <1>2, <2>2 DEF IInv, DeployedInv
    <3>. QED  BY <1>1, <1>2, <2>2, <3>1 DEF RecoveryAccepts, LeaseNames, OwnLease
  <2>. QED  BY <1>2, <2>1, <2>2 DEF OwnLease
<1>3. IInv => RecoveryOpen
  BY <1>2 DEF RecoveryOpen
<1>. QED  BY <1>3, AuthorityInvariance, PTL
=============================================================================
