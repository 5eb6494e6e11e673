------------------------ MODULE ObjectIdentityProofs ------------------------
(***************************************************************************)
(* Theorems about ObjectIdentity for any tables, contents, uploads and     *)
(* jobs, and any number of edits, overwrites and tampered manifests.       *)
(***************************************************************************)
EXTENDS ObjectIdentity, TLAPS

-----------------------------------------------------------------------------
(* The inductive invariant *)

\* The versions that a body names exist, ...
InRange(d) == \A t \in Tables : d.objects[t].version \in 1..Len(landing[t])

\* ... hold the bytes of its evidence, ...
Truthful(d) == \A t \in Tables : landing[t][d.objects[t].version] = d.objects[t].bytes

\* ... and the records that it declares.
Declared(d, t) == RowsOf[d.objects[t].bytes] = d.rows[t]

ManifestsInv == \A i \in 1..Len(manifests) : InRange(manifests[i].body)

RegistrationsInv ==
    \A r \in registrations :
        /\ r.version \in 1..Len(manifests)
        /\ manifests[r.version].body = r.digest
        /\ manifests[r.version].identity_digest = r.digest
        /\ InRange(r.digest)
        /\ Truthful(r.digest)
        /\ r.quiet => \A t \in Tables : Declared(r.digest, t)

\* The objects put so far hold what was read; while nobody edits a file, what was read, put and
\* checked is that file.
UploadInv(u) ==
    LET x == upload[u] IN
    /\ x.since <= edits
    /\ x.pc \in {"idle", "check"} => x.table = 1 /\ x.objects = << >>
    /\ x.pc \in {"check", "read", "put", "bind"} => x.proof \in [Tables -> Rows]
    /\ x.pc \in {"read", "put", "bind"} =>
         /\ x.table = Len(x.objects) + 1
         /\ \A i \in 1..Len(x.objects) :
              /\ i \in Tables
              /\ x.objects[i].version \in 1..Len(landing[i])
              /\ landing[i][x.objects[i].version] = x.objects[i].bytes
              /\ x.since = edits => x.objects[i].bytes = file[i]
         /\ x.since = edits => \A t \in Tables : RowsOf[file[t]] = x.proof[t]
    /\ x.pc \in {"read", "put"} => x.table \in Tables
    /\ x.pc = "put" => x.content \in Contents /\ (x.since = edits => x.content = file[x.table])
    /\ x.pc = "bind" => x.table = NTables + 1

\* Spark's key for table t of a generation has a version.
Copied(d, t) == <<d, t>> \in DOMAIN verified /\ verified[<<d, t>>] # << >>

Uses(d, used) ==
    \A use \in used :
        /\ use[2] = d.objects[use[1]].bytes
        /\ RowsOf[use[2]] = d.rows[use[1]]

Refused(x) == \A r \in registrations : ~(r.quiet /\ r.version = x.version /\ r.digest = x.digest)

\* A job past its manifest holds a digest whose versions exist; the tables behind it are copied,
\* hold what was declared, and it read nothing else.
JobInv(j) ==
    LET x == job[j] IN
    /\ x.pc # "idle" => x.version \in 1..Len(manifests)
    /\ x.pc \in {"idle", "manifest"} => x.table = 1 /\ x.used = {}
    /\ x.pc \in {"head", "copy", "digest", "count", "build"} =>
         x.digest \in Body /\ InRange(x.digest) /\ x.table \in Tables
    /\ x.pc \in {"head", "copy", "digest", "count"} =>
         \A t \in Tables : t < x.table => Copied(x.digest, t) /\ Declared(x.digest, t)
    /\ x.pc \in {"copy", "digest", "count"} =>
         landing[x.table][x.digest.objects[x.table].version] = x.digest.objects[x.table].bytes
    /\ x.pc \in {"digest", "count"} => Copied(x.digest, x.table)
    /\ x.pc = "count" => Declared(x.digest, x.table)
    /\ x.pc = "build" => \A t \in Tables : Copied(x.digest, t) /\ Declared(x.digest, t)
    /\ x.pc = "failed" => Refused(x)
    /\ Uses(x.digest, x.used)

IInv ==
    /\ TypeOK
    /\ ManifestsInv
    /\ RegistrationsInv
    /\ VerifiedHoldsEvidence
    /\ \A u \in Uploads : UploadInv(u)
    /\ \A j \in Jobs : JobInv(j)

LEMMA InitIInv == Init => IInv
<1> SUFFICES ASSUME Init PROVE IInv
  OBVIOUS
<1>1. \A u \in Uploads : upload[u] = Idle
  BY DEF Init
<1>2. \A j \in Jobs : job[j] = Waiting
  BY DEF Init
<1>3. Idle \in UploadState /\ Waiting \in JobState
  BY DEF Idle, Waiting, UploadState, JobState
<1>4. TypeOK
  <2>1. proof \in [Tables -> Rows]
    BY DEF Init, Rows
  <2>. QED  BY <1>3, <2>1 DEF Init, TypeOK
<1>5. \A u \in Uploads : UploadInv(u)
  BY <1>1 DEF Init, UploadInv, Idle
<1>6. \A j \in Jobs : JobInv(j)
  BY <1>2 DEF Init, JobInv, Waiting, Uses
<1>. QED
  BY <1>4, <1>5, <1>6 DEF Init, IInv, ManifestsInv, RegistrationsInv, VerifiedHoldsEvidence

-----------------------------------------------------------------------------
(* What a step that is not about a version, an upload or a job leaves true *)

\* No version is lost or changed.
Grown ==
    \A t \in Tables : \A v \in 1..Len(landing[t]) :
        v \in 1..Len(landing'[t]) /\ landing'[t][v] = landing[t][v]

ManifestsGrown ==
    \A i \in 1..Len(manifests) : i \in 1..Len(manifests') /\ manifests'[i] = manifests[i]

VerifiedGrown ==
    \A k \in DOMAIN verified : verified[k] # << >> => k \in DOMAIN verified' /\ verified'[k] # << >>

\* A put adds a version.
LEMMA PutGrows ==
  ASSUME TypeOK, NEW t \in Tables, NEW c \in Contents,
         landing' = [landing EXCEPT ![t] = Append(@, c)]
  PROVE  /\ landing' \in [Tables -> Seq(Contents)]
         /\ Grown
         /\ Len(landing[t]) + 1 \in 1..Len(landing'[t])
         /\ landing'[t][Len(landing[t]) + 1] = c
<1>1. landing[t] \in Seq(Contents)
  BY DEF TypeOK
<1>2. landing'[t] = Append(landing[t], c) /\ \A x \in Tables \ {t} : landing'[x] = landing[x]
  BY DEF TypeOK
<1>3. Append(landing[t], c) \in Seq(Contents)
  BY <1>1
<1>4. landing' \in [Tables -> Seq(Contents)]
  BY <1>3 DEF TypeOK
<1>. QED  BY <1>1, <1>2, <1>4 DEF Grown

LEMMA ElementType ==
  ASSUME NEW S, NEW s \in Seq(S)
  PROVE  DOMAIN s = 1..Len(s) /\ Len(s) \in Nat /\ \A i \in 1..Len(s) : s[i] \in S
  OBVIOUS

LEMMA ManifestType ==
  ASSUME TypeOK
  PROVE  /\ DOMAIN manifests = 1..Len(manifests) /\ DOMAIN manifests \subseteq Nat
         /\ \A i \in 1..Len(manifests) :
              manifests[i].body \in Body /\ manifests[i].identity_digest \in Body
<1>1. manifests \in Seq([body : Body, identity_digest : Body])
  BY DEF TypeOK
<1>2. /\ DOMAIN manifests = 1..Len(manifests) /\ Len(manifests) \in Nat
      /\ \A i \in 1..Len(manifests) : manifests[i] \in [body : Body, identity_digest : Body]
  BY <1>1, ElementType
<1>. QED  BY <1>2

LEMMA BodyKept ==
  ASSUME Grown, NEW d, InRange(d)
  PROVE  InRange(d)' /\ (Truthful(d) => Truthful(d)')
  BY DEF Grown, InRange, Truthful

LEMMA ManifestsKept ==
  ASSUME ManifestsInv, Grown, UNCHANGED manifests
  PROVE  ManifestsInv'
  BY DEF ManifestsInv, Grown, InRange

LEMMA ManifestAdded ==
  ASSUME ManifestsInv, Grown, manifests \in Seq([body : Body, identity_digest : Body]), NEW d, InRange(d),
         Len(manifests') = Len(manifests) + 1,
         \A i \in 1..Len(manifests) : manifests'[i] = manifests[i],
         manifests'[Len(manifests) + 1].body = d
  PROVE  ManifestsInv'
<1>1. InRange(d)'
  BY BodyKept
<1>2. ASSUME NEW i \in 1..Len(manifests), NEW t \in Tables
      PROVE  manifests'[i].body.objects[t].version \in 1..Len(landing'[t])
  <2>1. manifests[i].body.objects[t].version \in 1..Len(landing[t])
    BY DEF ManifestsInv, InRange
  <2>. QED  BY <2>1 DEF Grown
<1>3. ASSUME NEW t \in Tables
      PROVE  manifests'[Len(manifests) + 1].body.objects[t].version \in 1..Len(landing'[t])
  BY <1>1 DEF InRange
<1>4. 1..Len(manifests') = 1..Len(manifests) \cup {Len(manifests) + 1}
  OBVIOUS
<1>. QED  BY <1>2, <1>3, <1>4 DEF ManifestsInv, InRange

LEMMA RegistrationsKept ==
  ASSUME RegistrationsInv, Grown, ManifestsGrown, UNCHANGED registrations
  PROVE  RegistrationsInv'
<1> SUFFICES ASSUME NEW r \in registrations
             PROVE  /\ r.version \in 1..Len(manifests')
                    /\ manifests'[r.version].body = r.digest
                    /\ manifests'[r.version].identity_digest = r.digest
                    /\ InRange(r.digest)'
                    /\ Truthful(r.digest)'
                    /\ r.quiet => \A t \in Tables : Declared(r.digest, t)
  BY DEF RegistrationsInv, Declared
<1>. QED  BY BodyKept DEF RegistrationsInv, ManifestsGrown

\* An upload is not disturbed by the versions, manifests and edits of others.
LEMMA UploadKept ==
  ASSUME TypeOK, NEW u \in Uploads, UploadInv(u), Grown, upload'[u] = upload[u],
         UNCHANGED <<file, edits>> \/ edits' = edits + 1
  PROVE  UploadInv(u)'
<1> DEFINE x == upload[u]
<1>1. x \in UploadState /\ edits \in Nat
  BY DEF TypeOK
<1>2. x.since \in Nat /\ x.since <= edits
  BY <1>1 DEF UploadState, UploadInv
<1>3. CASE UNCHANGED <<file, edits>>
  BY <1>3 DEF UploadInv, Grown
<1>4. CASE edits' = edits + 1
  <2>1. upload'[u].since # edits' /\ upload'[u].since <= edits'
    BY <1>1, <1>2, <1>4
  <2>2. upload[u].pc \in {"read", "put", "bind"} =>
          \A i \in 1..Len(upload[u].objects) :
             /\ i \in Tables
             /\ upload[u].objects[i].version \in 1..Len(landing'[i])
             /\ landing'[i][upload[u].objects[i].version] = upload[u].objects[i].bytes
    BY DEF UploadInv, Grown
  <2>. QED  BY <2>1, <2>2 DEF UploadInv
<1>. QED  BY <1>3, <1>4

\* Nor is a job, by registrations made later than it started.
LEMMA JobKept ==
  ASSUME TypeOK, NEW j \in Jobs, JobInv(j), Grown, ManifestsGrown, VerifiedGrown, job'[j] = job[j],
         \A r \in registrations' : r \in registrations \/ r.version \notin 1..Len(manifests)
  PROVE  JobInv(j)'
<1>1. \A d, t : Copied(d, t) => Copied(d, t)'
  BY DEF Copied, VerifiedGrown
<1>2. job[j].pc # "idle" => job[j].version \in 1..Len(manifests) /\ job[j].version \in 1..Len(manifests')
  BY DEF JobInv, ManifestsGrown
<1>3. job[j].pc = "failed" => Refused(job[j])'
  BY <1>2 DEF JobInv, Refused
<1>4. ASSUME job[j].pc \in {"head", "copy", "digest", "count", "build"}
      PROVE  InRange(job[j].digest)'
  BY <1>4, BodyKept DEF JobInv
<1>5. ASSUME job[j].pc \in {"copy", "digest", "count"}
      PROVE  landing'[job[j].table][job[j].digest.objects[job[j].table].version]
               = job[j].digest.objects[job[j].table].bytes
  BY <1>5 DEF JobInv, Grown, InRange
<1>. QED  BY <1>1, <1>2, <1>3, <1>4, <1>5 DEF JobInv, Declared, Uses

\* A step of the surroundings of uploads and jobs.
LEMMA SurroundingsKept ==
  ASSUME IInv, Grown, ManifestsGrown, UNCHANGED <<registrations, upload, job, verified>>,
         UNCHANGED <<file, edits>> \/ edits' = edits + 1
  PROVE  /\ RegistrationsInv' /\ VerifiedHoldsEvidence'
         /\ \A u \in Uploads : UploadInv(u)'
         /\ \A j \in Jobs : JobInv(j)'
<1>1. VerifiedGrown
  BY DEF VerifiedGrown
<1>2. \A j \in Jobs : JobInv(j)'
  BY <1>1, JobKept DEF IInv
<1>3. \A u \in Uploads : UploadInv(u)'
  BY UploadKept DEF IInv
<1>4. VerifiedHoldsEvidence'
  BY DEF IInv, VerifiedHoldsEvidence
<1>. QED  BY <1>2, <1>3, <1>4, RegistrationsKept DEF IInv

LEMMA SurroundingsStep ==
  ASSUME IInv, EditFile \/ WriteManifest \/ Overwrite \/ Tamper
  PROVE  IInv'
<1>1. TypeOK /\ ManifestsInv /\ RegistrationsInv
  BY DEF IInv
<1>2. ASSUME UNCHANGED landing, UNCHANGED manifests  PROVE Grown /\ ManifestsGrown
  BY <1>2 DEF Grown, ManifestsGrown
<1>3. CASE EditFile
  <2>1. TypeOK'
    BY <1>1, <1>3 DEF TypeOK, EditFile, s3
  <2>2. UNCHANGED <<landing, manifests, registrations, upload, job, verified>> /\ edits' = edits + 1
    BY <1>3 DEF EditFile, s3
  <2>. QED  BY <1>1, <1>2, <2>1, <2>2, SurroundingsKept, ManifestsKept DEF IInv
<1>4. CASE WriteManifest
  <2>1. UNCHANGED <<file, edits, landing, manifests, registrations, upload, job, verified>>
    BY <1>4 DEF WriteManifest, s3
  <2>2. proof' \in [Tables -> Rows]
    BY <1>1, <1>4 DEF TypeOK, WriteManifest, build_manifest, Rows
  <2>3. TypeOK'
    BY <1>1, <2>1, <2>2 DEF TypeOK
  <2>. QED  BY <1>1, <1>2, <2>1, <2>3, SurroundingsKept, ManifestsKept DEF IInv
<1>5. CASE Overwrite
  <2>1. PICK t \in Tables, c \in Contents : landing' = [landing EXCEPT ![t] = Append(@, c)]
    BY <1>5 DEF Overwrite
  <2>2. landing' \in [Tables -> Seq(Contents)] /\ Grown
    BY <1>1, <2>1, PutGrows
  <2>3. UNCHANGED <<file, edits, proof, manifests, registrations, upload, job, verified>>
    BY <1>5 DEF Overwrite, local
  <2>4. TypeOK' /\ ManifestsGrown
    BY <1>1, <2>2, <2>3 DEF TypeOK, ManifestsGrown
  <2>. QED  BY <1>1, <2>2, <2>3, <2>4, SurroundingsKept, ManifestsKept DEF IInv
<1>6. CASE Tamper
  <2>1. PICK r \in registrations, t \in Tables : \E v \in DOMAIN landing[t] :
           LET body == [r.digest EXCEPT !.objects[t].version = v] IN
           \E d \in {body, r.digest} : manifests' = Append(manifests, [body |-> body, identity_digest |-> d])
    BY <1>6 DEF Tamper
  <2>2. PICK v \in DOMAIN landing[t] :
           LET body == [r.digest EXCEPT !.objects[t].version = v] IN
           \E d \in {body, r.digest} : manifests' = Append(manifests, [body |-> body, identity_digest |-> d])
    BY <2>1
  <2> DEFINE body == [r.digest EXCEPT !.objects[t].version = v]
  <2>3. r.digest \in Body /\ InRange(r.digest)
    BY <1>1 DEF TypeOK, RegistrationsInv
  <2>4. v \in 1..Len(landing[t]) /\ v \in Nat
    BY <1>1 DEF TypeOK
  <2>5. r.digest.objects \in [Tables -> Evidence] /\ r.digest.objects[t] \in Evidence
    BY <2>3 DEF Body
  <2>6. /\ body.objects = [r.digest.objects EXCEPT ![t].version = v]
        /\ body.rows = r.digest.rows
        /\ body = [rows |-> r.digest.rows, objects |-> [r.digest.objects EXCEPT ![t].version = v]]
    BY <2>3 DEF Body
  <2>7. [r.digest.objects[t] EXCEPT !.version = v] \in Evidence
    BY <2>4, <2>5 DEF Evidence
  <2>8. body.objects \in [Tables -> Evidence]
    BY <2>5, <2>6, <2>7
  <2>9. body \in Body
    BY <2>3, <2>6, <2>8 DEF Body
  <2>10. InRange(body)
    BY <2>3, <2>4, <2>5, <2>6 DEF InRange, Evidence
  <2> HIDE DEF body
  <2>11. PICK d \in Body : manifests' = Append(manifests, [body |-> body, identity_digest |-> d])
    BY <2>2, <2>3, <2>9 DEF body
  <2>12. [body |-> body, identity_digest |-> d] \in [body : Body, identity_digest : Body]
    BY <2>9
  <2>13. /\ manifests' \in Seq([body : Body, identity_digest : Body])
         /\ Len(manifests') = Len(manifests) + 1
         /\ \A i \in 1..Len(manifests) : manifests'[i] = manifests[i]
         /\ manifests'[Len(manifests) + 1].body = body
    BY <1>1, <2>11, <2>12 DEF TypeOK
  <2>14. UNCHANGED <<file, edits, proof, landing, registrations, upload, job, verified>>
    BY <1>6 DEF Tamper, local
  <2>15. TypeOK'
    BY <1>1, <2>13, <2>14 DEF TypeOK
  <2>16. Grown /\ ManifestsGrown
    BY <1>1, <2>13, <2>14 DEF Grown, ManifestsGrown, TypeOK
  <2>17. ManifestsInv'
    <3>1. manifests \in Seq([body : Body, identity_digest : Body])
      BY <1>1 DEF TypeOK
    <3>. QED  BY <1>1, <2>10, <2>13, <2>16, <3>1, ManifestAdded
  <2>. QED  BY <2>14, <2>15, <2>16, <2>17, SurroundingsKept DEF IInv
<1>. QED  BY <1>3, <1>4, <1>5, <1>6

-----------------------------------------------------------------------------
(* Uploads *)

LEMMA UploadOnly ==
  ASSUME IInv, NEW u \in Uploads, NEW x \in UploadState, upload' = [upload EXCEPT ![u] = x],
         UNCHANGED <<registrations, job>>, UNCHANGED local, UNCHANGED s3,
         UploadInv(u)'
  PROVE  IInv'
<1>1. UNCHANGED <<file, proof, edits, landing, manifests, verified>>
  BY DEF local, s3
<1>2. Grown /\ ManifestsGrown /\ VerifiedGrown
  BY <1>1 DEF Grown, ManifestsGrown, VerifiedGrown
<1>3. TypeOK' /\ \A y \in Uploads \ {u} : upload'[y] = upload[y]
  BY <1>1 DEF IInv, TypeOK
<1>4. \A y \in Uploads : UploadInv(y)'
  BY <1>1, <1>2, <1>3, UploadKept DEF IInv
<1>5. \A j \in Jobs : JobInv(j)'
  BY <1>2, JobKept DEF IInv
<1>6. ManifestsInv' /\ RegistrationsInv' /\ VerifiedHoldsEvidence'
  BY <1>1, <1>2, ManifestsKept, RegistrationsKept DEF IInv, VerifiedHoldsEvidence
<1>. QED  BY <1>3, <1>4, <1>5, <1>6 DEF IInv

LEMMA UploadLocalStep ==
  ASSUME IInv, NEW u \in Uploads, StartUpload(u) \/ CheckTables(u) \/ ReadBytes(u)
  PROVE  IInv'
<1>1. TypeOK /\ UploadInv(u) /\ upload[u] \in UploadState
  BY DEF IInv, TypeOK
<1>2. CASE StartUpload(u)
  <2> DEFINE x == [upload[u] EXCEPT !.pc = "check", !.proof = proof, !.since = edits]
  <2>1. x \in UploadState
    BY <1>1 DEF TypeOK, UploadState
  <2>2. upload' = [upload EXCEPT ![u] = x] /\ UNCHANGED <<registrations, job>> /\ UNCHANGED local /\ UNCHANGED s3
    BY <1>2 DEF StartUpload
  <2>3. upload'[u] = x
    BY <1>1, <2>2 DEF TypeOK
  <2>4. UploadInv(u)'
    BY <1>1, <1>2, <2>2, <2>3 DEF StartUpload, UploadInv, UploadState, TypeOK, local
  <2>. QED  BY <2>1, <2>2, <2>4, UploadOnly
<1>3. CASE CheckTables(u)
  <2> DEFINE pc == IF \A t \in Tables : RowsOf[file[t]] = upload[u].proof[t] THEN "read" ELSE "failed"
             x == [upload[u] EXCEPT !.pc = pc]
  <2>1. x \in UploadState
    BY <1>1 DEF UploadState
  <2>2. upload' = [upload EXCEPT ![u] = x] /\ UNCHANGED <<registrations, job>> /\ UNCHANGED local /\ UNCHANGED s3
    BY <1>3 DEF CheckTables
  <2>3. upload'[u] = x
    BY <1>1, <2>2 DEF TypeOK
  <2>4. /\ x.proof = upload[u].proof /\ x.table = upload[u].table /\ x.objects = upload[u].objects
        /\ x.since = upload[u].since /\ x.pc = pc
    BY <1>1 DEF UploadState
  <2>5. pc = "read" => \A t \in Tables : RowsOf[file[t]] = upload[u].proof[t]
    OBVIOUS
  <2>6. 1 \in Tables
    BY ObjectAssumption DEF Tables
  <2>7. UNCHANGED <<file, edits, landing>>
    BY <2>2 DEF local, s3
  <2> HIDE DEF x, pc
  <2>8. pc \in {"read", "failed"}
    BY DEF pc
  <2>9. UploadInv(u)'
    BY <1>1, <1>3, <2>3, <2>4, <2>5, <2>6, <2>7, <2>8 DEF CheckTables, UploadInv
  <2>. QED  BY <2>1, <2>2, <2>9, UploadOnly
<1>4. CASE ReadBytes(u)
  <2> DEFINE x == [upload[u] EXCEPT !.pc = "put", !.content = file[upload[u].table]]
  <2>1. upload[u].table \in Tables /\ file[upload[u].table] \in Contents
    BY <1>1, <1>4 DEF ReadBytes, UploadInv, TypeOK
  <2>2. x \in UploadState
    BY <1>1, <2>1 DEF UploadState
  <2>3. upload' = [upload EXCEPT ![u] = x] /\ UNCHANGED <<registrations, job>> /\ UNCHANGED local /\ UNCHANGED s3
    BY <1>4 DEF ReadBytes
  <2>4. upload'[u] = x
    BY <1>1, <2>3 DEF TypeOK
  <2>5. /\ x.proof = upload[u].proof /\ x.table = upload[u].table /\ x.objects = upload[u].objects
        /\ x.since = upload[u].since /\ x.pc = "put" /\ x.content = file[upload[u].table]
    BY <1>1 DEF UploadState
  <2>6. UNCHANGED <<file, edits, landing>>
    BY <2>3 DEF local, s3
  <2> HIDE DEF x
  <2>7. UploadInv(u)'
    BY <1>1, <1>4, <2>1, <2>4, <2>5, <2>6 DEF ReadBytes, UploadInv
  <2>. QED  BY <2>2, <2>3, <2>7, UploadOnly
<1>. QED  BY <1>2, <1>3, <1>4

\* The version put is the one the evidence names, and the bytes are those read.
LEMMA PutObjectStep ==
  ASSUME IInv, NEW u \in Uploads, PutObject(u)
  PROVE  IInv'
<1> DEFINE old == upload[u]
           t == old.table
           sent == file[t]
           e == [version |-> Len(landing[t]) + 1, bytes |-> old.content]
           x == upload'[u]
<1>1. TypeOK /\ UploadInv(u) /\ old \in UploadState
  BY DEF IInv, TypeOK
<1>2. t \in Tables /\ sent \in Contents /\ old.content \in Contents /\ old.objects \in Seq(Evidence)
  BY <1>1 DEF PutObject, UploadInv, TypeOK, UploadState
<1>3. UNCHANGED <<file, proof, edits, manifests, registrations, job, verified>>
  BY DEF PutObject, local
<1>4. landing' = [landing EXCEPT ![t] = Append(@, sent)]
  BY DEF PutObject
<1>5. /\ landing' \in [Tables -> Seq(Contents)] /\ Grown
      /\ Len(landing[t]) + 1 \in 1..Len(landing'[t])
      /\ landing'[t][Len(landing[t]) + 1] = sent
  BY <1>1, <1>2, <1>4, PutGrows
<1>6. e \in Evidence
  BY <1>1, <1>2 DEF Evidence, TypeOK
<1>7. Append(old.objects, e) \in Seq(Evidence)
  BY <1>2, <1>6
<1>8. \A y \in Uploads \ {u} : upload'[y] = upload[y]
  BY <1>1 DEF PutObject, TypeOK
<1>9. \/ x = [old EXCEPT !.pc = "failed"]
      \/ /\ sent = old.content
         /\ x = [old EXCEPT !.objects = Append(old.objects, e), !.table = t + 1,
                            !.pc = IF t = NTables THEN "bind" ELSE "read"]
  BY <1>1 DEF PutObject, TypeOK, Confirmed
<1>10. x \in UploadState /\ UploadInv(u)'
  <2>1. CASE x = [old EXCEPT !.pc = "failed"]
    BY <1>1, <1>3, <2>1 DEF UploadState, UploadInv
  <2>2. CASE /\ sent = old.content
             /\ x = [old EXCEPT !.objects = Append(old.objects, e), !.table = t + 1,
                                !.pc = IF t = NTables THEN "bind" ELSE "read"]
    <3> DEFINE pc == IF t = NTables THEN "bind" ELSE "read"
    <3>1. /\ x.proof = old.proof /\ x.since = old.since /\ x.content = old.content
          /\ x.objects = Append(old.objects, e) /\ x.table = t + 1 /\ x.pc = pc
      BY <1>1, <2>2 DEF UploadState
    <3>2. x \in UploadState
      <4>1. t + 1 \in Nat
        BY <1>2, ObjectAssumption DEF Tables
      <4>2. pc \in {"bind", "read"}
        OBVIOUS
      <4>. QED  BY <1>1, <1>7, <2>2, <4>1, <4>2 DEF UploadState
    <3>3. /\ t = Len(old.objects) + 1 /\ old.since <= edits
          /\ old.since = edits => old.content = file[t] /\ \A y \in Tables : RowsOf[file[y]] = old.proof[y]
          /\ old.proof \in [Tables -> Rows]
      BY <1>1 DEF UploadInv, PutObject
    <3>4. /\ Len(x.objects) = Len(old.objects) + 1
          /\ \A i \in 1..Len(old.objects) : x.objects[i] = old.objects[i]
          /\ x.objects[t] = e
      BY <1>2, <1>6, <3>1, <3>3
    <3>5. ASSUME NEW i \in 1..Len(x.objects)
          PROVE  /\ i \in Tables
                 /\ x.objects[i].version \in 1..Len(landing'[i])
                 /\ landing'[i][x.objects[i].version] = x.objects[i].bytes
                 /\ x.since = edits => x.objects[i].bytes = file[i]
      <4>1. CASE i \in 1..Len(old.objects)
        <5>1. /\ i \in Tables
              /\ old.objects[i].version \in 1..Len(landing[i])
              /\ landing[i][old.objects[i].version] = old.objects[i].bytes
              /\ old.since = edits => old.objects[i].bytes = file[i]
          BY <1>1, <4>1 DEF UploadInv, PutObject
        <5>2. x.objects[i] = old.objects[i] /\ x.since = old.since
          BY <3>1, <3>4, <4>1
        <5>. QED  BY <1>5, <5>1, <5>2 DEF Grown
      <4>2. CASE i = t
        BY <1>2, <1>5, <2>2, <3>1, <3>3, <3>4, <4>2
      <4>. QED  BY <1>2, <3>3, <3>4, <4>1, <4>2
    <3>6. pc \in {"read", "bind"} /\ (pc = "bind" => t = NTables) /\ (pc = "read" => t + 1 \in Tables)
      BY <1>2, ObjectAssumption DEF Tables
    <3> HIDE DEF pc, x
    <3>7. x.table = Len(x.objects) + 1
      BY <1>2, <3>1, <3>3, <3>4
    <3>8. UploadInv(u)'
      BY <1>3, <3>1, <3>3, <3>5, <3>6, <3>7 DEF UploadInv, x
    <3>. QED  BY <3>2, <3>8
  <2>. QED  BY <1>9, <2>1, <2>2
<1>11. ManifestsGrown /\ VerifiedGrown
  BY <1>3 DEF ManifestsGrown, VerifiedGrown
<1>12. upload' \in [Uploads -> UploadState]
  BY <1>1, <1>8, <1>10 DEF PutObject, TypeOK
<1>13. TypeOK'
  BY <1>1, <1>3, <1>5, <1>12 DEF TypeOK
<1>14. \A y \in Uploads : UploadInv(y)'
  BY <1>1, <1>3, <1>5, <1>8, <1>10, UploadKept DEF IInv
<1>15. \A j \in Jobs : JobInv(j)'
  BY <1>1, <1>3, <1>5, <1>11, JobKept DEF IInv
<1>16. ManifestsInv' /\ RegistrationsInv' /\ VerifiedHoldsEvidence'
  BY <1>3, <1>5, <1>11, ManifestsKept, RegistrationsKept DEF IInv, VerifiedHoldsEvidence
<1>. QED  BY <1>13, <1>14, <1>15, <1>16 DEF IInv

\* The evidence of every table is complete when the manifest is bound.
LEMMA BindStep ==
  ASSUME IInv, NEW u \in Uploads, Bind(u)
  PROVE  IInv'
<1> DEFINE old == upload[u]
           body == [rows |-> old.proof, objects |-> old.objects]
           m == [body |-> body, identity_digest |-> body]
           r == [version |-> Len(manifests) + 1, digest |-> body, quiet |-> old.since = edits]
<1>1. TypeOK /\ UploadInv(u) /\ old \in UploadState /\ old.pc = "bind"
  BY DEF IInv, TypeOK, Bind
<1>2. old.objects \in [Tables -> Evidence]
  <2>1. old.objects \in Seq(Evidence) /\ Len(old.objects) + 1 = NTables + 1
    BY <1>1 DEF UploadState, UploadInv
  <2>2. Len(old.objects) = NTables
    BY <2>1, ObjectAssumption
  <2>. QED  BY <2>1, <2>2 DEF Tables
<1>3. body \in Body /\ body.objects = old.objects /\ body.rows = old.proof
  BY <1>1, <1>2 DEF Body, UploadInv
<1>4. 1..Len(old.objects) = Tables
  BY <1>1, ObjectAssumption DEF Tables, UploadInv, UploadState
<1>5. /\ InRange(body) /\ Truthful(body)
      /\ old.since = edits => \A t \in Tables : Declared(body, t)
  BY <1>1, <1>3, <1>4 DEF InRange, Truthful, Declared, UploadInv
<1> HIDE DEF body
<1>6. UNCHANGED <<file, proof, edits, landing, job, verified>>
  BY DEF Bind, local
<1>7. /\ manifests' = Append(manifests, m)
      /\ registrations' = registrations \cup {r}
      /\ upload' = [upload EXCEPT ![u].pc = "done"]
  BY DEF Bind, body
<1>8. /\ manifests' \in Seq([body : Body, identity_digest : Body])
      /\ Len(manifests') = Len(manifests) + 1
      /\ \A i \in 1..Len(manifests) : manifests'[i] = manifests[i]
      /\ manifests'[Len(manifests) + 1] = m
      /\ Len(manifests) \in Nat
  BY <1>1, <1>3, <1>7 DEF TypeOK
<1>9. Grown /\ ManifestsGrown /\ VerifiedGrown
  BY <1>1, <1>6, <1>8 DEF Grown, ManifestsGrown, VerifiedGrown, TypeOK
<1>10. r \in [version : Nat, digest : Body, quiet : BOOLEAN]
  BY <1>3, <1>8
<1>11. [old EXCEPT !.pc = "done"] \in UploadState
  BY <1>1 DEF UploadState
<1>12. upload' \in [Uploads -> UploadState] /\ \A y \in Uploads \ {u} : upload'[y] = upload[y]
  BY <1>1, <1>7, <1>11 DEF TypeOK
<1>13. TypeOK'
  BY <1>1, <1>6, <1>7, <1>8, <1>10, <1>12 DEF TypeOK
<1>14. UploadInv(u)'
  <2>1. upload'[u].pc = "done" /\ upload'[u].since = old.since
    BY <1>1, <1>7 DEF TypeOK, UploadState
  <2>. QED  BY <1>1, <1>6, <2>1 DEF UploadInv
<1>15. \A y \in Uploads : UploadInv(y)'
  BY <1>1, <1>6, <1>9, <1>12, <1>14, UploadKept DEF IInv
<1>16. \A j \in Jobs : JobInv(j)'
  <2>1. \A q \in registrations' : q \in registrations \/ q.version \notin 1..Len(manifests)
    BY <1>7, <1>8
  <2>. QED  BY <1>1, <1>6, <1>9, <2>1, JobKept DEF IInv
<1>17. ManifestsInv'
  BY <1>1, <1>5, <1>8, <1>9, ManifestAdded DEF IInv, TypeOK
<1>18. RegistrationsInv'
  <2> SUFFICES ASSUME NEW q \in registrations'
               PROVE  /\ q.version \in 1..Len(manifests')
                      /\ manifests'[q.version].body = q.digest
                      /\ manifests'[q.version].identity_digest = q.digest
                      /\ InRange(q.digest)'
                      /\ Truthful(q.digest)'
                      /\ q.quiet => \A t \in Tables : Declared(q.digest, t)
    BY DEF RegistrationsInv, Declared
  <2>1. CASE q \in registrations
    BY <1>9, <2>1, BodyKept DEF IInv, RegistrationsInv, ManifestsGrown
  <2>2. CASE q = r
    <3>1. q.digest = body /\ q.version = Len(manifests) + 1 /\ (q.quiet => old.since = edits)
      BY <2>2
    <3>2. InRange(q.digest)' /\ Truthful(q.digest)'
      BY <1>5, <1>9, <3>1, BodyKept
    <3>. QED  BY <1>5, <1>8, <3>1, <3>2
  <2>. QED  BY <1>7, <2>1, <2>2
<1>19. VerifiedHoldsEvidence'
  BY <1>6 DEF IInv, VerifiedHoldsEvidence
<1>. QED  BY <1>13, <1>15, <1>16, <1>17, <1>18, <1>19 DEF IInv

-----------------------------------------------------------------------------
(* Jobs *)

LEMMA JobOnly ==
  ASSUME IInv, NEW j \in Jobs, NEW x \in JobState, job' = [job EXCEPT ![j] = x],
         UNCHANGED <<registrations, upload>>, UNCHANGED local, UNCHANGED s3,
         JobInv(j)'
  PROVE  IInv'
<1>1. UNCHANGED <<file, proof, edits, landing, manifests, verified>>
  BY DEF local, s3
<1>2. Grown /\ ManifestsGrown /\ VerifiedGrown
  BY <1>1 DEF Grown, ManifestsGrown, VerifiedGrown
<1>3. TypeOK' /\ \A y \in Jobs \ {j} : job'[y] = job[y]
  BY <1>1 DEF IInv, TypeOK
<1>4. \A y \in Jobs : JobInv(y)'
  BY <1>2, <1>3, JobKept DEF IInv
<1>5. \A u \in Uploads : UploadInv(u)'
  BY <1>1, <1>2, UploadKept DEF IInv
<1>6. ManifestsInv' /\ RegistrationsInv' /\ VerifiedHoldsEvidence'
  BY <1>1, <1>2, ManifestsKept, RegistrationsKept DEF IInv, VerifiedHoldsEvidence
<1>. QED  BY <1>3, <1>4, <1>5, <1>6 DEF IInv

\* A refusal leaves the invariant true if no undisturbed registration was refused.
LEMMA FailStep ==
  ASSUME IInv, NEW j \in Jobs, Fail(j), job[j].pc # "idle", Refused(job[j]),
         UNCHANGED <<registrations, upload>>, UNCHANGED local, UNCHANGED s3
  PROVE  IInv'
<1> DEFINE x == [job[j] EXCEPT !.pc = "failed"]
<1>1. job[j] \in JobState /\ job \in [Jobs -> JobState]
  BY DEF IInv, TypeOK
<1>2. x \in JobState /\ job' = [job EXCEPT ![j] = x]
  BY <1>1 DEF JobState, Fail
<1>3. /\ x.pc = "failed" /\ x.version = job[j].version /\ x.digest = job[j].digest
      /\ x.table = job[j].table /\ x.used = job[j].used
  BY <1>1 DEF JobState
<1>4. job'[j] = x
  BY <1>1, <1>2
<1>5. UNCHANGED <<registrations, manifests>>
  BY DEF s3
<1> HIDE DEF x
<1>6. JobInv(j)'
  BY <1>3, <1>4, <1>5 DEF IInv, JobInv, Refused, Uses
<1>. QED  BY <1>2, <1>6, JobOnly

\* Only the control point moves on.
LEMMA MoveStep ==
  ASSUME IInv, NEW j \in Jobs, NEW pc, job' = [job EXCEPT ![j].pc = pc],
         <<job[j].pc, pc>> \in {<<"manifest", "head">>, <<"head", "copy">>, <<"digest", "count">>},
         pc = "head" => job[j].digest \in Body /\ InRange(job[j].digest),
         pc = "copy" => landing[job[j].table][job[j].digest.objects[job[j].table].version]
                          = job[j].digest.objects[job[j].table].bytes,
         pc = "count" => Declared(job[j].digest, job[j].table),
         UNCHANGED <<registrations, upload>>, UNCHANGED local, UNCHANGED s3
  PROVE  IInv'
<1> DEFINE x == [job[j] EXCEPT !.pc = pc]
<1>1. job[j] \in JobState /\ job \in [Jobs -> JobState] /\ JobInv(j)
  BY DEF IInv, TypeOK
<1>2. x \in JobState /\ job' = [job EXCEPT ![j] = x]
  BY <1>1 DEF JobState
<1>3. /\ x.pc = pc /\ x.version = job[j].version /\ x.digest = job[j].digest
      /\ x.table = job[j].table /\ x.used = job[j].used
  BY <1>1 DEF JobState
<1>4. /\ job'[j].pc = pc /\ job'[j].version = job[j].version /\ job'[j].digest = job[j].digest
      /\ job'[j].table = job[j].table /\ job'[j].used = job[j].used
  BY <1>1, <1>2, <1>3
<1>5. UNCHANGED <<registrations, manifests, landing, verified>>
  BY DEF s3
<1>6. /\ \A d : InRange(d)' <=> InRange(d)
      /\ \A d, t : Copied(d, t)' <=> Copied(d, t)
      /\ \A d, t : Declared(d, t)' <=> Declared(d, t)
      /\ \A d, used : Uses(d, used)' <=> Uses(d, used)
  BY <1>5 DEF InRange, Copied, Declared, Uses
<1>7. ASSUME job[j].pc = "manifest" /\ pc = "head"  PROVE JobInv(j)'
  <2>1. job[j].table = 1 /\ 1 \in Tables /\ \A t \in Tables : ~(t < 1)
    BY <1>1, <1>7, ObjectAssumption DEF Tables, JobInv
  <2>. QED  BY <1>1, <1>4, <1>5, <1>6, <1>7, <2>1 DEF JobInv
<1>8. ASSUME job[j].pc = "head" /\ pc = "copy"  PROVE JobInv(j)'
  BY <1>1, <1>4, <1>5, <1>6, <1>8 DEF JobInv
<1>9. ASSUME job[j].pc = "digest" /\ pc = "count"  PROVE JobInv(j)'
  BY <1>1, <1>4, <1>5, <1>6, <1>9 DEF JobInv
<1>10. JobInv(j)'
  BY <1>7, <1>8, <1>9
<1>. QED  BY <1>2, <1>10, JobOnly

LEMMA StartJobStep ==
  ASSUME IInv, NEW j \in Jobs, StartJob(j)
  PROVE  IInv'
<1>1. PICK v \in DOMAIN manifests, d \in {manifests[i].identity_digest : i \in DOMAIN manifests} \cup {NoDigest} :
        job' = [job EXCEPT ![j] = [@ EXCEPT !.pc = "manifest", !.version = v, !.digest = d]]
  BY DEF StartJob
<1> DEFINE x == [job[j] EXCEPT !.pc = "manifest", !.version = v, !.digest = d]
<1>2. job[j] \in JobState /\ job \in [Jobs -> JobState] /\ JobInv(j)
  BY DEF IInv, TypeOK
<1>3. v \in 1..Len(manifests) /\ v \in Nat /\ d \in Body \cup {NoDigest}
  BY ManifestType DEF IInv
<1>4. x \in JobState /\ job' = [job EXCEPT ![j] = x]
  BY <1>1, <1>2, <1>3 DEF JobState
<1>5. x.pc = "manifest" /\ x.version = v /\ x.table = job[j].table /\ x.used = job[j].used
  BY <1>2 DEF JobState
<1>6. job'[j] = x
  BY <1>2, <1>4
<1>7. UNCHANGED <<registrations, upload>> /\ UNCHANGED local /\ UNCHANGED s3 /\ UNCHANGED manifests
  BY DEF StartJob, s3
<1> HIDE DEF x
<1>8. JobInv(j)'
  BY <1>2, <1>3, <1>5, <1>6, <1>7 DEF StartJob, JobInv, Uses
<1>. QED  BY <1>4, <1>7, <1>8, JobOnly

\* A job fails on a manifest, a head or a digest only if no undisturbed registration names them.
LEMMA CheckStep ==
  ASSUME IInv, NEW j \in Jobs, GetManifest(j) \/ HeadObject(j) \/ VerifyTableDigest(j)
  PROVE  IInv'
<1> DEFINE d == job[j].digest
           t == job[j].table
<1>1. TypeOK /\ ManifestsInv /\ RegistrationsInv /\ JobInv(j)
  BY DEF IInv
<1>2. CASE GetManifest(j)
  <2>1. UNCHANGED <<registrations, upload>> /\ UNCHANGED local /\ UNCHANGED s3 /\ job[j].pc = "manifest"
    BY <1>2 DEF GetManifest
  <2>2. CASE ManifestAgrees(manifests[job[j].version], d)
    <3>1. job' = [job EXCEPT ![j].pc = "head"]
      BY <1>2, <2>2 DEF GetManifest
    <3>2. job[j].version \in 1..Len(manifests) /\ manifests[job[j].version].body = d
      BY <1>1, <2>1, <2>2 DEF JobInv, ManifestAgrees
    <3>3. d \in Body /\ InRange(d)
      BY <1>1, <3>2, ManifestType DEF ManifestsInv
    <3>. QED  BY <2>1, <3>1, <3>3, MoveStep
  <2>3. CASE ~ManifestAgrees(manifests[job[j].version], d)
    <3>1. Fail(j)
      BY <1>2, <2>3 DEF GetManifest
    <3>2. Refused(job[j])
      BY <1>1, <2>3 DEF RegistrationsInv, Refused, ManifestAgrees
    <3>. QED  BY <2>1, <3>1, <3>2, FailStep
  <2>. QED  BY <2>2, <2>3
<1>3. CASE HeadObject(j)
  <2>1. UNCHANGED <<registrations, upload>> /\ UNCHANGED local /\ UNCHANGED s3 /\ job[j].pc = "head"
    BY <1>3 DEF HeadObject
  <2>2. t \in Tables
    BY <1>1, <2>1 DEF JobInv
  <2>3. CASE HeadAgrees(j)
    <3>1. job' = [job EXCEPT ![j].pc = "copy"]
      BY <1>3, <2>3 DEF HeadObject
    <3>2. landing[t][d.objects[t].version] = d.objects[t].bytes
      BY <2>3 DEF HeadAgrees, Registered
    <3>. QED  BY <2>1, <3>1, <3>2, MoveStep
  <2>4. CASE ~HeadAgrees(j)
    <3>1. Fail(j)
      BY <1>3, <2>4 DEF HeadObject
    <3>2. Refused(job[j])
      BY <1>1, <2>2, <2>4 DEF RegistrationsInv, Truthful, Refused, HeadAgrees, Registered
    <3>. QED  BY <2>1, <3>1, <3>2, FailStep
  <2>. QED  BY <2>3, <2>4
<1>4. CASE VerifyTableDigest(j)
  <2>1. UNCHANGED <<registrations, upload>> /\ UNCHANGED local /\ UNCHANGED s3 /\ job[j].pc = "digest"
    BY <1>4 DEF VerifyTableDigest
  <2>2. t \in Tables /\ landing[t][d.objects[t].version] = d.objects[t].bytes
    BY <1>1, <2>1 DEF JobInv
  <2>3. CASE DigestAgrees(j)
    <3>1. job' = [job EXCEPT ![j].pc = "count"]
      BY <1>4, <2>3 DEF VerifyTableDigest
    <3>2. Declared(d, t)
      BY <2>2, <2>3 DEF DigestAgrees, Registered, Declared
    <3>. QED  BY <2>1, <3>1, <3>2, MoveStep
  <2>4. CASE ~DigestAgrees(j)
    <3>1. Fail(j)
      BY <1>4, <2>4 DEF VerifyTableDigest
    <3>2. Refused(job[j])
      BY <1>1, <2>2, <2>4 DEF RegistrationsInv, Declared, Refused, DigestAgrees, Registered
    <3>. QED  BY <2>1, <3>1, <3>2, FailStep
  <2>. QED  BY <2>3, <2>4
<1>. QED  BY <1>2, <1>3, <1>4

\* The copy adds the registered bytes under the key that Spark reads.
LEMMA CopyObjectStep ==
  ASSUME IInv, NEW j \in Jobs, CopyObject(j)
  PROVE  IInv'
<1> DEFINE d == job[j].digest
           t == job[j].table
           seen == landing[t][d.objects[t].version]
           k == <<d, t>>
<1>1. TypeOK /\ JobInv(j) /\ job[j] \in JobState /\ job \in [Jobs -> JobState]
  BY DEF IInv, TypeOK
<1>2. /\ d \in Body /\ t \in Tables /\ InRange(d) /\ job[j].pc = "copy"
      /\ seen = d.objects[t].bytes
  BY <1>1 DEF CopyObject, JobInv
<1>3. /\ verified' = Put(verified, k, seen)
      /\ job' = [job EXCEPT ![j].pc = "digest"]
  BY DEF CopyObject, SourceVersion, Registered
<1>4. UNCHANGED <<registrations, upload, landing, manifests, file, proof, edits>>
  BY DEF CopyObject, local
<1>5. seen \in Contents
  <2>1. landing[t] \in Seq(Contents) /\ d.objects[t].version \in 1..Len(landing[t])
    BY <1>1, <1>2 DEF TypeOK, InRange
  <2>. QED  BY <2>1, ElementType
<1> DEFINE old == IF k \in DOMAIN verified THEN verified[k] ELSE << >>
<1>6. /\ DOMAIN verified' = DOMAIN verified \cup {k}
      /\ verified'[k] = Append(old, seen)
      /\ \A y \in DOMAIN verified : y # k => verified'[y] = verified[y]
  BY <1>3 DEF Put
<1>7. old \in Seq(Contents) /\ \A i \in 1..Len(old) : old[i] = d.objects[t].bytes
  <2>1. CASE k \in DOMAIN verified
    <3>1. verified[k] \in Seq(Contents) /\ old = verified[k]
      BY <1>1, <2>1 DEF TypeOK
    <3>2. \A i \in 1..Len(old) : verified[k][i] = k[1].objects[k[2]].bytes
      BY <2>1, <3>1, ElementType DEF IInv, VerifiedHoldsEvidence
    <3>. QED  BY <3>1, <3>2
  <2>2. CASE k \notin DOMAIN verified
    BY <2>2
  <2>. QED  BY <2>1, <2>2
<1> HIDE DEF old, seen
<1>8. /\ Append(old, seen) \in Seq(Contents) /\ Append(old, seen) # << >>
      /\ \A i \in DOMAIN Append(old, seen) : Append(old, seen)[i] = d.objects[t].bytes
  BY <1>2, <1>5, <1>7
<1>9. k \in Body \X Tables /\ k[1] = d /\ k[2] = t
  BY <1>2
<1> HIDE DEF k
<1>10. DOMAIN verified' \subseteq Body \X Tables /\ \A y \in DOMAIN verified' : verified'[y] \in Seq(Contents)
  BY <1>1, <1>6, <1>8, <1>9 DEF TypeOK
<1>11. VerifiedHoldsEvidence'
  BY <1>6, <1>8, <1>9 DEF IInv, VerifiedHoldsEvidence
<1>12. VerifiedGrown /\ ManifestsGrown /\ Grown
  BY <1>4, <1>6, <1>8 DEF VerifiedGrown, ManifestsGrown, Grown
<1> DEFINE x == [job[j] EXCEPT !.pc = "digest"]
<1>13. x \in JobState /\ job' = [job EXCEPT ![j] = x]
  BY <1>1, <1>3 DEF JobState
<1>14. /\ job' \in [Jobs -> JobState] /\ \A y \in Jobs \ {j} : job'[y] = job[y]
       /\ job'[j].pc = "digest" /\ job'[j].version = job[j].version /\ job'[j].digest = job[j].digest
       /\ job'[j].table = job[j].table /\ job'[j].used = job[j].used
  BY <1>1, <1>13 DEF JobState
<1>15. Copied(d, t)'
  BY <1>6, <1>8, <1>14 DEF Copied, k
<1>16. TypeOK'
  BY <1>1, <1>4, <1>10, <1>14 DEF TypeOK
<1>17. JobInv(j)'
  <2>1. /\ \A e : InRange(e)' <=> InRange(e)
        /\ \A e, y : Copied(e, y) => Copied(e, y)'
        /\ \A e, y : Declared(e, y)' <=> Declared(e, y)
        /\ \A e, used : Uses(e, used)' <=> Uses(e, used)
    BY <1>4, <1>12 DEF InRange, Copied, Declared, Uses, VerifiedGrown
  <2>. QED  BY <1>1, <1>2, <1>4, <1>15, <1>14, <2>1 DEF JobInv, seen
<1>18. \A y \in Jobs : JobInv(y)'
  BY <1>1, <1>4, <1>12, <1>14, <1>17, JobKept DEF IInv
<1>19. \A u \in Uploads : UploadInv(u)'
  BY <1>1, <1>4, <1>12, UploadKept DEF IInv
<1>20. ManifestsInv' /\ RegistrationsInv'
  BY <1>4, <1>12, ManifestsKept, RegistrationsKept DEF IInv
<1>. QED  BY <1>11, <1>16, <1>18, <1>19, <1>20 DEF IInv

\* What Spark sees of a copied table are the registered bytes.
LEMMA FrameHolds ==
  ASSUME IInv, NEW j \in Jobs, NEW t \in Tables, Copied(job[j].digest, t)
  PROVE  Frame(j, t) = job[j].digest.objects[t].bytes /\ Frame(j, t) \in Contents
<1> DEFINE k == <<job[j].digest, t>>
<1>1. k \in DOMAIN verified /\ verified[k] # << >> /\ k[1] = job[j].digest /\ k[2] = t
  BY DEF Copied
<1>2. verified[k] \in Seq(Contents)
  BY <1>1 DEF IInv, TypeOK
<1>3. Len(verified[k]) \in DOMAIN verified[k] /\ verified[k][Len(verified[k])] \in Contents
  BY <1>1, <1>2
<1>4. Frame(j, t) = verified[k][Len(verified[k])]
  BY DEF Frame
<1>. QED  BY <1>1, <1>3, <1>4 DEF IInv, VerifiedHoldsEvidence

\* Every evaluation of a frame adds what it saw; the table advances.
LEMMA ReadStep ==
  ASSUME IInv, NEW j \in Jobs, Count(j) \/ Build(j)
  PROVE  IInv'
<1> DEFINE d == job[j].digest
           t == job[j].table
           seen == Frame(j, t)
           used == job[j].used \cup {<<t, seen>>}
<1>1. TypeOK /\ RegistrationsInv /\ JobInv(j) /\ job[j] \in JobState /\ job \in [Jobs -> JobState]
  BY DEF IInv, TypeOK
<1>2. /\ UNCHANGED <<registrations, upload>> /\ UNCHANGED local /\ UNCHANGED s3
      /\ UNCHANGED <<registrations, manifests, landing, verified>>
  BY DEF Count, Build, s3
<1>3. job[j].pc \in {"count", "build"} /\ t \in Tables /\ Copied(d, t) /\ Declared(d, t) /\ d \in Body /\ InRange(d)
  BY <1>1 DEF JobInv, Count, Build
<1>4. seen = d.objects[t].bytes /\ seen \in Contents
  BY <1>3, FrameHolds
<1> HIDE DEF seen
<1>5. used \in SUBSET (Tables \X Contents) /\ Uses(d, used)
  <2>1. <<t, seen>> \in Tables \X Contents
    BY <1>3, <1>4
  <2>2. job[j].used \in SUBSET (Tables \X Contents) /\ Uses(d, job[j].used)
    BY <1>1 DEF JobState, JobInv
  <2>3. <<t, seen>>[1] = t /\ <<t, seen>>[2] = seen
    OBVIOUS
  <2>4. seen = d.objects[t].bytes /\ RowsOf[seen] = d.rows[t]
    BY <1>3, <1>4 DEF Declared
  <2>5. \A use \in used : use \in job[j].used \/ use = <<t, seen>>
    OBVIOUS
  <2>6. used \in SUBSET (Tables \X Contents)
    BY <2>1, <2>2
  <2>7. Uses(d, used)
    BY <2>2, <2>3, <2>4, <2>5 DEF Uses
  <2>. QED  BY <2>6, <2>7
<1> HIDE DEF used
<1>6. /\ t \in Nat /\ 1 \in Tables /\ t + 1 \in Nat /\ (t # NTables => t + 1 \in Tables)
      /\ \A y \in Tables : y < t + 1 => (y = t \/ y < t)
      /\ t = NTables => \A y \in Tables : (y = t \/ y < t)
  BY <1>3, ObjectAssumption DEF Tables
<1>7. /\ \A e : InRange(e)' <=> InRange(e)
      /\ \A e, y : Copied(e, y)' <=> Copied(e, y)
      /\ \A e, y : Declared(e, y)' <=> Declared(e, y)
      /\ \A e, us : Uses(e, us)' <=> Uses(e, us)
  BY <1>2 DEF InRange, Copied, Declared, Uses
<1>8. ASSUME NEW x \in JobState, job' = [job EXCEPT ![j] = x],
             x.version = job[j].version, x.digest = d, x.used = used,
             \/ /\ job[j].pc = "count" /\ t = NTables /\ x.pc = "build" /\ x.table = 1
             \/ /\ job[j].pc = "count" /\ t # NTables /\ x.pc = "head" /\ x.table = t + 1
             \/ /\ job[j].pc = "build" /\ t = NTables /\ x.pc = "done"
             \/ /\ job[j].pc = "build" /\ t # NTables /\ x.pc = "build" /\ x.table = t + 1
      PROVE  IInv'
  <2>1. job'[j] = x
    BY <1>1, <1>8
  <2>2. CASE job[j].pc = "count" /\ t = NTables /\ x.pc = "build" /\ x.table = 1
    <3>1. \A y \in Tables : Copied(d, y) /\ Declared(d, y)
      BY <1>1, <1>3, <1>6, <2>2 DEF JobInv
    <3>2. JobInv(j)'
      BY <1>1, <1>2, <1>3, <1>5, <1>6, <1>7, <1>8, <2>1, <2>2, <3>1 DEF JobInv
    <3>. QED  BY <1>2, <1>8, <3>2, JobOnly
  <2>3. CASE job[j].pc = "count" /\ t # NTables /\ x.pc = "head" /\ x.table = t + 1
    <3>1. ASSUME NEW y \in Tables, y < t + 1  PROVE Copied(d, y) /\ Declared(d, y)
      <4>1. y = t \/ y < t
        BY <1>6, <3>1, ObjectAssumption DEF Tables
      <4>. QED  BY <1>1, <1>3, <2>3, <4>1 DEF JobInv
    <3>2. JobInv(j)'
      BY <1>1, <1>2, <1>3, <1>5, <1>6, <1>7, <1>8, <2>1, <2>3, <3>1 DEF JobInv
    <3>. QED  BY <1>2, <1>8, <3>2, JobOnly
  <2>4. CASE job[j].pc = "build" /\ t = NTables /\ x.pc = "done"
    <3>1. JobInv(j)'
      BY <1>1, <1>2, <1>5, <1>7, <1>8, <2>1, <2>4 DEF JobInv
    <3>. QED  BY <1>2, <1>8, <3>1, JobOnly
  <2>5. CASE job[j].pc = "build" /\ t # NTables /\ x.pc = "build" /\ x.table = t + 1
    <3>1. JobInv(j)'
      BY <1>1, <1>2, <1>3, <1>5, <1>6, <1>7, <1>8, <2>1, <2>5 DEF JobInv
    <3>. QED  BY <1>2, <1>8, <3>1, JobOnly
  <2>. QED  BY <1>8, <2>2, <2>3, <2>4, <2>5
<1>9. CASE Count(j)
  <2>1. CASE RowsOf[seen][1] = d.rows[t][1]
    <3> DEFINE x == [job[j] EXCEPT !.used = used, !.table = IF t = NTables THEN 1 ELSE t + 1,
                                   !.pc = IF t = NTables THEN "build" ELSE "head"]
    <3>1. job' = [job EXCEPT ![j] = x] /\ job[j].pc = "count"
      BY <1>9, <2>1 DEF Count, used, seen
    <3>2. (IF t = NTables THEN 1 ELSE t + 1) \in Nat /\ (IF t = NTables THEN "build" ELSE "head") \in {"build", "head"}
      BY <1>6
    <3>3. x \in JobState
      BY <1>1, <1>5, <3>2 DEF JobState
    <3>4. /\ x.version = job[j].version /\ x.digest = d /\ x.used = used
          /\ x.table = IF t = NTables THEN 1 ELSE t + 1
          /\ x.pc = IF t = NTables THEN "build" ELSE "head"
      BY <1>1 DEF JobState
    <3> HIDE DEF x
    <3>. QED  BY <1>8, <3>1, <3>3, <3>4
  <2>2. CASE RowsOf[seen][1] # d.rows[t][1]
    BY <1>3, <1>4, <2>2 DEF Declared
  <2>. QED  BY <2>1, <2>2
<1>10. CASE Build(j)
  <2> DEFINE x == [job[j] EXCEPT !.used = used, !.table = t + 1,
                                 !.pc = IF t = NTables THEN "done" ELSE "build"]
  <2>1. job' = [job EXCEPT ![j] = x] /\ job[j].pc = "build"
    BY <1>10 DEF Build, used, seen
  <2>2. (IF t = NTables THEN "done" ELSE "build") \in {"done", "build"}
    OBVIOUS
  <2>3. x \in JobState
    BY <1>1, <1>5, <1>6, <2>2 DEF JobState
  <2>4. /\ x.version = job[j].version /\ x.digest = d /\ x.used = used /\ x.table = t + 1
        /\ x.pc = IF t = NTables THEN "done" ELSE "build"
    BY <1>1 DEF JobState
  <2> HIDE DEF x
  <2>. QED  BY <1>8, <2>1, <2>3, <2>4
<1>. QED  BY <1>9, <1>10

\* IInv holds in every reachable state, whatever is edited, overwritten or tampered with.
THEOREM ObjectInvariance == Spec => []IInv
<1>1. ASSUME IInv, [Next]_vars  PROVE IInv'
  <2>1. CASE \E u \in Uploads : Upload(u)
    BY <1>1, <2>1, UploadLocalStep, PutObjectStep, BindStep DEF Upload
  <2>2. CASE \E j \in Jobs : Job(j)
    BY <1>1, <2>2, StartJobStep, CheckStep, CopyObjectStep, ReadStep DEF Job
  <2>3. CASE EditFile \/ WriteManifest \/ Overwrite \/ Tamper
    BY <1>1, <2>3, SurroundingsStep
  <2>4. CASE UNCHANGED vars
    <3>1. UNCHANGED <<file, proof, edits, landing, manifests, registrations, upload, job, verified>>
      BY <2>4 DEF vars
    <3>2. Grown /\ ManifestsGrown
      BY <3>1 DEF Grown, ManifestsGrown
    <3>3. TypeOK'
      BY <1>1, <3>1 DEF IInv, TypeOK
    <3>. QED  BY <1>1, <3>1, <3>2, <3>3, SurroundingsKept, ManifestsKept DEF IInv
  <2>. QED  BY <1>1, <2>1, <2>2, <2>3, <2>4 DEF Next
<1>. QED  BY <1>1, InitIInv, PTL DEF Spec

-----------------------------------------------------------------------------
(* What follows *)

\* Every evaluation of a frame sees the bytes registered under the execution's digest, and the
\* records that manifest.json declared.
THEOREM SparkTheorem == Spec => []SparkReadsRegistered
<1>1. IInv => SparkReadsRegistered
  BY DEF IInv, JobInv, Uses, SparkReadsRegistered
<1>. QED  BY <1>1, ObjectInvariance, PTL

\* The keys that Spark reads without a version hold nothing but registered bytes.
THEOREM VerifiedTheorem == Spec => []VerifiedHoldsEvidence
<1>1. IInv => VerifiedHoldsEvidence
  BY DEF IInv
<1>. QED  BY <1>1, ObjectInvariance, PTL

\* A reported registration is true of the manifest and the versions it names, for ever.
THEOREM RegistrationTheorem == Spec => []RegistrationHolds
<1>1. IInv => RegistrationHolds
  BY DEF IInv, RegistrationsInv, Truthful, RegistrationHolds
<1>. QED  BY <1>1, ObjectInvariance, PTL

\* A registration of files that nobody changed meanwhile is never refused.
THEOREM AcceptanceTheorem == Spec => []UndisturbedAccepted
<1>1. IInv => UndisturbedAccepted
  BY DEF IInv, JobInv, Refused, UndisturbedAccepted
<1>. QED  BY <1>1, ObjectInvariance, PTL
=============================================================================
