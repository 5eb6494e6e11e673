--------------------------- MODULE ObjectIdentity ---------------------------
(***************************************************************************)
(* From the files of one generated batch to what Spark reads: the upload   *)
(* and binding of scripts/upload_immutable_batch.py and manifest.py, the   *)
(* tampered manifest of the lab, and the head, copy, digest and lazy reads *)
(* of aws/glue/atlasretail_iceberg.py, while files are edited and keys     *)
(* overwritten.                                                            *)
(*                                                                         *)
(* A version of an S3 key is its place in the key's sequence.  A checksum, *)
(* a size and an ETag are functions of the bytes; a manifest's digest is   *)
(* the manifest.  The tables are numbers, in the order both programs visit *)
(* them, with one object each.                                             *)
(***************************************************************************)
EXTENDS Naturals, Sequences, FiniteSets

CONSTANTS
    NTables,        \* number of tables (six)
    Contents,       \* contents of a file
    RowsOf,         \* the records in a file: their number and their canonical digest
    Uploads,        \* runs of upload_immutable_batch.py
    Jobs,           \* runs of the Glue job
    NoDigest,       \* the digest that the lab's conflict execution makes up
    MaxEdit,        \* bound: changes of local files
    MaxOverwrite,   \* bound: puts to landing keys by anybody else
    MaxTamper       \* bound: manifests put by anybody else

ASSUME ObjectAssumption ==
    /\ NTables \in Nat \ {0}
    /\ RowsOf \in [Contents -> Nat \X Nat]
    /\ MaxEdit \in Nat /\ MaxOverwrite \in Nat /\ MaxTamper \in Nat

VARIABLES
    file,           \* the local data files
    proof,          \* manifest.json beside them: the rows of every table
    landing,        \* versions of runs/<batch>/<table>/...
    manifests,      \* versions of runs/<batch>/managed-manifest.json
    registrations,  \* what uploads reported
    upload,         \* the state of each upload
    job,            \* the state of each Glue run
    verified,       \* versions of verified/<generation>/<table>/0.jsonl.gz
    edits, overwrites, tampers      \* how often that happened

vars == <<file, proof, landing, manifests, registrations, upload, job, verified, edits, overwrites, tampers>>
local == <<file, proof, edits>>
s3 == <<landing, manifests, verified, overwrites, tampers>>

Tables == 1..NTables
Rows == {RowsOf[c] : c \in Contents}

\* The evidence of an object in a manifest: its version and its bytes (size, SHA-256, ETag).
Evidence == [version : Nat, bytes : Contents]

\* A managed manifest's body; its identity_digest is canonical, so equal to it when it is right.
Body == [rows : [Tables -> Rows], objects : [Tables -> Evidence]]

-----------------------------------------------------------------------------
(* The local directory *)

\* Another process writes one of the files, or generates the batch anew over them.
EditFile ==
    /\ edits < MaxEdit
    /\ edits' = edits + 1
    /\ \E t \in Tables, c \in Contents : c # file[t] /\ file' = [file EXCEPT ![t] = c]
    /\ UNCHANGED <<proof, registrations, upload, job>> /\ UNCHANGED s3

\* build_manifest of the files as they are
build_manifest == proof' = [t \in Tables |-> RowsOf[file[t]]]

WriteManifest ==
    /\ build_manifest
    /\ proof' # proof
    /\ UNCHANGED <<file, edits, registrations, upload, job>> /\ UNCHANGED s3

-----------------------------------------------------------------------------
(* upload_immutable_batch.py *)

\* `since` counts the edits before the start; only a property refers to it.
Idle == [pc |-> "idle", table |-> 1, proof |-> << >>, content |-> << >>, objects |-> << >>, since |-> 0]

StartUpload(u) ==
    /\ upload[u].pc = "idle"
    /\ upload' = [upload EXCEPT ![u] = [@ EXCEPT !.pc = "check", !.proof = proof, !.since = edits]]
    /\ UNCHANGED <<registrations, job>> /\ UNCHANGED local /\ UNCHANGED s3

\* The generated records of every table against its proof, before any upload.
CheckTables(u) ==
    /\ upload[u].pc = "check"
    /\ upload' = [upload EXCEPT ![u].pc =
         IF \A t \in Tables : RowsOf[file[t]] = upload[u].proof[t] THEN "read" ELSE "failed"]
    /\ UNCHANGED <<registrations, job>> /\ UNCHANGED local /\ UNCHANGED s3

\* path.read_bytes()
ReadBytes(u) ==
    /\ upload[u].pc = "read"
    /\ upload' = [upload EXCEPT ![u] = [@ EXCEPT !.pc = "put", !.content = file[upload[u].table]]]
    /\ UNCHANGED <<registrations, job>> /\ UNCHANGED local /\ UNCHANGED s3

\* Mutant: the response's checksum is not compared.
Unconfirmed(sent, read) == TRUE

\* The checksum that S3 computed of what it got is that of the bytes read.
Confirmed(sent, read) == sent = read

\* put-object --body <path> reads the file again; the version exists before its checksum is compared.
PutObject(u) ==
    LET t == upload[u].table
        sent == file[t]
        evidence == [version |-> Len(landing[t]) + 1, bytes |-> upload[u].content]
    IN
    /\ upload[u].pc = "put"
    /\ landing' = [landing EXCEPT ![t] = Append(@, sent)]
    /\ upload' = [upload EXCEPT ![u] =
         IF ~Confirmed(sent, @.content) THEN [@ EXCEPT !.pc = "failed"]
         ELSE [@ EXCEPT !.objects = Append(upload[u].objects, evidence), !.table = t + 1,
                        !.pc = IF t = NTables THEN "bind" ELSE "read"]]
    /\ UNCHANGED <<registrations, job, manifests, verified, overwrites, tampers>> /\ UNCHANGED local

\* bind_objects, the upload of the managed manifest, and the report.
Bind(u) ==
    LET body == [rows |-> upload[u].proof, objects |-> upload[u].objects] IN
    /\ upload[u].pc = "bind"
    /\ manifests' = Append(manifests, [body |-> body, identity_digest |-> body])
    /\ registrations' = registrations \cup
         {[version |-> Len(manifests) + 1, digest |-> body, quiet |-> upload[u].since = edits]}
    /\ upload' = [upload EXCEPT ![u].pc = "done"]
    /\ UNCHANGED <<job, landing, verified, overwrites, tampers>> /\ UNCHANGED local

-----------------------------------------------------------------------------
(* Whoever else may write to the landing bucket *)

Overwrite ==
    /\ overwrites < MaxOverwrite
    /\ overwrites' = overwrites + 1
    /\ \E t \in Tables, c \in Contents : landing' = [landing EXCEPT ![t] = Append(@, c)]
    /\ UNCHANGED <<manifests, verified, tampers, registrations, upload, job>> /\ UNCHANGED local

\* create_tampered_manifest: another version under the evidence of a registered one, and a digest
\* that fits; or a body that was edited and kept its digest.
Tamper ==
    /\ tampers < MaxTamper
    /\ tampers' = tampers + 1
    /\ \E r \in registrations, t \in Tables : \E v \in DOMAIN landing[t] :
         LET body == [r.digest EXCEPT !.objects[t].version = v] IN
         /\ body # r.digest
         /\ \E d \in {body, r.digest} : manifests' = Append(manifests, [body |-> body, identity_digest |-> d])
    /\ UNCHANGED <<landing, verified, overwrites, registrations, upload, job>> /\ UNCHANGED local

-----------------------------------------------------------------------------
(* The Glue job *)

Waiting == [pc |-> "idle", version |-> 0, digest |-> NoDigest, table |-> 1, used |-> {}]

Fail(j) == job' = [job EXCEPT ![j].pc = "failed"]

\* The arguments are those of an execution, which anybody may start with any of them.
StartJob(j) ==
    /\ job[j].pc = "idle"
    /\ \E v \in DOMAIN manifests, d \in {manifests[i].identity_digest : i \in DOMAIN manifests} \cup {NoDigest} :
         job' = [job EXCEPT ![j] = [@ EXCEPT !.pc = "manifest", !.version = v, !.digest = d]]
    /\ UNCHANGED <<registrations, upload>> /\ UNCHANGED local /\ UNCHANGED s3

\* supplied = computed = argument; the digest covers batch, contract and set of tables
ManifestAgrees(m, digest) == m.identity_digest = m.body /\ m.body = digest

GetManifest(j) ==
    /\ job[j].pc = "manifest"
    /\ IF ManifestAgrees(manifests[job[j].version], job[j].digest)
       THEN job' = [job EXCEPT ![j].pc = "head"] ELSE Fail(j)
    /\ UNCHANGED <<registrations, upload>> /\ UNCHANGED local /\ UNCHANGED s3

Registered(j) == job[j].digest.objects[job[j].table]

\* Mutant: the evidence of the object is not compared with its head.
Headless(j) == TRUE

\* head_object of the registered version: size, checksum and ETag
HeadAgrees(j) == landing[job[j].table][Registered(j).version] = Registered(j).bytes

HeadObject(j) ==
    /\ job[j].pc = "head"
    /\ IF HeadAgrees(j) THEN job' = [job EXCEPT ![j].pc = "copy"] ELSE Fail(j)
    /\ UNCHANGED <<registrations, upload>> /\ UNCHANGED local /\ UNCHANGED s3

\* Mutant: the copy takes the newest version of the key.
LatestVersion(j) == Len(landing[job[j].table])

\* The version named in CopySource.
SourceVersion(j) == Registered(j).version

\* One more version of a key that may be new.
Put(keys, k, content) ==
    [x \in DOMAIN keys \cup {k} |->
        LET old == IF x \in DOMAIN keys THEN keys[x] ELSE << >> IN
        IF x = k THEN Append(old, content) ELSE old]

\* copy_object, under the condition that the source has the ETag just seen
CopyObject(j) ==
    LET t == job[j].table
        source == landing[t][SourceVersion(j)]
        seen == landing[t][Registered(j).version]
    IN
    /\ job[j].pc = "copy"
    /\ IF source = seen
       THEN /\ verified' = Put(verified, <<job[j].digest, t>>, source)
            /\ job' = [job EXCEPT ![j].pc = "digest"]
       ELSE Fail(j) /\ UNCHANGED verified
    /\ UNCHANGED <<registrations, upload, landing, manifests, overwrites, tampers>> /\ UNCHANGED local

\* Mutant: only the number of rows is compared.
RowCountAgrees(j) ==
    RowsOf[landing[job[j].table][Registered(j).version]][1] = job[j].digest.rows[job[j].table][1]

\* verify_table_digest: get_object of the registered versions against rows and digest declared
DigestAgrees(j) == RowsOf[landing[job[j].table][Registered(j).version]] = job[j].digest.rows[job[j].table]

VerifyTableDigest(j) ==
    /\ job[j].pc = "digest"
    /\ IF DigestAgrees(j) THEN job' = [job EXCEPT ![j].pc = "count"] ELSE Fail(j)
    /\ UNCHANGED <<registrations, upload>> /\ UNCHANGED local /\ UNCHANGED s3

\* What spark.read.json of the verified key sees when an action of the frame runs: its newest version.
Frame(j, t) == LET versions == verified[<<job[j].digest, t>>] IN versions[Len(versions)]

\* frame.count()
Count(j) ==
    LET t == job[j].table
        seen == Frame(j, t)
    IN
    /\ job[j].pc = "count"
    /\ IF RowsOf[seen][1] = job[j].digest.rows[t][1]
       THEN job' = [job EXCEPT ![j] = [@ EXCEPT !.used = job[j].used \cup {<<t, seen>>},
                                     !.table = IF t = NTables THEN 1 ELSE t + 1,
                                     !.pc = IF t = NTables THEN "build" ELSE "head"]]
       ELSE Fail(j)
    /\ UNCHANGED <<registrations, upload>> /\ UNCHANGED local /\ UNCHANGED s3

\* The rules and the write of one table evaluate its frame again.
Build(j) ==
    LET t == job[j].table IN
    /\ job[j].pc = "build"
    /\ job' = [job EXCEPT ![j] = [@ EXCEPT !.used = job[j].used \cup {<<t, Frame(j, t)>>},
                                 !.table = t + 1, !.pc = IF t = NTables THEN "done" ELSE "build"]]
    /\ UNCHANGED <<registrations, upload>> /\ UNCHANGED local /\ UNCHANGED s3

-----------------------------------------------------------------------------
Init ==
    /\ file \in [Tables -> Contents]
    /\ proof = [t \in Tables |-> RowsOf[file[t]]]
    /\ landing = [t \in Tables |-> << >>]
    /\ manifests = << >>
    /\ registrations = {}
    /\ upload = [u \in Uploads |-> Idle]
    /\ job = [j \in Jobs |-> Waiting]
    /\ verified = [k \in {} |-> << >>]
    /\ edits = 0
    /\ overwrites = 0
    /\ tampers = 0

Upload(u) == StartUpload(u) \/ CheckTables(u) \/ ReadBytes(u) \/ PutObject(u) \/ Bind(u)

Job(j) ==
    \/ StartJob(j) \/ GetManifest(j) \/ HeadObject(j) \/ CopyObject(j)
    \/ VerifyTableDigest(j) \/ Count(j) \/ Build(j)

Next ==
    \/ EditFile \/ WriteManifest \/ Overwrite \/ Tamper
    \/ \E u \in Uploads : Upload(u)
    \/ \E j \in Jobs : Job(j)

Spec == Init /\ [][Next]_vars

-----------------------------------------------------------------------------
(* Properties *)

UploadState ==
    [pc : {"idle", "check", "read", "put", "bind", "done", "failed"}, table : Nat, since : Nat,
     proof : [Tables -> Rows] \cup {<< >>}, content : Contents \cup {<< >>}, objects : Seq(Evidence)]

JobState ==
    [pc : {"idle", "manifest", "head", "copy", "digest", "count", "build", "done", "failed"},
     version : Nat, digest : Body \cup {NoDigest}, table : Nat, used : SUBSET (Tables \X Contents)]

\* Types; a verified key is one of a digest and a table.
TypeOK ==
    /\ file \in [Tables -> Contents]
    /\ proof \in [Tables -> Rows]
    /\ landing \in [Tables -> Seq(Contents)]
    /\ manifests \in Seq([body : Body, identity_digest : Body])
    /\ registrations \subseteq [version : Nat, digest : Body, quiet : BOOLEAN]
    /\ upload \in [Uploads -> UploadState]
    /\ job \in [Jobs -> JobState]
    /\ DOMAIN verified \subseteq Body \X Tables
    /\ \A k \in DOMAIN verified : verified[k] \in Seq(Contents)
    /\ edits \in Nat

\* Whatever is overwritten, tampered with or edited at any time, an evaluation of a frame sees the
\* bytes that the execution's digest registered, and the records that manifest.json declared.
SparkReadsRegistered ==
    \A j \in Jobs : \A use \in job[j].used :
        /\ use[2] = job[j].digest.objects[use[1]].bytes
        /\ RowsOf[use[2]] = job[j].digest.rows[use[1]]

\* The key that Spark reads without a version never holds anything but the registered bytes,
\* although every run of the generation, failed and overlapping ones too, puts a version there.
VerifiedHoldsEvidence ==
    \A k \in DOMAIN verified : \A i \in DOMAIN verified[k] : verified[k][i] = k[1].objects[k[2]].bytes

\* A reported registration names a manifest version with that digest, and its evidence is that of the
\* versions it names, although another upload shares the keys and the path is read twice.
RegistrationHolds ==
    \A r \in registrations :
        /\ manifests[r.version].identity_digest = r.digest
        /\ \A t \in Tables : landing[t][r.digest.objects[t].version] = r.digest.objects[t].bytes

\* A registration of files that nobody changed meanwhile is never refused later, whatever is put
\* under its keys.
UndisturbedAccepted ==
    \A j \in Jobs : job[j].pc = "failed" =>
        ~\E r \in registrations : r.quiet /\ r.version = job[j].version /\ r.digest = job[j].digest
=============================================================================
