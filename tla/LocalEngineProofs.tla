------------------------- MODULE LocalEngineProofs -------------------------
(***************************************************************************)
(* Theorems about the local engine: AtlasEngine's publication, for any     *)
(* batches, contents and generations; and the rules of RetailQuality that  *)
(* decide which contents pass, for batches of any length that the          *)
(* generator and any number of edits can make.                             *)
(***************************************************************************)
EXTENDS AtlasEngine, RetailQuality, WellFoundedInduction, TLAPS

-----------------------------------------------------------------------------
(* The inductive invariant *)

\* An accepted manifest passed, and the generation of its batch holds its payload.
ManifestsInv ==
    \A b \in Batch : manifests[b] # NoItem =>
        /\ manifests[b].generation = GenerationId[b]
        /\ manifests[b].digest \in Passing
        /\ generations[GenerationId[b]] # NoItem
        /\ generations[GenerationId[b]].snapshot = manifests[b]

\* A generation in state.json has an accepted batch and its snapshot file.
GenerationsInv ==
    \A g \in Generation : generations[g] # NoItem =>
        /\ snapshots[g] = generations[g].snapshot
        /\ \E b \in Batch : GenerationId[b] = g /\ manifests[b] # NoItem

\* A build in progress is of a batch that is not yet accepted, and passed; a snapshot that
\* awaits its entry is the one just written.
BuildInv ==
    build # NoItem =>
        /\ manifests[build.batch] = NoItem
        /\ build.digest \in Passing
        /\ build.step = "commit" => snapshots[GenerationId[build.batch]] = PayloadOf(build)

PublishedInv == \A i \in 1..Len(published) : generations[published[i]] # NoItem

IInv ==
    /\ TypeOK
    /\ ManifestsInv
    /\ GenerationsInv
    /\ BuildInv
    /\ PublishedInv
    /\ PointerFollowsLog

\* The generation of a build in progress is not in state.json, although its snapshot may exist.
LEMMA BuildIsNew ==
  ASSUME IInv, build # NoItem
  PROVE  /\ build \in [batch : Batch, digest : Digest, step : {"stage", "commit"}]
         /\ GenerationId[build.batch] \in Generation
         /\ generations[GenerationId[build.batch]] = NoItem
<1>1. build \in [batch : Batch, digest : Digest, step : {"stage", "commit"}]
  BY DEF IInv, TypeOK
<1>2. GenerationId[build.batch] \in Generation
  BY <1>1, EngineAssumption
<1>3. ASSUME NEW b \in Batch, GenerationId[b] = GenerationId[build.batch]
      PROVE  manifests[b] = NoItem
  BY <1>1, <1>3, EngineAssumption DEF IInv, BuildInv
<1>. QED  BY <1>1, <1>2, <1>3 DEF IInv, GenerationsInv

LEMMA InitIInv == Init => IInv
  BY DEF Init, IInv, TypeOK, ManifestsInv, GenerationsInv, BuildInv, PublishedInv,
         PointerFollowsLog

LEMMA BeginBuildIInv ==
  ASSUME IInv, NEW b \in Batch, NEW d \in Digest, BeginBuild(b, d)
  PROVE  IInv'
<1>1. build' = [batch |-> b, digest |-> d, step |-> "stage"] /\ UNCHANGED <<state, snapshots, published>>
  BY DEF BeginBuild
<1>2. TypeOK'
  BY <1>1 DEF IInv, TypeOK, state
<1>3. BuildInv'
  BY <1>1 DEF BuildInv, BeginBuild, Accepted, Passes, state
<1>. QED
  BY <1>1, <1>2, <1>3
     DEF IInv, ManifestsInv, GenerationsInv, PublishedInv, PointerFollowsLog, state

LEMMA CommitSnapshotIInv ==
  ASSUME IInv, CommitSnapshot
  PROVE  IInv'
<1> DEFINE g == GenerationId[build.batch]
<1>1. /\ build \in [batch : Batch, digest : Digest, step : {"stage", "commit"}]
      /\ g \in Generation
      /\ generations[g] = NoItem
  BY BuildIsNew DEF CommitSnapshot
<1>2. /\ snapshots' = [snapshots EXCEPT ![g] = PayloadOf(build)]
      /\ build' = [build EXCEPT !.step = "commit"]
      /\ UNCHANGED <<state, published>>
  BY DEF CommitSnapshot
<1>3. PayloadOf(build) \in Payload /\ PayloadOf(build') = PayloadOf(build)
  BY <1>1, <1>2 DEF PayloadOf, Payload
<1>4. build' \in [batch : Batch, digest : Digest, step : {"stage", "commit"}]
  BY <1>1, <1>2
<1>5. TypeOK'
  BY <1>1, <1>2, <1>3, <1>4 DEF IInv, TypeOK, state
<1>6. BuildInv'
  <2>1. snapshots'[g] = PayloadOf(build)
    BY <1>1, <1>2 DEF IInv, TypeOK
  <2>2. build'.batch = build.batch /\ build'.digest = build.digest
    BY <1>1, <1>2
  <2>. QED  BY <1>2, <1>3, <2>1, <2>2 DEF IInv, BuildInv, CommitSnapshot, state
<1>7. GenerationsInv'
  BY <1>1, <1>2 DEF IInv, GenerationsInv, TypeOK, state
<1>. QED
  BY <1>2, <1>5, <1>6, <1>7 DEF IInv, ManifestsInv, PublishedInv, PointerFollowsLog, state

LEMMA CommitBuildIInv ==
  ASSUME IInv, CommitBuild
  PROVE  IInv'
<1> DEFINE b == build.batch
           g == GenerationId[b]
           entry == [status |-> "ready", snapshot |-> PayloadOf(build)]
<1>1. /\ build \in [batch : Batch, digest : Digest, step : {"stage", "commit"}]
      /\ g \in Generation
      /\ generations[g] = NoItem
  BY BuildIsNew DEF CommitBuild
<1>2. /\ generations' = [generations EXCEPT ![g] = entry]
      /\ manifests' = [manifests EXCEPT ![b] = PayloadOf(build)]
      /\ build' = NoItem
      /\ UNCHANGED <<active, pointer_version, snapshots, published>>
  BY DEF CommitBuild
<1>3. PayloadOf(build) \in Payload /\ entry \in Entry
  BY <1>1 DEF PayloadOf, Payload, Entry
<1>4. /\ PayloadOf(build).generation = g /\ PayloadOf(build).digest = build.digest
      /\ PayloadOf(build) # NoItem /\ entry # NoItem
  BY <1>3, EngineAssumption DEF PayloadOf, Payload, Entry
<1>5. /\ b \in Batch
      /\ manifests'[b] = PayloadOf(build) /\ generations'[g] = entry
      /\ \A x \in Batch \ {b} : manifests'[x] = manifests[x]
      /\ \A x \in Generation \ {g} : generations'[x] = generations[x]
  BY <1>1, <1>2 DEF IInv, TypeOK
<1>6. TypeOK'
  BY <1>1, <1>2, <1>3 DEF IInv, TypeOK
<1>7. ManifestsInv'
  <2>1. \A x \in Batch : manifests[x] # NoItem => GenerationId[x] \in Generation \ {g}
    BY <1>1, EngineAssumption DEF IInv, ManifestsInv
  <2>2. build.digest \in Passing
    BY DEF IInv, BuildInv, CommitBuild
  <2>. QED  BY <1>4, <1>5, <2>1, <2>2 DEF IInv, ManifestsInv
<1>8. GenerationsInv'
  <2>1. snapshots'[g] = generations'[g].snapshot
    BY <1>2, <1>5 DEF IInv, BuildInv, CommitBuild
  <2>2. \A x \in Batch : manifests[x] # NoItem => manifests'[x] # NoItem
    BY <1>4, <1>5
  <2>. QED  BY <1>2, <1>4, <1>5, <2>1, <2>2 DEF IInv, GenerationsInv
<1>9. PublishedInv'
  BY <1>1, <1>2, <1>4, <1>5 DEF IInv, PublishedInv, TypeOK
<1>10. PointerFollowsLog'
  <2>1. \A i \in 1..Len(published) : published[i] # g
    BY <1>1 DEF IInv, PublishedInv
  <2>2. active # g
    BY <1>1, <2>1, EngineAssumption DEF IInv, TypeOK, PointerFollowsLog
  <2>. QED  BY <1>2, <1>5, <2>1, <2>2 DEF IInv, PointerFollowsLog
<1>. QED  BY <1>6, <1>7, <1>8, <1>9, <1>10, <1>2 DEF IInv, BuildInv

LEMMA PublishIInv ==
  ASSUME IInv, NEW g \in Generation, NEW expected \in 0..pointer_version, Publish(g, expected)
  PROVE  IInv'
<1>1. /\ build = NoItem /\ generations[g] # NoItem /\ generations[g].status = "ready"
      /\ generations' = Replaced(g)
      /\ active' = g
      /\ pointer_version' = pointer_version + 1
      /\ published' = Append(published, g)
      /\ UNCHANGED <<manifests, snapshots, build>>
  BY DEF Publish, Ready
<1>2. /\ published \in Seq(Generation) /\ published' \in Seq(Generation)
      /\ Len(published') = Len(published) + 1
      /\ \A i \in 1..Len(published) : published'[i] = published[i]
      /\ published'[Len(published) + 1] = g
      /\ published' # << >>
  BY <1>1 DEF IInv, TypeOK
<1>3. g # active /\ \A i \in 1..Len(published) : published[i] # g
  BY <1>1 DEF IInv, PointerFollowsLog
<1>4. active \in Generation => generations[active] # NoItem
  BY <1>2, EngineAssumption DEF IInv, PublishedInv, PointerFollowsLog
<1>5. \A x \in Generation :
        /\ generations[x] # NoItem <=> generations'[x] # NoItem
        /\ generations[x] # NoItem =>
             /\ generations'[x] \in Entry
             /\ generations'[x].snapshot = generations[x].snapshot
             /\ generations'[x].status = IF x = g THEN "active"
                   ELSE IF x = active THEN "retained" ELSE generations[x].status
  <2> SUFFICES ASSUME NEW x \in Generation
               PROVE  /\ generations[x] # NoItem <=> generations'[x] # NoItem
                      /\ generations[x] # NoItem =>
                           /\ generations'[x] \in Entry
                           /\ generations'[x].snapshot = generations[x].snapshot
                           /\ generations'[x].status = IF x = g THEN "active"
                                 ELSE IF x = active THEN "retained" ELSE generations[x].status
    OBVIOUS
  <2>1. generations[x] \in Entry \cup {NoItem}
    BY DEF IInv, TypeOK
  <2>2. NoItem \notin Entry
    BY EngineAssumption DEF Entry, Payload
  <2>3. CASE x \in {g, active}
    <3>1. generations[x] \in Entry
      BY <1>1, <1>4, <2>1, <2>3
    <3>2. generations'[x] = [generations[x] EXCEPT !.status = IF x = g THEN "active" ELSE "retained"]
      BY <1>1, <2>3, <3>1 DEF Replaced
    <3>. QED  BY <2>2, <2>3, <3>1, <3>2 DEF Entry
  <2>4. CASE x \notin {g, active}
    BY <1>1, <2>1, <2>2, <2>4 DEF Replaced
  <2>. QED  BY <2>3, <2>4
<1>6. TypeOK'
  <2>1. generations' \in [Generation -> Entry \cup {NoItem}]
    BY <1>1, <1>5 DEF Replaced
  <2>. QED  BY <1>1, <1>2, <2>1 DEF IInv, TypeOK
<1>7. ManifestsInv'
  BY <1>1, <1>5, EngineAssumption DEF IInv, ManifestsInv
<1>8. GenerationsInv'
  BY <1>1, <1>5 DEF IInv, GenerationsInv
<1>9. PublishedInv'
  <2>1. \A i \in 1..Len(published') : published'[i] \in Generation /\ generations[published'[i]] # NoItem
    BY <1>1, <1>2 DEF IInv, PublishedInv
  <2>. QED  BY <1>5, <2>1 DEF PublishedInv
<1>10. PointerFollowsLog'
  <2>1. pointer_version' = Len(published') /\ active' = published'[Len(published')]
    BY <1>1, <1>2 DEF IInv, PointerFollowsLog
  <2>2. ASSUME NEW x \in Generation, generations'[x] # NoItem
        PROVE  generations'[x].status = IF x = g THEN "active"
                  ELSE IF \E i \in 1..Len(published') : published'[i] = x THEN "retained" ELSE "ready"
    <3>1. (\E i \in 1..Len(published) : published[i] = x) \/ x = g
             <=> \E i \in 1..Len(published') : published'[i] = x
      BY <1>2
    <3>2. x = active => \E i \in 1..Len(published) : published[i] = x
      BY <1>2, EngineAssumption DEF IInv, PointerFollowsLog
    <3>. QED  BY <1>5, <2>2, <3>1, <3>2 DEF IInv, PointerFollowsLog
  <2>. QED  BY <1>1, <1>2, <2>1, <2>2 DEF PointerFollowsLog
<1>11. BuildInv'
  BY <1>1 DEF BuildInv
<1>. QED  BY <1>6, <1>7, <1>8, <1>9, <1>10, <1>11 DEF IInv

\* IInv holds in every reachable state, whatever builds die between their two files.
THEOREM EngineInvariance == Spec => []IInv
<1>1. IInv /\ [Next]_vars => IInv'
  <2>1. ASSUME IInv, AbortBuild  PROVE IInv'
    BY <2>1 DEF AbortBuild, IInv, TypeOK, ManifestsInv, GenerationsInv, BuildInv, PublishedInv,
                PointerFollowsLog, state
  <2>2. ASSUME IInv, UNCHANGED vars  PROVE IInv'
    BY <2>2 DEF vars, IInv, TypeOK, ManifestsInv, GenerationsInv, BuildInv, PublishedInv,
                PointerFollowsLog, state
  <2>. QED
    BY <2>1, <2>2, BeginBuildIInv, CommitSnapshotIInv, CommitBuildIInv, PublishIInv DEF Next
<1>. QED  BY <1>1, InitIInv, PTL DEF Spec

-----------------------------------------------------------------------------
(* What follows *)

\* assert_consistent never raises, for any batches, contents and crashes of builds.
THEOREM ConsistencyTheorem == Spec => []Consistent
<1>1. IInv => Consistent
  <2>1. IInv => (active # NoItem => generations[active] # NoItem)
    BY DEF IInv, PublishedInv, PointerFollowsLog, TypeOK
  <2>. QED  BY <2>1 DEF IInv, GenerationsInv, Consistent
<1>. QED  BY <1>1, EngineInvariance, PTL

\* What is served passed validate() under its own batch.
THEOREM ServedTheorem == Spec => []ServedPassed
<1>1. ASSUME IInv, active # NoItem
      PROVE  \E b \in Batch : /\ manifests[b] # NoItem
                              /\ manifests[b].generation = active
                              /\ manifests[b] = snapshots[active]
                              /\ snapshots[active].digest \in Passing
  <2>1. active \in Generation /\ generations[active] # NoItem
    BY <1>1 DEF IInv, PublishedInv, PointerFollowsLog, TypeOK
  <2>2. PICK b \in Batch : GenerationId[b] = active /\ manifests[b] # NoItem
    BY <1>1, <2>1 DEF IInv, GenerationsInv
  <2>. QED  BY <1>1, <2>1, <2>2 DEF IInv, GenerationsInv, ManifestsInv
<1>. QED  BY <1>1, EngineInvariance, PTL DEF ServedPassed

LEMMA RefinesAccept ==
  ASSUME IInv, CommitBuild
  PROVE  Abstract!Next
<1>0. PICK b \in Batch, d \in Digest : build.batch = b /\ build.digest = d
  BY BuildIsNew DEF CommitBuild
<1> DEFINE g == GenerationId[b]
           id == [x \in Batch |-> Identity(x)]
<1>1. g \in Generation /\ generations[g] = NoItem /\ manifests[b] = NoItem
  BY <1>0, BuildIsNew DEF CommitBuild, IInv, BuildInv
<1>2. manifests' = [manifests EXCEPT ![b] = [generation |-> g, digest |-> d]] /\ UNCHANGED published
  BY <1>0 DEF CommitBuild, PayloadOf
<1>3. id[b] = NoItem
  BY <1>1 DEF Identity
<1>4. ([x \in Batch |-> [y \in Digest |-> GenerationId[x]]])[b][d] = g
  BY <1>1
<1>5. g \notin Abstract!Accepted
  <2>1. ASSUME NEW x \in Batch, id[x] # NoItem  PROVE id[x].generation # g
    <3>1. manifests[x] # NoItem /\ id[x].generation = manifests[x].generation
      BY <2>1 DEF Identity
    <3>. QED  BY <1>1, <3>1 DEF IInv, ManifestsInv
  <2>. QED  BY <2>1 DEF Abstract!Accepted
<1>6. id' = [id EXCEPT ![b] = [generation |-> g, digest |-> d, location |-> "local"]]
  <2>1. manifests'[b] # NoItem /\ manifests'[b] = [generation |-> g, digest |-> d]
    BY <1>1, <1>2, EngineAssumption DEF IInv, TypeOK
  <2>2. \A x \in Batch \ {b} : manifests'[x] = manifests[x]
    BY <1>2 DEF IInv, TypeOK
  <2>3. Identity(b)' = [generation |-> g, digest |-> d, location |-> "local"]
    BY <2>1 DEF Identity
  <2>4. \A x \in Batch \ {b} : Identity(x)' = Identity(x)
    BY <2>2 DEF Identity
  <2>. QED  BY <2>3, <2>4
<1>7. Abstract!Accept(b, d, "local")
  BY <1>2, <1>3, <1>4, <1>5, <1>6 DEF Abstract!Accept
<1>. QED  BY <1>1, <1>7 DEF Abstract!Next

LEMMA RefinesPublish ==
  ASSUME IInv, NEW g \in Generation, NEW expected \in 0..pointer_version, Publish(g, expected)
  PROVE  Abstract!Next
<1>1. generations[g] # NoItem /\ generations[g].status = "ready" /\ manifests' = manifests
      /\ published' = Append(published, g)
  BY DEF Publish, Ready
<1>2. PICK b \in Batch : GenerationId[b] = g /\ manifests[b] # NoItem
  BY <1>1 DEF IInv, GenerationsInv
<1>3. manifests[b] \in Payload /\ manifests[b].generation = g
  BY <1>2 DEF IInv, ManifestsInv, TypeOK
<1>4. Identity(b) # NoItem /\ Identity(b).generation = g
  BY <1>2, <1>3, EngineAssumption DEF Identity, Payload
<1>5. g \in Abstract!Accepted
  BY <1>4 DEF Abstract!Accepted
<1>6. g \notin Abstract!Entries(published)
  BY <1>1 DEF Abstract!Entries, IInv, PointerFollowsLog
<1>7. [x \in Batch |-> Identity(x)]' = [x \in Batch |-> Identity(x)]
  BY <1>1 DEF Identity
<1>8. Abstract!Publish(g)
  BY <1>1, <1>5, <1>6, <1>7 DEF Abstract!Publish
<1>. QED  BY <1>8 DEF Abstract!Next

\* The engine, with its snapshot and state written separately, implements the publication log
\* that the control plane implements too.
THEOREM EngineRefinement == Spec => ImplementsPublication
<1>1. Init => Abstract!Init
  BY DEF Init, Abstract!Init, Identity
<1>2. IInv /\ [Next]_vars => [Abstract!Next]_(Abstract!vars)
  <2>1. ASSUME UNCHANGED <<manifests, published>>  PROVE UNCHANGED Abstract!vars
    BY <2>1 DEF Abstract!vars, Identity
  <2>2. ASSUME NEW b \in Batch, NEW d \in Digest, BeginBuild(b, d)
        PROVE  UNCHANGED <<manifests, published>>
    BY <2>2 DEF BeginBuild, state
  <2>3. CASE CommitSnapshot \/ AbortBuild \/ UNCHANGED vars
    BY <2>1, <2>3 DEF CommitSnapshot, AbortBuild, vars, state
  <2>. QED  BY <2>1, <2>2, <2>3, RefinesAccept, RefinesPublish DEF Next
<1>. QED  BY <1>1, <1>2, EngineInvariance, PTL DEF Spec, ImplementsPublication, Abstract!Spec

-----------------------------------------------------------------------------
(* Induction and sums *)

\* Induction over the numbers, stated of a set: a set that holds 0 and every successor of its
\* numbers holds all of them.
LEMMA EveryNumber ==
  ASSUME NEW T, 0 \in T, \A n \in Nat : n \in T => n + 1 \in T
  PROVE  \A n \in Nat : n \in T
<1> DEFINE R == OpToRel(<, Nat)  Rest == {n \in Nat : n \notin T}
<1>1. IsWellFoundedOn(R, Nat)
  BY NatLessThanWellFounded
<1>2. Rest \subseteq Nat
  OBVIOUS
<1>3. ASSUME Rest # {}
      PROVE  \E x \in Rest : \A y \in Rest : ~(<<y, x>> \in R)
  <2> HIDE DEF R, Rest
  <2> QED
    BY <1>1, <1>2, <1>3, WFMin
<1>4. \A x, y \in Nat : y < x => <<y, x>> \in R
  BY DEF OpToRel
<1>5. ASSUME Rest # {}
      PROVE  FALSE
  <2>1. PICK x \in Rest : \A y \in Rest : ~(<<y, x>> \in R)
    BY <1>3, <1>5
  <2>2. x \in Nat /\ x \notin T /\ x # 0
    BY <2>1
  <2>3. x - 1 \in Nat /\ x - 1 < x /\ (x - 1) + 1 = x
    BY <2>2
  <2>4. x - 1 \in Rest
    BY <2>2, <2>3
  <2> QED
    BY <2>1, <2>2, <2>3, <2>4, <1>4
<1> QED
  BY <1>5

\* s holds the partial sums of v.
Sums(s, v) ==
    /\ s \in [0..Len(v) -> Int]
    /\ s[0] = 0
    /\ \A n \in 1..Len(v) : s[n] = s[n - 1] + v[n]

\* Every sequence of integers has partial sums.
LEMMA SumsExist ==
  ASSUME NEW v \in Seq(Int)
  PROVE  \E s : Sums(s, v)
<1> DEFINE N == Len(v)
           Upto(n) == \E s \in [0..n -> Int] : s[0] = 0 /\ \A k \in 1..n : s[k] = s[k - 1] + v[k]
           T == {n \in Nat : n <= N => Upto(n)}
<1>1. N \in Nat /\ v \in [1..N -> Int]
  OBVIOUS
<1> HIDE DEF N
<1>2. 0 \in T
  <2>1. [k \in 0..0 |-> 0] \in [0..0 -> Int]
    OBVIOUS
  <2>2. [k \in 0..0 |-> 0][0] = 0 /\ \A k \in 1..0 : FALSE
    OBVIOUS
  <2>3. Upto(0)
    BY <2>1, <2>2
  <2> QED
    BY <2>3
<1>3. ASSUME NEW n \in Nat, n \in T
      PROVE  n + 1 \in T
  <2>1. SUFFICES ASSUME n + 1 <= N PROVE Upto(n + 1)
    OBVIOUS
  <2>a. Upto(n)
    <3> HIDE DEF Upto
    <3> QED
      BY <1>1, <1>3, <2>1
  <2>2. PICK s \in [0..n -> Int] : s[0] = 0 /\ \A k \in 1..n : s[k] = s[k - 1] + v[k]
    BY <2>a
  <2> DEFINE t == [k \in 0..(n + 1) |-> IF k = n + 1 THEN s[n] + v[n + 1] ELSE s[k]]
  <2>3. t \in [0..(n + 1) -> Int]
    BY <1>1, <2>1, <2>2
  <2>4. t[0] = 0
    BY <2>2
  <2>5. ASSUME NEW k \in 1..(n + 1)
        PROVE  t[k] = t[k - 1] + v[k]
    <3>1. CASE k = n + 1
      BY <3>1
    <3>2. CASE k # n + 1
      BY <2>2, <3>2
    <3> QED
      BY <3>1, <3>2
  <2> QED
    BY <2>3, <2>4, <2>5
<1>4. \A n \in Nat : n \in T
  <2> HIDE DEF T
  <2> QED
    BY <1>2, <1>3, EveryNumber
<1>5. Upto(N)
  <2> HIDE DEF Upto
  <2> QED
    BY <1>1, <1>4
<1> QED
  BY <1>5 DEF Sums, N

\* Total is the last of the partial sums.
LEMMA TotalIs ==
  ASSUME NEW v \in Seq(Int), NEW s, Sums(s, v)
  PROVE  Total(v) = s[Len(v)]
<1> DEFINE N == Len(v)
           Step(t) == [n \in 0..N |-> IF n = 0 THEN 0 ELSE t[n - 1] + v[n]]
           c == CHOOSE t : t = Step(t)
           T == {n \in Nat : n <= N => c[n] = s[n]}
<1>1. N \in Nat /\ v \in [1..N -> Int]
  OBVIOUS
<1>2. Total(v) = c[N]
  BY DEF Total
<1>3. s = Step(s)
  BY <1>1 DEF Sums
<1>4. c = Step(c)
  BY <1>3
<1>5. \A n \in 0..N : c[n] = IF n = 0 THEN 0 ELSE c[n - 1] + v[n]
  <2> HIDE DEF c
  <2> QED
    BY <1>4
<1> HIDE DEF c
<1>6. 0 \in T
  BY <1>1, <1>5 DEF Sums
<1>7. ASSUME NEW n \in Nat, n \in T
      PROVE  n + 1 \in T
  BY <1>1, <1>5, <1>7 DEF Sums
<1>8. \A n \in Nat : n \in T
  <2> HIDE DEF T
  <2> QED
    BY <1>6, <1>7, EveryNumber
<1> QED
  BY <1>1, <1>2, <1>8

LEMMA TotalType ==
  ASSUME NEW v \in Seq(Int)
  PROVE  Total(v) \in Int
<1>1. PICK s : Sums(s, v)
  BY SumsExist
<1>2. Total(v) = s[Len(v)]
  BY <1>1, TotalIs
<1> QED
  BY <1>1, <1>2 DEF Sums

\* A sum does not depend on the order in which the rows are added up from either end.
LEMMA TotalReverse ==
  ASSUME NEW v \in Seq(Int), NEW w \in Seq(Int), Len(w) = Len(v),
         \A i \in 1..Len(v) : w[i] = v[(Len(v) - i) + 1]
  PROVE  Total(w) = Total(v)
<1> DEFINE N == Len(v)
<1>1. N \in Nat /\ Len(w) = N
  OBVIOUS
<1>2. PICK s : Sums(s, v)
  BY SumsExist
<1>3. /\ \A k \in 0..N : s[k] \in Int
      /\ s[0] = 0
      /\ \A k \in 1..N : s[k] = s[k - 1] + v[k]
  BY <1>2 DEF Sums
<1>4. \A k \in 1..N : w[k] = v[(N - k) + 1]
  OBVIOUS
<1> DEFINE r == [k \in 0..N |-> s[N] - s[N - k]]
<1>5. Sums(r, w)
  <2> HIDE DEF N
  <2>1. ASSUME NEW k \in 0..N
        PROVE  N - k \in 0..N
    BY <1>1
  <2>2. r \in [0..N -> Int]
    BY <1>1, <1>3, <2>1
  <2>3. r[0] = 0
    BY <1>1, <1>3
  <2>4. ASSUME NEW k \in 1..N
        PROVE  r[k] = r[k - 1] + w[k]
    <3>1. /\ N - k \in 0..N
          /\ (N - k) + 1 \in 1..N
          /\ ((N - k) + 1) - 1 = N - k
          /\ N - (k - 1) = (N - k) + 1
          /\ k \in 0..N /\ k - 1 \in 0..N
          /\ N \in 0..N
      BY <1>1
    <3>2. w[k] = v[(N - k) + 1]
      BY <1>4
    <3>3. s[(N - k) + 1] = s[N - k] + v[(N - k) + 1]
      BY <1>3, <3>1
    <3>4. r[k] = s[N] - s[N - k] /\ r[k - 1] = s[N] - s[(N - k) + 1]
      BY <3>1
    <3>5. s[N] \in Int /\ s[N - k] \in Int /\ s[(N - k) + 1] \in Int
      BY <1>3, <3>1, SMTT(30)
    <3>6. v[(N - k) + 1] \in Int
      BY <1>1, <3>1 DEF N
    <3> HIDE DEF r
    <3> QED
      BY <3>2, <3>3, <3>4, <3>5, <3>6, SMTT(30)
  <2> QED
    BY <1>1, <2>2, <2>3, <2>4 DEF Sums
<1>6. Total(w) = r[N] /\ Total(v) = s[N]
  BY <1>1, <1>2, <1>5, TotalIs
<1>7. r[N] = s[N] - s[0]
  BY <1>1
<1>8. s[N] \in Int
  BY <1>1, <1>3
<1> QED
  BY <1>3, <1>6, <1>7, <1>8
-----------------------------------------------------------------------------
(* Batches without Null and colons *)

Ids == {<<n>> : n \in Int}
Statuses == {"COMPLETED", "PLACED", "CAPTURED", "DECLINED"}
Currencies == {"INR", "EUR"}

OrderType == [order_id : Ids, order_ts : Int, status : Statuses, subtotal_cents : Int, tax_cents : Int,
              discount_cents : Int, total_cents : Int, currency : Currencies]
LineType == [order_id : Ids, line_id : Ids, product_id : Ids, quantity : Int,
             unit_price_cents : Int, line_total_cents : Int]
PaymentType == [payment_id : Int, order_id : Ids, amount_cents : Int, status : Statuses]
ReturnType == [return_id : Int, order_id : Ids, line_id : Ids, quantity : Int, refund_cents : Int]
MovementType == [movement_id : Int \X Int \X Int, product_id : Ids, store_id : Int,
                 quantity_delta : Int, movement_ts : Int]
ProductType == [product_id : Ids, effective_from : Int, effective_to : Int \cup {Null}, loaded_at : Int]

CleanBatch == [orders : Seq(OrderType), order_lines : Seq(LineType), payments : Seq(PaymentType),
               returns : Seq(ReturnType), inventory_movements : Seq(MovementType),
               products : Seq(ProductType)]

LEMMA CleanRows ==
  ASSUME NEW b \in CleanBatch
  PROVE  /\ b.orders \in Seq(OrderType)
         /\ b.order_lines \in Seq(LineType)
         /\ b.payments \in Seq(PaymentType)
         /\ b.returns \in Seq(ReturnType)
         /\ b.inventory_movements \in Seq(MovementType)
         /\ b.products \in Seq(ProductType)
  BY DEF CleanBatch

\* The rows of a table.
LEMMA RangeOf ==
  ASSUME NEW S, NEW s \in Seq(S)
  PROVE  /\ DOMAIN s = 1..Len(s)
         /\ Range(s) \subseteq S
         /\ \A i \in DOMAIN s : s[i] \in Range(s)
         /\ \A r \in Range(s) : \E i \in DOMAIN s : s[i] = r
  BY DEF Range

LEMMA CleanNumeric ==
  ASSUME NEW b \in CleanBatch
  PROVE  Numeric(b)
<1>1. \A x \in Int : x # Null
  BY BatchAssumption
<1>2. \A r \in Range(b.orders) : Null \notin {r.subtotal_cents, r.tax_cents, r.discount_cents, r.total_cents}
  <2>1. Range(b.orders) \subseteq OrderType
    BY CleanRows, RangeOf
  <2> QED
    BY <1>1, <2>1 DEF OrderType
<1>3. \A r \in Range(b.order_lines) : Null \notin {r.quantity, r.unit_price_cents, r.line_total_cents}
  <2>1. Range(b.order_lines) \subseteq LineType
    BY CleanRows, RangeOf
  <2> QED
    BY <1>1, <2>1 DEF LineType
<1>4. \A r \in Range(b.payments) : r.amount_cents # Null
  <2>1. Range(b.payments) \subseteq PaymentType
    BY CleanRows, RangeOf
  <2> QED
    BY <1>1, <2>1 DEF PaymentType
<1>5. \A r \in Range(b.returns) : Null \notin {r.quantity, r.refund_cents}
  <2>1. Range(b.returns) \subseteq ReturnType
    BY CleanRows, RangeOf
  <2> QED
    BY <1>1, <2>1 DEF ReturnType
<1>6. \A r \in Range(b.inventory_movements) : r.quantity_delta # Null
  <2>1. Range(b.inventory_movements) \subseteq MovementType
    BY CleanRows, RangeOf
  <2> QED
    BY <1>1, <2>1 DEF MovementType
<1> QED
  BY <1>2, <1>3, <1>4, <1>5, <1>6 DEF Numeric

\* Joining two identifiers of one part with a colon loses nothing.
LEMMA JoinedApart ==
  ASSUME NEW r \in LineType, NEW q \in LineType
  PROVE  JoinedLineKey(r) = JoinedLineKey(q) <=> LineKey(r) = LineKey(q)
<1>1. PICK a \in Int : r.order_id = <<a>>
  BY DEF LineType, Ids
<1>2. PICK c \in Int : r.line_id = <<c>>
  BY DEF LineType, Ids
<1>3. PICK d \in Int : q.order_id = <<d>>
  BY DEF LineType, Ids
<1>4. PICK e \in Int : q.line_id = <<e>>
  BY DEF LineType, Ids
<1>5. ASSUME NEW x \in Int, NEW y \in Int
      PROVE  (<<x>> \o <<y>>)[1] = x /\ (<<x>> \o <<y>>)[2] = y
  <2>1. <<x>> \in Seq(Int) /\ <<y>> \in Seq(Int) /\ Len(<<x>>) = 1 /\ Len(<<y>>) = 1
    OBVIOUS
  <2> QED
    BY <2>1
<1>6. LineKey(r) = LineKey(q) => JoinedLineKey(r) = JoinedLineKey(q)
  BY DEF JoinedLineKey, LineKey
<1>7. ASSUME JoinedLineKey(r) = JoinedLineKey(q)
      PROVE  LineKey(r) = LineKey(q)
  <2>1. <<a>> \o <<c>> = <<d>> \o <<e>>
    BY <1>1, <1>2, <1>3, <1>4, <1>7 DEF JoinedLineKey
  <2>2. a = d /\ c = e
    BY <1>5, <2>1
  <2> QED
    BY <1>1, <1>2, <1>3, <1>4, <2>2 DEF LineKey
<1> QED
  BY <1>6, <1>7

LEMMA SameRepeats ==
  ASSUME NEW b \in CleanBatch
  PROVE  Repeats([i \in DOMAIN b.order_lines |-> JoinedLineKey(b.order_lines[i])])
            <=> Repeats([i \in DOMAIN b.order_lines |-> LineKey(b.order_lines[i])])
<1>1. \A i \in DOMAIN b.order_lines : b.order_lines[i] \in LineType
  BY CleanRows
<1>2. \A i, j \in DOMAIN b.order_lines :
        JoinedLineKey(b.order_lines[i]) = JoinedLineKey(b.order_lines[j])
          <=> LineKey(b.order_lines[i]) = LineKey(b.order_lines[j])
  BY <1>1, JoinedApart
<1> QED
  BY <1>2, ZenonT(60) DEF Repeats, IsInjective

\* With every return counted, the two checks of returns look at the same rows.
LEMMA AllCounted ==
  ASSUME NEW b \in CleanBatch, \A r \in Range(b.returns) : HasLine(b, LineKey(r))
  PROVE  /\ Counted(b) = DOMAIN b.returns
         /\ {b.returns[i] : i \in Counted(b)} = Range(b.returns)
<1>1. \A i \in DOMAIN b.returns : b.returns[i] \in Range(b.returns)
  BY CleanRows, RangeOf
<1>2. Counted(b) = DOMAIN b.returns
  BY <1>1 DEF Counted
<1> QED
  BY <1>2 DEF Range

LEMMA MaxOfOne ==
  ASSUME NEW n \in Int
  PROVE  Max({n}) = n
  BY DEF Max

\* Where lines have different keys, the lookup gives the one line of a key.
LEMMA LineNamedIs ==
  ASSUME NEW b \in CleanBatch, ~Repeats([i \in DOMAIN b.order_lines |-> LineKey(b.order_lines[i])]),
         NEW l \in Range(b.order_lines)
  PROVE  LineNamed(b, LineKey(l)) = l
<1>1. PICK k \in DOMAIN b.order_lines : b.order_lines[k] = l
  BY CleanRows, RangeOf
<1>2. {i \in DOMAIN b.order_lines : LineKey(b.order_lines[i]) = LineKey(l)} = {k}
  BY <1>1 DEF Repeats, IsInjective
<1>3. k \in Int
  BY <1>1, CleanRows
<1> QED
  BY <1>1, <1>2, <1>3, MaxOfOne DEF LineNamed

\* A comparison of known values selects as it does in Python.
LEMMA CleanSelects ==
  ASSUME NEW b \in CleanBatch
  PROVE  /\ \A r \in Range(b.order_lines) : SparkInvalidLine(r) <=> InvalidLine(r)
         /\ \A r \in Range(b.order_lines) :
               SparkLineTotal(r) <=> r.line_total_cents # r.quantity * r.unit_price_cents
         /\ \A r \in Range(b.orders) :
               SparkOrderTotal(r) <=> r.subtotal_cents + r.tax_cents - r.discount_cents # r.total_cents
         /\ \A r \in Range(b.orders) : SparkSubtotal(b, r) <=> Subtotal(b, r.order_id) # r.subtotal_cents
         /\ \A r \in Range(b.orders) : SparkUnderpaid(b, r) <=> Underpaid(b, r)
         /\ \A r \in Range(b.returns) : SparkInvalidReturn(r) <=> InvalidReturn(r)
<1>1. Numeric(b)
  BY CleanNumeric
<1>2. \A r \in Range(b.order_lines) : SparkInvalidLine(r) <=> InvalidLine(r)
  BY <1>1 DEF Numeric, SparkInvalidLine
<1>3. \A r \in Range(b.order_lines) :
         SparkLineTotal(r) <=> r.line_total_cents # r.quantity * r.unit_price_cents
  BY <1>1 DEF Numeric, SparkLineTotal, Selects
<1>4. \A r \in Range(b.orders) :
         SparkOrderTotal(r) <=> r.subtotal_cents + r.tax_cents - r.discount_cents # r.total_cents
  BY <1>1 DEF Numeric, SparkOrderTotal, Selects
<1>5. \A r \in Range(b.orders) : SparkSubtotal(b, r) <=> Subtotal(b, r.order_id) # r.subtotal_cents
  BY <1>1 DEF Numeric, SparkSubtotal, Selects
<1>6. \A r \in Range(b.orders) : SparkUnderpaid(b, r) <=> Underpaid(b, r)
  BY <1>1 DEF Numeric, SparkUnderpaid, Selects
<1>7. \A r \in Range(b.returns) : SparkInvalidReturn(r) <=> InvalidReturn(r)
  BY <1>1 DEF Numeric, SparkInvalidReturn
<1> QED
  BY <1>2, <1>3, <1>4, <1>5, <1>6, <1>7

Codes == {"DUPLICATE_ID", "INVALID_LINE", "LINE_TOTAL", "ORDER_SUBTOTAL", "ORDER_TOTAL", "CURRENCY",
          "ORPHAN_PAYMENT", "UNDERPAID", "ORPHAN_RETURN", "INVALID_RETURN", "RETURN_QUANTITY",
          "EXCESS_REFUND", "NEGATIVE_INVENTORY", "ORPHAN_LINE", "MISSING_DIMENSION",
          "AMBIGUOUS_DIMENSION"}

\* Codes of checks that count on earlier ones.
Dependent == {"INVALID_RETURN", "RETURN_QUANTITY", "EXCESS_REFUND"}

LEMMA LocalDomain ==
  ASSUME NEW b
  PROVE  /\ DOMAIN LocalFinds(b) = Codes
         /\ \A c \in Codes : c \in LocalCodes(b) <=> LocalFinds(b)[c]
<1>1. DOMAIN LocalFinds(b) = Codes
  BY DEF LocalFinds, Codes
<1> QED
  BY <1>1 DEF LocalCodes

\* Code by code, the two rule sets find the same, the dependent checks given what they count on.
LEMMA IndependentAgree ==
  ASSUME NEW b \in CleanBatch, NEW c \in Codes \ Dependent
  PROVE  LocalFinds(b)[c] <=> SparkFinds(b)[c]
<1> USE DEF LocalFinds, SparkFinds
<1>1. CASE c = "DUPLICATE_ID"
  BY <1>1, SameRepeats DEF RepeatsIdentity
<1>2. CASE c = "INVALID_LINE"
  BY <1>2, CleanSelects
<1>3. CASE c = "LINE_TOTAL"
  BY <1>3, CleanSelects
<1>4. CASE c = "ORDER_SUBTOTAL"
  BY <1>4, CleanSelects
<1>5. CASE c = "ORDER_TOTAL"
  BY <1>5, CleanSelects
<1>6. CASE c = "UNDERPAID"
  BY <1>6, CleanSelects
<1>7. CASE c \in {"CURRENCY", "ORPHAN_PAYMENT", "ORPHAN_RETURN", "NEGATIVE_INVENTORY", "ORPHAN_LINE",
                  "MISSING_DIMENSION", "AMBIGUOUS_DIMENSION"}
  BY <1>7
<1> QED
  BY <1>1, <1>2, <1>3, <1>4, <1>5, <1>6, <1>7 DEF Codes, Dependent

LEMMA DependentAgree ==
  ASSUME NEW b \in CleanBatch, NEW c \in Dependent,
         ~LocalFinds(b)["ORPHAN_RETURN"],
         c = "RETURN_QUANTITY" => ~LocalFinds(b)["DUPLICATE_ID"]
  PROVE  LocalFinds(b)[c] <=> SparkFinds(b)[c]
<1>1. \A r \in Range(b.returns) : HasLine(b, LineKey(r))
  BY DEF LocalFinds
<1>2. Counted(b) = DOMAIN b.returns /\ {b.returns[i] : i \in Counted(b)} = Range(b.returns)
  BY <1>1, AllCounted
<1>3. CASE c = "INVALID_RETURN"
  BY <1>2, <1>3, CleanSelects DEF LocalFinds, SparkFinds
<1>4. CASE c = "EXCESS_REFUND"
  BY <1>2, <1>4 DEF LocalFinds, SparkFinds
<1>5. CASE c = "RETURN_QUANTITY"
  <2>1. ~Repeats([i \in DOMAIN b.order_lines |-> LineKey(b.order_lines[i])])
    BY <1>5, SameRepeats DEF LocalFinds, RepeatsIdentity
  <2>2. ASSUME NEW r \in Range(b.returns)
        PROVE  SparkReturnQuantity(b, r)
                 <=> ReturnedQuantity(b, Counted(b), LineKey(r)) > LineNamed(b, LineKey(r)).quantity
    <3>1. PICK l \in Range(b.order_lines) : LineKey(l) = LineKey(r)
      BY <1>1 DEF HasLine
    <3>2. \A m \in Range(b.order_lines) : LineKey(m) = LineKey(r) => m = LineNamed(b, LineKey(r))
      BY <2>1, LineNamedIs
    <3>3. l.quantity # Null
      BY CleanNumeric DEF Numeric
    <3> QED
      BY <1>2, <3>1, <3>2, <3>3 DEF SparkReturnQuantity
  <2>3. LocalFinds(b)["RETURN_QUANTITY"]
           <=> \E r \in Range(b.returns) :
                  ReturnedQuantity(b, Counted(b), LineKey(r)) > LineNamed(b, LineKey(r)).quantity
    BY <1>2 DEF LocalFinds
  <2>4. SparkFinds(b)["RETURN_QUANTITY"] <=> \E r \in Range(b.returns) : SparkReturnQuantity(b, r)
    BY DEF SparkFinds
  <2> QED
    BY <1>5, <2>2, <2>3, <2>4
<1> QED
  BY <1>3, <1>4, <1>5 DEF Dependent

\* The job's failure is the first check, in its order, that finds something.
LEMMA FirstFailure ==
  ASSUME NEW b
  PROVE  \/ /\ SparkFailure(b) = "none"
            /\ \A c \in Codes : ~SparkFinds(b)[c]
         \/ \E m \in 1..16 :
               /\ SparkFailure(b) = SparkOrder[m]
               /\ SparkFinds(b)[SparkOrder[m]]
               /\ \A i \in 1..16 : i < m => ~SparkFinds(b)[SparkOrder[i]]
<1> DEFINE failing == {i \in DOMAIN SparkOrder : SparkFinds(b)[SparkOrder[i]]}
<1>1. DOMAIN SparkOrder = 1..16
  BY DEF SparkOrder
<1>2. \A c \in Codes : \E i \in 1..16 : SparkOrder[i] = c
  BY DEF SparkOrder, Codes
<1>3. SparkFailure(b) = IF failing = {} THEN "none" ELSE SparkOrder[Min(failing)]
  BY SMTT(30) DEF SparkFailure
<1>4. CASE failing = {}
  BY <1>1, <1>2, <1>3, <1>4
<1>5. CASE failing # {}
  <2> DEFINE T == {n \in Nat : \A i \in failing : n < i}
  <2>1. \E m \in failing : \A i \in failing : m <= i
    <3>1. PICK k \in failing : TRUE
      BY <1>5
    <3>2. SUFFICES ASSUME \A m \in failing : \E i \in failing : i < m
                   PROVE  FALSE
      BY <1>1
    <3>3. 0 \in T
      BY <1>1
    <3>4. ASSUME NEW n \in Nat, n \in T
          PROVE  n + 1 \in T
      <4>1. \A i \in failing : n < i /\ i \in Nat
        BY <1>1, <3>4
      <4>2. \A i \in failing : i # n + 1
        BY <3>2, <4>1
      <4> HIDE DEF failing
      <4> QED
        BY <4>1, <4>2
    <3>5. k \in T
      <4>1. k \in Nat
        BY <1>1, <3>1
      <4> HIDE DEF T
      <4> QED
        BY <3>3, <3>4, <4>1, EveryNumber
    <3> QED
      BY <1>1, <3>1, <3>5
  <2>2. Min(failing) \in failing /\ \A i \in failing : Min(failing) <= i
    <3> HIDE DEF failing
    <3> QED
      BY <2>1 DEF Min
  <2>3. PICK m : m = Min(failing)
    BY SMTT(30)
  <2>4. m \in 1..16 /\ SparkFinds(b)[SparkOrder[m]]
    BY <1>1, <2>2, <2>3, Zenon
  <2>5. ASSUME NEW i \in 1..16, i < m
        PROVE  ~SparkFinds(b)[SparkOrder[i]]
    <3>1. i \notin failing
      <4> HIDE DEF failing
      <4> QED
        BY <2>2, <2>3, <2>4, <2>5
    <3> QED
      BY <1>1, <3>1
  <2>6. SparkFailure(b) = SparkOrder[m]
    BY <1>3, <1>5, <2>3
  <2> QED
    BY <2>4, <2>5, <2>6
<1> QED
  BY <1>4, <1>5

\* The statement of RulesAgree holds of every batch without Null and colons.
LEMMA CleanBatchesAgree ==
  ASSUME NEW b \in CleanBatch
  PROVE  LET failure == SparkFailure(b) IN
         /\ LocalPasses(b) <=> failure = "none"
         /\ Numeric(b) /\ failure # "none" => failure \in LocalCodes(b)
<1>1. Numeric(b)
  BY CleanNumeric
<1>2. LocalCodes(b) = {} <=> \A c \in Codes : ~LocalFinds(b)[c]
  <2>1. LocalCodes(b) \subseteq Codes
    BY LocalDomain DEF LocalCodes
  <2> QED
    BY <2>1, LocalDomain
<1>3. CASE SparkFailure(b) = "none" /\ \A c \in Codes : ~SparkFinds(b)[c]
  <2>1. \A c \in Codes \ Dependent : ~LocalFinds(b)[c]
    BY <1>3, IndependentAgree
  <2>2. ~LocalFinds(b)["ORPHAN_RETURN"] /\ ~LocalFinds(b)["DUPLICATE_ID"]
    BY <2>1 DEF Codes, Dependent
  <2>3. \A c \in Dependent : ~LocalFinds(b)[c]
    BY <1>3, <2>2, DependentAgree DEF Codes, Dependent
  <2>4. LocalCodes(b) = {}
    BY <1>2, <2>1, <2>3
  <2> QED
    BY <1>1, <1>3, <2>4 DEF LocalPasses
<1>4. CASE \E m \in 1..16 : /\ SparkFailure(b) = SparkOrder[m]
                            /\ SparkFinds(b)[SparkOrder[m]]
                            /\ \A i \in 1..16 : i < m => ~SparkFinds(b)[SparkOrder[i]]
  <2>1. PICK m \in 1..16 : /\ SparkFailure(b) = SparkOrder[m]
                           /\ SparkFinds(b)[SparkOrder[m]]
                           /\ \A i \in 1..16 : i < m => ~SparkFinds(b)[SparkOrder[i]]
    BY <1>4
  <2>2. SparkOrder[m] \in Codes
    BY DEF SparkOrder, Codes
  <2>3. LocalFinds(b)[SparkOrder[m]]
    <3>1. CASE SparkOrder[m] \notin Dependent
      BY <2>1, <2>2, <3>1, IndependentAgree
    <3>2. CASE SparkOrder[m] \in Dependent
      <4>1. m > 10
        BY <3>2 DEF SparkOrder, Dependent
      <4>2. SparkOrder[1] = "DUPLICATE_ID" /\ SparkOrder[10] = "ORPHAN_RETURN"
        BY DEF SparkOrder
      <4>3. ~SparkFinds(b)["DUPLICATE_ID"] /\ ~SparkFinds(b)["ORPHAN_RETURN"]
        BY <2>1, <4>1, <4>2
      <4>4. "DUPLICATE_ID" \in Codes \ Dependent /\ "ORPHAN_RETURN" \in Codes \ Dependent
        BY DEF Codes, Dependent
      <4>5. ~LocalFinds(b)["DUPLICATE_ID"] /\ ~LocalFinds(b)["ORPHAN_RETURN"]
        BY <4>3, <4>4, IndependentAgree
      <4> QED
        BY <2>1, <3>2, <4>5, DependentAgree
    <3> QED
      BY <3>1, <3>2
  <2>4. SparkOrder[m] \in LocalCodes(b)
    BY <2>2, <2>3, LocalDomain
  <2>5. SparkFailure(b) # "none" /\ ~LocalPasses(b)
    <3>1. "none" \notin Codes
      BY DEF Codes
    <3> QED
      BY <2>1, <2>2, <2>4, <3>1 DEF LocalPasses
  <2> QED
    BY <2>1, <2>4, <2>5
<1> QED
  BY <1>3, <1>4, FirstFailure

-----------------------------------------------------------------------------
(* Tables built row group by row group *)

\* f holds what FlattenSeq has joined after each element of s.
Joins(f, s, X) ==
    /\ f \in [0..Len(s) -> Seq(X)]
    /\ f[0] = << >>
    /\ \A n \in 1..Len(s) : f[n] = f[n - 1] \o s[n]

LEMMA JoinsExist ==
  ASSUME NEW X, NEW s \in Seq(Seq(X))
  PROVE  \E f : Joins(f, s, X)
<1> DEFINE N == Len(s)
           Upto(n) == \E f \in [0..n -> Seq(X)] :
                         f[0] = << >> /\ \A k \in 1..n : f[k] = f[k - 1] \o s[k]
           T == {n \in Nat : n <= N => Upto(n)}
<1>1. N \in Nat /\ s \in [1..N -> Seq(X)]
  OBVIOUS
<1> HIDE DEF N
<1>2. 0 \in T
  <2>1. << >> \in Seq(X)
    OBVIOUS
  <2>2. [k \in 0..0 |-> << >>] \in [0..0 -> Seq(X)]
    BY <2>1
  <2>3. [k \in 0..0 |-> << >>][0] = << >> /\ \A k \in 1..0 : FALSE
    OBVIOUS
  <2>4. Upto(0)
    BY <2>2, <2>3
  <2> QED
    BY <2>4
<1>3. ASSUME NEW n \in Nat, n \in T
      PROVE  n + 1 \in T
  <2>1. SUFFICES ASSUME n + 1 <= N PROVE Upto(n + 1)
    <3> HIDE DEF Upto
    <3> QED
      OBVIOUS
  <2>2. Upto(n)
    <3> HIDE DEF Upto
    <3> QED
      BY <1>1, <1>3, <2>1
  <2>3. PICK f \in [0..n -> Seq(X)] : f[0] = << >> /\ \A k \in 1..n : f[k] = f[k - 1] \o s[k]
    BY <2>2
  <2>4. PICK j : j = f[n] \o s[n + 1]
    OBVIOUS
  <2>5. j \in Seq(X)
    BY <1>1, <2>1, <2>3, <2>4
  <2> DEFINE t == [k \in 0..(n + 1) |-> IF k = n + 1 THEN j ELSE f[k]]
  <2>6. t \in [0..(n + 1) -> Seq(X)]
    BY <2>3, <2>5
  <2>7. t[0] = << >>
    BY <2>3
  <2>8. ASSUME NEW k \in 1..(n + 1)
        PROVE  t[k] = t[k - 1] \o s[k]
    <3>1. CASE k = n + 1
      <4>1. t[k] = j /\ t[k - 1] = f[n]
        BY <3>1
      <4> QED
        BY <2>4, <3>1, <4>1
    <3>2. CASE k # n + 1
      <4>1. k \in 1..n /\ t[k] = f[k] /\ t[k - 1] = f[k - 1]
        BY <3>2
      <4> QED
        BY <2>3, <4>1
    <3> QED
      BY <3>1, <3>2
  <2> QED
    BY <2>6, <2>7, <2>8
<1>4. \A n \in Nat : n \in T
  <2> HIDE DEF T
  <2> QED
    BY <1>2, <1>3, EveryNumber
<1>5. Upto(N)
  <2> HIDE DEF Upto
  <2> QED
    BY <1>1, <1>4
<1> QED
  BY <1>5 DEF Joins, N

LEMMA FlattenIs ==
  ASSUME NEW X, NEW s \in Seq(Seq(X)), NEW f, Joins(f, s, X)
  PROVE  FlattenSeq(s) = f[Len(s)]
<1> DEFINE N == Len(s)
           Step(t) == [n \in 1..N |-> IF n = 1 THEN s[n] ELSE t[n - 1] \o s[n]]
           c == CHOOSE t : t = Step(t)
           T == {n \in Nat : n + 1 <= N => c[n + 1] = f[n + 1]}
<1>1. N \in Nat /\ s \in [1..N -> Seq(X)]
  OBVIOUS
<1>2. CASE N = 0
  BY <1>2 DEF FlattenSeq, Joins
<1>3. CASE N # 0
  <2>1. FlattenSeq(s) = c[N]
    BY <1>3 DEF FlattenSeq
  <2>2. f[1] = s[1]
    <3>1. 1 \in 1..N /\ 1 - 1 = 0
      BY <1>1, <1>3
    <3>2. f[1] = f[0] \o s[1] /\ f[0] = << >> /\ s[1] \in Seq(X)
      BY <1>1, <3>1 DEF Joins
    <3> QED
      BY <3>2
  <2> DEFINE g == [n \in 1..N |-> f[n]]
  <2>3. g = Step(g)
    <3>1. ASSUME NEW n \in 1..N
          PROVE  g[n] = IF n = 1 THEN s[n] ELSE g[n - 1] \o s[n]
      <4>1. CASE n = 1
        BY <2>2, <4>1
      <4>2. CASE n # 1
        <5>1. n - 1 \in 1..N
          BY <1>1, <4>2
        <5> QED
          BY <4>2, <5>1, Zenon DEF Joins
      <4> QED
        BY <4>1, <4>2
    <3> QED
      BY <3>1
  <2>4. c = Step(c)
    <3> HIDE DEF g
    <3> QED
      BY <2>3, Zenon
  <2>5. \A n \in 1..N : c[n] = IF n = 1 THEN s[n] ELSE c[n - 1] \o s[n]
    <3> HIDE DEF c
    <3> QED
      BY <2>4
  <2> HIDE DEF c
  <2>6. 0 \in T
    BY <1>1, <1>3, <2>2, <2>5
  <2>7. ASSUME NEW n \in Nat, n \in T
        PROVE  n + 1 \in T
    <3>1. SUFFICES ASSUME (n + 1) + 1 <= N PROVE c[(n + 1) + 1] = f[(n + 1) + 1]
      OBVIOUS
    <3>2. c[n + 1] = f[n + 1]
      BY <1>1, <2>7, <3>1
    <3>3. (n + 1) + 1 \in 1..N /\ (n + 1) + 1 # 1 /\ ((n + 1) + 1) - 1 = n + 1
      BY <1>1, <3>1
    <3>4. c[(n + 1) + 1] = c[n + 1] \o s[(n + 1) + 1]
      BY <2>5, <3>3
    <3>5. f[(n + 1) + 1] = f[n + 1] \o s[(n + 1) + 1]
      BY <3>3 DEF Joins
    <3> QED
      BY <3>2, <3>4, <3>5
  <2>8. \A n \in Nat : n \in T
    <3> HIDE DEF T
    <3> QED
      BY <2>6, <2>7, EveryNumber
  <2>9. N - 1 \in Nat /\ (N - 1) + 1 = N
    BY <1>1, <1>3
  <2>10. N - 1 \in T
    <3> HIDE DEF T
    <3> QED
      BY <2>8, <2>9
  <2> QED
    BY <1>1, <2>1, <2>9, <2>10
<1> QED
  BY <1>2, <1>3

LEMMA RangeConcat ==
  ASSUME NEW X, NEW u \in Seq(X), NEW v \in Seq(X)
  PROVE  Range(u \o v) = Range(u) \cup Range(v)
<1>1. u \o v \in Seq(X) /\ Len(u \o v) = Len(u) + Len(v)
  OBVIOUS
<1>2. \A i \in 1..Len(u) : (u \o v)[i] = u[i]
  OBVIOUS
<1>3. \A i \in 1..Len(v) : (u \o v)[Len(u) + i] = v[i]
  OBVIOUS
<1>4. \A i \in 1..(Len(u) + Len(v)) : i \in 1..Len(u) \/ i - Len(u) \in 1..Len(v)
  OBVIOUS
<1>5. ASSUME NEW x \in Range(u \o v)
      PROVE  x \in Range(u) \cup Range(v)
  <2>1. PICK i \in 1..(Len(u) + Len(v)) : (u \o v)[i] = x
    BY <1>1, <1>5, RangeOf
  <2>2. CASE i \in 1..Len(u)
    BY <1>2, <2>1, <2>2, RangeOf
  <2>3. CASE i - Len(u) \in 1..Len(v)
    <3>1. Len(u) + (i - Len(u)) = i
      BY <2>1
    <3>2. v[i - Len(u)] = x
      BY <1>3, <2>1, <2>3, <3>1
    <3> QED
      BY <2>3, <3>2, RangeOf
  <2> QED
    BY <1>4, <2>2, <2>3
<1>6. Range(u) \subseteq Range(u \o v)
  <2>1. ASSUME NEW x \in Range(u) PROVE x \in Range(u \o v)
    <3>1. PICK i \in 1..Len(u) : u[i] = x
      BY RangeOf
    <3>2. i \in DOMAIN (u \o v) /\ (u \o v)[i] = x
      BY <1>1, <1>2, <3>1
    <3> QED
      BY <1>1, <3>2, RangeOf
  <2> QED
    BY <2>1
<1>7. Range(v) \subseteq Range(u \o v)
  <2>1. ASSUME NEW x \in Range(v) PROVE x \in Range(u \o v)
    <3>1. PICK i \in 1..Len(v) : v[i] = x
      BY RangeOf
    <3>2. Len(u) + i \in DOMAIN (u \o v) /\ (u \o v)[Len(u) + i] = x
      BY <1>1, <1>3, <3>1
    <3> QED
      BY <1>1, <3>2, RangeOf
  <2> QED
    BY <2>1
<1> QED
  BY <1>5, <1>6, <1>7

\* What has been joined so far are the elements of the groups so far.
LEMMA JoinsRange ==
  ASSUME NEW X, NEW s \in Seq(Seq(X)), NEW f, Joins(f, s, X), NEW m \in 0..Len(s)
  PROVE  \A x : x \in Range(f[m]) <=> \E i \in 1..m : x \in Range(s[i])
<1> DEFINE N == Len(s)
           Good(n) == \A x : x \in Range(f[n]) <=> \E i \in 1..n : x \in Range(s[i])
           T == {n \in Nat : n <= N => Good(n)}
<1>1. N \in Nat /\ s \in [1..N -> Seq(X)]
  OBVIOUS
<1>2. 0 \in T
  <2>1. Range(f[0]) = {}
    BY DEF Joins, Range
  <2>2. Good(0)
    BY <2>1
  <2> QED
    BY <2>2
<1>3. ASSUME NEW n \in Nat, n \in T
      PROVE  n + 1 \in T
  <2>1. SUFFICES ASSUME n + 1 <= N PROVE Good(n + 1)
    <3> HIDE DEF Good
    <3> QED
      OBVIOUS
  <2>2. Good(n)
    <3> HIDE DEF Good
    <3> QED
      BY <1>1, <1>3, <2>1
  <2>3. n \in 0..N /\ n + 1 \in 1..N /\ (n + 1) - 1 = n
    BY <1>1, <2>1
  <2>4. f[n + 1] = f[n] \o s[n + 1] /\ f[n] \in Seq(X) /\ s[n + 1] \in Seq(X)
    BY <1>1, <2>3 DEF Joins
  <2>5. Range(f[n + 1]) = Range(f[n]) \cup Range(s[n + 1])
    BY <2>4, RangeConcat
  <2>6. \A i \in 1..(n + 1) : i \in 1..n \/ i = n + 1
    OBVIOUS
  <2>7. 1..n \subseteq 1..(n + 1) /\ n + 1 \in 1..(n + 1)
    OBVIOUS
  <2> QED
    BY <2>2, <2>5, <2>6, <2>7
<1>4. \A n \in Nat : n \in T
  <2> HIDE DEF T
  <2> QED
    BY <1>2, <1>3, EveryNumber
<1>5. Good(m)
  <2> HIDE DEF Good
  <2> QED
    BY <1>1, <1>4
<1> QED
  BY <1>5

LEMMA FlattenRange ==
  ASSUME NEW X, NEW s \in Seq(Seq(X))
  PROVE  /\ FlattenSeq(s) \in Seq(X)
         /\ \A x : x \in Range(FlattenSeq(s)) <=> \E i \in DOMAIN s : x \in Range(s[i])
<1>1. PICK f : Joins(f, s, X)
  BY JoinsExist
<1>2. FlattenSeq(s) = f[Len(s)]
  BY <1>1, FlattenIs
<1>3. PICK m : m = Len(s)
  OBVIOUS
<1>4. m \in 0..Len(s) /\ DOMAIN s = 1..m
  BY <1>3
<1>5. f[m] \in Seq(X)
  BY <1>1, <1>4 DEF Joins
<1>6. \A x : x \in Range(f[m]) <=> \E i \in 1..m : x \in Range(s[i])
  BY <1>1, <1>4, JoinsRange
<1> QED
  BY <1>2, <1>3, <1>4, <1>5, <1>6

\* The rows of q have different keys.
Apart(q, key) == \A k, l \in DOMAIN q : key[q[k]] = key[q[l]] => k = l

LEMMA ConcatApart ==
  ASSUME NEW X, NEW u \in Seq(X), NEW v \in Seq(X), NEW key,
         Apart(u, key), Apart(v, key),
         \A x \in Range(u), y \in Range(v) : key[x] # key[y]
  PROVE  Apart(u \o v, key)
<1> DEFINE w == u \o v
<1>1. w \in Seq(X) /\ Len(w) = Len(u) + Len(v)
  OBVIOUS
<1>2. \A i \in 1..Len(u) : w[i] = u[i]
  OBVIOUS
<1>3. \A i \in 1..Len(w) : i \notin 1..Len(u) => i - Len(u) \in 1..Len(v) /\ w[i] = v[i - Len(u)]
  OBVIOUS
<1> HIDE DEF w
<1>4. SUFFICES ASSUME NEW k \in 1..Len(w), NEW l \in 1..Len(w), key[w[k]] = key[w[l]]
               PROVE  k = l
  BY <1>1, SMTT(30) DEF Apart, w
<1>5. \A i \in 1..Len(u) : u[i] \in Range(u)
  BY RangeOf
<1>6. \A i \in 1..Len(v) : v[i] \in Range(v)
  BY RangeOf
<1>7. CASE k \in 1..Len(u) /\ l \in 1..Len(u)
  BY <1>2, <1>4, <1>7 DEF Apart
<1>8. CASE k \notin 1..Len(u) /\ l \notin 1..Len(u)
  <2>1. k - Len(u) \in DOMAIN v /\ l - Len(u) \in DOMAIN v
    BY <1>3, <1>4, <1>8
  <2>2. key[v[k - Len(u)]] = key[v[l - Len(u)]]
    BY <1>3, <1>4, <1>8
  <2>3. k - Len(u) = l - Len(u)
    BY <2>1, <2>2 DEF Apart
  <2> QED
    BY <2>3
<1>9. CASE k \in 1..Len(u) /\ l \notin 1..Len(u)
  BY <1>2, <1>3, <1>4, <1>5, <1>6, <1>9
<1>10. CASE k \notin 1..Len(u) /\ l \in 1..Len(u)
  BY <1>2, <1>3, <1>4, <1>5, <1>6, <1>10
<1> QED
  BY <1>7, <1>8, <1>9, <1>10

LEMMA FlattenApart ==
  ASSUME NEW X, NEW s \in Seq(Seq(X)), NEW key,
         \A i \in DOMAIN s : Apart(s[i], key),
         \A i, j \in DOMAIN s : i # j => \A x \in Range(s[i]), y \in Range(s[j]) : key[x] # key[y]
  PROVE  Apart(FlattenSeq(s), key)
<1> DEFINE N == Len(s)
<1>1. N \in Nat /\ s \in [1..N -> Seq(X)]
  OBVIOUS
<1>2. PICK f : Joins(f, s, X)
  BY JoinsExist
<1> DEFINE T == {n \in Nat : n <= N => Apart(f[n], key)}
<1>3. 0 \in T
  <2>1. f[0] = << >>
    BY <1>2 DEF Joins
  <2> QED
    BY <2>1 DEF Apart
<1>4. ASSUME NEW n \in Nat, n \in T
      PROVE  n + 1 \in T
  <2>1. SUFFICES ASSUME n + 1 <= N PROVE Apart(f[n + 1], key)
    OBVIOUS
  <2>2. n \in 0..N /\ n + 1 \in 1..N /\ (n + 1) - 1 = n
    BY <1>1, <2>1
  <2>3. f[n + 1] = f[n] \o s[n + 1] /\ f[n] \in Seq(X) /\ s[n + 1] \in Seq(X)
    BY <1>1, <1>2, <2>2 DEF Joins
  <2>4. Apart(f[n], key)
    BY <1>1, <1>4, <2>1
  <2>5. Apart(s[n + 1], key)
    BY <1>1, <2>2
  <2>6. \A x : x \in Range(f[n]) <=> \E i \in 1..n : x \in Range(s[i])
    <3> HIDE DEF T
    <3> QED
      BY <1>2, <2>2, JoinsRange, ZenonT(60)
  <2>7. ASSUME NEW x \in Range(f[n]), NEW y \in Range(s[n + 1])
        PROVE  key[x] # key[y]
    <3>1. PICK i \in 1..n : x \in Range(s[i])
      BY <2>6
    <3>2. i \in DOMAIN s /\ n + 1 \in DOMAIN s /\ i # n + 1
      BY <1>1, <2>2, <3>1
    <3> QED
      BY <3>1, <3>2
  <2> QED
    BY <2>3, <2>4, <2>5, <2>7, ConcatApart
<1>5. \A n \in Nat : n \in T
  <2> HIDE DEF T
  <2> QED
    BY <1>3, <1>4, EveryNumber
<1>6. Apart(f[N], key)
  BY <1>1, <1>5
<1> QED
  BY <1>2, <1>6, FlattenIs

-----------------------------------------------------------------------------
(* More about sums *)

LEMMA TotalConcat ==
  ASSUME NEW v \in Seq(Int), NEW w \in Seq(Int)
  PROVE  Total(v \o w) = Total(v) + Total(w)
<1> DEFINE M == Len(v)  N == Len(w)
<1>1. M \in Nat /\ N \in Nat /\ v \o w \in Seq(Int) /\ Len(v \o w) = M + N
  OBVIOUS
<1>2. PICK s : Sums(s, v)
  BY SumsExist
<1>3. PICK t : Sums(t, w)
  BY SumsExist
<1>4. s[0] = 0 /\ \A k \in 0..M : s[k] \in Int
  BY <1>2 DEF Sums
<1>5. t[0] = 0 /\ \A k \in 0..N : t[k] \in Int
  BY <1>3 DEF Sums
<1>6. \A k \in 1..M : (v \o w)[k] = v[k] /\ s[k] = s[k - 1] + v[k]
  BY <1>2 DEF Sums
<1>7. \A k \in 1..N : (v \o w)[M + k] = w[k] /\ t[k] = t[k - 1] + w[k]
  BY <1>3 DEF Sums
<1> DEFINE r == [k \in 0..(M + N) |-> IF k <= M THEN s[k] ELSE s[M] + t[k - M]]
<1> HIDE DEF M, N
<1>8. r \in [0..(M + N) -> Int]
  <2>1. ASSUME NEW k \in 0..(M + N)
        PROVE  r[k] \in Int
    <3>1. CASE k <= M
      BY <1>1, <1>4, <3>1
    <3>2. CASE k > M
      <4>1. k - M \in 0..N /\ M \in 0..M
        BY <1>1, <3>2
      <4> QED
        BY <1>1, <1>4, <1>5, <3>2, <4>1
    <3> QED
      BY <1>1, <3>1, <3>2
  <2> QED
    BY <2>1
<1>9. r[0] = 0
  BY <1>1, <1>4
<1>10. ASSUME NEW k \in 1..(M + N)
       PROVE  r[k] = r[k - 1] + (v \o w)[k]
  <2>1. CASE k <= M
    <3>1. k \in 1..M /\ r[k] = s[k] /\ r[k - 1] = s[k - 1]
      BY <1>1, <2>1
    <3> QED
      BY <1>6, <3>1
  <2>2. CASE k > M
    <3>1. k - M \in 1..N /\ M + (k - M) = k /\ (k - M) - 1 = (k - 1) - M /\ (k - M) - 1 \in 0..N
          /\ M \in 0..M
      BY <1>1, <2>2
    <3>2. r[k] = s[M] + t[k - M]
      BY <1>1, <2>2
    <3>3. r[k - 1] = s[M] + t[(k - M) - 1]
      <4>1. CASE k - 1 = M
        <5>1. (k - M) - 1 = 0 /\ r[k - 1] = s[M]
          BY <1>1, <4>1
        <5> QED
          BY <1>4, <1>5, <3>1, <5>1, SMTT(30)
      <4>2. CASE k - 1 # M
        BY <1>1, <2>2, <3>1, <4>2
      <4> QED
        BY <4>1, <4>2
    <3>4. (v \o w)[k] = w[k - M] /\ t[k - M] = t[(k - M) - 1] + w[k - M]
      BY <1>7, <3>1
    <3>5. s[M] \in Int /\ t[k - M] \in Int /\ t[(k - M) - 1] \in Int /\ w[k - M] \in Int
      <4>1. k - M \in 0..N
        BY <3>1
      <4>2. s[M] \in Int /\ t[k - M] \in Int /\ t[(k - M) - 1] \in Int
        BY <1>4, <1>5, <3>1, <4>1
      <4>3. PICK m : m = k - M
        OBVIOUS
      <4>4. m \in 1..Len(w)
        BY <3>1, <4>3 DEF N
      <4>5. w[m] \in Int
        BY <4>4
      <4> QED
        BY <4>2, <4>3, <4>5
    <3> HIDE DEF r
    <3> QED
      BY <3>2, <3>3, <3>4, <3>5, SMTT(30)
  <2> QED
    BY <1>1, <2>1, <2>2
<1>11. Sums(r, v \o w)
  BY <1>1, <1>8, <1>9, <1>10 DEF Sums
<1>12. Total(v \o w) = r[M + N] /\ Total(v) = s[M] /\ Total(w) = t[N]
  BY <1>1, <1>2, <1>3, <1>11, TotalIs DEF M, N
<1>13. r[M + N] = s[M] + t[N]
  <2>1. CASE N = 0
    <3>1. r[M + N] = s[M] /\ M \in 0..M
      BY <1>1, <2>1
    <3> QED
      BY <1>4, <1>5, <2>1, <3>1
  <2>2. CASE N # 0
    <3>1. (M + N) - M = N /\ ~(M + N <= M)
      BY <1>1, <2>2
    <3> QED
      BY <1>1, <3>1
  <2> QED
    BY <2>1, <2>2
<1> QED
  BY <1>12, <1>13

\* A sum with one row that counts is that row.
LEMMA TotalOne ==
  ASSUME NEW v \in Seq(Int), NEW k \in 1..Len(v), \A i \in 1..Len(v) : i # k => v[i] = 0
  PROVE  Total(v) = v[k]
<1> DEFINE N == Len(v)
           s == [n \in 0..N |-> IF n < k THEN 0 ELSE v[k]]
<1>1. N \in Nat /\ v[k] \in Int /\ k \in 1..N
  OBVIOUS
<1>2. s \in [0..N -> Int] /\ s[0] = 0
  BY <1>1
<1>3. ASSUME NEW n \in 1..N
      PROVE  s[n] = s[n - 1] + v[n]
  <2>1. CASE n < k
    BY <1>1, <2>1
  <2>2. CASE n = k
    BY <1>1, <2>2
  <2>3. CASE n > k
    BY <1>1, <2>3
  <2> QED
    BY <1>1, <2>1, <2>2, <2>3
<1>4. Sums(s, v)
  BY <1>2, <1>3 DEF Sums
<1>5. Total(v) = s[N]
  BY <1>4, TotalIs
<1> QED
  BY <1>1, <1>5

LEMMA TotalZero ==
  ASSUME NEW v \in Seq(Int), \A i \in 1..Len(v) : v[i] = 0
  PROVE  Total(v) = 0
<1> DEFINE s == [n \in 0..Len(v) |-> 0]
<1>1. Sums(s, v)
  BY DEF Sums
<1> QED
  BY <1>1, TotalIs

\* Sums compare as their rows do.
LEMMA TotalMonotone ==
  ASSUME NEW v \in Seq(Int), NEW w \in Seq(Int), Len(v) = Len(w), \A i \in 1..Len(v) : v[i] <= w[i]
  PROVE  Total(v) <= Total(w)
<1> DEFINE N == Len(v)
<1>1. N \in Nat /\ Len(w) = N
  OBVIOUS
<1>2. PICK s : Sums(s, v)
  BY SumsExist
<1>3. PICK t : Sums(t, w)
  BY SumsExist
<1> DEFINE T == {n \in Nat : n <= N => s[n] <= t[n]}
<1>4. 0 \in T
  BY <1>2, <1>3 DEF Sums
<1>5. ASSUME NEW n \in Nat, n \in T
      PROVE  n + 1 \in T
  <2>1. SUFFICES ASSUME n + 1 <= N PROVE s[n + 1] <= t[n + 1]
    OBVIOUS
  <2>2. n \in 0..N /\ n + 1 \in 1..N /\ (n + 1) - 1 = n
    BY <1>1, <2>1
  <2>3. s[n + 1] = s[n] + v[n + 1] /\ s[n] \in Int
    BY <1>2, <2>2 DEF Sums
  <2>4. t[n + 1] = t[n] + w[n + 1] /\ t[n] \in Int
    BY <1>1, <1>3, <2>2 DEF Sums
  <2>5. v[n + 1] <= w[n + 1] /\ v[n + 1] \in Int /\ w[n + 1] \in Int
    BY <1>1, <2>2
  <2>6. s[n] <= t[n]
    BY <1>1, <1>5, <2>1
  <2> QED
    BY <2>3, <2>4, <2>5, <2>6, SMTT(30)
<1>6. \A n \in Nat : n \in T
  <2> HIDE DEF T
  <2> QED
    BY <1>4, <1>5, EveryNumber
<1>7. s[N] <= t[N]
  BY <1>1, <1>6
<1> QED
  BY <1>1, <1>2, <1>3, <1>7, TotalIs

LEMMA TotalAtLeast ==
  ASSUME NEW v \in Seq(Int), NEW k \in 1..Len(v), \A i \in 1..Len(v) : v[i] >= 0
  PROVE  Total(v) >= v[k]
<1> DEFINE w == [i \in 1..Len(v) |-> IF i = k THEN v[k] ELSE 0]
<1>1. w \in Seq(Int) /\ Len(w) = Len(v)
  OBVIOUS
<1>2. \A i \in 1..Len(v) : w[i] <= v[i]
  OBVIOUS
<1>3. w[k] = v[k] /\ \A i \in 1..Len(w) : i # k => w[i] = 0
  BY <1>1
<1> HIDE DEF w
<1>4. Total(w) = v[k]
  BY <1>1, <1>3, TotalOne
<1>5. Total(w) <= Total(v)
  BY <1>1, <1>2, TotalMonotone
<1>6. v[k] \in Int /\ Total(v) \in Int
  BY TotalType
<1> QED
  BY <1>4, <1>5, <1>6

LEMMA TotalAtMostZero ==
  ASSUME NEW v \in Seq(Int), \A i \in 1..Len(v) : v[i] <= 0
  PROVE  Total(v) <= 0
<1> DEFINE w == [i \in 1..Len(v) |-> 0]
<1>1. w \in Seq(Int) /\ Len(w) = Len(v) /\ \A i \in 1..Len(w) : w[i] = 0
  OBVIOUS
<1>2. Total(w) = 0
  <2> HIDE DEF w
  <2> QED
    BY <1>1, TotalZero
<1> QED
  BY <1>1, <1>2, TotalMonotone

LEMMA TotalFromMinusFour ==
  ASSUME NEW v \in Seq(Int), \A i \in 1..Len(v) : v[i] >= -4
  PROVE  Total(v) >= -(4 * Len(v))
<1> DEFINE w == [i \in 1..Len(v) |-> -4]
           s == [n \in 0..Len(v) |-> -(4 * n)]
<1>1. w \in Seq(Int) /\ Len(w) = Len(v) /\ \A i \in 1..Len(v) : w[i] <= v[i]
  OBVIOUS
<1>2. Sums(s, w)
  BY <1>1, SMTT(30) DEF Sums
<1>3. Total(w) = -(4 * Len(v))
  BY <1>1, <1>2, TotalIs, SMTT(30)
<1>4. Total(w) <= Total(v)
  BY <1>1, TotalMonotone
<1>5. Total(v) \in Int /\ Len(v) \in Nat
  BY TotalType
<1> QED
  BY <1>3, <1>4, <1>5

\* The rows of q, each as the number that h gives it.
Valued(q, h) == [k \in 1..Len(q) |-> h[q[k]]]

LEMMA ValuedType ==
  ASSUME NEW X, NEW q \in Seq(X), NEW h \in [X -> Int]
  PROVE  /\ Valued(q, h) \in Seq(Int)
         /\ Len(Valued(q, h)) = Len(q)
         /\ \A k \in 1..Len(q) : Valued(q, h)[k] = h[q[k]]
  BY DEF Valued

LEMMA FunctionSeq ==
  ASSUME NEW X, NEW n \in Nat, NEW q \in [1..n -> X]
  PROVE  q \in Seq(X) /\ Len(q) = n
  OBVIOUS

LEMMA SeqElement ==
  ASSUME NEW X, NEW q \in Seq(X), NEW l \in 1..Len(q)
  PROVE  q[l] \in X
  OBVIOUS

LEMMA SameSeq ==
  ASSUME NEW X, NEW u \in Seq(X), NEW v \in Seq(X), Len(u) = Len(v),
         \A k \in 1..Len(u) : u[k] = v[k]
  PROVE  u = v
  OBVIOUS

LEMMA ValuedConcat ==
  ASSUME NEW X, NEW u \in Seq(X), NEW v \in Seq(X), NEW h \in [X -> Int]
  PROVE  Valued(u \o v, h) = Valued(u, h) \o Valued(v, h)
<1>1. PICK w : w = u \o v
  OBVIOUS
<1>2. PICK a : a = Valued(u, h)
  OBVIOUS
<1>3. PICK c : c = Valued(v, h)
  OBVIOUS
<1>4. PICK d : d = Valued(w, h)
  OBVIOUS
<1>5. w \in Seq(X) /\ Len(w) = Len(u) + Len(v)
  BY <1>1
<1>6. a \in Seq(Int) /\ Len(a) = Len(u) /\ \A k \in 1..Len(u) : a[k] = h[u[k]]
  BY <1>2, ValuedType
<1>7. c \in Seq(Int) /\ Len(c) = Len(v) /\ \A k \in 1..Len(v) : c[k] = h[v[k]]
  BY <1>3, ValuedType
<1>8. d \in Seq(Int) /\ Len(d) = Len(w) /\ \A k \in 1..Len(w) : d[k] = h[w[k]]
  BY <1>4, <1>5, ValuedType
<1>9. a \o c \in Seq(Int) /\ Len(a \o c) = Len(u) + Len(v)
  <2>1. a \in Seq(Int) /\ c \in Seq(Int) /\ Len(a) = Len(u) /\ Len(c) = Len(v)
    BY <1>6, <1>7
  <2> QED
    BY <2>1
<1>10. ASSUME NEW k \in 1..Len(w)
       PROVE  d[k] = (a \o c)[k]
  <2>1. CASE k \in 1..Len(u)
    <3>1. w[k] = u[k] /\ (a \o c)[k] = a[k]
      BY <1>1, <1>6, <1>7, <2>1
    <3> QED
      BY <1>6, <1>8, <2>1, <3>1
  <2>2. CASE k \notin 1..Len(u)
    <3>1. k - Len(u) \in 1..Len(v)
      BY <1>5, <2>2
    <3>2. w[k] = v[k - Len(u)]
      BY <1>1, <2>2, <3>1
    <3>3. (a \o c)[k] = c[k - Len(u)]
      <4>1. a \in Seq(Int) /\ c \in Seq(Int) /\ Len(a) = Len(u) /\ Len(c) = Len(v)
        BY <1>6, <1>7
      <4>2. k \in 1..(Len(a) + Len(c)) /\ k > Len(a)
        BY <1>5, <2>2, <4>1
      <4> QED
        BY <4>1, <4>2, SMTT(30)
    <3> QED
      BY <1>7, <1>8, <3>1, <3>2, <3>3
  <2> QED
    BY <2>1, <2>2
<1>11. d = a \o c
  BY <1>5, <1>8, <1>9, <1>10, SameSeq
<1> QED
  BY <1>1, <1>2, <1>3, <1>4, <1>11

\* A sum over joined groups is the sum of the groups' sums.
LEMMA FlattenTotal ==
  ASSUME NEW X, NEW s \in Seq(Seq(X)), NEW h \in [X -> Int]
  PROVE  Total(Valued(FlattenSeq(s), h)) = Total([i \in 1..Len(s) |-> Total(Valued(s[i], h))])
<1> DEFINE N == Len(s)
           w == [i \in 1..N |-> Total(Valued(s[i], h))]
<1>1. N \in Nat /\ s \in [1..N -> Seq(X)]
  OBVIOUS
<1>2. PICK f : Joins(f, s, X)
  BY JoinsExist
<1>3. \A q \in Seq(X) : Total(Valued(q, h)) \in Int
  BY ValuedType, TotalType
<1>a. \A u, v \in Seq(X) : Valued(u \o v, h) = Valued(u, h) \o Valued(v, h)
  BY ValuedConcat
<1>4. w \in Seq(Int) /\ Len(w) = N /\ \A i \in 1..N : w[i] = Total(Valued(s[i], h))
  BY <1>1, <1>3
<1> HIDE DEF w
<1> DEFINE g == [n \in 0..N |-> Total(Valued(f[n], h))]
<1>5. \A n \in 0..N : f[n] \in Seq(X)
  BY <1>2 DEF Joins
<1>6. g \in [0..N -> Int]
  BY <1>3, <1>5
<1>7. g[0] = 0
  <2>1. f[0] = << >>
    BY <1>2 DEF Joins
  <2>2. Valued(f[0], h) \in Seq(Int) /\ Len(Valued(f[0], h)) = 0
    BY <1>1, <1>5, <2>1, ValuedType
  <2>3. Total(Valued(f[0], h)) = 0
    BY <2>2, TotalZero
  <2> QED
    BY <1>1, <2>3
<1>8. ASSUME NEW n \in 1..N
      PROVE  g[n] = g[n - 1] + w[n]
  <2>1. n - 1 \in 0..N /\ n \in 0..N
    BY <1>1
  <2>2. f[n] = f[n - 1] \o s[n] /\ f[n - 1] \in Seq(X) /\ s[n] \in Seq(X)
    BY <1>1, <1>2, <1>5, <2>1 DEF Joins
  <2>3. Valued(f[n - 1] \o s[n], h) = Valued(f[n - 1], h) \o Valued(s[n], h)
    <3>1. f[n - 1] \in Seq(X)
      BY <2>2
    <3>2. s[n] \in Seq(X)
      BY <2>2
    <3> QED
      BY <3>1, <3>2, <1>a
  <2>4. Valued(f[n - 1], h) \in Seq(Int) /\ Valued(s[n], h) \in Seq(Int)
    BY <2>2, ValuedType
  <2>5. Total(Valued(f[n], h)) = Total(Valued(f[n - 1], h)) + Total(Valued(s[n], h))
    BY <2>2, <2>3, <2>4, TotalConcat
  <2> QED
    BY <1>4, <2>1, <2>5
<1> HIDE DEF g
<1>9. Sums(g, w)
  BY <1>4, <1>6, <1>7, <1>8 DEF Sums
<1>10. Total(w) = g[N]
  BY <1>4, <1>9, TotalIs
<1>11. FlattenSeq(s) = f[N]
  BY <1>2, FlattenIs
<1>12. g[N] = Total(Valued(f[N], h))
  BY <1>1 DEF g
<1> QED
  BY <1>10, <1>11, <1>12 DEF w

-----------------------------------------------------------------------------
(* What the generator makes *)

LEMMA DrawsFacts ==
  ASSUME NEW draws \in Draws
  PROVE  /\ Len(draws) \in OrderCounts
         /\ Len(draws) \in Nat \ {0}
         /\ \A i \in 1..Len(draws) :
               /\ draws[i] \in Seq(1..MaxQuantity)
               /\ Len(draws[i]) \in 1..MaxLines
<1> DEFINE Drawn == UNION {[1..l -> 1..MaxQuantity] : l \in 1..MaxLines}
<1>1. PICK n \in OrderCounts : draws \in [1..n -> Drawn]
  BY DEF Draws
<1>2. n \in Nat \ {0} /\ MaxLines \in Nat
  BY BatchAssumption
<1>3. Len(draws) = n
  BY <1>1, <1>2
<1>4. ASSUME NEW i \in 1..n
      PROVE  draws[i] \in Seq(1..MaxQuantity) /\ Len(draws[i]) \in 1..MaxLines
  <2>1. draws[i] \in Drawn
    BY <1>1
  <2>2. PICK l \in 1..MaxLines : draws[i] \in [1..l -> 1..MaxQuantity]
    BY <2>1
  <2>3. l \in Nat
    BY <1>2
  <2>4. draws[i] \in Seq(1..MaxQuantity)
    BY <2>2, <2>3, FunctionSeq
  <2>5. Len(draws[i]) = l
    BY <2>2, <2>3, FunctionSeq
  <2> QED
    BY <2>4, <2>5
<1> QED
  BY <1>2, <1>3, <1>4

\* The lines of the i-th order.
LinesAt(draws, i) == LinesOf(i - 1, draws[i])

ReturnAt(draws, i) == ReturnRow(i - 1, LinesAt(draws, i)[1])

\* The parts of the generated tables, order by order.
OrdersMade(draws) == [i \in 1..Len(draws) |-> OrderRow(i - 1, LinesAt(draws, i))]
LinesMade(draws) == [i \in 1..Len(draws) |-> LinesAt(draws, i)]
PaymentAt(draws, i) ==
    [payment_id |-> i, order_id |-> OrdersMade(draws)[i].order_id,
     amount_cents |-> OrdersMade(draws)[i].total_cents, status |-> "CAPTURED"]
PaymentsMade(draws) == [i \in 1..Len(draws) |-> PaymentAt(draws, i)]
ReturnsMade(draws) == [i \in 1..Len(draws) |-> IfReturned(i - 1, ReturnAt(draws, i))]
MovementsMade(draws) == [i \in 1..Len(draws) |-> MovementsOf(i - 1, LinesAt(draws, i))]
ProductsMade == [i \in 1..Products |-> Product(i - 1)]

LEMMA GeneratedIs ==
  ASSUME NEW draws
  PROVE  Generated(draws) =
            [orders |-> OrdersMade(draws),
             order_lines |-> FlattenSeq(LinesMade(draws)),
             payments |-> PaymentsMade(draws),
             returns |-> FlattenSeq(ReturnsMade(draws)),
             inventory_movements |-> Opening(Len(draws)) \o FlattenSeq(MovementsMade(draws)),
             products |-> ProductsMade]
<1> DEFINE N == Len(draws)
           lines == [i \in 1..N |-> LinesOf(i - 1, draws[i])]
           orders == [i \in 1..N |-> OrderRow(i - 1, lines[i])]
<1>1. \A i \in 1..N : lines[i] = LinesAt(draws, i)
  BY DEF LinesAt
<1>2. lines = LinesMade(draws)
  BY DEF LinesMade, LinesAt
<1>3. orders = OrdersMade(draws)
  BY <1>1 DEF OrdersMade
<1>4. [i \in 1..N |-> IfReturned(i - 1, ReturnRow(i - 1, lines[i][1]))] = ReturnsMade(draws)
  BY <1>1 DEF ReturnsMade, ReturnAt
<1>5. [i \in 1..N |-> MovementsOf(i - 1, lines[i])] = MovementsMade(draws)
  BY <1>1 DEF MovementsMade
<1>6. [i \in 1..N |-> [payment_id |-> i, order_id |-> orders[i].order_id,
                       amount_cents |-> orders[i].total_cents, status |-> "CAPTURED"]] = PaymentsMade(draws)
  BY <1>3 DEF PaymentsMade, PaymentAt
<1>7. Generated(draws) =
        [orders |-> orders,
         order_lines |-> FlattenSeq(lines),
         payments |-> [i \in 1..N |-> [payment_id |-> i, order_id |-> orders[i].order_id,
                                       amount_cents |-> orders[i].total_cents, status |-> "CAPTURED"]],
         returns |-> FlattenSeq([i \in 1..N |-> IfReturned(i - 1, ReturnRow(i - 1, lines[i][1]))]),
         inventory_movements |-> Opening(N) \o FlattenSeq([i \in 1..N |-> MovementsOf(i - 1, lines[i])]),
         products |-> ProductsMade]
  BY Zenon DEF Generated, ProductsMade
<1> HIDE DEF lines, orders
<1> QED
  BY <1>2, <1>3, <1>4, <1>5, <1>6, <1>7, Zenon

\* An order's lines: their number, and each one's identifiers, quantity and price.
LEMMA LinesAtFacts ==
  ASSUME NEW draws \in Draws, NEW i \in 1..Len(draws)
  PROVE  /\ LinesAt(draws, i) \in Seq(LineType)
         /\ Len(LinesAt(draws, i)) \in 1..MaxLines
         /\ \A l \in 1..Len(LinesAt(draws, i)) :
               /\ LinesAt(draws, i)[l].order_id = <<i - 1>>
               /\ LinesAt(draws, i)[l].line_id = <<l>>
               /\ LinesAt(draws, i)[l].product_id = <<((i - 1) * 3 + l - 1) % Products>>
               /\ LinesAt(draws, i)[l].quantity \in 1..MaxQuantity
               /\ LinesAt(draws, i)[l].unit_price_cents \in Nat
               /\ LinesAt(draws, i)[l].unit_price_cents >= 1000
               /\ LinesAt(draws, i)[l].line_total_cents =
                     LinesAt(draws, i)[l].quantity * LinesAt(draws, i)[l].unit_price_cents
<1> DEFINE N == Len(draws[i])
<1>1. N \in 1..MaxLines /\ draws[i] \in Seq(1..MaxQuantity)
  BY DrawsFacts
<1>2. i \in Nat /\ MaxLines \in Nat /\ MaxQuantity \in Nat /\ Products \in Nat \ {0} /\ N \in Nat
  BY <1>1, DrawsFacts, BatchAssumption
<1>3. PICK ls : ls = LinesAt(draws, i)
  OBVIOUS
<1>4. ls = [l \in 1..N |-> Line(i - 1, l - 1, ((i - 1) * 3 + l - 1) % Products, draws[i][l])]
  BY <1>3 DEF LinesAt, LinesOf
<1>5. ASSUME NEW l \in 1..N
      PROVE  /\ ls[l] \in LineType
             /\ ls[l].order_id = <<i - 1>>
             /\ ls[l].line_id = <<l>>
             /\ ls[l].product_id = <<((i - 1) * 3 + l - 1) % Products>>
             /\ ls[l].quantity \in 1..MaxQuantity
             /\ ls[l].unit_price_cents \in Nat
             /\ ls[l].unit_price_cents >= 1000
             /\ ls[l].line_total_cents = ls[l].quantity * ls[l].unit_price_cents
  <2>1. PICK q : q = draws[i][l]
    OBVIOUS
  <2>2. q \in 1..MaxQuantity
    <3>1. PICK w : w = draws[i]
      OBVIOUS
    <3>2. w \in Seq(1..MaxQuantity) /\ l \in 1..Len(w)
      BY <1>1, <3>1
    <3>3. w[l] \in 1..MaxQuantity
      BY <3>2, SeqElement
    <3> QED
      BY <2>1, <3>1, <3>3
  <2>3. PICK price : price = 1000 + (((i - 1) + (l - 1)) % 50) * 37
    OBVIOUS
  <2>4. price \in Nat /\ price >= 1000
    BY <1>2, <2>3
  <2>5. PICK p : p = ((i - 1) * 3 + l - 1) % Products
    OBVIOUS
  <2>6. p \in Int
    BY <1>2, <2>5
  <2>7. ls[l] = [order_id |-> <<i - 1>>, line_id |-> <<(l - 1) + 1>>, product_id |-> <<p>>,
                 quantity |-> q, unit_price_cents |-> price, line_total_cents |-> q * price]
    BY <1>4, <2>1, <2>3, <2>5 DEF Line
  <2>8. (l - 1) + 1 = l /\ i - 1 \in Int /\ l \in Int /\ q \in Int /\ price \in Int /\ q * price \in Int
    BY <1>2, <2>2, <2>4
  <2>9. <<i - 1>> \in Ids /\ <<l>> \in Ids /\ <<p>> \in Ids
    BY <2>6, <2>8 DEF Ids
  <2>10. ls[l] \in LineType
    BY <2>7, <2>8, <2>9 DEF LineType
  <2> QED
    BY <2>2, <2>4, <2>5, <2>7, <2>8, <2>10
<1>6. ls \in [1..N -> LineType]
  BY <1>4, <1>5, ZenonT(60)
<1>7. ls \in Seq(LineType) /\ Len(ls) = N
  BY <1>2, <1>6, FunctionSeq
<1> QED
  BY <1>1, <1>3, <1>5, <1>7, SMTT(30)

\* The line totals of an order, and what OrderRow makes of them.
TotalsOf(lines) == [l \in DOMAIN lines |-> lines[l].line_total_cents]

LEMMA TotalsFacts ==
  ASSUME NEW draws \in Draws, NEW i \in 1..Len(draws)
  PROVE  /\ TotalsOf(LinesAt(draws, i)) \in Seq(Int)
         /\ Total(TotalsOf(LinesAt(draws, i))) \in Int
         /\ Len(TotalsOf(LinesAt(draws, i))) = Len(LinesAt(draws, i))
<1>1. PICK ls : ls = LinesAt(draws, i)
  OBVIOUS
<1>2. ls \in Seq(LineType)
  BY <1>1, LinesAtFacts
<1>3. \A l \in 1..Len(ls) : ls[l].line_total_cents \in Int
  <2>1. \A l \in 1..Len(ls) : ls[l] \in LineType
    BY <1>2
  <2> QED
    BY <2>1 DEF LineType
<1>4. TotalsOf(ls) \in Seq(Int) /\ Len(TotalsOf(ls)) = Len(ls)
  BY <1>2, <1>3 DEF TotalsOf
<1> QED
  BY <1>1, <1>4, TotalType

LEMMA OrderRowIs ==
  ASSUME NEW draws \in Draws, NEW i \in 1..Len(draws), NEW sub, sub = Total(TotalsOf(LinesAt(draws, i))),
         NEW r, r = OrderRow(i - 1, LinesAt(draws, i))
  PROVE  /\ r \in OrderType
         /\ r.order_id = <<i - 1>> /\ r.order_ts = Start + (i - 1) * 10 /\ r.status = "COMPLETED"
         /\ r.currency = "INR"
         /\ r.subtotal_cents = sub
         /\ r.tax_cents = (sub * 18) \div 100
         /\ r.discount_cents \in {0, 100}
         /\ r.total_cents = sub + r.tax_cents - r.discount_cents
<1>1. sub \in Int /\ i \in Nat
  BY TotalsFacts, DrawsFacts
<1>2. PICK tax : tax = (sub * 18) \div 100
  OBVIOUS
<1>3. tax \in Int
  BY <1>1, <1>2
<1>4. PICK discount : discount = IF (i - 1) % 10 = 0 THEN 100 ELSE 0
  OBVIOUS
<1>5. discount \in {0, 100}
  BY <1>4
<1>6. r = [order_id |-> <<i - 1>>, order_ts |-> Start + (i - 1) * 10, status |-> "COMPLETED",
           subtotal_cents |-> sub, tax_cents |-> tax, discount_cents |-> discount,
           total_cents |-> sub + tax - discount, currency |-> "INR"]
  BY <1>2, <1>4 DEF OrderRow, TotalsOf
<1>7. <<i - 1>> \in Ids /\ Start + (i - 1) * 10 \in Int /\ sub + tax - discount \in Int /\ discount \in Int
  BY <1>1, <1>3, <1>5 DEF Ids, Start
<1>8. r \in OrderType
  BY <1>1, <1>3, <1>6, <1>7 DEF OrderType, Statuses, Currencies
<1> QED
  BY <1>2, <1>5, <1>6, <1>8

LEMMA MovementTyped ==
  ASSUME NEW k \in Int, NEW o \in Int, NEW l \in Int, NEW p \in Ids, NEW t \in Int, NEW d \in Int, NEW ts \in Int
  PROVE  Movement(k, o, l, p, t, d, ts) \in MovementType
<1>1. <<k, o, l>> \in Int \X Int \X Int
  OBVIOUS
<1> QED
  BY <1>1 DEF Movement, MovementType

LEMMA IfReturnedSeq ==
  ASSUME NEW X, NEW o, NEW row \in X
  PROVE  /\ IfReturned(o, row) \in Seq(X)
         /\ Range(IfReturned(o, row)) = IF o % 17 = 0 THEN {row} ELSE {}
         /\ Len(IfReturned(o, row)) <= 1
         /\ \A k \in 1..Len(IfReturned(o, row)) : IfReturned(o, row)[k] = row
  BY DEF IfReturned, Range

\* The sales of an order, one for each line.
SalesAt(draws, i) ==
    [l \in 1..Len(LinesAt(draws, i)) |->
        Movement(2, i - 1, l, LinesAt(draws, i)[l].product_id, (i - 1) % Stores,
                 -LinesAt(draws, i)[l].quantity, Start + (i - 1) * 10)]

BackAt(draws, i) ==
    Movement(1, i - 1, 1, LinesAt(draws, i)[1].product_id, (i - 1) % Stores, 1, Start + (i - 1) * 10 + 5)

LEMMA MovementsAtFacts ==
  ASSUME NEW draws \in Draws, NEW i \in 1..Len(draws)
  PROVE  /\ MovementsOf(i - 1, LinesAt(draws, i)) = SalesAt(draws, i) \o IfReturned(i - 1, BackAt(draws, i))
         /\ SalesAt(draws, i) \in Seq(MovementType)
         /\ Len(SalesAt(draws, i)) = Len(LinesAt(draws, i))
         /\ BackAt(draws, i) \in MovementType
         /\ IfReturned(i - 1, BackAt(draws, i)) \in Seq(MovementType)
         /\ MovementsOf(i - 1, LinesAt(draws, i)) \in Seq(MovementType)
<1>1. PICK ls : ls = LinesAt(draws, i)
  OBVIOUS
<1>2. ls \in Seq(LineType) /\ Len(ls) \in 1..MaxLines
  BY <1>1, LinesAtFacts
<1>3. i \in Nat /\ Stores \in Nat \ {0} /\ Len(ls) \in Nat \ {0}
  BY <1>2, DrawsFacts, BatchAssumption
<1>4. (i - 1) % Stores \in Int
  BY <1>3
<1>5. \A l \in 1..Len(ls) : ls[l].product_id \in Ids /\ ls[l].quantity \in Int
  <2>1. \A l \in 1..Len(ls) : ls[l] \in LineType
    BY <1>2
  <2> QED
    BY <2>1 DEF LineType
<1>6. Start + (i - 1) * 10 \in Int /\ Start + (i - 1) * 10 + 5 \in Int
  BY <1>3 DEF Start
<1>7. PICK sales : sales = SalesAt(draws, i)
  OBVIOUS
<1>8. sales \in Seq(MovementType) /\ Len(sales) = Len(ls)
  <2>1. ASSUME NEW l \in 1..Len(ls)
        PROVE  Movement(2, i - 1, l, ls[l].product_id, (i - 1) % Stores, -ls[l].quantity, Start + (i - 1) * 10)
                 \in MovementType
    <3>1. PICK p : p = ls[l].product_id
      OBVIOUS
    <3>2. PICK d : d = -ls[l].quantity
      OBVIOUS
    <3>3. PICK t : t = (i - 1) % Stores
      OBVIOUS
    <3>4. PICK ts : ts = Start + (i - 1) * 10
      OBVIOUS
    <3>5. p \in Ids /\ d \in Int /\ t \in Int /\ ts \in Int /\ i - 1 \in Int /\ l \in Int
      BY <1>3, <1>4, <1>5, <1>6, <3>1, <3>2, <3>3, <3>4
    <3>6. Movement(2, i - 1, l, p, t, d, ts) \in MovementType
      BY <3>5, MovementTyped
    <3> QED
      BY <3>1, <3>2, <3>3, <3>4, <3>6
  <2>2. sales \in [1..Len(ls) -> MovementType]
    BY <1>1, <1>7, <2>1 DEF SalesAt
  <2> QED
    BY <1>3, <2>2, FunctionSeq
<1>9. BackAt(draws, i) \in MovementType
  <2>1. 1 \in 1..Len(ls) /\ i - 1 \in Int
    BY <1>3
  <2> QED
    BY <1>1, <1>4, <1>5, <1>6, <2>1, MovementTyped DEF BackAt
<1>10. IfReturned(i - 1, BackAt(draws, i)) \in Seq(MovementType)
  BY <1>9, IfReturnedSeq
<1>11. MovementsOf(i - 1, LinesAt(draws, i)) = sales \o IfReturned(i - 1, BackAt(draws, i))
  <2>1. DOMAIN ls = 1..Len(ls)
    BY <1>2
  <2>2. sales = [l \in DOMAIN ls |-> Movement(2, i - 1, l, ls[l].product_id, (i - 1) % Stores,
                                             -ls[l].quantity, Start + (i - 1) * 10)]
    BY <1>1, <1>7, <2>1 DEF SalesAt
  <2> QED
    BY <1>1, <2>2, Zenon DEF MovementsOf, BackAt
<1>12. sales \o IfReturned(i - 1, BackAt(draws, i)) \in Seq(MovementType)
  BY <1>8, <1>10
<1> QED
  BY <1>1, <1>7, <1>8, <1>9, <1>10, <1>11, <1>12

\* The opening movements of a product, one for each store.
OpeningAt(count, p) ==
    [t \in 1..Stores |-> Movement(0, p, t, <<p - 1>>, t - 1, OpeningStock(count), Start - 1)]

LEMMA OpeningFacts ==
  ASSUME NEW count \in Nat
  PROVE  /\ OpeningStock(count) \in Nat
         /\ OpeningStock(count) >= 100
         /\ OpeningStock(count) >= count * 4
         /\ OpeningStock(count) \in {100, count * 4}
         /\ Opening(count) = FlattenSeq([p \in 1..Products |-> OpeningAt(count, p)])
         /\ \A p \in 1..Products : OpeningAt(count, p) \in Seq(MovementType) /\ Len(OpeningAt(count, p)) = Stores
         /\ [p \in 1..Products |-> OpeningAt(count, p)] \in Seq(Seq(MovementType))
         /\ Opening(count) \in Seq(MovementType)
<1>1. \E x \in {100, count * 4} : \A y \in {100, count * 4} : x >= y
  BY SMT
<1>2. OpeningStock(count) \in {100, count * 4} /\ \A y \in {100, count * 4} : OpeningStock(count) >= y
  BY <1>1 DEF OpeningStock, Max
<1>3. OpeningStock(count) \in Nat /\ OpeningStock(count) >= 100 /\ OpeningStock(count) >= count * 4
  BY <1>2
<1>4. Products \in Nat /\ Stores \in Nat
  BY BatchAssumption
<1>5. ASSUME NEW p \in 1..Products
      PROVE  OpeningAt(count, p) \in Seq(MovementType) /\ Len(OpeningAt(count, p)) = Stores
  <2>1. ASSUME NEW t \in 1..Stores
        PROVE  Movement(0, p, t, <<p - 1>>, t - 1, OpeningStock(count), Start - 1) \in MovementType
    <3>1. p \in Int /\ t \in Int /\ t - 1 \in Int /\ Start - 1 \in Int /\ <<p - 1>> \in Ids
          /\ OpeningStock(count) \in Int
      BY <1>3, <1>4 DEF Ids, Start
    <3> QED
      BY <3>1, MovementTyped
  <2>2. OpeningAt(count, p) \in [1..Stores -> MovementType]
    BY <2>1 DEF OpeningAt
  <2> QED
    BY <1>4, <2>2, FunctionSeq
<1>6. Opening(count) = FlattenSeq([p \in 1..Products |-> OpeningAt(count, p)])
  BY DEF Opening, OpeningAt
<1>7. [p \in 1..Products |-> OpeningAt(count, p)] \in Seq(Seq(MovementType))
  <2>1. [p \in 1..Products |-> OpeningAt(count, p)] \in [1..Products -> Seq(MovementType)]
    BY <1>5
  <2> QED
    BY <1>4, <2>1, FunctionSeq
<1>8. Opening(count) \in Seq(MovementType)
  BY <1>6, <1>7, FlattenRange
<1> QED
  BY <1>2, <1>3, <1>5, <1>6, <1>7, <1>8

LEMMA ReturnAtFacts ==
  ASSUME NEW draws \in Draws, NEW i \in 1..Len(draws)
  PROVE  /\ ReturnAt(draws, i) \in ReturnType
         /\ ReturnAt(draws, i).return_id = i
         /\ LineKey(ReturnAt(draws, i)) = LineKey(LinesAt(draws, i)[1])
         /\ ReturnAt(draws, i).order_id = <<i - 1>>
         /\ ReturnAt(draws, i).quantity = 1
         /\ ReturnAt(draws, i).refund_cents = LinesAt(draws, i)[1].unit_price_cents
         /\ IfReturned(i - 1, ReturnAt(draws, i)) \in Seq(ReturnType)
<1>1. PICK r : r = LinesAt(draws, i)[1]
  OBVIOUS
<1>2. i \in Nat /\ MaxLines \in Nat
  BY DrawsFacts, BatchAssumption
<1>3. 1 \in 1..Len(LinesAt(draws, i))
  BY <1>2, LinesAtFacts
<1>4. r \in LineType /\ r.order_id = <<i - 1>> /\ (i - 1) + 1 = i
  BY <1>1, <1>2, <1>3, LinesAtFacts, SeqElement, SMTT(30)
<1>5. ReturnAt(draws, i) =
        [return_id |-> i, order_id |-> r.order_id, line_id |-> r.line_id, quantity |-> 1,
         refund_cents |-> r.unit_price_cents]
  BY <1>1, <1>4 DEF ReturnAt, ReturnRow
<1>6. ReturnAt(draws, i) \in ReturnType
  BY <1>2, <1>4, <1>5 DEF ReturnType, LineType
<1>7. LineKey(ReturnAt(draws, i)) = LineKey(r)
  BY <1>5 DEF LineKey
<1>8. IfReturned(i - 1, ReturnAt(draws, i)) \in Seq(ReturnType)
  BY <1>6, IfReturnedSeq
<1> QED
  BY <1>1, <1>4, <1>5, <1>6, <1>7, <1>8

LEMMA ProductFacts ==
  ASSUME NEW p \in Int
  PROVE  /\ Product(p) \in ProductType
         /\ Product(p).product_id = <<p>>
         /\ Product(p).effective_from = Start - 86400
         /\ Product(p).effective_to = Null
         /\ Product(p).loaded_at = Start - 3600
  BY DEF Product, ProductType, Ids, Start

LEMMA PaymentAtFacts ==
  ASSUME NEW draws \in Draws, NEW i \in 1..Len(draws)
  PROVE  /\ OrdersMade(draws)[i] = OrderRow(i - 1, LinesAt(draws, i))
         /\ PaymentAt(draws, i) \in PaymentType
         /\ PaymentAt(draws, i).payment_id = i
         /\ PaymentAt(draws, i).status = "CAPTURED"
         /\ PaymentAt(draws, i).order_id = <<i - 1>>
         /\ PaymentAt(draws, i).amount_cents = OrdersMade(draws)[i].total_cents
<1>1. PICK r : r = OrderRow(i - 1, LinesAt(draws, i))
  OBVIOUS
<1>2. OrdersMade(draws)[i] = r
  BY <1>1 DEF OrdersMade
<1>3. r \in OrderType /\ r.order_id = <<i - 1>>
  BY <1>1, OrderRowIs
<1>4. i \in Int
  BY DrawsFacts
<1>5. PaymentAt(draws, i) = [payment_id |-> i, order_id |-> r.order_id, amount_cents |-> r.total_cents,
                            status |-> "CAPTURED"]
  BY <1>2 DEF PaymentAt
<1>6. PaymentAt(draws, i) \in PaymentType
  BY <1>3, <1>4, <1>5 DEF PaymentType, OrderType, Statuses
<1> QED
  BY <1>1, <1>2, <1>3, <1>5, <1>6

\* The groups that the tables are flattened from.
LEMMA MadeTyped ==
  ASSUME NEW draws \in Draws
  PROVE  /\ Len(draws) \in Nat
         /\ OrdersMade(draws) \in Seq(OrderType) /\ Len(OrdersMade(draws)) = Len(draws)
         /\ LinesMade(draws) \in Seq(Seq(LineType)) /\ Len(LinesMade(draws)) = Len(draws)
         /\ PaymentsMade(draws) \in Seq(PaymentType) /\ Len(PaymentsMade(draws)) = Len(draws)
         /\ ReturnsMade(draws) \in Seq(Seq(ReturnType)) /\ Len(ReturnsMade(draws)) = Len(draws)
         /\ MovementsMade(draws) \in Seq(Seq(MovementType)) /\ Len(MovementsMade(draws)) = Len(draws)
         /\ ProductsMade \in Seq(ProductType) /\ Len(ProductsMade) = Products
<1>1. Len(draws) \in Nat /\ Products \in Nat
  BY DrawsFacts, BatchAssumption
<1>2. OrdersMade(draws) \in [1..Len(draws) -> OrderType]
  BY OrderRowIs DEF OrdersMade
<1>3. LinesMade(draws) \in [1..Len(draws) -> Seq(LineType)]
  BY LinesAtFacts DEF LinesMade
<1>4. PaymentsMade(draws) \in [1..Len(draws) -> PaymentType]
  BY PaymentAtFacts DEF PaymentsMade
<1>5. ReturnsMade(draws) \in [1..Len(draws) -> Seq(ReturnType)]
  BY ReturnAtFacts DEF ReturnsMade
<1>6. MovementsMade(draws) \in [1..Len(draws) -> Seq(MovementType)]
  BY MovementsAtFacts DEF MovementsMade
<1>7. ProductsMade \in [1..Products -> ProductType]
  <2>1. \A i \in 1..Products : i - 1 \in Int
    BY <1>1
  <2> QED
    BY <2>1, ProductFacts DEF ProductsMade
<1> QED
  BY <1>1, <1>2, <1>3, <1>4, <1>5, <1>6, <1>7, FunctionSeq

\* Every generated batch is clean.
LEMMA GeneratedClean ==
  ASSUME NEW draws \in Draws
  PROVE  Generated(draws) \in CleanBatch
<1>1. FlattenSeq(LinesMade(draws)) \in Seq(LineType) /\ FlattenSeq(ReturnsMade(draws)) \in Seq(ReturnType)
  BY MadeTyped, FlattenRange
<1>2. Opening(Len(draws)) \in Seq(MovementType) /\ FlattenSeq(MovementsMade(draws)) \in Seq(MovementType)
  BY MadeTyped, FlattenRange, OpeningFacts
<1>3. Opening(Len(draws)) \o FlattenSeq(MovementsMade(draws)) \in Seq(MovementType)
  BY <1>2
<1> QED
  BY <1>1, <1>3, MadeTyped, GeneratedIs DEF CleanBatch

-----------------------------------------------------------------------------
(* Faults and edits keep a batch clean *)

RowType == [orders |-> OrderType, order_lines |-> LineType, payments |-> PaymentType,
            returns |-> ReturnType, inventory_movements |-> MovementType, products |-> ProductType]

LEMMA CleanTables ==
  ASSUME NEW b \in CleanBatch, NEW t \in Tables
  PROVE  b[t] \in Seq(RowType[t])
<1>1. CASE t = "orders"
  BY <1>1 DEF CleanBatch, RowType
<1>2. CASE t = "order_lines"
  BY <1>2 DEF CleanBatch, RowType
<1>3. CASE t = "payments"
  BY <1>3 DEF CleanBatch, RowType
<1>4. CASE t = "returns"
  BY <1>4 DEF CleanBatch, RowType
<1>5. CASE t = "inventory_movements"
  BY <1>5 DEF CleanBatch, RowType
<1>6. CASE t = "products"
  BY <1>6 DEF CleanBatch, RowType
<1> QED
  BY <1>1, <1>2, <1>3, <1>4, <1>5, <1>6 DEF Tables

LEMMA CleanExcept ==
  ASSUME NEW b \in CleanBatch, NEW t \in Tables, NEW rows \in Seq(RowType[t])
  PROVE  [b EXCEPT ![t] = rows] \in CleanBatch
<1>1. CASE t = "orders"
  BY <1>1 DEF CleanBatch, RowType
<1>2. CASE t = "order_lines"
  BY <1>2 DEF CleanBatch, RowType
<1>3. CASE t = "payments"
  BY <1>3 DEF CleanBatch, RowType
<1>4. CASE t = "returns"
  BY <1>4 DEF CleanBatch, RowType
<1>5. CASE t = "inventory_movements"
  BY <1>5 DEF CleanBatch, RowType
<1>6. CASE t = "products"
  BY <1>6 DEF CleanBatch, RowType
<1> QED
  BY <1>1, <1>2, <1>3, <1>4, <1>5, <1>6 DEF Tables

LEMMA SeqShapes ==
  ASSUME NEW X, NEW q \in Seq(X)
  PROVE  /\ \A x \in X : Append(q, x) \in Seq(X)
         /\ q # << >> => q[1] \in X /\ Tail(q) \in Seq(X)
         /\ q # << >> => \A x \in X : <<x>> \o Tail(q) \in Seq(X)
<1>1. ASSUME q # << >>
      PROVE  q[1] \in X /\ Tail(q) \in Seq(X)
  BY <1>1
<1>2. ASSUME q # << >>, NEW x \in X
      PROVE  <<x>> \o Tail(q) \in Seq(X)
  <2>1. <<x>> \in Seq(X)
    OBVIOUS
  <2> QED
    BY <1>1, <1>2, <2>1
<1> QED
  BY <1>1, <1>2

LEMMA CleanFirst ==
  ASSUME NEW b \in CleanBatch, NEW t \in Tables, b[t] # << >>, NEW row \in RowType[t]
  PROVE  WithFirst(b, t, row) \in CleanBatch
<1>1. <<row>> \o Tail(b[t]) \in Seq(RowType[t])
  BY CleanTables, SeqShapes
<1>2. [b EXCEPT ![t] = <<row>> \o Tail(b[t])] \in CleanBatch
  BY <1>1, CleanExcept
<1> QED
  BY <1>2 DEF WithFirst

LEMMA CleanAppend ==
  ASSUME NEW b \in CleanBatch, NEW t \in Tables, NEW row \in RowType[t]
  PROVE  [b EXCEPT ![t] = Append(@, row)] \in CleanBatch
<1>1. Append(b[t], row) \in Seq(RowType[t])
  BY CleanTables, SeqShapes
<1> QED
  BY <1>1, CleanExcept

LEMMA ReshapedClean ==
  ASSUME NEW b \in CleanBatch, NEW t \in Tables, b[t] # << >>, NEW c \in Reshaped(b, t)
  PROVE  c \in CleanBatch
<1>1. b[t][1] \in RowType[t] /\ Tail(b[t]) \in Seq(RowType[t])
  BY CleanTables, SeqShapes
<1>2. Append(b[t], b[t][1]) \in Seq(RowType[t])
  BY <1>1, CleanTables, SeqShapes
<1>3. [b EXCEPT ![t] = Append(@, @[1])] \in CleanBatch
  BY <1>2, CleanExcept
<1>4. [b EXCEPT ![t] = Tail(@)] \in CleanBatch
  BY <1>1, CleanExcept
<1> QED
  BY <1>3, <1>4 DEF Reshaped

\* The first row of each table that has one.
LEMMA FirstRows ==
  ASSUME NEW b \in CleanBatch
  PROVE  /\ b.orders # << >> => b.orders[1] \in OrderType
         /\ b.order_lines # << >> => b.order_lines[1] \in LineType
         /\ b.payments # << >> => b.payments[1] \in PaymentType
         /\ b.returns # << >> => b.returns[1] \in ReturnType
         /\ b.inventory_movements # << >> => b.inventory_movements[1] \in MovementType
         /\ b.products # << >> => b.products[1] \in ProductType
  BY CleanRows, SeqShapes

LEMMA RewordedClean ==
  ASSUME NEW b \in CleanBatch, NEW c \in Reworded(b)
  PROVE  c \in CleanBatch
<1>1. ASSUME b.orders # << >>, NEW row \in OrderType
      PROVE  WithFirst(b, "orders", row) \in CleanBatch
  BY <1>1, CleanFirst DEF Tables, RowType
<1>2. ASSUME b.order_lines # << >>, NEW row \in LineType
      PROVE  WithFirst(b, "order_lines", row) \in CleanBatch
  BY <1>2, CleanFirst DEF Tables, RowType
<1>3. ASSUME b.payments # << >>, NEW row \in PaymentType
      PROVE  WithFirst(b, "payments", row) \in CleanBatch
  BY <1>3, CleanFirst DEF Tables, RowType
<1>4. ASSUME b.returns # << >>, NEW row \in ReturnType
      PROVE  WithFirst(b, "returns", row) \in CleanBatch
  BY <1>4, CleanFirst DEF Tables, RowType
<1>5. ASSUME b.inventory_movements # << >>, NEW row \in MovementType
      PROVE  WithFirst(b, "inventory_movements", row) \in CleanBatch
  BY <1>5, CleanFirst DEF Tables, RowType
<1>6. ASSUME b.products # << >>, NEW row \in ProductType
      PROVE  WithFirst(b, "products", row) \in CleanBatch
  BY <1>6, CleanFirst DEF Tables, RowType
<1>7. ASSUME NEW row \in ReturnType
      PROVE  [b EXCEPT !.returns = Append(@, row)] \in CleanBatch
  BY <1>7, CleanAppend DEF Tables, RowType
<1>8. CASE b.orders # << >> /\ c \in
              {WithFirst(b, "orders", [b.orders[1] EXCEPT !.status = "PLACED"]),
               WithFirst(b, "orders", [b.orders[1] EXCEPT !.currency = "EUR"]),
               WithFirst(b, "orders", [b.orders[1] EXCEPT !.total_cents = @ - 1, !.discount_cents = @ + 1])}
  <2>1. PICK r \in OrderType : r = b.orders[1]
    BY <1>8, FirstRows
  <2>2. [r EXCEPT !.status = "PLACED"] \in OrderType /\ [r EXCEPT !.currency = "EUR"] \in OrderType
    BY DEF OrderType, Statuses, Currencies
  <2>3. [r EXCEPT !.total_cents = @ - 1, !.discount_cents = @ + 1] \in OrderType
    <3>1. PICK q : q = [r EXCEPT !.total_cents = @ - 1]
      OBVIOUS
    <3>2. q \in OrderType /\ q.discount_cents = r.discount_cents /\ r.discount_cents \in Int
      BY <3>1 DEF OrderType
    <3>3. [q EXCEPT !.discount_cents = r.discount_cents + 1] \in OrderType
      BY <3>2 DEF OrderType
    <3> QED
      BY <3>1, <3>3
  <2> QED
    BY <1>1, <1>8, <2>1, <2>2, <2>3
<1>9. CASE b.order_lines # << >> /\ c \in
              {WithFirst(b, "order_lines", [b.order_lines[1] EXCEPT !.quantity = 0]),
               WithFirst(b, "order_lines", [b.order_lines[1] EXCEPT !.quantity = @ + 1]),
               WithFirst(b, "order_lines", [b.order_lines[1] EXCEPT !.line_id = <<9>>])}
  <2>1. PICK r \in LineType : r = b.order_lines[1]
    BY <1>9, FirstRows
  <2>2. [r EXCEPT !.quantity = 0] \in LineType /\ [r EXCEPT !.quantity = @ + 1] \in LineType
    BY DEF LineType
  <2>3. [r EXCEPT !.line_id = <<9>>] \in LineType
    BY DEF LineType, Ids
  <2> QED
    BY <1>2, <1>9, <2>1, <2>2, <2>3
<1>10. CASE b.payments # << >> /\ c \in
              {WithFirst(b, "payments", [b.payments[1] EXCEPT !.status = "DECLINED"]),
               WithFirst(b, "payments", [b.payments[1] EXCEPT !.amount_cents = @ + 1]),
               WithFirst(b, "payments", [b.payments[1] EXCEPT !.amount_cents = @ - 1])}
  <2>1. PICK r \in PaymentType : r = b.payments[1]
    BY <1>10, FirstRows
  <2>2. [r EXCEPT !.status = "DECLINED"] \in PaymentType
    BY DEF PaymentType, Statuses
  <2>3. [r EXCEPT !.amount_cents = @ + 1] \in PaymentType /\ [r EXCEPT !.amount_cents = @ - 1] \in PaymentType
    BY DEF PaymentType
  <2> QED
    BY <1>3, <1>10, <2>1, <2>2, <2>3
<1>11. CASE b.returns # << >> /\ c \in
              {WithFirst(b, "returns", [b.returns[1] EXCEPT !.refund_cents = -1]),
               [b EXCEPT !.returns = Append(@, [b.returns[1] EXCEPT !.return_id = @ + 50, !.refund_cents = 0])]}
  <2>1. PICK r \in ReturnType : r = b.returns[1]
    BY <1>11, FirstRows
  <2>2. [r EXCEPT !.refund_cents = -1] \in ReturnType
    BY DEF ReturnType
  <2>3. [r EXCEPT !.return_id = @ + 50, !.refund_cents = 0] \in ReturnType
    <3>1. PICK q : q = [r EXCEPT !.return_id = @ + 50]
      OBVIOUS
    <3>2. q \in ReturnType
      BY <3>1 DEF ReturnType
    <3>3. [q EXCEPT !.refund_cents = 0] \in ReturnType
      BY <3>2 DEF ReturnType
    <3> QED
      BY <3>1, <3>3
  <2> QED
    BY <1>4, <1>7, <1>11, <2>1, <2>2, <2>3
<1>12. CASE b.returns # << >> /\ b.payments # << >> /\
            c = WithFirst(b, "returns", [b.returns[1] EXCEPT !.refund_cents = b.payments[1].amount_cents + 1])
  <2>1. PICK r \in ReturnType : r = b.returns[1]
    BY <1>12, FirstRows
  <2>2. PICK m \in Int : m = b.payments[1].amount_cents
    BY <1>12, FirstRows DEF PaymentType
  <2>3. [r EXCEPT !.refund_cents = m + 1] \in ReturnType
    BY DEF ReturnType
  <2> QED
    BY <1>4, <1>12, <2>1, <2>2, <2>3
<1>13. CASE b.inventory_movements # << >> /\ c \in
              {WithFirst(b, "inventory_movements", [b.inventory_movements[1] EXCEPT !.quantity_delta = 1]),
               WithFirst(b, "inventory_movements", [b.inventory_movements[1] EXCEPT !.movement_ts = Start + 50])}
  <2>1. PICK r \in MovementType : r = b.inventory_movements[1]
    BY <1>13, FirstRows
  <2>2. [r EXCEPT !.quantity_delta = 1] \in MovementType /\ [r EXCEPT !.movement_ts = Start + 50] \in MovementType
    BY DEF MovementType, Start
  <2> QED
    BY <1>5, <1>13, <2>1, <2>2
<1>14. CASE b.products # << >> /\ c \in
              {WithFirst(b, "products", [b.products[1] EXCEPT !.loaded_at = Knowledge + 1]),
               WithFirst(b, "products", [b.products[1] EXCEPT !.effective_to = Start + 5])}
  <2>1. PICK r \in ProductType : r = b.products[1]
    BY <1>14, FirstRows
  <2>2. [r EXCEPT !.loaded_at = Knowledge + 1] \in ProductType /\ [r EXCEPT !.effective_to = Start + 5] \in ProductType
    BY DEF ProductType, Knowledge, Start
  <2> QED
    BY <1>6, <1>14, <2>1, <2>2
<1> QED
  BY <1>8, <1>9, <1>10, <1>11, <1>12, <1>13, <1>14 DEF Reworded

\* The first row of joined groups is the first of the first group.
LEMMA FlattenFirst ==
  ASSUME NEW X, NEW s \in Seq(Seq(X)), s # << >>, s[1] # << >>
  PROVE  FlattenSeq(s) # << >> /\ FlattenSeq(s)[1] = s[1][1]
<1> DEFINE N == Len(s)
<1>1. N \in Nat \ {0} /\ s \in [1..N -> Seq(X)] /\ s[1] \in Seq(X) /\ Len(s[1]) \in Nat \ {0}
  OBVIOUS
<1>2. PICK f : Joins(f, s, X)
  BY JoinsExist
<1> DEFINE Good(n) == Len(f[n + 1]) > 0 /\ f[n + 1][1] = s[1][1]
           T == {n \in Nat : n + 1 <= N => Good(n)}
<1>3. 0 \in T
  <2>1. 1 \in 1..N /\ 1 - 1 = 0 /\ 0 + 1 = 1
    BY <1>1
  <2>2. f[1] = f[0] \o s[1] /\ f[0] = << >>
    BY <1>2, <2>1 DEF Joins
  <2>3. f[1] = s[1]
    BY <1>1, <2>2
  <2> QED
    BY <1>1, <2>1, <2>3
<1>4. ASSUME NEW n \in Nat, n \in T
      PROVE  n + 1 \in T
  <2>1. SUFFICES ASSUME (n + 1) + 1 <= N PROVE Good(n + 1)
    <3> HIDE DEF Good
    <3> QED
      OBVIOUS
  <2>2. Good(n)
    <3>1. n + 1 <= N
      BY <1>1, <2>1
    <3> HIDE DEF Good
    <3> QED
      BY <1>4, <3>1
  <2>3. (n + 1) + 1 \in 1..N /\ ((n + 1) + 1) - 1 = n + 1 /\ n + 1 \in 0..N
    BY <1>1, <2>1
  <2>4. PICK u : u = f[n + 1]
    OBVIOUS
  <2>5. PICK v : v = s[(n + 1) + 1]
    OBVIOUS
  <2>6. f[(n + 1) + 1] = u \o v /\ u \in Seq(X) /\ v \in Seq(X)
    BY <1>1, <1>2, <2>3, <2>4, <2>5 DEF Joins
  <2>7. Len(u) > 0 /\ u[1] = s[1][1]
    BY <2>2, <2>4
  <2>8. Len(u \o v) = Len(u) + Len(v) /\ Len(u) \in Nat /\ Len(v) \in Nat
    BY <2>6
  <2>9. (u \o v)[1] = u[1]
    BY <2>6, <2>7
  <2> QED
    BY <2>6, <2>7, <2>8, <2>9
<1>5. \A n \in Nat : n \in T
  <2> HIDE DEF T
  <2> QED
    BY <1>3, <1>4, EveryNumber
<1>6. Good(N - 1)
  <2>1. N - 1 \in T /\ (N - 1) + 1 <= N
    <3> HIDE DEF T
    <3> QED
      BY <1>1, <1>5
  <2> HIDE DEF Good
  <2> QED
    BY <2>1
<1>7. (N - 1) + 1 = N
  BY <1>1
<1>8. FlattenSeq(s) = f[N]
  BY <1>2, FlattenIs
<1>9. Len(f[N]) > 0 /\ f[N][1] = s[1][1]
  BY <1>6, <1>7
<1>10. f[N] # << >>
  BY <1>9
<1> QED
  BY <1>8, <1>9, <1>10

LEMMA GeneratedFirst ==
  ASSUME NEW draws \in Draws, NEW b, b = Generated(draws)
  PROVE  /\ b \in CleanBatch
         /\ Len(draws) \in Nat \ {0} /\ 1 \in 1..Len(draws)
         /\ b.orders # << >> /\ b.orders[1] = OrderRow(0, LinesAt(draws, 1))
         /\ b.order_lines # << >> /\ b.order_lines[1] = LinesAt(draws, 1)[1]
         /\ b.products # << >> /\ b.products[1] = Product(0)
<1>1. Len(draws) \in Nat \ {0} /\ 1 \in 1..Len(draws) /\ Products \in Nat \ {0} /\ MaxLines \in Nat
  BY DrawsFacts, BatchAssumption
<1>2. b.orders = OrdersMade(draws) /\ b.order_lines = FlattenSeq(LinesMade(draws)) /\ b.products = ProductsMade
  BY GeneratedIs
<1>3. OrdersMade(draws) # << >> /\ OrdersMade(draws)[1] = OrderRow(0, LinesAt(draws, 1))
  <2>1. Len(OrdersMade(draws)) # 0 /\ OrdersMade(draws) \in Seq(OrderType)
    BY <1>1, MadeTyped
  <2>2. OrdersMade(draws)[1] = OrderRow(1 - 1, LinesAt(draws, 1)) /\ 1 - 1 = 0
    BY <1>1 DEF OrdersMade
  <2> QED
    BY <2>1, <2>2
<1>4. ProductsMade # << >> /\ ProductsMade[1] = Product(0)
  <2>1. Len(ProductsMade) # 0 /\ ProductsMade \in Seq(ProductType)
    BY <1>1, MadeTyped
  <2>2. ProductsMade[1] = Product(1 - 1) /\ 1 - 1 = 0 /\ 1 \in 1..Products
    BY <1>1 DEF ProductsMade
  <2> QED
    BY <2>1, <2>2
<1>5. LinesMade(draws)[1] = LinesAt(draws, 1)
  BY <1>1 DEF LinesMade
<1>6. LinesAt(draws, 1) # << >>
  <2>1. Len(LinesAt(draws, 1)) \in 1..MaxLines
    BY <1>1, LinesAtFacts
  <2> QED
    BY <1>1, <2>1
<1>7. LinesMade(draws) # << >> /\ LinesMade(draws) \in Seq(Seq(LineType))
  <2>1. Len(LinesMade(draws)) # 0 /\ LinesMade(draws) \in Seq(Seq(LineType))
    BY <1>1, MadeTyped
  <2> QED
    BY <2>1
<1>8. FlattenSeq(LinesMade(draws)) # << >> /\ FlattenSeq(LinesMade(draws))[1] = LinesAt(draws, 1)[1]
  BY <1>5, <1>6, <1>7, FlattenFirst
<1> QED
  BY <1>1, <1>2, <1>3, <1>4, <1>8, GeneratedClean

\* The rows of q in P, one group for each row.
KeptGroups(q, P) == [i \in DOMAIN q |-> IF q[i] \in P THEN <<q[i]>> ELSE << >>]

\* Leaving rows out of a table leaves rows of the table.
LEMMA KeptRows ==
  ASSUME NEW X, NEW q \in Seq(X), NEW P
  PROVE  /\ FlattenSeq(KeptGroups(q, P)) \in Seq(X)
         /\ \A x : x \in Range(FlattenSeq(KeptGroups(q, P))) <=> x \in Range(q) /\ x \in P
<1>1. Len(q) \in Nat /\ DOMAIN q = 1..Len(q)
  OBVIOUS
<1>2. PICK s : s = KeptGroups(q, P)
  OBVIOUS
<1>3. s \in [1..Len(q) -> Seq(X)]
  BY <1>1, <1>2 DEF KeptGroups
<1>4. s \in Seq(Seq(X)) /\ DOMAIN s = DOMAIN q
  BY <1>1, <1>3, FunctionSeq
<1>5. \A i \in DOMAIN q : \A x : x \in Range(s[i]) <=> x = q[i] /\ q[i] \in P
  BY <1>2 DEF KeptGroups, Range
<1>6. \A x : x \in Range(FlattenSeq(s)) <=> \E i \in DOMAIN q : x \in Range(s[i])
  BY <1>4, FlattenRange
<1>7. \A x : x \in Range(q) <=> \E i \in DOMAIN q : x = q[i]
  BY DEF Range
<1>8. FlattenSeq(s) \in Seq(X)
  BY <1>4, FlattenRange
<1>9. ASSUME NEW x
      PROVE  x \in Range(FlattenSeq(s)) <=> x \in Range(q) /\ x \in P
  <2>1. x \in Range(FlattenSeq(s)) <=> \E i \in DOMAIN q : x = q[i] /\ q[i] \in P
    BY <1>5, <1>6
  <2> QED
    BY <1>7, <2>1
<1> QED
  BY <1>2, <1>8, <1>9

\* A batch without the rows of one product.
LEMMA MissingDimensionRows ==
  ASSUME NEW b \in CleanBatch, NEW d, d = with_missing_dimension(b)
  PROVE  /\ d \in CleanBatch
         /\ \A t \in Tables \ {"products"} : d[t] = b[t]
         /\ \A x : x \in Range(d.products) <=>
                      x \in Range(b.products) /\ x.product_id # b.order_lines[1].product_id
<1>a. PICK kept : kept = {x \in ProductType : x.product_id # b.order_lines[1].product_id}
  OBVIOUS
<1>1. PICK q : q = b.products
  OBVIOUS
<1>2. q \in Seq(ProductType)
  BY <1>1, CleanRows
<1>3. PICK s : s = KeptGroups(q, kept)
  OBVIOUS
<1>4. [i \in DOMAIN q |-> IF q[i].product_id # b.order_lines[1].product_id THEN <<q[i]>> ELSE << >>] = s
  BY <1>2, <1>3, <1>a DEF KeptGroups
<1>5. d = [b EXCEPT !.products = FlattenSeq(s)]
  BY <1>1, <1>4, Zenon DEF with_missing_dimension
<1>6. /\ FlattenSeq(s) \in Seq(ProductType)
      /\ \A x : x \in Range(FlattenSeq(s)) <=> x \in Range(q) /\ x \in kept
  BY <1>2, <1>3, KeptRows
<1>7. Range(q) \subseteq ProductType
  BY <1>2, RangeOf
<1>8. d \in CleanBatch /\ d.products = FlattenSeq(s)
  BY <1>5, <1>6, CleanExcept DEF Tables, RowType, CleanBatch
<1>9. \A t \in Tables \ {"products"} : d[t] = b[t]
  BY <1>5 DEF Tables, CleanBatch
<1> QED
  BY <1>1, <1>6, <1>7, <1>8, <1>9, <1>a

\* Each fault keeps a batch clean that has an order, a line and a product.
LEMMA FaultyClean ==
  ASSUME NEW b \in CleanBatch, b.orders # << >>, b.order_lines # << >>, b.products # << >>,
         NEW name \in DOMAIN Signal
  PROVE  Faulty(b, name) \in CleanBatch
<1>1. PICK r \in OrderType : r = b.orders[1]
  BY FirstRows
<1>2. PICK l \in LineType : l = b.order_lines[1]
  BY FirstRows
<1>3. PICK p \in ProductType : p = b.products[1]
  BY FirstRows
<1>4. with_broken_total(b) \in CleanBatch
  <2>1. [r EXCEPT !.total_cents = @ + 1] \in OrderType
    BY DEF OrderType
  <2>2. WithFirst(b, "orders", [r EXCEPT !.total_cents = @ + 1]) \in CleanBatch
    BY <2>1, CleanFirst DEF Tables, RowType
  <2> QED
    BY <1>1, <2>2 DEF with_broken_total
<1>5. with_excess_refund(b) \in CleanBatch
  <2>1. PICK x : x = [return_id |-> 0, order_id |-> r.order_id, line_id |-> l.line_id, quantity |-> 1,
                      refund_cents |-> r.total_cents + 1]
    OBVIOUS
  <2>2. x \in ReturnType
    BY <2>1 DEF ReturnType, OrderType, LineType
  <2>3. [b EXCEPT !.returns = Append(@, x)] \in CleanBatch
    BY <2>2, CleanAppend DEF Tables, RowType
  <2> QED
    BY <1>1, <1>2, <2>1, <2>3 DEF with_excess_refund
<1>6. with_missing_dimension(b) \in CleanBatch
  BY MissingDimensionRows
<1>7. with_overlapping_dimension(b) \in CleanBatch
  <2>1. PICK x : x = [p EXCEPT !.effective_from = @ + 1, !.loaded_at = @ + 1]
    OBVIOUS
  <2>2. x \in ProductType
    <3>1. PICK y : y = [p EXCEPT !.effective_from = @ + 1]
      OBVIOUS
    <3>2. y \in ProductType
      BY <3>1 DEF ProductType
    <3>3. [y EXCEPT !.loaded_at = @ + 1] \in ProductType
      BY <3>2 DEF ProductType
    <3> QED
      BY <2>1, <3>1, <3>3
  <2>3. [b EXCEPT !.products = Append(@, x)] \in CleanBatch
    BY <2>2, CleanAppend DEF Tables, RowType
  <2>4. with_overlapping_dimension(b) =
          [b EXCEPT !.products = Append(b.products,
              [b.products[1] EXCEPT !.effective_from = b.products[1].effective_from + 1,
                                    !.loaded_at = b.products[1].loaded_at + 1])]
    BY DEF with_overlapping_dimension
  <2>5. x = [b.products[1] EXCEPT !.effective_from = b.products[1].effective_from + 1,
                                  !.loaded_at = b.products[1].loaded_at + 1]
    BY <1>3, <2>1
  <2> QED
    BY <2>3, <2>4, <2>5
<1>8. with_negative_inventory(b) \in CleanBatch
  <2>1. PICK x : x = Movement(-1, 0, 0, l.product_id, 0, -1000000, r.order_ts + 1)
    OBVIOUS
  <2>2. x \in MovementType
    BY <2>1, MovementTyped DEF OrderType, LineType
  <2>3. [b EXCEPT !.inventory_movements = Append(@, x)] \in CleanBatch
    BY <2>2, CleanAppend DEF Tables, RowType
  <2> QED
    BY <1>1, <1>2, <2>1, <2>3 DEF with_negative_inventory
<1>9. name \in {"with_broken_total", "with_excess_refund", "with_missing_dimension",
                "with_overlapping_dimension", "with_negative_inventory"}
  BY DEF Signal
<1> QED
  BY <1>4, <1>5, <1>6, <1>7, <1>8, <1>9 DEF Faulty

\* A batch is clean; before the first edit it is what the generator made, or that with its fault.
BatchInv ==
    /\ batch \in CleanBatch
    /\ edits \in Nat
    /\ edits = 0 => \E draws \in Draws :
          \/ (fault = "none" /\ batch = Generated(draws))
          \/ (fault \in DOMAIN Signal /\ batch = Faulty(Generated(draws), fault))

LEMMA BatchInvariance ==
  ASSUME Unchecked = FALSE
  PROVE  BatchSpec => []BatchInv
<1>1. BatchInit => BatchInv
  BY GeneratedClean DEF BatchInit, BatchInv
<1>2. BatchInv /\ [BatchNext]_batchVars => BatchInv'
  <2> SUFFICES ASSUME BatchInv, [BatchNext]_batchVars
               PROVE  BatchInv'
    OBVIOUS
  <2>1. CASE MakeFaulty
    <3>1. PICK draws \in Draws : batch = Generated(draws)
      BY <2>1 DEF BatchInv, MakeFaulty, Signal
    <3>2. Faulty(batch, fault') \in CleanBatch
      BY <2>1, <3>1, GeneratedFirst, FaultyClean DEF MakeFaulty
    <3> QED
      BY <2>1, <3>1, <3>2 DEF BatchInv, MakeFaulty
  <2>2. CASE Edit
    <3>1. batch' \in CleanBatch
      BY <2>2, ReshapedClean, RewordedClean DEF BatchInv, Edit
    <3>2. edits' \in Nat /\ edits' # 0
      BY <2>2 DEF BatchInv, Edit
    <3> QED
      BY <3>1, <3>2 DEF BatchInv
  <2>3. CASE UNCHANGED batchVars
    BY <2>3 DEF BatchInv, batchVars
  <2> QED
    BY <2>1, <2>2, <2>3 DEF BatchNext
<1> QED
  BY <1>1, <1>2, PTL DEF BatchSpec

\* docs/correctness.md: on batches with neither null nor identifiers of several parts, the local
\* kernel and the Spark job pass and refuse the same ones, however many faults coincide.
THEOREM RulesAgreeTheorem ==
  ASSUME Unchecked = FALSE
  PROVE  BatchSpec => []RulesAgree
<1>1. BatchInv => RulesAgree
  BY CleanBatchesAgree DEF BatchInv, RulesAgree
<1> QED
  BY <1>1, BatchInvariance, PTL

-----------------------------------------------------------------------------
(* The rows of every table from last to first *)

Reversed(b) == [t \in Tables |-> Reverse(b[t])]

LEMMA ReverseIs ==
  ASSUME NEW X, NEW s \in Seq(X), NEW r, r = Reverse(s)
  PROVE  /\ r \in Seq(X) /\ Len(r) = Len(s) /\ DOMAIN r = DOMAIN s /\ DOMAIN s = 1..Len(s)
         /\ \A i \in 1..Len(s) : (Len(s) - i) + 1 \in 1..Len(s) /\ r[i] = s[(Len(s) - i) + 1]
         /\ Range(r) = Range(s)
<1>1. Len(s) \in Nat /\ s \in [1..Len(s) -> X] /\ DOMAIN s = 1..Len(s)
  OBVIOUS
<1>2. \A i \in 1..Len(s) : (Len(s) - i) + 1 \in 1..Len(s)
  BY <1>1
<1>3. r \in [1..Len(s) -> X] /\ \A i \in 1..Len(s) : r[i] = s[(Len(s) - i) + 1]
  BY <1>1, <1>2 DEF Reverse
<1>4. r \in Seq(X) /\ Len(r) = Len(s) /\ DOMAIN r = 1..Len(s)
  BY <1>1, <1>3, FunctionSeq
<1>5. Range(r) \subseteq Range(s)
  BY <1>1, <1>2, <1>3, <1>4 DEF Range
<1>6. ASSUME NEW i \in 1..Len(s)
      PROVE  s[i] \in Range(r)
  <2>1. (Len(s) - i) + 1 \in 1..Len(s) /\ (Len(s) - ((Len(s) - i) + 1)) + 1 = i
    BY <1>1
  <2> QED
    BY <1>3, <1>4, <2>1 DEF Range
<1>7. Range(s) \subseteq Range(r)
  BY <1>1, <1>6 DEF Range
<1> QED
  BY <1>1, <1>2, <1>3, <1>4, <1>5, <1>7

LEMMA ReversedClean ==
  ASSUME NEW b \in CleanBatch
  PROVE  /\ Reversed(b) \in CleanBatch
         /\ Reversed(b).orders = Reverse(b.orders)
         /\ Reversed(b).order_lines = Reverse(b.order_lines)
         /\ Reversed(b).payments = Reverse(b.payments)
         /\ Reversed(b).returns = Reverse(b.returns)
         /\ Reversed(b).inventory_movements = Reverse(b.inventory_movements)
         /\ Reversed(b).products = Reverse(b.products)
<1>1. /\ Reverse(b.orders) \in Seq(OrderType)
      /\ Reverse(b.order_lines) \in Seq(LineType)
      /\ Reverse(b.payments) \in Seq(PaymentType)
      /\ Reverse(b.returns) \in Seq(ReturnType)
      /\ Reverse(b.inventory_movements) \in Seq(MovementType)
      /\ Reverse(b.products) \in Seq(ProductType)
  BY CleanRows, ReverseIs
<1>2. Reversed(b) = [orders |-> Reverse(b.orders), order_lines |-> Reverse(b.order_lines),
                     payments |-> Reverse(b.payments), returns |-> Reverse(b.returns),
                     inventory_movements |-> Reverse(b.inventory_movements), products |-> Reverse(b.products)]
  BY DEF Reversed, Tables
<1> QED
  BY <1>1, <1>2 DEF CleanBatch

LEMMA ReverseTwice ==
  ASSUME NEW X, NEW s \in Seq(X)
  PROVE  Reverse(Reverse(s)) = s
<1>1. PICK r : r = Reverse(s)
  OBVIOUS
<1>2. PICK q : q = Reverse(r)
  OBVIOUS
<1>3. r \in Seq(X) /\ Len(r) = Len(s) /\ \A i \in 1..Len(s) : r[i] = s[(Len(s) - i) + 1]
  BY <1>1, ReverseIs
<1>4. q \in Seq(X) /\ Len(q) = Len(s) /\ \A i \in 1..Len(s) : q[i] = r[(Len(s) - i) + 1]
  BY <1>2, <1>3, ReverseIs
<1>5. ASSUME NEW i \in 1..Len(s)
      PROVE  q[i] = s[i]
  <2>1. (Len(s) - i) + 1 \in 1..Len(s) /\ (Len(s) - ((Len(s) - i) + 1)) + 1 = i
    OBVIOUS
  <2> QED
    BY <1>3, <1>4, <2>1
<1>6. q = s
  BY <1>4, <1>5, SameSeq
<1> QED
  BY <1>1, <1>2, <1>6

LEMMA ReversedTwice ==
  ASSUME NEW b \in CleanBatch
  PROVE  Reversed(Reversed(b)) = b
<1>1. PICK c : c = Reversed(b)
  OBVIOUS
<1>2. PICK d : d = Reversed(c)
  OBVIOUS
<1>3. c \in CleanBatch /\ d \in CleanBatch
  BY <1>1, <1>2, ReversedClean
<1>4. /\ d.orders = b.orders
      /\ d.order_lines = b.order_lines
      /\ d.payments = b.payments
      /\ d.returns = b.returns
      /\ d.inventory_movements = b.inventory_movements
      /\ d.products = b.products
  <2>1. /\ d.orders = Reverse(Reverse(b.orders))
        /\ d.order_lines = Reverse(Reverse(b.order_lines))
        /\ d.payments = Reverse(Reverse(b.payments))
        /\ d.returns = Reverse(Reverse(b.returns))
        /\ d.inventory_movements = Reverse(Reverse(b.inventory_movements))
        /\ d.products = Reverse(Reverse(b.products))
    BY <1>1, <1>2, <1>3, ReversedClean
  <2> QED
    BY <2>1, CleanRows, ReverseTwice
<1>5. \A x \in CleanBatch : x = [orders |-> x.orders, order_lines |-> x.order_lines, payments |-> x.payments,
                              returns |-> x.returns, inventory_movements |-> x.inventory_movements,
                              products |-> x.products]
  BY DEF CleanBatch
<1>6. d = b
  BY <1>3, <1>4, <1>5
<1> QED
  BY <1>1, <1>2, <1>6

\* Two rows of the reversed table are two rows of the table.
LEMMA ReverseApart ==
  ASSUME NEW X, NEW s \in Seq(X), NEW i \in DOMAIN Reverse(s), NEW j \in DOMAIN Reverse(s), i # j
  PROVE  \E k, m \in DOMAIN s : k # m /\ s[k] = Reverse(s)[i] /\ s[m] = Reverse(s)[j]
<1>1. PICK r : r = Reverse(s)
  OBVIOUS
<1>2. /\ DOMAIN r = 1..Len(s) /\ DOMAIN s = 1..Len(s)
      /\ \A k \in 1..Len(s) : (Len(s) - k) + 1 \in 1..Len(s) /\ r[k] = s[(Len(s) - k) + 1]
  BY <1>1, ReverseIs
<1>3. (Len(s) - i) + 1 # (Len(s) - j) + 1
  BY <1>1, <1>2
<1> QED
  BY <1>1, <1>2, <1>3

\* No two rows of a table have the same identity.
Distinct(b) ==
    /\ \A i, j \in DOMAIN b.orders : b.orders[i].order_id = b.orders[j].order_id => i = j
    /\ \A i, j \in DOMAIN b.order_lines : LineKey(b.order_lines[i]) = LineKey(b.order_lines[j]) => i = j
    /\ \A i, j \in DOMAIN b.payments : b.payments[i].payment_id = b.payments[j].payment_id => i = j
    /\ \A i, j \in DOMAIN b.returns : b.returns[i].return_id = b.returns[j].return_id => i = j
    /\ \A i, j \in DOMAIN b.inventory_movements : b.inventory_movements[i].movement_id = b.inventory_movements[j].movement_id => i = j
    /\ \A i, j \in DOMAIN b.products : ProductKey(b.products[i]) = ProductKey(b.products[j]) => i = j

LEMMA DistinctIs ==
  ASSUME NEW b \in CleanBatch
  PROVE  RepeatsIdentity(b, [i \in DOMAIN b.order_lines |-> JoinedLineKey(b.order_lines[i])]) <=> ~Distinct(b)
<1>1. ~Repeats([i \in DOMAIN b.orders |-> b.orders[i].order_id])
        <=> \A i, j \in DOMAIN b.orders : b.orders[i].order_id = b.orders[j].order_id => i = j
  BY DEF Repeats, IsInjective
<1>2. ~Repeats([i \in DOMAIN b.order_lines |-> LineKey(b.order_lines[i])])
        <=> \A i, j \in DOMAIN b.order_lines : LineKey(b.order_lines[i]) = LineKey(b.order_lines[j]) => i = j
  BY DEF Repeats, IsInjective
<1>3. ~Repeats([i \in DOMAIN b.payments |-> b.payments[i].payment_id])
        <=> \A i, j \in DOMAIN b.payments : b.payments[i].payment_id = b.payments[j].payment_id => i = j
  BY DEF Repeats, IsInjective
<1>4. ~Repeats([i \in DOMAIN b.returns |-> b.returns[i].return_id])
        <=> \A i, j \in DOMAIN b.returns : b.returns[i].return_id = b.returns[j].return_id => i = j
  BY DEF Repeats, IsInjective
<1>5. ~Repeats([i \in DOMAIN b.inventory_movements |-> b.inventory_movements[i].movement_id])
        <=> \A i, j \in DOMAIN b.inventory_movements : b.inventory_movements[i].movement_id = b.inventory_movements[j].movement_id => i = j
  BY DEF Repeats, IsInjective
<1>6. ~Repeats([i \in DOMAIN b.products |-> ProductKey(b.products[i])])
        <=> \A i, j \in DOMAIN b.products : ProductKey(b.products[i]) = ProductKey(b.products[j]) => i = j
  BY DEF Repeats, IsInjective
<1> QED
  BY <1>1, <1>2, <1>3, <1>4, <1>5, <1>6, SameRepeats, Zenon DEF RepeatsIdentity, Distinct

LEMMA ReversedDistinct ==
  ASSUME NEW b \in CleanBatch, Distinct(b)
  PROVE  Distinct(Reversed(b))
<1>1. PICK c : c = Reversed(b)
  OBVIOUS
<1>2. /\ c.orders = Reverse(b.orders)
      /\ c.order_lines = Reverse(b.order_lines)
      /\ c.payments = Reverse(b.payments)
      /\ c.returns = Reverse(b.returns)
      /\ c.inventory_movements = Reverse(b.inventory_movements)
      /\ c.products = Reverse(b.products)
  BY <1>1, ReversedClean
<1>3. \A X : \A q \in Seq(X) : \A i, j \in DOMAIN Reverse(q) : i # j =>
         \E k, m \in DOMAIN q : k # m /\ q[k] = Reverse(q)[i] /\ q[m] = Reverse(q)[j]
  BY ReverseApart
<1>4. ASSUME NEW i \in DOMAIN c.orders, NEW j \in DOMAIN c.orders, c.orders[i].order_id = c.orders[j].order_id
      PROVE  i = j
  <2>1. i # j => \E k, m \in DOMAIN b.orders : k # m /\ b.orders[k] = c.orders[i] /\ b.orders[m] = c.orders[j]
    <3>1. b.orders \in Seq(OrderType)
      BY CleanRows
    <3> QED
      BY <1>2, <1>3, <3>1
  <2> QED
    BY <1>4, <2>1 DEF Distinct
<1>5. ASSUME NEW i \in DOMAIN c.order_lines, NEW j \in DOMAIN c.order_lines, LineKey(c.order_lines[i]) = LineKey(c.order_lines[j])
      PROVE  i = j
  <2>1. i # j => \E k, m \in DOMAIN b.order_lines : k # m /\ b.order_lines[k] = c.order_lines[i] /\ b.order_lines[m] = c.order_lines[j]
    <3>1. b.order_lines \in Seq(LineType)
      BY CleanRows
    <3> QED
      BY <1>2, <1>3, <3>1
  <2> QED
    BY <1>5, <2>1 DEF Distinct
<1>6. ASSUME NEW i \in DOMAIN c.payments, NEW j \in DOMAIN c.payments, c.payments[i].payment_id = c.payments[j].payment_id
      PROVE  i = j
  <2>1. i # j => \E k, m \in DOMAIN b.payments : k # m /\ b.payments[k] = c.payments[i] /\ b.payments[m] = c.payments[j]
    <3>1. b.payments \in Seq(PaymentType)
      BY CleanRows
    <3> QED
      BY <1>2, <1>3, <3>1
  <2> QED
    BY <1>6, <2>1 DEF Distinct
<1>7. ASSUME NEW i \in DOMAIN c.returns, NEW j \in DOMAIN c.returns, c.returns[i].return_id = c.returns[j].return_id
      PROVE  i = j
  <2>1. i # j => \E k, m \in DOMAIN b.returns : k # m /\ b.returns[k] = c.returns[i] /\ b.returns[m] = c.returns[j]
    <3>1. b.returns \in Seq(ReturnType)
      BY CleanRows
    <3> QED
      BY <1>2, <1>3, <3>1
  <2> QED
    BY <1>7, <2>1 DEF Distinct
<1>8. ASSUME NEW i \in DOMAIN c.inventory_movements, NEW j \in DOMAIN c.inventory_movements, c.inventory_movements[i].movement_id = c.inventory_movements[j].movement_id
      PROVE  i = j
  <2>1. i # j => \E k, m \in DOMAIN b.inventory_movements : k # m /\ b.inventory_movements[k] = c.inventory_movements[i] /\ b.inventory_movements[m] = c.inventory_movements[j]
    <3>1. b.inventory_movements \in Seq(MovementType)
      BY CleanRows
    <3> QED
      BY <1>2, <1>3, <3>1
  <2> QED
    BY <1>8, <2>1 DEF Distinct
<1>9. ASSUME NEW i \in DOMAIN c.products, NEW j \in DOMAIN c.products, ProductKey(c.products[i]) = ProductKey(c.products[j])
      PROVE  i = j
  <2>1. i # j => \E k, m \in DOMAIN b.products : k # m /\ b.products[k] = c.products[i] /\ b.products[m] = c.products[j]
    <3>1. b.products \in Seq(ProductType)
      BY CleanRows
    <3> QED
      BY <1>2, <1>3, <3>1
  <2> QED
    BY <1>9, <2>1 DEF Distinct
<1> QED
  BY <1>1, <1>4, <1>5, <1>6, <1>7, <1>8, <1>9 DEF Distinct

LEMMA AddendIs ==
  ASSUME NEW chosen, NEW x \in Int
  PROVE  Addend(chosen, x) = (IF chosen THEN x ELSE 0) /\ Addend(chosen, x) \in Int
<1>1. x # Null
  BY BatchAssumption
<1> QED
  BY <1>1 DEF Addend

\* What each row adds to each of the sums.
SubtotalPart(o) == [r \in LineType |-> Addend(r.order_id = o, r.line_total_cents)]
CapturedPart(o) == [r \in PaymentType |-> Addend(r.order_id = o /\ r.status = "CAPTURED", r.amount_cents)]
RefundPart(o) == [r \in ReturnType |-> Addend(r.order_id = o, r.refund_cents)]
ReturnPart(key) == [r \in ReturnType |-> Addend(LineKey(r) = key, r.quantity)]
MatchPart(line, time) ==
    [v \in ProductType |-> Addend(v.product_id = line.product_id /\ Knowable(v, time), 1)]

LEMMA PartsTyped ==
  /\ \A o : SubtotalPart(o) \in [LineType -> Int]
  /\ \A o : CapturedPart(o) \in [PaymentType -> Int]
  /\ \A o : RefundPart(o) \in [ReturnType -> Int]
  /\ \A key : ReturnPart(key) \in [ReturnType -> Int]
  /\ \A line : \A time : MatchPart(line, time) \in [ProductType -> Int]
<1>1. \A r \in LineType : \A o : Addend(r.order_id = o, r.line_total_cents) \in Int
  BY DEF LineType, Addend
<1>2. \A r \in PaymentType : \A o : Addend(r.order_id = o /\ r.status = "CAPTURED", r.amount_cents) \in Int
  BY DEF PaymentType, Addend
<1>3. \A r \in ReturnType : \A o : Addend(r.order_id = o, r.refund_cents) \in Int
  BY DEF ReturnType, Addend
<1>4. \A r \in ReturnType : \A key : Addend(LineKey(r) = key, r.quantity) \in Int
  BY DEF ReturnType, Addend
<1>5. \A v \in ProductType : \A line : \A time :
         Addend(v.product_id = line.product_id /\ Knowable(v, time), 1) \in Int
  BY DEF Addend
<1> QED
  BY <1>1, <1>2, <1>3, <1>4, <1>5 DEF SubtotalPart, CapturedPart, RefundPart, ReturnPart, MatchPart

\* The sums of the rules, as sums of the rows' parts.
LEMMA PartsAre ==
  ASSUME NEW b \in CleanBatch
  PROVE  /\ \A o : Subtotal(b, o) = Total(Valued(b.order_lines, SubtotalPart(o)))
         /\ \A o : Captured(b, o) = Total(Valued(b.payments, CapturedPart(o)))
         /\ \A o : Refunded(b, DOMAIN b.returns, o) = Total(Valued(b.returns, RefundPart(o)))
         /\ \A key : ReturnedQuantity(b, DOMAIN b.returns, key) = Total(Valued(b.returns, ReturnPart(key)))
         /\ \A line : Matches(b, line) =
                         Total(Valued(b.products, MatchPart(line, OrderNamed(b, line.order_id).order_ts)))
<1>1. ASSUME NEW o
      PROVE  Subtotal(b, o) = Total(Valued(b.order_lines, SubtotalPart(o)))
  <2>1. PICK q \in Seq(LineType) : q = b.order_lines
    BY CleanRows
  <2>2. DOMAIN q = 1..Len(q) /\ \A i \in 1..Len(q) : q[i] \in LineType
    BY <2>1
  <2>3. [i \in DOMAIN q |-> Addend(q[i].order_id = o, q[i].line_total_cents)] = Valued(q, SubtotalPart(o))
    BY <2>2 DEF Valued, SubtotalPart
  <2> QED
    BY <2>1, <2>3, Zenon DEF Subtotal
<1>2. ASSUME NEW o
      PROVE  Captured(b, o) = Total(Valued(b.payments, CapturedPart(o)))
  <2>1. PICK q \in Seq(PaymentType) : q = b.payments
    BY CleanRows
  <2>2. DOMAIN q = 1..Len(q) /\ \A i \in 1..Len(q) : q[i] \in PaymentType
    BY <2>1
  <2>3. [i \in DOMAIN q |-> Addend(q[i].order_id = o /\ q[i].status = "CAPTURED", q[i].amount_cents)]
          = Valued(q, CapturedPart(o))
    BY <2>2 DEF Valued, CapturedPart
  <2> QED
    BY <2>1, <2>3, Zenon DEF Captured
<1>3. ASSUME NEW o
      PROVE  Refunded(b, DOMAIN b.returns, o) = Total(Valued(b.returns, RefundPart(o)))
  <2>1. PICK q \in Seq(ReturnType) : q = b.returns
    BY CleanRows
  <2>2. DOMAIN q = 1..Len(q) /\ \A i \in 1..Len(q) : q[i] \in ReturnType
    BY <2>1
  <2>3. \A i \in 1..Len(q) :
          Addend(i \in DOMAIN q /\ q[i].order_id = o, q[i].refund_cents) = RefundPart(o)[q[i]]
    BY <2>2 DEF RefundPart, Addend
  <2>4. [i \in DOMAIN q |-> Addend(i \in DOMAIN q /\ q[i].order_id = o, q[i].refund_cents)]
          = Valued(q, RefundPart(o))
    BY <2>2, <2>3 DEF Valued
  <2> QED
    BY <2>1, <2>4, Zenon DEF Refunded
<1>4. ASSUME NEW key
      PROVE  ReturnedQuantity(b, DOMAIN b.returns, key) = Total(Valued(b.returns, ReturnPart(key)))
  <2>1. PICK q \in Seq(ReturnType) : q = b.returns
    BY CleanRows
  <2>2. DOMAIN q = 1..Len(q) /\ \A i \in 1..Len(q) : q[i] \in ReturnType
    BY <2>1
  <2>3. \A i \in 1..Len(q) :
          Addend(i \in DOMAIN q /\ LineKey(q[i]) = key, q[i].quantity) = ReturnPart(key)[q[i]]
    BY <2>2 DEF ReturnPart, Addend
  <2>4. [i \in DOMAIN q |-> Addend(i \in DOMAIN q /\ LineKey(q[i]) = key, q[i].quantity)]
          = Valued(q, ReturnPart(key))
    BY <2>2, <2>3 DEF Valued
  <2> QED
    BY <2>1, <2>4, Zenon DEF ReturnedQuantity
<1>5. ASSUME NEW line
      PROVE  Matches(b, line) =
                Total(Valued(b.products, MatchPart(line, OrderNamed(b, line.order_id).order_ts)))
  <2>1. PICK q \in Seq(ProductType) : q = b.products
    BY CleanRows
  <2>2. DOMAIN q = 1..Len(q) /\ \A i \in 1..Len(q) : q[i] \in ProductType
    BY <2>1
  <2>3. PICK time : time = OrderNamed(b, line.order_id).order_ts
    OBVIOUS
  <2>4. [i \in DOMAIN q |-> Addend(q[i].product_id = line.product_id /\ Knowable(q[i], time), 1)]
          = Valued(q, MatchPart(line, time))
    BY <2>2 DEF Valued, MatchPart
  <2> QED
    BY <2>1, <2>3, <2>4, Zenon DEF Matches
<1> QED
  BY <1>1, <1>2, <1>3, <1>4, <1>5

\* A sum over the rows of a table is that over the reversed table.
LEMMA ReversedSum ==
  ASSUME NEW X, NEW q \in Seq(X), NEW h \in [X -> Int]
  PROVE  Total(Valued(Reverse(q), h)) = Total(Valued(q, h))
<1>1. PICK r : r = Reverse(q)
  OBVIOUS
<1>2. /\ r \in Seq(X) /\ Len(r) = Len(q) /\ Len(q) \in Nat
      /\ \A i \in 1..Len(q) : (Len(q) - i) + 1 \in 1..Len(q) /\ r[i] = q[(Len(q) - i) + 1]
  BY <1>1, ReverseIs
<1>3. PICK v : v = Valued(q, h)
  OBVIOUS
<1>4. PICK w : w = Valued(r, h)
  OBVIOUS
<1>5. v \in Seq(Int) /\ Len(v) = Len(q) /\ \A i \in 1..Len(q) : v[i] = h[q[i]]
  BY <1>3, ValuedType
<1>6. w \in Seq(Int) /\ Len(w) = Len(q) /\ \A i \in 1..Len(q) : w[i] = h[r[i]]
  <2>1. r \in Seq(X)
    BY <1>2
  <2>2. w \in Seq(Int) /\ Len(w) = Len(r) /\ \A i \in 1..Len(r) : w[i] = h[r[i]]
    BY <1>4, <2>1, ValuedType
  <2> QED
    BY <1>2, <2>2
<1>7. ASSUME NEW i \in 1..Len(v)
      PROVE  w[i] = v[(Len(v) - i) + 1]
  <2>1. i \in 1..Len(q) /\ Len(v) = Len(q)
    BY <1>5
  <2>2. w[i] = h[r[i]] /\ r[i] = q[(Len(q) - i) + 1] /\ (Len(q) - i) + 1 \in 1..Len(q)
    BY <1>2, <1>6, <2>1
  <2>3. v[(Len(q) - i) + 1] = h[q[(Len(q) - i) + 1]]
    BY <1>5, <2>2
  <2> QED
    BY <2>1, <2>2, <2>3
<1>8. Total(w) = Total(v)
  BY <1>5, <1>6, <1>7, TotalReverse
<1> QED
  BY <1>1, <1>3, <1>4, <1>8

LEMMA ReversedSums ==
  ASSUME NEW b \in CleanBatch, NEW c, c = Reversed(b)
  PROVE  /\ \A o : Subtotal(c, o) = Subtotal(b, o)
         /\ \A o : Captured(c, o) = Captured(b, o)
         /\ \A o : Refunded(c, DOMAIN c.returns, o) = Refunded(b, DOMAIN b.returns, o)
         /\ \A key : ReturnedQuantity(c, DOMAIN c.returns, key) = ReturnedQuantity(b, DOMAIN b.returns, key)
         /\ \A line : OrderNamed(c, line.order_id) = OrderNamed(b, line.order_id) =>
                         Matches(c, line) = Matches(b, line)
<1>1. /\ c \in CleanBatch
      /\ c.order_lines = Reverse(b.order_lines)
      /\ c.payments = Reverse(b.payments)
      /\ c.returns = Reverse(b.returns)
      /\ c.products = Reverse(b.products)
  BY ReversedClean
<1>2. \A o : Total(Valued(c.order_lines, SubtotalPart(o))) = Total(Valued(b.order_lines, SubtotalPart(o)))
  BY <1>1, CleanRows, PartsTyped, ReversedSum
<1>3. \A o : Total(Valued(c.payments, CapturedPart(o))) = Total(Valued(b.payments, CapturedPart(o)))
  BY <1>1, CleanRows, PartsTyped, ReversedSum
<1>4. \A o : Total(Valued(c.returns, RefundPart(o))) = Total(Valued(b.returns, RefundPart(o)))
  BY <1>1, CleanRows, PartsTyped, ReversedSum
<1>5. \A key : Total(Valued(c.returns, ReturnPart(key))) = Total(Valued(b.returns, ReturnPart(key)))
  BY <1>1, CleanRows, PartsTyped, ReversedSum
<1>6. \A line : \A time :
         Total(Valued(c.products, MatchPart(line, time))) = Total(Valued(b.products, MatchPart(line, time)))
  BY <1>1, CleanRows, PartsTyped, ReversedSum
<1>7. ASSUME NEW line, OrderNamed(c, line.order_id) = OrderNamed(b, line.order_id)
      PROVE  Matches(c, line) = Matches(b, line)
  <2>1. PICK n : n = OrderNamed(b, line.order_id)
    OBVIOUS
  <2>2. OrderNamed(c, line.order_id) = n
    BY <1>7, <2>1
  <2>3. PICK time : time = n.order_ts
    OBVIOUS
  <2>4. Matches(b, line) = Total(Valued(b.products, MatchPart(line, time)))
    BY <2>1, <2>3, PartsAre
  <2>5. Matches(c, line) = Total(Valued(c.products, MatchPart(line, time)))
    BY <1>1, <2>2, <2>3, PartsAre
  <2> QED
    BY <1>6, <2>4, <2>5
<1>8. ASSUME NEW o
      PROVE  Subtotal(c, o) = Subtotal(b, o)
  <2>1. Subtotal(b, o) = Total(Valued(b.order_lines, SubtotalPart(o)))
    BY PartsAre
  <2>2. Subtotal(c, o) = Total(Valued(c.order_lines, SubtotalPart(o)))
    BY <1>1, PartsAre
  <2> QED
    BY <1>2, <2>1, <2>2
<1>9. ASSUME NEW o
      PROVE  Captured(c, o) = Captured(b, o)
  <2>1. Captured(b, o) = Total(Valued(b.payments, CapturedPart(o)))
    BY PartsAre
  <2>2. Captured(c, o) = Total(Valued(c.payments, CapturedPart(o)))
    BY <1>1, PartsAre
  <2> QED
    BY <1>3, <2>1, <2>2
<1>10. ASSUME NEW o
      PROVE  Refunded(c, DOMAIN c.returns, o) = Refunded(b, DOMAIN b.returns, o)
  <2>1. Refunded(b, DOMAIN b.returns, o) = Total(Valued(b.returns, RefundPart(o)))
    BY PartsAre
  <2>2. Refunded(c, DOMAIN c.returns, o) = Total(Valued(c.returns, RefundPart(o)))
    BY <1>1, PartsAre
  <2> QED
    BY <1>4, <2>1, <2>2
<1>11. ASSUME NEW key
      PROVE  ReturnedQuantity(c, DOMAIN c.returns, key) = ReturnedQuantity(b, DOMAIN b.returns, key)
  <2>1. ReturnedQuantity(b, DOMAIN b.returns, key) = Total(Valued(b.returns, ReturnPart(key)))
    BY PartsAre
  <2>2. ReturnedQuantity(c, DOMAIN c.returns, key) = Total(Valued(c.returns, ReturnPart(key)))
    BY <1>1, PartsAre
  <2> QED
    BY <1>5, <2>1, <2>2
<1> QED
  BY <1>7, <1>8, <1>9, <1>10, <1>11

\* What movement i adds to the stock after movement j.
StockPart(rows, j, i) ==
    Addend(/\ rows[i].product_id = rows[j].product_id
           /\ rows[i].store_id = rows[j].store_id
           /\ AtOrBefore(rows, i, j), rows[i].quantity_delta)

StockParts(rows, j) == [i \in 1..Len(rows) |-> StockPart(rows, j, i)]

LEMMA StockIs ==
  ASSUME NEW b \in CleanBatch, NEW q, q = b.inventory_movements, NEW j \in 1..Len(q)
  PROVE  /\ Stock(b, j) = Total(StockParts(q, j))
         /\ StockParts(q, j) \in Seq(Int) /\ Len(StockParts(q, j)) = Len(q)
         /\ \A i \in 1..Len(q) : StockParts(q, j)[i] = StockPart(q, j, i)
<1>1. q \in Seq(MovementType) /\ DOMAIN q = 1..Len(q) /\ Len(q) \in Nat
  BY CleanRows
<1>2. Stock(b, j) = Total(StockParts(q, j))
  BY <1>1, Zenon DEF Stock, StockParts, StockPart
<1>3. ASSUME NEW i \in 1..Len(q)
      PROVE  StockPart(q, j, i) \in Int
  <2>1. q[i] \in MovementType
    BY <1>1
  <2>2. q[i].quantity_delta \in Int
    BY <2>1 DEF MovementType
  <2> QED
    BY <2>2 DEF StockPart, Addend
<1>4. StockParts(q, j) \in [1..Len(q) -> Int]
  BY <1>3 DEF StockParts
<1>5. \A i \in 1..Len(q) : StockParts(q, j)[i] = StockPart(q, j, i)
  BY DEF StockParts
<1> QED
  BY <1>1, <1>2, <1>4, <1>5, FunctionSeq

\* With one row for each movement identifier, a movement has the same movements at or before it
\* wherever it stands in the table.
LEMMA ReversedStock ==
  ASSUME NEW b \in CleanBatch, Distinct(b), NEW c, c = Reversed(b),
         NEW N, N = Len(b.inventory_movements), NEW j \in 1..N
  PROVE  /\ Len(c.inventory_movements) = N
         /\ (N - j) + 1 \in 1..N
         /\ Stock(c, j) = Stock(b, (N - j) + 1)
<1>1. PICK q \in Seq(MovementType) : q = b.inventory_movements
  BY CleanRows
<1>2. PICK r : r = c.inventory_movements
  OBVIOUS
<1>3. c \in CleanBatch /\ r = Reverse(q) /\ N \in Nat /\ N = Len(q)
  BY <1>1, <1>2, ReversedClean
<1>4. Len(r) = N /\ \A i \in 1..N : (N - i) + 1 \in 1..N /\ r[i] = q[(N - i) + 1]
  BY <1>3, ReverseIs
<1>5. PICK k : k = (N - j) + 1
  OBVIOUS
<1>6. k \in 1..N /\ r[j] = q[k]
  BY <1>4, <1>5
<1>7. PICK v : v = StockParts(q, k)
  OBVIOUS
<1>8. PICK w : w = StockParts(r, j)
  OBVIOUS
<1>9. /\ Stock(b, k) = Total(v) /\ v \in Seq(Int) /\ Len(v) = N
      /\ \A i \in 1..N : v[i] = StockPart(q, k, i)
  <2>1. k \in 1..Len(q)
    BY <1>3, <1>6
  <2>2. /\ Stock(b, k) = Total(StockParts(q, k))
        /\ StockParts(q, k) \in Seq(Int) /\ Len(StockParts(q, k)) = Len(q)
        /\ \A i \in 1..Len(q) : StockParts(q, k)[i] = StockPart(q, k, i)
    BY <1>1, <2>1, StockIs
  <2> QED
    BY <1>3, <1>7, <2>2
<1>10. /\ Stock(c, j) = Total(w) /\ w \in Seq(Int) /\ Len(w) = N
       /\ \A i \in 1..N : w[i] = StockPart(r, j, i)
  <2>1. j \in 1..Len(r)
    BY <1>4
  <2>2. /\ Stock(c, j) = Total(StockParts(r, j))
        /\ StockParts(r, j) \in Seq(Int) /\ Len(StockParts(r, j)) = Len(r)
        /\ \A i \in 1..Len(r) : StockParts(r, j)[i] = StockPart(r, j, i)
    BY <1>2, <1>3, <2>1, StockIs
  <2> QED
    BY <1>4, <1>8, <2>2
<1>11. ASSUME NEW i \in 1..N
       PROVE  w[i] = v[(N - i) + 1]
  <2>1. PICK m : m = (N - i) + 1
    OBVIOUS
  <2>2. m \in 1..N /\ r[i] = q[m]
    BY <1>4, <2>1
  <2>3. q[m].movement_id = q[k].movement_id => m = k
    BY <1>1, <1>3, <1>6, <2>2 DEF Distinct
  <2>4. m = k => i = j
    BY <1>3, <1>5, <2>1
  <2>5. AtOrBefore(r, i, j) <=> AtOrBefore(q, m, k)
    BY <1>6, <2>2, <2>3, <2>4 DEF AtOrBefore
  <2>6. StockPart(r, j, i) = StockPart(q, k, m)
    BY <1>6, <2>2, <2>5 DEF StockPart
  <2> QED
    BY <1>9, <1>10, <2>1, <2>2, <2>6
<1>12. Total(w) = Total(v)
  BY <1>9, <1>10, <1>11, TotalReverse
<1> QED
  BY <1>2, <1>4, <1>5, <1>6, <1>9, <1>10, <1>12

\* Where orders have different identifiers, the lookup gives the one order of an identifier.
LEMMA OrderNamedIs ==
  ASSUME NEW b \in CleanBatch, Distinct(b), NEW o \in Range(b.orders)
  PROVE  OrderNamed(b, o.order_id) = o
<1>1. PICK k \in DOMAIN b.orders : b.orders[k] = o
  BY CleanRows, RangeOf
<1>2. {i \in DOMAIN b.orders : b.orders[i].order_id = o.order_id} = {k}
  BY <1>1 DEF Distinct
<1>3. k \in Int
  BY <1>1, CleanRows
<1> QED
  BY <1>1, <1>2, <1>3, MaxOfOne DEF OrderNamed

\* What passes the local rules passes them with its rows in the other order.
LEMMA ReversedPasses ==
  ASSUME NEW b \in CleanBatch, LocalPasses(b)
  PROVE  LocalPasses(Reversed(b))
<1>1. PICK c : c = Reversed(b)
  OBVIOUS
<1>2. \A x \in Codes : ~LocalFinds(b)[x]
  BY LocalDomain DEF LocalPasses
<1>3. Distinct(b)
  BY <1>2, DistinctIs DEF LocalFinds, Codes
<1>4. c \in CleanBatch /\ Distinct(c)
  BY <1>1, <1>3, ReversedClean, ReversedDistinct
<1>5. /\ Range(c.orders) = Range(b.orders)
      /\ Range(c.order_lines) = Range(b.order_lines)
      /\ Range(c.payments) = Range(b.payments)
      /\ Range(c.returns) = Range(b.returns)
  BY <1>1, CleanRows, ReversedClean, ReverseIs
<1>6. /\ \A o : HasOrder(c, o) <=> HasOrder(b, o)
      /\ \A key : HasLine(c, key) <=> HasLine(b, key)
  BY <1>5 DEF HasOrder, HasLine
<1>7. \A r \in Range(b.returns) : HasLine(b, LineKey(r))
  BY <1>2 DEF LocalFinds, Codes
<1>8. /\ Counted(b) = DOMAIN b.returns /\ {b.returns[i] : i \in Counted(b)} = Range(b.returns)
      /\ Counted(c) = DOMAIN c.returns /\ {c.returns[i] : i \in Counted(c)} = Range(b.returns)
  <2>1. \A r \in Range(c.returns) : HasLine(c, LineKey(r))
    BY <1>5, <1>6, <1>7
  <2> QED
    BY <1>4, <1>5, <1>7, <2>1, AllCounted
<1>9. /\ \A o : Subtotal(c, o) = Subtotal(b, o)
      /\ \A o : Captured(c, o) = Captured(b, o)
      /\ \A o : Refunded(c, Counted(c), o) = Refunded(b, Counted(b), o)
      /\ \A key : ReturnedQuantity(c, Counted(c), key) = ReturnedQuantity(b, Counted(b), key)
  BY <1>1, <1>8, ReversedSums
<1>10. ASSUME NEW r \in Range(b.order_lines), HasOrder(b, r.order_id)
       PROVE  Matches(c, r) = Matches(b, r)
  <2>1. PICK o \in Range(b.orders) : o.order_id = r.order_id
    BY <1>10 DEF HasOrder
  <2>2. OrderNamed(b, o.order_id) = o /\ OrderNamed(c, o.order_id) = o
    BY <1>3, <1>4, <1>5, OrderNamedIs
  <2> QED
    BY <1>1, <2>1, <2>2, ReversedSums
<1>11. ASSUME NEW r \in Range(b.returns)
       PROVE  LineNamed(c, LineKey(r)) = LineNamed(b, LineKey(r))
  <2>1. PICK l \in Range(b.order_lines) : LineKey(l) = LineKey(r)
    BY <1>7 DEF HasLine
  <2>2. /\ ~Repeats([i \in DOMAIN b.order_lines |-> LineKey(b.order_lines[i])])
        /\ ~Repeats([i \in DOMAIN c.order_lines |-> LineKey(c.order_lines[i])])
    BY <1>3, <1>4 DEF Distinct, Repeats, IsInjective
  <2>3. LineNamed(b, LineKey(l)) = l /\ LineNamed(c, LineKey(l)) = l
    BY <1>4, <1>5, <2>2, LineNamedIs
  <2> QED
    BY <2>1, <2>3
<1>12. ASSUME NEW j \in DOMAIN c.inventory_movements
       PROVE  ~(Stock(c, j) < 0)
  <2>1. PICK N : N = Len(b.inventory_movements)
    OBVIOUS
  <2>2. j \in 1..N /\ DOMAIN b.inventory_movements = 1..N
    <3>1. c.inventory_movements = Reverse(b.inventory_movements) /\ b.inventory_movements \in Seq(MovementType)
      BY <1>1, CleanRows, ReversedClean
    <3> QED
      BY <2>1, <3>1, ReverseIs
  <2>3. \A k \in 1..N : ~(Stock(b, k) < 0)
    BY <1>2, <2>2 DEF LocalFinds, Codes
  <2>4. (N - j) + 1 \in 1..N /\ Stock(c, j) = Stock(b, (N - j) + 1)
    BY <1>1, <1>3, <2>1, <2>2, ReversedStock
  <2> QED
    BY <2>3, <2>4
<1>13. ASSUME NEW x \in Codes
       PROVE  ~LocalFinds(c)[x]
  <2>0. ~LocalFinds(b)[x]
    BY <1>2
  <2>1. CASE x = "DUPLICATE_ID"
    BY <1>4, <2>1, DistinctIs DEF LocalFinds
  <2>2. CASE x \in {"INVALID_LINE", "LINE_TOTAL", "ORDER_TOTAL", "CURRENCY"}
    BY <1>5, <2>0, <2>2 DEF LocalFinds
  <2>3. CASE x = "ORDER_SUBTOTAL"
    BY <1>5, <1>9, <2>0, <2>3 DEF LocalFinds
  <2>4. CASE x = "UNDERPAID"
    BY <1>5, <1>9, <2>0, <2>4 DEF LocalFinds, Underpaid
  <2>5. CASE x \in {"ORPHAN_PAYMENT", "ORPHAN_RETURN", "ORPHAN_LINE"}
    BY <1>5, <1>6, <2>0, <2>5 DEF LocalFinds
  <2>6. CASE x = "INVALID_RETURN"
    BY <1>8, <2>0, <2>6 DEF LocalFinds
  <2>7. CASE x = "RETURN_QUANTITY"
    BY <1>8, <1>9, <1>11, <2>0, <2>7 DEF LocalFinds
  <2>8. CASE x = "EXCESS_REFUND"
    BY <1>8, <1>9, <2>0, <2>8 DEF LocalFinds
  <2>9. CASE x = "NEGATIVE_INVENTORY"
    BY <1>12, <2>9 DEF LocalFinds
  <2>10. CASE x \in {"MISSING_DIMENSION", "AMBIGUOUS_DIMENSION"}
    BY <1>5, <1>6, <1>10, <2>0, <2>10 DEF LocalFinds
  <2> QED
    BY <2>1, <2>2, <2>3, <2>4, <2>5, <2>6, <2>7, <2>8, <2>9, <2>10 DEF Codes
<1>14. LocalCodes(c) = {}
  BY <1>13, LocalDomain DEF LocalCodes
<1> QED
  BY <1>1, <1>4, <1>14, CleanNumeric DEF LocalPasses

\* The kernel's verdict on a batch with neither null nor identifiers of several parts does not
\* depend on whether its rows are read from first to last or from last to first, although
\* quality.py overwrites earlier rows of its dictionaries and adds up stock as it goes.
THEOREM RowOrderTheorem ==
  ASSUME Unchecked = FALSE
  PROVE  BatchSpec => []RowOrderIrrelevant
<1>1. ASSUME NEW b \in CleanBatch
      PROVE  LocalPasses(Reversed(b)) <=> LocalPasses(b)
  <2>1. LocalPasses(b) => LocalPasses(Reversed(b))
    BY ReversedPasses
  <2>2. LocalPasses(Reversed(b)) => LocalPasses(Reversed(Reversed(b)))
    BY ReversedClean, ReversedPasses
  <2> QED
    BY <2>1, <2>2, ReversedTwice
<1>2. BatchInv => RowOrderIrrelevant
  BY <1>1, Zenon DEF BatchInv, RowOrderIrrelevant, Reversed
<1> QED
  BY <1>2, BatchInvariance, PTL

-----------------------------------------------------------------------------
(* The generated batch passes every rule *)

OrderAt(draws, i) == OrderRow(i - 1, LinesAt(draws, i))

LEMMA GeneratedTables ==
  ASSUME NEW draws \in Draws, NEW g, g = Generated(draws), NEW N, N = Len(draws)
  PROVE  /\ g \in CleanBatch /\ N \in Nat \ {0} /\ Products \in Nat \ {0} /\ Stores \in Nat \ {0}
         /\ g.orders = OrdersMade(draws) /\ DOMAIN g.orders = 1..N
         /\ \A i \in 1..N : g.orders[i] = OrderAt(draws, i)
         /\ g.order_lines = FlattenSeq(LinesMade(draws))
         /\ g.payments = PaymentsMade(draws) /\ DOMAIN g.payments = 1..N /\ Len(g.payments) = N
         /\ \A i \in 1..N : g.payments[i] = PaymentAt(draws, i)
         /\ g.returns = FlattenSeq(ReturnsMade(draws))
         /\ g.inventory_movements = Opening(N) \o FlattenSeq(MovementsMade(draws))
         /\ g.products = ProductsMade /\ DOMAIN g.products = 1..Products /\ Len(g.products) = Products
         /\ \A p \in 1..Products : g.products[p] = Product(p - 1)
<1>1. g \in CleanBatch /\ N \in Nat \ {0} /\ Products \in Nat \ {0} /\ Stores \in Nat \ {0}
  BY DrawsFacts, GeneratedClean, BatchAssumption
<1>2. /\ g.orders = OrdersMade(draws)
      /\ g.order_lines = FlattenSeq(LinesMade(draws))
      /\ g.payments = PaymentsMade(draws)
      /\ g.returns = FlattenSeq(ReturnsMade(draws))
      /\ g.inventory_movements = Opening(N) \o FlattenSeq(MovementsMade(draws))
      /\ g.products = ProductsMade
  BY GeneratedIs
<1>3. DOMAIN OrdersMade(draws) = 1..N /\ \A i \in 1..N : OrdersMade(draws)[i] = OrderAt(draws, i)
  BY DEF OrdersMade, OrderAt
<1>4. DOMAIN PaymentsMade(draws) = 1..N /\ \A i \in 1..N : PaymentsMade(draws)[i] = PaymentAt(draws, i)
  BY DEF PaymentsMade
<1>5. DOMAIN ProductsMade = 1..Products /\ \A p \in 1..Products : ProductsMade[p] = Product(p - 1)
  BY DEF ProductsMade
<1>6. Len(PaymentsMade(draws)) = N /\ Len(ProductsMade) = Products
  BY MadeTyped
<1> QED
  BY <1>1, <1>2, <1>3, <1>4, <1>5, <1>6

LineMade(draws, r) == \E i \in 1..Len(draws) : \E l \in 1..Len(LinesAt(draws, i)) : r = LinesAt(draws, i)[l]
ReturnMade(draws, r) == \E i \in 1..Len(draws) : (i - 1) % 17 = 0 /\ r = ReturnAt(draws, i)

\* The rows of the flattened tables.
LEMMA GeneratedRows ==
  ASSUME NEW draws \in Draws, NEW g, g = Generated(draws), NEW r
  PROVE  /\ r \in Range(g.order_lines) <=> LineMade(draws, r)
         /\ r \in Range(g.returns) <=> ReturnMade(draws, r)
<1>0. PICK N : N = Len(draws)
  OBVIOUS
<1>1. g.order_lines = FlattenSeq(LinesMade(draws)) /\ g.returns = FlattenSeq(ReturnsMade(draws))
  BY GeneratedTables
<1>2. /\ LinesMade(draws) \in Seq(Seq(LineType)) /\ DOMAIN LinesMade(draws) = 1..N
      /\ \A i \in 1..N : LinesMade(draws)[i] = LinesAt(draws, i)
  BY <1>0, MadeTyped DEF LinesMade
<1>3. /\ ReturnsMade(draws) \in Seq(Seq(ReturnType)) /\ DOMAIN ReturnsMade(draws) = 1..N
      /\ \A i \in 1..N : ReturnsMade(draws)[i] = IfReturned(i - 1, ReturnAt(draws, i))
  BY <1>0, MadeTyped DEF ReturnsMade
<1>4. \A i \in 1..N :
         r \in Range(LinesAt(draws, i)) <=> \E l \in 1..Len(LinesAt(draws, i)) : r = LinesAt(draws, i)[l]
  <2>1. \A i \in 1..N : DOMAIN LinesAt(draws, i) = 1..Len(LinesAt(draws, i))
    BY <1>0, LinesAtFacts
  <2> QED
    BY <2>1 DEF Range
<1>5. \A i \in 1..N :
         r \in Range(IfReturned(i - 1, ReturnAt(draws, i))) <=> (i - 1) % 17 = 0 /\ r = ReturnAt(draws, i)
  <2>1. \A i \in 1..N : Range(IfReturned(i - 1, ReturnAt(draws, i))) =
                           IF (i - 1) % 17 = 0 THEN {ReturnAt(draws, i)} ELSE {}
    BY <1>0, ReturnAtFacts, IfReturnedSeq
  <2> QED
    BY <2>1
<1>6. r \in Range(FlattenSeq(LinesMade(draws))) <=> \E i \in 1..N : r \in Range(LinesMade(draws)[i])
  BY <1>2, FlattenRange
<1>7. r \in Range(FlattenSeq(ReturnsMade(draws))) <=> \E i \in 1..N : r \in Range(ReturnsMade(draws)[i])
  BY <1>3, FlattenRange
<1>8. r \in Range(g.order_lines) <=> LineMade(draws, r)
  <2>1. \A i \in 1..N : r \in Range(LinesMade(draws)[i]) <=>
                          \E l \in 1..Len(LinesAt(draws, i)) : r = LinesAt(draws, i)[l]
    BY <1>2, <1>4
  <2>2. r \in Range(g.order_lines) <=> \E i \in 1..N : r \in Range(LinesMade(draws)[i])
    BY <1>1, <1>6
  <2> QED
    BY <1>0, <2>1, <2>2 DEF LineMade
<1>9. r \in Range(g.returns) <=> ReturnMade(draws, r)
  <2>1. \A i \in 1..N : r \in Range(ReturnsMade(draws)[i]) <=> (i - 1) % 17 = 0 /\ r = ReturnAt(draws, i)
    BY <1>3, <1>5
  <2>2. r \in Range(g.returns) <=> \E i \in 1..N : r \in Range(ReturnsMade(draws)[i])
    BY <1>1, <1>7
  <2> QED
    BY <1>0, <2>1, <2>2 DEF ReturnMade
<1> QED
  BY <1>8, <1>9

LEMMA OrderAtFacts ==
  ASSUME NEW draws \in Draws, NEW i \in 1..Len(draws), NEW sub, sub = Total(TotalsOf(LinesAt(draws, i))),
         NEW r, r = OrderAt(draws, i)
  PROVE  /\ r \in OrderType /\ i \in Nat /\ sub \in Int
         /\ r.order_id = <<i - 1>> /\ r.order_ts = Start + (i - 1) * 10 /\ r.status = "COMPLETED"
         /\ r.currency = "INR"
         /\ r.subtotal_cents = sub
         /\ r.total_cents = sub + r.tax_cents - r.discount_cents
         /\ LinesAt(draws, i)[1].line_total_cents <= sub
         /\ LinesAt(draws, i)[1].unit_price_cents <= LinesAt(draws, i)[1].line_total_cents
         /\ 1000 <= LinesAt(draws, i)[1].unit_price_cents
         /\ sub <= r.total_cents
<1>1. PICK ls : ls = LinesAt(draws, i)
  OBVIOUS
<1>2. MaxLines \in Nat /\ MaxQuantity \in Nat /\ i \in Nat
  BY BatchAssumption, DrawsFacts
<1>3. /\ ls \in Seq(LineType) /\ Len(ls) \in 1..MaxLines
      /\ \A l \in 1..Len(ls) :
            /\ ls[l].quantity \in 1..MaxQuantity
            /\ ls[l].unit_price_cents \in Nat
            /\ ls[l].unit_price_cents >= 1000
            /\ ls[l].line_total_cents = ls[l].quantity * ls[l].unit_price_cents
  BY <1>1, LinesAtFacts, SMTT(30)
<1>4. ASSUME NEW q \in Nat \ {0}, NEW p \in Nat
      PROVE  q * p >= p
  BY <1>4
<1>5. \A l \in 1..Len(ls) : ls[l].line_total_cents \in Int /\ ls[l].line_total_cents >= ls[l].unit_price_cents
  <2>1. \A l \in 1..Len(ls) : ls[l].quantity \in Nat \ {0}
    BY <1>2, <1>3
  <2> QED
    BY <1>3, <1>4, <2>1
<1>6. PICK v : v = TotalsOf(ls)
  OBVIOUS
<1>7. v \in Seq(Int) /\ Len(v) = Len(ls) /\ sub = Total(v) /\ sub \in Int
  BY <1>1, <1>6, TotalsFacts
<1>8. DOMAIN ls = 1..Len(ls) /\ 1 \in 1..Len(ls)
  BY <1>2, <1>3
<1>9. \A l \in 1..Len(v) : v[l] = ls[l].line_total_cents
  BY <1>6, <1>7, <1>8 DEF TotalsOf
<1>10. Total(v) >= v[1]
  <2>1. \A l \in 1..Len(v) : v[l] >= 0
    BY <1>3, <1>5, <1>7, <1>9, SMTT(30)
  <2>2. 1 \in 1..Len(v)
    BY <1>7, <1>8
  <2> QED
    BY <1>7, <2>1, <2>2, TotalAtLeast
<1>11. ls[1].line_total_cents <= sub /\ ls[1].unit_price_cents <= ls[1].line_total_cents /\ 1000 <= ls[1].unit_price_cents
  BY <1>3, <1>5, <1>7, <1>8, <1>9, <1>10
<1>12. /\ r \in OrderType
       /\ r.order_id = <<i - 1>> /\ r.order_ts = Start + (i - 1) * 10 /\ r.status = "COMPLETED"
       /\ r.currency = "INR"
       /\ r.subtotal_cents = sub
       /\ r.tax_cents = (sub * 18) \div 100
       /\ r.discount_cents \in {0, 100}
       /\ r.total_cents = sub + r.tax_cents - r.discount_cents
  BY OrderRowIs DEF OrderAt
<1>13. sub <= r.total_cents
  <2>1. sub >= 1000
    BY <1>3, <1>5, <1>7, <1>8, <1>11
  <2>2. (sub * 18) \div 100 >= 100
    BY <1>7, <2>1
  <2> QED
    BY <1>7, <1>12, <2>2
<1> QED
  BY <1>1, <1>2, <1>7, <1>11, <1>12, <1>13, SMTT(30)

SaleAt(draws, i, l) ==
    Movement(2, i - 1, l, LinesAt(draws, i)[l].product_id, (i - 1) % Stores,
             -LinesAt(draws, i)[l].quantity, Start + (i - 1) * 10)

OpeningOf(count, p, t) == Movement(0, p, t, <<p - 1>>, t - 1, OpeningStock(count), Start - 1)

LEMMA SalesRows ==
  ASSUME NEW draws \in Draws, NEW i \in 1..Len(draws)
  PROVE  /\ DOMAIN SalesAt(draws, i) = 1..Len(LinesAt(draws, i))
         /\ \A l \in 1..Len(LinesAt(draws, i)) : SalesAt(draws, i)[l] = SaleAt(draws, i, l)
         /\ \A x : x \in Range(SalesAt(draws, i)) <=>
                      \E l \in 1..Len(LinesAt(draws, i)) : x = SaleAt(draws, i, l)
  BY DEF SalesAt, SaleAt, Range

LEMMA OpeningRows ==
  ASSUME NEW count \in Nat, NEW p \in 1..Products
  PROVE  /\ DOMAIN OpeningAt(count, p) = 1..Stores
         /\ \A t \in 1..Stores : OpeningAt(count, p)[t] = OpeningOf(count, p, t)
         /\ \A x : x \in Range(OpeningAt(count, p)) <=> \E t \in 1..Stores : x = OpeningOf(count, p, t)
  BY DEF OpeningAt, OpeningOf, Range

\* Every generated movement is an opening, the sale of a line or the return of a first line.
LEMMA MovementRows ==
  ASSUME NEW draws \in Draws, NEW N, N = Len(draws)
  PROVE  /\ \A x : x \in Range(Opening(N)) <=>
                      \E p \in 1..Products : \E t \in 1..Stores : x = OpeningOf(N, p, t)
         /\ \A i \in 1..N : \A x : x \in Range(MovementsMade(draws)[i]) <=>
               \/ \E l \in 1..Len(LinesAt(draws, i)) : x = SaleAt(draws, i, l)
               \/ ((i - 1) % 17 = 0 /\ x = BackAt(draws, i))
<1>1. N \in Nat
  BY DrawsFacts
<1>2. PICK s : s = [p \in 1..Products |-> OpeningAt(N, p)]
  OBVIOUS
<1>3. Opening(N) = FlattenSeq(s) /\ s \in Seq(Seq(MovementType)) /\ DOMAIN s = 1..Products
  BY <1>1, <1>2, OpeningFacts
<1>4. \A x : x \in Range(Opening(N)) <=> \E p \in 1..Products : x \in Range(s[p])
  BY <1>3, FlattenRange
<1>5. \A p \in 1..Products : \A x : x \in Range(s[p]) <=> \E t \in 1..Stores : x = OpeningOf(N, p, t)
  BY <1>1, <1>2, OpeningRows
<1>6. ASSUME NEW x
      PROVE  x \in Range(Opening(N)) <=> \E p \in 1..Products : \E t \in 1..Stores : x = OpeningOf(N, p, t)
  <2>1. \A p \in 1..Products : x \in Range(s[p]) <=> \E t \in 1..Stores : x = OpeningOf(N, p, t)
    BY <1>5
  <2>2. x \in Range(Opening(N)) <=> \E p \in 1..Products : x \in Range(s[p])
    BY <1>4
  <2> QED
    BY <2>1, <2>2
<1>7. ASSUME NEW i \in 1..N, NEW x
      PROVE  x \in Range(MovementsMade(draws)[i]) <=>
               \/ \E l \in 1..Len(LinesAt(draws, i)) : x = SaleAt(draws, i, l)
               \/ ((i - 1) % 17 = 0 /\ x = BackAt(draws, i))
  <2>1. PICK u : u = SalesAt(draws, i)
    OBVIOUS
  <2>2. PICK v : v = IfReturned(i - 1, BackAt(draws, i))
    OBVIOUS
  <2>3. u \in Seq(MovementType) /\ v \in Seq(MovementType) /\ MovementsMade(draws)[i] = u \o v
    BY <2>1, <2>2, MovementsAtFacts DEF MovementsMade
  <2>4. Range(u \o v) = Range(u) \cup Range(v)
    BY <2>3, RangeConcat
  <2>5. x \in Range(u) <=> \E l \in 1..Len(LinesAt(draws, i)) : x = SaleAt(draws, i, l)
    BY <2>1, SalesRows
  <2>6. x \in Range(v) <=> (i - 1) % 17 = 0 /\ x = BackAt(draws, i)
    <3>1. Range(v) = IF (i - 1) % 17 = 0 THEN {BackAt(draws, i)} ELSE {}
      BY <2>2, MovementsAtFacts, IfReturnedSeq
    <3> QED
      BY <3>1
  <2> QED
    BY <2>3, <2>4, <2>5, <2>6
<1> QED
  BY <1>6, <1>7

LEMMA ApartLines ==
  ASSUME NEW draws \in Draws, NEW g, g = Generated(draws)
  PROVE  \A i, j \in DOMAIN g.order_lines : LineKey(g.order_lines[i]) = LineKey(g.order_lines[j]) => i = j
<1> DEFINE N == Len(draws)
<1>1. PICK key : key = [r \in LineType |-> LineKey(r)]
  OBVIOUS
<1>2. PICK s : s = LinesMade(draws)
  OBVIOUS
<1>3. /\ s \in Seq(Seq(LineType)) /\ DOMAIN s = 1..N /\ N \in Nat
      /\ \A i \in 1..N : s[i] = LinesAt(draws, i)
  BY <1>2, MadeTyped DEF LinesMade
<1>4. \A i \in 1..N : \A l \in DOMAIN s[i] : key[s[i][l]] = <<<<i - 1>>, <<l>>>>
  <2> SUFFICES ASSUME NEW i \in 1..N, NEW l \in DOMAIN s[i]
               PROVE  key[s[i][l]] = <<<<i - 1>>, <<l>>>>
    OBVIOUS
  <2>1. PICK ls : ls = s[i]
    OBVIOUS
  <2>2. ls \in Seq(LineType) /\ DOMAIN ls = 1..Len(ls) /\ ls = LinesAt(draws, i)
    BY <1>3, <2>1
  <2>3. ls[l].order_id = <<i - 1>> /\ ls[l].line_id = <<l>> /\ ls[l] \in LineType
    BY <2>1, <2>2, LinesAtFacts
  <2> QED
    BY <1>1, <2>1, <2>3 DEF LineKey
<1>5. \A i \in DOMAIN s : Apart(s[i], key)
  <2> SUFFICES ASSUME NEW i \in 1..N, NEW k \in DOMAIN s[i], NEW l \in DOMAIN s[i], key[s[i][k]] = key[s[i][l]]
               PROVE  k = l
    BY <1>3 DEF Apart
  <2>1. <<<<i - 1>>, <<k>>>> = <<<<i - 1>>, <<l>>>>
    BY <1>4
  <2> QED
    BY <2>1
<1>6. \A i, j \in DOMAIN s : i # j => \A x \in Range(s[i]), y \in Range(s[j]) : key[x] # key[y]
  <2> SUFFICES ASSUME NEW i \in 1..N, NEW j \in 1..N, i # j, NEW x \in Range(s[i]), NEW y \in Range(s[j])
               PROVE  key[x] # key[y]
    BY <1>3
  <2>1. PICK k \in DOMAIN s[i] : x = s[i][k]
    BY DEF Range
  <2>2. PICK l \in DOMAIN s[j] : y = s[j][l]
    BY DEF Range
  <2>3. key[x] = <<<<i - 1>>, <<k>>>> /\ key[y] = <<<<j - 1>>, <<l>>>>
    BY <1>4, <2>1, <2>2
  <2> QED
    BY <1>3, <2>3
<1>7. Apart(FlattenSeq(s), key)
  BY <1>3, <1>5, <1>6, FlattenApart
<1>8. PICK q : q = g.order_lines
  OBVIOUS
<1>9. Apart(q, key) /\ q \in Seq(LineType)
  BY <1>2, <1>7, <1>8, GeneratedTables, CleanRows
<1>10. \A i \in DOMAIN q : key[q[i]] = LineKey(q[i])
  BY <1>1, <1>9
<1> QED
  BY <1>8, <1>9, <1>10 DEF Apart

LEMMA ApartReturns ==
  ASSUME NEW draws \in Draws, NEW g, g = Generated(draws)
  PROVE  \A i, j \in DOMAIN g.returns : g.returns[i].return_id = g.returns[j].return_id => i = j
<1> DEFINE N == Len(draws)
<1>1. PICK key : key = [r \in ReturnType |-> r.return_id]
  OBVIOUS
<1>2. PICK s : s = ReturnsMade(draws)
  OBVIOUS
<1>3. /\ s \in Seq(Seq(ReturnType)) /\ DOMAIN s = 1..N /\ N \in Nat
      /\ \A i \in 1..N : s[i] = IfReturned(i - 1, ReturnAt(draws, i))
  BY <1>2, MadeTyped DEF ReturnsMade
<1>4. \A i \in 1..N : ReturnAt(draws, i) \in ReturnType /\ key[ReturnAt(draws, i)] = i
  BY <1>1, ReturnAtFacts
<1>5. \A i \in DOMAIN s : Apart(s[i], key)
  <2> SUFFICES ASSUME NEW i \in 1..N, NEW k \in DOMAIN s[i], NEW l \in DOMAIN s[i]
               PROVE  k = l
    BY <1>3 DEF Apart
  <2>1. PICK q : q = IfReturned(i - 1, ReturnAt(draws, i))
    OBVIOUS
  <2>2. q \in Seq(ReturnType) /\ Len(q) <= 1 /\ s[i] = q
    BY <1>3, <1>4, <2>1, IfReturnedSeq
  <2> QED
    BY <2>2
<1>6. \A i, j \in DOMAIN s : i # j => \A x \in Range(s[i]), y \in Range(s[j]) : key[x] # key[y]
  <2> SUFFICES ASSUME NEW i \in 1..N, NEW j \in 1..N, i # j, NEW x \in Range(s[i]), NEW y \in Range(s[j])
               PROVE  key[x] # key[y]
    BY <1>3
  <2>1. \A k \in 1..N : Range(s[k]) \subseteq {ReturnAt(draws, k)}
    <3> SUFFICES ASSUME NEW k \in 1..N
                 PROVE  Range(s[k]) \subseteq {ReturnAt(draws, k)}
      OBVIOUS
    <3>1. Range(IfReturned(k - 1, ReturnAt(draws, k))) =
             IF (k - 1) % 17 = 0 THEN {ReturnAt(draws, k)} ELSE {}
      BY <1>4, IfReturnedSeq
    <3> QED
      BY <1>3, <3>1
  <2> QED
    BY <1>4, <2>1
<1>7. Apart(FlattenSeq(s), key)
  BY <1>3, <1>5, <1>6, FlattenApart
<1>8. PICK q : q = g.returns
  OBVIOUS
<1>9. Apart(q, key) /\ q \in Seq(ReturnType)
  BY <1>2, <1>7, <1>8, GeneratedTables, CleanRows
<1>10. \A i \in DOMAIN q : key[q[i]] = q[i].return_id
  BY <1>1, <1>9
<1> QED
  BY <1>8, <1>9, <1>10 DEF Apart

LEMMA MovementIds ==
  ASSUME NEW draws \in Draws, NEW N, N = Len(draws)
  PROVE  /\ \A p \in 1..Products : \A t \in 1..Stores :
               OpeningOf(N, p, t) \in MovementType /\ OpeningOf(N, p, t).movement_id = <<0, p, t>>
         /\ \A i \in 1..N : \A l \in 1..Len(LinesAt(draws, i)) :
               SaleAt(draws, i, l) \in MovementType /\ SaleAt(draws, i, l).movement_id = <<2, i - 1, l>>
         /\ \A i \in 1..N : BackAt(draws, i) \in MovementType /\ BackAt(draws, i).movement_id = <<1, i - 1, 1>>
<1>1. N \in Nat /\ Products \in Nat /\ Stores \in Nat
  BY DrawsFacts, BatchAssumption
<1>2. ASSUME NEW p \in 1..Products, NEW t \in 1..Stores
      PROVE  OpeningOf(N, p, t) \in MovementType /\ OpeningOf(N, p, t).movement_id = <<0, p, t>>
  <2>1. OpeningAt(N, p) \in Seq(MovementType) /\ Len(OpeningAt(N, p)) = Stores
    BY <1>1, OpeningFacts
  <2>2. OpeningAt(N, p)[t] \in MovementType
    BY <2>1, SeqElement
  <2> QED
    BY <1>1, <2>2, OpeningRows DEF OpeningOf, Movement
<1>3. ASSUME NEW i \in 1..N, NEW l \in 1..Len(LinesAt(draws, i))
      PROVE  SaleAt(draws, i, l) \in MovementType /\ SaleAt(draws, i, l).movement_id = <<2, i - 1, l>>
  <2>1. SalesAt(draws, i) \in Seq(MovementType) /\ Len(SalesAt(draws, i)) = Len(LinesAt(draws, i))
    BY MovementsAtFacts
  <2>2. SalesAt(draws, i)[l] \in MovementType
    BY <2>1, SeqElement
  <2> QED
    BY <2>2, SalesRows DEF SaleAt, Movement
<1>4. ASSUME NEW i \in 1..N
      PROVE  BackAt(draws, i) \in MovementType /\ BackAt(draws, i).movement_id = <<1, i - 1, 1>>
  BY MovementsAtFacts DEF BackAt, Movement
<1> QED
  BY <1>2, <1>3, <1>4

LEMMA ApartMovements ==
  ASSUME NEW draws \in Draws, NEW g, g = Generated(draws)
  PROVE  \A i, j \in DOMAIN g.inventory_movements :
            g.inventory_movements[i].movement_id = g.inventory_movements[j].movement_id => i = j
<1> DEFINE N == Len(draws)
<1>1. PICK key : key = [r \in MovementType |-> r.movement_id]
  OBVIOUS
<1>2. N \in Nat /\ \A i \in 1..N : i \in Int
  BY DrawsFacts
<1>3. PICK op : op = [p \in 1..Products |-> OpeningAt(N, p)]
  OBVIOUS
<1>4. /\ Opening(N) = FlattenSeq(op) /\ op \in Seq(Seq(MovementType)) /\ DOMAIN op = 1..Products
      /\ \A p \in 1..Products : op[p] = OpeningAt(N, p)
  BY <1>2, <1>3, OpeningFacts
<1>5. \A p \in 1..Products : \A t \in 1..Stores : key[OpeningOf(N, p, t)] = <<0, p, t>>
  BY <1>1, MovementIds
<1>6. \A i \in 1..N : \A l \in 1..Len(LinesAt(draws, i)) : key[SaleAt(draws, i, l)] = <<2, i - 1, l>>
  BY <1>1, MovementIds
<1>7. \A i \in 1..N : key[BackAt(draws, i)] = <<1, i - 1, 1>>
  BY <1>1, MovementIds
<1>8. Apart(Opening(N), key)
  <2>1. \A p \in DOMAIN op : Apart(op[p], key)
    <3> SUFFICES ASSUME NEW p \in 1..Products, NEW k \in DOMAIN op[p], NEW l \in DOMAIN op[p],
                        key[op[p][k]] = key[op[p][l]]
                 PROVE  k = l
      BY <1>4 DEF Apart
    <3>1. k \in 1..Stores /\ l \in 1..Stores /\ op[p][k] = OpeningOf(N, p, k) /\ op[p][l] = OpeningOf(N, p, l)
      <4>1. op[p] = OpeningAt(N, p)
        BY <1>4
      <4>2. DOMAIN OpeningAt(N, p) = 1..Stores /\ \A t \in 1..Stores : OpeningAt(N, p)[t] = OpeningOf(N, p, t)
        BY <1>2, OpeningRows
      <4> QED
        BY <4>1, <4>2
    <3>2. <<0, p, k>> = <<0, p, l>>
      BY <1>5, <3>1
    <3> QED
      BY <3>2
  <2>2. \A i, j \in DOMAIN op : i # j => \A x \in Range(op[i]), y \in Range(op[j]) : key[x] # key[y]
    <3> SUFFICES ASSUME NEW i \in 1..Products, NEW j \in 1..Products, i # j,
                        NEW x \in Range(op[i]), NEW y \in Range(op[j])
                 PROVE  key[x] # key[y]
      BY <1>4
    <3>1. PICK k \in 1..Stores : x = OpeningOf(N, i, k)
      BY <1>2, <1>4, OpeningRows
    <3>2. PICK l \in 1..Stores : y = OpeningOf(N, j, l)
      BY <1>2, <1>4, OpeningRows
    <3>3. key[x] = <<0, i, k>> /\ key[y] = <<0, j, l>>
      BY <1>5, <3>1, <3>2
    <3> QED
      BY <3>3
  <2> QED
    BY <1>4, <2>1, <2>2, FlattenApart, ZenonT(60)
<1>9. PICK s : s = MovementsMade(draws)
  OBVIOUS
<1>10. s \in Seq(Seq(MovementType)) /\ DOMAIN s = 1..N
  BY <1>9, MadeTyped DEF MovementsMade
<1>11. ASSUME NEW i \in 1..N
       PROVE  Apart(s[i], key)
  <2>1. PICK u : u = SalesAt(draws, i)
    OBVIOUS
  <2>2. PICK v : v = IfReturned(i - 1, BackAt(draws, i))
    OBVIOUS
  <2>3. u \in Seq(MovementType) /\ v \in Seq(MovementType) /\ s[i] = u \o v
    BY <1>9, <2>1, <2>2, MovementsAtFacts DEF MovementsMade
  <2>4. Apart(u, key)
    <3> SUFFICES ASSUME NEW k \in DOMAIN u, NEW l \in DOMAIN u, key[u[k]] = key[u[l]]
                 PROVE  k = l
      BY DEF Apart
    <3>1. /\ k \in 1..Len(LinesAt(draws, i)) /\ l \in 1..Len(LinesAt(draws, i))
          /\ u[k] = SaleAt(draws, i, k) /\ u[l] = SaleAt(draws, i, l)
      BY <2>1, SalesRows
    <3>2. <<2, i - 1, k>> = <<2, i - 1, l>>
      BY <1>6, <3>1
    <3> QED
      BY <3>2
  <2>5. Apart(v, key) /\ Range(v) \subseteq {BackAt(draws, i)}
    <3>1. v \in Seq(MovementType) /\ Len(v) <= 1 /\ Range(v) = IF (i - 1) % 17 = 0 THEN {BackAt(draws, i)} ELSE {}
      BY <2>2, MovementsAtFacts, IfReturnedSeq
    <3>2. \A k, l \in DOMAIN v : k = l
      BY <3>1
    <3> QED
      BY <3>1, <3>2 DEF Apart
  <2>6. \A x \in Range(u), y \in Range(v) : key[x] # key[y]
    <3> SUFFICES ASSUME NEW x \in Range(u), NEW y \in Range(v)
                 PROVE  key[x] # key[y]
      OBVIOUS
    <3>1. PICK l \in 1..Len(LinesAt(draws, i)) : x = SaleAt(draws, i, l)
      BY <2>1, SalesRows
    <3>2. y = BackAt(draws, i)
      BY <2>5
    <3>3. key[x] = <<2, i - 1, l>> /\ key[y] = <<1, i - 1, 1>>
      BY <1>6, <1>7, <3>1, <3>2
    <3>4. <<2, i - 1, l>>[1] = 2 /\ <<1, i - 1, 1>>[1] = 1
      OBVIOUS
    <3> QED
      BY <3>3, <3>4
  <2> QED
    BY <2>3, <2>4, <2>5, <2>6, ConcatApart
<1>12. ASSUME NEW i \in 1..N, NEW x \in Range(s[i])
       PROVE  key[x][1] \in {1, 2} /\ key[x][2] = i - 1
  <2>1. CASE \E l \in 1..Len(LinesAt(draws, i)) : x = SaleAt(draws, i, l)
    <3>1. PICK l \in 1..Len(LinesAt(draws, i)) : x = SaleAt(draws, i, l)
      BY <2>1
    <3>2. key[x] = <<2, i - 1, l>>
      BY <1>6, <3>1
    <3> QED
      BY <3>2
  <2>2. CASE x = BackAt(draws, i)
    <3>1. key[x] = <<1, i - 1, 1>>
      BY <1>7, <2>2
    <3> QED
      BY <3>1
  <2> QED
    BY <1>9, <2>1, <2>2, MovementRows
<1>13. Apart(FlattenSeq(s), key)
  <2>1. \A i, j \in DOMAIN s : i # j => \A x \in Range(s[i]), y \in Range(s[j]) : key[x] # key[y]
    <3> SUFFICES ASSUME NEW i \in 1..N, NEW j \in 1..N, i # j, NEW x \in Range(s[i]), NEW y \in Range(s[j])
                 PROVE  key[x] # key[y]
      BY <1>10
    <3>1. key[x][2] = i - 1 /\ key[y][2] = j - 1 /\ i - 1 # j - 1
      BY <1>2, <1>12
    <3> QED
      BY <3>1
  <2> QED
    BY <1>10, <1>11, <2>1, FlattenApart
<1>14. \A x \in Range(Opening(N)), y \in Range(FlattenSeq(s)) : key[x] # key[y]
  <2> SUFFICES ASSUME NEW x \in Range(Opening(N)), NEW y \in Range(FlattenSeq(s))
               PROVE  key[x] # key[y]
    OBVIOUS
  <2>1. PICK p \in 1..Products, t \in 1..Stores : x = OpeningOf(N, p, t)
    BY MovementRows
  <2>2. key[x] = <<0, p, t>> /\ <<0, p, t>>[1] = 0
    BY <1>5, <2>1
  <2>3. PICK i \in 1..N : y \in Range(s[i])
    BY <1>10, FlattenRange
  <2>4. key[y][1] \in {1, 2}
    BY <1>12, <2>3
  <2> QED
    BY <2>2, <2>4
<1>15. PICK q : q = g.inventory_movements
  OBVIOUS
<1>16. q = Opening(N) \o FlattenSeq(s) /\ q \in Seq(MovementType)
  BY <1>9, <1>15, GeneratedTables, CleanRows
<1>17. Opening(N) \in Seq(MovementType) /\ FlattenSeq(s) \in Seq(MovementType)
  BY <1>2, <1>10, OpeningFacts, FlattenRange
<1>18. Apart(q, key)
  BY <1>8, <1>13, <1>14, <1>16, <1>17, ConcatApart
<1>19. \A i \in DOMAIN q : key[q[i]] = q[i].movement_id
  BY <1>1, <1>16
<1> QED
  BY <1>15, <1>18, <1>19 DEF Apart

LEMMA GeneratedDistinct ==
  ASSUME NEW draws \in Draws, NEW g, g = Generated(draws)
  PROVE  Distinct(g)
<1> DEFINE N == Len(draws)
<1>1. \A i, j \in DOMAIN g.orders : g.orders[i].order_id = g.orders[j].order_id => i = j
  <2>1. DOMAIN g.orders = 1..N /\ N \in Nat /\ \A i \in 1..N : g.orders[i] = OrderAt(draws, i)
    BY GeneratedTables
  <2>2. \A i \in 1..N : g.orders[i].order_id = <<i - 1>> /\ i \in Nat
    BY <2>1, OrderAtFacts
  <2>3. \A i, j \in Nat : <<i - 1>> = <<j - 1>> => i = j
    OBVIOUS
  <2> QED
    BY <2>1, <2>2, <2>3
<1>2. \A i, j \in DOMAIN g.payments : g.payments[i].payment_id = g.payments[j].payment_id => i = j
  <2>1. DOMAIN g.payments = 1..N /\ \A i \in 1..N : g.payments[i] = PaymentAt(draws, i)
    BY GeneratedTables
  <2> QED
    BY <2>1, PaymentAtFacts
<1>3. \A i, j \in DOMAIN g.products : ProductKey(g.products[i]) = ProductKey(g.products[j]) => i = j
  <2>1. DOMAIN g.products = 1..Products /\ Products \in Nat /\ \A p \in 1..Products : g.products[p] = Product(p - 1)
    BY GeneratedTables
  <2>2. \A p \in 1..Products : g.products[p].product_id = <<p - 1>> /\ p \in Nat
    BY <2>1, ProductFacts
  <2>3. \A i, j \in Nat : <<i - 1>> = <<j - 1>> => i = j
    OBVIOUS
  <2> QED
    BY <2>1, <2>2, <2>3, SMTT(30) DEF ProductKey
<1> QED
  BY <1>1, <1>2, <1>3, ApartLines, ApartReturns, ApartMovements DEF Distinct

LEMMA ValuedZero ==
  ASSUME NEW X, NEW q \in Seq(X), NEW h \in [X -> Int], \A x \in Range(q) : h[x] = 0
  PROVE  Total(Valued(q, h)) = 0
<1>1. PICK v : v = Valued(q, h)
  OBVIOUS
<1>2. v \in Seq(Int) /\ Len(v) = Len(q) /\ \A k \in 1..Len(q) : v[k] = h[q[k]]
  BY <1>1, ValuedType
<1>3. \A k \in 1..Len(q) : q[k] \in Range(q)
  BY RangeOf
<1>4. \A k \in 1..Len(v) : v[k] = 0
  BY <1>2, <1>3
<1> QED
  BY <1>1, <1>2, <1>4, TotalZero

\* Where only one group counts, the sum over the joined groups is that group's.
LEMMA FlattenTotalOne ==
  ASSUME NEW X, NEW s \in Seq(Seq(X)), NEW h \in [X -> Int], NEW k \in 1..Len(s),
         \A i \in 1..Len(s) : i # k => \A x \in Range(s[i]) : h[x] = 0
  PROVE  Total(Valued(FlattenSeq(s), h)) = Total(Valued(s[k], h))
<1>1. PICK w : w = [i \in 1..Len(s) |-> Total(Valued(s[i], h))]
  OBVIOUS
<1>2. Len(s) \in Nat /\ \A i \in 1..Len(s) : s[i] \in Seq(X)
  OBVIOUS
<1>3. \A i \in 1..Len(s) : Total(Valued(s[i], h)) \in Int
  BY <1>2, ValuedType, TotalType
<1>4. w \in [1..Len(s) -> Int]
  BY <1>1, <1>3
<1>5. w \in Seq(Int) /\ Len(w) = Len(s)
  BY <1>2, <1>4, FunctionSeq
<1>6. ASSUME NEW i \in 1..Len(w), i # k
      PROVE  w[i] = 0
  <2>1. PICK q : q = s[i]
    OBVIOUS
  <2>2. q \in Seq(X) /\ \A x \in Range(q) : h[x] = 0
    BY <1>2, <1>5, <1>6, <2>1
  <2>3. Total(Valued(q, h)) = 0
    BY <2>2, ValuedZero
  <2> QED
    BY <1>1, <1>5, <2>1, <2>3
<1>7. Total(w) = w[k]
  BY <1>5, <1>6, TotalOne
<1>8. Total(Valued(FlattenSeq(s), h)) = Total(w)
  BY <1>1, FlattenTotal
<1> QED
  BY <1>1, <1>7, <1>8

LEMMA IfReturnedTotal ==
  ASSUME NEW X, NEW o, NEW row \in X, NEW h \in [X -> Int]
  PROVE  Total(Valued(IfReturned(o, row), h)) = IF o % 17 = 0 THEN h[row] ELSE 0
<1>1. PICK q : q = IfReturned(o, row)
  OBVIOUS
<1>2. q \in Seq(X)
  BY <1>1, IfReturnedSeq
<1>3. PICK v : v = Valued(q, h)
  OBVIOUS
<1>4. v \in Seq(Int) /\ Len(v) = Len(q) /\ \A k \in 1..Len(q) : v[k] = h[q[k]]
  BY <1>2, <1>3, ValuedType
<1>5. CASE o % 17 = 0
  <2>1. q = <<row>>
    BY <1>1, <1>5 DEF IfReturned
  <2>2. Len(v) = 1 /\ v[1] = h[row]
    BY <1>4, <2>1
  <2>3. 1 \in 1..Len(v) /\ \A k \in 1..Len(v) : k # 1 => v[k] = 0
    BY <2>2
  <2>4. Total(v) = v[1]
    BY <1>4, <2>3, TotalOne
  <2> QED
    BY <1>1, <1>3, <1>5, <2>2, <2>4
<1>6. CASE o % 17 # 0
  <2>1. q = << >>
    BY <1>1, <1>6 DEF IfReturned
  <2>2. Len(v) = 0
    BY <1>4, <2>1
  <2>3. \A k \in 1..Len(v) : v[k] = 0
    BY <2>2
  <2>4. Total(v) = 0
    BY <1>4, <2>3, TotalZero
  <2> QED
    BY <1>1, <1>3, <1>6, <2>4
<1> QED
  BY <1>5, <1>6

LEMMA GeneratedSubtotal ==
  ASSUME NEW draws \in Draws, NEW g, g = Generated(draws), NEW i \in 1..Len(draws)
  PROVE  Subtotal(g, <<i - 1>>) = Total(TotalsOf(LinesAt(draws, i)))
<1> DEFINE N == Len(draws)
<1>1. PICK h : h = SubtotalPart(<<i - 1>>)
  OBVIOUS
<1>2. h \in [LineType -> Int]
  BY <1>1, PartsTyped
<1>3. PICK s : s = LinesMade(draws)
  OBVIOUS
<1>4. /\ s \in Seq(Seq(LineType)) /\ Len(s) = N /\ N \in Nat
      /\ \A k \in 1..N : s[k] = LinesAt(draws, k)
  BY <1>3, MadeTyped DEF LinesMade
<1>5. ASSUME NEW k \in 1..N, k # i, NEW x \in Range(s[k])
      PROVE  h[x] = 0
  <2>1. PICK ls : ls = LinesAt(draws, k)
    OBVIOUS
  <2>2. ls \in Seq(LineType) /\ \A l \in 1..Len(ls) : ls[l].order_id = <<k - 1>>
    BY <2>1, LinesAtFacts
  <2>3. PICK l \in 1..Len(ls) : x = ls[l]
    BY <1>4, <1>5, <2>1, <2>2, RangeOf
  <2>4. x \in LineType /\ x.order_id = <<k - 1>> /\ <<k - 1>> # <<i - 1>>
    BY <1>4, <1>5, <2>2, <2>3, SMTT(30)
  <2> QED
    BY <1>1, <2>4 DEF SubtotalPart, Addend
<1>6. Total(Valued(FlattenSeq(s), h)) = Total(Valued(s[i], h))
  <2>1. i \in 1..Len(s) /\ \A k \in 1..Len(s) : k # i => \A x \in Range(s[k]) : h[x] = 0
    BY <1>4, <1>5
  <2>2. s \in Seq(Seq(LineType))
    BY <1>4
  <2> QED
    BY <1>2, <2>1, <2>2, FlattenTotalOne
<1>7. PICK ls : ls = LinesAt(draws, i)
  OBVIOUS
<1>8. ls \in Seq(LineType) /\ s[i] = ls /\ \A l \in 1..Len(ls) : ls[l].order_id = <<i - 1>>
  BY <1>4, <1>7, LinesAtFacts, SMTT(30)
<1>9. Valued(ls, h) = TotalsOf(ls)
  <2>1. PICK v : v = Valued(ls, h)
    OBVIOUS
  <2>2. PICK w : w = TotalsOf(ls)
    OBVIOUS
  <2>3. v \in Seq(Int) /\ Len(v) = Len(ls) /\ \A l \in 1..Len(ls) : v[l] = h[ls[l]]
    BY <1>2, <1>8, <2>1, ValuedType
  <2>4. w \in Seq(Int) /\ Len(w) = Len(ls)
    BY <1>7, <2>2, TotalsFacts
  <2>5. \A l \in 1..Len(ls) : w[l] = ls[l].line_total_cents
    BY <1>8, <2>2 DEF TotalsOf
  <2>6. ASSUME NEW l \in 1..Len(ls)
        PROVE  h[ls[l]] = ls[l].line_total_cents
    <3>1. ls[l] \in LineType /\ ls[l].order_id = <<i - 1>>
      BY <1>8
    <3>2. ls[l].line_total_cents \in Int
      BY <3>1 DEF LineType
    <3> QED
      BY <1>1, <3>1, <3>2, AddendIs DEF SubtotalPart
  <2>7. \A l \in 1..Len(v) : v[l] = w[l]
    BY <2>3, <2>5, <2>6
  <2> QED
    BY <2>1, <2>2, <2>3, <2>4, <2>7, SameSeq
<1>10. Subtotal(g, <<i - 1>>) = Total(Valued(FlattenSeq(s), h))
  <2>1. g \in CleanBatch /\ g.order_lines = FlattenSeq(s)
    BY <1>3, GeneratedTables
  <2>2. \A o : Subtotal(g, o) = Total(Valued(g.order_lines, SubtotalPart(o)))
    BY <2>1, PartsAre
  <2> QED
    BY <1>1, <2>1, <2>2
<1> QED
  BY <1>6, <1>7, <1>8, <1>9, <1>10

LEMMA GeneratedCaptured ==
  ASSUME NEW draws \in Draws, NEW g, g = Generated(draws), NEW i \in 1..Len(draws)
  PROVE  Captured(g, <<i - 1>>) = OrderAt(draws, i).total_cents
<1> DEFINE N == Len(draws)
<1>1. PICK h : h = CapturedPart(<<i - 1>>)
  OBVIOUS
<1>2. h \in [PaymentType -> Int]
  BY <1>1, PartsTyped
<1>3. PICK q : q = g.payments
  OBVIOUS
<1>4. q \in Seq(PaymentType) /\ Len(q) = N /\ N \in Nat /\ \A k \in 1..N : q[k] = PaymentAt(draws, k)
  BY <1>3, GeneratedTables, CleanRows
<1>5. PICK v : v = Valued(q, h)
  OBVIOUS
<1>6. v \in Seq(Int) /\ Len(v) = N /\ \A k \in 1..N : v[k] = h[q[k]]
  <2>1. v \in Seq(Int) /\ Len(v) = Len(q) /\ \A k \in 1..Len(q) : v[k] = h[q[k]]
    BY <1>2, <1>4, <1>5, ValuedType
  <2> QED
    BY <1>4, <2>1
<1>7. ASSUME NEW k \in 1..N
      PROVE  v[k] = IF k = i THEN OrderAt(draws, i).total_cents ELSE 0
  <2>1. PICK y : y = PaymentAt(draws, k)
    OBVIOUS
  <2>2. /\ y \in PaymentType /\ y.status = "CAPTURED" /\ y.order_id = <<k - 1>>
        /\ y.amount_cents = OrderAt(draws, k).total_cents
    BY <2>1, PaymentAtFacts DEF OrderAt
  <2>3. y.amount_cents \in Int
    BY <2>2 DEF PaymentType
  <2>4. h[y] = IF y.order_id = <<i - 1>> THEN y.amount_cents ELSE 0
    BY <1>1, <2>2, <2>3, AddendIs DEF CapturedPart
  <2>5. <<k - 1>> = <<i - 1>> <=> k = i
    BY <1>4
  <2> QED
    BY <1>4, <1>6, <2>1, <2>2, <2>4, <2>5
<1>8. Total(v) = v[i]
  <2>1. i \in 1..Len(v) /\ \A k \in 1..Len(v) : k # i => v[k] = 0
    BY <1>6, <1>7
  <2> QED
    BY <1>6, <2>1, TotalOne
<1>9. Captured(g, <<i - 1>>) = Total(v)
  <2>1. \A o : Captured(g, o) = Total(Valued(g.payments, CapturedPart(o)))
    BY GeneratedTables, PartsAre
  <2> QED
    BY <1>1, <1>3, <1>5, <2>1
<1> QED
  BY <1>7, <1>8, <1>9

\* Of each order at most its first line is returned, once and for its unit price.
LEMMA GeneratedReturned ==
  ASSUME NEW draws \in Draws, NEW g, g = Generated(draws), NEW i \in 1..Len(draws)
  PROVE  /\ Refunded(g, DOMAIN g.returns, <<i - 1>>) =
               IF (i - 1) % 17 = 0 THEN LinesAt(draws, i)[1].unit_price_cents ELSE 0
         /\ ReturnedQuantity(g, DOMAIN g.returns, LineKey(LinesAt(draws, i)[1])) =
               IF (i - 1) % 17 = 0 THEN 1 ELSE 0
<1> DEFINE N == Len(draws)
<1>1. PICK s : s = ReturnsMade(draws)
  OBVIOUS
<1>2. /\ s \in Seq(Seq(ReturnType)) /\ Len(s) = N /\ N \in Nat
      /\ \A k \in 1..N : s[k] = IfReturned(k - 1, ReturnAt(draws, k))
  BY <1>1, MadeTyped DEF ReturnsMade
<1>3. \A k \in 1..N : ReturnAt(draws, k) \in ReturnType /\ ReturnAt(draws, k).order_id = <<k - 1>>
  BY ReturnAtFacts
<1>4. ASSUME NEW k \in 1..N, k # i, NEW x \in Range(s[k])
      PROVE  x \in ReturnType /\ x.order_id # <<i - 1>>
  <2>1. Range(IfReturned(k - 1, ReturnAt(draws, k))) = IF (k - 1) % 17 = 0 THEN {ReturnAt(draws, k)} ELSE {}
    BY <1>3, IfReturnedSeq
  <2>2. x = ReturnAt(draws, k)
    BY <1>2, <1>4, <2>1
  <2>3. <<k - 1>> # <<i - 1>>
    BY <1>2, <1>4
  <2> QED
    BY <1>3, <2>2, <2>3
<1>5. PICK a : a = ReturnAt(draws, i)
  OBVIOUS
<1>6. PICK key : key = LineKey(LinesAt(draws, i)[1])
  OBVIOUS
<1>7. /\ a \in ReturnType /\ a.order_id = <<i - 1>> /\ a.quantity = 1 /\ LineKey(a) = key
      /\ a.refund_cents = LinesAt(draws, i)[1].unit_price_cents
      /\ s[i] = IfReturned(i - 1, a)
  BY <1>2, <1>5, <1>6, ReturnAtFacts
<1>8. a.refund_cents \in Int
  BY <1>7 DEF ReturnType
<1>9. key[1] = <<i - 1>>
  BY <1>7 DEF LineKey
<1>10. PICK h : h = RefundPart(<<i - 1>>)
  OBVIOUS
<1>11. PICK f : f = ReturnPart(key)
  OBVIOUS
<1>12. h \in [ReturnType -> Int] /\ f \in [ReturnType -> Int]
  BY <1>10, <1>11, PartsTyped
<1>13. h[a] = a.refund_cents /\ f[a] = 1
  <2>1. h[a] = Addend(a.order_id = <<i - 1>>, a.refund_cents)
    BY <1>7, <1>10 DEF RefundPart
  <2>2. f[a] = Addend(LineKey(a) = key, a.quantity)
    BY <1>7, <1>11 DEF ReturnPart
  <2>3. a.quantity \in Int
    BY <1>7
  <2> QED
    BY <1>7, <1>8, <2>1, <2>2, <2>3, AddendIs
<1>14. \A k \in 1..Len(s) : k # i => \A x \in Range(s[k]) : h[x] = 0 /\ f[x] = 0
  <2> SUFFICES ASSUME NEW k \in 1..N, k # i, NEW x \in Range(s[k])
               PROVE  h[x] = 0 /\ f[x] = 0
    BY <1>2
  <2>1. x \in ReturnType /\ x.order_id # <<i - 1>>
    BY <1>4
  <2>2. LineKey(x) # key
    BY <1>9, <2>1 DEF LineKey
  <2> QED
    BY <1>10, <1>11, <2>1, <2>2 DEF RefundPart, ReturnPart, Addend
<1>15. i \in 1..Len(s)
  BY <1>2
<1>16. Total(Valued(FlattenSeq(s), h)) = Total(Valued(s[i], h))
  BY <1>2, <1>12, <1>14, <1>15, FlattenTotalOne
<1>17. Total(Valued(FlattenSeq(s), f)) = Total(Valued(s[i], f))
  BY <1>2, <1>12, <1>14, <1>15, FlattenTotalOne
<1>18. /\ Total(Valued(IfReturned(i - 1, a), h)) = IF (i - 1) % 17 = 0 THEN h[a] ELSE 0
       /\ Total(Valued(IfReturned(i - 1, a), f)) = IF (i - 1) % 17 = 0 THEN f[a] ELSE 0
  BY <1>7, <1>12, IfReturnedTotal
<1>19. g \in CleanBatch /\ g.returns = FlattenSeq(s)
  BY <1>1, GeneratedTables
<1>20. /\ Refunded(g, DOMAIN g.returns, <<i - 1>>) = Total(Valued(FlattenSeq(s), h))
       /\ ReturnedQuantity(g, DOMAIN g.returns, key) = Total(Valued(FlattenSeq(s), f))
  <2>1. /\ \A o : Refunded(g, DOMAIN g.returns, o) = Total(Valued(g.returns, RefundPart(o)))
        /\ \A y : ReturnedQuantity(g, DOMAIN g.returns, y) = Total(Valued(g.returns, ReturnPart(y)))
    BY <1>19, PartsAre
  <2> QED
    BY <1>10, <1>11, <1>19, <2>1
<1> QED
  BY <1>6, <1>7, <1>13, <1>16, <1>17, <1>18, <1>20

LEMMA ValuedConcats ==
  ASSUME NEW X, NEW h \in [X -> Int]
  PROVE  \A u, v \in Seq(X) : Valued(u \o v, h) = Valued(u, h) \o Valued(v, h)
  BY ValuedConcat

\* Numbers less than P apart have different remainders.
LEMMA ModApart ==
  ASSUME NEW P \in Nat \ {0}, NEW x \in Int, NEW y \in Int, x < y, y - x < P
  PROVE  x % P # y % P
<1>1. PICK d \in Int : d = x \div P
  OBVIOUS
<1>2. PICK e \in Int : e = y \div P
  OBVIOUS
<1>3. x = P * d + (x % P) /\ y = P * e + (y % P)
  BY <1>1, <1>2
<1>4. SUFFICES ASSUME x % P = y % P PROVE FALSE
  OBVIOUS
<1>5. y - x = P * (e - d)
  BY <1>3, <1>4
<1>6. CASE e - d >= 1
  <2>1. P * (e - d) >= P
    BY <1>6
  <2> QED
    BY <1>5, <2>1
<1>7. CASE e - d <= 0
  <2>1. P * (e - d) <= 0
    BY <1>7
  <2> QED
    BY <1>5, <2>1
<1> QED
  BY <1>6, <1>7

LEMMA ModRange ==
  ASSUME NEW P \in Nat \ {0}, NEW x \in Int
  PROVE  x % P \in 0..(P - 1)
  OBVIOUS

\* What movement x adds to the stock after movement y.
StockOf(y) ==
    [x \in MovementType |->
        Addend(/\ x.product_id = y.product_id
               /\ x.store_id = y.store_id
               /\ \/ x.movement_ts < y.movement_ts
                  \/ /\ x.movement_ts = y.movement_ts
                     /\ (IdBelow(x.movement_id, y.movement_id) \/ x.movement_id = y.movement_id),
               x.quantity_delta)]

LEMMA StockOfType ==
  ASSUME NEW y \in MovementType, NEW h, h = StockOf(y)
  PROVE  /\ h \in [MovementType -> Int]
         /\ \A x \in MovementType : h[x] \in {0, x.quantity_delta} /\ x.quantity_delta \in Int
         /\ \A x \in MovementType : x.product_id # y.product_id => h[x] = 0
         /\ \A x \in MovementType : ~(x.movement_ts <= y.movement_ts) => h[x] = 0
         /\ \A x \in MovementType :
               x.product_id = y.product_id /\ x.store_id = y.store_id /\ x.movement_ts < y.movement_ts
                  => h[x] = x.quantity_delta
<1>1. ASSUME NEW x \in MovementType
      PROVE  /\ x.quantity_delta \in Int /\ x.quantity_delta # Null
             /\ x.movement_ts \in Int
  BY BatchAssumption DEF MovementType
<1>2. \A x \in MovementType : h[x] \in {0, x.quantity_delta}
  BY DEF StockOf, Addend
<1>3. h \in [MovementType -> Int]
  <2>1. \A x \in MovementType : h[x] \in Int
    BY <1>1, <1>2
  <2>2. h = [x \in MovementType |-> h[x]]
    BY Zenon DEF StockOf
  <2> QED
    BY <2>1, <2>2
<1>4. \A x \in MovementType : x.product_id # y.product_id => h[x] = 0
  BY DEF StockOf, Addend
<1>5. \A x \in MovementType : ~(x.movement_ts <= y.movement_ts) => h[x] = 0
  <2> SUFFICES ASSUME NEW x \in MovementType, ~(x.movement_ts <= y.movement_ts)
               PROVE  h[x] = 0
    OBVIOUS
  <2>1. y.movement_ts \in Int /\ x.movement_ts \in Int
    BY <1>1
  <2>2. ~(x.movement_ts < y.movement_ts) /\ x.movement_ts # y.movement_ts
    BY <2>1
  <2> QED
    BY <2>2 DEF StockOf, Addend
<1>6. \A x \in MovementType :
         x.product_id = y.product_id /\ x.store_id = y.store_id /\ x.movement_ts < y.movement_ts
            => h[x] = x.quantity_delta
  BY <1>1 DEF StockOf, Addend
<1> QED
  BY <1>1, <1>2, <1>3, <1>4, <1>5, <1>6

LEMMA StockOfRow ==
  ASSUME NEW b \in CleanBatch, Distinct(b), NEW q, q = b.inventory_movements, NEW j \in 1..Len(q)
  PROVE  Stock(b, j) = Total(Valued(q, StockOf(q[j])))
<1>1. q \in Seq(MovementType) /\ DOMAIN q = 1..Len(q)
  BY CleanRows
<1>2. PICK h : h = StockOf(q[j])
  OBVIOUS
<1>3. PICK v : v = Valued(q, h)
  OBVIOUS
<1>4. v \in Seq(Int) /\ Len(v) = Len(q) /\ \A i \in 1..Len(q) : v[i] = h[q[i]]
  <2>1. q[j] \in MovementType
    BY <1>1
  <2>2. h \in [MovementType -> Int]
    BY <1>2, <2>1, StockOfType
  <2> QED
    BY <1>1, <1>3, <2>2, ValuedType, SMTT(30)
<1>5. PICK w : w = StockParts(q, j)
  OBVIOUS
<1>6. /\ Stock(b, j) = Total(w) /\ w \in Seq(Int) /\ Len(w) = Len(q)
      /\ \A i \in 1..Len(q) : w[i] = StockPart(q, j, i)
  BY <1>5, StockIs
<1>7. ASSUME NEW i \in 1..Len(q)
      PROVE  h[q[i]] = StockPart(q, j, i)
  <2>1. q[i] \in MovementType /\ q[j] \in MovementType
    BY <1>1
  <2>2. q[i].movement_id = q[j].movement_id => i = j
    BY <1>1 DEF Distinct
  <2>3. i = j => i <= j
    OBVIOUS
  <2>4. AtOrBefore(q, i, j) <=>
          \/ q[i].movement_ts < q[j].movement_ts
          \/ /\ q[i].movement_ts = q[j].movement_ts
             /\ (IdBelow(q[i].movement_id, q[j].movement_id) \/ q[i].movement_id = q[j].movement_id)
    BY <2>2, <2>3 DEF AtOrBefore
  <2> QED
    BY <1>2, <2>1, <2>4 DEF StockOf, StockPart, Addend
<1>8. v = w
  <2>1. \A i \in 1..Len(v) : v[i] = w[i]
    BY <1>4, <1>6, <1>7
  <2> QED
    BY <1>4, <1>6, <2>1, SameSeq
<1> QED
  BY <1>2, <1>3, <1>6, <1>8

\* An order takes at most one line's quantity of a product: its lines have different products.
LEMMA OrderTakes ==
  ASSUME MaxLines <= Products, MaxQuantity <= 4,
         NEW draws \in Draws, NEW i \in 1..Len(draws), NEW y \in MovementType, NEW h, h = StockOf(y)
  PROVE  /\ Total(Valued(MovementsMade(draws)[i], h)) \in Int
         /\ Total(Valued(MovementsMade(draws)[i], h)) >= -4
<1>1. /\ h \in [MovementType -> Int]
      /\ \A x \in MovementType : h[x] \in {0, x.quantity_delta} /\ x.quantity_delta \in Int
      /\ \A x \in MovementType : x.product_id # y.product_id => h[x] = 0
  BY StockOfType
<1>2. PICK u : u = SalesAt(draws, i)
  OBVIOUS
<1>3. PICK z : z = IfReturned(i - 1, BackAt(draws, i))
  OBVIOUS
<1>4. /\ u \in Seq(MovementType) /\ z \in Seq(MovementType) /\ MovementsMade(draws)[i] = u \o z
      /\ BackAt(draws, i) \in MovementType
  BY <1>2, <1>3, MovementsAtFacts DEF MovementsMade
<1>5. PICK v : v = Valued(u, h)
  OBVIOUS
<1>6. PICK n : n = Len(LinesAt(draws, i))
  OBVIOUS
<1>7. v \in Seq(Int) /\ Len(v) = n /\ Len(u) = n /\ \A l \in 1..n : v[l] = h[u[l]]
  <2>1. v \in Seq(Int) /\ Len(v) = Len(u) /\ \A l \in 1..Len(u) : v[l] = h[u[l]]
    <3>1. h \in [MovementType -> Int] /\ u \in Seq(MovementType)
      BY <1>1, <1>4
    <3> QED
      BY <1>5, <3>1, ValuedType
  <2>2. Len(u) = n
    BY <1>2, <1>6, MovementsAtFacts
  <2> QED
    BY <2>1, <2>2
<1>8. /\ Products \in Nat \ {0} /\ MaxLines \in Nat /\ MaxQuantity \in Nat /\ i \in Nat /\ n \in 1..MaxLines
  BY <1>6, BatchAssumption, DrawsFacts, LinesAtFacts
<1>9. ASSUME NEW l \in 1..n
      PROVE  /\ u[l] \in MovementType
             /\ u[l].product_id = <<((i - 1) * 3 + l - 1) % Products>>
             /\ u[l].quantity_delta \in Int /\ u[l].quantity_delta >= -4
  <2>1. u[l] = SaleAt(draws, i, l) /\ u[l] \in MovementType
    BY <1>2, <1>6, SalesRows, MovementIds
  <2>2. u[l].product_id = LinesAt(draws, i)[l].product_id /\ u[l].quantity_delta = -LinesAt(draws, i)[l].quantity
    BY <2>1 DEF SaleAt, Movement
  <2>3. LinesAt(draws, i)[l].quantity \in 1..MaxQuantity
    <3>1. \A k \in 1..Len(LinesAt(draws, i)) : LinesAt(draws, i)[k].quantity \in 1..MaxQuantity
      BY LinesAtFacts
    <3> QED
      BY <1>6, <3>1
  <2>4. LinesAt(draws, i)[l].product_id = <<((i - 1) * 3 + l - 1) % Products>>
    BY <1>6, LinesAtFacts
  <2>5. PICK quantity : quantity = LinesAt(draws, i)[l].quantity
    OBVIOUS
  <2>6. quantity \in Int /\ quantity <= 4
    BY <1>8, <2>3, <2>5
  <2>7. u[l].quantity_delta = -quantity
    BY <2>2, <2>5
  <2>8. u[l].quantity_delta \in Int /\ u[l].quantity_delta >= -4
    BY <2>6, <2>7
  <2> QED
    BY <2>1, <2>2, <2>4, <2>8
<1>10. Total(v) \in Int /\ Total(v) >= -4
  <2>1. CASE \E k \in 1..n : u[k].product_id = y.product_id
    <3>1. PICK k \in 1..n : u[k].product_id = y.product_id
      BY <2>1
    <3>2. ASSUME NEW l \in 1..n, l # k
          PROVE  v[l] = 0
      <4>1. PICK a : a = (i - 1) * 3 + l - 1
        OBVIOUS
      <4>2. PICK c : c = (i - 1) * 3 + k - 1
        OBVIOUS
      <4>3. a \in Int /\ c \in Int /\ a - c = l - k /\ c - a = k - l
        BY <1>8, <4>1, <4>2
      <4>4. (a < c /\ c - a < Products) \/ (c < a /\ a - c < Products)
        BY <1>8, <3>2, <4>3
      <4>5. a % Products # c % Products
        BY <1>8, <4>3, <4>4, ModApart
      <4>6. u[l].product_id = <<a % Products>> /\ u[k].product_id = <<c % Products>>
        BY <1>9, <4>1, <4>2
      <4>7. u[l].product_id # y.product_id
        BY <3>1, <4>5, <4>6
      <4> QED
        BY <1>1, <1>7, <1>9, <4>7
    <3>3. Total(v) = v[k]
      <4>1. k \in 1..Len(v) /\ \A l \in 1..Len(v) : l # k => v[l] = 0
        BY <1>7, <3>2
      <4> QED
        BY <1>7, <4>1, TotalOne
    <3>4. u[k] \in MovementType /\ u[k].quantity_delta \in Int /\ u[k].quantity_delta >= -4 /\ v[k] = h[u[k]]
      BY <1>7, <1>9
    <3>5. h[u[k]] \in {0, u[k].quantity_delta}
      BY <1>1, <3>4
    <3> QED
      BY <3>3, <3>4, <3>5
  <2>2. CASE \A k \in 1..n : u[k].product_id # y.product_id
    <3>1. \A l \in 1..Len(v) : v[l] = 0
      BY <1>1, <1>7, <1>9, <2>2
    <3>2. Total(v) = 0
      BY <1>7, <3>1, TotalZero
    <3> QED
      BY <3>2
  <2> QED
    BY <2>1, <2>2
<1>11. Total(Valued(z, h)) \in Int /\ Total(Valued(z, h)) >= 0
  <2>1. PICK back : back = BackAt(draws, i)
    OBVIOUS
  <2>2. back \in MovementType /\ back.quantity_delta = 1
    BY <1>4, <2>1 DEF BackAt, Movement
  <2>3. h[back] \in {0, 1}
    BY <1>1, <2>2
  <2>4. Total(Valued(z, h)) = IF (i - 1) % 17 = 0 THEN h[back] ELSE 0
    BY <1>1, <1>3, <2>1, <2>2, IfReturnedTotal
  <2> QED
    BY <2>3, <2>4
<1>13. \A a, c \in Seq(MovementType) : Valued(a \o c, h) = Valued(a, h) \o Valued(c, h)
  <2>1. PICK X : X = MovementType
    OBVIOUS
  <2>2. h \in [X -> Int]
    BY <1>1, <2>1
  <2>3. \A a, c \in Seq(X) : Valued(a \o c, h) = Valued(a, h) \o Valued(c, h)
    BY <2>2, ValuedConcats
  <2> QED
    BY <2>1, <2>3
<1>12. Total(Valued(u \o z, h)) = Total(v) + Total(Valued(z, h))
  <2>1. Valued(u \o z, h) = v \o Valued(z, h)
    <3>1. h \in [MovementType -> Int] /\ u \in Seq(MovementType) /\ z \in Seq(MovementType)
      BY <1>1, <1>4
    <3>2. Valued(u \o z, h) = Valued(u, h) \o Valued(z, h)
      BY <1>13, <3>1
    <3> QED
      BY <1>5, <3>2
  <2>2. Valued(z, h) \in Seq(Int)
    BY <1>1, <1>4, ValuedType
  <2> QED
    BY <1>7, <2>1, <2>2, TotalConcat
<1> QED
  BY <1>4, <1>10, <1>11, <1>12

\* The generated stock never runs out: every opening is four pieces for each order or more.
LEMMA GeneratedStock ==
  ASSUME MaxLines <= Products, MaxQuantity <= 4,
         NEW draws \in Draws, NEW g, g = Generated(draws), NEW q, q = g.inventory_movements,
         NEW y \in Range(q), NEW h, h = StockOf(y)
  PROVE  Total(Valued(q, h)) \in Int /\ Total(Valued(q, h)) >= 0
<1> DEFINE N == Len(draws)
<1>1. /\ g \in CleanBatch /\ N \in Nat \ {0} /\ Products \in Nat \ {0} /\ Stores \in Nat \ {0}
      /\ q = Opening(N) \o FlattenSeq(MovementsMade(draws))
  BY GeneratedTables
<1>2. q \in Seq(MovementType) /\ y \in MovementType
  BY <1>1, CleanRows, RangeOf
<1>3. /\ h \in [MovementType -> Int]
      /\ \A x \in MovementType : h[x] \in {0, x.quantity_delta} /\ x.quantity_delta \in Int
      /\ \A x \in MovementType : ~(x.movement_ts <= y.movement_ts) => h[x] = 0
      /\ \A x \in MovementType :
            x.product_id = y.product_id /\ x.store_id = y.store_id /\ x.movement_ts < y.movement_ts
               => h[x] = x.quantity_delta
  BY <1>2, StockOfType
<1>4. PICK op : op = Opening(N)
  OBVIOUS
<1>5. PICK s : s = MovementsMade(draws)
  OBVIOUS
<1>6. /\ op \in Seq(MovementType)
      /\ OpeningStock(N) \in Nat /\ OpeningStock(N) >= N * 4
  BY <1>1, <1>4, OpeningFacts
<1>7. s \in Seq(Seq(MovementType)) /\ Len(s) = N /\ FlattenSeq(s) \in Seq(MovementType)
  BY <1>5, MadeTyped, FlattenRange
<1>8. Range(q) = Range(op) \cup Range(FlattenSeq(s))
  BY <1>1, <1>4, <1>5, <1>6, <1>7, RangeConcat
<1>9. \A x \in Range(FlattenSeq(s)) : \E i \in 1..N :
         \/ \E l \in 1..Len(LinesAt(draws, i)) : x = SaleAt(draws, i, l)
         \/ x = BackAt(draws, i)
  <2>1. DOMAIN s = 1..N
    BY <1>7
  <2>2. \A x \in Range(FlattenSeq(s)) : \E i \in 1..N : x \in Range(s[i])
    BY <1>7, <2>1, FlattenRange
  <2> QED
    BY <1>5, <2>2, MovementRows
<1>10. PICK vo : vo = Valued(op, h)
  OBVIOUS
<1>11. vo \in Seq(Int) /\ Len(vo) = Len(op) /\ \A k \in 1..Len(op) : vo[k] = h[op[k]]
  BY <1>3, <1>6, <1>10, ValuedType, SMTT(30)
<1>12. PICK vs : vs = Valued(FlattenSeq(s), h)
  OBVIOUS
<1>13. vs \in Seq(Int)
  BY <1>3, <1>7, <1>12, ValuedType
<1>14. Total(Valued(q, h)) = Total(vo) + Total(vs) /\ Total(vo) \in Int /\ Total(vs) \in Int
  <2>1. \A a, c \in Seq(MovementType) : Valued(a \o c, h) = Valued(a, h) \o Valued(c, h)
    <3>1. PICK X : X = MovementType
      OBVIOUS
    <3>2. h \in [X -> Int]
      BY <1>3, <3>1
    <3>3. \A a, c \in Seq(X) : Valued(a \o c, h) = Valued(a, h) \o Valued(c, h)
      BY <3>2, ValuedConcats
    <3> QED
      BY <3>1, <3>3
  <2>2. Valued(q, h) = vo \o vs
    BY <1>1, <1>4, <1>5, <1>6, <1>7, <1>10, <1>12, <2>1, ZenonT(60)
  <2>3. Total(vo \o vs) = Total(vo) + Total(vs) /\ Total(vo) \in Int /\ Total(vs) \in Int
    BY <1>11, <1>13, TotalConcat, TotalType
  <2> QED
    BY <2>2, <2>3
<1>15. ASSUME NEW x \in Range(op)
       PROVE  x \in MovementType /\ x.quantity_delta = OpeningStock(N) /\ x.movement_ts = Start - 1
  <2>1. PICK p \in 1..Products, t \in 1..Stores : x = OpeningOf(N, p, t)
    BY <1>4, MovementRows
  <2>2. x \in MovementType
    BY <2>1, MovementIds
  <2> QED
    BY <2>1, <2>2 DEF OpeningOf, Movement
<1>16. \A k \in 1..Len(vo) : op[k] \in Range(op) /\ vo[k] >= 0
  <2> SUFFICES ASSUME NEW k \in 1..Len(op)
               PROVE  op[k] \in Range(op) /\ vo[k] >= 0
    BY <1>11
  <2>1. op[k] \in Range(op)
    BY <1>6, RangeOf
  <2>2. h[op[k]] \in {0, OpeningStock(N)}
    BY <1>3, <1>15, <2>1
  <2> QED
    BY <1>6, <1>11, <2>1, <2>2
<1>17. \A x \in Range(op) : h[x] \in Int /\ Total(vo) >= h[x]
  <2> SUFFICES ASSUME NEW x \in Range(op)
               PROVE  h[x] \in Int /\ Total(vo) >= h[x]
    OBVIOUS
  <2>1. PICK k \in 1..Len(op) : op[k] = x
    BY <1>6, RangeOf
  <2>2. k \in 1..Len(vo) /\ vo[k] = h[x]
    BY <1>11, <2>1
  <2>3. Total(vo) >= vo[k]
    BY <1>11, <1>16, <2>2, TotalAtLeast
  <2>4. h[x] \in Int
    BY <1>3, <1>15
  <2> QED
    BY <2>2, <2>3, <2>4
<1>18. CASE y \in Range(op)
  <2>1. h[y] >= 0 /\ Total(vo) >= h[y]
    <3>1. h[y] \in {0, OpeningStock(N)}
      BY <1>3, <1>15, <1>18
    <3> QED
      BY <1>6, <1>17, <1>18, <3>1
  <2>2. Total(vs) = 0
    <3>1. ASSUME NEW x \in Range(FlattenSeq(s))
          PROVE  h[x] = 0
      <4>1. PICK i \in 1..N : \/ \E l \in 1..Len(LinesAt(draws, i)) : x = SaleAt(draws, i, l)
                              \/ x = BackAt(draws, i)
        BY <1>9, <3>1
      <4>2. x \in MovementType /\ x.movement_ts \in {Start + (i - 1) * 10, Start + (i - 1) * 10 + 5}
        BY <4>1, MovementIds DEF SaleAt, BackAt, Movement
      <4>3. ~(x.movement_ts <= y.movement_ts)
        <5>1. i \in Nat /\ i >= 1 /\ y.movement_ts = Start - 1
          BY <1>15, <1>18
        <5> QED
          BY <4>2, <5>1 DEF Start
      <4> QED
        BY <1>3, <4>2, <4>3
    <3> QED
      BY <1>3, <1>7, <1>12, <3>1, ValuedZero
  <2> QED
    BY <1>3, <1>14, <1>17, <1>18, <2>1, <2>2
<1>19. CASE y \in Range(FlattenSeq(s))
  <2>1. PICK i \in 1..N : \/ \E l \in 1..Len(LinesAt(draws, i)) : y = SaleAt(draws, i, l)
                          \/ y = BackAt(draws, i)
    BY <1>9, <1>19
  <2>2. y.movement_ts \in {Start + (i - 1) * 10, Start + (i - 1) * 10 + 5} /\ y.store_id = (i - 1) % Stores
    BY <2>1 DEF SaleAt, BackAt, Movement
  <2>3. \E l \in 1..Len(LinesAt(draws, i)) : y.product_id = LinesAt(draws, i)[l].product_id
    <3>1. 1 \in 1..Len(LinesAt(draws, i))
      <4>1. Len(LinesAt(draws, i)) \in 1..MaxLines /\ MaxLines \in Nat
        BY LinesAtFacts, BatchAssumption
      <4> QED
        BY <4>1
    <3> QED
      BY <2>1, <3>1 DEF SaleAt, BackAt, Movement
  <2>4. PICK l \in 1..Len(LinesAt(draws, i)) : y.product_id = LinesAt(draws, i)[l].product_id
    BY <2>3
  <2>5. PICK p : p = ((i - 1) * 3 + l - 1) % Products
    OBVIOUS
  <2>6. y.product_id = <<p>>
    BY <2>4, <2>5, LinesAtFacts
  <2>7. p \in 0..(Products - 1) /\ (i - 1) % Stores \in 0..(Stores - 1)
    <3>1. (i - 1) * 3 + l - 1 \in Int /\ i - 1 \in Int
      OBVIOUS
    <3> QED
      BY <1>1, <2>5, <3>1, ModRange
  <2>8. PICK z : z = OpeningOf(N, p + 1, ((i - 1) % Stores) + 1)
    OBVIOUS
  <2>9. /\ p + 1 \in 1..Products /\ ((i - 1) % Stores) + 1 \in 1..Stores
        /\ (p + 1) - 1 = p /\ (((i - 1) % Stores) + 1) - 1 = (i - 1) % Stores
    BY <1>1, <2>7
  <2>10. z \in Range(op)
    BY <1>4, <2>8, <2>9, MovementRows
  <2>11. z.product_id = y.product_id /\ z.store_id = y.store_id
    BY <2>2, <2>6, <2>8, <2>9 DEF OpeningOf, Movement
  <2>12. z.movement_ts < y.movement_ts
    <3>1. z.movement_ts = Start - 1 /\ i \in Nat /\ i >= 1
      BY <1>15, <2>10
    <3> QED
      BY <2>2, <3>1 DEF Start
  <2>13. h[z] = OpeningStock(N)
    BY <1>3, <1>15, <2>10, <2>11, <2>12
  <2>14. Total(vo) >= N * 4
    BY <1>6, <1>14, <1>17, <2>10, <2>13
  <2>15. PICK w : w = [k \in 1..Len(s) |-> Total(Valued(s[k], h))]
    OBVIOUS
  <2>16. ASSUME NEW k \in 1..N
         PROVE  Total(Valued(s[k], h)) \in Int /\ Total(Valued(s[k], h)) >= -4
    BY <1>2, <1>5, OrderTakes
  <2>17. w \in [1..N -> Int] /\ \A k \in 1..N : w[k] >= -4
    BY <1>7, <2>15, <2>16
  <2>18. w \in Seq(Int) /\ Len(w) = N
    BY <1>1, <2>17, FunctionSeq
  <2>19. Total(w) >= -(4 * N)
    <3>1. \A k \in 1..Len(w) : w[k] >= -4
      BY <2>17, <2>18
    <3> QED
      BY <2>18, <3>1, TotalFromMinusFour
  <2>20. Total(vs) = Total(w)
    <3>1. h \in [MovementType -> Int]
      BY <1>3
    <3>2. s \in Seq(Seq(MovementType))
      BY <1>7
    <3>3. Total(Valued(FlattenSeq(s), h)) = Total([k \in 1..Len(s) |-> Total(Valued(s[k], h))])
      BY <3>1, <3>2, FlattenTotal
    <3> QED
      BY <1>12, <2>15, <3>3
  <2> QED
    BY <1>1, <1>14, <2>14, <2>19, <2>20
<1> QED
  BY <1>8, <1>18, <1>19

LEMMA GeneratedOrders ==
  ASSUME NEW draws \in Draws, NEW g, g = Generated(draws)
  PROVE  /\ \A r : r \in Range(g.orders) <=> \E i \in 1..Len(draws) : r = OrderAt(draws, i)
         /\ \A i \in 1..Len(draws) : HasOrder(g, <<i - 1>>) /\ OrderNamed(g, <<i - 1>>) = OrderAt(draws, i)
<1>1. DOMAIN g.orders = 1..Len(draws) /\ \A i \in 1..Len(draws) : g.orders[i] = OrderAt(draws, i)
  BY GeneratedTables
<1>2. \A r : r \in Range(g.orders) <=> \E i \in 1..Len(draws) : r = OrderAt(draws, i)
  BY <1>1 DEF Range
<1>3. ASSUME NEW i \in 1..Len(draws)
      PROVE  HasOrder(g, <<i - 1>>) /\ OrderNamed(g, <<i - 1>>) = OrderAt(draws, i)
  <2>1. PICK o : o = OrderAt(draws, i)
    OBVIOUS
  <2>2. o \in Range(g.orders) /\ o.order_id = <<i - 1>>
    BY <1>2, <2>1, OrderAtFacts
  <2>3. OrderNamed(g, o.order_id) = o
    BY <2>2, GeneratedTables, GeneratedDistinct, OrderNamedIs
  <2> QED
    BY <2>1, <2>2, <2>3 DEF HasOrder
<1> QED
  BY <1>2, <1>3

\* The products known to the warehouse for a line's product at a time are those with its identifier.
LEMMA ProductMatches ==
  ASSUME NEW k \in Int, NEW time \in Int, time >= Start, NEW p \in Int, NEW line, line.product_id = <<p>>
  PROVE  MatchPart(line, time)[Product(k)] = IF k = p THEN 1 ELSE 0
<1>1. PICK v : v = Product(k)
  OBVIOUS
<1>2. /\ v \in ProductType /\ v.product_id = <<k>> /\ v.effective_from = Start - 86400
      /\ v.effective_to = Null /\ v.loaded_at = Start - 3600
  BY <1>1, ProductFacts
<1>3. Knowable(v, time)
  <2>1. v.effective_from <= time
    BY <1>2 DEF Start
  <2>2. v.loaded_at <= Knowledge
    BY <1>2 DEF Knowledge, Start
  <2>3. v.effective_to = Null
    BY <1>2
  <2> QED
    BY <2>1, <2>2, <2>3 DEF Knowable
<1>4. v.product_id = line.product_id <=> k = p
  <2>1. <<k>> = <<p>> <=> k = p
    OBVIOUS
  <2>2. v.product_id = <<k>>
    BY <1>2
  <2> QED
    BY <2>1, <2>2
<1>5. MatchPart(line, time)[v] = Addend(v.product_id = line.product_id /\ Knowable(v, time), 1)
  <2>1. v \in ProductType
    BY <1>2
  <2> QED
    BY <2>1, Zenon DEF MatchPart
<1>6. CASE k = p
  <2>1. v.product_id = line.product_id /\ Knowable(v, time)
    BY <1>3, <1>4, <1>6
  <2>2. Addend(v.product_id = line.product_id /\ Knowable(v, time), 1) = 1
    <3>1. 1 # Null
      BY BatchAssumption
    <3> QED
      BY <2>1, <3>1 DEF Addend
  <2> QED
    BY <1>1, <1>5, <1>6, <2>2
<1>7. CASE k # p
  <2>1. ~(v.product_id = line.product_id /\ Knowable(v, time))
    BY <1>4, <1>7
  <2>2. Addend(v.product_id = line.product_id /\ Knowable(v, time), 1) = 0
    BY <2>1 DEF Addend
  <2> QED
    BY <1>1, <1>5, <1>7, <2>2
<1> QED
  BY <1>6, <1>7

LEMMA LinePlace ==
  ASSUME NEW draws \in Draws, NEW i \in 1..Len(draws), NEW l \in 1..Len(LinesAt(draws, i)),
         NEW p, p = ((i - 1) * 3 + l - 1) % Products
  PROVE  /\ p \in 0..(Products - 1) /\ p \in Int /\ i \in Nat /\ Products \in Nat \ {0}
         /\ LinesAt(draws, i)[l].product_id = <<p>> /\ LinesAt(draws, i)[l].order_id = <<i - 1>>
         /\ LinesAt(draws, i)[l] \in LineType
<1>1. i \in Nat /\ Products \in Nat \ {0} /\ MaxLines \in Nat /\ Len(LinesAt(draws, i)) \in 1..MaxLines
  BY DrawsFacts, BatchAssumption, LinesAtFacts
<1>2. (i - 1) * 3 + l - 1 \in Int
  BY <1>1
<1>3. p \in 0..(Products - 1) /\ p \in Int
  BY <1>1, <1>2, ModRange
<1>4. LinesAt(draws, i)[l].product_id = <<p>> /\ LinesAt(draws, i)[l].order_id = <<i - 1>>
  BY LinesAtFacts
<1>5. LinesAt(draws, i)[l] \in LineType
  BY LinesAtFacts, SeqElement
<1> QED
  BY <1>1, <1>3, <1>4, <1>5

LEMMA GeneratedMatches ==
  ASSUME NEW draws \in Draws, NEW g, g = Generated(draws), NEW i \in 1..Len(draws),
         NEW l \in 1..Len(LinesAt(draws, i))
  PROVE  Matches(g, LinesAt(draws, i)[l]) = 1
<1>1. PICK r : r = LinesAt(draws, i)[l]
  OBVIOUS
<1>2. PICK p : p = ((i - 1) * 3 + l - 1) % Products
  OBVIOUS
<1>3. /\ p \in 0..(Products - 1) /\ p \in Int /\ i \in Nat /\ Products \in Nat \ {0}
      /\ r.product_id = <<p>> /\ r.order_id = <<i - 1>>
  BY <1>1, <1>2, LinePlace, SMTT(30)
<1>4. PICK time : time = OrderNamed(g, r.order_id).order_ts
  OBVIOUS
<1>5. time \in Int /\ time >= Start
  <2>1. OrderAt(draws, i).order_ts = Start + (i - 1) * 10
    BY OrderAtFacts
  <2>2. time = Start + (i - 1) * 10 /\ i >= 1
    BY <1>3, <1>4, <2>1, GeneratedOrders
  <2> QED
    BY <1>3, <2>2 DEF Start
<1>6. PICK h : h = MatchPart(r, time)
  OBVIOUS
<1>7. h \in [ProductType -> Int]
  BY <1>6, PartsTyped
<1>8. PICK q : q = g.products
  OBVIOUS
<1>9. g \in CleanBatch /\ q \in Seq(ProductType) /\ Len(q) = Products /\ \A k \in 1..Products : q[k] = Product(k - 1)
  BY <1>8, GeneratedTables, CleanRows
<1>10. PICK v : v = Valued(q, h)
  OBVIOUS
<1>11. v \in Seq(Int) /\ Len(v) = Len(q) /\ \A k \in 1..Len(q) : v[k] = h[q[k]]
  BY <1>7, <1>9, <1>10, ValuedType
<1>12. ASSUME NEW k \in 1..Products
       PROVE  v[k] = IF k = p + 1 THEN 1 ELSE 0
  <2>1. k - 1 \in Int /\ (k - 1 = p <=> k = p + 1)
    BY <1>3
  <2>2. h[Product(k - 1)] = IF k - 1 = p THEN 1 ELSE 0
    BY <1>3, <1>5, <1>6, <2>1, ProductMatches
  <2> QED
    BY <1>9, <1>11, <2>1, <2>2
<1>13. p + 1 \in 1..Len(v) /\ \A k \in 1..Len(v) : k # p + 1 => v[k] = 0
  BY <1>3, <1>9, <1>11, <1>12
<1>14. Total(v) = v[p + 1]
  BY <1>11, <1>13, TotalOne
<1>15. Matches(g, r) = Total(v)
  <2>1. Matches(g, r) = Total(Valued(g.products, MatchPart(r, OrderNamed(g, r.order_id).order_ts)))
    BY <1>9, PartsAre
  <2> QED
    BY <1>4, <1>6, <1>8, <1>10, <2>1
<1> QED
  BY <1>1, <1>9, <1>11, <1>12, <1>13, <1>14, <1>15

\* What each check of the job finds.
LEMMA SparkRules ==
  ASSUME NEW b
  PROVE  /\ SparkFinds(b)["DUPLICATE_ID"] <=>
               RepeatsIdentity(b, [i \in DOMAIN b.order_lines |-> LineKey(b.order_lines[i])])
         /\ SparkFinds(b)["ORPHAN_LINE"] <=> \E r \in Range(b.order_lines) : ~HasOrder(b, r.order_id)
         /\ SparkFinds(b)["ORPHAN_PAYMENT"] <=> \E r \in Range(b.payments) : ~HasOrder(b, r.order_id)
         /\ SparkFinds(b)["INVALID_LINE"] <=> \E r \in Range(b.order_lines) : SparkInvalidLine(r)
         /\ SparkFinds(b)["LINE_TOTAL"] <=> \E r \in Range(b.order_lines) : SparkLineTotal(r)
         /\ SparkFinds(b)["CURRENCY"] <=> \E r \in Range(b.orders) : Unsupported(r)
         /\ SparkFinds(b)["ORDER_TOTAL"] <=> \E r \in Range(b.orders) : SparkOrderTotal(r)
         /\ SparkFinds(b)["ORDER_SUBTOTAL"] <=> \E r \in Range(b.orders) : SparkSubtotal(b, r)
         /\ SparkFinds(b)["UNDERPAID"] <=> \E r \in Range(b.orders) : SparkUnderpaid(b, r)
         /\ SparkFinds(b)["ORPHAN_RETURN"] <=> \E r \in Range(b.returns) : ~HasLine(b, LineKey(r))
         /\ SparkFinds(b)["INVALID_RETURN"] <=> \E r \in Range(b.returns) : SparkInvalidReturn(r)
         /\ SparkFinds(b)["EXCESS_REFUND"] <=>
               \E r \in Range(b.returns) : Refunded(b, DOMAIN b.returns, r.order_id) > Captured(b, r.order_id)
         /\ SparkFinds(b)["RETURN_QUANTITY"] <=> \E r \in Range(b.returns) : SparkReturnQuantity(b, r)
         /\ SparkFinds(b)["NEGATIVE_INVENTORY"] <=> \E j \in DOMAIN b.inventory_movements : Stock(b, j) < 0
         /\ SparkFinds(b)["MISSING_DIMENSION"] <=>
               \E r \in Range(b.order_lines) : HasOrder(b, r.order_id) /\ Matches(b, r) = 0
         /\ SparkFinds(b)["AMBIGUOUS_DIMENSION"] <=>
               \E r \in Range(b.order_lines) : HasOrder(b, r.order_id) /\ Matches(b, r) > 1
<1>1. SparkFinds(b)["DUPLICATE_ID"] <=>
         RepeatsIdentity(b, [i \in DOMAIN b.order_lines |-> LineKey(b.order_lines[i])])
  BY Zenon DEF SparkFinds
<1>2. SparkFinds(b)["ORPHAN_LINE"] <=>
         \E r \in Range(b.order_lines) : ~HasOrder(b, r.order_id)
  BY Zenon DEF SparkFinds
<1>3. SparkFinds(b)["ORPHAN_PAYMENT"] <=>
         \E r \in Range(b.payments) : ~HasOrder(b, r.order_id)
  BY Zenon DEF SparkFinds
<1>4. SparkFinds(b)["INVALID_LINE"] <=>
         \E r \in Range(b.order_lines) : SparkInvalidLine(r)
  BY Zenon DEF SparkFinds
<1>5. SparkFinds(b)["LINE_TOTAL"] <=>
         \E r \in Range(b.order_lines) : SparkLineTotal(r)
  BY Zenon DEF SparkFinds
<1>6. SparkFinds(b)["CURRENCY"] <=>
         \E r \in Range(b.orders) : Unsupported(r)
  BY Zenon DEF SparkFinds
<1>7. SparkFinds(b)["ORDER_TOTAL"] <=>
         \E r \in Range(b.orders) : SparkOrderTotal(r)
  BY Zenon DEF SparkFinds
<1>8. SparkFinds(b)["ORDER_SUBTOTAL"] <=>
         \E r \in Range(b.orders) : SparkSubtotal(b, r)
  BY Zenon DEF SparkFinds
<1>9. SparkFinds(b)["UNDERPAID"] <=>
         \E r \in Range(b.orders) : SparkUnderpaid(b, r)
  BY Zenon DEF SparkFinds
<1>10. SparkFinds(b)["ORPHAN_RETURN"] <=>
         \E r \in Range(b.returns) : ~HasLine(b, LineKey(r))
  BY Zenon DEF SparkFinds
<1>11. SparkFinds(b)["INVALID_RETURN"] <=>
         \E r \in Range(b.returns) : SparkInvalidReturn(r)
  BY Zenon DEF SparkFinds
<1>12. SparkFinds(b)["EXCESS_REFUND"] <=>
         \E r \in Range(b.returns) : Refunded(b, DOMAIN b.returns, r.order_id) > Captured(b, r.order_id)
  BY Zenon DEF SparkFinds
<1>13. SparkFinds(b)["RETURN_QUANTITY"] <=>
         \E r \in Range(b.returns) : SparkReturnQuantity(b, r)
  BY Zenon DEF SparkFinds
<1>14. SparkFinds(b)["NEGATIVE_INVENTORY"] <=>
         \E j \in DOMAIN b.inventory_movements : Stock(b, j) < 0
  BY Zenon DEF SparkFinds
<1>15. SparkFinds(b)["MISSING_DIMENSION"] <=>
         \E r \in Range(b.order_lines) : HasOrder(b, r.order_id) /\ Matches(b, r) = 0
  BY Zenon DEF SparkFinds
<1>16. SparkFinds(b)["AMBIGUOUS_DIMENSION"] <=>
         \E r \in Range(b.order_lines) : HasOrder(b, r.order_id) /\ Matches(b, r) > 1
  BY Zenon DEF SparkFinds
<1> QED
  BY <1>1, <1>2, <1>3, <1>4, <1>5, <1>6, <1>7, <1>8, <1>9, <1>10, <1>11, <1>12, <1>13, <1>14, <1>15, <1>16

\* A check finds the same in two batches that share the tables it reads.
LEMMA SharedTables ==
  ASSUME NEW b, NEW d
  PROVE  /\ d.order_lines = b.order_lines =>
               /\ SparkFinds(d)["INVALID_LINE"] <=> SparkFinds(b)["INVALID_LINE"]
               /\ SparkFinds(d)["LINE_TOTAL"] <=> SparkFinds(b)["LINE_TOTAL"]
         /\ d.orders = b.orders =>
               /\ SparkFinds(d)["CURRENCY"] <=> SparkFinds(b)["CURRENCY"]
               /\ SparkFinds(d)["ORDER_TOTAL"] <=> SparkFinds(b)["ORDER_TOTAL"]
         /\ d.orders = b.orders /\ d.order_lines = b.order_lines =>
               /\ SparkFinds(d)["ORPHAN_LINE"] <=> SparkFinds(b)["ORPHAN_LINE"]
               /\ SparkFinds(d)["ORDER_SUBTOTAL"] <=> SparkFinds(b)["ORDER_SUBTOTAL"]
         /\ d.orders = b.orders /\ d.payments = b.payments =>
               /\ SparkFinds(d)["ORPHAN_PAYMENT"] <=> SparkFinds(b)["ORPHAN_PAYMENT"]
               /\ SparkFinds(d)["UNDERPAID"] <=> SparkFinds(b)["UNDERPAID"]
         /\ d.order_lines = b.order_lines /\ d.returns = b.returns =>
               /\ SparkFinds(d)["ORPHAN_RETURN"] <=> SparkFinds(b)["ORPHAN_RETURN"]
               /\ SparkFinds(d)["INVALID_RETURN"] <=> SparkFinds(b)["INVALID_RETURN"]
               /\ SparkFinds(d)["RETURN_QUANTITY"] <=> SparkFinds(b)["RETURN_QUANTITY"]
         /\ d.payments = b.payments /\ d.returns = b.returns =>
               (SparkFinds(d)["EXCESS_REFUND"] <=> SparkFinds(b)["EXCESS_REFUND"])
         /\ d.inventory_movements = b.inventory_movements =>
               (SparkFinds(d)["NEGATIVE_INVENTORY"] <=> SparkFinds(b)["NEGATIVE_INVENTORY"])
<1>1. d.orders = b.orders => \A o : HasOrder(d, o) <=> HasOrder(b, o)
  BY DEF HasOrder
<1>2. d.order_lines = b.order_lines => \A key : HasLine(d, key) <=> HasLine(b, key)
  BY DEF HasLine
<1>3. d.order_lines = b.order_lines => \A o : Subtotal(d, o) = Subtotal(b, o)
  BY Zenon DEF Subtotal
<1>4. d.payments = b.payments => \A o : Captured(d, o) = Captured(b, o)
  BY Zenon DEF Captured
<1>5. d.returns = b.returns =>
         /\ \A o : Refunded(d, DOMAIN d.returns, o) = Refunded(b, DOMAIN b.returns, o)
         /\ \A key : ReturnedQuantity(d, DOMAIN d.returns, key) = ReturnedQuantity(b, DOMAIN b.returns, key)
  BY Zenon DEF Refunded, ReturnedQuantity
<1>6. d.inventory_movements = b.inventory_movements => \A j : Stock(d, j) = Stock(b, j)
  BY Zenon DEF Stock
<1>7. d.order_lines = b.order_lines =>
         /\ SparkFinds(d)["INVALID_LINE"] <=> SparkFinds(b)["INVALID_LINE"]
         /\ SparkFinds(d)["LINE_TOTAL"] <=> SparkFinds(b)["LINE_TOTAL"]
  BY SparkRules
<1>8. d.orders = b.orders =>
         /\ SparkFinds(d)["CURRENCY"] <=> SparkFinds(b)["CURRENCY"]
         /\ SparkFinds(d)["ORDER_TOTAL"] <=> SparkFinds(b)["ORDER_TOTAL"]
  BY SparkRules
<1>9. d.orders = b.orders /\ d.order_lines = b.order_lines =>
         /\ SparkFinds(d)["ORPHAN_LINE"] <=> SparkFinds(b)["ORPHAN_LINE"]
         /\ SparkFinds(d)["ORDER_SUBTOTAL"] <=> SparkFinds(b)["ORDER_SUBTOTAL"]
  <2> SUFFICES ASSUME d.orders = b.orders, d.order_lines = b.order_lines
               PROVE  /\ SparkFinds(d)["ORPHAN_LINE"] <=> SparkFinds(b)["ORPHAN_LINE"]
                      /\ SparkFinds(d)["ORDER_SUBTOTAL"] <=> SparkFinds(b)["ORDER_SUBTOTAL"]
    OBVIOUS
  <2>1. \A r : SparkSubtotal(d, r) <=> SparkSubtotal(b, r)
    BY <1>3, Zenon DEF SparkSubtotal
  <2>2. SparkFinds(d)["ORDER_SUBTOTAL"] <=> SparkFinds(b)["ORDER_SUBTOTAL"]
    BY <2>1, SparkRules, Zenon
  <2>3. SparkFinds(d)["ORPHAN_LINE"] <=> SparkFinds(b)["ORPHAN_LINE"]
    BY <1>1, SparkRules
  <2> QED
    BY <2>2, <2>3
<1>10. d.orders = b.orders /\ d.payments = b.payments =>
         /\ SparkFinds(d)["ORPHAN_PAYMENT"] <=> SparkFinds(b)["ORPHAN_PAYMENT"]
         /\ SparkFinds(d)["UNDERPAID"] <=> SparkFinds(b)["UNDERPAID"]
  <2> SUFFICES ASSUME d.orders = b.orders, d.payments = b.payments
               PROVE  /\ SparkFinds(d)["ORPHAN_PAYMENT"] <=> SparkFinds(b)["ORPHAN_PAYMENT"]
                      /\ SparkFinds(d)["UNDERPAID"] <=> SparkFinds(b)["UNDERPAID"]
    OBVIOUS
  <2>1. \A r : SparkUnderpaid(d, r) <=> SparkUnderpaid(b, r)
    <3>1. \A r : Underpaid(d, r) <=> Underpaid(b, r)
      BY <1>4 DEF Underpaid
    <3> QED
      BY <3>1, Zenon DEF SparkUnderpaid, Selects
  <2>2. SparkFinds(d)["UNDERPAID"] <=> SparkFinds(b)["UNDERPAID"]
    BY <2>1, SparkRules, Zenon
  <2>3. SparkFinds(d)["ORPHAN_PAYMENT"] <=> SparkFinds(b)["ORPHAN_PAYMENT"]
    BY <1>1, SparkRules
  <2> QED
    BY <2>2, <2>3
<1>11. d.order_lines = b.order_lines /\ d.returns = b.returns =>
         /\ SparkFinds(d)["ORPHAN_RETURN"] <=> SparkFinds(b)["ORPHAN_RETURN"]
         /\ SparkFinds(d)["INVALID_RETURN"] <=> SparkFinds(b)["INVALID_RETURN"]
         /\ SparkFinds(d)["RETURN_QUANTITY"] <=> SparkFinds(b)["RETURN_QUANTITY"]
  BY <1>2, <1>5, SparkRules, ZenonT(60) DEF SparkReturnQuantity
<1>12. d.payments = b.payments /\ d.returns = b.returns =>
         (SparkFinds(d)["EXCESS_REFUND"] <=> SparkFinds(b)["EXCESS_REFUND"])
  <2> SUFFICES ASSUME d.payments = b.payments, d.returns = b.returns
               PROVE  SparkFinds(d)["EXCESS_REFUND"] <=> SparkFinds(b)["EXCESS_REFUND"]
    OBVIOUS
  <2>1. \A o : (Refunded(d, DOMAIN d.returns, o) > Captured(d, o))
                  <=> (Refunded(b, DOMAIN b.returns, o) > Captured(b, o))
    BY <1>4, <1>5, Zenon
  <2> QED
    BY <2>1, SparkRules, Zenon
<1>13. d.inventory_movements = b.inventory_movements =>
         (SparkFinds(d)["NEGATIVE_INVENTORY"] <=> SparkFinds(b)["NEGATIVE_INVENTORY"])
  BY <1>6, SparkRules
<1> QED
  BY <1>7, <1>8, <1>9, <1>10, <1>11, <1>12, <1>13

\* The first check of the job's order that finds something is its failure.
LEMMA FailureIs ==
  ASSUME NEW b, NEW k \in 1..16, SparkFinds(b)[SparkOrder[k]],
         \A i \in 1..16 : i < k => ~SparkFinds(b)[SparkOrder[i]]
  PROVE  SparkFailure(b) = SparkOrder[k]
<1>1. SparkOrder[k] \in Codes
  BY DEF SparkOrder, Codes
<1>2. CASE \A c \in Codes : ~SparkFinds(b)[c]
  BY <1>1, <1>2
<1>3. CASE \E m \in 1..16 : /\ SparkFailure(b) = SparkOrder[m]
                            /\ SparkFinds(b)[SparkOrder[m]]
                            /\ \A i \in 1..16 : i < m => ~SparkFinds(b)[SparkOrder[i]]
  <2>1. PICK m \in 1..16 : /\ SparkFailure(b) = SparkOrder[m]
                           /\ SparkFinds(b)[SparkOrder[m]]
                           /\ \A i \in 1..16 : i < m => ~SparkFinds(b)[SparkOrder[i]]
    BY <1>3
  <2>2. ~(m < k) /\ ~(k < m)
    BY <2>1
  <2>3. m = k
    BY <2>2
  <2> QED
    BY <2>1, <2>3
<1> QED
  BY <1>2, <1>3, FirstFailure

\* The job's first check asks for two rows of one identity.
LEMMA DuplicateIs ==
  ASSUME NEW b \in CleanBatch
  PROVE  SparkFinds(b)["DUPLICATE_ID"] <=> ~Distinct(b)
<1>1. SparkFinds(b)["DUPLICATE_ID"] <=>
         RepeatsIdentity(b, [i \in DOMAIN b.order_lines |-> LineKey(b.order_lines[i])])
  BY SparkRules
<1>2. RepeatsIdentity(b, [i \in DOMAIN b.order_lines |-> JoinedLineKey(b.order_lines[i])])
         <=> RepeatsIdentity(b, [i \in DOMAIN b.order_lines |-> LineKey(b.order_lines[i])])
  BY SameRepeats, Zenon DEF RepeatsIdentity
<1> QED
  BY <1>1, <1>2, DistinctIs

\* Where a generated row comes from.
LEMMA GeneratedSources ==
  ASSUME NEW draws \in Draws, NEW g, g = Generated(draws)
  PROVE  /\ \A r \in Range(g.orders) : \E i \in 1..Len(draws) : r = OrderAt(draws, i)
         /\ \A r \in Range(g.order_lines) :
               \E i \in 1..Len(draws) : \E l \in 1..Len(LinesAt(draws, i)) : r = LinesAt(draws, i)[l]
         /\ \A r \in Range(g.payments) : \E i \in 1..Len(draws) : r = PaymentAt(draws, i)
         /\ \A r \in Range(g.returns) : \E i \in 1..Len(draws) : (i - 1) % 17 = 0 /\ r = ReturnAt(draws, i)
<1>1. \A r \in Range(g.orders) : \E i \in 1..Len(draws) : r = OrderAt(draws, i)
  BY GeneratedOrders
<1>2. \A r \in Range(g.order_lines) :
         \E i \in 1..Len(draws) : \E l \in 1..Len(LinesAt(draws, i)) : r = LinesAt(draws, i)[l]
  <2>1. g.order_lines = FlattenSeq(LinesMade(draws)) /\ LinesMade(draws) \in Seq(Seq(LineType))
    BY GeneratedTables, MadeTyped
  <2>2. DOMAIN LinesMade(draws) = 1..Len(draws) /\ \A i \in 1..Len(draws) : LinesMade(draws)[i] = LinesAt(draws, i)
    BY DEF LinesMade
  <2>3. \A r : r \in Range(FlattenSeq(LinesMade(draws)))
                 <=> \E i \in DOMAIN LinesMade(draws) : r \in Range(LinesMade(draws)[i])
    BY <2>1, FlattenRange
  <2>4. ASSUME NEW r \in Range(g.order_lines)
        PROVE  \E i \in 1..Len(draws) : \E l \in 1..Len(LinesAt(draws, i)) : r = LinesAt(draws, i)[l]
    <3>1. PICK i \in 1..Len(draws) : r \in Range(LinesAt(draws, i))
      BY <2>1, <2>2, <2>3
    <3>2. DOMAIN LinesAt(draws, i) = 1..Len(LinesAt(draws, i))
      BY LinesAtFacts
    <3>3. PICK l \in 1..Len(LinesAt(draws, i)) : r = LinesAt(draws, i)[l]
      BY <3>1, <3>2 DEF Range
    <3> QED
      BY <3>3
  <2> QED
    BY <2>4
<1>3. \A r \in Range(g.payments) : \E i \in 1..Len(draws) : r = PaymentAt(draws, i)
  <2>1. DOMAIN g.payments = 1..Len(draws) /\ \A i \in 1..Len(draws) : g.payments[i] = PaymentAt(draws, i)
    BY GeneratedTables
  <2> QED
    BY <2>1 DEF Range
<1>4. \A r \in Range(g.returns) : \E i \in 1..Len(draws) : (i - 1) % 17 = 0 /\ r = ReturnAt(draws, i)
  <2>1. ASSUME NEW r \in Range(g.returns)
        PROVE  \E i \in 1..Len(draws) : (i - 1) % 17 = 0 /\ r = ReturnAt(draws, i)
    <3>1. ReturnMade(draws, r)
      BY GeneratedRows
    <3> QED
      BY <3>1 DEF ReturnMade
  <2> QED
    BY <2>1, Zenon
<1> QED
  BY <1>1, <1>2, <1>3, <1>4

\* The facts about a generated line that the rules ask for.
LEMMA GeneratedLine ==
  ASSUME NEW draws \in Draws, NEW g, g = Generated(draws), NEW i \in 1..Len(draws),
         NEW l \in 1..Len(LinesAt(draws, i)), NEW r, r = LinesAt(draws, i)[l]
  PROVE  /\ r \in Range(g.order_lines) /\ HasOrder(g, r.order_id)
         /\ r.quantity \in Int /\ r.quantity >= 1
         /\ r.unit_price_cents \in Int /\ r.unit_price_cents >= 1000
         /\ r.line_total_cents = r.quantity * r.unit_price_cents
         /\ Matches(g, r) = 1
<1>1. MaxQuantity \in Nat
  BY BatchAssumption
<1>2. \A k \in 1..Len(LinesAt(draws, i)) :
         /\ LinesAt(draws, i)[k].order_id = <<i - 1>>
         /\ LinesAt(draws, i)[k].quantity \in 1..MaxQuantity
         /\ LinesAt(draws, i)[k].unit_price_cents \in Nat
         /\ LinesAt(draws, i)[k].unit_price_cents >= 1000
         /\ LinesAt(draws, i)[k].line_total_cents =
               LinesAt(draws, i)[k].quantity * LinesAt(draws, i)[k].unit_price_cents
  BY LinesAtFacts, SMTT(30)
<1>3. /\ r.order_id = <<i - 1>>
      /\ r.quantity \in 1..MaxQuantity
      /\ r.unit_price_cents \in Nat /\ r.unit_price_cents >= 1000
      /\ r.line_total_cents = r.quantity * r.unit_price_cents
  BY <1>2
<1>4. r.quantity \in Int /\ r.quantity >= 1
  BY <1>1, <1>3
<1>5. HasOrder(g, r.order_id)
  BY <1>3, GeneratedOrders
<1>6. r \in Range(g.order_lines)
  <2>1. LineMade(draws, r)
    BY DEF LineMade
  <2> QED
    BY <2>1, GeneratedRows
<1>7. Matches(g, r) = 1
  BY GeneratedMatches
<1> QED
  BY <1>3, <1>4, <1>5, <1>6, <1>7

\* The facts about a generated order that the rules ask for.
LEMMA GeneratedOrder ==
  ASSUME NEW draws \in Draws, NEW g, g = Generated(draws), NEW i \in 1..Len(draws),
         NEW r, r = OrderAt(draws, i)
  PROVE  /\ r \in Range(g.orders) /\ r.order_id = <<i - 1>> /\ r.currency = "INR" /\ r.status = "COMPLETED"
         /\ r.subtotal_cents \in Int /\ r.tax_cents \in Int /\ r.discount_cents \in Int /\ r.total_cents \in Int
         /\ r.total_cents = r.subtotal_cents + r.tax_cents - r.discount_cents
         /\ Subtotal(g, r.order_id) = r.subtotal_cents
         /\ Captured(g, r.order_id) = r.total_cents
         /\ Refunded(g, DOMAIN g.returns, r.order_id) \in Int
         /\ Refunded(g, DOMAIN g.returns, r.order_id) >= 0
         /\ Refunded(g, DOMAIN g.returns, r.order_id) <= r.total_cents
<1>1. PICK sub : sub = Total(TotalsOf(LinesAt(draws, i)))
  OBVIOUS
<1>2. PICK first : first = LinesAt(draws, i)[1]
  OBVIOUS
<1>3. /\ r \in OrderType /\ sub \in Int
      /\ r.order_id = <<i - 1>> /\ r.currency = "INR" /\ r.status = "COMPLETED"
      /\ r.subtotal_cents = sub
      /\ r.total_cents = sub + r.tax_cents - r.discount_cents
      /\ first.line_total_cents <= sub /\ first.unit_price_cents <= first.line_total_cents
      /\ 1000 <= first.unit_price_cents /\ sub <= r.total_cents
  BY <1>1, <1>2, OrderAtFacts
<1>4. r.tax_cents \in Int /\ r.discount_cents \in Int /\ r.total_cents \in Int /\ r.subtotal_cents \in Int
  BY <1>3 DEF OrderType
<1>5. r \in Range(g.orders)
  BY GeneratedOrders
<1>6. Subtotal(g, r.order_id) = r.subtotal_cents
  BY <1>1, <1>3, GeneratedSubtotal
<1>7. Captured(g, r.order_id) = r.total_cents
  BY <1>3, GeneratedCaptured
<1>8. first.line_total_cents \in Int /\ first.unit_price_cents \in Int
  <2>1. LinesAt(draws, i) \in Seq(LineType) /\ Len(LinesAt(draws, i)) \in 1..MaxLines /\ MaxLines \in Nat
    BY LinesAtFacts, BatchAssumption
  <2>2. first \in LineType
    BY <1>2, <2>1
  <2> QED
    BY <2>2 DEF LineType
<1>9. PICK back : back = Refunded(g, DOMAIN g.returns, <<i - 1>>)
  OBVIOUS
<1>10. back = IF (i - 1) % 17 = 0 THEN first.unit_price_cents ELSE 0
  BY <1>2, <1>9, GeneratedReturned
<1>11. back \in Int /\ back >= 0 /\ back <= r.total_cents
  BY <1>3, <1>4, <1>8, <1>10, SMTT(30)
<1> QED
  BY <1>3, <1>4, <1>5, <1>6, <1>7, <1>9, <1>11

\* The facts about a generated return that the rules ask for.
LEMMA GeneratedReturn ==
  ASSUME NEW draws \in Draws, NEW g, g = Generated(draws), NEW i \in 1..Len(draws), (i - 1) % 17 = 0,
         NEW r, r = ReturnAt(draws, i)
  PROVE  /\ HasLine(g, LineKey(r)) /\ r.quantity = 1 /\ r.refund_cents \in Int /\ r.refund_cents >= 0
         /\ r.order_id = OrderAt(draws, i).order_id
         /\ ReturnedQuantity(g, DOMAIN g.returns, LineKey(r)) = 1
<1>1. PICK first : first = LinesAt(draws, i)[1]
  OBVIOUS
<1>2. /\ LineKey(r) = LineKey(first) /\ r.order_id = <<i - 1>> /\ r.quantity = 1
      /\ r.refund_cents = first.unit_price_cents
  BY <1>1, ReturnAtFacts
<1>3. 1 \in 1..Len(LinesAt(draws, i))
  BY LinesAtFacts, BatchAssumption
<1>4. first \in Range(g.order_lines) /\ first.unit_price_cents \in Int /\ first.unit_price_cents >= 1000
  BY <1>1, <1>3, GeneratedLine
<1>5. HasLine(g, LineKey(r))
  BY <1>2, <1>4 DEF HasLine
<1>6. OrderAt(draws, i).order_id = <<i - 1>>
  BY GeneratedOrder
<1>7. ReturnedQuantity(g, DOMAIN g.returns, LineKey(first)) = 1
  BY <1>1, GeneratedReturned
<1> QED
  BY <1>2, <1>4, <1>5, <1>6, <1>7

\* No check of the job finds anything in a generated batch.
THEOREM GeneratedPasses ==
  ASSUME MaxLines <= Products, MaxQuantity <= 4, NEW draws \in Draws, NEW g, g = Generated(draws)
  PROVE  \A c \in Codes : ~SparkFinds(g)[c]
<1>1. g \in CleanBatch /\ Distinct(g)
  BY GeneratedClean, GeneratedDistinct
<1>2. ~SparkFinds(g)["DUPLICATE_ID"]
  BY <1>1, DuplicateIs
<1>3. ASSUME NEW r \in Range(g.order_lines)
      PROVE  /\ HasOrder(g, r.order_id) /\ ~SparkInvalidLine(r) /\ ~SparkLineTotal(r) /\ Matches(g, r) = 1
             /\ r.quantity \in Int /\ r.quantity >= 1
  <2>0. PICK i \in 1..Len(draws) : \E l \in 1..Len(LinesAt(draws, i)) : r = LinesAt(draws, i)[l]
    BY GeneratedSources
  <2>1. PICK l \in 1..Len(LinesAt(draws, i)) : r = LinesAt(draws, i)[l]
    BY <2>0
  <2>2. /\ HasOrder(g, r.order_id)
        /\ r.quantity \in Int /\ r.quantity >= 1
        /\ r.unit_price_cents \in Int /\ r.unit_price_cents >= 1000
        /\ r.line_total_cents = r.quantity * r.unit_price_cents
        /\ Matches(g, r) = 1
    BY <2>1, GeneratedLine
  <2>3. ~InvalidLine(r)
    BY <2>2 DEF InvalidLine
  <2>4. ~SparkInvalidLine(r) /\ ~SparkLineTotal(r)
    BY <1>1, <2>2, <2>3, CleanSelects
  <2> QED
    BY <2>2, <2>4
<1>4. ASSUME NEW r \in Range(g.orders)
      PROVE  ~Unsupported(r) /\ ~SparkOrderTotal(r) /\ ~SparkSubtotal(g, r) /\ ~SparkUnderpaid(g, r)
  <2>1. PICK i \in 1..Len(draws) : r = OrderAt(draws, i)
    BY GeneratedSources
  <2>2. /\ r.currency = "INR"
        /\ r.subtotal_cents \in Int /\ r.tax_cents \in Int /\ r.discount_cents \in Int /\ r.total_cents \in Int
        /\ r.total_cents = r.subtotal_cents + r.tax_cents - r.discount_cents
        /\ Subtotal(g, r.order_id) = r.subtotal_cents
        /\ Captured(g, r.order_id) = r.total_cents
    <3>1. r.currency = "INR"
      BY <2>1, GeneratedOrder
    <3>2. /\ r.subtotal_cents \in Int /\ r.tax_cents \in Int
          /\ r.discount_cents \in Int /\ r.total_cents \in Int
      BY <2>1, GeneratedOrder
    <3>3. r.total_cents = r.subtotal_cents + r.tax_cents - r.discount_cents
      BY <2>1, GeneratedOrder
    <3>4. Subtotal(g, r.order_id) = r.subtotal_cents
      BY <2>1, GeneratedOrder
    <3>5. Captured(g, r.order_id) = r.total_cents
      BY <2>1, GeneratedOrder
    <3> QED
      BY <3>1, <3>2, <3>3, <3>4, <3>5
  <2>3. ~Unsupported(r) /\ ~Underpaid(g, r)
    BY <2>2 DEF Unsupported, Underpaid
  <2> QED
    BY <1>1, <2>2, <2>3, CleanSelects
<1>5. ASSUME NEW r \in Range(g.payments)
      PROVE  HasOrder(g, r.order_id)
  <2>1. PICK i \in 1..Len(draws) : r = PaymentAt(draws, i)
    BY GeneratedSources
  <2>2. r.order_id = <<i - 1>>
    BY <2>1, PaymentAtFacts
  <2> QED
    BY <2>2, GeneratedOrders
<1>6. ASSUME NEW r \in Range(g.returns)
      PROVE  /\ HasLine(g, LineKey(r)) /\ ~SparkInvalidReturn(r) /\ ~SparkReturnQuantity(g, r)
             /\ ~(Refunded(g, DOMAIN g.returns, r.order_id) > Captured(g, r.order_id))
  <2>1. PICK i \in 1..Len(draws) : (i - 1) % 17 = 0 /\ r = ReturnAt(draws, i)
    BY GeneratedSources
  <2>2. /\ HasLine(g, LineKey(r)) /\ r.quantity = 1 /\ r.refund_cents \in Int /\ r.refund_cents >= 0
        /\ r.order_id = OrderAt(draws, i).order_id
        /\ ReturnedQuantity(g, DOMAIN g.returns, LineKey(r)) = 1
    BY <2>1, GeneratedReturn
  <2>3. PICK o : o = OrderAt(draws, i)
    OBVIOUS
  <2>4. /\ o.total_cents \in Int /\ Captured(g, o.order_id) = o.total_cents
        /\ Refunded(g, DOMAIN g.returns, o.order_id) \in Int
        /\ Refunded(g, DOMAIN g.returns, o.order_id) <= o.total_cents
    BY <2>3, GeneratedOrder
  <2>5. ~(Refunded(g, DOMAIN g.returns, r.order_id) > Captured(g, r.order_id))
    BY <2>2, <2>3, <2>4
  <2>6. ~InvalidReturn(r)
    BY <2>2 DEF InvalidReturn
  <2>7. ~SparkInvalidReturn(r)
    BY <1>1, <2>6, CleanSelects
  <2>8. ~SparkReturnQuantity(g, r)
    <3>1. \A l \in Range(g.order_lines) : l.quantity \in Int /\ l.quantity >= 1 /\ l.quantity # Null
      BY <1>3, BatchAssumption
    <3> QED
      BY <2>2, <3>1 DEF SparkReturnQuantity
  <2> QED
    BY <2>2, <2>5, <2>7, <2>8
<1>7. ASSUME NEW j \in DOMAIN g.inventory_movements
      PROVE  ~(Stock(g, j) < 0)
  <2>1. PICK q : q = g.inventory_movements
    OBVIOUS
  <2>2. q \in Seq(MovementType) /\ j \in 1..Len(q) /\ q[j] \in Range(q)
    BY <1>1, <2>1, CleanRows, RangeOf
  <2>3. PICK h : h = StockOf(q[j])
    OBVIOUS
  <2>4. Stock(g, j) = Total(Valued(q, h))
    BY <1>1, <2>1, <2>2, <2>3, StockOfRow
  <2>5. Total(Valued(q, h)) \in Int /\ Total(Valued(q, h)) >= 0
    BY <2>1, <2>2, <2>3, GeneratedStock
  <2> QED
    BY <2>4, <2>5
<1>8. ~SparkFinds(g)["ORPHAN_LINE"] /\ ~SparkFinds(g)["INVALID_LINE"] /\ ~SparkFinds(g)["LINE_TOTAL"]
  BY <1>3, SparkRules
<1>9. ~SparkFinds(g)["CURRENCY"] /\ ~SparkFinds(g)["ORDER_TOTAL"] /\ ~SparkFinds(g)["ORDER_SUBTOTAL"]
        /\ ~SparkFinds(g)["UNDERPAID"]
  BY <1>4, SparkRules
<1>10. ~SparkFinds(g)["ORPHAN_PAYMENT"]
  BY <1>5, SparkRules
<1>11. ~SparkFinds(g)["ORPHAN_RETURN"] /\ ~SparkFinds(g)["INVALID_RETURN"] /\ ~SparkFinds(g)["EXCESS_REFUND"]
         /\ ~SparkFinds(g)["RETURN_QUANTITY"]
  BY <1>6, SparkRules
<1>12. ~SparkFinds(g)["NEGATIVE_INVENTORY"]
  BY <1>7, SparkRules
<1>13. ~SparkFinds(g)["MISSING_DIMENSION"] /\ ~SparkFinds(g)["AMBIGUOUS_DIMENSION"]
  <2>1. \A r \in Range(g.order_lines) : ~(HasOrder(g, r.order_id) /\ Matches(g, r) = 0)
                                          /\ ~(HasOrder(g, r.order_id) /\ Matches(g, r) > 1)
    BY <1>3
  <2>2. ~SparkFinds(g)["MISSING_DIMENSION"]
    BY <2>1, SparkRules, Zenon
  <2>3. ~SparkFinds(g)["AMBIGUOUS_DIMENSION"]
    BY <2>1, SparkRules, Zenon
  <2> QED
    BY <2>2, <2>3
<1> QED
  BY <1>2, <1>8, <1>9, <1>10, <1>11, <1>12, <1>13 DEF Codes

-----------------------------------------------------------------------------
(* Every fault is found under its code *)

LEMMA AppendFacts ==
  ASSUME NEW X, NEW q \in Seq(X), NEW x \in X, NEW s, s = Append(q, x)
  PROVE  /\ s \in Seq(X) /\ Len(s) = Len(q) + 1 /\ Len(q) \in Nat
         /\ DOMAIN s = 1..(Len(q) + 1) /\ DOMAIN q = 1..Len(q)
         /\ s[Len(q) + 1] = x
         /\ \A i \in 1..Len(q) : s[i] = q[i]
  OBVIOUS

LEMMA AppendRange ==
  ASSUME NEW X, NEW q \in Seq(X), NEW x \in X
  PROVE  Range(Append(q, x)) = Range(q) \cup {x}
<1>1. PICK s : s = Append(q, x)
  OBVIOUS
<1>2. /\ Len(q) \in Nat /\ DOMAIN s = 1..(Len(q) + 1) /\ DOMAIN q = 1..Len(q)
      /\ s[Len(q) + 1] = x
      /\ \A i \in 1..Len(q) : s[i] = q[i]
  BY <1>1, AppendFacts
<1>3. \A i \in 1..(Len(q) + 1) : i \in 1..Len(q) \/ i = Len(q) + 1
  BY <1>2
<1>4. \A i \in 1..Len(q) : i \in 1..(Len(q) + 1)
  BY <1>2
<1>5. Len(q) + 1 \in 1..(Len(q) + 1)
  BY <1>2
<1>6. \A y : y \in Range(s) => y \in Range(q) \/ y = x
  BY <1>2, <1>3 DEF Range
<1>7. \A y : y \in Range(q) => y \in Range(s)
  BY <1>2, <1>4 DEF Range
<1>8. x \in Range(s)
  BY <1>2, <1>5 DEF Range
<1> QED
  BY <1>1, <1>6, <1>7, <1>8

\* A row after the others adds its part to a sum.
LEMMA AppendTotal ==
  ASSUME NEW X, NEW q \in Seq(X), NEW x \in X, NEW h \in [X -> Int]
  PROVE  /\ Total(Valued(Append(q, x), h)) = Total(Valued(q, h)) + h[x]
         /\ Total(Valued(q, h)) \in Int /\ h[x] \in Int
<1>1. PICK u : u = <<x>>
  OBVIOUS
<1>2. u \in Seq(X) /\ Len(u) = 1 /\ u[1] = x /\ Append(q, x) = q \o u
  BY <1>1
<1>3. PICK v : v = Valued(u, h)
  OBVIOUS
<1>4. v \in Seq(Int) /\ Len(v) = 1 /\ v[1] = h[x]
  BY <1>2, <1>3, ValuedType
<1>5. Total(v) = h[x]
  <2>1. 1 \in 1..Len(v) /\ \A i \in 1..Len(v) : i # 1 => v[i] = 0
    BY <1>4
  <2> QED
    BY <1>4, <2>1, TotalOne
<1>6. PICK w : w = Valued(q, h)
  OBVIOUS
<1>7. w \in Seq(Int) /\ Total(w) \in Int
  BY <1>6, ValuedType, TotalType
<1>8. Valued(Append(q, x), h) = w \o v
  BY <1>2, <1>3, <1>6, ValuedConcats
<1>9. Total(w \o v) = Total(w) + Total(v)
  BY <1>4, <1>7, TotalConcat
<1> QED
  BY <1>5, <1>6, <1>7, <1>8, <1>9

LEMMA FirstReplaced ==
  ASSUME NEW X, NEW q \in Seq(X), q # << >>, NEW x \in X, NEW s, s = <<x>> \o Tail(q)
  PROVE  /\ s \in Seq(X) /\ DOMAIN s = DOMAIN q /\ DOMAIN q = 1..Len(q) /\ 1 \in DOMAIN q
         /\ s[1] = x
         /\ \A i \in DOMAIN q : i # 1 => s[i] = q[i]
  OBVIOUS

\* The job's failure of a batch that edits kept clean is one of the kernel's codes.
LEMMA FailureFound ==
  ASSUME NEW b \in CleanBatch, NEW code, code # "none", SparkFailure(b) = code
  PROVE  code \in LocalCodes(b)
  BY CleanBatchesAgree, CleanNumeric

\* The rows the faults start from.
LEMMA FaultOrder ==
  ASSUME NEW draws \in Draws, NEW g, g = Generated(draws)
  PROVE  /\ g.orders[1] = OrderAt(draws, 1) /\ g.orders[1] \in OrderType
         /\ g.orders[1].order_id = <<0>> /\ g.orders[1].order_ts = Start
<1>1. PICK r : r = g.orders[1]
  OBVIOUS
<1>2. 1 \in 1..Len(draws) /\ r = OrderRow(0, LinesAt(draws, 1))
  BY <1>1, GeneratedFirst
<1>3. r = OrderAt(draws, 1)
  <2>1. 1 - 1 = 0
    OBVIOUS
  <2> QED
    BY <1>2, <2>1 DEF OrderAt
<1>4. r \in OrderType /\ r.order_id = <<1 - 1>> /\ r.order_ts = Start + (1 - 1) * 10
  BY <1>2, <1>3, OrderAtFacts
<1>5. Start + (1 - 1) * 10 = Start /\ <<1 - 1>> = <<0>>
  BY DEF Start
<1> QED
  BY <1>1, <1>3, <1>4, <1>5

LEMMA FaultLine ==
  ASSUME NEW draws \in Draws, NEW g, g = Generated(draws), NEW l, l = g.order_lines[1]
  PROVE  /\ l \in LineType /\ l.product_id = <<0>> /\ l.order_id = <<0>> /\ l.line_id = <<1>>
         /\ l \in Range(g.order_lines) /\ HasOrder(g, <<0>>) /\ OrderNamed(g, <<0>>) = g.orders[1]
         /\ Matches(g, l) = 1
<1>1. 1 \in 1..Len(draws) /\ l = LinesAt(draws, 1)[1]
  BY GeneratedFirst
<1>2. 1 - 1 = 0 /\ (1 - 1) * 3 + 1 - 1 = 0
  OBVIOUS
<1>3. 1 \in 1..Len(LinesAt(draws, 1))
  <2>1. Len(LinesAt(draws, 1)) \in 1..MaxLines /\ MaxLines \in Nat
    BY <1>1, LinesAtFacts, BatchAssumption
  <2> QED
    BY <2>1
<1>4. l \in LineType /\ l.product_id = <<0>> /\ l.order_id = <<0>> /\ l.line_id = <<1>>
  <2>1. /\ l.product_id = <<((1 - 1) * 3 + 1 - 1) % Products>> /\ l.order_id = <<1 - 1>> /\ l.line_id = <<1>>
    BY <1>1, <1>3, LinesAtFacts
  <2>2. 0 % Products = 0
    BY BatchAssumption
  <2>3. l \in LineType
    BY <1>1, <1>3, LinePlace
  <2> QED
    BY <1>2, <2>1, <2>2, <2>3
<1>5. l \in Range(g.order_lines) /\ Matches(g, l) = 1
  BY <1>1, <1>3, GeneratedLine
<1>6. HasOrder(g, <<0>>) /\ OrderNamed(g, <<0>>) = g.orders[1]
  BY <1>1, <1>2, GeneratedOrders, FaultOrder
<1> QED
  BY <1>4, <1>5, <1>6

LEMMA BrokenTotalFound ==
  ASSUME MaxLines <= Products, MaxQuantity <= 4, NEW draws \in Draws, NEW g, g = Generated(draws),
         NEW d, d = with_broken_total(g)
  PROVE  SparkFailure(d) = "ORDER_TOTAL"
<1>1. PICK r : r = g.orders[1]
  OBVIOUS
<1>2. /\ g \in CleanBatch /\ Distinct(g) /\ g.orders # << >>
      /\ r \in OrderType /\ r = OrderAt(draws, 1) /\ 1 \in 1..Len(draws)
  BY <1>1, FaultOrder, GeneratedFirst, GeneratedDistinct
<1>3. PICK x : x = [r EXCEPT !.total_cents = @ + 1]
  OBVIOUS
<1>4. /\ x \in OrderType /\ x.order_id = r.order_id /\ x.currency = r.currency
      /\ x.subtotal_cents = r.subtotal_cents /\ x.tax_cents = r.tax_cents /\ x.discount_cents = r.discount_cents
      /\ x.total_cents = r.total_cents + 1
  BY <1>2, <1>3 DEF OrderType
<1>5. PICK q : q = g.orders
  OBVIOUS
<1>6. PICK s : s = <<x>> \o Tail(q)
  OBVIOUS
<1>7. q \in Seq(OrderType) /\ q # << >> /\ q[1] = r
  BY <1>1, <1>2, <1>5, CleanRows
<1>8. /\ s \in Seq(OrderType) /\ DOMAIN s = DOMAIN q /\ 1 \in DOMAIN q /\ s[1] = x
      /\ \A i \in DOMAIN q : i # 1 => s[i] = q[i]
  BY <1>4, <1>6, <1>7, FirstReplaced
<1>9. d = [g EXCEPT !.orders = s]
  <2>1. d = WithFirst(g, "orders", [g.orders[1] EXCEPT !.total_cents = g.orders[1].total_cents + 1])
    BY DEF with_broken_total
  <2>2. x = [g.orders[1] EXCEPT !.total_cents = g.orders[1].total_cents + 1]
    BY <1>1, <1>3
  <2>3. d = WithFirst(g, "orders", x)
    BY <2>1, <2>2
  <2> QED
    BY <1>2, <1>5, <1>6, <2>3 DEF WithFirst, CleanBatch
<1>10. /\ d \in CleanBatch /\ d.orders = s
       /\ d.order_lines = g.order_lines /\ d.payments = g.payments /\ d.returns = g.returns
       /\ d.inventory_movements = g.inventory_movements /\ d.products = g.products
  <2>1. d.orders = s
    BY <1>2, <1>9 DEF CleanBatch
  <2> QED
    BY <1>2, <1>8, <1>9, <2>1 DEF CleanBatch
<1>11. \A i \in DOMAIN q : s[i].order_id = q[i].order_id /\ s[i].currency = q[i].currency
  BY <1>4, <1>7, <1>8
<1>12. Distinct(d)
  <2>1. \A i, j \in DOMAIN d.orders : d.orders[i].order_id = d.orders[j].order_id => i = j
    BY <1>2, <1>5, <1>8, <1>10, <1>11 DEF Distinct
  <2> QED
    BY <1>2, <1>10, <2>1 DEF Distinct
<1>13. \A o : HasOrder(g, o) => HasOrder(d, o)
  <2> SUFFICES ASSUME NEW o, HasOrder(g, o)
               PROVE  HasOrder(d, o)
    OBVIOUS
  <2>1. PICK i \in DOMAIN q : q[i].order_id = o
    BY <1>5 DEF HasOrder, Range
  <2>2. s[i].order_id = o /\ s[i] \in Range(s)
    BY <1>8, <1>11, <2>1 DEF Range
  <2> QED
    BY <1>10, <2>2 DEF HasOrder
<1>14. \A c \in Codes : ~SparkFinds(g)[c]
  BY GeneratedPasses
<1>15. ~SparkFinds(d)["DUPLICATE_ID"]
  BY <1>10, <1>12, DuplicateIs
<1>16. ~SparkFinds(d)["ORPHAN_LINE"]
  <2>1. ~SparkFinds(g)["ORPHAN_LINE"]
    BY <1>14 DEF Codes
  <2>2. \A y \in Range(g.order_lines) : HasOrder(g, y.order_id)
    BY <2>1, SparkRules
  <2> QED
    BY <1>10, <1>13, <2>2, SparkRules
<1>17. ~SparkFinds(d)["ORPHAN_PAYMENT"]
  <2>1. ~SparkFinds(g)["ORPHAN_PAYMENT"]
    BY <1>14 DEF Codes
  <2>2. \A y \in Range(g.payments) : HasOrder(g, y.order_id)
    BY <2>1, SparkRules
  <2> QED
    BY <1>10, <1>13, <2>2, SparkRules
<1>18. ~SparkFinds(d)["INVALID_LINE"] /\ ~SparkFinds(d)["LINE_TOTAL"]
  <2>1. ~SparkFinds(g)["INVALID_LINE"] /\ ~SparkFinds(g)["LINE_TOTAL"]
    BY <1>14 DEF Codes
  <2> QED
    BY <1>10, <2>1, SharedTables
<1>19. ~SparkFinds(d)["CURRENCY"]
  <2>1. ~SparkFinds(g)["CURRENCY"]
    BY <1>14 DEF Codes
  <2>2. \A y \in Range(q) : ~Unsupported(y)
    BY <1>5, <2>1, SparkRules
  <2>3. \A i \in DOMAIN q : ~Unsupported(s[i])
    <3>1. \A i \in DOMAIN q : ~Unsupported(q[i])
      BY <2>2 DEF Range
    <3> QED
      BY <1>11, <3>1 DEF Unsupported
  <2>4. \A y \in Range(s) : ~Unsupported(y)
    BY <1>8, <2>3 DEF Range
  <2> QED
    BY <1>10, <2>4, SparkRules
<1>20. SparkFinds(d)["ORDER_TOTAL"]
  <2>1. /\ r.subtotal_cents \in Int /\ r.tax_cents \in Int /\ r.discount_cents \in Int /\ r.total_cents \in Int
        /\ r.total_cents = r.subtotal_cents + r.tax_cents - r.discount_cents
    BY <1>2, GeneratedOrder, SMTT(30)
  <2>2. x.subtotal_cents + x.tax_cents - x.discount_cents # x.total_cents
    BY <1>4, <2>1
  <2>3. x \in Range(d.orders)
    BY <1>8, <1>10 DEF Range
  <2>4. SparkOrderTotal(x)
    BY <1>10, <2>2, <2>3, CleanSelects
  <2> QED
    BY <2>3, <2>4, SparkRules
<1>21. \A i \in 1..16 : i < 7 => ~SparkFinds(d)[SparkOrder[i]]
  <2>1. \A i \in 1..16 : i < 7 => SparkOrder[i] \in {"DUPLICATE_ID", "ORPHAN_LINE", "ORPHAN_PAYMENT",
                                                     "INVALID_LINE", "LINE_TOTAL", "CURRENCY"}
    BY DEF SparkOrder
  <2> QED
    BY <1>15, <1>16, <1>17, <1>18, <1>19, <2>1
<1>22. SparkOrder[7] = "ORDER_TOTAL" /\ 7 \in 1..16
  BY DEF SparkOrder
<1> QED
  BY <1>20, <1>21, <1>22, FailureIs

\* What the checks that read neither returns nor products nor movements find is the same.
LEMMA SharedUntilReturns ==
  ASSUME NEW g, NEW d, \A c \in Codes : ~SparkFinds(g)[c],
         d.orders = g.orders, d.order_lines = g.order_lines, d.payments = g.payments,
         ~SparkFinds(d)["DUPLICATE_ID"]
  PROVE  \A i \in 1..9 : ~SparkFinds(d)[SparkOrder[i]]
<1>1. /\ ~SparkFinds(g)["ORPHAN_LINE"] /\ ~SparkFinds(g)["ORPHAN_PAYMENT"] /\ ~SparkFinds(g)["INVALID_LINE"]
      /\ ~SparkFinds(g)["LINE_TOTAL"] /\ ~SparkFinds(g)["CURRENCY"] /\ ~SparkFinds(g)["ORDER_TOTAL"]
      /\ ~SparkFinds(g)["ORDER_SUBTOTAL"] /\ ~SparkFinds(g)["UNDERPAID"]
  BY DEF Codes
<1>2. ~SparkFinds(d)["INVALID_LINE"] /\ ~SparkFinds(d)["LINE_TOTAL"]
  BY <1>1, SharedTables
<1>3. ~SparkFinds(d)["CURRENCY"] /\ ~SparkFinds(d)["ORDER_TOTAL"]
  BY <1>1, SharedTables
<1>4. ~SparkFinds(d)["ORPHAN_LINE"] /\ ~SparkFinds(d)["ORDER_SUBTOTAL"]
  BY <1>1, SharedTables
<1>5. ~SparkFinds(d)["ORPHAN_PAYMENT"] /\ ~SparkFinds(d)["UNDERPAID"]
  BY <1>1, SharedTables
<1>6. \A i \in 1..9 : SparkOrder[i] \in {"DUPLICATE_ID", "ORPHAN_LINE", "ORPHAN_PAYMENT", "INVALID_LINE",
                                         "LINE_TOTAL", "CURRENCY", "ORDER_TOTAL", "ORDER_SUBTOTAL", "UNDERPAID"}
  BY DEF SparkOrder
<1> QED
  BY <1>2, <1>3, <1>4, <1>5, <1>6

\* With the same returns as well, only the checks of movements and products can differ.
LEMMA SharedUntilMovements ==
  ASSUME NEW g, NEW d, \A c \in Codes : ~SparkFinds(g)[c],
         d.orders = g.orders, d.order_lines = g.order_lines, d.payments = g.payments, d.returns = g.returns,
         ~SparkFinds(d)["DUPLICATE_ID"]
  PROVE  \A i \in 1..13 : ~SparkFinds(d)[SparkOrder[i]]
<1>1. /\ ~SparkFinds(g)["ORPHAN_RETURN"] /\ ~SparkFinds(g)["INVALID_RETURN"]
      /\ ~SparkFinds(g)["EXCESS_REFUND"] /\ ~SparkFinds(g)["RETURN_QUANTITY"]
  BY DEF Codes
<1>2. ~SparkFinds(d)["ORPHAN_RETURN"] /\ ~SparkFinds(d)["INVALID_RETURN"] /\ ~SparkFinds(d)["RETURN_QUANTITY"]
  BY <1>1, SharedTables
<1>3. ~SparkFinds(d)["EXCESS_REFUND"]
  BY <1>1, SharedTables
<1>4. \A i \in 1..9 : ~SparkFinds(d)[SparkOrder[i]]
  BY SharedUntilReturns
<1>5. \A i \in 10..13 : SparkOrder[i] \in {"ORPHAN_RETURN", "INVALID_RETURN", "EXCESS_REFUND", "RETURN_QUANTITY"}
  BY DEF SparkOrder
<1>6. \A i \in 10..13 : ~SparkFinds(d)[SparkOrder[i]]
  BY <1>2, <1>3, <1>5
<1>7. \A i \in 1..13 : i \in 1..9 \/ i \in 10..13
  OBVIOUS
<1> QED
  BY <1>4, <1>6, <1>7

LEMMA ExcessRefundFound ==
  ASSUME MaxLines <= Products, MaxQuantity <= 4, NEW draws \in Draws, NEW g, g = Generated(draws),
         NEW d, d = with_excess_refund(g)
  PROVE  SparkFailure(d) = "EXCESS_REFUND"
<1>1. PICK r : r = g.orders[1]
  OBVIOUS
<1>2. PICK l : l = g.order_lines[1]
  OBVIOUS
<1>3. /\ g \in CleanBatch /\ Distinct(g) /\ 1 \in 1..Len(draws)
      /\ r = OrderAt(draws, 1) /\ r \in OrderType /\ r.order_id = <<0>>
      /\ l \in LineType /\ l.order_id = <<0>> /\ l.line_id = <<1>> /\ l \in Range(g.order_lines)
  <2>0. g \in CleanBatch /\ Distinct(g) /\ 1 \in 1..Len(draws)
    BY GeneratedFirst, GeneratedDistinct
  <2>1. r = OrderAt(draws, 1) /\ r \in OrderType /\ r.order_id = <<0>>
    BY <1>1, FaultOrder
  <2>2. l \in LineType /\ l.order_id = <<0>> /\ l.line_id = <<1>> /\ l \in Range(g.order_lines)
    BY <1>2, FaultLine
  <2> QED
    BY <2>0, <2>1, <2>2
<1>4. PICK x : x = [return_id |-> 0, order_id |-> r.order_id, line_id |-> l.line_id, quantity |-> 1,
                    refund_cents |-> r.total_cents + 1]
  OBVIOUS
<1>5. /\ x \in ReturnType /\ x.return_id = 0 /\ x.order_id = <<0>> /\ LineKey(x) = LineKey(l)
      /\ x.quantity = 1 /\ x.refund_cents = r.total_cents + 1
  <2>1. r.total_cents + 1 \in Int /\ r.order_id \in Ids /\ l.line_id \in Ids
    <3>1. r \in OrderType /\ l \in LineType
      BY <1>3
    <3>2. r.total_cents \in Int /\ r.order_id \in Ids
      BY <3>1 DEF OrderType
    <3>3. l.line_id \in Ids
      BY <3>1 DEF LineType
    <3> QED
      BY <3>2, <3>3
  <2>2. /\ x.return_id = 0 /\ x.order_id = <<0>> /\ x.line_id = <<1>> /\ x.quantity = 1
        /\ x.refund_cents = r.total_cents + 1
    BY <1>3, <1>4
  <2>3. x \in ReturnType
    BY <1>4, <2>1 DEF ReturnType
  <2>4. LineKey(x) = LineKey(l)
    BY <1>3, <2>2 DEF LineKey
  <2> QED
    BY <2>2, <2>3, <2>4
<1>6. PICK q : q = g.returns
  OBVIOUS
<1>7. PICK s : s = Append(q, x)
  OBVIOUS
<1>8. d = [g EXCEPT !.returns = s]
  BY <1>1, <1>2, <1>4, <1>6, <1>7 DEF with_excess_refund
<1>9. q \in Seq(ReturnType)
  BY <1>3, <1>6, CleanRows
<1>10. /\ s \in Seq(ReturnType) /\ DOMAIN s = 1..(Len(q) + 1) /\ DOMAIN q = 1..Len(q) /\ Len(q) \in Nat
       /\ s[Len(q) + 1] = x
       /\ \A i \in 1..Len(q) : s[i] = q[i]
       /\ \A y : y \in Range(s) <=> (y \in Range(q) \/ y = x)
  <2>1. x \in ReturnType
    BY <1>5
  <2>2. /\ s \in Seq(ReturnType) /\ Len(s) = Len(q) + 1 /\ Len(q) \in Nat
        /\ DOMAIN s = 1..(Len(q) + 1) /\ DOMAIN q = 1..Len(q)
        /\ s[Len(q) + 1] = x
        /\ \A i \in 1..Len(q) : s[i] = q[i]
    BY <1>7, <1>9, <2>1, AppendFacts
  <2>3. Range(s) = Range(q) \cup {x}
    BY <1>7, <1>9, <2>1, AppendRange
  <2> QED
    BY <2>2, <2>3
<1>11. /\ d \in CleanBatch /\ d.returns = s
       /\ d.orders = g.orders /\ d.order_lines = g.order_lines /\ d.payments = g.payments
       /\ d.inventory_movements = g.inventory_movements /\ d.products = g.products
  <2>1. /\ d.returns = s
        /\ d.orders = g.orders /\ d.order_lines = g.order_lines /\ d.payments = g.payments
        /\ d.inventory_movements = g.inventory_movements /\ d.products = g.products
    BY <1>3, <1>8 DEF CleanBatch
  <2>2. d \in CleanBatch
    <3>1. x \in RowType["returns"] /\ "returns" \in Tables
      BY <1>5 DEF Tables, RowType
    <3>2. [g EXCEPT !["returns"] = Append(@, x)] \in CleanBatch
      BY <1>3, <3>1, CleanAppend
    <3> QED
      BY <1>6, <1>7, <1>8, <3>2
  <2> QED
    BY <2>1, <2>2
<1>12. \A c \in Codes : ~SparkFinds(g)[c]
  BY GeneratedPasses
<1>13. Distinct(d)
  <2>1. \A i \in 1..Len(q) : q[i].return_id # 0
    <3>1. ASSUME NEW i \in 1..Len(q)
          PROVE  q[i].return_id # 0
      <4>1. q[i] \in Range(q)
        BY <1>9, RangeOf
      <4>2. PICK k \in 1..Len(draws) : q[i] = ReturnAt(draws, k)
        BY <1>6, <4>1, GeneratedSources, ZenonT(60)
      <4>3. q[i].return_id = k /\ k # 0
        BY <4>2, ReturnAtFacts
      <4> QED
        BY <4>3
    <3> QED
      BY <3>1
  <2>2. \A i, j \in 1..Len(q) : q[i].return_id = q[j].return_id => i = j
    BY <1>3, <1>6, <1>10, SMTT(30) DEF Distinct
  <2>3. ASSUME NEW i \in DOMAIN s, NEW j \in DOMAIN s, s[i].return_id = s[j].return_id
        PROVE  i = j
    BY <1>5, <1>10, <2>1, <2>2, <2>3
  <2>4. \A i, j \in DOMAIN d.returns : d.returns[i].return_id = d.returns[j].return_id => i = j
    BY <1>11, <2>3
  <2> QED
    BY <1>3, <1>11, <2>4 DEF Distinct
<1>14. ~SparkFinds(d)["DUPLICATE_ID"]
  BY <1>11, <1>13, DuplicateIs
<1>15. \A i \in 1..9 : ~SparkFinds(d)[SparkOrder[i]]
  BY <1>11, <1>12, <1>14, SharedUntilReturns
<1>16. PICK total : total = r.total_cents
  OBVIOUS
<1>17. /\ total \in Int /\ total >= 0 /\ Captured(g, <<0>>) = total
       /\ Refunded(g, DOMAIN g.returns, <<0>>) \in Int /\ Refunded(g, DOMAIN g.returns, <<0>>) >= 0
  <2>1. /\ r.total_cents \in Int /\ Captured(g, r.order_id) = r.total_cents
        /\ Refunded(g, DOMAIN g.returns, r.order_id) \in Int
        /\ Refunded(g, DOMAIN g.returns, r.order_id) >= 0
        /\ Refunded(g, DOMAIN g.returns, r.order_id) <= r.total_cents
    BY <1>3, GeneratedOrder
  <2> QED
    BY <1>3, <1>16, <2>1
<1>18. ~SparkFinds(d)["ORPHAN_RETURN"]
  <2>1. ~SparkFinds(g)["ORPHAN_RETURN"]
    BY <1>12 DEF Codes
  <2>2. \A y \in Range(q) : HasLine(g, LineKey(y))
    BY <1>6, <2>1, SparkRules
  <2>3. HasLine(g, LineKey(x))
    BY <1>3, <1>5 DEF HasLine
  <2>4. \A key : HasLine(d, key) <=> HasLine(g, key)
    BY <1>11 DEF HasLine
  <2>5. \A y \in Range(d.returns) : HasLine(d, LineKey(y))
    BY <1>10, <1>11, <2>2, <2>3, <2>4
  <2> QED
    BY <2>5, SparkRules
<1>19. ~SparkFinds(d)["INVALID_RETURN"]
  <2>1. ~SparkFinds(g)["INVALID_RETURN"]
    BY <1>12 DEF Codes
  <2>2. \A y \in Range(q) : ~SparkInvalidReturn(y)
    BY <1>6, <2>1, SparkRules
  <2>3. ~InvalidReturn(x)
    BY <1>5, <1>16, <1>17 DEF InvalidReturn
  <2>4. x \in Range(d.returns)
    BY <1>10, <1>11
  <2>5. ~SparkInvalidReturn(x)
    BY <1>11, <2>3, <2>4, CleanSelects
  <2>6. \A y \in Range(d.returns) : ~SparkInvalidReturn(y)
    BY <1>10, <1>11, <2>2, <2>5
  <2> QED
    BY <2>6, SparkRules
<1>20. SparkFinds(d)["EXCESS_REFUND"]
  <2>1. PICK h : h = RefundPart(<<0>>)
    OBVIOUS
  <2>2. h \in [ReturnType -> Int]
    BY <2>1, PartsTyped
  <2>3. h[x] = total + 1
    <3>1. h[x] = Addend(x.order_id = <<0>>, x.refund_cents)
      BY <1>5, <2>1 DEF RefundPart
    <3>2. x.refund_cents \in Int /\ x.refund_cents # Null
      BY <1>5, <1>16, <1>17, BatchAssumption
    <3>3. Addend(x.order_id = <<0>>, x.refund_cents) = x.refund_cents
      BY <1>5, <3>2 DEF Addend
    <3> QED
      BY <1>5, <1>16, <3>1, <3>3
  <2>4. Total(Valued(s, h)) = Total(Valued(q, h)) + h[x]
    BY <1>5, <1>7, <1>9, <2>2, AppendTotal
  <2>5. Refunded(g, DOMAIN g.returns, <<0>>) = Total(Valued(q, h))
    BY <1>3, <1>6, <2>1, PartsAre
  <2>6. Refunded(d, DOMAIN d.returns, <<0>>) = Total(Valued(s, h))
    BY <1>11, <2>1, PartsAre
  <2>7. Captured(d, <<0>>) = Captured(g, <<0>>)
    BY <1>11, Zenon DEF Captured
  <2>8. Refunded(d, DOMAIN d.returns, <<0>>) > Captured(d, <<0>>)
    BY <1>17, <2>3, <2>4, <2>5, <2>6, <2>7
  <2>9. x \in Range(d.returns) /\ x.order_id = <<0>>
    BY <1>5, <1>10, <1>11
  <2>10. Refunded(d, DOMAIN d.returns, x.order_id) > Captured(d, x.order_id)
    BY <2>8, <2>9
  <2> QED
    BY <2>9, <2>10, SparkRules
<1>21. \A i \in 1..16 : i < 12 => ~SparkFinds(d)[SparkOrder[i]]
  <2>1. SparkOrder[10] = "ORPHAN_RETURN" /\ SparkOrder[11] = "INVALID_RETURN"
    BY DEF SparkOrder
  <2>2. \A i \in 1..16 : i < 12 => i \in 1..9 \/ i = 10 \/ i = 11
    OBVIOUS
  <2> QED
    BY <1>15, <1>18, <1>19, <2>1, <2>2
<1>22. SparkOrder[12] = "EXCESS_REFUND" /\ 12 \in 1..16
  BY DEF SparkOrder
<1> QED
  BY <1>20, <1>21, <1>22, FailureIs

\* The kept rows of a table with distinct rows are distinct.
LEMMA KeptApart ==
  ASSUME NEW X, NEW q \in Seq(X), NEW P, NEW key, Apart(q, key)
  PROVE  Apart(FlattenSeq(KeptGroups(q, P)), key)
<1>1. Len(q) \in Nat /\ DOMAIN q = 1..Len(q)
  OBVIOUS
<1>2. PICK s : s = KeptGroups(q, P)
  OBVIOUS
<1>3. DOMAIN s = 1..Len(q) /\ \A i \in 1..Len(q) : s[i] = IF q[i] \in P THEN <<q[i]>> ELSE << >>
  BY <1>1, <1>2 DEF KeptGroups
<1>4. ASSUME NEW i \in 1..Len(q)
      PROVE  s[i] \in Seq(X)
  <2>1. q[i] \in X
    BY SeqElement
  <2>2. <<q[i]>> \in Seq(X) /\ << >> \in Seq(X)
    BY <2>1
  <2> QED
    BY <1>3, <2>2
<1>5. s \in [1..Len(q) -> Seq(X)]
  BY <1>1, <1>2, <1>3, <1>4 DEF KeptGroups
<1>6. s \in Seq(Seq(X))
  BY <1>1, <1>5, FunctionSeq
<1>7. \A i \in DOMAIN s : DOMAIN s[i] \subseteq {1} /\ Range(s[i]) \subseteq {q[i]}
  BY <1>3 DEF Range
<1>8. \A i \in DOMAIN s : Apart(s[i], key)
  BY <1>7 DEF Apart
<1>9. \A i, j \in DOMAIN s : i # j => \A x \in Range(s[i]), y \in Range(s[j]) : key[x] # key[y]
  BY <1>1, <1>3, <1>7 DEF Apart
<1>10. Apart(FlattenSeq(s), key)
  BY <1>6, <1>8, <1>9, FlattenApart
<1> QED
  BY <1>2, <1>10

LEMMA MissingDimensionFound ==
  ASSUME MaxLines <= Products, MaxQuantity <= 4, NEW draws \in Draws, NEW g, g = Generated(draws),
         NEW d, d = with_missing_dimension(g)
  PROVE  SparkFailure(d) = "MISSING_DIMENSION"
<1>1. PICK l : l = g.order_lines[1]
  OBVIOUS
<1>2. /\ l \in LineType /\ l.product_id = <<0>> /\ l.order_id = <<0>>
      /\ l \in Range(g.order_lines) /\ HasOrder(g, <<0>>)
  BY <1>1, FaultLine
<1>3. g \in CleanBatch /\ Distinct(g)
  BY GeneratedFirst, GeneratedDistinct
<1>4. /\ d \in CleanBatch
      /\ d.orders = g.orders /\ d.order_lines = g.order_lines /\ d.payments = g.payments /\ d.returns = g.returns
      /\ d.inventory_movements = g.inventory_movements
      /\ \A x \in Range(d.products) : x.product_id # l.product_id
  <2>1. d \in CleanBatch /\ \A t \in Tables \ {"products"} : d[t] = g[t]
    BY <1>3, MissingDimensionRows
  <2>2. /\ d["orders"] = g["orders"] /\ d["order_lines"] = g["order_lines"]
        /\ d["payments"] = g["payments"] /\ d["returns"] = g["returns"]
        /\ d["inventory_movements"] = g["inventory_movements"]
    BY <2>1 DEF Tables
  <2>3. ASSUME NEW x \in Range(d.products)
        PROVE  x.product_id # g.order_lines[1].product_id
    BY <1>3, MissingDimensionRows
  <2> QED
    BY <1>1, <2>1, <2>2, <2>3
<1>5. Distinct(d)
  <2>1. PICK q : q = g.products
    OBVIOUS
  <2>2. q \in Seq(ProductType) /\ DOMAIN q = 1..Len(q)
    BY <1>3, <2>1, CleanRows
  <2>3. PICK kept : kept = {x \in ProductType : x.product_id # g.order_lines[1].product_id}
    OBVIOUS
  <2>4. [i \in DOMAIN q |-> IF q[i].product_id # g.order_lines[1].product_id THEN <<q[i]>> ELSE << >>]
           = KeptGroups(q, kept)
    BY <2>2, <2>3 DEF KeptGroups
  <2>5. d = [g EXCEPT !.products = FlattenSeq(KeptGroups(q, kept))]
    BY <2>1, <2>4, Zenon DEF with_missing_dimension
  <2>6. PICK p : p = FlattenSeq(KeptGroups(q, kept))
    OBVIOUS
  <2>7. d.products = p
    BY <1>3, <2>5, <2>6 DEF CleanBatch
  <2>8. PICK key : key = [x \in ProductType |-> ProductKey(x)]
    OBVIOUS
  <2>9. \A x \in ProductType : key[x] = ProductKey(x)
    BY <2>8
  <2>10. Apart(q, key)
    <3>1. \A i, j \in DOMAIN q : ProductKey(q[i]) = ProductKey(q[j]) => i = j
      BY <1>3, <2>1 DEF Distinct
    <3>2. \A i \in DOMAIN q : key[q[i]] = ProductKey(q[i])
      BY <2>2, <2>9
    <3> QED
      BY <3>1, <3>2 DEF Apart
  <2>11. Apart(p, key)
    BY <2>2, <2>6, <2>10, KeptApart
  <2>12. \A i \in DOMAIN p : key[p[i]] = ProductKey(p[i])
    <3>1. p \in Seq(ProductType)
      BY <1>4, <2>7, CleanRows
    <3> QED
      BY <2>9, <3>1
  <2>13. \A i, j \in DOMAIN d.products : ProductKey(d.products[i]) = ProductKey(d.products[j]) => i = j
    BY <2>7, <2>11, <2>12 DEF Apart
  <2> QED
    BY <1>3, <1>4, <2>13 DEF Distinct
<1>6. \A c \in Codes : ~SparkFinds(g)[c]
  BY GeneratedPasses
<1>7. ~SparkFinds(d)["DUPLICATE_ID"]
  BY <1>4, <1>5, DuplicateIs
<1>8. \A i \in 1..13 : ~SparkFinds(d)[SparkOrder[i]]
  BY <1>4, <1>6, <1>7, SharedUntilMovements
<1>9. ~SparkFinds(d)["NEGATIVE_INVENTORY"]
  <2>1. ~SparkFinds(g)["NEGATIVE_INVENTORY"]
    BY <1>6 DEF Codes
  <2> QED
    BY <1>4, <2>1, SharedTables
<1>10. SparkFinds(d)["MISSING_DIMENSION"]
  <2>1. PICK h : h = MatchPart(l, OrderNamed(d, l.order_id).order_ts)
    OBVIOUS
  <2>2. Matches(d, l) = Total(Valued(d.products, h))
    BY <1>4, <2>1, PartsAre
  <2>3. h \in [ProductType -> Int]
    BY <2>1, PartsTyped
  <2>4. d.products \in Seq(ProductType) /\ Range(d.products) \subseteq ProductType
    BY <1>4, CleanRows, RangeOf
  <2>5. ASSUME NEW x \in Range(d.products)
        PROVE  h[x] = 0
    BY <1>4, <2>1, <2>4, <2>5 DEF MatchPart, Addend
  <2>6. Total(Valued(d.products, h)) = 0
    BY <2>3, <2>4, <2>5, ValuedZero
  <2>7. HasOrder(d, l.order_id)
    BY <1>2, <1>4 DEF HasOrder
  <2>8. l \in Range(d.order_lines) /\ HasOrder(d, l.order_id) /\ Matches(d, l) = 0
    BY <1>2, <1>4, <2>2, <2>6, <2>7
  <2> QED
    BY <2>8, SparkRules, Zenon
<1>11. \A i \in 1..16 : i < 15 => ~SparkFinds(d)[SparkOrder[i]]
  <2>1. SparkOrder[14] = "NEGATIVE_INVENTORY"
    BY DEF SparkOrder
  <2>2. \A i \in 1..16 : i < 15 => i \in 1..13 \/ i = 14
    OBVIOUS
  <2> QED
    BY <1>8, <1>9, <2>1, <2>2
<1>12. SparkOrder[15] = "MISSING_DIMENSION" /\ 15 \in 1..16
  BY DEF SparkOrder
<1> QED
  BY <1>10, <1>11, <1>12, FailureIs

LEMMA OverlappingDimensionFound ==
  ASSUME MaxLines <= Products, MaxQuantity <= 4, NEW draws \in Draws, NEW g, g = Generated(draws),
         NEW d, d = with_overlapping_dimension(g)
  PROVE  SparkFailure(d) = "AMBIGUOUS_DIMENSION"
<1>1. PICK l : l = g.order_lines[1]
  OBVIOUS
<1>2. /\ l \in LineType /\ l.product_id = <<0>> /\ l.order_id = <<0>>
      /\ l \in Range(g.order_lines) /\ HasOrder(g, <<0>>) /\ OrderNamed(g, <<0>>) = g.orders[1]
      /\ Matches(g, l) = 1
  BY <1>1, FaultLine
<1>3. g \in CleanBatch /\ Distinct(g) /\ g.products[1] = Product(0)
  BY GeneratedFirst, GeneratedDistinct
<1>4. PICK p : p = Product(0)
  OBVIOUS
<1>5. /\ p \in ProductType /\ p.product_id = <<0>> /\ p.effective_from = Start - 86400
      /\ p.effective_to = Null /\ p.loaded_at = Start - 3600
  BY <1>4, ProductFacts
<1>6. PICK z : z = [p EXCEPT !.effective_from = @ + 1]
  OBVIOUS
<1>7. /\ z \in ProductType /\ z.product_id = <<0>> /\ z.effective_from = Start - 86400 + 1
      /\ z.effective_to = Null /\ z.loaded_at = Start - 3600
  BY <1>5, <1>6 DEF ProductType, Start
<1>8. PICK x : x = [z EXCEPT !.loaded_at = @ + 1]
  OBVIOUS
<1>9. /\ x \in ProductType /\ x.product_id = <<0>> /\ x.effective_from = Start - 86400 + 1
      /\ x.effective_to = Null /\ x.loaded_at = Start - 3600 + 1
  BY <1>7, <1>8 DEF ProductType, Start
<1>10. x = [p EXCEPT !.effective_from = @ + 1, !.loaded_at = @ + 1]
  BY <1>6, <1>8
<1>11. PICK q : q = g.products
  OBVIOUS
<1>12. PICK s : s = Append(q, x)
  OBVIOUS
<1>13. d = [g EXCEPT !.products = s]
  <2>1. d = [g EXCEPT !.products = Append(g.products,
                [g.products[1] EXCEPT !.effective_from = g.products[1].effective_from + 1,
                                      !.loaded_at = g.products[1].loaded_at + 1])]
    BY DEF with_overlapping_dimension
  <2>2. x = [g.products[1] EXCEPT !.effective_from = g.products[1].effective_from + 1,
                                  !.loaded_at = g.products[1].loaded_at + 1]
    BY <1>3, <1>4, <1>10
  <2> QED
    BY <1>11, <1>12, <2>1, <2>2
<1>14. q \in Seq(ProductType)
  BY <1>3, <1>11, CleanRows
<1>15. /\ s \in Seq(ProductType) /\ DOMAIN s = 1..(Len(q) + 1) /\ DOMAIN q = 1..Len(q) /\ Len(q) \in Nat
       /\ s[Len(q) + 1] = x
       /\ \A i \in 1..Len(q) : s[i] = q[i]
  BY <1>9, <1>12, <1>14, AppendFacts
<1>16. /\ d \in CleanBatch /\ d.products = s
       /\ d.orders = g.orders /\ d.order_lines = g.order_lines /\ d.payments = g.payments /\ d.returns = g.returns
       /\ d.inventory_movements = g.inventory_movements
  <2>1. /\ d.products = s
        /\ d.orders = g.orders /\ d.order_lines = g.order_lines /\ d.payments = g.payments
        /\ d.returns = g.returns /\ d.inventory_movements = g.inventory_movements
    BY <1>3, <1>13 DEF CleanBatch
  <2>2. d \in CleanBatch
    <3>1. x \in RowType["products"] /\ "products" \in Tables
      BY <1>9 DEF Tables, RowType
    <3>2. [g EXCEPT !["products"] = Append(@, x)] \in CleanBatch
      BY <1>3, <3>1, CleanAppend
    <3> QED
      BY <1>11, <1>12, <1>13, <3>2
  <2> QED
    BY <2>1, <2>2
<1>17. Distinct(d)
  <2>1. ASSUME NEW i \in 1..Len(q)
        PROVE  ProductKey(q[i]) # ProductKey(x)
    <3>1. i \in 1..Products /\ q[i] = Product(i - 1)
      <4>1. PICK N : N = Len(draws)
        OBVIOUS
      <4>2. DOMAIN g.products = 1..Products /\ \A k \in 1..Products : g.products[k] = Product(k - 1)
        BY <4>1, GeneratedTables
      <4> QED
        BY <1>11, <1>15, <4>2
    <3>2. q[i].effective_from = Start - 86400
      BY <3>1, ProductFacts
    <3>3. q[i].effective_from # x.effective_from
      BY <1>9, <3>2 DEF Start
    <3> QED
      BY <3>3 DEF ProductKey
  <2>2. \A i, j \in 1..Len(q) : ProductKey(q[i]) = ProductKey(q[j]) => i = j
    BY <1>3, <1>11, <1>15 DEF Distinct
  <2>3. ASSUME NEW i \in DOMAIN s, NEW j \in DOMAIN s, ProductKey(s[i]) = ProductKey(s[j])
        PROVE  i = j
    BY <1>15, <2>1, <2>2, <2>3
  <2>4. \A i, j \in DOMAIN d.products : ProductKey(d.products[i]) = ProductKey(d.products[j]) => i = j
    BY <1>16, <2>3
  <2> QED
    BY <1>3, <1>16, <2>4 DEF Distinct
<1>18. \A c \in Codes : ~SparkFinds(g)[c]
  BY GeneratedPasses
<1>19. ~SparkFinds(d)["DUPLICATE_ID"]
  BY <1>16, <1>17, DuplicateIs
<1>20. \A i \in 1..13 : ~SparkFinds(d)[SparkOrder[i]]
  BY <1>16, <1>18, <1>19, SharedUntilMovements
<1>21. ~SparkFinds(d)["NEGATIVE_INVENTORY"]
  <2>1. ~SparkFinds(g)["NEGATIVE_INVENTORY"]
    BY <1>18 DEF Codes
  <2> QED
    BY <1>16, <2>1, SharedTables
\* The row after the others adds one or nothing to the matches of a line.
<1>22. ASSUME NEW r \in Range(g.order_lines)
       PROVE  /\ Matches(g, r) = 1
              /\ Matches(d, r) = 1 + MatchPart(r, OrderNamed(g, r.order_id).order_ts)[x]
  <2>1. Matches(g, r) = 1
    <3>1. PICK i \in 1..Len(draws) : \E k \in 1..Len(LinesAt(draws, i)) : r = LinesAt(draws, i)[k]
      BY GeneratedSources
    <3>2. PICK k \in 1..Len(LinesAt(draws, i)) : r = LinesAt(draws, i)[k]
      BY <3>1
    <3> QED
      BY <3>2, GeneratedMatches
  <2>2. OrderNamed(d, r.order_id) = OrderNamed(g, r.order_id)
    BY <1>16, Zenon DEF OrderNamed
  <2>3. PICK h : h = MatchPart(r, OrderNamed(g, r.order_id).order_ts)
    OBVIOUS
  <2>4. Matches(g, r) = Total(Valued(q, h))
    BY <1>3, <1>11, <2>3, PartsAre
  <2>5. Matches(d, r) = Total(Valued(s, h))
    BY <1>16, <2>2, <2>3, PartsAre
  <2>6. h \in [ProductType -> Int]
    BY <2>3, PartsTyped
  <2>7. Total(Valued(s, h)) = Total(Valued(q, h)) + h[x]
    BY <1>9, <1>12, <1>14, <2>6, AppendTotal
  <2> QED
    BY <2>1, <2>3, <2>4, <2>5, <2>7
<1>23. ~SparkFinds(d)["MISSING_DIMENSION"]
  <2>1. ASSUME NEW r \in Range(g.order_lines)
        PROVE  Matches(d, r) # 0
    <3>1. PICK h : h = MatchPart(r, OrderNamed(g, r.order_id).order_ts)
      OBVIOUS
    <3>2. h[x] \in {0, 1}
      BY <1>9, <3>1 DEF MatchPart, Addend
    <3>3. Matches(d, r) = 1 + h[x]
      BY <1>22, <3>1
    <3> QED
      BY <3>2, <3>3
  <2>2. \A r \in Range(d.order_lines) : ~(HasOrder(d, r.order_id) /\ Matches(d, r) = 0)
    BY <1>16, <2>1
  <2> QED
    BY <2>2, SparkRules, Zenon
<1>24. SparkFinds(d)["AMBIGUOUS_DIMENSION"]
  <2>1. PICK time : time = g.orders[1].order_ts
    OBVIOUS
  <2>2. time = Start
    BY <2>1, FaultOrder
  <2>3. Knowable(x, time)
    <3>1. x.effective_from <= time /\ x.loaded_at <= Knowledge
      BY <1>9, <2>2 DEF Start, Knowledge
    <3> QED
      BY <1>9, <3>1 DEF Knowable
  <2>4. MatchPart(l, time)[x] = 1
    <3>1. MatchPart(l, time)[x] = Addend(x.product_id = l.product_id /\ Knowable(x, time), 1)
      <4>1. x \in ProductType
        BY <1>9
      <4> QED
        BY <4>1, Zenon DEF MatchPart
    <3>2. x.product_id = l.product_id /\ 1 # Null
      BY <1>2, <1>9, BatchAssumption
    <3> QED
      BY <2>3, <3>1, <3>2 DEF Addend
  <2>5. Matches(d, l) = 1 + MatchPart(l, time)[x]
    BY <1>2, <1>22, <2>1
  <2>6. HasOrder(d, l.order_id)
    BY <1>2, <1>16 DEF HasOrder
  <2>7. l \in Range(d.order_lines) /\ HasOrder(d, l.order_id) /\ Matches(d, l) > 1
    BY <1>2, <1>16, <2>4, <2>5, <2>6
  <2> QED
    BY <2>7, SparkRules, Zenon
<1>25. \A i \in 1..16 : i < 16 => ~SparkFinds(d)[SparkOrder[i]]
  <2>1. SparkOrder[14] = "NEGATIVE_INVENTORY" /\ SparkOrder[15] = "MISSING_DIMENSION"
    BY DEF SparkOrder
  <2>2. \A i \in 1..16 : i < 16 => i \in 1..13 \/ i = 14 \/ i = 15
    OBVIOUS
  <2> QED
    BY <1>20, <1>21, <1>23, <2>1, <2>2
<1>26. SparkOrder[16] = "AMBIGUOUS_DIMENSION" /\ 16 \in 1..16
  BY DEF SparkOrder
<1> QED
  BY <1>24, <1>25, <1>26, FailureIs

FirstProduct == <<0>>

\* The opening stock a movement of the first product in the first store can find is one opening.
LEMMA OpeningReaches ==
  ASSUME NEW N \in Nat, NEW y \in MovementType, y.product_id = FirstProduct, y.store_id = 0, NEW h, h = StockOf(y)
  PROVE  Total(Valued(Opening(N), h)) \in Int /\ Total(Valued(Opening(N), h)) <= OpeningStock(N)
<1>1. /\ h \in [MovementType -> Int]
      /\ \A x \in MovementType : h[x] \in {0, x.quantity_delta}
      /\ \A x \in MovementType : x.product_id # y.product_id => h[x] = 0
  BY StockOfType
<1>2. \A x \in MovementType : x.store_id # y.store_id => h[x] = 0
  BY DEF StockOf, Addend
<1>3. PICK s : s = [p \in 1..Products |-> OpeningAt(N, p)]
  OBVIOUS
<1>4. /\ Opening(N) = FlattenSeq(s) /\ s \in Seq(Seq(MovementType))
      /\ OpeningStock(N) \in Nat
  BY <1>3, OpeningFacts
<1>5. Products \in Nat \ {0} /\ Stores \in Nat \ {0}
  BY BatchAssumption
<1>6. Len(s) = Products /\ \A p \in 1..Products : s[p] = OpeningAt(N, p)
  BY <1>3, <1>4, <1>5
<1>7. \A p \in 1..Products : OpeningAt(N, p) \in Seq(MovementType) /\ Len(OpeningAt(N, p)) = Stores
  BY OpeningFacts
<1>8. ASSUME NEW p \in 1..Products, NEW t \in 1..Stores
      PROVE  /\ OpeningAt(N, p)[t] \in MovementType
             /\ OpeningAt(N, p)[t].product_id = <<p - 1>>
             /\ OpeningAt(N, p)[t].store_id = t - 1
             /\ OpeningAt(N, p)[t].quantity_delta = OpeningStock(N)
  <2>1. OpeningAt(N, p)[t] = OpeningOf(N, p, t)
    BY OpeningRows
  <2>2. OpeningAt(N, p)[t] \in MovementType
    BY <1>7, SeqElement
  <2> QED
    BY <2>1, <2>2 DEF OpeningOf, Movement
<1>9. ASSUME NEW p \in 1..Len(s), p # 1
      PROVE  \A x \in Range(s[p]) : h[x] = 0
  <2> SUFFICES ASSUME NEW x \in Range(s[p])
               PROVE  h[x] = 0
    OBVIOUS
  <2>1. p \in 1..Products /\ s[p] = OpeningAt(N, p)
    BY <1>6
  <2>2. PICK t \in 1..Stores : x = OpeningAt(N, p)[t]
    BY <1>7, <2>1 DEF Range
  <2>3. x \in MovementType /\ x.product_id = <<p - 1>>
    BY <1>8, <2>1, <2>2
  <2>4. <<p - 1>> # FirstProduct
    BY <1>5, <1>9, <2>1 DEF FirstProduct
  <2> QED
    BY <1>1, <2>3, <2>4
<1>10. 1 \in 1..Len(s) /\ s[1] = OpeningAt(N, 1) /\ 1 \in 1..Products /\ 1 \in 1..Stores
  BY <1>5, <1>6
<1>11. Total(Valued(FlattenSeq(s), h)) = Total(Valued(s[1], h))
  <2>1. h \in [MovementType -> Int]
    BY <1>1
  <2>2. s \in Seq(Seq(MovementType))
    BY <1>4
  <2>3. PICK k : k = 1
    OBVIOUS
  <2>4. k \in 1..Len(s) /\ \A p \in 1..Len(s) : p # k => \A x \in Range(s[p]) : h[x] = 0
    BY <1>9, <1>10, <2>3
  <2>5. Total(Valued(FlattenSeq(s), h)) = Total(Valued(s[k], h))
    BY <2>1, <2>2, <2>4, FlattenTotalOne
  <2> QED
    BY <2>3, <2>5
<1>12. PICK u : u = OpeningAt(N, 1)
  OBVIOUS
<1>13. PICK v : v = Valued(u, h)
  OBVIOUS
<1>14. u \in Seq(MovementType) /\ Len(u) = Stores
  BY <1>7, <1>10, <1>12
<1>15. v \in Seq(Int) /\ Len(v) = Len(u) /\ \A t \in 1..Len(u) : v[t] = h[u[t]]
  <2>1. h \in [MovementType -> Int]
    BY <1>1
  <2>2. u \in Seq(MovementType)
    BY <1>14
  <2> QED
    BY <1>13, <2>1, <2>2, ValuedType
<1>16. \A t \in 1..Len(v) : t # 1 => v[t] = 0
  <2> SUFFICES ASSUME NEW t \in 1..Stores, t # 1
               PROVE  v[t] = 0
    BY <1>14, <1>15
  <2>1. u[t] \in MovementType /\ u[t].store_id = t - 1
    BY <1>8, <1>10, <1>12
  <2>2. t - 1 # 0
    BY <1>5
  <2>3. h[u[t]] = 0
    BY <1>2, <2>1, <2>2
  <2> QED
    BY <1>14, <1>15, <2>3
<1>17. 1 \in 1..Len(v)
  BY <1>10, <1>14, <1>15
<1>18. Total(v) = v[1]
  BY <1>15, <1>16, <1>17, TotalOne
<1>19. v[1] \in {0, OpeningStock(N)}
  <2>1. u[1] \in MovementType /\ u[1].quantity_delta = OpeningStock(N)
    BY <1>8, <1>10, <1>12
  <2>2. v[1] = h[u[1]]
    BY <1>15, <1>17
  <2> QED
    BY <1>1, <2>1, <2>2
<1>20. Total(Valued(Opening(N), h)) = v[1]
  BY <1>4, <1>10, <1>11, <1>12, <1>13, <1>18
<1> QED
  BY <1>4, <1>19, <1>20

\* Before the first return no generated movement but an opening adds stock.
LEMMA OrdersAddNothing ==
  ASSUME NEW draws \in Draws, NEW y \in MovementType, y.movement_ts = Start + 1, NEW h, h = StockOf(y)
  PROVE  /\ Total(Valued(FlattenSeq(MovementsMade(draws)), h)) \in Int
         /\ Total(Valued(FlattenSeq(MovementsMade(draws)), h)) <= 0
<1>1. /\ h \in [MovementType -> Int]
      /\ \A x \in MovementType : h[x] \in {0, x.quantity_delta} /\ x.quantity_delta \in Int
      /\ \A x \in MovementType : ~(x.movement_ts <= y.movement_ts) => h[x] = 0
  BY StockOfType
<1>2. PICK s : s = MovementsMade(draws)
  OBVIOUS
<1>3. /\ s \in Seq(Seq(MovementType)) /\ Len(s) = Len(draws) /\ Len(draws) \in Nat
      /\ DOMAIN s = 1..Len(draws)
  BY <1>2, MadeTyped
<1>4. PICK u : u = FlattenSeq(s)
  OBVIOUS
<1>5. u \in Seq(MovementType) /\ \A x \in Range(u) : \E i \in 1..Len(draws) : x \in Range(s[i])
  BY <1>3, <1>4, FlattenRange
<1>6. ASSUME NEW x \in Range(u)
      PROVE  x \in MovementType /\ h[x] \in Int /\ h[x] <= 0
  <2>1. PICK i \in 1..Len(draws) : x \in Range(s[i])
    BY <1>5
  <2>2. PICK N : N = Len(draws)
    OBVIOUS
  <2>3. \/ \E l \in 1..Len(LinesAt(draws, i)) : x = SaleAt(draws, i, l)
        \/ x = BackAt(draws, i)
    BY <1>2, <2>1, <2>2, MovementRows
  <2>4. CASE \E l \in 1..Len(LinesAt(draws, i)) : x = SaleAt(draws, i, l)
    <3>1. PICK l \in 1..Len(LinesAt(draws, i)) : x = SaleAt(draws, i, l)
      BY <2>4
    <3>2. x \in MovementType
      BY <2>2, <3>1, MovementIds
    <3>3. x.quantity_delta = -LinesAt(draws, i)[l].quantity
      BY <3>1 DEF SaleAt, Movement
    <3>4. LinesAt(draws, i)[l].quantity \in 1..MaxQuantity /\ MaxQuantity \in Nat
      BY LinesAtFacts, BatchAssumption
    <3>5. x.quantity_delta <= 0
      BY <3>3, <3>4
    <3> QED
      BY <1>1, <3>2, <3>5
  <2>5. CASE x = BackAt(draws, i)
    <3>1. x \in MovementType
      BY <2>2, <2>5, MovementIds
    <3>2. x.movement_ts = Start + (i - 1) * 10 + 5
      BY <2>5 DEF BackAt, Movement
    <3>3. ~(x.movement_ts <= y.movement_ts)
      BY <1>3, <3>2 DEF Start
    <3> QED
      BY <1>1, <3>1, <3>3
  <2> QED
    BY <2>3, <2>4, <2>5
<1>7. PICK v : v = Valued(u, h)
  OBVIOUS
<1>8. v \in Seq(Int) /\ Len(v) = Len(u) /\ \A k \in 1..Len(u) : v[k] = h[u[k]]
  BY <1>1, <1>5, <1>7, ValuedType
<1>9. \A k \in 1..Len(v) : v[k] <= 0
  <2>1. \A k \in 1..Len(u) : u[k] \in Range(u)
    BY <1>5, RangeOf
  <2> QED
    BY <1>6, <1>8, <2>1
<1> QED
  BY <1>2, <1>4, <1>7, <1>8, <1>9, TotalAtMostZero, TotalType

\* The stock that negative_inventory takes away is more than the opening stock, 4 for each order.
FewOrders == \A n \in OrderCounts : n < 250000

LEMMA NegativeInventoryFound ==
  ASSUME MaxLines <= Products, MaxQuantity <= 4, NEW draws \in Draws, FewOrders,
         NEW g, g = Generated(draws), NEW d, d = with_negative_inventory(g)
  PROVE  SparkFailure(d) = "NEGATIVE_INVENTORY"
<1>1. PICK l : l = g.order_lines[1]
  OBVIOUS
<1>2. l \in LineType /\ l.product_id = <<0>>
  BY <1>1, FaultLine
<1>3. PICK r : r = g.orders[1]
  OBVIOUS
<1>4. r.order_ts = Start
  <2>1. g.orders[1].order_ts = Start
    BY FaultOrder
  <2> QED
    BY <1>3, <2>1
<1>5. g \in CleanBatch /\ Distinct(g)
  BY GeneratedFirst, GeneratedDistinct
<1>6. PICK x : x = Movement(-1, 0, 0, l.product_id, 0, -1000000, r.order_ts + 1)
  OBVIOUS
<1>7. /\ x \in MovementType /\ x.movement_id = <<-1, 0, 0>> /\ x.product_id = <<0>> /\ x.store_id = 0
      /\ x.quantity_delta = -1000000 /\ x.movement_ts = Start + 1
  <2>1. l.product_id \in Ids /\ r.order_ts + 1 \in Int
    BY <1>2, <1>4 DEF LineType, Start
  <2>2. x \in MovementType
    BY <1>6, <2>1, MovementTyped
  <2>3. /\ x.movement_id = <<-1, 0, 0>> /\ x.product_id = l.product_id /\ x.store_id = 0
        /\ x.quantity_delta = -1000000 /\ x.movement_ts = r.order_ts + 1
    BY <1>6 DEF Movement
  <2> QED
    BY <1>2, <1>4, <2>2, <2>3
<1>8. PICK q : q = g.inventory_movements
  OBVIOUS
<1>9. PICK s : s = Append(q, x)
  OBVIOUS
<1>10. d = [g EXCEPT !.inventory_movements = s]
  BY <1>1, <1>3, <1>6, <1>8, <1>9 DEF with_negative_inventory
<1>11. q \in Seq(MovementType)
  BY <1>5, <1>8, CleanRows
<1>12. /\ s \in Seq(MovementType) /\ Len(s) = Len(q) + 1 /\ DOMAIN s = 1..(Len(q) + 1) /\ DOMAIN q = 1..Len(q)
       /\ Len(q) \in Nat /\ s[Len(q) + 1] = x
       /\ \A i \in 1..Len(q) : s[i] = q[i]
  BY <1>7, <1>9, <1>11, AppendFacts
<1>13. /\ d \in CleanBatch /\ d.inventory_movements = s
       /\ d.orders = g.orders /\ d.order_lines = g.order_lines /\ d.payments = g.payments /\ d.returns = g.returns
       /\ d.products = g.products
  <2>1. /\ d.inventory_movements = s
        /\ d.orders = g.orders /\ d.order_lines = g.order_lines /\ d.payments = g.payments
        /\ d.returns = g.returns /\ d.products = g.products
    BY <1>5, <1>10 DEF CleanBatch
  <2>2. d \in CleanBatch
    <3>1. x \in RowType["inventory_movements"] /\ "inventory_movements" \in Tables
      BY <1>7 DEF Tables, RowType
    <3>2. [g EXCEPT !["inventory_movements"] = Append(@, x)] \in CleanBatch
      BY <1>5, <3>1, CleanAppend
    <3> QED
      BY <1>8, <1>9, <1>10, <3>2
  <2> QED
    BY <2>1, <2>2
<1>14. PICK N : N = Len(draws)
  OBVIOUS
<1>15. N \in Nat \ {0} /\ q = Opening(N) \o FlattenSeq(MovementsMade(draws))
  BY <1>8, <1>14, GeneratedTables
<1>16. Opening(N) \in Seq(MovementType) /\ FlattenSeq(MovementsMade(draws)) \in Seq(MovementType)
  <2>1. Opening(N) \in Seq(MovementType)
    BY <1>15, OpeningFacts
  <2>2. MovementsMade(draws) \in Seq(Seq(MovementType))
    BY MadeTyped
  <2> QED
    BY <2>1, <2>2, FlattenRange
\* The movement's identifier is before every other.
<1>17. ASSUME NEW y \in Range(q)
       PROVE  y.movement_id # x.movement_id
  <2>1. PICK u : u = FlattenSeq(MovementsMade(draws))
    OBVIOUS
  <2>2. y \in Range(Opening(N)) \/ y \in Range(u)
    BY <1>15, <1>16, <2>1, RangeConcat
  <2>3. CASE y \in Range(Opening(N))
    <3>1. PICK p \in 1..Products, t \in 1..Stores : y = OpeningOf(N, p, t)
      BY <1>14, <2>3, MovementRows
    <3>2. y.movement_id = <<0, p, t>>
      BY <1>14, <3>1, MovementIds
    <3> QED
      BY <1>7, <3>2
  <2>4. CASE y \in Range(u)
    <3>1. DOMAIN MovementsMade(draws) = 1..N /\ MovementsMade(draws) \in Seq(Seq(MovementType))
      BY <1>14, MadeTyped DEF MovementsMade
    <3>2. PICK i \in 1..N : y \in Range(MovementsMade(draws)[i])
      BY <2>1, <2>4, <3>1, FlattenRange
    <3>3. \/ \E k \in 1..Len(LinesAt(draws, i)) : y = SaleAt(draws, i, k)
          \/ y = BackAt(draws, i)
      BY <1>14, <3>2, MovementRows
    <3>4. CASE \E k \in 1..Len(LinesAt(draws, i)) : y = SaleAt(draws, i, k)
      <4>1. PICK k \in 1..Len(LinesAt(draws, i)) : y = SaleAt(draws, i, k)
        BY <3>4
      <4>2. y.movement_id = <<2, i - 1, k>>
        BY <1>14, <4>1, MovementIds
      <4> QED
        BY <1>7, <4>2
    <3>5. CASE y = BackAt(draws, i)
      <4>1. y.movement_id = <<1, i - 1, 1>>
        BY <1>14, <3>5, MovementIds
      <4> QED
        BY <1>7, <4>1
    <3> QED
      BY <3>3, <3>4, <3>5
  <2> QED
    BY <2>2, <2>3, <2>4
<1>18. Distinct(d)
  <2>1. \A i \in 1..Len(q) : q[i].movement_id # x.movement_id
    <3>1. \A i \in 1..Len(q) : q[i] \in Range(q)
      BY <1>11, RangeOf
    <3> QED
      BY <1>17, <3>1
  <2>2. \A i, j \in 1..Len(q) : q[i].movement_id = q[j].movement_id => i = j
    BY <1>5, <1>8, <1>12, SMTT(30) DEF Distinct
  <2>3. ASSUME NEW i \in DOMAIN s, NEW j \in DOMAIN s, s[i].movement_id = s[j].movement_id
        PROVE  i = j
    BY <1>12, <2>1, <2>2, <2>3
  <2>4. \A i, j \in DOMAIN d.inventory_movements :
           d.inventory_movements[i].movement_id = d.inventory_movements[j].movement_id => i = j
    BY <1>13, <2>3
  <2> QED
    BY <1>5, <1>13, <2>4 DEF Distinct
<1>19. \A c \in Codes : ~SparkFinds(g)[c]
  BY GeneratedPasses
<1>20. ~SparkFinds(d)["DUPLICATE_ID"]
  BY <1>13, <1>18, DuplicateIs
<1>21. \A i \in 1..13 : ~SparkFinds(d)[SparkOrder[i]]
  BY <1>13, <1>19, <1>20, SharedUntilMovements
<1>22. SparkFinds(d)["NEGATIVE_INVENTORY"]
  <2>1. PICK h : h = StockOf(x)
    OBVIOUS
  <2>2. h \in [MovementType -> Int]
    BY <1>7, <2>1, StockOfType
  <2>3. h[x] = -1000000
    <3>1. h[x] = Addend(/\ x.product_id = x.product_id
                        /\ x.store_id = x.store_id
                        /\ \/ x.movement_ts < x.movement_ts
                           \/ /\ x.movement_ts = x.movement_ts
                              /\ (IdBelow(x.movement_id, x.movement_id) \/ x.movement_id = x.movement_id),
                        x.quantity_delta)
      <4>1. x \in MovementType
        BY <1>7
      <4> QED
        BY <2>1, <4>1, Zenon DEF StockOf
    <3>2. x.quantity_delta # Null
      BY <1>7, BatchAssumption
    <3>3. h[x] = x.quantity_delta
      BY <3>1, <3>2 DEF Addend
    <3> QED
      BY <1>7, <3>3
  <2>4. PICK j : j = Len(q) + 1
    OBVIOUS
  <2>5. j \in 1..Len(s) /\ j \in DOMAIN s /\ s[j] = x
    BY <1>12, <2>4
  <2>6. Stock(d, j) = Total(Valued(s, h))
    BY <1>13, <1>18, <2>1, <2>5, StockOfRow
  <2>7. Total(Valued(s, h)) = Total(Valued(q, h)) + h[x] /\ Total(Valued(q, h)) \in Int
    BY <1>7, <1>9, <1>11, <2>2, AppendTotal
  <2>8. PICK a : a = Valued(Opening(N), h)
    OBVIOUS
  <2>9. PICK c : c = Valued(FlattenSeq(MovementsMade(draws)), h)
    OBVIOUS
  <2>10. a \in Seq(Int) /\ c \in Seq(Int)
    BY <1>16, <2>2, <2>8, <2>9, ValuedType
  <2>11. Valued(q, h) = a \o c
    <3>1. PICK X : X = MovementType
      OBVIOUS
    <3>2. h \in [X -> Int] /\ Opening(N) \in Seq(X) /\ FlattenSeq(MovementsMade(draws)) \in Seq(X)
      BY <1>16, <2>2, <3>1
    <3>3. \A v, w \in Seq(X) : Valued(v \o w, h) = Valued(v, h) \o Valued(w, h)
      BY <3>2, ValuedConcats
    <3> QED
      BY <1>15, <2>8, <2>9, <3>2, <3>3
  <2>12. Total(a \o c) = Total(a) + Total(c)
    BY <2>10, TotalConcat
  <2>13. Total(a) \in Int /\ Total(a) <= OpeningStock(N)
    <3>1. x \in MovementType /\ x.product_id = FirstProduct /\ x.store_id = 0
      BY <1>7 DEF FirstProduct
    <3> QED
      BY <1>15, <2>1, <2>8, <3>1, OpeningReaches
  <2>14. Total(c) \in Int /\ Total(c) <= 0
    BY <1>7, <2>1, <2>9, OrdersAddNothing
  <2>15. OpeningStock(N) \in Nat /\ OpeningStock(N) < 1000000
    <3>1. OpeningStock(N) \in {100, N * 4}
      BY <1>15, OpeningFacts
    <3>2. N \in Nat /\ N < 250000
      BY <1>14, DrawsFacts DEF FewOrders
    <3> QED
      BY <3>1, <3>2
  <2>16. Stock(d, j) < 0
    BY <2>3, <2>6, <2>7, <2>11, <2>12, <2>13, <2>14, <2>15
  <2>17. j \in DOMAIN d.inventory_movements
    BY <1>13, <2>5
  <2> QED
    BY <2>16, <2>17, SparkRules
<1>23. \A i \in 1..16 : i < 14 => ~SparkFinds(d)[SparkOrder[i]]
  BY <1>21
<1>24. SparkOrder[14] = "NEGATIVE_INVENTORY" /\ 14 \in 1..16
  BY DEF SparkOrder
<1> QED
  BY <1>22, <1>23, <1>24, FailureIs

-----------------------------------------------------------------------------
(* The faults of the specification *)

\* Until its first further edit a batch is what the generator made, or that with one fault.
FaultInv ==
    /\ edits \in Nat
    /\ (fault = "none" \/ fault \in DOMAIN Signal)
    /\ edits = 0 => \E draws \in Draws :
          batch = IF fault = "none" THEN Generated(draws) ELSE Faulty(Generated(draws), fault)

LEMMA FaultInvariance == BatchSpec => []FaultInv
<1>1. \A name \in DOMAIN Signal : name # "none"
  BY DEF Signal
<1>2. BatchInit => FaultInv
  BY DEF BatchInit, FaultInv
<1>3. ASSUME FaultInv, [BatchNext]_batchVars
      PROVE  FaultInv'
  <2>1. CASE MakeFaulty
    <3>1. PICK name : name = fault'
      OBVIOUS
    <3>2. /\ fault = "none" /\ edits = 0 /\ name \in DOMAIN Signal /\ batch' = Faulty(batch, name)
          /\ edits' = edits
      BY <2>1, <3>1 DEF MakeFaulty
    <3>3. PICK draws \in Draws : batch = Generated(draws)
      BY <1>3, <3>2 DEF FaultInv
    <3>4. batch' = Faulty(Generated(draws), name)
      BY <3>2, <3>3
    <3>5. name # "none"
      BY <1>1, <3>2
    <3> QED
      BY <1>3, <3>1, <3>2, <3>4, <3>5, Zenon DEF FaultInv
  <2>2. CASE Edit
    <3>1. edits' = edits + 1 /\ fault' = fault
      BY <2>2 DEF Edit
    <3>2. edits \in Nat /\ (fault = "none" \/ fault \in DOMAIN Signal)
      BY <1>3 DEF FaultInv
    <3>3. edits' \in Nat /\ edits' # 0
      BY <3>1, <3>2
    <3> QED
      BY <3>1, <3>2, <3>3 DEF FaultInv
  <2>3. CASE UNCHANGED batchVars
    BY <1>3, <2>3, Zenon DEF FaultInv, batchVars
  <2> QED
    BY <1>3, <2>1, <2>2, <2>3 DEF BatchNext
<1> QED
  BY <1>2, <1>3, PTL DEF BatchSpec

\* Every fault of the failure lab and of the managed scenarios is reported under the code that is
\* expected of it, however the random draws fall: no line of an order more than there are products,
\* no quantity over the four that the opening stock counts with, and fewer orders than would bring
\* the opening stock over the million that the corrupted movement takes.
THEOREM FaultSignalledTheorem ==
  ASSUME MaxLines <= Products, MaxQuantity <= 4, \A n \in OrderCounts : n < 250000
  PROVE  BatchSpec => []FaultSignalled
<1>1. ASSUME FaultInv
      PROVE  FaultSignalled
  <2> SUFFICES ASSUME edits = 0, fault # "none"
               PROVE  Signal[fault] \in LocalCodes(batch) /\ SparkFailure(batch) = Signal[fault]
    BY DEF FaultSignalled
  <2>1. PICK name : name = fault
    OBVIOUS
  <2>2. PICK d : d = batch
    OBVIOUS
  <2>3. name \in DOMAIN Signal
    BY <1>1, <2>1 DEF FaultInv
  <2>4. PICK draws \in Draws : d = Faulty(Generated(draws), name)
    BY <1>1, <2>1, <2>2 DEF FaultInv
  <2>5. PICK g : g = Generated(draws)
    OBVIOUS
  <2>6. d = Faulty(g, name)
    BY <2>4, <2>5
  <2>7. FewOrders
    BY DEF FewOrders
  <2>8. name \in {"with_broken_total", "with_excess_refund", "with_missing_dimension",
                  "with_overlapping_dimension", "with_negative_inventory"}
    BY <2>3 DEF Signal
  <2>9. d \in CleanBatch
    BY <2>3, <2>5, <2>6, GeneratedFirst, FaultyClean
  <2>10. SparkFailure(d) = Signal[name]
    <3>1. CASE name = "with_broken_total"
      <4>1. d = with_broken_total(g) /\ Signal[name] = "ORDER_TOTAL"
        BY <2>6, <3>1 DEF Faulty, Signal
      <4> QED
        BY <2>5, <4>1, BrokenTotalFound
    <3>2. CASE name = "with_excess_refund"
      <4>1. d = with_excess_refund(g) /\ Signal[name] = "EXCESS_REFUND"
        BY <2>6, <3>2 DEF Faulty, Signal
      <4> QED
        BY <2>5, <4>1, ExcessRefundFound
    <3>3. CASE name = "with_missing_dimension"
      <4>1. d = with_missing_dimension(g) /\ Signal[name] = "MISSING_DIMENSION"
        BY <2>6, <3>3 DEF Faulty, Signal
      <4> QED
        BY <2>5, <4>1, MissingDimensionFound
    <3>4. CASE name = "with_overlapping_dimension"
      <4>1. d = with_overlapping_dimension(g) /\ Signal[name] = "AMBIGUOUS_DIMENSION"
        BY <2>6, <3>4 DEF Faulty, Signal
      <4> QED
        BY <2>5, <4>1, OverlappingDimensionFound
    <3>5. CASE name = "with_negative_inventory"
      <4>1. d = with_negative_inventory(g) /\ Signal[name] = "NEGATIVE_INVENTORY"
        BY <2>6, <3>5 DEF Faulty, Signal
      <4> QED
        BY <2>5, <2>7, <4>1, NegativeInventoryFound
    <3> QED
      BY <2>8, <3>1, <3>2, <3>3, <3>4, <3>5
  <2>11. Signal[name] # "none"
    BY <2>8 DEF Signal
  <2>12. Signal[name] \in LocalCodes(d)
    BY <2>9, <2>10, <2>11, FailureFound
  <2> QED
    BY <2>1, <2>2, <2>10, <2>12
<1> QED
  BY <1>1, FaultInvariance, PTL
=============================================================================
