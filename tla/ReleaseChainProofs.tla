------------------------- MODULE ReleaseChainProofs -------------------------
(***************************************************************************)
(* Theorems about ReleaseChain for any number of detours.                  *)
(*                                                                         *)
(* The commits that pins and receipts name stay untyped: a wrong pin or    *)
(* name may be anything, and what a check accepts has been seen in the     *)
(* history by that check.                                                  *)
(***************************************************************************)
EXTENDS ReleaseChain, TLAPS

-----------------------------------------------------------------------------
(* The inductive invariant *)

Written ==
    /\ \E S : graph \in Seq(S)
    /\ \E S : issued \in Seq(S)
    /\ main \in DOMAIN graph

\* Every receipt of a tree is one of the m written.
Tree(t, m) ==
    /\ t = [frozen |-> t.frozen, docs |-> t.docs, other |-> t.other,
            controls |-> t.controls, pin |-> t.pin, receipt |-> t.receipt]
    /\ t.controls \in 0..7
    /\ t.pin = [k \in Pins |-> t.pin[k]]
    /\ t.receipt \in [Published -> 0..m]

\* The controls of a stage are merged only on the receipts of the stages
\* before it; the contract comes with its controls.
Founded(t) ==
    \A k \in Published : k < t.controls \/ (k = 3 /\ t.controls >= 3) => t.receipt[k] # 0

\* History: controls, their pins and the contract are never taken back.
Follows(t, u) ==
    /\ t.controls <= u.controls
    /\ \A k \in Pins : k <= t.controls => u.pin[k] = t.pin[k]
    /\ t.controls >= 3 => u.receipt[3] = t.receipt[3]

Trees ==
    \A c \in DOMAIN graph : Tree(TreeOf(c), Len(issued)) /\ Founded(TreeOf(c))

History ==
    \A c \in DOMAIN graph :
        /\ c \in graph[c].anc
        /\ graph[c].anc \subseteq DOMAIN graph
        /\ \A a \in graph[c].anc : graph[a].anc \subseteq graph[c].anc
        /\ \A a \in graph[c].anc : Follows(TreeOf(a), TreeOf(c))

\* The contract comes after the release.
ReleasedFirst ==
    \/ released = 0 /\ \A c \in DOMAIN graph : TreeOf(c).controls < 3
    \/ released # 0 /\ released \in DOMAIN graph

\* A completion receipt stands on CI at its commit, and CI stays passed.
CompletedPassed ==
    \A r \in completions :
        /\ r.commit \in DOMAIN graph
        /\ TreeOf(r.commit).controls = 7
        /\ CIPass(r.commit)

IInv == Written /\ Trees /\ History /\ ReleasedFirst /\ CompletedPassed

\* What is written is never changed.
Grows ==
    /\ \A c \in DOMAIN graph : c \in DOMAIN graph' /\ graph'[c] = graph[c]
    /\ \A i \in 1..Len(issued) : issued'[i] = issued[i]
    /\ released # 0 => released' = released

-----------------------------------------------------------------------------
(* Sequences *)

\* Appending keeps the positions before it.
LEMMA AppendLemma ==
    ASSUME NEW S, NEW s \in Seq(S), NEW e
    PROVE  /\ Append(s, e) \in Seq(S \cup {e})
           /\ Len(s) \in Nat
           /\ DOMAIN s = 1..Len(s)
           /\ Len(Append(s, e)) = Len(s) + 1
           /\ DOMAIN Append(s, e) = 1..(Len(s) + 1)
           /\ \A i \in 1..Len(s) : Append(s, e)[i] = s[i]
           /\ Append(s, e)[Len(s) + 1] = e
<1>1. s \in Seq(S \cup {e}) /\ e \in S \cup {e}
  OBVIOUS
<1>2. Append(s, e) \in Seq(S \cup {e})
  BY <1>1
<1>3. QED
  BY <1>1, <1>2

\* Issuing a receipt changes no digest, and the receipt has one.
LEMMA IssueLemma ==
    ASSUME \E S : issued \in Seq(S), NEW content, Issue(content)
    PROVE  /\ \E S : issued' \in Seq(S)
           /\ Len(issued) \in Nat /\ Len(issued') \in Nat
           /\ Len(issued) <= Len(issued')
           /\ \A i \in 1..Len(issued) : issued'[i] = issued[i]
           /\ Digest(content) \in 1..Len(issued')
<1>s. PICK Q : issued \in Seq(Q)
  OBVIOUS
<1>0. Len(issued) \in Nat /\ DOMAIN issued = 1..Len(issued)
  BY <1>s
<1>d. PICK d : d = Digest(content)
  OBVIOUS
<1>n. PICK n \in Nat : n = Len(issued)
  BY <1>0
<1>i. issued' = IF d > n THEN Append(issued, content) ELSE issued
  BY <1>d, <1>n DEF Issue
<1>1. CASE \E i \in DOMAIN issued : issued[i] = content
  <2>1. d \in 1..n
    BY <1>0, <1>1, <1>d, <1>n DEF Digest
  <2>2. issued' = issued
    BY <1>i, <2>1
  <2>3. QED
    BY <1>0, <1>d, <1>n, <2>1, <2>2
<1>2. CASE ~\E i \in DOMAIN issued : issued[i] = content
  <2>1. d = n + 1
    BY <1>2, <1>d, <1>n DEF Digest
  <2>2. issued' = Append(issued, content)
    BY <1>i, <2>1
  <2>a. /\ Append(issued, content) \in Seq(Q \cup {content})
        /\ Len(Append(issued, content)) = Len(issued) + 1
        /\ \A i \in 1..Len(issued) : Append(issued, content)[i] = issued[i]
    BY <1>s, AppendLemma
  <2>3. /\ \E S : issued' \in Seq(S)
        /\ Len(issued') = n + 1
        /\ \A i \in 1..n : issued'[i] = issued[i]
    BY <2>a, <2>2, <1>n, Zenon
  <2>4. QED
    BY <1>d, <1>n, <2>1, <2>3
<1>3. QED
  BY <1>1, <1>2

-----------------------------------------------------------------------------
(* What has been checked stays so: the checks at a commit read its tree,   *)
(* the trees of its ancestors and receipts by digest.                      *)

LEMMA Kept ==
    ASSUME Written, Trees, History, Grows, NEW c \in DOMAIN graph
    PROVE  /\ c \in DOMAIN graph'
           /\ TreeOf(c)' = TreeOf(c)
           /\ Pin(c)' = Pin(c)
           /\ \A a : Ancestor(a, c)' = Ancestor(a, c)
           /\ \A a : Ancestor(a, c) => a \in DOMAIN graph
           /\ \A k \in Published : Has(k, c)' = Has(k, c)
           /\ \A k \in Published : Has(k, c) => ReceiptAt(k, c)' = ReceiptAt(k, c)
<1>1. /\ c \in DOMAIN graph'
      /\ graph'[c] = graph[c]
  BY DEF Grows
<1>2. TreeOf(c)' = TreeOf(c)
  BY <1>1 DEF TreeOf
<1>3. ASSUME NEW k \in Published, Has(k, c)
      PROVE  ReceiptAt(k, c)' = ReceiptAt(k, c)
  <2>0. Len(issued) \in Nat
    BY DEF Written
  <2>1. TreeOf(c).receipt[k] \in 0..Len(issued)
    BY DEF Trees, Tree
  <2>2. TreeOf(c).receipt[k] \in 1..Len(issued)
    BY <1>3, <2>0, <2>1 DEF Has
  <2>3. QED
    BY <1>2, <2>2 DEF Grows, ReceiptAt
<1>4. QED
  BY <1>1, <1>2, <1>3 DEF Pin, Ancestor, Has, History

LEMMA ContentKept ==
    ASSUME NEW c, TreeOf(c)' = TreeOf(c)
    PROVE  \A n : /\ ClosureReceipt(n, c)' = ClosureReceipt(n, c)
                  /\ ReleaseReceipt(n, c)' = ReleaseReceipt(n, c)
                  /\ ContractReceipt(c)' = ContractReceipt(c)
                  /\ GapReceipt(n, c)' = GapReceipt(n, c)
                  /\ HandoffReceipt(n, c)' = HandoffReceipt(n, c)
                  /\ CandidateReceipt(n, c)' = CandidateReceipt(n, c)
<1>1. \A n, k, b : Content(k, n, b, c)' = Content(k, n, b, c)
  BY DEF Content
<1>2. TrackedTree(c)' = TrackedTree(c)
  BY DEF TrackedTree
<1>3. QED
  BY <1>1, <1>2 DEF ClosureReceipt, ReleaseReceipt, ContractReceipt, GapReceipt,
       HandoffReceipt, CandidateReceipt


LEMMA ClosureKept ==
    ASSUME Written, Trees, History, Grows, NEW c \in DOMAIN graph, ClosureHolds(c)
    PROVE  ClosureHolds(c)'
<1>1. PICK n : n = ReceiptAt(1, c).names
  OBVIOUS
<1>2. Has(1, c) /\ TreeOf(c).frozen = 0 /\ ReceiptAt(1, c) = ClosureReceipt(n, c)
  BY <1>1 DEF ClosureHolds, ClosureBuilds, RuntimeFrozen
<1>3. 1 \in Published
  BY DEF Published
<1>4. TreeOf(c)' = TreeOf(c) /\ Has(1, c)' /\ ReceiptAt(1, c)' = ReceiptAt(1, c)
  BY <1>2, <1>3, Kept
<1>5. ClosureReceipt(n, c)' = ClosureReceipt(n, c)
  BY <1>4, ContentKept
<1>6. ReceiptAt(1, c)'.names = n
  BY <1>1, <1>4
<1>7. ReceiptAt(1, c)' = ClosureReceipt(n, c)'
  BY <1>2, <1>4, <1>5
<1>8. QED
  BY <1>2, <1>4, <1>6, <1>7 DEF ClosureHolds, ClosureBuilds, RuntimeFrozen

LEMMA ReleaseBuildsKept ==
    ASSUME Written, Trees, History, Grows, NEW c \in DOMAIN graph, NEW p, NEW n,
           ReleaseBuilds(p, n, c)
    PROVE  ReleaseBuilds(p, n, c)'
<1>1. Ancestor(p[2], n) /\ Ancestor(n, c) /\ ClosurePinned(p, c) /\ ClosureHolds(c)
      /\ TreeOf(c).frozen = 0
  BY DEF ReleaseBuilds, RuntimeFrozen
<1>2. n \in DOMAIN graph
  BY <1>1, Kept
<1>3. p[2] \in DOMAIN graph
  BY <1>1, <1>2, Kept
<1>4. Ancestor(p[2], n)' /\ Ancestor(n, c)'
  BY <1>1, <1>2, Kept
<1>5. ClosureHolds(c)'
  BY <1>1, ClosureKept
<1>6. TreeOf(c)' = TreeOf(c) /\ TreeOf(p[2])' = TreeOf(p[2])
  BY <1>3, Kept
<1>7. ClosurePinned(p, c)'
  BY <1>1, <1>6 DEF ClosurePinned, Has
<1>8. QED
  BY <1>1, <1>4, <1>5, <1>6, <1>7 DEF ReleaseBuilds, RuntimeFrozen

LEMMA ReleaseKept ==
    ASSUME Written, Trees, History, Grows, NEW c \in DOMAIN graph, NEW p, ReleaseHolds(p, c)
    PROVE  ReleaseHolds(p, c)'
<1>1. PICK n : n = ReceiptAt(2, c).names
  OBVIOUS
<1>2. Has(2, c) /\ ReleaseBuilds(p, n, c) /\ ReceiptAt(2, c) = ReleaseReceipt(n, c)
  BY <1>1 DEF ReleaseHolds
<1>3. 2 \in Published
  BY DEF Published
<1>4. TreeOf(c)' = TreeOf(c) /\ Has(2, c)' /\ ReceiptAt(2, c)' = ReceiptAt(2, c)
  BY <1>2, <1>3, Kept
<1>5. ReleaseReceipt(n, c)' = ReleaseReceipt(n, c)
  BY <1>4, ContentKept
<1>6. ReceiptAt(2, c)'.names = n /\ ReceiptAt(2, c)' = ReleaseReceipt(n, c)'
  BY <1>1, <1>2, <1>4, <1>5
<1>7. ReleaseBuilds(p, n, c)'
  BY <1>2, ReleaseBuildsKept
<1>8. QED
  BY <1>4, <1>6, <1>7 DEF ReleaseHolds

LEMMA ContractKept ==
    ASSUME Written, Trees, History, Grows, NEW c \in DOMAIN graph, ContractHolds(c)
    PROVE  ContractHolds(c)'
<1>1. Has(3, c) /\ ReceiptAt(3, c) = ContractReceipt(c)
  BY DEF ContractHolds
<1>2. 3 \in Published
  BY DEF Published
<1>3. TreeOf(c)' = TreeOf(c) /\ Has(3, c)' /\ ReceiptAt(3, c)' = ReceiptAt(3, c)
  BY <1>1, <1>2, Kept
<1>4. ContractReceipt(c)' = ContractReceipt(c)
  BY <1>3, ContentKept
<1>5. QED
  BY <1>1, <1>3, <1>4 DEF ContractHolds

LEMMA GapsKept ==
    ASSUME Written, Trees, History, Grows, NEW c \in DOMAIN graph, NEW p, GapsHold(p, c)
    PROVE  GapsHold(p, c)'
<1>1. PICK n : n = ReceiptAt(4, c).names
  OBVIOUS
<1>2. /\ Has(4, c) /\ ContractHolds(c) /\ ReceiptAt(4, c) = GapReceipt(n, c)
      /\ n \notin {p[4], p[3]} /\ Ancestor(p[4], n) /\ Ancestor(n, c)
  BY <1>1 DEF GapsHold, GapsRebuild, GapsBuild, Between
<1>3. 4 \in Published
  BY DEF Published
<1>4. TreeOf(c)' = TreeOf(c) /\ Has(4, c)' /\ ReceiptAt(4, c)' = ReceiptAt(4, c)
  BY <1>2, <1>3, Kept
<1>5. GapReceipt(n, c)' = GapReceipt(n, c)
  BY <1>4, ContentKept
<1>6. ReceiptAt(4, c)'.names = n /\ ReceiptAt(4, c)' = GapReceipt(n, c)'
  BY <1>1, <1>2, <1>4, <1>5
<1>7. n \in DOMAIN graph
  BY <1>2, Kept
<1>8. Ancestor(p[4], n)' /\ Ancestor(n, c)'
  BY <1>2, <1>7, Kept
<1>9. ContractHolds(c)'
  BY <1>2, ContractKept
<1>10. QED
  BY <1>2, <1>4, <1>6, <1>8, <1>9 DEF GapsHold, GapsRebuild, GapsBuild, Between

LEMMA HandoffKept ==
    ASSUME Written, Trees, History, Grows, NEW c \in DOMAIN graph, NEW p, HandoffHolds(p, c)
    PROVE  HandoffHolds(p, c)'
<1>1. PICK n : n = ReceiptAt(5, c).names
  OBVIOUS
<1>2. /\ Has(5, c) /\ ContractHolds(c) /\ GapsHold(p, c)
      /\ ReceiptAt(5, c) = HandoffReceipt(n, c)
      /\ n # p[5] /\ Ancestor(p[5], n) /\ Ancestor(n, c)
  BY <1>1 DEF HandoffHolds, HandoffRebuilds, HandoffBuilds, Between
<1>3. 5 \in Published
  BY DEF Published
<1>4. TreeOf(c)' = TreeOf(c) /\ Has(5, c)' /\ ReceiptAt(5, c)' = ReceiptAt(5, c)
  BY <1>2, <1>3, Kept
<1>5. HandoffReceipt(n, c)' = HandoffReceipt(n, c)
  BY <1>4, ContentKept
<1>6. ReceiptAt(5, c)'.names = n /\ ReceiptAt(5, c)' = HandoffReceipt(n, c)'
  BY <1>1, <1>2, <1>4, <1>5
<1>7. n \in DOMAIN graph
  BY <1>2, Kept
<1>8. Ancestor(p[5], n)' /\ Ancestor(n, c)'
  BY <1>2, <1>7, Kept
<1>9. ContractHolds(c)' /\ GapsHold(p, c)'
  BY <1>2, ContractKept, GapsKept
<1>10. QED
  BY <1>2, <1>4, <1>6, <1>8, <1>9 DEF HandoffHolds, HandoffRebuilds, HandoffBuilds, Between

LEMMA CandidateBuildsKept ==
    ASSUME Written, Trees, History, Grows, NEW c \in DOMAIN graph, NEW p, CandidateBuilds(p, c)
    PROVE  CandidateBuilds(p, c)'
<1>1. ContractHolds(c) /\ GapsHold(p, c) /\ HandoffHolds(p, c) /\ TreeOf(c).controls >= 6
  BY DEF CandidateBuilds
<1>2. ContractHolds(c)' /\ GapsHold(p, c)' /\ HandoffHolds(p, c)'
  BY <1>1, ContractKept, GapsKept, HandoffKept
<1>3. TreeOf(c)' = TreeOf(c)
  BY Kept
<1>4. QED
  BY <1>1, <1>2, <1>3 DEF CandidateBuilds

LEMMA CandidateKept ==
    ASSUME Written, Trees, History, Grows, NEW c \in DOMAIN graph, NEW p, CandidateHolds(p, c)
    PROVE  CandidateHolds(p, c)'
<1>1. PICK n : n = ReceiptAt(6, c).names
  OBVIOUS
<1>2. /\ Has(6, c) /\ n # p[6] /\ CandidateBuilds(p, n)
      /\ ReceiptAt(6, c) = CandidateReceipt(n, n)
      /\ Ancestor(p[6], n) /\ Ancestor(n, c)
  BY <1>1 DEF CandidateHolds, CandidateRebuilds, HistoricalWorktree, Between
<1>3. 6 \in Published
  BY DEF Published
<1>4. Has(6, c)' /\ ReceiptAt(6, c)' = ReceiptAt(6, c)
  BY <1>2, <1>3, Kept
<1>5. n \in DOMAIN graph
  BY <1>2, Kept
<1>6. TreeOf(n)' = TreeOf(n) /\ Ancestor(p[6], n)' /\ Ancestor(n, c)'
  BY <1>2, <1>5, Kept
<1>7. CandidateReceipt(n, n)' = CandidateReceipt(n, n)
  BY <1>6, ContentKept
<1>8. CandidateBuilds(p, n)'
  BY <1>2, <1>5, CandidateBuildsKept
<1>9. ReceiptAt(6, c)'.names = n /\ ReceiptAt(6, c)' = CandidateReceipt(n, n)'
  BY <1>1, <1>2, <1>4, <1>7
<1>10. QED
  BY <1>2, <1>4, <1>6, <1>8, <1>9 DEF CandidateHolds, CandidateRebuilds, HistoricalWorktree, Between

\* A commit of the completed kind whose CI passed would pass again.
LEMMA CIKept ==
    ASSUME Written, Trees, History, ReleasedFirst, Grows,
           NEW c \in DOMAIN graph, TreeOf(c).controls = 7, CIPass(c)
    PROVE  CIPass(c)'
<1>1. PICK p : p = Pin(c)
  OBVIOUS
<1>2. /\ TreeOf(c)' = TreeOf(c) /\ Pin(c)' = p
      /\ \A a : Ancestor(a, c) => Ancestor(a, c)' /\ a \in DOMAIN graph /\ TreeOf(a)' = TreeOf(a)
      /\ \A k \in Published : Has(k, c)' = Has(k, c)
  <2>1. c \in DOMAIN graph' /\ TreeOf(c)' = TreeOf(c) /\ Pin(c)' = Pin(c)
    BY Kept
  <2>2. ASSUME NEW a, Ancestor(a, c)
        PROVE  Ancestor(a, c)' /\ a \in DOMAIN graph /\ TreeOf(a)' = TreeOf(a)
    <3>1. Ancestor(a, c)' /\ a \in DOMAIN graph
      BY <2>2, Kept
    <3>2. QED
      BY <3>1, Kept
  <2>3. \A k \in Published : Has(k, c)' = Has(k, c)
    BY Kept
  <2>4. QED
    BY <1>1, <2>1, <2>2, <2>3
<1>3. \A k \in 1..7 : TreeOf(c).controls >= k
  OBVIOUS
<1>4. /\ RuntimeFrozen(c) /\ ClosureControls(c)
      /\ ReleaseControls(p, c)
      /\ ContractControls(p, c)
      /\ GapControls(p, c)
      /\ HandoffControls(p, c)
      /\ CandidateControls(p, c)
      /\ CompletionControls(p, c)
  BY <1>1, <1>3 DEF CIPass
<1>5. (RuntimeFrozen(c) /\ ClosureControls(c))'
  <2>1. RuntimeFrozen(c)'
    BY <1>2, <1>4 DEF RuntimeFrozen
  <2>2. Has(1, c)' = Has(1, c)
    BY <1>2 DEF Published
  <2>3. CASE ~Has(1, c)
    BY <2>1, <2>2, <2>3 DEF ClosureControls
  <2>4. CASE Has(1, c)
    <3>1. ClosureHolds(c)
      BY <1>4, <2>4 DEF ClosureControls
    <3>2. ClosureHolds(c)'
      BY <3>1, ClosureKept
    <3>3. QED
      BY <2>1, <3>2 DEF ClosureControls
  <2>5. QED
    BY <2>3, <2>4
<1>6. ReleaseControls(p, c)'
  <2>1. ReleaseBuilds(p, c, c)'
    BY <1>4, ReleaseBuildsKept DEF ReleaseControls
  <2>2. Has(2, c)' = Has(2, c)
    BY <1>2 DEF Published
  <2>3. CASE ~Has(2, c)
    BY <2>1, <2>2, <2>3 DEF ReleaseControls
  <2>4. CASE Has(2, c)
    <3>1. ReleaseHolds(p, c)'
      BY <1>4, <2>4, ReleaseKept DEF ReleaseControls
    <3>2. QED
      BY <2>1, <3>1 DEF ReleaseControls
  <2>5. QED
    BY <2>3, <2>4
<1>7. ContractControls(p, c)'
  <2>1. SameFrozen(p[3], c) /\ p[3] = released /\ ContractHolds(c)
    BY <1>4 DEF ContractControls
  <2>2. released # 0 /\ released \in DOMAIN graph
    BY DEF ReleasedFirst
  <2>3. p[3] \in DOMAIN graph /\ released' = p[3]
    BY <2>1, <2>2 DEF Grows
  <2>4. TreeOf(p[3])' = TreeOf(p[3])
    BY <2>3, Kept
  <2>5. ContractHolds(c)'
    BY <2>1, ContractKept
  <2>6. QED
    BY <1>2, <2>1, <2>3, <2>4, <2>5 DEF ContractControls, SameFrozen
<1>8. GapControls(p, c)'
  <2>1. Ancestor(p[4], c) /\ SameFrozen(p[4], c) /\ ContractHolds(c) /\ (Has(4, c) => GapsHold(p, c))
    BY <1>4 DEF GapControls, GapsBuild
  <2>2. Ancestor(p[4], c)' /\ SameFrozen(p[4], c)'
    BY <1>2, <2>1 DEF SameFrozen
  <2>3. ContractHolds(c)'
    BY <2>1, ContractKept
  <2>4. Has(4, c)' => GapsHold(p, c)'
    <3>1. Has(4, c)' = Has(4, c)
      BY <1>2 DEF Published
    <3>2. GapsHold(p, c) => GapsHold(p, c)'
      BY GapsKept
    <3>3. QED
      BY <2>1, <3>1, <3>2
  <2>5. QED
    BY <2>2, <2>3, <2>4 DEF GapControls, GapsBuild
<1>9. HandoffControls(p, c)'
  <2>1. /\ Ancestor(p[5], c) /\ SameFrozen(p[5], c) /\ ContractHolds(c) /\ GapsHold(p, c)
        /\ Has(5, c) => HandoffHolds(p, c)
    BY <1>4 DEF HandoffControls, HandoffBuilds
  <2>2. Ancestor(p[5], c)' /\ SameFrozen(p[5], c)'
    BY <1>2, <2>1 DEF SameFrozen
  <2>3. ContractHolds(c)' /\ GapsHold(p, c)'
    BY <2>1, ContractKept, GapsKept
  <2>4. Has(5, c)' => HandoffHolds(p, c)'
    <3>1. Has(5, c)' = Has(5, c)
      BY <1>2 DEF Published
    <3>2. HandoffHolds(p, c) => HandoffHolds(p, c)'
      BY HandoffKept
    <3>3. QED
      BY <2>1, <3>1, <3>2
  <2>5. QED
    BY <2>2, <2>3, <2>4 DEF HandoffControls, HandoffBuilds
<1>10. CandidateControls(p, c)'
  <2>1. /\ Ancestor(p[6], c) /\ SameFrozen(p[6], c) /\ HandoffPreserved(p, c) /\ CandidateBuilds(p, c)
        /\ Has(6, c) => CandidateHolds(p, c)
    BY <1>4 DEF CandidateControls
  <2>2. TreeOf(p[6])' = TreeOf(p[6])
    BY <1>2, <2>1
  <2>3. Ancestor(p[6], c)' /\ SameFrozen(p[6], c)' /\ HandoffPreserved(p, c)'
    BY <1>2, <2>1, <2>2 DEF SameFrozen, HandoffPreserved
  <2>4. CandidateBuilds(p, c)'
    BY <2>1, CandidateBuildsKept
  <2>5. Has(6, c)' => CandidateHolds(p, c)'
    <3>1. Has(6, c)' = Has(6, c)
      BY <1>2 DEF Published
    <3>2. CandidateHolds(p, c) => CandidateHolds(p, c)'
      BY CandidateKept
    <3>3. QED
      BY <2>1, <3>1, <3>2
  <2>6. QED
    BY <2>3, <2>4, <2>5 DEF CandidateControls
<1>11. CompletionControls(p, c)'
  <2>1. /\ Ancestor(p[7], c) /\ SameFrozen(p[7], c)
        /\ \A k \in 3..6 : TreeOf(c).receipt[k] = TreeOf(p[7]).receipt[k]
        /\ ContractHolds(c) /\ GapsHold(p, c) /\ HandoffHolds(p, c) /\ CandidateHolds(p, c)
    BY <1>4 DEF CompletionControls, ReadinessBuilds, PredecessorsHold
  <2>2. /\ Ancestor(p[7], c)' /\ SameFrozen(p[7], c)'
        /\ \A k \in 3..6 : TreeOf(c)'.receipt[k] = TreeOf(p[7])'.receipt[k]
    BY <1>2, <2>1 DEF SameFrozen
  <2>3. (ContractHolds(c) /\ GapsHold(p, c) /\ HandoffHolds(p, c) /\ CandidateHolds(p, c))'
    BY <2>1, ContractKept, GapsKept, HandoffKept, CandidateKept
  <2>4. QED
    BY <2>2, <2>3 DEF CompletionControls, ReadinessBuilds, PredecessorsHold
<1>12. QED
  BY <1>2, <1>5, <1>6, <1>7, <1>8, <1>9, <1>10, <1>11 DEF CIPass

-----------------------------------------------------------------------------
(* One more commit *)

\* A tree that may follow main.
Successor(t) ==
    /\ Follows(TreeOf(main), t)
    /\ Founded(t)
    /\ t.controls >= 3 => released # 0

LEMMA CommitLemma ==
    ASSUME IInv, NEW t, NEW m \in Nat, Successor(t), Tree(t, m),
           graph' = Append(graph, Commit(t, main)),
           main' = main \/ main' = Len(graph) + 1,
           \E S : issued' \in Seq(S),
           Len(issued) <= m, Len(issued') = m,
           \A i \in 1..Len(issued) : issued'[i] = issued[i],
           UNCHANGED <<released, completions>>
    PROVE  IInv'
<1>1. PICK S : graph \in Seq(S)
  BY DEF IInv, Written
<1>2. PICK n \in Nat : n = Len(graph)
  BY <1>1
<1>3. PICK h \in 1..n : h = main
  BY <1>1, <1>2 DEF IInv, Written
<1>4. DOMAIN graph = 1..n
  BY <1>1, <1>2
<1>5. PICK A : A = graph[h].anc
  OBVIOUS
<1>6. PICK new : new = [anc |-> A \cup {n + 1}, tree |-> t]
  OBVIOUS
<1>7. Commit(t, main) = new
  BY <1>2, <1>3, <1>5, <1>6 DEF Commit
<1>8. /\ graph' \in Seq(S \cup {new})
      /\ DOMAIN graph' = 1..(n + 1)
      /\ \A c \in 1..n : graph'[c] = graph[c]
      /\ graph'[n + 1] = new
  BY <1>1, <1>2, <1>7, AppendLemma
<1>9. Grows
  BY <1>4, <1>8 DEF Grows
<1>10. Written'
  BY <1>2, <1>3, <1>8 DEF Written
<1>11. /\ \A c \in 1..n : TreeOf(c)' = TreeOf(c)
       /\ TreeOf(n + 1)' = t
  BY <1>6, <1>8 DEF TreeOf
<1>12. Trees'
  <2>1. ASSUME NEW c \in 1..n
        PROVE  Tree(TreeOf(c)', m) /\ Founded(TreeOf(c)')
    <3>1. PICK u : u = TreeOf(c)
      OBVIOUS
    <3>2. PICK l : l = Len(issued)
      OBVIOUS
    <3>3. Tree(u, l) /\ Founded(u)
      BY <1>4, <3>1, <3>2 DEF IInv, Trees
    <3>4. l \in Nat /\ l <= m
      BY <3>2 DEF IInv, Written
    <3>5. Tree(u, m)
      BY <3>3, <3>4 DEF Tree
    <3>6. QED
      BY <1>11, <3>1, <3>3, <3>5
  <2>2. Tree(TreeOf(n + 1)', m) /\ Founded(TreeOf(n + 1)')
    BY <1>11 DEF Successor
  <2>3. \A c \in 1..(n + 1) : Tree(TreeOf(c)', m) /\ Founded(TreeOf(c)')
    <3>1. \A c \in 1..(n + 1) : c \in 1..n \/ c = n + 1
      OBVIOUS
    <3>2. QED
      BY <2>1, <2>2, <3>1, Zenon
  <2>4. QED
    BY <1>8, <2>3 DEF Trees, Founded
<1>13. History'
  <2>1. A \subseteq 1..n /\ h \in A
        /\ \A a \in A : graph[a].anc \subseteq A /\ Follows(TreeOf(a), TreeOf(h))
    BY <1>3, <1>4, <1>5 DEF IInv, History
  <2>2. ASSUME NEW c \in 1..n
        PROVE  /\ c \in graph'[c].anc
               /\ graph'[c].anc \subseteq 1..(n + 1)
               /\ \A a \in graph'[c].anc : graph'[a].anc \subseteq graph'[c].anc
               /\ \A a \in graph'[c].anc : Follows(TreeOf(a)', TreeOf(c)')
    <3>1. /\ c \in graph[c].anc /\ graph[c].anc \subseteq 1..n
          /\ \A a \in graph[c].anc : graph[a].anc \subseteq graph[c].anc /\ Follows(TreeOf(a), TreeOf(c))
      BY <1>4 DEF IInv, History
    <3>2. QED
      BY <1>8, <1>11, <3>1
  <2>3. /\ n + 1 \in graph'[n + 1].anc
        /\ graph'[n + 1].anc = A \cup {n + 1}
    BY <1>6, <1>8
  <2>4. \A a \in A : graph'[a].anc \subseteq A
    BY <1>8, <2>1
  <2>5. ASSUME NEW a \in A
        PROVE  Follows(TreeOf(a)', t)
    <3>1. PICK u, v : u = TreeOf(a) /\ v = TreeOf(h)
      OBVIOUS
    <3>2. Follows(u, v) /\ Follows(v, t)
      BY <1>3, <2>1, <3>1 DEF Successor
    <3>3. u.controls \in 0..7 /\ v.controls \in 0..7 /\ t.controls \in 0..7
      BY <1>3, <1>4, <2>1, <3>1 DEF IInv, Trees, Tree
    <3>a. u.controls <= v.controls /\ v.controls <= t.controls
      BY <3>2 DEF Follows
    <3>b. u.controls <= t.controls
      BY <3>3, <3>a
    <3>c. \A k \in Pins : k <= u.controls => t.pin[k] = u.pin[k]
      <4>1. ASSUME NEW k \in Pins, k <= u.controls
            PROVE  t.pin[k] = u.pin[k]
        <5>1. k <= v.controls
          BY <3>3, <3>a, <4>1 DEF Pins
        <5>2. QED
          BY <3>2, <4>1, <5>1 DEF Follows
      <4>2. QED
        BY <4>1
    <3>d. u.controls >= 3 => t.receipt[3] = u.receipt[3]
      BY <3>2, <3>3, <3>a DEF Follows
    <3>4. Follows(u, t)
      BY <3>b, <3>c, <3>d DEF Follows
    <3>5. QED
      BY <1>11, <2>1, <3>1, <3>4
  <2>6. Follows(t, t)
    BY DEF Follows, Tree
  <2>7. /\ n + 1 \in graph'[n + 1].anc
        /\ graph'[n + 1].anc \subseteq 1..(n + 1)
        /\ \A a \in graph'[n + 1].anc : graph'[a].anc \subseteq graph'[n + 1].anc
        /\ \A a \in graph'[n + 1].anc : Follows(TreeOf(a)', TreeOf(n + 1)')
    <3>0. 1..n \subseteq 1..(n + 1) /\ n + 1 \in 1..(n + 1)
      OBVIOUS
    <3>1. graph'[n + 1].anc \subseteq 1..(n + 1)
      BY <2>1, <2>3, <3>0, Zenon
    <3>2. ASSUME NEW a \in graph'[n + 1].anc
          PROVE  graph'[a].anc \subseteq graph'[n + 1].anc /\ Follows(TreeOf(a)', TreeOf(n + 1)')
      <4>1. CASE a \in A
        BY <1>11, <2>3, <2>4, <2>5, <4>1
      <4>2. CASE a = n + 1
        BY <1>11, <2>6, <4>2
      <4>3. QED
        BY <2>3, <3>2, <4>1, <4>2
    <3>3. QED
      BY <2>3, <3>1, <3>2
  <2>8. \A c \in 1..(n + 1) :
           /\ c \in graph'[c].anc
           /\ graph'[c].anc \subseteq 1..(n + 1)
           /\ \A a \in graph'[c].anc : graph'[a].anc \subseteq graph'[c].anc
           /\ \A a \in graph'[c].anc : Follows(TreeOf(a)', TreeOf(c)')
    <3>1. \A c \in 1..(n + 1) : c \in 1..n \/ c = n + 1
      OBVIOUS
    <3>2. QED
      BY <2>2, <2>7, <3>1, Zenon
  <2>9. QED
    BY <1>8, <2>8 DEF History
<1>14. ReleasedFirst'
  <2>1. CASE released = 0 /\ \A c \in DOMAIN graph : TreeOf(c).controls < 3
    <3>1. t.controls < 3
      <4>1. t.controls \in 0..7
        BY DEF Tree
      <4>2. QED
        BY <2>1, <4>1 DEF Successor
    <3>2. \A c \in 1..(n + 1) : TreeOf(c)'.controls < 3
      <4>1. \A c \in 1..n : TreeOf(c)'.controls < 3
        BY <1>4, <1>11, <2>1
      <4>2. \A c \in 1..(n + 1) : c \in 1..n \/ c = n + 1
        OBVIOUS
      <4>3. QED
        BY <1>11, <3>1, <4>1, <4>2
    <3>3. QED
      BY <1>8, <2>1, <3>2 DEF ReleasedFirst
  <2>2. CASE released # 0 /\ released \in DOMAIN graph
    BY <1>4, <1>8, <2>2 DEF ReleasedFirst
  <2>3. QED
    BY <2>1, <2>2 DEF IInv, ReleasedFirst
<1>15. CompletedPassed'
  <2>1. ASSUME NEW r \in completions'
        PROVE  (r.commit \in DOMAIN graph /\ TreeOf(r.commit).controls = 7 /\ CIPass(r.commit))'
    <3>1. PICK c : c = r.commit
      OBVIOUS
    <3>2. c \in DOMAIN graph /\ TreeOf(c).controls = 7 /\ CIPass(c)
      BY <2>1, <3>1 DEF IInv, CompletedPassed
    <3>3. CIPass(c)'
      BY <1>9, <3>2, CIKept DEF IInv
    <3>4. QED
      BY <1>4, <1>8, <1>11, <3>1, <3>2, <3>3
  <2>2. QED
    BY <2>1 DEF CompletedPassed
<1>16. QED
  BY <1>10, <1>12, <1>13, <1>14, <1>15 DEF IInv

-----------------------------------------------------------------------------
(* The trees that the steps build *)

LEMMA MainTree ==
    ASSUME IInv
    PROVE  /\ main \in DOMAIN graph
           /\ Tree(TreeOf(main), Len(issued)) /\ Founded(TreeOf(main))
           /\ Len(issued) \in Nat
BY DEF IInv, Written, Trees

\* What is known of the tree T at main when l receipts were issued, by parts.
Parts(T, l, fr, dc, ot, ct, pn, rc) ==
    /\ T = [frozen |-> fr, docs |-> dc, other |-> ot,
            controls |-> ct, pin |-> pn, receipt |-> rc]
    /\ ct \in 0..7
    /\ pn = [k \in Pins |-> pn[k]]
    /\ rc \in [Published -> 0..l]
    /\ \A k \in Published : k < ct \/ (k = 3 /\ ct >= 3) => rc[k] # 0
    /\ ct >= 3 => released # 0

LEMMA PartsLemma ==
    ASSUME IInv, NEW T, NEW l, T = TreeOf(main), l = Len(issued)
    PROVE  Parts(T, l, T.frozen, T.docs, T.other, T.controls, T.pin, T.receipt)
<1>1. Tree(T, l) /\ Founded(T)
  BY MainTree
<1>2. T.controls >= 3 => released # 0
  <2>1. T.controls \in 0..7
    BY <1>1 DEF Tree
  <2>2. QED
    BY <2>1, MainTree DEF IInv, ReleasedFirst
<1>3. QED
  BY <1>1, <1>2 DEF Parts, Tree, Founded

\* A tree that keeps what the tree at main holds, controls and pins included.
LEMMA SuccessorLemma ==
    ASSUME IInv, NEW t, NEW T, T = TreeOf(main),
           T.controls \in 0..7, t.controls \in 0..7, T.controls <= t.controls,
           \A k \in Pins : k <= T.controls => t.pin[k] = T.pin[k],
           T.controls >= 3 => t.receipt[3] = T.receipt[3],
           \A k \in Published : k < t.controls \/ (k = 3 /\ t.controls >= 3) => t.receipt[k] # 0,
           t.controls >= 3 => released # 0
    PROVE  Successor(t)
BY DEF Successor, Follows, Founded

\* New controls on a tree that is ready for them.
LEMMA ControlsLemma ==
    ASSUME IInv, NEW k, NEW pin, NEW m \in Nat, NEW t, Ready(k),
           t = WithControls(k, pin),
           Len(issued) <= m,
           k = 3 => Digest(ContractReceipt(main)) \in 1..m
    PROVE  Successor(t) /\ Tree(t, m)
<1>1. PICK T : T = TreeOf(main)
  OBVIOUS
<1>l. PICK l \in Nat : l = Len(issued)
  BY MainTree
<1>p. PICK fr, dc, ot, ct, pn, rc :
         fr = T.frozen /\ dc = T.docs /\ ot = T.other
         /\ ct = T.controls /\ pn = T.pin /\ rc = T.receipt
  OBVIOUS
<1>q. Parts(T, l, fr, dc, ot, ct, pn, rc)
  BY <1>1, <1>l, <1>p, PartsLemma
<1>2. /\ T = [frozen |-> fr, docs |-> dc, other |-> ot,
              controls |-> ct, pin |-> pn, receipt |-> rc]
      /\ ct \in 0..7
      /\ pn = [j \in Pins |-> pn[j]]
      /\ rc \in [Published -> 0..l]
      /\ \A j \in Published : j < ct \/ (j = 3 /\ ct >= 3) => rc[j] # 0
      /\ ct >= 3 => released # 0
  BY <1>q DEF Parts
<1>a. T.controls = ct /\ T.pin = pn /\ T.receipt = rc
  BY <1>p
<1>3. k \in 1..7 /\ k = ct + 1
  BY <1>1, <1>2, <1>a DEF Ready
<1>4. (\A j \in 1..(k - 1) : rc[j] # 0) /\ (k >= 3 => released # 0)
  BY <1>1, <1>a DEF Ready, Has
<1>5. PICK d : d = Digest(ContractReceipt(main))
  OBVIOUS
<1>6. PICK P : P = IF k = 1 THEN pn ELSE [pn EXCEPT ![k] = pin]
  OBVIOUS
<1>7. PICK R : R = IF k = 3 THEN [rc EXCEPT ![3] = d] ELSE rc
  OBVIOUS
<1>8. t = [frozen |-> fr, docs |-> dc, other |-> ot, controls |-> k, pin |-> P, receipt |-> R]
  <2>2. PICK w : w = [T EXCEPT !.controls = k]
    OBVIOUS
  <2>3. w = [frozen |-> fr, docs |-> dc, other |-> ot,
             controls |-> k, pin |-> pn, receipt |-> rc]
    BY <1>2, <2>2
  <2>4. PICK v : v = IF k = 1 THEN w ELSE [w EXCEPT !.pin[k] = pin]
    OBVIOUS
  <2>5. v = [frozen |-> fr, docs |-> dc, other |-> ot,
             controls |-> k, pin |-> P, receipt |-> rc]
    BY <1>6, <2>3, <2>4
  <2>6. [frozen |-> fr, docs |-> dc, other |-> ot, controls |-> k, pin |-> P, receipt |-> R]
          = IF k = 3 THEN [v EXCEPT !.receipt[3] = d] ELSE v
    BY <1>7, <2>5
  <2>7. t = IF k = 3 THEN [v EXCEPT !.receipt[3] = d] ELSE v
    BY <1>1, <1>5, <2>2, <2>4 DEF WithControls
  <2>8. QED
    BY <2>6, <2>7
<1>10. P = [j \in Pins |-> P[j]] /\ \A j \in Pins : j # k => P[j] = pn[j]
  BY <1>2, <1>6
<1>11. /\ R \in [Published -> 0..m]
       /\ \A j \in Published : j # 3 => R[j] = rc[j]
       /\ k = 3 => R[3] # 0
       /\ k # 3 => R = rc
  <2>1. l <= m
    BY <1>l
  <2>2. \A i \in 0..l : i \in 0..m
    BY <2>1
  <2>3. rc \in [Published -> 0..m]
    BY <1>2, <2>2
  <2>4. CASE k = 3
    <3>1. d \in 0..m /\ d # 0
      BY <1>5, <2>4
    <3>2. R = [rc EXCEPT ![3] = d] /\ 3 \in Published
      BY <1>7, <2>4 DEF Published
    <3>3. R[3] = d /\ \A j \in Published : j # 3 => R[j] = rc[j]
      BY <2>3, <3>2
    <3>4. R \in [Published -> 0..m]
      BY <2>3, <3>1, <3>2
    <3>5. QED
      BY <2>4, <3>1, <3>3, <3>4
  <2>5. CASE k # 3
    BY <1>7, <2>3, <2>5
  <2>6. QED
    BY <2>4, <2>5
<1>f. /\ t.frozen = fr /\ t.docs = dc /\ t.other = ot
      /\ t.controls = k /\ t.pin = P /\ t.receipt = R
  BY <1>8
<1>12. Tree(t, m) /\ t.controls = k /\ t.pin = P /\ t.receipt = R
  <2>1. k \in 0..7
    BY <1>3
  <2>2. QED
    BY <1>8, <1>f, <1>10, <1>11, <2>1 DEF Tree
<1>13. \A j \in Published : j < k \/ (j = 3 /\ k >= 3) => R[j] # 0
  <2>1. ASSUME NEW j \in Published, j < k \/ (j = 3 /\ k >= 3)
        PROVE  R[j] # 0
    <3>1. CASE j < k
      <4>1. j \in 1..(k - 1)
        BY <1>3, <3>1 DEF Published
      <4>2. rc[j] # 0
        BY <1>4, <4>1
      <4>3. QED
        BY <1>11, <4>2
    <3>2. CASE j = 3 /\ k = 3
      BY <1>11, <3>2
    <3>3. QED
      BY <1>3, <2>1, <3>1, <3>2 DEF Published
  <2>2. QED
    BY <2>1
<1>14. \A j \in Pins : j <= ct => P[j] = pn[j]
  BY <1>2, <1>3, <1>10 DEF Pins
<1>15. ct >= 3 => R[3] = rc[3]
  BY <1>2, <1>3, <1>11
<1>16. ct <= k /\ k \in 0..7
  BY <1>2, <1>3
<1>17. Successor(t)
  BY <1>1, <1>2, <1>a, <1>4, <1>12, <1>13, <1>14, <1>15, <1>16, SuccessorLemma, Zenon
<1>18. QED
  BY <1>12, <1>17

\* A receipt merged after the controls of its stage.
LEMMA ReceiptLemma ==
    ASSUME IInv, NEW k \in Published \ {3}, NEW m \in Nat, NEW d \in 1..m, NEW t,
           t = [TreeOf(main) EXCEPT !.receipt[k] = d],
           Len(issued) <= m
    PROVE  Successor(t) /\ Tree(t, m)
<1>1. PICK T : T = TreeOf(main)
  OBVIOUS
<1>l. PICK l \in Nat : l = Len(issued)
  BY MainTree
<1>p. PICK fr, dc, ot, ct, pn, rc :
         fr = T.frozen /\ dc = T.docs /\ ot = T.other
         /\ ct = T.controls /\ pn = T.pin /\ rc = T.receipt
  OBVIOUS
<1>q. Parts(T, l, fr, dc, ot, ct, pn, rc)
  BY <1>1, <1>l, <1>p, PartsLemma
<1>2. /\ T = [frozen |-> fr, docs |-> dc, other |-> ot,
              controls |-> ct, pin |-> pn, receipt |-> rc]
      /\ ct \in 0..7
      /\ pn = [j \in Pins |-> pn[j]]
      /\ rc \in [Published -> 0..l]
      /\ \A j \in Published : j < ct \/ (j = 3 /\ ct >= 3) => rc[j] # 0
      /\ ct >= 3 => released # 0
  BY <1>q DEF Parts
<1>a. T.controls = ct /\ T.pin = pn /\ T.receipt = rc
  BY <1>p
<1>3. PICK R : R = [rc EXCEPT ![k] = d]
  OBVIOUS
<1>4. t = [frozen |-> fr, docs |-> dc, other |-> ot, controls |-> ct, pin |-> pn, receipt |-> R]
  <2>1. t = [T EXCEPT !.receipt[k] = d]
    BY <1>1
  <2>2. QED
    BY <1>2, <1>3, <2>1
<1>f. /\ t.frozen = fr /\ t.docs = dc /\ t.other = ot
      /\ t.controls = ct /\ t.pin = pn /\ t.receipt = R
  BY <1>4
<1>5. /\ R \in [Published -> 0..m]
      /\ \A j \in Published : j # k => R[j] = rc[j]
      /\ R[k] # 0
  <2>1. l <= m
    BY <1>l
  <2>2. \A i \in 0..l : i \in 0..m
    BY <2>1
  <2>3. rc \in [Published -> 0..m]
    BY <1>2, <2>2
  <2>4. d \in 0..m /\ d # 0
    OBVIOUS
  <2>5. QED
    BY <1>3, <2>3, <2>4
<1>6. Tree(t, m) /\ t.controls = ct /\ t.pin = pn /\ t.receipt = R
  BY <1>2, <1>4, <1>f, <1>5 DEF Tree
<1>7. \A j \in Published : j < ct \/ (j = 3 /\ ct >= 3) => R[j] # 0
  BY <1>2, <1>5, Zenon
<1>8. R[3] = rc[3]
  BY <1>5 DEF Published
<1>9. ct <= ct
  BY <1>2
<1>10. Successor(t)
  BY <1>1, <1>2, <1>a, <1>6, <1>7, <1>8, <1>9, SuccessorLemma, Zenon
<1>11. QED
  BY <1>6, <1>10

\* An edit touches none of what the invariant speaks of.
LEMMA EditLemma ==
    ASSUME IInv, NEW part \in {"frozen", "docs", "other"}, NEW t,
           NEW m \in Nat, m = Len(issued),
           t = [TreeOf(main) EXCEPT ![part] = 1 - @]
    PROVE  Successor(t) /\ Tree(t, m)
<1>1. PICK T : T = TreeOf(main)
  OBVIOUS
<1>p. PICK fr, dc, ot, ct, pn, rc :
         fr = T.frozen /\ dc = T.docs /\ ot = T.other
         /\ ct = T.controls /\ pn = T.pin /\ rc = T.receipt
  OBVIOUS
<1>q. Parts(T, m, fr, dc, ot, ct, pn, rc)
  BY <1>1, <1>p, PartsLemma
<1>2. /\ T = [frozen |-> fr, docs |-> dc, other |-> ot,
              controls |-> ct, pin |-> pn, receipt |-> rc]
      /\ ct \in 0..7
      /\ pn = [j \in Pins |-> pn[j]]
      /\ rc \in [Published -> 0..m]
      /\ \A j \in Published : j < ct \/ (j = 3 /\ ct >= 3) => rc[j] # 0
      /\ ct >= 3 => released # 0
  BY <1>q DEF Parts
<1>a. T.controls = ct /\ T.pin = pn /\ T.receipt = rc
  BY <1>p
<1>3. PICK e : e = 1 - T[part]
  OBVIOUS
<1>4. t = [T EXCEPT ![part] = e]
  BY <1>1, <1>3
<1>5. PICK f, o, u : t = [frozen |-> f, docs |-> o, other |-> u,
                          controls |-> ct, pin |-> pn, receipt |-> rc]
  <2>1. CASE part = "frozen"
    <3>1. t = [frozen |-> e, docs |-> dc, other |-> ot,
               controls |-> ct, pin |-> pn, receipt |-> rc]
      BY <1>2, <1>4, <2>1
    <3>2. QED
      BY <3>1, Zenon
  <2>2. CASE part = "docs"
    <3>1. t = [frozen |-> fr, docs |-> e, other |-> ot,
               controls |-> ct, pin |-> pn, receipt |-> rc]
      BY <1>2, <1>4, <2>2
    <3>2. QED
      BY <3>1, Zenon
  <2>3. CASE part = "other"
    <3>1. t = [frozen |-> fr, docs |-> dc, other |-> e,
               controls |-> ct, pin |-> pn, receipt |-> rc]
      BY <1>2, <1>4, <2>3
    <3>2. QED
      BY <3>1, Zenon
  <2>4. QED
    BY <2>1, <2>2, <2>3
<1>f. /\ t.frozen = f /\ t.docs = o /\ t.other = u
      /\ t.controls = ct /\ t.pin = pn /\ t.receipt = rc
  BY <1>5
<1>6. Tree(t, m) /\ t.controls = ct /\ t.pin = pn /\ t.receipt = rc
  BY <1>2, <1>5, <1>f DEF Tree
<1>7. ct <= ct
  BY <1>2
<1>8. Successor(t)
  BY <1>1, <1>2, <1>a, <1>6, <1>7, SuccessorLemma, Zenon
<1>9. QED
  BY <1>6, <1>8

-----------------------------------------------------------------------------
(* Steps *)

\* Steps that write no commit and no receipt.
LEMMA OutsideLemma ==
    ASSUME IInv, UNCHANGED <<graph, main, issued>>,
           released # 0 => released' = released,
           released' # released => released' \in DOMAIN graph /\ released' # 0,
           \A r \in completions' :
               r \in completions \/ ( /\ r.commit \in DOMAIN graph
                                      /\ TreeOf(r.commit).controls = 7
                                      /\ CIPass(r.commit) )
    PROVE  IInv'
<1>1. Grows
  BY DEF Grows
<1>2. Written' /\ Trees' /\ History'
  BY DEF IInv, Written, Trees, Tree, Founded, History, Follows, TreeOf
<1>3. ReleasedFirst'
  BY DEF IInv, ReleasedFirst, TreeOf
<1>4. ASSUME NEW r \in completions'
      PROVE  (r.commit \in DOMAIN graph /\ TreeOf(r.commit).controls = 7 /\ CIPass(r.commit))'
  <2>1. PICK c : c = r.commit
    OBVIOUS
  <2>2. c \in DOMAIN graph /\ TreeOf(c).controls = 7 /\ CIPass(c)
    BY <2>1 DEF IInv, CompletedPassed
  <2>3. CIPass(c)'
    BY <1>1, <2>2, CIKept DEF IInv
  <2>4. QED
    BY <2>1, <2>2, <2>3 DEF TreeOf
<1>5. QED
  BY <1>2, <1>3, <1>4 DEF IInv, CompletedPassed

LEMMA LandLemma ==
    ASSUME IInv, NEW k, NEW pin, Land(k, pin)
    PROVE  IInv'
<1>0. \E S : issued \in Seq(S)
  BY DEF IInv, Written
<1>1. Ready(k)
  BY DEF Land
<1>2. /\ \E S : issued' \in Seq(S)
      /\ Len(issued) <= Len(issued') /\ Len(issued') \in Nat
      /\ \A i \in 1..Len(issued) : issued'[i] = issued[i]
      /\ k = 3 => Digest(ContractReceipt(main)) \in 1..Len(issued')
  <2>1. CASE k = 3
    BY <1>0, <2>1, IssueLemma DEF Land
  <2>2. CASE k # 3
    BY <1>0, <2>2 DEF Land
  <2>3. QED
    BY <2>1, <2>2
<1>3. PICK t : t = WithControls(k, pin)
  OBVIOUS
<1>m. PICK m \in Nat : m = Len(issued')
  BY <1>2
<1>4. Successor(t) /\ Tree(t, m)
  BY <1>1, <1>2, <1>3, <1>m, ControlsLemma
<1>5. /\ graph' = Append(graph, Commit(t, main)) /\ main' = Len(graph) + 1
      /\ UNCHANGED <<released, completions>>
  BY <1>3 DEF Land, OnMain
<1>6. QED
  BY <1>2, <1>m, <1>4, <1>5, CommitLemma

LEMMA PublishLemma ==
    ASSUME IInv, NEW k \in Published \ {3}, NEW names, Publish(k, names)
    PROVE  IInv'
<1>0. \E S : issued \in Seq(S)
  BY DEF IInv, Written
<1>1. PICK content : content = ReceiptFor(k, names)
  OBVIOUS
<1>2. PICK d : d = Digest(content)
  OBVIOUS
<1>3. PICK t : t = [TreeOf(main) EXCEPT !.receipt[k] = d]
  OBVIOUS
<1>4. /\ Issue(content)
      /\ graph' = Append(graph, Commit(t, main)) /\ main' = Len(graph) + 1
      /\ UNCHANGED <<released, completions>>
  BY <1>1, <1>2, <1>3 DEF Publish, OnMain
<1>5. /\ \E S : issued' \in Seq(S)
      /\ Len(issued) <= Len(issued') /\ Len(issued') \in Nat
      /\ \A i \in 1..Len(issued) : issued'[i] = issued[i]
      /\ d \in 1..Len(issued')
  BY <1>0, <1>2, <1>4, IssueLemma
<1>m. PICK m \in Nat : m = Len(issued')
  BY <1>5
<1>6. Successor(t) /\ Tree(t, m)
  BY <1>3, <1>5, <1>m, ReceiptLemma
<1>7. QED
  BY <1>4, <1>5, <1>6, <1>m, CommitLemma

LEMMA CompleteLemma ==
    ASSUME IInv, NEW c \in DOMAIN graph, NEW run, Complete(c, run)
    PROVE  IInv'
<1>1. TreeOf(c).controls = 7 /\ CIPass(c)
  <2>1. run.head = c /\ run.success
    BY DEF Complete, CompletionBuilds, WorkflowAuthority
  <2>2. run.success => CIPass(run.head)
    BY DEF Complete, Observable
  <2>3. CIPass(c)
    BY <2>1, <2>2, Zenon
  <2>4. QED
    BY <2>3 DEF Complete
<1>2. PICK new : new = [commit |-> c, run |-> run.head, receipts |-> TreeOf(c).receipt]
  OBVIOUS
<1>3. new.commit = c
  BY <1>2
<1>4. completions' = completions \union {new} /\ UNCHANGED <<graph, main, issued, released>>
  BY <1>2 DEF Complete
<1>5. \A r \in completions' :
        r \in completions \/ ( /\ r.commit \in DOMAIN graph
                               /\ TreeOf(r.commit).controls = 7
                               /\ CIPass(r.commit) )
  BY <1>1, <1>3, <1>4, Zenon
<1>6. QED
  BY <1>4, <1>5, OutsideLemma

LEMMA EditStep ==
    ASSUME IInv, NEW part \in {"frozen", "docs", "other"}, Edit(part)
    PROVE  IInv'
<1>1. PICK t : t = [TreeOf(main) EXCEPT ![part] = 1 - @]
  OBVIOUS
<1>2. /\ graph' = Append(graph, Commit(t, main)) /\ main' = Len(graph) + 1
      /\ UNCHANGED <<issued, released, completions>>
  BY <1>1 DEF Edit, OnMain
<1>4. (\E S : issued' \in Seq(S)) /\ Len(issued) \in Nat
  BY <1>2 DEF IInv, Written
<1>m. PICK m \in Nat : m = Len(issued)
  BY <1>4
<1>3. Successor(t) /\ Tree(t, m)
  BY <1>1, <1>m, EditLemma
<1>5. QED
  BY <1>2, <1>3, <1>4, <1>m, CommitLemma

LEMMA UnmergedLemma ==
    ASSUME IInv, NEW k, LeaveUnmerged(k)
    PROVE  IInv'
<1>1. PICK pin : pin = ScriptedPin(k)
  OBVIOUS
<1>2. PICK t : t = WithControls(k, pin)
  OBVIOUS
<1>3. /\ k # 3 /\ Ready(k)
      /\ graph' = Append(graph, Commit(t, main)) /\ main' = main
      /\ UNCHANGED <<issued, released, completions>>
  BY <1>1, <1>2 DEF LeaveUnmerged
<1>4. (\E S : issued' \in Seq(S)) /\ Len(issued) \in Nat
  BY <1>3 DEF IInv, Written
<1>m. PICK m \in Nat : m = Len(issued)
  BY <1>4
<1>5. Successor(t) /\ Tree(t, m)
  BY <1>2, <1>3, <1>m, ControlsLemma
<1>6. QED
  BY <1>3, <1>4, <1>5, <1>m, CommitLemma

-----------------------------------------------------------------------------
LEMMA InitLemma ==
    ASSUME Init
    PROVE  IInv
<1>1. PICK one : one = [anc |-> {1}, tree |-> FirstTree]
  OBVIOUS
<1>2. graph = <<one>> /\ main = 1 /\ issued = <<>> /\ released = 0 /\ completions = {}
  BY <1>1 DEF Init
<1>3. graph \in Seq({one}) /\ Len(graph) = 1 /\ DOMAIN graph = {1} /\ graph[1] = one
  BY <1>2
<1>4. issued \in Seq({}) /\ Len(issued) = 0
  BY <1>2
<1>5. Written
  BY <1>2, <1>3, <1>4 DEF Written
<1>6. TreeOf(1) = FirstTree
  BY <1>1, <1>3 DEF TreeOf
<1>7. Tree(FirstTree, Len(issued)) /\ Founded(FirstTree) /\ FirstTree.controls = 0
  BY <1>4 DEF Tree, Founded, FirstTree, Published, Pins
<1>8. Trees
  BY <1>3, <1>6, <1>7 DEF Trees
<1>9. Follows(FirstTree, FirstTree)
  BY <1>7 DEF Follows
<1>10. History
  BY <1>1, <1>3, <1>6, <1>9 DEF History
<1>11. ReleasedFirst
  BY <1>2, <1>3, <1>6, <1>7 DEF ReleasedFirst
<1>12. CompletedPassed
  BY <1>2 DEF CompletedPassed
<1>13. QED
  BY <1>5, <1>8, <1>10, <1>11, <1>12 DEF IInv

LEMMA StepLemma ==
    ASSUME IInv, [Next]_vars
    PROVE  IInv'
<1>1. CASE Scripted
  <2>1. ASSUME NEW k, NEW pin, Land(k, pin)
        PROVE  IInv'
    BY <2>1, LandLemma
  <2>2. ASSUME NEW k \in Published \ {3}, NEW names, Publish(k, names)
        PROVE  IInv'
    BY <2>2, PublishLemma
  <2>3. CASE TagRelease
    <3>1. main \in DOMAIN graph /\ main # 0
      BY DEF IInv, Written
    <3>2. QED
      BY <2>3, <3>1, OutsideLemma DEF TagRelease
  <2>4. ASSUME NEW run, Complete(main, run)
        PROVE  IInv'
    BY <2>4, MainTree, CompleteLemma
  <2>5. ASSUME NEW r, TagCompletion(r)
        PROVE  IInv'
    BY <2>5, OutsideLemma DEF TagCompletion
  <2>6. QED
    BY <1>1, <2>1, <2>2, <2>3, <2>4, <2>5 DEF Scripted
<1>2. ASSUME NEW part \in {"frozen", "docs", "other"}, Edit(part)
      PROVE  IInv'
  BY <1>2, EditStep
<1>3. ASSUME NEW k \in Pins, LeaveUnmerged(k)
      PROVE  IInv'
  BY <1>3, UnmergedLemma
<1>4. ASSUME NEW k, NEW pin, LandMispinned(k, pin)
      PROVE  IInv'
  BY <1>4, LandLemma DEF LandMispinned
<1>5. ASSUME NEW k \in Published \ {3}, NEW names, PublishMisnamed(k, names)
      PROVE  IInv'
  BY <1>5, PublishLemma DEF PublishMisnamed
<1>6. ASSUME NEW c \in DOMAIN graph, NEW run, CompleteElsewhere(c, run)
      PROVE  IInv'
  BY <1>6, CompleteLemma DEF CompleteElsewhere
<1>7. CASE UNCHANGED vars
  BY <1>7, OutsideLemma DEF vars
<1>8. QED
  BY <1>1, <1>2, <1>3, <1>4, <1>5, <1>6, <1>7 DEF Next

-----------------------------------------------------------------------------
(* Theorems *)

\* What is written stays, every receipt and pin rests on those before it,
\* and CI stays passed at every commit that was completed.
THEOREM ReleaseInvariance == Spec => []IInv
<1>1. Init => IInv
  BY InitLemma
<1>2. IInv /\ [Next]_vars => IInv'
  BY StepLemma
<1>3. QED
  BY <1>1, <1>2, PTL DEF Spec

\* A completed project has the runtime that was executed in the account.
THEOREM FrozenTheorem == Spec => []CompletedIsFrozen
<1>1. IInv => CompletedIsFrozen
  <2>1. ASSUME IInv, NEW r \in completions
        PROVE  RuntimeFrozen(r.commit)
    <3>1. TreeOf(r.commit).controls = 7 /\ CIPass(r.commit)
      BY <2>1 DEF IInv, CompletedPassed
    <3>2. QED
      BY <3>1 DEF CIPass
  <2>2. QED
    BY <2>1 DEF CompletedIsFrozen
<1>2. QED
  BY <1>1, ReleaseInvariance, PTL

\* A candidate verified with some pins in one checkout is verified with them
\* in every later checkout with the same receipt: it is rebuilt in the tree
\* of the commit it names.
LEMMA LaterCheckout ==
    ASSUME IInv, NEW c, NEW h \in DOMAIN graph, c \in graph[h].anc, NEW p, NEW q,
           TreeOf(c).receipt[6] = TreeOf(h).receipt[6],
           \A k \in 3..6 : p[k] = q[k],
           CandidateHolds(p, c)
    PROVE  CandidateHolds(q, h)
<1>1. p[3] = q[3] /\ p[4] = q[4] /\ p[5] = q[5] /\ p[6] = q[6]
  OBVIOUS
<1>2. ReceiptAt(6, h) = ReceiptAt(6, c) /\ (Has(6, c) => Has(6, h))
  BY DEF ReceiptAt, Has
<1>3. PICK n : n = ReceiptAt(6, c).names
  OBVIOUS
<1>4. /\ Has(6, c) /\ n # p[6] /\ CandidateBuilds(p, n)
      /\ ReceiptAt(6, c) = CandidateReceipt(n, n)
      /\ Ancestor(p[6], n) /\ Ancestor(n, c)
  BY <1>3 DEF CandidateHolds, CandidateRebuilds, HistoricalWorktree, Between
<1>5. CandidateBuilds(q, n)
  BY <1>1, <1>4 DEF CandidateBuilds, GapsHold, HandoffHolds, HandoffRebuilds, HandoffBuilds, Between
<1>6. Ancestor(n, h)
  BY <1>4 DEF IInv, History, Ancestor
<1>7. QED
  BY <1>1, <1>2, <1>3, <1>4, <1>5, <1>6
     DEF CandidateHolds, CandidateRebuilds, HistoricalWorktree, Between

\* A verified candidate stays verified under everything merged later.
THEOREM CandidateTheorem == Spec => []CandidateStands
<1>1. ASSUME IInv
      PROVE  CandidateStands
  <2>1. main \in DOMAIN graph
    BY <1>1 DEF IInv, Written
  <2>2. ASSUME NEW c \in graph[main].anc,
               TreeOf(c).receipt[6] = TreeOf(main).receipt[6],
               \A k \in 3..6 : Pin(c)[k] = Pin(main)[k],
               CandidateHolds(Pin(c), c)
        PROVE  CandidateHolds(Pin(main), main)
    BY <1>1, <2>1, <2>2, LaterCheckout
  <2>3. QED
    BY <2>2 DEF CandidateStands
<1>2. QED
  BY <1>1, ReleaseInvariance, PTL

-----------------------------------------------------------------------------
(* The chain of receipts *)

\* What the contract, the gaps and the handoff record where they hold.
LEMMA Links ==
    ASSUME NEW c, NEW p
    PROVE  /\ ContractHolds(c) =>
                /\ ReceiptAt(3, c).preds[1] = TreeOf(c).receipt[1]
                /\ ReceiptAt(3, c).preds[2] = TreeOf(c).receipt[2]
           /\ ContractHolds(c) => \A j \in Published : ReceiptAt(3, c).preds[j] \in {0, TreeOf(c).receipt[j]}
           /\ GapsHold(p, c) => \A j \in Published : ReceiptAt(4, c).preds[j] \in {0, TreeOf(c).receipt[j]}
           /\ HandoffHolds(p, c) => \A j \in Published : ReceiptAt(5, c).preds[j] \in {0, TreeOf(c).receipt[j]}
           /\ HandoffHolds(p, c) => ReceiptAt(5, c).preds[4] = TreeOf(c).receipt[4]
<1>1. PICK T : T = TreeOf(c)
  OBVIOUS
<1>2. \A k, n, b : /\ Content(k, n, b, c).preds = [j \in Published |-> IF j \in b THEN T.receipt[j] ELSE 0]
                   /\ [Content(k, n, b, c) EXCEPT !.docs = T.docs].preds
                        = [j \in Published |-> IF j \in b THEN T.receipt[j] ELSE 0]
  BY <1>1 DEF Content
<1>3. ASSUME ContractHolds(c)
      PROVE  ReceiptAt(3, c).preds = [j \in Published |-> IF j \in {1, 2} THEN T.receipt[j] ELSE 0]
  BY <1>2, <1>3 DEF ContractHolds, ContractReceipt
<1>4. ASSUME GapsHold(p, c)
      PROVE  ReceiptAt(4, c).preds = [j \in Published |-> IF j \in {1, 2, 3} THEN T.receipt[j] ELSE 0]
  <2>1. PICK n : n = ReceiptAt(4, c).names
    OBVIOUS
  <2>2. ReceiptAt(4, c) = GapReceipt(n, c)
    BY <1>4, <2>1 DEF GapsHold, GapsRebuild
  <2>3. QED
    BY <1>2, <2>2 DEF GapReceipt
<1>5. ASSUME HandoffHolds(p, c)
      PROVE  ReceiptAt(5, c).preds = [j \in Published |-> IF j \in {1, 2, 3, 4} THEN T.receipt[j] ELSE 0]
  <2>1. PICK n : n = ReceiptAt(5, c).names
    OBVIOUS
  <2>2. ReceiptAt(5, c) = HandoffReceipt(n, c)
    BY <1>5, <2>1 DEF HandoffHolds, HandoffRebuilds
  <2>3. [Content(5, n, {1, 2, 3, 4}, c) EXCEPT !.docs = T.docs].preds
          = [j \in Published |-> IF j \in {1, 2, 3, 4} THEN T.receipt[j] ELSE 0]
    BY <1>2
  <2>4. HandoffReceipt(n, c) = [Content(5, n, {1, 2, 3, 4}, c) EXCEPT !.docs = T.docs]
    BY <1>1 DEF HandoffReceipt
  <2>5. QED
    BY <2>2, <2>3, <2>4, Zenon
<1>6. /\ ContractHolds(c) => \A j \in Published : ReceiptAt(3, c).preds[j] \in {0, T.receipt[j]}
      /\ GapsHold(p, c) => \A j \in Published : ReceiptAt(4, c).preds[j] \in {0, T.receipt[j]}
      /\ HandoffHolds(p, c) => \A j \in Published : ReceiptAt(5, c).preds[j] \in {0, T.receipt[j]}
  <2>1. ASSUME ContractHolds(c), NEW j \in Published
        PROVE  ReceiptAt(3, c).preds[j] \in {0, T.receipt[j]}
    BY <1>3, <2>1
  <2>2. ASSUME GapsHold(p, c), NEW j \in Published
        PROVE  ReceiptAt(4, c).preds[j] \in {0, T.receipt[j]}
    BY <1>4, <2>2
  <2>3. ASSUME HandoffHolds(p, c), NEW j \in Published
        PROVE  ReceiptAt(5, c).preds[j] \in {0, T.receipt[j]}
    BY <1>5, <2>3
  <2>4. QED
    BY <2>1, <2>2, <2>3
<1>7. ContractHolds(c) => ReceiptAt(3, c).preds[1] = T.receipt[1] /\ ReceiptAt(3, c).preds[2] = T.receipt[2]
  BY <1>3 DEF Published
<1>8. HandoffHolds(p, c) => ReceiptAt(5, c).preds[4] = T.receipt[4]
  BY <1>5 DEF Published
<1>9. QED
  BY <1>1, <1>6, <1>7, <1>8, Zenon

\* The candidate of a completed tree binds the predecessors of that tree.
LEMMA CandidateLinks ==
    ASSUME IInv, NEW c \in DOMAIN graph, TreeOf(c).controls = 7, CIPass(c),
           NEW j \in Published, j \in {4, 5} => CandidateGreen(c)
    PROVE  ReceiptAt(6, c).preds[j] \in {0, TreeOf(c).receipt[j]}
<1>1. PICK p : p = Pin(c)
  OBVIOUS
<1>2. PICK y : y = ReceiptAt(6, c).names
  OBVIOUS
<1>3. ReadinessBuilds(p, c) /\ CandidateControls(p, c)
  BY <1>1 DEF CIPass, CompletionControls
<1>4. /\ ContractHolds(c) /\ GapsHold(p, c) /\ HandoffHolds(p, c)
      /\ CandidateBuilds(p, y) /\ ReceiptAt(6, c) = CandidateReceipt(y, y) /\ Ancestor(y, c)
  BY <1>2, <1>3 DEF ReadinessBuilds, PredecessorsHold, CandidateHolds, CandidateRebuilds,
                    HistoricalWorktree, Between
<1>5. ReceiptAt(6, c).preds[j] = IF j \in {1, 2, 3, 4, 5} THEN TreeOf(y).receipt[j] ELSE 0
  BY <1>4 DEF CandidateReceipt, Content
<1>6. y \in DOMAIN graph /\ Follows(TreeOf(y), TreeOf(c))
  BY <1>4 DEF IInv, History, Ancestor
<1>7. TreeOf(y).controls \in 6..7 /\ ContractHolds(y) /\ HandoffHolds(p, y)
  <2>1. TreeOf(y).controls \in 0..7
    BY <1>6 DEF IInv, Trees, Tree
  <2>2. TreeOf(y).controls >= 6 /\ ContractHolds(y) /\ HandoffHolds(p, y)
    BY <1>4 DEF CandidateBuilds
  <2>3. QED
    BY <2>1, <2>2
<1>8. TreeOf(y).receipt[3] = TreeOf(c).receipt[3]
  BY <1>6, <1>7 DEF Follows
<1>9. /\ TreeOf(y).receipt[1] = TreeOf(c).receipt[1]
      /\ TreeOf(y).receipt[2] = TreeOf(c).receipt[2]
  <2>1. ReceiptAt(3, y) = ReceiptAt(3, c)
    BY <1>8 DEF ReceiptAt
  <2>2. QED
    BY <1>4, <1>7, <2>1, Links
<1>10. ASSUME CandidateGreen(c)
       PROVE  /\ TreeOf(y).receipt[4] = TreeOf(c).receipt[4]
              /\ TreeOf(y).receipt[5] = TreeOf(c).receipt[5]
  <2>1. PICK q : q = Pin(y)
    OBVIOUS
  <2>2. CandidateControls(q, y)
    BY <1>2, <1>7, <1>10, <2>1 DEF CandidateGreen, CIPass
  <2>3. q[6] = p[6]
    BY <1>1, <1>6, <1>7, <2>1 DEF Follows, Pin, Pins
  <2>4. TreeOf(y).receipt[5] = TreeOf(c).receipt[5]
    BY <1>3, <2>2, <2>3 DEF CandidateControls, HandoffPreserved
  <2>5. ReceiptAt(5, y) = ReceiptAt(5, c)
    BY <2>4 DEF ReceiptAt
  <2>6. TreeOf(y).receipt[4] = TreeOf(c).receipt[4]
    BY <1>4, <1>7, <2>5, Links
  <2>7. QED
    BY <2>4, <2>6
<1>11. QED
  BY <1>5, <1>8, <1>9, <1>10 DEF Published

\* The receipts of a completed tree form one chain.
THEOREM ChainTheorem == Spec => []OneChain
<1>1. ASSUME IInv
      PROVE  OneChain
  <2>1. ASSUME NEW r \in completions, NEW k \in Published, NEW j \in Published,
               k = 6 /\ j \in {4, 5} => CandidateGreen(r.commit)
        PROVE  ReceiptAt(k, r.commit).preds[j] \in {0, TreeOf(r.commit).receipt[j]}
    <3>1. PICK c : c = r.commit
      OBVIOUS
    <3>2. PICK p : p = Pin(c)
      OBVIOUS
    <3>3. c \in DOMAIN graph /\ TreeOf(c).controls = 7 /\ CIPass(c)
      BY <1>1, <2>1, <3>1 DEF IInv, CompletedPassed
    <3>4. \A i \in Published : Has(i, c)
      BY <1>1, <3>3 DEF IInv, Trees, Founded, Has, Published
    <3>5. ContractHolds(c) /\ GapsHold(p, c) /\ HandoffHolds(p, c)
      BY <3>2, <3>3 DEF CIPass, CompletionControls, ReadinessBuilds, PredecessorsHold
    <3>6. ReceiptAt(k, c).preds[j] \in {0, TreeOf(c).receipt[j]}
      <4>1. CASE k = 1
        <5>1. ClosureHolds(c)
          BY <3>3, <3>4 DEF CIPass, ClosureControls, Published
        <5>2. PICK n : n = ReceiptAt(1, c).names
          OBVIOUS
        <5>3. ReceiptAt(1, c) = ClosureReceipt(n, c)
          BY <5>1, <5>2 DEF ClosureHolds
        <5>4. QED
          BY <4>1, <5>3 DEF ClosureReceipt, Content
      <4>2. CASE k = 2
        <5>1. ReleaseHolds(p, c)
          BY <3>2, <3>3, <3>4 DEF CIPass, ReleaseControls, Published
        <5>2. PICK n : n = ReceiptAt(2, c).names
          OBVIOUS
        <5>3. ReceiptAt(2, c) = ReleaseReceipt(n, c)
          BY <5>1, <5>2 DEF ReleaseHolds
        <5>4. QED
          BY <4>2, <5>3 DEF ReleaseReceipt, Content
      <4>3. CASE k \in 3..5
        BY <3>5, <4>3, Links
      <4>4. CASE k = 6
        BY <1>1, <2>1, <3>1, <3>3, <4>4, CandidateLinks
      <4>5. QED
        BY <4>1, <4>2, <4>3, <4>4 DEF Published
    <3>7. QED
      BY <3>1, <3>6
  <2>2. QED
    BY <2>1 DEF OneChain
<1>2. QED
  BY <1>1, ReleaseInvariance, PTL

=============================================================================
