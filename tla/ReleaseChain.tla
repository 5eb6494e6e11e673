---------------------------- MODULE ReleaseChain ----------------------------
(***************************************************************************)
(* The project's release and completion: seven sets of controls merged one *)
(* after the other, the receipts they publish, and the two tags.           *)
(*                                                                         *)
(*   1 Stage 7 closure       4 completion gaps     7 project completion    *)
(*   2 Stage 8 release       5 operational handoff                         *)
(*   3 completion contract   6 completion candidate                        *)
(*                                                                         *)
(* A receipt is rebuilt, not trusted: it holds when building it again from *)
(* the checkout gives the same content, and when the commit it names (the  *)
(* merge of its controls) lies between the commit pinned in the code and   *)
(* HEAD.  Every stage pins a commit of its predecessor as a constant.      *)
(*                                                                         *)
(* `graph' is the repository: commits with their ancestors (themselves     *)
(* included) and their trees.  A tree is reduced to what the checks tell   *)
(* apart: the frozen runtime surface, the runbook and other handoff        *)
(* authorities, everything else, the controls it holds, the pins in those  *)
(* controls, and the receipts by digest.  Version 0 of a part is the one   *)
(* the project froze.  A digest is a position in `issued'.                 *)
(*                                                                         *)
(* The maintainers follow the script of the runbook; `detours' counts the  *)
(* steps that leave it (an edit on main, a pull request that stays         *)
(* unmerged, a receipt naming another commit, a wrong pin, a receipt       *)
(* issued again), at most MaxDetours of them.                              *)
(***************************************************************************)
EXTENDS Naturals, FiniteSets, Sequences

CONSTANT MaxDetours    \* steps off the script

VARIABLES graph,       \* the commits, in the order they were made
          main,        \* the head of main
          issued,      \* the contents of the receipts ever written
          released,    \* the target of v0.1.0, 0 while there is none
          completions, \* the completion receipts built outside the tree
          tagged,      \* the completion receipt v0.2.0 is annotated with
          detours

vars == <<graph, main, issued, released, completions, tagged, detours>>

ASSUME ReleaseAssumption == MaxDetours \in Nat

Stages == 1..7
Published == 1..6   \* stage 7 leaves nothing in the tree
Pins == 2..7

FirstTree ==
    [frozen |-> 0, docs |-> 0, other |-> 0, controls |-> 0,
     pin |-> [k \in Pins |-> 0], receipt |-> [k \in Published |-> 0]]

NoCompletion == [commit |-> 0, run |-> 0, receipts |-> FirstTree.receipt]

TreeOf(c) == graph[c].tree
Ancestor(a, c) == a \in graph[c].anc
Pin(c) == TreeOf(c).pin
Has(k, c) == TreeOf(c).receipt[k] # 0
ReceiptAt(k, c) == issued[TreeOf(c).receipt[k]]

-----------------------------------------------------------------------------
(* What a receipt of a stage records: the controls commit it names, the    *)
(* digests of its predecessors, and for the handoff and the candidate the  *)
(* files they digest.                                                      *)

Content(stage, names, binds, c) ==
    [stage |-> stage, names |-> names,
     preds |-> [j \in Published |->
                  IF j \in binds THEN TreeOf(c).receipt[j] ELSE 0],
     docs |-> 0, tree |-> FirstTree]

\* Closure of Part 4: the commit named is the one the final read-only
\* preflight ran at, and the evidence directories it digests never change.
ClosureReceipt(names, c) == Content(1, names, {}, c)

ReleaseReceipt(names, c) == Content(2, names, {1}, c)

\* The contract is merged together with its controls and names no commit.
ContractReceipt(c) == Content(3, 0, {1, 2}, c)

GapReceipt(names, c) == Content(4, names, {1, 2, 3}, c)

HandoffReceipt(names, c) ==
    [Content(5, names, {1, 2, 3, 4}, c) EXCEPT !.docs = TreeOf(c).docs]

\* tracked_tree_sha256 covers the whole checkout but the receipt itself.
TrackedTree(c) == [TreeOf(c) EXCEPT !.receipt[6] = 0]
CandidateReceipt(names, c) ==
    [Content(6, names, {1, 2, 3, 4, 5}, c) EXCEPT !.tree = TrackedTree(c)]

-----------------------------------------------------------------------------
(* The checks, at checkout c with the pins p of the code that runs them.   *)

\* The managed runtime has the bytes that Stage 6 executed in the account.
RuntimeFrozen(c) == TreeOf(c).frozen = 0

\* The final preflight ran from main.
PreflightAuthority(names) == Ancestor(names, main)

ClosureBuilds(c) == RuntimeFrozen(c)
ClosureHolds(c) ==
    /\ Has(1, c)
    /\ ClosureBuilds(c)
    /\ ReceiptAt(1, c) = ClosureReceipt(ReceiptAt(1, c).names, c)

\* The closure receipt still has the digest the release code pins.
ClosurePinned(p, c) ==
    Has(1, c) /\ TreeOf(c).receipt[1] = TreeOf(p[2]).receipt[1]

ReleaseBuilds(p, names, c) ==
    /\ Ancestor(p[2], names)
    /\ Ancestor(names, c)
    /\ ClosurePinned(p, c)
    /\ ClosureHolds(c)
    /\ RuntimeFrozen(c)
ReleaseHolds(p, c) ==
    /\ Has(2, c)
    /\ ReleaseBuilds(p, ReceiptAt(2, c).names, c)
    /\ ReceiptAt(2, c) = ReleaseReceipt(ReceiptAt(2, c).names, c)

\* v0.1.0: an annotated tag at the checkout whose receipt holds.
PostRelease(target) == ReleaseHolds(Pin(target), target)

ContractHolds(c) == Has(3, c) /\ ReceiptAt(3, c) = ContractReceipt(c)

SwappedAncestors(from, names, c) == Ancestor(names, from) /\ Ancestor(from, c)
Between(from, names, c) == Ancestor(from, names) /\ Ancestor(names, c)

GapsBuild(c) == ContractHolds(c)
GapsRebuild(c) ==
    Has(4, c) /\ GapsBuild(c) /\ ReceiptAt(4, c) = GapReceipt(ReceiptAt(4, c).names, c)
GapsHold(p, c) ==
    /\ GapsRebuild(c)
    /\ ReceiptAt(4, c).names \notin {p[4], p[3]}
    /\ Between(p[4], ReceiptAt(4, c).names, c)

HandoffBuilds(p, c) == ContractHolds(c) /\ GapsHold(p, c)
HandoffRebuilds(p, c) ==
    /\ Has(5, c)
    /\ HandoffBuilds(p, c)
    /\ ReceiptAt(5, c) = HandoffReceipt(ReceiptAt(5, c).names, c)
HandoffHolds(p, c) ==
    /\ HandoffRebuilds(p, c)
    /\ ReceiptAt(5, c).names # p[5]
    /\ Between(p[5], ReceiptAt(5, c).names, c)

CandidateBuilds(p, c) ==
    ContractHolds(c) /\ GapsHold(p, c) /\ HandoffHolds(p, c) /\ TreeOf(c).controls >= 6

\* The receipt r rebuilt in the checkout x.
CandidateRebuilds(p, r, x) == CandidateBuilds(p, x) /\ r = CandidateReceipt(r.names, x)

\* The candidate digests the tree it was built in, which its own merge and
\* all later work change: it is rebuilt in a worktree of the commit it names.
CurrentCheckout(names, c) == c
HistoricalWorktree(names, c) == names
CandidateHolds(p, c) ==
    /\ Has(6, c)
    /\ ReceiptAt(6, c).names # p[6]
    /\ LET r == ReceiptAt(6, c)
       IN  CandidateRebuilds(p, r, HistoricalWorktree(r.names, c))
    /\ Between(p[6], ReceiptAt(6, c).names, c)

-----------------------------------------------------------------------------
(* What the controls of each stage require of the layout, and CI.          *)

SameFrozen(pinned, c) == TreeOf(c).frozen = TreeOf(pinned).frozen

ClosureControls(c) == Has(1, c) => ClosureHolds(c)

ReleaseControls(p, c) == ReleaseBuilds(p, c, c) /\ (Has(2, c) => ReleaseHolds(p, c))

ContractControls(p, c) ==
    SameFrozen(p[3], c) /\ p[3] = released /\ ContractHolds(c)

GapControls(p, c) ==
    /\ Ancestor(p[4], c)
    /\ SameFrozen(p[4], c)
    /\ GapsBuild(c)
    /\ Has(4, c) => GapsHold(p, c)

HandoffControls(p, c) ==
    /\ Ancestor(p[5], c)
    /\ SameFrozen(p[5], c)
    /\ HandoffBuilds(p, c)
    /\ Has(5, c) => HandoffHolds(p, c)

RunbookPreserved(p, c) == TreeOf(c).docs = TreeOf(p[6]).docs
\* Stage 4 also preserves the handoff receipt and the runbook it digests.
HandoffPreserved(p, c) ==
    /\ TreeOf(c).docs = TreeOf(p[6]).docs
    /\ TreeOf(c).receipt[5] = TreeOf(p[6]).receipt[5]
CandidateControls(p, c) ==
    /\ Ancestor(p[6], c)
    /\ SameFrozen(p[6], c)
    /\ HandoffPreserved(p, c)
    /\ CandidateBuilds(p, c)
    /\ Has(6, c) => CandidateHolds(p, c)

PredecessorsHold(p, c) ==
    ContractHolds(c) /\ GapsHold(p, c) /\ HandoffHolds(p, c) /\ CandidateHolds(p, c)

\* Readiness, which never claims completion, descends from the candidate.
ReadinessBuilds(p, c) == Ancestor(p[7], c) /\ PredecessorsHold(p, c)

CompletionControls(p, c) ==
    /\ Ancestor(p[7], c)
    /\ SameFrozen(p[7], c)
    /\ \A k \in 3..6 : TreeOf(c).receipt[k] = TreeOf(p[7]).receipt[k]
    /\ ReadinessBuilds(p, c)

\* The workflow at c runs the controls the tree holds and verifies every
\* receipt the tree holds.
CIPass(c) ==
    LET p == Pin(c)
        in(k) == TreeOf(c).controls >= k
    IN  /\ in(1) => RuntimeFrozen(c) /\ ClosureControls(c)
        /\ in(2) => ReleaseControls(p, c)
        /\ in(3) => ContractControls(p, c)
        /\ in(4) => GapControls(p, c)
        /\ in(5) => HandoffControls(p, c)
        /\ in(6) => CandidateControls(p, c)
        /\ in(7) => CompletionControls(p, c)

\* A workflow run succeeds only where CI passes.  A commit of main gets a
\* push run; the head of an unmerged pull request gets no push run.
Runs == [head : DOMAIN graph, event : {"push", "pull_request"}, success : BOOLEAN]
Observable(run) ==
    /\ run.event = IF Ancestor(run.head, main) THEN "push" ELSE "pull_request"
    /\ run.success => CIPass(run.head)

AnyGreenRun(run, c) == run.event = "push" /\ run.success
WorkflowAuthority(run, c) == run.event = "push" /\ run.head = c /\ run.success

CompletionBuilds(run, c) ==
    /\ WorkflowAuthority(run, c)
    /\ Ancestor(Pin(c)[7], c)
    /\ PredecessorsHold(Pin(c), c)

-----------------------------------------------------------------------------
Commit(tree, parent) == [anc |-> graph[parent].anc \union {Len(graph) + 1}, tree |-> tree]

OnMain(tree) ==
    /\ graph' = Append(graph, Commit(tree, main))
    /\ main' = Len(graph) + 1

\* The commit of main that first held the controls of stage k, and the one
\* that first held the present receipt of stage k.
First(P(_)) == CHOOSE c \in graph[main].anc :
                  P(c) /\ \A d \in graph[main].anc : P(d) => c <= d
ControlsMerge(k) == First(LAMBDA c : TreeOf(c).controls >= k)
EvidenceMerge(k) == First(LAMBDA c : TreeOf(c).receipt[k] = TreeOf(main).receipt[k])

Digest(content) ==
    IF \E i \in DOMAIN issued : issued[i] = content
    THEN CHOOSE i \in DOMAIN issued : issued[i] = content
    ELSE Len(issued) + 1
Issue(content) ==
    issued' = IF Digest(content) > Len(issued) THEN Append(issued, content) ELSE issued

\* Whether the checkout at main is ready for the controls of stage k.
Ready(k) ==
    /\ k <= 7 /\ k = TreeOf(main).controls + 1
    /\ \A j \in 1..(k - 1) : Has(j, main)
    /\ k >= 3 => released # 0

ScriptedPin(k) == IF k = 3 THEN released ELSE EvidenceMerge(k - 1)

WithControls(k, pin) ==
    LET t == [TreeOf(main) EXCEPT !.controls = k]
        u == IF k = 1 THEN t ELSE [t EXCEPT !.pin[k] = pin]
    IN  IF k = 3 THEN [u EXCEPT !.receipt[3] = Digest(ContractReceipt(main))] ELSE u

\* The pull request with the controls of stage k is merged.
Land(k, pin) ==
    /\ Ready(k)
    /\ OnMain(WithControls(k, pin))
    /\ IF k = 3 THEN Issue(ContractReceipt(main)) ELSE UNCHANGED issued
    /\ UNCHANGED <<released, completions, tagged>>

ReceiptFor(k, names) ==
    CASE k = 1 -> ClosureReceipt(names, main)
      [] k = 2 -> ReleaseReceipt(names, main)
      [] k = 4 -> GapReceipt(names, main)
      [] k = 5 -> HandoffReceipt(names, main)
      [] k = 6 -> CandidateReceipt(names, main)

Builds(k, names) ==
    LET p == Pin(main)
    IN  CASE k = 1 -> PreflightAuthority(names) /\ ClosureBuilds(main)
          [] k = 2 -> ReleaseBuilds(p, names, main)
          [] k = 4 -> GapsBuild(main)
          [] k = 5 -> HandoffBuilds(p, main)
          [] k = 6 -> CandidateBuilds(p, main)

\* The builder writes the receipt of stage k, naming a commit, from main's
\* checkout, and the receipt is merged.
Publish(k, names) ==
    /\ TreeOf(main).controls >= k
    /\ Builds(k, names)
    /\ Digest(ReceiptFor(k, names)) # TreeOf(main).receipt[k]
    /\ Issue(ReceiptFor(k, names))
    /\ OnMain([TreeOf(main) EXCEPT !.receipt[k] = Digest(ReceiptFor(k, names))])
    /\ UNCHANGED <<released, completions, tagged>>

\* v0.1.0 is pushed once its verification passes.
TagRelease ==
    /\ released = 0
    /\ TreeOf(main).controls = 2
    /\ PostRelease(main)
    /\ released' = main
    /\ UNCHANGED <<graph, main, issued, completions, tagged, detours>>

\* The completion receipt of the checked-out commit c, kept outside the tree.
Complete(c, run) ==
    /\ TreeOf(c).controls = 7
    /\ CompletionBuilds(run, c)
    /\ Observable(run)
    /\ completions' = completions \union
          {[commit |-> c, run |-> run.head, receipts |-> TreeOf(c).receipt]}
    /\ UNCHANGED <<graph, main, issued, released, tagged, detours>>

\* v0.2.0 is annotated with the commit, the run and the digest of a receipt.
TagCompletion(r) ==
    /\ tagged = NoCompletion
    /\ tagged' = r
    /\ UNCHANGED <<graph, main, issued, released, completions, detours>>

Init ==
    /\ graph = <<[anc |-> {1}, tree |-> FirstTree]>>
    /\ main = 1
    /\ issued = <<>>
    /\ released = 0
    /\ completions = {}
    /\ tagged = NoCompletion
    /\ detours = 0

\* The script: every controls set pins where its predecessor's evidence was
\* merged, every receipt names where its controls were merged.
Scripted ==
    \/ \E k \in Stages : Ready(k) /\ Land(k, IF k = 1 THEN 0 ELSE ScriptedPin(k)) /\ UNCHANGED detours
    \/ \E k \in Published \ {3} :
          /\ TreeOf(main).controls = k
          /\ ~Has(k, main)
          /\ Publish(k, ControlsMerge(k))
          /\ UNCHANGED detours
    \/ TagRelease
    \/ \E run \in Runs : Complete(main, run)
    \/ \E r \in completions : TagCompletion(r)

Detour ==
    /\ detours < MaxDetours
    /\ detours' = detours + 1

\* An edit of the frozen surface, the runbook or anything else is merged, or
\* the frozen version restored.
Edit(part) ==
    /\ Detour
    /\ OnMain([TreeOf(main) EXCEPT ![part] = 1 - @])
    /\ UNCHANGED <<issued, released, completions, tagged>>

\* A pull request with the controls of stage k that main never takes.
LeaveUnmerged(k) ==
    /\ Detour
    /\ k \notin {1, 3}
    /\ Ready(k)
    /\ graph' = Append(graph, Commit(WithControls(k, ScriptedPin(k)), main))
    /\ UNCHANGED <<main, issued, released, completions, tagged>>

\* Controls land with a pin on another commit.
LandMispinned(k, pin) ==
    Detour /\ k > 1 /\ Ready(k) /\ pin # ScriptedPin(k) /\ Land(k, pin)

\* A receipt names another commit, or a published receipt is issued again.
PublishMisnamed(k, names) ==
    /\ Detour
    /\ TreeOf(main).controls >= k
    /\ Has(k, main) \/ names # ControlsMerge(k)
    /\ Publish(k, names)

\* Completion attempted from a checkout that is not the head of main.
CompleteElsewhere(c, run) == c # main /\ Complete(c, run)

Next ==
    \/ Scripted
    \/ \E part \in {"frozen", "docs", "other"} : Edit(part)
    \/ \E k \in Pins : LeaveUnmerged(k)
    \/ \E k \in Pins, pin \in DOMAIN graph : LandMispinned(k, pin)
    \/ \E k \in Published \ {3}, names \in DOMAIN graph : PublishMisnamed(k, names)
    \/ \E c \in DOMAIN graph, run \in Runs : CompleteElsewhere(c, run)

Spec == Init /\ [][Next]_vars /\ WF_vars(Scripted)

-----------------------------------------------------------------------------
(* Properties.                                                             *)

\* A completed project still has the runtime that was executed in the
\* account.  Nothing the completion builder runs recomputes the runtime
\* digest; the push run at the very commit is what ties the two.
CompletedIsFrozen == \A r \in completions : RuntimeFrozen(r.commit)

\* The receipts of a completed tree form one chain: every predecessor digest
\* any of them records is the digest of the receipt in that tree.  The
\* candidate is verified in the tree of the commit it names: its gap and
\* handoff links need CI to have passed there, for the completion builder
\* compares them with that tree and never with its own.
CandidateGreen(c) == CIPass(ReceiptAt(6, c).names)
OneChain ==
    \A r \in completions, k \in Published, j \in Published :
        (k = 6 /\ j \in {4, 5} => CandidateGreen(r.commit)) =>
            ReceiptAt(k, r.commit).preds[j] \in {0, TreeOf(r.commit).receipt[j]}

\* A verified candidate stays verified under everything merged later, as
\* long as the receipt and the pins it is checked with are the same.
CandidateStands ==
    \A c \in graph[main].anc :
        /\ TreeOf(c).controls >= 6
        /\ TreeOf(c).receipt[6] = TreeOf(main).receipt[6]
        /\ \A k \in 3..6 : Pin(c)[k] = Pin(main)[k]
        /\ CandidateHolds(Pin(c), c)
        => CandidateHolds(Pin(main), main)

\* A release that keeps to the script ends with the completion tag.
FaithfulReleaseCompletes == <>(tagged # NoCompletion \/ detours > 0)

=============================================================================
