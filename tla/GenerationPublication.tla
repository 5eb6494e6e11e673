----------------------- MODULE GenerationPublication -----------------------
(***************************************************************************)
(* What the control plane promises (docs/correctness.md, "Batch identity"  *)
(* and "Publication concurrency"), with no items, calls or retries in it:  *)
(* a batch is bound once and for ever to one identity, and publication is  *)
(* a log in which every accepted generation appears at most once.  The     *)
(* pointer of the code is the last entry of that log, its version the      *)
(* log's length.                                                           *)
(***************************************************************************)
EXTENDS Naturals, Sequences

CONSTANTS Batch, Digest, Location, Generation, GenerationId, NoItem

VARIABLES identity,   \* the accepted identity of each batch, or NoItem
          published   \* the publication log

vars == <<identity, published>>

Identity == [generation : Generation, digest : Digest, location : Location]

Entries(log) == {log[i] : i \in 1..Len(log)}

Accepted == {identity[b].generation : b \in {x \in Batch : identity[x] # NoItem}}

Init == /\ identity = [b \in Batch |-> NoItem]
        /\ published = << >>

\* A new batch is accepted under the generation its content derives, if no
\* other batch already owns that generation.
Accept(b, d, l) ==
    /\ identity[b] = NoItem
    /\ GenerationId[b][d] \notin Accepted
    /\ identity' = [identity EXCEPT ![b] =
                      [generation |-> GenerationId[b][d], digest |-> d, location |-> l]]
    /\ UNCHANGED published

\* An accepted generation becomes the active one, at most once ever.
Publish(g) ==
    /\ g \in Accepted
    /\ g \notin Entries(published)
    /\ published' = Append(published, g)
    /\ UNCHANGED identity

Next == \/ \E b \in Batch, d \in Digest, l \in Location : Accept(b, d, l)
        \/ \E g \in Generation : Publish(g)

Spec == Init /\ [][Next]_vars
=============================================================================
