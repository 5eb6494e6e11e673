--------------------------- MODULE MCControlPlane ---------------------------
(* Instances of ControlPlane for TLC. *)
EXTENDS ControlPlane, TLC

CONSTANTS b1, b2, d1, d2, g1, g2, c1, c2

\* The derivation separates the batches, except for one content of b2.
MCCollidingId2 == [b \in Batch |-> [d \in Digest |-> IF b = b2 /\ d = d1 THEN g2 ELSE g1]]

\* The evidence of the control-plane proof, for one manifest: that of the other is missing or
\* is this one.
MCProofReports == {[digest |-> d1, complete |-> TRUE, casOnly |-> TRUE]}

MCSymmetry == Permutations(Call)
=============================================================================
