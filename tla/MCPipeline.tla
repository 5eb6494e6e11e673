----------------------------- MODULE MCPipeline -----------------------------
(* Instances of Pipeline for TLC. *)
EXTENDS Pipeline, TLC

CONSTANTS b1, b2, d1, l1, g1, g2

\* The derivation separates the batches.
MCGenerationId == [b \in Batch |-> [d \in Digest |-> IF b = b1 THEN g1 ELSE g2]]

\* The Glue run's evidence.
MCReports == {[digest |-> d1, complete |-> TRUE, casOnly |-> FALSE]}

MCInput == [batch : Batch, digest : Digest, location : Location]

MCSymmetry == Permutations(Call) \cup Permutations(Execution)
=============================================================================
