--------------------------- MODULE MCAtlasEngine ---------------------------
(* An instance of AtlasEngine for TLC. *)
EXTENDS AtlasEngine, TLC

CONSTANTS b1, b2, b3, d1, d2, d3, g1, g2, g3

MCGenerationId == b1 :> g1 @@ b2 :> g2 @@ b3 :> g3

MCSymmetry == Permutations({d1, d2})
=============================================================================
