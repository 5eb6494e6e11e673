-------------------------- MODULE MCObjectIdentity --------------------------
(* Instances of ObjectIdentity for TLC. *)
EXTENDS ObjectIdentity, TLC

CONSTANTS plain, recompressed, other

\* The same records in other bytes, and as many other records.
MCContents == {plain, recompressed, other}
MCRowsOf == plain :> <<2, 1>> @@ recompressed :> <<2, 1>> @@ other :> <<2, 2>>

MCSymmetry == Permutations(Jobs) \cup Permutations(Uploads)
=============================================================================
