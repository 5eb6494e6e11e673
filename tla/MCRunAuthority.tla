--------------------------- MODULE MCRunAuthority ---------------------------
(* The instance of RunAuthority for TLC has only numbers. *)
EXTENDS RunAuthority
=============================================================================
