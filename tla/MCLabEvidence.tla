--------------------------- MODULE MCLabEvidence ---------------------------
(* The instance of LabEvidence for TLC has only a number. *)
EXTENDS LabEvidence
=============================================================================
