---------------------------- MODULE MCManagedRun ----------------------------
(* Small instances of the managed runs; the configurations choose the parties. *)
EXTENDS ManagedRun
=============================================================================
