---------------------------- MODULE MCFinalizer ----------------------------
(* The instances of Finalizer are given by numbers alone, in the .cfg files. *)
EXTENDS Finalizer

============================================================================
