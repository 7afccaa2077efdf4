---------------------------- MODULE MCWorkspace ----------------------------
(***************************************************************************)
(* Small instances of Workspace: one change of each origin.                *)
(***************************************************************************)
EXTENDS Workspace

OneChange == {"w1"}
OneOther == {"r1"}
OneBase == {"m1"}
NoChange == {}
=============================================================================
