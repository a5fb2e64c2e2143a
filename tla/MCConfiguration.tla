-------------------------- MODULE MCConfiguration --------------------------
(***************************************************************************)
(* Few objects and calls; ports and MAC addresses that are just too large. *)
(***************************************************************************)
EXTENDS Configuration, TLC

MCInputs == {-1, 0, 2}
=============================================================================
