-------------------------- MODULE MCSequenceSender -------------------------
(***************************************************************************)
(* A few packets through a channel that is shorter than the sequence.      *)
(***************************************************************************)
EXTENDS SequenceSender, TLC
=============================================================================
