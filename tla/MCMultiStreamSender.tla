------------------------ MODULE MCMultiStreamSender ------------------------
(***************************************************************************)
(* A small sender with channels of one or two results.                     *)
(***************************************************************************)
EXTENDS MultiStreamSender, TLC
=============================================================================
