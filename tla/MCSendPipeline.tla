-------------------------- MODULE MCSendPipeline --------------------------
(***************************************************************************)
(* Small senders for TLC.  The runs keep FairSpec where they look at       *)
(* liveness and Spec, with symmetric goroutines, where they do not.        *)
(***************************************************************************)
EXTENDS SendPipeline, TLC

Symmetry == Permutations(Workers) \cup Permutations(Streams)
=============================================================================
