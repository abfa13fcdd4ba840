---------------------------- MODULE MCFrameLoop ----------------------------
(* Instances of FrameLoop for TLC. *)
EXTENDS FrameLoop
=============================================================================
