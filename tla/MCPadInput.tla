----------------------------- MODULE MCPadInput -----------------------------
(* Instances of PadInput for TLC. *)
EXTENDS PadInput

\* The ends of the range, the centre, and what is next to them.
Edges == {0, 1, 127, 128, 255}
=============================================================================
