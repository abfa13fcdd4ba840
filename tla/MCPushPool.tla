----------------------------- MODULE MCPushPool -----------------------------
(* Instances of PushPool for TLC. *)
EXTENDS PushPool
=============================================================================
