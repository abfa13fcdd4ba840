--------------------------- MODULE MCVulkanState ---------------------------
(* Instances of VulkanState for TLC. *)
EXTENDS VulkanState
=============================================================================
