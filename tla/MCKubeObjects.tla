---------------------------- MODULE MCKubeObjects ----------------------------
(* Instances of KubeObjects for TLC. *)
EXTENDS KubeObjects

CONSTANTS pods, jobs

=============================================================================
