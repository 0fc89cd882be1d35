---------------------------- MODULE MCKubeWatch ----------------------------
(* Instances of KubeWatch for TLC. *)
EXTENDS KubeWatch

CONSTANTS pods, services

=============================================================================
