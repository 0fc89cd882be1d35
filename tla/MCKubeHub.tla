----------------------------- MODULE MCKubeHub -----------------------------
(* Instances of KubeHub for TLC. *)
EXTENDS KubeHub

CONSTANTS logs, stats, topology, s1, s2

=============================================================================
