---------------------------- MODULE MCDockerHub ----------------------------
(* Instances of DockerHub for TLC. *)
EXTENDS DockerHub

CONSTANTS logs, stats, s1, s2

=============================================================================
