------------------------------- MODULE MCExec -------------------------------
(* Instances of KubeExec and DockerExec for TLC: one terminal of each, side by side. *)
EXTENDS KubeExec

VARIABLES browser, shell, handler, output, hungUp, detached

Docker == INSTANCE DockerExec

dockerVars == <<browser, shell, handler, output, hungUp, detached>>

MCInit == Init /\ Docker!Init

MCNext ==
  \/ Next /\ UNCHANGED dockerVars
  \/ Docker!Next /\ UNCHANGED vars

MCSpec == MCInit /\ [][MCNext]_<<vars, dockerVars>> /\ Fairness /\ Docker!Fairness

\* The shell's and the browser's connection are closed under no goroutine that uses them.
DockerClosedUnused == Docker!ClosedUnused

\* Once the browser left and the shell exited, a Docker terminal is given back.
DockerTerminalEnds == Docker!TerminalEnds

=============================================================================
