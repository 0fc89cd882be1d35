----------------------------- MODULE ExecProofs -----------------------------
(***************************************************************************)
(* Proofs about the two terminals.  KubeExec, for any number of frames:    *)
(* however resizes overtake each other and whenever the shell takes one,   *)
(* push never waits and the shell is told the newest size.  DockerExec: no *)
(* connection is closed under a goroutine that uses it.                    *)
(***************************************************************************)
EXTENDS MCExec, TLAPS

\* Every step of a terminal in a pod leaves the channel with room for push.
LEMMA StepPreserves == PushNeverBlocks /\ [Next]_vars => PushNeverBlocks'
<1> SUFFICES ASSUME PushNeverBlocks, [Next]_vars PROVE PushNeverBlocks'
  OBVIOUS
<1> USE DEF PushNeverBlocks, sizeVars
<1>1. CASE Browser
  BY <1>1 DEF Browser
<1>2. CASE Resize
  BY <1>2 DEF Resize, ReadFrame
<1>3. CASE Keystroke
  BY <1>3 DEF Keystroke, ReadFrame
<1>4. CASE Push
  BY <1>4 DEF Push
<1>5. CASE KeystrokeTaken \/ ReadError \/ Cancel \/ HangUp
  BY <1>5 DEF KeystrokeTaken, ReadError, Cancel, HangUp
<1>6. CASE NextSize
  BY <1>6 DEF NextSize
<1>7. CASE ExecReturns \/ Report \/ CloseConn
  BY <1>7 DEF ExecReturns, Report, CloseConn
<1>8. CASE UNCHANGED vars
  BY <1>8 DEF vars
<1>9. QED  BY <1>1, <1>2, <1>3, <1>4, <1>5, <1>6, <1>7, <1>8 DEF Next

\* The channel of sizes holds the newest resize or none, and has room whenever
\* push sends on it: the reader never waits for a slow shell to be told a size.
THEOREM PushInvariant == Spec => []PushNeverBlocks
<1>1. Init => PushNeverBlocks
  BY DEF Init, PushNeverBlocks
<1>2. QED  BY <1>1, StepPreserves, PTL DEF Spec

\* Next returns the newest size: the shell is never told one that was replaced.
OnlyNewestShown == [][shown' # shown => shown' = pushed]_vars

THEOREM NewestShown == Spec => OnlyNewestShown
<1>1. PushNeverBlocks /\ [Next]_vars => [shown' # shown => shown' = pushed]_vars
  <2> SUFFICES ASSUME PushNeverBlocks, Next, shown' # shown
               PROVE  shown' = pushed
    BY DEF vars, sizeVars
  <2>1. NextSize
    BY DEF Next, Browser, Resize, Keystroke, ReadFrame, Push, KeystrokeTaken, ReadError, Cancel,
           HangUp, ExecReturns, Report, CloseConn, sizeVars
  <2> QED  BY <2>1 DEF NextSize, PushNeverBlocks
<1> QED  BY <1>1, PushInvariant, PTL DEF Spec, OnlyNewestShown

-----------------------------------------------------------------------------
(* The Docker terminal. *)

\* The output is copied only between the attachment and the end of the handler.
OutputWithin ==
  /\ handler \in {"attaching", "reporting"} => output = "unstarted"
  /\ handler = "done" => output \in {"unstarted", "done"}

DockerInv == DockerClosedUnused /\ OutputWithin

LEMMA DockerStep ==
  ASSUME DockerInv, [Docker!Next]_dockerVars
  PROVE  DockerInv'
<1> USE DEF DockerInv, DockerClosedUnused, Docker!ClosedUnused, OutputWithin
<1>1. CASE Docker!Browser \/ Docker!ShellExits
  BY <1>1 DEF Docker!Browser, Docker!ShellExits
<1>2. CASE Docker!Attach
  BY <1>2 DEF Docker!Attach
<1>3. CASE Docker!AttachFails
  BY <1>3 DEF Docker!AttachFails
<1>4. CASE Docker!Reported
  BY <1>4 DEF Docker!Reported
<1>5. CASE Docker!Keystroke \/ Docker!KeystrokeWritten \/ Docker!ReadError
  BY <1>5 DEF Docker!Keystroke, Docker!KeystrokeWritten, Docker!ReadError
<1>6. CASE Docker!Join
  BY <1>6 DEF Docker!Join
<1>7. CASE Docker!OutputRead \/ Docker!OutputEnds \/ Docker!OutputWritten
  BY <1>7 DEF Docker!OutputRead, Docker!OutputEnds, Docker!OutputWritten
<1>8. CASE UNCHANGED dockerVars
  BY <1>8 DEF dockerVars
<1> QED
  BY <1>1, <1>2, <1>3, <1>4, <1>5, <1>6, <1>7, <1>8
  DEF Docker!Next, Docker!HandlerMoves, Docker!OutputMoves

\* Hub.HandleExecWS waits for the goroutine that copies the output before its deferred
\* Closes: neither connection is closed while the other goroutine still reads or writes it.
THEOREM DockerClosesLast == MCSpec => []DockerClosedUnused
<1>1. MCInit => DockerInv
  BY DEF MCInit, Docker!Init, DockerInv, DockerClosedUnused, Docker!ClosedUnused, OutputWithin
<1>2. DockerInv /\ [MCNext]_<<vars, dockerVars>> => DockerInv'
  BY DockerStep DEF MCNext
<1>3. DockerInv => DockerClosedUnused
  BY DEF DockerInv
<1> QED  BY <1>1, <1>2, <1>3, PTL DEF MCSpec

=============================================================================
