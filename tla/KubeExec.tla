------------------------------ MODULE KubeExec ------------------------------
(***************************************************************************)
(* One terminal in a pod (KubeHub.HandleExecWS): the handler reads frames  *)
(* and feeds a pipe and a queue of sizes, a goroutine runs the shell, each *)
(* tears the session down when its side ends.  The shell and the Exec call *)
(* that serves it are external.                                            *)
(***************************************************************************)
EXTENDS Naturals

CONSTANT MaxFrames  \* bound: frames the browser sends

ASSUME MaxFramesAssumption == MaxFrames \in Nat

VARIABLES peer,       \* the browser: "up", "stalled" or "gone"
          frames,     \* frames read so far
          reader,     \* where the handler is
          exec,       \* where the goroutine that runs the shell is
          closed,     \* conn.Close() was called
          cancelled,  \* the session's context
          sizes,      \* the queue: a resize, by its number, or 0
          pushed,     \* the newest resize
          shown       \* the newest resize the shell was told of

sizeVars == <<sizes, pushed, shown>>
vars == <<peer, frames, reader, exec, closed, cancelled, sizeVars>>

Init ==
  /\ peer = "up"
  /\ frames = 0
  /\ reader = "reading"
  /\ exec = "running"
  /\ closed = FALSE
  /\ cancelled = FALSE
  /\ sizes = 0 /\ pushed = 0 /\ shown = 0

-----------------------------------------------------------------------------
(* The browser. *)

Stall  == peer = "up" /\ peer' = "stalled"
Resume == peer = "stalled" /\ peer' = "up"
Leave  == peer # "gone" /\ peer' = "gone"

Browser ==
  /\ Stall \/ Resume \/ Leave
  /\ UNCHANGED <<frames, reader, exec, closed, cancelled, sizeVars>>

-----------------------------------------------------------------------------
(* The handler.  A frame that arrived can be read after the browser left.  *)

ReadFrame(next) ==
  /\ reader = "reading"
  /\ frames < MaxFrames
  /\ frames' = frames + 1
  /\ reader' = next
  /\ UNCHANGED <<peer, exec, closed, cancelled>>

\* A fault: the new size queues up behind the old one.
ResizeQueued ==
  /\ ReadFrame("pushing")
  /\ pushed' = pushed + 1
  /\ UNCHANGED <<sizes, shown>>

\* push, its first select: the size that waits is thrown away.
Resize ==
  /\ ReadFrame("pushing")
  /\ pushed' = pushed + 1
  /\ sizes' = 0
  /\ UNCHANGED shown

\* A fault: the size is sent only to a shell that awaits it.
PushDropped ==
  /\ reader = "pushing"
  /\ reader' = "reading"
  /\ UNCHANGED <<peer, frames, exec, closed, cancelled, sizeVars>>

\* push, its send on a channel of capacity one.
Push ==
  /\ reader = "pushing"
  /\ sizes = 0
  /\ sizes' = pushed
  /\ reader' = "reading"
  /\ UNCHANGED <<peer, frames, exec, closed, cancelled, pushed, shown>>

Keystroke == ReadFrame("writing") /\ UNCHANGED sizeVars

\* The pipe has no buffer: a write waits until whoever serves the shell reads.
\* When Exec returned, a copy it left behind may still take a keystroke.
KeystrokeTaken ==
  /\ reader = "writing"
  /\ reader' = "reading"
  /\ UNCHANGED <<peer, frames, exec, closed, cancelled, sizeVars>>

ReadError ==
  /\ reader = "reading"
  /\ peer = "gone" \/ closed
  /\ reader' = "cancelling"
  /\ UNCHANGED <<peer, frames, exec, closed, cancelled, sizeVars>>

\* A fault: the context is left alone.
CancelForgotten ==
  /\ reader = "cancelling"
  /\ reader' = "hanging up"
  /\ UNCHANGED <<peer, frames, exec, closed, cancelled, sizeVars>>

\* stdinWriter.Close(), which leaves the shell without input, and the deferred cancel().
Cancel ==
  /\ reader = "cancelling"
  /\ cancelled' = TRUE
  /\ reader' = "hanging up"
  /\ UNCHANGED <<peer, frames, exec, closed, sizeVars>>

HangUp ==
  /\ reader = "hanging up"
  /\ closed' = TRUE
  /\ reader' = "done"
  /\ UNCHANGED <<peer, frames, exec, cancelled, sizeVars>>

ReaderMoves == Push \/ (exec = "running" /\ KeystrokeTaken) \/ ReadError \/ Cancel \/ HangUp

-----------------------------------------------------------------------------
(* The goroutine around Exec. *)

\* The shell is told a size that terminalSizeQueue.Next returns.
NextSize ==
  /\ exec = "running"
  /\ sizes # 0
  /\ shown' = sizes
  /\ sizes' = 0
  /\ UNCHANGED <<peer, frames, reader, exec, closed, cancelled, pushed>>

\* Exec returns: the shell ended or the call failed; a failure is reported
\* unless the context is cancelled.
ExecReturns ==
  /\ exec = "running"
  /\ exec' \in {"closing"} \cup IF cancelled THEN {} ELSE {"reporting"}
  /\ UNCHANGED <<peer, frames, reader, closed, cancelled, sizeVars>>

\* The write of the report returns, with an error or without.
Report ==
  /\ exec = "reporting"
  /\ peer # "stalled" \/ closed
  /\ exec' = "closing"
  /\ UNCHANGED <<peer, frames, reader, closed, cancelled, sizeVars>>

CloseConn ==
  /\ exec = "closing"
  /\ closed' = TRUE
  /\ exec' = "done"
  /\ UNCHANGED <<peer, frames, reader, cancelled, sizeVars>>

ExecMoves == NextSize \/ (cancelled /\ ExecReturns) \/ Report \/ CloseConn

-----------------------------------------------------------------------------

\* Exec returned with a keystroke unread: nobody need ever read the pipe.
Stuck == reader = "writing" /\ exec = "done"

Next ==
  \/ Browser
  \/ Resize \/ Keystroke \/ Push \/ KeystrokeTaken \/ ReadError \/ Cancel \/ HangUp
  \/ NextSize \/ ExecReturns \/ Report \/ CloseConn

(***************************************************************************)
(* Goroutines that can move do, a shell that runs takes its input, and a   *)
(* stalled browser reads again or leaves.  Only a cancelled context makes  *)
(* Exec return; the end of stdin may leave the shell running.              *)
(***************************************************************************)
Fairness ==
  /\ WF_vars(ReaderMoves)
  /\ WF_vars(NextSize)
  /\ WF_vars(cancelled /\ ExecReturns)
  /\ WF_vars(Report \/ CloseConn)
  /\ WF_vars(peer = "stalled" /\ Browser)

Spec == Init /\ [][Next]_vars /\ Fairness

-----------------------------------------------------------------------------

\* terminalSizeQueue: "keeps only the latest resize so a slow exec stream never
\* blocks the reader" -- the channel holds the newest size or none, and it has
\* room whenever push sends on it, whatever the shell takes in between.
PushNeverBlocks ==
  /\ reader = "pushing" => sizes = 0
  /\ sizes \in {0, pushed}

\* The shell of a lasting session learns the last size, however fast they came.
LatestSizeArrives ==
  \A n \in 1..MaxFrames : pushed = n ~> (shown >= n \/ exec # "running")

\* When the browser left or the shell ended, the other side ends too, the
\* context is cancelled and the connection closed; what remains at worst is a
\* handler that waits for ever for a shell that is gone to read a keystroke.
SessionEnds ==
  (peer = "gone" \/ exec = "done")
    ~> (closed /\ exec = "done" /\ ([]Stuck \/ (reader = "done" /\ cancelled)))

=============================================================================
