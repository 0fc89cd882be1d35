----------------------------- MODULE DockerExec -----------------------------
(***************************************************************************)
(* One terminal in a container (Hub.HandleExecWS): the handler copies      *)
(* keystrokes to the shell, a second goroutine copies its output to the    *)
(* browser, and the handler returns after both.  Docker is external.       *)
(***************************************************************************)

VARIABLES browser,  \* "up", "stalled" or "gone"
          shell,    \* "starting", "running" or "exited"
          handler,  \* where HandleExecWS is
          output,   \* where the goroutine that copies the output is
          hungUp,   \* conn.Close() was called
          detached  \* session.Conn.Close() was called

vars == <<browser, shell, handler, output, hungUp, detached>>

Init ==
  /\ browser = "up"
  /\ shell = "starting"
  /\ handler = "attaching"
  /\ output = "unstarted"
  /\ hungUp = FALSE
  /\ detached = FALSE

-----------------------------------------------------------------------------
(* Outside. *)

Browser ==
  /\ \/ browser = "up" /\ browser' = "stalled"
     \/ browser = "stalled" /\ browser' = "up"
     \/ browser # "gone" /\ browser' = "gone"
  /\ UNCHANGED <<shell, handler, output, hungUp, detached>>

ShellExits ==
  /\ shell = "running"
  /\ shell' = "exited"
  /\ UNCHANGED <<browser, handler, output, hungUp, detached>>

-----------------------------------------------------------------------------
(* The handler. *)

Attach ==
  /\ handler = "attaching"
  /\ shell' = "running"
  /\ handler' = "reading"
  /\ output' = "reading"
  /\ UNCHANGED <<browser, hungUp, detached>>

AttachFails ==
  /\ handler = "attaching"
  /\ handler' = "reporting"
  /\ UNCHANGED <<browser, shell, output, hungUp, detached>>

Reported ==
  /\ handler = "reporting"
  /\ browser # "stalled"
  /\ hungUp' = TRUE
  /\ handler' = "done"
  /\ UNCHANGED <<browser, shell, output, detached>>

\* A frame arrived; a resize is ignored and has no action.
Keystroke ==
  /\ handler = "reading"
  /\ handler' = "writing"
  /\ UNCHANGED <<browser, shell, output, hungUp, detached>>

\* The shell takes the keystroke, or the write fails because it exited.
KeystrokeWritten ==
  /\ handler = "writing"
  /\ handler' \in IF shell = "running" THEN {"reading"} ELSE {"reading", "joining"}
  /\ UNCHANGED <<browser, shell, output, hungUp, detached>>

ReadError ==
  /\ handler = "reading"
  /\ browser = "gone"
  /\ handler' = "joining"
  /\ UNCHANGED <<browser, shell, output, hungUp, detached>>

\* A fault: the handler returns without waiting for the output.
JoinAtOnce ==
  /\ handler = "joining"
  /\ detached' = TRUE
  /\ hungUp' = TRUE
  /\ handler' = "done"
  /\ UNCHANGED <<browser, shell, output>>

\* <-done, then the deferred Closes.
Join ==
  /\ handler = "joining"
  /\ output = "done"
  /\ detached' = TRUE
  /\ hungUp' = TRUE
  /\ handler' = "done"
  /\ UNCHANGED <<browser, shell, output>>

-----------------------------------------------------------------------------
(* The output. *)

OutputRead ==
  /\ output = "reading"
  /\ shell = "running"
  /\ output' = "writing"
  /\ UNCHANGED <<browser, shell, handler, hungUp, detached>>

\* A fault: the end of the shell's output is not the end of the loop.
OutputEndsIgnored ==
  /\ output = "reading"
  /\ shell = "exited"
  /\ UNCHANGED vars

OutputEnds ==
  /\ output = "reading"
  /\ shell = "exited"
  /\ output' = "done"
  /\ UNCHANGED <<browser, shell, handler, hungUp, detached>>

\* The first write to a browser that left may still succeed.
OutputWritten ==
  /\ output = "writing"
  /\ browser # "stalled"
  /\ output' \in {"reading"} \cup IF browser = "gone" THEN {"done"} ELSE {}
  /\ UNCHANGED <<browser, shell, handler, hungUp, detached>>

-----------------------------------------------------------------------------

HandlerMoves == Reported \/ KeystrokeWritten \/ ReadError \/ Join

OutputMoves == OutputEnds \/ OutputWritten

Next ==
  \/ Browser \/ ShellExits
  \/ Attach \/ AttachFails \/ Keystroke \/ HandlerMoves
  \/ OutputRead \/ OutputMoves

\* Goroutines that can move do, a frame that cannot be read is noticed, and a
\* stalled browser reads again or leaves.  A shell may run silently for ever.
Fairness ==
  /\ WF_vars(Attach \/ AttachFails)
  /\ WF_vars(HandlerMoves)
  /\ SF_vars(ReadError)
  /\ WF_vars(OutputMoves)
  /\ WF_vars(browser = "stalled" /\ Browser)

Spec == Init /\ [][Next]_vars /\ Fairness

-----------------------------------------------------------------------------

\* The shell's connection and the browser's are closed under no goroutine that
\* still uses them: the handler waits for the output before its deferred Closes.
ClosedUnused == detached \/ hungUp => handler = "done" /\ output \in {"unstarted", "done"}

\* Once the browser left and the shell exited, the handler returns and both
\* connections are closed.  (Neither alone is enough: a silent shell keeps the
\* output waiting, and a browser that sends nothing keeps the handler reading.)
TerminalEnds ==
  (browser = "gone" /\ shell = "exited") ~> (handler = "done" /\ hungUp /\ detached)

=============================================================================
