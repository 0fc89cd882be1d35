----------------------------- MODULE ConsoleView -----------------------------
(***************************************************************************)
(* The terminal of a panel: an effect that waits for the element to have a *)
(* size, frame after frame, then opens a terminal and a WebSocket, which   *)
(* the cleanup closes.  A pod's panel mounts it anew for another path, the *)
(* panel of a Docker container only changes its path.                      *)
(***************************************************************************)
EXTENDS Naturals, FiniteSets

CONSTANTS Paths,  \* execution endpoints
          NoPath,
          Keyed,  \* the paths whose panel mounts the terminal anew
          MaxOpen \* bound: terminals opened

VARIABLES execPath,   \* the path on screen, or NoPath while there is no terminal
          element,    \* the element, new with every mount
          frames,     \* animation frames that will call init: its path and element
          ws,         \* wsRef: the socket the cleanup closes, by number
          sockets,    \* sockets that were not closed, with what they go to
          opened,     \* terminals opened so far
          raced       \* a path changed before its terminal was opened

consoleVars == <<execPath, element, frames, ws, sockets, opened, raced>>

-----------------------------------------------------------------------------

ConsoleInit ==
  /\ execPath = NoPath /\ element = 0
  /\ frames = {}
  /\ ws = 0 /\ sockets = {} /\ opened = 0
  /\ raced = FALSE

\* A fault: the cleanup disposes of the terminal and leaves the socket.
disposeOnly == sockets

\* The cleanup: the socket of the last terminal is closed.
closed == {s \in sockets : s.number # ws}

\* Another path: the cleanup, then the effect, on a new element if the view is mounted anew.
Show(p) ==
  /\ p # execPath
  /\ element < MaxOpen
  /\ LET anew == NoPath \in {p, execPath} \/ Keyed \cap {p, execPath} # {}
     IN /\ element' = element + (IF anew THEN 1 ELSE 0)
        /\ raced' = (raced \/ (~anew /\ \E f \in frames : f.element = element))
        /\ frames' = frames \cup IF p = NoPath THEN {} ELSE {[path |-> p, element |-> element']}
  /\ execPath' = p
  /\ sockets' = closed
  /\ ws' = 0
  /\ UNCHANGED opened

\* A frame that finds a size; until then, and for ever once the element is gone, each frame
\* asks for another.
init(f) ==
  /\ f.element = element /\ execPath # NoPath
  /\ opened < MaxOpen
  /\ frames' = frames \ {f}
  /\ opened' = opened + 1
  /\ ws' = opened'
  /\ sockets' = sockets \cup {[number |-> opened', path |-> f.path, up |-> FALSE]}
  /\ UNCHANGED <<execPath, element, raced>>

\* The first size of the terminal is sent.
onopen(s) ==
  /\ ~s.up
  /\ sockets' = (sockets \ {s}) \cup {[s EXCEPT !.up = TRUE]}
  /\ UNCHANGED <<execPath, element, frames, ws, opened, raced>>

\* The shell ended, or the connection failed: the terminal says so.
onclose(s) ==
  /\ sockets' = sockets \ {s}
  /\ UNCHANGED <<execPath, element, frames, ws, opened, raced>>

ConsoleNext ==
  \/ \E p \in Paths \cup {NoPath} : Show(p)
  \/ \E f \in frames : init(f)
  \/ \E s \in sockets : onopen(s) \/ onclose(s)

ConsoleSpec == ConsoleInit /\ [][ConsoleNext]_consoleVars

-----------------------------------------------------------------------------

\* No shell stays connected that the user no longer sees, and what is seen is the shell of the
\* path on screen, unless a path changed between two frames.
NoOrphanShell == raced \/ \A s \in sockets : s.number = ws /\ s.path = execPath

=============================================================================
