----------------------------- MODULE StreamHooks -----------------------------
(***************************************************************************)
(* useLogs, useStats, usePodLogs and usePodStats: what a panel shows of a  *)
(* stream that shares the browser's socket with others, and the viewer     *)
(* that scrolls to its end.  The two log hooks, and the two of metrics,    *)
(* differ in their events only; a pod's also have an error.                *)
(***************************************************************************)
EXTENDS Naturals, Sequences

CONSTANTS Targets,  \* containers a panel may show, on the same socket
          NoTarget, \* no container yet
          LogLines, \* how many lines are kept, 1000
          Samples   \* how many samples are kept, 60

ASSUME TargetsAssumption == NoTarget \notin Targets
ASSUME KeptAssumption == LogLines \in Nat \ {0} /\ Samples \in Nat \ {0}

VARIABLES target,     \* the container of the last commit
          logs,       \* the lines shown, each by the container it is from
          history, current, streamError,
          listening,  \* the container of the handlers that are registered
          autoScroll,
          atEnd       \* the end of the log is in view

streamVars == <<target, logs, history, current, streamError, listening, autoScroll, atEnd>>

\* prev.slice(-(bound - 1)), which data is then put after.
kept(s, bound) == IF Len(s) < bound THEN s ELSE Tail(s)

-----------------------------------------------------------------------------

\* The effect of a new target: nothing of the last one is left, and its handlers are off.
Subscribe(t) ==
  /\ listening' = t
  /\ logs' = <<>>
  /\ history' = <<>>
  /\ current' = NoTarget
  /\ streamError' = FALSE

StreamInit ==
  /\ target = NoTarget
  /\ listening = NoTarget
  /\ logs = <<>> /\ history = <<>> /\ current = NoTarget
  /\ streamError = FALSE
  /\ autoScroll = TRUE /\ atEnd = TRUE

\* The viewer's effect depends on the number of lines and on the toggle.
scrolls(lines, auto) == auto /\ (Len(lines) # Len(logs) \/ auto # autoScroll)

\* A commit of the viewer: more below the fold, unless the effect scrolls to it.
View(lines, auto) ==
  /\ logs' = lines
  /\ autoScroll' = auto
  /\ atEnd' = IF scrolls(lines, auto) THEN TRUE ELSE atEnd /\ lines = logs

SetTarget(t) ==
  /\ t # target
  /\ target' = t
  /\ Subscribe(t)
  /\ atEnd' = (autoScroll \/ atEnd)
  /\ UNCHANGED autoScroll

\* A fault: the handler takes whatever the socket brings.
takesAll(t) == listening # NoTarget

takes(t) == listening # NoTarget /\ t = listening

\* A line, of the panel's container or of another one's stream.
LogData(t) ==
  /\ View(IF takes(t) THEN Append(kept(logs, LogLines), t) ELSE logs, autoScroll)
  /\ UNCHANGED <<target, history, current, streamError, listening>>

StatsData(t) ==
  /\ IF takes(t) THEN /\ current' = t
                      /\ history' = Append(kept(history, Samples), t)
                      /\ streamError' = FALSE
                 ELSE UNCHANGED <<current, history, streamError>>
  /\ UNCHANGED <<target, logs, listening, autoScroll, atEnd>>

\* pod-logs:error is a line of the log, pod-stats:error a message of its own.
StatsError(t) ==
  /\ streamError' = (streamError \/ takes(t))
  /\ UNCHANGED <<target, logs, history, current, listening, autoScroll, atEnd>>

Clear ==
  /\ View(<<>>, autoScroll)
  /\ UNCHANGED <<target, history, current, streamError, listening>>

ToggleAutoScroll ==
  /\ View(logs, ~autoScroll)
  /\ UNCHANGED <<target, history, current, streamError, listening>>

\* The user scrolls away from the end.
ScrollUp ==
  /\ Len(logs) > 1
  /\ atEnd' = FALSE
  /\ UNCHANGED <<target, logs, history, current, streamError, listening, autoScroll>>

\* Another tab and back: the viewer is mounted anew, the hooks of the panel are not.
Reopen ==
  /\ autoScroll' = TRUE
  /\ atEnd' = TRUE
  /\ UNCHANGED <<target, logs, history, current, streamError, listening>>

StreamNext ==
  \/ \E t \in Targets : SetTarget(t) \/ LogData(t) \/ StatsData(t) \/ StatsError(t)
  \/ Clear \/ ToggleAutoScroll \/ ScrollUp \/ Reopen

StreamSpec == StreamInit /\ [][StreamNext]_streamVars

-----------------------------------------------------------------------------

\* Of its own container only, whatever the socket brings and however often it changes.
LinesAreOfTarget ==
  /\ \A i \in DOMAIN logs : logs[i] = target
  /\ \A i \in DOMAIN history : history[i] = target
  /\ current \in {NoTarget, target}

\* What a panel shows is of its own container, and with auto-scroll on a new line is in view,
\* until the log is full: from then on its length stays the same and the effect no longer runs.
PanelFollowsStream ==
  [][/\ LinesAreOfTarget'
     /\ autoScroll' /\ Len(logs) < LogLines /\ (logs' # logs \/ ~autoScroll) => atEnd']_streamVars

=============================================================================
