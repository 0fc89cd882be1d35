------------------------------- MODULE KubeHub -------------------------------
(***************************************************************************)
(* One connection to /ws/k8s: pod logs, pod metrics and topology changes.  *)
(* The reader registers a stream's cancel function before it spawns the    *)
(* stream, so the registry `cancels` always knows every live stream.       *)
(***************************************************************************)
EXTENDS HubConn, Naturals, FiniteSets

CONSTANTS LogsKeys, StatsKeys, TopologyKeys,
          Unserved,   \* the key of a stream not yet started
          NoStream,   \* the registry entry of a key without a cancel function
          MaxBuffer   \* log lines that may be buffered between two reads

Keys == LogsKeys \cup StatsKeys \cup TopologyKeys

ASSUME KeysAssumption == /\ Unserved \notin Keys
                         /\ LogsKeys \cap StatsKeys = {}
                         /\ TopologyKeys \cap (LogsKeys \cup StatsKeys) = {}
ASSUME NoStreamAssumption == NoStream \notin Streams
ASSUME MaxBufferAssumption == MaxBuffer \in Nat

VARIABLES cancels,    \* kubeClient.cancels: the stream a key's cancel function ends
          key,        \* the subscription a stream serves
          cancelled,  \* streams whose context is cancelled
          pc,         \* where the goroutine of a stream is
          buffered,   \* log lines read from the API server and not yet sent
          late        \* frames a stream began to write after its cancellation

streamVars == <<key, cancelled, pc, buffered, late>>
vars == <<connVars, cancels, streamVars>>

LogsPcs     == {"opening", "tailing", "sending", "failing"}
StatsPcs    == {"polling", "sending", "failing", "waiting"}
TopologyPcs == {"watching", "debouncing", "sending"}
Ended       == {"unused", "done"}
Pcs         == LogsPcs \cup StatsPcs \cup TopologyPcs \cup Ended

Running == {s \in Streams : pc[s] \notin Ended}
Live    == {s \in Streams : key[s] # Unserved /\ s \notin cancelled}

Init ==
  /\ ConnInit
  /\ cancels = [k \in Keys |-> NoStream]
  /\ key = [s \in Streams |-> Unserved]
  /\ cancelled = {}
  /\ pc = [s \in Streams |-> "unused"]
  /\ buffered = [s \in Streams |-> 0]
  /\ late = [s \in Streams |-> 0]

-----------------------------------------------------------------------------
(* The registry, touched by the reader only and under c.mu. *)

\* The stream that a cancel function registered under k would end, if any.
Registered(k) == {cancels[k]} \ {NoStream}

\* A fault: the stream that serves the key already is not cancelled.
startStreamBeside(k, s) ==
  /\ Unlocked
  /\ cancels' = [cancels EXCEPT ![k] = s]
  /\ UNCHANGED cancelled

startStream(k, s) ==
  /\ Unlocked
  /\ cancelled' = cancelled \cup Registered(k)
  /\ cancels' = [cancels EXCEPT ![k] = s]

\* A fault: the cancel function is forgotten and never called.
cancelStreamForgetful(k) ==
  /\ Unlocked
  /\ cancels' = [cancels EXCEPT ![k] = NoStream]
  /\ UNCHANGED cancelled

cancelStream(k) ==
  /\ Unlocked
  /\ cancelled' = cancelled \cup Registered(k)
  /\ cancels' = [cancels EXCEPT ![k] = NoStream]

cleanup ==
  /\ Unlocked
  /\ cancelled' = cancelled \cup UNION {Registered(k) : k \in Keys}
  /\ cancels' = [k \in Keys |-> NoStream]

-----------------------------------------------------------------------------
(* handleMessage, in the reader.  Malformed and unknown messages change    *)
(* nothing and have no action.                                             *)

\* go c.streamLogs(..) and go c.pollMetrics(..)
Subscribe(k, s) ==
  /\ reader = "reading"
  /\ key[s] = Unserved
  /\ k \notin TopologyKeys
  /\ startStream(k, s)
  /\ key' = [key EXCEPT ![s] = k]
  /\ pc' = [pc EXCEPT ![s] = IF k \in LogsKeys THEN "opening" ELSE "polling"]
  /\ UNCHANGED <<connVars, buffered, late>>

\* watchTopology runs in the reader: Watch starts the debouncer, then asks the
\* API server how each kind is served.  An unknown cluster is an error frame.
WatchTopology(k, s) ==
  /\ reader = "reading"
  /\ key[s] = Unserved
  /\ k \in TopologyKeys
  /\ startStream(k, s)
  /\ key' = [key EXCEPT ![s] = k]
  /\ \/ /\ pc' = [pc EXCEPT ![s] = "watching"]
        /\ reader' = "discovering"
     \/ /\ pc' = [pc EXCEPT ![s] = "done"]
        /\ reader' = "reporting"
  /\ UNCHANGED <<peer, closed, writer, ping, buffered, late>>

Discovered ==
  /\ reader = "discovering"
  /\ reader' = "reading"
  /\ UNCHANGED <<peer, closed, writer, ping, cancels, streamVars>>

ReportBegin ==
  /\ reader = "reporting"
  /\ Acquire("reader")
  /\ UNCHANGED <<peer, closed, reader, ping, cancels, streamVars>>

ReportEnd ==
  /\ Release("reader")
  /\ reader' = "reading"
  /\ UNCHANGED <<peer, closed, ping, cancels, streamVars>>

Unsubscribe(k) ==
  /\ reader = "reading"
  /\ cancelStream(k)
  /\ UNCHANGED <<connVars, key, pc, buffered, late>>

Cleanup ==
  /\ reader = "cleanup"
  /\ cleanup
  /\ reader' = "closing"
  /\ UNCHANGED <<peer, closed, writer, ping, key, pc, buffered, late>>

ReaderStep ==
  \/ \E k \in Keys, s \in Streams : Subscribe(k, s) \/ WatchTopology(k, s)
  \/ \E k \in Keys : Unsubscribe(k)
  \/ Discovered \/ ReportBegin \/ ReportEnd \/ Cleanup

-----------------------------------------------------------------------------
(* sendJSON, in a stream: the frame is written under c.mu and the error of *)
(* a failed write is dropped.                                              *)

SendBegin(s) ==
  /\ pc[s] \in {"sending", "failing"}
  /\ Acquire(s)
  /\ late' = [late EXCEPT ![s] = IF s \in cancelled THEN @ + 1 ELSE @]
  /\ UNCHANGED <<peer, closed, reader, ping, cancels, key, cancelled, pc, buffered>>

AfterSend(s) ==
  IF pc[s] = "failing"          THEN "done"
  ELSE IF key[s] \in LogsKeys  THEN "tailing"
  ELSE IF key[s] \in StatsKeys THEN "waiting"
  ELSE "watching"

SendEnd(s) ==
  /\ Release(s)
  /\ pc' = [pc EXCEPT ![s] = AfterSend(s)]
  /\ UNCHANGED <<peer, closed, reader, ping, cancels, key, cancelled, buffered, late>>

Goto(s, from, to) ==
  /\ pc[s] = from
  /\ pc' = [pc EXCEPT ![s] = to]
  /\ UNCHANGED <<connVars, cancels, key, cancelled, late>>

-----------------------------------------------------------------------------
(* streamLogs.  The context is passed to Logs and checked nowhere else: a  *)
(* cancelled open fails and is reported like any error, and lines already  *)
(* buffered are still sent.                                                *)

LogsOpened(s) ==
  /\ \/ s \notin cancelled /\ Goto(s, "opening", "tailing")
     \/ Goto(s, "opening", "failing")
  /\ UNCHANGED buffered

LineArrives(s) ==
  /\ pc[s] \in LogsPcs \ {"opening", "failing"}
  /\ key[s] \in LogsKeys
  /\ s \notin cancelled
  /\ buffered[s] < MaxBuffer
  /\ buffered' = [buffered EXCEPT ![s] = @ + 1]
  /\ UNCHANGED <<connVars, cancels, key, cancelled, pc, late>>

LineRead(s) ==
  /\ buffered[s] > 0
  /\ Goto(s, "tailing", "sending")
  /\ buffered' = [buffered EXCEPT ![s] = @ - 1]

\* The log ends by itself, or the cancelled context ends it.
LogsEnded(s) ==
  /\ buffered[s] = 0
  /\ Goto(s, "tailing", "done")
  /\ UNCHANGED buffered

-----------------------------------------------------------------------------
(* pollMetrics.  The context is checked when Metrics returns; the select   *)
(* may take the tick although the context is done.                         *)

\* A fault: the context is not checked after Metrics.
MetricsReturnedUnchecked(s) ==
  /\ Goto(s, "polling", "sending") \/ Goto(s, "polling", "failing")
  /\ UNCHANGED buffered

MetricsReturned(s) ==
  /\ IF s \in cancelled
     THEN Goto(s, "polling", "done")
     ELSE \/ Goto(s, "polling", "sending")   \* a sample, or a server error
          \/ Goto(s, "polling", "failing")   \* an error that will not go away
  /\ UNCHANGED buffered

PollTick(s) == Goto(s, "waiting", "polling") /\ UNCHANGED buffered

PollCancelled(s) ==
  /\ s \in cancelled
  /\ Goto(s, "waiting", "done")
  /\ UNCHANGED buffered

-----------------------------------------------------------------------------
(* The debouncer goroutine of a topology watch (KubeWatch has its detail): *)
(* a change, the delay, a check of the context, the notification.          *)

TopologyChanged(s) ==
  /\ Goto(s, "watching", "debouncing")
  /\ UNCHANGED buffered

Debounced(s) ==
  /\ Goto(s, "debouncing", IF s \in cancelled THEN "done" ELSE "sending")
  /\ UNCHANGED buffered

WatchCancelled(s) ==
  /\ s \in cancelled
  /\ Goto(s, "watching", "done")
  /\ UNCHANGED buffered

-----------------------------------------------------------------------------

\* What a stream does on its own account, waiting for no lock and no peer.
StreamMove(s) ==
  \/ LogsOpened(s) \/ LineRead(s) \/ LogsEnded(s)
  \/ MetricsReturned(s) \/ PollTick(s) \/ PollCancelled(s)
  \/ TopologyChanged(s) \/ Debounced(s) \/ WatchCancelled(s)

StreamStep(s) == StreamMove(s) \/ LineArrives(s) \/ SendBegin(s) \/ SendEnd(s)

Finished ==
  /\ closed /\ ping = "done" /\ Running = {} /\ peer = "gone"
  /\ UNCHANGED vars

Next ==
  \/ Connection /\ UNCHANGED <<cancels, streamVars>>
  \/ ReaderStep
  \/ \E s \in Streams : StreamStep(s)
  \/ Finished

Safety == Init /\ [][Next]_vars

(***************************************************************************)
(* Scheduling.  A goroutine that can move does; Go's mutex is free of      *)
(* starvation, hence strong fairness for those who wait for it.  A source  *)
(* that is not cancelled may stay silent for ever.  Of the network it is   *)
(* assumed only that a stalled peer reads again or breaks the connection.  *)
(***************************************************************************)
ReaderMoves ==
  \/ (ReadError \/ Close) /\ UNCHANGED <<cancels, streamVars>>
  \/ Discovered \/ ReportBegin \/ Cleanup

WriteReturns ==
  \/ PingWritten /\ UNCHANGED <<cancels, streamVars>>
  \/ ReportEnd
  \/ \E s \in Streams : SendEnd(s)

StreamMoves(s) == SendBegin(s) \/ (s \in cancelled /\ StreamMove(s))

PingMoves == PingTick /\ UNCHANGED <<cancels, streamVars>>

StallEnds == peer = "stalled" /\ (Resume \/ Leave) /\ UNCHANGED <<cancels, streamVars>>

Fairness ==
  /\ SF_vars(ReaderMoves)
  /\ SF_vars(WriteReturns)
  /\ SF_vars(PingMoves)
  /\ WF_vars(StallEnds)
  /\ \A s \in Streams : SF_vars(StreamMoves(s))

Spec == Safety /\ Fairness

-----------------------------------------------------------------------------

\* Every variable holds a value of its type.
TypeOK ==
  /\ peer \in {"up", "stalled", "gone"}
  /\ closed \in BOOLEAN
  /\ reader \in {"reading", "discovering", "reporting", "cleanup", "closing", "done"}
  /\ writer \in Writers \cup {Nobody}
  /\ ping \in {"ticking", "done"}
  /\ cancels \in [Keys -> Streams \cup {NoStream}]
  /\ key \in [Streams -> Keys \cup {Unserved}]
  /\ cancelled \subseteq Streams
  /\ pc \in [Streams -> Pcs]
  /\ buffered \in [Streams -> 0..MaxBuffer]
  /\ late \in [Streams -> Nat]

\* The registry and the live streams are the same thing: a stream that was not
\* cancelled can be cancelled through its key, and a registered cancel function
\* is the one of a stream still live (startStream's "replaces any running
\* stream under key").  Two streams of one key can never both be live.
RegistryMatchesLive ==
  \A k \in Keys : Registered(k) = {s \in Live : key[s] = k}

\* What a client may still hear of a stream after its unsubscription was
\* processed: the frame already prepared and, for logs, the buffered lines.
LateBounded ==
  \A s \in Streams :
    late[s] <= IF key[s] \in LogsKeys THEN MaxBuffer + 1 ELSE 1

\* The connection implements the registry of subscriptions: replacing,
\* withdrawing and disconnecting are atomic for the client, and a withdrawn
\* stream returns whatever the network does in between.
Registry == INSTANCE StreamRegistry
              WITH open    <- reader \notin {"closing", "done"},
                   wanted  <- Live,
                   running <- Running

RegistrySpec == Registry!Spec

\* When the browser is gone the server gives back all it held for it: every
\* stream goroutine, the ping goroutine and the socket.
DisconnectReleasesAll ==
  peer = "gone" ~> closed /\ Running = {} /\ ping = "done"

=============================================================================
