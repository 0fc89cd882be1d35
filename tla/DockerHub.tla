------------------------------ MODULE DockerHub ------------------------------
(***************************************************************************)
(* One connection to /ws: container logs and stats, "logs:<id>" and        *)
(* "stats:<id>" being keys of the same kind (streamLogs and streamStats    *)
(* have one control flow).  Unlike KubeHub, the stream's own goroutine     *)
(* registers its cancel function, some time after the reader spawned it.   *)
(***************************************************************************)
EXTENDS HubConn

CONSTANTS Keys,
          Unserved,  \* the key of a stream not yet started
          NoStream   \* the registry entry of a key without a cancel function

ASSUME KeysAssumption == Unserved \notin Keys
ASSUME NoStreamAssumption == NoStream \notin Streams

VARIABLES listed,     \* the client is in Hub.clients
          cancels,    \* Client.cancels: the stream a key's cancel function ends
          key,        \* the subscription a stream serves
          cancelled,  \* streams whose context is cancelled
          pc,         \* where the goroutine of a stream is
          asked,      \* keys whose last message was a subscription
          raced,      \* the reader outran a goroutine it had spawned
          late        \* streams that began a frame after their cancellation

streamVars == <<key, cancelled, pc, asked, raced, late>>
vars == <<connVars, listed, cancels, streamVars>>

Ended == {"unused", "done"}
Pcs   == Ended \cup {"spawned", "opening", "following", "sending", "failing"}

Running == {s \in Streams : pc[s] \notin Ended}

\* The goroutines whose cancel function is not in the registry yet.
Unregistered == {s \in Streams : pc[s] = "spawned"}

Live == {s \in Streams : key[s] # Unserved /\ s \notin cancelled}

Init ==
  /\ ConnInit
  /\ listed = TRUE
  /\ cancels = [k \in Keys |-> NoStream]
  /\ key = [s \in Streams |-> Unserved]
  /\ cancelled = {}
  /\ pc = [s \in Streams |-> "unused"]
  /\ asked = {}
  /\ raced = FALSE
  /\ late = {}

-----------------------------------------------------------------------------
(* The registry, under c.mu. *)

Registered(k) == {cancels[k]} \ {NoStream}

\* A fault: the cancel function stays in the map after the call.
cancelStreamKept(k) ==
  /\ Unlocked
  /\ cancelled' = cancelled \cup Registered(k)
  /\ UNCHANGED cancels

cancelStream(k) ==
  /\ Unlocked
  /\ cancelled' = cancelled \cup Registered(k)
  /\ cancels' = [cancels EXCEPT ![k] = NoStream]

\* A fault: the map is reset and no cancel function called.
cleanupForgetful ==
  /\ Unlocked
  /\ cancels' = [k \in Keys |-> NoStream]
  /\ UNCHANGED cancelled

cleanup ==
  /\ Unlocked
  /\ cancelled' = cancelled \cup UNION {Registered(k) : k \in Keys}
  /\ cancels' = [k \in Keys |-> NoStream]

-----------------------------------------------------------------------------
(* handleMessage, in the reader. *)

\* cancelStream, then go c.streamLogs(..) or go c.streamStats(..)
Subscribe(k, s) ==
  /\ reader = "reading"
  /\ key[s] = Unserved
  /\ cancelStream(k)
  /\ key' = [key EXCEPT ![s] = k]
  /\ pc' = [pc EXCEPT ![s] = "spawned"]
  /\ asked' = asked \cup {k}
  /\ raced' = (raced \/ k \in {key[t] : t \in Unregistered})
  /\ UNCHANGED <<connVars, listed, late>>

Unsubscribe(k) ==
  /\ reader = "reading"
  /\ cancelStream(k)
  /\ asked' = asked \ {k}
  /\ raced' = (raced \/ k \in {key[t] : t \in Unregistered})
  /\ UNCHANGED <<connVars, listed, key, pc, late>>

\* The deferred cleanup, and the client's removal from the hub.
Cleanup ==
  /\ reader = "cleanup"
  /\ cleanup
  /\ reader' = "unlisting"
  /\ asked' = {}
  /\ raced' = (raced \/ Unregistered # {})
  /\ UNCHANGED <<peer, closed, writer, ping, listed, key, pc, late>>

Unlist ==
  /\ reader = "unlisting"
  /\ listed' = FALSE
  /\ reader' = "closing"
  /\ UNCHANGED <<peer, closed, writer, ping, cancels, streamVars>>

-----------------------------------------------------------------------------
(* streamLogs and streamStats. *)

Register(s) ==
  /\ pc[s] = "spawned"
  /\ Unlocked
  /\ cancels' = [cancels EXCEPT ![key[s]] = s]
  /\ pc' = [pc EXCEPT ![s] = "opening"]
  /\ UNCHANGED <<connVars, listed, key, cancelled, asked, raced, late>>

Goto(s, from, to) ==
  /\ pc[s] = from
  /\ pc' = [pc EXCEPT ![s] = to]
  /\ UNCHANGED <<connVars, listed, cancels, key, cancelled, asked, raced, late>>

\* Logs or Stats returned; a cancelled request fails like any other.
Opened(s) ==
  \/ s \notin cancelled /\ Goto(s, "opening", "following")
  \/ Goto(s, "opening", "failing")

\* A fault: the loop does not check the context.
ReceivedUnchecked(s) == Goto(s, "following", "sending")

\* The loop's check of the context, then a frame or a sample.
Received(s) == s \notin cancelled /\ Goto(s, "following", "sending")

\* The check stops the loop, or the source ended.
Stopped(s) == Goto(s, "following", "done")

SendBegin(s) ==
  /\ pc[s] \in {"sending", "failing"}
  /\ Acquire(s)
  /\ late' = IF s \in cancelled THEN late \cup {s} ELSE late
  /\ UNCHANGED <<peer, closed, reader, ping, listed, cancels, key, cancelled, pc, asked, raced>>

AfterSend(s) == IF pc[s] = "failing" THEN "done" ELSE "following"

SendEnd(s) ==
  /\ Release(s)
  /\ pc' = [pc EXCEPT ![s] = AfterSend(s)]
  /\ UNCHANGED <<peer, closed, reader, ping, listed, cancels, key, cancelled, asked, raced, late>>

-----------------------------------------------------------------------------

ReaderStep ==
  \/ \E k \in Keys, s \in Streams : Subscribe(k, s)
  \/ \E k \in Keys : Unsubscribe(k)
  \/ Cleanup \/ Unlist

StreamStep(s) ==
  Register(s) \/ Opened(s) \/ Received(s) \/ Stopped(s) \/ SendBegin(s) \/ SendEnd(s)

ConnStep == Connection /\ UNCHANGED <<listed, cancels, streamVars>>

\* Streams that nobody can cancel any more may wait for a silent source.
Finished ==
  /\ peer = "gone" /\ closed /\ ping = "done"
  /\ \A s \in Running : pc[s] = "following" /\ s \notin cancelled
  /\ UNCHANGED vars

Next ==
  \/ ConnStep
  \/ ReaderStep
  \/ \E s \in Streams : StreamStep(s)
  \/ Finished

ReaderMoves ==
  \/ (ReadError \/ Close) /\ UNCHANGED <<listed, cancels, streamVars>>
  \/ Cleanup \/ Unlist

WriteReturns ==
  \/ PingWritten /\ UNCHANGED <<listed, cancels, streamVars>>
  \/ \E s \in Streams : SendEnd(s)

\* A stream waits for its source, unless its context is cancelled.
StreamMoves(s) ==
  \/ Register(s) \/ SendBegin(s)
  \/ s \in cancelled /\ (Opened(s) \/ Stopped(s))

PingMoves == PingTick /\ UNCHANGED <<listed, cancels, streamVars>>

StallEnds == peer = "stalled" /\ (Resume \/ Leave) /\ UNCHANGED <<listed, cancels, streamVars>>

\* The fairness of KubeHub: goroutines that can move do, nobody starves on c.mu,
\* a stalled peer reads again or breaks the connection.
Fairness ==
  /\ SF_vars(ReaderMoves)
  /\ SF_vars(WriteReturns)
  /\ SF_vars(PingMoves)
  /\ WF_vars(StallEnds)
  /\ \A s \in Streams : SF_vars(StreamMoves(s))

Safety == Init /\ [][Next]_vars

Spec == Safety /\ Fairness

-----------------------------------------------------------------------------

\* Every variable holds a value of its type.
TypeOK ==
  /\ peer \in {"up", "stalled", "gone"}
  /\ closed \in BOOLEAN
  /\ reader \in {"reading", "cleanup", "unlisting", "closing", "done"}
  /\ writer \in Writers \cup {Nobody}
  /\ ping \in {"ticking", "done"}
  /\ listed \in BOOLEAN
  /\ cancels \in [Keys -> Streams \cup {NoStream}]
  /\ key \in [Streams -> Keys \cup {Unserved}]
  /\ cancelled \subseteq Streams
  /\ pc \in [Streams -> Pcs]
  /\ asked \subseteq Keys
  /\ raced \in BOOLEAN
  /\ late \subseteq Streams

Serving(k) == {s \in Live : key[s] = k}

\* A registered cancel function is the one of a live stream of its key, however
\* subscriptions race; and while the reader outran no goroutine, every live
\* stream of a key is registered or about to be.
RegistryIsLive ==
  \A k \in Keys :
    /\ Registered(k) \subseteq Serving(k)
    /\ raced \/ Serving(k) \subseteq Registered(k) \cup Unregistered

\* A stream writes at most one frame after its cancellation: the one it held
\* when it was cancelled, or the error of the request that was cut short.
LastFrame == [][\A s \in late : writer' = s => writer = s]_vars

\* While the reader outran no goroutine it had spawned, the connection implements the
\* registry of subscriptions: a subscription replaces the stream of its key, an
\* unsubscription and the end of the connection withdraw every stream they are for.
Registry == INSTANCE StreamRegistry
              WITH open    <- reader \in {"reading", "cleanup"},
                   wanted  <- Live,
                   running <- Running

RegistryUnlessRaced == Registry!Init /\ [][raced' \/ Registry!Next]_(Registry!vars)

\* When the browser is gone the connection is given back: the hub's slot, the
\* socket, the ping goroutine and, unless the reader outran a goroutine it had
\* spawned, every stream.
DisconnectReleasesAll ==
  peer = "gone" ~> closed /\ ~listed /\ ping = "done" /\ (raced \/ Running = {})

\* docs/api.md: "Subscribe and unsubscribe to log and stats streams by sending
\* JSON messages" -- a stream whose key was unsubscribed ends, unless the client
\* subscribes again.
UnsubscribeEndsStreams ==
  \A k \in Keys :
    (k \notin asked) ~> (k \in asked \/ \A s \in Running : key[s] # k)

=============================================================================
