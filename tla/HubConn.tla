------------------------------ MODULE HubConn ------------------------------
(***************************************************************************)
(* One WebSocket connection of the server, as both hubs run it: the reader *)
(* goroutine (readPump), the ping goroutine, and the lock c.mu that every  *)
(* frame is written under.  No write has a deadline, so a writer keeps the *)
(* lock while the peer does not drain its socket.                          *)
(***************************************************************************)
CONSTANTS Streams,  \* stream goroutines, by identity
          Nobody    \* the lock's holder when it is free

ASSUME NobodyAssumption == Nobody \notin Streams \cup {"reader", "ping"}
ASSUME StreamsAssumption == Streams \cap {"reader", "ping"} = {}

VARIABLES peer,    \* "up", "stalled" (reads nothing, answers no ping), "gone"
          closed,  \* conn.Close() was called
          reader,  \* where readPump is
          writer,  \* who is writing a frame, holding c.mu
          ping     \* pingLoop: "ticking" or "done"

connVars == <<peer, closed, reader, writer, ping>>

Writers == Streams \cup {"reader", "ping"}

ConnInit ==
  /\ peer = "up"
  /\ closed = FALSE
  /\ reader = "reading"
  /\ writer = Nobody
  /\ ping = "ticking"

-----------------------------------------------------------------------------
(* The lock.  startStream, cancelStream and cleanup hold it for no longer  *)
(* than a step; a write holds it from Acquire to Release.                  *)

Unlocked == writer = Nobody

Acquire(w) == Unlocked /\ writer' = w

\* A write returns once the peer takes the bytes, or fails at once when the
\* socket is broken or closed.
Release(w) ==
  /\ writer = w
  /\ peer # "stalled" \/ closed
  /\ writer' = Nobody

-----------------------------------------------------------------------------
(* The network, outside the program. *)

Stall  == peer = "up" /\ peer' = "stalled" /\ UNCHANGED <<closed, reader, writer, ping>>
Resume == peer = "stalled" /\ peer' = "up" /\ UNCHANGED <<closed, reader, writer, ping>>
Leave  == peer # "gone" /\ peer' = "gone" /\ UNCHANGED <<closed, reader, writer, ping>>

-----------------------------------------------------------------------------
(* readPump around its messages, and pingLoop. *)

\* ReadMessage fails: the peer left, or answered no ping within the deadline.
ReadError ==
  /\ reader = "reading"
  /\ peer # "up"
  /\ reader' = "cleanup"
  /\ UNCHANGED <<peer, closed, writer, ping>>

Close ==
  /\ reader = "closing"
  /\ closed' = TRUE
  /\ reader' = "done"
  /\ UNCHANGED <<peer, writer, ping>>

PingTick ==
  /\ ping = "ticking"
  /\ Acquire("ping")
  /\ UNCHANGED <<peer, closed, reader, ping>>

\* A fault: the error of a ping is dropped like that of any other frame.
PingWrittenDeaf ==
  /\ Release("ping")
  /\ ping' = "ticking"
  /\ UNCHANGED <<peer, closed, reader>>

\* The first write to a peer that left may still be taken by the kernel.
PingWritten ==
  /\ Release("ping")
  /\ \/ ~closed /\ ping' = "ticking"
     \/ (closed \/ peer = "gone") /\ ping' = "done"
  /\ UNCHANGED <<peer, closed, reader>>

Connection == Stall \/ Resume \/ Leave \/ ReadError \/ Close \/ PingTick \/ PingWritten

=============================================================================
