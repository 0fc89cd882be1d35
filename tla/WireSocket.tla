----------------------------- MODULE WireSocket -----------------------------
(***************************************************************************)
(* The browser's socket to one hub (services/socket.ts).  What is emitted  *)
(* while no connection is open waits in a timer of its own, retried every  *)
(* second.  Timers have the phases of their emissions, and the connection  *)
(* opens between any two of them, so the messages leave in any order.  The *)
(* growing delay between two attempts to connect is time and is left out.  *)
(***************************************************************************)
EXTENDS SequencesExt, Naturals

CONSTANT MaxDrops  \* bound: how often the network ends a connection

ASSUME MaxDropsAssumption == MaxDrops \in Nat

VARIABLES ws,            \* this.ws: "null", "connecting" or "open"
          reconnecting,  \* reconnectTimer is set
          pending,       \* emitted messages that wait in a retry timer
          drops          \* connections ended by the network

socketVars == <<ws, reconnecting, pending, drops>>

\* connect() does nothing while a connection is open or under way.
Connected == IF ws = "null" THEN "connecting" ELSE ws

\* emit() of messages in a row: those that leave now, in order, are `sent`.
Emit(messages, sent) ==
  /\ ws' = Connected
  /\ sent = IF ws = "open" THEN messages ELSE <<>>
  /\ pending' = IF ws = "open" THEN pending ELSE pending \o messages
  /\ UNCHANGED <<reconnecting, drops>>

\* A retry timer that finds the connection open sends its message; one that
\* does not starts again, which changes nothing.
Retry(i, sent) ==
  /\ ws = "open"
  /\ i \in DOMAIN pending
  /\ sent = <<pending[i]>>
  /\ pending' = RemoveAt(pending, i)
  /\ UNCHANGED <<ws, reconnecting, drops>>

Open ==
  /\ ws = "connecting"
  /\ ws' = "open"
  /\ UNCHANGED <<reconnecting, pending, drops>>

\* A fault: an attempt that failed is not repeated.
scheduleReconnectOnce == reconnecting' = (ws = "open" \/ reconnecting)

\* onclose, of an open connection or of an attempt that failed; a timer that
\* is set already is kept.
scheduleReconnect == reconnecting' = TRUE

Drop ==
  /\ ws # "null"
  /\ drops < MaxDrops
  /\ ws' = "null"
  /\ scheduleReconnect
  /\ drops' = drops + 1
  /\ UNCHANGED pending

\* A fault: the timer is cleared and no connection made.
ReconnectIdle ==
  /\ reconnecting
  /\ reconnecting' = FALSE
  /\ UNCHANGED <<ws, pending, drops>>

Reconnect ==
  /\ reconnecting
  /\ reconnecting' = FALSE
  /\ ws' = Connected
  /\ UNCHANGED <<pending, drops>>

-----------------------------------------------------------------------------

\* A socket that was asked to connect and has no connection has a timer that
\* will make one, so nothing that was emitted waits for ever.
NeverStranded == ws = "null" => reconnecting

=============================================================================
