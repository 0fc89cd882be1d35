--------------------------- MODULE StreamRegistry ---------------------------
(***************************************************************************)
(* What one WebSocket connection promises about its subscriptions, with    *)
(* no mention of goroutines, locks or the network: a subscription to a key *)
(* replaces the stream that served the key, an unsubscription or the end   *)
(* of the connection withdraws it, and a withdrawn stream stops.           *)
(***************************************************************************)

CONSTANTS Keys,     \* subscription keys: "logs:..", "stats:..", "topology:.."
          Streams,  \* identities of streams, each used once
          Unserved  \* the key of a stream that does not exist yet

VARIABLES open,     \* the connection still takes messages
          key,      \* key[s]: the subscription stream s was started for
          wanted,   \* streams whose subscription is still in force
          running   \* streams whose goroutine has not returned

vars == <<open, key, wanted, running>>

Serving(k) == {s \in wanted : key[s] = k}

TypeOK ==
  /\ open \in BOOLEAN
  /\ key \in [Streams -> Keys \cup {Unserved}]
  /\ wanted \subseteq Streams
  /\ running \subseteq Streams

Init ==
  /\ open = TRUE
  /\ key = [s \in Streams |-> Unserved]
  /\ wanted = {}
  /\ running = {}

\* The source of the new stream may refuse it, and then nothing runs.
Subscribe(k, s) ==
  /\ open
  /\ key[s] = Unserved
  /\ key' = [key EXCEPT ![s] = k]
  /\ wanted' = (wanted \ Serving(k)) \cup {s}
  /\ running' \in {running, running \cup {s}}
  /\ UNCHANGED open

Unsubscribe(k) ==
  /\ open
  /\ wanted' = wanted \ Serving(k)
  /\ UNCHANGED <<open, key, running>>

Disconnect ==
  /\ open
  /\ open' = FALSE
  /\ wanted' = {}
  /\ UNCHANGED <<key, running>>

\* A stream returns because it was withdrawn, or because its source ended.
Return(s) ==
  /\ s \in running
  /\ running' = running \ {s}
  /\ UNCHANGED <<open, key, wanted>>

ReturnWithdrawn(s) == s \notin wanted /\ Return(s)

Next ==
  \/ \E k \in Keys, s \in Streams : Subscribe(k, s)
  \/ \E k \in Keys : Unsubscribe(k)
  \/ Disconnect
  \/ \E s \in Streams : Return(s)

Spec == Init /\ [][Next]_vars /\ \A s \in Streams : WF_vars(ReturnWithdrawn(s))

=============================================================================
