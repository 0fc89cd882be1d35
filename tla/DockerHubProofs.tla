-------------------------- MODULE DockerHubProofs --------------------------
(***************************************************************************)
(* Proofs about DockerHub, for any number of keys and streams: an entry of *)
(* the registry is a live stream of its key however subscriptions race,    *)
(* while the reader outran no goroutine the registry misses no stream and  *)
(* every step is one of the abstract registry, and a cancelled stream      *)
(* writes one frame at most.                                               *)
(***************************************************************************)
EXTENDS DockerHub, TLAPS

-----------------------------------------------------------------------------
(* The inductive invariant. *)

\* A stream that was not started, or has yet to register, was not cancelled.
Served ==
  \A s \in Streams :
    /\ key[s] = Unserved <=> pc[s] = "unused"
    /\ key[s] = Unserved \/ pc[s] = "spawned" => s \notin cancelled

\* An entry is a stream that registered itself under its own key.
Entries ==
  \A k \in Keys : cancels[k] # NoStream =>
    /\ key[cancels[k]] = k
    /\ cancels[k] \notin cancelled
    /\ pc[cancels[k]] # "spawned"

\* A reader that outran no goroutine lets one stream of a key register at a
\* time, and only where the entry is free.
Settled ==
  raced \/ \A s \in Unregistered :
             /\ cancels[key[s]] = NoStream
             /\ \A t \in Unregistered : key[t] = key[s] => t = s

\* Then every live stream of a key is its entry or about to be.
Complete ==
  raced \/ \A s \in Streams :
             key[s] # Unserved /\ s \notin cancelled => s \in Unregistered \/ cancels[key[s]] = s

\* A stream that holds the lock has a frame to send.
WriterSends == writer \in Streams => pc[writer] \in {"sending", "failing"}

IInv == TypeOK /\ Served /\ Entries /\ Settled /\ Complete /\ WriterSends

-----------------------------------------------------------------------------

LEMMA InitInvariant == Init => IInv
<1> SUFFICES ASSUME Init PROVE IInv
  OBVIOUS
<1> USE DEF Init, ConnInit
<1>1. /\ peer \in {"up", "stalled", "gone"} /\ closed \in BOOLEAN
      /\ reader \in {"reading", "cleanup", "unlisting", "closing", "done"}
      /\ writer \in Writers \cup {Nobody} /\ ping \in {"ticking", "done"}
  OBVIOUS
<1>2. listed \in BOOLEAN /\ raced \in BOOLEAN
  OBVIOUS
<1>3. /\ cancels \in [Keys -> Streams \cup {NoStream}]
      /\ key \in [Streams -> Keys \cup {Unserved}]
      /\ pc \in [Streams -> Pcs]
      /\ cancelled \subseteq Streams /\ asked \subseteq Keys /\ late \subseteq Streams
  BY DEF Pcs, Ended
<1>4. TypeOK
  BY <1>1, <1>2, <1>3 DEF TypeOK
<1>5. Served /\ Entries /\ Settled /\ Complete /\ WriterSends
  BY NobodyAssumption DEF Served, Entries, Settled, Complete, Unregistered, WriterSends
<1>6. QED  BY <1>4, <1>5 DEF IInv

\* Neither the network nor the pings touch a stream or the registry.
LEMMA ConnPreserves ==
  ASSUME IInv, ConnStep \/ Unlist \/ Finished \/ UNCHANGED vars
  PROVE  IInv'
<1> USE DEF IInv, connVars, streamVars
<1>1. UNCHANGED <<cancels, streamVars>>
  BY DEF ConnStep, Unlist, Finished, vars
<1>2. TypeOK'
  <2>1. CASE ConnStep
    BY <2>1 DEF TypeOK, ConnStep, Connection, Stall, Resume, Leave, ReadError, Close,
         PingTick, PingWritten, Acquire, Release, Unlocked, Writers
  <2>2. CASE Unlist
    BY <2>2 DEF TypeOK, Unlist
  <2>3. CASE Finished \/ UNCHANGED vars
    BY <2>3 DEF TypeOK, Finished, vars
  <2>4. QED  BY <2>1, <2>2, <2>3
<1>3. Served' /\ Entries' /\ Settled' /\ Complete'
  BY <1>1 DEF Served, Entries, Settled, Complete, Unregistered
<1>4. WriterSends'
  <2>1. CASE ConnStep
    BY <2>1, NobodyAssumption, StreamsAssumption DEF WriterSends, TypeOK, ConnStep, Connection, Stall, Resume, Leave,
         ReadError, Close, PingTick, PingWritten, Acquire, Release, Unlocked, Writers
  <2>2. CASE Unlist \/ Finished \/ UNCHANGED vars
    BY <2>2 DEF WriterSends, Unlist, Finished, vars
  <2>3. QED  BY <2>1, <2>2
<1>5. QED  BY <1>2, <1>3, <1>4

LEMMA SubscribePreserves ==
  ASSUME IInv, NEW k \in Keys, NEW s \in Streams, Subscribe(k, s)
  PROVE  IInv'
<1> USE KeysAssumption, NoStreamAssumption DEF IInv, Subscribe, cancelStream, Registered, connVars
<1>1. TypeOK'
  BY DEF TypeOK, Pcs, Ended
<1>2. Served'
  BY DEF TypeOK, Served, Entries
<1>3. Entries'
  BY DEF TypeOK, Served, Entries
<1>4. Settled'
  BY DEF TypeOK, Settled, Unregistered, Served
<1>5. Complete'
  BY DEF TypeOK, Settled, Complete, Unregistered, Served
<1>6. WriterSends'
  BY DEF TypeOK, WriterSends, Served
<1>7. QED  BY <1>1, <1>2, <1>3, <1>4, <1>5, <1>6

LEMMA UnsubscribePreserves ==
  ASSUME IInv, NEW k \in Keys, Unsubscribe(k)
  PROVE  IInv'
<1> USE KeysAssumption, NoStreamAssumption DEF IInv, Unsubscribe, cancelStream, Registered, connVars
<1>1. TypeOK'
  BY DEF TypeOK
<1>2. Served' /\ Entries'
  BY DEF TypeOK, Served, Entries
<1>3. Settled' /\ Complete'
  BY DEF TypeOK, Settled, Complete, Unregistered, Served
<1>4. WriterSends'
  BY DEF WriterSends
<1>5. QED  BY <1>1, <1>2, <1>3, <1>4

LEMMA CleanupPreserves ==
  ASSUME IInv, Cleanup
  PROVE  IInv'
<1> USE KeysAssumption, NoStreamAssumption DEF IInv, Cleanup, cleanup, Registered, connVars
<1>1. TypeOK'
  BY DEF TypeOK
<1>2. Served' /\ Entries'
  BY DEF TypeOK, Served, Entries
<1>3. Settled' /\ Complete'
  BY DEF TypeOK, Settled, Complete, Unregistered, Served
<1>4. WriterSends'
  BY DEF WriterSends
<1>5. QED  BY <1>1, <1>2, <1>3, <1>4

LEMMA RegisterPreserves ==
  ASSUME IInv, NEW s \in Streams, Register(s)
  PROVE  IInv'
<1> USE KeysAssumption, NoStreamAssumption DEF IInv, Register, connVars
<1>1. key[s] \in Keys
  BY DEF TypeOK, Served
<1>2. TypeOK'
  BY <1>1 DEF TypeOK, Pcs
<1>3. Served' /\ Entries'
  BY <1>1 DEF TypeOK, Served, Entries
<1>4. Settled' /\ Complete'
  BY <1>1 DEF TypeOK, Settled, Complete, Unregistered, Served
<1>5. WriterSends'
  BY NobodyAssumption DEF TypeOK, WriterSends, Unlocked
<1>6. QED  BY <1>2, <1>3, <1>4, <1>5

\* What a registered stream does concerns neither the registry nor who is live.
LEMMA StreamPreserves ==
  ASSUME IInv, NEW s \in Streams,
         Opened(s) \/ Received(s) \/ Stopped(s) \/ SendBegin(s) \/ SendEnd(s)
  PROVE  IInv'
<1> USE DEF IInv, connVars, Opened, Received, Stopped, SendBegin, SendEnd, Goto, AfterSend, Acquire, Release, Unlocked
<1>1. TypeOK'
  <2>1. CASE Opened(s) \/ Received(s) \/ Stopped(s)
    BY <2>1 DEF TypeOK, Pcs, Ended
  <2>2. CASE SendBegin(s)
    BY <2>2 DEF TypeOK, Writers
  <2>3. CASE SendEnd(s)
    BY <2>3 DEF TypeOK, Pcs, Ended
  <2>4. QED  BY <2>1, <2>2, <2>3
<1>2. /\ UNCHANGED <<cancels, key, cancelled, raced>>
      /\ pc[s] \notin {"unused", "spawned"}
      /\ \E to \in {"following", "sending", "failing", "done"} :
           pc' = [pc EXCEPT ![s] = to] \/ pc' = pc
  BY DEF WriterSends, TypeOK, Pcs, Ended
<1>3. Served' /\ Entries'
  BY <1>2 DEF TypeOK, Served, Entries
<1>4. Settled' /\ Complete'
  BY <1>2 DEF TypeOK, Settled, Complete, Unregistered, Served
<1>5. WriterSends'
  BY <1>2, NobodyAssumption DEF TypeOK, WriterSends
<1>6. QED  BY <1>1, <1>3, <1>4, <1>5

LEMMA StepPreserves == IInv /\ [Next]_vars => IInv'
<1> SUFFICES ASSUME IInv, [Next]_vars PROVE IInv'
  OBVIOUS
<1>1. CASE ConnStep \/ Unlist \/ Finished \/ UNCHANGED vars
  BY <1>1, ConnPreserves
<1>2. ASSUME NEW k \in Keys, NEW s \in Streams, Subscribe(k, s) PROVE IInv'
  BY <1>2, SubscribePreserves
<1>3. ASSUME NEW k \in Keys, Unsubscribe(k) PROVE IInv'
  BY <1>3, UnsubscribePreserves
<1>4. CASE Cleanup
  BY <1>4, CleanupPreserves
<1>5. ASSUME NEW s \in Streams, StreamStep(s) PROVE IInv'
  BY <1>5, RegisterPreserves, StreamPreserves DEF StreamStep
<1>6. QED  BY <1>1, <1>2, <1>3, <1>4, <1>5 DEF Next, ReaderStep

THEOREM InductiveInvariant == Safety => []IInv
<1>1. Init => IInv
  BY InitInvariant
<1>2. IInv /\ [Next]_vars => IInv'
  BY StepPreserves
<1>3. QED  BY <1>1, <1>2, PTL DEF Safety

-----------------------------------------------------------------------------

\* Every variable of a connection keeps its type.
THEOREM TypeInvariant == Safety => []TypeOK
<1>1. IInv => TypeOK
  BY DEF IInv
<1>2. QED  BY <1>1, InductiveInvariant, PTL

\* A registered cancel function is the one of a live stream of its key, however
\* the spawned goroutines race with the messages; and while the reader outran
\* none of them, every live stream of a key is registered or about to be.
THEOREM RegistryInvariant == Safety => []RegistryIsLive
<1>1. IInv => RegistryIsLive
  <2> SUFFICES ASSUME IInv, NEW k \in Keys
               PROVE  /\ Registered(k) \subseteq Serving(k)
                      /\ raced \/ Serving(k) \subseteq Registered(k) \cup Unregistered
    BY DEF RegistryIsLive
  <2>1. Registered(k) \subseteq Serving(k)
    BY KeysAssumption DEF IInv, TypeOK, Entries, Registered, Serving, Live
  <2>2. raced \/ Serving(k) \subseteq Registered(k) \cup Unregistered
    BY NoStreamAssumption DEF IInv, Complete, Registered, Serving, Live
  <2>3. QED  BY <2>1, <2>2
<1>2. QED  BY <1>1, InductiveInvariant, PTL

-----------------------------------------------------------------------------
(* The last frame of a cancelled stream. *)

\* A stream that began a frame after its cancellation is writing it, or has nothing
\* more to send: the check of the context stops its loop.
LateOnce ==
  \A s \in late :
    /\ s \in cancelled
    /\ writer = s \/ pc[s] \in {"following", "done"}

\* The steps that begin no frame: those of the connection, the reader and the other streams.
LEMMA QuietPreserves ==
  ASSUME IInv, LateOnce, [Next]_vars, \A s \in Streams : ~SendBegin(s) /\ ~SendEnd(s)
  PROVE  LateOnce' /\ \A s \in late : writer' = s => writer = s
<1> USE DEF connVars, streamVars
<1>1. late' = late /\ cancelled \subseteq cancelled'
  BY DEF vars, Next, ConnStep, ReaderStep, Subscribe, Unsubscribe, Cleanup, Unlist, cancelStream,
       cleanup, StreamStep, Register, Opened, Received, Stopped, Goto, Finished
<1>2. \A s \in late : s \in Streams /\ s \in cancelled
  BY DEF IInv, TypeOK, LateOnce
<1>3. writer \in Streams => writer' = writer
  <2>1. CASE ConnStep
    BY <2>1, StreamsAssumption, NobodyAssumption DEF ConnStep, Connection, Stall, Resume, Leave, ReadError,
         Close, PingTick, PingWritten, Acquire, Release, Unlocked, Writers
  <2>2. CASE ~ConnStep
    BY <2>2 DEF vars, Next, ReaderStep, Subscribe, Unsubscribe, Cleanup, Unlist,
         StreamStep, Register, Opened, Received, Stopped, Goto, Finished
  <2>3. QED  BY <2>1, <2>2
<1>4. writer' \in Streams => writer = writer'
  <2>1. CASE ConnStep
    BY <2>1, StreamsAssumption, NobodyAssumption DEF ConnStep, Connection, Stall, Resume, Leave, ReadError,
         Close, PingTick, PingWritten, Acquire, Release, Unlocked, Writers
  <2>2. CASE ~ConnStep
    BY <2>2 DEF vars, Next, ReaderStep, Subscribe, Unsubscribe, Cleanup, Unlist,
         StreamStep, Register, Opened, Received, Stopped, Goto, Finished
  <2>3. QED  BY <2>1, <2>2
<1>5. ASSUME NEW s \in late, pc[s] \in {"following", "done"} PROVE pc'[s] \in {"following", "done"}
  <2>1. CASE UNCHANGED pc
    BY <1>5, <2>1
  <2>2. ASSUME NEW k \in Keys, NEW t \in Streams, Subscribe(k, t) PROVE pc'[s] = pc[s]
    <3>1. pc[t] = "unused"
      BY <2>2 DEF Subscribe, IInv, Served
    <3>2. t # s
      BY <1>5, <3>1
    <3>3. QED  BY <2>2, <3>2, <1>2 DEF Subscribe, IInv, TypeOK
  <2>3. ASSUME NEW t \in Streams, Register(t) PROVE pc'[s] = pc[s]
    BY <1>2, <1>5, <2>3 DEF Register, IInv, TypeOK
  <2>4. ASSUME NEW t \in Streams, Opened(t) \/ Received(t) \/ Stopped(t)
        PROVE  pc'[s] \in {"following", "done"}
    BY <1>2, <1>5, <2>4 DEF Opened, Received, Stopped, Goto, IInv, TypeOK
  <2>5. CASE ConnStep \/ Cleanup \/ Unlist \/ Finished \/ UNCHANGED vars \/ \E k \in Keys : Unsubscribe(k)
    <3>1. UNCHANGED pc
      BY <2>5 DEF ConnStep, Cleanup, Unlist, Finished, Unsubscribe, vars
    <3>2. QED  BY <2>1, <3>1
  <2>6. QED  BY <1>5, <2>2, <2>3, <2>4, <2>5 DEF Next, ReaderStep, StreamStep
<1>6. LateOnce'
  BY <1>1, <1>2, <1>3, <1>5 DEF LateOnce
<1>7. QED  BY <1>2, <1>4, <1>6

LEMMA SendPreserves ==
  ASSUME IInv, LateOnce, NEW t \in Streams, SendBegin(t) \/ SendEnd(t)
  PROVE  LateOnce' /\ \A s \in late : writer' = s => writer = s
<1> USE NobodyAssumption DEF Acquire, Release, Unlocked
<1>1. CASE SendBegin(t)
  <2>1. t \notin late
    BY <1>1 DEF SendBegin, LateOnce, IInv, TypeOK
  <2>2. writer' = t /\ UNCHANGED <<cancelled, pc>> /\ late' \subseteq late \cup ({t} \cap cancelled)
    BY <1>1 DEF SendBegin
  <2>3. \A s \in late : pc[s] \in {"following", "done"}
    BY <1>1 DEF SendBegin, LateOnce, IInv, TypeOK
  <2>4. QED  BY <2>1, <2>2, <2>3 DEF LateOnce
<1>2. CASE SendEnd(t)
  <2>1. writer = t /\ writer' = Nobody /\ UNCHANGED <<cancelled, late>>
    BY <1>2 DEF SendEnd
  <2>2. pc' = [pc EXCEPT ![t] = AfterSend(t)] /\ AfterSend(t) \in {"following", "done"}
    BY <1>2 DEF SendEnd, AfterSend
  <2>3. QED  BY <2>1, <2>2 DEF LateOnce, IInv, TypeOK
<1>3. QED  BY <1>1, <1>2

\* A stream writes one frame at most after its cancellation, for any number of streams and
\* any race of messages and goroutines: the one it held, or the error of the request that was
\* cut short.
THEOREM LastFrameOnly == Safety => LastFrame
<1>1. Init => LateOnce
  BY DEF Init, LateOnce
<1>2. IInv /\ LateOnce /\ [Next]_vars => LateOnce' /\ \A s \in late : writer' = s => writer = s
  BY QuietPreserves, SendPreserves
<1>3. IInv /\ LateOnce /\ [Next]_vars => [\A s \in late : writer' = s => writer = s]_vars
  BY <1>2
<1>4. QED  BY <1>1, <1>2, <1>3, InductiveInvariant, PTL DEF Safety, LastFrame

-----------------------------------------------------------------------------
(* The refinement: what each step does to the registry of subscriptions. *)

RegistryStepOrStutter == [raced' \/ Registry!Next]_(Registry!vars)

\* A step that touches no stream and does not end the connection is invisible.
LEMMA ConnectionStutters ==
  ASSUME UNCHANGED <<key, cancelled, pc>>,
         reader' \in {"reading", "cleanup"} <=> reader \in {"reading", "cleanup"}
  PROVE  RegistryStepOrStutter
BY DEF RegistryStepOrStutter, Registry!vars, Live, Running

\* A step of one goroutine ends its stream or is invisible.
LEMMA GoroutineReturns ==
  ASSUME TypeOK, NEW s \in Running, NEW to,
         pc' = [pc EXCEPT ![s] = to],
         UNCHANGED <<reader, key, cancelled>>
  PROVE  RegistryStepOrStutter
<1>1. Live' = Live
  BY DEF Live
<1>2. s \in Streams /\ pc \in [Streams -> Pcs]
  BY DEF TypeOK, Running
<1>3. CASE to \in Ended
  <2>1. Running' = Running \ {s}
    BY <1>2, <1>3 DEF Running
  <2>2. Registry!Return(s)
    BY <1>1, <2>1 DEF Registry!Return
  <2> QED  BY <1>2, <2>2 DEF RegistryStepOrStutter, Registry!Next
<1>4. CASE to \notin Ended
  <2>1. Running' = Running
    BY <1>2, <1>4 DEF Running
  <2> QED  BY <1>1, <2>1 DEF RegistryStepOrStutter, Registry!vars
<1> QED  BY <1>3, <1>4

\* Unless a goroutine of the key has yet to register, its entry is all there is to cancel.
LEMMA EntryIsServing ==
  ASSUME IInv, ~raced, NEW k \in Keys, k \notin {key[t] : t \in Unregistered}
  PROVE  Registered(k) = Registry!Serving(k)
<1>1. Registered(k) \subseteq Registry!Serving(k)
  BY KeysAssumption DEF IInv, TypeOK, Entries, Registered, Registry!Serving, Live
<1>2. Registry!Serving(k) \subseteq Registered(k)
  BY NoStreamAssumption DEF IInv, Complete, Registered, Registry!Serving, Live
<1> QED  BY <1>1, <1>2

LEMMA SubscriptionMaps ==
  ASSUME IInv, NEW k \in Keys, NEW s \in Streams, Subscribe(k, s)
  PROVE  RegistryStepOrStutter
<1> SUFFICES ASSUME ~raced'
             PROVE  RegistryStepOrStutter
  BY DEF RegistryStepOrStutter
<1> USE DEF IInv, TypeOK, Subscribe, cancelStream, connVars
<1>1. s \notin cancelled /\ s \notin Running
  BY DEF Served, Running, Ended
<1>2. k # Unserved
  BY KeysAssumption
<1>3. Registered(k) = Registry!Serving(k)
  BY EntryIsServing
<1>4. s \notin Registered(k)
  BY <1>2, <1>3 DEF Registry!Serving
<1>5. Live' = (Live \ Registered(k)) \cup {s}
  BY <1>1, <1>2, <1>4 DEF Live
<1>6. Running' = Running \cup {s}
  BY <1>1 DEF Running, Ended
<1>7. Registry!Subscribe(k, s)
  BY <1>3, <1>5, <1>6 DEF Registry!Subscribe
<1> QED  BY <1>7 DEF RegistryStepOrStutter, Registry!Next

LEMMA UnsubscriptionMaps ==
  ASSUME IInv, NEW k \in Keys, Unsubscribe(k)
  PROVE  RegistryStepOrStutter
<1> SUFFICES ASSUME ~raced'
             PROVE  RegistryStepOrStutter
  BY DEF RegistryStepOrStutter
<1> USE DEF Unsubscribe, cancelStream, connVars
<1>1. Registered(k) = Registry!Serving(k)
  BY EntryIsServing
<1>2. Live' = Live \ Registered(k)
  BY DEF Live
<1>3. Running' = Running
  BY DEF Running
<1>4. Registry!Unsubscribe(k)
  BY <1>1, <1>2, <1>3 DEF Registry!Unsubscribe
<1> QED  BY <1>4 DEF RegistryStepOrStutter, Registry!Next

\* The cleanup withdraws every live stream.
LEMMA CleanupMaps ==
  ASSUME IInv, Cleanup
  PROVE  RegistryStepOrStutter
<1> SUFFICES ASSUME ~raced'
             PROVE  RegistryStepOrStutter
  BY DEF RegistryStepOrStutter
<1> USE DEF Cleanup, cleanup
<1>1. ~raced /\ Unregistered = {}
  OBVIOUS
<1>2. Live \subseteq UNION {Registered(k) : k \in Keys}
  <2> SUFFICES ASSUME NEW s \in Live
               PROVE  \E k \in Keys : s \in Registered(k)
    OBVIOUS
  <2>1. key[s] \in Keys
    BY DEF IInv, TypeOK, Live
  <2>2. s \in Registered(key[s])
    BY <1>1, EntryIsServing, <2>1 DEF Registry!Serving
  <2> QED  BY <2>1, <2>2
<1>3. Live' = {}
  BY <1>2 DEF Live
<1>4. Running' = Running
  BY DEF Running
<1>5. Registry!Disconnect
  BY <1>3, <1>4 DEF Registry!Disconnect
<1> QED  BY <1>5 DEF RegistryStepOrStutter, Registry!Next

LEMMA StepMaps ==
  ASSUME IInv, [Next]_vars
  PROVE  RegistryStepOrStutter
<1>1. CASE ConnStep
  BY <1>1, ConnectionStutters
  DEF ConnStep, Connection, Stall, Resume, Leave, ReadError, Close, PingTick, PingWritten, streamVars
<1>2. CASE Unlist
  BY <1>2, ConnectionStutters DEF Unlist, streamVars
<1>3. CASE ReaderStep
  BY <1>2, <1>3, SubscriptionMaps, UnsubscriptionMaps, CleanupMaps DEF ReaderStep
<1>4. ASSUME NEW s \in Streams, StreamStep(s)
      PROVE  RegistryStepOrStutter
  <2>1. CASE Register(s) \/ Opened(s) \/ Received(s) \/ Stopped(s)
    <3>1. pc[s] \notin Ended /\ UNCHANGED <<reader, key, cancelled>>
      BY <2>1 DEF Register, Opened, Received, Stopped, Goto, Ended, connVars
    <3>2. PICK to : pc' = [pc EXCEPT ![s] = to]
      BY <2>1 DEF Register, Opened, Received, Stopped, Goto
    <3> QED  BY <3>1, <3>2, GoroutineReturns DEF Running, IInv
  <2>2. CASE SendBegin(s)
    BY <2>2, ConnectionStutters DEF SendBegin
  <2>3. CASE SendEnd(s)
    <3>1. pc[s] \notin Ended
      BY <2>3 DEF SendEnd, Release, IInv, WriterSends, Ended
    <3> QED  BY <2>3, <3>1, GoroutineReturns DEF SendEnd, Running, IInv
  <2> QED  BY <1>4, <2>1, <2>2, <2>3 DEF StreamStep
<1>5. CASE Finished \/ UNCHANGED vars
  BY <1>5, ConnectionStutters DEF Finished, vars, connVars, streamVars
<1> QED  BY <1>1, <1>3, <1>4, <1>5 DEF Next

\* Unless the reader outran a goroutine it had spawned, every step of a Docker connection is a
\* step of StreamRegistry or invisible to it: what the Kubernetes hub promises, up to that race.
THEOREM RegistryRefinement == Safety => RegistryUnlessRaced
<1>1. Init => Registry!Init
  BY DEF Init, ConnInit, Registry!Init, Live, Running, Ended
<1>2. IInv /\ [Next]_vars => [raced' \/ Registry!Next]_(Registry!vars)
  BY StepMaps DEF RegistryStepOrStutter
<1> QED  BY InductiveInvariant, <1>1, <1>2, PTL DEF Safety, RegistryUnlessRaced

=============================================================================
