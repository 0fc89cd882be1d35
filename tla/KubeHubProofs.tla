--------------------------- MODULE KubeHubProofs ---------------------------
(***************************************************************************)
(* Proofs about KubeHub, for any number of keys and streams and any size   *)
(* of the log buffer: its invariants, and that it implements               *)
(* StreamRegistry step by step.                                            *)
(***************************************************************************)
EXTENDS KubeHub, TLAPS

-----------------------------------------------------------------------------
(* The inductive invariant. *)

\* A stream is somewhere in the goroutine of its kind, and nowhere before it
\* was started.
KindsAgree ==
  \A s \in Streams :
    /\ key[s] = Unserved    <=> pc[s] = "unused"
    /\ key[s] \in LogsKeys     => pc[s] \in LogsPcs \cup {"done"}
    /\ key[s] \in StatsKeys    => pc[s] \in StatsPcs \cup {"done"}
    /\ key[s] \in TopologyKeys => pc[s] \in TopologyPcs \cup {"done"}

\* Only who has a frame to send holds the lock: a stream, or the reader when
\* it reports a failed watch.
WriterSends ==
  /\ writer \in Streams => pc[writer] \in {"sending", "failing"}
  /\ writer = "reader" => reader = "reporting"

\* Only streams that were started are cancelled.
CancelledServed == \A s \in cancelled : key[s] # Unserved

\* After cleanup the registry stays empty: the reader starts nothing any more.
RegistryEmptied ==
  reader \in {"closing", "done"} => \A k \in Keys : cancels[k] = NoStream

\* The frame a stream has prepared and not begun to write.
Owed(s) == IF pc[s] \in {"sending", "failing"} /\ writer # s THEN 1 ELSE 0

\* What a stream can still write after its cancellation is paid from what it
\* had prepared and buffered before.
LateAccount ==
  \A s \in Streams :
    /\ s \notin cancelled => late[s] = 0
    /\ pc[s] = "opening" => late[s] = 0 /\ buffered[s] = 0
    /\ key[s] \in LogsKeys => late[s] + buffered[s] + Owed(s) <= MaxBuffer + 1
    /\ key[s] \notin LogsKeys => buffered[s] = 0 /\ late[s] + Owed(s) <= 1

IInv ==
  /\ TypeOK
  /\ KindsAgree
  /\ WriterSends
  /\ CancelledServed
  /\ RegistryMatchesLive
  /\ RegistryEmptied
  /\ LateAccount

\* Every step keeps every variable in its type.
LEMMA TypeStep ==
  ASSUME TypeOK, [Next]_vars
  PROVE  TypeOK'
<1> USE MaxBufferAssumption DEF TypeOK, connVars, streamVars, Writers, Pcs, LogsPcs, StatsPcs, TopologyPcs, Ended
<1>1. CASE Connection /\ UNCHANGED <<cancels, streamVars>>
  BY <1>1 DEF Connection, Stall, Resume, Leave, ReadError, Close,
       PingTick, PingWritten, Acquire, Release, Unlocked
<1>2. CASE ReaderStep
  <2>1. ASSUME NEW k \in Keys, NEW s \in Streams, Subscribe(k, s) PROVE TypeOK'
    BY <2>1 DEF Subscribe, startStream, Registered, Unlocked
  <2>2. ASSUME NEW k \in Keys, NEW s \in Streams, WatchTopology(k, s) PROVE TypeOK'
    BY <2>2 DEF WatchTopology, startStream, Registered, Unlocked
  <2>3. ASSUME NEW k \in Keys, Unsubscribe(k) PROVE TypeOK'
    BY <2>3 DEF Unsubscribe, cancelStream, Registered, Unlocked
  <2>4. CASE Discovered
    BY <2>4 DEF Discovered
  <2>5. CASE ReportBegin
    BY <2>5 DEF ReportBegin, Acquire, Unlocked
  <2>6. CASE ReportEnd
    BY <2>6 DEF ReportEnd, Release
  <2>7. CASE Cleanup
    BY <2>7 DEF Cleanup, cleanup, Registered, Unlocked
  <2>8. QED  BY <1>2, <2>1, <2>2, <2>3, <2>4, <2>5, <2>6, <2>7 DEF ReaderStep
<1>3. ASSUME NEW s \in Streams, StreamStep(s) PROVE TypeOK'
  <2>1. CASE LogsOpened(s)
    BY <2>1 DEF LogsOpened, Goto
  <2>2. CASE LineRead(s)
    BY <2>2 DEF LineRead, Goto
  <2>3. CASE LogsEnded(s)
    BY <2>3 DEF LogsEnded, Goto
  <2>4. CASE MetricsReturned(s)
    BY <2>4 DEF MetricsReturned, Goto
  <2>5. CASE PollTick(s)
    BY <2>5 DEF PollTick, Goto
  <2>6. CASE PollCancelled(s)
    BY <2>6 DEF PollCancelled, Goto
  <2>7. CASE TopologyChanged(s)
    BY <2>7 DEF TopologyChanged, Goto
  <2>8. CASE Debounced(s)
    BY <2>8 DEF Debounced, Goto
  <2>9. CASE WatchCancelled(s)
    BY <2>9 DEF WatchCancelled, Goto
  <2>10. CASE LineArrives(s)
    BY <2>10 DEF LineArrives
  <2>11. CASE SendBegin(s)
    BY <2>11 DEF SendBegin, Acquire, Unlocked
  <2>12. CASE SendEnd(s)
    BY <2>12 DEF SendEnd, Release, AfterSend
  <2>13. QED
    BY <1>3, <2>1, <2>2, <2>3, <2>4, <2>5, <2>6, <2>7, <2>8, <2>9, <2>10, <2>11, <2>12
    DEF StreamStep, StreamMove
<1>4. CASE Finished \/ UNCHANGED vars
  BY <1>4 DEF Finished, vars, connVars
<1>5. QED  BY <1>1, <1>2, <1>3, <1>4 DEF Next

\* Every step leaves each stream in the goroutine of its kind.
LEMMA KindsStep ==
  ASSUME TypeOK, KindsAgree, WriterSends, [Next]_vars
  PROVE  KindsAgree'
<1> USE KeysAssumption DEF TypeOK, KindsAgree, WriterSends, connVars, streamVars, Keys, LogsPcs, StatsPcs, TopologyPcs
<1>1. CASE Connection /\ UNCHANGED <<cancels, streamVars>>
  BY <1>1 DEF Connection, Stall, Resume, Leave, ReadError, Close,
       PingTick, PingWritten, Acquire, Release, Unlocked
<1>2. CASE ReaderStep
  <2>1. ASSUME NEW k \in Keys, NEW s \in Streams, Subscribe(k, s) PROVE KindsAgree'
    BY <2>1 DEF Subscribe, startStream, Registered, Unlocked
  <2>2. ASSUME NEW k \in Keys, NEW s \in Streams, WatchTopology(k, s) PROVE KindsAgree'
    BY <2>2 DEF WatchTopology, startStream, Registered, Unlocked
  <2>3. ASSUME NEW k \in Keys, Unsubscribe(k) PROVE KindsAgree'
    BY <2>3 DEF Unsubscribe, cancelStream, Registered, Unlocked
  <2>4. CASE Discovered
    BY <2>4 DEF Discovered
  <2>5. CASE ReportBegin
    BY <2>5 DEF ReportBegin, Acquire, Unlocked
  <2>6. CASE ReportEnd
    BY <2>6 DEF ReportEnd, Release
  <2>7. CASE Cleanup
    BY <2>7 DEF Cleanup, cleanup, Registered, Unlocked
  <2>8. QED  BY <1>2, <2>1, <2>2, <2>3, <2>4, <2>5, <2>6, <2>7 DEF ReaderStep
<1>3. ASSUME NEW s \in Streams, StreamStep(s) PROVE KindsAgree'
  <2>1. CASE LogsOpened(s)
    BY <2>1 DEF LogsOpened, Goto
  <2>2. CASE LineRead(s)
    BY <2>2 DEF LineRead, Goto
  <2>3. CASE LogsEnded(s)
    BY <2>3 DEF LogsEnded, Goto
  <2>4. CASE MetricsReturned(s)
    BY <2>4 DEF MetricsReturned, Goto
  <2>5. CASE PollTick(s)
    BY <2>5 DEF PollTick, Goto
  <2>6. CASE PollCancelled(s)
    BY <2>6 DEF PollCancelled, Goto
  <2>7. CASE TopologyChanged(s)
    BY <2>7 DEF TopologyChanged, Goto
  <2>8. CASE Debounced(s)
    BY <2>8 DEF Debounced, Goto
  <2>9. CASE WatchCancelled(s)
    BY <2>9 DEF WatchCancelled, Goto
  <2>10. CASE LineArrives(s)
    BY <2>10 DEF LineArrives
  <2>11. CASE SendBegin(s)
    BY <2>11 DEF SendBegin, Acquire, Unlocked
  <2>12. CASE SendEnd(s)
    BY <2>12 DEF SendEnd, Release, AfterSend
  <2>13. QED
    BY <1>3, <2>1, <2>2, <2>3, <2>4, <2>5, <2>6, <2>7, <2>8, <2>9, <2>10, <2>11, <2>12
    DEF StreamStep, StreamMove
<1>4. CASE Finished \/ UNCHANGED vars
  BY <1>4 DEF Finished, vars, connVars
<1>5. QED  BY <1>1, <1>2, <1>3, <1>4 DEF Next

\* Only a stream with a frame to send takes the lock, and it keeps that frame
\* until it gives the lock back.
LEMMA WriterStep ==
  ASSUME TypeOK, KindsAgree, WriterSends, [Next]_vars
  PROVE  WriterSends'
<1> USE NobodyAssumption, StreamsAssumption DEF KindsAgree, LogsPcs, TypeOK, WriterSends, connVars, streamVars, Writers
<1>1. CASE Connection /\ UNCHANGED <<cancels, streamVars>>
  BY <1>1 DEF Connection, Stall, Resume, Leave, ReadError, Close,
       PingTick, PingWritten, Acquire, Release, Unlocked
<1>2. CASE ReaderStep
  <2>1. ASSUME NEW k \in Keys, NEW s \in Streams, Subscribe(k, s) PROVE WriterSends'
    BY <2>1 DEF Subscribe, startStream, Registered, Unlocked
  <2>2. ASSUME NEW k \in Keys, NEW s \in Streams, WatchTopology(k, s) PROVE WriterSends'
    BY <2>2 DEF WatchTopology, startStream, Registered, Unlocked
  <2>3. ASSUME NEW k \in Keys, Unsubscribe(k) PROVE WriterSends'
    BY <2>3 DEF Unsubscribe, cancelStream, Registered, Unlocked
  <2>4. CASE Discovered
    BY <2>4 DEF Discovered
  <2>5. CASE ReportBegin
    BY <2>5 DEF ReportBegin, Acquire, Unlocked
  <2>6. CASE ReportEnd
    BY <2>6 DEF ReportEnd, Release
  <2>7. CASE Cleanup
    BY <2>7 DEF Cleanup, cleanup, Registered, Unlocked
  <2>8. QED  BY <1>2, <2>1, <2>2, <2>3, <2>4, <2>5, <2>6, <2>7 DEF ReaderStep
<1>3. ASSUME NEW s \in Streams, StreamStep(s) PROVE WriterSends'
  <2>1. CASE LogsOpened(s)
    BY <2>1 DEF LogsOpened, Goto
  <2>2. CASE LineRead(s)
    BY <2>2 DEF LineRead, Goto
  <2>3. CASE LogsEnded(s)
    BY <2>3 DEF LogsEnded, Goto
  <2>4. CASE MetricsReturned(s)
    BY <2>4 DEF MetricsReturned, Goto
  <2>5. CASE PollTick(s)
    BY <2>5 DEF PollTick, Goto
  <2>6. CASE PollCancelled(s)
    BY <2>6 DEF PollCancelled, Goto
  <2>7. CASE TopologyChanged(s)
    BY <2>7 DEF TopologyChanged, Goto
  <2>8. CASE Debounced(s)
    BY <2>8 DEF Debounced, Goto
  <2>9. CASE WatchCancelled(s)
    BY <2>9 DEF WatchCancelled, Goto
  <2>10. CASE LineArrives(s)
    BY <2>10 DEF LineArrives
  <2>11. CASE SendBegin(s)
    BY <2>11 DEF SendBegin, Acquire, Unlocked
  <2>12. CASE SendEnd(s)
    BY <2>12 DEF SendEnd, Release, AfterSend
  <2>13. QED
    BY <1>3, <2>1, <2>2, <2>3, <2>4, <2>5, <2>6, <2>7, <2>8, <2>9, <2>10, <2>11, <2>12
    DEF StreamStep, StreamMove
<1>4. CASE Finished \/ UNCHANGED vars
  BY <1>4 DEF Finished, vars, connVars
<1>5. QED  BY <1>1, <1>2, <1>3, <1>4 DEF Next

\* Every step keeps the registry equal to the live streams.
LEMMA RegistryStep ==
  ASSUME TypeOK, CancelledServed, RegistryMatchesLive, RegistryEmptied, [Next]_vars
  PROVE  (CancelledServed /\ RegistryMatchesLive /\ RegistryEmptied)'
<1> USE KeysAssumption, NoStreamAssumption DEF TypeOK, CancelledServed, RegistryMatchesLive, RegistryEmptied, connVars, streamVars, Live, Registered
<1>1. CASE Connection /\ UNCHANGED <<cancels, streamVars>>
  BY <1>1 DEF Connection, Stall, Resume, Leave, ReadError, Close,
       PingTick, PingWritten, Acquire, Release, Unlocked
<1>2. CASE ReaderStep
  <2>1. ASSUME NEW k \in Keys, NEW s \in Streams, Subscribe(k, s) PROVE (CancelledServed /\ RegistryMatchesLive /\ RegistryEmptied)'
    BY <2>1 DEF Subscribe, startStream, Registered, Unlocked
  <2>2. ASSUME NEW k \in Keys, NEW s \in Streams, WatchTopology(k, s) PROVE (CancelledServed /\ RegistryMatchesLive /\ RegistryEmptied)'
    BY <2>2 DEF WatchTopology, startStream, Registered, Unlocked
  <2>3. ASSUME NEW k \in Keys, Unsubscribe(k) PROVE (CancelledServed /\ RegistryMatchesLive /\ RegistryEmptied)'
    BY <2>3 DEF Unsubscribe, cancelStream, Registered, Unlocked
  <2>4. CASE Discovered
    BY <2>4 DEF Discovered
  <2>5. CASE ReportBegin
    BY <2>5 DEF ReportBegin, Acquire, Unlocked
  <2>6. CASE ReportEnd
    BY <2>6 DEF ReportEnd, Release
  <2>7. CASE Cleanup
    BY <2>7 DEF Cleanup, cleanup, Registered, Unlocked
  <2>8. QED  BY <1>2, <2>1, <2>2, <2>3, <2>4, <2>5, <2>6, <2>7 DEF ReaderStep
<1>3. ASSUME NEW s \in Streams, StreamStep(s) PROVE (CancelledServed /\ RegistryMatchesLive /\ RegistryEmptied)'
  <2>1. CASE LogsOpened(s)
    BY <2>1 DEF LogsOpened, Goto
  <2>2. CASE LineRead(s)
    BY <2>2 DEF LineRead, Goto
  <2>3. CASE LogsEnded(s)
    BY <2>3 DEF LogsEnded, Goto
  <2>4. CASE MetricsReturned(s)
    BY <2>4 DEF MetricsReturned, Goto
  <2>5. CASE PollTick(s)
    BY <2>5 DEF PollTick, Goto
  <2>6. CASE PollCancelled(s)
    BY <2>6 DEF PollCancelled, Goto
  <2>7. CASE TopologyChanged(s)
    BY <2>7 DEF TopologyChanged, Goto
  <2>8. CASE Debounced(s)
    BY <2>8 DEF Debounced, Goto
  <2>9. CASE WatchCancelled(s)
    BY <2>9 DEF WatchCancelled, Goto
  <2>10. CASE LineArrives(s)
    BY <2>10 DEF LineArrives
  <2>11. CASE SendBegin(s)
    BY <2>11 DEF SendBegin, Acquire, Unlocked
  <2>12. CASE SendEnd(s)
    BY <2>12 DEF SendEnd, Release, AfterSend
  <2>13. QED
    BY <1>3, <2>1, <2>2, <2>3, <2>4, <2>5, <2>6, <2>7, <2>8, <2>9, <2>10, <2>11, <2>12
    DEF StreamStep, StreamMove
<1>4. CASE Finished \/ UNCHANGED vars
  BY <1>4 DEF Finished, vars, connVars
<1>5. QED  BY <1>1, <1>2, <1>3, <1>4 DEF Next

\* Every step keeps the account of late frames.
LEMMA LateStep ==
  ASSUME TypeOK, KindsAgree, WriterSends, CancelledServed, LateAccount, [Next]_vars
  PROVE  LateAccount'
<1> USE KeysAssumption, MaxBufferAssumption, NobodyAssumption, StreamsAssumption DEF TypeOK, KindsAgree, WriterSends, CancelledServed, LateAccount, Owed, connVars, streamVars, Keys, LogsPcs, StatsPcs, TopologyPcs
<1>1. CASE Connection /\ UNCHANGED <<cancels, streamVars>>
  BY <1>1 DEF Connection, Stall, Resume, Leave, ReadError, Close,
       PingTick, PingWritten, Acquire, Release, Unlocked
<1>2. CASE ReaderStep
  <2>1. ASSUME NEW k \in Keys, NEW s \in Streams, Subscribe(k, s) PROVE LateAccount'
    BY <2>1 DEF Subscribe, startStream, Registered, Unlocked
  <2>2. ASSUME NEW k \in Keys, NEW s \in Streams, WatchTopology(k, s) PROVE LateAccount'
    BY <2>2 DEF WatchTopology, startStream, Registered, Unlocked
  <2>3. ASSUME NEW k \in Keys, Unsubscribe(k) PROVE LateAccount'
    BY <2>3 DEF Unsubscribe, cancelStream, Registered, Unlocked
  <2>4. CASE Discovered
    BY <2>4 DEF Discovered
  <2>5. CASE ReportBegin
    BY <2>5 DEF ReportBegin, Acquire, Unlocked
  <2>6. CASE ReportEnd
    BY <2>6 DEF ReportEnd, Release
  <2>7. CASE Cleanup
    BY <2>7 DEF Cleanup, cleanup, Registered, Unlocked
  <2>8. QED  BY <1>2, <2>1, <2>2, <2>3, <2>4, <2>5, <2>6, <2>7 DEF ReaderStep
<1>3. ASSUME NEW s \in Streams, StreamStep(s) PROVE LateAccount'
  <2>1. CASE LogsOpened(s)
    BY <2>1 DEF LogsOpened, Goto
  <2>2. CASE LineRead(s)
    BY <2>2 DEF LineRead, Goto
  <2>3. CASE LogsEnded(s)
    BY <2>3 DEF LogsEnded, Goto
  <2>4. CASE MetricsReturned(s)
    BY <2>4 DEF MetricsReturned, Goto
  <2>5. CASE PollTick(s)
    BY <2>5 DEF PollTick, Goto
  <2>6. CASE PollCancelled(s)
    BY <2>6 DEF PollCancelled, Goto
  <2>7. CASE TopologyChanged(s)
    BY <2>7 DEF TopologyChanged, Goto
  <2>8. CASE Debounced(s)
    BY <2>8 DEF Debounced, Goto
  <2>9. CASE WatchCancelled(s)
    BY <2>9 DEF WatchCancelled, Goto
  <2>10. CASE LineArrives(s)
    BY <2>10 DEF LineArrives
  <2>11. CASE SendBegin(s)
    BY <2>11 DEF SendBegin, Acquire, Unlocked
  <2>12. CASE SendEnd(s)
    BY <2>12 DEF SendEnd, Release, AfterSend
  <2>13. QED
    BY <1>3, <2>1, <2>2, <2>3, <2>4, <2>5, <2>6, <2>7, <2>8, <2>9, <2>10, <2>11, <2>12
    DEF StreamStep, StreamMove
<1>4. CASE Finished \/ UNCHANGED vars
  BY <1>4 DEF Finished, vars, connVars
<1>5. QED  BY <1>1, <1>2, <1>3, <1>4 DEF Next

-----------------------------------------------------------------------------
(* The invariants. *)

LEMMA InitInvariant == Init => IInv
<1> SUFFICES ASSUME Init PROVE IInv
  OBVIOUS
<1> USE DEF Init, ConnInit
<1>1. TypeOK
  <2>1. /\ peer = "up" /\ closed \in BOOLEAN /\ reader = "reading"
        /\ writer \in Writers \cup {Nobody} /\ ping = "ticking"
    OBVIOUS
  <2>2. /\ cancels \in [Keys -> Streams \cup {NoStream}]
        /\ key \in [Streams -> Keys \cup {Unserved}]
        /\ cancelled \subseteq Streams
        /\ pc \in [Streams -> Pcs]
    BY DEF Pcs, Ended
  <2>3. buffered \in [Streams -> 0..MaxBuffer] /\ late \in [Streams -> Nat]
    BY MaxBufferAssumption
  <2>4. QED  BY <2>1, <2>2, <2>3 DEF TypeOK
<1>2. KindsAgree /\ WriterSends
  BY KeysAssumption, NobodyAssumption DEF KindsAgree, WriterSends, Keys
<1>3. CancelledServed /\ RegistryMatchesLive /\ RegistryEmptied
  BY DEF CancelledServed, RegistryMatchesLive, RegistryEmptied, Registered, Live
<1>4. LateAccount
  <2>1. \A s \in Streams : late[s] = 0 /\ buffered[s] = 0 /\ Owed(s) = 0
    BY DEF Owed
  <2>2. 0 + 0 + 0 <= MaxBuffer + 1 /\ 0 + 0 <= 1
    BY MaxBufferAssumption
  <2>3. QED  BY <2>1, <2>2 DEF LateAccount
<1>5. QED  BY <1>1, <1>2, <1>3, <1>4 DEF IInv

\* IInv is an inductive invariant of every behaviour, fair or not.
THEOREM InductiveInvariant == Safety => []IInv
<1>1. IInv /\ [Next]_vars => IInv'
  BY TypeStep, KindsStep, WriterStep, RegistryStep, LateStep DEF IInv
<1>2. QED  BY InitInvariant, <1>1, PTL DEF Safety

\* Every variable holds a value of its type, whatever the number of keys,
\* streams and buffered lines.
THEOREM TypeInvariant == Safety => []TypeOK
<1>1. IInv => TypeOK
  BY DEF IInv
<1>2. QED  BY InductiveInvariant, <1>1, PTL

\* A live stream can always be cancelled through its key, and a registered
\* cancel function always belongs to a live stream of its key.
THEOREM RegistryInvariant == Safety => []RegistryMatchesLive
<1>1. IInv => RegistryMatchesLive
  BY DEF IInv
<1>2. QED  BY InductiveInvariant, <1>1, PTL

\* Once the deferred cleanup ran no stream is live, so none outlives the
\* connection (TestDisconnectCancelsEveryStream, for every interleaving).
NothingLiveAfterCleanup == reader \in {"closing", "done"} => Live = {}

\* No stream is live once the deferred cleanup of the connection ran.
THEOREM CleanupInvariant == Safety => []NothingLiveAfterCleanup
<1>1. ASSUME IInv, reader \in {"closing", "done"}, NEW s \in Live PROVE FALSE
  <2>1. key[s] \in Keys /\ s \in Streams
    BY <1>1 DEF IInv, TypeOK, Live
  <2>2. s \in Registered(key[s])
    BY <1>1, <2>1 DEF IInv, RegistryMatchesLive
  <2>3. QED  BY <1>1, <2>1, <2>2 DEF IInv, RegistryEmptied, Registered
<1>2. IInv => NothingLiveAfterCleanup
  BY <1>1 DEF NothingLiveAfterCleanup
<1>3. QED  BY InductiveInvariant, <1>2, PTL

\* After its cancellation a stream begins at most one more frame, and a log
\* stream at most as many more as its buffer holds.
THEOREM LateInvariant == Safety => []LateBounded
<1>1. IInv => LateBounded
  <2> SUFFICES ASSUME IInv, NEW s \in Streams
      PROVE  late[s] <= IF key[s] \in LogsKeys THEN MaxBuffer + 1 ELSE 1
    BY DEF LateBounded
  <2>1. late[s] \in Nat /\ buffered[s] \in Nat /\ Owed(s) \in {0, 1}
    BY DEF IInv, TypeOK, Owed
  <2>2. QED  BY <2>1, MaxBufferAssumption DEF IInv, LateAccount
<1>2. QED  BY InductiveInvariant, <1>1, PTL

-----------------------------------------------------------------------------
(* The refinement: what each step does to the registry of subscriptions. *)

RegistryStepOrStutter == [Registry!Next]_(Registry!vars)

\* A step that touches no stream and does not end the connection is invisible.
LEMMA ConnectionStutters ==
  ASSUME UNCHANGED <<key, cancelled, pc>>,
         reader' \in {"closing", "done"} <=> reader \in {"closing", "done"}
  PROVE  RegistryStepOrStutter
BY DEF RegistryStepOrStutter, Registry!vars, Live, Running

\* A step of one goroutine ends its stream or is invisible.
LEMMA GoroutineReturns ==
  ASSUME TypeOK, NEW s \in Running, NEW to,
         pc' = [pc EXCEPT ![s] = to],
         UNCHANGED <<reader, key, cancelled>>
  PROVE  RegistryStepOrStutter
<1>1. Live' = Live
  BY DEF Live
<1>2. s \in Streams /\ pc \in [Streams -> Pcs]
  BY DEF TypeOK, Running
<1>3. CASE to \in Ended
  <2>1. Running' = Running \ {s}
    BY <1>2, <1>3 DEF Running
  <2>2. Registry!Return(s)
    BY <1>1, <2>1 DEF Registry!Return
  <2>3. QED  BY <1>2, <2>2 DEF RegistryStepOrStutter, Registry!Next
<1>4. CASE to \notin Ended
  <2>1. Running' = Running
    BY <1>2, <1>4 DEF Running
  <2>2. QED  BY <1>1, <2>1 DEF RegistryStepOrStutter, Registry!vars
<1>5. QED  BY <1>3, <1>4

\* A subscription replaces exactly the live streams of its key.
LEMMA SubscriptionMaps ==
  ASSUME IInv, NEW k \in Keys, NEW s \in Streams,
         reader = "reading", reader' \notin {"closing", "done"},
         key[s] = Unserved,
         startStream(k, s),
         key' = [key EXCEPT ![s] = k],
         NEW to \in Pcs \ {"unused"}, pc' = [pc EXCEPT ![s] = to]
  PROVE  RegistryStepOrStutter
<1> USE DEF IInv, TypeOK
<1>1. s \notin cancelled /\ s \notin Running
  BY DEF CancelledServed, KindsAgree, Running, Ended
<1>2. k # Unserved
  BY KeysAssumption
<1>3. Registered(k) = Registry!Serving(k)
  BY DEF RegistryMatchesLive, Registry!Serving
<1>4. s \notin Registered(k)
  BY <1>2, <1>3 DEF Registry!Serving
<1>5. Live' = (Live \ Registered(k)) \cup {s}
  BY <1>1, <1>2, <1>4 DEF startStream, Live
<1>6. Running' \in {Running, Running \cup {s}}
  <2>1. CASE to = "done"
    <3>1. Running' = Running
      BY <1>1, <2>1 DEF Running, Ended
    <3>2. QED  BY <3>1
  <2>2. CASE to # "done"
    <3>1. Running' = Running \cup {s}
      BY <1>1, <2>2 DEF Running, Ended
    <3>2. QED  BY <3>1
  <2>3. QED  BY <2>1, <2>2
<1>7. Registry!Subscribe(k, s)
  BY <1>3, <1>5, <1>6 DEF Registry!Subscribe
<1>8. QED  BY <1>7 DEF RegistryStepOrStutter, Registry!Next

\* An unsubscription withdraws exactly the live streams of its key.
LEMMA UnsubscriptionMaps ==
  ASSUME IInv, NEW k \in Keys, Unsubscribe(k)
  PROVE  RegistryStepOrStutter
<1> USE DEF Unsubscribe, cancelStream, connVars
<1>1. Registered(k) = Registry!Serving(k)
  BY DEF IInv, RegistryMatchesLive, Registry!Serving
<1>2. Live' = Live \ Registered(k)
  BY DEF Live
<1>3. Running' = Running
  BY DEF Running
<1>4. Registry!Unsubscribe(k)
  BY <1>1, <1>2, <1>3 DEF Registry!Unsubscribe
<1>5. QED  BY <1>4 DEF RegistryStepOrStutter, Registry!Next

\* The cleanup of the connection withdraws every live stream.
LEMMA CleanupMaps ==
  ASSUME IInv, Cleanup
  PROVE  RegistryStepOrStutter
<1> USE DEF Cleanup, cleanup
<1>1. Live \subseteq UNION {Registered(k) : k \in Keys}
  <2> SUFFICES ASSUME NEW s \in Live PROVE \E k \in Keys : s \in Registered(k)
    OBVIOUS
  <2>1. key[s] \in Keys
    BY DEF IInv, TypeOK, Live
  <2>2. QED  BY <2>1 DEF IInv, RegistryMatchesLive
<1>2. Live' = {}
  BY <1>1 DEF Live
<1>3. Running' = Running
  BY DEF Running
<1>4. Registry!Disconnect
  BY <1>2, <1>3 DEF Registry!Disconnect
<1>5. QED  BY <1>4 DEF RegistryStepOrStutter, Registry!Next

LEMMA StepMaps ==
  ASSUME IInv, [Next]_vars
  PROVE  RegistryStepOrStutter
<1>1. CASE Connection /\ UNCHANGED <<cancels, streamVars>>
  BY <1>1, ConnectionStutters
  DEF Connection, Stall, Resume, Leave, ReadError, Close, PingTick, PingWritten, streamVars
<1>2. CASE ReaderStep
  <2>1. ASSUME NEW k \in Keys, NEW s \in Streams, Subscribe(k, s)
        PROVE  RegistryStepOrStutter
    <3> DEFINE first == IF k \in LogsKeys THEN "opening" ELSE "polling"
    <3>1. first \in Pcs \ {"unused"}
      BY DEF Pcs, LogsPcs, StatsPcs
    <3>2. pc' = [pc EXCEPT ![s] = first]
      BY <2>1 DEF Subscribe
    <3> HIDE DEF first
    <3>3. QED  BY <2>1, <3>1, <3>2, SubscriptionMaps DEF Subscribe, connVars
  <2>2. ASSUME NEW k \in Keys, NEW s \in Streams, WatchTopology(k, s)
        PROVE  RegistryStepOrStutter
    <3>1. PICK to \in Pcs \ {"unused"} : pc' = [pc EXCEPT ![s] = to]
      BY <2>2 DEF WatchTopology, Pcs, TopologyPcs, Ended
    <3>2. reader' \notin {"closing", "done"}
      BY <2>2 DEF WatchTopology
    <3>3. QED  BY <2>2, <3>1, <3>2, SubscriptionMaps DEF WatchTopology
  <2>3. CASE Discovered \/ ReportBegin
    BY <2>3, ConnectionStutters DEF Discovered, ReportBegin, streamVars
  <2>4. CASE ReportEnd
    BY <2>4, ConnectionStutters DEF ReportEnd, Release, streamVars, IInv, WriterSends
  <2>5. QED
    BY <1>2, <2>1, <2>2, <2>3, <2>4, UnsubscriptionMaps, CleanupMaps DEF ReaderStep
<1>3. ASSUME NEW s \in Streams, StreamStep(s) PROVE RegistryStepOrStutter
  <2>1. CASE StreamMove(s)
    <3>1. pc[s] \notin Ended /\ UNCHANGED <<reader, key, cancelled>>
      BY <2>1 DEF StreamMove, LogsOpened, LineRead, LogsEnded, MetricsReturned, PollTick,
                  PollCancelled, TopologyChanged, Debounced, WatchCancelled, Goto, Ended, connVars
    <3>2. PICK to : pc' = [pc EXCEPT ![s] = to]
      BY <2>1 DEF StreamMove, LogsOpened, LineRead, LogsEnded, MetricsReturned, PollTick,
                  PollCancelled, TopologyChanged, Debounced, WatchCancelled, Goto
    <3>3. QED  BY <3>1, <3>2, GoroutineReturns DEF Running, IInv
  <2>2. CASE LineArrives(s) \/ SendBegin(s)
    BY <2>2, ConnectionStutters DEF LineArrives, SendBegin, connVars
  <2>3. CASE SendEnd(s)
    <3>1. pc[s] \notin Ended
      BY <2>3 DEF SendEnd, Release, IInv, WriterSends, Ended
    <3>2. QED  BY <2>3, <3>1, GoroutineReturns DEF SendEnd, Running, IInv
  <2>4. QED  BY <1>3, <2>1, <2>2, <2>3 DEF StreamStep
<1>4. CASE Finished \/ UNCHANGED vars
  BY <1>4, ConnectionStutters DEF Finished, vars, connVars, streamVars
<1>5. QED  BY <1>1, <1>2, <1>3, <1>4 DEF Next

\* Every step of the connection is a step of StreamRegistry or invisible to it:
\* replacing, withdrawing and disconnecting are atomic for the client.
THEOREM RegistryRefinement == Safety => Registry!Init /\ [][Registry!Next]_(Registry!vars)
<1>1. Init => Registry!Init
  BY DEF Init, ConnInit, Registry!Init, Live, Running, Ended
<1>2. IInv /\ [Next]_vars => [Registry!Next]_(Registry!vars)
  BY StepMaps DEF RegistryStepOrStutter
<1>3. QED  BY InductiveInvariant, <1>1, <1>2, PTL DEF Safety

=============================================================================
