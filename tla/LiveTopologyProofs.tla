------------------------- MODULE LiveTopologyProofs -------------------------
(***************************************************************************)
(* Proofs about LiveTopology, for any views, scopes and bounds: the socket *)
(* always has a connection or will make one, and the hub watches what the  *)
(* canvas shows as long as the connection lasts and nobody outran it.      *)
(***************************************************************************)
EXTENDS LiveTopology, TLAPS

-----------------------------------------------------------------------------

\* No step of the canvas or of the hub touches the socket but by an emission.
LEMMA StrandedStep ==
  ASSUME NeverStranded, [Next]_vars
  PROVE  NeverStranded'
<1> USE DEF NeverStranded
<1>1. ASSUME UNCHANGED socketVars
      PROVE  NeverStranded'
  BY <1>1 DEF socketVars
<1>2. ASSUME NEW v \in Views, Switch(v)
      PROVE  NeverStranded'
  BY <1>2 DEF Switch, Emit, Connected
<1>3. ASSUME NEW i \in DOMAIN pending, Resend(i)
      PROVE  NeverStranded'
  BY <1>3 DEF Resend, Retry
<1>4. CASE Opened \/ Dropped \/ Reconnected
  BY <1>4 DEF Opened, Open, Dropped, Drop, scheduleReconnect, Reconnected, Reconnect, Connected
<1>5. ASSUME NEW v \in Views, Change(v)
      PROVE  NeverStranded'
  BY <1>1, <1>5 DEF Change
<1>6. ASSUME NEW s \in Scopes, Notified(s)
      PROVE  NeverStranded'
  BY <1>1, <1>6 DEF Notified
<1>7. ASSUME NEW f \in Fetches, Answer(f) \/ Draw(f) \/ Fail(f)
      PROVE  NeverStranded'
  BY <1>1, <1>7 DEF Answer, Draw, Fail
<1>8. CASE Poll \/ UNCHANGED vars
  BY <1>1, <1>8 DEF Poll, vars
<1> QED
  BY <1>2, <1>3, <1>4, <1>5, <1>6, <1>7, <1>8 DEF Next

\* socket.ts: a socket without a connection has a timer that makes one, for any number of
\* drops and of messages waiting: nothing that was emitted is left without a way out.
THEOREM SocketNeverStranded == Spec => []NeverStranded
<1>1. Init => NeverStranded
  BY DEF Init, NeverStranded
<1>2. NeverStranded /\ [Next]_vars => NeverStranded'
  BY StrandedStep
<1> QED  BY <1>1, <1>2, PTL DEF Spec

-----------------------------------------------------------------------------

\* While the connection was never lost and no view was opened before the messages of the
\* last one had left: the watch of the current view waits and the hub watches nothing, or
\* the connection is open, nothing waits and the hub watches the scope of the view alone.
WatchSettled ==
  ~hurried /\ drops = 0 =>
    \/ pending = <<Watch(ScopeOf[view])>> /\ watched = {}
    \/ pending = <<>> /\ ws = "open" /\ watched = {ScopeOf[view]}

SettledInv ==
  /\ view \in Views
  /\ drops \in Nat
  /\ WatchSettled

LEMMA SettledStep ==
  ASSUME SettledInv, [Next]_vars
  PROVE  SettledInv'
<1> USE DEF SettledInv, WatchSettled
<1>1. ASSUME UNCHANGED <<socketVars, view, hurried, watched>>
      PROVE  SettledInv'
  BY <1>1 DEF socketVars
<1>2. ASSUME NEW v \in Views, Switch(v)
      PROVE  SettledInv'
  <2> DEFINE both == <<Unwatch(ScopeOf[view]), Watch(ScopeOf[v])>>
  <2>1. view' = v /\ hurried' = (hurried \/ pending # <<>>) /\ drops' = drops
    BY <1>2 DEF Switch, Emit
  <2>2. SUFFICES ASSUME ~hurried, pending = <<>>, drops = 0
                 PROVE  pending' = <<>> /\ ws' = "open" /\ watched' = {ScopeOf[v]}
    BY <2>1
  <2>3. ws = "open" /\ watched = {ScopeOf[view]}
    BY <2>2
  <2>4. PICK sent : Emit(both, sent) /\ Receive(sent)
    BY <1>2 DEF Switch
  <2>5. sent = both /\ pending' = pending /\ ws' = "open"
    BY <2>3, <2>4 DEF Emit, Connected
  <2>6. ScopeOf[view] \in Scopes /\ ScopeOf[v] \in Scopes
    BY ScopeAssumption
  <2>7. /\ DOMAIN both = {1, 2}
        /\ both[1] = Unwatch(ScopeOf[view]) /\ both[2] = Watch(ScopeOf[v])
    OBVIOUS
  <2>8. \A s, t : Watch(s) # Unwatch(t) /\ (Watch(s) = Watch(t) => s = t) /\ (Unwatch(s) = Unwatch(t) => s = t)
    BY DEF Watch, Unwatch
  <2> HIDE DEF both
  <2>9. watched' = {ScopeOf[v]}
    BY <2>3, <2>4, <2>5, <2>6, <2>7, <2>8 DEF Receive
  <2> QED  BY <2>2, <2>5, <2>9
<1>3. ASSUME NEW i \in DOMAIN pending, Resend(i)
      PROVE  SettledInv'
  <2>1. ws = "open" /\ ws' = ws /\ drops' = drops /\ view' = view /\ hurried' = hurried
    BY <1>3 DEF Resend, Retry, canvasVars
  <2>2. SUFFICES ASSUME ~hurried, drops = 0
                 PROVE  pending' = <<>> /\ watched' = {ScopeOf[view]}
    BY <2>1
  <2>3. pending = <<Watch(ScopeOf[view])>> /\ watched = {} /\ i = 1
    BY <1>3, <2>2
  <2>4. pending' = <<>>
    BY <1>3, <2>3 DEF Resend, Retry, RemoveAt
  <2>5. ScopeOf[view] \in Scopes
    BY ScopeAssumption
  <2>6. \A s, t : Watch(s) # Unwatch(t) /\ (Watch(s) = Watch(t) => s = t)
    BY DEF Watch, Unwatch
  <2>7. watched' = {ScopeOf[view]}
    BY <1>3, <2>3, <2>5, <2>6 DEF Resend, Receive
  <2> QED  BY <2>4, <2>7
<1>4. CASE Opened
  BY <1>4 DEF Opened, Open, canvasVars, hubVars
<1>5. CASE Dropped
  BY <1>5 DEF Dropped, Drop, canvasVars
<1>6. CASE Reconnected
  BY <1>6 DEF Reconnected, Reconnect, Connected, canvasVars, hubVars
<1>7. ASSUME NEW v \in Views, Change(v)
      PROVE  SettledInv'
  BY <1>1, <1>7 DEF Change, canvasVars
<1>8. ASSUME NEW s \in Scopes, Notified(s)
      PROVE  SettledInv'
  BY <1>1, <1>8 DEF Notified
<1>9. ASSUME NEW f \in Fetches, Answer(f) \/ Draw(f) \/ Fail(f)
      PROVE  SettledInv'
  BY <1>1, <1>9 DEF Answer, Draw, Fail, hubVars
<1>10. CASE Poll \/ UNCHANGED vars
  BY <1>1, <1>10 DEF Poll, vars, hubVars, canvasVars
<1> QED
  BY <1>2, <1>3, <1>4, <1>5, <1>6, <1>7, <1>8, <1>9, <1>10 DEF Next

\* useKubeTopology.ts: however many views are opened, within a scope or beyond it, the hub
\* watches the scope of the view on screen and no other, but for the watch still in a timer.
\* This is what WatchFollowsView comes to rest in.
THEOREM HubWatchesView == Spec => []WatchSettled
<1>1. Init => SettledInv
  BY DEF Init, SettledInv, WatchSettled
<1>2. SettledInv /\ [Next]_vars => SettledInv'
  BY SettledStep
<1>3. SettledInv => WatchSettled
  BY DEF SettledInv
<1> QED  BY <1>1, <1>2, <1>3, PTL DEF Spec

=============================================================================
