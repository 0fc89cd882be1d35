---------------------------- MODULE LiveTopology ----------------------------
(***************************************************************************)
(* useKubeTopology over the browser's socket: the canvas fetches the graph *)
(* of the current view, watches the view's scope on the hub, fetches again *)
(* on every notification and every 30 seconds.  The hub is the registry of *)
(* one connection (StreamRegistry): the scopes watched, none after a drop. *)
(***************************************************************************)
EXTENDS WireSocket, FiniteSets

CONSTANTS Views,        \* topology levels a user opens
          Scopes,       \* what the hub can watch: a namespace, or the cluster
          ScopeOf,      \* the scope of a view
          graphKey(_),  \* the nodes of a graph with their status and summary, and the NUMBER
                        \* of its edges: graphs of one key may differ in anything else
          None,         \* no graph, no fetch, no version
          MaxVersion,   \* bound: changes of objects, of all views together
          MaxSwitches,  \* bound: views opened by the user
          MaxRequests   \* bound: fetches under way at a time

ASSUME ScopeAssumption == ScopeOf \in [Views -> Scopes]
ASSUME BoundsAssumption == {MaxVersion, MaxSwitches, MaxRequests} \subseteq Nat

VARIABLES view,      \* the view the URL names
          graph,     \* what is drawn: a view and the version of its objects
          requests,  \* fetches under way, each with the version it was answered
          version,   \* API server: the version of each view's objects
          watched,   \* hub: scopes with a live watch on this connection
          news,      \* scopes with a topology:changed frame under way
          switches,  \* views opened so far
          hurried    \* a view was opened while a message waited in a timer

canvasVars == <<view, graph, requests, switches, hurried>>
hubVars    == <<watched, news>>
vars == <<socketVars, canvasVars, hubVars, version>>

Watch(s)   == [event |-> "watch", scope |-> s]
Unwatch(s) == [event |-> "unwatch", scope |-> s]
Messages   == {Watch(s) : s \in Scopes} \cup {Unwatch(s) : s \in Scopes}

Fetches == 1..MaxRequests
Graphs  == [view : Views, version : 0..MaxVersion]

\* A fetch nobody has answered: its view, and no version yet.
Unanswered(v) == [view |-> v, version |-> None]

\* refresh(): one more fetch of a view.
refresh(v) ==
  \E f \in Fetches :
    /\ requests[f] = None
    /\ requests' = [requests EXCEPT ![f] = Unanswered(v)]

-----------------------------------------------------------------------------
(* The hub's side of the connection. *)

\* Of the messages about a scope the last one decides.
Receive(sent) ==
  watched' = {s \in Scopes :
    \/ \E i \in DOMAIN sent :
         sent[i] = Watch(s) /\ \A j \in DOMAIN sent : sent[j] = Unwatch(s) => j < i
    \/ s \in watched /\ \A j \in DOMAIN sent : sent[j] # Unwatch(s)}

Change(v) ==
  /\ FoldFunction(+, 0, version) < MaxVersion
  /\ version' = [version EXCEPT ![v] = @ + 1]
  /\ news' = news \cup ({ScopeOf[v]} \cap watched)
  /\ UNCHANGED <<socketVars, canvasVars, watched>>

-----------------------------------------------------------------------------
(* The hook. *)

\* After the effects of the first render: refresh(), and the watch emitted on
\* a socket that connects for it.
Init ==
  /\ \E v \in Views :
       /\ view = v
       /\ requests = [f \in Fetches |-> IF f = 1 THEN Unanswered(v) ELSE None]
       /\ pending = <<Watch(ScopeOf[v])>>
  /\ graph = None
  /\ ws = "connecting"
  /\ reconnecting = FALSE
  /\ drops = 0
  /\ version = [v \in Views |-> 0]
  /\ watched = {}
  /\ news = {}
  /\ switches = 0
  /\ hurried = FALSE

\* A fault: the new effects run before the old ones are cleaned up.
SwitchBackwards(v) ==
  /\ v # view
  /\ switches < MaxSwitches
  /\ switches' = switches + 1
  /\ hurried' = (hurried \/ pending # <<>>)
  /\ view' = v
  /\ graph' = None
  /\ refresh(v)
  /\ \E sent \in {<<>>, <<Watch(ScopeOf[v]), Unwatch(ScopeOf[view])>>} :
       /\ Emit(<<Watch(ScopeOf[v]), Unwatch(ScopeOf[view])>>, sent)
       /\ Receive(sent)
  /\ UNCHANGED <<version, news>>

\* The effects of the old view are cleaned up and those of the new one run.
Switch(v) ==
  /\ v # view
  /\ switches < MaxSwitches
  /\ switches' = switches + 1
  /\ hurried' = (hurried \/ pending # <<>>)
  /\ view' = v
  /\ graph' = None
  /\ refresh(v)
  /\ \E sent \in {<<>>, <<Unwatch(ScopeOf[view]), Watch(ScopeOf[v])>>} :
       /\ Emit(<<Unwatch(ScopeOf[view]), Watch(ScopeOf[v])>>, sent)
       /\ Receive(sent)
  /\ UNCHANGED <<version, news>>

\* A fault: polling stops while the socket is open.
PollClosed ==
  /\ ws # "open"
  /\ refresh(view)
  /\ UNCHANGED <<socketVars, view, graph, switches, hurried, hubVars, version>>

\* The interval of 30 seconds.
Poll ==
  /\ refresh(view)
  /\ UNCHANGED <<socketVars, view, graph, switches, hurried, hubVars, version>>

\* topology:changed, for the key of the current view or for one it ignores.
Notified(s) ==
  /\ s \in news
  /\ ws = "open"
  /\ news' = news \ {s}
  /\ IF s = ScopeOf[view] THEN refresh(view) ELSE UNCHANGED requests
  /\ UNCHANGED <<socketVars, view, graph, switches, hurried, watched, version>>

\* The server reads the objects.
Answer(f) ==
  /\ requests[f] # None
  /\ requests[f].version = None
  /\ requests' = [requests EXCEPT ![f].version = version[requests[f].view]]
  /\ UNCHANGED <<socketVars, view, graph, switches, hurried, hubVars, version>>

\* setGraph: a graph of the key that is drawn already is not drawn.
setGraph(prev, data) ==
  IF prev # None /\ graphKey(prev) = graphKey(data) THEN prev ELSE data

\* The answer arrives and is drawn, whatever was opened or drawn since.
Draw(f) ==
  /\ requests[f] \in Graphs
  /\ graph' = setGraph(graph, requests[f])
  /\ requests' = [requests EXCEPT ![f] = None]
  /\ UNCHANGED <<socketVars, view, switches, hurried, hubVars, version>>

\* The request fails; the graph stays.
Fail(f) ==
  /\ requests[f] # None
  /\ requests[f].version = None
  /\ requests' = [requests EXCEPT ![f] = None]
  /\ UNCHANGED <<socketVars, view, graph, switches, hurried, hubVars, version>>

-----------------------------------------------------------------------------
(* The socket. *)

Resend(i) ==
  /\ i \in DOMAIN pending
  /\ Retry(i, <<pending[i]>>)
  /\ Receive(<<pending[i]>>)
  /\ UNCHANGED <<canvasVars, news, version>>

Opened == Open /\ UNCHANGED <<canvasVars, hubVars, version>>

\* The hub cancels every watch of the connection, and frames on it are lost.
Dropped ==
  /\ Drop
  /\ watched' = {}
  /\ news' = {}
  /\ UNCHANGED <<canvasVars, version>>

Reconnected == Reconnect /\ UNCHANGED <<canvasVars, hubVars, version>>

-----------------------------------------------------------------------------

Next ==
  \/ \E v \in Views : Switch(v) \/ Change(v)
  \/ \E s \in Scopes : Notified(s)
  \/ Poll
  \/ \E f \in Fetches : Answer(f) \/ Draw(f) \/ Fail(f)
  \/ \E i \in DOMAIN pending : Resend(i)
  \/ Opened \/ Dropped \/ Reconnected

(***************************************************************************)
(* Timers fire, a connection that is tried is made unless the network ends *)
(* it, every fetch ends, and not every fetch of the current view fails.    *)
(* Nothing makes the user act or the objects change.                       *)
(***************************************************************************)
AnswerCurrent ==
  \E f \in Fetches : Answer(f) /\ requests[f].view = view

Fairness ==
  /\ WF_vars(Opened)
  /\ WF_vars(Reconnected)
  /\ WF_vars(\E i \in DOMAIN pending : Resend(i))
  /\ SF_vars(Poll)
  /\ \A f \in Fetches : WF_vars(Answer(f) \/ Fail(f)) /\ WF_vars(Draw(f))
  /\ SF_vars(AnswerCurrent)

Spec == Init /\ [][Next]_vars /\ Fairness

-----------------------------------------------------------------------------

\* "Polling covers a dropped connection": whatever the socket lost and in
\* whatever order fetches are answered, once the user and the objects rest the
\* canvas shows the current view as the cluster has it -- as far as graphKey
\* tells, and no further: a change it does not tell is fetched again and again,
\* and drawn only with one that it does.
EventuallyFresh ==
  <>[](graph # None /\ graphKey(graph) = graphKey([view |-> view, version |-> version[view]]))

\* Once the network and the user rest, every emitted message was sent.
EverythingIsSent == <>[](ws = "open" /\ pending = <<>>)

\* useKubeTopology.ts: "Changes arrive over the socket; polling only covers a
\* dropped connection" -- with an open connection the hub watches the scope of
\* the current view.
ViewIsWatched == <>[](ws = "open" => ScopeOf[view] \in watched)

\* The hub ends up watching the scope of the current view and no other, unless
\* the connection was lost or the user outran the timers.
WatchFollowsView == <>[](hurried \/ drops > 0 \/ watched = {ScopeOf[view]})

\* README.md: "The page URL always matches what you see" -- the graph on the
\* canvas is the one of the view in the URL.
GraphIsOfView == graph # None => graph.view = view

=============================================================================
