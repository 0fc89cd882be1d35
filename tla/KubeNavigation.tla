---------------------------- MODULE KubeNavigation ----------------------------
(***************************************************************************)
(* useKubeNavigation: where the user is in a cluster.  The hash of the URL *)
(* is the source of truth: the user's moves only write it, and the route   *)
(* on screen follows when the browser dispatches hashchange -- later, so   *)
(* that a second move still starts from the old route.                     *)
(***************************************************************************)
EXTENDS KubeRoutes

CONSTANTS Cluster,   \* the cluster on screen
          Links,     \* hashes the user arrives with, types, or goes back to
          MaxMoves,  \* bound: moves of the user
          MaxDepth   \* bound: objects opened one inside the other

ASSUME PlacesAssumption == Cluster \in Segment /\ Links \subseteq Hashes
ASSUME MaxMovesAssumption == MaxMoves \in Nat
ASSUME MaxDepthAssumption == MaxDepth \in Nat

VARIABLES hash,    \* location.hash
          route,   \* the route of the last render
          events,  \* hashchange events not dispatched yet
          moves    \* moves so far

navigationVars == <<hash, route, events, moves>>

routeFromHash(h) ==
  IF h # <<>> /\ h[1] = Cluster THEN Parse(h) ELSE DefaultRoute(Cluster)

rootView(r) ==
  CASE r.root.type = "overview" /\ r.namespace # <<>> ->
         [level |-> "namespace", namespace |-> r.namespace]
    [] r.root.type = "overview" /\ r.namespace = <<>> ->
         [level |-> "cluster", lens |-> "namespaces"]
    [] r.root.type = "lens" -> [level |-> "cluster", lens |-> r.root.lens]
    [] r.root.type = "kind" -> [level |-> "none"]

View(r) == IF r.drills # <<>> THEN r.drills[Len(r.drills)] ELSE rootView(r)

-----------------------------------------------------------------------------

\* Mounting replaces the hash of another place by that of the default route.
NavigationInit ==
  /\ \E h \in Links \cup {<<>>} :
       hash = IF h # <<>> /\ h[1] = Cluster THEN h ELSE toKubeHash(DefaultRoute(Cluster))
  /\ route = routeFromHash(hash)
  /\ events = 0
  /\ moves = 0

\* Writing the hash it already has dispatches nothing.
WriteHash(h) ==
  /\ moves < MaxMoves
  /\ moves' = moves + 1
  /\ hash' = h
  /\ events' = events + (IF h = hash THEN 0 ELSE 1)
  /\ UNCHANGED route

navigate(ns, root, drills) ==
  WriteHash(toKubeHash([cluster |-> Cluster, namespace |-> ns, root |-> root, drills |-> drills]))

Deeper(view) ==
  /\ Len(route.drills) < MaxDepth
  /\ navigate(route.namespace, route.root, Append(route.drills, view))

\* A namespace becomes the scope, anything else goes one level deeper.
drill(n) ==
  /\ n.drillable
  /\ \/ n.kind = "Namespace" /\ navigate(n.name, Overview, <<>>)
     \/ n.kind = "Node" /\ Deeper(NodeView(n.name))
     \/ n.kind \notin {"Namespace", "Node"} /\ Deeper(ObjectView(n.namespace, n.kind, n.group, n.name))

goTo(i)          == navigate(route.namespace, route.root, SubSeq(route.drills, 1, i))
canGoBack        == route.drills # <<>>
back             == goTo(Len(route.drills) - 1)
setNamespace(ns) == navigate(ns, route.root, <<>>)
setRoot(r, ns)   == navigate(ns, r, <<>>)

\* Typed, followed, or reached with the browser's back and forward.
FollowLink(h) == WriteHash(h)

\* A hashchange: the route is read from what the hash is by now.
Sync ==
  /\ events > 0
  /\ events' = events - 1
  /\ route' = routeFromHash(hash)
  /\ UNCHANGED <<hash, moves>>

-----------------------------------------------------------------------------

\* useKubeNavigation.ts: the URL "is the source of truth, so browser back/forward,
\* reloads and shared links all land on the same view" -- once the events are
\* dispatched, the hash of the route on screen, opened elsewhere, is that route,
\* and a hash of this cluster is what is on screen.
UrlNamesView ==
  /\ Parse(toKubeHash(route)) = route
  /\ events = 0 /\ hash # <<>> /\ hash[1] = Cluster => Parse(hash) = route

=============================================================================
