------------------------------ MODULE MCPanels -------------------------------
(***************************************************************************)
(* Instances for TLC of the parts of the browser that ask the server or a  *)
(* socket for something and show the answer.  They share no state: each    *)
(* behaviour is one of one part, and the others stay as they start.        *)
(***************************************************************************)
EXTENDS KubeObjects, GraphCanvas, TopologyCanvas, ConsoleView, StreamHooks, FetchHooks,
        DockerPanel, VolumeBrowser, ResourceActions, Sources

VARIABLES part,
  states, members, changes, containers, networks, answers, mapLoading, stateFilter

Graph(level, nodes, edges, gs) ==
  [level |-> level, nodes |-> nodes, edges |-> edges, groups |-> gs]
Node(id, kind, group) == [id |-> id, kind |-> kind, group |-> group]

\* Every ownership graph of four nodes, with the last one on its own or in a group.
ObjectGraphs ==
  {Graph("object",
         <<Node("a", "Deployment", ""), Node("b", "ReplicaSet", ""), Node("c", "Pod", ""),
           Node("d", "Pod", group)>>, edges, IF group = "" THEN <<>> ELSE <<group>>) :
     edges \in SUBSET {<<"a", "b">>, <<"a", "c">>, <<"b", "c">>, <<"c", "b">>, <<"c", "d">>},
     group \in {"", "n"}}

\* Other levels: columns by kind, with and without groups, and bubbles in a grid of groups.
OtherGraphs ==
  {Graph("namespace",
         <<Node("a", "Ingress", ""), Node("b", "Service", ""), Node("c", "Pod", "n"),
           Node("d", "Secret", "")>>, {<<"a", "b">>}, gs) : gs \in {<<>>, <<"n">>}}
  \cup {Graph("cluster", <<Node("a", k, ""), Node("b", "PersistentVolume", ""), Node("c", k, "")>>,
              {<<"a", "b">>}, <<>>) : k \in {"PersistentVolumeClaim", "StorageClass"}}
  \cup {Graph("cluster", <<Node("a", "User", ""), Node("b", "RoleBinding", ""), Node("c", "Role", "")>>,
              {}, <<>>)}
  \cup {Graph("cluster", <<Node("a", "Pod", "g"), Node("b", "Pod", "j")>>, {}, <<"g", "h", "i", "j">>)}

\* The pods of a kind, as they come and go.
Pods == {Graph("kind", nodes, {}, <<>>) :
           nodes \in {<<Node("a", "Pod", ""), Node("b", "Pod", "")>>, <<Node("b", "Pod", "")>>,
                      <<Node("b", "Pod", ""), Node("c", "Pod", "")>>}}

MCCanvasGraphs == ObjectGraphs \cup OtherGraphs \cup Pods
MCFollowing(g) == IF g \in Pods THEN Pods ELSE {}

Ids        == {"c1", "c2"}
Networks   == {"bridge", "other"}
MaxChanges == 2
MaxPolls   == [containers |-> 2, networks |-> 1]
Map == INSTANCE DockerMap

DockerHost(ids, nets) == [containers |-> ids, networks |-> nets]
MCMaps == {DockerHost(ids, nets) : ids \in {{"a", "b"}, {"a", "b", "c"}},
                                  nets \in {<<>>, <<{"a", "b"}, {}, {"b", "c"}>>, <<{"a"}, {"b"}, {"c"}>>}}

MCDirs   == {<<>>, <<"etc">>, <<"etc", "conf">>}
MCMounts == {<<"etc">>}
MCFiles  == {<<"etc", "hosts">>, <<"etc", "ssl">>, <<"etc", "conf", "app">>}
MCBinary == {<<"etc", "ssl">>}

-----------------------------------------------------------------------------

mapVars == <<states, members, changes, containers, networks, answers, mapLoading, stateFilter>>

Parts == {"objects", "canvas", "streams", "fetches", "map", "topology", "page", "volumes", "console", "actions",
          "picker"}

\* The part that runs starts in any of its initial states, the others in one.
MCInit ==
  /\ part \in Parts
  /\ Init                 /\ (part # "objects" => list = CHOOSE l \in Lists : TRUE)
  /\ IF part = "canvas" THEN CanvasInit
     ELSE /\ drawn = Graph("kind", <<>>, {}, <<>>)
          /\ simulation = "" /\ fitted = FALSE /\ held = "" /\ onScreen = "" /\ moving = {}
          /\ heard = FALSE /\ overdrawn = FALSE
  /\ IF part = "topology" THEN TopologyInit
     ELSE map = DockerHost({}, <<>>)
  /\ FetchInit    /\ (part # "fetches" => hook = "kinds" /\ key = "k1")
  /\ Map!MapInit          /\ (part # "map" => states = [i \in Ids |-> "running"])
  /\ SourcesInit   /\ (part # "picker" => connected = {} /\ sourceHash = NoSource)
  /\ StreamInit /\ PanelInit /\ BrowserInit /\ ConsoleInit
  /\ ActionsInit

OthersStill ==
  /\ UNCHANGED part
  /\ IF part = "objects" THEN TRUE ELSE UNCHANGED vars
  /\ IF part = "canvas" THEN TRUE ELSE UNCHANGED canvasVars
  /\ IF part = "streams" THEN TRUE ELSE UNCHANGED streamVars
  /\ IF part = "fetches" THEN TRUE ELSE UNCHANGED fetchVars
  /\ IF part = "map" THEN TRUE ELSE UNCHANGED mapVars
  /\ IF part = "topology" THEN TRUE ELSE UNCHANGED map
  /\ IF part = "page" THEN TRUE ELSE UNCHANGED dockerPanelVars
  /\ IF part = "volumes" THEN TRUE ELSE UNCHANGED browserVars
  /\ IF part = "console" THEN TRUE ELSE UNCHANGED consoleVars
  /\ IF part = "actions" THEN TRUE ELSE UNCHANGED actionVars
  /\ IF part = "picker" THEN TRUE ELSE UNCHANGED sourceVars

MCNext ==
  /\ \/ part = "objects" /\ Next
     \/ part = "canvas" /\ CanvasNext
     \/ part = "streams" /\ StreamNext
     \/ part = "fetches" /\ FetchNext
     \/ part = "map" /\ Map!MapNext
     \/ part = "topology" /\ TopologyNext
     \/ part = "page" /\ PanelNext
     \/ part = "volumes" /\ BrowserNext
     \/ part = "console" /\ ConsoleNext
     \/ part = "actions" /\ ActionsNext
     \/ part = "picker" /\ SourcesNext
  /\ OthersStill

MCVars ==
  <<part, vars, canvasVars, streamVars, fetchVars, mapVars, map,
    dockerPanelVars, browserVars, consoleVars, actionVars,
    sourceVars>>

MCSpec ==
  /\ MCInit /\ [][MCNext]_MCVars
  /\ part = "objects" => Fairness
  /\ part = "map" => Map!MapFairness

-----------------------------------------------------------------------------

\* When a Docker host no longer changes, its list has its containers in their states.
ContainersSettle == part = "map" => Map!ContainersSettle

\* A list of objects that is left alone ends up on screen from its first page on.
ListedInTheEnd == part = "objects" => EventuallyListed

=============================================================================
