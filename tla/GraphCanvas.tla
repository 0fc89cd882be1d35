----------------------------- MODULE GraphCanvas -----------------------------
(***************************************************************************)
(* The canvas of a graph: the anchors its simulation pulls the nodes to,   *)
(* and the user's view of it when an answer or a filter brings another     *)
(* graph of the same view: the canvas is then drawn again from nothing.    *)
(*                                                                         *)
(* Anchors are in whole pixels.  Where the forces leave the nodes, on      *)
(* entry, after a drag and after every redraw, is not modelled: only that  *)
(* the simulation runs, and what its end does.  A view has a canvas of its *)
(* own: it is unmounted while the graph of the next one is awaited.        *)
(*                                                                         *)
(* The view is d3's zoom: the element holds a transform, a transition or a *)
(* gesture moves it, and a listener copies it to the group it was made     *)
(* for.  A redraw removes that group, and what was under way moves on      *)
(* without being heard by the new one.                                     *)
(***************************************************************************)
EXTENDS Integers, FiniteSets, FiniteSetsExt, SequencesExt, Functions

CONSTANTS CanvasGraphs,  \* the graphs a canvas may be mounted with
          Following(_),  \* those that may follow one in the same view
          Width, Height,
          Transforms,    \* what the view may be moved to
          zoomIdentity

VARIABLES drawn,      \* the graph on the canvas
          simulation, \* running, dragged (a node is held, it cannot end) or rest
          fitted,     \* fittedViewRef.current is this view
          held,       \* the transform the element holds (d3.zoomTransform)
          onScreen,   \* the transform of the group on screen
          moving,     \* what moves the view: the fit, the user
          heard,      \* it is heard by the group on screen, and not by a removed one
          overdrawn   \* a redraw came while something moved the view

canvasVars == <<drawn, simulation, fitted, held, onScreen, moving, heard, overdrawn>>
viewVars   == <<held, onScreen, moving, heard>>

-----------------------------------------------------------------------------
(* A node has an id, a kind and a group, "" for none. *)

Nodes(g)   == ToSet(g.nodes)
NodeIds(g) == {n.id : n \in Nodes(g)}

IsGraph(g) ==
  /\ g.nodes \in Seq(Nodes(g))
  /\ g.groups \in Seq(ToSet(g.groups))
  /\ \A e \in g.edges : e[1] \in NodeIds(g) /\ e[2] \in NodeIds(g)

ASSUME GraphsAssumption ==
  /\ \A g \in CanvasGraphs : IsGraph(g) /\ Following(g) \subseteq CanvasGraphs
  /\ Width \in Nat /\ Height \in Nat
ASSUME TransformsAssumption == zoomIdentity \in Transforms

-----------------------------------------------------------------------------
(* The layout. *)

NAMESPACE_COLUMNS(kind) ==
  CASE kind \in {"Ingress", "Gateway"} -> 0
    [] kind \in {"HTTPRoute", "GRPCRoute", "TLSRoute", "TCPRoute", "UDPRoute"} -> 1
    [] kind = "Service" -> 2
    [] kind \in {"HorizontalPodAutoscaler", "PodDisruptionBudget", "NetworkPolicy",
                 "ResourceQuota", "LimitRange"} -> 3
    [] kind \in {"ConfigMap", "Secret", "PersistentVolumeClaim", "ServiceAccount"} -> 5
    [] kind \in {"PersistentVolume", "RoleBinding", "ClusterRoleBinding"} -> 6
    [] kind \in {"StorageClass", "Role", "ClusterRole"} -> 7
    [] OTHER -> 4 \* WORKLOAD_COLUMN

STORAGE_COLUMNS == [PersistentVolumeClaim |-> 0, PersistentVolume |-> 1, StorageClass |-> 2]

ACCESS_COLUMNS ==
  [User |-> 0, Group |-> 0, ServiceAccount |-> 0, RoleBinding |-> 1, ClusterRoleBinding |-> 1,
   Role |-> 2, ClusterRole |-> 2]

\* The nodes that no edge enters, and those that edges from some nodes do.
roots(g) == NodeIds(g) \ {e[2] : e \in g.edges}
owned(g, ids) == {e[2] : e \in {e \in g.edges : e[1] \in ids}}

\* The nodes d edges away from one that no edge enters, and no fewer.
Layers(g) ==
  LET Layer[d \in 0..Len(g.nodes)] ==
        IF d = 0 THEN roots(g) ELSE owned(g, Layer[d - 1]) \ UNION {Layer[i] : i \in 0..(d - 1)}
  IN Layer

\* A fault: a node that already has its depth is given another.
depthOverwritten(g) ==
  LET Layer[d \in 0..Len(g.nodes)] ==
        IF d = 0 THEN roots(g) ELSE owned(g, Layer[d - 1])
      placed == UNION Range(Layer)
  IN [n \in placed |-> CHOOSE d \in DOMAIN Layer :
                         n \in Layer[d] /\ \A i \in DOMAIN Layer : n \in Layer[i] => i <= d]

ownershipDepth(g) ==
  LET layers == Layers(g)
  IN [n \in UNION Range(layers) |-> CHOOSE d \in DOMAIN layers : n \in layers[d]]

\* The column of each node that has one.
nodeColumns(g) ==
  LET kinds == {n.kind : n \in Nodes(g)}
      used  == {NAMESPACE_COLUMNS(k) : k \in kinds}
      by(columns) == [i \in NodeIds(g) |->
                        LET kind == (CHOOSE n \in Nodes(g) : n.id = i).kind
                        IN IF kind \in DOMAIN columns THEN columns[kind] ELSE 0]
      typed == g.level \notin {"namespace", "object", "kind"}
  IN CASE g.level = "namespace" ->
            by([k \in kinds |-> Cardinality({c \in used : c < NAMESPACE_COLUMNS(k)})])
       [] g.level = "object" -> ownershipDepth(g)
       [] typed /\ kinds \cap DOMAIN STORAGE_COLUMNS # {} -> by(STORAGE_COLUMNS)
       [] typed /\ kinds \cap DOMAIN STORAGE_COLUMNS = {}
            /\ kinds \cap {"RoleBinding", "ClusterRoleBinding"} # {} -> by(ACCESS_COLUMNS)
       [] OTHER -> <<>>

\* Nodes of no group stand in their column, in the order of their names.
standing(g, columns) == {i \in DOMAIN g.nodes : g.nodes[i].group = "" /\ g.nodes[i].id \in DOMAIN columns}

ungroupedColumns(g, columns) == {columns[g.nodes[i].id] : i \in standing(g, columns)}

byColumn(g, columns, c) == {i \in standing(g, columns) : columns[g.nodes[i].id] = c}

last(used) == Max(used \cup {-1})

columnCount(g, used) == last(used) + 1 + IF g.groups # <<>> THEN 1 ELSE 0

columnX(count, c) ==
  IF count > 1 THEN 100 + c * Min({Max({240, (Width - 200) \div (count - 1)}), 380}) ELSE Width \div 2

\* A node with so many of the stack above it.
stackY(count, above) ==
  LET spacing == Max({110, Height \div (count + 1)})
  IN Height \div 2 - (spacing * (count - 1)) \div 2 + above * spacing

anchorAt(g, columns, i) ==
  LET c     == columns[g.nodes[i].id]
      stack == byColumn(g, columns, c)
  IN [x |-> columnX(columnCount(g, ungroupedColumns(g, columns)), c),
      y |-> stackY(Cardinality(stack), Cardinality({k \in stack : k < i}))]

anchors(g, columns) ==
  [n \in {g.nodes[i].id : i \in standing(g, columns)} |->
     anchorAt(g, columns, CHOOSE i \in standing(g, columns) : g.nodes[i].id = n)]

targets(g) == anchors(g, nodeColumns(g))

ceil(a, b) == (a + b - 1) \div b

\* The cell of each group, in a grid that starts right of the columns.
grid(g, used) ==
  LET count   == Len(g.groups)
      beside  == used # {}
      cols    == IF beside THEN ceil(count, 3) ELSE Min({c \in 1..count : c * c >= count})
      area    == IF beside THEN 280 * ceil(count, 3) ELSE Max({Width, 300})
      w       == Max({area \div cols, 280})
      h       == Max({Height \div ceil(count, cols), 260})
      left    == IF beside THEN columnX(columnCount(g, used), last(used) + 1) - 140 ELSE 0
  IN [i \in DOMAIN g.groups |->
        [x |-> left + w * ((i - 1) % cols), y |-> h * ((i - 1) \div cols), w |-> w, h |-> h]]

cells(g) == grid(g, ungroupedColumns(g, nodeColumns(g)))

-----------------------------------------------------------------------------
(* The canvas. *)

CanvasInit ==
  /\ drawn \in CanvasGraphs
  /\ simulation = "running"
  /\ fitted = FALSE
  /\ held = zoomIdentity
  /\ onScreen = zoomIdentity
  /\ moving = {}
  /\ heard = TRUE
  /\ overdrawn = FALSE

isNewView == ~fitted

\* A fault: the group starts unmoved, as that of the Docker map does.
transformReset == zoomIdentity

\* The transform a group is made with.
transform == IF isNewView THEN zoomIdentity ELSE held

\* The last drawing is cleaned up and another graph drawn: its simulation starts, and the view
\* starts anew until it was fitted.
Draw(g) ==
  /\ g # drawn
  /\ drawn' = g
  /\ simulation' = "running"
  /\ held' = IF isNewView THEN zoomIdentity ELSE held
  /\ onScreen' = transform
  /\ heard' = (moving = {})
  /\ overdrawn' = (overdrawn \/ moving # {})
  /\ UNCHANGED <<fitted, moving>>

\* A node is held: the simulation runs until after it was let go.
DragStart ==
  /\ drawn.nodes # <<>>
  /\ simulation # "dragged"
  /\ simulation' = "dragged"
  /\ UNCHANGED <<drawn, fitted, viewVars, overdrawn>>

DragEnd ==
  /\ simulation = "dragged"
  /\ simulation' = "running"
  /\ UNCHANGED <<drawn, fitted, viewVars, overdrawn>>

\* simulation.on('end'): the first end of a view starts to fit it.  A gesture that is under way
\* is the transition's too.
End ==
  /\ simulation = "running"
  /\ simulation' = "rest"
  /\ IF isNewView /\ drawn.nodes # <<>>
       THEN /\ fitted' = TRUE
            /\ moving' = moving \cup {"fit"}
            /\ heard' = (moving = {} \/ heard)
       ELSE UNCHANGED <<fitted, moving, heard>>
  /\ UNCHANGED <<drawn, held, onScreen, overdrawn>>

\* The user starts to pan or zoom, which interrupts the fit.  The wheel goes on with the
\* gesture that is under way, a pan starts one of its own.
GestureStart ==
  /\ "user" \notin moving
  /\ moving' = {"user"}
  /\ heard' \in {TRUE} \cup (IF moving = {} THEN {} ELSE {heard})
  /\ UNCHANGED <<drawn, simulation, fitted, held, onScreen, overdrawn>>

\* The transition's next frame, or the user's next move.
Zoomed ==
  /\ moving # {}
  /\ held' \in Transforms
  /\ onScreen' = IF heard THEN held' ELSE onScreen
  /\ UNCHANGED <<drawn, simulation, fitted, moving, heard, overdrawn>>

\* The transition or the gesture is over.
MoveEnd(by) ==
  /\ by \in moving
  /\ moving' = moving \ {by}
  /\ UNCHANGED <<drawn, simulation, fitted, held, onScreen, heard, overdrawn>>

CanvasNext ==
  \/ \E g \in Following(drawn) : Draw(g)
  \/ DragStart \/ DragEnd \/ End
  \/ GestureStart \/ Zoomed
  \/ \E by \in {"fit", "user"} : MoveEnd(by)

CanvasSpec == CanvasInit /\ [][CanvasNext]_canvasVars

-----------------------------------------------------------------------------

\* "Depth along ownership edges": nothing is more than one column right of an owner, and a node
\* that is owned is in the column after that of one of its owners.
FollowsEdges(depth) ==
  /\ \A e \in drawn.edges : e[1] \in DOMAIN depth => depth[e[2]] <= depth[e[1]] + 1
  /\ \A i \in DOMAIN depth :
       IF depth[i] = 0 THEN \A e \in drawn.edges : e[2] # i
       ELSE \E e \in drawn.edges : e[2] = i /\ depth[e[1]] = depth[i] - 1

Apart(anchor, cell) ==
  /\ \A i, j \in DOMAIN anchor : i # j => anchor[i] # anchor[j]
  /\ \A i \in DOMAIN anchor, c \in DOMAIN cell : anchor[i].x < cell[c].x

\* The layout of every graph, which is what its nodes are pulled towards (the forces settle
\* where they come to stand): along ownership each is anchored in the column after that of an
\* owner, no two nodes outside groups have one anchor, and groups lie right of all of them.
LayoutIsLayered ==
  /\ drawn.level = "object" => FollowsEdges(nodeColumns(drawn))
  /\ Apart(targets(drawn), cells(drawn))

\* "Keep the current pan/zoom across refreshes of the same view": once a view was fitted, what
\* is seen of it moves with the fit and with the user and not otherwise -- no redraw, no end
\* of a simulation or of a gesture moves it -- unless a redraw came while it was moving: the
\* new drawing then stays where the view was, and jumps to where it got when next drawn.
KeepsView == [][fitted /\ ~overdrawn => onScreen' = onScreen \/ Zoomed]_canvasVars

=============================================================================
