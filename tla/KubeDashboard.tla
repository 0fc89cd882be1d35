---------------------------- MODULE KubeDashboard ----------------------------
(***************************************************************************)
(* The page of a cluster: the graph of the view or the list of a kind, the *)
(* canvas with its delayed clicks, the selection and the side panel, the   *)
(* prompts and the hotkeys.  A handler is one step: React batches the      *)
(* state it sets, and the effects of the commit run before the next event. *)
(*                                                                         *)
(* A node stands for its identity and not for its status, so that the      *)
(* fresh copy an answer brings is the node itself.  A failed request shows *)
(* its error in place of the canvas and changes nothing modelled here.  A  *)
(* prompt is a key away at any time: only what is typed into it counts.    *)
(***************************************************************************)
EXTENDS KubeNavigation, SequencesExt

CONSTANTS Kinds,      \* the kinds the cluster serves
          Graphs(_),  \* the sets of nodes a view or a list may answer with
          Place(_),   \* the place of a node by kind and name
          Namespaces, \* the namespaces there are
          Categories, \* the categories of the toolbar
          Filters,    \* words typed as a filter, "" for none
          Commands,   \* words typed as a command, with the namespace or Keep
          Keep,
          NoNode, NoGraph, NoRequest, NoClick,
          MaxRequests \* bound: tabs asked for with a hotkey, one after the other

ASSUME NamesAssumption ==
  /\ \A k \in Kinds : k.kind \in Words /\ k.group \in Groups
  /\ Namespaces \subseteq Segment
  /\ \A c \in Commands : c.namespace \in Segment \cup {Keep}

VARIABLES topology,  \* the graph useKubeTopology holds
          objects,   \* the items useKubeObjects holds, as a graph
          asked,     \* the views and lists answers may still come from
          selected, request, tab, expanded, display, category, filter,
          click,     \* the node whose selection the click timer delays
          \* What happened, for the properties:
          origin,    \* what was on screen when the node was selected
          carried,   \* the selection outlived a change of list
          want,      \* the tab the user last asked for in this panel
          missed     \* a request had the number of the one before

panelVars == <<selected, request, tab, origin, carried, want, missed>>
shownVars == <<display, category, filter>>
vars == <<navigationVars, topology, objects, asked, panelVars, expanded, shownVars, click>>

-----------------------------------------------------------------------------

Listing(r) == View(r).level = "none"

listedKind(r) == {k \in Kinds : Listing(r) /\ Kind(k.kind, k.group) = r.root}

\* What useKubeObjects lists: nothing for a kind that is not served.
ListOf(r) ==
  [level |-> "kind", kinds |-> listedKind(r),
   namespace |-> IF \E k \in listedKind(r) : k.namespaced THEN r.namespace ELSE <<>>]

Source(r) == IF Listing(r) THEN ListOf(r) ELSE View(r)

\* What nodes are, and what a graph may be asked of.
Nodes == [kind : Words, group : Groups, namespace : Segment, name : Segment, drillable : BOOLEAN]

Sources ==
  Drills \cup [level : {"namespace"}, namespace : Segment]
  \cup [level : {"cluster"}, lens : Lenses \cup {"namespaces"}]
  \cup [level : {"kind"}, kinds : SUBSET Kinds, namespace : Segment]

\* The graph on screen, in the render that shows r.
Graph(r) ==
  IF ~Listing(r) THEN topology ELSE IF listedKind(r) = {} THEN NoGraph ELSE objects

CONFIG_KINDS ==
  {"ConfigMap", "Secret", "PersistentVolumeClaim", "PersistentVolume", "StorageClass",
   "ResourceQuota", "LimitRange"}
SECURITY_KINDS ==
  {"ServiceAccount", "RoleBinding", "ClusterRoleBinding", "Role", "ClusterRole", "NetworkPolicy"}
HIDDEN_KINDS ==
  [all |-> {}, workloads |-> CONFIG_KINDS \cup SECURITY_KINDS,
   config |-> SECURITY_KINDS, security |-> CONFIG_KINDS]

\* visibleGraph: what the category and the filter leave.
visibleIn(graph) ==
  IF graph = NoGraph THEN {}
  ELSE {n \in graph.nodes :
          /\ graph.of.level = "namespace" => n.kind \notin HIDDEN_KINDS[category]
          /\ filter \in {"", n.kind} \cup {n.name[i] : i \in DOMAIN n.name}}

Visible == visibleIn(Graph(route))

ordered == SetToSortSeq(Visible, LAMBDA a, b : Place(a) < Place(b))

ListShown   == Listing(route) /\ display = "list"
CanvasShown == ~expanded /\ Visible # {} /\ ~ListShown

hasShell(n) == n.kind \in {"Pod", "Container"}

\* A pod, and a container in its pod's view, have a panel of their own.
podSelection(n, r) ==
  n.kind = "Pod" \/ (n.kind = "Container" /\ View(r).level = "object" /\ View(r).kind = "Pod")

PanelOf(n, r) ==
  CASE n = NoNode -> "none"
    [] n # NoNode /\ podSelection(n, r) /\ n.namespace # <<>> -> "pod"
    [] OTHER -> "resource"

FirstTab == [none |-> "none", pod |-> "logs", resource |-> "overview"]

TABS == [none |-> {}, pod |-> {"logs", "metrics", "console", "yaml", "events"},
         resource |-> {"overview", "yaml", "events"}]

REQUEST_TABS ==
  [none     |-> <<>>,
   pod      |-> [logs |-> "logs", shell |-> "console", yaml |-> "yaml", describe |-> "events"],
   resource |-> [yaml |-> "yaml", describe |-> "overview"]]

seq(q) == IF q = NoRequest THEN 0 ELSE q.seq

-----------------------------------------------------------------------------
(* The commit of a render: the panel is mounted anew for another node, and its *)
(* effect looks at the request when it mounts and when the number changes.     *)

Asks(p, q) == q # NoRequest /\ q.action \in DOMAIN REQUEST_TABS[p]

\* A fault: the panel of one node is reused for the next.
MountsUnkeyed(p, n) == p # PanelOf(selected, route)

Mounts(p, n) == p # PanelOf(selected, route) \/ n # selected

TabOf(p, q, mounts) ==
  IF Asks(p, q) /\ (mounts \/ seq(q) # seq(request)) THEN REQUEST_TABS[p][q.action]
  ELSE IF mounts THEN FirstTab[p] ELSE tab

Shows(p, n, q) == tab' = TabOf(p, q, Mounts(p, n))

Commit(n, q, r) ==
  /\ selected' = n
  /\ request' = q
  /\ Shows(PanelOf(n, r), n, q)

\* A fault: the timer of a click outlives the canvas.
RedrawnLate == UNCHANGED click

\* The canvas is drawn again or goes: a delayed click is dropped.
Redrawn == click' = NoClick

\* The tab the user asked for with it.
Wants(p, n, q) ==
  want' = IF Asks(p, q) THEN REQUEST_TABS[p][q.action] ELSE IF n = selected THEN want ELSE FirstTab[p]

\* A node of what was on screen is chosen, with the request that comes with it.
Choose(n, q, screen) ==
  /\ Commit(n, q, route)
  /\ origin' = screen
  /\ carried' = FALSE
  /\ Wants(PanelOf(n, route), n, q)
  /\ missed' = (n = selected /\ (missed \/ (q # NoRequest /\ seq(q) = seq(request))))

\* A fault: closing the panel leaves the page expanded.
handleSelectExpanded(n, screen) ==
  /\ Choose(n, NoRequest, screen)
  /\ UNCHANGED expanded

handleSelect(n, screen) ==
  /\ Choose(n, NoRequest, screen)
  /\ expanded' = (expanded /\ n # NoNode)

handleClose == handleSelect(NoNode, Source(route))

Toggle(n, screen) == handleSelect(IF n = selected THEN NoNode ELSE n, screen)

\* Enter or a double click: a container opens its logs, the request starting again
\* at 1; anything drillable is drilled; the rest is selected.
open(n) ==
  \/ /\ n.kind = "Container"
     /\ Choose(n, [action |-> "logs", seq |-> 1], Source(route))
     /\ UNCHANGED <<navigationVars, expanded>>
  \/ /\ n.kind # "Container" /\ n.drillable
     /\ drill(n)
     /\ UNCHANGED <<panelVars, expanded>>
  \/ /\ n.kind # "Container" /\ ~n.drillable
     /\ handleSelect(n, Source(route))
     /\ UNCHANGED navigationVars

-----------------------------------------------------------------------------

Init ==
  /\ NavigationInit
  /\ topology = NoGraph /\ objects = NoGraph /\ asked = {Source(route)}
  /\ selected = NoNode /\ request = NoRequest /\ tab = "none" /\ expanded = FALSE
  /\ display = "map" /\ category = "all" /\ filter = ""
  /\ click = NoClick
  /\ origin = Source(route) /\ carried = FALSE /\ want = "none" /\ missed = FALSE

Still == UNCHANGED <<topology, objects, asked, shownVars>>

\* A hashchange is rendered.  The effect of the view key forgets the selection and
\* the filter; that of the graph, run after it with the selection of before, brings
\* it back when the graph of this render is a new one that has the node.
Follow ==
  /\ Sync
  /\ route' # route
  /\ LET fresh == /\ Listing(route) \/ Listing(route')
                  /\ Graph(route') # NoGraph
                  /\ selected \in Graph(route').nodes
     IN /\ Commit(IF fresh THEN selected ELSE NoNode, request, route')
        /\ carried' = (fresh /\ (carried \/ Source(route') # origin))
  /\ want' = tab'
  /\ expanded' = FALSE
  /\ filter' = ""
  /\ Redrawn
  /\ topology' = IF View(route') = View(route) THEN topology ELSE NoGraph
  /\ objects' = IF ListOf(route') = ListOf(route) THEN objects ELSE NoGraph
  /\ asked' = asked \cup {Source(route')}
  /\ UNCHANGED <<origin, missed, display, category>>

\* The same route again: nothing is rendered.
FollowSame ==
  /\ Sync
  /\ route' = route
  /\ Still /\ UNCHANGED <<panelVars, expanded, click>>

\* Answers, late ones included, are held by the hook that asked.
TopologyAnswer ==
  /\ \E s \in {s \in asked : s.level # "kind"} : \E nodes \in Graphs(s) :
       topology' = [of |-> s, nodes |-> nodes]
  /\ IF Listing(route) \/ topology' = topology THEN UNCHANGED click ELSE Redrawn
  /\ UNCHANGED <<navigationVars, objects, asked, panelVars, expanded, shownVars>>

ObjectsAnswer ==
  /\ \E s \in {s \in asked : s.level = "kind" /\ s.kinds # {}} : \E nodes \in Graphs(s) :
       objects' = [of |-> s, nodes |-> nodes]
  /\ IF Listing(route) THEN Redrawn ELSE UNCHANGED click
  /\ UNCHANGED <<navigationVars, topology, asked, panelVars, expanded, shownVars>>

-----------------------------------------------------------------------------
(* The canvas and the list. *)

\* A drillable node waits until a double click is ruled out.
Click ==
  /\ CanvasShown
  /\ \E n \in Visible :
       IF n.drillable
       THEN click' = [node |-> n, screen |-> Source(route)] /\ UNCHANGED <<panelVars, expanded>>
       ELSE click' = NoClick /\ Toggle(n, Source(route))
  /\ Still /\ UNCHANGED navigationVars

ClickTimer ==
  /\ click # NoClick
  /\ Toggle(click.node, click.screen)
  /\ click' = NoClick
  /\ Still /\ UNCHANGED navigationVars

DoubleClick ==
  /\ CanvasShown
  /\ \E n \in Visible : n.drillable /\ open(n)
  /\ click' = NoClick
  /\ Still

Background ==
  /\ CanvasShown
  /\ handleClose
  /\ Still /\ UNCHANGED <<navigationVars, click>>

Row ==
  /\ ListShown /\ ~expanded
  /\ \E n \in Visible : Toggle(n, Source(route))
  /\ Still /\ UNCHANGED <<navigationVars, click>>

-----------------------------------------------------------------------------
(* The hotkeys: they work while the page is expanded, too. *)

Enter ==
  /\ selected # NoNode
  /\ open(selected)
  /\ Still /\ UNCHANGED click

Escape ==
  /\ IF selected # NoNode THEN handleClose /\ UNCHANGED navigationVars
     ELSE canGoBack /\ back /\ UNCHANGED <<panelVars, expanded>>
  /\ Still /\ UNCHANGED click

Backspace ==
  /\ canGoBack /\ back
  /\ Still /\ UNCHANGED <<panelVars, expanded, click>>

moveSelection(order, delta) ==
  /\ order # <<>>
  /\ LET at   == SelectInSeq(order, LAMBDA n : n = selected)
         from == IF at = 0 /\ delta = -1 THEN 1 ELSE at
     IN \E n \in Visible : /\ n = order[((from + delta - 1) % Len(order)) + 1]
                           /\ handleSelect(n, Source(route))

Move ==
  /\ \E delta \in {1, -1} : moveSelection(ordered, delta)
  /\ Still /\ UNCHANGED <<navigationVars, click>>

PanelKey ==
  /\ selected # NoNode
  /\ seq(request) < MaxRequests
  /\ \E action \in {"logs", "shell", "yaml", "describe"} :
       /\ action \in {"logs", "shell"} => hasShell(selected)
       /\ LET q == [action |-> action, seq |-> seq(request) + 1]
              p == PanelOf(selected, route)
          IN /\ Commit(selected, q, route)
             /\ want' = IF Asks(p, q) THEN REQUEST_TABS[p][action] ELSE want
             /\ missed' = (missed /\ ~Asks(p, q))
  /\ Still /\ UNCHANGED <<navigationVars, origin, carried, expanded, click>>

-----------------------------------------------------------------------------
(* The panel. *)

SetTab ==
  /\ selected # NoNode
  /\ tab' \in TABS[PanelOf(selected, route)]
  /\ want' = tab'
  /\ missed' = FALSE
  /\ Still /\ UNCHANGED <<navigationVars, selected, request, origin, carried, expanded, click>>

\* Expanded, the panel takes the place of the sidebar and of the canvas.
ToggleExpand ==
  /\ selected # NoNode
  /\ expanded' = ~expanded
  /\ Redrawn
  /\ Still /\ UNCHANGED <<navigationVars, panelVars>>

\* Close, and a resource that was deleted.
Close ==
  /\ selected # NoNode
  /\ handleClose
  /\ Still /\ UNCHANGED <<navigationVars, click>>

OpenButton ==
  /\ selected # NoNode
  /\ PanelOf(selected, route) = "pod" => selected.kind = "Pod"
  /\ drill(selected)
  /\ Still /\ UNCHANGED <<panelVars, expanded, click>>

-----------------------------------------------------------------------------
(* The sidebar, the toolbar and the prompts, hidden while the panel is expanded. *)

\* Pinned kinds and the others are listed when they are served; the nodes have a lens.
SidebarRoots ==
  {Overview, Lens("storage"), Lens("access")}
  \cup {IF k.kind = "Node" /\ k.group = <<>> THEN Lens("nodes") ELSE Kind(k.kind, k.group) : k \in Kinds}

Leave ==
  /\ \/ /\ ~expanded
        /\ \/ \E r \in SidebarRoots : setRoot(r, route.namespace)
           \/ \E i \in 0..Len(route.drills) : goTo(i)
           \/ \E ns \in Namespaces \cup {<<>>} : setNamespace(ns)
     \/ \E h \in Links : FollowLink(h)
  /\ Still /\ UNCHANGED <<panelVars, expanded, click>>

\* A command; an unknown word only leaves an error.
submitCommand ==
  /\ ~expanded
  /\ \E c \in Commands : \E r \in resolveKubeCommand(c.word, Kinds) :
       setRoot(r, IF c.namespace = Keep THEN route.namespace ELSE c.namespace)
  /\ Still /\ UNCHANGED <<panelVars, expanded, click>>

\* Every change of what is drawn draws the canvas again.
Redraw ==
  /\ ~expanded
  /\ \/ filter' \in Filters /\ UNCHANGED <<display, category>>
     \/ /\ Graph(route) # NoGraph /\ Graph(route).of.level = "namespace"
        /\ category' \in Categories
        /\ UNCHANGED <<display, filter>>
     \/ /\ Listing(route)
        /\ display' \in {"map", "list"}
        /\ UNCHANGED <<category, filter>>
  /\ Redrawn
  /\ UNCHANGED <<navigationVars, topology, objects, asked, panelVars, expanded>>

-----------------------------------------------------------------------------

Canvas  == Click \/ ClickTimer \/ DoubleClick \/ Background
Hotkeys == Enter \/ Escape \/ Backspace \/ Move \/ PanelKey
Panel   == SetTab \/ ToggleExpand \/ Close \/ OpenButton
Chrome  == Leave \/ submitCommand \/ Redraw

Next ==
  \/ Follow \/ FollowSame \/ TopologyAnswer \/ ObjectsAnswer
  \/ Canvas \/ Row \/ Hotkeys \/ Panel \/ Chrome

Spec == Init /\ [][Next]_vars

-----------------------------------------------------------------------------

\* KubeDashboard.vm.ts clears the selection when the view key changes: the side panel
\* shows a node that was picked on the view the URL names, and no click delayed on
\* the canvas of another view opens a panel.  A node of the previous list that the
\* effect of the graph brought back is the exception.
SelectionIsOfView == selected = NoNode \/ carried \/ origin = Source(route)

\* KubeDashboard.tsx hides everything but the panel while it is expanded, and the
\* panel while nothing is selected: the page is never left without either.
NeverBlank == expanded => selected # NoNode

\* The panel shows the tab the user asked for last, by a key, by opening a container
\* or by clicking on it, and the first one when it was just opened -- unless a
\* request had the number of the one before and the panel did not see it.
RequestedTabShows == selected = NoNode \/ missed \/ tab = want

=============================================================================
