----------------------------- MODULE DockerPanel -----------------------------
(***************************************************************************)
(* The page of a Docker host and its side panel: the selection, the tabs,  *)
(* the inspected container, whose answers are taken in any order, and the  *)
(* form that edits its environment and has it recreated.  The panel is not *)
(* mounted anew for another container, the form is while it is loading.    *)
(* What an unmounted panel asked for is no longer of interest.             *)
(***************************************************************************)
EXTENDS Naturals, FiniteSets

CONSTANTS DockerIds, \* ids a container has, or is given when it is recreated
          NoId,
          MaxSelects \* bound: containers selected, by the user or by an answer

VARIABLES selectedId, panelExpanded, activeTab,
          inspect, inspectLoading, \* the container useContainerInspect holds
          inspecting,              \* its requests under way
          editedEnv,    \* the container whose environment is edited, or NoId
          saving,       \* requests to recreate a container under way
          selects,      \* containers selected so far
          crossed       \* one was selected while another one was being inspected

dockerPanelVars == <<selectedId, panelExpanded, activeTab, inspect, inspectLoading,
                     inspecting, editedEnv, saving, selects, crossed>>

\* The first tab, and the one with the form; the others keep nothing that matters here.
CONTAINER_TABS == {"logs", "inspect"}

\* A fault: the form stays while another container is loaded.
shownWhileLoading(tab, i, loading) == tab = "inspect" /\ i # NoId

\* Whether the form is mounted.
InspectShown(tab, i, loading) == tab = "inspect" /\ i # NoId /\ ~loading

formShown == InspectShown(activeTab, inspect, inspectLoading)

\* A commit of the panel: an edit lasts as long as the form is mounted.
Commit(tab, i, loading, edit, saves) ==
  /\ activeTab' = tab
  /\ inspect' = i
  /\ inspectLoading' = loading
  /\ LET kept == InspectShown(tab, i, loading)
     IN /\ editedEnv' = IF kept THEN edit ELSE NoId
        /\ saving' = {[r EXCEPT !.form = @ /\ kept] : r \in saves}

-----------------------------------------------------------------------------

PanelInit ==
  /\ selectedId = NoId /\ panelExpanded = FALSE /\ activeTab = "logs"
  /\ inspect = NoId /\ inspectLoading = FALSE /\ inspecting = {}
  /\ editedEnv = NoId /\ saving = {}
  /\ selects = 0 /\ crossed = FALSE

\* A panel that is there keeps its tab and what it inspected until the answer.
ShowContainer(id, edit, saves) ==
  /\ selects < MaxSelects
  /\ selects' = selects + 1
  /\ selectedId' = id
  /\ inspecting' = inspecting \cup {id}
  /\ crossed' = (inspecting \ {id} # {})
  /\ Commit(activeTab, inspect, TRUE, edit, saves)

\* The panel is unmounted.
Unselect ==
  /\ selectedId' = NoId
  /\ panelExpanded' = FALSE
  /\ inspecting' = {}
  /\ crossed' = FALSE
  /\ Commit("logs", NoId, FALSE, NoId, saving)
  /\ UNCHANGED selects

\* A click on the map or in the list, which an expanded panel covers.
handleSelectContainer(id) ==
  /\ ~panelExpanded
  /\ \/ id = selectedId /\ Unselect
     \/ /\ id # selectedId
        /\ ShowContainer(id, editedEnv, saving)
        /\ UNCHANGED panelExpanded

\* The background of the map is no container; neither is a closed panel.
handleClosePanel == selectedId # NoId /\ Unselect

toggleExpand ==
  /\ selectedId # NoId
  /\ panelExpanded' = ~panelExpanded
  /\ UNCHANGED <<selectedId, activeTab, inspect, inspectLoading, inspecting, editedEnv,
                 saving, selects, crossed>>

setActiveTab(t) ==
  /\ selectedId # NoId
  /\ Commit(t, inspect, inspectLoading, editedEnv, saving)
  /\ UNCHANGED <<selectedId, panelExpanded, inspecting, selects, crossed>>

\* An answer is taken whatever was selected since; a failure empties the panel.
InspectAnswer(id, i) ==
  /\ id \in inspecting
  /\ i \in {id, NoId}
  /\ inspecting' = inspecting \ {id}
  /\ Commit(activeTab, i, FALSE, editedEnv, saving)
  /\ UNCHANGED <<selectedId, panelExpanded, selects, crossed>>

-----------------------------------------------------------------------------
(* The form. *)

startEditing ==
  /\ formShown
  /\ editedEnv' = inspect
  /\ UNCHANGED <<selectedId, panelExpanded, activeTab, inspect, inspectLoading,
                 inspecting, saving, selects, crossed>>

cancelEditing ==
  /\ editedEnv # NoId
  /\ editedEnv' = NoId
  /\ UNCHANGED <<selectedId, panelExpanded, activeTab, inspect, inspectLoading,
                 inspecting, saving, selects, crossed>>

saveEnv ==
  /\ editedEnv # NoId
  /\ \A r \in saving : ~r.form
  /\ saving' = saving \cup {[id |-> selectedId, env |-> editedEnv, crossed |-> crossed, form |-> TRUE]}
  /\ UNCHANGED <<selectedId, panelExpanded, activeTab, inspect, inspectLoading,
                 inspecting, editedEnv, selects, crossed>>

\* The container was recreated: its new id is selected, whatever is by now.
Recreated(r, new) ==
  /\ ShowContainer(new, IF r.form THEN NoId ELSE editedEnv, saving \ {r})
  /\ UNCHANGED panelExpanded

\* Refused, or stopped and removed and never created: the form shows the error.
NotRecreated(r) ==
  /\ saving' = saving \ {r}
  /\ UNCHANGED <<selectedId, panelExpanded, activeTab, inspect, inspectLoading,
                 inspecting, editedEnv, selects, crossed>>

PanelNext ==
  \/ \E id \in DockerIds : handleSelectContainer(id) \/ \E i \in {id, NoId} : InspectAnswer(id, i)
  \/ handleClosePanel \/ toggleExpand
  \/ \E t \in CONTAINER_TABS : setActiveTab(t)
  \/ startEditing \/ cancelEditing \/ saveEnv
  \/ \E r \in saving : NotRecreated(r) \/ \E new \in DockerIds \ {r.id} : Recreated(r, new)

PanelSpec == PanelInit /\ [][PanelNext]_dockerPanelVars

-----------------------------------------------------------------------------

\* No container is recreated with the environment of another one, unless it was selected
\* while the other one was still being inspected.
EnvIsOfContainer == \A r \in saving : r.env = r.id \/ r.crossed

=============================================================================
