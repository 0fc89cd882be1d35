--------------------------- MODULE ResourceActions ---------------------------
(***************************************************************************)
(* Acting on the object of a panel: the actions, each behind a question,   *)
(* the manifest editor, and the object as it was last read.  Every panel   *)
(* is mounted anew; what an earlier one asked for is still answered.  The  *)
(* cluster gives every change of an object a new version.                  *)
(***************************************************************************)
EXTENDS Naturals, FiniteSets

CONSTANTS Objects, NoObject,
          Questions,   \* the actions offered behind a question, "delete" among them
          MaxVersion,  \* bound: versions of an object
          MaxPanels,   \* bound: panels opened
          MaxUnderWay  \* bound: actions and saves under way

ASSUME MaxVersionAssumption == MaxVersion \in Nat \ {0}
ASSUME NoObjectAssumption ==
  NoObject \notin Objects \cup [base : 1..MaxVersion, text : {"read", "typed"}]

VARIABLES version,  \* the cluster: the version of each object, 0 once it is deleted
          open,     \* the object of the panel, or NoObject
          panel,    \* the panels opened so far
          shown,    \* the version useKubeResource holds, 0 for none
          reading,  \* it is reading the object
          asking,   \* the actions whose question is shown
          busy,
          running,  \* actions under way, of any panel
          draft,    \* the text edited and the version it started from, or NoObject
          lateText, \* something was typed while the draft was being saved
          saves     \* saves under way, of any panel

objectVars == <<open, panel, shown, reading>>
controlVars == <<asking, busy>>
editorVars == <<draft, lateText>>
actionVars == <<version, objectVars, controlVars, running, editorVars, saves>>

-----------------------------------------------------------------------------

underWay == Cardinality(running) + Cardinality(saves)

Mount(o) ==
  /\ open' = o
  /\ shown' = 0 /\ reading' = (o # NoObject)
  /\ asking' = {} /\ busy' = FALSE
  /\ draft' = NoObject /\ lateText' = FALSE

ActionsInit ==
  /\ version = [o \in Objects |-> 1]
  /\ open = NoObject /\ panel = 0 /\ shown = 0 /\ reading = FALSE
  /\ asking = {} /\ busy = FALSE
  /\ draft = NoObject /\ lateText = FALSE
  /\ running = {} /\ saves = {}

\* Another object, or none, is selected.
Select(o) ==
  /\ o # open
  /\ panel < MaxPanels
  /\ panel' = panel + 1
  /\ Mount(o)
  /\ UNCHANGED <<version, running, saves>>

\* useKubeResource: on mount and at each refresh(); an object that is gone is an error.
Read ==
  /\ reading
  /\ reading' = FALSE
  /\ shown' = IF version[open] = 0 THEN shown ELSE version[open]
  /\ UNCHANGED <<version, open, panel, controlVars, running, editorVars, saves>>

\* Somebody else changes an object.
Change(o) ==
  /\ version[o] \in 1..(MaxVersion - 1)
  /\ version' = [version EXCEPT ![o] = @ + 1]
  /\ UNCHANGED <<objectVars, controlVars, running, editorVars, saves>>

-----------------------------------------------------------------------------
(* Actions. *)

ask(a) ==
  /\ shown # 0 /\ a \notin asking /\ ~busy
  /\ asking' = asking \cup {a}
  /\ UNCHANGED <<version, objectVars, busy, running, editorVars, saves>>

cancel(a) ==
  /\ a \in asking
  /\ asking' = asking \ {a}
  /\ UNCHANGED <<version, objectVars, busy, running, editorVars, saves>>

run(a) ==
  /\ underWay < MaxUnderWay
  /\ running' = running \cup {[action |-> a, of |-> open, panel |-> panel, result |-> "sent"]}
  /\ busy' = TRUE
  /\ UNCHANGED <<version, objectVars, editorVars, saves>>

\* A question that was asked before can be answered while another action runs.
confirm(a) ==
  /\ a \in asking
  /\ asking' = asking \ {a}
  /\ run(a)

\* ScaleControl: a number that is valid and not the present one, at once.
applyScale ==
  /\ shown # 0 /\ ~busy
  /\ run("scale")
  /\ UNCHANGED asking

\* The cluster does it, or refuses.
Perform(r) ==
  /\ r.result = "sent"
  /\ \E result \in {"applied", "refused"} :
       /\ running' = (running \ {r}) \cup {[r EXCEPT !.result = result]}
       /\ IF result = "refused" THEN UNCHANGED version
          ELSE /\ version[r.of] \in 1..(IF r.action = "delete" THEN MaxVersion ELSE MaxVersion - 1)
               /\ version' = [version EXCEPT ![r.of] = IF r.action = "delete" THEN 0 ELSE @ + 1]
  /\ UNCHANGED <<objectVars, controlVars, editorVars, saves>>

\* What the browser is told: what was done, or an error if the answer is lost.
Told(r) == {r.result, "refused"}

\* A fault: the panel is closed however the deletion ended.
ClosesAnyway(r, told) == r.action = "delete"

\* remove().then(ok => ok && onDeleted())
Closes(r, told) == r.action = "delete" /\ told = "applied"

\* onDeleted closes the panel there is, also when it is another object's by now.
ActionAnswer(r, told) ==
  /\ r.result # "sent"
  /\ running' = running \ {r}
  /\ IF Closes(r, told) /\ open # NoObject THEN Mount(NoObject) /\ UNCHANGED panel
     ELSE /\ IF r.panel = panel /\ open # NoObject
             THEN busy' = FALSE /\ reading' = (reading \/ told = "applied")
             ELSE UNCHANGED <<busy, reading>>
          /\ UNCHANGED <<open, panel, shown, asking, editorVars>>
  /\ UNCHANGED <<version, saves>>

-----------------------------------------------------------------------------
(* The manifest. *)

savingDraft == \E s \in saves : s.panel = panel

startDraft ==
  /\ shown # 0 /\ draft = NoObject
  /\ draft' = [base |-> shown, text |-> "read"]
  /\ lateText' = FALSE
  /\ UNCHANGED <<version, objectVars, controlVars, running, saves>>

\* The editor stays open to typing while it saves.
setDraft(t) ==
  /\ draft # NoObject
  /\ draft' = [draft EXCEPT !.text = t]
  /\ lateText' = (lateText \/ savingDraft)
  /\ UNCHANGED <<version, objectVars, controlVars, running, saves>>

\* Cancelled; the user gives the draft up.
cancelDraft ==
  /\ draft # NoObject /\ ~savingDraft
  /\ draft' = NoObject
  /\ UNCHANGED <<version, objectVars, controlVars, running, lateText, saves>>

save ==
  /\ draft # NoObject /\ ~savingDraft
  /\ underWay < MaxUnderWay
  /\ saves' = saves \cup {[of |-> open, panel |-> panel, draft |-> draft, result |-> "sent"]}
  /\ lateText' = FALSE
  /\ UNCHANGED <<version, objectVars, controlVars, running, draft>>

\* "The manifest keeps its resourceVersion": the cluster refuses one that was changed since.
Update(s) ==
  /\ s.result = "sent"
  /\ \E result \in {"applied", "refused"} :
       /\ saves' = (saves \ {s}) \cup {[s EXCEPT !.result = result]}
       /\ IF result = "refused" THEN UNCHANGED version
          ELSE /\ version[s.of] = s.draft.base /\ version[s.of] < MaxVersion
               /\ version' = [version EXCEPT ![s.of] = @ + 1]
  /\ UNCHANGED <<objectVars, controlVars, running, editorVars>>

\* A fault: editing ends however the save did.
EndsAlways(told) == TRUE

\* setEditing(false) follows the await: an error leaves the draft.
EndsEditing(told) == told = "applied"

SaveAnswer(s, told) ==
  /\ s.result # "sent"
  /\ saves' = saves \ {s}
  /\ IF s.panel # panel \/ open = NoObject THEN UNCHANGED <<draft, reading>>
     ELSE /\ draft' = IF EndsEditing(told) THEN NoObject ELSE draft
          /\ reading' = (reading \/ told = "applied")
  /\ UNCHANGED <<version, open, panel, shown, controlVars, running, lateText>>

ActionsNext ==
  \/ \E o \in Objects \cup {NoObject} : Select(o)
  \/ Read \/ \E o \in Objects : Change(o)
  \/ \E a \in Questions : ask(a) \/ cancel(a) \/ confirm(a)
  \/ applyScale
  \/ \E r \in running : Perform(r) \/ \E told \in Told(r) : ActionAnswer(r, told)
  \/ startDraft \/ cancelDraft \/ save \/ setDraft("typed")
  \/ \E s \in saves : Update(s) \/ \E told \in Told(s) : SaveAnswer(s, told)

ActionsSpec == ActionsInit /\ [][ActionsNext]_actionVars

-----------------------------------------------------------------------------

\* A panel closes by itself only when an object was deleted: its own, unless the user had
\* opened another one by then.
ClosesOwnPanel ==
  [][running' # running /\ open # NoObject /\ open' = NoObject =>
       \E r \in running \ running' :
         r.action = "delete" /\ version[r.of] = 0 /\ (r.of = open \/ r.panel # panel)]_actionVars

\* What the user typed is not lost to an answer: it was applied as typed, unless it was typed
\* while it was being saved.
NoLostEdit ==
  [][saves' # saves /\ draft # NoObject /\ draft' = NoObject =>
       lateText \/ \E s \in saves \ saves' : s.result = "applied" /\ s.draft.text = draft.text]_actionVars

=============================================================================
