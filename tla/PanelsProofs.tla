---------------------------- MODULE PanelsProofs -----------------------------
(***************************************************************************)
(* Proofs about the parts of the browser that ask for something and show   *)
(* the answer, for any number of containers, files, objects, terminals,    *)
(* requests and answers: what they show, write and close is what was       *)
(* selected, typed and asked for.  Each part is proved on its own.         *)
(***************************************************************************)
EXTENDS KubeObjects, ConsoleView, StreamHooks, FetchHooks, DockerPanel, VolumeBrowser,
        ResourceActions, Sources, TLAPS

-----------------------------------------------------------------------------
(* KubeObjects: where no two requests overlapped, the screen is a gapless  *)
(* run of pages.                                                           *)

OnePage == [list : Lists, page : 1..Pages]

\* What the list is made of, overlapped or not.
ListTypes ==
  /\ list \in Lists \cup {NoList}
  /\ items \in Seq(OnePage)
  /\ requests \subseteq {First(l) : l \in Lists} \cup {More(l, n) : l \in Lists, n \in 1..Pages}
  /\ token \in 0..Pages

\* A single request is under way, for the open list: its first page while the
\* timer runs, or the page the token names.
InTurn ==
  \A r \in requests :
    /\ requests = {r}
    /\ \/ r = First(list) /\ ~extra
       \/ r = More(list, token) /\ token # 0

\* The timer is paused once more than the first page is on screen.
Paused == extra \/ Len(items) <= 1

ListInv == ListTypes /\ (overlapped \/ (PagesInOrder /\ InTurn /\ Paused))

LEMMA ContinueType == \A n \in 1..Pages : Continue(n) \in 0..Pages
BY PagesAssumption DEF Continue

LEMMA ListInit == Init => ListInv
<1> SUFFICES ASSUME Init PROVE ListInv
  OBVIOUS
<1>1. ListTypes
  BY PagesAssumption DEF Init, ListTypes
<1>2. PagesInOrder /\ InTurn /\ Paused
  BY DEF Init, PagesInOrder, InTurn, Paused
<1>3. QED  BY <1>1, <1>2 DEF ListInv

\* Whatever overlaps, the variables keep their types.
LEMMA ListTypesStep ==
  ASSUME ListTypes, [Next]_vars
  PROVE  ListTypes'
<1> USE DEF ListTypes
<1>1. ASSUME NEW l \in Lists \cup {NoList}, Switch(l) PROVE ListTypes'
  BY <1>1, PagesAssumption DEF Switch, Open
<1>2. CASE Poll
  BY <1>2, PagesAssumption DEF Poll, Request
<1>3. CASE LoadMore
  BY <1>3, PagesAssumption DEF LoadMore, Request
<1>4. ASSUME NEW r \in requests, Refreshed(r) PROVE ListTypes'
  <2>1. Page(r.list, 1) \in OnePage
    BY <1>4, PagesAssumption DEF First, More, Page, OnePage
  <2>2. Continue(1) \in 0..Pages
    BY ContinueType, PagesAssumption
  <2>3. QED  BY <1>4, <2>1, <2>2 DEF Refreshed
<1>5. ASSUME NEW r \in requests, MoreLoaded(r) PROVE ListTypes'
  <2>1. r.page \in 1..Pages /\ r.list \in Lists
    BY <1>5, PagesAssumption DEF First, More
  <2>2. Page(r.list, r.page) \in OnePage
    BY <2>1 DEF Page, OnePage
  <2>3. Continue(r.page) \in 0..Pages
    BY <2>1, ContinueType
  <2>4. QED  BY <1>5, <2>2, <2>3 DEF MoreLoaded
<1>6. ASSUME NEW r \in requests, Failed(r) PROVE ListTypes'
  BY <1>6 DEF Failed
<1>7. CASE UNCHANGED vars
  BY <1>7 DEF vars
<1>8. QED  BY <1>1, <1>2, <1>3, <1>4, <1>5, <1>6, <1>7 DEF Next

\* A list that is opened while nothing is under way starts in turn.
LEMMA SwitchInTurn ==
  ASSUME ListTypes, NEW l \in Lists \cup {NoList}, Switch(l), ~overlapped'
  PROVE  PagesInOrder' /\ InTurn' /\ Paused'
<1>1. requests = {} /\ items' = <<>> /\ token' = 0 /\ extra' = FALSE /\ list' = l
  BY DEF Switch, Open
<1>2. requests' \subseteq {First(l)}
  BY <1>1 DEF Switch
<1>3. PagesInOrder' /\ Paused'
  BY <1>1 DEF PagesInOrder, Paused
<1>4. InTurn'
  BY <1>1, <1>2 DEF InTurn
<1>5. QED  BY <1>3, <1>4

\* A request that is sent while nothing else is under way is in turn.
LEMMA RequestInTurn ==
  ASSUME ListTypes, PagesInOrder, Paused, ~overlapped, Poll \/ LoadMore, ~overlapped'
  PROVE  PagesInOrder' /\ InTurn' /\ Paused'
<1> USE DEF PagesInOrder, InTurn, Paused
<1>1. CASE Poll
  <2>1. requests' = {First(list)}
    BY <1>1 DEF Poll, Request
  <2>2. QED  BY <1>1, <2>1 DEF Poll
<1>2. CASE LoadMore
  <2>1. requests' = {More(list, token)}
    BY <1>2 DEF LoadMore, Request
  <2>2. QED  BY <1>2, <2>1 DEF LoadMore
<1>3. QED  BY <1>1, <1>2

\* The answer to the only request leaves the pages in order.
LEMMA AnswerInTurn ==
  ASSUME ListTypes, PagesInOrder, InTurn, Paused, ~overlapped,
         NEW r \in requests, Refreshed(r) \/ MoreLoaded(r) \/ Failed(r)
  PROVE  PagesInOrder' /\ InTurn' /\ Paused'
<1>1. requests' = {} /\ overlapped' = overlapped /\ list' = list
  BY DEF InTurn, Refreshed, MoreLoaded, Failed
<1>2. InTurn'
  BY <1>1 DEF InTurn
<1>3. CASE Refreshed(r)
  <2>1. r.list = list
    BY DEF InTurn, First, More
  <2>2. items' = <<Page(list', 1)>> /\ token' = Continue(1)
    BY <1>1, <1>3, <2>1 DEF Refreshed
  <2>3. QED  BY <1>2, <2>2 DEF PagesInOrder, Paused
<1>4. CASE MoreLoaded(r)
  <2>1. r.list = list /\ r.page = token /\ token # 0
    BY <1>4 DEF InTurn, First, More, MoreLoaded
  <2>2. items # <<>> /\ token = Len(items) + 1
    BY <2>1 DEF PagesInOrder, Continue
  <2>3. items' = Append(items, Page(list', token)) /\ token' = Continue(token)
    BY <1>1, <1>4, <2>1 DEF MoreLoaded
  <2>4. Page(list', token) \in OnePage
    BY <1>1, <2>1 DEF ListTypes, OnePage, Page, First, More
  <2>5. /\ Len(items') = Len(items) + 1
        /\ items' # <<>>
        /\ \A i \in DOMAIN items : items'[i] = items[i]
        /\ items'[Len(items) + 1] = Page(list', token)
        /\ DOMAIN items' = DOMAIN items \cup {Len(items) + 1}
    BY <2>3, <2>4 DEF ListTypes
  <2>6. PagesInOrder'
    BY <1>1, <2>2, <2>3, <2>5 DEF PagesInOrder
  <2>7. QED  BY <1>2, <1>4, <2>6 DEF Paused, MoreLoaded
<1>5. CASE Failed(r)
  BY <1>1, <1>2, <1>5 DEF Failed, PagesInOrder, Paused
<1>6. QED  BY <1>3, <1>4, <1>5

LEMMA ListStep == ListInv /\ [Next]_vars => ListInv'
<1> SUFFICES ASSUME ListInv, [Next]_vars PROVE ListInv'
  OBVIOUS
<1>1. ListTypes /\ ListTypes'
  BY ListTypesStep DEF ListInv
<1>2. ASSUME ~overlapped' PROVE PagesInOrder' /\ InTurn' /\ Paused'
  <2>1. ASSUME NEW l \in Lists \cup {NoList}, Switch(l) PROVE PagesInOrder' /\ InTurn' /\ Paused'
    BY <1>1, <1>2, <2>1, SwitchInTurn
  <2>2. CASE \lnot (\E l \in Lists \cup {NoList} : Switch(l))
    <3>1. ~overlapped
      BY <1>2, <2>2 DEF Next, Poll, LoadMore, Request, Refreshed, MoreLoaded, Failed, vars
    <3>2. PagesInOrder /\ InTurn /\ Paused
      BY <3>1 DEF ListInv
    <3>3. CASE Poll \/ LoadMore
      BY <1>1, <1>2, <3>1, <3>2, <3>3, RequestInTurn
    <3>4. ASSUME NEW r \in requests, Refreshed(r) \/ MoreLoaded(r) \/ Failed(r)
          PROVE  PagesInOrder' /\ InTurn' /\ Paused'
      BY <1>1, <3>1, <3>2, <3>4, AnswerInTurn
    <3>5. CASE UNCHANGED vars
      BY <3>2, <3>5 DEF vars, PagesInOrder, InTurn, Paused
    <3>6. QED  BY <2>2, <3>3, <3>4, <3>5 DEF Next
  <2>3. QED  BY <2>1, <2>2
<1>3. QED  BY <1>1, <1>2 DEF ListInv

THEOREM ListInvariant == Spec => []ListInv
<1>1. QED  BY ListInit, ListStep, PTL DEF Spec

\* Unless two requests overlapped, the screen shows the first pages of the open
\* list in order and without a gap, and the token names the page that follows.
THEOREM PagesInvariant == Spec => []PagesInOrder
<1>1. ListInv => PagesInOrder
  BY DEF ListInv, PagesInOrder
<1>2. QED  BY <1>1, ListInvariant, PTL

\* A page that was loaded in turn stays on screen while its list is open: the
\* only answer that could replace it is one the paused timer did not ask for.
THEOREM PagesStayAction == Spec => PagesStayInTurn
<1>1. ASSUME ListInv, Next, list' = list, Len(items) > 1, ~overlapped
      PROVE  Len(items') >= Len(items)
  <2>1. ListTypes /\ InTurn /\ extra /\ Len(items) \in Nat
    BY <1>1 DEF ListInv, Paused, ListTypes
  <2>2. CASE items' = items
    BY <2>1, <2>2
  <2>3. ASSUME NEW r \in requests, Refreshed(r) PROVE FALSE
    BY <2>1, <2>3 DEF InTurn, Refreshed, First, More
  <2>4. ASSUME NEW r \in requests, MoreLoaded(r) PROVE Len(items') >= Len(items)
    <3>1. Page(r.list, r.page) \in OnePage
      BY <2>1, PagesAssumption DEF ListTypes, First, More, Page, OnePage
    <3>2. QED  BY <2>1, <2>4, <3>1 DEF ListTypes, MoreLoaded
  <2>5. QED
    BY <1>1, <2>2, <2>3, <2>4 DEF Next, Switch, Open, Poll, LoadMore, Failed
<1>2. ListInv /\ [Next]_vars =>
        [list' = list /\ Len(items) > 1 /\ ~overlapped => Len(items') >= Len(items)]_vars
  BY <1>1
<1>3. QED  BY <1>2, ListInvariant, PTL DEF Spec, PagesStayInTurn

-----------------------------------------------------------------------------
(* ConsoleView: a shell is left behind only when a path changed before its *)
(* frame came.                                                             *)

ConsoleTypes ==
  /\ execPath \in Paths \cup {NoPath} /\ element \in Nat
  /\ frames \subseteq [path : Paths, element : Nat]
  /\ sockets \subseteq [number : Nat, path : Paths, up : BOOLEAN]
  /\ ws \in Nat /\ opened \in Nat /\ raced \in BOOLEAN

\* A frame waits for the element on screen or for one that is gone, never for one to come.
FramesMounted == \A f \in frames : f.element <= element

\* The frame the element on screen waits for is one, of its path, and there is no socket yet.
FrameFirst ==
  \A f \in frames : f.element = element =>
    /\ f.path = execPath /\ sockets = {}
    /\ \A g \in frames : g.element = element => g = f

ConsoleInv == ConsoleTypes /\ FramesMounted /\ (raced \/ FrameFirst) /\ NoOrphanShell

LEMMA ShowPreserves ==
  ASSUME ConsoleInv, NEW p \in Paths \cup {NoPath}, Show(p)
  PROVE  ConsoleInv'
<1> DEFINE anew == NoPath \in {p, execPath} \/ Keyed \cap {p, execPath} # {}
           awaited == [path |-> p, element |-> element']
<1>1. /\ execPath' = p /\ ws' = 0 /\ opened' = opened
      /\ element' = element + (IF anew THEN 1 ELSE 0)
      /\ raced' = (raced \/ (~anew /\ \E f \in frames : f.element = element))
      /\ frames' = frames \cup IF p = NoPath THEN {} ELSE {awaited}
      /\ sockets' = {s \in sockets : s.number # ws}
  BY DEF Show, closed
<1>2. ConsoleTypes'
  BY <1>1 DEF ConsoleInv, ConsoleTypes
<1>3. FramesMounted'
  BY <1>1 DEF ConsoleInv, ConsoleTypes, FramesMounted
<1>4. ASSUME ~raced' PROVE sockets' = {}
  BY <1>1, <1>4 DEF ConsoleInv, NoOrphanShell
<1>5. ASSUME ~raced', NEW f \in frames' PROVE f.element = element' => f = awaited
  <2>1. CASE f \in frames
    <3>1. f.element \in Nat /\ element \in Nat /\ f.element <= element
      BY <2>1 DEF ConsoleInv, ConsoleTypes, FramesMounted
    <3>2. CASE anew
      <4>1. element' = element + 1
        BY <1>1, <3>2
      <4>2. f.element # element'
        BY <3>1, <4>1
      <4>3. QED  BY <4>2
    <3>3. CASE ~anew
      <4>1. element' = element
        BY <1>1, <3>1, <3>3
      <4>2. f.element # element
        BY <1>1, <1>5, <2>1, <3>3
      <4>3. QED  BY <4>1, <4>2
    <3>4. QED  BY <3>2, <3>3
  <2>2. CASE f \notin frames
    BY <1>1, <1>5, <2>2
  <2>3. QED  BY <2>1, <2>2
<1>6. raced' \/ FrameFirst'
  <2>1. SUFFICES ASSUME ~raced' PROVE FrameFirst'
    OBVIOUS
  <2>2. awaited.path = p
    OBVIOUS
  <2>3. QED  BY <1>1, <1>4, <1>5, <2>1, <2>2 DEF FrameFirst
<1>7. NoOrphanShell'
  BY <1>4 DEF NoOrphanShell
<1>8. QED  BY <1>2, <1>3, <1>6, <1>7 DEF ConsoleInv

LEMMA InitPreserves ==
  ASSUME ConsoleInv, NEW f \in frames, init(f)
  PROVE  ConsoleInv'
<1> DEFINE new == [number |-> opened', path |-> f.path, up |-> FALSE]
<1>1. /\ f.element = element /\ frames' = frames \ {f}
      /\ opened' = opened + 1 /\ ws' = opened'
      /\ sockets' = sockets \cup {new}
      /\ UNCHANGED <<execPath, element, raced>>
  BY DEF init
<1>2. ConsoleTypes'
  <2>1. opened' \in Nat /\ f.path \in Paths
    BY <1>1 DEF ConsoleInv, ConsoleTypes
  <2>2. new \in [number : Nat, path : Paths, up : BOOLEAN]
    BY <2>1
  <2>3. QED  BY <1>1, <2>1, <2>2 DEF ConsoleInv, ConsoleTypes
<1>3. FramesMounted'
  BY <1>1 DEF ConsoleInv, FramesMounted
<1>4. (raced \/ FrameFirst)'
  BY <1>1 DEF ConsoleInv, FrameFirst
<1>5. NoOrphanShell'
  BY <1>1 DEF ConsoleInv, FrameFirst, NoOrphanShell
<1>6. QED  BY <1>2, <1>3, <1>4, <1>5 DEF ConsoleInv

LEMMA SocketPreserves ==
  ASSUME ConsoleInv, NEW s \in sockets, onopen(s) \/ onclose(s)
  PROVE  ConsoleInv'
<1>1. UNCHANGED <<execPath, element, frames, ws, opened, raced>>
  BY DEF onopen, onclose
<1>2. \A t \in sockets' :
        /\ t \in [number : Nat, path : Paths, up : BOOLEAN]
        /\ \E u \in sockets : t.number = u.number /\ t.path = u.path
  <2>1. CASE onopen(s)
    <3>1. s \in [number : Nat, path : Paths, up : BOOLEAN]
      BY DEF ConsoleInv, ConsoleTypes
    <3>2. LET t == [s EXCEPT !.up = TRUE]
          IN  /\ t \in [number : Nat, path : Paths, up : BOOLEAN]
              /\ t.number = s.number /\ t.path = s.path
      BY <3>1
    <3>3. QED  BY <2>1, <3>2 DEF onopen, ConsoleInv, ConsoleTypes
  <2>2. CASE onclose(s)
    BY <2>2 DEF onclose, ConsoleInv, ConsoleTypes
  <2>3. QED  BY <2>1, <2>2
<1>3. ConsoleTypes'
  BY <1>1, <1>2 DEF ConsoleInv, ConsoleTypes
<1>4. FramesMounted'
  BY <1>1 DEF ConsoleInv, FramesMounted
<1>5. (raced \/ FrameFirst)'
  BY <1>1 DEF ConsoleInv, FrameFirst
<1>6. NoOrphanShell'
  BY <1>1, <1>2 DEF ConsoleInv, NoOrphanShell
<1>7. QED  BY <1>3, <1>4, <1>5, <1>6 DEF ConsoleInv

\* No shell of any number stays connected that the user no longer sees, and what is seen
\* is the shell of the path on screen, unless a path changed before its terminal was opened:
\* the cleanup of ConsoleView.vm.ts closes all there is to close.
THEOREM OrphanInvariant == ConsoleSpec => []NoOrphanShell
<1>1. ConsoleInit => ConsoleInv
  <2> SUFFICES ASSUME ConsoleInit PROVE ConsoleInv
    OBVIOUS
  <2>1. ConsoleTypes
    BY DEF ConsoleInit, ConsoleTypes
  <2>2. FramesMounted /\ FrameFirst /\ NoOrphanShell
    BY DEF ConsoleInit, FramesMounted, FrameFirst, NoOrphanShell
  <2>3. QED  BY <2>1, <2>2 DEF ConsoleInv
<1>2. ConsoleInv /\ [ConsoleNext]_consoleVars => ConsoleInv'
  <2> SUFFICES ASSUME ConsoleInv, [ConsoleNext]_consoleVars PROVE ConsoleInv'
    OBVIOUS
  <2>1. CASE UNCHANGED consoleVars
    BY <2>1 DEF consoleVars, ConsoleInv, ConsoleTypes, FramesMounted, FrameFirst, NoOrphanShell
  <2>2. CASE ConsoleNext
    BY <2>2, ShowPreserves, InitPreserves, SocketPreserves DEF ConsoleNext
  <2>3. QED  BY <2>1, <2>2
<1>3. ConsoleInv => NoOrphanShell
  BY DEF ConsoleInv
<1>4. QED  BY <1>1, <1>2, <1>3, PTL DEF ConsoleSpec

-----------------------------------------------------------------------------
(* Sources: the page that goes away and the page that comes leave the hash *)
(* of the cluster on screen, whichever the two are.                        *)

\* The URL names the source on screen however sources are picked and hashes typed:
\* hashAfter, the cleanup and the effect of the two pages, restores it by itself.
THEOREM UrlAlwaysNamesSource == SourcesSpec => []UrlNamesSource
<1>1. SourcesInit => UrlNamesSource
  BY DEF SourcesInit, UrlNamesSource
<1>2. UrlNamesSource /\ [SourcesNext]_sourceVars => UrlNamesSource'
  <2> SUFFICES ASSUME UrlNamesSource, [SourcesNext]_sourceVars PROVE UrlNamesSource'
    OBVIOUS
  <2>1. CASE SourcesAnswer
    BY <2>1 DEF SourcesAnswer, hashAfter, UrlNamesSource
  <2>2. ASSUME NEW s \in All, selectSource(s) PROVE UrlNamesSource'
    BY <2>2 DEF selectSource, hashAfter, UrlNamesSource
  <2>3. ASSUME NEW c \in Clusters, TypeHash(c) PROVE UrlNamesSource'
    BY <2>3 DEF TypeHash, UrlNamesSource
  <2>4. CASE SourcesFailed \/ RetryTimer \/ UNCHANGED sourceVars
    BY <2>4 DEF SourcesFailed, RetryTimer, sourceVars, UrlNamesSource
  <2>5. QED  BY <2>1, <2>2, <2>3, <2>4 DEF SourcesNext
<1>3. QED  BY <1>1, <1>2, PTL DEF SourcesSpec

-----------------------------------------------------------------------------
(* VolumeBrowser: the text sent to a file is the text edited for it, in    *)
(* whatever order directories, files and saves are answered.               *)

BrowserTypes ==
  /\ file \in {NoFile} \cup [path : Files, edit : Edits]
  /\ edited \in {NoFile} \cup [path : Files \cup {NoFile}, edit : Edits]
  /\ askedFiles \subseteq Files
  /\ \A r \in askedSaves : r.to \in Files /\ r.text.edit \in Edits
  /\ swapped \in BOOLEAN

\* The text that is edited is of the file that is open: whatever a directory, a file or a save
\* answers, both change together, unless a save opened its own file over another one's text.
EditFollowsFile ==
  file # NoFile /\ ~swapped => /\ edited # NoFile
                               /\ edited.path = file.path

BrowserInv == BrowserTypes /\ EditFollowsFile /\ EditIsOfFile

LEMMA TextIsThere ==
  ASSUME NEW f \in Files \cup {NoFile}, NEW edit \in Edits
  PROVE  /\ Text(f, edit) # NoFile
         /\ Text(f, edit) \in [path : Files \cup {NoFile}, edit : Edits]
         /\ f \in Files => Text(f, edit) \in [path : Files, edit : Edits]
         /\ Text(f, edit).path = f /\ Text(f, edit).edit = edit
BY NoFileAssumption DEF Text

LEMMA OpenedInv ==
  ASSUME BrowserInv, NEW f \in Files, Opened(f), askedSaves' \subseteq askedSaves, swapped' = FALSE,
         askedFiles' \subseteq askedFiles
  PROVE  BrowserInv'
<1>1. "read" \in Edits
  BY DEF Edits
<1>2. /\ file' \in [path : Files, edit : Edits] /\ edited' = file'
      /\ edited' # NoFile
  BY <1>1, TextIsThere DEF Opened
<1>3. BrowserTypes'
  <2>1. edited' \in [path : Files \cup {NoFile}, edit : Edits]
    BY <1>2
  <2>2. QED  BY <1>2, <2>1 DEF BrowserInv, BrowserTypes
<1>4. EditFollowsFile'
  BY <1>1, <1>2 DEF EditFollowsFile
<1>5. EditIsOfFile'
  BY DEF BrowserInv, EditIsOfFile
<1>6. QED  BY <1>3, <1>4, <1>5 DEF BrowserInv

LEMMA TypedInv ==
  ASSUME BrowserInv, NEW edit \in Edits, setEditedContent(edit)
  PROVE  BrowserInv'
<1>1. UNCHANGED <<file, askedFiles, askedSaves, swapped>>
  BY DEF setEditedContent
<1>2. ASSUME ~swapped PROVE edited'.path = file.path /\ edited' # NoFile
  <2>1. file # NoFile /\ file.path \in Files
    BY TextIsThere DEF setEditedContent, BrowserInv, BrowserTypes
  <2>2. edited # NoFile /\ edited.path = file.path
    BY <1>2, <2>1, TextIsThere DEF BrowserInv, EditFollowsFile
  <2>3. QED  BY <2>1, <2>2, TextIsThere DEF setEditedContent
<1>3. BrowserTypes'
  <2>1. file # NoFile /\ file.path \in Files
    BY TextIsThere DEF setEditedContent, BrowserInv, BrowserTypes
  <2>2. edited' \in [path : Files \cup {NoFile}, edit : Edits]
    <3>1. edited # NoFile => edited.path \in Files \cup {NoFile}
      BY TextIsThere DEF BrowserInv, BrowserTypes
    <3>2. DEFINE path == IF edited = NoFile THEN NoFile ELSE edited.path
    <3>3. path \in Files \cup {NoFile} /\ edited' = Text(path, edit)
      BY <3>1 DEF setEditedContent
    <3>4. QED  BY <3>3, TextIsThere
  <2>3. QED  BY <1>1, <2>2 DEF BrowserInv, BrowserTypes
<1>4. EditFollowsFile'
  BY <1>1, <1>2 DEF EditFollowsFile
<1>5. EditIsOfFile'
  BY <1>1 DEF BrowserInv, EditIsOfFile
<1>6. QED  BY <1>3, <1>4, <1>5 DEF BrowserInv

LEMMA SaveInv ==
  ASSUME BrowserInv, saveFile
  PROVE  BrowserInv'
<1> DEFINE r == [to |-> file.path, text |-> edited, swapped |-> swapped]
<1>1. askedSaves' = {r} /\ file # NoFile /\ edited # NoFile /\ UNCHANGED <<file, edited, askedFiles, swapped>>
  BY DEF saveFile, isDirty
<1>2. file.path \in Files
  BY <1>1, TextIsThere DEF BrowserInv, BrowserTypes
<1>3. edited.edit \in Edits
  BY <1>1, TextIsThere DEF BrowserInv, BrowserTypes
<1>4. swapped \/ edited.path = file.path
  BY <1>1, <1>2, TextIsThere DEF BrowserInv, EditFollowsFile
<1>5. BrowserTypes'
  BY <1>1, <1>2, <1>3 DEF BrowserInv, BrowserTypes
<1>6. EditFollowsFile'
  BY <1>1 DEF BrowserInv, EditFollowsFile
<1>7. EditIsOfFile'
  BY <1>1, <1>4 DEF EditIsOfFile
<1>8. QED  BY <1>5, <1>6, <1>7 DEF BrowserInv

LEMMA SavedInv ==
  ASSUME BrowserInv, NEW r \in askedSaves, FileSaved(r)
  PROVE  BrowserInv'
<1>1. /\ r.to \in Files /\ r.text.edit \in Edits
      /\ file' = Text(r.to, r.text.edit) /\ swapped' = (swapped \/ file = NoFile \/ file.path # r.to)
      /\ askedSaves' \subseteq askedSaves /\ UNCHANGED <<edited, askedFiles>>
  BY DEF FileSaved, BrowserInv, BrowserTypes
<1>2. file'.path = r.to /\ file' \in [path : Files, edit : Edits]
  BY <1>1, TextIsThere
<1>3. BrowserTypes'
  BY <1>1, <1>2 DEF BrowserInv, BrowserTypes
<1>4. EditFollowsFile' /\ EditIsOfFile'
  BY <1>1, <1>2 DEF BrowserInv, BrowserTypes, EditFollowsFile, EditIsOfFile
<1>5. QED  BY <1>3, <1>4 DEF BrowserInv

\* A file that is closed, or cannot be read, and a directory that is asked for leave nothing open.
LEMMA ClosedInv ==
  ASSUME BrowserInv, NothingOpen, askedFiles' \subseteq askedFiles, askedSaves' = askedSaves
  PROVE  BrowserInv'
BY DEF NothingOpen, BrowserInv, BrowserTypes, EditFollowsFile, EditIsOfFile

\* No file is written with the text of another one, however directories, files and saves are
\* answered, unless a save opened its own file over what was edited by then: saveFile sends
\* the text of the editor to the path of the file it shows.
THEOREM SavedTextIsOfFile == BrowserSpec => []EditIsOfFile
<1>1. BrowserInit => BrowserInv
  BY DEF BrowserInit, BrowserInv, BrowserTypes, EditFollowsFile, EditIsOfFile
<1>2. BrowserInv /\ [BrowserNext]_browserVars => BrowserInv'
  <2> SUFFICES ASSUME BrowserInv, [BrowserNext]_browserVars PROVE BrowserInv'
    OBVIOUS
  <2>1. CASE Navigate
    BY <2>1, ClosedInv DEF Navigate, navigateTo
  <2>2. ASSUME NEW f \in askedFiles, FileAnswer(f) PROVE BrowserInv'
    <3>1. f \in Files
      BY DEF BrowserInv, BrowserTypes
    <3>2. QED  BY <2>2, <3>1, OpenedInv DEF FileAnswer
  <2>3. ASSUME NEW f \in askedFiles, FileFailed(f) PROVE BrowserInv'
    BY <2>3, ClosedInv DEF FileFailed
  <2>4. CASE closeFile
    BY <2>4, ClosedInv DEF closeFile
  <2>5. ASSUME NEW edit \in Edits \ {"read"}, setEditedContent(edit) PROVE BrowserInv'
    BY <2>5, TypedInv
  <2>6. CASE saveFile
    BY <2>6, SaveInv
  <2>7. ASSUME NEW r \in askedSaves, FileSaved(r) PROVE BrowserInv'
    BY <2>7, SavedInv
  <2>8. CASE \/ \E f \in Files : openFile(f)
             \/ \E d \in askedDirs : DirAnswer(d) \/ DirFailed(d)
             \/ \E r \in askedSaves : FileNotSaved(r)
             \/ UNCHANGED browserVars
    <3>1. /\ UNCHANGED <<file, edited, swapped>> /\ askedSaves' \subseteq askedSaves
          /\ askedFiles' \subseteq askedFiles \cup Files
      BY <2>8 DEF openFile, DirAnswer, DirFailed, FileNotSaved, browserVars
    <3>2. QED  BY <3>1 DEF BrowserInv, BrowserTypes, EditFollowsFile, EditIsOfFile
  <2>9. QED  BY <2>1, <2>2, <2>3, <2>4, <2>5, <2>6, <2>7, <2>8 DEF BrowserNext
<1>3. BrowserInv => EditIsOfFile
  BY DEF BrowserInv
<1>4. QED  BY <1>1, <1>2, <1>3, PTL DEF BrowserSpec

-----------------------------------------------------------------------------
(* DockerPanel: the environment that is edited is the selected             *)
(* container's, although answers about others still come.                  *)

PanelTypes ==
  \A r \in saving : r \in [id : DockerIds \cup {NoId}, env : DockerIds \cup {NoId}, crossed : BOOLEAN, form : BOOLEAN]

\* Unless another container was being inspected when this one was selected, every answer to
\* come, the container that is shown and the form are about the selected one.
EditFollowsSelection ==
  /\ inspecting \subseteq {selectedId}
  /\ inspectLoading \/ inspect \in {selectedId, NoId}
  /\ editedEnv \in {selectedId, NoId}

PanelInv ==
  /\ PanelTypes
  /\ selectedId \in DockerIds \cup {NoId} /\ inspecting \subseteq DockerIds
  /\ inspect \in DockerIds \cup {NoId} /\ editedEnv \in DockerIds \cup {NoId}
  /\ inspectLoading \in BOOLEAN /\ crossed \in BOOLEAN
  /\ crossed \/ EditFollowsSelection
  /\ EnvIsOfContainer

\* A commit ends forms, and changes no request.
LEMMA CommitInv ==
  ASSUME PanelTypes, EnvIsOfContainer,
         NEW tab, NEW i \in DockerIds \cup {NoId}, NEW loading \in BOOLEAN,
         NEW edit \in DockerIds \cup {NoId}, NEW sent \in SUBSET saving,
         Commit(tab, i, loading, edit, sent)
  PROVE  /\ PanelTypes' /\ EnvIsOfContainer'
         /\ inspect' = i /\ inspectLoading' = loading
         /\ editedEnv' \in {edit, NoId} /\ (loading => editedEnv' = NoId)
<1> DEFINE mounted == InspectShown(tab, i, loading)
           unmount(r) == [r EXCEPT !.form = @ /\ mounted]
<1>1. /\ inspect' = i /\ inspectLoading' = loading
      /\ editedEnv' = IF mounted THEN edit ELSE NoId
      /\ saving' = {unmount(r) : r \in sent}
  BY DEF Commit
<1>2. loading => ~mounted
  BY DEF InspectShown
<1>3. mounted \in BOOLEAN
  BY DEF InspectShown
<1>4. ASSUME NEW r \in sent
      PROVE  /\ unmount(r) \in [id : DockerIds \cup {NoId}, env : DockerIds \cup {NoId}, crossed : BOOLEAN, form : BOOLEAN]
             /\ unmount(r).env = unmount(r).id \/ unmount(r).crossed
  <2>1. /\ r \in [id : DockerIds \cup {NoId}, env : DockerIds \cup {NoId}, crossed : BOOLEAN, form : BOOLEAN]
        /\ r.env = r.id \/ r.crossed
    BY DEF PanelTypes, EnvIsOfContainer
  <2> HIDE DEF mounted
  <2>2. QED  BY <1>3, <2>1
<1>5. PanelTypes' /\ EnvIsOfContainer'
  BY <1>1, <1>4 DEF PanelTypes, EnvIsOfContainer
<1>6. QED  BY <1>1, <1>2, <1>5

LEMMA ShowContainerInv ==
  ASSUME PanelInv, NEW id \in DockerIds, NEW edit \in DockerIds \cup {NoId},
         NEW sent \in SUBSET saving, ShowContainer(id, edit, sent)
  PROVE  PanelInv'
<1>1. /\ selectedId' = id /\ inspecting' = inspecting \cup {id}
      /\ crossed' = (inspecting \ {id} # {})
      /\ Commit(activeTab, inspect, TRUE, edit, sent)
  BY DEF ShowContainer
<1>2. /\ PanelTypes' /\ EnvIsOfContainer'
      /\ inspect' = inspect /\ inspectLoading' = TRUE /\ editedEnv' = NoId
  BY <1>1, CommitInv DEF PanelInv
<1>3. (crossed \/ EditFollowsSelection)'
  BY <1>1, <1>2 DEF EditFollowsSelection
<1>4. QED  BY <1>1, <1>2, <1>3 DEF PanelInv

LEMMA UnselectInv ==
  ASSUME PanelInv, Unselect
  PROVE  PanelInv'
<1>1. /\ selectedId' = NoId /\ inspecting' = {} /\ crossed' = FALSE
      /\ Commit("logs", NoId, FALSE, NoId, saving)
  BY DEF Unselect
<1>2. /\ PanelTypes' /\ EnvIsOfContainer'
      /\ inspect' = NoId /\ inspectLoading' = FALSE /\ editedEnv' = NoId
  BY <1>1, CommitInv DEF PanelInv
<1>3. QED  BY <1>1, <1>2 DEF PanelInv, EditFollowsSelection

\* Another tab, and an answer that is taken whatever was selected since.
LEMMA TakenInv ==
  ASSUME PanelInv, NEW t, NEW i \in DockerIds \cup {NoId}, NEW loading \in BOOLEAN,
         \/ i = inspect /\ loading = inspectLoading
         \/ \E id \in inspecting : i \in {id, NoId},
         inspecting' \subseteq inspecting, UNCHANGED <<selectedId, crossed>>,
         Commit(t, i, loading, editedEnv, saving)
  PROVE  PanelInv'
<1>1. /\ PanelTypes' /\ EnvIsOfContainer'
      /\ inspect' = i /\ inspectLoading' = loading /\ editedEnv' \in {editedEnv, NoId}
  BY CommitInv DEF PanelInv
<1>2. (crossed \/ EditFollowsSelection)'
  BY <1>1 DEF PanelInv, EditFollowsSelection
<1>3. QED  BY <1>1, <1>2 DEF PanelInv

LEMMA FormInv ==
  ASSUME PanelInv, startEditing \/ cancelEditing \/ saveEnv
  PROVE  PanelInv'
<1>1. CASE startEditing
  BY <1>1 DEF startEditing, formShown, InspectShown, PanelInv, PanelTypes, EditFollowsSelection, EnvIsOfContainer
<1>2. CASE cancelEditing
  BY <1>2 DEF cancelEditing, PanelInv, PanelTypes, EditFollowsSelection, EnvIsOfContainer
<1>3. CASE saveEnv
  <2> DEFINE r == [id |-> selectedId, env |-> editedEnv, crossed |-> crossed, form |-> TRUE]
  <2>1. /\ editedEnv # NoId /\ saving' = saving \cup {r}
        /\ UNCHANGED <<selectedId, inspect, inspectLoading, inspecting, editedEnv, crossed>>
    BY <1>3 DEF saveEnv
  <2>2. /\ r \in [id : DockerIds \cup {NoId}, env : DockerIds \cup {NoId}, crossed : BOOLEAN, form : BOOLEAN]
        /\ r.env = r.id \/ r.crossed
    BY <2>1 DEF PanelInv, EditFollowsSelection
  <2>3. PanelTypes' /\ EnvIsOfContainer'
    BY <2>1, <2>2 DEF PanelInv, PanelTypes, EnvIsOfContainer
  <2>4. QED  BY <2>1, <2>3 DEF PanelInv, EditFollowsSelection
<1>4. QED  BY <1>1, <1>2, <1>3

\* No container is recreated with the environment of another one, however containers are
\* selected, inspected and recreated, unless it was selected while another one was still being
\* inspected: saveEnv sends what is edited to what is selected.
THEOREM EnvOfSelected == PanelSpec => []EnvIsOfContainer
<1>1. PanelInit => PanelInv
  BY DEF PanelInit, PanelInv, PanelTypes, EditFollowsSelection, EnvIsOfContainer
<1>2. PanelInv /\ [PanelNext]_dockerPanelVars => PanelInv'
  <2> SUFFICES ASSUME PanelInv, [PanelNext]_dockerPanelVars PROVE PanelInv'
    OBVIOUS
  <2>1. ASSUME NEW id \in DockerIds, handleSelectContainer(id) PROVE PanelInv'
    BY <2>1, UnselectInv, ShowContainerInv DEF handleSelectContainer, PanelInv
  <2>2. CASE handleClosePanel
    BY <2>2, UnselectInv DEF handleClosePanel
  <2>3. ASSUME NEW t \in CONTAINER_TABS, setActiveTab(t) PROVE PanelInv'
    BY <2>3, TakenInv DEF setActiveTab, PanelInv
  <2>4. ASSUME NEW id \in DockerIds, NEW i \in {id, NoId}, InspectAnswer(id, i) PROVE PanelInv'
    BY <2>4, TakenInv DEF InspectAnswer
  <2>5. CASE startEditing \/ cancelEditing \/ saveEnv
    BY <2>5, FormInv
  <2>6. ASSUME NEW r \in saving, NEW new \in DockerIds, Recreated(r, new) PROVE PanelInv'
    BY <2>6, ShowContainerInv DEF Recreated, PanelInv
  <2>7. CASE toggleExpand \/ (\E r \in saving : NotRecreated(r)) \/ UNCHANGED dockerPanelVars
    BY <2>7 DEF toggleExpand, NotRecreated, dockerPanelVars, PanelInv, PanelTypes, EditFollowsSelection,
         EnvIsOfContainer
  <2>8. QED  BY <2>1, <2>2, <2>3, <2>4, <2>5, <2>6, <2>7 DEF PanelNext
<1>3. PanelInv => EnvIsOfContainer
  BY DEF PanelInv
<1>4. QED  BY <1>1, <1>2, <1>3, PTL DEF PanelSpec

-----------------------------------------------------------------------------
(* FetchHooks: an answer is taken only in the effect that asked for it.    *)

FetchTypes ==
  /\ effect \in Nat /\ fetches \in Nat
  /\ \A r \in fetching : r \in [key : Keys, number : Nat, effect : Nat]
  /\ key \in Keys

\* The requests of the effect there is are for its key; no request is of an effect to come.
FetchedForKey ==
  \A r \in fetching : r.effect <= effect /\ (r.effect = effect => r.key = key)

\* But for the polls of the counts, an effect makes one request, and its answer has been taken
\* when what is shown is of that effect.
OneForEffect ==
  hook # "counts" =>
    /\ fetches = effect
    /\ \A r \in fetching : r.number = r.effect
    /\ data # NoData =>
         /\ data.number \in Nat /\ data.number <= effect
         /\ \A r \in fetching : r.effect = effect => data.number < r.number

FetchInv == FetchTypes /\ FetchedForKey /\ OneForEffect

LEMMA EffectInv ==
  ASSUME FetchInv, NEW k \in Keys, Effect(k), UNCHANGED hook
  PROVE  FetchInv' /\ data' \in {data, NoData}
<1> DEFINE r == Fetch(k, effect + 1)
<1>1. /\ key' = k /\ effect' = effect + 1 /\ fetches' = fetches + 1
      /\ fetching' = fetching \cup {r} /\ data' \in {data, NoData}
  BY DEF Effect
<1>2. r.key = k /\ r.number = fetches + 1 /\ r.effect = effect + 1
  BY DEF Fetch
<1>3. FetchTypes'
  BY <1>1 DEF FetchInv, FetchTypes, Fetch
<1>4. FetchedForKey'
  BY <1>1, <1>2 DEF FetchInv, FetchTypes, FetchedForKey
<1>5. OneForEffect'
  <2>1. SUFFICES ASSUME hook # "counts" PROVE OneForEffect'
    BY DEF OneForEffect
  <2>2. /\ fetches = effect /\ effect \in Nat
        /\ \A q \in fetching : q.number = q.effect /\ q.effect \in Nat /\ q.effect <= effect
        /\ data # NoData => data.number \in Nat /\ data.number <= effect
    BY <2>1 DEF FetchInv, FetchTypes, FetchedForKey, OneForEffect
  <2>3. QED  BY <1>1, <1>2, <2>2 DEF OneForEffect
<1>6. QED  BY <1>1, <1>3, <1>4, <1>5 DEF FetchInv

LEMMA AnswerInv ==
  ASSUME FetchInv, NEW r \in fetching, Answer(r)
  PROVE  /\ FetchInv'
         /\ data' # data /\ data' # NoData =>
              data'.key = key /\ (data # NoData /\ hook # "counts" => data'.number > data.number)
<1>1. /\ fetching' = fetching \ {r} /\ UNCHANGED <<hook, key, effect, fetches>>
      /\ data' = IF r.effect = effect THEN r ELSE data
  BY DEF Answer, cancelled
<1>2. r.key \in Keys /\ r.number \in Nat /\ r.effect \in Nat
  BY DEF FetchInv, FetchTypes
<1>3. FetchTypes' /\ FetchedForKey'
  BY <1>1 DEF FetchInv, FetchTypes, FetchedForKey
<1>4. OneForEffect'
  <2>1. ASSUME hook # "counts", r.effect = effect, NEW q \in fetching, q.effect = effect PROVE q = r
    <3>1. q \in [key : Keys, number : Nat, effect : Nat] /\ r \in [key : Keys, number : Nat, effect : Nat]
      BY DEF FetchInv, FetchTypes
    <3>2. q.number = r.number /\ q.key = r.key
      BY <2>1 DEF FetchInv, FetchedForKey, OneForEffect
    <3>3. QED  BY <2>1, <3>1, <3>2
  <2>2. CASE r.effect = effect
    BY <1>1, <1>2, <2>1, <2>2 DEF FetchInv, FetchTypes, OneForEffect
  <2>3. CASE r.effect # effect
    BY <1>1, <2>3 DEF FetchInv, OneForEffect
  <2>4. QED  BY <2>2, <2>3
<1>5. data' # data => data' = r /\ r.key = key /\ (data # NoData /\ hook # "counts" => data.number < r.number)
  BY <1>1 DEF FetchInv, FetchedForKey, OneForEffect
<1>6. data # NoData /\ hook # "counts" => data.number \in Nat
  BY DEF FetchInv, OneForEffect
<1>7. QED  BY <1>2, <1>3, <1>4, <1>5, <1>6 DEF FetchInv

\* An answer never takes the place of one to a later request, save between two polls of the
\* same counts, and never comes back for a key that was left, in whatever order requests are
\* answered: the cleanup of an effect cancels what that effect asked for.
THEOREM AnswersStayCurrent == FetchSpec => AnswersAreCurrent
<1>1. FetchInit => FetchInv
  BY DEF FetchInit, FetchInv, FetchTypes, FetchedForKey, OneForEffect
<1>2. FetchInv /\ [FetchNext]_fetchVars =>
        /\ FetchInv'
        /\ data' # data /\ data' # NoData =>
             data'.key = key /\ (data # NoData /\ hook # "counts" => data'.number > data.number)
  <2> SUFFICES ASSUME FetchInv, [FetchNext]_fetchVars
               PROVE  /\ FetchInv'
                      /\ data' # data /\ data' # NoData =>
                           data'.key = key /\ (data # NoData /\ hook # "counts" => data'.number > data.number)
    OBVIOUS
  <2>1. CASE Refresh \/ \E k \in Keys : ChangeKey(k)
    <3>1. key \in Keys
      BY DEF FetchInv, FetchTypes
    <3>2. QED  BY <2>1, <3>1, EffectInv DEF Refresh, ChangeKey
  <2>2. CASE Again
    <3>1. /\ hook = "counts" /\ UNCHANGED <<hook, key, effect, data>> /\ fetches' = fetches + 1
          /\ fetching' = fetching \cup {Fetch(key, effect)}
      BY <2>2 DEF Again
    <3>2. Fetch(key, effect) \in [key : Keys, number : Nat, effect : Nat]
      BY DEF Fetch, FetchInv, FetchTypes
    <3>3. FetchTypes' /\ FetchedForKey'
      BY <3>1, <3>2 DEF FetchInv, FetchTypes, FetchedForKey, Fetch
    <3>4. QED  BY <3>1, <3>3 DEF FetchInv, OneForEffect
  <2>3. ASSUME NEW r \in fetching, Answer(r)
        PROVE  /\ FetchInv'
               /\ data' # data /\ data' # NoData =>
                    data'.key = key /\ (data # NoData /\ hook # "counts" => data'.number > data.number)
    BY <2>3, AnswerInv
  <2>4. CASE (\E r \in fetching : Fail(r)) \/ UNCHANGED fetchVars
    <3>1. /\ fetching' \subseteq fetching /\ UNCHANGED <<hook, key, effect, fetches>>
          /\ data' \in {data, NoData}
      BY <2>4 DEF Fail, fetchVars
    <3>2. FetchTypes' /\ FetchedForKey'
      BY <3>1 DEF FetchInv, FetchTypes, FetchedForKey
    <3>3. OneForEffect'
      BY <3>1 DEF FetchInv, OneForEffect
    <3>4. QED  BY <3>1, <3>2, <3>3 DEF FetchInv
  <2>5. QED  BY <2>1, <2>2, <2>3, <2>4 DEF FetchNext
<1>3. QED  BY <1>1, <1>2, PTL DEF FetchSpec, AnswersAreCurrent

-----------------------------------------------------------------------------
(* StreamHooks: the handlers that are registered are those of the          *)
(* container on screen, and what they keep is bounded.                     *)

StreamInv ==
  /\ target \in Targets \cup {NoTarget} /\ listening = target
  /\ logs \in Seq(Targets) /\ history \in Seq(Targets)
  /\ autoScroll \in BOOLEAN /\ atEnd \in BOOLEAN
  /\ Len(logs) <= LogLines /\ Len(history) <= Samples
  /\ LinesAreOfTarget

\* What a panel keeps is the last of what it was sent, up to a bound.
LEMMA KeptLast ==
  ASSUME NEW line, NEW s \in Seq({line}), NEW bound \in Nat \ {0}, Len(s) <= bound
  PROVE  /\ Append(kept(s, bound), line) \in Seq({line})
         /\ Len(Append(kept(s, bound), line)) <= bound
         /\ Len(s) < bound => Len(Append(kept(s, bound), line)) = Len(s) + 1
<1>1. CASE Len(s) < bound
  BY <1>1 DEF kept
<1>2. CASE ~(Len(s) < bound)
  <2>1. Len(s) \in Nat /\ Len(s) # 0 /\ s # <<>>
    BY <1>2
  <2>2. Tail(s) \in Seq({line}) /\ Len(Tail(s)) = Len(s) - 1
    BY <2>1
  <2>3. /\ Append(Tail(s), line) \in Seq({line})
        /\ Len(Append(Tail(s), line)) = Len(Tail(s)) + 1
    BY <2>2
  <2>4. kept(s, bound) = Tail(s)
    BY <1>2 DEF kept
  <2>5. Len(Append(Tail(s), line)) = Len(s)
    BY <2>1, <2>2, <2>3
  <2>6. QED  BY <1>2, <2>3, <2>4, <2>5
<1>3. QED  BY <1>1, <1>2

\* A sequence of the lines of one container is one whose lines are all that container's.
LEMMA LinesOfOne ==
  ASSUME NEW S, NEW s \in Seq(S), NEW line
  PROVE  (\A n \in DOMAIN s : s[n] = line) <=> s \in Seq({line})
OBVIOUS

\* A line or a sample is taken from the container on screen only.
LEMMA DataInv ==
  ASSUME StreamInv, NEW t \in Targets, LogData(t) \/ StatsData(t) \/ StatsError(t)
  PROVE  /\ StreamInv'
         /\ autoScroll' /\ Len(logs) < LogLines /\ (logs' # logs \/ ~autoScroll) => atEnd'
<1>1. logs \in Seq({target}) /\ history \in Seq({target}) /\ Len(logs) \in Nat
  BY LinesOfOne DEF StreamInv, LinesAreOfTarget
<1>2. CASE LogData(t)
  <2> DEFINE lines == IF takes(t) THEN Append(kept(logs, LogLines), t) ELSE logs
  <2>1. takes(t) => t = target
    BY DEF takes, StreamInv
  <2>2. /\ lines \in Seq({target}) /\ lines \in Seq(Targets) /\ Len(lines) <= LogLines
        /\ Len(logs) < LogLines /\ lines # logs => Len(lines) # Len(logs)
    <3>1. CASE takes(t)
      <4>1. Append(kept(logs, LogLines), t) \in Seq({t})
        BY <1>1, <2>1, <3>1, KeptLast, KeptAssumption DEF StreamInv
      <4>2. /\ Len(Append(kept(logs, LogLines), t)) <= LogLines
            /\ Len(logs) < LogLines => Len(Append(kept(logs, LogLines), t)) = Len(logs) + 1
        BY <1>1, <2>1, <3>1, KeptLast, KeptAssumption DEF StreamInv
      <4>3. Seq({t}) \subseteq Seq(Targets)
        OBVIOUS
      <4>4. QED  BY <1>1, <2>1, <3>1, <4>1, <4>2, <4>3
    <3>2. CASE ~takes(t)
      BY <1>1, <3>2 DEF StreamInv
    <3>3. QED  BY <3>1, <3>2
  <2> HIDE DEF lines
  <2>3. /\ logs' = lines /\ autoScroll' = autoScroll
        /\ atEnd' = IF scrolls(lines, autoScroll) THEN TRUE ELSE atEnd /\ lines = logs
        /\ UNCHANGED <<target, history, current, streamError, listening>>
    BY <1>2 DEF LogData, View, lines
  <2>4. LinesAreOfTarget'
    <3>1. \A n \in DOMAIN lines : lines[n] = target
      BY <2>2, LinesOfOne
    <3>2. QED  BY <2>3, <3>1 DEF StreamInv, LinesAreOfTarget
  <2>5. StreamInv'
    BY <2>2, <2>3, <2>4 DEF StreamInv
  <2>6. QED  BY <2>2, <2>3, <2>5 DEF scrolls
<1>3. CASE StatsData(t)
  <2>1. UNCHANGED <<target, logs, listening, autoScroll, atEnd>>
    BY <1>3 DEF StatsData
  <2>2. CASE takes(t)
    <3>1. t = target /\ current' = t /\ history' = Append(kept(history, Samples), t)
      BY <1>3, <2>2 DEF StatsData, takes, StreamInv
    <3>2. history' \in Seq({t}) /\ Len(history') <= Samples
      BY <1>1, <3>1, KeptLast, KeptAssumption DEF StreamInv
    <3>3. history' \in Seq(Targets) /\ \A n \in DOMAIN history' : history'[n] = target
      BY <3>1, <3>2
    <3>4. StreamInv'
      BY <2>1, <3>1, <3>2, <3>3 DEF StreamInv, LinesAreOfTarget
    <3>5. QED  BY <2>1, <3>4 DEF StreamInv
  <2>3. CASE ~takes(t)
    BY <1>3, <2>1, <2>3 DEF StatsData, StreamInv, LinesAreOfTarget
  <2>4. QED  BY <2>2, <2>3
<1>4. CASE StatsError(t)
  BY <1>4 DEF StatsError, StreamInv, LinesAreOfTarget
<1>5. QED  BY <1>2, <1>3, <1>4

\* The viewer and its buttons change no line but by emptying the log.
LEMMA ViewInv ==
  ASSUME StreamInv, Clear \/ ToggleAutoScroll \/ ScrollUp \/ Reopen \/ UNCHANGED streamVars
  PROVE  /\ StreamInv'
         /\ autoScroll' /\ Len(logs) < LogLines /\ (logs' # logs \/ ~autoScroll) => atEnd'
<1>1. logs \in Seq(Targets) /\ Len(logs) \in Nat /\ LogLines \in Nat
  BY KeptAssumption DEF StreamInv
<1>2. CASE Clear
  <2>1. /\ logs' = <<>> /\ autoScroll' = autoScroll
        /\ atEnd' = IF scrolls(<<>>, autoScroll) THEN TRUE ELSE atEnd /\ <<>> = logs
        /\ UNCHANGED <<target, history, current, streamError, listening>>
    BY <1>2 DEF Clear, View
  <2>2. logs # <<>> => Len(logs) # Len(<<>>)
    BY <1>1
  <2>3. <<>> \in Seq(Targets) /\ Len(<<>>) <= LogLines /\ \A n \in DOMAIN <<>> : <<>>[n] = target
    BY <1>1
  <2>4. StreamInv'
    BY <2>1, <2>3 DEF StreamInv, LinesAreOfTarget
  <2>5. QED  BY <2>1, <2>2, <2>4 DEF scrolls
<1>3. CASE ToggleAutoScroll
  BY <1>3 DEF ToggleAutoScroll, View, scrolls, StreamInv, LinesAreOfTarget
<1>4. CASE ScrollUp \/ Reopen \/ UNCHANGED streamVars
  <2>1. /\ UNCHANGED <<target, logs, history, current, listening>>
        /\ autoScroll' = autoScroll \/ atEnd' = TRUE
        /\ autoScroll' \in BOOLEAN /\ atEnd' \in BOOLEAN
    BY <1>4 DEF ScrollUp, Reopen, streamVars, StreamInv
  <2>2. StreamInv'
    BY <2>1 DEF StreamInv, LinesAreOfTarget
  <2>3. QED  BY <2>1, <2>2
<1>5. QED  BY <1>2, <1>3, <1>4

LEMMA TargetInv ==
  ASSUME StreamInv, NEW t \in Targets, SetTarget(t)
  PROVE  /\ StreamInv'
         /\ autoScroll' /\ Len(logs) < LogLines /\ (logs' # logs \/ ~autoScroll) => atEnd'
<1>1. /\ target' = t /\ listening' = t /\ logs' = <<>> /\ history' = <<>> /\ current' = NoTarget
      /\ atEnd' = (autoScroll \/ atEnd) /\ autoScroll' = autoScroll
  BY DEF SetTarget, Subscribe
<1>2. <<>> \in Seq(Targets) /\ Len(<<>>) <= LogLines /\ Len(<<>>) <= Samples /\ DOMAIN <<>> = {}
  BY KeptAssumption
<1>3. StreamInv'
  BY <1>1, <1>2 DEF StreamInv, LinesAreOfTarget
<1>4. QED  BY <1>1, <1>3 DEF StreamInv

\* A panel shows the lines and samples of its own container only, whatever the socket brings and
\* however often the container changes, for any bounds on what is kept; and while it follows a
\* log that is not full the last line is in view.
THEOREM PanelAlwaysFollows == StreamSpec => PanelFollowsStream
<1>1. StreamInit => StreamInv
  <2>1. <<>> \in Seq(Targets) /\ Len(<<>>) <= LogLines /\ Len(<<>>) <= Samples /\ DOMAIN <<>> = {}
    BY KeptAssumption
  <2>2. QED  BY <2>1 DEF StreamInit, StreamInv, LinesAreOfTarget
<1>2. StreamInv /\ [StreamNext]_streamVars =>
        /\ StreamInv'
        /\ autoScroll' /\ Len(logs) < LogLines /\ (logs' # logs \/ ~autoScroll) => atEnd'
  BY DataInv, ViewInv, TargetInv DEF StreamNext
<1>3. StreamInv => LinesAreOfTarget
  BY DEF StreamInv
<1>4. QED  BY <1>1, <1>2, <1>3, PTL DEF StreamSpec, PanelFollowsStream

-----------------------------------------------------------------------------
(* ResourceActions: what was asked for in a panel closes that panel only,  *)
(* and a draft ends by the save that has its text.                         *)

Drafts  == [base : 1..MaxVersion, text : {"read", "typed"}]
Results == {"sent", "applied", "refused"}

ActionTypes ==
  /\ version \in [Objects -> 0..MaxVersion]
  /\ open \in Objects \cup {NoObject} /\ panel \in Nat
  /\ shown \in 0..MaxVersion /\ reading \in BOOLEAN /\ lateText \in BOOLEAN
  /\ draft \in {NoObject} \cup Drafts
  /\ running \subseteq [action : Questions \cup {"scale"}, of : Objects, panel : Nat, result : Results]
  /\ saves \subseteq [of : Objects, panel : Nat, draft : Drafts, result : Results]

\* Without a panel there is no question, nothing read and nothing edited.
ClosedIsEmpty == open = NoObject => asking = {} /\ shown = 0 /\ ~reading /\ draft = NoObject

\* What runs was asked for in this panel, about its object, or in an earlier one.
RunsOfPanels == \A r \in running : r.panel <= panel /\ (r.panel = panel /\ open # NoObject => r.of = open)

\* The cluster brings no object back.
DeletedIsGone == \A r \in running : r.action = "delete" /\ r.result = "applied" => version[r.of] = 0

\* While a panel is saving there is one save of it, the draft is there, and nothing was typed
\* into it since unless lateText says so.
SavesOfPanels ==
  \A s \in saves :
    /\ s.panel <= panel
    /\ s.panel = panel /\ open # NoObject =>
         /\ draft # NoObject
         /\ lateText \/ s.draft.text = draft.text
         /\ \A t \in saves : t.panel = panel => t = s

ActionsInv == ActionTypes /\ ClosedIsEmpty /\ RunsOfPanels /\ DeletedIsGone /\ SavesOfPanels

\* What ClosesOwnPanel and NoLostEdit ask of a step.
ClosesOwn ==
  running' # running /\ open # NoObject /\ open' = NoObject =>
    \E r \in running \ running' :
      r.action = "delete" /\ version[r.of] = 0 /\ (r.of = open \/ r.panel # panel)

LosesNothing ==
  saves' # saves /\ draft # NoObject /\ draft' = NoObject =>
    lateText \/ \E s \in saves \ saves' : s.result = "applied" /\ s.draft.text = draft.text

LEMMA MountInv ==
  ASSUME ActionsInv, NEW o \in Objects \cup {NoObject}, Mount(o), UNCHANGED <<version, saves>>,
         running' \subseteq running,
         \/ panel' = panel + 1
         \/ panel' = panel /\ o = NoObject
  PROVE  ActionsInv'
<1>1. /\ open' = o /\ shown' = 0 /\ reading' = (o # NoObject) /\ asking' = {}
      /\ draft' = NoObject /\ lateText' = FALSE
  BY DEF Mount
<1>2. 0 \in 0..MaxVersion /\ panel \in Nat /\ panel' \in Nat
  BY MaxVersionAssumption DEF ActionsInv, ActionTypes
<1>3. ActionTypes' /\ ClosedIsEmpty'
  BY <1>1, <1>2 DEF ActionsInv, ActionTypes, ClosedIsEmpty
<1>4. \A r \in running : r.panel \in Nat /\ r.panel <= panel
  BY DEF ActionsInv, ActionTypes, RunsOfPanels
<1>5. \A r \in saves : r.panel \in Nat /\ r.panel <= panel
  BY DEF ActionsInv, ActionTypes, SavesOfPanels
<1>6. RunsOfPanels'
  BY <1>1, <1>2, <1>4 DEF RunsOfPanels
<1>7. SavesOfPanels'
  BY <1>1, <1>2, <1>5 DEF SavesOfPanels
<1>8. DeletedIsGone'
  BY DEF ActionsInv, DeletedIsGone
<1>9. QED  BY <1>3, <1>6, <1>7, <1>8 DEF ActionsInv

\* Reading, asking, and what somebody else does.
LEMMA AskedInv ==
  ASSUME ActionsInv,
         \/ Read
         \/ \E o \in Objects : Change(o)
         \/ \E a \in Questions : ask(a) \/ cancel(a)
         \/ UNCHANGED actionVars
  PROVE  ActionsInv' /\ ClosesOwn /\ LosesNothing
<1>1. UNCHANGED <<open, panel, running, draft, lateText, saves>>
  BY DEF Read, Change, ask, cancel, actionVars, objectVars, controlVars, editorVars
<1>2. ASSUME Read PROVE ActionTypes' /\ ClosedIsEmpty' /\ DeletedIsGone'
  <2>1. open \in Objects
    BY <1>2 DEF Read, ActionsInv, ActionTypes, ClosedIsEmpty
  <2>2. version' = version /\ asking' = asking /\ shown' \in 0..MaxVersion /\ reading' = FALSE
    BY <1>2, <2>1 DEF Read, controlVars, ActionsInv, ActionTypes
  <2>3. open # NoObject
    BY <1>2 DEF Read, ActionsInv, ClosedIsEmpty
  <2>4. QED  BY <1>1, <2>2, <2>3 DEF ActionsInv, ActionTypes, ClosedIsEmpty, DeletedIsGone
<1>3. ASSUME NEW o \in Objects, Change(o) PROVE ActionTypes' /\ ClosedIsEmpty' /\ DeletedIsGone'
  <2>1. /\ version[o] # 0 /\ version' = [version EXCEPT ![o] = @ + 1]
        /\ version[o] \in Nat /\ version[o] + 1 \in 0..MaxVersion
        /\ UNCHANGED <<shown, reading, asking>>
    BY <1>3, MaxVersionAssumption DEF Change, objectVars, controlVars, ActionsInv, ActionTypes
  <2>2. ActionTypes'
    BY <1>1, <2>1 DEF ActionsInv, ActionTypes
  <2>3. DeletedIsGone'
    BY <1>1, <2>1 DEF ActionsInv, ActionTypes, DeletedIsGone
  <2>4. QED  BY <1>1, <2>1, <2>2, <2>3 DEF ActionsInv, ClosedIsEmpty
<1>4. ASSUME (\E a \in Questions : ask(a) \/ cancel(a)) \/ UNCHANGED actionVars
      PROVE  ActionTypes' /\ ClosedIsEmpty' /\ DeletedIsGone'
  <2>1. UNCHANGED <<version, shown, reading>> /\ (open = NoObject => asking' = {})
    BY <1>4 DEF ask, cancel, actionVars, objectVars, controlVars, ActionsInv, ClosedIsEmpty
  <2>2. QED  BY <1>1, <2>1 DEF ActionsInv, ActionTypes, ClosedIsEmpty, DeletedIsGone
<1>5. RunsOfPanels' /\ SavesOfPanels'
  BY <1>1 DEF ActionsInv, RunsOfPanels, SavesOfPanels
<1>6. ClosesOwn /\ LosesNothing
  BY <1>1 DEF ClosesOwn, LosesNothing
<1>7. QED  BY <1>2, <1>3, <1>4, <1>5, <1>6 DEF ActionsInv

LEMMA RunInv ==
  ASSUME ActionsInv, NEW a \in Questions \cup {"scale"}, run(a), asking' \subseteq asking, open # NoObject
  PROVE  ActionsInv' /\ ClosesOwn /\ LosesNothing
<1> DEFINE r == [action |-> a, of |-> open, panel |-> panel, result |-> "sent"]
<1>1. /\ running' = running \cup {r}
      /\ UNCHANGED <<version, open, panel, shown, reading, draft, lateText, saves>>
  BY DEF run, objectVars, editorVars
<1>2. r \in [action : Questions \cup {"scale"}, of : Objects, panel : Nat, result : Results]
  BY DEF ActionsInv, ActionTypes, Results
<1>3. ActionTypes' /\ ClosedIsEmpty'
  BY <1>1, <1>2 DEF ActionsInv, ActionTypes, ClosedIsEmpty
<1>4. RunsOfPanels' /\ DeletedIsGone'
  BY <1>1 DEF ActionsInv, ActionTypes, RunsOfPanels, DeletedIsGone
<1>5. SavesOfPanels' /\ ClosesOwn /\ LosesNothing
  BY <1>1 DEF ActionsInv, SavesOfPanels, ClosesOwn, LosesNothing
<1>6. QED  BY <1>3, <1>4, <1>5 DEF ActionsInv

LEMMA PerformInv ==
  ASSUME ActionsInv, NEW r \in running, Perform(r)
  PROVE  ActionsInv' /\ ClosesOwn /\ LosesNothing
<1>1. UNCHANGED <<open, panel, shown, reading, asking, draft, lateText, saves>>
  BY DEF Perform, objectVars, controlVars, editorVars
<1>2. r \in [action : Questions \cup {"scale"}, of : Objects, panel : Nat, result : Results]
  BY DEF ActionsInv, ActionTypes
<1>3. PICK result \in {"applied", "refused"} :
        /\ running' = (running \ {r}) \cup {[r EXCEPT !.result = result]}
        /\ IF result = "refused" THEN UNCHANGED version
           ELSE /\ version[r.of] \in 1..(IF r.action = "delete" THEN MaxVersion ELSE MaxVersion - 1)
                /\ version' = [version EXCEPT ![r.of] = IF r.action = "delete" THEN 0 ELSE @ + 1]
  BY DEF Perform
<1> DEFINE done == [r EXCEPT !.result = result]
<1>4. /\ done \in [action : Questions \cup {"scale"}, of : Objects, panel : Nat, result : Results]
      /\ done.action = r.action /\ done.of = r.of /\ done.panel = r.panel /\ done.result = result
  BY <1>2 DEF Results
<1> HIDE DEF done
<1>5. \/ version' = version
      \/ /\ version[r.of] # 0
         /\ \E n \in 0..MaxVersion : version' = [version EXCEPT ![r.of] = n] /\ (r.action = "delete" => n = 0)
  <2>1. CASE r.action = "delete"
    BY <1>3, <2>1, MaxVersionAssumption
  <2>2. CASE r.action # "delete"
    <3>1. version[r.of] \in 1..(MaxVersion - 1) => version[r.of] + 1 \in 0..MaxVersion /\ version[r.of] # 0
      BY MaxVersionAssumption
    <3>2. QED  BY <1>3, <2>2, <3>1
  <2>3. QED  BY <2>1, <2>2
<1>6. ActionTypes'
  BY <1>1, <1>2, <1>3, <1>4, <1>5 DEF done, ActionsInv, ActionTypes
<1>7. DeletedIsGone'
  <2>1. \A n \in Objects : version[n] = 0 => version'[n] = 0
    BY <1>2, <1>5 DEF ActionsInv, ActionTypes
  <2>2. r.action = "delete" /\ result = "applied" => version'[r.of] = 0
    BY <1>2, <1>3 DEF ActionsInv, ActionTypes
  <2>3. \A q \in running : q.of \in Objects
    BY DEF ActionsInv, ActionTypes
  <2>4. QED  BY <1>3, <1>4, <2>1, <2>2, <2>3 DEF done, ActionsInv, DeletedIsGone
<1>8. RunsOfPanels'
  BY <1>1, <1>3, <1>4 DEF done, ActionsInv, RunsOfPanels
<1>9. ClosedIsEmpty' /\ SavesOfPanels' /\ ClosesOwn /\ LosesNothing
  BY <1>1 DEF ActionsInv, ClosedIsEmpty, SavesOfPanels, ClosesOwn, LosesNothing
<1>10. QED  BY <1>6, <1>7, <1>8, <1>9 DEF ActionsInv

LEMMA ActionAnswerInv ==
  ASSUME ActionsInv, NEW r \in running, NEW told \in Told(r), ActionAnswer(r, told)
  PROVE  ActionsInv' /\ ClosesOwn /\ LosesNothing
<1>1. running' = running \ {r} /\ UNCHANGED <<version, saves>> /\ r.result # "sent"
  BY DEF ActionAnswer
<1>2. LosesNothing
  BY <1>1 DEF LosesNothing
<1>3. CASE Closes(r, told) /\ open # NoObject
  <2>1. Mount(NoObject) /\ panel' = panel
    BY <1>3 DEF ActionAnswer
  <2>2. r.action = "delete" /\ r.result = "applied"
    BY <1>3 DEF Closes, Told
  <2>3. version[r.of] = 0 /\ (r.of = open \/ r.panel # panel)
    BY <1>3, <2>2 DEF ActionsInv, DeletedIsGone, RunsOfPanels
  <2>4. ClosesOwn
    BY <1>1, <2>2, <2>3 DEF ClosesOwn
  <2>5. QED  BY <1>1, <1>2, <2>1, <2>4, MountInv
<1>4. CASE ~(Closes(r, told) /\ open # NoObject)
  <2>1. /\ UNCHANGED <<open, panel, shown, asking, draft, lateText>>
        /\ reading' \in BOOLEAN /\ (open = NoObject => reading' = reading)
    BY <1>4 DEF ActionAnswer, editorVars, ActionsInv, ActionTypes
  <2>2. ActionTypes' /\ ClosedIsEmpty'
    BY <1>1, <2>1 DEF ActionsInv, ActionTypes, ClosedIsEmpty
  <2>3. RunsOfPanels' /\ DeletedIsGone' /\ SavesOfPanels'
    BY <1>1, <2>1 DEF ActionsInv, RunsOfPanels, DeletedIsGone, SavesOfPanels
  <2>4. ClosesOwn
    BY <2>1 DEF ClosesOwn
  <2>5. QED  BY <1>2, <2>2, <2>3, <2>4 DEF ActionsInv
<1>5. QED  BY <1>3, <1>4

LEMMA EditorInv ==
  ASSUME ActionsInv, startDraft \/ cancelDraft \/ setDraft("typed")
  PROVE  ActionsInv' /\ ClosesOwn /\ LosesNothing
<1>1. /\ UNCHANGED <<version, open, panel, shown, reading, asking, running, saves>>
      /\ lateText' \in BOOLEAN
  BY DEF startDraft, cancelDraft, setDraft, objectVars, controlVars, ActionsInv, ActionTypes
<1>2. ClosesOwn /\ LosesNothing
  BY <1>1 DEF ClosesOwn, LosesNothing
<1>3. RunsOfPanels' /\ DeletedIsGone'
  BY <1>1 DEF ActionsInv, RunsOfPanels, DeletedIsGone
<1>4. /\ draft' \in {NoObject} \cup Drafts
      /\ open = NoObject => draft' = NoObject
  <2>1. CASE startDraft
    BY <2>1 DEF startDraft, Drafts, ActionsInv, ActionTypes, ClosedIsEmpty
  <2>2. CASE cancelDraft
    BY <2>2 DEF cancelDraft
  <2>3. CASE setDraft("typed")
    BY <2>3 DEF setDraft, Drafts, ActionsInv, ActionTypes, ClosedIsEmpty
  <2>4. QED  BY <2>1, <2>2, <2>3
<1>5. ActionTypes' /\ ClosedIsEmpty'
  BY <1>1, <1>4 DEF ActionsInv, ActionTypes, ClosedIsEmpty
<1>6. SavesOfPanels'
  <2>1. ASSUME NEW s \in saves, s.panel = panel, open # NoObject
        PROVE  draft' # NoObject /\ lateText'
    <3>1. savingDraft /\ draft # NoObject /\ draft \in Drafts
      BY <2>1 DEF savingDraft, ActionsInv, ActionTypes, SavesOfPanels
    <3>2. setDraft("typed")
      BY <3>1 DEF startDraft, cancelDraft
    <3>3. draft' \in Drafts /\ lateText'
      BY <3>1, <3>2 DEF setDraft, Drafts
    <3>4. QED  BY <3>3, NoObjectAssumption DEF Drafts
  <2>2. QED  BY <1>1, <2>1 DEF ActionsInv, SavesOfPanels
<1>7. QED  BY <1>2, <1>3, <1>5, <1>6 DEF ActionsInv

LEMMA DraftSavedInv ==
  ASSUME ActionsInv, save
  PROVE  ActionsInv' /\ ClosesOwn /\ LosesNothing
<1> DEFINE s == [of |-> open, panel |-> panel, draft |-> draft, result |-> "sent"]
<1>1. /\ draft # NoObject /\ ~savingDraft /\ saves' = saves \cup {s} /\ lateText' = FALSE
      /\ UNCHANGED <<version, open, panel, shown, reading, asking, running, draft>>
  BY DEF save, objectVars, controlVars
<1>2. open # NoObject /\ s \in [of : Objects, panel : Nat, draft : Drafts, result : Results]
  BY <1>1 DEF ActionsInv, ActionTypes, ClosedIsEmpty, Results
<1>3. ActionTypes' /\ ClosedIsEmpty' /\ RunsOfPanels' /\ DeletedIsGone'
  <2>1. ActionTypes'
    BY <1>1, <1>2 DEF ActionsInv, ActionTypes
  <2>2. QED  BY <1>1, <2>1 DEF ActionsInv, ClosedIsEmpty, RunsOfPanels, DeletedIsGone
<1>4. SavesOfPanels'
  <2>1. \A t \in saves : t.panel # panel /\ t.panel <= panel
    BY <1>1 DEF savingDraft, ActionsInv, SavesOfPanels
  <2>2. s.panel = panel /\ s.draft = draft /\ panel <= panel
    BY DEF ActionsInv, ActionTypes
  <2> HIDE DEF s
  <2>3. QED  BY <1>1, <2>1, <2>2 DEF SavesOfPanels
<1>5. ClosesOwn /\ LosesNothing
  BY <1>1 DEF ClosesOwn, LosesNothing
<1>6. QED  BY <1>3, <1>4, <1>5 DEF ActionsInv

LEMMA UpdateInv ==
  ASSUME ActionsInv, NEW s \in saves, Update(s)
  PROVE  ActionsInv' /\ ClosesOwn /\ LosesNothing
<1>1. UNCHANGED <<open, panel, shown, reading, asking, running, draft, lateText>>
  BY DEF Update, objectVars, controlVars, editorVars
<1>2. s \in [of : Objects, panel : Nat, draft : Drafts, result : Results]
  BY DEF ActionsInv, ActionTypes
<1>3. PICK result \in {"applied", "refused"} :
        /\ saves' = (saves \ {s}) \cup {[s EXCEPT !.result = result]}
        /\ IF result = "refused" THEN UNCHANGED version
           ELSE /\ version[s.of] = s.draft.base /\ version[s.of] < MaxVersion
                /\ version' = [version EXCEPT ![s.of] = @ + 1]
  BY DEF Update
<1> DEFINE done == [s EXCEPT !.result = result]
<1>4. /\ done \in [of : Objects, panel : Nat, draft : Drafts, result : Results]
      /\ done.panel = s.panel /\ done.draft = s.draft
  BY <1>2 DEF Results
<1> HIDE DEF done
<1>5. \/ version' = version
      \/ /\ version[s.of] # 0
         /\ \E n \in 0..MaxVersion : version' = [version EXCEPT ![s.of] = n]
  <2>1. s.draft.base \in 1..MaxVersion /\ s.of \in Objects
    BY <1>2 DEF Drafts
  <2>2. version[s.of] \in 1..MaxVersion /\ version[s.of] < MaxVersion =>
          version[s.of] + 1 \in 0..MaxVersion /\ version[s.of] # 0
    BY MaxVersionAssumption
  <2>3. QED  BY <1>3, <2>1, <2>2
<1>6. ActionTypes'
  BY <1>1, <1>2, <1>3, <1>4, <1>5 DEF done, ActionsInv, ActionTypes
<1>7. DeletedIsGone'
  <2>1. \A n \in Objects : version[n] = 0 => version'[n] = 0
    BY <1>2, <1>5 DEF ActionsInv, ActionTypes
  <2>2. \A r \in running : r.of \in Objects
    BY DEF ActionsInv, ActionTypes
  <2>3. QED  BY <1>1, <2>1, <2>2 DEF ActionsInv, DeletedIsGone
<1>8. SavesOfPanels'
  BY <1>1, <1>3, <1>4 DEF done, ActionsInv, SavesOfPanels
<1>9. ClosedIsEmpty' /\ RunsOfPanels' /\ ClosesOwn /\ LosesNothing
  BY <1>1 DEF ActionsInv, ClosedIsEmpty, RunsOfPanels, ClosesOwn, LosesNothing
<1>10. QED  BY <1>6, <1>7, <1>8, <1>9 DEF ActionsInv

LEMMA SaveAnswerInv ==
  ASSUME ActionsInv, NEW s \in saves, NEW told \in Told(s), SaveAnswer(s, told)
  PROVE  ActionsInv' /\ ClosesOwn /\ LosesNothing
<1>1. /\ saves' = saves \ {s} /\ s.result # "sent"
      /\ UNCHANGED <<version, open, panel, shown, asking, running, lateText>>
  BY DEF SaveAnswer, controlVars
<1>2. ClosesOwn
  BY <1>1 DEF ClosesOwn
<1>3. /\ draft' \in {draft, NoObject} /\ reading' \in BOOLEAN
      /\ open = NoObject => draft' = draft /\ reading' = reading
      /\ draft' # draft => s.panel = panel /\ open # NoObject /\ told = "applied"
  BY DEF SaveAnswer, EndsEditing, ActionsInv, ActionTypes
<1>4. ActionTypes' /\ ClosedIsEmpty' /\ RunsOfPanels' /\ DeletedIsGone'
  <2>1. ActionTypes'
    BY <1>1, <1>3 DEF ActionsInv, ActionTypes
  <2>2. QED  BY <1>1, <1>3, <2>1 DEF ActionsInv, ClosedIsEmpty, RunsOfPanels, DeletedIsGone
<1>5. SavesOfPanels'
  <2>1. CASE draft' = draft
    BY <1>1, <2>1 DEF ActionsInv, SavesOfPanels
  <2>2. CASE draft' # draft
    <3>1. \A t \in saves' : t.panel # panel
      BY <1>1, <1>3, <2>2 DEF ActionsInv, SavesOfPanels
    <3>2. QED  BY <1>1, <3>1 DEF ActionsInv, SavesOfPanels
  <2>3. QED  BY <2>1, <2>2
<1>6. LosesNothing
  <2>1. SUFFICES ASSUME draft # NoObject, draft' = NoObject, ~lateText
                 PROVE  s.result = "applied" /\ s.draft.text = draft.text
    BY <1>1 DEF LosesNothing
  <2>2. s.panel = panel /\ open # NoObject /\ told = "applied"
    BY <1>3, <2>1
  <2>3. QED  BY <2>1, <2>2 DEF Told, ActionsInv, SavesOfPanels
<1>7. QED  BY <1>2, <1>4, <1>5, <1>6 DEF ActionsInv

LEMMA ActionsStep ==
  ASSUME ActionsInv, [ActionsNext]_actionVars
  PROVE  ActionsInv' /\ ClosesOwn /\ LosesNothing
<1>1. ASSUME NEW o \in Objects \cup {NoObject}, Select(o) PROVE ActionsInv' /\ ClosesOwn /\ LosesNothing
  <2>1. Mount(o) /\ panel' = panel + 1 /\ UNCHANGED <<version, running, saves>>
    BY <1>1 DEF Select
  <2>2. QED  BY <2>1, MountInv DEF ClosesOwn, LosesNothing
<1>2. ASSUME NEW a \in Questions, confirm(a) PROVE ActionsInv' /\ ClosesOwn /\ LosesNothing
  <2>1. run(a) /\ asking' \subseteq asking /\ open # NoObject
    BY <1>2 DEF confirm, ActionsInv, ClosedIsEmpty
  <2>2. QED  BY <2>1, RunInv
<1>3. CASE applyScale
  <2>1. run("scale") /\ asking' \subseteq asking /\ open # NoObject
    BY <1>3 DEF applyScale, ActionsInv, ClosedIsEmpty
  <2>2. QED  BY <2>1, RunInv
<1>4. CASE \E r \in running : Perform(r) \/ \E told \in Told(r) : ActionAnswer(r, told)
  BY <1>4, PerformInv, ActionAnswerInv
<1>5. CASE startDraft \/ cancelDraft \/ save \/ setDraft("typed")
  BY <1>5, EditorInv, DraftSavedInv
<1>6. CASE \E s \in saves : Update(s) \/ \E told \in Told(s) : SaveAnswer(s, told)
  BY <1>6, UpdateInv, SaveAnswerInv
<1>7. CASE \/ Read \/ \E o \in Objects : Change(o)
           \/ \E a \in Questions : ask(a) \/ cancel(a)
           \/ UNCHANGED actionVars
  BY <1>7, AskedInv
<1>8. QED  BY <1>1, <1>2, <1>3, <1>4, <1>5, <1>6, <1>7 DEF ActionsNext

THEOREM ActionsInvariant == ActionsSpec => []ActionsInv
<1>1. ActionsInit => ActionsInv
  <2> SUFFICES ASSUME ActionsInit PROVE ActionsInv
    OBVIOUS
  <2>1. version \in [Objects -> 0..MaxVersion] /\ 0 \in 0..MaxVersion
    <3>1. 0 \in 0..MaxVersion /\ 1 \in 0..MaxVersion
      BY MaxVersionAssumption
    <3>2. QED  BY <3>1 DEF ActionsInit
  <2>2. ActionTypes
    BY <2>1 DEF ActionsInit, ActionTypes
  <2>3. QED  BY <2>2 DEF ActionsInit, ActionsInv, ClosedIsEmpty, RunsOfPanels, DeletedIsGone, SavesOfPanels
<1>2. ActionsInv /\ [ActionsNext]_actionVars => ActionsInv'
  BY ActionsStep
<1>3. QED  BY <1>1, <1>2, PTL DEF ActionsSpec

\* A panel closes by itself only when an object was deleted, its own unless the user had opened
\* another one by then, for any number of panels, objects and actions under way and whether
\* answers arrive or are lost: onDeleted runs after a deletion that succeeded only.
THEOREM PanelClosesOwn == ActionsSpec => ClosesOwnPanel
<1>1. ActionsInv /\ [ActionsNext]_actionVars => [ClosesOwn]_actionVars
  BY ActionsStep
<1>2. QED  BY <1>1, ActionsInvariant, PTL DEF ActionsSpec, ClosesOwnPanel, ClosesOwn

\* What the user typed into a manifest is lost to no answer, of any panel's saves: a draft ends
\* by the save that was applied with its text, unless something was typed while it was saved.
THEOREM EditNeverLost == ActionsSpec => NoLostEdit
<1>1. ActionsInv /\ [ActionsNext]_actionVars => [LosesNothing]_actionVars
  BY ActionsStep
<1>2. QED  BY <1>1, ActionsInvariant, PTL DEF ActionsSpec, NoLostEdit, LosesNothing

=============================================================================
