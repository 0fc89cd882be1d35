------------------------- MODULE KubeDashboardProofs -------------------------
(***************************************************************************)
(* Proofs about KubeDashboard, for any cluster, any graphs and any bounds. *)
(***************************************************************************)
EXTENDS KubeDashboard, SequenceTheorems, TLAPS

-----------------------------------------------------------------------------
(* The moves of the user write the hash and leave the screen alone. *)

LEMMA MoveKeepsRoute ==
  ASSUME NEW n, drill(n)
  PROVE  route' = route
BY DEF drill, Deeper, navigate, WriteHash

LEMMA BackKeepsRoute ==
  ASSUME back
  PROVE  route' = route
BY DEF back, goTo, navigate, WriteHash

LEMMA LeaveKeepsRoute ==
  ASSUME Leave \/ submitCommand
  PROVE  route' = route
BY DEF Leave, submitCommand, setRoot, goTo, setNamespace, FollowLink, navigate, WriteHash

-----------------------------------------------------------------------------

LEMMA OpenStep ==
  ASSUME NEW n, open(n)
  PROVE  /\ route' = route
         /\ \/ \E q : Choose(n, q, Source(route)) /\ expanded' = expanded
            \/ UNCHANGED <<panelVars, expanded>>
            \/ handleSelect(n, Source(route))
<1>1. CASE n.kind = "Container" /\ UNCHANGED navigationVars
  BY <1>1 DEF open, navigationVars
<1>2. CASE n.kind # "Container"
  BY <1>2, MoveKeepsRoute DEF open, navigationVars
<1> QED  BY <1>1, <1>2 DEF open

\* The page is expanded only over a panel.
LEMMA BlankStep ==
  ASSUME NeverBlank, [Next]_vars
  PROVE  NeverBlank'
<1> USE DEF NeverBlank
<1>1. ASSUME NEW n, NEW screen, handleSelect(n, screen)
      PROVE  NeverBlank'
  BY <1>1 DEF handleSelect, Choose, Commit
<1>2. CASE Follow
  BY <1>2 DEF Follow
<1>3. CASE FollowSame
  BY <1>3 DEF FollowSame, panelVars
<1>4. CASE TopologyAnswer \/ ObjectsAnswer
  BY <1>4 DEF TopologyAnswer, ObjectsAnswer, panelVars
<1>5. CASE Canvas
  <2>1. CASE Click
    BY <2>1, <1>1 DEF Click, Toggle, panelVars
  <2>2. CASE ClickTimer
    BY <2>2, <1>1 DEF ClickTimer, Toggle
  <2>3. CASE DoubleClick
    <3> PICK n \in Visible : open(n)
      BY <2>3 DEF DoubleClick
    <3>1. ~expanded
      BY <2>3 DEF DoubleClick, CanvasShown
    <3> QED  BY <3>1, <1>1, OpenStep DEF panelVars
  <2>4. CASE Background
    BY <2>4, <1>1 DEF Background, handleClose
  <2> QED  BY <1>5, <2>1, <2>2, <2>3, <2>4 DEF Canvas
<1>6. CASE Row
  BY <1>6, <1>1 DEF Row, Toggle
<1>7. CASE Hotkeys
  <2>1. CASE Enter
    <3>1. selected # NoNode /\ open(selected)
      BY <2>1 DEF Enter
    <3>2. ASSUME NEW q, Choose(selected, q, Source(route)) PROVE selected' = selected
      BY <3>2 DEF Choose, Commit
    <3> QED  BY <3>1, <3>2, <1>1, OpenStep DEF panelVars
  <2>2. CASE Escape
    BY <2>2, <1>1 DEF Escape, handleClose, panelVars
  <2>3. CASE Backspace
    BY <2>3 DEF Backspace, panelVars
  <2>4. CASE Move
    BY <2>4, <1>1 DEF Move, moveSelection
  <2>5. CASE PanelKey
    BY <2>5 DEF PanelKey, Commit
  <2> QED  BY <1>7, <2>1, <2>2, <2>3, <2>4, <2>5 DEF Hotkeys
<1>8. CASE Panel
  BY <1>8, <1>1 DEF Panel, SetTab, ToggleExpand, Close, OpenButton, handleClose, panelVars
<1>9. CASE Chrome
  BY <1>9 DEF Chrome, Leave, submitCommand, Redraw, panelVars
<1>10. CASE UNCHANGED vars
  BY <1>10 DEF vars, panelVars
<1> QED
  BY <1>2, <1>3, <1>4, <1>5, <1>6, <1>7, <1>8, <1>9, <1>10 DEF Next

\* KubeDashboard.tsx: whatever the user does and whatever answers come, the page never
\* shows neither the canvas nor a panel.
THEOREM PageNeverBlank == Spec => []NeverBlank
<1>1. Init => NeverBlank
  BY DEF Init, NeverBlank
<1>2. NeverBlank /\ [Next]_vars => NeverBlank'
  BY BlankStep
<1> QED  BY <1>1, <1>2, PTL DEF Spec

-----------------------------------------------------------------------------
(* The panel shows a node of the view in the URL, and the tab asked for. *)

\* A click that waits was made on the view on screen.
ClickIsOfView == click # NoClick => click.screen = Source(route)

SelectionInv == SelectionIsOfView /\ ClickIsOfView

LEMMA SelectionStep ==
  ASSUME SelectionInv, [Next]_vars
  PROVE  SelectionInv'
<1> USE DEF SelectionInv, SelectionIsOfView, ClickIsOfView
<1>1. ASSUME NEW n, NEW q, Choose(n, q, Source(route)), route' = route
      PROVE  SelectionIsOfView'
  BY <1>1 DEF Choose, Commit
<1>2. ASSUME NEW n, handleSelect(n, Source(route)), route' = route
      PROVE  SelectionIsOfView'
  BY <1>1, <1>2 DEF handleSelect
<1>3. CASE Follow
  <2> DEFINE fresh == /\ Listing(route) \/ Listing(route')
                      /\ Graph(route') # NoGraph
                      /\ selected \in Graph(route').nodes
  <2>1. selected' = (IF fresh THEN selected ELSE NoNode)
    BY <1>3 DEF Follow, Commit
  <2>2. carried' = (fresh /\ (carried \/ Source(route') # origin))
    BY <1>3 DEF Follow
  <2>3. origin' = origin /\ click' = NoClick
    BY <1>3 DEF Follow, Redrawn
  <2> QED  BY <2>1, <2>2, <2>3
<1>4. CASE FollowSame
  BY <1>4 DEF FollowSame, panelVars
<1>5. CASE TopologyAnswer \/ ObjectsAnswer
  BY <1>5 DEF TopologyAnswer, ObjectsAnswer, Redrawn, panelVars, navigationVars
<1>6. CASE Canvas
  <2>1. CASE Click
    BY <2>1, <1>2 DEF Click, Toggle, panelVars, navigationVars
  <2>2. CASE ClickTimer
    BY <2>2, <1>2 DEF ClickTimer, Toggle, navigationVars
  <2>3. CASE DoubleClick
    BY <2>3, <1>1, <1>2, OpenStep DEF DoubleClick, panelVars
  <2>4. CASE Background
    BY <2>4, <1>2 DEF Background, handleClose, navigationVars
  <2> QED  BY <1>6, <2>1, <2>2, <2>3, <2>4 DEF Canvas
<1>7. CASE Row
  BY <1>7, <1>2 DEF Row, Toggle, navigationVars
<1>8. CASE Hotkeys
  <2>1. CASE Enter
    BY <2>1, <1>1, <1>2, OpenStep DEF Enter, panelVars
  <2>2. CASE Escape
    BY <2>2, <1>2, BackKeepsRoute DEF Escape, handleClose, panelVars, navigationVars
  <2>3. CASE Backspace
    BY <2>3, BackKeepsRoute DEF Backspace, panelVars
  <2>4. CASE Move
    BY <2>4, <1>2 DEF Move, moveSelection, navigationVars
  <2>5. CASE PanelKey
    BY <2>5 DEF PanelKey, Commit, navigationVars
  <2> QED  BY <1>8, <2>1, <2>2, <2>3, <2>4, <2>5 DEF Hotkeys
<1>9. CASE Panel
  <2>1. CASE SetTab \/ ToggleExpand
    BY <2>1 DEF SetTab, ToggleExpand, Redrawn, panelVars, navigationVars
  <2>2. CASE Close
    BY <2>2, <1>2 DEF Close, handleClose, navigationVars
  <2>3. CASE OpenButton
    BY <2>3, MoveKeepsRoute DEF OpenButton, panelVars
  <2> QED  BY <1>9, <2>1, <2>2, <2>3 DEF Panel
<1>10. CASE Chrome
  <2>1. CASE Leave \/ submitCommand
    BY <2>1, LeaveKeepsRoute DEF Leave, submitCommand, panelVars
  <2>2. CASE Redraw
    BY <2>2 DEF Redraw, Redrawn, panelVars, navigationVars
  <2> QED  BY <1>10, <2>1, <2>2 DEF Chrome
<1>11. CASE UNCHANGED vars
  BY <1>11 DEF vars, panelVars, navigationVars
<1> QED
  BY <1>3, <1>4, <1>5, <1>6, <1>7, <1>8, <1>9, <1>10, <1>11 DEF Next

\* Requests are numbered, none counting as zero.
RequestsNumbered == seq(request) \in Nat

TabInv == RequestedTabShows /\ RequestsNumbered

\* Whatever is chosen, its panel shows the tab that was asked for.
LEMMA ChooseTab ==
  ASSUME TabInv, NEW n, NEW q, NEW screen, seq(q) \in Nat, Choose(n, q, screen)
  PROVE  TabInv'
<1> DEFINE p == PanelOf(n, route)
<1>1. selected' = n /\ request' = q /\ tab' = TabOf(p, q, Mounts(p, n))
  BY DEF Choose, Commit, Shows
<1>2. want' = IF Asks(p, q) THEN REQUEST_TABS[p][q.action]
              ELSE IF n = selected THEN want ELSE FirstTab[p]
  BY DEF Choose, Wants
<1>3. missed' = (n = selected /\ (missed \/ (q # NoRequest /\ seq(q) = seq(request))))
  BY DEF Choose
<1>4. RequestsNumbered'
  BY <1>1 DEF RequestsNumbered, seq
<1>5. Mounts(p, n) <=> n # selected
  BY DEF Mounts
<1>6. CASE n # selected
  BY <1>1, <1>2, <1>5, <1>6 DEF TabOf, RequestedTabShows, TabInv, RequestsNumbered, seq
<1>7. CASE n = selected
  <2>1. CASE Asks(p, q) /\ seq(q) # seq(request)
    BY <1>1, <1>2, <1>4, <2>1 DEF TabOf, RequestedTabShows, TabInv
  <2>2. CASE Asks(p, q) /\ seq(q) = seq(request)
    BY <1>3, <1>4, <1>7, <2>2 DEF Asks, RequestedTabShows, TabInv
  <2>3. CASE ~Asks(p, q)
    BY <1>1, <1>2, <1>3, <1>4, <1>5, <1>7, <2>3 DEF TabOf, RequestedTabShows, TabInv
  <2> QED  BY <2>1, <2>2, <2>3
<1> QED  BY <1>6, <1>7

LEMMA TabStep ==
  ASSUME TabInv, [Next]_vars
  PROVE  TabInv'
<1>1. seq(NoRequest) \in Nat
  BY DEF seq
<1>2. seq([action |-> "logs", seq |-> 1]) \in Nat
  BY DEF seq
<1>3. ASSUME NEW n, NEW screen, handleSelect(n, screen)
      PROVE  TabInv'
  BY <1>1, <1>3, ChooseTab DEF handleSelect
<1>4. ASSUME UNCHANGED panelVars
      PROVE  TabInv'
  BY <1>4 DEF TabInv, RequestedTabShows, RequestsNumbered, seq, panelVars
<1>5. ASSUME NEW n, open(n)
      PROVE  TabInv'
  <2>1. CASE n.kind = "Container"
    BY <1>2, <1>5, <2>1, ChooseTab DEF open
  <2>2. CASE n.kind # "Container"
    BY <1>3, <1>4, <1>5, <2>2 DEF open
  <2> QED  BY <2>1, <2>2
<1>6. CASE Follow
  BY <1>6 DEF Follow, Commit, TabInv, RequestedTabShows, RequestsNumbered, seq
<1>7. CASE FollowSame \/ TopologyAnswer \/ ObjectsAnswer
  BY <1>4, <1>7 DEF FollowSame, TopologyAnswer, ObjectsAnswer
<1>8. CASE Canvas
  BY <1>3, <1>4, <1>5, <1>8
  DEF Canvas, Click, ClickTimer, DoubleClick, Background, Toggle, handleClose
<1>9. CASE Row
  BY <1>3, <1>9 DEF Row, Toggle
<1>10. CASE Hotkeys
  <2>1. CASE Enter \/ Escape \/ Backspace
    BY <1>3, <1>4, <1>5, <2>1 DEF Enter, Escape, Backspace, handleClose
  <2>2. CASE Move
    BY <1>3, <2>2 DEF Move, moveSelection
  <2>3. CASE PanelKey
    <3> PICK action \in {"logs", "shell", "yaml", "describe"} :
          LET q == [action |-> action, seq |-> seq(request) + 1]
              p == PanelOf(selected, route)
          IN /\ Commit(selected, q, route)
             /\ want' = IF Asks(p, q) THEN REQUEST_TABS[p][action] ELSE want
             /\ missed' = (missed /\ ~Asks(p, q))
      BY <2>3 DEF PanelKey
    <3> DEFINE q == [action |-> action, seq |-> seq(request) + 1]
               p == PanelOf(selected, route)
    <3>1. /\ selected' = selected /\ request' = q
          /\ tab' = TabOf(p, q, Mounts(p, selected))
          /\ want' = IF Asks(p, q) THEN REQUEST_TABS[p][action] ELSE want
          /\ missed' = (missed /\ ~Asks(p, q))
      BY DEF Commit, Shows
    <3>2. ~Mounts(p, selected)
      BY DEF Mounts
    <3>3. q.action = action /\ q.seq = seq(request) + 1
      OBVIOUS
    <3>4. seq(q) \in Nat /\ (q # NoRequest => seq(q) # seq(request))
      BY <3>3 DEF seq, TabInv, RequestsNumbered
    <3>5. RequestsNumbered'
      BY <3>1, <3>4 DEF RequestsNumbered, seq
    <3>6. CASE Asks(p, q)
      <4>1. q # NoRequest
        BY <3>6 DEF Asks
      <4> HIDE DEF q, p
      <4> QED  BY <3>1, <3>3, <3>4, <3>5, <3>6, <4>1 DEF TabOf, TabInv, RequestedTabShows
    <3>7. CASE ~Asks(p, q)
      <4> HIDE DEF q, p
      <4> QED  BY <3>1, <3>2, <3>5, <3>7 DEF TabOf, TabInv, RequestedTabShows
    <3> QED  BY <3>6, <3>7
  <2> QED  BY <1>10, <2>1, <2>2, <2>3 DEF Hotkeys
<1>11. CASE Panel
  <2>1. CASE SetTab
    BY <2>1 DEF SetTab, TabInv, RequestedTabShows, RequestsNumbered, seq
  <2>2. CASE ToggleExpand \/ Close \/ OpenButton
    BY <1>3, <1>4, <2>2 DEF ToggleExpand, Close, OpenButton, handleClose
  <2> QED  BY <1>11, <2>1, <2>2 DEF Panel
<1>12. CASE Chrome
  BY <1>4, <1>12 DEF Chrome, Leave, submitCommand, Redraw
<1>13. CASE UNCHANGED vars
  BY <1>4, <1>13 DEF vars
<1> QED
  BY <1>6, <1>7, <1>8, <1>9, <1>10, <1>11, <1>12, <1>13 DEF Next

\* KubeDashboard.vm.ts: the panel shows a node picked on the view that the URL names, or one
\* that the list brought back; a click delayed on another view's canvas opens nothing.
THEOREM PanelOfView == Spec => []SelectionIsOfView
<1>1. Init => SelectionInv
  BY DEF Init, SelectionInv, SelectionIsOfView, ClickIsOfView
<1>2. SelectionInv /\ [Next]_vars => SelectionInv'
  BY SelectionStep
<1>3. SelectionInv => SelectionIsOfView
  BY DEF SelectionInv
<1> QED  BY <1>1, <1>2, <1>3, PTL DEF Spec

\* PodPanel and ResourcePanel: the tab of the panel is the one asked for last, unless a request
\* had the number of the one before.
THEOREM PanelShowsRequestedTab == Spec => []RequestedTabShows
<1>1. Init => TabInv
  BY DEF Init, TabInv, RequestedTabShows, RequestsNumbered, seq
<1>2. TabInv /\ [Next]_vars => TabInv'
  BY TabStep
<1>3. TabInv => RequestedTabShows
  BY DEF TabInv
<1> QED  BY <1>1, <1>2, <1>3, PTL DEF Spec

-----------------------------------------------------------------------------
(* A route is read back from its hash. *)

CanonicalRoot(root) ==
  root.type = "kind" =>
    kindSegment(root.kind, root.group) \notin {<<w>> : w \in Lenses \cup {"overview"}}

CanonicalDrill(d) ==
  d.level = "object" => d.namespace # NoNamespace /\ ~(d.kind = "Node" /\ d.group = <<>>)

\* What a hash can name.
Canonical(r) ==
  /\ r.namespace # AllNamespaces
  /\ CanonicalRoot(r.root)
  /\ \A i \in 1..Len(r.drills) : CanonicalDrill(r.drills[i])

LEMMA SeqFacts ==
  ASSUME NEW S, NEW s \in Seq(S)
  PROVE  Len(s) \in Nat /\ (s # <<>> <=> Len(s) >= 1) /\ Head(s) = s[1]
<1>1. Len(s) \in Nat
  OBVIOUS
<1>2. s # <<>> <=> Len(s) >= 1
  BY <1>1
<1>3. Head(s) = s[1]
  OBVIOUS
<1> QED  BY <1>1, <1>2, <1>3

LEMMA OneInSeq ==
  ASSUME NEW S, NEW x \in S
  PROVE  <<x>> \in Seq(S) /\ Len(<<x>>) = 1 /\ Head(<<x>>) = x /\ Tail(<<x>>) = <<>> /\ <<x>> # <<>>
OBVIOUS

LEMMA NamedSegments ==
  /\ <<>> \in Segment /\ AllNamespaces \in Segment /\ NoNamespace \in Segment
  /\ AllNamespaces # <<>> /\ NoNamespace # <<>>
  /\ \A w \in Words : <<w>> \in KindSegment
<1>1. <<>> \in Segment
  BY DEF Segment
<1>2. \A w \in Words : <<w>> \in Segment /\ <<w>> # <<>> /\ Tail(<<w>>) = <<>>
  BY OneInSeq DEF Segment
<1>3. <<"">> # <<>>
  BY <1>2
<1>4. "*" \in Words /\ "-" \in Words
  BY WordsAssumption
<1> QED  BY <1>1, <1>2, <1>3, <1>4 DEF KindSegment, Groups, AllNamespaces, NoNamespace

LEMMA CompletedShape ==
  ASSUME NEW h \in Hashes, h # <<>>
  PROVE  /\ Completed(h) \in Seq(Segment) /\ Len(Completed(h)) >= 3
         /\ Completed(h)[1] = h[1]
         /\ Len(h) >= 3 => Completed(h) = h
         /\ Completed(h)[3] \in KindSegment
         /\ \A i \in 1..((Len(Completed(h)) - 3) \div 3) : Completed(h)[3 * i + 1] \in KindSegment
<1> DEFINE rest == SubSeq(<<<<>>, AllNamespaces, <<"overview">>>>, Len(h) + 1, 3)
           pad == <<<<>>, AllNamespaces, <<"overview">>>>
<1>1. h \in Seq(Segment) /\ Len(h) \in Nat /\ Len(h) >= 1
  BY DEF Hashes
<1>2. pad \in Seq(Segment) /\ Len(pad) = 3
  <2>1. <<"overview">> \in Segment
    BY NamedSegments, WordsAssumption DEF KindSegment, Groups
  <2> HIDE DEF Segment
  <2> QED  BY <2>1, NamedSegments
<1>3. rest \in Seq(Segment) /\ Len(rest) = IF Len(h) >= 3 THEN 0 ELSE 3 - Len(h)
  <2> HIDE DEF pad
  <2> QED BY <1>1, <1>2 DEF pad
<1>4. \A i \in 1..Len(rest) : rest[i] = pad[Len(h) + i]
  <2> HIDE DEF pad
  <2> QED BY <1>1, <1>2, <1>3 DEF pad
<1>5. Completed(h) = h \o rest /\ Completed(h) \in Seq(Segment) /\ Len(Completed(h)) = Len(h) + Len(rest)
  <2> HIDE DEF rest
  <2> QED BY <1>1, <1>3 DEF Completed, rest
<1>6. Completed(h)[1] = h[1]
  <2> HIDE DEF rest
  <2> QED BY <1>1, <1>3, <1>5
<1>7. CASE Len(h) >= 3
  <2>1. rest = <<>>
    <3> HIDE DEF rest
    <3> QED BY <1>3, <1>7
  <2>2. Completed(h) = h
    <3> HIDE DEF rest
    <3> QED BY <2>1, <1>1, <1>5
  <2> QED  BY <2>2, <1>1, <1>5, <1>6, <1>7 DEF Hashes
<1>8. CASE Len(h) < 3
  <2>1. Len(Completed(h)) = 3 /\ Completed(h)[3] = rest[3 - Len(h)]
    <3> HIDE DEF rest
    <3> QED BY <1>1, <1>3, <1>5, <1>8
  <2>2. rest[3 - Len(h)] = pad[3]
    <3> HIDE DEF rest, pad
    <3> QED BY <1>1, <1>3, <1>4, <1>8
  <2>3. pad[3] = <<"overview">> /\ <<"overview">> \in KindSegment
    BY NamedSegments, WordsAssumption
  <2> HIDE DEF rest, pad
  <2> QED BY <2>1, <2>2, <2>3, <1>1, <1>5, <1>6, <1>8
<1> QED  BY <1>1, <1>7, <1>8

LEMMA SplitSegment ==
  ASSUME NEW s \in KindSegment
  PROVE  /\ splitKind(s) = Kind(Head(s), Tail(s))
         /\ Head(s) \in Words /\ Tail(s) \in Groups
         /\ kindSegment(Head(s), Tail(s)) = s
<1>1. s \in Seq(Words) /\ s # <<>> /\ Tail(s) # <<"">>
  BY DEF KindSegment, Groups, Segment
<1>2. /\ Head(s) \in Words /\ Tail(s) \in Seq(Words) /\ Len(Tail(s)) = Len(s) - 1
      /\ \A i \in 1..Len(Tail(s)) : Tail(s)[i] = s[i + 1]
  BY <1>1, HeadTailProperties
<1>3. Head(s) = s[1] /\ Len(s) \in Nat /\ Len(s) >= 1
  BY <1>1, SeqFacts
<1>4. <<Head(s)>> \in Seq(Words) /\ Len(<<Head(s)>>) = 1 /\ <<Head(s)>>[1] = Head(s)
  BY <1>2, OneInSeq
<1>5. <<Head(s)>> \o Tail(s) = s
  <2> DEFINE t == <<Head(s)>> \o Tail(s)
  <2>1. /\ t \in Seq(Words) /\ Len(t) = 1 + Len(Tail(s))
        /\ \A i \in 1..1 + Len(Tail(s)) :
             t[i] = IF i <= 1 THEN <<Head(s)>>[i] ELSE Tail(s)[i - 1]
    BY <1>2, <1>4, ConcatProperties
  <2> HIDE DEF t
  <2>2. Len(t) = Len(s) /\ \A i \in 1..Len(t) : t[i] = s[i]
    BY <1>2, <1>3, <1>4, <2>1
  <2>3. t = s
    BY <1>1, <2>1, <2>2, SeqEqual
  <2> QED  BY <2>3 DEF t
<1> QED  BY <1>1, <1>2, <1>5 DEF splitKind, Groups, Segment, kindSegment

LEMMA JoinSegment ==
  ASSUME NEW k \in Words, NEW g \in Groups
  PROVE  /\ kindSegment(k, g) \in KindSegment
         /\ splitKind(kindSegment(k, g)) = Kind(k, g)
<1> DEFINE s == <<k>> \o g
<1>1. g \in Seq(Words) /\ g # <<"">>
  BY DEF Groups, Segment
<1>2. <<k>> \in Seq(Words) /\ Len(<<k>>) = 1 /\ <<k>>[1] = k
  BY OneInSeq
<1>3. /\ s \in Seq(Words) /\ Len(s) = 1 + Len(g)
      /\ \A i \in 1..1 + Len(g) : s[i] = IF i <= 1 THEN <<k>>[i] ELSE g[i - 1]
  BY <1>1, <1>2, ConcatProperties
<1> HIDE DEF s
<1>4. Len(g) \in Nat /\ s # <<>> /\ s[1] = k /\ \A i \in 1..Len(g) : s[i + 1] = g[i]
  <2>1. Len(g) \in Nat
    BY <1>1, SeqFacts
  <2>2. s # <<>>
    BY <1>3, <2>1, SeqFacts
  <2>3. s[1] = k
    BY <1>2, <1>3, <2>1
  <2>4. \A i \in 1..Len(g) : s[i + 1] = g[i]
    BY <1>3, <2>1
  <2> QED  BY <2>1, <2>2, <2>3, <2>4
<1>5. Head(s) = k
  BY <1>3, <1>4, SeqFacts
<1>6. Tail(s) = g
  <2>1. /\ Tail(s) \in Seq(Words) /\ Len(Tail(s)) = Len(s) - 1
        /\ \A i \in 1..Len(Tail(s)) : Tail(s)[i] = s[i + 1]
    BY <1>3, <1>4, HeadTailProperties
  <2>2. Len(Tail(s)) = Len(g) /\ \A i \in 1..Len(Tail(s)) : Tail(s)[i] = g[i]
    BY <1>3, <1>4, <2>1
  <2> QED  BY <1>1, <2>1, <2>2, SeqEqual
<1> QED  BY <1>1, <1>3, <1>4, <1>5, <1>6 DEF KindSegment, Segment, splitKind, kindSegment, s

LEMMA RootShape ==
  ASSUME NEW s \in KindSegment
  PROVE  rootOf(s) \in Roots /\ CanonicalRoot(rootOf(s))
<1>1. CASE s = <<"overview">>
  BY <1>1 DEF rootOf, Overview, Roots, CanonicalRoot
<1>2. ASSUME s # <<"overview">>, NEW l \in Lenses, s = <<l>>
      PROVE  rootOf(s) \in Roots /\ CanonicalRoot(rootOf(s))
  <2>1. Head(s) = l
    BY <1>2, OneInSeq
  <2>2. rootOf(s) = Lens(l)
    BY <1>2, <2>1 DEF rootOf
  <2> QED  BY <2>2 DEF Lens, Roots, CanonicalRoot
<1>3. CASE s # <<"overview">> /\ ~\E l \in Lenses : s = <<l>>
  <2>1. rootOf(s) = Kind(Head(s), Tail(s))
    BY <1>3, SplitSegment DEF rootOf
  <2>2. rootOf(s) \in Roots
    BY <2>1, SplitSegment DEF Kind, Roots
  <2>3. kindSegment(rootOf(s).kind, rootOf(s).group) = s
    BY <2>1, SplitSegment DEF Kind
  <2>4. s \notin {<<w>> : w \in Lenses \cup {"overview"}}
    BY <1>3
  <2> QED  BY <2>2, <2>3, <2>4 DEF CanonicalRoot
<1> QED  BY <1>1, <1>2, <1>3

LEMMA RootBack ==
  ASSUME NEW root \in Roots
  PROVE  /\ rootSegment(root) \in KindSegment
         /\ CanonicalRoot(root) => rootOf(rootSegment(root)) = root
<1>1. CASE root \in [type : {"overview"}]
  <2>1. root = Overview /\ rootSegment(root) = <<"overview">>
    BY <1>1 DEF Overview, rootSegment
  <2> QED  BY <2>1, NamedSegments, WordsAssumption DEF rootOf
<1>2. CASE root \in [type : {"lens"}, lens : Lenses]
  <2>1. root = Lens(root.lens) /\ root.lens \in Lenses /\ rootSegment(root) = <<root.lens>>
    BY <1>2 DEF Lens, rootSegment
  <2>2. root.lens \in Words /\ root.lens # "overview"
    BY <2>1, WordsAssumption DEF Lenses
  <2>3. <<root.lens>> # <<"overview">>
    BY <2>2
  <2>4. Head(<<root.lens>>) = root.lens
    BY <2>2, OneInSeq
  <2> QED  BY <2>1, <2>2, <2>3, <2>4, NamedSegments DEF rootOf
<1>3. CASE root \in [type : {"kind"}, kind : Words, group : Groups]
  <2>1. /\ root = Kind(root.kind, root.group) /\ root.kind \in Words /\ root.group \in Groups
        /\ rootSegment(root) = kindSegment(root.kind, root.group)
    BY <1>3 DEF Kind, rootSegment
  <2>2. root.type = "kind"
    BY <1>3
  <2> QED  BY <2>1, <2>2, JoinSegment DEF rootOf, CanonicalRoot
<1> QED  BY <1>1, <1>2, <1>3 DEF Roots

LEMMA DrillShape ==
  ASSUME NEW s \in KindSegment, NEW ns \in Segment, NEW name \in Segment
  PROVE  drillOf(s, ns, name) \in Drills /\ CanonicalDrill(drillOf(s, ns, name))
<1> DEFINE k == Head(s)
           g == Tail(s)
           in == IF ns = NoNamespace THEN <<>> ELSE ns
<1>1. splitKind(s).kind = k /\ splitKind(s).group = g /\ k \in Words /\ g \in Groups
  BY SplitSegment DEF Kind
<1>2. in \in Segment /\ in # NoNamespace
  BY NamedSegments
<1>3. drillOf(s, ns, name) = IF k = "Node" /\ g = <<>> THEN NodeView(name) ELSE ObjectView(in, k, g, name)
  BY <1>1 DEF drillOf
<1> HIDE DEF k, g, in
<1> QED  BY <1>1, <1>2, <1>3 DEF NodeView, ObjectView, Drills, CanonicalDrill

LEMMA DrillBack ==
  ASSUME NEW d \in Drills
  PROVE  /\ Segments(d)[1] \in KindSegment
         /\ Segments(d)[2] \in Segment
         /\ Segments(d)[3] \in Segment
         /\ CanonicalDrill(d) => drillOf(Segments(d)[1], Segments(d)[2], Segments(d)[3]) = d
<1>1. CASE d \in [level : {"node"}, name : Segment]
  <2>1. /\ d = NodeView(d.name) /\ d.name \in Segment
        /\ Segments(d)[1] = <<"Node">> /\ Segments(d)[2] = NoNamespace /\ Segments(d)[3] = d.name
    BY <1>1 DEF NodeView, Segments
  <2>2. <<"Node">> \in KindSegment
    BY NamedSegments, WordsAssumption
  <2>3. splitKind(<<"Node">>) = Kind("Node", <<>>)
    BY <2>2, SplitSegment, OneInSeq, WordsAssumption
  <2> QED  BY <2>1, <2>2, <2>3, NamedSegments DEF drillOf, Kind
<1>2. CASE d \in [level : {"object"}, namespace : Segment, kind : Words, group : Groups, name : Segment]
  <2> DEFINE in == IF d.namespace = <<>> THEN NoNamespace ELSE d.namespace
  <2>1. /\ d = ObjectView(d.namespace, d.kind, d.group, d.name) /\ d.level = "object"
        /\ d.namespace \in Segment /\ d.kind \in Words /\ d.group \in Groups /\ d.name \in Segment
    BY <1>2 DEF ObjectView
  <2>2. Segments(d)[1] = kindSegment(d.kind, d.group) /\ Segments(d)[2] = in /\ Segments(d)[3] = d.name
    BY <2>1 DEF Segments
  <2>3. in \in Segment
    BY <2>1, NamedSegments
  <2>4. /\ kindSegment(d.kind, d.group) \in KindSegment
        /\ splitKind(kindSegment(d.kind, d.group)) = Kind(d.kind, d.group)
    BY <2>1, JoinSegment
  <2>5. CanonicalDrill(d) => (IF in = NoNamespace THEN <<>> ELSE in) = d.namespace
    BY <2>1 DEF CanonicalDrill
  <2>6. CanonicalDrill(d) => drillOf(kindSegment(d.kind, d.group), in, d.name) = ObjectView(d.namespace, d.kind, d.group, d.name)
    BY <2>1, <2>4, <2>5 DEF drillOf, Kind, CanonicalDrill
  <2> QED  BY <2>1, <2>2, <2>3, <2>4, <2>6
<1> QED  BY <1>1, <1>2 DEF Drills

\* What is read from a hash is a route, and one that a hash can name.
LEMMA ParseShape ==
  ASSUME NEW h \in Hashes, h # <<>>
  PROVE  Parse(h) \in Routes /\ Canonical(Parse(h))
<1> DEFINE s == Completed(h)
           n == (Len(s) - 3) \div 3
           step(i) == drillOf(s[3 * i + 1], s[3 * i + 2], s[3 * i + 3])
<1>1. /\ s \in Seq(Segment) /\ Len(s) >= 3 /\ s[3] \in KindSegment
      /\ \A i \in 1..n : s[3 * i + 1] \in KindSegment
  BY CompletedShape
<1>2. Parse(h) = [cluster |-> s[1], namespace |-> IF s[2] = AllNamespaces THEN <<>> ELSE s[2],
                  root |-> rootOf(s[3]), drills |-> [i \in 1..n |-> step(i)]]
  BY DEF Parse
<1> HIDE DEF s
<1>3. Len(s) \in Nat
  BY <1>1, SeqFacts
<1>4. n \in Nat /\ 3 * n + 3 <= Len(s)
  BY <1>1, <1>3
<1>5. \A i \in 1..Len(s) : s[i] \in Segment
  BY <1>1, ElementOfSeq
<1>6. \A i \in 1..n : step(i) \in Drills /\ CanonicalDrill(step(i))
  <2> SUFFICES ASSUME NEW i \in 1..n
               PROVE  step(i) \in Drills /\ CanonicalDrill(step(i))
    OBVIOUS
  <2>1. 3 * i + 2 \in 1..Len(s) /\ 3 * i + 3 \in 1..Len(s)
    BY <1>3, <1>4
  <2> QED  BY <1>1, <1>5, <2>1, DrillShape
<1> HIDE DEF n, step
<1>7. [i \in 1..n |-> step(i)] \in Seq(Drills) /\ Len([i \in 1..n |-> step(i)]) = n
  BY <1>4, <1>6
<1>8. s[1] \in Segment /\ s[2] \in Segment
  BY <1>1, <1>3, <1>5
<1>9. (IF s[2] = AllNamespaces THEN <<>> ELSE s[2]) \in Segment \ {AllNamespaces}
  BY <1>8, NamedSegments
<1>10. rootOf(s[3]) \in Roots /\ CanonicalRoot(rootOf(s[3]))
  BY <1>1, RootShape
<1>11. /\ Parse(h).cluster = s[1] /\ Parse(h).root = rootOf(s[3])
       /\ Parse(h).namespace = (IF s[2] = AllNamespaces THEN <<>> ELSE s[2])
       /\ Parse(h).drills = [i \in 1..n |-> step(i)]
  BY <1>2
<1>12. Parse(h) \in Routes
  BY <1>2, <1>7, <1>8, <1>9, <1>10 DEF Routes
<1>13. \A i \in 1..Len(Parse(h).drills) : CanonicalDrill(Parse(h).drills[i])
  <2> DEFINE ds == [i \in 1..n |-> step(i)]
  <2>1. \A i \in 1..n : ds[i] = step(i)
    OBVIOUS
  <2>2. Len(ds) = n /\ Parse(h).drills = ds
    BY <1>7, <1>11
  <2> HIDE DEF ds
  <2> QED  BY <1>6, <2>1, <2>2
<1> QED  BY <1>9, <1>10, <1>11, <1>12, <1>13 DEF Canonical

\* The segments of the views opened, one after the other.
Opened(r) == [i \in 1..(3 * Len(r.drills)) |-> Segments(r.drills[(i + 2) \div 3])[((i - 1) % 3) + 1]]

\* The hash of a route has three segments and three for every view opened.
LEMMA HashShape ==
  ASSUME NEW r \in Routes
  PROVE  /\ toKubeHash(r) \in Hashes
         /\ Len(toKubeHash(r)) = 3 + 3 * Len(r.drills)
         /\ toKubeHash(r)[1] = r.cluster
         /\ toKubeHash(r)[2] = IF r.namespace = <<>> THEN AllNamespaces ELSE r.namespace
         /\ toKubeHash(r)[3] = rootSegment(r.root)
         /\ \A i \in 1..Len(r.drills), j \in 1..3 :
              toKubeHash(r)[3 * i + j] = Segments(r.drills[i])[j]
<1> DEFINE ns == IF r.namespace = <<>> THEN AllNamespaces ELSE r.namespace
           top == <<r.cluster, ns, rootSegment(r.root)>>
           n == Len(r.drills)
           t == toKubeHash(r)
<1>1. /\ r.cluster \in Segment /\ r.namespace \in Segment /\ r.root \in Roots
      /\ r.drills \in Seq(Drills) /\ n \in Nat
  BY DEF Routes
<1>2. ns \in Segment
  BY <1>1, NamedSegments
<1>3. rootSegment(r.root) \in KindSegment /\ rootSegment(r.root) \in Segment
  BY <1>1, RootBack DEF KindSegment
<1>4. /\ top \in Seq(Segment) /\ Len(top) = 3
      /\ top[1] = r.cluster /\ top[2] = ns /\ top[3] = rootSegment(r.root)
  <2> HIDE DEF ns
  <2> QED  BY <1>1, <1>2, <1>3
<1>5. \A i \in 1..n : r.drills[i] \in Drills
  BY <1>1, ElementOfSeq
<1>6. \A i \in 1..n, j \in 1..3 : Segments(r.drills[i])[j] \in Segment
  <2> SUFFICES ASSUME NEW i \in 1..n
               PROVE  \A j \in 1..3 : Segments(r.drills[i])[j] \in Segment
    OBVIOUS
  <2>1. /\ Segments(r.drills[i])[1] \in Segment
        /\ Segments(r.drills[i])[2] \in Segment
        /\ Segments(r.drills[i])[3] \in Segment
    BY <1>5, DrillBack DEF KindSegment
  <2> QED  BY <2>1
<1>7. \A i \in 1..3 * n : (i + 2) \div 3 \in 1..n /\ ((i - 1) % 3) + 1 \in 1..3
  BY <1>1
<1>8. /\ Opened(r) \in Seq(Segment) /\ Len(Opened(r)) = 3 * n
      /\ \A i \in 1..3 * n : Opened(r)[i] = Segments(r.drills[(i + 2) \div 3])[((i - 1) % 3) + 1]
  <2> DEFINE part(i) == Segments(r.drills[(i + 2) \div 3])[((i - 1) % 3) + 1]
             m == 3 * n
  <2>1. m \in Nat
    BY <1>1
  <2>2. \A i \in 1..m : part(i) \in Segment
    BY <1>6, <1>7
  <2>3. Opened(r) = [i \in 1..m |-> part(i)]
    BY DEF Opened
  <2> HIDE DEF part, m
  <2>4. Opened(r) \in Seq(Segment) /\ Len(Opened(r)) = m /\ \A i \in 1..m : Opened(r)[i] = part(i)
    BY <2>1, <2>2, <2>3
  <2> QED  BY <2>4 DEF part, m
<1>9. t = top \o Opened(r)
  BY DEF toKubeHash, Opened
<1>10. /\ t \in Seq(Segment) /\ Len(t) = 3 + 3 * n
       /\ \A i \in 1..3 + 3 * n : t[i] = IF i <= 3 THEN top[i] ELSE Opened(r)[i - 3]
  <2> HIDE DEF top, t, n
  <2>1. /\ top \o Opened(r) \in Seq(Segment) /\ Len(top \o Opened(r)) = 3 + 3 * n
        /\ \A i \in 1..3 + 3 * n :
             (top \o Opened(r))[i] = IF i <= 3 THEN top[i] ELSE Opened(r)[i - 3]
    <3>1. /\ top \o Opened(r) \in Seq(Segment) /\ Len(top \o Opened(r)) = Len(top) + Len(Opened(r))
          /\ \A i \in 1..Len(top) + Len(Opened(r)) :
               (top \o Opened(r))[i] = IF i <= Len(top) THEN top[i] ELSE Opened(r)[i - Len(top)]
      <4>1. top \in Seq(Segment) /\ Opened(r) \in Seq(Segment)
        BY <1>4, <1>8
      <4> QED  BY <4>1, ConcatProperties, Zenon
    <3>2. Len(top) = 3 /\ Len(Opened(r)) = 3 * n
      BY <1>4, <1>8
    <3> QED  BY <3>1, <3>2, Zenon
  <2> QED  BY <1>9, <2>1
<1> HIDE DEF t, top, ns, n
<1>11. t[1] = r.cluster /\ t[2] = ns /\ t[3] = rootSegment(r.root)
  BY <1>1, <1>4, <1>10
<1>12. \A i \in 1..n, j \in 1..3 : t[3 * i + j] = Segments(r.drills[i])[j]
  <2> SUFFICES ASSUME NEW i \in 1..n, NEW j \in 1..3
               PROVE  t[3 * i + j] = Segments(r.drills[i])[j]
    OBVIOUS
  <2> DEFINE m == 3 * i + j - 3
  <2>1. m \in 1..3 * n /\ (m + 2) \div 3 = i /\ ((m - 1) % 3) + 1 = j
    BY <1>1
  <2>2. 3 * i + j \in 1..3 + 3 * n /\ ~(3 * i + j <= 3) /\ 3 * i + j - 3 = m
    BY <1>1
  <2>3. t[3 * i + j] = Opened(r)[m]
    BY <1>10, <2>2
  <2> HIDE DEF m
  <2>4. Opened(r)[m] = Segments(r.drills[i])[j]
    BY <1>8, <2>1
  <2> QED  BY <2>3, <2>4
<1>13. \A i \in 1..n : t[3 * i + 1] \in KindSegment
  <2> SUFFICES ASSUME NEW i \in 1..n
               PROVE  t[3 * i + 1] \in KindSegment
    OBVIOUS
  <2>1. t[3 * i + 1] = Segments(r.drills[i])[1]
    BY <1>12
  <2> QED  BY <1>5, <2>1, DrillBack
<1>14. t \in Hashes
  <2>1. (Len(t) - 3) \div 3 = n
    BY <1>1, <1>10
  <2> QED  BY <1>3, <1>10, <1>11, <1>13, <2>1 DEF Hashes
<1> QED  BY <1>10, <1>11, <1>12, <1>14 DEF t, n, ns

\* The hash of a route that a hash can name is read as that route.
THEOREM RouteRoundTrip ==
  ASSUME NEW r \in Routes, Canonical(r)
  PROVE  Parse(toKubeHash(r)) = r
<1> DEFINE t == toKubeHash(r)
           n == Len(r.drills)
           step(i) == drillOf(t[3 * i + 1], t[3 * i + 2], t[3 * i + 3])
<1>1. /\ r.namespace \in Segment /\ r.root \in Roots /\ r.drills \in Seq(Drills) /\ n \in Nat
      /\ r = [cluster |-> r.cluster, namespace |-> r.namespace, root |-> r.root, drills |-> r.drills]
  BY DEF Routes
<1>2. /\ t \in Hashes /\ Len(t) = 3 + 3 * n
      /\ t[1] = r.cluster /\ t[2] = (IF r.namespace = <<>> THEN AllNamespaces ELSE r.namespace)
      /\ t[3] = rootSegment(r.root)
      /\ \A i \in 1..n, j \in 1..3 : t[3 * i + j] = Segments(r.drills[i])[j]
  BY HashShape
<1> HIDE DEF t
<1>3. t # <<>> /\ Completed(t) = t
  <2>1. t \in Seq(Segment) /\ Len(t) >= 3
    BY <1>1, <1>2 DEF Hashes
  <2>2. t # <<>>
    BY <2>1
  <2> QED  BY <1>2, <2>1, <2>2, CompletedShape
<1>4. (Len(t) - 3) \div 3 = n
  BY <1>1, <1>2
<1>5. Parse(t) = [cluster |-> t[1], namespace |-> IF t[2] = AllNamespaces THEN <<>> ELSE t[2],
                  root |-> rootOf(t[3]), drills |-> [i \in 1..n |-> step(i)]]
  BY <1>3, <1>4 DEF Parse
<1>6. (IF t[2] = AllNamespaces THEN <<>> ELSE t[2]) = r.namespace
  BY <1>2, NamedSegments DEF Canonical
<1>7. rootOf(t[3]) = r.root
  BY <1>1, <1>2, RootBack DEF Canonical
<1>8. \A i \in 1..n : step(i) = r.drills[i]
  <2> SUFFICES ASSUME NEW i \in 1..n
               PROVE  step(i) = r.drills[i]
    OBVIOUS
  <2>1. r.drills[i] \in Drills /\ CanonicalDrill(r.drills[i])
    BY <1>1, ElementOfSeq DEF Canonical
  <2>2. /\ t[3 * i + 1] = Segments(r.drills[i])[1]
        /\ t[3 * i + 2] = Segments(r.drills[i])[2]
        /\ t[3 * i + 3] = Segments(r.drills[i])[3]
    <3>1. 1 \in 1..3 /\ 2 \in 1..3 /\ 3 \in 1..3
      OBVIOUS
    <3> HIDE DEF n
    <3> QED  BY <1>2, <3>1, Zenon
  <2> QED  BY <2>1, <2>2, DrillBack
<1>9. [i \in 1..n |-> step(i)] = r.drills
  <2> HIDE DEF step
  <2>1. r.drills = [i \in 1..n |-> r.drills[i]]
    BY <1>1
  <2> QED  BY <1>8, <2>1
<1> HIDE DEF n, step
<1> QED  BY <1>1, <1>2, <1>5, <1>6, <1>7, <1>9 DEF t

-----------------------------------------------------------------------------
(* The hash and the route on screen. *)

\* What the hash and the route are, and that they agree once the events are dispatched.
NavInv ==
  /\ hash \in Hashes
  /\ route \in Routes
  /\ Canonical(route)
  /\ events \in Nat
  /\ events = 0 => route = routeFromHash(hash)

LEMMA RouteOfHash ==
  ASSUME NEW h \in Hashes
  PROVE  routeFromHash(h) \in Routes /\ Canonical(routeFromHash(h))
<1>1. CASE h # <<>> /\ h[1] = Cluster
  BY <1>1, ParseShape DEF routeFromHash
<1>2. CASE ~(h # <<>> /\ h[1] = Cluster)
  <2>1. routeFromHash(h) = [cluster |-> Cluster, namespace |-> <<>>, root |-> Overview, drills |-> <<>>]
    BY <1>2 DEF routeFromHash, DefaultRoute
  <2>2. Overview \in Roots /\ CanonicalRoot(Overview)
    BY DEF Overview, Roots, CanonicalRoot
  <2>3. <<>> \in Seq(Drills) /\ Len(<<>>) = 0
    OBVIOUS
  <2> HIDE DEF Overview
  <2> QED  BY <2>1, <2>2, <2>3, NamedSegments, PlacesAssumption DEF Routes, Canonical
<1> QED  BY <1>1, <1>2

LEMMA NavigationInitStep ==
  ASSUME NavigationInit
  PROVE  NavInv
<1>1. DefaultRoute(Cluster) \in Routes
  <2>1. <<>> \in Hashes
    BY DEF Hashes
  <2> QED  BY <2>1, RouteOfHash DEF routeFromHash
<1>2. hash \in Hashes
  <2>1. <<>> \in Hashes
    BY DEF Hashes
  <2> QED  BY <1>1, <2>1, HashShape, PlacesAssumption DEF NavigationInit
<1> QED  BY <1>2, RouteOfHash DEF NavigationInit, NavInv

LEMMA WriteStep ==
  ASSUME NavInv, NEW h \in Hashes, WriteHash(h)
  PROVE  NavInv'
<1>1. hash' = h /\ route' = route
  BY DEF WriteHash
<1>2. CASE h = hash
  BY <1>1, <1>2 DEF WriteHash, NavInv
<1>3. CASE h # hash
  <2>1. events' = events + 1 /\ events \in Nat
    BY <1>3 DEF WriteHash, NavInv
  <2>2. events' \in Nat /\ events' # 0
    BY <2>1
  <2> QED  BY <1>1, <2>2 DEF NavInv
<1> QED  BY <1>2, <1>3

LEMMA NavigateStep ==
  ASSUME NavInv, NEW ns \in Segment, NEW root \in Roots, NEW drills \in Seq(Drills),
         navigate(ns, root, drills)
  PROVE  NavInv'
<1> DEFINE r == [cluster |-> Cluster, namespace |-> ns, root |-> root, drills |-> drills]
<1>1. r \in Routes
  BY PlacesAssumption DEF Routes
<1>2. toKubeHash(r) \in Hashes
  BY <1>1, HashShape
<1> QED  BY <1>2, WriteStep DEF navigate

LEMMA SyncStep ==
  ASSUME NavInv, Sync
  PROVE  NavInv'
<1>1. hash' = hash /\ route' = routeFromHash(hash) /\ events' = events - 1 /\ events > 0
  BY DEF Sync
<1>2. events' \in Nat
  BY <1>1 DEF NavInv
<1> QED  BY <1>1, <1>2, RouteOfHash DEF NavInv

\* What the user opens, goes back to or chooses is written as a hash.
LEMMA MovesStep ==
  ASSUME NavInv
  PROVE  /\ \A n \in Nodes : drill(n) => NavInv'
         /\ \A i \in 0..Len(route.drills) : goTo(i) => NavInv'
         /\ canGoBack /\ back => NavInv'
         /\ \A ns \in Segment : setNamespace(ns) => NavInv'
         /\ \A root \in Roots, ns \in Segment : setRoot(root, ns) => NavInv'
         /\ \A h \in Links : FollowLink(h) => NavInv'
<1>1. route.namespace \in Segment /\ route.root \in Roots /\ route.drills \in Seq(Drills)
  BY DEF NavInv, Routes
<1>2. <<>> \in Seq(Drills) /\ <<>> \in Segment /\ Overview \in Roots
  BY NamedSegments DEF Overview, Roots
<1>3. ASSUME NEW n \in Nodes, drill(n)
      PROVE  NavInv'
  <2>1. /\ n.name \in Segment /\ n.namespace \in Segment /\ n.kind \in Words /\ n.group \in Groups
    BY DEF Nodes
  <2>2. NodeView(n.name) \in Drills /\ ObjectView(n.namespace, n.kind, n.group, n.name) \in Drills
    BY <2>1 DEF NodeView, ObjectView, Drills
  <2>3. ASSUME NEW view \in Drills, Deeper(view)
        PROVE  NavInv'
    <3>1. Append(route.drills, view) \in Seq(Drills)
      BY <1>1
    <3> QED  BY <1>1, <2>3, <3>1, NavigateStep DEF Deeper
  <2> QED  BY <1>2, <1>3, <2>1, <2>2, <2>3, NavigateStep DEF drill
<1>4. ASSUME NEW i \in 0..Len(route.drills), goTo(i)
      PROVE  NavInv'
  <2>1. SubSeq(route.drills, 1, i) \in Seq(Drills)
    BY <1>1
  <2> QED  BY <1>1, <1>4, <2>1, NavigateStep DEF goTo
<1>5. ASSUME canGoBack, back
      PROVE  NavInv'
  <2>1. Len(route.drills) \in Nat /\ Len(route.drills) >= 1
    BY <1>1, <1>5, SeqFacts DEF canGoBack
  <2>2. Len(route.drills) - 1 \in 0..Len(route.drills)
    BY <2>1
  <2> QED  BY <1>4, <1>5, <2>2 DEF back
<1>6. \A ns \in Segment : setNamespace(ns) => NavInv'
  BY <1>1, <1>2, NavigateStep DEF setNamespace
<1>7. \A root \in Roots, ns \in Segment : setRoot(root, ns) => NavInv'
  BY <1>1, <1>2, NavigateStep DEF setRoot
<1>8. \A h \in Links : FollowLink(h) => NavInv'
  BY WriteStep, PlacesAssumption DEF FollowLink
<1> QED  BY <1>3, <1>4, <1>5, <1>6, <1>7, <1>8

-----------------------------------------------------------------------------
(* The nodes on screen. *)

\* What useKubeTopology and useKubeObjects may be answered with.
GraphsHaveNodes == \A s \in Sources : \A nodes \in Graphs(s) : nodes \subseteq Nodes

NodesInv ==
  /\ asked \subseteq Sources
  /\ topology # NoGraph => topology.nodes \subseteq Nodes
  /\ objects # NoGraph => objects.nodes \subseteq Nodes
  /\ selected # NoNode => selected \in Nodes
  /\ click # NoClick => click.node \in Nodes \cup {NoNode}

LEMMA VisibleNodes ==
  ASSUME NodesInv
  PROVE  Visible \subseteq Nodes
BY DEF NodesInv, Visible, visibleIn, Graph

\* A route on screen is something that can be asked for.
LEMMA SourceOfRoute ==
  ASSUME NEW r \in Routes
  PROVE  Source(r) \in Sources
<1>1. r.namespace \in Segment /\ r.root \in Roots /\ r.drills \in Seq(Drills)
  BY DEF Routes
<1>2. CASE Listing(r)
  <2>1. listedKind(r) \subseteq Kinds /\ ListOf(r).namespace \in Segment
    BY <1>1, NamedSegments DEF listedKind, ListOf
  <2> QED  BY <1>2, <2>1 DEF Source, ListOf, Sources
<1>3. CASE ~Listing(r) /\ r.drills # <<>>
  <2>1. Len(r.drills) \in 1..Len(r.drills)
    BY <1>1, <1>3, SeqFacts
  <2>2. r.drills[Len(r.drills)] \in Drills
    BY <1>1, <2>1, ElementOfSeq
  <2> QED  BY <1>3, <2>2 DEF Source, View, Sources
<1>4. CASE ~Listing(r) /\ r.drills = <<>>
  <2>1. Source(r) = rootView(r) /\ rootView(r).level # "none"
    BY <1>4 DEF Source, View, Listing
  <2>2. CASE r.root \in [type : {"overview"}]
    BY <1>1, <2>1, <2>2 DEF rootView, Sources
  <2>3. CASE r.root \in [type : {"lens"}, lens : Lenses]
    BY <1>1, <2>1, <2>3 DEF rootView, Sources
  <2>4. CASE r.root \in [type : {"kind"}, kind : Words, group : Groups]
    BY <1>1, <2>1, <2>4 DEF rootView
  <2> QED  BY <1>1, <2>2, <2>3, <2>4 DEF Roots
<1> QED  BY <1>2, <1>3, <1>4

LEMMA NodesStep ==
  ASSUME GraphsHaveNodes, NavInv, NodesInv, [Next]_vars
  PROVE  NodesInv'
<1> USE DEF NodesInv
<1>1. ASSUME NEW n, NEW q, NEW screen, Choose(n, q, screen), n # NoNode => n \in Nodes
      PROVE  selected' # NoNode => selected' \in Nodes
  BY <1>1 DEF Choose, Commit
<1>2. ASSUME NEW n, NEW screen, handleSelect(n, screen), n # NoNode => n \in Nodes
      PROVE  selected' # NoNode => selected' \in Nodes
  BY <1>1, <1>2 DEF handleSelect
<1>3. ASSUME NEW n \in Nodes, open(n)
      PROVE  selected' # NoNode => selected' \in Nodes
  BY <1>1, <1>2, <1>3, OpenStep DEF panelVars
<1>4. CASE Follow
  <2>1. Source(route') \in Sources
    BY <1>4, SyncStep, SourceOfRoute DEF Follow, NavInv
  <2> QED  BY <1>4, <2>1 DEF Follow, Commit, Redrawn
<1>5. CASE FollowSame
  BY <1>5 DEF FollowSame, Still, panelVars
<1>6. CASE TopologyAnswer
  BY <1>6 DEF TopologyAnswer, Redrawn, panelVars, GraphsHaveNodes
<1>7. CASE ObjectsAnswer
  BY <1>7 DEF ObjectsAnswer, Redrawn, panelVars, GraphsHaveNodes
<1>8. CASE Canvas
  <2>1. CASE Click
    BY <2>1, <1>2, VisibleNodes DEF Click, Toggle, Still, panelVars
  <2>2. CASE ClickTimer
    BY <2>2, <1>2 DEF ClickTimer, Toggle, Still
  <2>3. CASE DoubleClick
    BY <2>3, <1>3, VisibleNodes DEF DoubleClick, Still
  <2>4. CASE Background
    BY <2>4, <1>2 DEF Background, handleClose, Still
  <2> QED  BY <1>8, <2>1, <2>2, <2>3, <2>4 DEF Canvas
<1>9. CASE Row
  BY <1>9, <1>2, VisibleNodes DEF Row, Toggle, Still
<1>10. CASE Hotkeys
  <2>1. CASE Enter
    BY <2>1, <1>3 DEF Enter, Still
  <2>2. CASE Escape
    BY <2>2, <1>2 DEF Escape, handleClose, Still, panelVars
  <2>3. CASE Backspace
    BY <2>3 DEF Backspace, Still, panelVars
  <2>4. CASE Move
    <3>1. \E n \in Visible : handleSelect(n, Source(route))
      BY <2>4 DEF Move, moveSelection
    <3> QED  BY <2>4, <3>1, <1>2, VisibleNodes DEF Move, Still
  <2>5. CASE PanelKey
    BY <2>5 DEF PanelKey, Commit, Still
  <2> QED  BY <1>10, <2>1, <2>2, <2>3, <2>4, <2>5 DEF Hotkeys
<1>11. CASE Panel
  BY <1>11, <1>2 DEF Panel, SetTab, ToggleExpand, Close, OpenButton, handleClose, Redrawn, Still, panelVars
<1>12. CASE Chrome
  BY <1>12 DEF Chrome, Leave, submitCommand, Redraw, Redrawn, Still, panelVars
<1>13. CASE UNCHANGED vars
  BY <1>13 DEF vars, panelVars
<1> QED
  BY <1>4, <1>5, <1>6, <1>7, <1>8, <1>9, <1>10, <1>11, <1>12, <1>13 DEF Next

\* The roots of the sidebar and of a command can be written in a hash.
LEMMA RootsOffered ==
  /\ SidebarRoots \subseteq Roots
  /\ \A word : resolveKubeCommand(word, Kinds) \subseteq Roots
<1>1. Overview \in Roots /\ \A l \in Lenses : Lens(l) \in Roots
  BY DEF Overview, Lens, Roots
<1>2. \A k \in Kinds : Kind(k.kind, k.group) \in Roots
  BY NamesAssumption DEF Kind, Roots
<1>3. SidebarRoots \subseteq Roots
  BY <1>1, <1>2 DEF SidebarRoots, Lenses
<1>4. \A word \in DOMAIN ROOT_WORDS : ROOT_WORDS[word] \in Roots
  BY <1>1 DEF ROOT_WORDS, Lenses
<1> QED  BY <1>2, <1>3, <1>4 DEF resolveKubeCommand

LEMMA NavStep ==
  ASSUME NavInv, NodesInv, [Next]_vars
  PROVE  NavInv'
<1>1. ASSUME UNCHANGED navigationVars
      PROVE  NavInv'
  BY <1>1 DEF NavInv, navigationVars, routeFromHash
<1>2. ASSUME NEW n \in Nodes, open(n)
      PROVE  NavInv'
  BY <1>1, <1>2, MovesStep DEF open
<1>3. selected # NoNode => selected \in Nodes
  BY DEF NodesInv
<1>4. CASE Follow \/ FollowSame
  BY <1>4, SyncStep DEF Follow, FollowSame
<1>5. CASE TopologyAnswer \/ ObjectsAnswer \/ Row
  BY <1>1, <1>5 DEF TopologyAnswer, ObjectsAnswer, Row
<1>6. CASE Canvas
  BY <1>1, <1>2, <1>6, VisibleNodes DEF Canvas, Click, ClickTimer, DoubleClick, Background
<1>7. CASE Hotkeys
  BY <1>1, <1>2, <1>3, <1>7, MovesStep DEF Hotkeys, Enter, Escape, Backspace, Move, PanelKey
<1>8. CASE Panel
  BY <1>1, <1>3, <1>8, MovesStep DEF Panel, SetTab, ToggleExpand, Close, OpenButton
<1>9. CASE Leave
  <2>1. route.namespace \in Segment /\ Namespaces \cup {<<>>} \subseteq Segment
    BY NamesAssumption, NamedSegments DEF NavInv, Routes
  <2> QED  BY <1>9, <2>1, MovesStep, RootsOffered DEF Leave
<1>10. CASE submitCommand
  <2>1. PICK c \in Commands : \E r \in resolveKubeCommand(c.word, Kinds) :
          setRoot(r, IF c.namespace = Keep THEN route.namespace ELSE c.namespace)
    BY <1>10 DEF submitCommand
  <2>2. (IF c.namespace = Keep THEN route.namespace ELSE c.namespace) \in Segment
    BY NamesAssumption DEF NavInv, Routes
  <2> QED  BY <2>1, <2>2, MovesStep, RootsOffered
<1>11. CASE Redraw
  BY <1>1, <1>11 DEF Redraw
<1>12. CASE UNCHANGED vars
  BY <1>1, <1>12 DEF vars
<1> QED
  BY <1>4, <1>5, <1>6, <1>7, <1>8, <1>9, <1>10, <1>11, <1>12 DEF Next, Chrome

\* useKubeNavigation.ts: whatever the user opens and in whatever order the browser dispatches
\* the changes, the route on screen can be opened again from its hash, and once the events are
\* dispatched the URL is the one of the route on screen.
THEOREM UrlAlwaysNamesView ==
  ASSUME GraphsHaveNodes
  PROVE  Spec => []UrlNamesView
<1>1. Init => NavInv /\ NodesInv
  <2> SUFFICES ASSUME Init
               PROVE  NavInv /\ NodesInv
    OBVIOUS
  <2>1. NavInv
    BY NavigationInitStep DEF Init
  <2>2. Source(route) \in Sources
    BY <2>1, SourceOfRoute DEF NavInv
  <2> QED  BY <2>1, <2>2 DEF Init, NodesInv
<1>2. NavInv /\ NodesInv /\ [Next]_vars => NavInv' /\ NodesInv'
  BY NavStep, NodesStep
<1>3. NavInv => UrlNamesView
  BY RouteRoundTrip DEF NavInv, UrlNamesView, routeFromHash
<1> QED  BY <1>1, <1>2, <1>3, PTL DEF Spec

=============================================================================
