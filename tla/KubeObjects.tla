----------------------------- MODULE KubeObjects -----------------------------
(***************************************************************************)
(* useKubeObjects: the objects of one kind in one namespace, a page at a   *)
(* time.  A timer re-reads the first page, a button asks for the next one, *)
(* the user opens another list, and every answer is applied as it arrives. *)
(***************************************************************************)
EXTENDS Naturals, Sequences

CONSTANTS Lists,       \* what can be listed: a kind in a namespace
          NoList,      \* a view that lists nothing
          Pages,       \* the number of pages of a list
          MaxSwitches  \* bound: lists opened by the user

ASSUME NoListAssumption == NoList \notin Lists
ASSUME PagesAssumption == Pages \in Nat \ {0}

VARIABLES list,       \* the list the user opened
          items,      \* the pages on screen
          token,      \* continueToken: the page it stands for, 0 when empty
          extra,      \* extraPages.current > 0
          requests,   \* requests under way
          switches,   \* lists opened so far
          overlapped  \* since the list was opened, two different requests were
                      \* under way at a time

vars == <<list, items, token, extra, requests, switches, overlapped>>

Page(l, n) == [list |-> l, page |-> n]

First(l)   == [op |-> "refresh", list |-> l, page |-> 1]
More(l, n) == [op |-> "more", list |-> l, page |-> n]

loadingMore == \E r \in requests : r.op = "more"

\* list.GetContinue(): empty on the last page.
Continue(n) == IF n < Pages THEN n + 1 ELSE 0

Request(r) ==
  /\ requests' = requests \cup {r}
  /\ overlapped' = (overlapped \/ requests \ {r} # {})

-----------------------------------------------------------------------------

Init ==
  /\ list \in Lists
  /\ items = <<>>
  /\ token = 0
  /\ extra = FALSE
  /\ requests = {First(list)}
  /\ switches = 0
  /\ overlapped = FALSE

Open(l) ==
  /\ l # list
  /\ switches < MaxSwitches
  /\ switches' = switches + 1
  /\ list' = l
  /\ token' = 0
  /\ overlapped' = (requests # {})

\* A fault: the pages of the previous list are forgotten, their count is not.
SwitchPaused(l) ==
  /\ Open(l)
  /\ items' = <<>>
  /\ requests' = requests \cup IF l = NoList \/ extra THEN {} ELSE {First(l)}
  /\ UNCHANGED extra

\* A fault: the previous items stay until the first answer.
SwitchKeepingItems(l) ==
  /\ Open(l)
  /\ extra' = FALSE
  /\ requests' = requests \cup IF l = NoList THEN {} ELSE {First(l)}
  /\ UNCHANGED items

\* The effect of a new list: everything is reset, then refresh().
Switch(l) ==
  /\ Open(l)
  /\ items' = <<>>
  /\ extra' = FALSE
  /\ requests' = requests \cup IF l = NoList THEN {} ELSE {First(l)}

\* A fault: the timer does not pause.
PollAlways ==
  /\ list # NoList
  /\ Request(First(list))
  /\ UNCHANGED <<list, items, token, extra, switches>>

\* refresh() from the interval.
Poll ==
  /\ list # NoList
  /\ ~extra
  /\ Request(First(list))
  /\ UNCHANGED <<list, items, token, extra, switches>>

\* loadMore(); its button is disabled while a page is being loaded.
LoadMore ==
  /\ list # NoList
  /\ token # 0
  /\ ~loadingMore
  /\ Request(More(list, token))
  /\ UNCHANGED <<list, items, token, extra, switches>>

\* A first page replaces what is on screen, whatever was opened or loaded since.
Refreshed(r) ==
  /\ r.op = "refresh"
  /\ items' = <<Page(r.list, 1)>>
  /\ token' = Continue(1)
  /\ requests' = requests \ {r}
  /\ UNCHANGED <<list, extra, switches, overlapped>>

\* Another page goes below what is on screen.
MoreLoaded(r) ==
  /\ r.op = "more"
  /\ extra' = TRUE
  /\ items' = Append(items, Page(r.list, r.page))
  /\ token' = Continue(r.page)
  /\ requests' = requests \ {r}
  /\ UNCHANGED <<list, switches, overlapped>>

\* Only the error is shown.
Failed(r) ==
  /\ requests' = requests \ {r}
  /\ UNCHANGED <<list, items, token, extra, switches, overlapped>>

-----------------------------------------------------------------------------

Next ==
  \/ \E l \in Lists \cup {NoList} : Switch(l)
  \/ Poll \/ LoadMore
  \/ \E r \in requests : Refreshed(r) \/ MoreLoaded(r) \/ Failed(r)

(***************************************************************************)
(* The timer fires, every request ends, and not every first page of the    *)
(* open list fails.  Nothing makes the user act.                           *)
(***************************************************************************)
Fairness ==
  /\ WF_vars(Poll)
  /\ \A l \in Lists :
       /\ WF_vars(First(l) \in requests /\ (Refreshed(First(l)) \/ Failed(First(l))))
       /\ SF_vars(First(l) \in requests /\ list = l /\ Refreshed(First(l)))
       /\ \A n \in 1..Pages :
            WF_vars(More(l, n) \in requests /\ (MoreLoaded(More(l, n)) \/ Failed(More(l, n))))

Spec == Init /\ [][Next]_vars /\ Fairness

-----------------------------------------------------------------------------

\* While no two requests overlapped, the screen shows the first pages of the
\* open list, in order and without a gap, and the token names the next one.
PagesInOrder ==
  overlapped \/
    /\ \A i \in DOMAIN items : items[i] = Page(list, i)
    /\ token = IF items = <<>> THEN 0 ELSE Continue(Len(items))

\* useKubeObjects.ts: auto-refresh "pauses once more pages have been loaded to
\* keep them on screen" -- a page that was loaded stays while its list is open.
PagesStay == [][list' = list /\ Len(items) > 1 => Len(items') >= Len(items)]_vars

\* The same while no two requests overlapped.
PagesStayInTurn ==
  [][list' = list /\ Len(items) > 1 /\ ~overlapped => Len(items') >= Len(items)]_vars

\* A list left alone ends up on screen from its first page on, however many
\* requests failed, unless a page asked for under other requests paused the timer.
EventuallyListed ==
  <>[](list = NoList \/ (overlapped /\ extra) \/ (items # <<>> /\ items[1] = Page(list, 1)))

=============================================================================
