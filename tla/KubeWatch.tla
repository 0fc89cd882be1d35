------------------------------ MODULE KubeWatch ------------------------------
(***************************************************************************)
(* KubeWatchService.Watch for one canvas scope: a goroutine per kind lists *)
(* and watches the API server, and all of them trigger one debouncer that  *)
(* calls onChange.  The API server is external: it numbers the changes of  *)
(* a kind, ends watches when it likes and may refuse or fail a request.    *)
(***************************************************************************)
EXTENDS Naturals

CONSTANTS Kinds,      \* the kinds watched for this scope
          MaxChanges  \* bound: changes of one kind

ASSUME MaxChangesAssumption == MaxChanges \in Nat

VARIABLES version,    \* API server: the number of changes of each kind so far
          cancelled,  \* the context of the watch
          todo,       \* kinds the loop of Watch has not come to
          pc,         \* where the goroutine of a kind is
          rv,         \* the change up to which a kind was listed or delivered
          pending,    \* triggers in the debouncer's channel, of capacity one
          debouncer,  \* where the debouncer's goroutine is
          triggers,   \* calls of notify
          notified,   \* the newest change of each kind that called notify
          calls,      \* calls of onChange
          reported    \* the version of each kind when onChange was last called

watchVars    == <<todo, pc, rv>>
debounceVars == <<pending, debouncer, calls, reported>>
traceVars    == <<triggers, notified>>
vars == <<version, cancelled, watchVars, debounceVars, traceVars>>

Pcs          == {"unstarted", "listing", "opening", "streaming", "sleeping", "denied", "done"}
DebouncerPcs == {"idle", "delaying", "draining", "ready", "calling", "done"}

\* The kinds without a goroutine, or whose goroutine returned.
Ended == {k \in Kinds : pc[k] \in {"done", "denied"}}

Init ==
  /\ version = [k \in Kinds |-> 0]
  /\ cancelled = FALSE
  /\ todo = Kinds
  /\ pc = [k \in Kinds |-> "unstarted"]
  /\ rv = [k \in Kinds |-> 0]
  /\ pending = 0
  /\ debouncer = "idle"
  /\ triggers = 0
  /\ notified = [k \in Kinds |-> 0]
  /\ calls = 0
  /\ reported = [k \in Kinds |-> 0]

-----------------------------------------------------------------------------
(* Outside: objects change, the hub cancels the context. *)

Change(k) ==
  /\ version[k] < MaxChanges
  /\ version' = [version EXCEPT ![k] = @ + 1]
  /\ UNCHANGED <<cancelled, watchVars, debounceVars, traceVars>>

Cancel ==
  /\ ~cancelled
  /\ cancelled' = TRUE
  /\ UNCHANGED <<version, watchVars, debounceVars, traceVars>>

-----------------------------------------------------------------------------
(* Watch: the loop over the kinds.  A kind the cluster does not serve is   *)
(* skipped.                                                                *)

StartKind(k) ==
  /\ k \in todo
  /\ todo' = todo \ {k}
  /\ \E to \in {"listing", "denied"} : pc' = [pc EXCEPT ![k] = to]
  /\ UNCHANGED <<version, cancelled, rv, debounceVars, traceVars>>

-----------------------------------------------------------------------------
(* watchResource. *)

\* A fault: the loop does not look at the context.
LoopHeadUnchecked == "listing"

LoopHead == IF cancelled THEN "done" ELSE "listing"

ListSucceeds(k) ==
  /\ pc[k] = "listing"
  /\ ~cancelled
  /\ pc' = [pc EXCEPT ![k] = "opening"]
  /\ rv' = [rv EXCEPT ![k] = version[k]]
  /\ UNCHANGED <<version, cancelled, todo, debounceVars, traceVars>>

Goto(k, from, to) ==
  /\ pc[k] = from
  /\ pc' = [pc EXCEPT ![k] = to]
  /\ UNCHANGED <<version, cancelled, todo, rv, debounceVars, traceVars>>

\* A fault: every error of List ends the goroutine.
ListFailsForGood(k) == Goto(k, "listing", "done")

\* IsOptional: the kind is not served, or RBAC denies it.
ListForbidden(k) == Goto(k, "listing", "denied")
ListFails(k)     == Goto(k, "listing", "sleeping")
WatchOpens(k)    == ~cancelled /\ Goto(k, "opening", "streaming")
WatchFails(k)    == Goto(k, "opening", "sleeping")

\* The channel closed, or an Error event said that rv is too old.
WatchEnds(k) == Goto(k, "streaming", LoopHead)

Retry(k) == Goto(k, "sleeping", LoopHead)

\* A fault: an unbuffered channel, which drops what the debouncer does not await.
notifyUnbuffered(k, n) ==
  /\ pending' = IF debouncer = "idle" THEN 1 ELSE pending
  /\ triggers' = triggers + 1
  /\ notified' = [notified EXCEPT ![k] = n]

\* The trigger that debounce returned: a full channel drops it.
notify(k, n) ==
  /\ pending' = 1
  /\ triggers' = triggers + 1
  /\ notified' = [notified EXCEPT ![k] = n]

\* An event that is no bookmark.  Bookmarks change nothing and have no action.
Event(k) ==
  /\ pc[k] = "streaming"
  /\ rv[k] < version[k]
  /\ rv' = [rv EXCEPT ![k] = @ + 1]
  /\ notify(k, rv[k] + 1)
  /\ UNCHANGED <<version, cancelled, todo, pc, debouncer, calls, reported>>

WatchStep(k) ==
  \/ ListSucceeds(k) \/ ListForbidden(k) \/ ListFails(k)
  \/ WatchOpens(k) \/ WatchFails(k) \/ WatchEnds(k) \/ Retry(k)
  \/ Event(k)

-----------------------------------------------------------------------------
(* debounce.  When the context is done and a trigger is pending, the first *)
(* select may take either.                                                 *)

DebounceCancelled ==
  /\ debouncer = "idle"
  /\ cancelled
  /\ debouncer' = "done"
  /\ UNCHANGED <<version, cancelled, watchVars, pending, calls, reported, traceVars>>

TakeTrigger ==
  /\ debouncer = "idle"
  /\ pending > 0
  /\ pending' = pending - 1
  /\ debouncer' = "delaying"
  /\ UNCHANGED <<version, cancelled, watchVars, calls, reported, traceVars>>

DelayOver ==
  /\ debouncer = "delaying"
  /\ debouncer' = IF cancelled THEN "done" ELSE "draining"
  /\ UNCHANGED <<version, cancelled, watchVars, pending, calls, reported, traceVars>>

Drain ==
  /\ debouncer = "draining"
  /\ pending' = 0
  /\ debouncer' = "ready"
  /\ UNCHANGED <<version, cancelled, watchVars, calls, reported, traceVars>>

\* Whoever is told of the call reads the objects as they are from now on.
Call ==
  /\ debouncer = "ready"
  /\ debouncer' = "calling"
  /\ calls' = calls + 1
  /\ reported' = version
  /\ UNCHANGED <<version, cancelled, watchVars, pending, traceVars>>

\* A fault: the channel is drained after the call as well.
CallReturnsDraining ==
  /\ debouncer = "calling"
  /\ debouncer' = "idle"
  /\ pending' = 0
  /\ UNCHANGED <<version, cancelled, watchVars, calls, reported, traceVars>>

CallReturns ==
  /\ debouncer = "calling"
  /\ debouncer' = "idle"
  /\ UNCHANGED <<version, cancelled, watchVars, pending, calls, reported, traceVars>>

DebounceStep ==
  \/ DebounceCancelled \/ TakeTrigger \/ DelayOver \/ Drain \/ Call \/ CallReturns

-----------------------------------------------------------------------------

Finished ==
  /\ cancelled /\ debouncer = "done" /\ Ended = Kinds
  /\ version = [k \in Kinds |-> MaxChanges]
  /\ UNCHANGED vars

Next ==
  \/ \E k \in Kinds : Change(k) \/ StartKind(k) \/ WatchStep(k)
  \/ Cancel
  \/ DebounceStep
  \/ Finished

(***************************************************************************)
(* Goroutines that can move do.  The API server answers every request,     *)
(* delivers what it has on an open watch, and does not fail for ever a     *)
(* request that is retried for ever; it may end every watch.               *)
(***************************************************************************)
Fairness ==
  /\ WF_vars(DebounceStep)
  /\ \A k \in Kinds :
       /\ WF_vars(StartKind(k))
       /\ WF_vars(WatchStep(k) /\ pc[k] # "streaming")
       /\ WF_vars(Event(k) \/ (cancelled /\ WatchEnds(k)))
       /\ SF_vars(ListSucceeds(k))
       /\ SF_vars(WatchOpens(k))

Spec == Init /\ [][Next]_vars /\ Fairness

-----------------------------------------------------------------------------

\* Every variable holds a value of its type.
TypeOK ==
  /\ version \in [Kinds -> 0..MaxChanges]
  /\ cancelled \in BOOLEAN
  /\ todo \subseteq Kinds
  /\ pc \in [Kinds -> Pcs]
  /\ rv \in [Kinds -> 0..MaxChanges]
  /\ pending \in 0..1
  /\ debouncer \in DebouncerPcs
  /\ triggers \in Nat
  /\ notified \in [Kinds -> 0..MaxChanges]
  /\ calls \in Nat
  /\ reported \in [Kinds -> 0..MaxChanges]

\* onChange is called at most once per trigger, so never without a change: a
\* trigger drained before a call does not cause another call.
CallsAreTriggered == calls <= triggers

\* A burst may collapse but its last change is not dropped: while a notified
\* change is unreported, a trigger waits in the channel or in a debouncer that
\* has yet to call onChange.
NoTriggerDropped ==
  \A k \in Kinds :
    reported[k] < notified[k] =>
      cancelled \/ pending > 0 \/ debouncer \in {"delaying", "draining", "ready"}

\* What a watch delivered is reported: some later call of onChange sees a
\* version at least as new, unless the watch is cancelled first.
DeliveredIsReported ==
  \A k \in Kinds, n \in 1..MaxChanges :
    notified[k] = n ~> (cancelled \/ reported[k] >= n)

\* A watch that ended or failed is opened again, until the context is cancelled
\* or the cluster's RBAC denies the kind.
WatchIsReopened ==
  \A k \in Kinds :
    pc[k] \in {"listing", "opening", "sleeping"}
      ~> (cancelled \/ pc[k] \in {"streaming", "denied"})

\* After the cancellation every goroutine of the watch returns.
CancelledReturns ==
  cancelled ~> (debouncer = "done" /\ Ended = Kinds)

\* KubeWatchService: "Watch calls onChange after objects in scope change, until
\* ctx is cancelled" -- claimed for the changes after a kind was listed.
ChangesAreReported ==
  \A k \in Kinds, n \in 1..MaxChanges :
    (pc[k] = "streaming" /\ version[k] = n /\ rv[k] < n)
      ~> (cancelled \/ reported[k] >= n \/ pc[k] = "denied")

=============================================================================
