-------------------------- MODULE KubeWatchProofs --------------------------
(***************************************************************************)
(* Proofs about KubeWatch, for any set of kinds and any number of changes: *)
(* the debouncer neither invents a call of onChange nor drops the last     *)
(* trigger of a burst.                                                     *)
(***************************************************************************)
EXTENDS KubeWatch, TLAPS

-----------------------------------------------------------------------------
(* The inductive invariant. *)

\* What was listed or notified of a kind is a change that happened.
Sound ==
  \A k \in Kinds : rv[k] <= version[k] /\ notified[k] <= version[k]

\* A trigger the debouncer took and has not called for.
Taken == IF debouncer \in {"delaying", "draining", "ready"} THEN 1 ELSE 0

\* Every trigger is at most one of: called for, taken, waiting, collapsed.
Account == calls + Taken + pending <= triggers

IInv == TypeOK /\ Sound /\ Account /\ NoTriggerDropped

-----------------------------------------------------------------------------

LEMMA InitInvariant == Init => IInv
<1> SUFFICES ASSUME Init PROVE IInv
  OBVIOUS
<1> USE DEF Init
<1>1. TypeOK
  <2>1. 0 \in 0..MaxChanges
    BY MaxChangesAssumption
  <2>2. /\ version \in [Kinds -> 0..MaxChanges]
        /\ rv \in [Kinds -> 0..MaxChanges]
        /\ notified \in [Kinds -> 0..MaxChanges]
        /\ reported \in [Kinds -> 0..MaxChanges]
        /\ pc \in [Kinds -> Pcs]
    BY <2>1 DEF Pcs
  <2>3. cancelled \in BOOLEAN
    OBVIOUS
  <2>4. debouncer \in DebouncerPcs /\ pending \in 0..1 /\ triggers \in Nat /\ calls \in Nat
    BY DEF DebouncerPcs
  <2>5. QED  BY <2>2, <2>3, <2>4 DEF TypeOK
<1>2. Sound /\ NoTriggerDropped
  BY DEF Sound, NoTriggerDropped
<1>3. Account
  BY DEF Account, Taken
<1>4. QED  BY <1>1, <1>2, <1>3 DEF IInv

\* The API server, the hub and the loop over the kinds leave the debouncer alone.
LEMMA OutsideStep ==
  ASSUME IInv, NEW k \in Kinds, Change(k) \/ StartKind(k)
  PROVE  IInv'
<1> USE DEF watchVars, debounceVars, traceVars
<1>1. TypeOK'
  BY MaxChangesAssumption DEF IInv, TypeOK, Change, StartKind, Pcs, DebouncerPcs
<1>2. Sound'
  BY DEF IInv, TypeOK, Sound, Change, StartKind
<1>3. Account'
  BY DEF IInv, Account, Taken, Change, StartKind
<1>4. NoTriggerDropped'
  BY DEF IInv, NoTriggerDropped, Change, StartKind
<1>5. QED  BY <1>1, <1>2, <1>3, <1>4 DEF IInv

\* The goroutine of a kind triggers the debouncer for an event and for nothing else.
LEMMA WatcherStep ==
  ASSUME IInv, NEW k \in Kinds, WatchStep(k)
  PROVE  IInv'
<1> USE DEF watchVars, debounceVars, traceVars
<1>1. CASE Event(k)
  <2>1. rv[k] + 1 \in 1..MaxChanges /\ rv[k] + 1 <= version[k]
    BY <1>1, MaxChangesAssumption DEF Event, IInv, TypeOK
  <2>2. TypeOK'
    BY <1>1, <2>1 DEF Event, notify, IInv, TypeOK
  <2>3. Sound'
    BY <1>1, <2>1 DEF Event, notify, IInv, TypeOK, Sound
  <2>4. Account'
    BY <1>1 DEF Event, notify, IInv, TypeOK, Account, Taken
  <2>5. NoTriggerDropped'
    BY <1>1 DEF Event, notify, NoTriggerDropped
  <2>6. QED  BY <2>2, <2>3, <2>4, <2>5 DEF IInv
<1>2. CASE ListSucceeds(k)
  <2>1. TypeOK'
    BY <1>2 DEF ListSucceeds, IInv, TypeOK, Pcs
  <2>2. Sound'
    BY <1>2 DEF ListSucceeds, IInv, TypeOK, Sound
  <2>3. Account' /\ NoTriggerDropped'
    BY <1>2 DEF ListSucceeds, IInv, Account, Taken, NoTriggerDropped
  <2>4. QED  BY <2>1, <2>2, <2>3 DEF IInv
<1>3. ASSUME NEW from, NEW to \in Pcs, Goto(k, from, to) PROVE IInv'
  <2>1. TypeOK'
    BY <1>3 DEF Goto, IInv, TypeOK
  <2>2. Sound'
    BY <1>3 DEF Goto, IInv, Sound
  <2>3. Account' /\ NoTriggerDropped'
    BY <1>3 DEF Goto, IInv, Account, Taken, NoTriggerDropped
  <2>4. QED  BY <2>1, <2>2, <2>3 DEF IInv
<1>4. LoopHead \in Pcs /\ {"denied", "sleeping", "streaming"} \subseteq Pcs
  BY DEF LoopHead, Pcs
<1>5. QED
  BY <1>1, <1>2, <1>3, <1>4
  DEF WatchStep, ListForbidden, ListFails, WatchOpens, WatchFails, WatchEnds, Retry

\* The debouncer moves one trigger from the channel to a call.
LEMMA DebouncerStep ==
  ASSUME IInv, DebounceStep
  PROVE  IInv'
<1> USE DEF watchVars, debounceVars, traceVars, DebounceStep, DebounceCancelled,
            TakeTrigger, DelayOver, Drain, Call, CallReturns, IInv
<1>1. TypeOK'
  <2>1. (version \in [Kinds -> 0..MaxChanges])' /\ (reported \in [Kinds -> 0..MaxChanges])'
    BY DEF TypeOK
  <2>2. (cancelled \in BOOLEAN)'
    BY Zenon DEF TypeOK
  <2>3. (pending \in 0..1)' /\ (calls \in Nat)'
    BY SMT DEF TypeOK
  <2>4. (debouncer \in DebouncerPcs)'
    BY DEF TypeOK, DebouncerPcs
  <2>5. QED  BY <2>1, <2>2, <2>3, <2>4 DEF TypeOK
<1>2. Sound'
  BY DEF Sound
<1>3. Account'
  BY DEF TypeOK, Account, Taken
<1>4. NoTriggerDropped'
  BY DEF TypeOK, Sound, NoTriggerDropped
<1>5. QED  BY <1>1, <1>2, <1>3, <1>4

LEMMA NextStep == IInv /\ [Next]_vars => IInv'
<1> SUFFICES ASSUME IInv, [Next]_vars PROVE IInv'
  OBVIOUS
<1>1. CASE Cancel
  <2>1. TypeOK'
    BY <1>1 DEF Cancel, watchVars, debounceVars, traceVars, IInv, TypeOK
  <2>2. Sound' /\ Account' /\ NoTriggerDropped'
    BY <1>1 DEF Cancel, watchVars, debounceVars, traceVars, IInv, Sound,
                Account, Taken, NoTriggerDropped
  <2>3. QED  BY <2>1, <2>2 DEF IInv
<1>2. CASE Finished \/ UNCHANGED vars
  <2>1. UNCHANGED vars
    BY <1>2 DEF Finished
  <2>2. QED
    BY <2>1 DEF vars, watchVars, debounceVars, traceVars, IInv, TypeOK, Sound,
                Account, Taken, NoTriggerDropped
<1>3. QED  BY <1>1, <1>2, OutsideStep, WatcherStep, DebouncerStep DEF Next

\* IInv is an inductive invariant of the watch.
THEOREM InductiveInvariant == Spec => []IInv
BY InitInvariant, NextStep, PTL DEF Spec

\* Every variable holds a value of its type, whatever the kinds and changes.
THEOREM TypeInvariant == Spec => []TypeOK
<1>1. IInv => TypeOK
  BY DEF IInv
<1>2. QED  BY InductiveInvariant, <1>1, PTL

\* onChange is never called more often than the debouncer was triggered.
THEOREM CallsInvariant == Spec => []CallsAreTriggered
<1>1. IInv => CallsAreTriggered
  BY DEF IInv, TypeOK, Account, Taken, CallsAreTriggered
<1>2. QED  BY InductiveInvariant, <1>1, PTL

\* While a notified change is unreported, a call of onChange is still to come.
THEOREM TriggerInvariant == Spec => []NoTriggerDropped
<1>1. IInv => NoTriggerDropped
  BY DEF IInv
<1>2. QED  BY InductiveInvariant, <1>1, PTL

=============================================================================
