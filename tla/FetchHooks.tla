----------------------------- MODULE FetchHooks ------------------------------
(***************************************************************************)
(* useKubeKinds, useKubeCounts, useKubePod and useKubeResource: what is    *)
(* fetched for a key (a cluster, a namespace with its kinds, a pod, an     *)
(* object and the version of its last action), and fetched again when the  *)
(* key changes.  Answers come in any order.                                *)
(***************************************************************************)
EXTENDS Naturals

CONSTANTS Keys,       \* what can be asked for
          NoData,
          MaxFetches  \* bound: requests made by one hook

VARIABLES hook,      \* which of the hooks this is
          key,       \* the key of the last effect
          effect,    \* the number of that effect
          data,      \* what is shown: the request that brought it, or NoData
          failed,    \* error
          isLoading,
          fetching,  \* requests under way
          fetches    \* requests made so far

fetchVars == <<hook, key, effect, data, failed, isLoading, fetching, fetches>>

Hooks == {"kinds", "counts", "pod", "resource"}

Fetch(k, e) == [key |-> k, number |-> fetches + 1, effect |-> e]

-----------------------------------------------------------------------------

\* The effect of a key: only a pod is forgotten, the others stay until the answer.
Effect(k) ==
  /\ fetches < MaxFetches
  /\ key' = k
  /\ effect' = effect + 1
  /\ fetches' = fetches + 1
  /\ fetching' = fetching \cup {Fetch(k, effect + 1)}
  /\ data' = IF hook = "pod" THEN NoData ELSE data
  /\ failed' = (failed /\ hook = "kinds")
  /\ isLoading' = (isLoading \/ hook = "kinds")

FetchInit ==
  /\ hook \in Hooks
  /\ key \in Keys
  /\ effect = 1
  /\ data = NoData
  /\ failed = FALSE
  /\ isLoading = (hook = "kinds")
  /\ fetching = {[key |-> key, number |-> 1, effect |-> 1]}
  /\ fetches = 1

ChangeKey(k) ==
  /\ k # key
  /\ Effect(k)
  /\ UNCHANGED hook

\* refresh() of useKubeResource: a version is a key of its own.
Refresh ==
  /\ hook = "resource"
  /\ Effect(key)
  /\ UNCHANGED hook

\* The interval of useKubeCounts, in the same effect.
Again ==
  /\ hook = "counts"
  /\ fetches < MaxFetches
  /\ fetches' = fetches + 1
  /\ fetching' = fetching \cup {Fetch(key, effect)}
  /\ UNCHANGED <<hook, key, effect, data, failed, isLoading>>

\* A fault: the cleanup does not cancel.
neverCancelled(r) == FALSE

\* The cleanup of the effect that made the request has run.
cancelled(r) == r.effect # effect

Answer(r) ==
  /\ fetching' = fetching \ {r}
  /\ IF cancelled(r) THEN UNCHANGED <<data, failed, isLoading>>
     ELSE /\ data' = r
          /\ failed' = FALSE
          /\ isLoading' = FALSE
  /\ UNCHANGED <<hook, key, effect, fetches>>

\* Counts are emptied, the others show the error.
Fail(r) ==
  /\ fetching' = fetching \ {r}
  /\ IF cancelled(r) THEN UNCHANGED <<data, failed, isLoading>>
     ELSE /\ data' = IF hook = "counts" THEN NoData ELSE data
          /\ failed' = (hook # "counts")
          /\ isLoading' = FALSE
  /\ UNCHANGED <<hook, key, effect, fetches>>

FetchNext ==
  \/ \E k \in Keys : ChangeKey(k)
  \/ Refresh \/ Again
  \/ \E r \in fetching : Answer(r) \/ Fail(r)

FetchSpec == FetchInit /\ [][FetchNext]_fetchVars

-----------------------------------------------------------------------------

\* An answer never takes the place of one to a later request, save between two polls of the
\* same counts, and never comes back for a key that was left.
AnswersAreCurrent ==
  [][data' # data /\ data' # NoData =>
       /\ data'.key = key
       /\ data # NoData /\ hook # "counts" => data'.number > data.number]_fetchVars

=============================================================================
