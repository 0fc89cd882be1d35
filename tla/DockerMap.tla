------------------------------ MODULE DockerMap ------------------------------
(***************************************************************************)
(* The containers and networks of a Docker host as the page shows them:    *)
(* two hooks that poll and keep what they have while a key of it is the    *)
(* same, and the list made of both, which filters and groups.              *)
(***************************************************************************)
EXTENDS Naturals, FiniteSets, Functions

CONSTANTS Ids,        \* ids a container may have
          Networks,   \* ids of networks
          MaxChanges, \* bound: changes on the host
          MaxPolls    \* bound: requests under way, of each hook

VARIABLES states,      \* the host: the state of each container,
          members,     \* and the containers on each network
          changes,     \* changes so far
          containers,  \* what useContainers holds
          networks,    \* what useNetworks holds
          answers,     \* answers under way, of either hook
          mapLoading,  \* the hooks that have had no answer yet
          stateFilter

mapVars == <<states, members, changes, containers, networks, answers, mapLoading, stateFilter>>

None == <<>>

-----------------------------------------------------------------------------
(* The host. *)

Host(s, m) ==
  /\ changes < MaxChanges
  /\ changes' = changes + 1
  /\ states' = s
  /\ members' = m
  /\ UNCHANGED <<containers, networks, answers, mapLoading, stateFilter>>

Without(id) == [n \in DOMAIN members |-> members[n] \ {id}]

StartOrStop(id) ==
  Host([states EXCEPT ![id] = IF @ = "running" THEN "exited" ELSE "running"], members)

Remove(id) == Host(Restrict(states, DOMAIN states \ {id}), Without(id))

\* Connected to a network, or created on it.
Connect(id, n) ==
  Host([i \in DOMAIN states \cup {id} |-> IF i = id THEN "running" ELSE states[i]],
       [members EXCEPT ![n] = @ \cup {id}])

RemoveNetwork(n) == members[n] = {} /\ Host(states, Restrict(members, DOMAIN members \ {n}))

-----------------------------------------------------------------------------
(* The hooks. *)

MapInit ==
  /\ states \in [Ids -> {"running", "exited"}]
  /\ members = [n \in Networks |-> Ids]
  /\ changes = 0
  /\ containers = None /\ networks = None
  /\ mapLoading = {"containers", "networks"}
  /\ stateFilter = "all"
  /\ answers = {[of |-> "containers", is |-> states], [of |-> "networks", is |-> members]}

\* refresh(): on mount, every ten seconds, and after a container was recreated.
Poll(of) ==
  /\ Cardinality({a \in answers : a.of = of}) < MaxPolls[of]
  /\ answers' = answers \cup {[of |-> of, is |-> IF of = "containers" THEN states ELSE members]}
  /\ UNCHANGED <<states, members, changes, containers, networks, mapLoading, stateFilter>>

\* A fault: a container is what its id says, whatever its state.
SameContainers(a, b) == DOMAIN a = DOMAIN b

SameKey(a, b) == a = b

ContainersAnswer(a) ==
  /\ a.of = "containers"
  /\ containers' = IF SameKey(containers, a.is) THEN containers ELSE a.is
  /\ UNCHANGED networks

\* The key of networks is their ids: what is on them is not looked at.
NetworksAnswer(a) ==
  /\ a.of = "networks"
  /\ networks' = IF DOMAIN networks = DOMAIN a.is THEN networks ELSE a.is
  /\ UNCHANGED containers

Answer(a) ==
  /\ ContainersAnswer(a) \/ NetworksAnswer(a)
  /\ answers' = answers \ {a}
  /\ mapLoading' = mapLoading \ {a.of}
  /\ UNCHANGED <<states, members, changes, stateFilter>>

\* The error is kept aside, and the first load is over.
PollFailed(a) ==
  /\ answers' = answers \ {a}
  /\ mapLoading' = mapLoading \ {a.of}
  /\ UNCHANGED <<states, members, changes, containers, networks, stateFilter>>

SetStateFilter(f) ==
  /\ mapLoading = {}
  /\ stateFilter' = f
  /\ UNCHANGED <<states, members, changes, containers, networks, answers, mapLoading>>

MapNext ==
  \/ \E id \in DOMAIN states : StartOrStop(id) \/ Remove(id)
  \/ \E id \in Ids, n \in DOMAIN members : Connect(id, n)
  \/ \E n \in DOMAIN members : RemoveNetwork(n)
  \/ \E of \in {"containers", "networks"} : Poll(of)
  \/ \E a \in answers : Answer(a) \/ PollFailed(a)
  \/ \E f \in {"all", "running", "exited"} : SetStateFilter(f)

\* The interval fires, and an answer that keeps coming is not lost every time.
MapFairness ==
  /\ WF_mapVars(Poll("containers"))
  /\ SF_mapVars(\E a \in answers : a.of = "containers" /\ Answer(a))

-----------------------------------------------------------------------------
(* The list. *)

filtered == {id \in DOMAIN containers : stateFilter \in {"all", containers[id]}}

\* The networks with a container to list.
listGroups == {n \in DOMAIN networks : networks[n] \cap filtered # {}}

ungrouped == filtered \ UNION {networks[n] : n \in listGroups}

\* Every row: a container, and the network it is listed under.
rows == {<<id, n>> \in filtered \X listGroups : id \in networks[n]} \cup (ungrouped \X {None})

-----------------------------------------------------------------------------

\* When the host no longer changes, the list ends up with each of its containers that passes
\* the filter, under some network or none, in its state: networks that are out of date, as
\* those whose members changed stay, hide none.
ContainersSettle ==
  <>[](/\ {r[1] : r \in rows} = {id \in DOMAIN states : stateFilter \in {"all", states[id]}}
       /\ \A r \in rows : containers[r[1]] = states[r[1]])

=============================================================================
