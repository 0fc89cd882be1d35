--------------------------- MODULE MCLiveTopology ---------------------------
(* Instances of LiveTopology for TLC. *)
EXTENDS LiveTopology, TLC

CONSTANTS shop, api, nodes,  \* a namespace, a Deployment in it, a cluster lens
          namespace, cluster

MCScopeOf == [v \in Views |-> IF v = nodes THEN cluster ELSE namespace]

\* What changes of a Deployment leaves its nodes and the number of its edges alone.
MCGraphKey(g) == IF g.view = api THEN <<api>> ELSE <<g.view, g.version>>

=============================================================================
