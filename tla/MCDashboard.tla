---------------------------- MODULE MCDashboard ----------------------------
(* An instance of KubeDashboard for TLC: one namespace with a Deployment, a *)
(* ConfigMap and a Pod with a container; the lists of two kinds. *)
EXTENDS KubeDashboard

MCWords == STRING

prod == <<"prod">>
shop == <<"shop">>

Node(k, g, ns, n, d) == [kind |-> k, group |-> g, namespace |-> ns, name |-> n, drillable |-> d]

namespace  == Node("Namespace", <<>>, <<>>, shop, TRUE)
deployment == Node("Deployment", <<"apps">>, shop, <<"api">>, TRUE)
config     == Node("ConfigMap", <<>>, shop, <<"env">>, FALSE)
pod        == Node("Pod", <<>>, shop, <<"api", "v1">>, TRUE)
container  == Node("Container", <<>>, shop, <<"main">>, TRUE)
machine    == Node("Node", <<>>, <<>>, <<"n1">>, TRUE)

MCKinds ==
  {[kind |-> "Pod", group |-> <<>>, namespaced |-> TRUE, names |-> {"po"}],
   [kind |-> "ConfigMap", group |-> <<>>, namespaced |-> TRUE, names |-> {"cm"}]}

MCGraphs(s) ==
  CASE s.level = "cluster"   -> IF s.lens = "namespaces" THEN {{namespace}} ELSE IF s.lens = "nodes" THEN {{machine}} ELSE {{}}
    [] s.level = "namespace" -> {{deployment, config}}
    [] s.level = "node"      -> {{pod}}
    [] s.level = "object"    -> IF s.kind = "Pod" THEN {{container}}
                                ELSE IF s.kind = "Deployment" THEN {{pod}} ELSE {{}}
    [] s.level = "kind"      -> IF \E k \in s.kinds : k.kind = "Pod" THEN {{pod}}
                                ELSE IF \E k \in s.kinds : k.kind = "ConfigMap" THEN {{config}} ELSE {{machine}}

MCPlace(n) ==
  CASE n.kind = "ConfigMap" -> 1 [] n.kind = "Container" -> 2 [] n.kind = "Deployment" -> 3
    [] n.kind = "Namespace" -> 4 [] n.kind = "Node" -> 5 [] n.kind = "Pod" -> 6

MCLinks ==
  {<<prod, shop, <<"overview">>, <<"Deployment", "apps">>, shop, <<"api">>, <<"Pod">>, shop, <<"api", "v1">>>>,
   <<prod, <<"*">>, <<"Pod">>>>}

MCNamespaces == {shop}

MCCommands == {[word |-> "cm", namespace |-> <<>>], [word |-> "no", namespace |-> Keep]}

=============================================================================
