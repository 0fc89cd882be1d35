------------------------------ MODULE KubeRoutes ------------------------------
(***************************************************************************)
(* kubeRoute.ts and kubeCommand.ts: what the URL of a cluster names, and   *)
(* what a typed command opens.  A hash is the sequence of its decoded      *)
(* segments after "#/k8s/", <<>> when it is none of Kubernetes'; a segment *)
(* is the tuple of its parts between dots, <<>> when it is "".             *)
(***************************************************************************)
EXTENDS Integers, Sequences

CONSTANT Words  \* what a segment has between two dots

ASSUME WordsAssumption ==
  {"overview", "nodes", "storage", "access", "*", "-", "Node"} \subseteq Words

AllNamespaces == <<"*">>
NoNamespace   == <<"-">>
Lenses        == {"nodes", "storage", "access"}

Overview   == [type |-> "overview"]
Lens(l)    == [type |-> "lens", lens |-> l]
Kind(k, g) == [type |-> "kind", kind |-> k, group |-> g]

NodeView(n)            == [level |-> "node", name |-> n]
ObjectView(ns, k, g, n) ==
  [level |-> "object", namespace |-> ns, kind |-> k, group |-> g, name |-> n]

DefaultRoute(c) == [cluster |-> c, namespace |-> <<>>, root |-> Overview, drills |-> <<>>]

-----------------------------------------------------------------------------
(* What routes and hashes are.  A kind has a name, and no dot without a group. *)

Segment     == Seq(Words)
Groups      == Segment \ {<<"">>}
KindSegment == {s \in Segment : s # <<>> /\ Tail(s) \in Groups}

Roots ==
  [type : {"overview"}] \cup [type : {"lens"}, lens : Lenses]
  \cup [type : {"kind"}, kind : Words, group : Groups]

Drills ==
  [level : {"node"}, name : Segment]
  \cup [level : {"object"}, namespace : Segment, kind : Words, group : Groups, name : Segment]

Routes == [cluster : Segment, namespace : Segment, root : Roots, drills : Seq(Drills)]

Hashes ==
  {h \in Seq(Segment) :
     /\ Len(h) >= 3 => h[3] \in KindSegment
     /\ \A i \in 1..((Len(h) - 3) \div 3) : h[3 * i + 1] \in KindSegment}

-----------------------------------------------------------------------------

\* A fault: a segment names a kind without its group.
kindSegmentBare(k, g) == <<k>>

kindSegment(k, g) == <<k>> \o g

splitKind(s) == Kind(Head(s), Tail(s))

rootOf(segment) ==
  IF segment = <<"overview">> THEN Overview
  ELSE IF \E l \in Lenses : segment = <<l>> THEN Lens(Head(segment))
  ELSE splitKind(segment)

drillOf(segment, namespace, name) ==
  LET k == splitKind(segment)
  IN IF k.kind = "Node" /\ k.group = <<>> THEN NodeView(name)
     ELSE ObjectView(IF namespace = NoNamespace THEN <<>> ELSE namespace, k.kind, k.group, name)

\* A missing namespace is every namespace, a missing root the overview.
Completed(hash) == hash \o SubSeq(<<<<>>, AllNamespaces, <<"overview">>>>, Len(hash) + 1, 3)

\* A last triple that is not complete is dropped.
Parse(hash) ==
  LET s == Completed(hash)
  IN [cluster   |-> s[1],
      namespace |-> IF s[2] = AllNamespaces THEN <<>> ELSE s[2],
      root      |-> rootOf(s[3]),
      drills    |-> [i \in 1..((Len(s) - 3) \div 3) |->
                       drillOf(s[3 * i + 1], s[3 * i + 2], s[3 * i + 3])]]

rootSegment(root) ==
  CASE root.type = "overview" -> <<"overview">>
    [] root.type = "lens"     -> <<root.lens>>
    [] root.type = "kind"     -> kindSegment(root.kind, root.group)

Segments(view) ==
  IF view.level = "node"
  THEN <<<<"Node">>, NoNamespace, view.name>>
  ELSE <<kindSegment(view.kind, view.group),
         IF view.namespace = <<>> THEN NoNamespace ELSE view.namespace,
         view.name>>

toKubeHash(r) ==
  <<r.cluster, IF r.namespace = <<>> THEN AllNamespaces ELSE r.namespace, rootSegment(r.root)>>
  \o [i \in 1..(3 * Len(r.drills)) |-> Segments(r.drills[(i + 2) \div 3])[((i - 1) % 3) + 1]]

-----------------------------------------------------------------------------

ROOT_WORDS ==
  [w \in {"overview", "map", "nodes", "node", "no", "storage", "access"} |->
     CASE w \in {"overview", "map"}       -> Overview
       [] w \in {"nodes", "node", "no"}   -> Lens("nodes")
       [] OTHER                           -> Lens(w)]

\* The roots a word stands for; a kind carries the names it is known by.
resolveKubeCommand(word, kinds) ==
  IF word \in DOMAIN ROOT_WORDS THEN {ROOT_WORDS[word]}
  ELSE {Kind(k.kind, k.group) : k \in {k \in kinds : word \in k.names}}

=============================================================================
