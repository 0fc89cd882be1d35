--------------------------- MODULE TopologyCanvas ---------------------------
(***************************************************************************)
(* The map of a Docker host: its containers, pulled together by the        *)
(* networks they are on, drawn again from nothing for every answer that    *)
(* changes either.  What is modelled is where a container is pulled to, in *)
(* whole pixels.  Every drawing starts a simulation, which moves the       *)
(* containers from where they were towards it; where its forces leave      *)
(* them, and the user's drags, pans and zooms, are not modelled.           *)
(***************************************************************************)
EXTENDS Integers, FiniteSets, FiniteSetsExt, Functions, Sequences

CONSTANTS Maps,    \* what the hooks may hold: containers, and networks with their members
          MapWidth, MapHeight

ASSUME MapsAssumption ==
  /\ \A m \in Maps : m.networks \in Seq(Range(m.networks))
  /\ MapWidth \in Nat /\ MapHeight \in Nat

VARIABLE map \* the map drawn

-----------------------------------------------------------------------------

nodesOf(m, n) == m.networks[n] \cap m.containers

\* The networks with members, by their place in the list of networks.
groups(m) == {n \in DOMAIN m.networks : m.networks[n] # {}}

sqrtUp(n) == Min({c \in 1..n : c * c >= n})

\* A fault: the row is counted as the column is.
diagonal(place, cols) == [col |-> place % cols, row |-> place % cols]

gridCell(place, cols) == [col |-> place % cols, row |-> place \div cols]

\* The centres of the groups in a grid, each at its place among them.
groupCenters(m) ==
  LET total == Max({Cardinality(groups(m)), 1})
      cols  == sqrtUp(total)
      cellW == Max({MapWidth \div (cols + 1), 250})
      cellH == Max({MapHeight \div ((total + cols - 1) \div cols + 1), 250})
      cell(n) == gridCell(Cardinality({i \in groups(m) : i < n}), cols)
  IN [n \in groups(m) |-> [x |-> cellW * (cell(n).col + 1), y |-> cellH * (cell(n).row + 1)]]

\* nodeGroupMap: the last network of a container has it.
homes(m, id) == {n \in groups(m) : id \in nodesOf(m, n)}

pulledTo(m, id) ==
  IF homes(m, id) = {} THEN [x |-> MapWidth \div 2, y |-> MapHeight \div 2]
                       ELSE groupCenters(m)[Max(homes(m, id))]

-----------------------------------------------------------------------------

TopologyInit == map \in Maps

DrawMap(m) == m # map /\ map' = m

TopologyNext == \E m \in Maps : DrawMap(m)

TopologySpec == TopologyInit /\ [][TopologyNext]_map

-----------------------------------------------------------------------------

Far(p, q) == \E c \in {"x", "y"} : p[c] - q[c] >= 250 \/ q[c] - p[c] >= 250

\* "Spread in a grid with generous spacing": two containers whose last networks are two are
\* pulled to places at least 250 pixels apart, however many networks there are, wherever
\* members of theirs are on several or are not drawn, and however small the canvas is.
NetworksApart ==
  \A a, b \in map.containers :
    homes(map, a) # {} /\ homes(map, b) # {} /\ Max(homes(map, a)) # Max(homes(map, b)) =>
      Far(pulledTo(map, a), pulledTo(map, b))

=============================================================================
