------------------------------- MODULE Sources -------------------------------
(***************************************************************************)
(* The Docker hosts and clusters there are, and the one that is on screen: *)
(* useSources, the workspace, and what mounting and leaving the page of a  *)
(* cluster do to the hash.  A hash stands for the cluster it names.        *)
(***************************************************************************)
EXTENDS Naturals

CONSTANTS Hosts, Clusters, \* by name; a host is listed before a cluster
          NoSource,
          MaxRetries, \* 5
          MaxPicks    \* bound: sources picked and hashes typed

VARIABLES connected,  \* the sources the server reaches
          sourceHash, \* the cluster location.hash names, or NoSource
          attempts,   \* requests that failed
          sourcesLoading, retrying,
          sources,    \* all there are, once they are known
          selectedSource,
          picks,
          astray      \* the hash was typed, or names a cluster that is not connected

sourceVars == <<connected, sourceHash, attempts, sourcesLoading, retrying, sources,
                selectedSource, picks, astray>>

All == Hosts \cup Clusters

-----------------------------------------------------------------------------

\* The linked cluster, else the first source that is connected, else the first one.
initialSource ==
  IF sourceHash \in Clusters \cap connected THEN {sourceHash}
  ELSE IF Hosts \cap connected # {} THEN Hosts \cap connected
  ELSE IF connected # {} THEN connected
  ELSE IF Hosts # {} THEN Hosts ELSE Clusters

\* A fault: the page of a cluster leaves its hash behind.
hashKept(from, to) == IF to \in Clusters THEN to ELSE sourceHash

\* The cleanup of the page that goes away, then the effect of the page that comes.
hashAfter(from, to) ==
  IF to \in Clusters THEN to ELSE IF from \in Clusters THEN NoSource ELSE sourceHash

SourcesInit ==
  /\ connected \in SUBSET All
  /\ sourceHash \in Clusters \cup {NoSource}
  /\ attempts = 0 /\ sourcesLoading = TRUE /\ retrying = FALSE
  /\ sources = {} /\ selectedSource = NoSource
  /\ picks = 0
  /\ astray = FALSE

\* Both answers: hosts and clusters are shown together.
SourcesAnswer ==
  /\ sourcesLoading /\ ~retrying
  /\ sources' = All
  /\ sourcesLoading' = FALSE
  /\ \E s \in initialSource :
       /\ selectedSource' = s
       /\ sourceHash' = hashAfter(NoSource, s)
       /\ astray' = (s \notin Clusters /\ sourceHash # NoSource)
  /\ UNCHANGED <<connected, attempts, retrying, picks>>

\* Either answer is an error: again in a second, five times.
SourcesFailed ==
  /\ sourcesLoading /\ ~retrying
  /\ attempts' = attempts + 1
  /\ IF attempts < MaxRetries THEN retrying' = TRUE /\ UNCHANGED sourcesLoading
                              ELSE sourcesLoading' = FALSE /\ UNCHANGED retrying
  /\ UNCHANGED <<connected, sourceHash, sources, selectedSource, picks, astray>>

RetryTimer ==
  /\ retrying
  /\ retrying' = FALSE
  /\ UNCHANGED <<connected, sourceHash, attempts, sourcesLoading, sources, selectedSource, picks, astray>>

\* The picker is there when there is more than one source; it also offers those offline.
selectSource(s) ==
  /\ selectedSource # NoSource
  /\ s \in sources \ {selectedSource}
  /\ picks < MaxPicks
  /\ picks' = picks + 1
  /\ selectedSource' = s
  /\ sourceHash' = hashAfter(selectedSource, s)
  /\ astray' = (astray /\ sourceHash' = sourceHash /\ s \notin Clusters)
  /\ UNCHANGED <<connected, attempts, sourcesLoading, retrying, sources>>

\* A hash typed later selects nothing: only the page of its own cluster looks at it.
TypeHash(c) ==
  /\ selectedSource # NoSource
  /\ picks < MaxPicks
  /\ picks' = picks + 1
  /\ sourceHash' = c
  /\ astray' = (c # selectedSource)
  /\ UNCHANGED <<connected, attempts, sourcesLoading, retrying, sources, selectedSource>>

SourcesNext ==
  \/ SourcesAnswer \/ SourcesFailed \/ RetryTimer
  \/ \E s \in All : selectSource(s)
  \/ \E c \in Clusters : TypeHash(c)

SourcesSpec == SourcesInit /\ [][SourcesNext]_sourceVars

-----------------------------------------------------------------------------

\* The URL of a page is that of the page: it names the cluster on screen, and no cluster
\* under a Docker host, unless the user typed another one or followed a link to a cluster
\* that is not connected.
UrlNamesSource ==
  selectedSource # NoSource /\ ~astray =>
    sourceHash = IF selectedSource \in Clusters THEN selectedSource ELSE NoSource

=============================================================================
