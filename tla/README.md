# Wiremap: verification project

Wiremap draws Docker hosts and Kubernetes clusters as a live map in the browser.
A Go server (`cmd/wiremap`, `internal/wiremap`) forwards reads and actions to the
Docker and Kubernetes APIs and pushes logs, metrics and change notifications over
two WebSocket endpoints; a React client (`client/src`) draws what it fetches and
keeps it fresh. The server keeps no database: its state is connections, streams
and the contexts that end them. What is hard to test is therefore concurrency:
goroutines racing the messages that start and stop them, watches racing the
changes they watch, and answers racing the user who asked for something else.

The project models that part in TLA+, the hubs and watches of the server and the
pages of the browser, checks it with TLC on small instances, and proves with TLAPS,
for every instance, the safety properties that those checks are about.

- [Inventory](#inventory) - [Modules](#modules) - [Runs](#runs) - [Fairness](#fairness)
- [Disagreements](#disagreements-between-the-code-and-what-is-said-of-it) - [Proofs](#proofs)
- [Not modelled](#what-is-not-modelled) - [Plan](#plan)

## Inventory

| Component | State it keeps | Operations | Hard behaviour | What makes it correct |
|---|---|---|---|---|
| **Kubernetes hub** `ws/kube_hub.go` | per connection: `cancels`, the lock `c.mu`, a goroutine per stream | subscribe and unsubscribe logs, metrics, topology; ping; read error, cleanup | streams run, end and write while the reader replaces or withdraws them; a write has no deadline | the registry is the set of live streams; none outlives the connection; what a withdrawn stream still sends is bounded |
| **Docker hub** `ws/hub.go` | the same, and the hub's table of clients | subscribe and unsubscribe logs, stats | the stream's own goroutine registers its cancel function, late | an entry is a live stream of its key; a cancelled stream ends |
| **Topology watch** `service/kube_watch_service.go` | a goroutine and a resourceVersion per kind, a trigger channel, the debouncer | list, watch, retry, notify, debounce | bursts from many kinds, expired watches, cancellation at any await | a burst's last change is reported; watches are opened again; cancellation ends all |
| **Terminals** `HandleExecWS` of both hubs | a pipe, a queue of sizes, two goroutines, two connections | keystroke, resize, end of shell, loss of browser | either side may end first; a queue of capacity one | no resize blocks the reader; nothing is closed under use; both sides are given back |
| **Browser socket** `services/socket.ts` | `ws`, `reconnectTimer`, a timer per unsent message | connect, emit, retry, onopen, onclose | drops, failed attempts, retries leaving in any order | never without a connection and without a timer; what is emitted is sent |
| **Live canvas** `hooks/useKubeTopology.ts` | the view, the graph drawn, fetches under way | open a view, poll, notified, answer | answers in any order, subscriptions lost with the socket | the canvas ends up fresh, as far as it compares graphs; the hub watches what is shown |
| **Paged list** `hooks/useKubeObjects.ts` | pages on screen, continue token, `extraPages` | poll, load more, open another list | an answer applied to a state that changed since it was asked for | pages in order, no page lost |
| **Container service** `service/container_service.go` | none | inspect, logs, stats, exec, `UpdateEnv` | `UpdateEnv` is stop, remove, create, connect, start: any may fail | a failed update leaves a container |
| **Kubernetes and node actions** | none (objects at the API server) | edit, delete, scale, restart, trigger, suspend, cordon, drain | other writers between a read and a write | no concurrent edit is lost; redacted Secret values survive |
| **Topology graphs** `service/kube_*_graph.go` and helpers | none | one pure function per level and lens | joins of partial, inconsistent lists of objects | every edge has its endpoints; owners and selectors are resolved as Kubernetes does |
| **Navigation** `hooks/useKubeNavigation.ts`, `services/kubeRoute.ts`, `kubeCommand.ts` | the URL hash, the route of the last render | drill, back, go to, set namespace, set root, a typed command, a followed link | moves between a navigation and its `hashchange`; names with dots, groups, objects outside a namespace | the URL names what is shown, here and opened elsewhere |
| **Cluster page** `KubeDashboard` with its panels, sidebar, list and hotkeys | the selection, the panel's tab, filters, prompts, the click timer | click, double click, key, filter, tab, expand, close; a new graph or list | a delayed click, a new graph and a new view under one selection | what is selected is of the view, the tab asked for shows, the page is never blank |
| **Canvases** `GraphCanvas`, `TopologyCanvas` | places of nodes, the view's transform, on the element and on the group drawn | draw, drag, zoom, fit, draw again | every answer draws again from nothing and starts the simulation, while a fit or a gesture may be moving the view | a refresh does not move the user's view; what nodes are pulled to keeps order and distance |
| **Docker page** `Dashboard`, `useContainers`, `useNetworks`, `useContainerInspect` | two polled lists, the selection, an edited environment | poll, select, inspect, edit, recreate | polls and inspections answered in any order | every container is listed; an environment is saved to its own container |
| **Live panels** `useLogs`, `useStats`, `usePodLogs`, `usePodStats`, `LogViewer` | the last lines and samples | subscribe, receive, clear, scroll | several panels on one socket, a container that changes | only its own lines, the last in view |
| **Fetches** `useKubeKinds`, `Counts`, `Pod`, `Resource` | the last answer for a key | fetch, poll, retry | answers for a key that was left | never one that was left, never an older one |
| **Volume browser** | directory, file, edited text | list, open, edit, save | each answered in any order | a text is saved to its own file |
| **Console view** | a terminal and a WebSocket | show, open, close | the terminal opens frames after the effect | no shell stays connected unseen |
| **Actions on an object** `useKubeActions`, `ResourceActions`, `ManifestView` | question, busy, draft, version | ask, act, edit, save, read again | late answers, other writers | the panel of a living object stays; no edit is lost |
| **Source picker** `useSources`, `Workspace` | sources, the one on screen, the hash | load, retry, pick, link | the list arrives after the hash, or late | the URL names the source |
| Pools, forwarding services, handlers, router, settings, atoms and charts | none that changes | - | - | - |

How they interact. A browser holds one socket per hub. Hooks `emit` subscriptions
over it; the hub's reader turns each into a goroutine that reads an API and writes
frames under the connection's lock. A topology subscription starts a
`KubeWatchService.Watch`, whose debouncer calls back into the hub, which writes
`topology:changed`; the hook answers by fetching the graph over HTTP, which it
also does every 30 seconds. Cancelling is by context only: `cancelStream`,
`startStream` and `cleanup` call cancel functions, and each goroutine notices in
its own time.

A page is put together from the hash: the workspace mounts the page of one source,
the page of a cluster shows the view its route names, the view decides what the
hooks fetch, and what they hold is drawn, listed and selected from. A move only
writes the hash. React runs a handler and the effects of its commit before the
next event, so a step of a browser module is one event; answers, timers, frames
and `hashchange` are events of their own and come in any order.

`PROJECT.json` lists every component with its status, and every hazard at its line
with the properties that would catch it.

## Modules

| Module | Models | Correspondence |
|---|---|---|
| `HubConn` | one WebSocket connection of either hub | `reader` is where `readPump` is, `ping` where `pingLoop` is, `writer` who holds `c.mu` for a write; `peer` is the network. Taking the lock for a map operation is one step; for a write it is held from `Acquire` to `Release`, because a write to a stalled peer blocks |
| `KubeHub` | `/ws/k8s`, `EXTENDS HubConn` | `cancels[k]` is the stream whose cancel function is registered; `pc[s]` is a goroutine's place; `cancelled` are the done contexts. One action per message, per select branch and per return of an API call. `watchTopology` runs discovery in the reader, so the reader has the states "discovering" and "reporting" |
| `StreamRegistry` | the abstract promise of a connection | a subscription replaces the stream of its key, an unsubscription or the end withdraws it, a withdrawn stream returns. `KubeHub` refines it with `open <- reader \notin {"closing", "done"}`, `wanted <- Live`, `running <- Running`; `DockerHub` does as long as the reader outran no goroutine it had spawned (`RegistryUnlessRaced`) |
| `DockerHub` | `/ws`, `EXTENDS HubConn` | `Register` is a step of the stream's goroutine, as in the code. Logs and stats have one control flow and are one kind of key. History variables: `asked` (keys whose last message was a subscription) and `raced` (a message for a key was handled while a goroutine of the key had yet to register) |
| `KubeWatch` | `Watch`, `watchResource`, `debounce` | `version[k]` counts the changes of a kind at the API server, `rv[k]` is the resourceVersion, `pending` the channel of capacity one. `reported` is what a reader sees who reads after `onChange` |
| `KubeExec` | the Kubernetes terminal | `reader` is the handler, `exec` the goroutine around `Exec`, `sizes` the queue of capacity one. `Resize` is `push`'s first select, `Push` its send |
| `DockerExec` | the Docker terminal | `handler`, the goroutine `output`, and the two `Close`s |
| `WireSocket` | `services/socket.ts` | `pending` are the retry timers, in no order; `connect()` is `Connected` |
| `LiveTopology` | `useKubeTopology` over `WireSocket` and an ideal hub | `Switch` runs the old effect's cleanup and the new effect in one step, as React commits them; `requests` are fetches, answered (`Answer`, the server reads) and then drawn (`Draw`) unless the graph on screen has the same `graphKey`, a constant operator: what it tells of a graph is left open. History variable `hurried`: a view was opened while a message waited in a timer |
| `KubeObjects` | `useKubeObjects` and the scrolling of `KubeObjectList` | `requests` are fetches under way, `extra` is `extraPages.current > 0`, a page is its place in the list. History variable `overlapped`: two different requests were under way at a time since the list was opened |
| `KubeRoutes` | `kubeRoute.ts`, `kubeCommand.ts` | pure operators: `Parse` and `toKubeHash` between a route and the decoded segments of a hash, `resolveKubeCommand`. A segment is the tuple of its parts between dots, since `kindSegment` joins and splits by them; `Words` are the parts a segment may be made of |
| `KubeNavigation` | `useKubeNavigation`, `EXTENDS KubeRoutes` | `hash` is `location.hash`, `route` the route of the last render, `events` the `hashchange`s still to be dispatched (`Sync`). Each move is computed from `route`, as the closures are |
| `KubeDashboard` | the page of a cluster, `EXTENDS KubeNavigation` | `topology` and `objects` are what the two hooks hold, `asked` the views whose answers may still come, `click` the 250 ms timer; `selected`, `request`, `tab` and the rest are the states of the page and its panel. `Switched` and `Redrawn` are the effects of a commit. History variables: `origin` (the view the selected node was picked on), `want` (the tab asked for last), `carried` and `missed` (see [Disagreements](#disagreements-between-the-code-and-what-is-said-of-it)) |
| `GraphCanvas` | `GraphCanvas.vm.ts` and `.tsx` | the layout of every level as functions (`nodeColumns`, `anchors`, `targets`, `cells`; `Layers` is what the walk of `ownershipDepth` finds in each round, a recursive function) and the user's view over redraws: `held` is the transform d3 keeps on the svg element, `onScreen` that of the group drawn last, `moving` the fit's transition and the user's gesture, `heard` whether their listener belongs to that group, `fitted` is `fittedViewRef`, `simulation` what can end and start the fit. History variable `overdrawn`: a redraw came while something moved the view. The graphs that may be drawn, which of them may follow which, the transforms and the size of the canvas are constants. How d3-zoom handles a transition and a gesture (a gesture under way is joined by the wheel and by a transition, and ended by a pan) is taken from d3, which is not part of the repository |
| `TopologyCanvas` | the map of a Docker host | the grid of the networks and where each container is pulled to. The maps that may be drawn and the size are constants |
| `DockerMap` | `useContainers`, `useNetworks`, `ContainerList` | `answers` are the requests under way, taken in any order; `SameKey` is the comparison each hook makes before it keeps what it has |
| `DockerPanel` | `Dashboard.vm.ts`, `ContainerPanel`, `InspectView`, `useContainerInspect` | selection, tabs, inspections under way, the edited environment and the requests to recreate. History variable `crossed` |
| `StreamHooks` | `useLogs`, `useStats`, `usePodLogs`, `usePodStats`, `LogViewer` | the socket brings events of any container; `listening` is the container of the registered handlers. Two bounds stand for 1000 lines and 60 samples |
| `FetchHooks` | `useKubeKinds`, `useKubeCounts`, `useKubePod`, `useKubeResource` | `effect` numbers the effects, so that `cancelled` is "not of the last effect". The hook is chosen initially |
| `VolumeBrowser` | the file tab of a container | three kinds of requests, each answered as it comes. History variable `swapped` |
| `ConsoleView` | the terminal of a panel | `frames` are the animation frames that will call `init`, `sockets` those not closed. History variable `raced` |
| `ResourceActions` | `useKubeActions`, `ResourceActions`, `ConfirmButton`, `ManifestView` over `useKubeResource` | the cluster keeps a version per object and refuses an update of an older one; other writers change and delete. History variable `lateText` |
| `Sources` | `useSources`, `Workspace` | a hash is the cluster it names. History variable `astray` |
| `MC*` | instances for TLC | `MCExec` runs one terminal of each kind side by side. `MCPanels` has eleven parts, `KubeObjects` and the ten modules from `GraphCanvas` to `Sources`, all of which it extends (but for `DockerMap`, an instance, since it shares names with `KubeObjects`). They share no state: a behaviour is one of one part (chosen by `part`), the others stay as they start, so that the parts' states add up and do not multiply |
| `*Proofs` | TLAPS proofs | see [Proofs](#proofs) |

History variables guard no action: they only let a property say when it holds.

In several modules a definition is headed "A fault:". These are plausible bugs of
the definition they stand before, used by nothing else: replacing the definition
by its fault must make the property that names it in `PROJECT.json` fail. They
show that the property depends on the code.

What is abstracted in all modules: contents of frames, lines, samples, graphs and
error texts; timer lengths (a timer may fire at any moment); malformed messages
(dropped by the code without effect).

## Runs

The runs take from seconds to two minutes on two workers. "disagreement" runs are meant
to find a counterexample.

| Run | Instance | Shows |
|---|---|---|
| `kube_hub` | 2 streams, a key of each kind, 1 buffered line; 57,000 states | `RegistryMatchesLive`, `LateBounded` (after its cancellation a stream begins at most one frame, and for logs the buffered lines), the refinement `RegistrySpec`, and `DisconnectReleasesAll` |
| `docker_hub` | 2 streams of 1 key; 22,000 states | `RegistryIsLive`, `LastFrame`, the refinement `RegistryUnlessRaced`, `DisconnectReleasesAll` unless `raced` |
| `docker_hub_orphan` | 1 stream | disagreement: `UnsubscribeEndsStreams` |
| `kube_watch` | 2 kinds, one change of each | `NoTriggerDropped`, `DeliveredIsReported`, `WatchIsReopened`, `CancelledReturns` |
| `kube_watch_gap` | 1 kind, one change | disagreement: `ChangesAreReported` |
| `exec` | 3 frames; 48,000 states | `PushNeverBlocks`, `LatestSizeArrives`, `SessionEnds`, and for Docker `DockerClosedUnused`, `DockerTerminalEnds` |
| `live_topology` | 3 views in 2 scopes, one change that the key tells or does not, one switch, one drop, 2 fetches under way; 133,000 states | `NeverStranded`, `EverythingIsSent`, `EventuallyFresh` (the key of the graph on screen is that of the current one), and `WatchFollowsView` unless `hurried` or dropped |
| `live_topology_reconnect` | 1 view, 1 drop | disagreement: `ViewIsWatched` |
| `live_topology_stale` | 2 views, 1 switch | disagreement: `GraphIsOfView` |
| `dashboard` | a Deployment with its Pod and container, two kinds listed, 2 moves of the user, 1 tab asked for by key; 380,000 states | `UrlNamesView`, `SelectionIsOfView` unless `carried`, `NeverBlank`, `RequestedTabShows` unless `missed` |
| `panels` | the parts below; 133,000 states | see the next table |
| `kube_objects_pages` | 1 list of 2 pages | disagreement: `PagesStay` |

The parts of `panels`:

| Part | Instance | Shows |
|---|---|---|
| `objects` | 2 lists of 3 pages, opened 3 times | `PagesInOrder`, `PagesStayInTurn`, `ListedInTheEnd` |
| `canvas` | every ownership graph with a subset of 5 edges between 4 nodes, rings and diamonds among them; one graph of each other layout; pods that come and go, with 3 transforms | `LayoutIsLayered` (columns follow edges, no two nodes with one anchor, groups to the right), `KeepsView` unless `overdrawn` |
| `topology` | 2 or 3 containers, networks none, overlapping, with strangers, and three of a container each | `NetworksApart` |
| `streams` | 2 containers, 3 lines and 2 samples kept | `PanelFollowsStream` |
| `fetches` | 2 keys, 4 requests, each hook | `AnswersAreCurrent`, save two polls of the same counts |
| `map` | 2 containers, 2 networks, 2 changes, 2 polls under way | `ContainersSettle` |
| `page` | 3 containers, 3 selections | `EnvIsOfContainer` unless `crossed` |
| `volumes` | 3 directories, 3 files of which one binary, 2 requests of a kind | `EditIsOfFile` unless `swapped` |
| `console` | 2 paths of each kind, 3 terminals | `NoOrphanShell` unless `raced` |
| `actions` | 2 objects, 2 versions, 2 panels, 2 actions or saves | `ClosesOwnPanel`, `NoLostEdit` unless `lateText` |
| `picker` | 2 hosts, 2 clusters, 5 retries, 3 picks | `UrlNamesSource` unless `astray` |

Why the bounds are enough. Streams of a hub interact through the registry's entry
of one key and through the lock: two streams give replacement, unsubscription
before and after registration, and contention for the lock between two streams,
the reader and the pings; the safety properties are proved for any number. Two
kinds give a burst that fills the trigger channel twice; one change of each is
enough to be in, before or after each phase of the debouncer, and the safety
properties are proved for any number. Three frames give a resize that overtakes
one in the queue while a third is read. Two views of one scope and one of another
give both kinds of switch; one drop gives a lost subscription, lost frames and a
reconnection, and two fetches give an answer that overtakes another. Three pages
give a gap: page 2 lost while page 3 is on its way. Two moves on a page are one
that is computed from an old route while the other waits for its `hashchange`; a
Deployment, its Pod and a container of it are every level a view can be drilled
to, and two kinds a change of list. Four nodes hold a diamond and a ring under one
root, which is what tells a walk by rounds from one by paths. Two requests under
way are an answer that overtakes another, and a third selection, retry or
terminal comes after such a pair; two versions are one change by another writer.

Deadlock is checked in the hub and watch runs, whose `Finished` action names the
states in which they may rest. In the other runs
it is not: a terminal ends, and a user who rests after the bounded number of
switches leaves nothing to do.

## Fairness

- A goroutine that can move does (weak fairness); a goroutine that waits for
  `c.mu` gets it (strong fairness): Go's scheduler is preemptive and its mutex
  hands the lock to a waiter that starves.
- Timers fire; every HTTP request ends, with an answer or an error.
- A peer that is stalled reads again or leaves. The code sets no write deadline,
  so without this a write could last for ever; TCP keepalive is what ends it.
- Nothing makes a log, a container or a shell produce output, the user act, or
  the objects change.
- `KubeWatch`: a request that is retried for ever does not fail for ever, and an
  open watch delivers what it has. `LiveTopology` and `KubeObjects`: not every
  fetch of the view on screen fails. Without these no client could make progress.
- `DockerMap`: the interval fires (weak fairness of `Poll`) and answers keep
  coming (strong fairness of `Answer`): a host that is never reached has no list
  to settle.
- `KubeExec`: a cancelled context makes `Exec` return (client-go's contract). The
  end of stdin need not end the shell.

## Disagreements between the code and what is said of it

1. **A Docker stream can be orphaned** (`docker_hub_orphan`). `handleMessage`
   spawns `streamLogs`, which registers its cancel function only when it runs. An
   unsubscription handled in between cancels nothing, and the stream runs for as
   long as the container logs, cleanup included: `DisconnectReleasesAll` holds
   for Docker only unless `raced`. The Kubernetes hub registers before it
   spawns, and has no such case.
2. **A change can go unreported** (`kube_watch_gap`). When a watch ends,
   `watchResource` lists again for a resourceVersion and watches from there; what
   changed in between is in neither, and `onChange` is not called. The client
   shows it at its next poll.
3. **A reconnected socket has no subscriptions** (`live_topology_reconnect`). The
   hub's registry ends with the connection and nothing emits the watch again, so
   the canvas lives on polls while the socket is open; log and stats views, which
   do not poll, stay silent until they are opened again.
4. **A late answer is drawn over the current view** (`live_topology_stale`):
   `refresh` does not ask whether its view is still shown.
5. **A refresh takes loaded pages off the screen** (`kube_objects_pages`):
   `refresh` reads `extraPages` before its request and not after. The list then
   shows the first page with its timer paused, and loading on can leave a gap
   (page 1, then page 3) that nothing repairs.

More of them shape the properties without a run of their own. Messages emitted while
the socket connects wait in independent timers and may leave in another order than
they were emitted: an unwatch of the old scope that is sent after the watch of the
same scope leaves the view unwatched, which is why `WatchFollowsView` excepts
`hurried`. And an idle Docker shell is not given back when its browser leaves:
the handler waits for the output goroutine before it closes the shell's
connection, which is why `DockerTerminalEnds` needs both sides to have ended.

Two more are about what the user sees:

- A change can stay undrawn. `graphKey` (`useKubeTopology.ts:10`) counts edges and
  names neither their ends nor groups or details, and a graph of the key on screen
  is not drawn. An Ingress that routes to another Service has as many edges as
  before: every fetch brings the change, and none draws it, although the hook says
  of the key that it "changes only when something visible on the canvas changes"
  and `README.md:21` that the map updates "as things change". `EventuallyFresh`
  claims what the key tells: claimed of the graph itself it fails, by a change of the
  Deployment `api`, which `MCGraphKey` leaves untold.
- A refresh while the view moves loses it. The 450 ms transition of `fitToView`
  (`GraphCanvas.tsx:254`), a pan or a turn of the wheel goes on moving the
  transform on the element through the zoom of the old drawing, whose group is
  gone: the new drawing stays where the view was, and jumps to where it got at the
  next refresh or gesture. The comment at `GraphCanvas.tsx:46` says that refreshes
  keep the view; `KeepsView` claims it unless `overdrawn`, and fails without that.

In the browser the code makes no promise in words, and the properties name their
exceptions by history variables. Each is a case the code allows:

- `carried` (`KubeDashboard.vm.ts:129`): the effect that keeps a selected node up
  to date also runs when another kind is listed, and selects the node with the id
  of the last one if the new list has it.
- `missed` (`PodPanel.vm.ts:42`): a request for a tab is told from the last one by
  a number that starts again when the panel is opened from elsewhere.
- `crossed` (`useContainerInspect.ts:16`): an inspection is not cancelled, so the
  environment of the last container can be the one edited and saved.
- `swapped` (`VolumeBrowser.vm.ts:84`): the answer to a save puts its file under
  the text of another that was opened meanwhile.
- `raced` (`ConsoleView.vm.ts:94`): `init` is not cancelled, and opens a shell the
  cleanup of its effect can no longer close.
- `lateText` (`ManifestView.vm.ts:28`): what is typed while a manifest is saved is
  dropped when the save succeeds.
- `astray` (`useSources.ts:19`): a hash typed by hand, or one of a cluster that is
  not connected, stays in the address bar under another source.
- Two polls of one key's counts may be answered the other way round
  (`useKubeCounts.ts:14`), until the next.
- Networks are compared by their ids only (`useNetworks.ts:16`), so a container
  that joins or leaves one is shown where it was until a network is added or
  removed; `ContainersSettle` claims the containers and their states, not this.
- A log that is full keeps its length, and the viewer no longer scrolls to its end
  (`LogViewer.tsx:15`): `PanelFollowsStream` claims it for a log that is not.
- Nothing keeps nodes in place over a redraw. `GraphCanvas` starts its simulation
  at full strength and `TopologyCanvas` at a tenth, from the saved places towards
  anchors that the new graph may have moved, and a dragged node is let go. No
  property claims where nodes come to rest.
- The Docker map does not restore the user's pan and zoom when it is drawn again
  (`TopologyCanvas.tsx:58`), and d3 keeps them on the element: the view jumps at
  the redraw, and back at the next gesture. It is listed as a hazard.

Two conditions are never what they test for, which is why the simulations start as
just said: `vx === undefined`
(`GraphCanvas.tsx:195`), since `forceSimulation` has set it by then, and the
absence of saved positions (`TopologyCanvas.tsx:265`).

## Proofs

Checked by TLAPS for every value of the constants. Every safety invariant and every
action property of the passing runs is the conclusion of a theorem. Each proof has a
lemma per action or group of actions and concludes with `Init => IInv`,
`IInv /\ [Next]_vars => IInv'`, `IInv => Inv`. Each of the inductive invariants was
checked by TLC on the instance of its run before it was proved, but for `NavInv`, whose sets are infinite.

| Module | Theorems | Argument |
|---|---|---|
| `KubeHubProofs` | `TypeInvariant`, `RegistryInvariant`, `CleanupInvariant`, `LateInvariant`, `RegistryRefinement` | the properties with `KindsAgree` (a stream is in the goroutine of its kind), `WriterSends` (who holds the lock has a frame to send), `RegistryEmptied` (after cleanup nothing registers), and `LateAccount`: what a stream may still write is paid from the frame it holds and the lines it has buffered. `LateBounded` alone is not inductive: it says nothing of the frame already prepared |
| `DockerHubProofs` | `TypeInvariant`, `RegistryInvariant`, `LastFrameOnly`, `RegistryRefinement` | `Entries` (an entry registered itself, under its own key, and is not cancelled) and, unless `raced`, `Settled` (one unregistered goroutine per key at most, with its entry free) and `Complete`. Without `Settled` a registration could overwrite a live stream. `LateOnce` is added for the last frame: a stream that began one after its cancellation still writes it, or is where the context is checked. `EntryIsServing` is what the refinement rests on: unless a goroutine of the key has yet to register, its entry is all there is to cancel |
| `KubeWatchProofs` | `TypeInvariant`, `CallsInvariant`, `TriggerInvariant` | `Account`: calls, the trigger the debouncer holds and the one in the channel sum to at most the triggers; `Sound`: nothing is notified that did not happen |
| `ExecProofs` | `PushInvariant`, `NewestShown`, `DockerClosesLast` | `PushNeverBlocks` is inductive; `NewestShown` (a size given to the shell is the newest pushed) follows from it; for Docker, `OutputWithin`: the output goroutine runs only between the attachment and the end of the handler |
| `LiveTopologyProofs` | `SocketNeverStranded`, `HubWatchesView` | `NeverStranded` is inductive; `WatchSettled` says where the one subscription is while nothing was hurried or dropped: in the only timer, or at the hub. It is the safety half of `WatchFollowsView` |
| `KubeDashboardProofs` | `PageNeverBlank`, `PanelOfView`, `PanelShowsRequestedTab`, `RouteRoundTrip`, `UrlAlwaysNamesView` | `NeverBlank` is inductive; `ClickIsOfView`: a click that is delayed was made on the view on screen; `RequestedTabShows` needs no more than that requests carry numbers. `RouteRoundTrip`: `Parse(toKubeHash(r)) = r` for every route that a hash can name (`Canonical`), root, namespace and drill by drill (`JoinSegment`, `SplitSegment`: the kind of a segment has no dot, so it is split where it was joined), for any number of drills. `UrlAlwaysNamesView` follows with `NavInv` (hash and route are well formed and agree once `events` is 0) and `NodesInv` (what can be drilled to is a node) |
| `PanelsProofs` | `PagesInvariant`, `PagesStayAction` | unless `overlapped`: `InTurn` (one request at most, for the open list: its first page while the timer runs, or the page the token names) and `Paused` (more than one page on screen means a paused timer) |
| | `OrphanInvariant` | `FramesMounted` (a frame waits for the element on screen or one that is gone) and, unless `raced`, `FrameFirst`: the frame the element waits for is one, of the path on screen, and no socket is open yet. Without it `init` could open a second socket over `ws` |
| | `UrlAlwaysNamesSource` | inductive |
| | `SavedTextIsOfFile` | `EditFollowsFile`: the text of the editor is of the file shown, unless `swapped` |
| | `EnvOfSelected` | `EditFollowsSelection`: what is edited is of the container selected, unless `crossed` |
| | `AnswersStayCurrent` | `FetchedForKey` and `OneForEffect`: a request is of the key of its effect, and all but polls of counts are one per effect |
| | `PanelAlwaysFollows` | `StreamInv`: what is listened to is what is on screen, and lines and samples are of it. `KeptLast` and `LinesOfOne` are about keeping the last of a sequence |
| | `PanelClosesOwn`, `EditNeverLost` | `DeletedIsGone` (a delete that was applied leaves no object), `RunsOfPanels` and `SavesOfPanels` (what is under way was asked by the panel on screen or one it replaced), `ClosedIsEmpty` |
| `CanvasProofs` | `LayoutAlwaysLayered` | `WalkOf`: the rounds of the walk are disjoint and a round that finds nothing ends it, so that by counting it ends within as many rounds as there are nodes, in graphs with rings too. `DepthFollowsEdges`, `ColumnsBounded` and `ColumnsApart` (columns are at least as far apart as a node is wide), `StackApart`, `CellOf` (a place in the grid determines the node) give `AnchorsApart` |
| | `ViewAlwaysKept` | `ViewInv`: unless `overdrawn`, the group on screen has the transform the element holds, and hears whatever moves it. `KeepsView` alone is not inductive: a redraw shows what the element holds, which must be what was on screen |
| | `NetworksAlwaysApart` | `CentersApart`: by `MoreBefore` two networks have two places among those with members, by `CellsApart` two places differ in column or row, and by `LinesFar` lines of cells at least 250 wide are as far apart |

What the theorems assume. The named assumptions of the modules: sentinels are not members
of the sets they stand beside (`NobodyAssumption`, `NoStreamAssumption`, `NoListAssumption`,
`TargetsAssumption`, `NoFileAssumption`, `NoObjectAssumption`); keys of the three kinds are
disjoint, as their prefixes make them; a stream is not named "reader" or "ping"; bounds are
natural numbers; the words of `kubeRoute.ts` are among those a segment is made of
(`WordsAssumption`), and kinds, namespaces and links are made of them (`NamesAssumption`,
`PlacesAssumption`); a graph is a sequence of nodes with edges between its nodes, as
`d3.forceLink` requires, and a Docker host has finitely many networks (`GraphsAssumption`,
`MapsAssumption`); d3's identity is among the transforms (`TransformsAssumption`). TLC evaluates each of these on the instances. `UrlAlwaysNamesView` has one
hypothesis of its own, `GraphsHaveNodes` (an answer contains nodes and nothing else): it
quantifies over every view that can be asked for, which TLC could not enumerate.

`TypeInvariant`, `CallsInvariant`, `CleanupInvariant`, `NewestShown`, `HubWatchesView` and
`RouteRoundTrip` state properties no run repeats: the first two are conjuncts of the
invariants the other theorems rest on, the third is part of the refinement `RegistrySpec`
that TLC checks, the next two are the safety halves of `LatestSizeArrives` and
`WatchFollowsView`, and the last is a fact about operators.

Recursion. The induction theorems of the library take an operator as a parameter, which
the provers cannot instantiate. What the recursive layout is, for a graph of any size, is
proved by the least counterexample instead: `Least` gives every non-empty set of numbers a
least member (from the well-foundedness of `<` on `Nat`), `RoundsExist` applies it to the
numbers of rounds for which no function satisfies the recursion, and `WalkOf` to the rounds
at which the walk would have found too little. The names of a route and the segments of its
hash are sequences of any length, and are proved about with `SequenceTheorems`.

Only model-checked: every liveness property (TLAPS reasons neither about fairness nor
about ENABLED here): `DisconnectReleasesAll` of both hubs, `DeliveredIsReported`,
`WatchIsReopened`, `CancelledReturns`, `LatestSizeArrives`, `SessionEnds`,
`DockerTerminalEnds`, `EventuallyFresh`, `EverythingIsSent`, `WatchFollowsView`,
`ContainersSettle`, `ListedInTheEnd`, and the fairness part of `RegistrySpec`.

## What is not modelled

- The server's services: how a frame, a sample, a graph or a status is computed,
  and what the API server and the scheduler do meanwhile (see [Plan](#plan)).
- Drawing: forces, hulls, links, labels, icons, charts and texts. In the canvases
  the anchors are modelled and where the forces leave the nodes is not, and with
  it the places that are saved for the next drawing. Nor are the drags, pans and
  zooms of the Docker map.
- The statuses and the metrics of a graph's nodes; a node stands for its identity.
- Percent-encoding of URL segments, and hashes that are no sequence of segments.
- `disconnect()` of the client's socket has no caller.
- The closing handshake of a WebSocket. `WireSocket` ends a connection in one
  step; in a browser `readyState` is CLOSING for a moment before `onclose` runs,
  and an `emit` in that moment makes a new connection that the old `onclose` then
  forgets. It is listed as a hazard.
- The client pools are filled before the server listens and only read afterwards.
- Services that forward one request and convert its answer keep no state.
- React's development-only double effects, and tabs: each has its own socket.

## Plan

In order of what can go wrong. Items 1 to 9 are done.

1. `HubConn`, `KubeHub`, `StreamRegistry`; then `DockerHub`.
2. `KubeWatch`.
3. `WireSocket`, `LiveTopology`.
4. `KubeExec`, `DockerExec`.
5. `KubeObjects`.
6. Proofs for 1, 2, the resize queue and the paged list.
7. `KubeRoutes`, `KubeNavigation`, `KubeDashboard`.
8. The parts of `panels`.
9. Theorems about the browser, the socket, the terminals and the layouts; the refinement
   of `StreamRegistry` by the Docker hub.
10. `WireSocket` with a closing handshake: connections as a set, their `onclose`s
    in any order, and at most one of them in use.
11. `ContainerUpdate` (`UpdateEnv`): any call may fail, other clients act on the
    container; `KubeActions`: `Update` under resourceVersion racing another writer
    with the restored Secret values, and `Drain` racing the scheduler.
12. `TopologyGraphs` of the server, one module per level and lens over sets of
    objects: every edge has its endpoints, owners are followed to the top.
13. `DockerLogFrames`: the reader of the multiplexed stream against a reference
    over bounded streams, with the oversized header of `hub.go:186`.
14. More theorems: the list of `DockerMap` hides no container whatever the networks say
    (the safety half of `ContainersSettle`), a message the socket was given stays in a timer
    until it leaves (that of `EverythingIsSent`), and a debouncer that returned was
    cancelled (that of `CancelledReturns`).
