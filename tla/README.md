# VeloGraphX: TLA+ specifications

VeloGraphX is a C++20 library for graphs that change: a mutable adjacency
store, algorithms that maintain their result across update batches, storage
helpers (temporal log, consolidation policy, partition cache, codecs) and a
small task runtime. This directory holds TLA+ specifications of its parts, the
TLC configurations that check them on small instances, and the theorems TLAPS
proves about them for every value of the parameters. Paths below are relative
to the repository root; `inc/` stands for `include/velographx/`.

## 1. Inventory

| Component | State | Operations | What is hard | What makes it correct |
|---|---|---|---|---|
| `DynamicGraph` (`inc/storage/dynamic_graph.hpp`) | per side: segmented CSR base, row patches, packed overlay, dirty rows, edge counter; version | `apply`, `add_edge`, `remove_edge`, `bulk_load_edges`, `maybe_compact`, `compact`, automatic maintenance | long sequences of updates and row compactions; two sides that are compacted independently; counters kept incrementally | the rows, counters and versions are those of a plain edge set; compaction is invisible; both sides describe the same arcs |
| `PackedDeltaStore` (same file) | arena, one `{offset,count,capacity}` per row, three counters | `set`, `set_if_changed`, `clear_range`, `repack` | relocation inside a shared arena, stale offsets, capacity after repacking | the arena implements a map from arcs to flags; row extents never overlap |
| `IncrementalBFS` (`inc/incremental/bfs.hpp`) | distances, reachable count, generation-stamped workspace | `apply`, `recompute` | deletions repaired before and after the graph changes, fallback threshold, last-write-wins batches, stamp wrap-around | distances equal a recomputation on the current graph |
| `IncrementalComponents`, `IncrementalTriangleCount`, `IncrementalKCore`, `IncrementalSSSP`, `IncrementalWeightedSSSP`, `IncrementalPageRank` | result vectors over a shared graph | `apply`, `recompute` | the graph is shared and mutated by `apply` of every analytic; rebuild on deletion; stale results | equal a recomputation on the current graph |
| `WeightedDynamicGraph`, `TemporalGraph` | weights; event log | `apply`; snapshots and windows | all-or-nothing batches; window boundaries | batch atomicity; snapshots are prefixes of the log |
| `ConsolidationController` (`inc/storage/consolidation.hpp`) | last epoch, hot streak | `observe`, `mark_consolidated` | patience and cooldown counted in epochs, sentinel values | no consolidation inside the cooldown or before the patience is reached |
| `PartitionCache`, `AsyncPartitionLoader`, partition files | LRU list and byte budget; files | `get`, `put`, `erase`; `load`, `prefetch`; `write`, `read` | files written in place and cut by failures; ids narrowed to 32 bits; files rewritten under the cache; one cache without a lock | no partial payload is returned; the budget holds |
| `WorkStealingPool` (`inc/runtime/work_stealing_pool.hpp`) | one deque per worker, outstanding/executed/submitted counters, first exception | `submit`, `parallel_for`, `wait_idle`, destructor | stealing, helping waiters, exceptions, shutdown, lost wake-ups | every task runs exactly once; `wait_idle` returns only when idle; it does return |
| `ThreadPool` (`inc/runtime/thread_pool.hpp`) | one queue, number of active tasks, stop flag | `submit`, `wait_idle`, destructor | notifications outside the mutex, tasks that submit tasks, shutdown | no wake-up is lost; `wait_idle` and the destructor return after the work |
| Partitions, NUMA scheduler (`inc/runtime/partitioner.hpp`, `numa_scheduler.hpp`, `numa_policy.hpp`) | a plan of vertex ranges | plan, choose a queue | two rules in two files that must count alike | ranges divide the vertices; tasks go where their data are |
| Codecs (`inc/storage/compressed_adjacency.hpp`, `compressed_decode_simd.hpp`) | none | encode, decode | block, lane and word boundaries, data that were cut | decode inverts encode; cut data are refused |
| Intersections (`inc/kernels/intersection.hpp`) | none | one kernel per processor feature, and a choice | registers and their rests | all kernels agree |
| Static CSR graph and algorithms (`src/csr_graph.cpp`, `src/algorithms.cpp`) | immutable graph | build, BFS, components, triangles, similarity | none that persists | rows and results are those of the edge set |
| I/O, Python bindings, benchmarks | none | load, save, forward | none that persists | not part of the models |

Interaction: every analytic holds a reference to one `DynamicGraph` and calls
`apply_updates` on it inside its own `apply`; analytics read `for_each_neighbor`
and `for_each_in_neighbor`, so they rely on both sides of the store agreeing.
The consolidation controller reads the store's counters and decides when the
rows are copied to a flat snapshot. The loader's `prefetch` runs cache code on threads of
`std::async`, without a lock. Nothing else is shared between threads except the two pools.

## 2. Plan

| Step | Modules | Question | Status |
|---|---|---|---|
| 1 | `GraphDomain`, `GraphSide`, `LogicalGraph`, `DynamicGraph`, `DynamicGraphProofs` | does the two-sided store with overlays and row patches behave as a set of arcs? | modelled, checked, proved |
| 2 | `DeltaMap`, `PackedDelta`, `PackedDeltaProofs` | does the shared arena implement the overlay map of step 1? | modelled, checked, proved |
| 3 | `GraphUpdates`, `IncrementalBFS`, `IncrementalBFSProofs`, `ReusableKeySet` | are the distances exact after every batch, repaired or recomputed? | modelled, checked, proved (safety) |
| 4 | `WorkStealingPool`, `WorkStealingPoolProofs` | does every task run once, and do waiting and shutdown end? | modelled, checked, proved (safety) |
| 5 | `MaintainedGraph`, `IncrementalComponents`, `IncrementalTriangles`, `IncrementalKCore`, `IncrementalPaths`, `IncrementalWeightedPaths`, `MaintainedAnalytics`, `MaintainedAnalyticsProofs` | the same question as step 3 for the other maintained results, over the same `GraphUpdates`; what happens when two of them share a graph | modelled, checked, proved (for one analytic on its graph where sharing breaks them) |
| 6 | `ConsolidationController`, `TemporalGraph`, `PartitionCache`, `StandaloneParts`, `StandalonePartsProofs`, `FoldedPartsProofs` | cooldowns, range boundaries, budgets | modelled, checked, proved |
| 7 | `PartitionLoader`, `AdjacencyCodecs`, `AdjacencyCodecsProofs` | what do readers make of files that a failure cut; do codecs invert each other at every boundary? | modelled, checked, proved |
| 8 | `ThreadPool`, `VertexPartitions`, `IntersectionKernels`, `StaticGraph`, `IncrementalPageRank` | lost wake-ups, queues near their data, kernels that agree, ranks that are never left outdated unnoticed | modelled, checked, proved (the pool: safety) |

`DynamicGraph` uses the overlay as a map (`GraphSide!Overlay`); `PackedDelta`
shows that the arena is such a map, operation by operation, so the two compose.
The analytics read and update a graph that is correct: `GraphUpdates` is the
arc set `LogicalGraph` promises, and the refinement of step 1 is what entitles
them to it (for the incoming lists, within the limits of `ViewsAgree`).

## 3. The dynamic graph

`GraphSide` is one adjacency side as a record: `base` and `patch` are sets of
pairs `<<row, dst>>`, `patched` the rows that have a patch, `plus` and `minus`
the overlay entries with `present` set and unset, `adds`, `dels` and `edges` the
counters the code maintains, `dirty` the touched rows. Sorted vectors are sets;
binary search and the merge loops become membership and union. `DynamicGraph`
holds an outgoing and an incoming side. `apply()` is a loop: each iteration is
the action `ApplyOp`, and `FinishApply` is the version increment with the
automatic maintenance behind it; nothing else is enabled inside a batch, so a
batch is any finite sequence of operations. The other actions are one public
method each.

`LogicalGraph` is the promise to callers: a set of arcs, a vertex count and a
version. `OutView` instantiates it with `edges <- View(outSide)`.

### Runs

| Run | Instance | Shows |
|---|---|---|
| `dg_directed_out` | directed, 3 vertices, arcs 0-1, 0-2, 1-2 and a self loop, one bulk load, thresholds 0 and 1/4, automatic maintenance from 3 entries | the outgoing side is canonical, its edge count exact, dirty lists complete (which makes `compact()` total), and it implements `LogicalGraph` |
| `dg_undirected_rows` | undirected star of 3 vertices, same thresholds | outgoing lists stay symmetric although hub and leaves are compacted at different times |
| `dg_directed_whole` | directed, only threshold 0 and `compact()` | incoming lists are the transpose of the outgoing ones |
| `dg_directed_rows` | directed, the default threshold 1/4 | **violation**: the two sides disagree |

Bounds. `WorkBudget` is the code's 8 and 1/4 the code's default, so with three
vertices a row with two entries is dense and one with a single entry is not:
that is the smallest instance where rows of one arc are judged differently. The
automatic maintenance needs 65536 entries in the code; `AutoMinDelta = 3` and a
row threshold of 1/4 scale it down. The version is an unsigned counter; a
modulus of 2 keeps the state space finite and still shows every increment.

The violation is the code's: `apply_arc` decides both overlays with the compact
membership it read on the outgoing side (line 730), while `maybe_compact` and
the automatic maintenance merge outgoing and incoming rows separately. The same
counterexample exists for undirected graphs, with the orientation of the arcs
as the asymmetry (set `Directed = FALSE`). `docs/dynamic-storage.md` promises
that both views agree.

### Proofs

`DynamicGraphProofs` proves, for every `MaxVertices`, `UpdateArcs`,
`BulkInputs`, `Thresholds` and either direction, from `GraphConstants` and
`StorageConstants` only: `TypeOK`, `OverlayCanonical`, `EdgeCountExact`,
`DirtyCoversOverlay`, `CompactIsComplete`, `UndirectedSymmetric` and the
refinement `ImplementsOut`. The inductive invariant `IInv` adds to them what
each side keeps on its own (`SideInv`: counters are cardinalities, no arc has
two entries): `EdgeCountExact` alone is not inductive because the difference
`edges + adds - dels` says nothing about its terms. The incoming side has
`SideInv` but not `Canonical`, which is exactly what the violation exploits.
`WholeCompactionKeepsViews` proves `ViewsAgree` under `WholeRows`, the
hypothesis that compaction never treats the rows of one arc differently.

## 4. The packed overlay

`PackedDelta` is `PackedDeltaStore` slot by slot: `arena` is `arena_`, `meta`
the rows' offset, count and capacity. `Grown` is `ensure_capacity` (a row moves
to the end of the arena with doubled capacity and leaves a hole), `EraseAt`,
`FlipAt` and `InsertAt` the three outcomes of `upsert`, `Repack` the copy of all
live rows into a new arena. What slots outside the rows contain is never read.

`DeltaMap` is the promise: the overlay record of `GraphSide`, changed by the
same `SetEntry` that `DynamicGraph` uses. `ImplementsMap` maps the arena's rows
to it.

Run `packed_delta` has two rows, three destinations and an arena of at most
six slots (`MaxArena`, a bound in the guard of growing). Six slots let one row
grow past the other, both move, leave holes and be packed; the capacities
1, 2, 4 all occur. States that differ only in slots no row uses are identified
(`VIEW ReadState`): every action and every property is a function of that view.
The run shows that extents never overlap (`ExtentsDisjoint`), rows stay sorted
and within their slots and the live count, which `repack()`
trusts when it drops the arena, is exact (`RowsWellFormed`), and the arena implements
the map.

### Proofs

`PackedDeltaProofs` proves all three for any finite sets of rows and destinations and an
arena of any size, from `DeltaConstants` only: `ExtentsHold`, `RowsHold` and
`ArenaImplementsMap`. None of the three properties is inductive alone, and they lean on one another:
the binary search finds an entry only in a sorted row, an insertion keeps a row sorted only
where the search stopped, shifting slots leaves other rows alone only while extents are
disjoint, and packing fits only if `live_entries_` is the number of used slots. `IInv` states the
three layers together: `Layout` (typed arena, rows inside disjoint extents), `Sorted` and
`Named` (ascending, known destinations), `EntriesCounted` (each counter is the size of its set).
The argument follows the layers. The `...Effect` lemmas say what an operation does to
slots, cell by cell; `InsertRow`, `EraseRow` and `FlipRow` turn that into which entries a row
holds; the `...Keeps` lemmas into the sets of present and absent arcs and their counts; and
`StepKeeps` into a step of `DeltaMap` or a stutter. `repack()` rests on
`PackedOrder` and `PackedCovers`: the new extents follow one another in row order and cover
the new arena without a gap. They need a largest and a smallest element of a finite set, which
`LargestOf` gets from the well-foundedness of the strict subset order, since
the library's induction over numbers cannot be instantiated (section 9).

## 5. Incremental breadth-first search

`IncrementalBFS` splits `apply()` where its loops and the graph update are, with
`phase` as the program counter, and the workspace that the calls of one analytic share: the marks
`affected_` and the losses `lost_parent_count_`, the numbers of shortest parents
`shortest_parent_count_` keeps once they have been counted (`parents`), and the two lists that say
what was written, `affected_vertices_` (`marked`) and `touched_loss_vertices_` (`touched`).
`RecordLosses` and `Orphaned` write the vectors and the lists where the code does, and
`ClearWorkspace` resets only what is listed: `affected` by the one list, `lost` and `parents`
by the other. It empties `touched`; `marked` stays until the next batch. `Begin` reduces the batch to the last write of
each edge and marks the targets of deleted shortest-parent arcs, `Invalidate`
propagates orphanhood before the graph changes, `UpdateGraph` applies the
operations one by one in order, then either `FallBack` recomputes or
`StartRepair`/`Repair`/`EndRepair` run Dijkstra over the affected vertices and
`Settle`/`Relax` propagate decreases and relax the added arcs. `Recompute` is the
public method and the constructor's body. FIFO work lists are sets, so any order of visits
is allowed except in the full search, which goes level by level. Nothing else
runs during `apply()`: the phases are there for the steps between which the code
keeps partial state, and for the two exit paths that must leave it clean.

Run `bfs` chooses in `Init` whether the graph is directed, starts from one vertex
and applies every batch of one or two operations over seven edges (a diamond
with a chord, a way back and a tail), so batches contain reversed pairs, duplicates,
add-then-remove and growth, in any sequence. With the fallback fraction 1/2 and up to five
vertices both repair and fallback occur: the limit, the truncated product, is 1 or 2
and up to four vertices are orphaned at once. `ExactAtRest`
compares with shortest distances by characterisation: 0 at the source, every
other finite distance one more than some in-neighbour's, no arc skipping more
than one level; an assignment with these properties is unique. The other
properties are those of the intermediate state: a vertex that keeps its
distance in the repair still has a shortest parent (`SurvivorsSupported`), no
finite distance is ever below the true one (`NeverTooSmall`), the reachable
count is the number of finite distances (`ReachedCounted`), and the workspace never says anything
out of date (`WorkspaceClean`): between calls, after both exits, no vertex is marked, has losses
or has a cached count that a list has missed, and during the marking a cached count is the
number of shortest parents in the graph. Its mutant lists a vertex only when it
is orphaned, so that a survivor's losses stay for a later batch. `Returns` is liveness:
`apply()` and `recompute()` end. Its fairness, `WF` on the internal steps,
says only that the calling thread keeps running; no call is ever forced.

Run `bfs_late_source` is a **violation**: an analytic built for a source that is
not yet a vertex keeps reporting unreachable when a batch later creates the
vertex, against the exactness `docs/incremental-bfs.md` promises.

`ReusableKeySet` is the generation-stamped hash set `apply()` reduces batches
with; section 8 says how it is checked and proved.

### Proofs

`IncrementalBFSProofs` proves all safety properties of run `bfs` for any number of
vertices, either direction, any fallback fraction and any set of batches of any length.
Between calls the invariant is short: no arc shortens a distance, every reached vertex
has a parent one nearer (`Settled`). What makes it inductive is, for each phase, what the
call still owes:

- `Marking`: for a vertex not marked yet, its count is exactly the number of shortest
  parents that it has lost to removals or to marked vertices that were processed;
- `Updating`: while the operations go in, in order, only arcs whose last write is an
  addition break the triangle inequality, and each survivor keeps a parent whose arc no
  remaining operation removes;
- `Repairing`: an arc breaks it only if it is an addition or leaves an affected vertex: towards
  affected ones while the heap has the current distance of its tail, towards others by no more than
  the tail's distance has fallen since the marking;
- `Pending`: only arcs out of the queue, or of additions not relaxed yet, break it;
- `Spreading`: the full search owes the arcs out of one level.

Beside them `Listed` says of every phase what the workspace and its lists owe one another: every
marked vertex is in `marked`, every vertex with losses or a cached count is in `touched`, and as
long as the graph is the one the counts were taken from, they are current (`Counting`).
Without it resetting what is listed would not be seen to reset everything. `IInv` is
`Owing /\ Listed`, where `Owing` is the disjunction above.

`NeverTooSmall` joins them: while distances are lowered, every reached vertex but the source has
an in-neighbour that is nearer by one or more, so that, when
nothing is owed any more, the distances are exact, and not merely consistent. `ReachedIsCounted`,
`MarkingComplete`, `NoneTooSmall` and `WorkspaceLeftClean` need `BFSConstants` only.
`DistancesExact` has the hypothesis `SourceFromStart` (the graph has the source when the
analytic is built), without which it is false, as `bfs_late_source` shows.

`DistancesAreShortest` turns `ExactAtRest`, which speaks of single arcs, into what it
means: a vertex is reached exactly if a path leads to it, and its distance is the length of a
shortest one. Both directions are inductions over the length of a path or the value of a distance;
they are done by well-foundedness on sets of counterexamples.

## 6. The work-stealing pool

A state of `WorkStealingPool` has a program counter per thread: the workers, the clients
that submit and wait, and the owner that destroys the pool. A critical section of
a deque's mutex is one action; each access to an atomic counter is one action;
the scan of the deques looks at one deque per action, in the code's order (own deque from
the back, then group, then others from the front; waiting threads from the front of each).

| Code | Actions |
|---|---|
| `submit` 59-68 | `Submit`, `CountSubmitted`, `Push`, `NotifyWorkers` |
| `worker` 212-224 | `Top`, `Look` (`Take`/`Miss`), `Poll`, `Block`, `Timeout` |
| `drain_until_idle` 130-141 | `Drain`, `Look`, `Poll`, `Block`, `Timeout` |
| `complete_task` 118-128 | `Finish`, `Record`, `CountExecuted`, `Retire`, `Announce` |
| `wait_idle`, `parallel_for` | `WaitIdle`, `Rethrow` |
| destructor 45-52 | `Destroy`, `Stop`, `WakeAll`, `Join` |

`notify_all` wakes only threads that are already blocked, and a thread can be
between evaluating its predicate and blocking: missed notifications are in the
model, as the code notifies without the mutex. `Timeout` is the end of the
one-millisecond `wait_for`. A task may submit its children while it runs
(`Parent`) and may throw (`Throws`). `started`, `ran`, `owed` and `covered` are
history for the properties.

Run `pool_clients`: two workers in two groups, two clients with a throwing task each,
both tasks hinted to the same deque so that stealing, popping and helping
compete for it; no task submits another. `ExactlyOnce`, `WaitIdleCovers`, `FailureSurfaces`,
`ShutdownDrains`. Run `pool_liveness`: one client, a task that submits one that
throws; liveness: every submitted task runs, `wait_idle()` returns, the destructor ends. That tasks which are submitted while
the pool is being destroyed still run is `DestructorEnds` here, and
`ShutdownLosesNothing` among the theorems.

Fairness: each thread's pool code is weakly fair (the operating system
schedules it and critical sections are short), task bodies end, and a blocked
wait times out. Nothing makes a client submit, wait or leave. The liveness
properties need the timeout: their mutants take it from workers or from waiting threads and the
pool hangs on a missed notification. `CHECK_DEADLOCK FALSE` because a destroyed
pool has no next step.

Left out: the steal counters (nothing reads them), allocation failure inside
`push_back`, the arithmetic of `parallel_for`'s ranges, and `wait_idle()` from
inside a task, which the code neither supports nor forbids (it would wait for
its own outstanding unit).

### Proofs

`WorkStealingPoolProofs` proves the safety properties of `pool_clients`, `TypeOK`, the count of
outstanding tasks (`Accounting`) and `IdleMeansCounted` (the statistics agree whenever nothing is outstanding) for any number of workers, clients and tasks, any grouping of the deques, any nesting
of submissions and any set of throwing tasks, from `PoolConstants` only. The
properties themselves are not inductive: that `outstanding_` is the number of
unfinished tasks says nothing about where they are. `IInv` adds

- `Roles`: what a thread's place in the code says of the task it holds or hands
  over;
- `Places`: every submitted task that has not run is in exactly one deque, in one
  thread's hand, or being handed over by the thread that submits it;
- `Counted`: which tasks each counter has seen, given the threads that stand
  between running a task and counting it;
- `Failures` and `WaitIdleCovers`: a recorded exception belongs to a task that
  ran, and what a `wait_idle()` covers has run;
- `Closing`: the owner sets `stop_` only after it has read
  `outstanding_ = 0` with no client left.

The heart is `NothingOutstanding`: in a state of `IInv`, `outstanding_ = 0`
implies that every submitted task has run and every deque is empty, whoever reads
the counter. `wait_idle()` and the destructor act on nothing else. The theorems
are `TypeCorrect`, `AccountingHolds`, `EachTaskOnce`, `IdleCounted`,
`WaitingCovers`, `FailuresSurface` and `ShutdownLosesNothing`. The liveness
properties are model-checked only.

## 7. The other maintained results

`MaintainedGraph` holds what these analytics share: the graph as an arc set, the
batch of the running `apply()` and the loop that applies it. Each analytic is a
module of its own, with its private state and the phases of its `apply()`:

| Module | State | Phases of `apply()` |
|---|---|---|
| `IncrementalComponents` | `parent_`, `rank_`, marked vertices | `BeginComponents` (components that lose an edge, on the old graph), updates, `TakeApart`, `Rebuild` per arc between the vertices taken apart, `Replay` per update; `QueryComponent` compresses paths |
| `IncrementalTriangles` | `triangles_` | `CountUpdate` per update, against the graph the earlier updates left |
| `IncrementalKCore` | `core_`, marked region, heap | `BeginCores`, updates, `PeelCores`, then `Peel` per heap pair |
| `IncrementalPaths` | `dist_`, priority queue | updates, `RestartPaths` after any removal, else `RelaxPaths` and `RelaxUpdate` per update, then `Propagate` per queue pair |
| `IncrementalPageRank` | which ranks are up to date, `dangling_vertices_`, active vertices, round | `BeginRanks`, updates, then `SolveAfresh` or `StartRounds`, `Round` (with its own fallback), `EndRounds` |
| `IncrementalWeightedPaths` | the same, `requires_recompute` | `RejectWeighted` or `BeginWeighted` (does a last update remove or lengthen an edge of the old graph), updates, `RestartWeighted`, or `RelaxWeighted` with `RelaxKept` or `PassOver` per update, `Propagate` |

`MaintainedAnalytics` composes them: a caller attaches analytics to a graph and
gives each batch to the `apply()` of each, which also applies it to the graph,
as the code does. Between batches it may call `recompute()` and `component()`.

Run `analytics` attaches one analytic at a time, directed or not where the
constructor allows both, to an edgeless graph of one or two vertices, and
applies one- and two-update batches over all edges of four vertices, one edge in both
orientations and a self loop beyond the graph's end. Four vertices are the
smallest graph with a core of 3, with triangles that share an edge, with two
components of two to merge and split, and with a path whose
shortcut appears and disappears. Every result is compared with a definition
that does not mention the algorithm: reachability for components, 3-cliques for
triangles, the best induced subgraph for cores, the characterisation of
shortest distances for paths. `StructuresSound` adds to the types that parents have
higher ranks than their children, which is what makes `find()` end.
Deadlock is checked: an `apply()` that got stuck between its phases would be one.
Heaps are sets, because a pair that is met twice is skipped
the second time. The source of the paths is a vertex from the start (see
`bfs_late_source` for what happens otherwise). Weighted batches update a
triangle with weights 0, 1 and 4 under an `Infinity` of 6, so that edges of no
length, ties, updates that lengthen and shorten one edge in one batch, and paths that
are too long to have a distance all occur; weight 6 is the smallest that is rejected, and stands
alone, before or after an update of the base of the triangle that would be accepted: a
rejected batch changes nothing, wherever in it the weight is. The sums are integers: that those
of the code, which compare with a quarter of the 64-bit range before they add, do not wrap is not checked.
`WeightedMaintained` asks more than the characterisation used for unit weights, which
would accept distances that only a cycle of weight 0 supports: every set of reached
vertices without the source must be entered by an arc that accounts for a distance.

PageRank's numbers are abstracted to whether they are up to date. A batch outdates
(`stale`) the vertices whose equation in the new graph differs from that in the graph
`before` it (`Moved`): in the number of vertices, the number without outgoing edges, or the
in-neighbours and their degrees. The comparison is by batch because that is what the
code sees: a vertex that loses its last edge and gets it back in one batch has dangled
in between, but no equation has changed. An
evaluation brings a vertex up to date and may or may not move its rank by more than the
tolerance (free); if it does, its targets are outdated. A full solution brings
everything up to date, which assumes that it converges (damping below 1 and
enough iterations). `RanksMaintained` says that after every batch whatever is
outdated was left active when the rounds ran out (`loose`: the code promises nothing for these
until the next full solution, and neither does the property), and that the number of dangling
vertices, which decides whether local repair is allowed, is that of the graph.
Batches over a ring of four vertices with a chord and an edge back, directed or not, fallback
fractions 3/2 (never reached: all rounds happen) and 19/20 (`apply_validated()`'s,
reached by three of four vertices) and two rounds exercise every way out of `apply()`. `apply_validated()` is `apply()`
and possibly a full solution, which is `RecomputeRanks`.

Run `shared_graph` is a **violation**: with triangles and components on one graph,
each given every batch, `ComponentsMaintained` fails. `apply()` asks the graph
whether a removed edge exists (`connected_components.hpp:49`); when the other
analytic was served first it does not any more, and a component that has split keeps one
representative. `docs/dynamic-connected-components.md` says that connectivity maintenance
can be combined with other maintained analytics.

### Proofs

All seven invariants of run `analytics` are proved for any number of vertices, any set of
batches of any length, any `Infinity`, fallback fraction, number of rounds and choice of
attachments, from the named assumptions of the constants only, in `MaintainedAnalyticsProofs`.

`PathsStayShortest`, `WeightedStayShortest`, `RanksStayFresh` and `StructuresStaySound` hold
under every attachment (weighted paths and ranks are always on a graph of their own, by
`AttachmentConstants`). `ComponentsStayExact`, `CoresStayExact` and `TrianglesStayExact` have the
hypothesis `Alone`: one analytic is attached. Run `shared_graph` refutes the first without it;
the other two also read from the graph what an update changes. The hypothesis is met by every
behaviour of run `analytics`.

Two parts serve all of them. `Base` types the graph and the batch, and says that edges join two
known vertices, that an undirected edge is two arcs of one weight, and that a phase belongs to an analytic
that is attached. `InGraph` says how far a batch is in the graph: the arcs whose last
update (`Final`) is behind `next` are as that update wants them, so that after the updates the
graph is the goal (`GoalEdges`, `GoalWeight`). Each analytic then has the invariant of
what its phase still owes:

- *Paths* (`PathsInv`). Whatever has been relaxed, the reached vertices are *supported*: every set of
  them without the source is entered by an arc that accounts for a distance. While the
  updates go in, the old distances can be repaired (`Reparable`): no update that is kept
  removes or lengthens an edge. After that an arc that would shorten a distance leaves
  a queued vertex or is still to be relaxed (`Owing`). When nothing is owed, support and the
  triangle inequality are the two halves of `WeightedExact`. That the queue gives the nearest vertex
  first is not used: it makes the algorithm fast, not correct.
- *Components*. `ForestInv` says that ranks grow towards the roots, so `find()` ends; the recursive function
  that models it is shown to be the only one that is constant along parents (`Roots`). `ComponentsInv` then
  compares it with reachability: what a removal takes apart are whole trees, vertices that share
  a root are connected in the graph, and connected vertices that do not share one are joined by an
  update that is still to be replayed or an arc still to be rebuilt.
- *Cores* (`CoresInv`). While the updates go in, no arc leaves the marked region other than to the end
  of an update (`UpdateInv`). During peeling (`PeelInv`), vertices outside the region or
  removed have their core number, the rest lies in a set that is dense enough for the current
  level, and no set denser than that has lost a vertex. Here the heap's order
  matters: the level is right only because the least degree is taken.
- *Triangles* (`TrianglesInv`). The count is that of the graph after each update: an edge closes one
  triangle per common neighbour of its ends, which is a bijection between sets; a recount meets each
  triangle once for each of its edges.
- *Ranks* (`RanksInv`). Until its updates begin, the analytic knows the number of dangling vertices of
  the graph. If neither that number nor the number of vertices has changed, only written arcs can
  differ, so what has moved has been activated; in the rounds, what is outdated is active or was left over
  (`loose`).

`StructuresStaySound` (`AllSound`) adds that no unsigned subtraction goes below zero, that
stored weights are below `Infinity` because a rejected batch does not reach the graph, and that peeling
removes only vertices of the region.

One proof corrected the model it is about. `RanksMaintained` could not be
proved while each update, and not each batch, outdated ranks: a batch that removes and restores the
only edge of a vertex outdated everybody and activated few. It holds of the code, and now of
the model, because the equations before and after the batch are the same.

## 8. Parts used on their own

`StandaloneParts` composes what shares no state: a behaviour uses one of its parts
(`part`), so that one run, `standalone_parts`, covers all of them; each has
a module with its own state, actions and property. `CHECK_DEADLOCK FALSE`,
because bounds stop most of them and a destroyed pool is done.

The proofs are in three modules: `StandalonePartsProofs` (key set, controller, cache, loader,
pool, partitions), `FoldedPartsProofs` (temporal graph, kernels, static graph) and
`AdjacencyCodecsProofs`. The parts of the last two compute their results with loops over
sequences, which the models write as folds. `FoldLeft` is defined by an iteration over sets of
numbers, `MapThenFoldSet`; `FoldRuns` derives from that definition, by well-foundedness
on sets of counterexamples, that a fold has a *run*: a function on `0 .. n` that begins with the
base, takes one step per element and ends in the result. Every loop below is then treated like
an action system: an invariant of `here`, the state of the run after `k` steps, is shown to hold of the
base and to be kept by a step.

### State over many calls

`ReusableKeySet` (three keys that collide, a generation counter of modulus 4 in
place of 2^32, so that it wraps): `KeySetSound` says that the set holds exactly the keys of the current
batch, and that a free slot always remains, without which linear
probing would not end. `KeySetAnswers` proves it for any keys, hash function, table sizes and
width of the counter: the slots in use hold the content, each key once (`Stored`), no slot is
stamped with a generation to come (`Stamped`), and probing for a key of the content meets
only occupied slots of other keys before its own (`Reachable`). A table of more than
twice the announced keys leaves a free slot, and a probe passes every slot (`EverySlot`).

`ConsolidationController`: a caller observes once per epoch, from epoch 1 on, and
after a request consolidates or not, as the loop of
`benchmarks/steady_state_storage.cpp` does. (An epoch of 0 means "never consolidated" to
the code, so a caller that counts from 0 gets no cooldown after a first consolidation there.)
The floating-point ratios are
abstracted to the limits they exceed. `epochs` is history; `RequestsJustified`
recomputes from it whether there should be a request: at once at the storage
limit, else exactly when the last `Samples` epochs were all slow with grown
storage, outside every cooldown and not consolidated. Eight epochs with a
cooldown of 3 and 2 samples have room for two consolidations with the quiet and the bad
epochs around them.
The proof, `RequestsHold`, says of each counter which part of the history it is:
`last_consolidation_epoch_` is the latest cutover and the streak is the longest run of bad
epochs that reaches the present, neither more nor less.

`TemporalGraph`: the log and the queries that replay it. `past` is history: the
graph of each version. `HistoryReplays` says that snapshots restore it, that
`changes_between_versions` leads from one version to another, and the same of
times, windows included, for logs whose updates came in the order of
their timestamps; without that order the code's snapshots are the replay of the
filtered log and nothing more. Two batches of one or two updates with three
timestamps reach both ends of every range, batches that span a bound, and add
and remove of one edge on either side of it.
`HistoryReplayed` proves it for any batches, of any length. Replaying a set of logged updates is shown
to have an outcome that does not mention an order of evaluation (`Outcome`): an arc is there if the
last update that writes it adds it, or if none writes it and it was there before. Then replaying a
prefix of the log again, from any state it has led through, changes nothing (`OutcomeTwice`), and what a
filter by version or time keeps of the log is such a set of updates. `TemporalInv` is what the
log's entries say of `past`: each is the batch that led from one version to the next,
with its earliest and latest time.

`PartitionCache`: three partitions of sizes 0 to 4 in a budget of 3. `CacheSound`
says that the accounted bytes are those cached, within budget, that the list
and the map name the same partitions, and, with the order of uses
as history, that nothing is evicted while something used before it stays.
`CacheHolds` proves it for any partitions, sizes and budget, for the cache on its own and under
the loader: the list is, in every state, the front of the list of all uses (`Leads`). A use
moves an entry to the front of both, an erasure takes it out of both, and an eviction shortens one of them
at its back.

### Files and the loader

`PartitionLoader` extends the cache by the files. `Truncate` is the opening of a
file for writing, `Extend` any progress of the write behind it; a process that
dies or a write that fails simply does not extend the file to its end. (A write may even be
reported as done and fail when the stream is closed: its result is not
checked, `partition_file.hpp:44`.) `Load` is `load()`, or a `prefetch()` whose future the caller waits
for: the cache first, then `read_mmap_or_fallback`, by either of its two ways,
then `put`. `LoadedWhole`: whatever was interrupted, every cached payload is complete, has
the size it is accounted for, and belongs to a partition that agrees with the
requested one in the lower 32 bits. Bounds: one path, ids 0, 1 and 4 where
cache ids have modulus 4, so that 0 and 4 share an entry and 0 is also what a
reader finds in a header it could not read; sizes 0, 1, 2, 4, the last above the budget.
What is deliberately not claimed: that a cached payload is the latest one in the file, or
of the full 64-bit id. `LoadedHolds` proves it for any files: an accepted file is
one whose length is that of its header and payload, by either reader
(`WholeWhenAccepted`). Overlapping loader calls race on the cache, which has no
lock; they have no defined outcome and are not modelled.

### The thread pool

`ThreadPool` has one action per critical section, and one for the notification
that follows `submit()`'s. Workers sleep in `cv_` until they are notified:
a condition variable may wake without reason, and what holds without that holds with it,
because a woken thread only evaluates its predicate again.
Two workers, two callers and three tasks, which callers or running tasks submit.
`NobodyForgotten`: while a worker sleeps, each queued task has an awake worker
or a notification that is still coming; a stopping pool wakes everybody; nobody waits for a pool
that is idle. This is what "no lost wake-up" means in a state, so it needs no
fairness. `ReturnsAfterWork`: `wait_idle()` covers all tasks submitted before it, running
ones and the tasks they submitted until then included, and the destructor all tasks. A task that throws ends the
program (there is no handler in `worker()`) and is left out.

`StandalonePartsProofs` proves both, `NoWakeUpLost` and `WaitingCoversWork`, for any
finite sets of workers and callers and any number of tasks, from
`ThreadPoolConstants` only. `NobodyForgotten` compares two numbers, and every step has to change
them together: `submit()` adds a task and a thread that will notify, a worker
that takes a task leaves `Ready` with it, a notifier hands its place to the worker
it wakes, and a worker that finds the queue empty may leave because no task is left.
`ReturnsAfterWork` says nothing about where unfinished tasks are, so the inductive `IInv` adds
`Whereabouts` (a task has run, is queued, or is run by a worker), `Counted` (`active_` is the
number of workers that run a task), `Numbered` (queue, hands and histories hold submitted tasks) and
`Leaving` (workers leave a stopping pool, the last one an empty queue). `Whereabouts` and
`Counted` give `IdleMeansDone`: the predicate of `wait_idle()` holds only when
everything submitted has run.

### Functions over all small inputs

For code that keeps nothing between calls, the state is its input: a caller extends
a list, two rows, an edge set or a choice of machine, and the property compares
what the code computes with a definition in terms of sets.

`AdjacencyCodecs`: every codec of `compressed_adjacency.hpp` and the vectorised
decoder, with the widths as parameters: ids of 4 bits, variable-length groups of 3, fixed-width
lanes of units of 1 bit, registers of 2 values, blocks of 1, 2 and 3, sorted lists
of up to 3 ids. Ids then need one or two groups, with the last group wider than
what is left of the word, as in the code (32 bits in groups of 7), all three lane widths occur, and lists
end inside, at and beyond a block and a register. `CodecsSound`: each decoder returns what
its encoder was given, and refuses data that lost the end of the payload, the
last block or both.

`CodecsSoundAlways` proves it for ascending lists of any length and all widths, block sizes and registers,
from `CodecConstants` only (a word has four units; a group is narrower than a word).
- *Numbers.* The prover knows nothing of `2 ^ n`; what is needed of it follows from the number of
  subsets of `1 .. n` (`PowerDoubles`, `PowerAdds`, `PowerGrows`). `DigitSplit` and `NextDigit`
  say how a remainder grows by one digit.
- *Bytes.* After `i` bytes of a value the reader's `value` is its remainder modulo `2 ^ (GroupBits * i)`
  and its `shift` is `GroupBits * i` (`Middle`); the last byte is the one without a mark, no
  earlier shift reaches the word (`ByteCountOK`), and it appends the value to the deltas (`ReadsOne`). So
  decoding goes from one beginning to the next (`Begun`), and the deltas add up to the ids
  (`DeltaRoundTrip`).
- *Blocks.* `Cuts` are the places between blocks, and a block the slice between two of them
  (`BlocksOK`). Stored offsets are sums of lengths; `FlatPlaces` and `FlatSums` say that this is where
  the concatenated payload has the bytes of each block. Decoding the first `k` blocks gives the ids up to the `k`-th cut
  (`DecodesBlocks`); with all blocks that is the list, and with one offset less it is shorter than the stored count
  (`BlockedCut`).
- *Lanes.* The registers and the tail visit the lanes of a block one after another (`RegisterPlace`), so
  unpacking returns the deltas at any width (`UnpackOK`). What passes the checks of the headers has as many ids as
  the header says and all bytes (`SoundEnds`), which no cut of either end has (`FixedCut`).

`IntersectionKernels`: rows are any two subsets of six ids, with registers of 2, 3
and 1 ids, words of 3 bits and limits scaled down such that rows of
at most six ids make `select_intersection` choose each kernel on some processor. `KernelsAgree`: all
kernels, and the choice for any set of processor features, count the common ids.
`KernelsAgreeAlways` proves it for any two ascending rows, any registers, words and limits. The invariant of
the merge and of every block kernel is `CountSound`: the count is the number of shared ids among the first `i` of
one row or the first `j` of the other. It holds because whichever block is passed, its last id is not above the
other's, so none of its ids is met later. Galloping and the bitmap count places of one row
whose id the other has, which is the same number because rows are ascending (`PlacesCount`).

`StaticGraph`: the CSR constructor and the algorithms on it, for any subset of
eight edges of four vertices (both orientations of one, a self loop), directed and
not. `StaticExact`: rows are sorted and exactly the arcs, in both directions;
distances, component numbers, triangles, common neighbours and union sizes are those of the edge set.

`StaticExactAlways` proves it for any finite set of edges.
- *Rows.* The constructor's counting sort has placed, after `k` of the sorted edges, exactly these in their cells,
  and each row's cursor counts what is before it (`FilledUpTo`); rows ascend because the edges were sorted.
- *Searches.* `Ball` is what is within a distance, the definition results are compared with. A search
  keeps to `FloodInv`: after `k` rounds `k` vertices are dealt with unless the queue
  is empty, and all their neighbours are labelled; as there are no more rounds needed than vertices, the queue is
  empty in the end and everything in reach is labelled. `BfsInv` adds that labels are distances
  and that those in the queue ascend by one at most.
- *Components* are closed and, arcs having reverse arcs, a partition; the loop over the vertices numbers
  them in the order of their least vertices (`Numbered`).
- *Triangles* are sets of three vertices, each found once, on the arc between its two least ones.

`VertexPartitions`: ranges, the nodes of ranges and of workers, and the queues
tasks get, for pools of 1 to 4 workers on machines with no, one, two or three
nodes (with gaps in their numbers, one machine's in descending order) and up to five vertices and
partitions. `PlacementSound`: the ranges divide the vertices evenly; queues exist; and
a task's queue belongs to a worker on its data's node, *provided* workers are a
multiple of nodes, every node has a partition and nodes were detected in ascending order.
The proviso is the code's: `numa_scheduler.hpp` counts queues over sorted node ids,
`numa_policy.hpp` counts workers over the order of detection. That worker `i` runs where
`choose_numa_placement` puts worker `i` is the caller's business: the pool pins no thread.
`PlacementHolds` proves it for machines, pools and graphs of any size. It is
arithmetic: the ends `(n * p) / parts` ascend from 0 to `n` in steps that differ by one at most
(`DivStep`, `RangeSize`), so each vertex has one range (`OneRange`); and with as many
workers on each node, `(rank + turn * nodes) % workers` leaves the remainder `rank` modulo
`nodes` (`Stride`), which is the position of the node in the order of detection.

## 9. What rests on what

Proved for all parameters: the dynamic graph's invariants and its refinement of
`LogicalGraph` (outgoing side), the packed arena and its refinement of the overlay map,
all safety of the incremental BFS, all invariants of the other maintained results (components, cores
and triangles for one analytic on its graph), the safety properties of both pools, and the
properties of all other parts of section 8. So every invariant and every refinement that a passing run checks is
also the statement of a theorem. (`ViewsAgree` and `ComponentsMaintained` fail in the runs that say so;
the theorems about them state the hypothesis under which they hold.)

Checked by TLC only: liveness. `Returns`, `SubmittedRuns`, `WaitIdleReturns` and
`DestructorEnds` hold under weak fairness, whose meaning involves `ENABLED`; that is beyond the prover.

Induction over numbers, sets and sequences is done without the library's induction theorems, which take an operator as a
parameter that no installed prover instantiates: by least counterexamples
(`AllNumbers`, `AllSets`), for sets that are named in the proof.

Assumed throughout: memory allocation succeeds; a `DynamicGraph` and its
analytics are used by one thread at a time, as the code has no locks there; vertex
ids stay within 32 bits.

Not modelled, and why: the numerics of either PageRank, of Jaccard similarity
and of the cost estimates (`execution_plan`, `push_pull`, `compression_policy`, `degree_frontier_scheduler`),
which are floating-point; text and binary graph files (`io.cpp`, `binary_graph.hpp`), which are parsed
and written in one sequential pass; the rebuild of a flat snapshot after a
consolidation request, which is a bulk load of the rows; CPU pinning, memory policies
and prefetch advice, which are best-effort calls without an effect other code relies
on; the adapters of `graph_access.hpp`, which forward; benchmarks, tools and the Python bindings.

Only proved, because a run of their own would say no more: `TypeOK` and
`CompactIsComplete` of the dynamic graph; `TypeOK`, `Accounting` and `IdleMeansCounted` of the pool.
