# A verification project for MathScript

MathScript is a C++ mathematics library with an interpreter, a Qt window, an
SPMD server over MPI and a few run-time services. Most of its code computes:
deterministic functions of their arguments. This project is about the rest,
the code with state that several actors or a long history can get wrong: the
thread pool, the expression interner, the interpreter's session with its
window and worker, the MPI server, the NCCL communicators and the consensus
simulation; and about one library of pure algorithms, graphs, whose results are
easy to define and hard to get right.

All paths below are in the repository. `PROJECT.json` maps every definition to
the lines it models and lists components, runs, mutants, hazards, findings and
theorems.

## 1. Inventory

### Thread pool — `runtime/thread_pool.{hpp,cpp}` (modelled)

* State: `config_`, `concurrency_` (the window, 0 until first used),
  `in_flight_`, one mutex, one condition variable. There are no workers:
  `submit()` is a counted `std::async`, and every task runs on its own thread.
* Operations: `configure`, `initialize`, `submit`, `wait`, `parallel_for` with
  and without a grain, the destructor.
* Hard: the gaps between critical sections (`concurrency()` tests, unlocks and
  initializes), exceptions from bodies and from `std::async`, tasks that call
  the pool they run on, a pool that dies while futures are still held.
* Correct when: the counter counts; `wait()` ends exactly when nothing is
  unfinished; `parallel_for` runs every index once and lets no body outlive the
  call whose functor it refers to; windows and chunk counts keep their limits.

### Expression interner — `sym2/expr.cpp` (modelled)

* State: one table, hash to bucket of weak references, under one mutex; shared
  reference counts that rise and fall outside it; a counter that triggers a
  sweep every few insertions.
* Operations: `make`/`intern`, `sweep_expired`, and the release of a handle,
  whose destructor releases children.
* Hard: a node expires while a scan decides whether to return it; children are
  compared by address and addresses are reused; allocation may throw half way.
* Correct when: equal live expressions are one pointer, and the table's size
  follows what is alive.

### Interpreter session, window and worker — `interp/repl_engine.*`, `gui/MainWindow.cpp`, `gui/ReplWorker.*` (partly)

* State: variables in two maps (scalars, matrices), plot, history, session
  handles, draw counter, the stack of open scripts; session files on disk; the
  window's busy flag, script queue and copies of variables and plot; the event
  queues of two threads.
* Operations: `execute` with the assignments, calls, `run`, `save`, `load`,
  `clear` it dispatches to; in the window submit, run script, stop, menu save
  and load, and the reply handlers.
* Hard: scripts that source scripts, errors that unwind them, saves that are
  cut short, Stop racing with replies, panels that are copies.
* Correct when: one name has one value; a load restores what was saved or
  changes nothing; one command is under way at a time; the panels show the
  session whenever input is accepted; the window always becomes ready again.

### SPMD server — `exe/mathscript_server.cpp`, `distributed/*` (modelled; the numerical solvers partly)

* State: per rank its position in script, `-e` commands and broadcast lines,
  its session, and the collectives it has entered.
* Interaction: only MPI collectives, matched by order.
* Hard: a rank that errs, exits or runs ahead on its own leaves the others in a
  collective; results that differ between ranks make a later command differ.
* Correct when: all ranks run one command stream, enter the same collectives in
  the same order, keep equal sessions and stop together.

### Consensus simulation — `frameworks/izaac` (modelled)

* State: per node role, term, vote, log and commit index.
* Operations: `run_election`, `replicate`, `current_leader`, each one sequential
  call that touches all nodes.
* Hard: split votes with an even number of nodes; long sequences of elections
  and replications that leave logs of different lengths.
* Correct when: there is one leader with a majority, one vote per term, and
  committed entries agree.

### NCCL clique — `cuda/nccl.cpp` (modelled)

* State: per process the communicators, streams and devices of its clique, its
  rank and world size, `attempted_` and `ready_`; the handles the driver holds.
* Operations: the lazy start (`ensure`), `nccl_init_rank`, `nccl_finalize`, and
  all-reduce, broadcast, reduce and all-gather on scalars, host vectors and
  device buffers.
* Hard: any CUDA or NCCL call may fail between two steps of a start or a join;
  the modes number ranks differently; NCCL pairs the collectives of different
  processes by their order alone, so a shortcut on one rank mixes up the rest.
* Correct when: a clique is whole or nothing and no handle is lost; an answer is
  what the collective means or a refusal; ranks wait in the same call; they return.

### Graph library — `graph/graph.cpp` (partly)

* State: a `Graph` is adjacency lists and an edge counter, changed by `add_edge`
  and `remove_edge`. Everything else is a function of it.
* Hard: one undirected edge is two entries; low-links, buckets, residual arcs and
  contracted cycles are arrays updated while they are walked; the planarity test
  keeps a stack of conflicts that it merges, trims and refers to by chains.
* Correct when: the lists describe one graph, and every algorithm returns what
  its name says.

### How they interact

The window owns a worker that owns an `Interpreter`; `mathscript-repl`,
`mathscriptc` and each rank of the server own one each. The interpreter holds
`Cluster` objects as session handles and calls the distributed kernels, which
use the MPI context. The interner is process-wide, used by symbolic commands;
the thread pool and the NCCL clique are library services (`dispatch` reports on
the pool, clients call both). The interpreter builds a `Graph` from an adjacency
matrix for one command and drops it. No component calls back into another, so the models meet at two places:
`ReplGui` extends `Interpreter`, and `Server` carries the part of a session
that ranks can tell apart.

### Not modelled

The remaining components are in `PROJECT.json` with a reason each. In short:
numerical, symbolic, cryptographic and image code is stateless; parsers and
printers are recursive functions on data; the SIMD/ISA gate has a harness of its
own in `verification/`; the memory allocators and the CUDA stream pool have state
and are next in the plan. The repository is large (more than 170,000 lines of
implementation) and most of it is of the first kind, so the map covers a small
share of all lines and most of the lines that keep state.

## 2. Modules

| module | models | state ↔ code |
|---|---|---|
| `ThreadPool` | the pool | `pc` is the place of a thread between two critical sections; `frame` the locals of `parallel_for`; `job` what a task was submitted for |
| `TaskGroup` | abstract: what `submit` and `wait` promise | sets of running and finished tasks and of waiting threads |
| `ThreadPoolProofs` | proofs about `ThreadPool` | |
| `Interner` | `make`, `intern`, the sweep, reference counts | `alive`/`dying` are use counts; `buckets` the table; `call` the locals of `intern` |
| `HashCons` | abstract: a request as one atomic step | |
| `InternerProofs` | proofs about `Interner` | |
| `Interpreter` | session, scripts, session files | `state`, `objects`, `draws`, `stack` are the members; `phase` is where `execute` is |
| `ReplGui` | window, worker and their queues, over `Interpreter` | `inbox`/`outbox` are the Qt queues; `busy`, `stop`, `queue`, `shown` the window's members |
| `ReplGuiProofs` | proofs about `ReplGui` and `Interpreter` | |
| `Server` | `mathscript-server` and MPI | `calls` records the collectives of each rank; `ran` its commands |
| `ServerProofs` | proofs about `Server` | |
| `Cluster` | the consensus simulation | one variable per member of `Node` |
| `ClusterProofs` | proofs about `Cluster` | |
| `Nccl` | the clique of every process and its collectives | `clique` is a `NcclClique`, `live` what the driver holds for it; `pc` is where a call waits, `post` what it has issued, `todo` the calls of the program still to make |
| `NcclProofs`, `NcclStepProofs` | proofs about `Nccl` | |
| `AdjacencyGraph` | the class `Graph` | `adj`, `n_edges` are its members; `shape` says which graph an instance builds and how |
| `GraphProofs` | proofs about `AdjacencyGraph` | |
| `Traversal`, `GraphOptima`, `Planarity`, `Tours` | the algorithms, as functions of `adj` | arrays are functions of vertices, the state of a search a record; in `Planarity` the explicit stacks of the three passes are recursion, and the circular list of a vertex is a sequence |
| `GraphTheory` | what their results mean, without an algorithm, and the properties that compare the two | |
| `MC*` | constants and launches for the runs | |

A critical section is one step. What the code does between two critical
sections, two collectives, two queued events or two writes are separate steps,
and other actors run in between. Definitions named `Bug...` are mutants: a
plausible mistake in the definition they precede, used to see that a property
can fail; no specification uses them.

Abstractions worth knowing:

* `ThreadPool`: one identity per submit; task results are not modelled. The
  program around the pool is a variable that never changes (`client`), so that one
  run can have several: its threads, what they and the task bodies call, and the
  configuration they begin with.
  `size_t` arithmetic wraps at `SizeMax`. A task's decrement and its
  `notify_all()` are two steps, because the lock is released in between.
* `Interner`: the hash is any function of the label and the children's hashes;
  the instance makes different expressions collide. A sweep visits buckets in
  any order, as an unordered map does, and the slots of a bucket from first to last.
* `Interpreter`: a command is what it leaves in the session; a matrix is the
  number of the random draw it came from, so that two matrices can be told
  apart. A save is two steps, opening (which truncates) and writing. A file cut
  short holds a prefix of its sections and may or may not parse.
* `Server`: `broadcast_line` (a length, then one broadcast per character) is one
  broadcast. A session is one variable `x`: where its value came from and
  whether it is whole. `dist_cg` stands for the row-block kernels that
  all-gather, and converges; a rank whose collective does not match waits for
  ever, the mildest of the outcomes MPI allows.
* `Cluster`: the seeded generator is a nondeterministic choice.
* `Nccl`: a buffer holds one number of its own, any number in the module; the
  instance chooses them so that a sum tells which buffers it contains and how
  often. An average is kept as a sum and a divisor. A call is one the headers
  declare (`Declared`): `nccl_init_rank` is given the number of processes, or 1.
  The operators Sum, Prod, Max and Min take one path and are Sum. A process makes
  calls that the processes after it have to make too, at most `MaxAhead` before
  them; NCCL lets a collective happen when all ranks have issued one, and gives
  undefined contents when they differ.
* Graphs: weights are integers; a priority queue is a set. The graphs are those
  the two builders can make: a library caller, who adds and removes in any order,
  and the interpreter, which reads a matrix row by row. After a `remove_edge` that
  did not remove exactly one edge `n_edges` is wrong (see Also seen): such a graph
  is examined, but not changed any further.

## 3. Runs

| run | instance | shows |
|---|---|---|
| `pool_loops` | 2 callers, 6 tasks, `parallel_for` with lengths 0 and 3, grains 0, 1, 31, `configure` and `initialize` racing, bodies and `std::async` throwing | exact counter, each index once, no dangling body, windows and chunk counts within limits |
| `pool_waits` | two programs: 2 callers, 3 tasks, submit, wait, destroy and bodies that submit or wait; 1 caller, 6 tasks, `parallel_for` inside `parallel_for` with `auto_drain` off | after the destructor only a last notice uses the pool; no wakeup is lost; every loop, outer and inner, returns; a task that waits for itself never does; the pool implements `TaskGroup`, fairness included |
| `pool_destroy` | 1 caller, 1 task, submit and destroy | **violation**, finding 4 |
| `interner` | 2 threads, 3 addresses, a leaf and a binary head, 2 colliding hashes, a sweep every 2 insertions | no twins, one slot per live node, pointer equality is structural equality, bounded table, implements `HashCons` |
| `repl` | 11 typed lines, 2 editor scripts, 6 script files (nested, circular, missing), one session file, 3 user actions, depth 3 | seven properties of session, scripts, files, window and queues |
| `repl_stop` | the same | **violation**, finding 1 |
| `server` | 3 ranks; all streams of up to 2 lines in a script or on standard input, every mixture of one line from each source, scripts that open on rank 0 only, mixed terminals | one stream, matching collectives, equal sessions, joint end |
| `server_solve` | 2 ranks, streams of 3 lines | **violation**, finding 2 |
| `cluster` | 4 nodes, 3 terms, logs up to 3, 2 commands | election safety, one vote per term, agreement while one node writes |
| `cluster_commits` | 3 nodes, 2 terms | **violation**, finding 3 |
| `nccl` | 2 processes with 2 devices, 17 calls in any order, 5 buffer lists, one process at most 1 call ahead, 1 failure | cliques whole, handles neither lost nor destroyed twice; answers right or refusals, ranks in step and calls returning, across processes up to the first failure |
| `graph` | ten families of graphs, below | lists and counter stay one graph; 36 algorithms agree with their definitions |

Why the bounds are enough. Two callers suffice for every pair of operations to
overlap, and six tasks for two concurrent loops of three chunks or one loop with
two nested ones; bodies throw in `pool_loops` only, but `pool_waits` also held with
bodies that throw (154,000 states), left out for time; grain 31 is the largest `size_t` of the instance and makes
`n + grain - 1` wrap. Three addresses are one more than a binary node and a
shared child need, so an address is reused while its old node is still being
destroyed. Three user actions reach a command, a Stop or crash while it runs,
and another command; scripts multiply them to dozens of interpreter steps, and
the chain `top`→`a`→`b`→`c` runs into depth 3, while an editor script that
starts at `a` reaches `c` and its save. Three ranks are needed for two non-root
ranks to differ; the same properties also held for scripts of up to three lines
on three ranks (781,000 states), left out for time. Four nodes is the smallest
number where a vote can be split in halves and where a quorum leaves a node out
on which a later leader can be elected; three terms give two changes of leader.
Two processes and two devices are the smallest numbers where a global root, a
local index and a device differ; being one call ahead is enough to meet the wrong
call, and one failure followed by any calls shows what it leaves behind.

The graphs: all directed ones on 4 vertices with up to 5 edges (a cycle to
contract, two nested searches) and on 3 vertices with weights -1, 1, 2; all
undirected ones on 5 vertices (a bow tie: a cut vertex between two blocks), and on
4 with tied weights; subgraphs of a network on 6 vertices in which a flow has to be
undone, of a graph on 8 with odd cycles inside odd cycles, and of one on 6 with room
for both of Kuratowski's graphs (K3,3, and K5 with an edge divided: K5 itself never
gets past Euler's bound); and small ones built with removals, parallel edges and
loops. An algorithm is compared under the conditions its code or its comments ask
for: non-negative weights for Dijkstra, A* and flows, no parallel edges and loops
for cuts, blocks, cores and Euler walks, directed graphs for Bellman-Ford, two sides
for the bipartite matching, finite distances for round trips; A* with no heuristic
and with half of the distance. An isomorphism is looked for between a graph and each
that has its first edge elsewhere. The definitions in `GraphTheory` enumerate sets
of vertices, sets of edges and simple paths, which is what limits the size:
distances, trees and flows are compared on undirected graphs of up to 5 vertices
(flows from vertex 0) and on all directed ones, planarity on up to 6 vertices,
arborescences and isomorphism on up to 4, the absence of Euler walks on up to 6
edges.

Deadlock is checked in all runs of the pool and the interner: `Quiescent` is the
only state in which the pool may stop, and the interner must always have a next
step. The window, the server, the cluster and the graphs may stop (the user stops
acting, all ranks are done, the bounds are reached), so their runs do not check
it; nor does `nccl`, where after a failure a rank may wait for ever for one that
will not come (`CallsReturn` says that this happens after a failure only).

### Fairness

* Pool: weak fairness for each thread's `Advance`, not for starting operations.
  The operating system runs every runnable thread, mutexes are held for a few
  instructions, and bodies are assumed to return. Spurious wakeups are allowed
  and never assumed.
* Window: weak fairness for the worker's loop and for the delivery of its
  signals. Both are Qt event loops that never wait for the user.
* Server: weak fairness for each rank; a collective whose partners have all
  arrived is enabled and so returns.
* NCCL: weak fairness for a process that has to make a call others have made, and
  for a call that can go on (NCCL completes what all ranks have issued). Nothing
  makes the program call, and failures are never due.
* Interner, cluster and graphs: no liveness is claimed.

## 4. Findings

1. **Stop does not stop a script** (`repl_stop`). The request is queued behind
   the very `evaluate()` it should interrupt, and the next `evaluate()` clears
   the flag, so no line ever sees it (MainWindow.cpp:3032, ReplWorker.cpp:14).
2. **Ranks part after `x = dist_solve(A, b)`** (`server_solve`). Rank 0 gets the
   solution, the others a block of `b`, all as a success (solve.cpp:22); the next
   kernel on `x` fails its dimension check on some ranks only.
3. **Committed entries can differ** (`cluster_commits`). Elections ignore logs,
   `replicate()` appends at the ends of logs of different lengths and raises
   commit indices by length alone (izaac.cpp:931), so a second leader commits
   another entry at an index that is committed already.
4. **The destructor can return under a task** (`pool_destroy`). `task_finished()`
   gives up the count under the mutex and notifies after it (thread_pool.cpp:51); a
   destructor that looks in between finds 0 and returns, and the task then notifies
   a condition variable that is gone. The destructor's comment says that "the pool
   must outlive them" (thread_pool.cpp:8-9). `DestructorWaits` says what remains
   true: that notice is the only use anybody makes of the pool afterwards.

### Also seen

Without a run of their own, most of them because no document promises otherwise:

* Pool: `begin + grain` (thread_pool.hpp:123) wraps for a loop of more than half of
  `SIZE_MAX` indices with a grain near its length, and the loop starts over; no real
  loop is that long (see `Addressable` below). thread_pool.hpp:23 calls `max_workers`
  an "upper bound on the number of tasks this pool runs concurrently", but it bounds
  each `parallel_for` on its own: two of them together, or plain `submit()`, exceed
  it. The lazy `initialize(0)` may overwrite an `initialize()` of another thread; the
  count leaks when `std::async` throws, after which `wait()` never returns.
* Server: `main()` initialises MPI (mathscript_server.cpp:211) and the
  interpreter's own context does it again at the first distributed command
  (repl_engine_internal.cpp:103); MPI may abort the job. `SecondInit` has both
  outcomes. A script that opens on some ranks only, or standard inputs of different
  kinds, hangs a job; a comment in iterative.cpp:1023-1026 says every rank returns
  the full solution, which the gather fallback does not do.
* Session: `load_session()` resets the draw counter, so the next `rand()` repeats a
  draw that a loaded matrix may hold; a save truncates its file before it writes, so
  a crash in between loses the previous session too, and a full disk that only the
  stream's destructor notices is reported as success.
* NCCL: in rank mode, buffers that are not on the clique's device are reduced over
  this process's buffers alone and reported as a success, though nccl.cpp:426 calls
  that path "never wrong" and nccl.hpp:178 "the identical result"; `allreduce_avg`
  after a failed collective returns the value divided by the size; after a failed
  start or join `nccl_comm_size()` still counts all devices; a failure on one rank
  leaves its peers waiting, or out of step for good.
* Graphs: `min_arborescence` contracts all cycles into one vertex: with arcs 0→1 and
  0→3 of weight 10 and 1↔2, 3↔4 of weight 1, root 0, it returns a total of 13 with
  the cycle 3↔4 in it, where graph.hpp:106 promises an arborescence (of weight 22).
  `remove_edge` decrements `n_edges()` whether it removed one edge, several or none.
  `bellman_ford` relaxes an undirected edge one way only; `min_cut` lists no
  undirected edge stored from the sink's side; `bridges` reports a pair of parallel
  edges; `euler_circuit` uses up the entries of every list apart, and so goes over
  every undirected edge twice: 0-1-0-2-1-2-0 for a triangle, where the help
  (repl_engine.cpp:11520) promises the "Euler circuit vertex order of undirected
  graph" and graph.hpp:378-379 every edge exactly once (it is therefore not
  modelled; `eulerian_path` is right); `hamiltonian_path` reports "no Hamiltonian
  path" (graph.cpp:2826) when there is none from vertex 0, so `ToursExact` asks for
  a path only where there is a round trip;
  directed input is not symmetrised for cuts (graph.hpp:89 speaks of it for
  others), and `is_bipartite` may refuse a directed two-sided graph, depending on
  the order of its vertices; `edges()` lists an undirected loop twice.

## 5. Proofs

`ThreadPoolProofs`, for any finite set of tasks, any callers, hardware,
configurations, lengths, grains and width of `size_t`:

* `TypeCorrect` — by one lemma per action. `TypeOK` is not inductive alone:
  `DefaultGrain` divides by the window, so `TypeInv` adds that a thread about to
  read the window again (`pc = "reread"`) finds it set; `configure()` and
  `initialize()` of other threads never make it 0 again.
* `InFlightCorrect` — the counter equals `Cardinality(Outstanding)`. The proof
  divides the actions into those that start a task, those that finish one, and
  the rest, which leave both sides alone; finite-set lemmas do the counting.
* `PoolImplementsTaskGroup` — every step maps to a step of `TaskGroup` or a
  stutter. The step that needs an argument is the end of `wait()`: the code tests
  a counter, the abstract action a set, and `InFlightExact` makes them equal.
* `NestedWaitIsFatal` — a waiting task is itself outstanding, so the predicate it
  waits for is false whenever it looks.
* `WindowCorrect` — also across the gaps of `concurrency()`.
* `DestructorCorrect` (`DestructorWaits`) — the action property that a pool whose
  destructor has returned is used by nobody any more, but for the notice of a task
  that has given up its count (finding 4). It needs `ClientsQuiet`: from the moment
  the destructor has started one client is inside it and the others rest; and
  `Drained`: a count of zero means that no task is left that could call the pool.

Its second part has two inductive invariants for `parallel_for`:

* `LoopsInv` follows the futures, for all sizes. Per thread: while it submits, each
  chunk of its call is in its wave, has run, or is the one `std::async` is being
  asked for; in the unwinding of an exception a chunk outside the wave is done or
  is the one `std::async` refused; once the call has returned normally all have
  run. Per task: a chunk that may still run belongs to the call its owner is in,
  and an owner has at most one task that is counted and not launched. From it
  `BodiesCorrect` (no chunk outlives its call) and `WavesCorrect` (the window).
  That a wave is not full while the loop goes on is what leaves room for a chunk
  that is counted but never runs.
* `PartsInv` follows the indices: `k` chunks have the product `k * grain` equal to
  where the loop has come, are disjoint, and cover exactly the indices below it;
  and `cap * grain >= n` (`ChunkGrainFits`, the arithmetic of `ChunkGrain`), so there
  are at most `cap` of them. From both `LoopsCorrect` (`LoopsSound`) and
  `LimitsCorrect` (`LimitsKept`).

The second needs `Addressable`: `2n - 2` fits a `size_t` for every length `n`. It is
a hypothesis of those two theorems because the code needs it: `begin + grain` has no
guard, and a loop of more than half of `SIZE_MAX` indices with a grain near its
length wraps `begin` to a small number and starts over (with `SizeMax = 6`, length
5 and grain 4 TLC shows an index run twice). The bodies and the window are safe
even then, which is why `LoopsInv` is kept apart.

`ClusterProofs`, for any number of nodes, commands and bounds:

* `TypeCorrect`, `CommitsInLog`, `VotesOnce` — by the two actions.
* `LeaderUnique` — two majorities of the nodes intersect (`MajoritiesMeet`), and
  the votes of a round are a function of the voter.
* `SteadyWriterSafe` — agreement is not inductive; `Steady` is: while one node
  writes, its followers are always the same ones (`Holders`), their logs are
  copies of the writer's, every other log is empty, and each commit index is the
  length of the log. `HoldersAreMajority` counts them. The finding above is what
  happens when a second writer breaks `Steady`.

`NcclProofs`, for any number of processes and devices, any calls, any buffer lists
and any number of failures:

* `TypeCorrect`, `CliquesWhole` — both need that a process which has no handles is
  the one that joins: `CallInv` says that a process on its way into a communicator
  (`joining`, `joined`) has dropped everything it held and remembers the attempt, so
  that adopting one communicator and one stream makes a whole clique, and failing to
  makes none. The argument is per process: `Owned(p)` is whole, becomes `Balanced`
  (as many handles in the driver as in the clique, though not one per device) inside
  `ensure` and `adopt_rank`, and is whole again when the call goes on. `CliqueInv`,
  `CallInv` and `RestInv` are one invariant; it is proved action by action.
* `WaitsInStep` (`InStep`, in `NcclStepProofs`) — that two waiting processes are in the
  same call says nothing of the ones still on their way, so the invariant tells a
  `Story`: the calls made since all processes last met, the size of the communicator
  after each of them (`After`), and how far in it every process is. Up to the first
  failure or misplaced buffer, whether a call waits for the others (`Blocks`) depends on
  the call and on the size before it only: this is where every guard and early return of
  `nccl_init_rank`, `ensure`, `fast_path_usable`, the host and the buffer collectives is
  needed (`InitRankDoes`, `HostDoes`, `BufferDoes`, with `CliquesWhole` for the one
  device of a rank). Hence the processes stop at the same calls, and nobody has gone
  past one (`Stands`). A call taken lengthens the story or moves one process along it
  (`StoryGoesOn`); a join or a collective of all starts a new one (`StoryAnew`). The
  hypothesis of `InStep` is necessary: after a failure a rank may be a call ahead.
* `AnswersCorrect` (`AnswersRight`, same module) — a collective that reports success has
  left what the reduction, broadcast or gather over all contributions leaves: in local
  mode after any failures, in a communicator of several processes up to the first
  failure or misplaced buffer list. After that nothing is claimed, because the code then
  does answer wrongly (Also seen). The invariant `AnswerInv` adds three facts per process to the story: it is the rank of its
  number (`RankRight`); a clique that was tried and is not up has met a failure
  (`TriedRight`), so that falling back to host staging is no silent difference; and
  `PostRight` says what a waiting process has handed to NCCL and what NCCL has handed
  back. The step of all ranks, `Exchange`, is where the two arguments meet: because all
  wait in one call, the contributions NCCL sees are those of the call each rank asked
  for, in rank order (`IssuedAlone`, `IssuedTogether`), and what it delivers is what was
  wanted (`DeliveredCorrect`). Host staging (`StagedWanted`) and the early returns for a
  communicator of one (`AloneWanted`) compute the same. The contributions are any
  integers (`Share`); the sum over them is never unfolded, except over one.

`InternerProofs`, for any threads, addresses, labels, arities, sweep interval and
any hash function, however badly it collides:

* `SlotsCorrect` (`OneSlotEach`), `ChildrenCorrect`, `TypeCorrect` — from `IInv`. Two
  live equal nodes can only arise when a scan misses one, so `CallInv` says what a
  thread in the scan knows: no live slot it has passed holds its expression. Other
  threads drop handles meanwhile, which can make a passed slot expired, never live
  again; nobody else appends, because `owner` holds the mutex. At the end of the scan
  a twin could only be in another bucket, and `HeapInv` excludes that: the hash of a
  live node is the hash of its expression. `OneSlot` (no address in two slots) is
  what makes erasing an expired slot harmless to a node that reuses the address; for
  that the sweep in the module goes slot by slot, as the code's iterator does.
* `SizeCorrect` (`TableTracksReachable`) — outside a call the table has at most as many
  slots as nodes were alive when the last sweep began plus the insertions since, and no
  bucket is empty unless an allocation failed. `SizeInv` names the nodes that account
  for the slots (`Covers`): the set of those alive when the last sweep began or made
  since has every slot's node in it, except where a sweep under way has still to visit;
  by `OneSlot` the slots are then no more than the set has elements. A bucket is empty
  only while a thread is about to fill or to erase it (`EmptyBuckets`); that a call
  which finds its node leaves no empty bucket behind needs that the node hangs in the
  bucket that was scanned (`FoundInBucket`).
* `EqualityCorrect` (`EqualityByAddress`) — two live nodes that stand for the same tree
  are one node. `WellBuilt`: live nodes have ranks above those of their children, so
  trees are finite; proved on the steps of `HashCons` and carried over by the
  refinement below. Of two different nodes with equal trees take a pair of least rank:
  its children are equal trees of lower rank, hence the same addresses, hence by
  `OneSlotEach` one node.
* `RefinesHashCons` — every step is one atomic request of `HashCons`, a release, or a
  stutter. A request takes effect when the scan has found the node or added it.

`ReplGuiProofs`, for any command lines, scripts, editor contents, session files and
depth of sourcing; one invariant, `Inv`, in three layers:

* `InterpInv`, kept by every step of the interpreter whoever drives it: names, files,
  scripts and the line under way. `NamesCorrect` (`OneNameOneValue`) needs the files
  too, because a load replaces the session: a complete file holds a session in which
  names are unique (`FilesInv`). `ScriptsCorrect` (`ScriptsNest`) needs that the next
  line of every open script exists. `LoadsCorrect` is the action property
  `LoadAllOrNothing`.
* `BusyInv`: the one command is nowhere, posted, being evaluated, or answered, and
  `busy` tells the first from the others; hence `BusyCorrect` (`OneCommandUnderWay`,
  which counts the evaluate events, the evaluation and the answers).
* `PanelsCorrect` (`PanelsCurrent`) rests on it: the session changes only while the
  window is busy, and the answer that ends this refreshes the panels.

`ServerProofs`, for any number of ranks and any set of launches; `SameStream`,
`CollectivesMatch`, `SessionsAgree` and `LeaveTogether` (`StreamCorrect`,
`CollectivesCorrect`, `SessionsCorrect`, `LeaveCorrect`):

* Every collective has a place in the stream, the number of the command that makes it
  and a slot within it (the history fields `at` and `slot` of a call). `LawfulInv` and
  `CoverInv`: a rank's calls are at rising places, are what the stream asks for there,
  and leave out none that all ranks must make. So two lists of calls are merges of
  one list, and can part only at a kernel that one rank enters and another skips.
* `AgreeInv`: the `k`-th calls of two ranks are at the same place, or rank 0 is behind,
  in such a kernel; `AnsweredInv`: nobody has left a collective its partners have not
  come to. Together they give `StreamInv`: a line is broadcast in the collective in
  which the others wait for one.
* `SessionInv`: without a `dist_solve` before it, whether a session is whole is a
  function of the commands taken, and that decides who enters a kernel. After an abort
  only the properties are kept (`DeadInv`). Finding 2 is what a `dist_solve` does.

`GraphProofs`, for graphs of any number of vertices, any weights, with or without
direction, loops and parallel edges:

* `GraphCorrect` (`GraphKept`) — from `GraphInv`: the two ends of an undirected edge hold
  the same weights in the same order (`Pairs`), and while every removal removed one edge
  `n_edges` is the length of `edges()` (`Counted`; for an undirected graph only when it
  has no loops, which `edges()` lists twice). `Pairs` is what the counter needs: a
  removal counts the entries at one end, and `edges()` reads them at the smaller end.
  That `edges()` lists an edge as often as the list of its end does is no invariant but
  holds of any lists (`EdgesListed`).
* The lists are filtered and `edges()` flattens them, both by recursion. The first half
  of the module is the theory of the two: a filter of a list with one element more, of a
  filtered list, of a union, of a concatenation (`WithinAppend`, `WithinTwice`,
  `WithinSplit`, `WithinConcat`); a flattened list of which one part changes length, or
  of which only one part has what a filter keeps (`FlattenLonger`, `FlattenWithin`).
  Induction over lists is done without an operator parameter, over sets (`Appends`).

The assumptions are the named `ASSUME`s of the modules: `Tasks` finite and disjoint
from `Callers`, numbers natural, configurations well-formed; at least one node; at
least one process and one device, calls those the headers declare, lists of their type,
contributions that are numbers; values that mean "no node" and "no thread" are none, the
hash function has hashes as values; lines are of the interpreter's grammar; at least one
rank, launches of their type; graphs have a natural number of vertices and weights that
are integers. `TLC`
evaluates them in every run.

Only model-checked:

* all liveness (`LoopsReturn`, `WaitsReturn`, `BusyEnds`, `ShutsDown`, `CallsReturn`) and
  the fairness part of the two refinements, because liveness under fairness is beyond
  the prover;
* what the graph algorithms compute (`StructureFound`, `LeastFound`, `FlowsExact` and the
  properties beside them): they are recursive operators on data.

## 6. Plan

Done, in the order of importance, and with proofs: `ThreadPool` with `TaskGroup`;
`Interner` with `HashCons`; `Interpreter` and `ReplGui`; `Server`; `Cluster`; `Nccl`;
`AdjacencyGraph`. Done without proofs: the graph algorithms.

Next, the model:

1. The memory allocators: free-list integrity of `PoolAllocator` under threads,
   the release path of `NumaAllocator`; then `StreamPool`.
2. More graph algorithms: weighted matching, communities, the second contraction
   of `min_arborescence`.
3. More of the interpreter: `saveplot`, history export, and the cancel flag
   inside long commands once a thread can set it.
4. In `Server`, the SUMMA product and the row-block gather fallback as commands
   of their own.

Next, the proofs:

1. `AnswersRight` of NCCL with the reduction a parameter, any associative and
   commutative operator, in place of the sum.
2. The graph algorithms that need no induction over the depth of a search: the
   residual network and the renumbering of contracted vertices, as functions
   written without `RECURSIVE`.
