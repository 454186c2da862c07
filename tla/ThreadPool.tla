----------------------------- MODULE ThreadPool ------------------------------
(***************************************************************************)
(* ms::ThreadPool: a window over std::async, not a pool of workers.        *)
(*                                                                         *)
(* Every submitted task runs on a thread of its own, so a task is at once  *)
(* something the pool counts and a thread that may call the pool again.    *)
(* Threads == Callers \cup Tasks, and pc gives the place of each of them.  *)
(* A critical section under mutex_ is one step; the gaps between critical  *)
(* sections, where other threads may run, are the pc values in between.    *)
(***************************************************************************)
EXTENDS Integers, Sequences, FiniteSets

CONSTANTS
  Callers,       \* client threads
  Tasks,         \* one identity per submit() (bounds the number of submits)
  Configs,       \* the ThreadPoolConfig values a client passes to configure()
  Hardware,      \* std::thread::hardware_concurrency(), 0 when unknown
  WorkerArgs,    \* arguments of initialize()
  Lengths,       \* n of parallel_for
  Grains,        \* grain of parallel_for
  SizeMax,       \* the largest size_t
  Clients,       \* the programs that may use the pool
  Failures       \* of {"async", "body"}: what may throw

Operations == {"submit", "wait", "initialize", "configure",
               "parallel_for", "parallel_for_default", "destroy"}
Config == [max_workers: Nat, max_queue_size: Nat, auto_drain: BOOLEAN]

(* A program: its threads, the operations they perform (calls) and those    *)
(* that task bodies perform (bodies), and the configuration in force when   *)
(* they begin. Bounds: the submits it has identities for (tasks), and the   *)
(* operations one thread starts (ops).                                      *)
Client == [threads: SUBSET Callers, tasks: SUBSET Tasks, ops: Nat, config: Config,
           calls: SUBSET Operations, bodies: SUBSET (Operations \ {"destroy"})]

ASSUME ThreadsAssumption ==
  /\ IsFiniteSet(Tasks)
  /\ Callers \cap Tasks = {}
ASSUME SizeAssumption ==
  /\ SizeMax \in Nat \ {0}
  /\ Hardware \in Nat
  /\ WorkerArgs \subseteq Nat /\ Lengths \subseteq Nat /\ Grains \subseteq Nat
ASSUME ConfigAssumption ==
  /\ Configs \subseteq Config
  /\ Clients \subseteq Client

Threads == Callers \cup Tasks
-----------------------------------------------------------------------------
VARIABLES
  config,      \* config_
  concurrency, \* concurrency_, 0 until first initialised
  in_flight,   \* in_flight_
  lifecycle,   \* "live", "closing" (in ~ThreadPool), "dead" (storage reused)
  pc,          \* where each thread is
  frame,       \* locals of each thread's current call
  job,         \* what each task was submitted for, and by whom
  ops,         \* operations each thread has started (bound, and call number)
  client       \* the program around this pool

pool == <<config, concurrency, in_flight, lifecycle>>
vars == <<pool, pc, frame, job, ops, client>>

Lower(a, b) == IF a <= b THEN a ELSE b
AtLeast1(a) == IF a = 0 THEN 1 ELSE a
Wrap(x) == x % (SizeMax + 1)

\* The window after initialize(workers) under cfg.
Window(workers, cfg) ==
  AtLeast1(Lower(IF workers = 0 THEN AtLeast1(Hardware) ELSE workers,
                 AtLeast1(cfg.max_workers)))

\* The grain parallel_for uses so that at most cap chunks are created.
ChunkGrain(n, grain, cap) ==
  IF Wrap(n + grain - 1) \div grain > cap THEN Wrap(n + cap - 1) \div cap ELSE grain

\* The grain the overload without a grain argument picks.
DefaultGrain(n, workers) == AtLeast1(Wrap(n + workers * 4 - 1) \div (workers * 4))

\* A task is counted from task_started() until task_finished() takes the lock.
Outstanding == {t \in Tasks : pc[t] \notin {"unborn", "notify", "done"}}

\* Tasks that are no longer counted, and threads inside wait().
Finished == {t \in Tasks : pc[t] \in {"notify", "done"}}
Waiting == {p \in Threads : pc[p] \in {"wait", "blocked"}}

\* A call of parallel_for is between its entry and its exit.
InFor == {"limit", "width", "lazy", "reread", "serial", "loop", "launch_chunk",
          "join", "unwind", "drain"}

\* The chunks of the parallel_for call that p is in (or last made).
Chunks(p) == {t \in Tasks : /\ job[t].chunk /\ job[t].owner = p
                            /\ job[t].call = ops[p]}

Frame == [n: Nat, grain: Nat, begin: Nat, width: Nat, cap: Nat, pick_grain: BOOLEAN,
          wave: Seq(Tasks), ret: {"none", "serial", "ok", "exception"}]
NoFrame == [n |-> 0, grain |-> 1, begin |-> 0, width |-> 0, cap |-> 1,
            pick_grain |-> FALSE, wave |-> <<>>, ret |-> "none"]
Job == [owner: Threads, call: Nat, chunk: BOOLEAN, lo: Nat, hi: Nat, threw: BOOLEAN]
PC == {"idle", "wait", "blocked", "launch", "dead",
       "unborn", "counted", "lost", "notify", "done"} \cup InFor

Goto(p, l) == pc' = [pc EXCEPT ![p] = l]

Init ==
  /\ client \in Clients
  /\ config = client.config
  /\ concurrency = 0 /\ in_flight = 0
  /\ lifecycle = "live"
  /\ pc = [p \in Threads |-> IF p \in Tasks THEN "unborn" ELSE "idle"]
  /\ frame = [p \in Threads |-> NoFrame]
  /\ job = [t \in Tasks |-> [owner |-> t, call |-> 0, chunk |-> FALSE,
                             lo |-> 0, hi |-> 0, threw |-> FALSE]]
  /\ ops = [p \in Threads |-> 0]
-----------------------------------------------------------------------------
(* Starting an operation. Only a client thread may destroy the pool, no     *)
(* client uses it from then on, and a task body may still call it until the *)
(* destructor has returned.                                                 *)
Start(p, op, fr) ==
  /\ pc[p] = "idle"
  /\ op \in (IF p \in Tasks THEN client.bodies ELSE client.calls)
  /\ IF p \in Tasks THEN job[p].owner \in Callers    \* bound: one level of nesting
     ELSE p \in client.threads /\ lifecycle = "live"
  /\ ops[p] < client.ops
  /\ ops' = [ops EXCEPT ![p] = @ + 1]
  /\ frame' = [frame EXCEPT ![p] = fr]
  /\ UNCHANGED client

BugConfigure(p) ==   \* fault: the current window is not clamped
  /\ Start(p, "configure", NoFrame)
  /\ \E cfg \in Configs : config' = cfg
  /\ UNCHANGED <<concurrency, in_flight, lifecycle, pc, job>>

Configure(p) ==
  /\ Start(p, "configure", NoFrame)
  /\ \E cfg \in Configs :
       LET Clamp(w) == IF w = 0 THEN 0 ELSE Lower(w, AtLeast1(cfg.max_workers))
       IN  /\ config' = cfg
           /\ concurrency' = Clamp(concurrency)
  /\ UNCHANGED <<in_flight, lifecycle, pc, job>>

Initialize(p) ==
  /\ Start(p, "initialize", NoFrame)
  /\ \E workers \in WorkerArgs : concurrency' = Window(workers, config)
  /\ UNCHANGED <<config, in_flight, lifecycle, pc, job>>

\* Task identities are interchangeable: the next one to be used.
Fresh == CHOOSE t \in client.tasks : pc[t] = "unborn"

(* submit(): task_started() counts the task, then std::async starts it. *)
BugTaskStarted(p, t, chunk, lo, hi, next) ==   \* fault: the task is not counted
  /\ t \in client.tasks /\ pc[t] = "unborn" /\ t = Fresh
  /\ job' = [job EXCEPT ![t] = [owner |-> p, call |-> ops'[p], chunk |-> chunk,
                                lo |-> lo, hi |-> hi, threw |-> FALSE]]
  /\ pc' = [pc EXCEPT ![t] = "counted", ![p] = next]
  /\ UNCHANGED pool

TaskStarted(p, t, chunk, lo, hi, next) ==
  /\ t \in client.tasks /\ pc[t] = "unborn" /\ t = Fresh
  /\ in_flight' = in_flight + 1
  /\ job' = [job EXCEPT ![t] = [owner |-> p, call |-> ops'[p], chunk |-> chunk,
                                lo |-> lo, hi |-> hi, threw |-> FALSE]]
  /\ pc' = [pc EXCEPT ![t] = "counted", ![p] = next]
  /\ UNCHANGED <<config, concurrency, lifecycle>>

Submit(p) ==
  /\ Start(p, "submit", NoFrame)
  /\ \E t \in Tasks : TaskStarted(p, t, FALSE, 0, 0, "launch")

\* The task whose std::async call p is making.
Launching(p, t) == pc[t] = "counted" /\ job[t].owner = p

Launch(p) ==
  /\ pc[p] = "launch"
  /\ \E t \in Tasks :
       /\ Launching(p, t)
       /\ \/ pc' = [pc EXCEPT ![t] = "idle", ![p] = "idle"]
          \/ "async" \in Failures /\ pc' = [pc EXCEPT ![t] = "lost", ![p] = "idle"]
  /\ UNCHANGED <<pool, frame, job, ops, client>>

(* The body of task t returns or throws, and ~InFlightGuard runs            *)
(* task_finished(): the decrement under the lock, the notification after it.*)
(* The future becomes ready only after the guard is gone.                   *)
TaskFinished(t) ==
  /\ t \in Tasks /\ pc[t] = "idle"
  /\ \E threw \in {FALSE} \cup (IF "body" \in Failures THEN {TRUE} ELSE {}) :
       job' = [job EXCEPT ![t].threw = threw]
  /\ in_flight' = IF in_flight > 0 THEN in_flight - 1 ELSE in_flight
  /\ Goto(t, "notify")
  /\ UNCHANGED <<config, concurrency, lifecycle, frame, ops, client>>

BugDoubleFinish(t) ==   \* fault: the task is uncounted a second time
  /\ pc[t] = "notify"
  /\ in_flight' = in_flight - 1
  /\ pc' = [p \in Threads |-> IF p = t THEN "done"
                              ELSE IF pc[p] = "blocked" THEN "wait" ELSE pc[p]]
  /\ UNCHANGED <<config, concurrency, lifecycle, frame, job, ops, client>>

BugNoNotify(t) ==   \* fault: waiters are not notified
  /\ pc[t] = "notify"
  /\ Goto(t, "done")
  /\ UNCHANGED <<pool, frame, job, ops, client>>

NotifyAll(t) ==
  /\ pc[t] = "notify"
  /\ pc' = [p \in Threads |-> IF p = t THEN "done"
                              ELSE IF pc[p] = "blocked" THEN "wait" ELSE pc[p]]
  /\ UNCHANGED <<pool, frame, job, ops, client>>
-----------------------------------------------------------------------------
(* wait(), and the destructor, which is wait() before the members go. *)
Wait(p) ==
  /\ Start(p, "wait", NoFrame)
  /\ Goto(p, "wait")
  /\ UNCHANGED <<pool, job>>

BugDestroy(p) ==   \* fault: a defaulted destructor
  /\ Start(p, "destroy", NoFrame)
  /\ \A q \in Callers : pc[q] = "idle"
  /\ lifecycle' = "dead"
  /\ Goto(p, "dead")
  /\ UNCHANGED <<config, concurrency, in_flight, job>>

Destroy(p) ==
  /\ Start(p, "destroy", NoFrame)
  /\ \A q \in Callers : pc[q] = "idle"
  /\ lifecycle' = "closing"
  /\ Goto(p, "wait")
  /\ UNCHANGED <<config, concurrency, in_flight, job>>

BugIdle == in_flight <= 1   \* fault: a waiting task does not count itself

\* The predicate of idle_cv_.wait, evaluated under the lock.
Idle == in_flight = 0

\* A client that waits once the destructor has begun is the one inside it.
InDestructor(p) == p \in Callers /\ lifecycle = "closing"

BugWaitReturns(p) ==   \* fault: a wakeup is taken for the condition
  /\ pc[p] \in {"wait", "blocked"}
  /\ Idle \/ pc[p] = "blocked"
  /\ Goto(p, IF InDestructor(p) THEN "dead" ELSE "idle")
  /\ lifecycle' = IF InDestructor(p) THEN "dead" ELSE lifecycle
  /\ UNCHANGED <<config, concurrency, in_flight, frame, job, ops, client>>

WaitReturns(p) ==
  /\ pc[p] = "wait" /\ Idle
  /\ Goto(p, IF InDestructor(p) THEN "dead" ELSE "idle")
  /\ lifecycle' = IF InDestructor(p) THEN "dead" ELSE lifecycle
  /\ UNCHANGED <<config, concurrency, in_flight, frame, job, ops, client>>

WaitBlocks(p) ==
  /\ pc[p] = "wait" /\ ~Idle
  /\ Goto(p, "blocked")
  /\ UNCHANGED <<pool, frame, job, ops, client>>

SpuriousWakeup(p) ==
  /\ pc[p] = "blocked"
  /\ Goto(p, "wait")
  /\ UNCHANGED <<pool, frame, job, ops, client>>
-----------------------------------------------------------------------------
(* parallel_for *)
ParallelFor(p) ==
  /\ \E n \in Lengths, grain \in Grains :
       /\ Start(p, "parallel_for", [NoFrame EXCEPT
                      !.n = n, !.grain = AtLeast1(grain),
                      !.ret = IF n = 0 THEN "serial" ELSE "none"])
       /\ Goto(p, IF n = 0 THEN "idle" ELSE "limit")
  /\ UNCHANGED <<pool, job>>

ParallelForDefault(p) ==
  /\ \E n \in Lengths :
       Start(p, "parallel_for_default", [NoFrame EXCEPT !.n = n, !.pick_grain = TRUE])
  /\ Goto(p, "width")
  /\ UNCHANGED <<pool, job>>

ChunkLimit(p) ==
  /\ pc[p] = "limit"
  /\ LET cap == AtLeast1(config.max_queue_size) IN
     frame' = [frame EXCEPT ![p].cap = cap,
                            ![p].grain = ChunkGrain(frame[p].n, frame[p].grain, cap)]
  /\ Goto(p, "width")
  /\ UNCHANGED <<pool, job, ops, client>>

\* concurrency() has returned width to the caller p.
UseWidth(p, width) ==
  LET fr == frame[p] IN
  IF fr.pick_grain
  THEN /\ frame' = [frame EXCEPT ![p] = [fr EXCEPT
                      !.pick_grain = FALSE, !.grain = DefaultGrain(fr.n, width),
                      !.ret = IF fr.n = 0 THEN "serial" ELSE "none"]]
       /\ Goto(p, IF fr.n = 0 THEN "idle" ELSE "limit")
  ELSE /\ frame' = [frame EXCEPT ![p].width = width]
       /\ Goto(p, IF width <= 1 \/ fr.grain >= fr.n THEN "serial" ELSE "loop")

Concurrency(p) ==
  /\ pc[p] = "width"
  /\ IF concurrency # 0 THEN UseWidth(p, concurrency)
     ELSE Goto(p, "lazy") /\ UNCHANGED frame
  /\ UNCHANGED <<pool, job, ops, client>>

LazyInitialize(p) ==
  /\ pc[p] = "lazy"
  /\ concurrency' = Window(0, config)
  /\ Goto(p, "reread")
  /\ UNCHANGED <<config, in_flight, lifecycle, frame, job, ops, client>>

ConcurrencyReread(p) ==
  /\ pc[p] = "reread"
  /\ UseWidth(p, concurrency)
  /\ UNCHANGED <<pool, job, ops, client>>

\* p leaves parallel_for, normally or by an exception.
Leave(p, ret) ==
  /\ Goto(p, "idle")
  /\ frame' = [frame EXCEPT ![p].ret = ret]

SerialFor(p) ==
  /\ pc[p] = "serial"
  /\ \/ Leave(p, "serial")
     \/ "body" \in Failures /\ Leave(p, "exception")
  /\ UNCHANGED <<pool, job, ops, client>>

SubmitChunk(p) ==
  LET fr == frame[p] IN
  /\ pc[p] = "loop" /\ fr.begin < fr.n
  /\ UNCHANGED <<frame, ops, client>>
  /\ \E t \in Tasks : TaskStarted(p, t, TRUE, fr.begin,
                        Lower(Wrap(fr.begin + fr.grain), fr.n), "launch_chunk")

BugLaunchEscapes(p) ==   \* fault: a failed launch abandons the wave
  /\ pc[p] = "launch_chunk"
  /\ \E t \in Tasks :
       /\ Launching(p, t)
       /\ \/ /\ frame' = [frame EXCEPT ![p].wave = Append(@, t),
                                       ![p].begin = Wrap(@ + frame[p].grain)]
             /\ pc' = [pc EXCEPT ![t] = "idle", ![p] = "loop"]
          \/ /\ pc' = [pc EXCEPT ![t] = "lost", ![p] = "idle"]
             /\ UNCHANGED frame
  /\ UNCHANGED <<pool, job, ops, client>>

LaunchChunk(p) ==
  LET fr == frame[p] IN
  /\ pc[p] = "launch_chunk"
  /\ \E t \in Tasks :
       /\ Launching(p, t)
       /\ \/ /\ frame' = [frame EXCEPT ![p] = [fr EXCEPT
                            !.wave = Append(@, t), !.begin = Wrap(@ + fr.grain)]]
             /\ pc' = [pc EXCEPT ![t] = "idle",
                         ![p] = IF Len(fr.wave) + 1 >= fr.width THEN "join" ELSE "loop"]
          \/ /\ "async" \in Failures
             /\ pc' = [pc EXCEPT ![t] = "lost", ![p] = "unwind"]
             /\ UNCHANGED frame
  /\ UNCHANGED <<pool, job, ops, client>>

\* The loop is over: the futures of the last wave are next.
LoopEnds(p) ==
  /\ pc[p] = "loop" /\ frame[p].begin >= frame[p].n
  /\ Goto(p, "join")
  /\ UNCHANGED <<pool, frame, job, ops, client>>

\* future.get() on the next future of the wave: it rethrows what the body threw.
JoinChunk(p) ==
  LET wave == frame[p].wave IN
  /\ pc[p] = "join" /\ wave # <<>> /\ pc[Head(wave)] = "done"
  /\ frame' = [frame EXCEPT ![p].wave = Tail(wave)]
  /\ Goto(p, IF job[Head(wave)].threw THEN "unwind" ELSE "join")
  /\ UNCHANGED <<pool, job, ops, client>>

WaveJoined(p) ==
  /\ pc[p] = "join" /\ frame[p].wave = <<>>
  /\ Goto(p, IF frame[p].begin < frame[p].n THEN "loop" ELSE "drain")
  /\ UNCHANGED <<pool, frame, job, ops, client>>

BugUnwind(p) ==   \* fault: the remaining futures do not block
  /\ pc[p] = "unwind"
  /\ Leave(p, "exception")
  /\ UNCHANGED <<pool, job, ops, client>>

\* An exception leaves parallel_for: ~vector blocks on every future it holds.
Unwind(p) ==
  /\ pc[p] = "unwind"
  /\ \A i \in 1..Len(frame[p].wave) : pc[frame[p].wave[i]] = "done"
  /\ Leave(p, "exception")
  /\ UNCHANGED <<pool, job, ops, client>>

BugAutoDrain(p) ==   \* fault: auto_drain is ignored
  /\ pc[p] = "drain"
  /\ frame' = [frame EXCEPT ![p].ret = "ok"]
  /\ Goto(p, "wait")
  /\ UNCHANGED <<pool, job, ops, client>>

\* drains_automatically(), and then wait().
AutoDrain(p) ==
  /\ pc[p] = "drain"
  /\ frame' = [frame EXCEPT ![p].ret = "ok"]
  /\ Goto(p, IF config.auto_drain THEN "wait" ELSE "idle")
  /\ UNCHANGED <<pool, job, ops, client>>
-----------------------------------------------------------------------------
Begin(p) == \/ Configure(p) \/ Initialize(p) \/ Submit(p) \/ Wait(p) \/ Destroy(p)
            \/ ParallelFor(p) \/ ParallelForDefault(p)

Advance(p) ==
  \/ Launch(p) \/ TaskFinished(p) \/ NotifyAll(p)
  \/ WaitReturns(p) \/ WaitBlocks(p)
  \/ ChunkLimit(p) \/ Concurrency(p) \/ LazyInitialize(p) \/ ConcurrencyReread(p)
  \/ SerialFor(p) \/ SubmitChunk(p) \/ LaunchChunk(p) \/ LoopEnds(p)
  \/ JoinChunk(p) \/ WaveJoined(p) \/ Unwind(p) \/ AutoDrain(p)

\* Nothing more will happen: every client rests and every task has ended.
Quiescent ==
  /\ \A p \in Callers : pc[p] \in {"idle", "dead"}
  /\ \A t \in Tasks : pc[t] \in {"unborn", "lost", "done"}
  /\ UNCHANGED vars

Next == \/ \E p \in Threads : Begin(p) \/ Advance(p) \/ SpuriousWakeup(p)
        \/ Quiescent

Spec == Init /\ [][Next]_vars

(* The operating system runs every thread that can run, and bodies return. *)
FairSpec == Spec /\ \A p \in Threads : WF_vars(Advance(p))
-----------------------------------------------------------------------------
TypeOK ==
  /\ config \in Config
  /\ concurrency \in Nat /\ in_flight \in Nat
  /\ lifecycle \in {"live", "closing", "dead"}
  /\ pc \in [Threads -> PC]
  /\ frame \in [Threads -> Frame]
  /\ job \in [Tasks -> Job]
  /\ ops \in [Threads -> Nat]
  /\ client \in Clients

(* in_flight_ is the number of tasks between task_started() and             *)
(* task_finished(), whatever the interleaving: the guard in_flight_ > 0 of  *)
(* task_finished() never has to save the counter from wrapping.             *)
InFlightExact == in_flight = Cardinality(Outstanding)

(* The window is 0 or within [1, max_workers] of the configuration in       *)
(* force, also when configure() runs in the gaps of concurrency().          *)
WindowWithinCap == concurrency # 0 => concurrency <= AtLeast1(config.max_workers)

(* A chunk holds a reference to the caller's functor and to the pool: while *)
(* it can still run, the parallel_for that launched it has not exited, not  *)
(* even by an exception from another chunk or from std::async.              *)
NoDanglingBody ==
  \A t \in Tasks :
    (job[t].chunk /\ pc[t] \notin {"unborn", "notify", "done", "lost"}) =>
      LET p == job[t].owner IN
      pc[p] \in InFor /\ t \in Chunks(p)

(* A parallel_for that returned ran f(i) exactly once for each i < n.       *)
EveryIndexOnce ==
  \A p \in Threads :
    (pc[p] = "idle" /\ frame[p].ret = "ok") =>
      /\ \A t \in Chunks(p) : pc[t] = "done" /\ ~job[t].threw
      /\ \A i \in 0..(frame[p].n - 1) :
           Cardinality({t \in Chunks(p) : job[t].lo <= i /\ i < job[t].hi}) = 1

(* Both: parallel_for ends only when its chunks have, and has run them all.  *)
LoopsSound == NoDanglingBody /\ EveryIndexOnce

(* A call keeps at most the window it read in flight at a time.             *)
WaveWithinWindow ==
  \A p \in Threads :
    pc[p] \in InFor => Cardinality(Chunks(p) \cap Outstanding) <= frame[p].width

(* max_queue_size bounds the chunks one parallel_for creates.               *)
ChunkCountWithinQueue ==
  \A p \in Threads : pc[p] \in InFor => Cardinality(Chunks(p)) <= frame[p].cap

(* The limits of the configuration hold for every loop, however grain and   *)
(* length are chosen and whoever changes the configuration meanwhile.       *)
LimitsKept == WindowWithinCap /\ WaveWithinWindow /\ ChunkCountWithinQueue

(* ~ThreadPool() waits until in_flight_ is 0: once it has returned nobody   *)
(* reads or writes the pool's members, starts a call or moves on inside one *)
(* any more, except that a task which has given up its count may still have *)
(* its notify_all() to make (see PoolOutlivesTasks).                        *)
DestructorWaits ==
  [][lifecycle = "dead" =>
       /\ UNCHANGED <<pool, frame, job, ops>>
       /\ \A p \in Threads : pc[p] # "notify" => pc'[p] = pc[p]]_vars

(* thread_pool.cpp:8-9, in the destructor: "Every running task holds an     *)
(* InFlightGuard referring back to this object, so the pool must outlive    *)
(* them." Not so: the guard gives up the count under the lock and notifies  *)
(* idle_cv_ after it, by which time the destructor may have returned.       *)
PoolOutlivesTasks ==
  lifecycle = "dead" => \A t \in Tasks : pc[t] \in {"unborn", "done"}

(* A task that enters wait(), by itself or at the end of a parallel_for     *)
(* with auto_drain, waits for itself: it never gets out again.              *)
TaskWaitNeverReturns ==
  [][\A t \in Tasks : pc[t] \in {"wait", "blocked"} => pc'[t] \in {"wait", "blocked"}]_vars

(* The counter and the condition variable implement a group of tasks: a     *)
(* wait() ends when, and only when, no submitted task is unfinished.        *)
TG == INSTANCE TaskGroup WITH
        Waiters <- Threads,
        running <- Outstanding,
        finished <- Finished,
        waiting <- Waiting
ImplementsTaskGroup == TG!FairSpec

(* Liveness: wait() called by a client returns, unless a task called it too *)
(* (and then nobody's wait() ends), and parallel_for without auto_drain     *)
(* returns however deeply it is nested.                                     *)
WaitsReturn ==
  \A p \in Callers :
    pc[p] \in {"wait", "blocked"} ~>
      \/ pc[p] \in {"idle", "dead"}
      \/ \E t \in Tasks : pc[t] \in {"wait", "blocked"}
LoopsReturn ==
  \A p \in Threads : pc[p] \in InFor ~> pc[p] \notin InFor \cup {"wait", "blocked"}
=============================================================================
