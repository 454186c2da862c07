---------------------------- MODULE MCThreadPool -----------------------------
(* Instances of ThreadPool for TLC. *)
EXTENDS ThreadPool, TLC

Cfg(workers, queue, drain) ==
  [max_workers |-> workers, max_queue_size |-> queue, auto_drain |-> drain]

MCConfigs == {Cfg(0, 9, TRUE), Cfg(2, 2, FALSE), Cfg(3, 0, TRUE)}
NoConfigs == {}

Some(n, S) == CHOOSE T \in SUBSET S : Cardinality(T) = n

Program(threads, tasks, bound, drain, calls, bodies) ==
  [threads |-> Some(threads, Callers), tasks |-> Some(tasks, Tasks), ops |-> bound,
   config |-> Cfg(2, 9, drain), calls |-> calls, bodies |-> bodies]

\* Loops of two threads that race with changes of the configuration.
Loops == {Program(2, 6, 1, TRUE, {"parallel_for", "parallel_for_default",
                                  "initialize", "configure"}, {})}

\* Waits and the destructor, with bodies that call the pool; loops in loops.
Waits == Program(2, 3, 2, TRUE, {"submit", "wait", "destroy"}, {"submit", "wait"})
Nested == Program(1, 6, 1, FALSE, {"parallel_for"}, {"parallel_for"})
WaitsOrNested == {Waits, Nested}

\* One task, and the destructor after its submit().
Destroys == {Program(1, 1, 2, TRUE, {"submit", "destroy"}, {})}

CallerSymmetry == Permutations(Callers)
=============================================================================
