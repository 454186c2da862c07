------------------------------ MODULE TaskGroup ------------------------------
(***************************************************************************)
(* What ms::ThreadPool promises of submit() and wait(), without counter,   *)
(* lock or condition variable: tasks start and finish, and a wait ends     *)
(* only at a moment when no started task is unfinished.                    *)
(***************************************************************************)
CONSTANTS Tasks, Waiters

VARIABLES
  running,  \* tasks submitted and not finished
  finished, \* tasks that have finished executing
  waiting   \* threads inside wait()

vars == <<running, finished, waiting>>

Init == running = {} /\ finished = {} /\ waiting = {}

StartTask(t) ==
  /\ t \notin running \cup finished
  /\ running' = running \cup {t}
  /\ UNCHANGED <<finished, waiting>>

FinishTask(t) ==
  /\ t \in running
  /\ running' = running \ {t}
  /\ finished' = finished \cup {t}
  /\ UNCHANGED waiting

BeginWait(w) ==
  /\ w \notin waiting
  /\ waiting' = waiting \cup {w}
  /\ UNCHANGED <<running, finished>>

EndWait(w) ==
  /\ w \in waiting /\ running = {}
  /\ waiting' = waiting \ {w}
  /\ UNCHANGED <<running, finished>>

Next == \/ \E t \in Tasks : StartTask(t) \/ FinishTask(t)
        \/ \E w \in Waiters : BeginWait(w) \/ EndWait(w)

Spec == Init /\ [][Next]_vars

(* A thread in wait() returns if the pool stays idle. *)
FairSpec == Spec /\ \A w \in Waiters : WF_vars(EndWait(w))
=============================================================================
