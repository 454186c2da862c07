--------------------------- MODULE ThreadPoolProofs --------------------------
(***************************************************************************)
(* Proofs about ThreadPool for every set of threads, every finite set of   *)
(* tasks and every configuration.                                          *)
(***************************************************************************)
EXTENDS ThreadPool, FiniteSetTheorems, SequenceTheorems, TLAPS

(* The value of concurrency() is never 0: what divides in DefaultGrain.     *)
RereadSet == \A p \in Threads : pc[p] = "reread" => concurrency # 0

(* size_t arithmetic stays in the naturals. *)
LEMMA WrapType == ASSUME NEW x \in Nat PROVE Wrap(x) \in Nat
  BY SizeAssumption DEF Wrap

LEMMA AtLeast1Type == ASSUME NEW x \in Nat PROVE AtLeast1(x) \in Nat /\ AtLeast1(x) >= 1
  BY DEF AtLeast1

LEMMA WindowType ==
  ASSUME NEW w \in Nat, NEW cfg \in Config
  PROVE  /\ Window(w, cfg) \in Nat /\ Window(w, cfg) >= 1
         /\ Window(w, cfg) <= AtLeast1(cfg.max_workers)
  BY SizeAssumption DEF Window, AtLeast1, Lower, Config

LEMMA DivType ==
  ASSUME NEW a \in Nat, NEW b \in Nat, b >= 1
  PROVE  a \div b \in Nat
  OBVIOUS

LEMMA ChunkGrainType ==
  ASSUME NEW n \in Nat, NEW g \in Nat, NEW cap \in Nat, cap >= 1
  PROVE  ChunkGrain(n, g, cap) \in Nat
  <1>1. Wrap(n + cap - 1) \in Nat
    BY WrapType
  <1>2. Wrap(n + cap - 1) \div cap \in Nat
    BY <1>1, DivType
  <1>3. QED
    BY <1>2 DEF ChunkGrain

LEMMA DefaultGrainType ==
  ASSUME NEW n \in Nat, NEW w \in Nat, w >= 1
  PROVE  DefaultGrain(n, w) \in Nat
  <1>1. Wrap(n + w * 4 - 1) \in Nat
    BY WrapType
  <1>2. Wrap(n + w * 4 - 1) \div (w * 4) \in Nat
    BY <1>1, DivType
  <1>3. QED
    BY <1>2, AtLeast1Type DEF DefaultGrain
-----------------------------------------------------------------------------
(* Type correctness, by one step per action. *)
TypeInv == TypeOK /\ RereadSet

LEMMA NoFrameType == NoFrame \in Frame
  BY DEF NoFrame, Frame

LEMMA TypeInvInit == Init => TypeInv
  BY ThreadsAssumption, ConfigAssumption, NoFrameType
  DEF Init, TypeInv, TypeOK, RereadSet, Job, PC, Threads, Client

LEMMA UseWidthType ==
  ASSUME TypeInv, NEW p \in Threads, UseWidth(p, concurrency), concurrency # 0,
         UNCHANGED <<pool, job, ops, client>>
  PROVE  TypeInv'
  <1> DEFINE fr == frame[p]
  <1> USE DEF TypeInv, TypeOK, RereadSet, Goto, pool
  <1>1. fr \in Frame /\ fr.n \in Nat
    BY DEF Frame
  <1>2. DefaultGrain(fr.n, concurrency) \in Nat
    BY <1>1, DefaultGrainType
  <1>3. CASE fr.pick_grain
    <2>1. [fr EXCEPT !.pick_grain = FALSE, !.grain = DefaultGrain(fr.n, concurrency),
             !.ret = IF fr.n = 0 THEN "serial" ELSE "none"] \in Frame
      BY <1>1, <1>2 DEF Frame
    <2>2. frame' \in [Threads -> Frame]
      BY <1>3, <2>1 DEF UseWidth
    <2>3. pc' \in [Threads -> PC] /\ RereadSet'
      BY <1>3 DEF UseWidth, PC, InFor
    <2>4. QED
      BY <2>2, <2>3
  <1>4. CASE ~fr.pick_grain
    <2>0. [fr EXCEPT !.width = concurrency] \in Frame
      BY <1>1 DEF Frame
    <2>1. frame' \in [Threads -> Frame]
      BY <1>4, <2>0 DEF UseWidth
    <2>2. pc' \in [Threads -> PC] /\ RereadSet'
      BY <1>4 DEF UseWidth, PC, InFor
    <2>3. QED
      BY <2>1, <2>2
  <1>5. QED
    BY <1>3, <1>4

LEMMA TypeInvNext == TypeInv /\ [Next]_vars => TypeInv'
  <1> SUFFICES ASSUME TypeInv, [Next]_vars PROVE TypeInv'
    OBVIOUS
  <1> USE ThreadsAssumption, SizeAssumption, ConfigAssumption, NoFrameType
  <1> USE DEF TypeInv, TypeOK, RereadSet, Goto, pool
  <1>1. ASSUME NEW p \in Threads, Configure(p) PROVE TypeInv'
    BY <1>1 DEF Configure, Start, Lower, AtLeast1, Config
  <1>2. ASSUME NEW p \in Threads, Initialize(p) PROVE TypeInv'
    BY <1>2, WindowType DEF Initialize, Start
  <1>3. ASSUME NEW p \in Threads, Submit(p) PROVE TypeInv'
    BY <1>3 DEF Submit, TaskStarted, Start, Job, PC, Threads
  <1>4. ASSUME NEW p \in Threads, Wait(p) PROVE TypeInv'
    BY <1>4 DEF Wait, Start, PC, InFor
  <1>5. ASSUME NEW p \in Threads, Destroy(p) PROVE TypeInv'
    BY <1>5 DEF Destroy, Start, PC
  <1>6. ASSUME NEW p \in Threads, ParallelFor(p) PROVE TypeInv'
    <2>1. PICK n \in Lengths, grain \in Grains :
            /\ frame' = [frame EXCEPT ![p] = [NoFrame EXCEPT
                           !.n = n, !.grain = AtLeast1(grain),
                           !.ret = IF n = 0 THEN "serial" ELSE "none"]]
            /\ pc' = [pc EXCEPT ![p] = IF n = 0 THEN "idle" ELSE "limit"]
      BY <1>6 DEF ParallelFor, Start
    <2>2. [NoFrame EXCEPT !.n = n, !.grain = AtLeast1(grain),
             !.ret = IF n = 0 THEN "serial" ELSE "none"] \in Frame
      BY AtLeast1Type DEF NoFrame, Frame
    <2>3. ops' \in [Threads -> Nat] /\ client' = client
      BY <1>6 DEF ParallelFor, Start
    <2>4. QED
      BY <1>6, <2>1, <2>2, <2>3 DEF ParallelFor, PC, InFor
  <1>7. ASSUME NEW p \in Threads, ParallelForDefault(p) PROVE TypeInv'
    <2>1. PICK n \in Lengths :
            frame' = [frame EXCEPT ![p] = [NoFrame EXCEPT !.n = n, !.pick_grain = TRUE]]
      BY <1>7 DEF ParallelForDefault, Start
    <2>2. [NoFrame EXCEPT !.n = n, !.pick_grain = TRUE] \in Frame
      BY DEF NoFrame, Frame
    <2>3. ops' \in [Threads -> Nat] /\ client' = client
      BY <1>7 DEF ParallelForDefault, Start
    <2>4. QED
      BY <1>7, <2>1, <2>2, <2>3 DEF ParallelForDefault, PC, InFor
  <1>8. ASSUME NEW p \in Threads, Launch(p) PROVE TypeInv'
    BY <1>8 DEF Launch, PC, Threads
  <1>9. ASSUME NEW p \in Threads, TaskFinished(p) PROVE TypeInv'
    <2>1. PICK threw \in BOOLEAN : job' = [job EXCEPT ![p].threw = threw]
      BY <1>9 DEF TaskFinished
    <2>2. job' \in [Tasks -> Job]
      BY <1>9, <2>1 DEF TaskFinished, Job
    <2>3. QED
      BY <1>9, <2>2 DEF TaskFinished, PC
  <1>10. ASSUME NEW p \in Threads, NotifyAll(p) PROVE TypeInv'
    BY <1>10 DEF NotifyAll, PC
  <1>11. ASSUME NEW p \in Threads, WaitReturns(p) PROVE TypeInv'
    BY <1>11 DEF WaitReturns, PC, Idle
  <1>12. ASSUME NEW p \in Threads, WaitBlocks(p) PROVE TypeInv'
    BY <1>12 DEF WaitBlocks, PC, Idle
  <1>13. ASSUME NEW p \in Threads, ChunkLimit(p) PROVE TypeInv'
    <2> DEFINE cap == AtLeast1(config.max_queue_size)
    <2>1. cap \in Nat /\ cap >= 1
      BY AtLeast1Type DEF Config
    <2>2. frame[p] \in Frame /\ frame[p].n \in Nat /\ frame[p].grain \in Nat
      BY DEF Frame
    <2>3. ChunkGrain(frame[p].n, frame[p].grain, cap) \in Nat
      BY <2>1, <2>2, ChunkGrainType
    <2> HIDE DEF cap
    <2>4. frame' = [frame EXCEPT ![p].cap = cap,
                       ![p].grain = ChunkGrain(frame[p].n, frame[p].grain, cap)]
      BY <1>13 DEF ChunkLimit, cap
    <2>5. frame' \in [Threads -> Frame]
      BY <2>1, <2>2, <2>3, <2>4 DEF Frame
    <2>6. QED
      BY <1>13, <2>5 DEF ChunkLimit, PC, InFor
  <1>14. ASSUME NEW p \in Threads, Concurrency(p) PROVE TypeInv'
    <2>1. CASE concurrency = 0
      BY <1>14, <2>1 DEF Concurrency, PC, InFor
    <2>2. CASE concurrency # 0
      BY <1>14, <2>2, UseWidthType DEF Concurrency
    <2>3. QED
      BY <2>1, <2>2
  <1>15. ASSUME NEW p \in Threads, LazyInitialize(p) PROVE TypeInv'
    BY <1>15, WindowType DEF LazyInitialize, PC, InFor
  <1>16. ASSUME NEW p \in Threads, ConcurrencyReread(p) PROVE TypeInv'
    BY <1>16, UseWidthType DEF ConcurrencyReread
  <1>17. ASSUME NEW p \in Threads, SerialFor(p) PROVE TypeInv'
    <2>1. PICK ret \in {"serial", "exception"} : Leave(p, ret)
      BY <1>17 DEF SerialFor
    <2>2. frame' \in [Threads -> Frame]
      BY <2>1 DEF Leave, Frame
    <2>3. QED
      BY <1>17, <2>1, <2>2 DEF SerialFor, Leave, PC
  <1>18. ASSUME NEW p \in Threads, SubmitChunk(p) PROVE TypeInv'
    <2> DEFINE fr == frame[p]
               hi == Lower(Wrap(fr.begin + fr.grain), fr.n)
    <2>1. fr.begin \in Nat /\ fr.grain \in Nat /\ fr.n \in Nat
      BY DEF Frame
    <2>2. hi \in Nat
      BY <2>1, WrapType DEF Lower
    <2>3. PICK t \in Tasks : TaskStarted(p, t, TRUE, fr.begin, hi, "launch_chunk")
      BY <1>18 DEF SubmitChunk
    <2> HIDE DEF hi
    <2>4. ops' = ops /\ frame' = frame /\ client' = client
      BY <1>18 DEF SubmitChunk
    <2>5. job' \in [Tasks -> Job]
      BY <2>1, <2>2, <2>3, <2>4 DEF TaskStarted, Job
    <2>6. QED
      BY <2>3, <2>4, <2>5 DEF TaskStarted, PC, InFor, Threads
  <1>19. ASSUME NEW p \in Threads, LaunchChunk(p) PROVE TypeInv'
    <2> DEFINE fr == frame[p]
    <2>1. fr \in Frame /\ fr.begin \in Nat /\ fr.grain \in Nat /\ fr.wave \in Seq(Tasks)
      BY DEF Frame
    <2>2. Wrap(fr.begin + fr.grain) \in Nat
      <3>1. fr.begin + fr.grain \in Nat
        BY <2>1
      <3>2. QED
        BY <3>1, WrapType
    <2>3. frame' \in [Threads -> Frame]
      <3>1. CASE frame' = frame
        BY <3>1
      <3>2. ASSUME NEW t \in Tasks,
                   frame' = [frame EXCEPT ![p] = [fr EXCEPT
                      !.wave = Append(@, t), !.begin = Wrap(@ + fr.grain)]]
            PROVE  frame' \in [Threads -> Frame]
        <4>1. Append(fr.wave, t) \in Seq(Tasks)
          BY <2>1
        <4>2. [fr EXCEPT !.wave = Append(@, t), !.begin = Wrap(@ + fr.grain)] \in Frame
          BY <2>1, <2>2, <4>1 DEF Frame
        <4>3. QED
          BY <3>2, <4>2
      <3>3. QED
        BY <1>19, <3>1, <3>2 DEF LaunchChunk
    <2>4. pc' \in [Threads -> PC] /\ RereadSet'
      BY <1>19 DEF LaunchChunk, PC, InFor, Threads
    <2>5. QED
      BY <1>19, <2>3, <2>4 DEF LaunchChunk
  <1>20. ASSUME NEW p \in Threads, LoopEnds(p) PROVE TypeInv'
    BY <1>20 DEF LoopEnds, PC, InFor
  <1>21. ASSUME NEW p \in Threads, JoinChunk(p) PROVE TypeInv'
    <2>1. frame[p] \in Frame /\ frame[p].wave \in Seq(Tasks)
      BY DEF Frame
    <2>2. Tail(frame[p].wave) \in Seq(Tasks)
      BY <1>21, <2>1 DEF JoinChunk
    <2>3. frame' \in [Threads -> Frame]
      BY <1>21, <2>1, <2>2 DEF JoinChunk, Frame
    <2>4. pc' \in [Threads -> PC] /\ RereadSet'
      BY <1>21 DEF JoinChunk, PC, InFor
    <2>5. QED
      BY <1>21, <2>3, <2>4 DEF JoinChunk
  <1>22. ASSUME NEW p \in Threads, WaveJoined(p) PROVE TypeInv'
    BY <1>22 DEF WaveJoined, PC, InFor
  <1>23. ASSUME NEW p \in Threads, Unwind(p) PROVE TypeInv'
    BY <1>23 DEF Unwind, Leave, PC, Frame
  <1>24. ASSUME NEW p \in Threads, AutoDrain(p) PROVE TypeInv'
    BY <1>24 DEF AutoDrain, PC, InFor, Frame
  <1>25. ASSUME NEW p \in Threads, SpuriousWakeup(p) PROVE TypeInv'
    BY <1>25 DEF SpuriousWakeup, PC
  <1>26. CASE UNCHANGED vars
    BY <1>26 DEF vars
  <1>27. QED
    BY <1>1, <1>2, <1>3, <1>4, <1>5, <1>6, <1>7, <1>8, <1>9, <1>10, <1>11, <1>12, <1>13, <1>14, <1>15, <1>16, <1>17, <1>18, <1>19, <1>20, <1>21, <1>22, <1>23, <1>24, <1>25, <1>26 DEF Next, Begin, Advance, Quiescent

(* Every variable keeps its type. *)
THEOREM TypeCorrect == Spec => []TypeOK
  <1>1. TypeInv => TypeOK
    BY DEF TypeInv
  <1>2. QED
    BY <1>1, TypeInvInit, TypeInvNext, PTL DEF Spec
-----------------------------------------------------------------------------
(* What a step does to the tasks that are counted and the threads that wait.*)
CountsTask == \E t \in Tasks :
  /\ pc[t] = "unborn"
  /\ Outstanding' = Outstanding \cup {t} /\ in_flight' = in_flight + 1
  /\ Finished' = Finished /\ Waiting' = Waiting
UncountsTask == \E t \in Outstanding :
  /\ Outstanding' = Outstanding \ {t}
  /\ in_flight' = IF in_flight > 0 THEN in_flight - 1 ELSE in_flight
  /\ Finished' = Finished \cup {t} /\ Waiting' = Waiting
BeginsWait == \E p \in Threads \ Waiting :
  /\ Outstanding' = Outstanding /\ in_flight' = in_flight /\ Finished' = Finished
  /\ Waiting' = Waiting \cup {p}
EndsWait == \E p \in Waiting :
  /\ in_flight = 0
  /\ Outstanding' = Outstanding /\ in_flight' = in_flight /\ Finished' = Finished
  /\ Waiting' = Waiting \ {p}
Silent ==
  /\ Outstanding' = Outstanding /\ in_flight' = in_flight
  /\ Finished' = Finished /\ Waiting' = Waiting

LEMMA TaskStartedCounts ==
  ASSUME TypeOK, NEW p \in Threads, NEW t \in Tasks, pc[t] = "unborn",
         pc[p] \in {"idle", "loop"}, NEW next \in {"launch", "launch_chunk"},
         in_flight' = in_flight + 1, pc' = [pc EXCEPT ![t] = "counted", ![p] = next]
  PROVE  CountsTask
  BY DEF TypeOK, CountsTask, Outstanding, Finished, Waiting, Threads

(* Every step is one of these five. *)
LEMMA StepEffect ==
  ASSUME TypeOK, [Next]_vars
  PROVE  CountsTask \/ UncountsTask \/ BeginsWait \/ EndsWait \/ Silent
  <1> USE DEF TypeOK, Outstanding, Finished, Waiting, Threads, Goto, pool
  <1>1. ASSUME NEW p \in Threads, Submit(p) \/ SubmitChunk(p) PROVE CountsTask
    <2>1. \E t \in Tasks, next \in {"launch", "launch_chunk"} :
            /\ pc[t] = "unborn" /\ in_flight' = in_flight + 1
            /\ pc' = [pc EXCEPT ![t] = "counted", ![p] = next]
      BY <1>1 DEF Submit, SubmitChunk, TaskStarted
    <2>2. pc[p] \in {"idle", "loop"}
      BY <1>1 DEF Submit, SubmitChunk, Start
    <2>3. QED
      BY <2>1, <2>2, TaskStartedCounts, ZenonT(30)
  <1>2. ASSUME NEW p \in Threads, TaskFinished(p) PROVE UncountsTask
    BY <1>2 DEF TaskFinished, UncountsTask
  <1>3. ASSUME NEW p \in Threads, Wait(p) \/ Destroy(p) PROVE BeginsWait
    BY <1>3 DEF Wait, Destroy, Start, BeginsWait
  <1>4. ASSUME NEW p \in Threads, AutoDrain(p) PROVE BeginsWait \/ Silent
    BY <1>4 DEF AutoDrain, BeginsWait, Silent
  <1>5. ASSUME NEW p \in Threads, WaitReturns(p) PROVE EndsWait
    BY <1>5 DEF WaitReturns, EndsWait, Idle
  <1>6. ASSUME NEW p \in Threads,
               Configure(p) \/ Initialize(p) \/ LazyInitialize(p) \/ ChunkLimit(p)
        PROVE  Silent
    BY <1>6 DEF Configure, Initialize, LazyInitialize, ChunkLimit, Start, Silent
  <1>7. ASSUME NEW p \in Threads, ParallelFor(p) \/ ParallelForDefault(p) PROVE Silent
    BY <1>7 DEF ParallelFor, ParallelForDefault, Start, Silent
  <1>8. ASSUME NEW p \in Threads, Launch(p) \/ LaunchChunk(p) PROVE Silent
    BY <1>8 DEF Launch, LaunchChunk, Launching, Silent
  <1>9. ASSUME NEW p \in Threads, NotifyAll(p) PROVE Silent
    BY <1>9 DEF NotifyAll, Silent
  <1>10. ASSUME NEW p \in Threads, WaitBlocks(p) \/ SpuriousWakeup(p) PROVE Silent
    BY <1>10 DEF WaitBlocks, SpuriousWakeup, Silent
  <1>11. ASSUME NEW p \in Threads, Concurrency(p) \/ ConcurrencyReread(p) PROVE Silent
    BY <1>11 DEF Concurrency, ConcurrencyReread, UseWidth, Silent
  <1>12. ASSUME NEW p \in Threads,
                \/ SerialFor(p) \/ LoopEnds(p) \/ JoinChunk(p)
                \/ WaveJoined(p) \/ Unwind(p)
         PROVE  Silent
    BY <1>12 DEF SerialFor, LoopEnds, JoinChunk, WaveJoined, Unwind, Leave, Silent
  <1>13. CASE UNCHANGED vars
    BY <1>13 DEF vars, Silent
  <1>14. QED
    BY <1>1, <1>2, <1>3, <1>4, <1>5, <1>6, <1>7, <1>8, <1>9, <1>10, <1>11, <1>12, <1>13
    DEF Next, Begin, Advance, Quiescent

LEMMA OutstandingFinite == IsFiniteSet(Outstanding) /\ Cardinality(Outstanding) \in Nat
  <1>1. Outstanding \subseteq Tasks
    BY DEF Outstanding
  <1>2. QED
    BY <1>1, ThreadsAssumption, FS_Subset, FS_CardinalityType

LEMMA InFlightExactNext ==
  ASSUME TypeOK, InFlightExact, [Next]_vars
  PROVE  InFlightExact'
  <1>1. CASE CountsTask
    <2>1. PICK t \in Tasks : /\ pc[t] = "unborn" /\ in_flight' = in_flight + 1
                             /\ Outstanding' = Outstanding \cup {t}
      BY <1>1 DEF CountsTask
    <2>2. t \notin Outstanding
      BY <2>1 DEF Outstanding
    <2>3. Cardinality(Outstanding \cup {t}) = Cardinality(Outstanding) + 1
      BY <2>2, OutstandingFinite, FS_AddElement
    <2>4. QED
      BY <2>1, <2>3 DEF InFlightExact
  <1>2. CASE UncountsTask
    <2>1. PICK t \in Outstanding :
            /\ Outstanding' = Outstanding \ {t}
            /\ in_flight' = IF in_flight > 0 THEN in_flight - 1 ELSE in_flight
      BY <1>2 DEF UncountsTask
    <2>2. Cardinality(Outstanding \ {t}) = Cardinality(Outstanding) - 1
      BY OutstandingFinite, FS_RemoveElement
    <2>3. Outstanding # {}
      OBVIOUS
    <2>4. Cardinality(Outstanding) # 0
      BY <2>3, OutstandingFinite, FS_EmptySet
    <2>5. QED
      BY <2>1, <2>2, <2>4, OutstandingFinite DEF InFlightExact
  <1>3. CASE BeginsWait \/ EndsWait \/ Silent
    BY <1>3 DEF BeginsWait, EndsWait, Silent, InFlightExact
  <1>4. QED
    BY <1>1, <1>2, <1>3, StepEffect

LEMMA InFlightExactInit == Init => InFlightExact
  <1>1. SUFFICES ASSUME Init PROVE InFlightExact
    OBVIOUS
  <1>2. Outstanding = {}
    BY <1>1 DEF Init, Outstanding, Threads
  <1>3. QED
    BY <1>1, <1>2, FS_EmptySet DEF Init, InFlightExact

(* The counter is exact in every reachable state. *)
THEOREM InFlightCorrect == Spec => []InFlightExact
  <1>1. TypeInv => TypeOK
    BY DEF TypeInv
  <1>2. TypeInv /\ InFlightExact /\ [Next]_vars => (TypeInv /\ InFlightExact)'
    BY <1>1, TypeInvNext, InFlightExactNext
  <1>3. QED
    BY <1>2, TypeInvInit, InFlightExactInit, PTL DEF Spec
-----------------------------------------------------------------------------
LEMMA IdleMeansNoneOutstanding ==
  ASSUME InFlightExact, in_flight = 0
  PROVE  Outstanding = {}
  BY OutstandingFinite, FS_EmptySet DEF InFlightExact

CountInv == TypeInv /\ InFlightExact

LEMMA CountInvariant == Spec => []CountInv
  <1>1. TypeInv => TypeOK
    BY DEF TypeInv
  <1>2. CountInv /\ [Next]_vars => CountInv'
    BY <1>1, TypeInvNext, InFlightExactNext DEF CountInv
  <1>3. QED
    BY <1>2, TypeInvInit, InFlightExactInit, PTL DEF Spec, CountInv

(* The counter and the condition variable implement TaskGroup (its safety   *)
(* part): in particular wait() and the destructor end only when every       *)
(* submitted task has finished.                                             *)
THEOREM PoolImplementsTaskGroup == Spec => TG!Spec
  <1>1. Init => TG!Init
    BY DEF Init, TG!Init, Outstanding, Finished, Waiting, Threads
  <1>2. CountInv /\ [Next]_vars => [TG!Next]_TG!vars
    <2> SUFFICES ASSUME CountInv, [Next]_vars PROVE [TG!Next]_TG!vars
      OBVIOUS
    <2>1. TypeOK /\ InFlightExact
      BY DEF CountInv, TypeInv
    <2>2. CASE CountsTask
      BY <2>2 DEF CountsTask, TG!Next, TG!StartTask, Outstanding, Finished
    <2>3. CASE UncountsTask
      BY <2>3 DEF UncountsTask, TG!Next, TG!FinishTask, Outstanding
    <2>4. CASE BeginsWait
      BY <2>4 DEF BeginsWait, TG!Next, TG!BeginWait
    <2>5. CASE EndsWait
      <3>1. Outstanding = {}
        BY <2>1, <2>5, IdleMeansNoneOutstanding DEF EndsWait
      <3>2. QED
        BY <2>5, <3>1 DEF EndsWait, TG!Next, TG!EndWait, Waiting
    <2>6. CASE Silent
      BY <2>6 DEF Silent, TG!vars
    <2>7. QED
      BY <2>1, <2>2, <2>3, <2>4, <2>5, <2>6, StepEffect
  <1>3. QED
    BY <1>1, <1>2, CountInvariant, PTL DEF Spec, TG!Spec

(* A task in wait() is itself counted, so the predicate it waits for stays  *)
(* false: with auto_drain on, a parallel_for called from a task of the same *)
(* pool never returns.                                                      *)
THEOREM NestedWaitIsFatal == Spec => TaskWaitNeverReturns
  <1>1. CountInv /\ [Next]_vars =>
          [\A t \in Tasks : pc[t] \in {"wait", "blocked"} => pc'[t] \in {"wait", "blocked"}]_vars
    <2> SUFFICES ASSUME CountInv, [Next]_vars, NEW t \in Tasks, t \in Waiting
                 PROVE  t \in Waiting'
      BY DEF Waiting, Threads
    <2>1. TypeOK /\ InFlightExact
      BY DEF CountInv, TypeInv
    <2>2. t \in Outstanding
      BY DEF Waiting, Outstanding
    <2>3. in_flight # 0
      BY <2>1, <2>2, IdleMeansNoneOutstanding
    <2>4. QED
      BY <2>1, <2>3, StepEffect
      DEF CountsTask, UncountsTask, BeginsWait, EndsWait, Silent
  <1>2. QED
    BY <1>1, CountInvariant, PTL DEF Spec, TaskWaitNeverReturns

(* The window never exceeds the cap of the configuration in force. *)
THEOREM WindowCorrect == Spec => []WindowWithinCap
  <1>1. Init => WindowWithinCap
    BY DEF Init, WindowWithinCap
  <1>2. TypeInv /\ WindowWithinCap /\ [Next]_vars => WindowWithinCap'
    <2> SUFFICES ASSUME TypeInv, WindowWithinCap, [Next]_vars PROVE WindowWithinCap'
      OBVIOUS
    <2> USE DEF WindowWithinCap
    <2>1. ASSUME NEW p \in Threads, Configure(p) PROVE WindowWithinCap'
      <3>1. PICK cfg \in Configs :
              /\ config' = cfg
              /\ concurrency' = IF concurrency = 0 THEN 0
                                ELSE Lower(concurrency, AtLeast1(cfg.max_workers))
        BY <2>1 DEF Configure
      <3>2. cfg.max_workers \in Nat
        BY ConfigAssumption DEF Config
      <3>3. QED
        BY <3>1, <3>2 DEF Lower, AtLeast1, TypeInv, TypeOK
    <2>2. ASSUME NEW p \in Threads, Initialize(p) \/ LazyInitialize(p)
          PROVE  WindowWithinCap'
      <3>1. \E w \in Nat : concurrency' = Window(w, config)
        BY <2>2, SizeAssumption DEF Initialize, LazyInitialize
      <3>2. config' = config
        BY <2>2 DEF Initialize, LazyInitialize
      <3>3. QED
        BY <3>1, <3>2, WindowType DEF TypeInv, TypeOK
    <2>3. CASE UNCHANGED <<config, concurrency>>
      BY <2>3
    <2>4. QED
      BY <2>1, <2>2, <2>3, ZenonT(30)
      DEF Next, Begin, Advance, Submit, Wait, Destroy, ParallelFor, ParallelForDefault,
          Launch, TaskFinished, NotifyAll, WaitReturns, WaitBlocks, ChunkLimit,
          Concurrency, ConcurrencyReread, SerialFor, SubmitChunk, LaunchChunk, LoopEnds,
          JoinChunk, WaveJoined, Unwind, AutoDrain, SpuriousWakeup, Quiescent,
          TaskStarted, pool, vars
  <1>3. QED
    BY <1>1, <1>2, TypeInvInit, TypeInvNext, PTL DEF Spec
-----------------------------------------------------------------------------
(* Once the destructor has begun the other clients rest, and once it has    *)
(* ended all of them do.                                                    *)
InWait(q) == pc[q] \in {"wait", "blocked"}
ClientsQuiet ==
  lifecycle # "live" =>
    /\ \A q \in Callers : InWait(q) \/ pc[q] \in {"idle", "dead"}
    /\ \A q, r \in Callers : InWait(q) /\ InWait(r) => q = r /\ lifecycle = "closing"

(* A pool that is gone has no task left that still has a count.             *)
Drained == lifecycle = "dead" => Outstanding = {}

DestroyInv == CountInv /\ ClientsQuiet /\ Drained

LEMMA ClientsQuietNext ==
  ASSUME TypeOK, ClientsQuiet, [Next]_vars
  PROVE  ClientsQuiet'
  <1> USE ThreadsAssumption DEF TypeOK, ClientsQuiet, InWait, Threads, Goto, pool
  <1>1. ASSUME NEW p \in Threads, Destroy(p) PROVE ClientsQuiet'
    BY <1>1 DEF Destroy
  <1>2. ASSUME NEW p \in Threads, WaitReturns(p) PROVE ClientsQuiet'
    BY <1>2 DEF WaitReturns, InDestructor
  <1>3. ASSUME NEW p \in Threads,
               \/ Configure(p) \/ Initialize(p) \/ Wait(p) \/ ParallelFor(p)
               \/ ParallelForDefault(p) \/ Submit(p)
        PROVE  ClientsQuiet'
    <2>1. lifecycle' = lifecycle /\ (p \in Tasks \/ lifecycle = "live")
      BY <1>3 DEF Configure, Initialize, Wait, ParallelFor, ParallelForDefault, Submit,
                  TaskStarted, Start
    <2>2. \A q \in Threads \ Tasks : q # p => pc'[q] = pc[q]
      BY <1>3 DEF Configure, Initialize, Wait, ParallelFor, ParallelForDefault, Submit,
                  TaskStarted, Start
    <2>3. QED
      BY <2>1, <2>2
  <1>4. ASSUME NEW p \in Threads,
               \/ Launch(p) \/ TaskFinished(p) \/ NotifyAll(p) \/ WaitBlocks(p)
               \/ SpuriousWakeup(p)
        PROVE  ClientsQuiet'
    BY <1>4 DEF Launch, TaskFinished, NotifyAll, WaitBlocks, SpuriousWakeup
  <1>5. ASSUME NEW p \in Threads,
               \/ ChunkLimit(p) \/ Concurrency(p) \/ LazyInitialize(p)
               \/ ConcurrencyReread(p) \/ SerialFor(p) \/ SubmitChunk(p)
        PROVE  ClientsQuiet'
    BY <1>5 DEF ChunkLimit, Concurrency, LazyInitialize, ConcurrencyReread, UseWidth,
                SerialFor, Leave, SubmitChunk, TaskStarted
  <1>6. ASSUME NEW p \in Threads,
               \/ LaunchChunk(p) \/ LoopEnds(p) \/ JoinChunk(p) \/ WaveJoined(p)
               \/ Unwind(p) \/ AutoDrain(p)
        PROVE  ClientsQuiet'
    BY <1>6 DEF LaunchChunk, LoopEnds, JoinChunk, WaveJoined, Unwind, Leave, AutoDrain
  <1>7. CASE UNCHANGED vars
    BY <1>7 DEF vars
  <1>8. QED
    BY <1>1, <1>2, <1>3, <1>4, <1>5, <1>6, <1>7 DEF Next, Begin, Advance, Quiescent

(* The only step left to a pool that is gone is a finished task's notice.   *)
LEMMA DeadPoolRests ==
  ASSUME TypeOK, ClientsQuiet, Drained, [Next]_vars, lifecycle = "dead"
  PROVE  /\ UNCHANGED <<pool, frame, job, ops>>
         /\ \A p \in Threads : pc[p] # "notify" => pc'[p] = pc[p]
         /\ \A p \in Threads : pc[p] = "notify" => pc'[p] \in {"notify", "done"}
  <1>1. \A p \in Callers : p \notin Tasks /\ pc[p] \in {"idle", "dead"}
    BY ThreadsAssumption DEF ClientsQuiet, InWait
  <1>2. \A p \in Tasks : pc[p] \in {"unborn", "notify", "done"}
    BY DEF Drained, Outstanding
  <1>3. ASSUME NEW p \in Threads, NEW op, NEW fr PROVE ~Start(p, op, fr)
    BY <1>1, <1>2 DEF Start, Threads
  <1>4. ASSUME NEW p \in Threads, Begin(p) PROVE FALSE
    BY <1>3, <1>4 DEF Begin, Configure, Initialize, Submit, Wait, Destroy, ParallelFor,
                      ParallelForDefault
  <1>5. ASSUME NEW p \in Threads, Advance(p) \/ SpuriousWakeup(p) PROVE NotifyAll(p)
    <2>1. \/ p \in Callers /\ pc[p] \in {"idle", "dead"}
          \/ p \in Tasks /\ pc[p] \in {"unborn", "notify", "done"}
      BY <1>1, <1>2 DEF Threads
    <2>2. ~TaskFinished(p)
      BY <1>1, <2>1 DEF TaskFinished
    <2>3. /\ ~Launch(p) /\ ~WaitReturns(p) /\ ~WaitBlocks(p) /\ ~ChunkLimit(p)
          /\ ~Concurrency(p) /\ ~LazyInitialize(p) /\ ~ConcurrencyReread(p) /\ ~SerialFor(p)
      BY <2>1 DEF Launch, WaitReturns, WaitBlocks, ChunkLimit, Concurrency, LazyInitialize,
                  ConcurrencyReread, SerialFor
    <2>4. /\ ~SubmitChunk(p) /\ ~LaunchChunk(p) /\ ~LoopEnds(p) /\ ~JoinChunk(p)
          /\ ~WaveJoined(p) /\ ~Unwind(p) /\ ~AutoDrain(p) /\ ~SpuriousWakeup(p)
      BY <2>1 DEF SubmitChunk, LaunchChunk, LoopEnds, JoinChunk, WaveJoined, Unwind,
                  AutoDrain, SpuriousWakeup
    <2> QED
      BY <1>5, <2>2, <2>3, <2>4 DEF Advance
  <1>6. CASE UNCHANGED vars
    BY <1>6 DEF vars, pool
  <1>7. ASSUME NEW t \in Threads, NotifyAll(t)
        PROVE  /\ UNCHANGED <<pool, frame, job, ops>>
               /\ \A p \in Threads : pc[p] # "notify" => pc'[p] = pc[p]
               /\ \A p \in Threads : pc[p] = "notify" => pc'[p] \in {"notify", "done"}
    <2>1. \A p \in Threads : pc[p] # "blocked"
      BY <1>1, <1>2 DEF Threads
    <2> QED
      BY <1>7, <2>1 DEF NotifyAll, pool
  <1> QED
    BY <1>4, <1>5, <1>6, <1>7 DEF Next, Quiescent

LEMMA DrainedNext ==
  ASSUME DestroyInv, [Next]_vars
  PROVE  Drained'
  <1>1. TypeOK /\ InFlightExact /\ ClientsQuiet /\ Drained
    BY DEF DestroyInv, CountInv, TypeInv
  <1>2. SUFFICES ASSUME lifecycle' = "dead" PROVE Outstanding' = {}
    BY DEF Drained
  <1>3. ASSUME NEW p \in Threads, WaitReturns(p) PROVE Outstanding' = {}
    <2>1. Outstanding = {}
      BY <1>1, <1>3, IdleMeansNoneOutstanding DEF WaitReturns, Idle
    <2>2. Outstanding' = Outstanding
      BY <1>1, <1>3 DEF WaitReturns, Outstanding, Goto, TypeOK, Threads
    <2>3. QED
      BY <2>1, <2>2
  <1>4. CASE lifecycle = "dead"
    <2>1. \A t \in Tasks : pc[t] \in {"unborn", "notify", "done"}
      BY <1>1, <1>4 DEF Drained, Outstanding
    <2>2. \A t \in Tasks : pc'[t] \in {"unborn", "notify", "done"}
      BY <1>1, <1>4, <2>1, DeadPoolRests DEF Threads
    <2>3. QED
      BY <2>2 DEF Outstanding
  <1>5. CASE lifecycle # "dead"
    <2>1. \E p \in Threads : WaitReturns(p)
      BY <1>2, <1>5, ZenonT(30) DEF Next, Begin, Advance, Configure, Initialize, Submit, Wait, Destroy,
        ParallelFor, ParallelForDefault, Launch, TaskFinished, NotifyAll,
        WaitBlocks, ChunkLimit, Concurrency, LazyInitialize, ConcurrencyReread,
        SerialFor, SubmitChunk, LaunchChunk, LoopEnds, JoinChunk, WaveJoined, Unwind,
        AutoDrain, SpuriousWakeup, Quiescent, TaskStarted, pool, vars
    <2>2. QED
      BY <1>3, <2>1
  <1>6. QED
    BY <1>4, <1>5

(* Once the destructor has returned no thread reads or writes the members   *)
(* of the pool or moves on inside one of its calls, for any threads, tasks  *)
(* and programs; notify_all() of a task that has given up its count is the  *)
(* exception, and PoolOutlivesTasks says what is wrong with it.             *)
THEOREM DestructorCorrect == Spec => DestructorWaits
  <1>1. Init => ClientsQuiet /\ Drained
    BY DEF Init, ClientsQuiet, Drained
  <1>2. ClientsQuiet /\ Drained /\ CountInv /\ [Next]_vars => (ClientsQuiet /\ Drained)'
    BY ClientsQuietNext, DrainedNext DEF DestroyInv, CountInv, TypeInv
  <1>3. ClientsQuiet /\ Drained /\ CountInv /\ [Next]_vars =>
          [lifecycle = "dead" =>
             /\ UNCHANGED <<pool, frame, job, ops>>
             /\ \A p \in Threads : pc[p] # "notify" => pc'[p] = pc[p]]_vars
    BY DeadPoolRests DEF CountInv, TypeInv
  <1>4. QED
    BY <1>1, <1>2, <1>3, CountInvariant, PTL DEF Spec, DestructorWaits

-----------------------------------------------------------------------------
(***************************************************************************)
(* Proofs about parallel_for: whom a chunk may outlive, what the chunks of *)
(* a call cover, and how many of them there are.                           *)
(*                                                                         *)
(* LoopsInv follows the futures: every chunk of a call is in its wave, or  *)
(* has run, or is being launched. It holds for all sizes. PartsInv follows *)
(* the indices: k chunks of the grain stand for the first k * grain of     *)
(* them. It needs that begin + grain does not wrap (Addressable): a loop   *)
(* of more than half of SIZE_MAX indices can wrap it, and start over.      *)
(***************************************************************************)

(* ---- the inductive invariant ------------------------------------------- *)
(* The places of a parallel_for before its first chunk, and while it submits.*)
Setup == {"limit", "width", "lazy", "reread", "serial"}
Submitting == {"loop", "launch_chunk", "join", "drain"}

InWave(p, t) == \E i \in 1 .. Len(frame[p].wave) : frame[p].wave[i] = t

\* A chunk that has come to its end without an exception.
Ran(t) == pc[t] = "done" /\ ~job[t].threw

\* A chunk whose body may still run.
Running(t) == job[t].chunk /\ pc[t] \notin {"unborn", "notify", "done", "lost"}

\* The chunk that std::async refused, which no future stands for.
Lost(p) == {t \in Chunks(p) : pc[t] = "lost" /\ ~InWave(p, t)}

(* A task that std::async has not been asked for yet belongs to the thread  *)
(* that is about to ask, and a chunk that may still run to a call that has  *)
(* not ended.                                                               *)
TaskInv(t) == LET p == job[t].owner IN
  /\ pc[t] = "unborn" => ~job[t].chunk
  /\ job[t].chunk => job[t].call <= ops[p]
  /\ pc[t] = "counted" => pc[p] = IF job[t].chunk THEN "launch_chunk" ELSE "launch"
  /\ pc[t] = "counted" => \A s \in Tasks : pc[s] = "counted" /\ job[s].owner = p => s = t
  /\ Running(t) => pc[p] \in InFor /\ job[t].call = ops[p]

(* A chunk the call no longer holds a future of has run.                    *)
LoopInv(p) == LET fr == frame[p] IN
  /\ pc[p] \in Setup => Chunks(p) = {} /\ fr.wave = <<>> /\ fr.begin = 0
  /\ pc[p] \in Submitting => \A t \in Chunks(p) :
       InWave(p, t) \/ Ran(t) \/ (pc[p] = "launch_chunk" /\ pc[t] = "counted")
  /\ pc[p] = "unwind" => \A t \in Chunks(p) : InWave(p, t) \/ pc[t] \in {"done", "lost"}
  /\ pc[p] = "unwind" => \A s, t \in Lost(p) : s = t /\ Len(fr.wave) < fr.width
  /\ pc[p] = "drain" => fr.wave = <<>>
  /\ pc[p] \in Submitting \cup {"unwind"} => fr.width >= 2 /\ Len(fr.wave) <= fr.width
  /\ pc[p] \in {"loop", "launch_chunk"} => Len(fr.wave) < fr.width
  /\ fr.ret = "ok" => pc[p] \notin InFor /\ \A t \in Chunks(p) : Ran(t)

LoopsInv == TypeInv /\ (\A t \in Tasks : TaskInv(t)) /\ (\A p \in Threads : LoopInv(p))

USE ThreadsAssumption

LEMMA ThreadIs ==
  ASSUME TypeInv, NEW p \in Threads
  PROVE  /\ frame[p] \in Frame /\ pc[p] \in PC /\ ops[p] \in Nat
         /\ frame[p].n \in Nat /\ frame[p].grain \in Nat /\ frame[p].begin \in Nat
         /\ frame[p].width \in Nat /\ frame[p].cap \in Nat /\ frame[p].pick_grain \in BOOLEAN
         /\ frame[p].wave \in Seq(Tasks) /\ Len(frame[p].wave) \in Nat
  <1>1. frame[p] \in Frame /\ pc[p] \in PC /\ ops[p] \in Nat
    BY DEF TypeInv, TypeOK
  <1> QED
    BY <1>1, LenProperties DEF Frame

LEMMA TaskIs ==
  ASSUME TypeInv, NEW t \in Tasks
  PROVE  /\ job[t] \in Job /\ job[t].owner \in Threads /\ job[t].call \in Nat
         /\ job[t].chunk \in BOOLEAN /\ job[t].lo \in Nat /\ job[t].hi \in Nat
         /\ job[t].threw \in BOOLEAN /\ t \in Threads
  <1>1. job[t] \in Job
    BY DEF TypeInv, TypeOK
  <1> QED
    BY <1>1 DEF Job, Threads

LEMMA ChunkIs ==
  ASSUME NEW p \in Threads, NEW t \in Chunks(p)
  PROVE  t \in Tasks /\ job[t].chunk /\ job[t].owner = p /\ job[t].call = ops[p]
  BY DEF Chunks

(* ---- what other threads' steps leave alone ----------------------------- *)
LEMMA ChunksSame ==
  ASSUME NEW p \in Threads, ops'[p] = ops[p],
         \A t \in Tasks : /\ job'[t].chunk = job[t].chunk /\ job'[t].owner = job[t].owner
                          /\ job'[t].call = job[t].call
  PROVE  Chunks(p)' = Chunks(p)
  BY DEF Chunks

LEMMA LoopKept ==
  ASSUME NEW q \in Threads, LoopInv(q), frame'[q] = frame[q], Chunks(q)' = Chunks(q),
         pc'[q] = pc[q] \/ (pc[q] \notin InFor /\ pc'[q] \notin InFor),
         \A t \in Chunks(q) : /\ Ran(t) => Ran(t)'
                              /\ pc[t] \in {"done", "lost"} => pc'[t] = pc[t]
                              /\ pc[q] = "launch_chunk" /\ pc[t] = "counted" => pc'[t] = "counted"
  PROVE  LoopInv(q)'
  <1>1. \A t : InWave(q, t)' <=> InWave(q, t)
    BY DEF InWave
  <1>2. CASE pc'[q] = pc[q]
    <2>1. pc[q] = "unwind" => Lost(q)' = Lost(q)
      BY <1>1 DEF LoopInv, Lost
    <2> QED
      BY <1>1, <1>2, <2>1 DEF LoopInv
  <1>3. CASE pc[q] \notin InFor /\ pc'[q] \notin InFor
    BY <1>3 DEF LoopInv, InFor, Setup, Submitting
  <1> QED
    BY <1>2, <1>3

LEMMA TaskKept ==
  ASSUME TypeInv, NEW t \in Tasks, TaskInv(t),
         \A s \in Tasks : job'[s].chunk = job[s].chunk /\ job'[s].owner = job[s].owner
                            /\ job'[s].call = job[s].call,
         \A s \in Tasks : /\ pc'[s] = "unborn" => pc[s] = "unborn"
                          /\ pc'[s] = "counted" => pc[s] = "counted",
         ops'[job[t].owner] \in Nat, ops'[job[t].owner] >= ops[job[t].owner],
         pc'[t] = "counted" => pc'[job[t].owner] = pc[job[t].owner],
         Running(t)' => /\ Running(t)
                        /\ pc'[job[t].owner] \in InFor /\ ops'[job[t].owner] = ops[job[t].owner]
  PROVE  TaskInv(t)'
  <1>1. job[t].owner \in Threads /\ job[t].call \in Nat
    BY TaskIs
  <1>2. ops[job[t].owner] \in Nat
    BY <1>1, ThreadIs
  <1> QED
    BY <1>1, <1>2 DEF TaskInv

(* A step that only moves the thread p inside or outside its loop.          *)
LEMMA Moves ==
  ASSUME LoopsInv, TypeInv', NEW p \in Threads, job' = job, ops' = ops,
         \A q \in Threads \ {p} : pc'[q] = pc[q] /\ frame'[q] = frame[q],
         pc[p] \notin {"unborn", "counted", "notify", "done", "lost", "launch", "launch_chunk"},
         pc'[p] \notin {"unborn", "counted", "lost", "done"},
         pc[p] \in InFor => pc'[p] \in InFor \/ \A t \in Chunks(p) : ~Running(t),
         LoopInv(p)'
  PROVE  LoopsInv'
  <1>1. ASSUME NEW q \in Threads, q # p PROVE LoopInv(q)'
    <2>1. Chunks(q)' = Chunks(q)
      BY ChunksSame
    <2>2. \A t \in Chunks(q) : t \in Threads
      BY DEF Chunks, Threads
    <2>3. \A t \in Chunks(q) : t # p => pc'[t] = pc[t]
      BY <2>2
    <2> QED
      BY <1>1, <2>1, <2>3, LoopKept DEF LoopsInv, Ran
  <1>2. ASSUME NEW t \in Tasks PROVE TaskInv(t)'
    <2>1. TaskInv(t) /\ TypeInv
      BY DEF LoopsInv
    <2>2. job[t].owner \in Threads /\ t \in Threads /\ ops[job[t].owner] \in Nat
      BY <2>1, TaskIs, ThreadIs
    <2>3. \A s \in Tasks : /\ pc'[s] = "unborn" => pc[s] = "unborn"
                           /\ pc'[s] = "counted" => pc[s] = "counted"
      BY DEF Threads
    <2>4. pc'[t] = "counted" => pc'[job[t].owner] = pc[job[t].owner]
      BY <2>1, <2>2 DEF TaskInv
    <2>5. Running(t)' => Running(t)
      BY <2>2 DEF Running
    <2>6. ASSUME Running(t) PROVE pc'[job[t].owner] \in InFor
      <3>1. pc[job[t].owner] \in InFor /\ job[t].call = ops[job[t].owner]
        BY <2>1, <2>6 DEF TaskInv
      <3>2. t \in Chunks(job[t].owner)
        BY <2>6, <3>1 DEF Chunks, Running
      <3> QED
        BY <2>2, <2>6, <3>1, <3>2
    <2> QED
      BY <2>1, <2>2, <2>3, <2>4, <2>5, <2>6, TaskKept
  <1> QED
    BY <1>1, <1>2 DEF LoopsInv

(* ---- starting an operation --------------------------------------------- *)
(* The chunks of earlier calls are not those of a new one.                  *)
LEMMA NewCall ==
  ASSUME LoopsInv, NEW p \in Threads, ops'[p] = ops[p] + 1,
         NEW t \in Tasks, job'[t] = job[t]
  PROVE  t \notin Chunks(p)'
  <1>1. TaskInv(t) /\ job[t].call \in Nat /\ ops[p] \in Nat
    BY TaskIs, ThreadIs DEF LoopsInv
  <1> QED
    BY <1>1 DEF Chunks, TaskInv

LEMMA StartStep ==
  ASSUME LoopsInv, TypeInv', NEW p \in Threads, NEW fr, pc[p] = "idle", job' = job,
         ops' = [ops EXCEPT ![p] = ops[p] + 1], frame' = [frame EXCEPT ![p] = fr],
         fr.wave = <<>>, fr.begin = 0, fr.ret # "ok",
         \A q \in Threads \ {p} : pc'[q] = pc[q],
         pc'[p] \in {"idle", "wait", "limit", "width"}
  PROVE  LoopsInv'
  <1>0. /\ TypeInv /\ ops'[p] = ops[p] + 1 /\ ops[p] \in Nat /\ frame'[p] = fr
        /\ \A q \in Threads \ {p} : ops'[q] = ops[q] /\ frame'[q] = frame[q]
    BY ThreadIs DEF LoopsInv, TypeInv, TypeOK
  <1>1. LoopInv(p)'
    <2>1. Chunks(p)' = {}
      BY <1>0, NewCall DEF Chunks
    <2> QED
      BY <1>0, <2>1 DEF LoopInv, Setup, Submitting
  <1>2. ASSUME NEW q \in Threads, q # p PROVE LoopInv(q)'
    <2>1. Chunks(q)' = Chunks(q)
      BY <1>0, <1>2, ChunksSame
    <2>2. \A t \in Chunks(q) : t \in Threads
      BY DEF Chunks, Threads
    <2> QED
      BY <1>0, <1>2, <2>1, <2>2, LoopKept DEF LoopsInv, Ran
  <1>3. ASSUME NEW t \in Tasks PROVE TaskInv(t)'
    <2>1. TaskInv(t) /\ job[t].owner \in Threads /\ t \in Threads /\ ops[job[t].owner] \in Nat
      BY TaskIs, ThreadIs DEF LoopsInv
    <2>2. \A s \in Tasks : /\ pc'[s] = "unborn" => pc[s] = "unborn"
                           /\ pc'[s] = "counted" => pc[s] = "counted"
      BY DEF Threads
    <2>3. pc'[t] = "counted" => pc'[job[t].owner] = pc[job[t].owner]
      BY <2>1, <2>2 DEF TaskInv
    <2>4. Running(t)' => /\ Running(t) /\ pc'[job[t].owner] \in InFor
                         /\ ops'[job[t].owner] = ops[job[t].owner]
      <3>1. Running(t)' => Running(t)
        BY <2>1 DEF Running
      <3>2. Running(t) => job[t].owner # p
        BY <2>1 DEF TaskInv, InFor
      <3> QED
        BY <1>0, <2>1, <3>1, <3>2 DEF TaskInv
    <2>5. ops'[job[t].owner] \in Nat /\ ops'[job[t].owner] >= ops[job[t].owner]
      BY <1>0, <2>1
    <2> QED
      BY <1>0, <2>1, <2>2, <2>3, <2>4, <2>5, TaskKept
  <1> QED
    BY <1>1, <1>2, <1>3 DEF LoopsInv

LEMMA StartsOK ==
  ASSUME LoopsInv, TypeInv', NEW p \in Threads,
         \/ Configure(p) \/ Initialize(p) \/ Wait(p) \/ Destroy(p)
         \/ ParallelFor(p) \/ ParallelForDefault(p)
  PROVE  LoopsInv'
  <1>0. pc \in [Threads -> PC]
    BY DEF LoopsInv, TypeInv, TypeOK
  <1>1. ASSUME NEW op, NEW fr, Start(p, op, fr)
        PROVE  /\ pc[p] = "idle" /\ ops' = [ops EXCEPT ![p] = ops[p] + 1]
               /\ frame' = [frame EXCEPT ![p] = fr]
    BY <1>1 DEF Start
  <1>2. NoFrame.wave = <<>> /\ NoFrame.begin = 0 /\ NoFrame.ret # "ok"
    BY DEF NoFrame
  <1>3. CASE Configure(p) \/ Initialize(p)
    <2>1. job' = job /\ pc' = pc /\ \E op : Start(p, op, NoFrame)
      BY <1>3 DEF Configure, Initialize
    <2> QED
      BY <1>1, <1>2, <2>1, StartStep
  <1>4. CASE Wait(p) \/ Destroy(p)
    <2>1. /\ job' = job /\ pc' = [pc EXCEPT ![p] = "wait"] /\ \E op : Start(p, op, NoFrame)
      BY <1>4 DEF Wait, Destroy, Goto
    <2> QED
      BY <1>0, <1>1, <1>2, <2>1, StartStep
  <1>5. CASE ParallelFor(p)
    <2>1. PICK n \in Lengths, grain \in Grains :
            /\ Start(p, "parallel_for", [NoFrame EXCEPT
                           !.n = n, !.grain = AtLeast1(grain),
                           !.ret = IF n = 0 THEN "serial" ELSE "none"])
            /\ pc' = [pc EXCEPT ![p] = IF n = 0 THEN "idle" ELSE "limit"]
      BY <1>5 DEF ParallelFor, Goto
    <2> DEFINE fr == [NoFrame EXCEPT !.n = n, !.grain = AtLeast1(grain),
                                     !.ret = IF n = 0 THEN "serial" ELSE "none"]
    <2>2. fr.wave = <<>> /\ fr.begin = 0 /\ fr.ret # "ok"
      BY DEF NoFrame
    <2>3. frame' = [frame EXCEPT ![p] = fr] /\ pc[p] = "idle" /\ ops' = [ops EXCEPT ![p] = ops[p] + 1]
      BY <1>1, <2>1
    <2> HIDE DEF fr
    <2>4. pc'[p] \in {"idle", "limit"} /\ \A q \in Threads \ {p} : pc'[q] = pc[q]
      BY <1>0, <2>1
    <2>5. job' = job
      BY <1>5 DEF ParallelFor
    <2> QED
      BY <2>2, <2>3, <2>4, <2>5, StartStep
  <1>6. CASE ParallelForDefault(p)
    <2>1. PICK n \in Lengths :
            Start(p, "parallel_for_default", [NoFrame EXCEPT !.n = n, !.pick_grain = TRUE])
      BY <1>6 DEF ParallelForDefault
    <2> DEFINE fr == [NoFrame EXCEPT !.n = n, !.pick_grain = TRUE]
    <2>2. fr.wave = <<>> /\ fr.begin = 0 /\ fr.ret # "ok"
      BY DEF NoFrame
    <2>3. frame' = [frame EXCEPT ![p] = fr] /\ pc[p] = "idle" /\ ops' = [ops EXCEPT ![p] = ops[p] + 1]
      BY <1>1, <2>1
    <2> HIDE DEF fr
    <2>4. pc'[p] = "width" /\ \A q \in Threads \ {p} : pc'[q] = pc[q]
      BY <1>0, <1>6 DEF ParallelForDefault, Goto
    <2>5. job' = job
      BY <1>6 DEF ParallelForDefault
    <2> QED
      BY <2>2, <2>3, <2>4, <2>5, StartStep
  <1> QED
    BY <1>3, <1>4, <1>5, <1>6

(* ---- tasks ------------------------------------------------------------- *)
(* task_started(): what it means for all calls but the one it is made in.   *)
LEMMA TaskStartedStep ==
  ASSUME LoopsInv, TypeInv', NEW p \in Threads, NEW t \in Tasks, NEW chunk \in BOOLEAN,
         NEW lo, NEW hi, NEW next,
         TaskStarted(p, t, chunk, lo, hi, next),
         next = IF chunk THEN "launch_chunk" ELSE "launch",
         pc[p] \in {"idle", "loop"}, chunk => pc[p] = "loop" /\ ops' = ops,
         ~chunk => pc[p] = "idle" /\ ops' = [ops EXCEPT ![p] = ops[p] + 1],
         \A q \in Threads \ {p} : frame'[q] = frame[q],
         LoopInv(p)'
  PROVE  LoopsInv'
  <1>0. /\ TypeInv /\ pc[t] = "unborn" /\ t \in Threads /\ t # p
        /\ pc'[t] = "counted" /\ pc'[p] = next
        /\ \A q \in Threads \ {p, t} : pc'[q] = pc[q]
        /\ job'[t] = [owner |-> p, call |-> ops'[p], chunk |-> chunk,
                      lo |-> lo, hi |-> hi, threw |-> FALSE]
        /\ \A s \in Tasks \ {t} : job'[s] = job[s]
        /\ \A q \in Threads \ {p} : ops'[q] = ops[q]
        /\ ops[p] \in Nat /\ ops'[p] \in Nat /\ ops'[p] >= ops[p]
    <2>1. pc \in [Threads -> PC] /\ job \in [Tasks -> Job] /\ ops \in [Threads -> Nat]
          /\ t \in Threads /\ TypeInv
      BY TaskIs DEF LoopsInv, TypeInv, TypeOK
    <2> QED
      BY <2>1 DEF TaskStarted
  <1>1. TaskInv(t) /\ ~job[t].chunk
    BY <1>0 DEF LoopsInv, TaskInv
  <1>2. ASSUME NEW q \in Threads, q # p PROVE LoopInv(q)'
    <2>1. Chunks(q)' = Chunks(q) /\ t \notin Chunks(q)
      BY <1>0, <1>1, <1>2 DEF Chunks
    <2>2. \A s \in Chunks(q) : s \in Threads /\ s \in Tasks
      BY DEF Chunks, Threads
    <2>3. \A s \in Chunks(q) : s # p => pc'[s] = pc[s] /\ job'[s] = job[s]
      BY <1>0, <2>1, <2>2
    <2>4. pc'[q] = pc[q] \/ (pc[q] \notin InFor /\ pc'[q] \notin InFor)
      BY <1>0, <1>2 DEF InFor
    <2>5. pc[p] \notin {"done", "lost", "counted"}
      OBVIOUS
    <2>6. \A s \in Chunks(q) : /\ Ran(s) => Ran(s)'
                               /\ pc[s] \in {"done", "lost"} => pc'[s] = pc[s]
                               /\ pc[s] = "counted" => pc'[s] = "counted"
      BY <2>3, <2>5 DEF Ran
    <2> QED
      BY <1>2, <2>1, <2>4, <2>6, LoopKept DEF LoopsInv
  <1>3. ASSUME NEW s \in Tasks, s # t PROVE TaskInv(s)'
    <2> DEFINE o == job[s].owner
    <2>1. TaskInv(s) /\ o \in Threads /\ s \in Threads /\ ops[o] \in Nat /\ job[s].call \in Nat
          /\ job'[s] = job[s]
      BY <1>0, <1>3, TaskIs, ThreadIs DEF LoopsInv
    <2>2. ops'[o] \in Nat /\ ops'[o] >= ops[o]
      BY <1>0, <2>1
    <2>3. /\ pc'[s] = "unborn" => pc[s] = "unborn"
          /\ pc'[s] = "counted" => pc[s] = "counted"
      BY <1>0, <1>3, <2>1
    <2>4. pc[s] = "counted" => o # p /\ o # t
      BY <1>0, <2>1 DEF TaskInv
    <2>5. pc'[s] = "counted" => pc'[o] = pc[o]
      BY <1>0, <2>1, <2>3, <2>4
    <2>6. ASSUME pc'[s] = "counted", NEW u \in Tasks, pc'[u] = "counted", job'[u].owner = o
          PROVE  u = s
      <3>1. u # t
        BY <1>0, <2>3, <2>4, <2>6
      <3>2. pc[u] = "counted" /\ job[u].owner = o
        BY <1>0, <2>6, <3>1 DEF Threads
      <3> QED
        BY <2>1, <2>3, <2>6, <3>2 DEF TaskInv
    <2>7. ASSUME Running(s)' PROVE pc'[o] \in InFor /\ job[s].call = ops'[o]
      <3>1. Running(s)
        BY <1>0, <1>3, <2>1, <2>7 DEF Running
      <3>2. pc[o] \in InFor /\ job[s].call = ops[o]
        BY <2>1, <3>1 DEF TaskInv
      <3>3. o # t
        BY <1>0, <3>2 DEF InFor
      <3>4. CASE o = p
        BY <1>0, <3>2, <3>4 DEF InFor
      <3>5. CASE o # p
        BY <1>0, <2>1, <3>2, <3>3, <3>5
      <3> QED
        BY <3>4, <3>5
    <2> QED
      BY <2>1, <2>2, <2>3, <2>5, <2>6, <2>7 DEF TaskInv
  <1>4. TaskInv(t)'
    <2>1. ASSUME NEW s \in Tasks, pc'[s] = "counted", job'[s].owner = p PROVE s = t
      <3> SUFFICES ASSUME s # t PROVE FALSE
        OBVIOUS
      <3>1. pc[s] = "counted" /\ job[s].owner = p
        BY <1>0, <2>1 DEF Threads
      <3>2. TaskInv(s)
        BY DEF LoopsInv
      <3> QED
        BY <3>1, <3>2 DEF TaskInv
    <2> QED
      BY <1>0, <2>1 DEF TaskInv, Running, InFor
  <1> QED
    BY <1>2, <1>3, <1>4 DEF LoopsInv

LEMMA SubmitOK ==
  ASSUME LoopsInv, TypeInv', NEW p \in Threads, Submit(p)
  PROVE  LoopsInv'
  <1>1. /\ pc[p] = "idle" /\ ops' = [ops EXCEPT ![p] = ops[p] + 1]
        /\ frame' = [frame EXCEPT ![p] = NoFrame]
    BY DEF Submit, Start
  <1>2. PICK t \in Tasks : TaskStarted(p, t, FALSE, 0, 0, "launch")
    BY DEF Submit
  <1>3. /\ ops'[p] = ops[p] + 1 /\ frame'[p] = NoFrame /\ pc'[p] = "launch"
        /\ \A q \in Threads \ {p} : frame'[q] = frame[q]
        /\ \A s \in Tasks : s # t => job'[s] = job[s]
        /\ ~job'[t].chunk
    BY <1>1, <1>2 DEF LoopsInv, TypeInv, TypeOK, TaskStarted
  <1>4. Chunks(p)' = {}
    BY <1>3, NewCall DEF Chunks
  <1>5. LoopInv(p)'
    BY <1>3, <1>4 DEF LoopInv, Setup, Submitting, NoFrame
  <1> QED
    BY <1>1, <1>2, <1>3, <1>5, TaskStartedStep

(* std::async starts the task or throws.                                    *)
LEMMA LaunchStep ==
  ASSUME LoopsInv, TypeInv', NEW p \in Threads, NEW t \in Tasks, Launching(p, t),
         pc[p] \in {"launch", "launch_chunk"}, job' = job, ops' = ops,
         \A q \in Threads \ {p} : frame'[q] = frame[q],
         pc'[t] \in {"idle", "lost"},
         pc[p] = "launch" => pc'[p] = "idle", pc[p] = "launch_chunk" => pc'[p] \in InFor,
         pc'[p] \notin {"launch", "launch_chunk"},
         \A q \in Threads \ {p, t} : pc'[q] = pc[q],
         LoopInv(p)'
  PROVE  LoopsInv'
  <1>0. /\ TypeInv /\ TaskInv(t) /\ t \in Threads /\ pc[t] = "counted" /\ job[t].owner = p
        /\ job[t].chunk <=> pc[p] = "launch_chunk"
        /\ job[t].chunk \in BOOLEAN
    BY TaskIs DEF LoopsInv, TaskInv, Launching
  <1>1. ASSUME NEW q \in Threads, q # p PROVE LoopInv(q)'
    <2>1. Chunks(q)' = Chunks(q) /\ t \notin Chunks(q)
      BY <1>0, <1>1 DEF Chunks
    <2>2. \A s \in Chunks(q) : s \in Threads
      BY DEF Chunks, Threads
    <2>3. \A s \in Chunks(q) : s # p => pc'[s] = pc[s]
      BY <2>1, <2>2
    <2>4. pc'[q] = pc[q] \/ (pc[q] \notin InFor /\ pc'[q] \notin InFor)
      BY <1>0, <1>1 DEF InFor
    <2> QED
      BY <1>1, <2>1, <2>3, <2>4, LoopKept DEF LoopsInv, Ran
  <1>2. ASSUME NEW s \in Tasks PROVE TaskInv(s)'
    <2>1. TaskInv(s) /\ job[s].owner \in Threads /\ s \in Threads /\ ops[job[s].owner] \in Nat
      BY TaskIs, ThreadIs DEF LoopsInv
    <2>2. \A u \in Tasks : /\ pc'[u] = "unborn" => pc[u] = "unborn"
                           /\ pc'[u] = "counted" => pc[u] = "counted"
      BY <1>0 DEF Threads, InFor
    <2>3. ASSUME pc'[s] = "counted" PROVE pc'[job[s].owner] = pc[job[s].owner]
      <3>1. s # t /\ pc[s] = "counted"
        BY <2>2, <2>3
      <3>2. job[s].owner # p
        BY <1>0, <3>1 DEF TaskInv
      <3>3. job[s].owner # t
        BY <1>0, <2>1, <3>1 DEF TaskInv
      <3> QED
        BY <2>1, <3>2, <3>3
    <2>4. Running(s)' => Running(s)
      BY <1>0, <2>1 DEF Running
    <2>5. Running(s) => pc'[job[s].owner] \in InFor
      <3>1. Running(s) => job[s].owner # t
        BY <1>0, <2>1 DEF TaskInv, InFor
      <3>2. Running(s) /\ job[s].owner = p => pc[p] = "launch_chunk"
        BY <2>1 DEF TaskInv, InFor
      <3> QED
        BY <2>1, <3>1, <3>2 DEF TaskInv
    <2> QED
      BY <1>0, <2>1, <2>2, <2>3, <2>4, <2>5, TaskKept
  <1> QED
    BY <1>1, <1>2 DEF LoopsInv

LEMMA LaunchOK ==
  ASSUME LoopsInv, TypeInv', NEW p \in Threads, Launch(p)
  PROVE  LoopsInv'
  <1>1. PICK t \in Tasks : /\ Launching(p, t)
                           /\ \/ pc' = [pc EXCEPT ![t] = "idle", ![p] = "idle"]
                              \/ pc' = [pc EXCEPT ![t] = "lost", ![p] = "idle"]
    BY DEF Launch
  <1>2. /\ pc[p] = "launch" /\ job' = job /\ ops' = ops /\ frame' = frame /\ t \in Threads
        /\ pc \in [Threads -> PC] /\ t # p
    BY <1>1, TaskIs DEF Launch, LoopsInv, TypeInv, TypeOK, Launching
  <1>3. /\ pc'[p] = "idle" /\ pc'[t] \in {"idle", "lost"}
        /\ \A q \in Threads \ {p, t} : pc'[q] = pc[q]
    BY <1>1, <1>2
  <1>4. LoopInv(p)'
    <2>1. Chunks(p)' = Chunks(p) /\ t \notin Chunks(p)
      <3>1. TaskInv(t) /\ job[t].owner = p
        BY <1>1 DEF LoopsInv, Launching
      <3> QED
        BY <1>1, <1>2, <3>1 DEF Chunks, TaskInv, Launching
    <2>2. \A s \in Chunks(p) : s # p => pc'[s] = pc[s]
      BY <1>3, <2>1 DEF Chunks, Threads
    <2> QED
      BY <1>2, <1>3, <2>1, <2>2, LoopKept DEF LoopsInv, Ran, InFor
  <1> QED
    BY <1>1, <1>2, <1>3, <1>4, LaunchStep

LEMMA TaskFinishedOK ==
  ASSUME LoopsInv, TypeInv', NEW t \in Threads, TaskFinished(t)
  PROVE  LoopsInv'
  <1>0. /\ t \in Tasks /\ pc[t] = "idle" /\ pc' = [pc EXCEPT ![t] = "notify"]
        /\ ops' = ops /\ frame' = frame /\ TypeInv
        /\ pc \in [Threads -> PC]
    BY DEF TaskFinished, Goto, LoopsInv, TypeInv, TypeOK
  <1>1. /\ \A s \in Tasks \ {t} : job'[s] = job[s]
        /\ job'[t].chunk = job[t].chunk /\ job'[t].owner = job[t].owner
        /\ job'[t].call = job[t].call
    <2>1. job \in [Tasks -> Job] /\ job[t] \in Job
      BY <1>0 DEF TypeInv, TypeOK
    <2>2. PICK threw : job' = [job EXCEPT ![t].threw = threw]
      BY DEF TaskFinished
    <2> QED
      BY <1>0, <2>1, <2>2 DEF Job
  <1>2. pc'[t] = "notify" /\ \A q \in Threads \ {t} : pc'[q] = pc[q]
    BY <1>0
  <1>3. ASSUME NEW q \in Threads PROVE LoopInv(q)'
    <2>1. Chunks(q)' = Chunks(q)
      BY <1>0, <1>1, ChunksSame
    <2>2. \A s \in Chunks(q) : s \in Threads /\ s \in Tasks
      BY DEF Chunks, Threads
    <2>3. \A s \in Chunks(q) : s # t => pc'[s] = pc[s] /\ job'[s] = job[s]
      BY <1>1, <1>2, <2>2
    <2> QED
      BY <1>0, <1>2, <2>1, <2>3, LoopKept DEF LoopsInv, Ran, InFor
  <1>4. ASSUME NEW s \in Tasks PROVE TaskInv(s)'
    <2>1. TaskInv(s) /\ job[s].owner \in Threads /\ s \in Threads /\ ops[job[s].owner] \in Nat
      BY TaskIs, ThreadIs DEF LoopsInv
    <2>2. \A u \in Tasks : /\ pc'[u] = "unborn" => pc[u] = "unborn"
                           /\ pc'[u] = "counted" => pc[u] = "counted"
                           /\ job'[u].chunk = job[u].chunk /\ job'[u].owner = job[u].owner
                           /\ job'[u].call = job[u].call
      BY <1>1, <1>2 DEF Threads
    <2>3. pc'[s] = "counted" => pc'[job[s].owner] = pc[job[s].owner]
      BY <1>0, <1>2, <2>1, <2>2 DEF TaskInv
    <2>4. Running(s)' => Running(s)
      BY <1>2, <2>1, <2>2 DEF Running
    <2>5. Running(s) => pc'[job[s].owner] \in InFor
      BY <1>0, <1>2, <2>1 DEF TaskInv, InFor
    <2> QED
      BY <1>0, <2>1, <2>2, <2>3, <2>4, <2>5, TaskKept
  <1> QED
    BY <1>0, <1>3, <1>4 DEF LoopsInv

LEMMA NotifyAllOK ==
  ASSUME LoopsInv, TypeInv', NEW t \in Threads, NotifyAll(t)
  PROVE  LoopsInv'
  <1>0. /\ pc[t] = "notify" /\ job' = job /\ ops' = ops /\ frame' = frame /\ TypeInv
        /\ pc'[t] = "done"
        /\ \A q \in Threads \ {t} : pc'[q] = IF pc[q] = "blocked" THEN "wait" ELSE pc[q]
    BY DEF NotifyAll, LoopsInv
  <1>1. ASSUME NEW q \in Threads PROVE LoopInv(q)'
    <2>1. Chunks(q)' = Chunks(q)
      BY <1>0, ChunksSame
    <2>2. \A s \in Chunks(q) : s \in Threads
      BY DEF Chunks, Threads
    <2>3. \A s \in Chunks(q) : pc[s] \in {"done", "lost", "counted"} => pc'[s] = pc[s]
      BY <1>0, <2>2
    <2>4. pc'[q] = pc[q] \/ (pc[q] \notin InFor /\ pc'[q] \notin InFor)
      BY <1>0 DEF InFor
    <2> QED
      BY <1>0, <2>1, <2>3, <2>4, LoopKept DEF LoopsInv, Ran
  <1>2. ASSUME NEW s \in Tasks PROVE TaskInv(s)'
    <2>1. TaskInv(s) /\ job[s].owner \in Threads /\ s \in Threads /\ ops[job[s].owner] \in Nat
      BY TaskIs, ThreadIs DEF LoopsInv
    <2>2. \A u \in Tasks : /\ pc'[u] = "unborn" => pc[u] = "unborn"
                           /\ pc'[u] = "counted" => pc[u] = "counted"
      BY <1>0 DEF Threads
    <2>3. pc'[s] = "counted" => pc'[job[s].owner] = pc[job[s].owner]
      BY <1>0, <2>1, <2>2 DEF TaskInv
    <2>4. Running(s)' => Running(s)
      BY <1>0, <2>1 DEF Running
    <2>5. Running(s) => pc'[job[s].owner] \in InFor
      BY <1>0, <2>1 DEF TaskInv, InFor
    <2> QED
      BY <1>0, <2>1, <2>2, <2>3, <2>4, <2>5, TaskKept
  <1> QED
    BY <1>1, <1>2 DEF LoopsInv

LEMMA WaitsOK ==
  ASSUME LoopsInv, TypeInv', NEW p \in Threads,
         WaitReturns(p) \/ WaitBlocks(p) \/ SpuriousWakeup(p)
  PROVE  LoopsInv'
  <1>1. /\ pc[p] \in {"wait", "blocked"} /\ pc'[p] \in {"wait", "blocked", "idle", "dead"}
        /\ job' = job /\ ops' = ops /\ frame' = frame
        /\ \A q \in Threads \ {p} : pc'[q] = pc[q]
    BY DEF WaitReturns, WaitBlocks, SpuriousWakeup, Goto, LoopsInv, TypeInv, TypeOK
  <1>2. LoopInv(p)'
    <2>1. Chunks(p)' = Chunks(p)
      BY <1>1, ChunksSame
    <2>2. \A s \in Chunks(p) : s \in Threads
      BY DEF Chunks, Threads
    <2>3. \A s \in Chunks(p) : s # p => pc'[s] = pc[s]
      BY <1>1, <2>2
    <2> QED
      BY <1>1, <2>1, <2>3, LoopKept DEF LoopsInv, Ran, InFor
  <1> QED
    BY <1>1, <1>2, Moves DEF InFor

(* ---- parallel_for ------------------------------------------------------ *)
(* Before the first chunk.                                                  *)
LEMMA SetupStep ==
  ASSUME LoopsInv, TypeInv', NEW p \in Threads, pc[p] \in Setup,
         job' = job, ops' = ops,
         \A q \in Threads \ {p} : pc'[q] = pc[q] /\ frame'[q] = frame[q],
         frame'[p].wave = frame[p].wave, frame'[p].begin = frame[p].begin,
         pc'[p] \in Setup \cup {"idle", "loop"},
         pc'[p] = "loop" => frame'[p].width >= 2,
         frame'[p].ret # "ok" \/ pc'[p] = "idle"
  PROVE  LoopsInv'
  <1>1. Chunks(p) = {} /\ frame[p].wave = <<>> /\ frame[p].begin = 0
    BY DEF LoopsInv, LoopInv
  <1>2. Chunks(p)' = {}
    BY <1>1, ChunksSame
  <1>3. Len(frame'[p].wave) = 0 /\ frame'[p].width \in Nat
    BY <1>1, EmptySeq, ThreadIs DEF TypeInv, TypeOK, Frame
  <1>4. LoopInv(p)'
    BY <1>1, <1>2, <1>3 DEF LoopInv, Setup, Submitting, InFor
  <1> QED
    BY <1>1, <1>4, Moves DEF Setup

LEMMA UseWidthOK ==
  ASSUME LoopsInv, TypeInv', NEW p \in Threads, pc[p] \in Setup, UseWidth(p, concurrency),
         job' = job, ops' = ops
  PROVE  LoopsInv'
  <1> DEFINE fr == frame[p]
  <1>0. /\ concurrency \in Nat /\ fr \in Frame /\ frame \in [Threads -> Frame]
        /\ pc \in [Threads -> PC] /\ fr.n \in Nat /\ fr.grain \in Nat /\ fr.ret # "ok"
    BY ThreadIs DEF LoopsInv, TypeInv, TypeOK, LoopInv, Setup, InFor
  <1>1. CASE fr.pick_grain
    <2> DEFINE g == [fr EXCEPT !.pick_grain = FALSE, !.grain = DefaultGrain(fr.n, concurrency),
                               !.ret = IF fr.n = 0 THEN "serial" ELSE "none"]
    <2>1. frame' = [frame EXCEPT ![p] = g]
      BY <1>1 DEF UseWidth
    <2>2. g.wave = fr.wave /\ g.begin = fr.begin /\ g.ret # "ok"
      BY <1>0 DEF Frame
    <2> HIDE DEF g
    <2>3. frame'[p] = g /\ \A q \in Threads \ {p} : frame'[q] = frame[q]
      BY <1>0, <2>1
    <2>4. pc'[p] \in {"idle", "limit"} /\ \A q \in Threads \ {p} : pc'[q] = pc[q]
      BY <1>0, <1>1 DEF UseWidth, Goto
    <2> QED
      BY <2>2, <2>3, <2>4, SetupStep DEF Setup
  <1>2. CASE ~fr.pick_grain
    <2> DEFINE g == [fr EXCEPT !.width = concurrency]
    <2>1. frame' = [frame EXCEPT ![p] = g]
      BY <1>2 DEF UseWidth
    <2>2. g.wave = fr.wave /\ g.begin = fr.begin /\ g.width = concurrency /\ g.ret = fr.ret
      BY <1>0 DEF Frame
    <2> HIDE DEF g
    <2>3. frame'[p] = g /\ \A q \in Threads \ {p} : frame'[q] = frame[q]
      BY <1>0, <2>1
    <2>4. /\ pc'[p] \in {"serial", "loop"} /\ \A q \in Threads \ {p} : pc'[q] = pc[q]
          /\ pc'[p] = "loop" => ~(concurrency <= 1)
      BY <1>0, <1>2 DEF UseWidth, Goto
    <2>5. pc'[p] = "loop" => g.width >= 2
      BY <1>0, <2>2, <2>4
    <2> QED
      BY <1>0, <2>2, <2>3, <2>4, <2>5, SetupStep DEF Setup
  <1> QED
    BY <1>1, <1>2

LEMMA SetupOK ==
  ASSUME LoopsInv, TypeInv', NEW p \in Threads,
         \/ ChunkLimit(p) \/ Concurrency(p) \/ LazyInitialize(p) \/ ConcurrencyReread(p)
         \/ SerialFor(p)
  PROVE  LoopsInv'
  <1>0. pc[p] \in Setup /\ job' = job /\ ops' = ops
        /\ pc \in [Threads -> PC] /\ frame \in [Threads -> Frame] /\ frame[p] \in Frame
        /\ frame[p].ret # "ok"
    BY ThreadIs DEF ChunkLimit, Concurrency, LazyInitialize, ConcurrencyReread, SerialFor, Setup,
                    LoopsInv, TypeInv, TypeOK, LoopInv, InFor
  <1>1. CASE ChunkLimit(p) \/ SerialFor(p)
    <2>1. /\ pc'[p] \in {"width", "idle"} /\ \A q \in Threads \ {p} : pc'[q] = pc[q]
      BY <1>0, <1>1 DEF ChunkLimit, SerialFor, Leave, Goto
    <2>2. /\ frame'[p].wave = frame[p].wave /\ frame'[p].begin = frame[p].begin
          /\ frame'[p].ret # "ok"
          /\ \A q \in Threads \ {p} : frame'[q] = frame[q]
      <3>1. CASE ChunkLimit(p)
        BY <1>0, <3>1 DEF ChunkLimit, Frame
      <3>2. CASE SerialFor(p)
        BY <1>0, <3>2 DEF SerialFor, Leave, Frame
      <3> QED
        BY <1>1, <3>1, <3>2
    <2> QED
      BY <1>0, <2>1, <2>2, SetupStep DEF Setup
  <1>2. CASE UseWidth(p, concurrency)
    BY <1>0, <1>2, UseWidthOK
  <1>3. CASE pc' = [pc EXCEPT ![p] = "lazy"] /\ frame' = frame
    BY <1>0, <1>3, SetupStep DEF Setup
  <1>4. CASE LazyInitialize(p)
    BY <1>0, <1>4, SetupStep DEF LazyInitialize, Goto, Setup
  <1> QED
    BY <1>1, <1>2, <1>3, <1>4 DEF Concurrency, ConcurrencyReread, Goto

LEMMA SubmitChunkOK ==
  ASSUME LoopsInv, TypeInv', NEW p \in Threads, SubmitChunk(p)
  PROVE  LoopsInv'
  <1> DEFINE fr == frame[p]
             hi == Lower(Wrap(fr.begin + fr.grain), fr.n)
  <1>1. pc[p] = "loop" /\ frame' = frame /\ ops' = ops
    BY DEF SubmitChunk
  <1>2. PICK t \in Tasks : TaskStarted(p, t, TRUE, fr.begin, hi, "launch_chunk")
    BY DEF SubmitChunk
  <1> HIDE DEF hi
  <1>3. /\ pc[t] = "unborn" /\ t # p /\ t \in Threads /\ pc'[t] = "counted" /\ pc'[p] = "launch_chunk"
        /\ \A q \in Threads \ {p, t} : pc'[q] = pc[q]
        /\ \A s \in Tasks \ {t} : job'[s] = job[s]
    BY <1>1, <1>2, TaskIs DEF LoopsInv, TypeInv, TypeOK, TaskStarted
  <1>4. LoopInv(p)'
    <2>1. \A s \in Chunks(p)' : s # t => s \in Chunks(p) /\ s \in Tasks
      BY <1>1, <1>3 DEF Chunks
    <2>2. t \notin Chunks(p)
      BY <1>3 DEF LoopsInv, TaskInv, Chunks
    <2>3. LoopInv(p)
      BY DEF LoopsInv
    <2>4. ASSUME NEW s \in Chunks(p)', s # t PROVE InWave(p, s)' \/ Ran(s)'
      <3>1. InWave(p, s) \/ Ran(s)
        BY <1>1, <2>1, <2>3, <2>4 DEF LoopInv, Submitting
      <3>2. Ran(s) => Ran(s)'
        <4>1. s \in Threads /\ s \in Tasks
          BY <2>1, <2>4 DEF Threads
        <4>2. s # p => pc'[s] = pc[s] /\ job'[s] = job[s]
          BY <1>3, <2>4, <4>1
        <4> QED
          BY <1>1, <4>2 DEF Ran
      <3> QED
        BY <1>1, <3>1, <3>2 DEF InWave
    <2>6. fr.ret # "ok"
      BY <1>1, <2>3 DEF LoopInv, InFor
    <2> QED
      BY <1>1, <1>3, <2>3, <2>4, <2>6 DEF LoopInv, Setup, Submitting
  <1> QED
    BY <1>1, <1>2, <1>4, TaskStartedStep

LEMMA LaunchChunkOK ==
  ASSUME LoopsInv, TypeInv', NEW p \in Threads, LaunchChunk(p)
  PROVE  LoopsInv'
  <1> DEFINE fr == frame[p]
             g(t) == [fr EXCEPT !.wave = Append(fr.wave, t), !.begin = Wrap(fr.begin + fr.grain)]
             after == IF Len(fr.wave) + 1 >= fr.width THEN "join" ELSE "loop"
  <1>1. PICK t \in Tasks :
          /\ Launching(p, t)
          /\ \/ frame' = [frame EXCEPT ![p] = g(t)] /\ pc' = [pc EXCEPT ![t] = "idle", ![p] = after]
             \/ frame' = frame /\ pc' = [pc EXCEPT ![t] = "lost", ![p] = "unwind"]
    BY DEF LaunchChunk
  <1>2. /\ pc[p] = "launch_chunk" /\ pc[t] = "counted" /\ job[t].owner = p /\ t # p /\ t \in Threads
        /\ job' = job /\ ops' = ops /\ fr \in Frame /\ fr.wave \in Seq(Tasks) /\ Len(fr.wave) \in Nat
        /\ fr.width \in Nat /\ fr.ret # "ok"
        /\ pc \in [Threads -> PC] /\ frame \in [Threads -> Frame] /\ TypeInv
    BY <1>1, ThreadIs, TaskIs
    DEF LaunchChunk, Launching, LoopsInv, TypeInv, TypeOK, LoopInv, InFor
  <1>3. TaskInv(t) /\ LoopInv(p) /\ t \in Chunks(p)
    BY <1>2 DEF LoopsInv, TaskInv, Chunks, Running
  <1>4. Chunks(p)' = Chunks(p)
    BY <1>2, ChunksSame
  <1>5. fr.width >= 2 /\ Len(fr.wave) < fr.width
    BY <1>2, <1>3 DEF LoopInv, Submitting
  <1>6. /\ \A q \in Threads \ {p, t} : pc'[q] = pc[q]
        /\ pc'[t] \in {"idle", "lost"} /\ pc'[p] \in {"join", "loop", "unwind"}
    BY <1>1, <1>2
  <1>7. \A s \in Chunks(p) \ {t} : InWave(p, s) \/ Ran(s)
    BY <1>2, <1>3 DEF LoopInv, Submitting, TaskInv, Chunks
  <1>8. \A s \in Chunks(p) : Ran(s) => Ran(s)'
    BY <1>2, <1>6 DEF Ran, Chunks, Threads
  <1>9. LoopInv(p)'
    <2>1. CASE frame' = [frame EXCEPT ![p] = g(t)] /\ pc' = [pc EXCEPT ![t] = "idle", ![p] = after]
      <3>1. /\ Append(fr.wave, t) \in Seq(Tasks) /\ Len(Append(fr.wave, t)) = Len(fr.wave) + 1
            /\ \A i \in 1 .. Len(fr.wave) : Append(fr.wave, t)[i] = fr.wave[i]
            /\ Append(fr.wave, t)[Len(fr.wave) + 1] = t
        BY <1>2, AppendProperties
      <3>2. frame'[p].wave = Append(fr.wave, t) /\ frame'[p].width = fr.width
            /\ frame'[p].ret = fr.ret
        BY <1>2, <2>1 DEF Frame
      <3>3. pc'[p] = after
        BY <1>2, <2>1
      <3>4. \A s \in Chunks(p) : InWave(p, s)' \/ Ran(s)'
        <4>1. InWave(p, t)'
          BY <1>2, <3>1, <3>2 DEF InWave
        <4>2. \A s : InWave(p, s) => InWave(p, s)'
          BY <1>2, <3>1, <3>2 DEF InWave
        <4> QED
          BY <1>7, <1>8, <4>1, <4>2
      <3>5. /\ after \in {"join", "loop"}
            /\ after = "loop" => Len(fr.wave) + 1 < fr.width
        BY <1>2
      <3>6. /\ Len(frame'[p].wave) = Len(fr.wave) + 1 /\ frame'[p].width = fr.width
            /\ Len(fr.wave) + 1 <= fr.width
        BY <1>2, <1>5, <3>1, <3>2
      <3> HIDE DEF after, g
      <3> QED
        BY <1>2, <1>4, <1>5, <3>2, <3>3, <3>4, <3>5, <3>6 DEF LoopInv, Setup, Submitting, InFor
    <2>2. CASE frame' = frame /\ pc' = [pc EXCEPT ![t] = "lost", ![p] = "unwind"]
      <3>1. pc'[p] = "unwind" /\ pc'[t] = "lost"
        BY <1>2, <2>2
      <3>2. \A s \in Chunks(p) : InWave(p, s)' \/ pc'[s] \in {"done", "lost"}
        BY <1>7, <1>8, <2>2, <3>1 DEF InWave, Ran
      <3>3. frame'[p] = fr /\ Len(fr.wave) <= fr.width
        BY <1>2, <1>5, <2>2
      <3>4. \A s \in Lost(p)' : s = t
        BY <1>4, <1>7, <1>8, <3>3 DEF Lost, InWave, Ran
      <3> HIDE DEF after, g
      <3> QED
        BY <1>2, <1>4, <1>5, <3>1, <3>2, <3>3, <3>4 DEF LoopInv, Setup, Submitting, InFor
    <2> QED
      BY <1>1, <2>1, <2>2
  <1>10. \A q \in Threads \ {p} : frame'[q] = frame[q]
    BY <1>1, <1>2
  <1> QED
    BY <1>1, <1>2, <1>6, <1>9, <1>10, LaunchStep DEF InFor

(* Steps of the loop that start nothing.                                    *)
LEMMA LoopStep ==
  ASSUME LoopsInv, TypeInv', NEW p \in Threads, job' = job, ops' = ops,
         pc[p] \in {"loop", "join", "unwind", "drain"},
         \A q \in Threads \ {p} : pc'[q] = pc[q] /\ frame'[q] = frame[q],
         pc'[p] \notin {"unborn", "counted", "lost", "done"},
         pc'[p] \in InFor \/ \A t \in Chunks(p) : ~Running(t),
         LoopInv(p)'
  PROVE  LoopsInv'
  BY Moves

LEMMA LoopEndsOK ==
  ASSUME LoopsInv, TypeInv', NEW p \in Threads, LoopEnds(p) \/ WaveJoined(p)
  PROVE  LoopsInv'
  <1>1. /\ pc[p] \in {"loop", "join"} /\ job' = job /\ ops' = ops /\ frame' = frame
        /\ pc[p] = "join" => frame[p].wave = <<>>
        /\ pc'[p] \in IF pc[p] = "loop" THEN {"join"} ELSE {"loop", "drain"}
        /\ \A q \in Threads \ {p} : pc'[q] = pc[q]
    BY DEF LoopEnds, WaveJoined, Goto, LoopsInv, TypeInv, TypeOK
  <1>2. LoopInv(p) /\ Chunks(p)' = Chunks(p) /\ frame[p].width \in Nat
    BY <1>1, ChunksSame, ThreadIs DEF LoopsInv
  <1>3. \A s \in Chunks(p) : InWave(p, s)' \/ Ran(s)'
    <2>1. \A s \in Chunks(p) : s # p => pc'[s] = pc[s]
      BY <1>1 DEF Chunks, Threads
    <2> QED
      BY <1>1, <1>2, <2>1 DEF LoopInv, Submitting, Ran, InWave
  <1>4. frame[p].wave = <<>> => Len(frame[p].wave) = 0
    BY EmptySeq
  <1>5. LoopInv(p)'
    BY <1>1, <1>2, <1>3, <1>4 DEF LoopInv, Submitting, Setup, InFor
  <1> QED
    BY <1>1, <1>5, LoopStep DEF InFor

LEMMA JoinChunkOK ==
  ASSUME LoopsInv, TypeInv', NEW p \in Threads, JoinChunk(p)
  PROVE  LoopsInv'
  <1> DEFINE wave == frame[p].wave
             h == Head(wave)
  <1>1. /\ pc[p] = "join" /\ wave # <<>> /\ pc[h] = "done" /\ job' = job /\ ops' = ops
        /\ frame' = [frame EXCEPT ![p].wave = Tail(wave)]
        /\ pc' = [pc EXCEPT ![p] = IF job[h].threw THEN "unwind" ELSE "join"]
    BY DEF JoinChunk, Goto
  <1>2. /\ TypeInv /\ LoopInv(p) /\ frame[p] \in Frame /\ frame \in [Threads -> Frame]
        /\ pc \in [Threads -> PC] /\ wave \in Seq(Tasks) /\ frame[p].width \in Nat
        /\ Len(wave) \in Nat
    BY ThreadIs DEF LoopsInv, TypeInv, TypeOK
  <1>3. /\ h = wave[1] /\ Tail(wave) \in Seq(Tasks) /\ Len(Tail(wave)) = Len(wave) - 1
        /\ Len(wave) >= 1 /\ \A i \in 1 .. Len(wave) - 1 : Tail(wave)[i] = wave[i + 1]
    BY <1>1, <1>2, HeadTailProperties
  <1>4. /\ frame'[p].wave = Tail(wave) /\ frame'[p].width = frame[p].width
        /\ frame'[p].ret = frame[p].ret
        /\ \A q \in Threads \ {p} : frame'[q] = frame[q] /\ pc'[q] = pc[q]
        /\ pc'[p] = IF job[h].threw THEN "unwind" ELSE "join"
    BY <1>1, <1>2 DEF Frame
  <1>5. Chunks(p)' = Chunks(p)
    BY <1>1, ChunksSame
  <1>6. \A s \in Chunks(p) : s # h => InWave(p, s)' \/ Ran(s)'
    <2>1. ASSUME NEW s \in Chunks(p), s # h, InWave(p, s) PROVE InWave(p, s)'
      <3>1. PICK i \in 1 .. Len(wave) : wave[i] = s
        BY <2>1 DEF InWave
      <3>2. i - 1 \in 1 .. Len(wave) - 1 /\ Tail(wave)[i - 1] = s
        <4>1. i - 1 \in 1 .. Len(wave) - 1 /\ (i - 1) + 1 = i
          BY <1>2, <1>3, <2>1, <3>1
        <4> QED
          BY <1>3, <3>1, <4>1
      <3> QED
        BY <1>3, <1>4, <3>2 DEF InWave
    <2>2. \A s \in Chunks(p) : InWave(p, s) \/ Ran(s)
      BY <1>1, <1>2 DEF LoopInv, Submitting
    <2>3. \A s \in Chunks(p) : Ran(s) => Ran(s)'
      BY <1>1, <1>4 DEF Ran, Chunks, Threads
    <2> QED
      BY <2>1, <2>2, <2>3
  <1>7. h # p /\ h \in Threads /\ pc'[h] = "done"
    BY <1>1, <1>2, <1>3, <1>4, ElementOfSeq DEF Threads
  <1>8. LoopInv(p)'
    <2>1. CASE job[h].threw
      <3>1. \A s \in Chunks(p) : InWave(p, s)' \/ pc'[s] = "done"
        BY <1>6, <1>7 DEF Ran
      <3>2. Lost(p)' = {}
        BY <1>5, <3>1 DEF Lost
      <3> QED
        BY <1>1, <1>2, <1>3, <1>4, <1>5, <2>1, <3>1, <3>2 DEF LoopInv, Submitting, Setup, InFor
    <2>2. CASE ~job[h].threw
      <3>1. \A s \in Chunks(p) : InWave(p, s)' \/ Ran(s)'
        BY <1>1, <1>6, <1>7, <2>2 DEF Ran
      <3> QED
        BY <1>1, <1>2, <1>3, <1>4, <1>5, <2>2, <3>1 DEF LoopInv, Submitting, Setup, InFor
    <2> QED
      BY <2>1, <2>2
  <1> QED
    BY <1>1, <1>4, <1>8, LoopStep DEF InFor

LEMMA UnwindOK ==
  ASSUME LoopsInv, TypeInv', NEW p \in Threads, Unwind(p)
  PROVE  LoopsInv'
  <1>1. /\ pc[p] = "unwind" /\ job' = job /\ ops' = ops
        /\ \A i \in 1..Len(frame[p].wave) : pc[frame[p].wave[i]] = "done"
        /\ pc'[p] = "idle" /\ frame'[p].ret = "exception"
        /\ \A q \in Threads \ {p} : frame'[q] = frame[q] /\ pc'[q] = pc[q]
    BY ThreadIs DEF Unwind, Leave, Goto, LoopsInv, TypeInv, TypeOK, Frame
  <1>2. \A t \in Chunks(p) : ~Running(t)
    BY <1>1 DEF LoopsInv, LoopInv, InWave, Running
  <1>3. LoopInv(p)'
    BY <1>1 DEF LoopInv, Submitting, Setup
  <1> QED
    BY <1>1, <1>2, <1>3, LoopStep

LEMMA AutoDrainOK ==
  ASSUME LoopsInv, TypeInv', NEW p \in Threads, AutoDrain(p)
  PROVE  LoopsInv'
  <1>1. /\ pc[p] = "drain" /\ job' = job /\ ops' = ops
        /\ pc'[p] \in {"wait", "idle"}
        /\ \A q \in Threads \ {p} : frame'[q] = frame[q] /\ pc'[q] = pc[q]
    BY ThreadIs DEF AutoDrain, Goto, LoopsInv, TypeInv, TypeOK
  <1>2. Chunks(p)' = Chunks(p)
    BY <1>1, ChunksSame
  <1>3. \A t \in Chunks(p) : Ran(t)
    <2>1. Len(frame[p].wave) = 0
      BY <1>1, EmptySeq DEF LoopsInv, LoopInv
    <2> QED
      BY <1>1, <2>1 DEF LoopsInv, LoopInv, Submitting, InWave
  <1>4. \A t \in Chunks(p) : Ran(t)' /\ ~Running(t)
    BY <1>1, <1>3 DEF Ran, Running, Chunks, Threads
  <1>5. LoopInv(p)'
    BY <1>1, <1>2, <1>4 DEF LoopInv, Submitting, Setup, InFor
  <1> QED
    BY <1>1, <1>4, <1>5, LoopStep

(* ---- the invariant ----------------------------------------------------- *)
LEMMA LoopsInit == Init => LoopsInv
  <1> SUFFICES ASSUME Init PROVE LoopsInv
    OBVIOUS
  <1>1. TypeInv
    BY TypeInvInit
  <1>2. \A t \in Tasks : TaskInv(t)
    BY DEF Init, TaskInv, Running, Threads
  <1>3. \A p \in Threads : LoopInv(p)
    BY DEF Init, LoopInv, Setup, Submitting, InFor, NoFrame
  <1> QED
    BY <1>1, <1>2, <1>3 DEF LoopsInv

LEMMA LoopsNext == LoopsInv /\ [Next]_vars => LoopsInv'
  <1> SUFFICES ASSUME LoopsInv, [Next]_vars PROVE LoopsInv'
    OBVIOUS
  <1>1. TypeInv'
    BY TypeInvNext DEF LoopsInv
  <1>2. CASE UNCHANGED vars
    <2>1. UNCHANGED <<pc, frame, job, ops>>
      BY <1>2 DEF vars
    <2>2. \A p \in Threads : LoopInv(p)'
      BY <2>1 DEF LoopsInv, LoopInv, Chunks, InWave, Ran, Lost
    <2>3. \A t \in Tasks : TaskInv(t)'
      BY <2>1 DEF LoopsInv, TaskInv, Running
    <2> QED
      BY <1>1, <2>2, <2>3 DEF LoopsInv
  <1>3. ASSUME NEW p \in Threads, Begin(p) PROVE LoopsInv'
    BY <1>1, <1>3, StartsOK, SubmitOK DEF Begin
  <1>4. ASSUME NEW p \in Threads, Advance(p) \/ SpuriousWakeup(p) PROVE LoopsInv'
    BY <1>1, <1>4, LaunchOK, TaskFinishedOK, NotifyAllOK, WaitsOK, SetupOK, SubmitChunkOK,
       LaunchChunkOK, LoopEndsOK, JoinChunkOK, UnwindOK, AutoDrainOK DEF Advance
  <1> QED
    BY <1>2, <1>3, <1>4 DEF Next, Quiescent

(* ---- what the chunks cover --------------------------------------------- *)
(* Twice the last index of every loop fits a size_t: then no begin + grain  *)
(* and no n + grain - 1 of a loop that is split wraps.                      *)
Addressable == \A n \in Lengths : n + n - 2 <= SizeMax

\* Chunks of the grain cover n indices with at most cap of them.
Sized(fr) == fr.n >= 1 /\ fr.grain >= 1 /\ fr.cap >= 1 /\ fr.n <= fr.cap * fr.grain

SizesInv(p) == LET fr == frame[p] IN
  /\ pc[p] \in InFor => fr.n \in Lengths
  /\ pc[p] = "limit" => ~fr.pick_grain /\ fr.n >= 1 /\ fr.grain >= 1
  /\ pc[p] \in {"width", "lazy", "reread"} => fr.pick_grain \/ Sized(fr)
  /\ pc[p] \in Submitting \cup {"unwind"} => Sized(fr) /\ fr.grain < fr.n

\* The index after the chunks that exist.
Begun(p) == frame[p].begin + IF pc[p] = "launch_chunk" THEN frame[p].grain ELSE 0

\* The chunks of p are disjoint and cover 0 .. m - 1, and nothing more.
Covers(p, m) ==
  /\ \A t \in Chunks(p) : job[t].hi <= m
  /\ \A s, t \in Chunks(p) : s = t \/ job[s].hi <= job[t].lo \/ job[t].hi <= job[s].lo
  /\ \A i \in 0 .. m - 1 : \E t \in Chunks(p) : job[t].lo <= i /\ i < job[t].hi

PartInv(p) == LET fr == frame[p] IN
  /\ SizesInv(p)
  /\ pc[p] \in Submitting =>
       /\ Cardinality(Chunks(p)) * fr.grain = Begun(p)
       /\ Covers(p, Lower(Begun(p), fr.n))
  /\ pc[p] \in Submitting \cup {"unwind"} => Cardinality(Chunks(p)) <= fr.cap
  /\ pc[p] = "launch_chunk" => fr.begin < fr.n
  /\ pc[p] = "drain" => fr.begin >= fr.n
  /\ fr.ret = "ok" => Covers(p, fr.n)

PartsInv == \A p \in Threads : PartInv(p)

(* ---- size_t arithmetic -------------------------------------------------- *)
LEMMA DivBounds ==
  ASSUME NEW a \in Nat, NEW b \in Nat, b >= 1
  PROVE  (a \div b) \in Nat /\ (a \div b) * b <= a /\ a < (a \div b) * b + b
  OBVIOUS

LEMMA WrapIs ==
  ASSUME NEW x \in Nat
  PROVE  Wrap(x) \in Nat /\ Wrap(x) <= x /\ (x <= SizeMax => Wrap(x) = x)
  BY SizeAssumption DEF Wrap

LEMMA TimesGrows ==
  ASSUME NEW a \in Nat, NEW b \in Nat, NEW c \in Nat, a <= b
  PROVE  a * c <= b * c /\ a * c \in Nat
  OBVIOUS

(* The grain that parallel_for settles on lets max_queue_size chunks do.    *)
LEMMA ChunkGrainFits ==
  ASSUME NEW n \in Nat, NEW grain \in Nat, NEW cap \in Nat,
         n >= 1, grain >= 1, cap >= 1, n + n - 2 <= SizeMax
  PROVE  /\ ChunkGrain(n, grain, cap) \in Nat /\ ChunkGrain(n, grain, cap) >= 1
         /\ n <= cap * ChunkGrain(n, grain, cap)
  <1> DEFINE a == Wrap(n + grain - 1)
             k == a \div grain
             b == Wrap(n + cap - 1)
             h == b \div cap
  <1>0. /\ n + grain - 1 \in Nat /\ n + cap - 1 \in Nat
        /\ a \in Nat /\ a <= n + grain - 1 /\ (grain < n => a = n + grain - 1)
        /\ b \in Nat /\ b <= n + cap - 1 /\ (cap < n => b = n + cap - 1)
    BY WrapIs, SizeAssumption
  <1>1. /\ k \in Nat /\ k * grain <= a /\ a < k * grain + grain
        /\ h \in Nat /\ b < h * cap + cap
    BY <1>0, DivBounds
  <1>2. ChunkGrain(n, grain, cap) = IF k > cap THEN h ELSE grain
    BY DEF ChunkGrain
  <1> HIDE DEF a, b, k, h
  <1>3. CASE k > cap
    <2>1. grain < n
      <3> SUFFICES ASSUME grain >= n PROVE FALSE
        BY <1>0
      <3>1. 2 * grain <= k * grain
        BY <1>1, <1>3, TimesGrows
      <3> QED
        BY <1>0, <1>1, <3>1
    <2>2. cap < n
      <3> SUFFICES ASSUME cap >= n PROVE FALSE
        OBVIOUS
      <3>1. (n + 1) * grain <= k * grain
        BY <1>1, <1>3, TimesGrows
      <3>2. (n + 1) * grain = n * grain + grain /\ n * grain >= n * 1
        BY TimesGrows
      <3> QED
        BY <1>0, <1>1, <3>1, <3>2
    <2>3. n - 1 < h * cap
      BY <1>0, <1>1, <2>2
    <2>4. h >= 1
      BY <1>1, <2>3
    <2> QED
      BY <1>1, <1>2, <1>3, <2>3, <2>4
  <1>4. CASE ~(k > cap)
    <2>1. CASE grain >= n
      BY <1>2, <1>4, <2>1, TimesGrows
    <2>2. CASE grain < n
      <3>1. n - 1 < k * grain
        BY <1>0, <1>1, <2>2
      <3>2. k * grain <= cap * grain
        BY <1>1, <1>4, TimesGrows
      <3> QED
        BY <1>1, <1>2, <1>4, <3>1, <3>2
    <2> QED
      BY <2>1, <2>2
  <1> QED
    BY <1>3, <1>4

(* ---- other threads' chunks ---------------------------------------------- *)
LEMMA PartKept ==
  ASSUME NEW q \in Threads, PartInv(q), frame'[q] = frame[q], Chunks(q)' = Chunks(q),
         \A t \in Chunks(q) : job'[t].lo = job[t].lo /\ job'[t].hi = job[t].hi,
         pc'[q] = pc[q] \/ (pc[q] \notin InFor /\ pc'[q] \notin InFor)
  PROVE  PartInv(q)'
  <1>1. ASSUME NEW m PROVE Covers(q, m) => Covers(q, m)'
    BY DEF Covers
  <1>2. CASE pc'[q] = pc[q]
    <2>1. SizesInv(q)' /\ Begun(q)' = Begun(q)
      BY <1>2 DEF PartInv, SizesInv, Sized, Begun
    <2> QED
      BY <1>1, <1>2, <2>1 DEF PartInv
  <1>3. CASE pc[q] \notin InFor /\ pc'[q] \notin InFor
    <2>1. pc'[q] \notin Submitting \cup {"unwind", "limit", "width", "lazy", "reread"}
      BY <1>3 DEF InFor, Submitting
    <2>2. SizesInv(q)'
      BY <1>3, <2>1 DEF SizesInv
    <2> QED
      BY <1>1, <2>1, <2>2 DEF PartInv, Submitting
  <1> QED
    BY <1>2, <1>3

\* What a step of p does to a thread q that is not p.
Spares(p, q) ==
  /\ frame'[q] = frame[q] /\ ops'[q] = ops[q]
  /\ pc'[q] = pc[q] \/ (pc[q] \notin InFor /\ pc'[q] \notin InFor)

\* A step of p changes the places of a task's chunk only when it starts it.
SameJob(t) ==
  /\ job'[t].owner = job[t].owner /\ job'[t].call = job[t].call
  /\ job'[t].chunk = job[t].chunk /\ job'[t].lo = job[t].lo /\ job'[t].hi = job[t].hi

LEMMA OthersKept ==
  ASSUME PartsInv, NEW p \in Threads, NEW q \in Threads, q # p, Spares(p, q),
         \A t \in Tasks : SameJob(t) \/ (~job[t].chunk /\ job'[t].owner = p)
  PROVE  PartInv(q)'
  <1>1. Chunks(q)' = Chunks(q)
    BY DEF Chunks, Spares, SameJob
  <1>2. \A t \in Chunks(q) : job'[t].lo = job[t].lo /\ job'[t].hi = job[t].hi
    BY DEF Chunks, SameJob
  <1> QED
    BY <1>1, <1>2, PartKept DEF PartsInv, Spares

LEMMA StartedSpares ==
  ASSUME LoopsInv, NEW p \in Threads, NEW t \in Tasks, NEW chunk, NEW lo, NEW hi, NEW next,
         TaskStarted(p, t, chunk, lo, hi, next)
  PROVE  /\ \A s \in Tasks : SameJob(s) \/ (~job[s].chunk /\ job'[s].owner = p)
         /\ \A q \in Threads \ {p} :
              pc'[q] = pc[q] \/ (pc[q] \notin InFor /\ pc'[q] \notin InFor)
  <1>1. ~job[t].chunk
    BY DEF LoopsInv, TaskInv, TaskStarted
  <1>2. job \in [Tasks -> Job] /\ pc \in [Threads -> PC] /\ t \in Threads
    BY TaskIs DEF LoopsInv, TypeInv, TypeOK
  <1>3. \A s \in Tasks \ {t} : job'[s] = job[s]
    BY <1>2 DEF TaskStarted
  <1>4. job'[t].owner = p
    BY <1>2 DEF TaskStarted
  <1>5. \A q \in Threads \ {p, t} : pc'[q] = pc[q]
    BY <1>2 DEF TaskStarted
  <1>6. t # p => pc[t] = "unborn" /\ pc'[t] = "counted"
    BY <1>2 DEF TaskStarted
  <1> QED
    BY <1>1, <1>3, <1>4, <1>5, <1>6 DEF SameJob, InFor

LEMMA StepSpares ==
  ASSUME LoopsInv, NEW p \in Threads, Begin(p) \/ Advance(p) \/ SpuriousWakeup(p)
  PROVE  /\ \A t \in Tasks : SameJob(t) \/ (~job[t].chunk /\ job'[t].owner = p)
         /\ \A q \in Threads \ {p} : Spares(p, q)
  <1>0. /\ pc \in [Threads -> PC] /\ frame \in [Threads -> Frame]
        /\ job \in [Tasks -> Job] /\ ops \in [Threads -> Nat]
    BY DEF LoopsInv, TypeInv, TypeOK
  <1>1. job' = job => \A t \in Tasks : SameJob(t)
    BY DEF SameJob
  <1>2. CASE Submit(p)
    <2>1. PICK t \in Tasks : TaskStarted(p, t, FALSE, 0, 0, "launch")
      BY <1>2 DEF Submit
    <2>2. \A q \in Threads \ {p} : frame'[q] = frame[q] /\ ops'[q] = ops[q]
      BY <1>0, <1>2 DEF Submit, Start
    <2> QED
      BY <2>1, <2>2, StartedSpares DEF Spares
  <1>3. CASE SubmitChunk(p)
    <2> DEFINE hi == Lower(Wrap(frame[p].begin + frame[p].grain), frame[p].n)
    <2>1. PICK t \in Tasks : TaskStarted(p, t, TRUE, frame[p].begin, hi, "launch_chunk")
      BY <1>3 DEF SubmitChunk
    <2>2. frame' = frame /\ ops' = ops
      BY <1>3 DEF SubmitChunk
    <2> QED
      BY <2>1, <2>2, StartedSpares DEF Spares
  <1>4. CASE TaskFinished(p)
    <2>1. PICK threw : job' = [job EXCEPT ![p].threw = threw]
      BY <1>4 DEF TaskFinished
    <2>2. \A t \in Tasks : SameJob(t)
      BY <1>0, <2>1 DEF Job, SameJob
    <2>3. frame' = frame /\ ops' = ops /\ \A q \in Threads \ {p} : pc'[q] = pc[q]
      BY <1>0, <1>4 DEF TaskFinished, Goto
    <2> QED
      BY <2>2, <2>3 DEF Spares
  <1>5. CASE NotifyAll(p)
    <2>1. /\ frame' = frame /\ ops' = ops /\ job' = job
          /\ \A q \in Threads \ {p} : pc'[q] = IF pc[q] = "blocked" THEN "wait" ELSE pc[q]
      BY <1>5 DEF NotifyAll
    <2> QED
      BY <1>1, <2>1 DEF Spares, InFor
  <1>6. CASE Launch(p) \/ LaunchChunk(p)
    <2>1. PICK t \in Tasks : /\ pc[t] = "counted"
                             /\ pc'[t] \in {"idle", "lost"}
                             /\ \A q \in Threads \ {p, t} : pc'[q] = pc[q]
      <3>1. CASE Launch(p)
        <4>1. PICK t \in Tasks : /\ Launching(p, t)
                                 /\ \/ pc' = [pc EXCEPT ![t] = "idle", ![p] = "idle"]
                                    \/ pc' = [pc EXCEPT ![t] = "lost", ![p] = "idle"]
          BY <3>1 DEF Launch
        <4>2. t # p /\ t \in Threads /\ pc[t] = "counted"
          BY <3>1, <4>1, TaskIs DEF Launch, Launching, LoopsInv
        <4> QED
          BY <1>0, <4>1, <4>2
      <3>2. CASE LaunchChunk(p)
        <4> DEFINE after == IF Len(frame[p].wave) + 1 >= frame[p].width THEN "join" ELSE "loop"
        <4>1. PICK t \in Tasks :
                /\ Launching(p, t)
                /\ \/ pc' = [pc EXCEPT ![t] = "idle", ![p] = after]
                   \/ pc' = [pc EXCEPT ![t] = "lost", ![p] = "unwind"]
          BY <3>2 DEF LaunchChunk
        <4>2. t # p /\ t \in Threads /\ pc[t] = "counted"
          BY <3>2, <4>1, TaskIs DEF LaunchChunk, Launching, LoopsInv
        <4> QED
          BY <1>0, <4>1, <4>2
      <3> QED
        BY <1>6, <3>1, <3>2
    <2>2. job' = job /\ ops' = ops /\ \A q \in Threads \ {p} : frame'[q] = frame[q]
      BY <1>0, <1>6 DEF Launch, LaunchChunk
    <2> QED
      BY <1>1, <2>1, <2>2 DEF Spares, InFor
  <1>7. CASE Configure(p) \/ Initialize(p) \/ Wait(p) \/ Destroy(p) \/ ParallelFor(p)
             \/ ParallelForDefault(p)
    <2>1. job' = job /\ \A q \in Threads \ {p} : pc'[q] = pc[q]
      BY <1>0, <1>7
      DEF Configure, Initialize, Wait, Destroy, ParallelFor, ParallelForDefault, Goto
    <2>2. \E op, fr : Start(p, op, fr)
      BY <1>7 DEF Configure, Initialize, Wait, Destroy, ParallelFor, ParallelForDefault
    <2>3. \A q \in Threads \ {p} : frame'[q] = frame[q] /\ ops'[q] = ops[q]
      BY <1>0, <2>2 DEF Start
    <2> QED
      BY <1>1, <2>1, <2>3 DEF Spares
  <1>8. CASE WaitReturns(p) \/ WaitBlocks(p) \/ SpuriousWakeup(p)
    <2>1. /\ job' = job /\ ops' = ops /\ frame' = frame
          /\ \A q \in Threads \ {p} : pc'[q] = pc[q]
      BY <1>0, <1>8 DEF WaitReturns, WaitBlocks, SpuriousWakeup, Goto
    <2> QED
      BY <1>1, <2>1 DEF Spares
  <1>9. CASE \/ ChunkLimit(p) \/ Concurrency(p) \/ LazyInitialize(p) \/ ConcurrencyReread(p)
             \/ SerialFor(p)
    <2>1. job' = job /\ ops' = ops /\ \A q \in Threads \ {p} : frame'[q] = frame[q]
      BY <1>0, <1>9
      DEF ChunkLimit, Concurrency, LazyInitialize, ConcurrencyReread, SerialFor, UseWidth, Leave
    <2>2. \A q \in Threads \ {p} : pc'[q] = pc[q]
      BY <1>0, <1>9
      DEF ChunkLimit, Concurrency, LazyInitialize, ConcurrencyReread, SerialFor, UseWidth, Leave,
          Goto
    <2> QED
      BY <1>1, <2>1, <2>2 DEF Spares
  <1>10. CASE LoopEnds(p) \/ JoinChunk(p) \/ WaveJoined(p) \/ Unwind(p) \/ AutoDrain(p)
    <2>1. job' = job /\ ops' = ops /\ \A q \in Threads \ {p} : frame'[q] = frame[q]
      BY <1>0, <1>10 DEF LoopEnds, JoinChunk, WaveJoined, Unwind, AutoDrain, Leave
    <2>2. \A q \in Threads \ {p} : pc'[q] = pc[q]
      BY <1>0, <1>10 DEF LoopEnds, JoinChunk, WaveJoined, Unwind, AutoDrain, Leave, Goto
    <2> QED
      BY <1>1, <2>1, <2>2 DEF Spares
  <1> QED
    BY <1>2, <1>3, <1>4, <1>5, <1>6, <1>7, <1>8, <1>9, <1>10 DEF Begin, Advance

(* ---- the thread that takes the step ------------------------------------- *)
(* Outside a loop nothing happens to the chunks of the last one.            *)
LEMMA OutsidePart ==
  ASSUME LoopsInv, PartsInv, NEW p \in Threads,
         \/ Launch(p) \/ TaskFinished(p) \/ NotifyAll(p)
         \/ WaitReturns(p) \/ WaitBlocks(p) \/ SpuriousWakeup(p)
  PROVE  PartInv(p)'
  <1>0. frame' = frame /\ ops' = ops /\ job \in [Tasks -> Job] /\ pc \in [Threads -> PC]
    BY DEF Launch, TaskFinished, NotifyAll, WaitReturns, WaitBlocks, SpuriousWakeup,
           LoopsInv, TypeInv, TypeOK
  <1>1. \A t \in Tasks : SameJob(t)
    <2>1. CASE TaskFinished(p)
      <3>1. PICK threw : job' = [job EXCEPT ![p].threw = threw]
        BY <2>1 DEF TaskFinished
      <3> QED
        BY <1>0, <3>1 DEF Job, SameJob
    <2>2. CASE ~TaskFinished(p)
      BY <2>2 DEF Launch, NotifyAll, WaitReturns, WaitBlocks, SpuriousWakeup, SameJob
    <2> QED
      BY <2>1, <2>2
  <1>2. pc[p] \notin InFor
    BY DEF Launch, TaskFinished, NotifyAll, WaitReturns, WaitBlocks, SpuriousWakeup, InFor
  <1>3. pc'[p] \notin InFor
    <2>1. pc'[p] \in {"idle", "lost", "notify", "done", "dead", "wait", "blocked"}
      BY <1>0
      DEF Launch, TaskFinished, NotifyAll, WaitReturns, WaitBlocks, SpuriousWakeup, Goto
    <2> QED
      BY <2>1 DEF InFor
  <1>4. Chunks(p)' = Chunks(p)
    BY <1>0, <1>1 DEF Chunks, SameJob
  <1>5. \A t \in Chunks(p) : job'[t].lo = job[t].lo /\ job'[t].hi = job[t].hi
    BY <1>1 DEF Chunks, SameJob
  <1> QED
    BY <1>0, <1>2, <1>3, <1>4, <1>5, PartKept DEF PartsInv

LEMMA BeginPart ==
  ASSUME LoopsInv, NEW p \in Threads, Begin(p)
  PROVE  PartInv(p)'
  <1>0. /\ pc \in [Threads -> PC] /\ frame \in [Threads -> Frame] /\ pc[p] = "idle"
    BY DEF LoopsInv, TypeInv, TypeOK, Begin, Configure, Initialize, Submit, Wait, Destroy,
           ParallelFor, ParallelForDefault, Start
  <1>1. ASSUME NEW op, NEW fr, Start(p, op, fr) PROVE frame'[p] = fr
    BY <1>0, <1>1 DEF Start
  <1>2. CASE Configure(p) \/ Initialize(p) \/ Submit(p) \/ Wait(p) \/ Destroy(p)
    <2>1. \E op : Start(p, op, NoFrame)
      BY <1>2 DEF Configure, Initialize, Submit, Wait, Destroy
    <2>2. frame'[p] = NoFrame
      BY <1>1, <2>1
    <2>3. pc'[p] \in {"idle", "launch", "wait"}
      BY <1>0, <1>2 DEF Configure, Initialize, Submit, Wait, Destroy, Goto, TaskStarted
    <2> QED
      BY <2>2, <2>3 DEF PartInv, SizesInv, InFor, Submitting, NoFrame
  <1>3. CASE ParallelFor(p)
    <2>1. PICK n \in Lengths, grain \in Grains :
            /\ Start(p, "parallel_for", [NoFrame EXCEPT
                           !.n = n, !.grain = AtLeast1(grain),
                           !.ret = IF n = 0 THEN "serial" ELSE "none"])
            /\ pc' = [pc EXCEPT ![p] = IF n = 0 THEN "idle" ELSE "limit"]
      BY <1>3 DEF ParallelFor, Goto
    <2> DEFINE fr == [NoFrame EXCEPT !.n = n, !.grain = AtLeast1(grain),
                                     !.ret = IF n = 0 THEN "serial" ELSE "none"]
    <2>2. fr.n = n /\ fr.grain = AtLeast1(grain) /\ ~fr.pick_grain /\ fr.ret # "ok"
      BY DEF NoFrame
    <2>3. frame'[p] = fr
      BY <1>1, <2>1
    <2> HIDE DEF fr
    <2>4. n \in Nat /\ grain \in Nat /\ AtLeast1(grain) >= 1
      BY SizeAssumption, AtLeast1Type
    <2>5. pc'[p] = IF n = 0 THEN "idle" ELSE "limit"
      BY <1>0, <2>1
    <2> QED
      BY <2>2, <2>3, <2>4, <2>5 DEF PartInv, SizesInv, InFor, Submitting
  <1>4. CASE ParallelForDefault(p)
    <2>1. PICK n \in Lengths :
            Start(p, "parallel_for_default", [NoFrame EXCEPT !.n = n, !.pick_grain = TRUE])
      BY <1>4 DEF ParallelForDefault
    <2> DEFINE fr == [NoFrame EXCEPT !.n = n, !.pick_grain = TRUE]
    <2>2. fr.n = n /\ fr.pick_grain /\ fr.ret # "ok"
      BY DEF NoFrame
    <2>3. frame'[p] = fr
      BY <1>1, <2>1
    <2> HIDE DEF fr
    <2>4. pc'[p] = "width"
      BY <1>0, <1>4 DEF ParallelForDefault, Goto
    <2> QED
      BY <2>2, <2>3, <2>4 DEF PartInv, SizesInv, InFor, Submitting
  <1> QED
    BY <1>2, <1>3, <1>4 DEF Begin

(* No chunk exists before the loop.                                         *)
LEMMA NoneYet ==
  ASSUME LoopsInv, NEW p \in Threads, pc[p] \in Setup, job' = job, ops' = ops
  PROVE  /\ Chunks(p) = {} /\ Chunks(p)' = {} /\ frame[p].begin = 0
         /\ Cardinality(Chunks(p)') = 0 /\ Covers(p, 0)'
  <1>1. Chunks(p) = {} /\ frame[p].begin = 0
    BY DEF LoopsInv, LoopInv
  <1>2. Chunks(p)' = {}
    BY <1>1, ChunksSame
  <1> QED
    BY <1>1, <1>2, FS_EmptySet DEF Covers

LEMMA WidthPart ==
  ASSUME LoopsInv, PartsInv, NEW p \in Threads, pc[p] \in {"width", "reread"},
         UseWidth(p, concurrency), concurrency # 0, job' = job, ops' = ops
  PROVE  PartInv(p)'
  <1> DEFINE fr == frame[p]
  <1>0. /\ fr \in Frame /\ frame \in [Threads -> Frame] /\ pc \in [Threads -> PC]
        /\ concurrency \in Nat /\ fr.n \in Nat /\ fr.grain \in Nat /\ fr.cap \in Nat
        /\ fr.begin = 0 /\ fr.ret # "ok" /\ fr.n \in Lengths
        /\ (fr.pick_grain \/ Sized(fr)) /\ fr.pick_grain \in BOOLEAN
    BY ThreadIs, NoneYet
    DEF LoopsInv, TypeInv, TypeOK, LoopInv, Setup, InFor, PartsInv, PartInv, SizesInv
  <1>1. CASE fr.pick_grain
    <2> DEFINE d == DefaultGrain(fr.n, concurrency)
               g == [fr EXCEPT !.pick_grain = FALSE, !.grain = d,
                               !.ret = IF fr.n = 0 THEN "serial" ELSE "none"]
    <2>1. d \in Nat /\ d >= 1
      <3>1. Wrap(fr.n + concurrency * 4 - 1) \in Nat /\ concurrency * 4 >= 1
            /\ concurrency * 4 \in Nat
        BY <1>0, WrapIs
      <3>2. Wrap(fr.n + concurrency * 4 - 1) \div (concurrency * 4) \in Nat
        BY <3>1, DivBounds
      <3> QED
        BY <3>2, AtLeast1Type DEF DefaultGrain
    <2>2. frame' = [frame EXCEPT ![p] = g]
      BY <1>1 DEF UseWidth
    <2> HIDE DEF d
    <2>3. g.n = fr.n /\ g.grain = d /\ g.ret # "ok" /\ ~g.pick_grain
      BY <1>0 DEF Frame
    <2> HIDE DEF g
    <2>4. frame'[p] = g
      BY <1>0, <2>2
    <2>5. pc'[p] = IF fr.n = 0 THEN "idle" ELSE "limit"
      BY <1>0, <1>1 DEF UseWidth, Goto
    <2> QED
      BY <1>0, <2>1, <2>3, <2>4, <2>5 DEF PartInv, SizesInv, InFor, Submitting
  <1>2. CASE ~fr.pick_grain
    <2> DEFINE g == [fr EXCEPT !.width = concurrency]
    <2>1. frame' = [frame EXCEPT ![p] = g]
      BY <1>2 DEF UseWidth
    <2>2. /\ g.n = fr.n /\ g.grain = fr.grain /\ g.ret = fr.ret /\ g.cap = fr.cap
          /\ g.begin = fr.begin /\ g.pick_grain = fr.pick_grain
      BY <1>0 DEF Frame
    <2> HIDE DEF g
    <2>3. frame'[p] = g
      BY <1>0, <2>1
    <2>4. pc'[p] = IF concurrency <= 1 \/ fr.grain >= fr.n THEN "serial" ELSE "loop"
      BY <1>0, <1>2 DEF UseWidth, Goto
    <2>5. Sized(g)
      BY <1>0, <1>2, <2>2 DEF Sized
    <2>6. SizesInv(p)'
      BY <1>0, <2>2, <2>3, <2>4, <2>5 DEF SizesInv, InFor, Submitting
    <2>7. pc'[p] = "loop" => /\ Begun(p)' = 0 /\ Lower(Begun(p)', g.n) = 0
                             /\ Cardinality(Chunks(p)') * g.grain = 0
      BY <1>0, <2>2, <2>3, NoneYet DEF Begun, Lower, Setup
    <2>8. Covers(p, 0)' /\ Cardinality(Chunks(p)') = 0
      BY NoneYet DEF Setup
    <2> QED
      BY <1>0, <2>2, <2>3, <2>4, <2>6, <2>7, <2>8 DEF PartInv, Submitting
  <1> QED
    BY <1>1, <1>2

LEMMA SetupPart ==
  ASSUME Addressable, LoopsInv, PartsInv, NEW p \in Threads,
         \/ ChunkLimit(p) \/ Concurrency(p) \/ LazyInitialize(p) \/ ConcurrencyReread(p)
         \/ SerialFor(p)
  PROVE  PartInv(p)'
  <1> DEFINE fr == frame[p]
  <1>0. /\ fr \in Frame /\ frame \in [Threads -> Frame] /\ pc \in [Threads -> PC]
        /\ fr.n \in Nat /\ fr.grain \in Nat /\ fr.ret # "ok"
        /\ pc[p] \in Setup /\ job' = job /\ ops' = ops /\ fr.n \in Lengths
        /\ config \in Config /\ PartInv(p)
    BY ThreadIs
    DEF LoopsInv, TypeInv, TypeOK, LoopInv, Setup, InFor, PartsInv, PartInv, SizesInv,
        ChunkLimit, Concurrency, LazyInitialize, ConcurrencyReread, SerialFor
  <1>1. CASE ChunkLimit(p)
    <2> DEFINE cap == AtLeast1(config.max_queue_size)
               d == ChunkGrain(fr.n, fr.grain, cap)
    <2>1. cap \in Nat /\ cap >= 1
      BY <1>0, AtLeast1Type DEF Config
    <2>2. fr.n >= 1 /\ fr.grain >= 1 /\ pc[p] = "limit" /\ fr.n + fr.n - 2 <= SizeMax
      BY <1>0, <1>1 DEF ChunkLimit, PartInv, SizesInv, Addressable
    <2> HIDE DEF cap
    <2>3. d \in Nat /\ d >= 1 /\ fr.n <= cap * d
      BY <1>0, <2>1, <2>2, ChunkGrainFits
    <2>4. frame' = [frame EXCEPT ![p].cap = cap, ![p].grain = d]
      BY <1>1 DEF ChunkLimit, cap
    <2> HIDE DEF d
    <2>5. /\ frame'[p].n = fr.n /\ frame'[p].cap = cap /\ frame'[p].grain = d
          /\ frame'[p].ret = fr.ret
      BY <1>0, <2>4 DEF Frame
    <2>6. pc'[p] = "width"
      BY <1>0, <1>1 DEF ChunkLimit, Goto
    <2> QED
      BY <1>0, <2>1, <2>2, <2>3, <2>5, <2>6 DEF PartInv, SizesInv, Sized, InFor, Submitting
  <1>2. CASE Concurrency(p) /\ concurrency # 0
    BY <1>0, <1>2, WidthPart DEF Concurrency
  <1>3. CASE (Concurrency(p) /\ concurrency = 0) \/ LazyInitialize(p)
    <2>1. frame' = frame /\ pc'[p] \in {"lazy", "reread"} /\ pc[p] \in {"width", "lazy"}
      BY <1>0, <1>3 DEF Concurrency, LazyInitialize, Goto
    <2> QED
      BY <1>0, <2>1 DEF PartInv, SizesInv, Sized, InFor, Submitting
  <1>4. CASE ConcurrencyReread(p)
    <2>1. concurrency # 0
      BY <1>4 DEF ConcurrencyReread, LoopsInv, TypeInv, RereadSet
    <2> QED
      BY <1>0, <1>4, <2>1, WidthPart DEF ConcurrencyReread
  <1>5. CASE SerialFor(p)
    <2>1. pc'[p] = "idle" /\ frame'[p].ret # "ok"
      BY <1>0, <1>5 DEF SerialFor, Leave, Goto, Frame
    <2> QED
      BY <2>1 DEF PartInv, SizesInv, InFor, Submitting
  <1> QED
    BY <1>1, <1>2, <1>3, <1>4, <1>5

(* A chunk more: what is covered grows by what the new chunk stands for.    *)
LEMMA SubmitPart ==
  ASSUME Addressable, LoopsInv, PartsInv, NEW p \in Threads, SubmitChunk(p)
  PROVE  PartInv(p)'
  <1> DEFINE fr == frame[p]
             m == fr.begin + fr.grain
             hi == Lower(m, fr.n)
             C == Chunks(p)
  <1>0. /\ fr.n \in Nat /\ fr.grain \in Nat /\ fr.begin \in Nat /\ fr.cap \in Nat
        /\ pc[p] = "loop" /\ fr.begin < fr.n /\ frame' = frame /\ ops' = ops
        /\ job \in [Tasks -> Job] /\ pc \in [Threads -> PC] /\ fr.ret # "ok"
    BY ThreadIs DEF SubmitChunk, LoopsInv, TypeInv, TypeOK, LoopInv, InFor
  <1>1. /\ fr.n \in Lengths /\ Sized(fr) /\ fr.grain < fr.n
        /\ Cardinality(C) * fr.grain = fr.begin /\ Covers(p, fr.begin)
    BY <1>0 DEF PartsInv, PartInv, SizesInv, InFor, Submitting, Begun, Lower
  <1>2. Wrap(m) = m /\ m \in Nat
    BY <1>0, <1>1, WrapIs, SizeAssumption DEF Addressable
  <1>3. PICK t \in Tasks : TaskStarted(p, t, TRUE, fr.begin, Lower(Wrap(m), fr.n), "launch_chunk")
    BY DEF SubmitChunk
  <1>4. /\ pc'[p] = "launch_chunk" /\ t \notin C
        /\ job'[t].lo = fr.begin /\ job'[t].hi = hi
        /\ \A s \in C : job'[s] = job[s] /\ job[s].lo \in Nat /\ job[s].hi \in Nat
        /\ Chunks(p)' = C \cup {t}
    <2>1. t \notin C /\ t # p /\ t \in Threads
      BY <1>0, <1>3, TaskIs DEF TaskStarted, LoopsInv, TaskInv, Chunks
    <2>2. pc'[p] = "launch_chunk"
      BY <1>0, <1>3, <2>1 DEF TaskStarted
    <2>3. job' = [job EXCEPT ![t] = [owner |-> p, call |-> ops[p], chunk |-> TRUE,
                                     lo |-> fr.begin, hi |-> hi, threw |-> FALSE]]
      BY <1>0, <1>2, <1>3 DEF TaskStarted
    <2>4. Chunks(p)' = C \cup {t}
      BY <1>0, <2>3 DEF Chunks
    <2>5. \A s \in C : s \in Tasks /\ job[s].lo \in Nat /\ job[s].hi \in Nat
      BY TaskIs DEF Chunks, LoopsInv
    <2> QED
      BY <1>0, <2>1, <2>2, <2>3, <2>4, <2>5
  <1>5. hi \in Nat /\ hi <= fr.n /\ hi <= m /\ fr.begin < hi /\ Lower(m, fr.n) = hi
    BY <1>0, <1>1, <1>2 DEF Lower, Sized
  <1>11. hi' = hi
    BY <1>0
  <1> HIDE DEF hi, m, C
  <1>6. Covers(p, hi)'
    <2>1. \A s \in Chunks(p)' : job'[s].hi <= hi
      BY <1>0, <1>1, <1>4, <1>5 DEF Covers, C
    <2>2. \A s, u \in Chunks(p)' : s = u \/ job'[s].hi <= job'[u].lo \/ job'[u].hi <= job'[s].lo
      BY <1>0, <1>1, <1>4 DEF Covers, C
    <2>3. ASSUME NEW i \in 0 .. hi - 1
          PROVE  \E s \in Chunks(p)' : job'[s].lo <= i /\ i < job'[s].hi
      <3>1. CASE i < fr.begin
        <4>1. PICK s \in C : job[s].lo <= i /\ i < job[s].hi
          BY <1>0, <1>1, <3>1 DEF Covers, C
        <4> QED
          BY <1>4, <4>1
      <3>2. CASE ~(i < fr.begin)
        <4>1. job'[t].lo <= i /\ i < job'[t].hi
          BY <1>0, <1>4, <1>5, <3>2
        <4> QED
          BY <1>4, <4>1
      <3> QED
        BY <3>1, <3>2
    <2> QED
      BY <1>11, <2>1, <2>2, <2>3 DEF Covers
  <1>7. /\ IsFiniteSet(C) /\ Cardinality(C) \in Nat
        /\ Cardinality(Chunks(p)') = Cardinality(C) + 1
    <2>1. C \subseteq Tasks
      BY DEF C, Chunks
    <2>2. IsFiniteSet(C)
      BY <2>1, FS_Subset
    <2> QED
      BY <1>4, <2>2, FS_AddElement, FS_CardinalityType
  <1>8. /\ (Cardinality(C) + 1) * fr.grain = m
        /\ Cardinality(C) + 1 <= fr.cap
    <2>1. (Cardinality(C) + 1) * fr.grain = m
      BY <1>0, <1>1, <1>7 DEF m
    <2>2. ASSUME Cardinality(C) >= fr.cap PROVE FALSE
      <3>1. fr.cap * fr.grain <= Cardinality(C) * fr.grain
        BY <1>0, <1>7, <2>2, TimesGrows
      <3> QED
        BY <1>0, <1>1, <3>1 DEF Sized
    <2> QED
      BY <1>0, <1>7, <2>1, <2>2
  <1>9. Begun(p)' = m
    BY <1>0, <1>4 DEF Begun, m
  <1>10. SizesInv(p)'
    BY <1>0, <1>1, <1>4 DEF SizesInv, Submitting, InFor
  <1> QED
    BY <1>0, <1>4, <1>5, <1>6, <1>7, <1>8, <1>9, <1>10, <1>11 DEF PartInv, Submitting

LEMMA LaunchPart ==
  ASSUME Addressable, LoopsInv, PartsInv, NEW p \in Threads, LaunchChunk(p)
  PROVE  PartInv(p)'
  <1> DEFINE fr == frame[p]
             g(t) == [fr EXCEPT !.wave = Append(fr.wave, t), !.begin = Wrap(fr.begin + fr.grain)]
             after == IF Len(fr.wave) + 1 >= fr.width THEN "join" ELSE "loop"
  <1>0. /\ fr \in Frame /\ fr.n \in Nat /\ fr.grain \in Nat /\ fr.begin \in Nat
        /\ pc[p] = "launch_chunk" /\ job' = job /\ ops' = ops /\ fr.ret # "ok"
        /\ pc \in [Threads -> PC] /\ frame \in [Threads -> Frame]
    BY ThreadIs DEF LaunchChunk, LoopsInv, TypeInv, TypeOK, LoopInv, InFor
  <1>1. /\ fr.n \in Lengths /\ Sized(fr) /\ fr.grain < fr.n /\ fr.begin < fr.n
        /\ Cardinality(Chunks(p)) * fr.grain = fr.begin + fr.grain
        /\ Covers(p, Lower(fr.begin + fr.grain, fr.n))
        /\ Cardinality(Chunks(p)) <= fr.cap
    BY <1>0 DEF PartsInv, PartInv, SizesInv, InFor, Submitting, Begun
  <1>2. Wrap(fr.begin + fr.grain) = fr.begin + fr.grain
    BY <1>0, <1>1, WrapIs, SizeAssumption DEF Addressable
  <1>3. Chunks(p)' = Chunks(p) /\ \A m : Covers(p, m) => Covers(p, m)'
    BY <1>0, ChunksSame DEF Covers
  <1>4. PICK t \in Tasks :
          /\ Launching(p, t)
          /\ \/ frame' = [frame EXCEPT ![p] = g(t)] /\ pc' = [pc EXCEPT ![t] = "idle", ![p] = after]
             \/ frame' = frame /\ pc' = [pc EXCEPT ![t] = "lost", ![p] = "unwind"]
    BY DEF LaunchChunk
  <1>5. t # p /\ t \in Threads
    BY <1>0, <1>4, TaskIs DEF Launching, LoopsInv
  <1>6. CASE frame' = [frame EXCEPT ![p] = g(t)] /\ pc' = [pc EXCEPT ![t] = "idle", ![p] = after]
    <2>1. /\ frame'[p].n = fr.n /\ frame'[p].grain = fr.grain /\ frame'[p].cap = fr.cap
          /\ frame'[p].begin = fr.begin + fr.grain /\ frame'[p].ret = fr.ret
      BY <1>0, <1>2, <1>6 DEF Frame
    <2>2. pc'[p] \in {"join", "loop"}
      BY <1>0, <1>5, <1>6
    <2> HIDE DEF after, g
    <2>3. SizesInv(p)'
      BY <1>1, <2>1, <2>2 DEF SizesInv, Sized, InFor, Submitting
    <2>4. Begun(p)' = fr.begin + fr.grain
      BY <1>0, <2>1, <2>2 DEF Begun
    <2>5. Cardinality(Chunks(p)') * fr.grain = fr.begin + fr.grain
          /\ Cardinality(Chunks(p)') <= fr.cap
      BY <1>1, <1>3
    <2>6. Covers(p, Lower(Begun(p), fr.n))'
      <3>1. PICK m : m = Lower(fr.begin + fr.grain, fr.n)
        OBVIOUS
      <3>2. Lower(Begun(p), fr.n)' = m
        BY <2>1, <2>4, <3>1 DEF Lower
      <3>3. Covers(p, m)'
        BY <1>1, <1>3, <3>1
      <3> QED
        BY <3>2, <3>3 DEF Covers
    <2> QED
      BY <1>0, <2>1, <2>2, <2>3, <2>4, <2>5, <2>6 DEF PartInv, Submitting
  <1>7. CASE frame' = frame /\ pc' = [pc EXCEPT ![t] = "lost", ![p] = "unwind"]
    <2>1. pc'[p] = "unwind"
      BY <1>0, <1>5, <1>7
    <2>2. SizesInv(p)'
      BY <1>1, <1>7, <2>1 DEF SizesInv, Sized, InFor, Submitting
    <2> QED
      BY <1>0, <1>1, <1>3, <1>7, <2>1, <2>2 DEF PartInv, Submitting
  <1> QED
    BY <1>4, <1>6, <1>7

LEMMA LoopPart ==
  ASSUME LoopsInv, PartsInv, NEW p \in Threads,
         LoopEnds(p) \/ JoinChunk(p) \/ WaveJoined(p) \/ Unwind(p) \/ AutoDrain(p)
  PROVE  PartInv(p)'
  <1> DEFINE fr == frame[p]
  <1>0. /\ fr \in Frame /\ fr.n \in Nat /\ fr.begin \in Nat
        /\ job' = job /\ ops' = ops /\ fr.ret # "ok"
        /\ pc \in [Threads -> PC] /\ frame \in [Threads -> Frame]
        /\ PartInv(p) /\ pc[p] \in {"loop", "join", "unwind", "drain"}
    BY ThreadIs DEF LoopEnds, JoinChunk, WaveJoined, Unwind, AutoDrain, PartsInv,
                    LoopsInv, TypeInv, TypeOK, LoopInv, InFor
  <1>1. Chunks(p)' = Chunks(p) /\ \A m : Covers(p, m) => Covers(p, m)'
    BY <1>0, ChunksSame DEF Covers
  <1>2. CASE LoopEnds(p) \/ JoinChunk(p) \/ WaveJoined(p)
    <2>1. /\ frame'[p].n = fr.n /\ frame'[p].grain = fr.grain /\ frame'[p].cap = fr.cap
          /\ frame'[p].begin = fr.begin /\ frame'[p].ret = fr.ret
      BY <1>0, <1>2, SMTT(30) DEF LoopEnds, JoinChunk, WaveJoined, Frame
    <2>2. /\ pc[p] \in {"loop", "join"} /\ pc'[p] \in {"loop", "join", "unwind", "drain"}
          /\ pc'[p] = "drain" => fr.begin >= fr.n
      BY <1>0, <1>2 DEF LoopEnds, JoinChunk, WaveJoined, Goto
    <2>3. SizesInv(p)' /\ Begun(p)' = Begun(p)
      BY <1>0, <2>1, <2>2 DEF PartInv, SizesInv, Sized, InFor, Submitting, Begun
    <2>4. /\ Cardinality(Chunks(p)) * fr.grain = Begun(p) /\ Covers(p, Lower(Begun(p), fr.n))
          /\ Cardinality(Chunks(p)) <= fr.cap
      BY <1>0, <2>2 DEF PartInv, Submitting
    <2>5. Covers(p, Lower(Begun(p), frame[p].n))'
      <3>1. PICK m : m = Lower(Begun(p), fr.n)
        OBVIOUS
      <3>2. Lower(Begun(p), frame[p].n)' = m
        BY <2>1, <2>3, <3>1 DEF Lower
      <3>3. Covers(p, m)'
        BY <1>1, <2>4, <3>1
      <3> QED
        BY <3>2, <3>3 DEF Covers
    <2> QED
      BY <1>0, <1>1, <2>1, <2>2, <2>3, <2>4, <2>5 DEF PartInv, Submitting
  <1>3. CASE Unwind(p)
    <2>1. pc'[p] = "idle" /\ frame'[p].ret # "ok"
      BY <1>0, <1>3 DEF Unwind, Leave, Goto, Frame
    <2> QED
      BY <2>1 DEF PartInv, SizesInv, InFor, Submitting
  <1>4. CASE AutoDrain(p)
    <2>1. pc'[p] \in {"idle", "wait"} /\ frame'[p].n = fr.n /\ pc[p] = "drain"
      BY <1>0, <1>4 DEF AutoDrain, Goto, Frame
    <2>2. Covers(p, fr.n)
      <3>1. Begun(p) = fr.begin /\ fr.begin >= fr.n /\ Covers(p, Lower(Begun(p), fr.n))
        BY <1>0, <2>1 DEF PartInv, Begun, Submitting
      <3>2. Lower(Begun(p), fr.n) = fr.n
        BY <1>0, <3>1 DEF Lower
      <3> QED
        BY <3>1, <3>2
    <2>3. Covers(p, frame[p].n)'
      <3>1. PICK m : m = fr.n
        OBVIOUS
      <3>2. Covers(p, m)' /\ frame'[p].n = m
        BY <1>1, <2>1, <2>2, <3>1
      <3> QED
        BY <3>2 DEF Covers
    <2> QED
      BY <2>1, <2>3 DEF PartInv, SizesInv, InFor, Submitting
  <1> QED
    BY <1>2, <1>3, <1>4

LEMMA PartsInit == Init => PartsInv
  BY SizeAssumption
  DEF Init, PartsInv, PartInv, SizesInv, InFor, Submitting, NoFrame, Threads

LEMMA PartsNext ==
  ASSUME Addressable, LoopsInv, PartsInv, [Next]_vars
  PROVE  PartsInv'
  <1>1. CASE UNCHANGED vars
    <2>1. UNCHANGED <<pc, frame, job, ops>>
      BY <1>1 DEF vars
    <2> SUFFICES ASSUME NEW q \in Threads PROVE PartInv(q)'
      BY DEF PartsInv
    <2>2. Chunks(q)' = Chunks(q)
      BY <2>1, ChunksSame
    <2> QED
      BY <2>1, <2>2, PartKept DEF PartsInv
  <1>2. ASSUME NEW p \in Threads, Begin(p) \/ Advance(p) \/ SpuriousWakeup(p) PROVE PartsInv'
    <2>1. \A q \in Threads \ {p} : PartInv(q)'
      BY <1>2, StepSpares, OthersKept
    <2>2. CASE Begin(p)
      BY <2>1, <2>2, BeginPart DEF PartsInv
    <2>3. CASE Advance(p) \/ SpuriousWakeup(p)
      BY <2>1, <2>3, OutsidePart, SetupPart, SubmitPart, LaunchPart, LoopPart
      DEF PartsInv, Advance
    <2> QED
      BY <1>2, <2>2, <2>3
  <1> QED
    BY <1>1, <1>2 DEF Next, Quiescent

LEMMA PartsCorrect == ASSUME Addressable PROVE Spec => [](LoopsInv /\ PartsInv)
  <1>1. LoopsInv /\ PartsInv /\ [Next]_vars => (LoopsInv /\ PartsInv)'
    BY LoopsNext, PartsNext
  <1> QED
    BY <1>1, LoopsInit, PartsInit, PTL DEF Spec

-----------------------------------------------------------------------------
(* ---- what the invariants say --------------------------------------------*)
LEMMA InvBodies == LoopsInv => NoDanglingBody
  BY DEF LoopsInv, TaskInv, Running, NoDanglingBody, Chunks

LEMMA InvIndices == LoopsInv /\ PartsInv => EveryIndexOnce
  <1> SUFFICES ASSUME LoopsInv, PartsInv, NEW p \in Threads, frame[p].ret = "ok"
               PROVE  /\ \A t \in Chunks(p) : pc[t] = "done" /\ ~job[t].threw
                      /\ \A i \in 0 .. (frame[p].n - 1) :
                           Cardinality({t \in Chunks(p) : job[t].lo <= i /\ i < job[t].hi}) = 1
    BY DEF EveryIndexOnce
  <1>1. \A t \in Chunks(p) : pc[t] = "done" /\ ~job[t].threw
    BY DEF LoopsInv, LoopInv, Ran
  <1>2. Covers(p, frame[p].n)
    BY DEF PartsInv, PartInv
  <1>3. ASSUME NEW i \in 0 .. (frame[p].n - 1)
        PROVE  Cardinality({t \in Chunks(p) : job[t].lo <= i /\ i < job[t].hi}) = 1
    <2>1. PICK t \in Chunks(p) : job[t].lo <= i /\ i < job[t].hi
      BY <1>2 DEF Covers
    <2>2. \A s \in Chunks(p) : job[s].lo \in Nat /\ job[s].hi \in Nat
      BY TaskIs DEF LoopsInv, Chunks
    <2>3. i \in Int
      OBVIOUS
    <2>4. \A s \in Chunks(p) : job[s].lo <= i /\ i < job[s].hi => s = t
      BY <1>2, <2>1, <2>2, <2>3 DEF Covers
    <2>5. {s \in Chunks(p) : job[s].lo <= i /\ i < job[s].hi} = {t}
      BY <2>1, <2>4
    <2> QED
      BY <2>5, FS_Singleton
  <1> QED
    BY <1>1, <1>3

(* A wave holds as many tasks as it has futures, at the most.               *)
LEMMA WaveCount ==
  ASSUME NEW w \in Seq(Tasks)
  PROVE  LET W == {w[i] : i \in 1 .. Len(w)}
         IN  IsFiniteSet(W) /\ Cardinality(W) \in Nat /\ Cardinality(W) <= Len(w)
  <1> DEFINE W == {w[i] : i \in 1 .. Len(w)}
  <1>1. Len(w) \in Nat /\ w \in [1 .. Len(w) -> Tasks]
    BY LenProperties
  <1>2. W \subseteq Tasks
    BY <1>1
  <1>3. w \in Surjection(1 .. Len(w), W)
    BY <1>1 DEF Surjection
  <1>4. Cardinality(W) <= Len(w)
    BY <1>1, <1>3, FS_SurjCardinalityBound DEF ExistsSurjection
  <1> QED
    BY <1>2, <1>4, FS_Subset, FS_CardinalityType

LEMMA InvWaves == LoopsInv => WaveWithinWindow
  <1> SUFFICES ASSUME LoopsInv, NEW p \in Threads, pc[p] \in InFor
               PROVE  Cardinality(Chunks(p) \cap Outstanding) <= frame[p].width
    BY DEF WaveWithinWindow
  <1> DEFINE fr == frame[p]
             W == {fr.wave[i] : i \in 1 .. Len(fr.wave)}
             out == Chunks(p) \cap Outstanding
             extra == out \ W
  <1>1. /\ LoopInv(p) /\ fr.width \in Nat /\ fr.wave \in Seq(Tasks) /\ Len(fr.wave) \in Nat
        /\ IsFiniteSet(W) /\ Cardinality(W) \in Nat /\ Cardinality(W) <= Len(fr.wave)
    BY ThreadIs, WaveCount DEF LoopsInv
  <1>2. \A t : InWave(p, t) <=> t \in W
    BY DEF InWave
  <1>3. CASE pc[p] \in Setup
    <2>1. out = {}
      BY <1>1, <1>3 DEF LoopInv
    <2>2. Cardinality(out) = 0
      BY <2>1, FS_EmptySet
    <2> QED
      BY <1>1, <2>2
  <1>4. CASE pc[p] \in Submitting \cup {"unwind"}
    <2> HIDE DEF W
    <2>1. ASSUME NEW s \in extra, NEW t \in extra PROVE s = t /\ Len(fr.wave) < fr.width
      <3>1. CASE pc[p] \in Submitting
        <4>1. pc[p] = "launch_chunk" /\ pc[s] = "counted" /\ pc[t] = "counted"
          BY <1>1, <1>2, <2>1, <3>1 DEF LoopInv, Ran, Outstanding
        <4>2. TaskInv(t) /\ job[s].owner = p /\ job[t].owner = p /\ s \in Tasks
          BY DEF LoopsInv, Chunks
        <4> QED
          BY <1>1, <4>1, <4>2 DEF TaskInv, LoopInv
      <3>2. CASE pc[p] = "unwind"
        <4>1. s \in Lost(p) /\ t \in Lost(p)
          BY <1>1, <1>2, <2>1, <3>2 DEF LoopInv, Outstanding, Lost
        <4> QED
          BY <1>1, <3>2, <4>1 DEF LoopInv
      <3> QED
        BY <1>4, <3>1, <3>2
    <2>2. Len(fr.wave) <= fr.width
      BY <1>1, <1>4 DEF LoopInv
    <2>3. CASE extra = {}
      <3>1. out \subseteq W
        BY <2>3
      <3>2. Cardinality(out) <= Cardinality(W) /\ Cardinality(out) \in Nat
        BY <1>1, <3>1, FS_Subset, FS_CardinalityType
      <3> QED
        BY <1>1, <2>2, <3>2
    <2>4. CASE extra # {}
      <3>1. PICK t : t \in extra
        BY <2>4
      <3>2. out \subseteq W \cup {t} /\ Len(fr.wave) < fr.width
        BY <2>1, <3>1
      <3>3. /\ IsFiniteSet(W \cup {t}) /\ Cardinality(W \cup {t}) \in Nat
            /\ Cardinality(W \cup {t}) <= Cardinality(W) + 1
        <4>1. IsFiniteSet(W \cup {t}) /\ Cardinality(W \cup {t}) = Cardinality(W) + 1
          BY <1>1, <3>1, FS_AddElement
        <4> QED
          BY <1>1, <4>1
      <3>4. Cardinality(out) <= Cardinality(W \cup {t}) /\ Cardinality(out) \in Nat
        BY <3>2, <3>3, FS_Subset, FS_CardinalityType
      <3> QED
        BY <1>1, <3>2, <3>3, <3>4
    <2> QED
      BY <2>3, <2>4
  <1> QED
    BY <1>3, <1>4 DEF InFor, Setup, Submitting

LEMMA InvQueue == LoopsInv /\ PartsInv => ChunkCountWithinQueue
  <1> SUFFICES ASSUME LoopsInv, PartsInv, NEW p \in Threads, pc[p] \in InFor
               PROVE  Cardinality(Chunks(p)) <= frame[p].cap
    BY DEF ChunkCountWithinQueue
  <1>1. LoopInv(p) /\ PartInv(p) /\ frame[p].cap \in Nat
    BY ThreadIs DEF LoopsInv, PartsInv
  <1>2. CASE pc[p] \in Setup
    <2>1. Cardinality(Chunks(p)) = 0
      BY <1>1, <1>2, FS_EmptySet DEF LoopInv
    <2> QED
      BY <1>1, <2>1
  <1>3. CASE pc[p] \in Submitting \cup {"unwind"}
    BY <1>1, <1>3 DEF PartInv
  <1> QED
    BY <1>2, <1>3 DEF InFor, Setup, Submitting

-----------------------------------------------------------------------------
(* The inductive invariant of parallel_for: a chunk that may still run      *)
(* belongs to a call that has not ended, which holds its future or is about *)
(* to; a call that has ended normally has run its chunks.                   *)
THEOREM InvCorrect == Spec => []LoopsInv
  BY LoopsInit, LoopsNext, PTL DEF Spec

(* No chunk outlives the parallel_for whose functor it refers to, whatever  *)
(* throws: not even when std::async fails for one chunk while others run,   *)
(* and whatever the sizes are.                                              *)
THEOREM BodiesCorrect == Spec => []NoDanglingBody
  BY InvBodies, InvCorrect, PTL

(* No parallel_for has more chunks in flight than the window it read, also  *)
(* while an exception of std::async leaves it, and whatever the sizes are.  *)
THEOREM WavesCorrect == Spec => []WaveWithinWindow
  BY InvWaves, InvCorrect, PTL

(* When twice the last index of every loop fits a size_t, a parallel_for    *)
(* that returns has run every index exactly once: the chunks are disjoint   *)
(* and cover 0 .. n - 1, under every interleaving and every configuration.  *)
THEOREM LoopsCorrect ==
  ASSUME Addressable
  PROVE  Spec => []LoopsSound
  <1>1. LoopsInv /\ PartsInv => LoopsSound
    BY InvBodies, InvIndices DEF LoopsSound
  <1> QED
    BY <1>1, PartsCorrect, PTL

(* Under the same hypothesis the limits of the configuration hold: the      *)
(* window, the chunks in flight, and max_queue_size for the chunks that one *)
(* parallel_for creates, whatever grain it is given.                        *)
THEOREM LimitsCorrect ==
  ASSUME Addressable
  PROVE  Spec => []LimitsKept
  <1>1. LoopsInv /\ PartsInv /\ WindowWithinCap => LimitsKept
    BY InvWaves, InvQueue DEF LimitsKept
  <1> QED
    BY <1>1, PartsCorrect, WindowCorrect, PTL
=============================================================================
