-------------------------------- MODULE Nccl --------------------------------
(***************************************************************************)
(* The NCCL collectives of src/src/cuda/nccl.cpp in a build with NCCL:     *)
(* the clique every process holds (NcclClique), how it is brought up,      *)
(* replaced and torn down, and the collectives that run on it.             *)
(*                                                                         *)
(* World processes run one program and call the library one call at a      *)
(* time (it is not thread-safe).  A process that has made no call of       *)
(* nccl_init_rank drives all its Gpus devices as the ranks of a            *)
(* communicator of its own (local mode, brought up by the first call that  *)
(* needs it); after nccl_init_rank it is one rank of a communicator of     *)
(* several processes (rank mode).  nccl_init_rank blocks until every rank  *)
(* has called it, and a collective until every rank has issued it.  Any    *)
(* call into CUDA or NCCL may fail, at most MaxFaults times in all.        *)
(*                                                                         *)
(* Data.  What a process hands to a collective is one number per buffer,   *)
(* Share(p, i).  A value is a pair <<sum, over>>: the sum of contributions *)
(* and what it has been divided by.  The contents of a buffer are a        *)
(* sequence of such blocks, one unless it received an allgather.  The      *)
(* operators Sum, Prod, Max and Min take the same path through the code    *)
(* and are all represented by Sum; payloads are never empty, and a null    *)
(* or a short buffer stands for the empty list: it is refused at the same  *)
(* place.                                                                  *)
(***************************************************************************)
EXTENDS Integers, Sequences, FiniteSets, Functions

CONSTANTS World,      \* the number of processes
          Gpus,       \* the devices each process sees
          NativeAvg,  \* whether the linked NCCL implements the average itself
          Calls,      \* the calls the program may contain
          Lists,      \* buffer lists, each given by the devices of its buffers
          Share(_, _),  \* the number a process puts into its i-th buffer
          MaxAhead,   \* bound: calls one process is ahead of another
          MaxFaults   \* bound: failures of CUDA and NCCL

ASSUME WorldAssumption == World \in Nat \ {0}
ASSUME GpusAssumption == Gpus \in Nat \ {0}
ASSUME BoundsAssumption == MaxAhead \in Nat /\ MaxFaults \in Nat
ASSUME NativeAvgAssumption == NativeAvg \in BOOLEAN

Process == 0 .. World - 1
Device == 0 .. Gpus - 1

Forms == {"host", "scalar", "buffer"}
Ops == {"allreduce", "broadcast", "reduce", "allgather"}

(***************************************************************************)
(* A call: a collective on host vectors, on scalars or on buffers, or one  *)
(* of the two that manage the clique.  A field a call has no use for is 0  *)
(* or FALSE: world is the size nccl_init_rank is given, room the blocks    *)
(* that fit in a receive buffer.                                           *)
(***************************************************************************)
AllCalls ==
  [kind : Forms \cup {"init_rank", "finalize"}, op : Ops \cup {"none"}, avg : BOOLEAN,
   root : Int, world : Int, room : Nat]

(* The calls the headers declare: the average is an operator of allreduce  *)
(* and reduce, for scalars of allreduce_avg only; and a program passes     *)
(* nccl_init_rank the number of its processes, or 1.                       *)
Declared(c) ==
  /\ c.avg => c.op = "allreduce" \/ (c.op = "reduce" /\ c.kind # "scalar")
  /\ c.kind = "init_rank" => c.world <= 1 \/ c.world = World

ASSUME CallsAssumption == Calls \subseteq AllCalls /\ \A c \in Calls : Declared(c)
ASSUME ListsAssumption == Lists \subseteq Seq(Device)
ASSUME ShareAssumption ==
  \A p \in Process : Share(p, 1) \in Int /\ \A l \in Lists : \A i \in DOMAIN l : Share(p, i) \in Int

VARIABLES clique,     \* the NcclClique of each process
          live,       \* communicators and streams the driver holds for it
          todo,       \* calls of the program the process has not made yet
          pc,         \* what the process is doing
          post,       \* the collective it has issued and its buffers
          answer,     \* what the last step returned to its caller, if it did
          faults,     \* failures of CUDA and NCCL so far
          misplaced   \* a process of a common communicator passed buffers
                      \* that are not on its device of the clique

vars == <<clique, live, todo, pc, post, answer, faults, misplaced>>

-----------------------------------------------------------------------------
(* Values and contents *)

Block(p, i) == << <<Share(p, i), 1>> >>
Junk == << <<-1, 1>> >>

Total(vals) == FoldFunction(LAMBDA v, sum : v[1] + sum, 0, vals)
Reduced(vals, avg) == <<Total(vals), IF avg THEN Len(vals) ELSE 1>>
Scaled(contents, n) == [k \in DOMAIN contents |-> <<contents[k][1], contents[k][2] * n>>]

(* What each of n buffers holds after the collective, given one block each. *)
Collected(c, vals, avg, i) ==
  CASE c.op = "allreduce" -> <<Reduced(vals, avg)>>
    [] c.op = "broadcast" -> <<vals[c.root + 1]>>
    [] c.op = "reduce" -> IF i = c.root + 1 THEN <<Reduced(vals, avg)>> ELSE <<vals[i]>>
    [] OTHER -> vals

-----------------------------------------------------------------------------
(* The clique *)

(* No clique, and whether one was tried. *)
Closed(attempted) ==
  [attempted |-> attempted, ready |-> FALSE, world |-> 0, rank |-> 0,
   devices |-> <<>>, comms |-> 0, streams |-> 0]

NoClique == Closed(FALSE)
NoHandles == [comms |-> 0, streams |-> 0]

Cliques == [attempted : BOOLEAN, ready : BOOLEAN, world : Nat, rank : Nat,
            devices : Seq(Device), comms : Nat, streams : Nat]

(* A clique together with what the driver holds for it. *)
Owned(p) == [c |-> clique[p], l |-> live[p]]
Own(p, s) == clique' = [clique EXCEPT ![p] = s.c] /\ live' = [live EXCEPT ![p] = s.l]

Opened(s, devices, streams) ==
  [c |-> [s.c EXCEPT !.devices = devices, !.comms = Len(devices), !.streams = streams],
   l |-> [comms |-> s.l.comms + Len(devices), streams |-> s.l.streams + streams]]

release(s) ==
  [c |-> Closed(s.c.attempted),
   l |-> [comms |-> s.l.comms - s.c.comms, streams |-> s.l.streams - s.c.streams]]

(* Mutant: the handles release() destroyed are destroyed again. *)
BugReset(s) ==
  [c |-> NoClique,
   l |-> [comms |-> s.l.comms - 2 * s.c.comms, streams |-> s.l.streams - 2 * s.c.streams]]

reset(s) == [c |-> NoClique, l |-> release(s).l]

(***************************************************************************)
(* ensure(): every way the lazy start in local mode can end.  Either       *)
(* ncclCommInitAll fails, or the stream of some device does after n        *)
(* streams were created, or the clique is ready.                           *)
(***************************************************************************)
ensure(s) ==
  IF s.c.attempted
  THEN {[s |-> s, bad |-> 0]}
  ELSE LET tried == [c |-> [s.c EXCEPT !.attempted = TRUE], l |-> s.l]
           all == [i \in 1 .. Gpus |-> i - 1]
           up == Opened(tried, all, Gpus)
       IN  {[s |-> tried, bad |-> 1]}
           \cup {[s |-> release(Opened(tried, all, n)), bad |-> 1] : n \in Device}
           \cup {[s |-> [c |-> [up.c EXCEPT !.ready = TRUE], l |-> up.l], bad |-> 0]}

nccl_comm_size(c) == IF c.world > 0 THEN c.world ELSE Gpus
nccl_local_rank_count(c) == IF c.world > 0 THEN 1 ELSE Gpus

(* Processes whose ranks are in the communicator of p. *)
Members(p) == IF clique[p].world > 1 THEN Process ELSE {p}

-----------------------------------------------------------------------------
(* Calls *)

Unsent == [call |-> [kind |-> "none"], list |-> <<>>, bufs |-> <<>>]
NoAnswer == [call |-> [kind |-> "none"]]

(***************************************************************************)
(* The calls the process may make next: the process that is ahead of all   *)
(* others chooses any call, and the others have to make it too.            *)
(***************************************************************************)
Upcoming(p) == IF todo[p] # <<>> THEN {Head(todo[p])} ELSE Calls

Take(p, c) ==
  IF todo[p] # <<>>
  THEN todo' = [todo EXCEPT ![p] = Tail(@)]
  ELSE /\ \A q \in Process \ {p} : Len(todo[q]) < MaxAhead
       /\ todo' = [q \in Process |-> IF q = p THEN <<>> ELSE Append(todo[q], c)]

Fails(n) == faults' = faults + n /\ faults' <= MaxFaults

(* The call c returns: got is what the caller's vector or buffers now hold. *)
Return(p, c, list, ok, got) ==
  /\ answer' = [p |-> p, call |-> c, world |-> clique'[p].world, list |-> list,
                ok |-> ok, got |-> got]
  /\ pc' = [pc EXCEPT ![p] = "idle"]
  /\ post' = [post EXCEPT ![p] = Unsent]

(* The process issues the collective and waits for its streams. *)
Issue(p, c, list, bufs) ==
  /\ pc' = [pc EXCEPT ![p] = "waiting"]
  /\ post' = [post EXCEPT ![p] = [call |-> c, list |-> list, bufs |-> bufs]]
  /\ answer' = NoAnswer

-----------------------------------------------------------------------------
(* The life of the clique *)

(***************************************************************************)
(* nccl_init_rank(): arguments out of range are refused before anything is *)
(* touched; otherwise the clique the process had is dropped, and the       *)
(* process goes to meet the other ranks unless the device cannot be set.   *)
(* In a communicator of World ranks a process is the rank of its number.   *)
(***************************************************************************)
nccl_init_rank(p, c) ==
  /\ c.kind = "init_rank"
  /\ UNCHANGED misplaced
  /\ \/ /\ c.world <= 0
        /\ UNCHANGED <<clique, live, faults>>
        /\ Return(p, c, <<>>, FALSE, <<>>)
     \/ /\ c.world > 0
        /\ Own(p, [c |-> Closed(TRUE), l |-> reset(Owned(p)).l])
        /\ \/ /\ Fails(1)
              /\ Return(p, c, <<>>, FALSE, <<>>)
           \/ \E d \in Device :
                /\ pc' = [pc EXCEPT ![p] = "joining"]
                /\ post' = [post EXCEPT ![p] = [call |-> c, list |-> <<d>>, bufs |-> <<>>]]
                /\ answer' = NoAnswer
                /\ UNCHANGED faults

(* ncclCommInitRank gives up. *)
JoinFails(p) ==
  /\ pc[p] = "joining"
  /\ Fails(1)
  /\ UNCHANGED <<clique, live, todo, misplaced>>
  /\ Return(p, post[p].call, post[p].list, FALSE, <<>>)

(* All ranks of the communicator have called ncclCommInitRank. *)
Rendezvous(p) ==
  LET ranks == IF post[p].call.world > 1 THEN Process ELSE {p} IN
  /\ pc[p] = "joining"
  /\ \A q \in ranks : pc[q] = "joining" /\ Len(todo[q]) = Len(todo[p])
  /\ pc' = [q \in Process |-> IF q \in ranks THEN "joined" ELSE pc[q]]
  /\ answer' = NoAnswer
  /\ UNCHANGED <<clique, live, todo, post, faults, misplaced>>

(* The clique of p once its communicator and its stream are there. *)
Ranked(p, s) ==
  [c |-> [s.c EXCEPT !.world = post[p].call.world, !.ready = TRUE,
                     !.rank = IF post[p].call.world > 1 THEN p ELSE 0],
   l |-> s.l]

(* Mutant: the communicator stays behind when its stream cannot be created. *)
BugAdoptRank(p, n) ==
  LET joined == Opened(Owned(p), post[p].list, n)
  IN  IF n = 1 THEN Ranked(p, joined) ELSE joined

(* The end of adopt_rank(), with the communicator and n of one stream. *)
adopt_rank(p, n) ==
  LET joined == Opened(Owned(p), post[p].list, n)
  IN  IF n = 1 THEN Ranked(p, joined) ELSE release(joined)

Joined(p) ==
  /\ pc[p] = "joined"
  /\ \E n \in {0, 1} :
       /\ Own(p, adopt_rank(p, n))
       /\ Fails(1 - n)
       /\ UNCHANGED <<todo, misplaced>>
       /\ Return(p, post[p].call, post[p].list, n = 1, <<>>)

nccl_finalize(p, c) ==
  /\ c.kind = "finalize"
  /\ Own(p, reset(Owned(p)))
  /\ UNCHANGED <<faults, misplaced>>
  /\ Return(p, c, <<>>, TRUE, <<>>)

-----------------------------------------------------------------------------
(* Collectives on host vectors and scalars *)

BadRoot(c, world) == c.op \in {"broadcast", "reduce"} /\ c.root \notin 0 .. world - 1

(***************************************************************************)
(* What a host or scalar collective leaves with its caller when it did not *)
(* run: the vector it was given, and allreduce_avg divides all the same.   *)
(***************************************************************************)
Unreduced(p, c) ==
  IF c.kind = "scalar" /\ c.avg /\ nccl_comm_size(clique'[p]) > 1
  THEN Scaled(Block(p, 1), nccl_comm_size(clique'[p]))
  ELSE Block(p, 1)

(* A scalar collective has no way to report that it failed. *)
Degrade(p, c) == Return(p, c, <<>>, c.kind = "scalar", Unreduced(p, c))

(***************************************************************************)
(* The *_host functions and the scalar functions that call them.  A root   *)
(* outside the communicator is refused (a scalar is returned as it is) and *)
(* a communicator of one rank leaves the vector alone.  Otherwise the      *)
(* clique must be up; one staging buffer per local rank is allocated and   *)
(* filled with the vector, and the collective is issued on them.           *)
(***************************************************************************)
HostCollective(p, c) ==
  LET size == nccl_comm_size(clique[p]) IN
  /\ c.kind \in {"host", "scalar"}
  /\ UNCHANGED misplaced
  /\ \/ /\ BadRoot(c, size)
        /\ UNCHANGED <<clique, live, faults>>
        /\ Degrade(p, c)
     \/ /\ ~BadRoot(c, size) /\ size <= 1
        /\ UNCHANGED <<clique, live, faults>>
        /\ Return(p, c, <<>>, TRUE, Block(p, 1))
     \/ /\ ~BadRoot(c, size) /\ size > 1
        /\ \E e \in ensure(Owned(p)) :
             /\ Own(p, e.s)
             /\ \/ ~e.s.c.ready /\ Fails(e.bad) /\ Degrade(p, c)
                \/ e.s.c.ready /\ Fails(1) /\ Degrade(p, c)  \* no staging buffer
                \/ /\ e.s.c.ready /\ Fails(e.bad)
                   /\ Issue(p, c, <<>>, [i \in 1 .. e.s.c.comms |-> Block(p, 1)])

-----------------------------------------------------------------------------
(* Collectives on buffers *)

Shares(p, list) == [i \in DOMAIN list |-> Share(p, i)]
Given(p, list) == [i \in DOMAIN list |-> Block(p, i)]

(* Mutant: in rank mode the rank is taken for the device. *)
BugFits(c, list) == c.ready /\ list = IF c.world > 1 THEN <<c.rank>> ELSE c.devices

(* fast_path_usable() for a list of buffers, once ensure() has been called. *)
Fits(c, list) == c.ready /\ list = c.devices

collective_world(c, list, fast) ==
  IF fast /\ nccl_comm_size(c) > Len(list) THEN nccl_comm_size(c) ELSE Len(list)

(* Host staging: the collective over the buffers of this process alone. *)
HostStaged(p, c, list) ==
  [i \in DOMAIN list |->
     Collected(c, [j \in DOMAIN list |-> <<Share(p, j), 1>>], c.avg, i)]

(* Mutant: rank 0 takes itself for the only rank. *)
BugAlone(p, list) == Len(list) = 1 /\ clique[p].rank = 0

(* The collective is already done: one rank in a communicator of one. *)
Alone(p, list) == Len(list) = 1 /\ nccl_comm_size(clique[p]) <= 1

(* Arguments refused once it is known whether NCCL serves the call. *)
Refused(c, world) == BadRoot(c, world) \/ (c.op = "allgather" /\ c.room < world)

(* What the call comes to once ensure() has left the clique now. *)
Served(p, c, list, recv, now) ==
  LET fast == Fits(now, list) /\ Fits(now, recv)
      refused == Refused(c, collective_world(now, list, fast))
      done == c.op # "allgather" /\ Alone(p, list) IN
  \/ refused /\ Return(p, c, list, FALSE, Given(p, list))
  \/ ~refused /\ done /\ Return(p, c, list, TRUE, Given(p, list))
  \/ ~refused /\ ~done /\ fast /\ Issue(p, c, list, Given(p, list))
  \/ ~refused /\ ~done /\ ~fast /\ Return(p, c, list, TRUE, HostStaged(p, c, list))

(***************************************************************************)
(* The *_buffer functions.  An empty list (or a null or short buffer) is   *)
(* refused first.  Unless allreduce_buffer sees that there is nothing to   *)
(* do, the clique is brought up to learn whether the buffers are the ones  *)
(* of its devices; the root, or the room in the receive buffers, is then   *)
(* checked against the ranks that will take part.  allgather_buffer has no *)
(* shortcut for a single rank.  recv is the list of receive buffers.       *)
(***************************************************************************)
BufferCollective(p, c) ==
  /\ c.kind = "buffer"
  /\ \E list, recv \in Lists :
       /\ IF c.op = "allgather" THEN Len(recv) = Len(list) ELSE recv = list
       /\ misplaced' = (misplaced \/ (clique[p].world > 1 /\ {list, recv} # {clique[p].devices}))
       /\ \/ /\ list = <<>> \/ (c.op = "allreduce" /\ Alone(p, list))
             /\ UNCHANGED <<clique, live, faults>>
             /\ Return(p, c, list, list # <<>>, Given(p, list))
          \/ /\ list # <<>> /\ ~(c.op = "allreduce" /\ Alone(p, list))
             /\ \E e \in ensure(Owned(p)) :
                  Own(p, e.s) /\ Fails(e.bad) /\ Served(p, c, list, recv, e.s.c)

-----------------------------------------------------------------------------
(* The collective inside NCCL, and its end *)

(* The blocks all ranks of the communicator of p have issued, in rank order. *)
Issued(p) ==
  IF clique[p].world > 1
  THEN [r \in 1 .. World |-> post[r - 1].bufs[1][1]]
  ELSE [r \in 1 .. clique[p].comms |-> post[p].bufs[r][1]]

(* Calls that NCCL can match; the result of any others is undefined. *)
SameCollective(c, d) == c.op = d.op /\ c.root = d.root /\ c.avg = d.avg

(***************************************************************************)
(* All ranks of the communicator have issued a collective: it takes place. *)
(* An NCCL without the average is asked for the sum, and so is any NCCL by *)
(* allreduce_avg.                                                          *)
(***************************************************************************)
Exchange(p) ==
  LET S == Members(p)
      avg(c) == c.avg /\ NativeAvg /\ c.kind # "scalar"
      rank(q, i) == IF clique[q].world > 1 THEN clique[q].rank + 1 ELSE i
  IN
  /\ \A q \in S : pc[q] = "waiting" /\ clique[q].world = clique[p].world
  /\ pc' = [q \in Process |-> IF q \in S THEN "arrived" ELSE pc[q]]
  /\ post' = [q \in Process |->
       IF q \notin S THEN post[q]
       ELSE [post[q] EXCEPT !.bufs =
               [i \in DOMAIN post[q].bufs |->
                  IF \A r \in S : SameCollective(post[r].call, post[q].call)
                  THEN Collected(post[q].call, Issued(p), avg(post[q].call), rank(q, i))
                  ELSE Junk]]]
  /\ answer' = NoAnswer
  /\ UNCHANGED <<clique, live, todo, faults, misplaced>>

(* Mutant: a process of several takes its rank for a local index. *)
BugLocalRoot(p, c) == c.root + 1

(* The local rank that is the root of c, or 0 when another process owns it. *)
LocalRoot(p, c) ==
  IF clique[p].world = 0 THEN c.root + 1
  ELSE IF clique[p].rank = c.root THEN 1 ELSE 0

(* The average an NCCL without one leaves to its caller. *)
Averaged(p, c, bufs) ==
  [i \in DOMAIN bufs |->
     IF /\ c.avg /\ ~NativeAvg /\ c.kind # "scalar"
        /\ c.op = "allreduce" \/ (c.op = "reduce" /\ i = LocalRoot(p, c))
     THEN Scaled(bufs[i], nccl_comm_size(clique[p]))
     ELSE bufs[i]]

(* What the caller gets from its ranks' buffers. *)
Delivered(p, c, bufs) ==
  CASE c.kind = "buffer" -> bufs
    [] c.kind # "buffer" /\ c.op = "reduce" ->
         IF LocalRoot(p, c) \in DOMAIN bufs THEN bufs[LocalRoot(p, c)] ELSE Block(p, 1)
    [] c.kind = "scalar" /\ c.op = "allgather" -> <<bufs[1][1]>>
    [] c.kind = "scalar" /\ c.avg -> Scaled(bufs[1], nccl_comm_size(clique[p]))
    [] OTHER -> bufs[1]

(* The streams are synchronised and the result is copied to the caller. *)
Finish(p) ==
  LET c == post[p].call IN
  /\ pc[p] = "arrived"
  /\ UNCHANGED <<clique, live, todo, faults, misplaced>>
  /\ Return(p, c, post[p].list, TRUE, Delivered(p, c, Averaged(p, c, post[p].bufs)))

(* A group call fails, or a stream cannot be synchronised. *)
CollectiveFails(p) ==
  LET c == post[p].call IN
  /\ pc[p] \in {"waiting", "arrived"}
  /\ Fails(1)
  /\ UNCHANGED <<clique, live, todo, misplaced>>
  /\ IF c.kind = "buffer"
     THEN Return(p, c, post[p].list, FALSE, [i \in DOMAIN post[p].list |-> Junk])
     ELSE Degrade(p, c)

-----------------------------------------------------------------------------

Init ==
  /\ clique = [p \in Process |-> NoClique]
  /\ live = [p \in Process |-> NoHandles]
  /\ todo = [p \in Process |-> <<>>]
  /\ pc = [p \in Process |-> "idle"]
  /\ post = [p \in Process |-> Unsent]
  /\ answer = NoAnswer
  /\ faults = 0
  /\ misplaced = FALSE

StartsCall(p) ==
  /\ pc[p] = "idle"
  /\ \E c \in Upcoming(p) :
       /\ Take(p, c)
       /\ nccl_init_rank(p, c) \/ nccl_finalize(p, c) \/ HostCollective(p, c) \/ BufferCollective(p, c)
GoesOn(p) == Rendezvous(p) \/ Joined(p) \/ Exchange(p) \/ Finish(p)

Next == \E p \in Process : StartsCall(p) \/ GoesOn(p) \/ JoinFails(p) \/ CollectiveFails(p)

(* A process makes the calls the others have made, and a call that can go on does;
   that something fails is never due. *)
Fairness == \A p \in Process : WF_vars(todo[p] # <<>> /\ StartsCall(p)) /\ WF_vars(GoesOn(p))

Spec == Init /\ [][Next]_vars /\ Fairness

-----------------------------------------------------------------------------
(* Properties *)

TypeOK ==
  /\ clique \in [Process -> Cliques]
  /\ live \in [Process -> [comms : Nat, streams : Nat]]
  /\ \A p \in Process : todo[p] \in Seq(Calls) /\ Len(todo[p]) <= MaxAhead
  /\ pc \in [Process -> {"idle", "joining", "joined", "waiting", "arrived"}]
  /\ \A p \in Process : post[p] = Unsent <=> pc[p] = "idle"
  /\ faults \in 0 .. MaxFaults
  /\ misplaced \in BOOLEAN

(***************************************************************************)
(* A clique is whole or it is nothing: a process holds one communicator    *)
(* and one stream for each of its devices of the clique, or none at all,   *)
(* whatever failed on the way; and what it holds is all the driver holds   *)
(* for it, so no communicator or stream is lost by a failed start, a       *)
(* failed join, a replacement or nccl_finalize.  The ranks it drives are   *)
(* the ones nccl_local_rank_count tells its callers.                       *)
(***************************************************************************)
CliqueWhole ==
  \A p \in Process : LET c == clique[p] IN
    /\ live[p] = [comms |-> c.comms, streams |-> c.streams]
    /\ c.comms = Len(c.devices) /\ c.streams = Len(c.devices)
    /\ c.ready <=> c.devices # <<>>
    /\ c.ready => c.attempted /\ c.comms = nccl_local_rank_count(c)
    /\ ~c.ready => c.world = 0 /\ c.rank = 0

(* The contributions a collective is about, in rank order. *)
Contributions(p, a) ==
  IF a.world > 1 THEN [r \in 1 .. World |-> Share(r - 1, 1)]
  ELSE IF a.call.kind = "buffer" THEN Shares(p, a.list)
  ELSE [i \in 1 .. (IF a.world = 1 THEN 1 ELSE Gpus) |-> Share(p, 1)]

(* Arguments the headers allow for a collective over n ranks. *)
GoodArguments(a, n) ==
  /\ n > 0 /\ (a.call.op \in {"broadcast", "reduce"} => a.call.root \in 0 .. n - 1)
  /\ a.call.kind = "buffer" /\ a.call.op = "allgather" => a.call.room >= n

(* What the i-th buffer of p, or its host vector, has to hold afterwards. *)
Wanted(p, a, i) ==
  LET given == Contributions(p, a)
      sum == Total([r \in DOMAIN given |-> <<given[r], 1>>])
      reduced == << <<sum, IF a.call.avg THEN Len(given) ELSE 1>> >>
      owner == IF a.world > 1 THEN p + 1
               ELSE IF a.call.kind = "buffer" THEN i ELSE a.call.root + 1
  IN CASE a.call.op = "allreduce" -> reduced
       [] a.call.op = "broadcast" -> << <<given[a.call.root + 1], 1>> >>
       [] a.call.op = "reduce" -> IF owner = a.call.root + 1 THEN reduced ELSE Block(p, i)
       [] a.call.op = "allgather" /\ a.call.kind = "scalar" -> << <<given[1], 1>> >>
       [] OTHER -> [r \in DOMAIN given |-> <<given[r], 1>>]

Correct(p, a) ==
  a.got = IF a.call.kind = "buffer"
          THEN [i \in DOMAIN a.list |-> Wanted(p, a, i)]
          ELSE Wanted(p, a, 1)

(***************************************************************************)
(* An answer is right or it is a refusal.  A collective that reports       *)
(* success leaves in the caller's vector, scalar or buffers exactly what   *)
(* the reduction, broadcast or gather over all contributions has to leave  *)
(* there, whether NCCL or host staging served it, in either mode and after *)
(* any number of failures, joins and finalizations.  One that fails had a  *)
(* bad argument or met a failure, and leaves a host vector as it was; a    *)
(* scalar that could not be reduced is returned as it was (allreduce_avg   *)
(* divides it, see the README).  Across processes this needs every process *)
(* to have reached NCCL: after a failure or with buffers on other devices  *)
(* than the clique's, nothing is promised in rank mode.                    *)
(***************************************************************************)
AnswersRight ==
  LET a == answer  p == answer.p IN
    (a.call.kind \in Forms /\ ~(a.world > 1 /\ (faults > 0 \/ misplaced))) =>
      LET good == GoodArguments(a, Len(Contributions(p, a)))
          reduces == a.ok /\ good /\ Correct(p, a)
          excused == ~good \/ faults > 0
      IN CASE a.call.kind = "buffer" -> reduces \/ (~a.ok /\ excused)
           [] a.call.kind = "host" -> reduces \/ (~a.ok /\ excused /\ a.got = Block(p, 1))
           [] OTHER -> reduces \/ (excused /\ (a.call.avg \/ a.got = Block(p, 1)))

(***************************************************************************)
(* Processes of one communicator that wait in a collective wait in the     *)
(* same call of their program: none was served, refused or skipped on one  *)
(* rank and issued on another, as long as nothing failed and buffers were  *)
(* on their devices.  NCCL pairs collectives by their order only, so one   *)
(* early return too many on one rank mixes the results of different calls. *)
(***************************************************************************)
InStep ==
  (faults = 0 /\ ~misplaced) =>
    \A p, q \in Process :
      (/\ pc[p] = "waiting" /\ pc[q] = "waiting"
       /\ clique[p].world > 1 /\ clique[q].world > 1)
        => Len(todo[p]) = Len(todo[q]) /\ post[p].call = post[q].call

(***************************************************************************)
(* A call returns: a process that waits for the other ranks, in            *)
(* nccl_init_rank or in a collective, is answered, if every process makes  *)
(* the calls of the program and nothing fails or is misplaced.             *)
(***************************************************************************)
CallsReturn ==
  \A p \in Process : pc[p] # "idle" ~> (pc[p] = "idle" \/ faults > 0 \/ misplaced)

=============================================================================
