------------------------------ MODULE NcclProofs ----------------------------
(***************************************************************************)
(* The clique of Nccl for any number of processes and devices, any calls,  *)
(* any buffer lists and any number of failures: every variable keeps its   *)
(* type, and a clique is whole or nothing.                                 *)
(*                                                                         *)
(* The argument is local to one process: what the code does to a clique    *)
(* and to the handles of the driver is a function of the two, Owned(p),    *)
(* and each function takes whole to whole, through states where the two    *)
(* only agree (Balanced).  The inductive invariant adds that a process on  *)
(* its way into a communicator has dropped what it had before.             *)
(***************************************************************************)
EXTENDS Nccl, TLAPS

Handles == [comms : Nat, streams : Nat]

(* The driver holds for s what s has on record. *)
Balanced(s) ==
  /\ s = [c |-> s.c, l |-> s.l]
  /\ s.c \in Cliques /\ s.l \in Handles
  /\ s.l.comms = s.c.comms /\ s.l.streams = s.c.streams

Whole(s) ==
  /\ Balanced(s)
  /\ s.c.comms = Len(s.c.devices) /\ s.c.streams = Len(s.c.devices)
  /\ s.c.ready <=> s.c.devices # <<>>
  /\ s.c.ready => s.c.attempted /\ s.c.comms = nccl_local_rank_count(s.c)
  /\ ~s.c.ready => s.c.world = 0 /\ s.c.rank = 0

(* On the way into a communicator a process owns nothing. *)
Joining(p) ==
  pc[p] \in {"joining", "joined"} =>
    /\ clique[p] = Closed(TRUE)
    /\ post[p].list \in Seq(Device) /\ Len(post[p].list) = 1
    /\ post[p].call.world \in Nat /\ post[p].call.world > 0

(* A process that is not idle is in a call of the program. *)
InCall(x) == \E c \in Calls : \E list, bufs : x = [call |-> c, list |-> list, bufs |-> bufs]

Posted(p) == (post[p] = Unsent <=> pc[p] = "idle") /\ (pc[p] # "idle" => InCall(post[p]))

States == {"idle", "joining", "joined", "waiting", "arrived"}

CliqueInv ==
  /\ clique \in [Process -> Cliques] /\ live \in [Process -> Handles]
  /\ \A p \in Process : Whole(Owned(p))

CallInv ==
  /\ pc \in [Process -> States] /\ post = [p \in Process |-> post[p]]
  /\ \A p \in Process : Posted(p) /\ Joining(p)

TodoInv == \A p \in Process : todo[p] \in Seq(Calls) /\ Len(todo[p]) <= MaxAhead

RestInv ==
  /\ todo = [p \in Process |-> todo[p]] /\ TodoInv
  /\ faults \in 0 .. MaxFaults /\ misplaced \in BOOLEAN

Inv == CliqueInv /\ CallInv /\ RestInv

-----------------------------------------------------------------------------
(* What the operations on a clique preserve *)

LEMMA CliqueRecord ==
  ASSUME NEW c \in Cliques
  PROVE  c = [attempted |-> c.attempted, ready |-> c.ready, world |-> c.world, rank |-> c.rank,
              devices |-> c.devices, comms |-> c.comms, streams |-> c.streams]
BY DEF Cliques

(* Two cliques are one when their fields agree. *)
LEMMA SameClique ==
  ASSUME NEW c \in Cliques, NEW d \in Cliques,
         c.attempted = d.attempted, c.ready = d.ready, c.world = d.world, c.rank = d.rank,
         c.devices = d.devices, c.comms = d.comms, c.streams = d.streams
  PROVE  c = d
BY CliqueRecord

LEMMA ClosedWhole ==
  ASSUME NEW a \in BOOLEAN
  PROVE  Whole([c |-> Closed(a), l |-> NoHandles])
<1>1. Closed(a) \in Cliques
  BY DEF Closed, Cliques
<1>2. NoHandles \in Handles
  BY DEF NoHandles, Handles
<1> QED BY <1>1, <1>2 DEF Whole, Balanced, Closed, NoHandles

LEMMA ReleaseWhole ==
  ASSUME NEW s, Balanced(s)
  PROVE  /\ release(s) = [c |-> Closed(s.c.attempted), l |-> NoHandles]
         /\ Whole(release(s))
<1>1. s.c.attempted \in BOOLEAN
  BY DEF Balanced, Cliques
<1>3. s.l.comms - s.c.comms = 0 /\ s.l.streams - s.c.streams = 0
  BY DEF Balanced, Handles
<1>4. release(s) = [c |-> Closed(s.c.attempted), l |-> NoHandles]
  BY <1>3 DEF release, NoHandles
<1> QED BY <1>1, <1>4, ClosedWhole

LEMMA ResetWhole ==
  ASSUME NEW s, Balanced(s)
  PROVE  reset(s) = [c |-> Closed(FALSE), l |-> NoHandles]
<1>1. release(s).l = NoHandles
  BY ReleaseWhole
<1> QED BY <1>1 DEF reset, NoClique

(* A clique that is not ready is as good as none. *)
LEMMA NotReady ==
  ASSUME NEW s, Whole(s), ~s.c.ready
  PROVE  s = [c |-> Closed(s.c.attempted), l |-> NoHandles] /\ s.c.attempted \in BOOLEAN
<1>1. s.c \in Cliques /\ s.l \in Handles /\ s = [c |-> s.c, l |-> s.l]
  BY DEF Whole, Balanced
<1>2. s.c.ready = FALSE /\ s.c.attempted \in BOOLEAN
  BY <1>1 DEF Cliques
<1>3. s.c.world = 0 /\ s.c.rank = 0 /\ s.c.devices = <<>>
  BY DEF Whole
<1>4. s.c.comms = 0 /\ s.c.streams = 0
  BY <1>3 DEF Whole
<1>5. s.l.comms = 0 /\ s.l.streams = 0
  BY <1>4 DEF Whole, Balanced
<1>6. s.c = Closed(s.c.attempted)
  BY <1>1, <1>2, <1>3, <1>4, CliqueRecord DEF Closed
<1>7. s.l = NoHandles
  BY <1>1, <1>5 DEF Handles, NoHandles
<1> QED BY <1>1, <1>2, <1>6, <1>7

(* Devices and streams opened where there were none. *)
Half(a, devices, n) ==
  [c |-> [attempted |-> a, ready |-> FALSE, world |-> 0, rank |-> 0, devices |-> devices,
          comms |-> Len(devices), streams |-> n],
   l |-> [comms |-> Len(devices), streams |-> n]]

LEMMA OpenedHalf ==
  ASSUME NEW a \in BOOLEAN, NEW devices \in Seq(Device), NEW n \in Nat
  PROVE  /\ Opened([c |-> Closed(a), l |-> NoHandles], devices, n) = Half(a, devices, n)
         /\ Balanced(Half(a, devices, n))
<1>1. Len(devices) \in Nat
  OBVIOUS
<1>2. 0 + Len(devices) = Len(devices) /\ 0 + n = n
  BY <1>1
<1>3. Opened([c |-> Closed(a), l |-> NoHandles], devices, n) = Half(a, devices, n)
  <2> DEFINE c == [Closed(a) EXCEPT !.devices = devices, !.comms = Len(devices), !.streams = n]
  <2>1. Closed(a) \in Cliques
    BY DEF Closed, Cliques
  <2>2. c \in Cliques
    BY <1>1, <2>1 DEF Cliques
  <2>3. Half(a, devices, n).c \in Cliques
    BY <1>1 DEF Half, Cliques
  <2>4. /\ c.attempted = a /\ c.ready = FALSE /\ c.world = 0 /\ c.rank = 0
        /\ c.devices = devices /\ c.comms = Len(devices) /\ c.streams = n
    BY <2>1 DEF Closed, Cliques
  <2>5. c = Half(a, devices, n).c
    <3> HIDE DEF c
    <3> QED BY <2>2, <2>3, <2>4, SameClique DEF Half
  <2>6. Opened([c |-> Closed(a), l |-> NoHandles], devices, n) =
          [c |-> c, l |-> [comms |-> Len(devices), streams |-> n]]
    BY <1>2 DEF Opened, NoHandles
  <2> HIDE DEF c
  <2> QED BY <2>5, <2>6 DEF Half
<1>4. Half(a, devices, n).c \in Cliques
  BY <1>1 DEF Half, Cliques
<1>5. Half(a, devices, n).l \in Handles
  BY <1>1 DEF Half, Handles
<1>6. Half(a, devices, n) = [c |-> Half(a, devices, n).c, l |-> Half(a, devices, n).l]
  BY DEF Half
<1>7. /\ Half(a, devices, n).l.comms = Half(a, devices, n).c.comms
      /\ Half(a, devices, n).l.streams = Half(a, devices, n).c.streams
  BY DEF Half
<1> QED BY <1>3, <1>4, <1>5, <1>6, <1>7 DEF Balanced

(* What was opened in full is ready to be used. *)
Full(devices, world, rank) ==
  [c |-> [attempted |-> TRUE, ready |-> TRUE, world |-> world, rank |-> rank, devices |-> devices,
          comms |-> Len(devices), streams |-> Len(devices)],
   l |-> [comms |-> Len(devices), streams |-> Len(devices)]]

LEMMA FullWhole ==
  ASSUME NEW devices \in Seq(Device), devices # <<>>, NEW world \in Nat, NEW rank \in Nat,
         Len(devices) = IF world > 0 THEN 1 ELSE Gpus
  PROVE  Whole(Full(devices, world, rank))
<1>1. Len(devices) \in Nat
  OBVIOUS
<1>2. Full(devices, world, rank).c \in Cliques
  BY <1>1 DEF Full, Cliques
<1>3. Full(devices, world, rank).l \in Handles
  BY <1>1 DEF Full, Handles
<1>4. Balanced(Full(devices, world, rank))
  <2>1. Full(devices, world, rank) = [c |-> Full(devices, world, rank).c, l |-> Full(devices, world, rank).l]
    BY DEF Full
  <2>2. /\ Full(devices, world, rank).l.comms = Full(devices, world, rank).c.comms
        /\ Full(devices, world, rank).l.streams = Full(devices, world, rank).c.streams
    BY DEF Full
  <2> QED BY <1>2, <1>3, <2>1, <2>2 DEF Balanced
<1>5. /\ Full(devices, world, rank).c.devices = devices
      /\ Full(devices, world, rank).c.comms = Len(devices)
      /\ Full(devices, world, rank).c.streams = Len(devices)
      /\ Full(devices, world, rank).c.ready = TRUE
      /\ Full(devices, world, rank).c.attempted = TRUE
      /\ Full(devices, world, rank).c.world = world
  BY DEF Full
<1> QED BY <1>4, <1>5 DEF Whole, nccl_local_rank_count

Started(h) == [c |-> [h.c EXCEPT !.ready = TRUE], l |-> h.l]
Readied(h, world, rank) ==
  [c |-> [h.c EXCEPT !.world = world, !.ready = TRUE, !.rank = rank], l |-> h.l]

LEMMA HalfReady ==
  ASSUME NEW devices \in Seq(Device), NEW world \in Nat, NEW rank \in Nat, NEW h,
         h = Half(TRUE, devices, Len(devices))
  PROVE  /\ Started(h) = Full(devices, 0, 0)
         /\ Readied(h, world, rank) = Full(devices, world, rank)
<1> DEFINE c == [h.c EXCEPT !.ready = TRUE]
           d == [h.c EXCEPT !.world = world, !.ready = TRUE, !.rank = rank]
<1>0. Len(devices) \in Nat /\ TRUE \in BOOLEAN
  OBVIOUS
<1>1. h.c \in Cliques
  <2>1. Balanced(Half(TRUE, devices, Len(devices)))
    BY <1>0, OpenedHalf
  <2> QED BY <2>1 DEF Balanced
<1>2. /\ h.c.attempted = TRUE /\ h.c.world = 0 /\ h.c.rank = 0 /\ h.c.devices = devices
      /\ h.c.comms = Len(devices) /\ h.c.streams = Len(devices)
  BY DEF Half
<1>3. c \in Cliques /\ d \in Cliques
  BY <1>1 DEF Cliques
<1>4. /\ c.attempted = h.c.attempted /\ c.ready = TRUE /\ c.world = h.c.world /\ c.rank = h.c.rank
      /\ c.devices = h.c.devices /\ c.comms = h.c.comms /\ c.streams = h.c.streams
  BY <1>1 DEF Cliques
<1>5. /\ d.attempted = h.c.attempted /\ d.ready = TRUE /\ d.world = world /\ d.rank = rank
      /\ d.devices = h.c.devices /\ d.comms = h.c.comms /\ d.streams = h.c.streams
  BY <1>1 DEF Cliques
<1>6. Len(devices) \in Nat
  OBVIOUS
<1>7. Full(devices, 0, 0).c \in Cliques /\ Full(devices, world, rank).c \in Cliques
  BY <1>6 DEF Full, Cliques
<1>8. h.l = [comms |-> Len(devices), streams |-> Len(devices)]
  BY DEF Half
<1> HIDE DEF c, d
<1>9. ASSUME NEW x \in Cliques, NEW w \in Nat, NEW r \in Nat,
             x.attempted = TRUE, x.ready = TRUE, x.world = w, x.rank = r, x.devices = devices,
             x.comms = Len(devices), x.streams = Len(devices)
      PROVE  x = Full(devices, w, r).c
  <2> DEFINE f == Full(devices, w, r).c
  <2>1. f \in Cliques
    BY <1>6, <1>9 DEF Full, Cliques
  <2>2. /\ f.attempted = TRUE /\ f.ready = TRUE /\ f.world = w /\ f.rank = r
        /\ f.devices = devices /\ f.comms = Len(devices) /\ f.streams = Len(devices)
    BY DEF Full
  <2> HIDE DEF f
  <2>3. x = f
    BY <1>9, <2>1, <2>2, SameClique
  <2> QED BY <2>3 DEF f
<1>10. c = Full(devices, 0, 0).c
  <2>1. /\ c.attempted = TRUE /\ c.ready = TRUE /\ c.world = 0 /\ c.rank = 0 /\ c.devices = devices
        /\ c.comms = Len(devices) /\ c.streams = Len(devices)
    BY <1>2, <1>4
  <2>2. 0 \in Nat
    OBVIOUS
  <2> QED BY <1>3, <1>9, <2>1, <2>2
<1>11. d = Full(devices, world, rank).c
  <2>1. /\ d.attempted = TRUE /\ d.ready = TRUE /\ d.world = world /\ d.rank = rank
        /\ d.devices = devices /\ d.comms = Len(devices) /\ d.streams = Len(devices)
    BY <1>2, <1>5
  <2> QED BY <1>3, <1>9, <2>1
<1> QED BY <1>8, <1>10, <1>11 DEF Full, Started, Readied, c, d

(* ensure() brings a clique up whole or leaves none, and says whether it failed. *)
LEMMA EnsureWhole ==
  ASSUME NEW s, Whole(s), NEW e \in ensure(s)
  PROVE  Whole(e.s) /\ e.bad \in {0, 1}
<1>1. CASE s.c.attempted
  <2>1. e = [s |-> s, bad |-> 0]
    BY <1>1 DEF ensure
  <2> QED BY <2>1
<1>2. CASE ~s.c.attempted
  <2> DEFINE tried == [c |-> [s.c EXCEPT !.attempted = TRUE], l |-> s.l]
             all == [i \in 1 .. Gpus |-> i - 1]
             up == Opened(tried, all, Gpus)
             ready == [c |-> [up.c EXCEPT !.ready = TRUE], l |-> up.l]
  <2>1. ~s.c.ready
    BY <1>2 DEF Whole
  <2>2. tried = [c |-> Closed(TRUE), l |-> NoHandles]
    <3>1. s = [c |-> Closed(s.c.attempted), l |-> NoHandles]
      BY <2>1, NotReady
    <3> DEFINE c == [s.c EXCEPT !.attempted = TRUE]
    <3>2. s.c = Closed(s.c.attempted) /\ s.l = NoHandles /\ s.c \in Cliques
      BY <3>1 DEF Whole, Balanced
    <3>3. c \in Cliques /\ Closed(TRUE) \in Cliques
      <4>1. s.c \in Cliques
        BY <3>2
      <4>2. c \in Cliques
        BY <4>1 DEF Cliques
      <4>3. Closed(TRUE) \in Cliques
        BY ClosedWhole DEF Whole, Balanced
      <4> HIDE DEF c
      <4> QED BY <4>2, <4>3
    <3>4. /\ c.attempted = TRUE /\ c.ready = s.c.ready /\ c.world = s.c.world /\ c.rank = s.c.rank
          /\ c.devices = s.c.devices /\ c.comms = s.c.comms /\ c.streams = s.c.streams
      BY <3>2 DEF Cliques
    <3>5. /\ s.c.ready = FALSE /\ s.c.world = 0 /\ s.c.rank = 0 /\ s.c.devices = <<>>
          /\ s.c.comms = 0 /\ s.c.streams = 0
      BY <3>2 DEF Closed
    <3>6. c = Closed(TRUE)
      <4> DEFINE d == Closed(TRUE)
      <4>1. /\ d.attempted = TRUE /\ d.ready = FALSE /\ d.world = 0 /\ d.rank = 0
            /\ d.devices = <<>> /\ d.comms = 0 /\ d.streams = 0
        BY DEF Closed
      <4>2. /\ c.attempted = d.attempted /\ c.ready = d.ready /\ c.world = d.world
            /\ c.rank = d.rank /\ c.devices = d.devices /\ c.comms = d.comms
            /\ c.streams = d.streams
        <5> HIDE DEF c, d
        <5> QED BY <3>4, <3>5, <4>1
      <4>3. c \in Cliques /\ d \in Cliques
        BY <3>3
      <4> HIDE DEF c, d
      <4>4. c = d
        BY <4>2, <4>3, SameClique
      <4> QED BY <4>4 DEF d
    <3> QED BY <3>2, <3>6
  <2>3. all \in Seq(Device) /\ Len(all) = Gpus /\ Gpus \in Nat /\ Gpus > 0 /\ all # <<>>
    <3>1. Gpus \in Nat /\ Gpus > 0
      BY GpusAssumption
    <3>2. all \in [1 .. Gpus -> Device]
      BY <3>1 DEF Device
    <3>3. all \in Seq(Device) /\ Len(all) = Gpus
      BY <3>1, <3>2
    <3> QED BY <3>1, <3>3
  <2>4. Whole(tried)
    BY <2>2, ClosedWhole
  <2>5. ASSUME NEW n \in Device
        PROVE  Whole(release(Opened(tried, all, n)))
    <3>1. n \in Nat
      BY <2>3 DEF Device
    <3> HIDE DEF tried, all
    <3>2. Balanced(Opened(tried, all, n))
      BY <2>2, <2>3, <3>1, OpenedHalf
    <3> QED BY <3>2, ReleaseWhole
  <2>6. Whole(ready)
    <3>1. up = Half(TRUE, all, Gpus)
      <4> HIDE DEF tried, all
      <4> QED BY <2>2, <2>3, OpenedHalf
    <3>2. ready = Started(up)
      BY DEF Started
    <3> HIDE DEF up, all, ready
    <3>3. Started(up) = Full(all, 0, 0)
      BY <2>3, <3>1, HalfReady
    <3>4. 0 \in Nat /\ Len(all) = IF 0 > 0 THEN 1 ELSE Gpus
      BY <2>3
    <3> QED BY <2>3, <3>2, <3>3, <3>4, FullWhole
  <2>7. \/ e = [s |-> tried, bad |-> 1]
        \/ \E n \in Device : e = [s |-> release(Opened(tried, all, n)), bad |-> 1]
        \/ e = [s |-> ready, bad |-> 0]
    BY <1>2 DEF ensure
  <2> HIDE DEF tried, all, up, ready
  <2> QED BY <2>4, <2>5, <2>6, <2>7
<1> QED BY <1>1, <1>2

(* With a stream the communicator is adopted, without one it is dropped again. *)
LEMMA AdoptWhole ==
  ASSUME NEW p \in Process, NEW n \in {0, 1}, Owned(p) = [c |-> Closed(TRUE), l |-> NoHandles],
         post[p].list \in Seq(Device), Len(post[p].list) = 1,
         post[p].call.world \in Nat, post[p].call.world > 0
  PROVE  Whole(adopt_rank(p, n))
<1> DEFINE list == post[p].list
           world == post[p].call.world
           rank == IF world > 1 THEN p ELSE 0
           joined == Opened(Owned(p), list, n)
<1>1. joined = Half(TRUE, list, n) /\ Balanced(Half(TRUE, list, n))
  <2>1. n \in Nat /\ TRUE \in BOOLEAN
    OBVIOUS
  <2> HIDE DEF list
  <2>2. list \in Seq(Device)
    BY DEF list
  <2> QED BY <2>1, <2>2, OpenedHalf
<1>2. CASE n = 1
  <2>1. rank \in Nat /\ world \in Nat
    BY WorldAssumption DEF Process
  <2>2. list \in Seq(Device) /\ Len(list) = n /\ list # <<>>
    <3>1. list \in Seq(Device) /\ Len(list) = n
      BY <1>2
    <3> HIDE DEF list
    <3>2. ASSUME list = <<>>
          PROVE  FALSE
      <4>1. Len(list) = 0
        BY <3>2
      <4> QED BY <1>2, <3>1, <4>1
    <3> QED BY <3>1, <3>2
  <2>3. Ranked(p, joined) = Readied(joined, world, rank)
    BY DEF Ranked, Readied
  <2>4. adopt_rank(p, n) = Ranked(p, joined)
    BY <1>2 DEF adopt_rank
  <2>5. Len(list) = IF world > 0 THEN 1 ELSE Gpus
    BY DEF list, world
  <2> HIDE DEF list, world, rank, joined
  <2>6. joined = Half(TRUE, list, Len(list))
    BY <1>1, <2>2
  <2>7. Readied(joined, world, rank) = Full(list, world, rank)
    BY <2>1, <2>2, <2>6, HalfReady, ZenonT(30)
  <2>8. adopt_rank(p, n) = Full(list, world, rank)
    BY <2>3, <2>4, <2>7, Zenon
  <2> QED BY <2>1, <2>2, <2>5, <2>8, FullWhole
<1>3. CASE n = 0
  <2>1. adopt_rank(p, n) = release(joined)
    BY <1>3 DEF adopt_rank
  <2> HIDE DEF joined, list
  <2> QED BY <1>1, <2>1, ReleaseWhole
<1> QED BY <1>2, <1>3

-----------------------------------------------------------------------------
(* What a step leaves to be shown *)

LEMMA OwnKeeps ==
  ASSUME CliqueInv, NEW p \in Process, NEW s, Whole(s), Own(p, s)
  PROVE  CliqueInv' /\ clique'[p] = s.c /\ \A q \in Process \ {p} : clique'[q] = clique[q]
<1>1. s.c \in Cliques /\ s.l \in Handles /\ s = [c |-> s.c, l |-> s.l]
  BY DEF Whole, Balanced
<1>2. clique' = [clique EXCEPT ![p] = s.c] /\ live' = [live EXCEPT ![p] = s.l]
  BY DEF Own
<1>3. clique \in [Process -> Cliques] /\ live \in [Process -> Handles]
  BY DEF CliqueInv
<1>4. clique' \in [Process -> Cliques] /\ live' \in [Process -> Handles]
  BY <1>1, <1>2, <1>3
<1>5. clique'[p] = s.c /\ live'[p] = s.l
  BY <1>2, <1>3
<1>6. \A q \in Process \ {p} : clique'[q] = clique[q] /\ live'[q] = live[q]
  BY <1>2, <1>3
<1>7. ASSUME NEW q \in Process
      PROVE  Whole([c |-> clique'[q], l |-> live'[q]])
  <2>1. CASE q = p
    BY <1>1, <1>5, <2>1
  <2>2. CASE q # p
    <3>1. Whole([c |-> clique[q], l |-> live[q]])
      BY DEF CliqueInv, Owned
    <3> QED BY <1>6, <2>2, <3>1
  <2> QED BY <2>1, <2>2
<1> QED BY <1>4, <1>5, <1>6, <1>7 DEF CliqueInv, Owned

LEMMA CliqueStays ==
  ASSUME CliqueInv, UNCHANGED <<clique, live>>, NEW p
  PROVE  CliqueInv' /\ \A q \in Process \ {p} : clique'[q] = clique[q]
BY DEF CliqueInv, Owned

(* After a return only the caller has changed, and it is idle. *)
LEMMA ReturnKeeps ==
  ASSUME CallInv, NEW p \in Process, NEW c, NEW list, NEW ok, NEW got, Return(p, c, list, ok, got),
         \A q \in Process \ {p} : clique'[q] = clique[q]
  PROVE  CallInv'
<1>1. pc' = [pc EXCEPT ![p] = "idle"] /\ post' = [post EXCEPT ![p] = Unsent]
  BY DEF Return
<1>2. pc \in [Process -> States] /\ post = [q \in Process |-> post[q]]
  BY DEF CallInv
<1>3. pc' \in [Process -> States] /\ pc'[p] = "idle" /\ \A q \in Process \ {p} : pc'[q] = pc[q]
  BY <1>1, <1>2 DEF States
<1>4. post' = [q \in Process |-> post'[q]] /\ post'[p] = Unsent
      /\ \A q \in Process \ {p} : post'[q] = post[q]
  BY <1>1, <1>2
<1>5. ASSUME NEW q \in Process
      PROVE  Posted(q)' /\ Joining(q)'
  <2>1. CASE q = p
    BY <1>3, <1>4, <2>1 DEF Posted, Joining
  <2>2. CASE q # p
    <3>1. Posted(q) /\ Joining(q)
      BY DEF CallInv
    <3>2. pc'[q] = pc[q] /\ post'[q] = post[q] /\ clique'[q] = clique[q]
      BY <1>3, <1>4, <2>2
    <3> QED BY <3>1, <3>2 DEF Posted, Joining
  <2> QED BY <2>1, <2>2
<1> QED BY <1>3, <1>4, <1>5 DEF CallInv

(* After a step that leaves the process in its call. *)
LEMMA PostKeeps ==
  ASSUME CallInv, NEW p \in Process, NEW c \in Calls, NEW list, NEW bufs, NEW state \in States \ {"idle"},
         pc' = [pc EXCEPT ![p] = state],
         post' = [post EXCEPT ![p] = [call |-> c, list |-> list, bufs |-> bufs]],
         \A q \in Process \ {p} : clique'[q] = clique[q],
         state \in {"joining", "joined"} =>
           /\ clique'[p] = Closed(TRUE) /\ list \in Seq(Device) /\ Len(list) = 1
           /\ c.world \in Nat /\ c.world > 0
  PROVE  CallInv'
<1>1. pc \in [Process -> States] /\ post = [q \in Process |-> post[q]]
  BY DEF CallInv
<1>2. pc' \in [Process -> States] /\ pc'[p] = state /\ \A q \in Process \ {p} : pc'[q] = pc[q]
  BY <1>1
<1>3. post' = [q \in Process |-> post'[q]] /\ post'[p] = [call |-> c, list |-> list, bufs |-> bufs]
      /\ \A q \in Process \ {p} : post'[q] = post[q]
  BY <1>1
<1>4. post'[p] # Unsent
  <2>1. c.kind # "none"
    BY CallsAssumption DEF AllCalls, Forms
  <2> QED BY <1>3, <2>1 DEF Unsent
<1>5. ASSUME NEW q \in Process
      PROVE  Posted(q)'
  <2>1. CASE q = p
    <3>1. InCall(post'[p])
      BY <1>3 DEF InCall
    <3> QED BY <1>2, <1>4, <2>1, <3>1 DEF Posted
  <2>2. CASE q # p
    <3>1. Posted(q)
      BY DEF CallInv
    <3>2. pc'[q] = pc[q] /\ post'[q] = post[q]
      BY <1>2, <1>3, <2>2
    <3> QED BY <3>1, <3>2 DEF Posted
  <2> QED BY <2>1, <2>2
<1>6. ASSUME NEW q \in Process
      PROVE  Joining(q)'
  <2>1. CASE q = p
    BY <1>2, <1>3, <2>1 DEF Joining
  <2>2. CASE q # p
    <3>1. Joining(q)
      BY DEF CallInv
    <3>2. pc'[q] = pc[q] /\ post'[q] = post[q] /\ clique'[q] = clique[q]
      BY <1>2, <1>3, <2>2
    <3> QED BY <3>1, <3>2 DEF Joining
  <2> QED BY <2>1, <2>2
<1> QED BY <1>2, <1>3, <1>5, <1>6 DEF CallInv

-----------------------------------------------------------------------------
(* The steps *)

(* What a step has to keep, besides the calls still to be made. *)
Kept == CliqueInv' /\ CallInv' /\ faults' \in 0 .. MaxFaults /\ misplaced' \in BOOLEAN

LEMMA FailsCounted ==
  ASSUME faults \in 0 .. MaxFaults, NEW n \in {0, 1}, Fails(n)
  PROVE  faults' \in 0 .. MaxFaults
BY BoundsAssumption DEF Fails

LEMMA UpcomingCall ==
  ASSUME TodoInv, NEW p \in Process, NEW c \in Upcoming(p)
  PROVE  c \in Calls
<1>1. todo[p] \in Seq(Calls)
  BY DEF TodoInv
<1> QED BY <1>1 DEF Upcoming

LEMMA TakeKeeps ==
  ASSUME RestInv, NEW p \in Process, NEW c \in Calls, Take(p, c)
  PROVE  todo' = [q \in Process |-> todo'[q]] /\ TodoInv'
<1>1. todo = [q \in Process |-> todo[q]] /\ TodoInv /\ MaxAhead \in Nat
  BY BoundsAssumption DEF RestInv
<1>2. CASE todo[p] # <<>>
  <2>1. todo' = [todo EXCEPT ![p] = Tail(todo[p])]
    BY <1>2 DEF Take
  <2>2. todo' = [q \in Process |-> todo'[q]] /\ todo'[p] = Tail(todo[p])
        /\ \A q \in Process \ {p} : todo'[q] = todo[q]
    BY <1>1, <2>1
  <2>3. todo[p] \in Seq(Calls) /\ Len(todo[p]) <= MaxAhead
    BY <1>1 DEF TodoInv
  <2>4. Tail(todo[p]) \in Seq(Calls) /\ Len(Tail(todo[p])) <= MaxAhead
    BY <1>1, <1>2, <2>3
  <2>5. ASSUME NEW q \in Process
        PROVE  todo'[q] \in Seq(Calls) /\ Len(todo'[q]) <= MaxAhead
    BY <1>1, <2>2, <2>4 DEF TodoInv
  <2> QED BY <2>2, <2>5 DEF TodoInv
<1>3. CASE todo[p] = <<>>
  <2>1. /\ \A q \in Process \ {p} : Len(todo[q]) < MaxAhead
        /\ todo' = [q \in Process |-> IF q = p THEN <<>> ELSE Append(todo[q], c)]
    BY <1>3 DEF Take
  <2>2. todo' = [q \in Process |-> todo'[q]]
    BY <2>1
  <2>3. ASSUME NEW q \in Process
        PROVE  todo'[q] \in Seq(Calls) /\ Len(todo'[q]) <= MaxAhead
    <3>1. CASE q = p
      <4>1. todo'[q] = <<>>
        BY <2>1, <3>1
      <4>2. <<>> \in Seq(Calls) /\ Len(<<>>) = 0
        OBVIOUS
      <4> QED BY <1>1, <4>1, <4>2
    <3>2. CASE q # p
      <4>1. todo'[q] = Append(todo[q], c) /\ todo[q] \in Seq(Calls) /\ Len(todo[q]) < MaxAhead
        BY <1>1, <2>1, <3>2 DEF TodoInv
      <4>2. Append(todo[q], c) \in Seq(Calls) /\ Len(Append(todo[q], c)) = Len(todo[q]) + 1
        BY <4>1
      <4>3. Len(todo[q]) \in Nat
        BY <4>1
      <4> QED BY <1>1, <4>1, <4>2, <4>3
    <3> QED BY <3>1, <3>2
  <2> QED BY <2>2, <2>3 DEF TodoInv
<1> QED BY <1>2, <1>3

LEMMA InitRankKeeps ==
  ASSUME Inv, NEW p \in Process, NEW c \in Calls, nccl_init_rank(p, c)
  PROVE  Kept
<1>1. CliqueInv /\ CallInv /\ faults \in 0 .. MaxFaults /\ misplaced \in BOOLEAN
  BY DEF Inv, RestInv
<1>2. misplaced' \in BOOLEAN
  BY <1>1 DEF nccl_init_rank
<1>3. CASE c.world <= 0 /\ UNCHANGED <<clique, live, faults>> /\ Return(p, c, <<>>, FALSE, <<>>)
  <2>1. CliqueInv' /\ \A q \in Process \ {p} : clique'[q] = clique[q]
    BY <1>1, <1>3, CliqueStays
  <2>2. CallInv'
    BY <1>1, <1>3, <2>1, ReturnKeeps
  <2>3. faults' \in 0 .. MaxFaults
    BY <1>1, <1>3
  <2> QED BY <1>2, <2>1, <2>2, <2>3 DEF Kept
<1>4. CASE /\ c.world > 0
           /\ Own(p, [c |-> Closed(TRUE), l |-> reset(Owned(p)).l])
           /\ \/ Fails(1) /\ Return(p, c, <<>>, FALSE, <<>>)
              \/ \E d \in Device :
                   /\ pc' = [pc EXCEPT ![p] = "joining"]
                   /\ post' = [post EXCEPT ![p] = [call |-> c, list |-> <<d>>, bufs |-> <<>>]]
                   /\ UNCHANGED faults
  <2>1. reset(Owned(p)).l = NoHandles
    <3>1. Balanced(Owned(p))
      BY <1>1 DEF CliqueInv, Whole
    <3>2. reset(Owned(p)) = [c |-> Closed(FALSE), l |-> NoHandles]
      BY <3>1, ResetWhole
    <3> QED BY <3>2
  <2>2. Own(p, [c |-> Closed(TRUE), l |-> NoHandles]) /\ Whole([c |-> Closed(TRUE), l |-> NoHandles])
    BY <1>4, <2>1, ClosedWhole
  <2> DEFINE s == [c |-> Closed(TRUE), l |-> NoHandles]
  <2>3. CliqueInv' /\ clique'[p] = Closed(TRUE) /\ \A q \in Process \ {p} : clique'[q] = clique[q]
    <3>1. s.c = Closed(TRUE) /\ Own(p, s) /\ Whole(s)
      BY <2>2
    <3> HIDE DEF s
    <3> QED BY <1>1, <3>1, OwnKeeps
  <2>4. CASE Fails(1) /\ Return(p, c, <<>>, FALSE, <<>>)
    <3>1. CallInv'
      BY <1>1, <2>3, <2>4, ReturnKeeps
    <3>2. faults' \in 0 .. MaxFaults
      BY <1>1, <2>4, FailsCounted
    <3> QED BY <1>2, <2>3, <3>1, <3>2 DEF Kept
  <2>5. ASSUME NEW d \in Device,
               pc' = [pc EXCEPT ![p] = "joining"],
               post' = [post EXCEPT ![p] = [call |-> c, list |-> <<d>>, bufs |-> <<>>]],
               UNCHANGED faults
        PROVE  Kept
    <3>1. <<d>> \in Seq(Device) /\ Len(<<d>>) = 1
      OBVIOUS
    <3>2. c.world \in Nat /\ c.world > 0
      BY <1>4, CallsAssumption DEF AllCalls
    <3>3. "joining" \in States \ {"idle"}
      BY DEF States
    <3>4. CallInv'
      BY <1>1, <2>3, <2>5, <3>1, <3>2, <3>3, PostKeeps
    <3>5. faults' \in 0 .. MaxFaults
      BY <1>1, <2>5
    <3> QED BY <1>2, <2>3, <3>4, <3>5 DEF Kept
  <2> QED BY <1>4, <2>4, <2>5
<1> QED BY <1>3, <1>4 DEF nccl_init_rank

LEMMA FinalizeKeeps ==
  ASSUME Inv, NEW p \in Process, NEW c \in Calls, nccl_finalize(p, c)
  PROVE  Kept
<1>1. CliqueInv /\ CallInv /\ faults \in 0 .. MaxFaults /\ misplaced \in BOOLEAN
  BY DEF Inv, RestInv
<1>2. misplaced' \in BOOLEAN /\ faults' \in 0 .. MaxFaults
  BY <1>1 DEF nccl_finalize
<1>3. Whole(reset(Owned(p)))
  <2>1. Balanced(Owned(p))
    BY <1>1 DEF CliqueInv, Whole
  <2>2. Whole([c |-> Closed(FALSE), l |-> NoHandles])
    BY ClosedWhole
  <2> QED BY <2>1, <2>2, ResetWhole
<1>4. CliqueInv' /\ \A q \in Process \ {p} : clique'[q] = clique[q]
  BY <1>1, <1>3, OwnKeeps DEF nccl_finalize
<1>5. CallInv'
  BY <1>1, <1>4, ReturnKeeps DEF nccl_finalize
<1> QED BY <1>2, <1>4, <1>5 DEF Kept

(* A process that issues a collective, or whose call returns, keeps its clique. *)
LEMMA IssueKeeps ==
  ASSUME Inv, NEW p \in Process, NEW c \in Calls, NEW list, NEW bufs, Issue(p, c, list, bufs),
         \A q \in Process \ {p} : clique'[q] = clique[q]
  PROVE  CallInv'
<1>1. CallInv
  BY DEF Inv
<1>2. /\ pc' = [pc EXCEPT ![p] = "waiting"]
      /\ post' = [post EXCEPT ![p] = [call |-> c, list |-> list, bufs |-> bufs]]
  BY DEF Issue
<1>3. "waiting" \in States \ {"idle"} /\ "waiting" \notin {"joining", "joined"}
  BY DEF States
<1> QED BY <1>1, <1>2, <1>3, PostKeeps

LEMMA EnsureKeeps ==
  ASSUME Inv, NEW p \in Process, NEW e \in ensure(Owned(p)), Own(p, e.s)
  PROVE  /\ CliqueInv' /\ \A q \in Process \ {p} : clique'[q] = clique[q]
         /\ e.bad \in {0, 1}
<1>1. CliqueInv /\ Whole(Owned(p))
  BY DEF Inv, CliqueInv
<1>2. Whole(e.s) /\ e.bad \in {0, 1}
  BY <1>1, EnsureWhole
<1> QED BY <1>1, <1>2, OwnKeeps

LEMMA HostKeeps ==
  ASSUME Inv, NEW p \in Process, NEW c \in Calls, HostCollective(p, c)
  PROVE  Kept
<1> DEFINE size == nccl_comm_size(clique[p])
<1>1. CliqueInv /\ CallInv /\ faults \in 0 .. MaxFaults /\ misplaced \in BOOLEAN
  BY DEF Inv, RestInv
<1>2. misplaced' \in BOOLEAN
  BY <1>1 DEF HostCollective
<1>3. ASSUME UNCHANGED <<clique, live, faults>>, NEW list, NEW ok, NEW got, Return(p, c, list, ok, got)
      PROVE  Kept
  <2>1. CliqueInv' /\ \A q \in Process \ {p} : clique'[q] = clique[q]
    BY <1>1, <1>3, CliqueStays
  <2>2. CallInv'
    BY <1>1, <1>3, <2>1, ReturnKeeps
  <2>3. faults' \in 0 .. MaxFaults
    BY <1>1, <1>3
  <2> QED BY <1>2, <2>1, <2>2, <2>3 DEF Kept
<1>4. ASSUME NEW e \in ensure(Owned(p)), Own(p, e.s),
             \/ ~e.s.c.ready /\ Fails(e.bad) /\ Degrade(p, c)
             \/ e.s.c.ready /\ Fails(1) /\ Degrade(p, c)
             \/ /\ e.s.c.ready /\ Fails(e.bad)
                /\ Issue(p, c, <<>>, [i \in 1 .. e.s.c.comms |-> Block(p, 1)])
      PROVE  Kept
  <2>1. CliqueInv' /\ (\A q \in Process \ {p} : clique'[q] = clique[q]) /\ e.bad \in {0, 1}
    BY <1>4, EnsureKeeps
  <2>2. faults' \in 0 .. MaxFaults
    <3>1. CASE Fails(e.bad)
      BY <1>1, <2>1, <3>1, FailsCounted
    <3>2. CASE Fails(1)
      BY <1>1, <3>2, FailsCounted
    <3> QED BY <1>4, <3>1, <3>2
  <2>3. CASE Degrade(p, c)
    <3>1. CallInv'
      BY <1>1, <2>1, <2>3, ReturnKeeps DEF Degrade
    <3> QED BY <1>2, <2>1, <2>2, <3>1 DEF Kept
  <2>4. ASSUME NEW bufs, Issue(p, c, <<>>, bufs)
        PROVE  Kept
    <3>1. CallInv'
      BY <2>1, <2>4, IssueKeeps
    <3> QED BY <1>2, <2>1, <2>2, <3>1 DEF Kept
  <2> QED BY <1>4, <2>3, <2>4
<1>5. \/ UNCHANGED <<clique, live, faults>> /\ Degrade(p, c)
      \/ UNCHANGED <<clique, live, faults>> /\ Return(p, c, <<>>, TRUE, Block(p, 1))
      \/ \E e \in ensure(Owned(p)) :
           /\ Own(p, e.s)
           /\ \/ ~e.s.c.ready /\ Fails(e.bad) /\ Degrade(p, c)
              \/ e.s.c.ready /\ Fails(1) /\ Degrade(p, c)
              \/ /\ e.s.c.ready /\ Fails(e.bad)
                 /\ Issue(p, c, <<>>, [i \in 1 .. e.s.c.comms |-> Block(p, 1)])
  BY DEF HostCollective
<1>6. CASE UNCHANGED <<clique, live, faults>> /\ Degrade(p, c)
  BY <1>3, <1>6 DEF Degrade
<1>7. CASE UNCHANGED <<clique, live, faults>> /\ Return(p, c, <<>>, TRUE, Block(p, 1))
  BY <1>3, <1>7
<1> QED BY <1>4, <1>5, <1>6, <1>7

LEMMA BufferKeeps ==
  ASSUME Inv, NEW p \in Process, NEW c \in Calls, BufferCollective(p, c)
  PROVE  Kept
<1>1. CliqueInv /\ CallInv /\ faults \in 0 .. MaxFaults /\ misplaced \in BOOLEAN
  BY DEF Inv, RestInv
<1>2. PICK list, recv \in Lists :
        /\ misplaced' = (misplaced \/ (clique[p].world > 1 /\ {list, recv} # {clique[p].devices}))
        /\ \/ /\ UNCHANGED <<clique, live, faults>>
              /\ Return(p, c, list, list # <<>>, Given(p, list))
           \/ \E e \in ensure(Owned(p)) :
                Own(p, e.s) /\ Fails(e.bad) /\ Served(p, c, list, recv, e.s.c)
  BY DEF BufferCollective
<1>3. misplaced' \in BOOLEAN
  BY <1>2
<1>4. CASE /\ UNCHANGED <<clique, live, faults>>
           /\ Return(p, c, list, list # <<>>, Given(p, list))
  <2>1. CliqueInv' /\ \A q \in Process \ {p} : clique'[q] = clique[q]
    BY <1>1, <1>4, CliqueStays
  <2>2. CallInv'
    BY <1>1, <1>4, <2>1, ReturnKeeps
  <2>3. faults' \in 0 .. MaxFaults
    BY <1>1, <1>4
  <2> QED BY <1>3, <2>1, <2>2, <2>3 DEF Kept
<1>5. ASSUME NEW e \in ensure(Owned(p)), Own(p, e.s), Fails(e.bad),
             Served(p, c, list, recv, e.s.c)
      PROVE  Kept
  <2>1. CliqueInv' /\ (\A q \in Process \ {p} : clique'[q] = clique[q]) /\ e.bad \in {0, 1}
    BY <1>5, EnsureKeeps
  <2>2. faults' \in 0 .. MaxFaults
    BY <1>1, <1>5, <2>1, FailsCounted
  <2>3. ASSUME NEW ok, NEW got, Return(p, c, list, ok, got)
        PROVE  CallInv'
    BY <1>1, <2>1, <2>3, ReturnKeeps
  <2>4. ASSUME Issue(p, c, list, Given(p, list))
        PROVE  CallInv'
    BY <2>1, <2>4, IssueKeeps
  <2>5. CallInv'
    <3>1. \/ Issue(p, c, list, Given(p, list))
          \/ Return(p, c, list, FALSE, Given(p, list))
          \/ Return(p, c, list, TRUE, Given(p, list))
          \/ Return(p, c, list, TRUE, HostStaged(p, c, list))
      BY <1>5 DEF Served
    <3> QED BY <2>3, <2>4, <3>1
  <2> QED BY <1>3, <2>1, <2>2, <2>5 DEF Kept
<1> QED BY <1>2, <1>4, <1>5

(* The calls that end without touching the clique. *)
LEMMA PlainReturnKeeps ==
  ASSUME Inv, NEW p \in Process, NEW c, NEW list, NEW ok, NEW got, Return(p, c, list, ok, got),
         UNCHANGED <<clique, live, misplaced>>, faults' \in 0 .. MaxFaults
  PROVE  Kept
<1>1. CliqueInv /\ CallInv /\ misplaced \in BOOLEAN
  BY DEF Inv, RestInv
<1>2. CliqueInv' /\ \A q \in Process \ {p} : clique'[q] = clique[q]
  BY <1>1, CliqueStays
<1>3. CallInv'
  BY <1>1, <1>2, ReturnKeeps
<1>4. misplaced' \in BOOLEAN
  BY <1>1
<1> QED BY <1>2, <1>3, <1>4 DEF Kept

LEMMA EndsKeep ==
  ASSUME Inv, NEW p \in Process, JoinFails(p) \/ Finish(p) \/ CollectiveFails(p)
  PROVE  Kept
<1>1. faults \in 0 .. MaxFaults
  BY DEF Inv, RestInv
<1>2. CASE JoinFails(p)
  <2>1. faults' \in 0 .. MaxFaults
    BY <1>1, <1>2, FailsCounted DEF JoinFails
  <2> QED BY <1>2, <2>1, PlainReturnKeeps DEF JoinFails
<1>3. CASE Finish(p)
  <2>1. faults' \in 0 .. MaxFaults
    BY <1>1, <1>3 DEF Finish
  <2> QED BY <1>3, <2>1, PlainReturnKeeps DEF Finish
<1>4. CASE CollectiveFails(p)
  <2>1. faults' \in 0 .. MaxFaults
    BY <1>1, <1>4, FailsCounted DEF CollectiveFails
  <2>2. UNCHANGED <<clique, live, misplaced>>
    BY <1>4 DEF CollectiveFails
  <2>3. \E list, ok, got : Return(p, post[p].call, list, ok, got)
    BY <1>4 DEF CollectiveFails, Degrade
  <2> QED BY <2>1, <2>2, <2>3, PlainReturnKeeps
<1> QED BY <1>2, <1>3, <1>4

LEMMA JoinedKeeps ==
  ASSUME Inv, NEW p \in Process, Joined(p)
  PROVE  Kept
<1>1. CliqueInv /\ CallInv /\ faults \in 0 .. MaxFaults /\ misplaced \in BOOLEAN
  BY DEF Inv, RestInv
<1>2. PICK n \in {0, 1} :
        /\ Own(p, adopt_rank(p, n)) /\ Fails(1 - n) /\ UNCHANGED <<todo, misplaced>>
        /\ Return(p, post[p].call, post[p].list, n = 1, <<>>)
  BY DEF Joined
<1>3. /\ clique[p] = Closed(TRUE)
      /\ post[p].list \in Seq(Device) /\ Len(post[p].list) = 1
      /\ post[p].call.world \in Nat /\ post[p].call.world > 0
  BY <1>1 DEF Joined, CallInv, Joining
<1>4. Owned(p) = [c |-> Closed(TRUE), l |-> NoHandles]
  <2>1. Whole(Owned(p)) /\ Owned(p).c = Closed(TRUE)
    BY <1>1, <1>3 DEF CliqueInv, Owned
  <2>2. ~Owned(p).c.ready /\ Owned(p).c.attempted = TRUE
    BY <2>1 DEF Closed
  <2> QED BY <2>1, <2>2, NotReady
<1>5. Whole(adopt_rank(p, n))
  BY <1>3, <1>4, AdoptWhole
<1>6. CliqueInv' /\ \A q \in Process \ {p} : clique'[q] = clique[q]
  BY <1>1, <1>2, <1>5, OwnKeeps
<1>7. CallInv'
  BY <1>1, <1>2, <1>6, ReturnKeeps
<1>8. faults' \in 0 .. MaxFaults
  <2>1. 1 - n \in {0, 1}
    OBVIOUS
  <2> QED BY <1>1, <1>2, <2>1, FailsCounted
<1>9. misplaced' \in BOOLEAN
  BY <1>1, <1>2
<1> QED BY <1>6, <1>7, <1>8, <1>9 DEF Kept

LEMMA RendezvousKeeps ==
  ASSUME Inv, NEW p \in Process, Rendezvous(p)
  PROVE  Kept
<1> DEFINE ranks == IF post[p].call.world > 1 THEN Process ELSE {p}
<1>1. CliqueInv /\ CallInv /\ faults \in 0 .. MaxFaults /\ misplaced \in BOOLEAN
  BY DEF Inv, RestInv
<1>2. /\ \A q \in ranks : pc[q] = "joining"
      /\ pc' = [q \in Process |-> IF q \in ranks THEN "joined" ELSE pc[q]]
      /\ UNCHANGED <<clique, live, post, faults, misplaced>>
  BY DEF Rendezvous
<1> HIDE DEF ranks
<1>3. CliqueInv'
  BY <1>1, <1>2, CliqueStays
<1>4. /\ pc \in [Process -> States] /\ post = [q \in Process |-> post[q]]
      /\ \A q \in Process : Posted(q) /\ Joining(q)
  BY <1>1 DEF CallInv
<1>5. pc' \in [Process -> States]
  BY <1>2, <1>4 DEF States
<1>6. ASSUME NEW q \in Process
      PROVE  Posted(q)' /\ Joining(q)'
  <2>1. Posted(q) /\ Joining(q) /\ post'[q] = post[q] /\ clique'[q] = clique[q]
    BY <1>2, <1>4
  <2>2. CASE q \in ranks
    <3>1. pc[q] = "joining" /\ pc'[q] = "joined"
      BY <1>2, <2>2
    <3> QED BY <2>1, <3>1 DEF Posted, Joining
  <2>3. CASE q \notin ranks
    <3>1. pc'[q] = pc[q]
      BY <1>2, <2>3
    <3> QED BY <2>1, <3>1 DEF Posted, Joining
  <2> QED BY <2>2, <2>3
<1>7. CallInv'
  BY <1>2, <1>4, <1>5, <1>6 DEF CallInv
<1> QED BY <1>1, <1>2, <1>3, <1>7 DEF Kept

LEMMA ExchangeKeeps ==
  ASSUME Inv, NEW p \in Process, Exchange(p)
  PROVE  Kept
<1> DEFINE S == Members(p)
<1>1. CliqueInv /\ CallInv /\ faults \in 0 .. MaxFaults /\ misplaced \in BOOLEAN
  BY DEF Inv, RestInv
<1>2. /\ \A q \in S : pc[q] = "waiting"
      /\ pc' = [q \in Process |-> IF q \in S THEN "arrived" ELSE pc[q]]
      /\ UNCHANGED <<clique, live, faults, misplaced>>
  BY DEF Exchange
<1>3. PICK f : post' = [q \in Process |-> IF q \notin S THEN post[q]
                                         ELSE [post[q] EXCEPT !.bufs = f[q]]]
  <2> DEFINE avg(c) == c.avg /\ NativeAvg /\ c.kind # "scalar"
             rank(q, i) == IF clique[q].world > 1 THEN clique[q].rank + 1 ELSE i
             f == [q \in Process |->
                    [i \in DOMAIN post[q].bufs |->
                       IF \A r \in S : SameCollective(post[r].call, post[q].call)
                       THEN Collected(post[q].call, Issued(p), avg(post[q].call), rank(q, i))
                       ELSE Junk]]
  <2>1. post' = [q \in Process |-> IF q \notin S THEN post[q]
                                  ELSE [post[q] EXCEPT !.bufs = f[q]]]
    BY DEF Exchange
  <2> HIDE DEF f
  <2> QED BY <2>1
<1> HIDE DEF S
<1>4. CliqueInv'
  BY <1>1, <1>2, CliqueStays
<1>5. /\ pc \in [Process -> States]
      /\ \A q \in Process : Posted(q) /\ Joining(q)
  BY <1>1 DEF CallInv
<1>6. pc' \in [Process -> States] /\ post' = [q \in Process |-> post'[q]]
  BY <1>2, <1>3, <1>5 DEF States
<1>7. ASSUME NEW q \in Process
      PROVE  Posted(q)' /\ Joining(q)'
  <2>1. CASE q \in S
    <3>1. pc[q] = "waiting" /\ pc'[q] = "arrived"
      BY <1>2, <2>1
    <3>2. InCall(post[q])
      BY <1>5, <3>1 DEF Posted
    <3>3. PICK c \in Calls : \E list, bufs : post[q] = [call |-> c, list |-> list, bufs |-> bufs]
      BY <3>2 DEF InCall
    <3>4. PICK list, bufs : post[q] = [call |-> c, list |-> list, bufs |-> bufs]
      BY <3>3
    <3>5. post'[q] = [call |-> c, list |-> list, bufs |-> f[q]]
      BY <1>3, <2>1, <3>4
    <3>6. InCall(post'[q])
      BY <3>5 DEF InCall
    <3>7. post'[q] # Unsent
      <4>1. c.kind # "none"
        BY CallsAssumption DEF AllCalls, Forms
      <4> QED BY <3>5, <4>1 DEF Unsent
    <3> QED BY <3>1, <3>6, <3>7 DEF Posted, Joining
  <2>2. CASE q \notin S
    <3>1. pc'[q] = pc[q] /\ post'[q] = post[q] /\ clique'[q] = clique[q]
      BY <1>2, <1>3, <2>2
    <3>2. Posted(q) /\ Joining(q)
      BY <1>5
    <3> QED BY <3>1, <3>2 DEF Posted, Joining
  <2> QED BY <2>1, <2>2
<1>8. CallInv'
  BY <1>6, <1>7 DEF CallInv
<1> QED BY <1>1, <1>2, <1>4, <1>8 DEF Kept

-----------------------------------------------------------------------------
(* The theorems *)

LEMMA InitInv == Init => Inv
<1> SUFFICES ASSUME Init
             PROVE  Inv
  OBVIOUS
<1>1. Whole([c |-> NoClique, l |-> NoHandles])
  BY ClosedWhole DEF NoClique
<1>2. NoClique \in Cliques /\ NoHandles \in Handles
  BY <1>1 DEF Whole, Balanced
<1>3. CliqueInv
  BY <1>1, <1>2 DEF Init, CliqueInv, Owned
<1>4. CallInv
  BY DEF Init, CallInv, Posted, Joining, States
<1>5. RestInv
  <2>1. faults \in 0 .. MaxFaults /\ misplaced \in BOOLEAN
    <3>1. faults \in 0 .. MaxFaults
      BY BoundsAssumption DEF Init
    <3>2. misplaced \in BOOLEAN
      BY DEF Init
    <3> QED BY <3>1, <3>2
  <2>2. todo = [p \in Process |-> todo[p]] /\ \A p \in Process : todo[p] = <<>>
    BY DEF Init
  <2>3. <<>> \in Seq(Calls) /\ Len(<<>>) <= MaxAhead
    BY BoundsAssumption
  <2> QED BY <2>1, <2>2, <2>3 DEF RestInv, TodoInv
<1> QED BY <1>3, <1>4, <1>5 DEF Inv

LEMMA NextInv == Inv /\ [Next]_vars => Inv'
<1> SUFFICES ASSUME Inv, [Next]_vars
             PROVE  Inv'
  OBVIOUS
<1>1. RestInv /\ todo = [q \in Process |-> todo[q]] /\ TodoInv
  BY DEF Inv, RestInv
<1>2. ASSUME NEW p \in Process, StartsCall(p)
      PROVE  Inv'
  <2>1. PICK c \in Upcoming(p) :
          /\ Take(p, c)
          /\ nccl_init_rank(p, c) \/ nccl_finalize(p, c) \/ HostCollective(p, c) \/ BufferCollective(p, c)
    BY <1>2 DEF StartsCall
  <2>2. c \in Calls
    BY <1>1, UpcomingCall
  <2>3. todo' = [q \in Process |-> todo'[q]] /\ TodoInv'
    BY <1>1, <2>1, <2>2, TakeKeeps
  <2>4. Kept
    BY <2>1, <2>2, InitRankKeeps, FinalizeKeeps, HostKeeps, BufferKeeps
  <2> QED BY <2>3, <2>4 DEF Inv, Kept, RestInv
<1>3. ASSUME NEW p \in Process, GoesOn(p) \/ JoinFails(p) \/ CollectiveFails(p)
      PROVE  Inv'
  <2>1. Kept
    BY <1>3, RendezvousKeeps, JoinedKeeps, ExchangeKeeps, EndsKeep DEF GoesOn
  <2>2. UNCHANGED todo
    BY <1>3 DEF GoesOn, Rendezvous, Joined, Exchange, Finish, JoinFails, CollectiveFails
  <2> QED BY <1>1, <2>1, <2>2 DEF Inv, Kept, RestInv, TodoInv
<1>4. CASE UNCHANGED vars
  BY <1>4 DEF vars, Inv, CliqueInv, CallInv, RestInv, TodoInv, Owned, Posted, Joining
<1> QED BY <1>2, <1>3, <1>4 DEF Next

THEOREM Invariant == Spec => []Inv
<1> QED BY InitInv, NextInv, PTL DEF Spec

(* Every variable keeps its type, for any number of processes, devices and failures. *)
THEOREM TypeCorrect == Spec => []TypeOK
<1>1. Inv => TypeOK
  BY DEF Inv, CliqueInv, CallInv, RestInv, TodoInv, TypeOK, Handles, States, Posted
<1> QED BY Invariant, <1>1, PTL

(***************************************************************************)
(* A clique is whole or nothing, and no communicator or stream is lost, in *)
(* every process of every run (nccl_init_rank, adopt_rank, ensure, release *)
(* and nccl_finalize).                                                     *)
(***************************************************************************)
THEOREM CliquesWhole == Spec => []CliqueWhole
<1>1. Inv => CliqueWhole
  <2> SUFFICES ASSUME Inv, NEW p \in Process
               PROVE  LET c == clique[p] IN
                        /\ live[p] = [comms |-> c.comms, streams |-> c.streams]
                        /\ c.comms = Len(c.devices) /\ c.streams = Len(c.devices)
                        /\ c.ready <=> c.devices # <<>>
                        /\ c.ready => c.attempted /\ c.comms = nccl_local_rank_count(c)
                        /\ ~c.ready => c.world = 0 /\ c.rank = 0
    BY DEF CliqueWhole
  <2>1. Whole([c |-> clique[p], l |-> live[p]])
    BY DEF Inv, CliqueInv, Owned
  <2>2. live[p] = [comms |-> clique[p].comms, streams |-> clique[p].streams]
    BY <2>1 DEF Whole, Balanced, Handles
  <2> QED BY <2>1, <2>2 DEF Whole
<1> QED BY Invariant, <1>1, PTL

=============================================================================
