--------------------------- MODULE InternerProofs ----------------------------
(* What Interner.tla promises, proved for any threads, addresses, labels and  *)
(* hash function: no live node has a twin, the slots of the table and the     *)
(* live nodes are one to one, children outlive their parents, the table is no *)
(* larger than what was reachable, intern() implements the atomic requests of *)
(* HashCons, and equal trees have equal addresses.                            *)
(*                                                                            *)
(* The heart of the invariant is what a thread in the scan knows: no live     *)
(* slot it has passed holds its expression.  Handles fall without the mutex,  *)
(* but a drop only kills, and nobody else can append; so when the scan ends   *)
(* with nothing found, a twin would have to be in a bucket of another hash,   *)
(* and HeapInv says that the hash of a live node is that of its expression.   *)
(*                                                                            *)
(* The size is counted by an injection of the slots into a set of nodes: in a *)
(* sweep, every slot is still to visit or names a node that was alive         *)
(* when it began.  That equal trees are one node is an induction over         *)
(* the depth of the expressions, of which a least counterexample is taken.    *)
EXTENDS Interner, SequenceTheorems, FiniteSetTheorems, TLAPS

(* ---- the inductive invariant ------------------------------------------- *)
Calls == [step : Step, expr : Expression \cup {NoExpression},
          hash : Hashes \cup {NoHash}, pos : Nat,
          found : Nodes \cup {NoNode}, todo : SUBSET Hashes]

TypeInv ==
  /\ node \in [Nodes -> Expression \cup {NoExpression}]
  /\ hash \in [Nodes -> Hashes \cup {NoHash}]
  /\ alive \subseteq Nodes /\ dying \subseteq Nodes
  /\ DOMAIN buckets \subseteq Hashes
  /\ buckets \in [DOMAIN buckets -> Seq(Nodes)]
  /\ sinceSweep \in 0..SweepInterval-1
  /\ owner \in Threads \cup {NoThread}
  /\ held \in [Threads -> SUBSET Nodes]
  /\ call \in [Threads -> Calls]

(* The hash a node with this expression has.                                  *)
HashOf(e) == Hash(e.label, [i \in DOMAIN e.args |-> hash[e.args[i]]])

(* Handles and children are alive; a live node knows its hash.                *)
HeapInv ==
  /\ alive \cap dying = {}
  /\ \A n \in alive : node[n] \in Expression /\ hash[n] = HashOf(node[n]) /\ hash[n] \in Hashes
  /\ ChildrenAlive
  /\ \A t \in Threads : held[t] \subseteq alive /\ call[t].found \in alive \cup {NoNode}

(* No address is in two slots, and a live one is in its bucket.               *)
OneSlot ==
  \A g, h \in DOMAIN buckets : \A i \in 1..Len(buckets[g]), j \in 1..Len(buckets[h]) :
    buckets[g][i] = buckets[h][j] => g = h /\ i = j
HasSlot(n) ==
  /\ hash[n] \in DOMAIN buckets
  /\ \E i \in 1..Len(buckets[hash[n]]) : buckets[hash[n]][i] = n
TableInv == OneSlot /\ \A n \in alive : HasSlot(n)

Inside(t) == call[t].step \in {"scan", "sweep", "erase", "return"}

(* What a thread in intern() knows: the children it was given are alive, the  *)
(* hash is theirs, and no live slot it has passed holds the expression.       *)
CallInv(t) ==
  /\ owner = t <=> Inside(t)
  /\ call[t].step = "idle" => call[t].found = NoNode
  /\ call[t].step \in {"lock", "scan"} =>
       /\ call[t].expr \in Expression
       /\ Range(call[t].expr.args) \subseteq held[t]
       /\ call[t].hash = HashOf(call[t].expr) /\ call[t].hash \in Hashes
  /\ call[t].step = "lock" => call[t].found = NoNode
  /\ call[t].step \in {"scan", "erase"} =>
       /\ call[t].hash \in DOMAIN buckets
       /\ call[t].pos \in 1..Len(Bucket(t)) + 1
  /\ call[t].step = "scan" /\ call[t].found = NoNode =>
       \A i \in 1..call[t].pos - 1 : Bucket(t)[i] \in alive => node[Bucket(t)[i]] # call[t].expr
  /\ call[t].step \in {"sweep", "erase", "return"} => call[t].found # NoNode
  /\ call[t].todo \subseteq DOMAIN buckets
  /\ call[t].step \notin {"sweep", "erase"} => call[t].todo = {}
  /\ call[t].step = "erase" => call[t].hash \notin call[t].todo

IInv == TypeInv /\ HeapInv /\ TableInv /\ UniqueLive /\ \A t \in Threads : CallInv(t)

USE ThreadsAssumption, NodesAssumption

(* ---- lemmas about the operators ---------------------------------------- *)
LEMMA RemoveAtIs ==
  ASSUME NEW S, NEW s \in Seq(S), NEW i \in 1 .. Len(s)
  PROVE  /\ RemoveAt(s, i) \in Seq(S)
         /\ Len(RemoveAt(s, i)) = Len(s) - 1
         /\ \A j \in 1 .. Len(s) - 1 : RemoveAt(s, i)[j] = IF j < i THEN s[j] ELSE s[j + 1]
  <1> DEFINE a == SubSeq(s, 1, i - 1)
             b == SubSeq(s, i + 1, Len(s))
  <1>0. Len(s) \in Nat /\ \A j \in 1 .. Len(s) : s[j] \in S
    BY LenProperties, ElementOfSeq
  <1>1. /\ a \in Seq(S) /\ Len(a) = i - 1
        /\ \A j \in 1 .. i - 1 : a[j] = s[j]
    <2>1. \A j \in 1 .. i - 1 : s[j] \in S
      BY <1>0
    <2>2. /\ a \in Seq(S) /\ Len(a) = IF 1 <= i - 1 THEN i - 1 - 1 + 1 ELSE 0
          /\ \A j \in 1 .. i - 1 - 1 + 1 : a[j] = s[1 + j - 1]
      BY <1>0, <2>1, SubSeqProperties
    <2> QED
      BY <1>0, <2>2
  <1>2. /\ b \in Seq(S) /\ Len(b) = Len(s) - i
        /\ \A j \in 1 .. Len(s) - i : b[j] = s[i + j]
    <2>1. \A j \in i + 1 .. Len(s) : s[j] \in S
      BY <1>0
    <2>2. /\ b \in Seq(S) /\ Len(b) = IF i + 1 <= Len(s) THEN Len(s) - (i + 1) + 1 ELSE 0
          /\ \A j \in 1 .. Len(s) - (i + 1) + 1 : b[j] = s[(i + 1) + j - 1]
      BY <1>0, <2>1, SubSeqProperties
    <2> QED
      BY <1>0, <2>2
  <1> HIDE DEF a, b
  <1>3. /\ a \o b \in Seq(S) /\ Len(a \o b) = Len(a) + Len(b)
        /\ \A j \in 1 .. Len(a) + Len(b) :
               (a \o b)[j] = IF j <= Len(a) THEN a[j] ELSE b[j - Len(a)]
    BY <1>1, <1>2, ConcatProperties
  <1>4. RemoveAt(s, i) = a \o b
    BY DEF RemoveAt, a, b
  <1>5. ASSUME NEW j \in 1 .. Len(s) - 1
        PROVE  (a \o b)[j] = IF j < i THEN s[j] ELSE s[j + 1]
    <2>1. CASE j < i
      BY <1>0, <1>1, <1>2, <1>3, <2>1
    <2>2. CASE ~(j < i)
      <3>1. (a \o b)[j] = b[j - (i - 1)] /\ j - (i - 1) \in 1 .. Len(s) - i
        BY <1>0, <1>1, <1>2, <1>3, <2>2
      <3>2. b[j - (i - 1)] = s[i + (j - (i - 1))] /\ i + (j - (i - 1)) = j + 1
        BY <1>0, <1>2, <3>1
      <3> QED
        BY <2>2, <3>1, <3>2
    <2> QED
      BY <2>1, <2>2
  <1> QED
    BY <1>0, <1>1, <1>2, <1>3, <1>4, <1>5

LEMMA BucketsAre ==
  ASSUME TypeInv, NEW h \in DOMAIN buckets
  PROVE  /\ buckets[h] \in Seq(Nodes) /\ Len(buckets[h]) \in Nat
         /\ \A i \in 1..Len(buckets[h]) : buckets[h][i] \in Nodes
  BY LenProperties, ElementOfSeq DEF TypeInv

LEMMA ArgsAre ==
  ASSUME NEW e \in Expression
  PROVE  /\ e.label \in Labels /\ e.args \in [1..Arity[e.label] -> Nodes]
         /\ Range(e.args) = {e.args[i] : i \in 1..Arity[e.label]}
         /\ \A i \in DOMAIN e.args : e.args[i] \in Range(e.args) /\ e.args[i] \in Nodes
  <1>1. PICK l \in Labels : e \in [label : {l}, args : [1..Arity[l] -> Nodes]]
    BY DEF Expression
  <1> QED
    BY <1>1 DEF Range

LEMMA HashKept ==
  ASSUME NEW e \in Expression,
         \A i \in DOMAIN e.args : hash'[e.args[i]] = hash[e.args[i]]
  PROVE  HashOf(e)' = HashOf(e)
  <1>1. [i \in DOMAIN e.args |-> hash'[e.args[i]]] = [i \in DOMAIN e.args |-> hash[e.args[i]]]
    OBVIOUS
  <1> QED
    BY <1>1 DEF HashOf

LEMMA CallsAre ==
  ASSUME TypeInv, NEW t \in Threads
  PROVE  /\ call[t] \in Calls
         /\ call[t].step \in Step /\ call[t].expr \in Expression \cup {NoExpression}
         /\ call[t].hash \in Hashes \cup {NoHash} /\ call[t].pos \in Nat
         /\ call[t].found \in Nodes \cup {NoNode} /\ call[t].todo \subseteq Hashes
  <1>1. call[t] \in Calls
    BY DEF TypeInv
  <1> QED
    BY <1>1 DEF Calls

(* A live expression's hash does not change while its children live.          *)
LEMMA HashOfKept ==
  ASSUME HeapInv, NEW e \in Expression, Range(e.args) \subseteq alive,
         \A n \in alive : hash'[n] = hash[n]
  PROVE  HashOf(e)' = HashOf(e)
  <1>1. \A i \in DOMAIN e.args : e.args[i] \in alive
    BY ArgsAre
  <1> QED
    BY <1>1, HashKept

(* What another thread does leaves a call outside the mutex as it was.        *)
LEMMA OutsideCall ==
  ASSUME IInv, NEW u \in Threads, owner # u, owner' # u, call'[u] = call[u], held'[u] = held[u],
         \A n \in alive : hash'[n] = hash[n]
  PROVE  CallInv(u)'
  <1>1. call[u].step \in {"idle", "lock"}
    BY CallsAre DEF IInv, CallInv, Inside, Step
  <1>2. CallInv(u) /\ held[u] \subseteq alive
    BY DEF IInv, HeapInv
  <1>3. call[u].step = "lock" => HashOf(call[u].expr)' = HashOf(call[u].expr)
    <2> SUFFICES ASSUME call[u].step = "lock" PROVE HashOf(call[u].expr)' = HashOf(call[u].expr)
      OBVIOUS
    <2>1. PICK e \in Expression : e = call[u].expr
      BY <1>2 DEF CallInv
    <2>2. Range(e.args) \subseteq alive
      BY <1>2, <2>1 DEF CallInv
    <2>3. HashOf(e)' = HashOf(e)
      BY <2>2, HashOfKept DEF IInv
    <2>4. e = call'[u].expr
      BY <2>1
    <2> QED
      BY <2>1, <2>3, <2>4 DEF HashOf
  <1>4. ~Inside(u)' /\ call[u].todo = {}
    BY <1>1, <1>2 DEF Inside, CallInv
  <1> QED
    BY <1>1, <1>2, <1>3, <1>4 DEF CallInv

(* A call inside the mutex is not disturbed by handles that fall.             *)
LEMMA InsideCall ==
  ASSUME IInv, NEW u \in Threads, owner' = owner, buckets' = buckets, call'[u] = call[u],
         call[u].step # "idle" => held'[u] = held[u],
         alive' \subseteq alive,
         \A n \in alive : hash'[n] = hash[n] /\ node'[n] = node[n]
  PROVE  CallInv(u)'
  <1>2. CallInv(u) /\ held[u] \subseteq alive
    BY DEF IInv, HeapInv
  <1>3. call[u].step \in {"lock", "scan"} => HashOf(call[u].expr)' = HashOf(call[u].expr)
    <2> SUFFICES ASSUME call[u].step \in {"lock", "scan"}
                 PROVE HashOf(call[u].expr)' = HashOf(call[u].expr)
      OBVIOUS
    <2>1. PICK e \in Expression : e = call[u].expr
      BY <1>2 DEF CallInv
    <2>2. Range(e.args) \subseteq alive
      BY <1>2, <2>1 DEF CallInv
    <2>3. HashOf(e)' = HashOf(e)
      BY <2>2, HashOfKept DEF IInv
    <2>4. e = call'[u].expr
      BY <2>1
    <2> QED
      BY <2>1, <2>3, <2>4 DEF HashOf
  <1>4. Inside(u)' <=> Inside(u)
    BY DEF Inside
  <1>5. Bucket(u)' = Bucket(u)
    BY DEF Bucket
  <1>6. ASSUME call[u].step = "scan", call[u].found = NoNode, NEW i \in 1..call[u].pos - 1,
               Bucket(u)[i] \in alive'
        PROVE  node'[Bucket(u)[i]] # call[u].expr
    BY <1>2, <1>6 DEF CallInv
  <1> QED
    BY <1>2, <1>3, <1>4, <1>5, <1>6 DEF CallInv

LEMMA Shrinks ==
  ASSUME IInv, TypeInv', owner' = owner, buckets' = buckets, call' = call,
         \A t \in Threads : call[t].step # "idle" => held'[t] = held[t],
         alive' \subseteq alive, alive' \cap dying' = {}, ChildrenAlive',
         \A n \in alive : hash'[n] = hash[n] /\ node'[n] = node[n],
         \A t \in Threads : held'[t] \subseteq alive' /\ call[t].found \in alive' \cup {NoNode}
  PROVE  IInv'
  <1>1. HeapInv'
    <2>1. ASSUME NEW n \in alive'
          PROVE  node'[n] \in Expression /\ hash'[n] = HashOf(node[n])' /\ hash'[n] \in Hashes
      <3>1. PICK e \in Expression : e = node[n]
        BY <2>1 DEF IInv, HeapInv
      <3>2. Range(e.args) \subseteq alive
        BY <2>1, <3>1 DEF IInv, HeapInv, ChildrenAlive
      <3>3. HashOf(e)' = HashOf(e)
        BY <3>2, HashOfKept DEF IInv
      <3>4. e = node'[n] /\ hash'[n] = HashOf(e) /\ hash[n] \in Hashes
        BY <2>1, <3>1 DEF IInv, HeapInv
      <3> QED
        BY <2>1, <3>3, <3>4 DEF HashOf
    <2> QED
      BY <2>1 DEF HeapInv
  <1>2. TableInv'
    BY DEF IInv, TableInv, OneSlot, HasSlot
  <1>3. UniqueLive'
    BY DEF IInv, UniqueLive
  <1>4. \A t \in Threads : CallInv(t)'
    BY InsideCall
  <1> QED
    BY <1>1, <1>2, <1>3, <1>4 DEF IInv

(* ---- the type invariant ------------------------------------------------ *)
LEMMA CallsSet ==
  ASSUME TypeInv, NEW t \in Threads, NEW c \in Calls, call' = [call EXCEPT ![t] = c]
  PROVE  /\ call' \in [Threads -> Calls] /\ call'[t] = c
         /\ \A u \in Threads : u # t => call'[u] = call[u]
  BY DEF TypeInv

LEMMA NoCallIs ==
  /\ NoCall \in Calls /\ NoCall.step = "idle" /\ NoCall.found = NoNode /\ NoCall.todo = {}
  /\ NoCall.expr = NoExpression
  BY DEF NoCall, Calls, Step

LEMMA BucketIs ==
  ASSUME IInv, NEW t \in Threads, call[t].step \in {"scan", "erase"}
  PROVE  /\ call[t].hash \in DOMAIN buckets /\ Bucket(t) = buckets[call[t].hash]
         /\ Bucket(t) \in Seq(Nodes) /\ Len(Bucket(t)) \in Nat
         /\ call[t].pos \in 1..Len(Bucket(t)) + 1
         /\ \A i \in 1..Len(Bucket(t)) : Bucket(t)[i] \in Nodes
         /\ owner = t /\ \A u \in Threads : u # t => owner # u
  <1>1. CallInv(t)
    BY DEF IInv
  <1> QED
    BY <1>1, BucketsAre DEF CallInv, Bucket, IInv, Inside

LEMMA FreshIs ==
  ASSUME TypeInv, Unused # {}
  PROVE  /\ Fresh \in Nodes /\ Fresh \notin alive /\ Fresh \notin dying /\ Fresh # NoNode
         /\ \A h \in DOMAIN buckets : \A i \in 1..Len(buckets[h]) : buckets[h][i] # Fresh
  <1>1. Fresh \in Unused
    BY DEF Fresh
  <1>2. ASSUME NEW h \in DOMAIN buckets, NEW i \in 1..Len(buckets[h]), buckets[h][i] = Fresh
        PROVE  FALSE
    <2>1. Fresh \in Range(buckets[h])
      BY <1>2, BucketsAre, RangeEquality
    <2> QED
      BY <1>1, <2>1 DEF Unused, InUse
  <1> QED
    BY <1>1, <1>2 DEF Unused, InUse

(* Taking the slot at hand out of its bucket.                                 *)
LEMMA Pruned ==
  ASSUME IInv, NEW t \in Threads, call[t].step \in {"scan", "erase"},
         call[t].pos <= Len(Bucket(t)), PruneSlot(t)
  PROVE  LET h == call[t].hash IN
         /\ DOMAIN buckets' = DOMAIN buckets /\ buckets' \in [DOMAIN buckets -> Seq(Nodes)]
         /\ h \in DOMAIN buckets /\ \A g \in DOMAIN buckets \ {h} : buckets'[g] = buckets[g]
         /\ buckets'[h] \in Seq(Nodes) /\ Len(buckets[h]) \in Nat
         /\ Len(buckets'[h]) = Len(buckets[h]) - 1
         /\ call[t].pos \in 1..Len(buckets[h])
         /\ \A j \in 1..Len(buckets[h]) - 1 :
                buckets'[h][j] = IF j < call[t].pos THEN buckets[h][j] ELSE buckets[h][j + 1]
  <1> DEFINE h == call[t].hash
             p == call[t].pos
  <1>1. /\ h \in DOMAIN buckets /\ buckets[h] \in Seq(Nodes) /\ p \in 1..Len(buckets[h])
        /\ Len(buckets[h]) \in Nat
    BY BucketIs DEF Bucket
  <1>2. buckets' = [buckets EXCEPT ![h] = RemoveAt(buckets[h], p)]
    BY DEF PruneSlot
  <1> HIDE DEF h, p
  <1>3. /\ RemoveAt(buckets[h], p) \in Seq(Nodes)
        /\ Len(RemoveAt(buckets[h], p)) = Len(buckets[h]) - 1
        /\ \A j \in 1 .. Len(buckets[h]) - 1 :
              RemoveAt(buckets[h], p)[j] = IF j < p THEN buckets[h][j] ELSE buckets[h][j + 1]
    BY <1>1, RemoveAtIs
  <1>4. buckets \in [DOMAIN buckets -> Seq(Nodes)]
    BY DEF IInv, TypeInv
  <1>5. buckets'[h] = RemoveAt(buckets[h], p)
    BY <1>1, <1>2, <1>4
  <1>6. /\ DOMAIN buckets' = DOMAIN buckets
        /\ \A g \in DOMAIN buckets \ {h} : buckets'[g] = buckets[g]
        /\ buckets' \in [DOMAIN buckets -> Seq(Nodes)]
    BY <1>1, <1>2, <1>3, <1>4
  <1> QED
    BY <1>1, <1>3, <1>5, <1>6 DEF h, p

(* ---- the steps --------------------------------------------------------- *)
LEMMA SameHeap ==
  ASSUME IInv, UNCHANGED <<node, hash, alive, dying>>,
         \A u \in Threads : held'[u] \subseteq alive /\ call'[u].found \in alive \cup {NoNode}
  PROVE  /\ HeapInv' /\ UniqueLive'
         /\ \A e : HashOf(e)' = HashOf(e)
         /\ buckets' = buckets => TableInv'
  <1>1. \A e : HashOf(e)' = HashOf(e)
    BY DEF HashOf
  <1>2. HeapInv'
    BY <1>1 DEF IInv, HeapInv, ChildrenAlive
  <1>3. UniqueLive'
    BY DEF IInv, UniqueLive
  <1>4. buckets' = buckets => TableInv'
    BY DEF IInv, TableInv, OneSlot, HasSlot
  <1> QED
    BY <1>1, <1>2, <1>3, <1>4

LEMMA DropStep ==
  ASSUME IInv, NEW t \in Threads, NEW n, Drop(t, n)
  PROVE  IInv'
  <1>1. /\ call[t].step = "idle" /\ n \in held[t] /\ n \in alive
        /\ held' = [held EXCEPT ![t] = held[t] \ {n}]
        /\ UNCHANGED <<node, hash, buckets, sinceSweep, owner, call>>
    BY DEF Drop, IInv, HeapInv
  <1>2. held \in [Threads -> SUBSET Nodes] /\ \A u \in Threads : held[u] \subseteq alive
    BY DEF IInv, TypeInv, HeapInv
  <1>3. /\ held' \in [Threads -> SUBSET Nodes] /\ \A u \in Threads : held'[u] \subseteq held[u]
        /\ \A u \in Threads : call[u].step # "idle" => held'[u] = held[u]
    BY <1>1, <1>2
  <1>4. CASE Referenced(n, alive \cup dying)
    <2>1. alive' = alive /\ dying' = dying
      BY <1>4 DEF Drop
    <2>2. TypeInv'
      BY <1>1, <1>3, <2>1 DEF IInv, TypeInv
    <2>3. ChildrenAlive'
      BY <1>1, <2>1 DEF IInv, HeapInv, ChildrenAlive
    <2>4. alive' \cap dying' = {}
      BY <2>1 DEF IInv, HeapInv
    <2>5. \A u \in Threads : held'[u] \subseteq alive' /\ call[u].found \in alive' \cup {NoNode}
      BY <1>2, <1>3, <2>1 DEF IInv, HeapInv
    <2> QED
      BY <1>1, <1>3, <2>1, <2>2, <2>3, <2>4, <2>5, Shrinks
  <1>5. CASE ~Referenced(n, alive \cup dying)
    <2>1. alive' = alive \ {n} /\ dying' = dying \cup {n}
      BY <1>5 DEF Drop
    <2>2. TypeInv'
      BY <1>1, <1>3, <2>1 DEF IInv, TypeInv
    <2>3. /\ \A u \in Threads : n \notin held'[u] /\ n # call[u].found
          /\ \A m \in alive \cup dying : n \notin Range(node[m].args)
      BY <1>5 DEF Referenced, Owns
    <2>4. ChildrenAlive'
      BY <1>1, <2>1, <2>3 DEF IInv, HeapInv, ChildrenAlive
    <2>5. alive' \cap dying' = {}
      BY <2>1 DEF IInv, HeapInv
    <2>6. \A u \in Threads : held'[u] \subseteq alive' /\ call[u].found \in alive' \cup {NoNode}
      BY <1>2, <1>3, <2>1, <2>3 DEF IInv, HeapInv
    <2> QED
      BY <1>1, <1>3, <2>1, <2>2, <2>4, <2>5, <2>6, Shrinks
  <1> QED
    BY <1>4, <1>5

LEMMA DestroyStep ==
  ASSUME IInv, NEW n, Destroy(n)
  PROVE  IInv'
  <1> DEFINE orphans == {k \in Range(node[n].args) : ~Referenced(k, (alive \cup dying) \ {n})}
  <1>1. /\ n \in dying /\ n \in Nodes /\ n \notin alive
        /\ UNCHANGED <<buckets, sinceSweep, owner, held, call>>
        /\ alive' = alive \ orphans /\ dying' = (dying \ {n}) \cup orphans
        /\ node' = [node EXCEPT ![n] = NoExpression] /\ hash' = [hash EXCEPT ![n] = NoHash]
    BY DEF Destroy, IInv, HeapInv, TypeInv
  <1>2. orphans \subseteq alive
    BY <1>1 DEF IInv, HeapInv, ChildrenAlive
  <1>3. \A k \in orphans : /\ \A u \in Threads : k \notin held[u] /\ k # call[u].found
                           /\ \A m \in (alive \cup dying) \ {n} : k \notin Range(node[m].args)
    BY <1>1 DEF Referenced, Owns
  <1> HIDE DEF orphans
  <1>4. \A m \in alive \cup dying : m # n => node'[m] = node[m] /\ hash'[m] = hash[m]
    BY <1>1 DEF IInv, TypeInv
  <1>5. TypeInv'
    BY <1>1, <1>2 DEF IInv, TypeInv
  <1>6. ChildrenAlive'
    <2> SUFFICES ASSUME NEW m \in alive' \cup dying' PROVE Range(node'[m].args) \subseteq alive'
      BY DEF ChildrenAlive
    <2>1. m \in alive \cup dying /\ m # n
      BY <1>1, <1>2
    <2>2. Range(node[m].args) \subseteq alive
      BY <2>1 DEF IInv, HeapInv, ChildrenAlive
    <2> QED
      BY <1>1, <1>3, <1>4, <2>1, <2>2
  <1>7. alive' \cap dying' = {}
    BY <1>1 DEF IInv, HeapInv
  <1>8. \A u \in Threads : held'[u] \subseteq alive' /\ call[u].found \in alive' \cup {NoNode}
    BY <1>1, <1>3 DEF IInv, HeapInv
  <1> QED
    BY <1>1, <1>4, <1>5, <1>6, <1>7, <1>8, Shrinks

LEMMA CallStep ==
  ASSUME IInv, NEW t \in Threads, NEW l \in Labels, NEW args \in [1..Arity[l] -> held[t]],
         Call(t, l, args)
  PROVE  IInv'
  <1> DEFINE e == [label |-> l, args |-> args]
             c == [NoCall EXCEPT !.step = "lock", !.expr = e, !.hash = HashOf(e)]
  <1>1. /\ call' = [call EXCEPT ![t] = c] /\ call[t].step = "idle"
        /\ UNCHANGED <<node, hash, alive, dying, buckets, sinceSweep, owner, held>>
    BY DEF Call, HashOf
  <1>2. e \in Expression /\ Range(e.args) \subseteq held[t]
    <2>1. held[t] \subseteq Nodes
      BY DEF IInv, TypeInv
    <2> QED
      BY <2>1 DEF Expression, Range
  <1>3. HashOf(e) \in Hashes
    <2>1. [i \in DOMAIN e.args |-> hash[e.args[i]]] \in [1..Arity[l] -> Hashes]
      <3>1. \A i \in 1..Arity[l] : args[i] \in alive
        BY DEF IInv, HeapInv
      <3> QED
        BY <3>1 DEF IInv, HeapInv
    <2> QED
      BY <2>1, HashAssumption DEF HashOf
  <1>4. c \in Calls /\ c.step = "lock" /\ c.expr = e /\ c.hash = HashOf(e)
        /\ c.found = NoNode /\ c.todo = {}
    BY <1>2, <1>3 DEF Calls, NoCall, Step
  <1> HIDE DEF c, e
  <1>5. /\ call' \in [Threads -> Calls] /\ call'[t] = c
        /\ \A u \in Threads : u # t => call'[u] = call[u]
    BY <1>1, <1>4, CallsSet DEF IInv
  <1>6. TypeInv'
    BY <1>1, <1>5 DEF IInv, TypeInv
  <1>7. \A u \in Threads : held'[u] \subseteq alive /\ call'[u].found \in alive \cup {NoNode}
    BY <1>1, <1>4, <1>5 DEF IInv, HeapInv
  <1>8. HeapInv' /\ UniqueLive' /\ TableInv' /\ HashOf(e)' = HashOf(e)
    BY <1>1, <1>7, SameHeap
  <1>9. CallInv(t)'
    <2>1. ~Inside(t) /\ ~Inside(t)' /\ owner' # t
      BY <1>1, <1>4, <1>5 DEF Inside, IInv, CallInv
    <2>2. call'[t].hash = HashOf(e)'
      BY <1>4, <1>5, <1>8
    <2>3. HashOf(call[t].expr)' = HashOf(e)'
      BY <1>4, <1>5 DEF HashOf
    <2> QED
      BY <1>1, <1>2, <1>3, <1>4, <1>5, <2>1, <2>2, <2>3 DEF CallInv
  <1>10. \A u \in Threads : u # t => CallInv(u)'
    BY <1>1, <1>5, InsideCall
  <1> QED
    BY <1>6, <1>8, <1>9, <1>10 DEF IInv

LEMMA LockStep ==
  ASSUME IInv, NEW t \in Threads, Lock(t)
  PROVE  IInv'
  <1> DEFINE c == [call[t] EXCEPT !.step = "scan", !.pos = 1]
             h == call[t].hash
  <1>1. /\ call[t].step = "lock" /\ owner = NoThread /\ owner' = t
        /\ call' = [call EXCEPT ![t] = c]
        /\ buckets' = [g \in DOMAIN buckets \cup {h} |->
                          IF g \in DOMAIN buckets THEN buckets[g] ELSE <<>>]
        /\ UNCHANGED <<node, hash, alive, dying, sinceSweep, held>>
    BY DEF Lock
  <1>2. CallInv(t) /\ h \in Hashes
    BY <1>1 DEF IInv, CallInv
  <1>3. /\ c \in Calls /\ c.step = "scan" /\ c.pos = 1 /\ c.expr = call[t].expr
        /\ c.hash = h /\ c.found = call[t].found /\ c.todo = call[t].todo
    BY CallsAre DEF Calls, Step, IInv
  <1> HIDE DEF c
  <1>4. /\ call' \in [Threads -> Calls] /\ call'[t] = c
        /\ \A u \in Threads : u # t => call'[u] = call[u]
    BY <1>1, <1>3, CallsSet DEF IInv
  <1> HIDE DEF h
  <1>5. /\ DOMAIN buckets' = DOMAIN buckets \cup {h}
        /\ \A g \in DOMAIN buckets : buckets'[g] = buckets[g]
        /\ h \notin DOMAIN buckets => buckets'[h] = <<>>
        /\ buckets' \in [DOMAIN buckets' -> Seq(Nodes)]
    <2>1. <<>> \in Seq(Nodes) /\ buckets \in [DOMAIN buckets -> Seq(Nodes)]
      BY EmptySeq DEF IInv, TypeInv
    <2> QED
      BY <1>1, <2>1
  <1>6. TypeInv'
    BY <1>1, <1>2, <1>4, <1>5 DEF IInv, TypeInv
  <1>7. \A u \in Threads : held'[u] \subseteq alive /\ call'[u].found \in alive \cup {NoNode}
    BY <1>1, <1>3, <1>4 DEF IInv, HeapInv
  <1>8. HeapInv' /\ UniqueLive' /\ \A e : HashOf(e)' = HashOf(e)
    BY <1>1, <1>7, SameHeap
  <1>9. TableInv'
    <2>1. \A g \in DOMAIN buckets' \ DOMAIN buckets : Len(buckets'[g]) = 0
      BY <1>5, EmptySeq
    <2>2. OneSlot'
      <3> SUFFICES ASSUME NEW f \in DOMAIN buckets', NEW g \in DOMAIN buckets',
                          NEW i \in 1..Len(buckets'[f]), NEW j \in 1..Len(buckets'[g]),
                          buckets'[f][i] = buckets'[g][j]
                   PROVE  f = g /\ i = j
        BY DEF OneSlot
      <3>1. f \in DOMAIN buckets /\ g \in DOMAIN buckets
        BY <2>1
      <3> QED
        BY <1>5, <3>1 DEF IInv, TableInv, OneSlot
    <2>3. \A n \in alive' : HasSlot(n)'
      BY <1>1, <1>5 DEF IInv, TableInv, HasSlot
    <2> QED
      BY <2>2, <2>3 DEF TableInv
  <1>10. CallInv(t)'
    <2>1. Inside(t)' /\ owner' = t
      BY <1>1, <1>3, <1>4 DEF Inside
    <2>2. call'[t].hash = HashOf(call[t].expr)'
      <3>1. PICK e \in Expression : e = call[t].expr /\ h = HashOf(e)
        BY <1>1, <1>2 DEF CallInv, h
      <3>2. call'[t].expr = e /\ call'[t].hash = h /\ HashOf(e)' = HashOf(e)
        BY <1>3, <1>4, <1>8, <3>1
      <3> QED
        BY <3>1, <3>2 DEF HashOf
    <2>3. call'[t].hash \in DOMAIN buckets' /\ Len(Bucket(t)') \in Nat
      BY <1>3, <1>4, <1>5, <1>6, LenProperties DEF TypeInv, Bucket
    <2> QED
      BY <1>1, <1>2, <1>3, <1>4, <1>5, <2>1, <2>2, <2>3 DEF CallInv
  <1>11. \A u \in Threads : u # t => CallInv(u)'
    BY <1>1, <1>4, OutsideCall
  <1> QED
    BY <1>6, <1>8, <1>9, <1>10, <1>11 DEF IInv

(* A dead slot may go: the live ones stay, once each, those before it in place.*)
LEMMA PrunedTable ==
  ASSUME IInv, NEW t \in Threads, call[t].step \in {"scan", "erase"},
         call[t].pos <= Len(Bucket(t)), SlotNode(t) \notin alive, PruneSlot(t),
         UNCHANGED <<node, hash, alive, dying, sinceSweep, owner, held, call>>
  PROVE  IInv'
  <1> DEFINE h == call[t].hash
             p == call[t].pos
             old(i) == IF i < p THEN i ELSE i + 1
  <1>0. /\ DOMAIN buckets' = DOMAIN buckets /\ buckets' \in [DOMAIN buckets -> Seq(Nodes)]
        /\ h \in DOMAIN buckets /\ \A g \in DOMAIN buckets \ {h} : buckets'[g] = buckets[g]
        /\ buckets'[h] \in Seq(Nodes) /\ Len(buckets[h]) \in Nat
        /\ Len(buckets'[h]) = Len(buckets[h]) - 1
        /\ p \in 1..Len(buckets[h]) /\ buckets[h][p] \notin alive
        /\ \A j \in 1..Len(buckets[h]) - 1 :
              buckets'[h][j] = IF j < p THEN buckets[h][j] ELSE buckets[h][j + 1]
    BY Pruned DEF SlotNode, Bucket
  <1> HIDE DEF h, p
  <1>1. \A j \in 1..Len(buckets'[h]) : /\ old(j) \in 1..Len(buckets[h]) /\ old(j) # p
                                       /\ buckets'[h][j] = buckets[h][old(j)]
    BY <1>0
  <1>2. \A i \in 1..Len(buckets[h]) : i # p =>
           \E j \in 1..Len(buckets'[h]) : buckets'[h][j] = buckets[h][i]
    <2> SUFFICES ASSUME NEW i \in 1..Len(buckets[h]), i # p
                 PROVE  \E j \in 1..Len(buckets'[h]) : buckets'[h][j] = buckets[h][i]
      OBVIOUS
    <2>1. CASE i < p
      BY <1>0, <2>1, SMTT(30)
    <2>2. CASE i > p
      <3>1. i - 1 \in 1..Len(buckets'[h]) /\ old(i - 1) = i
        BY <1>0, <2>2
      <3> QED
        BY <1>1, <3>1
    <2> QED
      BY <1>0, <2>1, <2>2
  <1>3. \A i, j \in 1..Len(buckets'[h]) : old(i) = old(j) => i = j
    BY <1>0
  <1> HIDE DEF old
  <1>4. OneSlot'
    <2> SUFFICES ASSUME NEW f \in DOMAIN buckets, NEW g \in DOMAIN buckets,
                        NEW i \in 1..Len(buckets'[f]), NEW j \in 1..Len(buckets'[g]),
                        buckets'[f][i] = buckets'[g][j]
                 PROVE  f = g /\ i = j
      BY <1>0 DEF OneSlot
    <2>1. PICK k \in 1..Len(buckets[f]) : buckets[f][k] = buckets'[f][i] /\
                                          k = IF f = h THEN old(i) ELSE i
      BY <1>0, <1>1
    <2>2. PICK m \in 1..Len(buckets[g]) : buckets[g][m] = buckets'[g][j] /\
                                          m = IF g = h THEN old(j) ELSE j
      BY <1>0, <1>1
    <2>3. f = g /\ k = m
      BY <2>1, <2>2 DEF IInv, TableInv, OneSlot
    <2> QED
      BY <1>3, <2>1, <2>2, <2>3
  <1>5. \A n \in alive' : HasSlot(n)'
    <2> SUFFICES ASSUME NEW n \in alive PROVE HasSlot(n)'
      OBVIOUS
    <2>1. /\ hash[n] \in DOMAIN buckets
          /\ \E i \in 1..Len(buckets[hash[n]]) : buckets[hash[n]][i] = n
      BY DEF IInv, TableInv, HasSlot
    <2>2. CASE hash[n] = h
      <3>1. PICK i \in 1..Len(buckets[h]) : buckets[h][i] = n
        BY <2>1, <2>2
      <3>2. i # p
        BY <1>0, <3>1
      <3>3. \E j \in 1..Len(buckets'[h]) : buckets'[h][j] = n
        BY <1>2, <3>1, <3>2
      <3> QED
        BY <1>0, <2>2, <3>3 DEF HasSlot
    <2>3. CASE hash[n] # h
      BY <1>0, <2>1, <2>3 DEF HasSlot
    <2> QED
      BY <2>2, <2>3
  <1>6. \A u \in Threads : held'[u] \subseteq alive /\ call'[u].found \in alive \cup {NoNode}
    BY DEF IInv, HeapInv
  <1>7. HeapInv' /\ UniqueLive' /\ \A e : HashOf(e)' = HashOf(e)
    BY <1>6, SameHeap
  <1>8. TypeInv'
    BY <1>0 DEF IInv, TypeInv
  <1>9. CallInv(t)'
    <2>1. CallInv(t)
      BY DEF IInv
    <2>2. Bucket(t)' = buckets'[h] /\ Bucket(t) = buckets[h]
      BY DEF Bucket, h
    <2>3. call[t].pos \in 1..Len(Bucket(t)') + 1
      BY <1>0, <2>2 DEF p
    <2>4. \A i \in 1..call[t].pos - 1 : Bucket(t)'[i] = Bucket(t)[i]
      BY <1>0, <2>2 DEF p
    <2>5. Inside(t)' <=> Inside(t)
      BY DEF Inside
    <2>6. HashOf(call[t].expr)' = HashOf(call[t].expr)
      BY DEF HashOf
    <2> QED
      BY <1>0, <2>1, <2>3, <2>4, <2>5, <2>6 DEF CallInv
  <1>10. \A u \in Threads : u # t => CallInv(u)'
    BY BucketIs, OutsideCall
  <1> QED
    BY <1>4, <1>5, <1>7, <1>8, <1>9, <1>10 DEF IInv, TableInv

(* A thread that goes on in its call and leaves nodes and table alone.        *)
LEMMA Moves ==
  ASSUME IInv, NEW t \in Threads, NEW c \in Calls, call' = [call EXCEPT ![t] = c],
         UNCHANGED <<node, hash, alive, dying, buckets, sinceSweep>>,
         held' \in [Threads -> SUBSET Nodes], held'[t] \subseteq alive,
         \A u \in Threads : u # t => held'[u] = held[u],
         c.found \in alive \cup {NoNode},
         owner' = owner \/ (owner = t /\ owner' = NoThread),
         CallInv(t)'
  PROVE  IInv'
  <1>1. /\ call' \in [Threads -> Calls] /\ call'[t] = c
        /\ \A u \in Threads : u # t => call'[u] = call[u]
    BY CallsSet DEF IInv
  <1>2. TypeInv'
    BY <1>1 DEF IInv, TypeInv
  <1>3. \A u \in Threads : held'[u] \subseteq alive /\ call'[u].found \in alive \cup {NoNode}
    BY <1>1 DEF IInv, HeapInv
  <1>4. HeapInv' /\ UniqueLive' /\ TableInv'
    BY <1>3, SameHeap
  <1>5. ASSUME NEW u \in Threads, u # t PROVE CallInv(u)'
    <2>1. CASE owner' = owner
      BY <1>1, <1>5, <2>1, InsideCall
    <2>2. CASE owner = t /\ owner' = NoThread
      BY <1>1, <1>5, <2>2, OutsideCall
    <2> QED
      BY <2>1, <2>2
  <1> QED
    BY <1>2, <1>4, <1>5 DEF IInv

LEMMA ScanSlotStep ==
  ASSUME IInv, NEW t \in Threads, ScanSlot(t)
  PROVE  IInv'
  <1>0. /\ call[t].step = "scan" /\ call[t].pos <= Len(Bucket(t))
        /\ UNCHANGED <<node, hash, alive, dying, sinceSweep, owner, held>>
    BY DEF ScanSlot
  <1>1. CASE SlotNode(t) \notin alive
    BY <1>0, <1>1, PrunedTable DEF ScanSlot
  <1>2. CASE SlotNode(t) \in alive
    <2> DEFINE s == SlotNode(t)
               f == IF call[t].found = NoNode /\ node[s] = call[t].expr THEN s ELSE call[t].found
               c == [call[t] EXCEPT !.pos = call[t].pos + 1, !.found = f]
    <2>1. call' = [call EXCEPT ![t] = c] /\ buckets' = buckets
      BY <1>2 DEF ScanSlot
    <2>2. /\ s \in alive /\ s \in Nodes /\ s # NoNode /\ s = Bucket(t)[call[t].pos]
          /\ f \in alive \cup {NoNode} /\ f \in Nodes \cup {NoNode}
      BY <1>2 DEF SlotNode, IInv, TypeInv, HeapInv
    <2>3. f = NoNode => call[t].found = NoNode /\ node[s] # call[t].expr
      BY <2>2
    <2> HIDE DEF f, s
    <2>4. /\ c \in Calls /\ c.step = "scan" /\ c.pos = call[t].pos + 1 /\ c.expr = call[t].expr
          /\ c.hash = call[t].hash /\ c.found = f /\ c.todo = call[t].todo
      <3>1. call[t] \in Calls /\ call[t].pos + 1 \in Nat
        BY CallsAre DEF IInv
      <3> QED
        BY <1>0, <2>2, <3>1 DEF Calls
    <2> HIDE DEF c
    <2>5. call'[t] = c
      BY <2>1, <2>4, CallsSet DEF IInv
    <2>6. CallInv(t)'
      <3>1. CallInv(t)
        BY DEF IInv
      <3>2. PICK e \in Expression : e = call[t].expr /\ call[t].hash = HashOf(e)
        BY <1>0, <3>1 DEF CallInv
      <3>3. call'[t].hash = HashOf(call[t].expr)'
        BY <1>0, <2>4, <2>5, <3>2 DEF HashOf
      <3>4. Inside(t)' <=> Inside(t)
        BY <1>0, <2>4, <2>5 DEF Inside
      <3>5. Bucket(t)' = Bucket(t) /\ call[t].pos \in 1..Len(Bucket(t)) + 1 /\ Len(Bucket(t)) \in Nat
        BY <1>0, <2>1, <2>4, <2>5, BucketIs DEF Bucket
      <3>6. call[t].pos + 1 \in 1..Len(Bucket(t)) + 1
        BY <1>0, <3>5
      <3>7. ASSUME f = NoNode, NEW i \in 1..call[t].pos, Bucket(t)[i] \in alive
            PROVE  node[Bucket(t)[i]] # call[t].expr
        <4>1. CASE i = call[t].pos
          BY <2>2, <2>3, <3>7, <4>1
        <4>2. CASE i # call[t].pos
          <5>1. i \in 1..call[t].pos - 1
            BY <3>5, <4>2
          <5> QED
            BY <1>0, <2>3, <3>1, <3>7, <5>1 DEF CallInv
        <4> QED
          BY <4>1, <4>2
      <3>8. 1..(call[t].pos + 1) - 1 = 1..call[t].pos
        BY <3>5
      <3> QED
        BY <1>0, <2>1, <2>4, <2>5, <3>1, <3>2, <3>3, <3>4, <3>5, <3>6, <3>7, <3>8 DEF CallInv
    <2>7. held' \in [Threads -> SUBSET Nodes] /\ held'[t] \subseteq alive
      BY <1>0 DEF IInv, TypeInv, HeapInv
    <2> QED
      BY <1>0, <2>1, <2>2, <2>4, <2>6, <2>7, Moves
  <1> QED
    BY <1>1, <1>2

LEMMA LeaveStep ==
  ASSUME IInv, NEW t \in Threads, Inside(t), owner' = NoThread,
         call' = [call EXCEPT ![t] = NoCall],
         UNCHANGED <<node, hash, alive, dying, buckets, sinceSweep>>,
         \/ held' = held
         \/ call[t].found # NoNode /\ held' = [held EXCEPT ![t] = held[t] \cup {call[t].found}]
  PROVE  IInv'
  <1>1. owner = t /\ t # NoThread
    BY DEF IInv, CallInv
  <1>2. call[t].found \in alive \cup {NoNode} /\ held[t] \subseteq alive /\ alive \subseteq Nodes
        /\ held \in [Threads -> SUBSET Nodes]
    BY DEF IInv, HeapInv, TypeInv
  <1>3. /\ held' \in [Threads -> SUBSET Nodes] /\ held'[t] \subseteq alive
        /\ \A u \in Threads : u # t => held'[u] = held[u]
    BY <1>2
  <1>4. call'[t] = NoCall
    BY CallsSet, NoCallIs DEF IInv
  <1>5. CallInv(t)'
    <2>1. ~Inside(t)'
      BY <1>4, NoCallIs DEF Inside
    <2> QED
      BY <1>1, <1>4, <2>1, NoCallIs DEF CallInv
  <1> QED
    BY <1>1, <1>3, <1>5, NoCallIs, Moves

LEMMA SweepBucketStep ==
  ASSUME IInv, NEW t \in Threads, NEW h \in call[t].todo, SweepBucket(t, h)
  PROVE  IInv'
  <1> DEFINE c == [call[t] EXCEPT !.step = "erase", !.hash = h, !.pos = 1,
                                  !.todo = call[t].todo \ {h}]
  <1>1. /\ call[t].step = "sweep" /\ call' = [call EXCEPT ![t] = c]
        /\ UNCHANGED <<node, hash, alive, dying, buckets, sinceSweep, owner, held>>
    BY DEF SweepBucket
  <1>2. CallInv(t) /\ h \in DOMAIN buckets /\ h \in Hashes
    BY DEF IInv, CallInv, TypeInv
  <1>3. /\ c \in Calls /\ c.step = "erase" /\ c.pos = 1 /\ c.expr = call[t].expr
        /\ c.hash = h /\ c.found = call[t].found /\ c.todo = call[t].todo \ {h}
    BY <1>2, CallsAre DEF Calls, Step, IInv
  <1> HIDE DEF c
  <1>4. call'[t] = c
    BY <1>1, <1>3, CallsSet DEF IInv
  <1>5. CallInv(t)'
    <2>1. Inside(t)' <=> Inside(t)
      BY <1>1, <1>3, <1>4 DEF Inside
    <2>2. Bucket(t)' = buckets[h] /\ Len(buckets[h]) \in Nat
      BY <1>1, <1>2, <1>3, <1>4, BucketsAre DEF Bucket, IInv
    <2> QED
      BY <1>1, <1>2, <1>3, <1>4, <2>1, <2>2 DEF CallInv
  <1>6. held' \in [Threads -> SUBSET Nodes] /\ held'[t] \subseteq alive /\ c.found \in alive \cup {NoNode}
    BY <1>1, <1>3 DEF IInv, TypeInv, HeapInv
  <1> QED
    BY <1>1, <1>3, <1>5, <1>6, Moves

LEMMA EraseSlotStep ==
  ASSUME IInv, NEW t \in Threads, EraseSlot(t)
  PROVE  IInv'
  <1>0. /\ call[t].step = "erase" /\ call[t].pos <= Len(Bucket(t))
        /\ UNCHANGED <<node, hash, alive, dying, sinceSweep, owner, held>>
    BY DEF EraseSlot
  <1>1. CASE SlotNode(t) \notin alive
    BY <1>0, <1>1, PrunedTable DEF EraseSlot
  <1>2. CASE SlotNode(t) \in alive
    <2> DEFINE c == [call[t] EXCEPT !.pos = call[t].pos + 1]
    <2>1. call' = [call EXCEPT ![t] = c] /\ buckets' = buckets
      BY <1>2 DEF EraseSlot
    <2>2. /\ c \in Calls /\ c.step = "erase" /\ c.pos = call[t].pos + 1 /\ c.expr = call[t].expr
          /\ c.hash = call[t].hash /\ c.found = call[t].found /\ c.todo = call[t].todo
      BY <1>0, CallsAre DEF Calls, IInv
    <2> HIDE DEF c
    <2>3. call'[t] = c
      BY <2>1, <2>2, CallsSet DEF IInv
    <2>4. CallInv(t)'
      <3>1. CallInv(t)
        BY DEF IInv
      <3>2. Inside(t)' <=> Inside(t)
        BY <1>0, <2>2, <2>3 DEF Inside
      <3>3. Bucket(t)' = Bucket(t) /\ call[t].pos \in 1..Len(Bucket(t)) + 1 /\ Len(Bucket(t)) \in Nat
        BY <1>0, <2>1, <2>2, <2>3, BucketIs DEF Bucket
      <3>4. call[t].pos + 1 \in 1..Len(Bucket(t)) + 1
        BY <1>0, <3>3
      <3> QED
        BY <1>0, <2>1, <2>2, <2>3, <3>1, <3>2, <3>3, <3>4 DEF CallInv
    <2>5. held' \in [Threads -> SUBSET Nodes] /\ held'[t] \subseteq alive
          /\ c.found \in alive \cup {NoNode}
      BY <1>0, <2>2 DEF IInv, TypeInv, HeapInv
    <2> QED
      BY <1>0, <2>1, <2>2, <2>4, <2>5, Moves
  <1> QED
    BY <1>1, <1>2

(* Nothing found: no live node is this expression, so the one made is no twin.*)
LEMMA NoTwin ==
  ASSUME IInv, NEW t \in Threads, Scanned(t), call[t].found = NoNode, NEW m \in alive
  PROVE  node[m] # call[t].expr
  <1> SUFFICES ASSUME node[m] = call[t].expr PROVE FALSE
    OBVIOUS
  <1>1. CallInv(t) /\ call[t].step = "scan" /\ call[t].pos > Len(Bucket(t))
    BY DEF IInv, Scanned
  <1>2. hash[m] = HashOf(node[m]) /\ HasSlot(m)
    BY DEF IInv, HeapInv, TableInv
  <1>3. hash[m] = call[t].hash
    BY <1>1, <1>2 DEF CallInv
  <1>4. PICK i \in 1..Len(Bucket(t)) : Bucket(t)[i] = m
    BY <1>2, <1>3 DEF HasSlot, Bucket
  <1>5. i \in 1..call[t].pos - 1
    BY <1>1, <1>4, BucketIs
  <1> QED
    BY <1>1, <1>4, <1>5 DEF CallInv

LEMMA CreateStep ==
  ASSUME IInv, NEW t \in Threads, Create(t)
  PROVE  IInv'
  <1> DEFINE h == call[t].hash
             sweeps == sinceSweep + 1 >= SweepInterval
             c == IF sweeps THEN [call[t] EXCEPT !.found = Fresh, !.step = "sweep",
                                                 !.todo = DOMAIN buckets]
                            ELSE [call[t] EXCEPT !.found = Fresh, !.step = "return"]
  <1>1. PICK n \in Nodes, e \in Expression :
           /\ n = Fresh /\ e = call[t].expr /\ h = HashOf(e) /\ h \in Hashes
           /\ Range(e.args) \subseteq alive
           /\ n \notin alive /\ n \notin dying /\ n # NoNode
           /\ \A g \in DOMAIN buckets : \A i \in 1..Len(buckets[g]) : buckets[g][i] # n
    <2>1. CallInv(t) /\ call[t].step = "scan" /\ Unused # {} /\ held[t] \subseteq alive
      BY DEF IInv, Create, Scanned, HeapInv
    <2> QED
      BY <2>1, FreshIs DEF IInv, CallInv
  <1>2. /\ call[t].step = "scan" /\ Scanned(t) /\ call[t].found = NoNode /\ owner = t
        /\ h \in DOMAIN buckets /\ buckets[h] \in Seq(Nodes) /\ Len(buckets[h]) \in Nat
        /\ call[t].todo = {}
    BY BucketIs DEF Create, Scanned, Bucket, IInv, CallInv
  <1>3. /\ node' = [node EXCEPT ![n] = e] /\ hash' = [hash EXCEPT ![n] = h]
        /\ alive' = alive \cup {n} /\ buckets' = [buckets EXCEPT ![h] = Append(buckets[h], n)]
        /\ UNCHANGED <<dying, owner, held>>
        /\ sinceSweep' = IF sweeps THEN 0 ELSE sinceSweep + 1
    BY <1>1 DEF Create
  <1>4. call' = [call EXCEPT ![t] = c]
    <2>1. CASE sweeps
      BY <2>1 DEF Create
    <2>2. CASE ~sweeps
      BY <2>2 DEF Create
    <2> QED
      BY <2>1, <2>2
  <1>5. /\ c \in Calls /\ c.step \in {"sweep", "return"} /\ c.found = n
        /\ c.todo \subseteq DOMAIN buckets /\ (c.step = "return" => c.todo = {})
    <2>1. call[t] \in Calls /\ Fresh \in Nodes /\ DOMAIN buckets \subseteq Hashes
      BY <1>1, CallsAre DEF IInv, TypeInv
    <2>2. CASE sweeps
      BY <1>1, <2>1, <2>2 DEF Calls, Step
    <2>3. CASE ~sweeps
      BY <1>1, <1>2, <2>1, <2>3 DEF Calls, Step
    <2> QED
      BY <2>2, <2>3
  <1> HIDE DEF c
  <1>6. /\ call' \in [Threads -> Calls] /\ call'[t] = c
        /\ \A u \in Threads : u # t => call'[u] = call[u]
    BY <1>4, <1>5, CallsSet DEF IInv
  <1>7. sinceSweep' \in 0..SweepInterval-1
    BY <1>3, SweepAssumption DEF IInv, TypeInv
  <1> HIDE DEF h, sweeps
  <1>8. /\ node' \in [Nodes -> Expression \cup {NoExpression}]
        /\ hash' \in [Nodes -> Hashes \cup {NoHash}]
        /\ node'[n] = e /\ hash'[n] = h
        /\ \A m \in alive \cup dying : node'[m] = node[m] /\ hash'[m] = hash[m]
    BY <1>1, <1>3 DEF IInv, TypeInv
  <1>9. /\ DOMAIN buckets' = DOMAIN buckets /\ buckets' \in [DOMAIN buckets -> Seq(Nodes)]
        /\ \A g \in DOMAIN buckets \ {h} : buckets'[g] = buckets[g]
        /\ Len(buckets'[h]) = Len(buckets[h]) + 1
        /\ \A i \in 1..Len(buckets[h]) : buckets'[h][i] = buckets[h][i]
        /\ buckets'[h][Len(buckets[h]) + 1] = n
    <2>1. /\ Append(buckets[h], n) \in Seq(Nodes)
          /\ Len(Append(buckets[h], n)) = Len(buckets[h]) + 1
          /\ \A i \in 1..Len(buckets[h]) : Append(buckets[h], n)[i] = buckets[h][i]
          /\ Append(buckets[h], n)[Len(buckets[h]) + 1] = n
      BY <1>1, <1>2, AppendProperties
    <2>2. buckets \in [DOMAIN buckets -> Seq(Nodes)]
      BY DEF IInv, TypeInv
    <2>3. buckets'[h] = Append(buckets[h], n)
      BY <1>2, <1>3, <2>2
    <2>4. /\ DOMAIN buckets' = DOMAIN buckets /\ buckets' \in [DOMAIN buckets -> Seq(Nodes)]
          /\ \A g \in DOMAIN buckets \ {h} : buckets'[g] = buckets[g]
      BY <1>2, <1>3, <2>1, <2>2
    <2> QED
      BY <2>1, <2>3, <2>4
  <1>10. TypeInv'
    BY <1>1, <1>3, <1>6, <1>7, <1>8, <1>9 DEF IInv, TypeInv
  <1>11. HeapInv'
    <2>1. \A m \in alive : /\ node[m] \in Expression /\ hash[m] = HashOf(node[m])
                           /\ hash[m] \in Hashes /\ Range(node[m].args) \subseteq alive
      BY DEF IInv, HeapInv, ChildrenAlive
    <2>2. HashOf(e)' = h
      BY <1>1, <1>8, HashOfKept DEF IInv
    <2>3. ASSUME NEW m \in alive'
          PROVE  node'[m] \in Expression /\ hash'[m] = HashOf(node[m])' /\ hash'[m] \in Hashes
      <3>1. CASE m = n
        BY <1>1, <1>8, <2>2, <3>1 DEF HashOf
      <3>2. CASE m # n
        <4>1. m \in alive
          BY <1>3, <2>3, <3>2
        <4>2. PICK f \in Expression : f = node[m]
          BY <2>1, <4>1
        <4>3. HashOf(f)' = HashOf(f)
          BY <1>8, <2>1, <4>1, <4>2, HashOfKept DEF IInv
        <4>4. node'[m] = f /\ hash'[m] = HashOf(f)
          BY <1>8, <2>1, <4>1, <4>2
        <4> QED
          BY <1>8, <2>1, <4>1, <4>3, <4>4 DEF HashOf
      <3> QED
        BY <3>1, <3>2
    <2>4. ChildrenAlive'
      <3> SUFFICES ASSUME NEW m \in alive' \cup dying' PROVE Range(node'[m].args) \subseteq alive'
        BY DEF ChildrenAlive
      <3>1. CASE m = n
        BY <1>1, <1>3, <1>8, <3>1
      <3>2. CASE m # n
        BY <1>3, <1>8, <3>2 DEF IInv, HeapInv, ChildrenAlive
      <3> QED
        BY <3>1, <3>2
    <2>5. \A u \in Threads : held'[u] \subseteq alive' /\ call'[u].found \in alive' \cup {NoNode}
      BY <1>3, <1>5, <1>6 DEF IInv, HeapInv
    <2>6. alive' \cap dying' = {}
      BY <1>1, <1>3 DEF IInv, HeapInv
    <2> QED
      BY <2>3, <2>4, <2>5, <2>6 DEF HeapInv
  <1>12. OneSlot'
    <2> SUFFICES ASSUME NEW f \in DOMAIN buckets, NEW g \in DOMAIN buckets,
                        NEW i \in 1..Len(buckets'[f]), NEW j \in 1..Len(buckets'[g]),
                        buckets'[f][i] = buckets'[g][j]
                 PROVE  f = g /\ i = j
      BY <1>9 DEF OneSlot
    <2>1. \A d \in DOMAIN buckets : \A k \in 1..Len(buckets'[d]) :
             \/ k \in 1..Len(buckets[d]) /\ buckets'[d][k] = buckets[d][k]
             \/ d = h /\ k = Len(buckets[h]) + 1 /\ buckets'[d][k] = n
      BY <1>2, <1>9
    <2>2. /\ \/ i \in 1..Len(buckets[f]) /\ buckets'[f][i] = buckets[f][i]
             \/ f = h /\ i = Len(buckets[h]) + 1 /\ buckets'[f][i] = n
          /\ \/ j \in 1..Len(buckets[g]) /\ buckets'[g][j] = buckets[g][j]
             \/ g = h /\ j = Len(buckets[h]) + 1 /\ buckets'[g][j] = n
      BY <2>1
    <2>3. /\ i \in 1..Len(buckets[f]) => buckets[f][i] # n
          /\ j \in 1..Len(buckets[g]) => buckets[g][j] # n
      BY <1>1
    <2>4. CASE buckets'[f][i] = n
      BY <2>2, <2>3, <2>4
    <2>5. CASE buckets'[f][i] # n
      <3>1. /\ i \in 1..Len(buckets[f]) /\ buckets'[f][i] = buckets[f][i]
            /\ j \in 1..Len(buckets[g]) /\ buckets'[g][j] = buckets[g][j]
        BY <2>2, <2>5
      <3>2. buckets[f][i] = buckets[g][j]
        BY <3>1
      <3> QED
        BY <3>1, <3>2 DEF IInv, TableInv, OneSlot
    <2> QED
      BY <2>4, <2>5
  <1>13. \A m \in alive' : HasSlot(m)'
    <2> SUFFICES ASSUME NEW m \in alive' PROVE HasSlot(m)'
      OBVIOUS
    <2>1. CASE m = n
      <3>1. hash'[m] = h /\ h \in DOMAIN buckets'
        BY <1>2, <1>8, <1>9, <2>1
      <3>2. Len(buckets[h]) + 1 \in 1..Len(buckets'[h])
        BY <1>2, <1>9
      <3> QED
        BY <1>9, <2>1, <3>1, <3>2 DEF HasSlot
    <2>2. CASE m # n
      <3>1. m \in alive /\ hash'[m] = hash[m]
        BY <1>3, <1>8, <2>2
      <3>2. PICK i \in 1..Len(buckets[hash[m]]) : buckets[hash[m]][i] = m
        BY <3>1 DEF IInv, TableInv, HasSlot
      <3>3. hash[m] \in DOMAIN buckets
        BY <3>1 DEF IInv, TableInv, HasSlot
      <3>4. i \in 1..Len(buckets'[hash[m]]) /\ buckets'[hash[m]][i] = m
        <4>1. CASE hash[m] = h
          BY <1>2, <1>9, <3>2, <4>1
        <4>2. CASE hash[m] # h
          BY <1>9, <3>2, <3>3, <4>2
        <4> QED
          BY <4>1, <4>2
      <3> QED
        BY <1>9, <3>1, <3>3, <3>4 DEF HasSlot
    <2> QED
      BY <2>1, <2>2
  <1>14. UniqueLive'
    <2>1. \A m \in alive : node[m] # e
      BY <1>1, <1>2, NoTwin
    <2> QED
      BY <1>3, <1>8, <2>1 DEF IInv, UniqueLive
  <1>15. CallInv(t)'
    <2>1. Inside(t)' /\ owner' = t
      BY <1>2, <1>3, <1>5, <1>6 DEF Inside
    <2> QED
      BY <1>1, <1>5, <1>6, <1>9, <2>1 DEF CallInv
  <1>16. \A u \in Threads : u # t => CallInv(u)'
    BY <1>2, <1>3, <1>6, <1>8, OutsideCall
  <1> QED
    BY <1>10, <1>11, <1>12, <1>13, <1>14, <1>15, <1>16 DEF IInv, TableInv

LEMMA ErasedStep ==
  ASSUME IInv, NEW t \in Threads, Erased(t)
  PROVE  IInv'
  <1> DEFINE h == call[t].hash
             c == [call[t] EXCEPT !.step = "sweep"]
  <1>1. /\ call[t].step = "erase" /\ call' = [call EXCEPT ![t] = c]
        /\ buckets' = IF buckets[h] = <<>> THEN Restrict(buckets, DOMAIN buckets \ {h}) ELSE buckets
        /\ UNCHANGED <<node, hash, alive, dying, sinceSweep, owner, held>>
    BY DEF Erased, Bucket
  <1>2. /\ CallInv(t) /\ owner = t /\ h \in DOMAIN buckets /\ h \notin call[t].todo
        /\ call[t].todo \subseteq DOMAIN buckets /\ call[t].found # NoNode
    BY <1>1 DEF IInv, CallInv, Inside
  <1>3. /\ c \in Calls /\ c.step = "sweep" /\ c.found = call[t].found /\ c.todo = call[t].todo
    BY CallsAre DEF Calls, Step, IInv
  <1> HIDE DEF c
  <1>4. /\ call' \in [Threads -> Calls] /\ call'[t] = c
        /\ \A u \in Threads : u # t => call'[u] = call[u]
    BY <1>1, <1>3, CallsSet DEF IInv
  <1>5. /\ DOMAIN buckets' \subseteq DOMAIN buckets /\ buckets' \in [DOMAIN buckets' -> Seq(Nodes)]
        /\ \A g \in DOMAIN buckets' : buckets'[g] = buckets[g]
        /\ \A g \in DOMAIN buckets \ DOMAIN buckets' : g = h /\ Len(buckets[g]) = 0
    <2>1. buckets \in [DOMAIN buckets -> Seq(Nodes)]
      BY DEF IInv, TypeInv
    <2>2. CASE buckets[h] = <<>>
      BY <1>1, <2>1, <2>2, EmptySeq DEF Restrict
    <2>3. CASE buckets[h] # <<>>
      BY <1>1, <2>1, <2>3
    <2> QED
      BY <2>2, <2>3
  <1> HIDE DEF h
  <1>6. TypeInv'
    BY <1>1, <1>4, <1>5 DEF IInv, TypeInv
  <1>7. \A u \in Threads : held'[u] \subseteq alive /\ call'[u].found \in alive \cup {NoNode}
    BY <1>1, <1>3, <1>4 DEF IInv, HeapInv
  <1>8. HeapInv' /\ UniqueLive'
    BY <1>1, <1>7, SameHeap
  <1>9. TableInv'
    <2>1. OneSlot'
      BY <1>5 DEF IInv, TableInv, OneSlot
    <2>2. ASSUME NEW m \in alive' PROVE HasSlot(m)'
      <3>1. PICK i \in 1..Len(buckets[hash[m]]) : buckets[hash[m]][i] = m
        BY <1>1 DEF IInv, TableInv, HasSlot
      <3>2. hash[m] \in DOMAIN buckets
        BY <1>1 DEF IInv, TableInv, HasSlot
      <3>3. hash[m] \in DOMAIN buckets'
        BY <1>5, <3>1, <3>2
      <3> QED
        BY <1>1, <1>5, <3>1, <3>3 DEF HasSlot
    <2> QED
      BY <2>1, <2>2 DEF TableInv
  <1>10. CallInv(t)'
    <2>1. Inside(t)' /\ owner' = t
      BY <1>1, <1>2, <1>3, <1>4 DEF Inside
    <2>2. call[t].todo \subseteq DOMAIN buckets'
      BY <1>2, <1>5
    <2> QED
      BY <1>2, <1>3, <1>4, <2>1, <2>2 DEF CallInv
  <1>11. \A u \in Threads : u # t => CallInv(u)'
    BY <1>1, <1>2, <1>4, OutsideCall
  <1> QED
    BY <1>6, <1>8, <1>9, <1>10, <1>11 DEF IInv

(* ---- the invariant ----------------------------------------------------- *)
LEMMA InitOK == Init => IInv
  <1> SUFFICES ASSUME Init PROVE IInv
    OBVIOUS
  <1>1. DOMAIN buckets = {} /\ buckets \in [DOMAIN buckets -> Seq(Nodes)]
    BY EmptySeq DEF Init
  <1>2. sinceSweep \in 0..SweepInterval-1
    BY SweepAssumption DEF Init
  <1>3. TypeInv
    BY <1>1, <1>2, NoCallIs DEF Init, TypeInv
  <1>4. HeapInv
    BY NoCallIs DEF Init, HeapInv, ChildrenAlive
  <1>5. TableInv /\ UniqueLive
    BY <1>1 DEF Init, TableInv, OneSlot, UniqueLive
  <1>6. \A t \in Threads : CallInv(t)
    BY NoCallIs DEF Init, CallInv, Inside
  <1> QED
    BY <1>3, <1>4, <1>5, <1>6 DEF IInv

LEMMA SameStep == IInv /\ UNCHANGED vars => IInv'
  <1> SUFFICES ASSUME IInv, UNCHANGED vars PROVE IInv'
    OBVIOUS
  <1>1. UNCHANGED <<node, hash, alive, dying, buckets, sinceSweep, owner, held, call>>
    BY DEF vars
  <1>2. TypeInv'
    BY <1>1 DEF IInv, TypeInv
  <1>3. HeapInv' /\ UniqueLive' /\ TableInv'
    BY <1>1, SameHeap DEF IInv, HeapInv
  <1>4. \A u \in Threads : CallInv(u)'
    BY <1>1, InsideCall
  <1> QED
    BY <1>2, <1>3, <1>4 DEF IInv

LEMMA StepOK == IInv /\ [Next]_vars => IInv'
  <1> SUFFICES ASSUME IInv, Next PROVE IInv'
    BY SameStep
  <1>1. ASSUME NEW n \in dying, Destroy(n) PROVE IInv'
    BY <1>1, DestroyStep
  <1>2. ASSUME NEW t \in Threads, NEW n \in held[t], Drop(t, n) PROVE IInv'
    BY <1>2, DropStep
  <1>3. ASSUME NEW t \in Threads, NEW l \in Labels, NEW args \in [1..Arity[l] -> held[t]],
               Call(t, l, args)
        PROVE  IInv'
    BY <1>3, CallStep
  <1>4. ASSUME NEW t \in Threads, NEW h \in call[t].todo, SweepBucket(t, h) PROVE IInv'
    BY <1>4, SweepBucketStep
  <1>5. ASSUME NEW t \in Threads, ReturnFound(t) \/ ReturnCreated(t) \/ SweepEnds(t) PROVE IInv'
    <2>1. Inside(t) /\ Return(t) /\ UNCHANGED <<node, hash, alive, dying, buckets, sinceSweep>>
      BY <1>5 DEF ReturnFound, ReturnCreated, SweepEnds, Scanned, Inside
    <2>2. call[t].found # NoNode
      BY <1>5 DEF ReturnFound, ReturnCreated, SweepEnds, IInv, CallInv
    <2> QED
      BY <2>1, <2>2, LeaveStep DEF Return
  <1>6. ASSUME NEW t \in Threads, AllocationFails(t) PROVE IInv'
    BY <1>6, LeaveStep DEF AllocationFails, Scanned, Inside
  <1>7. ASSUME NEW t \in Threads, Lock(t) \/ ScanSlot(t) \/ Create(t) \/ EraseSlot(t) \/ Erased(t)
        PROVE  IInv'
    BY <1>7, LockStep, ScanSlotStep, CreateStep, EraseSlotStep, ErasedStep
  <1> QED
    BY <1>1, <1>2, <1>3, <1>4, <1>5, <1>6, <1>7 DEF Next

(* The inductive invariant holds in every reachable state.                    *)
THEOREM InvCorrect == Spec => []IInv
  BY InitOK, StepOK, PTL DEF Spec

(* Types: the handles a thread has and the node its call found are alive, and *)
(* a sweep only visits buckets that are in the table.                         *)
THEOREM TypeCorrect == Spec => []TypeOK
  <1>1. IInv => TypeOK
    <2> SUFFICES ASSUME IInv PROVE TypeOK
      OBVIOUS
    <2>1. held \in [Threads -> SUBSET alive]
      BY DEF IInv, TypeInv, HeapInv
    <2>2. ASSUME NEW t \in Threads
          PROVE  /\ call[t].step \in Step /\ call[t].pos \in Nat
                 /\ call[t].expr \in Expression \cup {NoExpression}
                 /\ call[t].hash \in Hashes \cup {NoHash}
                 /\ call[t].found \in alive \cup {NoNode}
                 /\ call[t].todo \subseteq DOMAIN buckets
      <3>1. CallInv(t) /\ call[t].found \in alive \cup {NoNode}
        BY DEF IInv, HeapInv
      <3> QED
        BY <3>1, CallsAre DEF IInv, CallInv
    <2>3. \A h \in DOMAIN buckets : buckets[h] \in Seq(Nodes)
      BY BucketsAre DEF IInv
    <2> QED
      BY <2>1, <2>2, <2>3 DEF IInv, TypeInv, TypeOK
  <1> QED
    BY <1>1, InvCorrect, PTL

(* The table and the live nodes are one to one at every step, also in the     *)
(* middle of a scan or a sweep and while other threads drop handles.          *)
THEOREM SlotsCorrect == Spec => []OneSlotEach
  <1>1. IInv => OneSlotEach
    <2> SUFFICES ASSUME IInv, NEW n \in alive
                 PROVE  /\ hash[n] \in DOMAIN buckets
                        /\ Cardinality({i \in DOMAIN buckets[hash[n]] : buckets[hash[n]][i] = n}) = 1
                        /\ \A h \in DOMAIN buckets \ {hash[n]} : n \notin Range(buckets[h])
      BY DEF IInv, OneSlotEach, LiveHasOneSlot
    <2> DEFINE s == buckets[hash[n]]
    <2>1. HasSlot(n) /\ OneSlot
      BY DEF IInv, TableInv
    <2>2. PICK i \in 1..Len(s) : s[i] = n
      BY <2>1 DEF HasSlot
    <2>3. hash[n] \in DOMAIN buckets /\ DOMAIN s = 1..Len(s)
      BY <2>1, BucketsAre, LenProperties DEF IInv, HasSlot
    <2>4. {j \in DOMAIN s : s[j] = n} = {i}
      BY <2>1, <2>2, <2>3 DEF OneSlot
    <2>5. Cardinality({j \in DOMAIN s : s[j] = n}) = 1
      BY <2>4, FS_Singleton
    <2>6. ASSUME NEW h \in DOMAIN buckets \ {hash[n]}, n \in Range(buckets[h]) PROVE FALSE
      <3>1. PICK j \in 1..Len(buckets[h]) : buckets[h][j] = n
        BY <2>6, BucketsAre, RangeEquality DEF IInv
      <3> QED
        BY <2>1, <2>2, <2>3, <3>1 DEF OneSlot
    <2> QED
      BY <2>3, <2>5, <2>6
  <1> QED
    BY <1>1, InvCorrect, PTL

(* A child pointer in a node that is alive, or whose destructor has not run   *)
(* yet, never dangles, whatever threads drop and intern at the same time.     *)
THEOREM ChildrenCorrect == Spec => []ChildrenAlive
  BY InvCorrect, PTL DEF IInv, HeapInv

(* ---- the size of the table --------------------------------------------- *)
(* What the sweep has still to visit, and the nodes that account for the      *)
(* slots it has visited: those alive when it began and those made since.      *)
Sweeping == owner \in Threads /\ call[owner].step \in {"sweep", "erase"}
AtHand(h) == call[owner].step = "erase" /\ call[owner].hash = h
Unswept(h, i) ==
  Sweeping /\ (h \in call[owner].todo \/ (AtHand(h) /\ i >= call[owner].pos))
Covers(L) ==
  /\ IsFiniteSet(L) /\ Cardinality(L) <= reachable + sinceSweep
  /\ Sweeping => alive \subseteq L
  /\ \A h \in DOMAIN buckets : \A i \in 1..Len(buckets[h]) :
       buckets[h][i] \in L \/ Unswept(h, i)

(* An empty bucket is being filled or swept, unless an allocation failed.     *)
Scanning(h) == owner \in Threads /\ call[owner].step = "scan" /\ call[owner].hash = h
EmptyBuckets ==
  \A h \in DOMAIN buckets : Len(buckets[h]) = 0 =>
    IF Sweeping THEN h \in call[owner].todo \/ AtHand(h) ELSE failed \/ Scanning(h)

(* The node a scan has found hangs in the bucket it scans.                    *)
FoundInBucket ==
  owner \in Threads /\ call[owner].step = "scan" /\ call[owner].found # NoNode =>
    hash[call[owner].found] = call[owner].hash

SizeInv ==
  /\ reachable \in Nat /\ IsFiniteSet(alive)
  /\ \E L : Covers(L)
  /\ EmptyBuckets /\ FoundInBucket

LEMMA OwnerIs ==
  ASSUME IInv, NEW t \in Threads, Inside(t)
  PROVE  owner = t /\ owner \in Threads
  BY DEF IInv, CallInv

(* A step outside the mutex.                                                  *)
LEMMA OutsideStep ==
  ASSUME IInv, SizeInv, UNCHANGED <<buckets, owner, sinceSweep, reachable, failed>>,
         owner \in Threads => call'[owner] = call[owner],
         alive' \subseteq alive, \A n \in alive : hash'[n] = hash[n]
  PROVE  SizeInv'
  <1>1. PICK L : Covers(L)
    BY DEF SizeInv
  <1>2. Sweeping' <=> Sweeping
    BY DEF Sweeping
  <1>3. \A h, i : Unswept(h, i)' <=> Unswept(h, i)
    BY DEF Unswept, Sweeping, AtHand
  <1>4. Covers(L)'
    BY <1>1, <1>2, <1>3 DEF Covers
  <1>5. EmptyBuckets'
    BY DEF SizeInv, EmptyBuckets, Sweeping, AtHand, Scanning
  <1>6. FoundInBucket'
    BY DEF SizeInv, FoundInBucket, IInv, HeapInv
  <1>7. reachable' \in Nat /\ IsFiniteSet(alive')
    BY FS_Subset DEF SizeInv
  <1> QED
    BY <1>4, <1>5, <1>6, <1>7 DEF SizeInv

LEMMA LockSize ==
  ASSUME IInv, SizeInv, NEW t \in Threads, Lock(t)
  PROVE  SizeInv'
  <1> DEFINE h == call[t].hash
  <1>1. /\ owner = NoThread /\ owner' = t
        /\ buckets' = [g \in DOMAIN buckets \cup {h} |->
                          IF g \in DOMAIN buckets THEN buckets[g] ELSE <<>>]
        /\ call'[t].step = "scan" /\ call'[t].hash = h /\ call'[t].found = call[t].found
        /\ UNCHANGED <<hash, alive, sinceSweep, reachable, failed>>
    <2> DEFINE c == [call[t] EXCEPT !.step = "scan", !.pos = 1]
    <2>1. call' = [call EXCEPT ![t] = c]
      BY DEF Lock
    <2>2. c.step = "scan" /\ c.hash = h /\ c.found = call[t].found
      BY CallsAre DEF Calls, IInv
    <2> HIDE DEF c
    <2>3. call'[t] = c
      BY <2>1 DEF IInv, TypeInv
    <2> QED
      BY <2>2, <2>3 DEF Lock
  <1>2. call[t].found = NoNode
    BY DEF Lock, IInv, CallInv
  <1>3. PICK L : Covers(L)
    BY DEF SizeInv
  <1>4. ~Sweeping /\ ~Sweeping' /\ \A g, i : ~Unswept(g, i)
    BY <1>1 DEF Sweeping, Unswept
  <1> HIDE DEF h
  <1>5. Len(<<>>) = 0 /\ 1..0 = {}
    OBVIOUS
  <1>6. Covers(L)'
    <2>1. ASSUME NEW g \in DOMAIN buckets', NEW i \in 1..Len(buckets'[g])
          PROVE  buckets'[g][i] \in L
      <3>1. CASE g \in DOMAIN buckets
        BY <1>1, <1>3, <1>4, <2>1, <3>1 DEF Covers
      <3>2. CASE g \notin DOMAIN buckets
        BY <1>1, <1>5, <2>1, <3>2
      <3> QED
        BY <3>1, <3>2
    <2>2. IsFiniteSet(L) /\ Cardinality(L) <= reachable' + sinceSweep'
      BY <1>1, <1>3 DEF Covers
    <2> QED
      BY <1>4, <2>1, <2>2 DEF Covers
  <1>7. EmptyBuckets'
    <2>1. ASSUME NEW g \in DOMAIN buckets', Len(buckets'[g]) = 0
          PROVE  failed \/ Scanning(g)'
      <3>1. CASE g = h
        BY <1>1, <3>1 DEF Scanning
      <3>2. CASE g # h
        BY <1>1, <1>4, <2>1, <3>2 DEF SizeInv, EmptyBuckets, Scanning
      <3> QED
        BY <3>1, <3>2
    <2> QED
      BY <1>1, <1>4, <2>1 DEF EmptyBuckets
  <1>8. FoundInBucket'
    BY <1>1, <1>2 DEF FoundInBucket
  <1> QED
    BY <1>1, <1>6, <1>7, <1>8 DEF SizeInv

LEMMA PruneSize ==
  ASSUME IInv, SizeInv, NEW t \in Threads, call[t].step \in {"scan", "erase"},
         call[t].pos <= Len(Bucket(t)), PruneSlot(t),
         UNCHANGED <<hash, alive, sinceSweep, owner, call, reachable, failed>>
  PROVE  SizeInv'
  <1> DEFINE h == call[t].hash
             p == call[t].pos
  <1>1. /\ DOMAIN buckets' = DOMAIN buckets
        /\ h \in DOMAIN buckets /\ \A g \in DOMAIN buckets \ {h} : buckets'[g] = buckets[g]
        /\ Len(buckets[h]) \in Nat /\ Len(buckets'[h]) = Len(buckets[h]) - 1
        /\ p \in 1..Len(buckets[h])
        /\ \A j \in 1..Len(buckets[h]) - 1 :
               buckets'[h][j] = IF j < p THEN buckets[h][j] ELSE buckets[h][j + 1]
    BY Pruned
  <1>2. owner = t /\ owner \in Threads
    BY OwnerIs DEF Inside
  <1>3. PICK L : Covers(L)
    BY DEF SizeInv
  <1>4. Sweeping' <=> Sweeping
    BY DEF Sweeping
  <1>5. \A g, i : Unswept(g, i)' <=> Unswept(g, i)
    BY DEF Unswept, Sweeping, AtHand
  <1>6. call[t].step = "erase" => h \notin call[t].todo
    BY DEF IInv, CallInv
  <1>7. call[t].step = "scan" => ~Sweeping
    BY <1>2 DEF Sweeping
  <1>8. \A i \in Nat : Unswept(h, i) <=> call[t].step = "erase" /\ i >= p
    BY <1>2, <1>6, <1>7 DEF Unswept, Sweeping, AtHand
  <1> HIDE DEF h, p
  <1>9. ASSUME NEW i \in 1..Len(buckets'[h])
        PROVE  buckets'[h][i] \in L \/ Unswept(h, i)
    <2>1. i \in Nat /\ i \in 1..Len(buckets[h]) /\ i + 1 \in 1..Len(buckets[h])
      BY <1>1
    <2>2. CASE i < p
      <3>1. buckets'[h][i] = buckets[h][i]
        BY <1>1, <2>2
      <3> QED
        BY <1>1, <1>3, <2>1, <3>1 DEF Covers
    <2>3. CASE ~(i < p)
      <3>1. buckets'[h][i] = buckets[h][i + 1] /\ p \in Nat
        BY <1>1, <2>3
      <3>2. buckets[h][i + 1] \in L \/ Unswept(h, i + 1)
        BY <1>1, <1>3, <2>1 DEF Covers
      <3>3. i + 1 \in Nat /\ i >= p
        BY <2>1, <2>3, <3>1
      <3> QED
        BY <1>8, <2>1, <3>1, <3>2, <3>3
    <2> QED
      BY <2>2, <2>3
  <1>10. Covers(L)'
    <2>1. ASSUME NEW g \in DOMAIN buckets', NEW i \in 1..Len(buckets'[g])
          PROVE  buckets'[g][i] \in L \/ Unswept(g, i)'
      <3>1. CASE g = h
        BY <1>5, <1>9, <2>1, <3>1
      <3>2. CASE g # h
        BY <1>1, <1>3, <1>5, <2>1, <3>2 DEF Covers
      <3> QED
        BY <3>1, <3>2
    <2> QED
      BY <1>3, <1>4, <2>1 DEF Covers
  <1>11. EmptyBuckets'
    <2>1. ASSUME NEW g \in DOMAIN buckets', Len(buckets'[g]) = 0
          PROVE  IF Sweeping THEN g \in call[owner].todo \/ AtHand(g) ELSE failed \/ Scanning(g)
      <3>1. CASE g = h
        BY <1>2, <3>1 DEF Sweeping, AtHand, Scanning, h
      <3>2. CASE g # h
        BY <1>1, <2>1, <3>2 DEF SizeInv, EmptyBuckets
      <3> QED
        BY <3>1, <3>2
    <2> QED
      BY <1>4, <2>1 DEF EmptyBuckets, AtHand, Scanning
  <1>12. FoundInBucket'
    BY DEF SizeInv, FoundInBucket
  <1> QED
    BY <1>10, <1>11, <1>12 DEF SizeInv

(* A step inside the mutex that leaves the table alone and is no sweep.       *)
LEMMA QuietSize ==
  ASSUME IInv, SizeInv, NEW t \in Threads, owner = t,
         call[t].step \notin {"sweep", "erase"}, call'[t].step \notin {"sweep", "erase"},
         owner' = owner \/ owner' = NoThread,
         UNCHANGED <<hash, alive, buckets, sinceSweep, reachable>>,
         FoundInBucket',
         \A h \in DOMAIN buckets : Len(buckets[h]) = 0 => failed' \/ Scanning(h)'
  PROVE  SizeInv'
  <1>1. PICK L : Covers(L)
    BY DEF SizeInv
  <1>2. ~Sweeping /\ ~Sweeping'
    BY DEF Sweeping
  <1>3. Covers(L)'
    BY <1>1, <1>2 DEF Covers, Unswept
  <1>4. EmptyBuckets'
    BY <1>2 DEF EmptyBuckets, Scanning
  <1> QED
    BY <1>3, <1>4 DEF SizeInv

LEMMA ScanSize ==
  ASSUME IInv, SizeInv, NEW t \in Threads, ScanSlot(t)
  PROVE  SizeInv'
  <1>0. /\ call[t].step = "scan" /\ call[t].pos <= Len(Bucket(t)) /\ owner = t
        /\ UNCHANGED <<node, hash, alive, sinceSweep, owner, reachable, failed>>
    BY OwnerIs DEF ScanSlot, Inside
  <1>1. CASE SlotNode(t) \notin alive
    BY <1>0, <1>1, PruneSize DEF ScanSlot
  <1>2. CASE SlotNode(t) \in alive
    <2> DEFINE s == SlotNode(t)
               f == IF call[t].found = NoNode /\ node[s] = call[t].expr THEN s ELSE call[t].found
               c == [call[t] EXCEPT !.pos = call[t].pos + 1, !.found = f]
    <2>1. call' = [call EXCEPT ![t] = c] /\ buckets' = buckets
      BY <1>2 DEF ScanSlot
    <2>2. s \in alive /\ hash[s] = HashOf(node[s])
      BY <1>2 DEF IInv, HeapInv
    <2>3. CallInv(t) /\ call[t].hash = HashOf(call[t].expr)
      BY <1>0 DEF IInv, CallInv
    <2>4. f # NoNode => hash[f] = call[t].hash
      BY <1>0, <2>2, <2>3 DEF SizeInv, FoundInBucket
    <2> HIDE DEF f, s
    <2>5. c.step = "scan" /\ c.hash = call[t].hash /\ c.found = f
      BY <1>0, CallsAre DEF Calls, IInv
    <2> HIDE DEF c
    <2>6. call'[t] = c
      BY <2>1 DEF IInv, TypeInv
    <2>7. FoundInBucket'
      BY <1>0, <2>4, <2>5, <2>6 DEF FoundInBucket
    <2>8. \A h \in DOMAIN buckets : Len(buckets[h]) = 0 => failed' \/ Scanning(h)'
      BY <1>0, <2>5, <2>6 DEF SizeInv, EmptyBuckets, Sweeping, Scanning
    <2> QED
      BY <1>0, <2>1, <2>5, <2>6, <2>7, <2>8, QuietSize
  <1> QED
    BY <1>1, <1>2

LEMMA ReturnSize ==
  ASSUME IInv, SizeInv, NEW t \in Threads, ReturnFound(t) \/ ReturnCreated(t) \/ AllocationFails(t)
  PROVE  SizeInv'
  <1>1. /\ call[t].step \in {"scan", "return"} /\ owner' = NoThread
        /\ call' = [call EXCEPT ![t] = NoCall]
        /\ UNCHANGED <<hash, alive, buckets, sinceSweep, reachable>>
    BY DEF ReturnFound, ReturnCreated, AllocationFails, Return, Scanned
  <1>2. owner = t /\ owner \in Threads
    BY <1>1, OwnerIs DEF Inside
  <1>3. call'[t].step = "idle"
    BY <1>1, NoCallIs DEF IInv, TypeInv
  <1>4. ASSUME NEW h \in DOMAIN buckets, Len(buckets[h]) = 0
        PROVE  failed'
    <2>1. failed \/ Scanning(h)
      BY <1>1, <1>2, <1>4 DEF SizeInv, EmptyBuckets, Sweeping
    <2>2. CASE AllocationFails(t)
      BY <2>2 DEF AllocationFails
    <2>3. CASE ReturnCreated(t)
      BY <1>2, <2>1, <2>3 DEF ReturnCreated, Scanning
    <2>4. CASE ReturnFound(t)
      <3>1. /\ call[t].found # NoNode /\ call[t].step = "scan" /\ failed' = failed
        BY <2>4 DEF ReturnFound, Scanned
      <3>2. hash[call[t].found] = call[t].hash
        BY <1>2, <3>1 DEF SizeInv, FoundInBucket
      <3>3. HasSlot(call[t].found)
        BY <3>1 DEF IInv, HeapInv, TableInv
      <3>4. call[t].hash # h
        BY <1>4, <3>2, <3>3 DEF HasSlot
      <3> QED
        BY <1>2, <2>1, <3>1, <3>4 DEF Scanning
    <2> QED
      BY <2>2, <2>3, <2>4
  <1>5. FoundInBucket'
    BY <1>1 DEF FoundInBucket
  <1> QED
    BY <1>1, <1>2, <1>3, <1>4, <1>5, QuietSize

LEMMA SweepEndsSize ==
  ASSUME IInv, SizeInv, NEW t \in Threads, SweepEnds(t)
  PROVE  SizeInv'
  <1>1. /\ call[t].step = "sweep" /\ call[t].todo = {} /\ owner' = NoThread /\ failed' = FALSE
        /\ UNCHANGED <<hash, alive, buckets, sinceSweep, reachable>>
    BY DEF SweepEnds, Return
  <1>2. owner = t /\ owner \in Threads
    BY <1>1, OwnerIs DEF Inside
  <1>3. Sweeping /\ ~Sweeping' /\ \A h, i : ~Unswept(h, i)
    BY <1>1, <1>2 DEF Sweeping, Unswept, AtHand
  <1>4. PICK L : Covers(L)
    BY DEF SizeInv
  <1>5. Covers(L)'
    BY <1>1, <1>3, <1>4 DEF Covers
  <1>6. EmptyBuckets'
    BY <1>1, <1>2, <1>3 DEF SizeInv, EmptyBuckets, AtHand
  <1>7. FoundInBucket'
    BY <1>1 DEF FoundInBucket
  <1> QED
    BY <1>1, <1>5, <1>6, <1>7 DEF SizeInv

LEMMA SweepBucketSize ==
  ASSUME IInv, SizeInv, NEW t \in Threads, NEW h \in call[t].todo, SweepBucket(t, h)
  PROVE  SizeInv'
  <1> DEFINE c == [call[t] EXCEPT !.step = "erase", !.hash = h, !.pos = 1,
                                  !.todo = call[t].todo \ {h}]
  <1>1. /\ call[t].step = "sweep" /\ call' = [call EXCEPT ![t] = c]
        /\ UNCHANGED <<hash, alive, buckets, sinceSweep, owner, reachable, failed>>
    BY DEF SweepBucket
  <1>2. owner = t /\ owner \in Threads
    BY <1>1, OwnerIs DEF Inside
  <1>3. c.step = "erase" /\ c.hash = h /\ c.pos = 1 /\ c.todo = call[t].todo \ {h}
    BY CallsAre DEF Calls, IInv
  <1> HIDE DEF c
  <1>4. call'[t] = c
    BY <1>1 DEF IInv, TypeInv
  <1>5. PICK L : Covers(L)
    BY DEF SizeInv
  <1>6. \A g \in DOMAIN buckets : \A i \in 1..Len(buckets[g]) : Unswept(g, i) => Unswept(g, i)'
    BY <1>1, <1>2, <1>3, <1>4 DEF Unswept, Sweeping, AtHand
  <1>7. Sweeping /\ Sweeping'
    BY <1>1, <1>2, <1>3, <1>4 DEF Sweeping
  <1>8. Covers(L)'
    BY <1>1, <1>5, <1>6, <1>7 DEF Covers
  <1>9. EmptyBuckets'
    BY <1>1, <1>2, <1>3, <1>4, <1>7 DEF SizeInv, EmptyBuckets, AtHand
  <1>10. FoundInBucket'
    BY <1>1, <1>2, <1>3, <1>4 DEF FoundInBucket
  <1> QED
    BY <1>1, <1>8, <1>9, <1>10 DEF SizeInv

LEMMA EraseSize ==
  ASSUME IInv, SizeInv, NEW t \in Threads, EraseSlot(t)
  PROVE  SizeInv'
  <1>0. /\ call[t].step = "erase" /\ call[t].pos <= Len(Bucket(t)) /\ owner = t /\ owner \in Threads
        /\ UNCHANGED <<hash, alive, sinceSweep, owner, reachable, failed>>
    BY OwnerIs DEF EraseSlot, Inside
  <1>1. CASE SlotNode(t) \notin alive
    BY <1>0, <1>1, PruneSize DEF EraseSlot
  <1>2. CASE SlotNode(t) \in alive
    <2> DEFINE c == [call[t] EXCEPT !.pos = call[t].pos + 1]
               h == call[t].hash
               p == call[t].pos
    <2>1. call' = [call EXCEPT ![t] = c] /\ buckets' = buckets
      BY <1>2 DEF EraseSlot
    <2>2. /\ c.step = "erase" /\ c.hash = h /\ c.pos = p + 1 /\ c.todo = call[t].todo
          /\ p \in Nat
      BY <1>0, CallsAre DEF Calls, IInv
    <2> HIDE DEF c
    <2>3. call'[t] = c
      BY <2>1 DEF IInv, TypeInv
    <2>4. PICK L : Covers(L)
      BY DEF SizeInv
    <2>5. Sweeping /\ Sweeping'
      BY <1>0, <2>2, <2>3 DEF Sweeping
    <2>6. buckets[h][p] \in L
      BY <1>2, <2>4, <2>5 DEF Covers, SlotNode, Bucket
    <2> HIDE DEF h, p
    <2>7. ASSUME NEW g \in DOMAIN buckets, NEW i \in 1..Len(buckets[g])
          PROVE  buckets[g][i] \in L \/ Unswept(g, i)'
      <3>1. CASE g = h /\ i = p
        BY <2>6, <3>1
      <3>2. CASE ~(g = h /\ i = p)
        <4>1. i >= p /\ i # p => i >= p + 1
          BY <2>2, <2>7
        <4>2. buckets[g][i] \in L \/ Unswept(g, i)
          BY <2>4, <2>7 DEF Covers
        <4> QED
          BY <1>0, <2>2, <2>3, <2>5, <3>2, <4>1, <4>2 DEF Unswept, AtHand, h, p
      <3> QED
        BY <3>1, <3>2
    <2>8. Covers(L)'
      BY <1>0, <2>1, <2>4, <2>5, <2>7 DEF Covers
    <2>9. EmptyBuckets'
      BY <1>0, <2>1, <2>2, <2>3, <2>5 DEF SizeInv, EmptyBuckets, AtHand, h
    <2>10. FoundInBucket'
      BY <1>0, <2>2, <2>3 DEF FoundInBucket
    <2> QED
      BY <1>0, <2>8, <2>9, <2>10 DEF SizeInv
  <1> QED
    BY <1>1, <1>2

LEMMA ErasedSize ==
  ASSUME IInv, SizeInv, NEW t \in Threads, Erased(t)
  PROVE  SizeInv'
  <1> DEFINE h == call[t].hash
             c == [call[t] EXCEPT !.step = "sweep"]
  <1>1. /\ call[t].step = "erase" /\ call[t].pos > Len(buckets[h])
        /\ call' = [call EXCEPT ![t] = c]
        /\ buckets' = IF buckets[h] = <<>> THEN Restrict(buckets, DOMAIN buckets \ {h}) ELSE buckets
        /\ UNCHANGED <<hash, alive, sinceSweep, owner, reachable, failed>>
    BY DEF Erased, Bucket
  <1>2. /\ owner = t /\ owner \in Threads /\ h \in DOMAIN buckets
        /\ buckets[h] \in Seq(Nodes) /\ Len(buckets[h]) \in Nat /\ call[t].pos \in Nat
    BY <1>1, BucketIs, CallsAre DEF Bucket, IInv
  <1>3. c.step = "sweep" /\ c.todo = call[t].todo
    BY CallsAre DEF Calls, IInv
  <1> HIDE DEF c
  <1>4. call'[t] = c
    BY <1>1 DEF IInv, TypeInv
  <1>5. /\ DOMAIN buckets' \subseteq DOMAIN buckets
        /\ \A g \in DOMAIN buckets' : buckets'[g] = buckets[g]
        /\ h \in DOMAIN buckets' => Len(buckets[h]) # 0
    <2>1. CASE buckets[h] = <<>>
      BY <1>1, <2>1 DEF Restrict
    <2>2. CASE buckets[h] # <<>>
      BY <1>1, <1>2, <2>2, EmptySeq
    <2> QED
      BY <2>1, <2>2
  <1>6. Sweeping /\ Sweeping'
    BY <1>1, <1>2, <1>3, <1>4 DEF Sweeping
  <1>7. \A g \in DOMAIN buckets : \A i \in 1..Len(buckets[g]) : Unswept(g, i) => Unswept(g, i)'
    <2> SUFFICES ASSUME NEW g \in DOMAIN buckets, NEW i \in 1..Len(buckets[g]), Unswept(g, i)
                 PROVE  Unswept(g, i)'
      OBVIOUS
    <2>1. CASE g \in call[t].todo
      BY <1>1, <1>2, <1>3, <1>4, <1>6, <2>1 DEF Unswept
    <2>2. CASE g = h /\ i >= call[t].pos
      <3> HIDE DEF h
      <3>1. FALSE
        BY <1>1, <1>2, <2>2
      <3> QED
        BY <3>1
    <2> QED
      BY <1>2, <2>1, <2>2 DEF Unswept, AtHand
  <1>8. PICK L : Covers(L)
    BY DEF SizeInv
  <1>9. Covers(L)'
    BY <1>1, <1>5, <1>6, <1>7, <1>8 DEF Covers
  <1>10. EmptyBuckets'
    <2>1. ASSUME NEW g \in DOMAIN buckets', Len(buckets'[g]) = 0 PROVE g \in call'[t].todo
      <3>1. g \in DOMAIN buckets /\ Len(buckets[g]) = 0 /\ g # h
        BY <1>5, <2>1
      <3> QED
        BY <1>2, <1>3, <1>4, <1>6, <3>1 DEF SizeInv, EmptyBuckets, AtHand
    <2> QED
      BY <1>1, <1>2, <1>6, <2>1 DEF EmptyBuckets
  <1>11. FoundInBucket'
    BY <1>1, <1>2, <1>3, <1>4 DEF FoundInBucket
  <1> QED
    BY <1>1, <1>9, <1>10, <1>11 DEF SizeInv

LEMMA CreateSize ==
  ASSUME IInv, SizeInv, NEW t \in Threads, Create(t)
  PROVE  SizeInv'
  <1>4. PICK n \in Nodes : n = Fresh
    BY FreshIs DEF IInv, Create
  <1> DEFINE h == call[t].hash
             sweeps == sinceSweep + 1 >= SweepInterval
             c == IF sweeps THEN [call[t] EXCEPT !.found = n, !.step = "sweep",
                                                 !.todo = DOMAIN buckets]
                            ELSE [call[t] EXCEPT !.found = n, !.step = "return"]
  <1>1. /\ call[t].step = "scan" /\ alive' = alive \cup {n}
        /\ buckets' = [buckets EXCEPT ![h] = Append(buckets[h], n)]
        /\ UNCHANGED <<owner, failed>>
        /\ sinceSweep' = IF sweeps THEN 0 ELSE sinceSweep + 1
        /\ reachable' = IF sweeps THEN Cardinality(alive') ELSE reachable
    BY <1>4 DEF Create, Scanned
  <1>2. call' = [call EXCEPT ![t] = c]
    <2>1. CASE sweeps
      BY <1>4, <2>1 DEF Create
    <2>2. CASE ~sweeps
      BY <1>4, <2>2 DEF Create
    <2> QED
      BY <2>1, <2>2
  <1>3. /\ owner = t /\ owner \in Threads /\ h \in DOMAIN buckets
        /\ buckets[h] \in Seq(Nodes) /\ Len(buckets[h]) \in Nat
    BY <1>1, BucketIs DEF Bucket
  <1>5. /\ c.step = (IF sweeps THEN "sweep" ELSE "return")
        /\ sweeps => c.todo = DOMAIN buckets
    <2>1. call[t] \in Calls
      BY CallsAre DEF IInv
    <2> QED
      BY <2>1 DEF Calls
  <1> HIDE DEF c
  <1>6. call'[t] = c
    BY <1>2 DEF IInv, TypeInv
  <1>7. /\ DOMAIN buckets' = DOMAIN buckets
        /\ \A g \in DOMAIN buckets : g # h => buckets'[g] = buckets[g]
        /\ Len(buckets'[h]) = Len(buckets[h]) + 1
        /\ \A i \in 1..Len(buckets[h]) : buckets'[h][i] = buckets[h][i]
        /\ buckets'[h][Len(buckets[h]) + 1] = n
    <2>1. buckets'[h] = Append(buckets[h], n)
      BY <1>1, <1>3
    <2>2. /\ Len(Append(buckets[h], n)) = Len(buckets[h]) + 1
          /\ \A i \in 1..Len(buckets[h]) : Append(buckets[h], n)[i] = buckets[h][i]
          /\ Append(buckets[h], n)[Len(buckets[h]) + 1] = n
      BY <1>3, <1>4, AppendProperties
    <2> QED
      BY <1>1, <2>1, <2>2
  <1>8. PICK L : Covers(L)
    BY DEF SizeInv
  <1>9. ~Sweeping /\ \A g, i : ~Unswept(g, i)
    BY <1>1, <1>3 DEF Sweeping, Unswept
  <1>10. sinceSweep \in Nat /\ reachable \in Nat /\ IsFiniteSet(alive')
         /\ Cardinality(alive') \in Nat
    <2>1. IsFiniteSet(alive')
      BY <1>1, FS_AddElement DEF SizeInv
    <2>2. Cardinality(alive') \in Nat
      BY <2>1, FS_CardinalityType
    <2> QED
      BY <2>1, <2>2, SweepAssumption DEF IInv, TypeInv, SizeInv
  <1> HIDE DEF h
  <1>11. ASSUME NEW g \in DOMAIN buckets', NEW i \in 1..Len(buckets'[g])
         PROVE  buckets'[g][i] \in L \cup {n}
    <2>1. CASE g # h
      BY <1>7, <1>8, <1>9, <1>11, <2>1 DEF Covers
    <2>2. CASE g = h /\ i = Len(buckets[h]) + 1
      BY <1>7, <2>2
    <2>3. CASE g = h /\ i # Len(buckets[h]) + 1
      <3>1. i \in 1..Len(buckets[h])
        BY <1>3, <1>7, <1>11, <2>3
      <3> QED
        BY <1>3, <1>7, <1>8, <1>9, <2>3, <3>1 DEF Covers
    <2> QED
      BY <2>1, <2>2, <2>3
  <1>12. CASE ~sweeps
    <2>1. ~Sweeping'
      BY <1>1, <1>3, <1>5, <1>6, <1>12 DEF Sweeping
    <2>2. IsFiniteSet(L) /\ Cardinality(L) \in Nat /\ Cardinality(L) <= reachable + sinceSweep
      BY <1>8, FS_CardinalityType DEF Covers
    <2>3. IsFiniteSet(L \cup {n}) /\ Cardinality(L \cup {n}) <= Cardinality(L) + 1
          /\ Cardinality(L \cup {n}) \in Nat
      <3>1. /\ IsFiniteSet(L \cup {n})
            /\ Cardinality(L \cup {n}) = IF n \in L THEN Cardinality(L) ELSE Cardinality(L) + 1
        BY <2>2, FS_AddElement
      <3> QED
        BY <2>2, <3>1
    <2>4. reachable' = reachable /\ sinceSweep' = sinceSweep + 1
      BY <1>1, <1>12
    <2>5. Cardinality(L \cup {n}) <= reachable' + sinceSweep'
      BY <1>10, <2>2, <2>3, <2>4
    <2>6. Covers(L \cup {n})'
      BY <1>11, <2>1, <2>3, <2>5 DEF Covers
    <2>7. EmptyBuckets'
      <3>1. ASSUME NEW g \in DOMAIN buckets', Len(buckets'[g]) = 0 PROVE failed'
        <4>1. g # h
          BY <1>3, <1>7, <3>1
        <4> QED
          BY <1>1, <1>3, <1>7, <1>9, <3>1, <4>1 DEF SizeInv, EmptyBuckets, Scanning, h
      <3> QED
        BY <2>1, <3>1 DEF EmptyBuckets
    <2>8. FoundInBucket'
      BY <1>1, <1>3, <1>5, <1>6, <1>12 DEF FoundInBucket
    <2> QED
      BY <1>10, <2>4, <2>6, <2>7, <2>8 DEF SizeInv
  <1>13. CASE sweeps
    <2>1. Sweeping' /\ call'[owner'].todo = DOMAIN buckets'
      BY <1>1, <1>3, <1>5, <1>6, <1>7, <1>13 DEF Sweeping
    <2>2. reachable' = Cardinality(alive') /\ sinceSweep' = 0
      BY <1>1, <1>13
    <2>3. Cardinality(alive') <= reachable' + sinceSweep'
      BY <1>10, <2>2
    <2>4. Covers(alive)'
      BY <1>10, <2>1, <2>3 DEF Covers, Unswept
    <2>5. EmptyBuckets'
      BY <2>1 DEF EmptyBuckets
    <2>6. FoundInBucket'
      BY <1>1, <1>3, <1>5, <1>6, <1>13 DEF FoundInBucket
    <2> QED
      BY <1>10, <2>2, <2>4, <2>5, <2>6 DEF SizeInv
  <1> QED
    BY <1>12, <1>13

LEMMA SizeStep == IInv /\ SizeInv /\ [Next]_vars => SizeInv'
  <1> SUFFICES ASSUME IInv, SizeInv, [Next]_vars PROVE SizeInv'
    OBVIOUS
  <1>1. CASE UNCHANGED vars
    BY <1>1, OutsideStep DEF vars
  <1>2. ASSUME NEW n \in dying, Destroy(n) PROVE SizeInv'
    <2>1. UNCHANGED <<buckets, owner, sinceSweep, reachable, failed, call>>
      BY <1>2 DEF Destroy
    <2>2. n \notin alive
      BY DEF IInv, HeapInv
    <2>3. alive' \subseteq alive /\ \A k \in alive : hash'[k] = hash[k]
      BY <1>2, <2>2 DEF Destroy, IInv, TypeInv
    <2> QED
      BY <2>1, <2>3, OutsideStep
  <1>3. ASSUME NEW t \in Threads, NEW n \in held[t], Drop(t, n) PROVE SizeInv'
    BY <1>3, OutsideStep DEF Drop
  <1>4. ASSUME NEW t \in Threads, NEW l \in Labels, NEW args \in [1..Arity[l] -> held[t]],
               Call(t, l, args)
        PROVE  SizeInv'
    <2>1. owner # t
      BY <1>4 DEF Call, IInv, CallInv, Inside
    <2> QED
      BY <1>4, <2>1, OutsideStep DEF Call, IInv, TypeInv
  <1> QED
    BY <1>1, <1>2, <1>3, <1>4, LockSize, ScanSize, ReturnSize, CreateSize, SweepBucketSize,
       EraseSize, ErasedSize, SweepEndsSize DEF Next

(* The slots outside a call are no more than the nodes that account for them. *)
LEMMA SlotsCounted ==
  ASSUME IInv, SizeInv, owner = NoThread
  PROVE  Cardinality(Slots) <= reachable + sinceSweep
  <1>1. PICK L : Covers(L)
    BY DEF SizeInv
  <1>2. /\ IsFiniteSet(L) /\ Cardinality(L) <= reachable + sinceSweep
        /\ \A h \in DOMAIN buckets : \A i \in 1..Len(buckets[h]) : buckets[h][i] \in L
    BY <1>1 DEF Covers, Unswept, Sweeping
  <1> DEFINE f == [s \in Slots |-> buckets[s[1]][s[2]]]
  <1>3. ASSUME NEW s \in Slots
        PROVE  s = <<s[1], s[2]>> /\ s[1] \in DOMAIN buckets /\ s[2] \in 1..Len(buckets[s[1]])
    <2>1. PICK h \in DOMAIN buckets : s \in {h} \X DOMAIN buckets[h]
      BY DEF Slots
    <2>2. DOMAIN buckets[h] = 1..Len(buckets[h])
      BY BucketsAre DEF IInv
    <2> QED
      BY <2>1, <2>2
  <1>4. f \in [Slots -> L]
    BY <1>2, <1>3
  <1>5. \A s, r \in Slots : f[s] = f[r] => s = r
    <2> SUFFICES ASSUME NEW s \in Slots, NEW r \in Slots, f[s] = f[r] PROVE s = r
      OBVIOUS
    <2>1. s[1] = r[1] /\ s[2] = r[2]
      BY <1>3 DEF IInv, TableInv, OneSlot
    <2> QED
      BY <1>3, <2>1
  <1>6. f \in Injection(Slots, L)
    BY <1>4, <1>5 DEF Injection, IsInjective
  <1> HIDE DEF f
  <1>7. IsFiniteSet(Slots) /\ Cardinality(Slots) <= Cardinality(L)
    BY <1>2, <1>6, FS_Injection
  <1>8. Cardinality(Slots) \in Nat /\ Cardinality(L) \in Nat /\ reachable \in Nat /\ sinceSweep \in Nat
    BY <1>2, <1>7, FS_CardinalityType, SweepAssumption DEF SizeInv, IInv, TypeInv
  <1> QED
    BY <1>2, <1>7, <1>8

(* "The table's size tracks what is actually reachable rather than what was   *)
(* ever built": outside a call the slots are at most the nodes alive when the *)
(* last sweep began plus the insertions since, however many expressions other *)
(* threads dropped in the middle of it, and no bucket is left empty unless an *)
(* allocation failed.                                                         *)
THEOREM SizeCorrect == Spec => []TableTracksReachable
  <1>1. Init => SizeInv
    <2> SUFFICES ASSUME Init PROVE SizeInv
      OBVIOUS
    <2>1. DOMAIN buckets = {} /\ owner = NoThread /\ alive = {} /\ reachable = 0 /\ sinceSweep = 0
      BY DEF Init
    <2>2. Cardinality({}) = 0
      BY FS_EmptySet
    <2>3. Covers({})
      BY <2>1, <2>2, FS_EmptySet DEF Covers, Sweeping
    <2> QED
      BY <2>1, <2>3, FS_EmptySet DEF SizeInv, EmptyBuckets, FoundInBucket
  <1>2. IInv /\ SizeInv => TableTracksReachable
    <2> SUFFICES ASSUME IInv, SizeInv, owner = NoThread,
                        NEW h \in DOMAIN buckets, buckets[h] = <<>>
                 PROVE  failed
      BY SlotsCounted DEF TableTracksReachable
    <2>1. Len(buckets[h]) = 0
      OBVIOUS
    <2> QED
      BY <2>1 DEF SizeInv, EmptyBuckets, Sweeping, Scanning
  <1> QED
    BY <1>1, <1>2, SizeStep, InvCorrect, PTL DEF Spec

(* ---- the refinement ---------------------------------------------------- *)
(* A thread owns its handles and the node its call has found or made.         *)
Holds(t) == held[t] \cup ({call[t].found} \ {NoNode})
Handles == [t \in Threads |-> Holds(t)]

LEMMA AbstractStutter ==
  ASSUME UNCHANGED <<node, alive, dying>>, \A t \in Threads : Holds(t)' = Holds(t)
  PROVE  UNCHANGED HC!vars
  <1>1. Handles' = Handles
    BY DEF Handles
  <1> QED
    BY <1>1 DEF HC!vars, Handles, Holds

(* A step of a call that neither finds a node nor returns.                    *)
LEMMA QuietStep ==
  ASSUME IInv, NEW t \in Threads, NEW c \in Calls, call' = [call EXCEPT ![t] = c],
         UNCHANGED <<node, alive, dying, held>>, c.found = call[t].found
  PROVE  UNCHANGED HC!vars
  <1>1. call'[t] = c /\ \A u \in Threads : u # t => call'[u] = call[u]
    BY CallsSet DEF IInv
  <1>2. \A u \in Threads : Holds(u)' = Holds(u)
    BY <1>1 DEF Holds
  <1> QED
    BY <1>2, AbstractStutter

LEMMA InternMaps ==
  ASSUME IInv, NEW t \in Threads, NEW e \in Expression, NEW n \in Nodes, e = call[t].expr,
         call[t].step = "scan", call[t].found = NoNode,
         UNCHANGED <<dying, held>>, call'[t].found = n,
         \A u \in Threads : u # t => call'[u] = call[u],
         \/ n \in alive /\ node[n] = e /\ UNCHANGED <<node, alive>>
         \/ /\ n \notin alive \cup dying /\ \A m \in alive : node[m] # e
            /\ node' = [node EXCEPT ![n] = e] /\ alive' = alive \cup {n}
  PROVE  HC!Next
  <1>1. Range(e.args) \subseteq held[t]
    BY DEF IInv, CallInv
  <1>2. Handles' = [Handles EXCEPT ![t] = Handles[t] \cup {n}]
    <2>1. Holds(t)' = Holds(t) \cup {n}
      BY DEF Holds
    <2>2. \A u \in Threads : u # t => Holds(u)' = Holds(u)
      BY DEF Holds
    <2> QED
      BY <2>1, <2>2 DEF Handles
  <1>3. HC!Range(e.args) \subseteq Handles[t]
    BY <1>1 DEF Handles, Holds, Range, HC!Range
  <1>4. HC!Intern(t, e)
    <2>1. Handles = [u \in Threads |-> held[u] \cup ({call[u].found} \ {NoNode})]
      BY DEF Handles, Holds
    <2>2. /\ HC!Range(e.args) \subseteq Handles[t]
          /\ \/ \E m \in alive : /\ node[m] = e
                                /\ Handles' = [Handles EXCEPT ![t] = Handles[t] \cup {m}]
                                /\ UNCHANGED <<node, alive>>
             \/ \E m \in Nodes \ (alive \cup dying) :
                  /\ \A k \in alive : node[k] # e
                  /\ node' = [node EXCEPT ![m] = e] /\ alive' = alive \cup {m}
                  /\ Handles' = [Handles EXCEPT ![t] = Handles[t] \cup {m}]
          /\ UNCHANGED dying
      BY <1>2, <1>3
    <2> QED
      BY <2>2 DEF HC!Intern, Handles, Holds
  <1>5. e \in HC!Expression
    BY DEF Expression, HC!Expression
  <1> QED
    BY <1>4, <1>5 DEF HC!Next

LEMMA DropMaps ==
  ASSUME IInv, NEW t \in Threads, NEW n \in held[t], Drop(t, n)
  PROVE  HC!Next
  <1>1. n \in Nodes /\ call[t].found = NoNode /\ UNCHANGED <<node, call>>
    BY DEF Drop, IInv, CallInv, TypeInv
  <1>2. held' = [held EXCEPT ![t] = held[t] \ {n}]
    BY DEF Drop
  <1>3. Handles' = [Handles EXCEPT ![t] = @ \ {n}]
    BY <1>1, <1>2 DEF Handles, Holds, IInv, TypeInv
  <1>4. n \in Handles[t]
    BY DEF Handles, Holds
  <1>5. Referenced(n, alive \cup dying) <=>
          \E u \in Threads : n \in Handles'[u] \/ \E m \in alive \cup dying : HC!Owns(m, n)
    <2>1. \A u \in Threads : n \in Handles'[u] <=> n \in held'[u] \/ n = call[u].found
      BY <1>1 DEF Handles, Holds
    <2>2. \A m : HC!Owns(m, n) <=> Owns(m, n)
      BY DEF Owns, HC!Owns, Range, HC!Range
    <2> QED
      BY <2>1, <2>2 DEF Referenced
  <1>6. HC!Drop(t, n)
    BY <1>1, <1>3, <1>4, <1>5 DEF Drop, HC!Drop, Handles, Holds
  <1> QED
    BY <1>1, <1>6 DEF HC!Next

LEMMA DestroyMaps ==
  ASSUME IInv, NEW n \in dying, Destroy(n)
  PROVE  HC!Next
  <1>1. n \in Nodes /\ Range(node[n].args) \subseteq Nodes
    BY DEF IInv, TypeInv, HeapInv, ChildrenAlive
  <1>2. UNCHANGED <<held, call>>
    BY DEF Destroy
  <1>3. Handles' = Handles
    BY <1>2 DEF Handles, Holds
  <1>4. ASSUME NEW k \in Range(node[n].args)
        PROVE  ~Referenced(k, (alive \cup dying) \ {n}) <=>
                 /\ \A u \in Threads : k \notin Handles[u]
                 /\ \A m \in (alive \cup dying) \ {n} : ~HC!Owns(m, k)
    <2>1. \A u \in Threads : k \in Handles[u] <=> k \in held'[u] \/ k = call[u].found
      BY <1>1, <1>2 DEF Handles, Holds
    <2>2. \A m : HC!Owns(m, k) <=> Owns(m, k)
      BY DEF Owns, HC!Owns, Range, HC!Range
    <2> QED
      BY <2>1, <2>2 DEF Referenced
  <1>5. {k \in Range(node[n].args) : ~Referenced(k, (alive \cup dying) \ {n})} =
        {k \in HC!Range(node[n].args) : /\ \A u \in Threads : k \notin Handles[u]
                                        /\ \A m \in (alive \cup dying) \ {n} : ~HC!Owns(m, k)}
    <2>1. HC!Range(node[n].args) = Range(node[n].args)
      BY DEF Range, HC!Range
    <2> QED
      BY <1>4, <2>1
  <1>6. HC!Destroy(n)
    <2>1. node' = [node EXCEPT ![n] = HC!NoExpression]
      BY DEF Destroy, NoExpression, HC!NoExpression
    <2> QED
      BY <1>3, <1>5, <2>1 DEF Destroy, HC!Destroy, Handles, Holds
  <1> QED
    BY <1>1, <1>6 DEF HC!Next

LEMMA ReturnMaps ==
  ASSUME IInv, NEW t \in Threads, UNCHANGED <<node, alive, dying>>,
         call' = [call EXCEPT ![t] = NoCall],
         \/ call[t].found = NoNode /\ held' = held
         \/ call[t].found # NoNode /\ held' = [held EXCEPT ![t] = held[t] \cup {call[t].found}]
  PROVE  UNCHANGED HC!vars
  <1>1. call'[t] = NoCall /\ \A u \in Threads : u # t => call'[u] = call[u]
    BY CallsSet, NoCallIs DEF IInv
  <1>2. \A u \in Threads : Holds(u)' = Holds(u)
    BY <1>1, NoCallIs DEF Holds, IInv, TypeInv
  <1> QED
    BY <1>2, AbstractStutter

LEMMA ScanMaps ==
  ASSUME IInv, NEW t \in Threads, ScanSlot(t)
  PROVE  HC!Next \/ UNCHANGED HC!vars
  <1>0. call[t].step = "scan" /\ call[t].pos <= Len(Bucket(t)) /\ UNCHANGED <<node, alive, dying, held>>
    BY DEF ScanSlot
  <1>1. call[t] \in Calls
    BY CallsAre DEF IInv
  <1>2. CASE UNCHANGED call
    BY <1>0, <1>2, AbstractStutter DEF Holds
  <1>3. CASE SlotNode(t) \in alive
    <2> DEFINE finds == call[t].found = NoNode /\ node[SlotNode(t)] = call[t].expr
               f == IF finds THEN SlotNode(t) ELSE call[t].found
               c == [call[t] EXCEPT !.pos = call[t].pos + 1, !.found = f]
    <2>1. call' = [call EXCEPT ![t] = c]
      BY <1>3 DEF ScanSlot
    <2>2. SlotNode(t) \in Nodes /\ f \in Nodes \cup {NoNode} /\ call[t].pos + 1 \in Nat
      BY <1>3, CallsAre DEF IInv, TypeInv
    <2> HIDE DEF f
    <2>3. c \in Calls /\ c.found = f
      BY <1>1, <2>2 DEF Calls
    <2> USE DEF f
    <2> HIDE DEF c
    <2>4. call'[t] = c /\ \A u \in Threads : u # t => call'[u] = call[u]
      BY <2>1, <2>3, CallsSet DEF IInv
    <2>5. CASE finds
      <3>1. PICK e \in Expression : e = call[t].expr
        BY <1>0 DEF IInv, CallInv
      <3> QED
        BY <1>0, <1>3, <2>2, <2>3, <2>4, <2>5, <3>1, InternMaps
    <2>6. CASE ~finds
      BY <1>0, <2>1, <2>3, <2>6, QuietStep
    <2> QED
      BY <2>5, <2>6
  <1> QED
    BY <1>2, <1>3 DEF ScanSlot

LEMMA CreateMaps ==
  ASSUME IInv, NEW t \in Threads, Create(t)
  PROVE  HC!Next
  <1>1. /\ call[t].step = "scan" /\ call[t].found = NoNode /\ UNCHANGED <<dying, held>>
        /\ Unused # {} /\ node' = [node EXCEPT ![Fresh] = call[t].expr]
        /\ alive' = alive \cup {Fresh}
    BY DEF Create, Scanned
  <1>2. PICK e \in Expression : e = call[t].expr
    BY <1>1 DEF IInv, CallInv
  <1>3. \A m \in alive : node[m] # e
    BY <1>2, NoTwin DEF Create
  <1>4. Fresh \in Nodes /\ Fresh \notin alive \cup dying
    BY <1>1, FreshIs DEF IInv
  <1>5. call'[t].found = Fresh /\ \A u \in Threads : u # t => call'[u] = call[u]
    <2>1. call[t] \in Calls /\ call \in [Threads -> Calls]
      BY CallsAre DEF IInv, TypeInv
    <2> QED
      BY <2>1 DEF Create, Calls
  <1>6. PICK n \in Nodes : n = Fresh
    BY <1>4
  <1> QED
    BY <1>1, <1>2, <1>3, <1>4, <1>5, <1>6, InternMaps

LEMMA QuietMaps ==
  ASSUME IInv, NEW t \in Threads,
         \/ \E l \in Labels : \E args \in [1..Arity[l] -> held[t]] : Call(t, l, args)
         \/ Lock(t) \/ EraseSlot(t) \/ Erased(t)
         \/ \E h \in call[t].todo : SweepBucket(t, h)
  PROVE  UNCHANGED HC!vars
  <1>1. call[t] \in Calls /\ call \in [Threads -> Calls]
    BY CallsAre DEF IInv, TypeInv
  <1>2. ASSUME NEW l \in Labels, NEW args \in [1..Arity[l] -> held[t]], Call(t, l, args)
        PROVE  \A u \in Threads : call'[u].found = call[u].found
    BY <1>1, <1>2, NoCallIs DEF Call, NoCall, IInv, CallInv
  <1>3. Lock(t) \/ EraseSlot(t) \/ Erased(t) => \A u \in Threads : call'[u].found = call[u].found
    BY <1>1 DEF Lock, EraseSlot, Erased, Calls
  <1>4. ASSUME NEW h \in call[t].todo, SweepBucket(t, h)
        PROVE  \A u \in Threads : call'[u].found = call[u].found
    BY <1>1, <1>4 DEF SweepBucket, Calls
  <1>5. UNCHANGED <<node, alive, dying, held>>
    BY DEF Call, Lock, EraseSlot, Erased, SweepBucket
  <1>6. \A u \in Threads : Holds(u)' = Holds(u)
    BY <1>2, <1>3, <1>4, <1>5 DEF Holds
  <1> QED
    BY <1>5, <1>6, AbstractStutter

LEMMA StepMaps == IInv /\ [Next]_vars => [HC!Next]_(HC!vars)
  <1> SUFFICES ASSUME IInv, [Next]_vars PROVE HC!Next \/ UNCHANGED HC!vars
    OBVIOUS
  <1>1. CASE UNCHANGED vars
    BY <1>1, AbstractStutter DEF vars, Holds
  <1>2. ASSUME NEW n \in dying, Destroy(n) PROVE HC!Next
    BY <1>2, DestroyMaps
  <1>3. ASSUME NEW t \in Threads, NEW n \in held[t], Drop(t, n) PROVE HC!Next
    BY <1>3, DropMaps
  <1>4. ASSUME NEW t \in Threads,
               ReturnFound(t) \/ ReturnCreated(t) \/ SweepEnds(t) \/ AllocationFails(t)
        PROVE  UNCHANGED HC!vars
    <2>1. UNCHANGED <<node, alive, dying>> /\ call' = [call EXCEPT ![t] = NoCall]
      BY <1>4 DEF ReturnFound, ReturnCreated, SweepEnds, AllocationFails, Return
    <2>2. \/ call[t].found = NoNode /\ held' = held
          \/ /\ call[t].found # NoNode
             /\ held' = [held EXCEPT ![t] = held[t] \cup {call[t].found}]
      BY <1>4 DEF ReturnFound, ReturnCreated, SweepEnds, AllocationFails, Return, IInv, CallInv
    <2> QED
      BY <2>1, <2>2, ReturnMaps
  <1>5. ASSUME NEW t \in Threads, ScanSlot(t) \/ Create(t)
        PROVE  HC!Next \/ UNCHANGED HC!vars
    BY <1>5, ScanMaps, CreateMaps
  <1> QED
    BY <1>1, <1>2, <1>3, <1>4, <1>5, QuietMaps DEF Next

(* intern(), with its lock, its scan of the bucket and its sweep, implements  *)
(* requests that each happen at one instant: where the scan finds the node or *)
(* where the node is made; every other step of a call is invisible.           *)
THEOREM RefinesHashCons == Spec => ImplementsHashCons
  <1>1. Init => HC!Init
    BY NoCallIs DEF Init, HC!Init, NoExpression, HC!NoExpression
  <1> QED
    BY <1>1, StepMaps, InvCorrect, PTL DEF Spec, ImplementsHashCons, HC!Spec

(* ---- equality of trees ------------------------------------------------- *)
(* Induction over the natural numbers, as a statement about sets.             *)
LEMMA Least ==
  ASSUME NEW T, T \subseteq Nat, T # {}
  PROVE  \E x \in T : \A y \in T : x <= y
  <1> DEFINE R == OpToRel(<, Nat)
  <1>1. IsWellFoundedOn(R, Nat)
    BY NatLessThanWellFounded, Zenon
  <1>2. R = {ss \in Nat \X Nat : ss[1] < ss[2]}
    BY DEF OpToRel
  <1>3. \A x, y \in Nat : <<y, x>> \in R <=> y < x
    BY <1>2
  <1> HIDE DEF R
  <1>4. PICK x \in T : \A y \in T : ~(<<y, x>> \in R)
    BY <1>1, WFMin, Zenon
  <1>5. ASSUME NEW y \in T PROVE x <= y
    <2>1. x \in Nat /\ y \in Nat /\ ~(<<y, x>> \in R)
      BY <1>4
    <2> QED
      BY <1>3, <2>1
  <1> QED
    BY <1>5

(* An address out of use holds no expression, and a child is older than its   *)
(* parent: the expressions are a finite number of levels deep.                *)
Ranks(rank, top) ==
  /\ rank \in [Nodes -> Nat] /\ top \in Nat
  /\ \A m \in Nodes : rank[m] < top /\ \A k \in Range(node[m].args) : rank[k] < rank[m]
WellBuilt ==
  /\ \A n \in Nodes \ (alive \cup dying) : node[n] = NoExpression
  /\ \E rank, top : Ranks(rank, top)

LEMMA NodeArgsAre ==
  ASSUME IInv, NEW m \in Nodes
  PROVE  /\ node[m] = [label |-> node[m].label, args |-> node[m].args]
         /\ \E k \in Nat : node[m].args \in [1..k -> Nodes] /\ DOMAIN node[m].args = 1..k
         /\ \A i \in DOMAIN node[m].args :
                node[m].args[i] \in Range(node[m].args) /\ node[m].args[i] \in Nodes
  <1>1. node[m] \in Expression \cup {NoExpression}
    BY DEF IInv, TypeInv
  <1>2. CASE node[m] = NoExpression
    <2>1. node[m].args = <<>> /\ DOMAIN node[m].args = {} /\ 1..0 = {}
      BY <1>2 DEF NoExpression
    <2>2. node[m].args \in [1..0 -> Nodes]
      BY <2>1
    <2> QED
      BY <1>2, <2>1, <2>2 DEF NoExpression
  <1>3. CASE node[m] \in Expression
    <2>1. PICK l \in Labels : node[m] \in [label : {l}, args : [1..Arity[l] -> Nodes]]
      BY <1>3 DEF Expression
    <2>2. Arity[l] \in Nat
      BY ArityAssumption
    <2> QED
      BY <2>1, <2>2 DEF Range
  <1> QED
    BY <1>1, <1>2, <1>3

(* The equation that defines Tree, up to a level.                             *)
Body(f, n) == [label |-> node[n].label,
               args |-> [i \in DOMAIN node[n].args |-> f[node[n].args[i]]]]

LEMMA BodyKept ==
  ASSUME NEW f, NEW g, NEW n, \A i \in DOMAIN node[n].args : f[node[n].args[i]] = g[node[n].args[i]]
  PROVE  Body(f, n) = Body(g, n)
  <1>1. [i \in DOMAIN node[n].args |-> f[node[n].args[i]]] = [i \in DOMAIN node[n].args |-> g[node[n].args[i]]]
    OBVIOUS
  <1> QED
    BY <1>1 DEF Body

LEMMA NoBodies ==
  ASSUME NEW f PROVE [n \in {} |-> n] = [n \in {} |-> Body(f, n)]
  OBVIOUS

LEMMA TreesExist ==
  ASSUME IInv, WellBuilt
  PROVE  \E f : f = [n \in Nodes |-> Body(f, n)]
  <1>1. PICK rank, top : Ranks(rank, top)
    BY DEF WellBuilt
  <1> DEFINE Level(k) == {n \in Nodes : rank[n] < k}
             Solved(k) == \E f : f = [n \in Level(k) |-> Body(f, n)]
             Unsolved == {k \in Nat : ~Solved(k)}
  <1>2. ASSUME NEW k \in Unsolved, \A j \in Unsolved : k <= j PROVE FALSE
    <2>1. k \in Nat /\ ~Solved(k)
      BY <1>2
    <2>2. CASE k = 0
      <3>1. Level(k) = {}
        BY <1>1, <2>2 DEF Ranks
      <3> DEFINE f == [n \in {} |-> n]
      <3>2. f = [n \in {} |-> Body(f, n)]
        BY NoBodies
      <3> HIDE DEF f, Level
      <3>3. f = [n \in Level(k) |-> Body(f, n)]
        BY <3>1, <3>2
      <3> QED
        BY <2>1, <3>3
    <2>3. CASE k # 0
      <3>1. k - 1 \in Nat /\ k - 1 < k
        BY <2>1, <2>3
      <3>2. Solved(k - 1)
        <4>1. k - 1 \notin Unsolved
          <5> HIDE DEF Unsolved
          <5> QED
            BY <1>2, <2>1, <3>1
        <4> QED
          BY <3>1, <4>1
      <3>3. PICK f : f = [n \in Level(k - 1) |-> Body(f, n)]
        BY <3>2
      <3> DEFINE g == [n \in Level(k) |-> Body(f, n)]
      <3>4. ASSUME NEW n \in Level(k) PROVE Body(f, n) = Body(g, n)
        <4>1. ASSUME NEW i \in DOMAIN node[n].args
              PROVE  f[node[n].args[i]] = g[node[n].args[i]]
          <5> DEFINE c == node[n].args[i]
          <5>1. c \in Nodes /\ rank[c] < rank[n] /\ rank[n] < k /\ rank[c] \in Nat /\ rank[n] \in Nat
            BY <1>1, NodeArgsAre DEF Ranks
          <5>2. c \in Level(k - 1) /\ c \in Level(k)
            BY <2>1, <3>1, <5>1
          <5> HIDE DEF c, Level
          <5>3. f[c] = Body(f, c)
            BY <3>3, <5>2
          <5>4. g[c] = Body(f, c)
            BY <5>2
          <5> QED
            BY <5>3, <5>4 DEF c
        <4> QED
          BY <4>1, BodyKept
      <3> HIDE DEF Level
      <3>5. g = [n \in Level(k) |-> Body(g, n)]
        BY <3>4
      <3> QED
        BY <2>1, <3>5
    <2> QED
      BY <2>2, <2>3
  <1>3. Unsolved = {}
    <2> HIDE DEF Solved
    <2>1. Unsolved \subseteq Nat
      OBVIOUS
    <2> HIDE DEF Unsolved
    <2> QED
      BY <1>2, <2>1, Least
  <1>4. Solved(top)
    <2>1. top \in Nat
      BY <1>1 DEF Ranks
    <2> HIDE DEF Solved
    <2> QED
      BY <1>3, <2>1
  <1>5. Level(top) = Nodes
    BY <1>1 DEF Ranks
  <1> QED
    BY <1>4, <1>5

LEMMA TreeIs ==
  ASSUME IInv, WellBuilt, NEW n \in Nodes
  PROVE  Tree[n] = Body(Tree, n)
  <1>1. \E f : f = [m \in Nodes |-> Body(f, m)]
    BY TreesExist
  <1>2. \E f : f = [m \in Nodes |->
                      [label |-> node[m].label,
                       args |-> [i \in DOMAIN node[m].args |-> f[node[m].args[i]]]]]
    BY <1>1, Zenon DEF Body
  <1>3. Tree = CHOOSE f : f = [m \in Nodes |->
                      [label |-> node[m].label,
                       args |-> [i \in DOMAIN node[m].args |-> f[node[m].args[i]]]]]
    BY Zenon DEF Tree
  <1>4. Tree = [m \in Nodes |->
                      [label |-> node[m].label,
                       args |-> [i \in DOMAIN node[m].args |-> Tree[node[m].args[i]]]]]
    BY <1>2, <1>3, Zenon
  <1> QED
    BY <1>4 DEF Body

LEMMA TreesDiffer == IInv /\ WellBuilt => PointerEqualityIsStructural
  <1> SUFFICES ASSUME IInv, WellBuilt, NEW mm \in alive, NEW nn \in alive,
                      Tree[mm] = Tree[nn], mm # nn
               PROVE  FALSE
    BY DEF PointerEqualityIsStructural
  <1>1. PICK rank, top : Ranks(rank, top)
    BY DEF WellBuilt
  <1> DEFINE Twins(k) == \E m, n \in alive : rank[m] = k /\ Tree[m] = Tree[n] /\ m # n
             T == {k \in Nat : Twins(k)}
  <1>2. alive \subseteq Nodes
    BY DEF IInv, TypeInv
  <1>3. rank[mm] \in T
    <2>1. rank[mm] \in Nat
      BY <1>1, <1>2 DEF Ranks
    <2> QED
      BY <2>1
  <1>4. PICK k \in T : \A j \in T : k <= j
    <2> HIDE DEF Twins
    <2>1. T \subseteq Nat
      OBVIOUS
    <2> HIDE DEF T
    <2> QED
      BY <1>3, <2>1, Least
  <1>5. PICK m, n : m \in alive /\ n \in alive /\ rank[m] = k /\ Tree[m] = Tree[n] /\ m # n
    BY <1>4
  <1>6. m \in Nodes /\ n \in Nodes
    BY <1>2, <1>5
  <1>7. Body(Tree, m) = Body(Tree, n)
    BY <1>5, <1>6, TreeIs
  <1>8. /\ node[m].label = node[n].label
        /\ [i \in DOMAIN node[m].args |-> Tree[node[m].args[i]]] = [i \in DOMAIN node[n].args |-> Tree[node[n].args[i]]]
    BY <1>7 DEF Body
  <1>9. /\ DOMAIN node[m].args = DOMAIN node[n].args
        /\ \A i \in DOMAIN node[m].args : Tree[node[m].args[i]] = Tree[node[n].args[i]]
    BY <1>8
  <1>10. ASSUME NEW i \in DOMAIN node[m].args
         PROVE  node[m].args[i] = node[n].args[i]
    <2> DEFINE a == node[m].args[i]
               b == node[n].args[i]
    <2>1. a \in alive /\ b \in alive
      BY <1>5, <1>6, <1>9, NodeArgsAre DEF IInv, HeapInv, ChildrenAlive
    <2>2. rank[a] \in Nat /\ rank[a] < k /\ k \in Nat
      BY <1>1, <1>4, <1>5, <1>6, NodeArgsAre DEF Ranks
    <2>3. rank[a] \notin T
      <3> HIDE DEF T, a
      <3> QED
        BY <1>4, <2>2
    <2>4. ~Twins(rank[a])
      <3> HIDE DEF Twins
      <3> QED
        BY <2>2, <2>3
    <2> QED
      BY <1>9, <2>1, <2>4
  <1>11. node[m].args = node[n].args
    <2>1. PICK k1 \in Nat : node[m].args \in [1..k1 -> Nodes] /\ DOMAIN node[m].args = 1..k1
      BY <1>6, NodeArgsAre
    <2>2. PICK k2 \in Nat : node[n].args \in [1..k2 -> Nodes] /\ DOMAIN node[n].args = 1..k2
      BY <1>6, NodeArgsAre
    <2>3. node[n].args \in [1..k1 -> Nodes]
      BY <1>9, <2>1, <2>2
    <2> QED
      BY <1>10, <2>1, <2>3
  <1>12. node[m] = node[n]
    BY <1>6, <1>8, <1>11, NodeArgsAre
  <1> QED
    BY <1>5, <1>12 DEF IInv, UniqueLive

(* ---- expressions are well built ----------------------------------------- *)
LEMMA WellBuiltStep == IInv /\ IInv' /\ WellBuilt /\ [HC!Next]_(HC!vars) => WellBuilt'
  <1> SUFFICES ASSUME IInv, IInv', WellBuilt, HC!Next \/ UNCHANGED HC!vars PROVE WellBuilt'
    OBVIOUS
  <1> DEFINE used == alive \cup dying
  <1>0. /\ node \in [Nodes -> Expression \cup {NoExpression}] /\ used \subseteq Nodes
        /\ \A m \in used : Range(node[m].args) \subseteq alive
        /\ \A t \in Threads : Handles[t] \subseteq alive
        /\ Range(NoExpression.args) = {}
    BY DEF IInv, TypeInv, HeapInv, ChildrenAlive, Handles, Holds, Range, NoExpression
  <1>1. PICK rank, top : Ranks(rank, top)
    BY DEF WellBuilt
  <1>2. CASE node' = node /\ used' = used
    BY <1>1, <1>2 DEF WellBuilt, Ranks
  <1>3. ASSUME NEW t \in Threads, NEW e \in Expression, NEW n \in Nodes \ used,
               Range(e.args) \subseteq alive,
               node' = [node EXCEPT ![n] = e], used' = used \cup {n}
        PROVE  WellBuilt'
    <2> DEFINE r == [rank EXCEPT ![n] = top]
    <2>1. \A m \in Nodes \ used : node[m] = NoExpression
      BY DEF WellBuilt
    <2>2. \A m \in Nodes : n \notin Range(node[m].args)
      BY <1>0, <1>3, <2>1
    <2>3. /\ rank \in [Nodes -> Nat] /\ top \in Nat
          /\ \A m \in Nodes : rank[m] < top /\ \A k \in Range(node[m].args) : rank[k] < rank[m]
      BY <1>1 DEF Ranks
    <2>4. r \in [Nodes -> Nat] /\ top + 1 \in Nat
      BY <2>3
    <2>5. ASSUME NEW m \in Nodes
          PROVE  r[m] < top + 1 /\ \A k \in Range(node'[m].args) : r[k] < r[m]
      <3>1. CASE m = n
        <4>1. node'[m] = e /\ r[m] = top
          BY <1>0, <1>3, <2>3, <3>1
        <4>2. \A k \in Range(e.args) : k \in Nodes /\ k # n /\ r[k] = rank[k] /\ rank[k] < top
          BY <1>0, <1>3, <2>3
        <4> QED
          BY <2>3, <4>1, <4>2
      <3>2. CASE m # n
        <4>1. node'[m] = node[m] /\ r[m] = rank[m]
          BY <1>3, <3>2
        <4>2. \A k \in Range(node[m].args) : k # n /\ k \in Nodes /\ r[k] = rank[k]
          BY <1>0, <2>1, <2>2
        <4> QED
          BY <2>3, <4>1, <4>2
      <3> QED
        BY <3>1, <3>2
    <2>6. Ranks(r, top + 1)'
      BY <2>4, <2>5 DEF Ranks
    <2>7. \A m \in Nodes \ used' : node'[m] = NoExpression
      BY <1>3, <2>1
    <2> QED
      BY <2>6, <2>7 DEF WellBuilt
  <1>4. ASSUME NEW n \in dying, node' = [node EXCEPT ![n] = NoExpression], used' = used \ {n}
        PROVE  WellBuilt'
    <2>1. Ranks(rank, top)'
      BY <1>0, <1>1, <1>4 DEF Ranks
    <2> QED
      BY <1>0, <1>4, <2>1 DEF WellBuilt
  <1>5. CASE UNCHANGED HC!vars
    BY <1>2, <1>5 DEF HC!vars
  <1>6. ASSUME NEW t \in Threads, NEW e \in HC!Expression, HC!Intern(t, e) PROVE WellBuilt'
    <2>1. HC!Expression = Expression
      BY DEF HC!Expression, Expression
    <2>2. Range(e.args) \subseteq alive
      <3>1. HC!Range(e.args) \subseteq Handles[t]
        BY <1>6 DEF HC!Intern, Handles, Holds
      <3>2. HC!Range(e.args) = Range(e.args)
        BY DEF Range, HC!Range
      <3> QED
        BY <1>0, <3>1, <3>2
    <2> QED
      BY <1>2, <1>3, <1>6, <2>1, <2>2 DEF HC!Intern
  <1>7. ASSUME NEW t \in Threads, NEW n \in Nodes, HC!Drop(t, n) PROVE WellBuilt'
    <2>1. n \in alive
      BY <1>0, <1>7 DEF HC!Drop, Handles, Holds
    <2>2. node' = node /\ used' = used
      BY <1>7, <2>1 DEF HC!Drop
    <2> QED
      BY <1>2, <2>2
  <1>8. ASSUME NEW n \in Nodes, HC!Destroy(n) PROVE WellBuilt'
    <2> DEFINE orphans == {k \in HC!Range(node[n].args) :
                             /\ \A u \in Threads : k \notin Handles[u]
                             /\ \A m \in used \ {n} : ~HC!Owns(m, k)}
    <2>1. /\ n \in dying /\ node' = [node EXCEPT ![n] = HC!NoExpression]
          /\ alive' = alive \ orphans /\ dying' = (dying \ {n}) \cup orphans
      BY <1>8 DEF HC!Destroy, Handles, Holds
    <2>2. orphans \subseteq alive
      BY <1>0, <2>1 DEF Range, HC!Range
    <2>3. n \notin alive
      BY <2>1 DEF IInv, HeapInv
    <2> HIDE DEF orphans
    <2>4. used' = used \ {n}
      BY <2>1, <2>2, <2>3
    <2> QED
      BY <1>4, <2>1, <2>4 DEF HC!NoExpression, NoExpression
  <1> QED
    BY <1>5, <1>6, <1>7, <1>8 DEF HC!Next

(* The header's O(1) equality: two live expressions are the same tree only    *)
(* when they are the same pointer, and a child pointer never dangles.         *)
THEOREM EqualityCorrect == Spec => []EqualityByAddress
  <1>1. Init => WellBuilt
    <2> SUFFICES ASSUME Init PROVE WellBuilt
      OBVIOUS
    <2>1. \A n \in Nodes : node[n] = NoExpression /\ Range(node[n].args) = {}
      BY DEF Init, Range, NoExpression
    <2>2. Ranks([n \in Nodes |-> 0], 1)
      BY <2>1 DEF Ranks
    <2> QED
      BY <2>1, <2>2 DEF WellBuilt
  <1>2. IInv /\ IInv' /\ WellBuilt /\ [Next]_vars => WellBuilt'
    BY StepMaps, WellBuiltStep
  <1>3. IInv /\ WellBuilt => EqualityByAddress
    BY TreesDiffer DEF EqualityByAddress, IInv, HeapInv
  <1> QED
    BY <1>1, <1>2, <1>3, InvCorrect, PTL DEF Spec
=============================================================================
