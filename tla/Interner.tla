------------------------------ MODULE Interner -------------------------------
(* The expression interner of src/src/sym2/expr.cpp: make() and intern(), the *)
(* table of weak references with its amortised sweep, and the reference       *)
(* counts of the nodes, which fall without the table's mutex.                 *)
(*                                                                            *)
(* A node is an address: the control block of a dead node stays while a weak  *)
(* reference names it, so an address is reused only when no slot holds it.    *)
(* Head and atom together are a label with an arity; the hash of a node is a  *)
(* function of its label and of its children's hashes.                        *)
EXTENDS Naturals, Sequences, FiniteSets, SequencesExt

CONSTANTS
  Threads, NoThread,
  Nodes, NoNode,      \* addresses, and the null pointer
  Labels, Arity,      \* Arity[l]: how many children label l has
  Hashes, NoHash, Hash(_, _), \* Hash(label, <<hash of each child>>)
  SweepInterval,      \* kSweepInterval
  MaxHeld             \* bound: handles a thread keeps

ASSUME ThreadsAssumption == NoThread \notin Threads
ASSUME NodesAssumption == NoNode \notin Nodes
ASSUME ArityAssumption == Arity \in [Labels -> Nat]
ASSUME HashAssumption ==
  \A l \in Labels : \A hs \in [1..Arity[l] -> Hashes] : Hash(l, hs) \in Hashes
ASSUME SweepAssumption == SweepInterval \in Nat \ {0}

VARIABLES
  node,       \* node[n]: the expression at address n, or the last one there
  hash,       \* hash[n]: the hash cached in that node
  alive,      \* addresses whose use count is not zero
  dying,      \* use count zero, destructor still to release the children
  buckets,    \* hash -> sequence of slots; weak references are addresses
  sinceSweep,
  owner,      \* the thread inside table.mutex
  held,       \* held[t]: the nodes thread t has an ExprRef to
  call,       \* call[t]: the locals of t's call of intern()
  reachable,  \* history: nodes alive when the last sweep began
  failed      \* history: an allocation failed since the last sweep

vars == <<node, hash, alive, dying, buckets, sinceSweep, owner, held, call, reachable, failed>>

Expression == UNION {[label : {l}, args : [1..Arity[l] -> Nodes]] : l \in Labels}
NoExpression == [label |-> "none", args |-> <<>>]
NoCall == [step |-> "idle", expr |-> NoExpression, hash |-> NoHash, pos |-> 0,
           found |-> NoNode, todo |-> {}]

Init ==
  /\ node = [n \in Nodes |-> NoExpression]
  /\ hash = [n \in Nodes |-> NoHash]
  /\ alive = {} /\ dying = {}
  /\ buckets = <<>>
  /\ sinceSweep = 0
  /\ owner = NoThread
  /\ held = [t \in Threads |-> {}]
  /\ call = [t \in Threads |-> NoCall]
  /\ reachable = 0 /\ failed = FALSE

(* ---- reference counts -------------------------------------------------- *)
Owns(m, n) == n \in Range(node[m].args)

BugReferencedRaw(n, owners) ==
  \/ \E t \in Threads : n \in held'[t]
  \/ \E m \in owners : Owns(m, n)

(* Some ExprRef to n exists: a caller's, a local of intern(), or an argument  *)
(* of a node whose destructor has not finished.                               *)
Referenced(n, owners) ==
  \/ \E t \in Threads : n \in held'[t] \/ n = call[t].found
  \/ \E m \in owners : Owns(m, n)

Drop(t, n) ==
  /\ call[t].step = "idle"
  /\ n \in held[t]
  /\ held' = [held EXCEPT ![t] = @ \ {n}]
  /\ IF Referenced(n, alive \cup dying)
       THEN UNCHANGED <<alive, dying>>
       ELSE alive' = alive \ {n} /\ dying' = dying \cup {n}
  /\ UNCHANGED <<node, hash, buckets, sinceSweep, owner, call, reachable, failed>>

(* The destructor of a node releases its arguments, whoever holds the mutex.  *)
Destroy(n) ==
  /\ n \in dying
  /\ UNCHANGED <<buckets, sinceSweep, owner, held, call, reachable, failed>>
  /\ LET orphans == {k \in Range(node[n].args) : ~Referenced(k, (alive \cup dying) \ {n})}
     IN /\ alive' = alive \ orphans
        /\ dying' = (dying \ {n}) \cup orphans
  /\ node' = [node EXCEPT ![n] = NoExpression]
  /\ hash' = [hash EXCEPT ![n] = NoHash]

(* ---- intern() ---------------------------------------------------------- *)
(* make() is given children the caller holds; the hash is computed before the *)
(* lock is taken.                                                             *)
Call(t, l, args) ==
  /\ call[t].step = "idle"
  /\ Cardinality(held[t]) < MaxHeld
  /\ call' = [call EXCEPT ![t] = [NoCall EXCEPT
                !.step = "lock", !.expr = [label |-> l, args |-> args],
                !.hash = Hash(l, [i \in DOMAIN args |-> hash[args[i]]])]]
  /\ UNCHANGED <<node, hash, alive, dying, buckets, sinceSweep, owner, held, reachable, failed>>

(* table.buckets[node.hash] creates the bucket when there is none.            *)
Lock(t) ==
  /\ call[t].step = "lock"
  /\ owner = NoThread
  /\ owner' = t
  /\ buckets' = [h \in DOMAIN buckets \cup {call[t].hash} |->
                   IF h \in DOMAIN buckets THEN buckets[h] ELSE <<>>]
  /\ call' = [call EXCEPT ![t].step = "scan", ![t].pos = 1]
  /\ UNCHANGED <<node, hash, alive, dying, sinceSweep, held, reachable, failed>>

Bucket(t) == buckets[call[t].hash]
SlotNode(t) == Bucket(t)[call[t].pos]

(* The slot is taken out of its bucket, the later ones move up.               *)
PruneSlot(t) ==
  buckets' = [buckets EXCEPT ![call[t].hash] = RemoveAt(@, call[t].pos)]

BugScanSlot(t) ==
  /\ call[t].step = "scan"
  /\ call[t].pos <= Len(Bucket(t))
  /\ \/ /\ SlotNode(t) \notin alive
        /\ PruneSlot(t)
        /\ UNCHANGED call
     \/ /\ SlotNode(t) \in alive
        /\ \/ /\ node[SlotNode(t)] = call[t].expr
              /\ call' = [call EXCEPT ![t].pos = @ + 1, ![t].found = SlotNode(t)]
              /\ buckets' = [buckets EXCEPT ![call[t].hash] = SubSeq(@, 1, call[t].pos)]
           \/ /\ node[SlotNode(t)] # call[t].expr
              /\ call' = [call EXCEPT ![t].pos = @ + 1]
              /\ UNCHANGED buckets
  /\ UNCHANGED <<node, hash, alive, dying, sinceSweep, owner, held, reachable, failed>>

BugScanSlotSkips(t) ==
  /\ call[t].step = "scan"
  /\ call[t].pos <= Len(Bucket(t))
  /\ IF SlotNode(t) \in alive THEN UNCHANGED buckets ELSE PruneSlot(t)
  /\ call' = [call EXCEPT ![t].pos = @ + 1, ![t].found =
                IF @ = NoNode /\ SlotNode(t) \in alive /\ node[SlotNode(t)] = call[t].expr
                  THEN SlotNode(t) ELSE @]
  /\ UNCHANGED <<node, hash, alive, dying, sinceSweep, owner, held, reachable, failed>>

(* One slot of the bucket: an expired one is dropped; the first live one that *)
(* is shallow_equal is kept alive from here on by found.                      *)
ScanSlot(t) ==
  /\ call[t].step = "scan"
  /\ call[t].pos <= Len(Bucket(t))
  /\ \/ /\ SlotNode(t) \notin alive
        /\ PruneSlot(t)
        /\ UNCHANGED call
     \/ /\ SlotNode(t) \in alive
        /\ call' = [call EXCEPT ![t].pos = @ + 1, ![t].found =
                      IF @ = NoNode /\ node[SlotNode(t)] = call[t].expr THEN SlotNode(t) ELSE @]
        /\ UNCHANGED buckets
  /\ UNCHANGED <<node, hash, alive, dying, sinceSweep, owner, held, reachable, failed>>

(* Mutant: the scan stops one slot early.                                     *)
BugScanned(t) == call[t].step = "scan" /\ call[t].pos >= Len(Bucket(t))

Scanned(t) == call[t].step = "scan" /\ call[t].pos > Len(Bucket(t))

(* The lock is released and the caller owns the node that was found or made.  *)
Return(t) ==
  /\ owner' = NoThread
  /\ held' = [held EXCEPT ![t] = @ \cup {call[t].found}]
  /\ call' = [call EXCEPT ![t] = NoCall]

ReturnFound(t) ==
  /\ Scanned(t)
  /\ call[t].found # NoNode
  /\ Return(t)
  /\ UNCHANGED <<node, hash, alive, dying, buckets, sinceSweep, reachable, failed>>

InUse == alive \cup dying \cup UNION {Range(buckets[h]) : h \in DOMAIN buckets}
Unused == Nodes \ InUse
Fresh == CHOOSE n \in Unused : TRUE

(* Nothing found: a node is made and its slot appended; every SweepInterval   *)
(* insertions the table is swept before the node is returned.                 *)
Create(t) ==
  /\ Scanned(t)
  /\ call[t].found = NoNode
  /\ Unused # {}
  /\ node' = [node EXCEPT ![Fresh] = call[t].expr]
  /\ hash' = [hash EXCEPT ![Fresh] = call[t].hash]
  /\ alive' = alive \cup {Fresh}
  /\ buckets' = [buckets EXCEPT ![call[t].hash] = Append(@, Fresh)]
  /\ IF sinceSweep + 1 >= SweepInterval
       THEN /\ sinceSweep' = 0
            /\ reachable' = Cardinality(alive')
            /\ call' = [call EXCEPT ![t].found = Fresh, ![t].step = "sweep",
                                    ![t].todo = DOMAIN buckets]
       ELSE /\ sinceSweep' = sinceSweep + 1
            /\ call' = [call EXCEPT ![t].found = Fresh, ![t].step = "return"]
            /\ UNCHANGED reachable
  /\ UNCHANGED <<dying, owner, held, failed>>

ReturnCreated(t) ==
  /\ call[t].step = "return"
  /\ Return(t)
  /\ UNCHANGED <<node, hash, alive, dying, buckets, sinceSweep, reachable, failed>>

(* make_shared or push_back throws: the bucket stays, empty if it is new.     *)
AllocationFails(t) ==
  /\ Scanned(t)
  /\ call[t].found = NoNode
  /\ owner' = NoThread
  /\ call' = [call EXCEPT ![t] = NoCall]
  /\ failed' = TRUE
  /\ UNCHANGED <<node, hash, alive, dying, buckets, sinceSweep, held, reachable>>

(* sweep_expired(): the buckets in any order, each slot by slot, while other  *)
(* threads drop nodes. From here on call.hash is the bucket at hand.          *)
SweepBucket(t, h) ==
  /\ call[t].step = "sweep"
  /\ h \in call[t].todo
  /\ call' = [call EXCEPT ![t].step = "erase", ![t].hash = h, ![t].pos = 1,
                          ![t].todo = @ \ {h}]
  /\ UNCHANGED <<node, hash, alive, dying, buckets, sinceSweep, owner, held, reachable, failed>>

EraseSlot(t) ==
  /\ call[t].step = "erase"
  /\ call[t].pos <= Len(Bucket(t))
  /\ IF SlotNode(t) \in alive
       THEN call' = [call EXCEPT ![t].pos = @ + 1] /\ UNCHANGED buckets
       ELSE PruneSlot(t) /\ UNCHANGED call
  /\ UNCHANGED <<node, hash, alive, dying, sinceSweep, owner, held, reachable, failed>>

(* Mutant: a bucket that has become empty stays in the map.                   *)
BugErased(t) ==
  /\ call[t].step = "erase"
  /\ call[t].pos > Len(Bucket(t))
  /\ call' = [call EXCEPT ![t].step = "sweep"]
  /\ UNCHANGED <<node, hash, alive, dying, buckets, sinceSweep, owner, held, reachable, failed>>

Erased(t) ==
  /\ call[t].step = "erase"
  /\ call[t].pos > Len(Bucket(t))
  /\ buckets' = IF Bucket(t) = <<>> THEN Restrict(buckets, DOMAIN buckets \ {call[t].hash})
                                    ELSE buckets
  /\ call' = [call EXCEPT ![t].step = "sweep"]
  /\ UNCHANGED <<node, hash, alive, dying, sinceSweep, owner, held, reachable, failed>>

SweepEnds(t) ==
  /\ call[t].step = "sweep"
  /\ call[t].todo = {}
  /\ Return(t)
  /\ failed' = FALSE
  /\ UNCHANGED <<node, hash, alive, dying, buckets, sinceSweep, reachable>>

Next ==
  \/ \E t \in Threads :
       \/ \E l \in Labels : \E args \in [1..Arity[l] -> held[t]] : Call(t, l, args)
       \/ Lock(t) \/ ScanSlot(t) \/ ReturnFound(t)
       \/ Create(t) \/ ReturnCreated(t) \/ AllocationFails(t)
       \/ \E h \in call[t].todo : SweepBucket(t, h)
       \/ EraseSlot(t) \/ Erased(t)
       \/ SweepEnds(t)
       \/ \E n \in held[t] : Drop(t, n)
  \/ \E n \in dying : Destroy(n)

Spec == Init /\ [][Next]_vars

(* ---- properties -------------------------------------------------------- *)
Step == {"idle", "lock", "scan", "sweep", "erase", "return"}

(* Types of the table, the nodes and the calls.                               *)
TypeOK ==
  /\ node \in [Nodes -> Expression \cup {NoExpression}]
  /\ hash \in [Nodes -> Hashes \cup {NoHash}]
  /\ alive \subseteq Nodes /\ dying \subseteq Nodes
  /\ DOMAIN buckets \subseteq Hashes
  /\ \A h \in DOMAIN buckets : buckets[h] \in Seq(Nodes)
  /\ sinceSweep \in 0..SweepInterval-1
  /\ owner \in Threads \cup {NoThread}
  /\ held \in [Threads -> SUBSET alive]
  /\ \A t \in Threads :
       /\ call[t].step \in Step /\ call[t].pos \in Nat
       /\ call[t].expr \in Expression \cup {NoExpression}
       /\ call[t].hash \in Hashes \cup {NoHash}
       /\ call[t].found \in alive \cup {NoNode}
       /\ call[t].todo \subseteq DOMAIN buckets

(* "A node with the same head, atom and (already interned) children is never  *)
(* built twice": no two live nodes are shallow_equal, whatever was dropped    *)
(* and rebuilt while another thread was scanning.                             *)
UniqueLive ==
  \A m, n \in alive : node[m] = node[n] => m = n

(* A live node can always be found again: exactly one slot of the table names *)
(* it, in the bucket of its hash, also in the middle of a scan or a sweep.    *)
LiveHasOneSlot ==
  \A n \in alive :
    /\ hash[n] \in DOMAIN buckets
    /\ Cardinality({i \in DOMAIN buckets[hash[n]] : buckets[hash[n]][i] = n}) = 1
    /\ \A h \in DOMAIN buckets \ {hash[n]} : n \notin Range(buckets[h])

(* The table and the live expressions are one to one.                         *)
OneSlotEach == UniqueLive /\ LiveHasOneSlot

(* Children outlive their parents, so a child pointer in a live node never    *)
(* dangles and address reuse cannot make two expressions equal.               *)
ChildrenAlive ==
  \A m \in alive \cup dying : Range(node[m].args) \subseteq alive

(* "The table's size tracks what is actually reachable rather than what was   *)
(* ever built": outside a call, the slots are at most the nodes alive when    *)
(* the last sweep began plus the insertions since, and a bucket is empty only *)
(* after a failed allocation.                                                 *)
Slots == UNION {{h} \X DOMAIN buckets[h] : h \in DOMAIN buckets}
TableTracksReachable ==
  owner = NoThread =>
    /\ Cardinality(Slots) <= reachable + sinceSweep
    /\ (\E h \in DOMAIN buckets : buckets[h] = <<>>) => failed

(* The O(1) equality of the header: two live expressions are the same tree    *)
(* only when they are the same pointer, however deep the trees are.           *)
Tree[n \in Nodes] == [label |-> node[n].label,
                      args |-> [i \in DOMAIN node[n].args |-> Tree[node[n].args[i]]]]
PointerEqualityIsStructural ==
  \A m, n \in alive : Tree[m] = Tree[n] => m = n

(* Comparing children by their addresses is sound, and equality is O(1).      *)
EqualityByAddress == ChildrenAlive /\ PointerEqualityIsStructural

(* A request is one atomic step on the set of live nodes: intern() with its   *)
(* lock, its scan and its sweep implements HashCons.                          *)
HC == INSTANCE HashCons WITH
        held <- [t \in Threads |-> held[t] \cup ({call[t].found} \ {NoNode})]
ImplementsHashCons == HC!Spec
=============================================================================
