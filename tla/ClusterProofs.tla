---------------------------- MODULE ClusterProofs ----------------------------
(***************************************************************************)
(* Proofs about Cluster for every number of nodes, every set of commands   *)
(* and every bound on terms and logs.                                      *)
(***************************************************************************)
EXTENDS Cluster, FiniteSetTheorems, TLAPS

USE NodesAssumption, BoundsAssumption

LEMMA NodesFinite == IsFiniteSet(Nodes) /\ Cardinality(Nodes) = N
  BY FS_Interval DEF Nodes

LEMMA MajorityRange ==
  Majority \in Nat /\ Majority >= 1 /\ Majority <= N /\ Majority + Majority > N
  BY DEF Majority

(* Two disjoint sets of nodes are not both majorities.                      *)
LEMMA MajoritiesMeet ==
  ASSUME NEW A \in SUBSET Nodes, NEW B \in SUBSET Nodes,
         Cardinality(A) >= Majority, Cardinality(B) >= Majority
  PROVE  A \cap B # {}
  <1>1. IsFiniteSet(A) /\ IsFiniteSet(B)
    BY NodesFinite, FS_Subset
  <1>2. A \cup B \subseteq Nodes
    OBVIOUS
  <1>3. IsFiniteSet(A \cup B) /\ Cardinality(A \cup B) <= N
    BY <1>2, NodesFinite, FS_Subset
  <1>4. Cardinality(A \cup B) = Cardinality(A) + Cardinality(B) - Cardinality(A \cap B)
    BY <1>1, FS_Union
  <1>5. Cardinality(A) \in Nat /\ Cardinality(B) \in Nat
    BY <1>1, FS_CardinalityType
  <1>6. SUFFICES ASSUME A \cap B = {} PROVE FALSE
    OBVIOUS
  <1>7. Cardinality(A \cap B) = 0
    BY <1>6, FS_EmptySet
  <1>8. QED
    BY <1>3, <1>4, <1>5, <1>7, MajorityRange
-----------------------------------------------------------------------------
(* Type correctness.                                                        *)

LEMMA TypeInit == Init => TypeOK
  BY DEF Init, TypeOK, Nodes

LEMMA TypeRunElection == TypeOK /\ RunElection => TypeOK'
  <1>1. SUFFICES ASSUME TypeOK, RunElection PROVE TypeOK'
    OBVIOUS
  <1>2. PICK i \in Nodes, C \in Candidacies :
          /\ \E b \in Ballots(C) :
                /\ voted_for' = b
                /\ role' = [j \in Nodes |->
                              IF j \in Winners(b, C) THEN "Leader" ELSE "Follower"]
          /\ current_term' = [j \in Nodes |-> NewTerm(current_term[i])]
          /\ UNCHANGED <<log, commit_index, writers>>
    BY <1>1 DEF RunElection
  <1>3. voted_for' \in [Nodes -> Nodes \cup {Nobody}]
    BY <1>2 DEF Ballots, Candidacies
  <1>4. role' \in [Nodes -> {"Follower", "Leader"}]
    BY <1>2
  <1>5. current_term' \in [Nodes -> Nat]
    BY <1>1, <1>2 DEF TypeOK, NewTerm
  <1>6. QED
    BY <1>1, <1>2, <1>3, <1>4, <1>5 DEF TypeOK

LEMMA TypeReplicate ==
  ASSUME TypeOK, NEW l \in Nodes, NEW c \in Commands, Replicate(l, c)
  PROVE  TypeOK'
  <1> DEFINE entry == [term |-> current_term[l], command |-> c]
  <1>1. entry \in Entry
    BY DEF TypeOK, Entry
  <1>2. \A i \in Nodes : log[i] \in Seq(Entry) /\ Append(log[i], entry) \in Seq(Entry)
    BY <1>1 DEF TypeOK
  <1>3. log' \in [Nodes -> Seq(Entry)]
    BY <1>2 DEF Replicate
  <1>4. Len(log[l]) + 1 \in Nat
    BY DEF TypeOK
  <1>5. \A i \in Nodes : commit_index'[i] \in Nat
    BY <1>4 DEF Replicate, Committed, TypeOK
  <1>6. commit_index' \in [Nodes -> Nat]
    BY <1>5 DEF Replicate
  <1>7. QED
    BY <1>3, <1>6 DEF Replicate, TypeOK

LEMMA TypeNext == TypeOK /\ [Next]_vars => TypeOK'
  <1>1. SUFFICES ASSUME TypeOK, [Next]_vars PROVE TypeOK'
    OBVIOUS
  <1>2. CASE RunElection
    BY <1>1, <1>2, TypeRunElection
  <1>3. CASE \E l \in Nodes, c \in Commands : Replicate(l, c)
    BY <1>1, <1>3, TypeReplicate
  <1>4. CASE UNCHANGED vars
    BY <1>1, <1>4 DEF vars, TypeOK
  <1>5. QED
    BY <1>1, <1>2, <1>3, <1>4 DEF Next

(* Every variable of the simulation keeps its type.                         *)
THEOREM TypeCorrect == Spec => []TypeOK
  BY TypeInit, TypeNext, PTL DEF Spec
-----------------------------------------------------------------------------
(* Election safety. The votes of a round are a function of the voter, so    *)
(* two winners would need two disjoint majorities.                          *)

LEMMA ElectionInit == Init => ElectionSafety
  BY DEF Init, ElectionSafety

LEMMA ElectionRunElection == RunElection => ElectionSafety'
  <1>1. SUFFICES ASSUME RunElection PROVE ElectionSafety'
    OBVIOUS
  <1>a. PICK i \in Nodes, C \in Candidacies :
          /\ \E b \in Ballots(C) :
                /\ voted_for' = b
                /\ role' = [j \in Nodes |->
                              IF j \in Winners(b, C) THEN "Leader" ELSE "Follower"]
          /\ current_term' = [j \in Nodes |-> NewTerm(current_term[i])]
    BY <1>1 DEF RunElection
  <1>2. PICK b \in Ballots(C) :
          /\ voted_for' = b
          /\ role' = [j \in Nodes |->
                        IF j \in Winners(b, C) THEN "Leader" ELSE "Follower"]
    BY <1>a
  <1>3. ASSUME NEW l \in Nodes, role'[l] = "Leader"
        PROVE  Cardinality(Votes(b, l)) >= Majority
    BY <1>2, <1>3 DEF Winners
  <1>4. ASSUME NEW l \in Nodes, role'[l] = "Leader"
        PROVE  Cardinality(Supporters(l)') >= Majority
    <2>1. Supporters(l)' = Votes(b, l)
      BY <1>a, <1>2 DEF Supporters, Votes
    <2>2. QED
      BY <2>1, <1>3, <1>4
  <1>5. ASSUME NEW l \in Nodes, NEW m \in Nodes,
               role'[l] = "Leader", role'[m] = "Leader"
        PROVE  l = m
    <2>1. Votes(b, l) \cap Votes(b, m) # {}
      BY <1>3, <1>5, MajoritiesMeet DEF Votes
    <2>2. QED
      BY <2>1 DEF Votes
  <1>6. QED
    BY <1>4, <1>5 DEF ElectionSafety

LEMMA ElectionNext == ElectionSafety /\ [Next]_vars => ElectionSafety'
  <1>1. SUFFICES ASSUME ElectionSafety, [Next]_vars PROVE ElectionSafety'
    OBVIOUS
  <1>2. CASE RunElection
    BY <1>2, ElectionRunElection
  <1>3. CASE \E l \in Nodes, c \in Commands : Replicate(l, c)
    BY <1>1, <1>3 DEF Replicate, ElectionSafety, Supporters
  <1>4. CASE UNCHANGED vars
    BY <1>1, <1>4 DEF vars, ElectionSafety, Supporters
  <1>5. QED
    BY <1>1, <1>2, <1>3, <1>4 DEF Next

(* There is never more than one leader, and it was elected by a majority.   *)
THEOREM LeaderUnique == Spec => []ElectionSafety
  BY ElectionInit, ElectionNext, PTL DEF Spec

(* A node that votes again does so in a later term.                         *)
THEOREM VotesOnce == Spec => OneVotePerTerm
  <1> DEFINE Later == \A i \in Nodes : voted_for'[i] # voted_for[i] =>
                                         current_term'[i] > current_term[i]
  <1>1. TypeOK /\ [Next]_vars => [Later]_vars
    <2>1. SUFFICES ASSUME TypeOK, Next PROVE Later
      OBVIOUS
    <2>2. CASE RunElection
      <3>1. PICK i \in Nodes :
              /\ \A j \in Nodes : current_term[j] <= current_term[i]
              /\ current_term' = [j \in Nodes |-> NewTerm(current_term[i])]
        BY <2>2 DEF RunElection
      <3>2. QED
        BY <2>1, <3>1 DEF NewTerm, TypeOK
    <2>3. CASE \E l \in Nodes, c \in Commands : Replicate(l, c)
      BY <2>3 DEF Replicate
    <2>4. QED
      BY <2>1, <2>2, <2>3 DEF Next
  <1>2. QED
    BY <1>1, TypeCorrect, PTL DEF Spec, OneVotePerTerm
-----------------------------------------------------------------------------
(* Commit indices never point past a log, whichever leaders replicated.     *)

LEMMA CommitReplicate ==
  ASSUME TypeOK, CommitWithinLog, NEW l \in Nodes, NEW c \in Commands,
         Replicate(l, c)
  PROVE  CommitWithinLog'
  <1> DEFINE entry == [term |-> current_term[l], command |-> c]
             logs  == [i \in Nodes |-> IF i \in Holders(l) THEN Append(log[i], entry)
                                                            ELSE log[i]]
             index == Len(log[l]) + 1
  <1>1. /\ log' = logs
        /\ commit_index' = [i \in Nodes |-> Committed(logs, i, index)]
    BY DEF Replicate
  <1>2. entry \in Entry
    BY DEF TypeOK, Entry
  <1>3. \A i \in Nodes : /\ Len(log[i]) \in Nat /\ Len(logs[i]) \in Nat
                        /\ Len(log[i]) <= Len(logs[i])
    BY <1>2 DEF TypeOK
  <1>4. ASSUME NEW i \in Nodes PROVE commit_index'[i] <= Len(log'[i])
    <2>1. commit_index'[i] = IF Len(logs[i]) >= index THEN index ELSE commit_index[i]
      BY <1>1 DEF Committed
    <2>2. commit_index[i] \in Nat /\ commit_index[i] <= Len(log[i])
      BY DEF TypeOK, CommitWithinLog
    <2>3. CASE Len(logs[i]) >= index
      BY <1>1, <2>1, <2>3
    <2>4. CASE ~(Len(logs[i]) >= index)
      BY <1>1, <1>3, <2>1, <2>2, <2>4
    <2>5. QED
      BY <2>3, <2>4
  <1>5. QED
    BY <1>4 DEF CommitWithinLog

(* No node commits an entry it does not have.                               *)
THEOREM CommitsInLog == Spec => []CommitWithinLog
  <1>1. Init => CommitWithinLog
    BY DEF Init, CommitWithinLog
  <1>2. TypeOK /\ CommitWithinLog /\ [Next]_vars => CommitWithinLog'
    <2>1. SUFFICES ASSUME TypeOK, CommitWithinLog, [Next]_vars PROVE CommitWithinLog'
      OBVIOUS
    <2>2. CASE RunElection
      BY <2>1, <2>2 DEF RunElection, CommitWithinLog
    <2>3. CASE \E l \in Nodes, c \in Commands : Replicate(l, c)
      BY <2>1, <2>3, CommitReplicate
    <2>4. CASE UNCHANGED vars
      BY <2>1, <2>4 DEF vars, CommitWithinLog
    <2>5. QED
      BY <2>1, <2>2, <2>3, <2>4 DEF Next
  <1>3. QED
    BY <1>1, <1>2, TypeCorrect, PTL DEF Spec
-----------------------------------------------------------------------------
(* One writer. Its followers are always the same nodes, so the logs of the  *)
(* holders are copies of each other and the other logs stay empty.          *)

Steady ==
  /\ writers = {} =>
        \A i \in Nodes : log[i] = <<>> /\ commit_index[i] = 0
  /\ \A l \in Nodes : writers = {l} =>
        \A i \in Nodes : /\ log[i] = IF i \in Holders(l) THEN log[l] ELSE <<>>
                         /\ commit_index[i] = Len(log[i])

(* How many nodes below i replicate() may have copied to before i.          *)
LEMMA BelowCardinality ==
  ASSUME NEW l \in Nodes, NEW i \in Nodes
  PROVE  /\ Cardinality((0 .. i - 1) \ {l}) \in Nat
         /\ Cardinality((0 .. i - 1) \ {l}) <= i
         /\ l < i => Cardinality((0 .. i - 1) \ {l}) = i - 1
  <1>1. IsFiniteSet(0 .. i - 1) /\ Cardinality(0 .. i - 1) = i
    BY FS_Interval DEF Nodes
  <1>2. /\ IsFiniteSet((0 .. i - 1) \ {l})
        /\ Cardinality((0 .. i - 1) \ {l}) <= i
    BY <1>1, FS_Subset, ZenonT(30)
  <1>3. ASSUME l < i PROVE Cardinality((0 .. i - 1) \ {l}) = i - 1
    <2>1. l \in 0 .. i - 1
      BY <1>3 DEF Nodes
    <2>2. Cardinality((0 .. i - 1) \ {l}) = Cardinality(0 .. i - 1) - 1
      BY <1>1, <2>1, FS_RemoveElement
    <2>3. QED
      BY <1>1, <2>2
  <1>4. QED
    BY <1>2, <1>3, FS_CardinalityType

(* The leader and the lowest numbered others that replicate() copies to.    *)
LEMMA HoldersAreMajority ==
  ASSUME NEW l \in Nodes
  PROVE  l \in Holders(l) /\ Cardinality(Holders(l)) >= Majority
  <1> DEFINE Core == IF l < Majority THEN 0 .. Majority - 1
                                     ELSE (0 .. Majority - 2) \cup {l}
  <1>1. l \in Holders(l)
    BY DEF Holders
  <1>3. Core \subseteq Holders(l)
    <2>1. SUFFICES ASSUME NEW i \in Core PROVE i \in Holders(l)
      OBVIOUS
    <2>2. i \in Nodes
      BY <2>1, MajorityRange DEF Nodes
    <2>3. CASE i = l
      BY <2>3, <1>1
    <2>4. CASE i # l /\ i < Majority - 1
      <3>1. i \in Nat
        BY <2>2 DEF Nodes
      <3>2. Cardinality((0 .. i - 1) \ {l}) < Majority - 1
        BY <2>2, <2>4, <3>1, BelowCardinality, MajorityRange
      <3>3. QED
        BY <2>2, <3>2 DEF Holders
    <2>5. CASE i # l /\ i = Majority - 1
      <3>1. l < i
        BY <2>1, <2>5, MajorityRange DEF Nodes
      <3>2. Cardinality((0 .. i - 1) \ {l}) = i - 1
        BY <2>2, <3>1, BelowCardinality
      <3>3. Cardinality((0 .. i - 1) \ {l}) < Majority - 1
        BY <2>5, <3>2, MajorityRange
      <3>4. QED
        BY <2>2, <3>3 DEF Holders
    <2>6. QED
      BY <2>1, <2>3, <2>4, <2>5, MajorityRange DEF Nodes
  <1>4. Cardinality(Core) = Majority
    <2>1. CASE l < Majority
      BY <2>1, FS_Interval, MajorityRange
    <2>2. CASE ~(l < Majority)
      <3>1. IsFiniteSet(0 .. Majority - 2) /\ Cardinality(0 .. Majority - 2) = Majority - 1
        BY FS_Interval, MajorityRange
      <3>2. l \notin 0 .. Majority - 2
        BY <2>2, MajorityRange DEF Nodes
      <3>3. Cardinality((0 .. Majority - 2) \cup {l}) = Majority - 1 + 1
        BY <3>1, <3>2, FS_AddElement
      <3>4. QED
        BY <2>2, <3>3, MajorityRange
    <2>3. QED
      BY <2>1, <2>2
  <1>5. IsFiniteSet(Holders(l))
    BY NodesFinite, FS_Subset DEF Holders
  <1>6. Cardinality(Core) <= Cardinality(Holders(l))
    BY <1>3, <1>5, FS_Subset
  <1>7. QED
    BY <1>1, <1>4, <1>6

LEMMA SteadyReplicate ==
  ASSUME TypeOK, Steady, NEW l \in Nodes, NEW c \in Commands, Replicate(l, c)
  PROVE  Steady'
  <1> DEFINE entry == [term |-> current_term[l], command |-> c]
             logs  == [i \in Nodes |-> IF i \in Holders(l) THEN Append(log[i], entry)
                                                            ELSE log[i]]
             index == Len(log[l]) + 1
  <1>1. /\ log' = logs
        /\ commit_index' = [i \in Nodes |-> Committed(logs, i, index)]
        /\ writers' = writers \cup {l}
    BY DEF Replicate
  <1>2. l \in Holders(l)
    BY HoldersAreMajority
  <1>3. entry \in Entry
    BY DEF TypeOK, Entry
  <1>4. ASSUME NEW m \in Nodes, writers' = {m}, NEW i \in Nodes
        PROVE  /\ log'[i] = IF i \in Holders(m) THEN log'[m] ELSE <<>>
               /\ commit_index'[i] = Len(log'[i])
    <2>1. m = l /\ (writers = {} \/ writers = {l})
      BY <1>1, <1>4 DEF TypeOK
    <2>2. /\ log[i] = IF i \in Holders(l) THEN log[l] ELSE <<>>
          /\ commit_index[i] = Len(log[i])
      <3>1. CASE writers = {}
        BY <3>1 DEF Steady
      <3>2. CASE writers = {l}
        BY <3>2 DEF Steady
      <3>3. QED
        BY <2>1, <3>1, <3>2
    <2>3. log[l] \in Seq(Entry) /\ Len(Append(log[l], entry)) = index /\ index \in Nat /\ index >= 1
      BY <1>3 DEF TypeOK
    <2>4. logs[l] = Append(log[l], entry)
      BY <1>2
    <2>5. CASE i \in Holders(l)
      <3>1. logs[i] = logs[l]
        BY <2>2, <2>4, <2>5
      <3>2. commit_index'[i] = Committed(logs, i, index) /\ Len(logs[i]) = index
        BY <1>1, <2>3, <2>4, <3>1
      <3>3. commit_index'[i] = index
        BY <2>3, <3>2 DEF Committed
      <3>4. QED
        BY <1>1, <2>1, <2>3, <2>4, <2>5, <3>1, <3>3
    <2>6. CASE i \notin Holders(l)
      <3>1. logs[i] = <<>> /\ commit_index[i] = 0
        BY <2>2, <2>6
      <3>2. commit_index'[i] = 0
        BY <1>1, <2>3, <3>1 DEF Committed
      <3>3. QED
        BY <1>1, <2>1, <2>6, <3>1, <3>2
    <2>7. QED
      BY <2>5, <2>6
  <1>5. writers' # {}
    BY <1>1
  <1>6. ASSUME NEW m \in Nodes, NEW i \in Nodes
        PROVE  Holders(m)' = Holders(m)
    BY DEF Holders
  <1>7. QED
    BY <1>4, <1>5, <1>6 DEF Steady

LEMMA SteadyNext == TypeOK /\ Steady /\ [Next]_vars => Steady'
  <1>1. SUFFICES ASSUME TypeOK, Steady, [Next]_vars PROVE Steady'
    OBVIOUS
  <1>2. CASE RunElection
    BY <1>1, <1>2 DEF RunElection, Steady, Holders
  <1>3. CASE \E l \in Nodes, c \in Commands : Replicate(l, c)
    BY <1>1, <1>3, SteadyReplicate
  <1>4. CASE UNCHANGED vars
    BY <1>1, <1>4 DEF vars, Steady, Holders
  <1>5. QED
    BY <1>1, <1>2, <1>3, <1>4 DEF Next

LEMMA SteadyImpliesCommits == TypeOK /\ Steady => SteadyWriterCommits
  <1>1. SUFFICES ASSUME TypeOK, Steady, NEW l \in Nodes, writers = {l}
                 PROVE  /\ CommittedAgree
                        /\ Cardinality({i \in Nodes : commit_index[i] = Len(log[l])})
                              >= Majority
    BY DEF SteadyWriterCommits
  <1> DEFINE Done == {i \in Nodes : commit_index[i] = Len(log[l])}
  <1>2. \A i \in Nodes : /\ log[i] = IF i \in Holders(l) THEN log[l] ELSE <<>>
                         /\ commit_index[i] = Len(log[i])
    BY <1>1 DEF Steady
  <1>3. CommittedAgree
    <2>1. SUFFICES ASSUME NEW i \in Nodes, NEW j \in Nodes,
                          NEW k \in 1 .. commit_index[i], k <= commit_index[j]
                   PROVE  log[i][k] = log[j][k]
      BY DEF CommittedAgree
    <2>2. commit_index[i] # 0 /\ commit_index[j] # 0
      BY <1>1, <2>1 DEF TypeOK
    <2>3. log[i] = log[l] /\ log[j] = log[l]
      BY <1>2, <2>2
    <2>4. QED
      BY <2>3
  <1>4. Holders(l) \subseteq Done
    BY <1>2 DEF Holders
  <1>5. IsFiniteSet(Done)
    BY NodesFinite, FS_Subset
  <1>6. Cardinality(Holders(l)) <= Cardinality(Done)
    BY <1>4, <1>5, FS_Subset
  <1>7. Cardinality(Holders(l)) \in Nat /\ Cardinality(Done) \in Nat
    BY <1>4, <1>5, FS_Subset, FS_CardinalityType
  <1>8. QED
    BY <1>3, <1>6, <1>7, HoldersAreMajority, MajorityRange

(* As long as one node only has replicated, committed entries agree on all  *)
(* nodes and a majority has committed the writer's whole log.               *)
THEOREM SteadyWriterSafe == Spec => []SteadyWriterCommits
  <1>1. Init => Steady
    BY DEF Init, Steady
  <1>2. QED
    BY <1>1, SteadyNext, SteadyImpliesCommits, TypeCorrect, PTL DEF Spec
=============================================================================
