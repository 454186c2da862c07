------------------------------- MODULE Cluster -------------------------------
(***************************************************************************)
(* ms::izaac::consensus::Cluster: "simplified Raft leader election and log *)
(* replication", simulated in one process.                                 *)
(*                                                                         *)
(* The nodes exchange no messages: run_election() and replicate() each     *)
(* read and write all nodes in one call, so each is one action.  Whatever  *)
(* depends on the seeded generator (who stands, whether a second candidate *)
(* stands, how the others vote) is a nondeterministic choice.  Terms are   *)
(* uint64_t in the code; here they stay below MaxTerm.                     *)
(***************************************************************************)
EXTENDS Integers, Sequences, FiniteSets

CONSTANTS
    N,          \* number of nodes
    Commands,   \* the commands a client replicates
    MaxTerm,    \* bound: elections
    MaxLog      \* bound: length of a log

ASSUME NodesAssumption == N \in Nat \ {0}
ASSUME BoundsAssumption == MaxTerm \in Nat /\ MaxLog \in Nat

Nodes    == 0 .. N - 1
Nobody   == -1
Majority == N \div 2 + 1

Entry == [term : Nat, command : Commands]

VARIABLES
    role,           \* "Follower" or "Leader": nobody is left a Candidate
    current_term,
    voted_for,
    log,
    commit_index,
    writers         \* the leaders that have replicated so far (history)

vars == <<role, current_term, voted_for, log, commit_index, writers>>

Init ==
    /\ role         = [i \in Nodes |-> "Follower"]
    /\ current_term = [i \in Nodes |-> 0]
    /\ voted_for    = [i \in Nodes |-> Nobody]
    /\ log          = [i \in Nodes |-> <<>>]
    /\ commit_index = [i \in Nodes |-> 0]
    /\ writers      = {}

-----------------------------------------------------------------------------
(* Mutant: the draw of a candidate includes its upper end.                 *)
BugCandidacies == {C \in SUBSET (0 .. N) : Cardinality(C) = 1}

(* One candidate stands, with four nodes or more sometimes two.            *)
Candidacies ==
    {C \in SUBSET Nodes : \/ Cardinality(C) = 1
                          \/ Cardinality(C) = 2 /\ N >= 4}

(* Every candidate votes for itself, every other node for one of them.     *)
Ballots(C) == {b \in [Nodes -> C] : \A i \in Nodes : i \in C => b[i] = i}

Votes(b, c) == {i \in Nodes : b[i] = c}

(* Mutant: the candidate with the most votes wins, majority or not.        *)
BugWinners(b, C) ==
    {c \in C : \A d \in C : Cardinality(Votes(b, c)) >= Cardinality(Votes(b, d))}

Winners(b, C) == {c \in C : Cardinality(Votes(b, c)) >= Majority}

(* Mutant: the round is held in the largest term seen, not in the next.    *)
BugNewTerm(t) == t

(* The term of the round: above every node's, so all of them enter it and  *)
(* their votes of earlier terms are void.                                  *)
NewTerm(t) == t + 1

RunElection ==
    \E i \in Nodes, C \in Candidacies :
        /\ \A j \in Nodes : current_term[j] <= current_term[i]
        /\ NewTerm(current_term[i]) <= MaxTerm
        /\ \E b \in Ballots(C) :
              /\ voted_for' = b
              /\ role' = [j \in Nodes |->
                             IF j \in Winners(b, C) THEN "Leader" ELSE "Follower"]
        /\ current_term' = [j \in Nodes |-> NewTerm(current_term[i])]
        /\ UNCHANGED <<log, commit_index, writers>>

(* Mutant: the leader's own copy is counted twice.                         *)
BugHolders(l) ==
    {i \in Nodes : i = l \/ Cardinality((0 .. i - 1) \ {l}) < Majority - 2}

(* The nodes that hold the entry: the leader and, from node 0 on, as many  *)
(* others as make a majority.                                              *)
Holders(l) ==
    {i \in Nodes : i = l \/ Cardinality((0 .. i - 1) \ {l}) < Majority - 1}

(* Nodes whose log is long enough commit, whatever it holds at the index.  *)
Committed(logs, i, index) ==
    IF Len(logs[i]) >= index THEN index ELSE commit_index[i]

(* replicate() returns FALSE and changes nothing when l does not lead.     *)
Replicate(l, command) ==
    LET entry == [term |-> current_term[l], command |-> command]
        logs  == [i \in Nodes |-> IF i \in Holders(l) THEN Append(log[i], entry)
                                                       ELSE log[i]]
    IN  /\ role[l] = "Leader"
        /\ \A i \in Holders(l) : Len(log[i]) < MaxLog
        /\ log' = logs
        /\ commit_index' =
              [i \in Nodes |-> Committed(logs, i, Len(log[l]) + 1)]
        /\ writers' = writers \cup {l}
        /\ UNCHANGED <<role, current_term, voted_for>>

Next == RunElection \/ \E l \in Nodes, c \in Commands : Replicate(l, c)

Spec == Init /\ [][Next]_vars

-----------------------------------------------------------------------------
(* Properties.                                                             *)

TypeOK ==
    /\ role         \in [Nodes -> {"Follower", "Leader"}]
    /\ current_term \in [Nodes -> Nat]
    /\ voted_for    \in [Nodes -> Nodes \cup {Nobody}]
    /\ log          \in [Nodes -> Seq(Entry)]
    /\ commit_index \in [Nodes -> Nat]
    /\ writers      \subseteq Nodes

(* Election safety: whatever the split of the votes, a leader holds the    *)
(* votes of a majority in its term and there are never two, so             *)
(* current_leader() is never ambiguous.                                    *)
Supporters(l) ==
    {i \in Nodes : voted_for[i] = l /\ current_term[i] = current_term[l]}

ElectionSafety ==
    /\ \A l \in Nodes :
           role[l] = "Leader" => Cardinality(Supporters(l)) >= Majority
    /\ \A l, m \in Nodes : role[l] = "Leader" /\ role[m] = "Leader" => l = m

(* A node votes once in a term: a vote changes only with the term.         *)
OneVotePerTerm ==
    [][\A i \in Nodes : voted_for'[i] # voted_for[i] =>
           current_term'[i] > current_term[i]]_vars

(* Nothing is committed that is not in the log, on any node, whichever     *)
(* leaders replicated and however long their logs were.                    *)
CommitWithinLog == \A i \in Nodes : commit_index[i] <= Len(log[i])

(* State machine safety: two nodes that have both committed an index hold  *)
(* the same entry there.                                                   *)
CommittedAgree ==
    \A i, j \in Nodes :
        \A k \in 1 .. commit_index[i] :
            k <= commit_index[j] => log[i][k] = log[j][k]

(* As long as one node only has replicated, through any number of          *)
(* elections it wins, and loses without another one replicating: the       *)
(* committed entries of all nodes agree and a majority has committed       *)
(* everything in the writer's log.                                         *)
SteadyWriterCommits ==
    \A l \in Nodes : writers = {l} =>
        /\ CommittedAgree
        /\ Cardinality({i \in Nodes : commit_index[i] = Len(log[l])}) >= Majority
=============================================================================
