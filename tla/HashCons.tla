------------------------------ MODULE HashCons -------------------------------
(* What sym2::make() promises its callers: asking for an expression returns   *)
(* the one live node that represents it, as if each request were atomic.      *)
EXTENDS Naturals, Sequences, Functions

CONSTANTS Threads, Nodes, Labels, Arity

VARIABLES node, alive, dying, held

vars == <<node, alive, dying, held>>

Expression == UNION {[label : {l}, args : [1..Arity[l] -> Nodes]] : l \in Labels}
NoExpression == [label |-> "none", args |-> <<>>]

Init ==
  /\ node = [n \in Nodes |-> NoExpression]
  /\ alive = {} /\ dying = {}
  /\ held = [t \in Threads |-> {}]

Owns(m, n) == n \in Range(node[m].args)

(* An expression is asked for in terms of children the caller holds.          *)
Intern(t, e) ==
  /\ Range(e.args) \subseteq held[t]
  /\ \/ \E n \in alive :
          /\ node[n] = e
          /\ held' = [held EXCEPT ![t] = @ \cup {n}]
          /\ UNCHANGED <<node, alive>>
     \/ \E n \in Nodes \ (alive \cup dying) :
          /\ \A m \in alive : node[m] # e
          /\ node' = [node EXCEPT ![n] = e]
          /\ alive' = alive \cup {n}
          /\ held' = [held EXCEPT ![t] = @ \cup {n}]
  /\ UNCHANGED dying

(* Releasing the last handle of a node kills it; its destructor then releases *)
(* its children, which may die in turn.                                       *)
Drop(t, n) ==
  /\ n \in held[t]
  /\ held' = [held EXCEPT ![t] = @ \ {n}]
  /\ IF \E u \in Threads : n \in held'[u] \/ \E m \in alive \cup dying : Owns(m, n)
       THEN UNCHANGED <<alive, dying>>
       ELSE alive' = alive \ {n} /\ dying' = dying \cup {n}
  /\ UNCHANGED node

Destroy(n) ==
  /\ n \in dying
  /\ LET owners == (alive \cup dying) \ {n}
         orphans == {k \in Range(node[n].args) :
                       /\ \A u \in Threads : k \notin held[u]
                       /\ \A m \in owners : ~Owns(m, k)}
     IN /\ alive' = alive \ orphans
        /\ dying' = (dying \ {n}) \cup orphans
  /\ node' = [node EXCEPT ![n] = NoExpression]
  /\ UNCHANGED held

Next ==
  \/ \E t \in Threads, e \in Expression : Intern(t, e)
  \/ \E t \in Threads, n \in Nodes : Drop(t, n)
  \/ \E n \in Nodes : Destroy(n)

Spec == Init /\ [][Next]_vars
=============================================================================
