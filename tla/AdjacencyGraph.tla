--------------------------- MODULE AdjacencyGraph ---------------------------
(***************************************************************************)
(* The class Graph of src/src/graph/graph.cpp: adjacency lists in the      *)
(* order in which edges were added, and a counter of edges.  A graph is    *)
(* built and changed by a sequence of add_edge and remove_edge.            *)
(*                                                                         *)
(* A graph has one of two builders.  A library caller adds and removes     *)
(* edges in any order.  The interpreter translates an adjacency matrix     *)
(* row by row (graph_from_adjacency, graph_from_adjacency_undirected):     *)
(* edges come in lexicographic order, each pair once, and stay.            *)
(*                                                                         *)
(* An edge has one of the weights its graph's pattern gives the pair, a    *)
(* parallel edge more than the ones before it.                             *)
(***************************************************************************)
EXTENDS Integers, Sequences, FiniteSets, SequencesExt

CONSTANTS Shapes,          \* [n, directed, builder, pattern, edges, copies, loops] of the graphs
          Weights(_, _, _) \* the weights the pair u, v may have in a pattern

ASSUME ShapesAssumption == \A s \in Shapes : s.n \in Nat /\ s.directed \in BOOLEAN
ASSUME WeightsAssumption == \A s \in Shapes : \A u, v \in 0 .. s.n - 1 :
  Weights(s.pattern, u, v) \subseteq Int

VARIABLES shape,      \* the parameters of this graph
          adj,        \* adj_: for every vertex its list of <<neighbour, weight>>
          n_edges,    \* n_edges_
          irregular   \* a remove_edge did not remove exactly one edge

vars == <<shape, adj, n_edges, irregular>>

n == shape.n
directed == shape.directed
Vertex == 0 .. n - 1

To(nbr) == nbr[1]
W(nbr) == nbr[2]

(* The elements of s that are in S, in their order.  It is a SelectSeq, by *)
(* a recursion that the proofs can follow.                                 *)
Within(s, S) ==
  LET within[k \in 0 .. Len(s)] ==
        IF k = 0 THEN <<>>
        ELSE IF s[k] \in S THEN Append(within[k - 1], s[k]) ELSE within[k - 1]
  IN  within[Len(s)]

(* Entries that lead into V, and those of the list of u that lead to v. *)
Into(V) == V \X Int
Entries(g, u, v) == Within(g[u], Into({v}))

Added(g, u, v, w) ==
  LET one == [g EXCEPT ![u] = Append(@, <<v, w>>)]
  IN  IF directed THEN one ELSE [one EXCEPT ![v] = Append(@, <<u, w>>)]

(* Mutant: the entry in the list of the other end stays. *)
BugRemoved(g, u, v) == [g EXCEPT ![u] = Within(@, Into(Vertex \ {v}))]

(* Every entry of the pair goes, however many there are. *)
Removed(g, u, v) ==
  LET one == [g EXCEPT ![u] = Within(@, Into(Vertex \ {v}))]
  IN  IF directed THEN one ELSE [one EXCEPT ![v] = Within(@, Into(Vertex \ {u}))]

(***************************************************************************)
(* edges(): in a directed graph every entry, in an undirected one every    *)
(* entry that leads to no smaller vertex, in the order of the lists.       *)
(***************************************************************************)
Arc(u, nbr) == [from |-> u, to |-> To(nbr), weight |-> W(nbr)]
Outgoing(u) == Within(adj[u], Into(IF directed THEN Vertex ELSE u .. n - 1))
edges ==
  FlattenSeq([i \in 1 .. n |->
    LET out == Outgoing(i - 1) IN [k \in DOMAIN out |-> Arc(i - 1, out[k])]])

(* The last pair a matrix in row order has contributed, or none. *)
Later(u, v) == \A a \in Vertex : \A k \in DOMAIN adj[a] :
  a * n + To(adj[a][k]) < u * n + v \/ (~directed /\ To(adj[a][k]) < a)

add_edge(u, v, weight) ==
  /\ ~irregular
  /\ n_edges < shape.edges
  /\ u # v \/ shape.loops
  /\ Len(Entries(adj, u, v)) < shape.copies
  /\ shape.builder = "matrix" => Later(u, v) /\ (directed \/ u < v)
  /\ adj' = Added(adj, u, v, weight + Len(Entries(adj, u, v)))
  /\ n_edges' = n_edges + 1
  /\ UNCHANGED <<shape, irregular>>

(***************************************************************************)
(* The counter goes down by one, whether the pair had one edge, several or *)
(* none.  Once the two differ nothing brings them together again, and the  *)
(* runs go no further.                                                     *)
(***************************************************************************)
remove_edge(u, v) ==
  /\ ~irregular
  /\ shape.builder = "library"
  /\ adj' = Removed(adj, u, v)
  /\ n_edges' = n_edges - 1
  /\ irregular' = (Len(Entries(adj, u, v)) # 1)
  /\ UNCHANGED shape

Init ==
  /\ shape \in Shapes
  /\ adj = [v \in Vertex |-> <<>>]
  /\ n_edges = 0
  /\ irregular = FALSE

Next == \E u, v \in Vertex :
  (\E weight \in Weights(shape.pattern, u, v) : add_edge(u, v, weight)) \/ remove_edge(u, v)

Spec == Init /\ [][Next]_vars

-----------------------------------------------------------------------------

(***************************************************************************)
(* The lists describe one graph, whatever was added and removed.  The      *)
(* entries of an undirected graph come in pairs, one at each end with the  *)
(* same weights; edges() lists every edge once; and the counter that       *)
(* is_tree, eulerian_path and is_isomorphic trust is their number, as long *)
(* as every removal removed one edge.                                      *)
(***************************************************************************)
GraphKept ==
  /\ \A v \in Vertex : adj[v] \in Seq(Vertex \X Int)
  /\ ~directed => \A u, v \in Vertex :
       u # v => [k \in DOMAIN Entries(adj, u, v) |-> W(Entries(adj, u, v)[k])]
                = [k \in DOMAIN Entries(adj, v, u) |-> W(Entries(adj, v, u)[k])]
  /\ (~irregular /\ (directed \/ ~shape.loops)) => n_edges = Len(edges)
  /\ \A u, v \in Vertex :
       (directed \/ u < v) =>
         Len(Entries(adj, u, v)) = Len(Within(edges, [from : {u}, to : {v}, weight : Int]))

=============================================================================
