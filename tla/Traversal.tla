------------------------------ MODULE Traversal -----------------------------
(***************************************************************************)
(* The searches of src/src/graph/graph.cpp as functions of a graph given   *)
(* by its adjacency lists: orders and components, strongly connected       *)
(* components, the low-link searches for cut vertices, bridges and blocks, *)
(* two-colouring and the core numbers.  Arrays of the code are functions   *)
(* of vertices, and the state of a recursive search is one record.         *)
(***************************************************************************)
EXTENDS AdjacencyGraph

Nbrs(g, v) == [k \in DOMAIN g[v] |-> To(g[v][k])]
Least(a, b) == IF a <= b THEN a ELSE b
InOrder == [i \in 1 .. n |-> i - 1]

-----------------------------------------------------------------------------
(* Breadth and depth first *)

RECURSIVE BfsFrom(_, _, _)
BfsFrom(g, q, head) ==
  IF head > Len(q) THEN q
  ELSE BfsFrom(g, FoldLeft(LAMBDA seen, u : IF Contains(seen, u) THEN seen ELSE Append(seen, u),
                           q, Nbrs(g, q[head])),
               head + 1)

(* The queue is never popped, so it ends up as the order of the visits. *)
bfs(g, source) == BfsFrom(g, <<source>>, 1)

RECURSIVE DfsFrom(_, _, _)
DfsFrom(g, stk, order) ==
  IF stk = <<>> THEN order
  ELSE LET v == Last(stk)
           visited == Append(order, v)
       IN  IF Contains(order, v) THEN DfsFrom(g, Front(stk), order)
           ELSE DfsFrom(g, Front(stk) \o SelectSeq(Nbrs(g, v), LAMBDA u : ~Contains(visited, u)),
                        visited)

dfs(g, source) == DfsFrom(g, <<source>>, <<>>)

connected_components(g) ==
  FoldLeft(LAMBDA comps, v : IF \E i \in DOMAIN comps : Contains(comps[i], v) THEN comps
                             ELSE Append(comps, bfs(g, v)),
           <<>>, InOrder)

is_connected(g) == Len(bfs(g, 0)) = n
is_tree(g) == is_connected(g) /\ n_edges = n - 1

-----------------------------------------------------------------------------
(* Topological order *)

RECURSIVE KahnFrom(_, _, _)
KahnFrom(g, s, head) ==
  IF head > Len(s.q) THEN s.q
  ELSE KahnFrom(g, FoldLeft(LAMBDA t, u : [left |-> [t.left EXCEPT ![u] = @ - 1],
                                           q |-> IF t.left[u] = 1 THEN Append(t.q, u) ELSE t.q],
                            s, Nbrs(g, s.q[head])),
                head + 1)

(* topological_sort(): the order, or <<>> when the graph has a cycle. *)
topological_sort(g) ==
  LET indegree == [v \in Vertex |->
        FoldLeft(LAMBDA sum, u : sum + Len(Entries(g, u, v)), 0, InOrder)]
      order == KahnFrom(g, [left |-> indegree,
                            q |-> SelectSeq(InOrder, LAMBDA v : indegree[v] = 0)], 1)
  IN  IF Len(order) = n THEN order ELSE <<>>

is_dag(g) == directed /\ topological_sort(g) # <<>>

-----------------------------------------------------------------------------
(* Reachability and strongly connected components *)

(* The pairs of vertices the second of which is reached from the first. *)
transitive_closure(g) ==
  LET direct == {p \in Vertex \X Vertex : p[1] = p[2] \/ Contains(Nbrs(g, p[1]), p[2])}
      through(r, k) == r \cup {p \in Vertex \X Vertex : <<p[1], k>> \in r /\ <<k, p[2]>> \in r}
  IN  FoldLeft(through, direct, InOrder)

(* Mutant: a vertex that has left the stack still lowers the link. *)
BugLowerTo(s, v, u) == [s EXCEPT !.low[v] = Least(@, s.idx[u])]

(* The link of v after it has seen the visited neighbour u. *)
LowerTo(s, v, u) ==
  IF Contains(s.stk, u) THEN [s EXCEPT !.low[v] = Least(@, s.idx[u])] ELSE s

RECURSIVE Tarjan(_, _, _)
Tarjan(g, s, v) ==
  LET entered == [s EXCEPT !.idx[v] = s.counter, !.low[v] = s.counter,
                           !.counter = @ + 1, !.stk = Append(@, v)]
      done == FoldLeft(LAMBDA t, u :
                IF t.idx[u] # -1 THEN LowerTo(t, v, u)
                ELSE LET sub == Tarjan(g, t, u)
                     IN  [sub EXCEPT !.low[v] = Least(@, sub.low[u])],
                entered, Nbrs(g, v))
      bottom == SelectInSeq(done.stk, LAMBDA u : u = v)
  IN  IF done.low[v] # done.idx[v] THEN done
      ELSE [done EXCEPT !.stk = SubSeq(@, 1, bottom - 1),
                        !.sccs = Append(@, Reverse(SubSeq(done.stk, bottom, Len(done.stk))))]

strongly_connected_components(g) ==
  FoldLeft(LAMBDA s, v : IF s.idx[v] = -1 THEN Tarjan(g, s, v) ELSE s,
           [idx |-> [v \in Vertex |-> -1], low |-> [v \in Vertex |-> -1],
            counter |-> 0, stk |-> <<>>, sccs |-> <<>>], InOrder).sccs

-----------------------------------------------------------------------------
(* Cut vertices, bridges and blocks *)

Unsearched ==
  [timer |-> 0, disc |-> [v \in Vertex |-> -1], low |-> [v \in Vertex |-> -1],
   aps |-> {}, bridges |-> {}, stk |-> <<>>, blocks |-> {}]

Pair(u, v) == {u, v}

Entered(s, u) ==
  [s EXCEPT !.timer = @ + 1, !.disc[u] = s.timer + 1, !.low[u] = s.timer + 1]

(* A child that cannot climb above u, which is no root: u is a cut vertex. *)
Closes(s, u, v, parent) == parent # -1 /\ s.low[v] >= s.disc[u]

(* dfs_articulation_bridges(); entries that lead to the parent are skipped. *)
RECURSIVE ArticulationFrom(_, _, _, _)
ArticulationFrom(g, s, u, parent) ==
  LET see(t, v) ==
        IF v = parent THEN t
        ELSE IF t.s.disc[v] # -1
        THEN [t EXCEPT !.s.low[u] = Least(@, t.s.disc[v])]
        ELSE LET sub == ArticulationFrom(g, t.s, v, u)
                 low == Least(sub.low[u], sub.low[v])
             IN  [children |-> t.children + 1,
                  s |-> [sub EXCEPT !.low[u] = low,
                           !.aps = IF Closes(sub, u, v, parent) THEN @ \cup {u} ELSE @,
                           !.bridges = IF sub.low[v] > sub.disc[u] THEN @ \cup {Pair(u, v)} ELSE @]]
      done == FoldLeft(see, [children |-> 0, s |-> Entered(s, u)], Nbrs(g, u))
  IN  IF parent = -1 /\ done.children >= 2 THEN [done.s EXCEPT !.aps = @ \cup {u}] ELSE done.s

LowLinks(g) ==
  FoldLeft(LAMBDA s, v : IF s.disc[v] = -1 THEN ArticulationFrom(g, s, v, -1) ELSE s,
           Unsearched, InOrder)

articulation_points(g) == LowLinks(g).aps
bridges(g) == LowLinks(g).bridges

(* dfs_biconnected(): tree and back edges are stacked, and popped as a block. *)
RECURSIVE BlocksFrom(_, _, _, _)
BlocksFrom(g, s, u, parent) ==
  LET see(t, v) ==
        IF v = parent THEN t
        ELSE IF t.disc[v] = -1
        THEN LET sub == BlocksFrom(g, [t EXCEPT !.stk = Append(@, <<u, v>>)], v, u)
                 lowered == [sub EXCEPT !.low[u] = Least(@, sub.low[v])]
                 bottom == SelectLastInSeq(sub.stk, LAMBDA e : e = <<u, v>>)
             IN  IF sub.low[v] < sub.disc[u] THEN lowered
                 ELSE [lowered EXCEPT
                         !.stk = SubSeq(@, 1, bottom - 1),
                         !.blocks = @ \cup {SubSeq(sub.stk, bottom, Len(sub.stk))}]
        ELSE IF t.disc[v] < t.disc[u]
        THEN [t EXCEPT !.stk = Append(@, <<u, v>>), !.low[u] = Least(@, t.disc[v])]
        ELSE t
  IN FoldLeft(see, Entered(s, u), Nbrs(g, u))

(* The blocks, each the sequence of its edges without their direction. *)
biconnected_components(g) ==
  LET found == FoldLeft(LAMBDA s, v : IF s.disc[v] = -1 THEN BlocksFrom(g, s, v, -1) ELSE s,
                        Unsearched, InOrder).blocks
  IN  {[k \in DOMAIN b |-> Pair(b[k][1], b[k][2])] : b \in found}

-----------------------------------------------------------------------------
(* Two-colouring *)

RECURSIVE ColourFrom(_, _, _)
ColourFrom(g, s, head) ==
  IF head > Len(s.q) \/ ~s.ok THEN s
  ELSE LET v == s.q[head]
           see(t, u) == IF t.colour[u] = -1
                        THEN [t EXCEPT !.colour[u] = 1 - t.colour[v], !.q = Append(@, u)]
                        ELSE [t EXCEPT !.ok = @ /\ t.colour[u] # t.colour[v]]
       IN  ColourFrom(g, FoldLeft(see, s, Nbrs(g, v)), head + 1)

is_bipartite(g) ==
  FoldLeft(LAMBDA s, v : IF s.colour[v] # -1 \/ ~s.ok THEN s
                         ELSE ColourFrom(g, [s EXCEPT !.colour[v] = 0, !.q = <<v>>], 1),
           [colour |-> [v \in Vertex |-> -1], q |-> <<>>, ok |-> TRUE], InOrder).ok

-----------------------------------------------------------------------------
(* Core numbers: vertices sorted by degree and peeled, bucket by bucket *)

Lowers(s, u, k) == s.deg[u] > k

(* u loses a neighbour: it becomes the first of its bucket, which shrinks. *)
MovedDown(s, u) ==
  LET d == s.deg[u]
      first == s.vert[s.bin[d]]
  IN  [s EXCEPT !.vert[s.bin[d]] = u, !.vert[s.pos[u]] = first,
                !.pos[u] = s.bin[d], !.pos[first] = s.pos[u],
                !.bin[d] = @ + 1, !.deg[u] = @ - 1]

RECURSIVE Peel(_, _, _, _)
Peel(g, s, k, i) ==
  LET top == Max(DOMAIN s.bin) IN
  IF i < (IF k < top THEN s.bin[k + 1] ELSE n)
  THEN LET v == s.vert[i]
       IN  Peel(g, FoldLeft(LAMBDA t, u : IF Lowers(t, u, k) THEN MovedDown(t, u) ELSE t,
                            [s EXCEPT !.core[v] = k], Nbrs(g, v)), k, i + 1)
  ELSE IF k < top THEN Peel(g, s, k + 1, s.bin[k + 1]) ELSE s

(* k_core_decomposition() of an undirected graph. *)
k_core_decomposition(g) ==
  LET deg == [v \in Vertex |-> Len(g[v])]
      before(u, v) == deg[u] < deg[v] \/ (deg[u] = deg[v] /\ u < v)
      pos == [v \in Vertex |-> Cardinality({u \in Vertex : before(u, v)})]
      vert == [i \in Vertex |-> CHOOSE v \in Vertex : pos[v] = i]
      bin == [d \in 0 .. Max(Range(deg)) |-> Cardinality({u \in Vertex : deg[u] < d})]
  IN  Peel(g, [deg |-> deg, pos |-> pos, vert |-> vert, bin |-> bin,
               core |-> [v \in Vertex |-> 0]], 0, 0).core

=============================================================================
