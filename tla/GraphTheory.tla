----------------------------- MODULE GraphTheory ----------------------------
(***************************************************************************)
(* What the answers of Traversal and GraphOptima mean, said without any of *)
(* their algorithms: by quantifying over vertex sets, edge sets, paths and *)
(* orders of one small graph.  The properties compare the two on every     *)
(* graph that can be built.                                                *)
(***************************************************************************)
EXTENDS GraphOptima, Planarity, Tours

Arcs == UNION {{<<v, To(adj[v][k])>> : k \in DOMAIN adj[v]} : v \in Vertex}
Sides == {Pair(a[1], a[2]) : a \in {a \in Arcs : a[1] # a[2]}}
Parallel == \E u, v \in Vertex : Len(Entries(adj, u, v)) > 1
Negative == \E v \in Vertex : \E k \in DOMAIN adj[v] : W(adj[v][k]) < 0

(* S and what one more of the arcs A leads to. *)
Beyond(A, S) == S \cup {a[2] : a \in {a \in A : a[1] \in S}}

(* What can be reached from S, or from u, over the arcs A. *)
RECURSIVE Closed(_, _)
Closed(A, S) == LET more == Beyond(A, S) IN IF more = S THEN S ELSE Closed(A, more)

ReachedBy(A, u) == Closed(A, {u})

Reached(u) == ReachedBy(Arcs, u)
Without(S) == {a \in Arcs : a[1] \notin S /\ a[2] \notin S}
BothWays(E) == {<<p[1], p[2]>> : p \in {p \in Vertex \X Vertex : Pair(p[1], p[2]) \in E}}

-----------------------------------------------------------------------------
(* Searches and orders *)

(* The vertices at most k arcs from u come first, for every k, in s. *)
RECURSIVE NearerFirst(_, _, _)
NearerFirst(s, A, S) ==
  LET more == Beyond(A, S)
  IN  Range(SubSeq(s, 1, Cardinality(S))) = S /\ (more = S \/ NearerFirst(s, A, more))

(* A breadth-first order: every reached vertex once, nearer ones first. *)
Breadth(s, u) == IsInjective(s) /\ Range(s) = Reached(u) /\ NearerFirst(s, Arcs, {u})

(* A depth-first order: a vertex that is passed over waits for a descendant. *)
Depth(s, u) ==
  LET arcs == Arcs IN
  /\ IsInjective(s) /\ Range(s) = Reached(u) /\ s[1] = u
  /\ \A c \in DOMAIN s : \A b \in 1 .. c - 1 : \A a \in 1 .. b - 1 :
       (<<s[a], s[c]>> \in arcs /\ <<s[a], s[b]>> \notin arcs) =>
         \E d \in a + 1 .. b - 1 : <<s[d], s[b]>> \in arcs

Acyclic == \A a \in Arcs : a[1] \notin Reached(a[2])

Topological(s) ==
  /\ IsInjective(s) /\ Range(s) = Vertex
  /\ \A i, j \in DOMAIN s : <<s[i], s[j]>> \in Arcs => i < j

Mutual(v) == {u \in Reached(v) : v \in Reached(u)}

(***************************************************************************)
(* The searches visit what is reachable in their order; the components are *)
(* the classes of mutual reachability, of a directed graph the last ones   *)
(* first; a topological order is found exactly when there is no cycle.     *)
(***************************************************************************)
SearchesExact ==
  /\ \A v \in Vertex : Breadth(bfs(adj, v), v) /\ Depth(dfs(adj, v), v)
  /\ transitive_closure(adj) = UNION {{u} \X Reached(u) : u \in Vertex}
  /\ ~directed =>
       /\ {Range(c) : c \in Range(connected_components(adj))} = {Mutual(v) : v \in Vertex}
       /\ is_connected(adj) = (Reached(0) = Vertex)
       /\ ~irregular /\ ~Parallel /\ ~shape.loops =>
            is_tree(adj) = (Reached(0) = Vertex /\ Cardinality(Sides) = n - 1)
  /\ directed =>
       LET sccs == strongly_connected_components(adj)
       IN  /\ {Range(sccs[i]) : i \in DOMAIN sccs} = {Mutual(v) : v \in Vertex}
           /\ \A i, j \in DOMAIN sccs : i < j =>
                \A u \in Range(sccs[i]), v \in Range(sccs[j]) : v \notin Reached(u)
           /\ is_dag(adj) = Acyclic
           /\ Acyclic => Topological(topological_sort(adj))

-----------------------------------------------------------------------------
(* What holds an undirected graph together *)

CutVertex(v) == \E a \in Vertex \ {v} : Reached(a) \ {v} # ReachedBy(Without({v}), a)

Bridge(e) == \A u, v \in e : u # v => v \notin ReachedBy(BothWays(Sides \ {e}), u)

(* The edges that no vertex separates from what is left of f. *)
Block(f) ==
  LET near(v) == UNION {ReachedBy(Without({v}), a) : a \in f \ {v}}
  IN  FoldLeft(LAMBDA es, v : LET part == near(v) IN {e \in es : (e \ {v}) \cap part # {}},
               Sides, InOrder)

(* The greatest number of neighbours everyone has in some part v is in. *)
Core(v) ==
  LET arcs == Arcs
      degree(u, S) == Cardinality({w \in S : <<u, w>> \in arcs})
  IN  Max({Min({degree(u, S) : u \in S}) : S \in {S \in SUBSET Vertex : v \in S}})

(***************************************************************************)
(* One depth-first search with low-links finds the vertices whose removal  *)
(* separates others, the edges whose removal does, and the classes of the  *)
(* edges no vertex separates, of which every edge is in one; peeling finds *)
(* the core numbers; and two colours are enough exactly when some set of   *)
(* vertices has every edge across it.  Without parallel edges and loops.   *)
(***************************************************************************)
CutsExact ==
  (~directed /\ ~Parallel /\ ~shape.loops) =>
    /\ articulation_points(adj) = {v \in Vertex : CutVertex(v)}
    /\ bridges(adj) = {e \in Sides : Bridge(e)}
    /\ LET blocks == biconnected_components(adj)
       IN  /\ {Range(b) : b \in blocks} = {Block(e) : e \in Sides}
           /\ \A b \in blocks : IsInjective(b)
    /\ k_core_decomposition(adj) = [v \in Vertex |-> Core(v)]
    /\ is_bipartite(adj) = \E S \in SUBSET Vertex : \A e \in Sides : Cardinality(e \cap S) = 1

-----------------------------------------------------------------------------
(* Drawings in the plane *)

(* Kuratowski's two graphs, as far as six vertices have room for them. *)
HasK33(E) ==
  n = 6 /\ \E A \in kSubset(3, Vertex) : \A a \in A, b \in Vertex \ A : Pair(a, b) \in E

(* Five vertices, all joined, one pair perhaps by way of the sixth. *)
HasK5(E) == \E A \in kSubset(5, Vertex) :
  LET apart == kSubset(2, A) \ E
  IN  apart = {} \/ \E p \in apart, x \in Vertex \ A : apart = {p} /\ \A a \in p : Pair(a, x) \in E

Drawable(E) == ~HasK33(E) /\ ~HasK5(E)

(* Where the walk along a face goes on from the arc a: the next one round. *)
Onward(around, a) ==
  LET order == around[a[2]]
      at == SelectInSeq(order, LAMBDA v : v = a[1])
  IN  <<a[2], order[1 + (at % Len(order))]>>

RECURSIVE FaceFrom(_, _)
FaceFrom(around, walk) ==
  LET next == Onward(around, Last(walk))
  IN  IF next = walk[1] THEN Range(walk) ELSE FaceFrom(around, Append(walk, next))

Face(around, a) == FaceFrom(around, <<a>>)

(* The orders list the neighbours, and every part has Euler's number of faces. *)
Draws(around) ==
  LET arcs == BothWays(Sides)
      inside == UNION Sides
      parts == {ReachedBy(arcs, v) : v \in inside}
      faces == {Face(around, a) : a \in arcs}
  IN  /\ \A v \in Vertex : IsInjective(around[v]) /\ Range(around[v]) = {u \in Vertex : <<v, u>> \in arcs}
      /\ Cardinality(inside) + Cardinality(faces) = Cardinality(Sides) + 2 * Cardinality(parts)

(***************************************************************************)
(* A graph is planar exactly when it holds neither of Kuratowski's graphs; *)
(* the order of the edges around every vertex is then that of a drawing    *)
(* without crossings, and otherwise the certificate is a part of the graph *)
(* that cannot be drawn but could with any one of its edges removed.       *)
(***************************************************************************)
PlanarityExact ==
  n <= 6 =>
    LET drawn(found) == found.ok /\ Draws(found.around)
        least(K) == K \subseteq Sides /\ ~Drawable(K) /\ \A e \in K : Drawable(K \ {e})
        certificate == {Pair(e.from, e.to) : e \in Range(kuratowski_subgraph(adj))}
    IN  /\ is_planar(adj) = Drawable(Sides)
        /\ IF Drawable(Sides) THEN drawn(planar_embedding(adj)) /\ certificate = {}
           ELSE ~planar_embedding(adj).ok /\ least(certificate)

-----------------------------------------------------------------------------
(* Tours, colours and isomorphisms *)

(* Pairs of a set and one of its members, a step from each to its successors. *)
Grown(ways, steps, more(_)) == FoldLeft(LAMBDA ws, i : UNION {more(w) : w \in ws}, ways, [i \in 1 .. steps |-> i])

(* The walks from v that use every edge once, by the vertices they end at. *)
EdgeWalksEnd(v) ==
  LET es == edges
      onward(w) == {<<w[1] \cup {i}, es[i].from + es[i].to - w[2]>> :
                    i \in {i \in DOMAIN es \ w[1] : w[2] \in {es[i].from, es[i].to}}}
  IN  {w[2] : w \in Grown({<<{}, v>>}, Len(es), onward)}

(* A round trip by way of every vertex: a way back to vertex 0 from the end *)
(* of a path that meets every vertex once.                                  *)
HasRoundTrip ==
  LET arcs == Arcs
      onward(w) == {<<w[1] \cup {u}, u>> : u \in {u \in Vertex \ w[1] : <<w[2], u>> \in arcs}}
  IN  \E w \in Grown({<<{0}, 0>>}, n - 1, onward) : <<w[2], 0>> \in arcs

Steps(path) == [i \in 1 .. Len(path) - 1 |-> <<path[i], path[i + 1]>>]

(* h is g with other names for the vertices. *)
Isomorphic(g, h) ==
  LET joined(x) == UNION {{v} \X Range(Nbrs(x, v)) : v \in Vertex}
      ones == joined(g)
      others == joined(h)
  IN  \E f \in Permutations(Vertex) : {<<f[p[1]], f[p[2]]>> : p \in ones} = others

(* The graph with its first edge moved to each pair that has none. *)
Moved ==
  LET e == Head(edges)
      free == {p \in Vertex \X Vertex : p[1] # p[2]} \ Arcs
  IN  {Added(Removed(adj, e.from, e.to), p[1], p[2], 1) : p \in free}

(***************************************************************************)
(* eulerian_path finds a walk over every edge once exactly when there is   *)
(* one, and says whether it comes back; what hamiltonian_path returns      *)
(* meets every vertex once, and it does not give up where a round trip by  *)
(* way of every vertex exists; colours differ across every edge and none   *)
(* could be lower; and a graph is isomorphic to another with as many edges *)
(* exactly when new names for its vertices make it the other.              *)
(***************************************************************************)
ToursExact ==
  LET found == eulerian_path(adj)
      path == hamiltonian_path(adj)
      colour == greedy_colour(adj)
      regular == ~irregular /\ ~Parallel /\ ~shape.loops
  IN
  /\ path # <<>> => Len(path) = n /\ IsInjective(path) /\ Range(Steps(path)) \subseteq Arcs
  /\ HasRoundTrip => path # <<>>
  /\ ~directed /\ ~shape.loops =>
       \A v \in Vertex : LET near == {colour[u] : u \in Range(Nbrs(adj, v))}
                          IN  colour[v] \notin near /\ 0 .. colour[v] - 1 \subseteq near
  /\ ~directed /\ regular =>
       /\ \A e \in Sides : Len(SelectSeq(Steps(found.path), LAMBDA a : Pair(a[1], a[2]) = e))
                            = IF found.has_path THEN 1 ELSE 0
       /\ found.has_path /\ Sides # {} => Len(found.path) = Len(edges) + 1
       /\ found.has_circuit /\ Sides # {} => found.path[1] = Last(found.path)
       /\ Len(edges) <= 6 =>
            /\ found.has_path = \E v \in Vertex : EdgeWalksEnd(v) # {}
            /\ found.has_circuit = \E v \in Vertex : v \in EdgeWalksEnd(v)
  /\ n <= 4 /\ regular /\ edges # <<>> =>
       \A h \in Moved : is_isomorphic(adj, h) = Isomorphic(adj, h)

(* All four: what can be told from the shape of a graph alone. *)
StructureFound == SearchesExact /\ CutsExact /\ PlanarityExact /\ ToursExact

-----------------------------------------------------------------------------
(* Distances *)

(* Every vertex at the end of a path from u that meets none twice, with its cost. *)
RECURSIVE PathCosts(_, _, _)
PathCosts(u, cost, avoid) ==
  {<<u, cost>>} \cup UNION {PathCosts(To(e), cost + W(e), avoid \cup {u}) :
                             e \in {e \in Range(adj[u]) : To(e) \notin avoid \cup {u}}}

(* What the cheapest path from u to v costs, for every v. *)
Distances(u) ==
  LET ends == PathCosts(u, 0, {})
  IN  [v \in Vertex |-> Min({INF} \cup {e[2] : e \in {e \in ends : e[1] = v}})]

(* The larger undirected graphs have one weight, and are there for their shape. *)
Weighed == directed \/ n <= 5

(* Vertices that lie on a cycle of negative weight, by the distances D. *)
OnNegativeCycle(D) ==
  {v \in Vertex : \E k \in DOMAIN adj[v] :
     LET back == D[To(adj[v][k])][v] IN back < INF /\ W(adj[v][k]) + back < 0}

(* The parents lead to every reached vertex at the cost of its distance. *)
Leads(s, source) == \A v \in Vertex :
  IF s.dist[v] >= INF \/ v = source THEN s.parent[v] = -1
  ELSE \E k \in DOMAIN adj[s.parent[v]] :
         /\ To(adj[s.parent[v]][k]) = v
         /\ s.dist[v] = s.dist[s.parent[v]] + W(adj[s.parent[v]][k])

Walked(path) == FoldLeft(LAMBDA sum, i :
  sum + Min({W(e) : e \in Range(Entries(adj, path[i], path[i + 1]))}),
  0, [i \in 1 .. Len(path) - 1 |-> i])

(***************************************************************************)
(* Without negative weights every shortest-path algorithm finds the costs  *)
(* of the cheapest simple paths, with parents that lead there, A* with no  *)
(* heuristic and with one of half the distance; with negative ones         *)
(* Bellman-Ford of a directed graph refuses exactly the sources from which *)
(* a negative cycle is reached, and Floyd-Warshall is right without one.   *)
(***************************************************************************)
DistancesExact ==
  Weighed =>
    LET D == [u \in Vertex |-> Distances(u)]
        trap == OnNegativeCycle(D)
        right(s, path, t) ==
          IF D[s][t] >= INF THEN path = <<>>
          ELSE path # <<>> /\ path[1] = s /\ Last(path) = t /\ Walked(path) = D[s][t]
    IN
    /\ D \in [Vertex -> [Vertex -> Int]]
    /\ ~Negative => \A s \in Vertex :
         /\ LET found == dijkstra(adj, s) IN found.dist = D[s] /\ Leads(found, s)
         /\ \A t \in Vertex :
              /\ right(s, astar(adj, s, t, [v \in Vertex |-> 0]), t)
              /\ right(s, astar(adj, s, t, [v \in Vertex |-> D[v][t] \div 2]), t)
    /\ directed => \A s \in Vertex :
         LET found == bellman_ford(s)
         IN  IF Reached(s) \cap trap # {} THEN ~found.ok
             ELSE found.ok /\ found.dist = D[s] /\ Leads(found, s)
    /\ trap = {} =>
         LET d == floyd_warshall(adj)
             unreached == \E u, v \in Vertex : D[u][v] >= INF
             hub(v, far) == /\ \A u \in Vertex : D[v][u] <= far
                            /\ \E u \in Vertex : D[v][u] = far
         IN  /\ d = [p \in Vertex \X Vertex |-> D[p[1]][p[2]]]
             /\ \A v \in Vertex : LET far == eccentricity(d)[v]
                                   IN  IF far = -1 THEN Reached(v) # Vertex ELSE hub(v, far)
             /\ IF unreached THEN diameter(d) = -1 /\ radius(d) = -1
                ELSE /\ \A v \in Vertex : \E far \in radius(d) .. diameter(d) : hub(v, far)
                     /\ \E v, u \in Vertex : hub(v, diameter(d)) /\ hub(u, radius(d))

-----------------------------------------------------------------------------
(* Trees *)

Total(es) == FoldLeft(LAMBDA sum, e : sum + e.weight, 0, es)
Listed(es) == Range(es) \subseteq Range(edges) \cup
                {[from |-> e.to, to |-> e.from, weight |-> e.weight] : e \in Range(edges)}
TreeArcs(es) == BothWays({Pair(e.from, e.to) : e \in Range(es)})

(* Weights of the sets of edges that join S and have one edge less than S. *)
TreeWeights(S) ==
  {Total(SetToSeq({edges[i] : i \in I})) :
     I \in {I \in kSubset(Cardinality(S) - 1, DOMAIN edges) :
              ReachedBy(TreeArcs([i \in I |-> edges[i]]), Min(S)) = S}}

(* es is a tree of the weight least that joins the vertices of S. *)
TreeOf(es, S, least) ==
  /\ Listed(es) /\ Len(es) = Cardinality(S) - 1
  /\ ReachedBy(TreeArcs(es), Min(S)) = S
  /\ Total(es) = least

(* Every other vertex has one arc in, from its parent, and all are reached. *)
ArborescenceWeights(root) ==
  LET parents == [Vertex \ {root} -> Vertex]
      spans(p) == LET arcs == {<<p[v], v>> : v \in DOMAIN p}
                  IN  arcs \subseteq Arcs /\ ReachedBy(arcs, root) = Vertex
      weight(p) == [v \in DOMAIN p |-> Min({W(e) : e \in Range(Entries(adj, p[v], v))})]
  IN  {FoldFunction(+, 0, weight(p)) : p \in {p \in parents : spans(p)}}

(***************************************************************************)
(* Kruskal's forest has a tree of least weight for every component, Prim's *)
(* the one of the component it starts in; and the arborescence reaches     *)
(* every vertex from the root at the least total, or is refused when none  *)
(* does: after one contraction, the only one graphs of this size need.     *)
(***************************************************************************)
TreesMinimal ==
  /\ (~directed /\ Weighed) =>
       \A S \in {Reached(v) : v \in Vertex} :
         LET least == Min(TreeWeights(S))
         IN  /\ TreeOf(SelectSeq(mst_kruskal, LAMBDA e : e.from \in S), S, least)
             /\ \A v \in S : TreeOf(mst_prim(adj, v), S, least)
  /\ (directed /\ n <= 4 /\ ~shape.loops) => \A root \in Vertex :
       LET found == min_arborescence(root)
           arcs == {<<found.edges[i].from, found.edges[i].to>> : i \in DOMAIN found.edges}
       IN  IF Reached(root) # Vertex THEN found = Impossible
           ELSE /\ Range(found.edges) \subseteq Range(edges) /\ Len(found.edges) = n - 1
                /\ ReachedBy(arcs, root) = Vertex
                /\ found.total = Total(found.edges)
                /\ found.total = Min(ArborescenceWeights(root))

(* The tour with the stretch from its i-th to its j-th stop walked backwards. *)
Backwards(tour, i, j) == [k \in DOMAIN tour |-> IF k \in i .. j THEN tour[i + j - k] ELSE tour[k]]

(***************************************************************************)
(* A round trip over the distances of a connected graph starts where it is *)
(* told to, stops everywhere once, is no longer than always going on to    *)
(* the nearest, and gets no shorter with any stretch walked backwards.     *)
(***************************************************************************)
RoundTripsShort ==
  (~directed /\ Weighed /\ Reached(0) = Vertex) =>
    LET d == floyd_warshall(adj)
    IN  \A s \in Vertex :
          LET found == tsp_heuristic(d, s, 1000)
              tour == found.tour
          IN  /\ tour[1] = s /\ IsInjective(tour) /\ Range(tour) = Vertex
              /\ found.total_distance <= tour_cycle_length(d, nearest_neighbor_tour(d, s))
              /\ \A i, j \in 1 .. n : found.total_distance <= tour_cycle_length(d, Backwards(tour, i, j))

(* All three: what the weights decide. *)
LeastFound == DistancesExact /\ TreesMinimal /\ RoundTripsShort

-----------------------------------------------------------------------------
(* Flows and matchings *)

Crossing(S) ==
  LET across(v) == SelectSeq(adj[v], LAMBDA nbr : To(nbr) \notin S)
      out(v) == FoldLeft(LAMBDA sum, nbr : sum + W(nbr), 0, across(v))
  IN  FoldFunctionOnSet(+, 0, [v \in Vertex |-> out(v)], S)

(* The greatest number of edges of E no two of which share a vertex. *)
RECURSIVE MatchingNumber(_)
MatchingNumber(E) ==
  IF E = {} THEN 0
  ELSE LET e == CHOOSE e \in E : TRUE
       IN  Max({MatchingNumber(E \ {e}), 1 + MatchingNumber({f \in E : f \cap e = {}})})

(* The left side is 0 .. left - 1, and every arc goes across from it. *)
Across(left) == \A a \in Arcs :
  IF directed THEN a[1] < left /\ a[2] >= left ELSE (a[1] < left) # (a[2] < left)

(***************************************************************************)
(* The flow has the capacity of the least cut, and the edges min_cut lists *)
(* are such a cut of a directed graph; the matchings, of a two-sided graph *)
(* and of any, are matchings and have the greatest number of edges.        *)
(***************************************************************************)
FlowsExact ==
  /\ Weighed /\ ~Negative => \A s, t \in Vertex : s # t /\ (directed \/ s = 0) =>
       LET least == Min({Crossing(S \cup {s}) : S \in SUBSET (Vertex \ {s, t})})
           cut == min_cut(adj, s, t)
           kept == Arcs \ {<<e.from, e.to>> : e \in Range(cut.cut_edges)}
       IN  /\ max_flow(adj, s, t) = least
           /\ cut.value = least
           /\ directed => Total(cut.cut_edges) = least /\ t \notin ReachedBy(kept, s)
  /\ \A left \in 1 .. n - 1 :
       Across(left) => bipartite_match(adj, left) = MatchingNumber(Sides)
  /\ ~directed =>
       LET found == maximum_matching(adj)
       IN  /\ found \subseteq Sides
           /\ \A e, f \in found : e = f \/ e \cap f = {}
           /\ Cardinality(found) = MatchingNumber(Sides)

=============================================================================
