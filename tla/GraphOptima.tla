----------------------------- MODULE GraphOptima ----------------------------
(***************************************************************************)
(* The optimisation algorithms of src/src/graph/graph.cpp as functions of  *)
(* a graph given by its adjacency lists: shortest paths, spanning trees    *)
(* and arborescences, maximum flow and minimum cut, and matchings.         *)
(* Weights are integers.  A priority queue is a set of <<key, vertex>>, of *)
(* which the least in lexicographic order is popped: no key is pushed      *)
(* twice for a vertex.                                                     *)
(***************************************************************************)
EXTENDS Traversal

INF == 1000

Before(a, b) == a[1] < b[1] \/ (a[1] = b[1] /\ a[2] < b[2])
Top(pq) == CHOOSE a \in pq : \A b \in pq : a = b \/ Before(a, b)

-----------------------------------------------------------------------------
(* Shortest paths *)

Shorter(dist, v, nd) == nd < dist[v]

Relaxed(s, v, nd, u) ==
  IF Shorter(s.dist, v, nd)
  THEN [s EXCEPT !.dist[v] = nd, !.parent[v] = u]
  ELSE s

From(source) ==
  [dist |-> [v \in Vertex |-> IF v = source THEN 0 ELSE INF], parent |-> [v \in Vertex |-> -1]]

RECURSIVE DijkstraFrom(_, _, _)
DijkstraFrom(g, s, pq) ==
  IF pq = {} THEN s
  ELSE LET d == Top(pq)[1]
           u == Top(pq)[2]
           done == FoldLeft(LAMBDA t, nbr : Relaxed(t, To(nbr), d + W(nbr), u), s, g[u])
           pushed == {<<done.dist[v], v>> : v \in {v \in Vertex : done.dist[v] # s.dist[v]}}
       IN  IF d > s.dist[u] THEN DijkstraFrom(g, s, pq \ {Top(pq)})
           ELSE DijkstraFrom(g, done, (pq \ {Top(pq)}) \cup pushed)

dijkstra(g, source) == DijkstraFrom(g, From(source), {<<0, source>>})

(* bellman_ford(): n - 1 rounds over edges(), after which no edge may shorten. *)
bellman_ford(source) ==
  LET relax(s, e) == IF s.dist[e.from] < INF
                     THEN Relaxed(s, e.to, s.dist[e.from] + e.weight, e.from) ELSE s
      done == FoldLeft(relax, From(source), FlattenSeq([i \in 1 .. n - 1 |-> edges]))
      settled(e) == done.dist[e.from] < INF =>
                      ~Shorter(done.dist, e.to, done.dist[e.from] + e.weight)
  IN  [ok |-> \A e \in Range(edges) : settled(e), dist |-> done.dist, parent |-> done.parent]

floyd_warshall(g) ==
  LET direct(u, v) ==
        LET ws == {W(g[u][k]) : k \in {k \in DOMAIN g[u] : To(g[u][k]) = v}}
                  \cup (IF u = v THEN {0} ELSE {INF})
        IN  Min(ws)
      shortened(d, k, i) ==
        IF d[i, k] >= INF THEN d
        ELSE FoldLeft(LAMBDA r, j : LET alt == d[i, k] + d[k, j]
                                    IN  IF d[k, j] < INF /\ alt < r[i, j] THEN [r EXCEPT ![i, j] = alt] ELSE r,
                      d, InOrder)
      through(d, k) == FoldLeft(LAMBDA r, i : shortened(r, k, i), d, InOrder)
  IN  FoldLeft(through, [p \in Vertex \X Vertex |-> direct(p[1], p[2])], InOrder)

(* eccentricity(), diameter() and radius() of the distances d floyd_warshall() finds. *)
Spread(d, v) ==
  IF \E u \in Vertex : d[v, u] >= INF THEN -1 ELSE Max({0} \cup {d[v, u] : u \in Vertex})

eccentricity(d) == [v \in Vertex |-> Spread(d, v)]

diameter(d) ==
  LET apart == {d[p] : p \in Vertex \X Vertex}
  IN  IF Max(apart) >= INF THEN -1 ELSE Max({0} \cup apart)

radius(d) ==
  LET farthest == {Max({0} \cup {d[v, u] : u \in Vertex}) : v \in Vertex}
  IN  IF Max(farthest) >= INF THEN -1 ELSE Min(farthest)

RECURSIVE PathTo(_, _)
PathTo(parent, v) == IF v = -1 THEN <<>> ELSE Append(PathTo(parent, parent[v]), v)

(* astar(): a vertex is expanded once; the path, or <<>> when there is none. *)
RECURSIVE AstarFrom(_, _, _, _, _, _)
AstarFrom(g, s, pq, closed, target, h) ==
  IF pq = {} THEN <<>>
  ELSE LET v == Top(pq)[2]
           rest == pq \ {Top(pq)}
           done == FoldLeft(LAMBDA t, nbr : Relaxed(t, To(nbr), s.dist[v] + W(nbr), v), s, g[v])
           pushed == {<<done.dist[u] + h[u], u>> : u \in {u \in Vertex : done.dist[u] # s.dist[u]}}
       IN  IF v = target THEN PathTo(s.parent, target)
           ELSE IF v \in closed THEN AstarFrom(g, s, rest, closed, target, h)
           ELSE AstarFrom(g, done, rest \cup pushed, closed \cup {v}, target, h)

astar(g, source, target, h) ==
  AstarFrom(g, From(source), {<<h[source], source>>}, {}, target, h)

-----------------------------------------------------------------------------
(* Spanning trees *)

RECURSIVE find(_, _)
find(parent, x) == IF parent[x] = x THEN x ELSE find(parent, parent[x])

(* UnionFind::unite(); find() shortens the paths, which changes no root. *)
Unite(uf, a, b) ==
  LET ra == find(uf.parent, a)
      rb == find(uf.parent, b)
      hi == IF uf.rank[ra] < uf.rank[rb] THEN rb ELSE ra
      lo == IF hi = ra THEN rb ELSE ra
  IN  [parent |-> [uf.parent EXCEPT ![lo] = hi],
       rank |-> IF uf.rank[hi] = uf.rank[lo] THEN [uf.rank EXCEPT ![hi] = @ + 1] ELSE uf.rank]

Apart(uf, a, b) == find(uf.parent, a) # find(uf.parent, b)

mst_kruskal ==
  FoldLeft(LAMBDA s, e :
             IF Apart(s.uf, e.from, e.to)
             THEN [uf |-> Unite(s.uf, e.from, e.to), mst |-> Append(s.mst, e)] ELSE s,
           [uf |-> [parent |-> [v \in Vertex |-> v], rank |-> [v \in Vertex |-> 0]], mst |-> <<>>],
           SortSeq(edges, LAMBDA e, f : e.weight < f.weight)).mst

RECURSIVE PrimFrom(_, _, _)
PrimFrom(g, s, pq) ==
  IF pq = {} THEN s.mst
  ELSE LET d == Top(pq)[1]
           u == Top(pq)[2]
           rest == pq \ {Top(pq)}
           tree == s.tree \cup {u}
           done == FoldLeft(LAMBDA t, nbr : IF To(nbr) \in tree THEN t
                                            ELSE Relaxed(t, To(nbr), W(nbr), u), s.key, g[u])
           pushed == {<<done.dist[v], v>> : v \in {v \in Vertex : done.dist[v] # s.key.dist[v]}}
       IN  IF u \in s.tree THEN PrimFrom(g, s, rest)
           ELSE PrimFrom(g, [tree |-> tree, key |-> done,
                             mst |-> IF s.key.parent[u] = -1 THEN s.mst
                                     ELSE Append(s.mst, [from |-> s.key.parent[u], to |-> u, weight |-> d])],
                         rest \cup pushed)

mst_prim(g, start) ==
  PrimFrom(g, [tree |-> {}, key |-> From(start), mst |-> <<>>], {<<0, start>>})

-----------------------------------------------------------------------------
(* Minimum arborescence: m vertices, and arcs in the order of the lists *)

ByTail(m, arcs) ==
  FlattenSeq([i \in 1 .. m |-> SelectSeq(arcs, LAMBDA a : a.from = i - 1)])

(* The first of the cheapest arcs into v. *)
Cheapest(arcs, v) ==
  LET into == SelectSeq(arcs, LAMBDA a : a.to = v)
  IN  FoldLeft(LAMBDA best, a : IF a.weight < best.weight THEN a ELSE best, Head(into), into)

(* Vertices on a cycle of the chosen arcs: those that lead back to themselves. *)
OnCycle(pred, m) ==
  LET after(v, k) == FoldLeft(LAMBDA x, i : IF x \in DOMAIN pred THEN pred[x].from ELSE x,
                              v, [i \in 1 .. k |-> i])
  IN  {v \in DOMAIN pred : \E k \in 1 .. m : after(v, k) = v}

(* Mutant: entering the cycle does not give up the arc it replaces. *)
BugEntering(a, cycle, pred) == a.weight

(* The weight an arc has once the cycle is one vertex. *)
Entering(a, cycle, pred) ==
  IF a.to \in cycle /\ a.from \notin cycle THEN a.weight - pred[a.to].weight ELSE a.weight

Impossible == [total |-> INF, edges |-> <<>>]
Arborescence(es) == [total |-> FoldLeft(LAMBDA sum, e : sum + e.weight, 0, es), edges |-> es]

(* The chosen arcs into the vertices of S. *)
ChosenInto(pred, S) ==
  LET vs == SetToSortSeq(S, LAMBDA u, v : u < v)
  IN  [i \in DOMAIN vs |-> [from |-> pred[vs[i]].from, to |-> vs[i], weight |-> pred[vs[i]].weight]]

(* New numbers in the old order, the cycle with that of its first vertex. *)
Renumbered(m, cycle) ==
  LET kept(v) == {u \in 0 .. v - 1 : u \notin cycle \/ u = Min(cycle)}
  IN  [v \in 0 .. m - 1 |-> Cardinality(kept(IF v \in cycle THEN Min(cycle) ELSE v))]

(* The arcs between different new vertices; orig is the arc one stands for. *)
MadeSmaller(arcs, id, cycle, pred) ==
  SelectSeq([k \in DOMAIN arcs |->
               [from |-> id[arcs[k].from], to |-> id[arcs[k].to],
                weight |-> Entering(arcs[k], cycle, pred), orig |-> arcs[k]]],
            LAMBDA a : a.from # a.to)

(* What the first arc like e of the smaller graph stands for. *)
Original(proper, e) ==
  proper[SelectInSeq(proper, LAMBDA a : a.from = e.from /\ a.to = e.to /\ a.weight = e.weight)].orig

(* The arcs found, and those of the cycle but for the one into its entry. *)
Expanded(found, proper, cycle, super, pred) ==
  LET chosen == [k \in DOMAIN found |-> Original(proper, found[k])]
      entry == {chosen[k].to : k \in {k \in DOMAIN found : found[k].to = super}}
  IN  [k \in DOMAIN chosen |-> [from |-> chosen[k].from, to |-> chosen[k].to, weight |-> chosen[k].weight]]
        \o ChosenInto(pred, cycle \ entry)

(***************************************************************************)
(* edmonds_arborescence().  All vertices on any cycle of the cheapest arcs *)
(* become one vertex, and the smaller graph is solved in the same way.     *)
(***************************************************************************)
RECURSIVE Edmonds(_, _, _)
Edmonds(m, arcs, root) ==
  LET others == (0 .. m - 1) \ {root}
      pred == [v \in others |-> Cheapest(arcs, v)]
      cycle == OnCycle(pred, m)
      id == Renumbered(m, cycle)
      smaller == Cardinality(Range(id))
      proper == MadeSmaller(arcs, id, cycle, pred)
      sub == Edmonds(smaller, ByTail(smaller, proper), id[root])
  IN  IF m = 1 THEN Arborescence(<<>>)
      ELSE IF \E v \in others : \A k \in DOMAIN arcs : arcs[k].to # v THEN Impossible
      ELSE IF cycle = {} THEN Arborescence(ChosenInto(pred, others))
      ELSE IF Len(sub.edges) # smaller - 1 THEN Impossible
      ELSE Arborescence(Expanded(sub.edges, proper, cycle, id[Min(cycle)], pred))

min_arborescence(root) == Edmonds(n, edges, root)

-----------------------------------------------------------------------------
(* Maximum flow and minimum cut *)

(***************************************************************************)
(* The residual network: for every entry an arc with the weight as its     *)
(* capacity and one back with none; rev is the place of the arc's reverse  *)
(* in the list of its other end.                                           *)
(***************************************************************************)
Residual(g) ==
  FoldLeft(LAMBDA res, u :
    FoldLeft(LAMBDA r, nbr :
      LET v == To(nbr)
          there == Append(r[u], [to |-> v, cap |-> W(nbr), rev |-> Len(r[v]) + 1])
      IN  [r EXCEPT ![u] = there,
                    ![v] = Append(@, [to |-> u, cap |-> 0, rev |-> Len(there)])],
      res, g[u]),
    [v \in Vertex |-> <<>>], InOrder)

(* Vertices the breadth-first search reaches over arcs with capacity, by level. *)
RECURSIVE LevelsFrom(_, _, _)
LevelsFrom(res, level, q) ==
  IF q = <<>> THEN level
  ELSE LET v == Head(q)
           new == SelectSeq(res[v], LAMBDA a : a.cap > 0 /\ level[a.to] < 0)
           found == {new[k].to : k \in DOMAIN new}
       IN  LevelsFrom(res, [u \in Vertex |-> IF u \in found THEN level[v] + 1 ELSE level[u]],
                      Tail(q) \o SetToSeq(found))

Levels(res, source) ==
  LevelsFrom(res, [v \in Vertex |-> IF v = source THEN 0 ELSE -1], <<source>>)

(* Mutant: the reverse arc gains nothing. *)
BugPushed(res, v, i, d) == [res EXCEPT ![v][i].cap = @ - d]

(* d units go over the i-th arc of v. *)
Pushed(res, v, i, d) ==
  LET a == res[v][i] IN [res EXCEPT ![v][i].cap = @ - d, ![a.to][a.rev].cap = @ + d]

(***************************************************************************)
(* dfs_flow(): what can be pushed from v to the sink along rising levels,  *)
(* the network afterwards and, for every vertex, the arc it is at.         *)
(***************************************************************************)
RECURSIVE DfsFlow(_, _, _, _, _)
DfsFlow(s, level, v, sink, limit) ==
  IF v = sink THEN [s EXCEPT !.d = limit]
  ELSE IF s.iter[v] > Len(s.res[v]) THEN [s EXCEPT !.d = 0]
  ELSE LET a == s.res[v][s.iter[v]]
           sub == DfsFlow(s, level, a.to, sink, Least(limit, a.cap))
           usable == a.cap > 0 /\ level[a.to] = level[v] + 1
           onward == IF usable THEN sub ELSE s
       IN  IF usable /\ sub.d > 0 THEN [sub EXCEPT !.res = Pushed(sub.res, v, s.iter[v], sub.d)]
           ELSE DfsFlow([onward EXCEPT !.iter[v] = @ + 1], level, v, sink, limit)

RECURSIVE Blocking(_, _, _, _)
Blocking(s, level, source, sink) ==
  LET t == DfsFlow(s, level, source, sink, INF)
  IN  IF t.d = 0 THEN t ELSE Blocking([t EXCEPT !.flow = @ + t.d], level, source, sink)

RECURSIVE DinicFrom(_, _, _)
DinicFrom(s, source, sink) ==
  LET level == Levels(s.res, source)
      fresh == [s EXCEPT !.iter = [v \in Vertex |-> 1]]
  IN  IF level[sink] < 0 THEN s
      ELSE DinicFrom(Blocking(fresh, level, source, sink), source, sink)

dinic_max_flow_residual(g, source, sink) ==
  DinicFrom([res |-> Residual(g), iter |-> [v \in Vertex |-> 1], flow |-> 0, d |-> 0], source, sink)

max_flow(g, source, sink) == dinic_max_flow_residual(g, source, sink).flow

min_cut(g, source, sink) ==
  LET dinic == dinic_max_flow_residual(g, source, sink)
      level == Levels(dinic.res, source)
  IN  [value |-> dinic.flow,
       cut_edges |-> SelectSeq(edges, LAMBDA e : level[e.from] >= 0 /\ level[e.to] < 0)]

-----------------------------------------------------------------------------
(* Matchings *)

(* The bipartite one: dfs_aug() gives u a partner, moving others if it must. *)
RECURSIVE Augment(_, _, _, _)
Augment(g, s, u, left_size) ==
  FoldLeft(LAMBDA t, v :
    IF t.done \/ v < left_size \/ v \in t.visited THEN t
    ELSE LET seen == [t EXCEPT !.visited = @ \cup {v}]
             moved == IF seen.match[v] = -1 THEN [seen EXCEPT !.done = TRUE]
                      ELSE Augment(g, seen, seen.match[v], left_size)
         IN  IF moved.done THEN [moved EXCEPT !.match[v] = u] ELSE moved,
    s, Nbrs(g, u))

(* bipartite_match(): the size of the matching, or -1 when the graph is refused. *)
bipartite_match(g, left_size) ==
  IF ~is_bipartite(g) THEN -1
  ELSE FoldLeft(LAMBDA s, u :
         LET t == Augment(g, [s EXCEPT !.visited = {}, !.done = FALSE], u, left_size)
         IN  IF t.done THEN [t EXCEPT !.total = @ + 1] ELSE t,
         [match |-> [v \in Vertex |-> -1], visited |-> {}, done |-> FALSE, total |-> 0],
         [i \in 1 .. left_size |-> i - 1]).total

(***************************************************************************)
(* The general one.  The search for an augmenting path from an unmatched   *)
(* root marks, in parent, how an even vertex is reached, and contracts     *)
(* odd cycles: base is the vertex that stands for the blossom of each.     *)
(***************************************************************************)
RECURSIVE BasesUp(_, _)
BasesUp(s, a) ==
  LET b == s.base[a]
  IN  IF s.mate[b] = -1 THEN {b} ELSE {b} \cup BasesUp(s, s.parent[s.mate[b]])

RECURSIVE FirstOf(_, _, _)
FirstOf(s, marked, b) ==
  IF s.base[b] \in marked THEN s.base[b] ELSE FirstOf(s, marked, s.parent[s.mate[s.base[b]]])

lca(s, a, b) == FirstOf(s, BasesUp(s, a), b)

(* mark_path(): the bases between v and b belong to the new blossom. *)
RECURSIVE mark_path(_, _, _, _)
mark_path(s, v, b, child) ==
  IF s.base[v] = b THEN s
  ELSE mark_path([s EXCEPT !.blossom = @ \cup {s.base[v], s.base[s.mate[v]]}, !.parent[v] = child],
                 s.parent[s.mate[v]], b, s.mate[v])

(* The edge from v to the even vertex u closes an odd cycle, which shrinks. *)
Contracted(s, v, u) ==
  LET cur == lca(s, v, u)
      t == mark_path(mark_path([s EXCEPT !.blossom = {}], v, cur, u), u, cur, v)
      inside == SelectSeq(InOrder, LAMBDA i : t.base[i] \in t.blossom)
  IN  [t EXCEPT !.base = [i \in Vertex |-> IF @[i] \in t.blossom THEN cur ELSE @[i]],
                !.q = @ \o SelectSeq(inside, LAMBDA i : ~Contains(t.q, i))]

(* find_path() looks from v to its neighbour u; found is the free vertex it meets. *)
Look(s, root, v, u) ==
  IF s.found # -1 \/ s.base[v] = s.base[u] \/ s.mate[v] = u THEN s
  ELSE IF u = root \/ (s.mate[u] # -1 /\ s.parent[s.mate[u]] # -1) THEN Contracted(s, v, u)
  ELSE IF s.parent[u] # -1 THEN s
  ELSE IF s.mate[u] = -1 THEN [s EXCEPT !.parent[u] = v, !.found = u]
  ELSE [s EXCEPT !.parent[u] = v, !.q = Append(@, s.mate[u])]

RECURSIVE FindPath(_, _, _, _)
FindPath(g, s, root, head) ==
  IF head > Len(s.q) \/ s.found # -1 THEN s
  ELSE LET v == s.q[head]
           nbrs == SetToSortSeq(Range(Nbrs(g, v)) \ {v}, LAMBDA a, b : a < b)
       IN  FindPath(g, FoldLeft(LAMBDA t, u : Look(t, root, v, u), s, nbrs), root, head + 1)

(* The path back from v changes partners. *)
RECURSIVE Rematched(_, _, _)
Rematched(mate, parent, v) ==
  IF v = -1 THEN mate
  ELSE Rematched([mate EXCEPT ![v] = parent[v], ![parent[v]] = v], parent, mate[parent[v]])

maximum_matching(g) ==
  LET mates == FoldLeft(LAMBDA mate, root :
        IF mate[root] # -1 THEN mate
        ELSE LET s == FindPath(g, [mate |-> mate, parent |-> [v \in Vertex |-> -1],
                                   base |-> [v \in Vertex |-> v], blossom |-> {},
                                   q |-> <<root>>, found |-> -1], root, 1)
             IN  Rematched(mate, s.parent, s.found),
        [v \in Vertex |-> -1], InOrder)
  IN  {Pair(v, mates[v]) : v \in {v \in Vertex : mates[v] # -1}}

=============================================================================
