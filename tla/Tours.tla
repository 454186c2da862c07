-------------------------------- MODULE Tours -------------------------------
(***************************************************************************)
(* Walks through every edge or every vertex of a graph, colourings and     *)
(* isomorphisms, from src/src/graph/graph.cpp.  The backtracking searches  *)
(* return the first answer in the order in which they try vertices, or     *)
(* <<>> when every attempt has failed.                                     *)
(***************************************************************************)
EXTENDS Traversal

Degree(g, v) == Len(g[v])

(* greedy_colour(): the first colour no coloured neighbour has. *)
greedy_colour(g) ==
  LET used(colour, v) == {colour[u] : u \in Range(Nbrs(g, v))}
      first(taken) == CHOOSE c \in 0 .. n : c \notin taken /\ \A b \in 0 .. c - 1 : b \in taken
  IN  FoldLeft(LAMBDA colour, v : [colour EXCEPT ![v] = first(used(colour, v))],
               [v \in Vertex |-> -1], InOrder)

-----------------------------------------------------------------------------
(* Hierholzer's walk *)

(* The edges at v that have not been walked, from whichever end. *)
Unused(es, used, v) == {i \in DOMAIN es : v \in {es[i].from, es[i].to} /\ i \notin used}

RECURSIVE EdgeWalk(_, _, _, _)
EdgeWalk(es, used, stk, circuit) ==
  IF stk = <<>> THEN Reverse(circuit)
  ELSE LET v == Last(stk)
           i == Min(Unused(es, used, v))
       IN  IF Unused(es, used, v) = {} THEN EdgeWalk(es, used, Front(stk), Append(circuit, v))
           ELSE EdgeWalk(es, used \cup {i}, Append(stk, es[i].from + es[i].to - v), circuit)

(* eulerian_path(): of the graph whose edges() and counter these are. *)
eulerian_path(g) ==
  LET met == SelectSeq(InOrder, LAMBDA v : Degree(g, v) > 0)
      odd == SelectSeq(InOrder, LAMBDA v : Degree(g, v) % 2 # 0)
      none == [has_circuit |-> FALSE, has_path |-> FALSE, path |-> <<>>]
  IN  IF n_edges = 0 THEN [has_circuit |-> TRUE, has_path |-> TRUE, path |-> <<>>]
      ELSE IF ~(Range(met) \subseteq Range(bfs(g, met[1]))) \/ Len(odd) \notin {0, 2} THEN none
      ELSE [has_circuit |-> odd = <<>>, has_path |-> TRUE,
            path |-> EdgeWalk(edges, {}, <<IF odd = <<>> THEN met[1] ELSE odd[1]>>, <<>>)]

(* hamiltonian_path(): by depth-first search from vertex 0. *)
RECURSIVE Extended(_, _)
Extended(g, path) ==
  IF Len(path) = n THEN path
  ELSE FoldLeft(LAMBDA found, u : IF found # <<>> \/ Contains(path, u) THEN found
                                  ELSE Extended(g, Append(path, u)),
                <<>>, Nbrs(g, Last(path)))

hamiltonian_path(g) == Extended(g, <<0>>)

-----------------------------------------------------------------------------
(* Isomorphism *)

has_edge(g, u, v) == Contains(Nbrs(g, u), v)

in_out_degree(g, v) ==
  <<FoldLeft(LAMBDA sum, u : sum + Len(Entries(g, u, v)), 0, InOrder), Degree(g, v)>>

(* v may stand for the next vertex after the ones mapping has placed. *)
Consistent(g, h, mapping, v) ==
  LET u == Len(mapping)
  IN  /\ ~Contains(mapping, v) /\ in_out_degree(g, u) = in_out_degree(h, v)
      /\ \A w \in 0 .. u - 1 :
           /\ has_edge(g, u, w) = has_edge(h, v, mapping[w + 1])
           /\ directed => has_edge(g, w, u) = has_edge(h, mapping[w + 1], v)

RECURSIVE isomorphic_backtrack(_, _, _)
isomorphic_backtrack(g, h, mapping) ==
  Len(mapping) = n \/ \E v \in Vertex :
    Consistent(g, h, mapping, v) /\ isomorphic_backtrack(g, h, Append(mapping, v))

(* is_isomorphic(), of graphs of one kind with as many vertices and edges. *)
is_isomorphic(g, h) ==
  LET degrees(x) == BagOfAll(LAMBDA v : in_out_degree(x, v), SetToBag(Vertex))
  IN  degrees(g) = degrees(h) /\ isomorphic_backtrack(g, h, <<>>)

-----------------------------------------------------------------------------
(* A round trip by way of every vertex, over distances d *)

tour_cycle_length(d, tour) ==
  FoldLeft(LAMBDA sum, i : sum + d[tour[i], tour[1 + (i % n)]], 0, [i \in 1 .. n |-> i])

(* From every vertex to the nearest one not yet visited. *)
nearest_neighbor_tour(d, start) ==
  FoldLeft(LAMBDA tour, step :
             LET rest == Vertex \ Range(tour)
                 far(v) == d[Last(tour), v]
             IN  Append(tour, Min({v \in rest : \A u \in rest : far(v) <= far(u)})),
           <<start>>, [i \in 1 .. n - 1 |-> i])

(* What the tour gains when the stretch after i up to j is walked backwards. *)
Delta(d, tour, i, j) ==
  LET a == tour[i + 1]  b == tour[1 + ((i + 1) % n)]
      x == tour[j + 1]  y == tour[1 + ((j + 1) % n)]
  IN  d[a, x] + d[b, y] - d[a, b] - d[x, y]

Reversals == {p \in Vertex \X Vertex : p[1] < p[2] /\ p[2] # p[1] + 1 /\ (p[2] + 1) % n # p[1]}

RECURSIVE TwoOpt(_, _, _)
TwoOpt(d, tour, iterations) ==
  LET gains == {<<Delta(d, tour, p[1], p[2]), p[1] * n + p[2]>> : p \in Reversals}
      best == CHOOSE g \in gains : \A h \in gains : g[1] < h[1] \/ (g[1] = h[1] /\ g[2] <= h[2])
      i == best[2] \div n
      j == best[2] % n
  IN  IF iterations = 0 \/ gains = {} \/ best[1] >= 0 THEN tour
      ELSE TwoOpt(d, SubSeq(tour, 1, i + 1) \o Reverse(SubSeq(tour, i + 2, j + 1))
                     \o SubSeq(tour, j + 2, n), iterations - 1)

tsp_heuristic(d, start, iterations) ==
  LET tour == TwoOpt(d, nearest_neighbor_tour(d, start), iterations)
  IN  [tour |-> tour, total_distance |-> tour_cycle_length(d, tour)]

=============================================================================
