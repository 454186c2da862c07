------------------------------ MODULE Planarity -----------------------------
(***************************************************************************)
(* The Left-Right planarity test of src/src/graph/graph.cpp (LRPlanarity)  *)
(* and what is built on it.  Three depth-first passes share one record:    *)
(* the first orients the edges, the second keeps a stack of conflict pairs *)
(* of back edges that must lie on opposite sides of the tree path, and the *)
(* third turns sides into the order of the edges around every vertex.      *)
(*                                                                         *)
(* An edge is its place in canonical_simple_edges, and 0 stands for none.  *)
(* The explicit stacks of the passes are recursion here, and the circular  *)
(* list of a vertex, two maps and its first member, is a sequence.         *)
(***************************************************************************)
EXTENDS Traversal

None == 0

(* Every pair joined in either direction once, in order, at its heaviest. *)
canonical_simple_edges(g) ==
  LET weights(u, v) == {W(e) : e \in Range(Entries(g, u, v) \o Entries(g, v, u))}
  IN  FlattenSeq([i \in 1 .. n |->
        LET u == i - 1
            others == SelectSeq(InOrder, LAMBDA v : u < v /\ weights(u, v) # {})
        IN  [k \in DOMAIN others |->
               [from |-> u, to |-> others[k], weight |-> Max(weights(u, others[k]))]]])

-----------------------------------------------------------------------------
(* Orientation *)

Unoriented(E) ==
  LET none == [k \in DOMAIN E |-> None]
  IN  [height |-> [v \in Vertex |-> -1], parent |-> [v \in Vertex |-> None],
       src |-> [k \in DOMAIN E |-> -1], dst |-> [k \in DOMAIN E |-> -1],
       lowpt |-> none, lowpt2 |-> none, depth |-> none,
       out |-> [v \in Vertex |-> <<>>], planar |-> TRUE,
       S |-> <<>>, ref |-> none, side |-> [k \in DOMAIN E |-> 1],
       lowpt_edge |-> none, bottom |-> none]

(* The edges of v by number, each with its other end. *)
Incident(E, v) ==
  LET ends == SelectSeq([k \in DOMAIN E |-> k], LAMBDA k : v \in {E[k].from, E[k].to})
  IN  [i \in DOMAIN ends |-> [edge |-> ends[i], nbr |-> E[ends[i]].from + E[ends[i]].to - v]]

(* Where k, now known to return, lets the edge e into its vertex return to. *)
Returns(s, e, k) ==
  IF s.lowpt[k] < s.lowpt[e]
  THEN [s EXCEPT !.lowpt2[e] = Least(s.lowpt[e], s.lowpt2[k]), !.lowpt[e] = s.lowpt[k]]
  ELSE IF s.lowpt[k] > s.lowpt[e] THEN [s EXCEPT !.lowpt2[e] = Least(@, s.lowpt[k])]
  ELSE [s EXCEPT !.lowpt2[e] = Least(@, s.lowpt2[k])]

(* An edge with a second return point nests inside one without. *)
Leave(s, v, k) ==
  LET nested == [s EXCEPT !.depth[k] = 2 * s.lowpt[k] + IF s.lowpt2[k] < s.height[v] THEN 1 ELSE 0]
  IN  IF s.parent[v] = None THEN nested ELSE Returns(nested, s.parent[v], k)

RECURSIVE dfs_orientation(_, _, _)
dfs_orientation(E, s, v) ==
  LET see(t, a) ==
        LET k == a.edge
            h == t.height[v]
            met == [t EXCEPT !.src[k] = v, !.dst[k] = a.nbr, !.out[v] = Append(@, k),
                             !.lowpt[k] = h, !.lowpt2[k] = h]
        IN  IF t.src[k] # -1 THEN t
            ELSE IF t.height[a.nbr] # -1
            THEN Leave([met EXCEPT !.lowpt[k] = t.height[a.nbr]], v, k)
            ELSE Leave(dfs_orientation(E, [met EXCEPT !.parent[a.nbr] = k,
                                                      !.height[a.nbr] = h + 1], a.nbr), v, k)
  IN  FoldLeft(see, s, Incident(E, v))

(* The edges out of v by nesting depth, equal ones as they were oriented. *)
Nested(s, v) ==
  FlattenSeq([i \in 1 .. 4 * n + 1 |-> SelectSeq(s.out[v], LAMBDA k : s.depth[k] = i - 2 * n - 1)])

Roots(s) == SelectSeq(InOrder, LAMBDA v : s.height[v] = 0)
TreeEdge(s, k) == s.parent[s.dst[k]] = k

-----------------------------------------------------------------------------
(* Testing *)

Nothing == [low |-> None, high |-> None]
Swapped(P) == [left |-> P.right, right |-> P.left]

conflicting(s, interval, k) ==
  interval # Nothing /\ interval.high # None /\ s.lowpt[interval.high] > s.lowpt[k]

(* The lowest return point of a pair; of an empty one, above every height. *)
lowest(s, P) ==
  Min({n} \cup {s.lowpt[k] : k \in {P.left.low, P.right.low} \ {None}})

set_ref(s, a, b) == IF a = None THEN s ELSE [s EXCEPT !.ref[a] = b]

NotPlanar(s) == [s EXCEPT !.planar = FALSE]
Popped(s) == [s EXCEPT !.S = Front(@)]

(* Q joins an interval: it becomes it, or its top refers down to Q. *)
Joined(s, interval, Q) == IF interval = Nothing THEN s ELSE set_ref(s, interval.low, Q.high)
Above(interval, Q) == IF interval = Nothing THEN Q.high ELSE interval.high

(* The right of Q joins that of P, or refers to the lowest return of e. *)
TakeRight(s, P, Q, e) ==
  LET low == Q.right.low
  IN  IF low # None /\ s.lowpt[low] > s.lowpt[e]
      THEN <<Joined(s, P.right, Q.right),
             [P EXCEPT !.right = [low |-> low, high |-> Above(@, Q.right)]]>>
      ELSE <<set_ref(s, low, s.lowpt_edge[e]), P>>

(* The return edges of k, everything above its bottom, go to the right. *)
RECURSIVE MergeReturns(_, _, _, _)
MergeReturns(s, P, k, e) ==
  LET Q == IF Last(s.S).left = Nothing THEN Last(s.S) ELSE Swapped(Last(s.S))
      taken == TakeRight(Popped(s), P, Q, e)
  IN  IF s.S = <<>> THEN <<s, P>>
      ELSE IF Q.left # Nothing THEN <<NotPlanar(s), P>>
      ELSE IF Len(s.S) - 1 = s.bottom[k] THEN taken
      ELSE MergeReturns(taken[1], taken[2], k, e)

(* P goes on below with both sides of Q. *)
TakeBoth(P, Q) ==
  [left |-> [low |-> Q.left.low, high |-> Above(P.left, Q.left)],
   right |-> IF Q.right.low = None THEN P.right ELSE [P.right EXCEPT !.low = Q.right.low]]

(* Edges of the siblings before k that return above it go to the left. *)
RECURSIVE MergeConflicts(_, _, _)
MergeConflicts(s, P, k) ==
  LET top == Last(s.S)
      Q == IF conflicting(s, top.right, k) THEN Swapped(top) ELSE top
  IN  IF s.S = <<>> \/ ~(conflicting(s, top.left, k) \/ conflicting(s, top.right, k)) THEN <<s, P>>
      ELSE IF conflicting(s, Q.right, k) THEN <<NotPlanar(s), P>>
      ELSE MergeConflicts(Joined(set_ref(Popped(s), P.right.low, Q.right.high), P.left, Q.left),
                          TakeBoth(P, Q), k)

(* A pair that holds anything goes back on the stack. *)
Restacked(s, P) ==
  IF ~s.planar \/ (P.left = Nothing /\ P.right = Nothing) THEN s ELSE [s EXCEPT !.S = Append(@, P)]

add_constraints(s, k, e) ==
  LET returned == MergeReturns(s, [left |-> Nothing, right |-> Nothing], k, e)
      merged == MergeConflicts(returned[1], returned[2], k)
  IN  IF returned[1].planar THEN Restacked(merged[1], merged[2]) ELSE returned[1]

(* Pairs that all return to u are settled. *)
RECURSIVE DropAt(_, _)
DropAt(s, u) ==
  IF s.S = <<>> \/ lowest(s, Last(s.S)) # s.height[u] THEN s
  ELSE LET low == Last(s.S).left.low
       IN  DropAt(IF low = None THEN Popped(s) ELSE [Popped(s) EXCEPT !.side[low] = -1], u)

(* The highest edge of an interval that does not return to u. *)
RECURSIVE Below(_, _, _)
Below(s, k, u) == IF k # None /\ s.dst[k] = u THEN Below(s, s.ref[k], u) ELSE k

(* An interval that empties hands its side to the other one. *)
Trimmed(s, interval, other, u) ==
  LET high == Below(s, interval.high, u)
      low == interval.low
  IN  IF high # None \/ low = None THEN <<s, [low |-> low, high |-> high]>>
      ELSE <<[set_ref(s, low, other.low) EXCEPT !.side[low] = -1], Nothing>>

(* Both intervals of the top pair, the left one first. *)
TrimmedTop(s, u) ==
  LET P == Last(s.S)
      settled(t, Q) == [t EXCEPT !.S[Len(s.S)] = Q]
      right(l) == LET r == Trimmed(l[1], P.right, l[2], u)
                  IN  settled(r[1], [left |-> l[2], right |-> r[2]])
  IN  IF s.S = <<>> THEN s ELSE right(Trimmed(s, P.left, P.right, u))

(* The edge e into u's child refers to the highest return edge left, if any. *)
Referred(s, e, u) ==
  LET hl == IF s.S = <<>> THEN None ELSE Last(s.S).left.high
      hr == IF s.S = <<>> THEN None ELSE Last(s.S).right.high
      higher == hl # None /\ (hr = None \/ s.lowpt[hl] > s.lowpt[hr])
  IN  IF s.lowpt[e] < s.height[u] THEN [s EXCEPT !.ref[e] = IF higher THEN hl ELSE hr] ELSE s

remove_back_edges(s, e) ==
  IF ~s.planar \/ e = None THEN s
  ELSE Referred(TrimmedTop(DropAt(s, s.src[e]), s.src[e]), e, s.src[e])

RECURSIVE dfs_testing(_, _)
dfs_testing(s, v) ==
  LET e == s.parent[v]
      first == Head(Nested(s, v))
      back(t, k) == [t EXCEPT !.lowpt_edge[k] = k, !.S = Append(@,
                       [left |-> Nothing, right |-> [low |-> k, high |-> k]])]
      integrated(t, k) ==
        IF ~t.planar \/ t.lowpt[k] >= t.height[v] THEN t
        ELSE IF k # first THEN (IF e = None THEN t ELSE add_constraints(t, k, e))
        ELSE IF e = None THEN t ELSE [t EXCEPT !.lowpt_edge[e] = t.lowpt_edge[k]]
      see(t, k) ==
        LET marked == [t EXCEPT !.bottom[k] = Len(t.S)]
        IN  IF ~t.planar THEN t
            ELSE integrated(IF TreeEdge(t, k) THEN dfs_testing(marked, t.dst[k])
                            ELSE back(marked, k), k)
  IN  remove_back_edges(FoldLeft(see, s, Nested(s, v)), e)

(* Passes one and two, behind Euler's bound on the edges of a simple graph. *)
Tested(E) ==
  LET start == Unoriented(E)
      visit(s, v) == IF s.height[v] # -1 THEN s
                     ELSE dfs_orientation(E, [s EXCEPT !.height[v] = 0], v)
      oriented == FoldLeft(visit, start, InOrder)
  IN  IF n > 2 /\ Len(E) > 3 * n - 6 THEN NotPlanar(start)
      ELSE FoldLeft(LAMBDA s, v : IF s.planar THEN dfs_testing(s, v) ELSE s,
                    oriented, Roots(oriented))

is_planar(g) == Tested(canonical_simple_edges(g)).planar

-----------------------------------------------------------------------------
(* Embedding *)

(* The side of k is its own times that of the edge it refers to, for good. *)
RECURSIVE resolve_sign(_, _)
resolve_sign(s, k) ==
  IF s.ref[k] = None THEN s
  ELSE LET f == s.ref[k]
           t == resolve_sign([s EXCEPT !.ref[k] = None], f)
       IN  [t EXCEPT !.side[k] = @ * t.side[f]]

Signed(s) ==
  FoldLeft(LAMBDA t, k : LET r == resolve_sign(t, k) IN [r EXCEPT !.depth[k] = r.side[k] * @],
           s, [k \in DOMAIN s.src |-> k])

half_edge_cw(list, w, r) == InsertAt(list, SelectInSeq(list, LAMBDA x : x = r) + 1, w)
half_edge_ccw(list, w, r) == InsertAt(list, SelectInSeq(list, LAMBDA x : x = r), w)

(* Tree edges come first at the child, back edges beside the last tree edge. *)
RECURSIVE dfs_embedding(_, _, _)
dfs_embedding(s, b, v) ==
  LET see(c, k) ==
        LET w == s.dst[k]
        IN  IF TreeEdge(s, k)
            THEN dfs_embedding(s, [c EXCEPT !.list[w] = <<v>> \o @, !.left[v] = w, !.right[v] = w], w)
            ELSE IF s.side[k] = 1 THEN [c EXCEPT !.list[w] = half_edge_cw(@, v, c.right[w])]
            ELSE [c EXCEPT !.list[w] = half_edge_ccw(@, v, c.left[w]), !.left[w] = v]
  IN  FoldLeft(see, b, Nested(s, v))

(* The neighbours of every vertex in their order around it. *)
Drawing(s) ==
  LET start == [list |-> [v \in Vertex |-> LET out == Nested(s, v) IN [i \in DOMAIN out |-> s.dst[out[i]]]],
                left |-> [v \in Vertex |-> -1], right |-> [v \in Vertex |-> -1]]
  IN  FoldLeft(LAMBDA b, v : dfs_embedding(s, b, v), start, Roots(s)).list

Embedded(s) == IF s.planar THEN [ok |-> TRUE, around |-> Drawing(Signed(s))] ELSE [ok |-> FALSE]

planar_embedding(g) == Embedded(Tested(canonical_simple_edges(g)))

-----------------------------------------------------------------------------
(* Kuratowski's certificate *)

(* Edge after edge goes unless the rest would be planar without it. *)
kuratowski_subgraph(g) ==
  LET E == canonical_simple_edges(g)
  IN  IF Tested(E).planar THEN <<>>
      ELSE FoldLeft(LAMBDA kept, e : IF Tested(Remove(kept, e)).planar THEN kept
                                     ELSE Remove(kept, e), E, E)

=============================================================================
