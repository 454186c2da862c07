------------------------------ MODULE MCGraph -------------------------------
(* Instances of GraphTheory for TLC. *)
EXTENDS GraphTheory

Matrix(size, dir, most, pat) ==
  [n |-> size, directed |-> dir, builder |-> "matrix", pattern |-> pat,
   edges |-> most, copies |-> 1, loops |-> FALSE]

Library(size, dir, most, cop, loop) ==
  [n |-> size, directed |-> dir, builder |-> "library", pattern |-> "spread",
   edges |-> most, copies |-> cop, loops |-> loop]

MCShapes == {
  Matrix(4, TRUE, 5, "spread"), Matrix(3, TRUE, 6, "signed"),
  Matrix(5, FALSE, 10, "spread"), Matrix(4, FALSE, 6, "tied"),
  Matrix(6, TRUE, 9, "network"), Matrix(8, FALSE, 9, "blossoms"), Matrix(6, FALSE, 12, "crossings"),
  Library(3, TRUE, 3, 2, TRUE), Library(3, FALSE, 3, 2, TRUE), Library(4, FALSE, 3, 1, FALSE)}

(* Six vertices between which a blocking flow need not be a greatest one. *)
Network == {<<0, 1>>, <<0, 3>>, <<1, 2>>, <<1, 4>>, <<2, 4>>, <<2, 5>>, <<3, 2>>, <<3, 4>>, <<4, 5>>}

(* Eight vertices, where odd cycles may have to be contracted inside others. *)
Blossoms == {<<0, 2>>, <<0, 4>>, <<1, 2>>, <<1, 6>>, <<2, 4>>, <<3, 4>>, <<3, 5>>, <<3, 7>>, <<5, 6>>}

(* Six vertices with room for either of Kuratowski's graphs. *)
Crossings == {<<0, 2>>, <<0, 3>>, <<0, 4>>, <<0, 5>>, <<1, 2>>, <<1, 3>>, <<1, 4>>, <<1, 5>>,
              <<2, 3>>, <<2, 4>>, <<2, 5>>, <<3, 4>>}

(* Spread weights differ in both directions of a pair and repeat. *)
MCWeights(pattern, u, v) ==
  CASE pattern = "spread" -> {1 + ((3 * u + 2 * v) % 5)}
    [] pattern = "signed" -> {-1, 1, 2}
    [] pattern = "tied" -> {1, 2}
    [] pattern = "network" -> IF <<u, v>> \in Network THEN {1} ELSE {}
    [] pattern = "crossings" -> IF <<u, v>> \in Crossings THEN {1} ELSE {}
    [] pattern = "blossoms" -> IF <<u, v>> \in Blossoms THEN {1} ELSE {}
=============================================================================
