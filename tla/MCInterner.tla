----------------------------- MODULE MCInterner ------------------------------
(* Instances of Interner for TLC: one atom, a binary head                    *)
(* and a hash with collisions.                                                *)
EXTENDS Interner, TLC

MCBinary == "x" :> 0 @@ "g" :> 2

(* An atom and g(a, b) collide when the hashes of a and b differ.              *)
MCHash(label, children) ==
  (FoldSeq(+, 0, children) + IF label = "x" THEN 0 ELSE 1) % 2
=============================================================================
