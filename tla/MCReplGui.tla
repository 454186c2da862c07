------------------------------ MODULE MCReplGui ------------------------------
(* Instances of ReplGui for TLC.                                              *)
EXTENDS ReplGui, TLC

Scalar(n, v) == [op |-> "scalar", name |-> n, value |-> v]
Rand(n) == [op |-> "rand", name |-> n]
Run(p) == [op |-> "run", path |-> p]
Save(p) == [op |-> "save", path |-> p]
Load(p) == [op |-> "load", path |-> p]

MCScripts ==
  "top" :> <<Run("a")>> @@
  "a" :> <<Rand("x"), Run("b"), [op |-> "bare"]>> @@
  "b" :> <<[op |-> "pair", name |-> "x", second |-> "y", from |-> "x"], Run("c")>> @@
  "c" :> <<Save("s"), Scalar("y", 2)>> @@
  "loop" :> <<Scalar("x", 1), Run("loop2")>> @@
  "loop2" :> <<[op |-> "plot", name |-> "y"], Run("loop")>>

MCLines == {Scalar("x", 1), Run("top"), Run("loop"), Run("gone"), Save("s"), Load("s"),
            [op |-> "create", name |-> "h"], [op |-> "free", name |-> "h"],
            [op |-> "plot", name |-> "x"], [op |-> "clear"], [op |-> "bare"]}
MCEditors == {<<Run("a"), Rand("y"), Load("s")>>,
              <<Rand("y"), Scalar("y", 2), Save("s"), Load("s")>>}
=============================================================================
