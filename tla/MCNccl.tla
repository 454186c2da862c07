------------------------------- MODULE MCNccl -------------------------------
(***************************************************************************)
(* Two processes with two devices each.  The program is any sequence of    *)
(* these calls, roots in and out of range and receive buffers with room    *)
(* for one rank or for two among them.                                     *)
(***************************************************************************)
EXTENDS Nccl

Call(kind, op, avg, root, world, room) ==
  [kind |-> kind, op |-> op, avg |-> avg, root |-> root, world |-> world, room |-> room]

MCCalls ==
  {Call("init_rank", "none", FALSE, 0, w, 0) : w \in {0, 1, 2}}
  \cup {Call("finalize", "none", FALSE, 0, 0, 0)}
  \cup {Call("host", "allreduce", TRUE, 0, 0, 0), Call("scalar", "allreduce", TRUE, 0, 0, 0),
        Call("host", "broadcast", FALSE, 1, 0, 0), Call("scalar", "broadcast", FALSE, 2, 0, 0),
        Call("host", "reduce", TRUE, 1, 0, 0), Call("scalar", "reduce", FALSE, 1, 0, 0),
        Call("host", "allgather", FALSE, 0, 0, 0), Call("scalar", "allgather", FALSE, 0, 0, 0),
        Call("buffer", "allreduce", TRUE, 0, 0, 0), Call("buffer", "broadcast", FALSE, 1, 0, 0),
        Call("buffer", "reduce", TRUE, 1, 0, 0),
        Call("buffer", "allgather", FALSE, 0, 0, 1), Call("buffer", "allgather", FALSE, 0, 0, 2)}

(* A sum of these tells which buffers it contains, and how often. *)
MCShare(p, i) == (Gpus + 1) ^ (p * Gpus + i - 1)

MCLists == {<<>>, <<0>>, <<1>>, <<0, 1>>, <<1, 1>>}

=============================================================================
