------------------------------ MODULE MCServer ------------------------------
(* Launches for TLC: a script (that every rank or only rank 0 can open), a *)
(* piped or interactive standard input, or one line from every source.     *)
EXTENDS Server

Streams(n) == UNION {[1 .. k -> Commands] : k \in 0 .. n}

NoSource == [hasScript |-> FALSE, script |-> <<>>, opens |-> [r \in Ranks |-> TRUE],
             evals |-> <<>>, serve |-> FALSE,
             tty |-> [r \in Ranks |-> FALSE], stdin |-> <<>>]

Scripts ==
    {[NoSource EXCEPT !.hasScript = TRUE, !.script = s] : s \in Streams(2)}
    \cup {[NoSource EXCEPT !.hasScript = TRUE, !.script = s,
                           !.opens = [r \in Ranks |-> r = 0], !.serve = b] :
             s \in Streams(1), b \in BOOLEAN}

Pipes ==
    {[NoSource EXCEPT !.stdin = s] : s \in Streams(2)}
    \cup {[NoSource EXCEPT !.tty = t] : t \in [Ranks -> BOOLEAN]}

Mixed ==
    {[NoSource EXCEPT !.hasScript = TRUE, !.script = s, !.evals = e,
                      !.serve = TRUE, !.stdin = <<c>>] :
        s \in Streams(1),
        e \in {<<>>, <<"exit">>, <<"mpi_barrier">>, <<"dist_cg">>},
        c \in Commands}

MCLaunches == Scripts \cup Pipes \cup Mixed

(* Jobs the two disagreements with the header comment need.                *)
SolveLaunches ==
    {[NoSource EXCEPT !.stdin = <<"assign", c, d>>] : c, d \in Commands}

BarrierLaunches == {[NoSource EXCEPT !.stdin = <<c>>] : c \in Commands}
=============================================================================
