------------------------------- MODULE Server -------------------------------
(***************************************************************************)
(* mathscript-server, the SPMD compute node (src/src/exe/                  *)
(* mathscript_server.cpp), with the distributed commands of its            *)
(* interpreter and the MPI wrappers they call.                             *)
(*                                                                         *)
(* Every rank is a process of its own: it takes commands from a script     *)
(* file it opens itself, from its -e arguments, and from lines that rank 0 *)
(* reads from its standard input and broadcasts.  Ranks meet only in MPI   *)
(* collectives.  MPI pairs the k-th collective of a communicator on one    *)
(* rank with the k-th on every other; `calls` records what each rank has   *)
(* entered.  A rank that needs a partner which entered another collective  *)
(* waits for ever, the mildest outcome of such an erroneous program.       *)
(*                                                                         *)
(* A session is reduced to one matrix variable x, as far as ranks can tell *)
(* their sessions apart by it: where its value came from and whether it is *)
(* the whole matrix or only the rows this rank owns.                       *)
(***************************************************************************)
EXTENDS Integers, Sequences

CONSTANTS
    N,                  \* number of ranks, MPI_Comm_size
    Launches,           \* the launches considered, see LaunchRecord
    SecondInit          \* what MPI may do with a second MPI_Init_thread

ASSUME RanksAssumption == N \in Nat \ {0}
ASSUME SecondInitAssumption == SecondInit \subseteq {"aborts", "tolerated"}

Ranks == 0 .. N - 1

(* The command lines told apart.  "assign" stands for every local command, *)
(* "bad" for every line that fails the same way on all ranks, "dist_cg"    *)
(* for the kernels whose result is all-gathered.                           *)
Commands == {"assign", "bad", "exit", "mpi_barrier", "mpi_bcast",
             "dist_solve", "dist_matmul", "dist_cg"}

(* What a job is started with: per rank, whether the script path opens     *)
(* there and whether standard input is a terminal there.                   *)
LaunchRecord ==
    [hasScript : BOOLEAN, script : Seq(Commands), opens : [Ranks -> BOOLEAN],
     evals : Seq(Commands), serve : BOOLEAN,
     tty : [Ranks -> BOOLEAN], stdin : Seq(Commands)]

ASSUME LaunchesAssumption == Launches \subseteq LaunchRecord

Values == {"none", "input", "solution", "product", "rows"}
Whole  == {"input", "solution", "product"}      \* all rows of the matrix

VARIABLES
    launch,     \* the arguments and environment of the job
    alive,      \* MPI has not aborted the job
    pc,         \* where main() is on each rank
    next,       \* position of the next line in the current source
    cmd,        \* the command being executed, "none" between two
    todo,       \* collectives the current command has still to enter
    calls,      \* every collective entered so far, in order
    inside,     \* the rank has not returned from the last of calls
    inited,     \* the interpreter's own MPI context exists
    x,          \* the session's matrix variable
    ran         \* the command lines taken so far (history)

vars == <<launch, alive, pc, next, cmd, todo, calls, inside, inited, x, ran>>

Init ==
    /\ launch \in Launches
    /\ alive  = TRUE
    /\ pc     = [r \in Ranks |-> "boot"]
    /\ next   = [r \in Ranks |-> 1]
    /\ cmd    = [r \in Ranks |-> "none"]
    /\ todo   = [r \in Ranks |-> <<>>]
    /\ calls  = [r \in Ranks |-> <<>>]
    /\ inside = [r \in Ranks |-> FALSE]
    /\ inited = [r \in Ranks |-> FALSE]
    /\ x      = [r \in Ranks |-> "none"]
    /\ ran    = [r \in Ranks |-> <<>>]

-----------------------------------------------------------------------------
(* MPI.  A collective is its op and, for broadcast_line, the line that is  *)
(* its payload ("none" otherwise).  broadcast_line is one broadcast of a   *)
(* whole line here (in the code: its length, then one character per        *)
(* broadcast).                                                             *)
(* History: at is the number of commands the rank had taken, slot the      *)
(* place among them: 0 the barrier of the start, 1 and 2 the collectives   *)
(* of command at, 3 what comes after it, the next line or the last barrier.*)

Call(op, line, at, slot) == [op |-> op, line |-> line, at |-> at, slot |-> slot]

(* The MPI function a collective of the program is.                        *)
MpiOp(op) == IF op = "broadcast_line" THEN "mpi_bcast" ELSE op

Met(q, k, op) == Len(calls[q]) >= k /\ MpiOp(calls[q][k].op) = op

(* A broadcast only needs its root, a gather only makes its root wait; the *)
(* others need everybody.                                                  *)
CanReturn(r) ==
    LET k     == Len(calls[r])
        op    == MpiOp(calls[r][k].op)
        needs == CASE op = "mpi_bcast" -> {0}
                   [] op = "gather" /\ r # 0 -> {r}
                   [] OTHER -> Ranks
    IN  inside[r] /\ \A q \in needs : Met(q, k, op)

Enter(r, call) ==
    /\ calls'  = [calls EXCEPT ![r] = Append(@, call)]
    /\ inside' = [inside EXCEPT ![r] = TRUE]

Leave(r) == inside' = [inside EXCEPT ![r] = FALSE] /\ UNCHANGED calls

-----------------------------------------------------------------------------
(* The commands of the interpreter.                                        *)

(* An operand that is not defined fails before the MPI context is asked    *)
(* for; the other distributed commands ask for it first.                   *)
UsesMpi(r, c) ==
    \/ c \in {"mpi_barrier", "mpi_bcast", "dist_solve"}
    \/ c \in {"dist_matmul", "dist_cg"} /\ x[r] # "none"

(* Mutant: a row-block kernel whose result only rank 0 gathers.            *)
BugCollectives(r, c) ==
    CASE c = "mpi_barrier" -> <<"barrier">>
      [] c = "mpi_bcast"   -> <<"mpi_bcast">>
      [] c \in {"dist_solve", "dist_matmul"} -> <<"gather", "gather">>
      [] c = "dist_cg" /\ x[r] \in Whole ->
             IF r = 0 THEN <<"allreduce", "allgather">> ELSE <<"allreduce">>
      [] OTHER -> <<>>

(* The collectives a command enters: a dimension check of the operands     *)
(* returns before the first one.                                           *)
Collectives(r, c) ==
    CASE c = "mpi_barrier" -> <<"barrier">>
      [] c = "mpi_bcast"   -> <<"mpi_bcast">>
      [] c = "dist_solve"  -> <<"gather", "gather">>
      [] c = "dist_matmul" /\ x[r] \in Whole -> <<"gather", "gather">>
      [] c = "dist_cg" /\ x[r] \in Whole     -> <<"allreduce", "allgather">>
      [] OTHER -> <<>>

(* Mutant: a row-block kernel that forgets to all-gather its solution.     *)
BugResults(r, c) ==
    CASE c = "assign" -> {"input"}
      [] c = "dist_cg" /\ x[r] \in Whole -> {IF r = 0 THEN "solution" ELSE "rows"}
      [] OTHER -> {x[r]}

(* The values x may have when the command has run, over the outcomes the   *)
(* rank's numerical kernel can have: only rank 0 holds the gathered        *)
(* operands, so only there can dist_solve fail (a singular matrix), and    *)
(* dist_matmul fails on the others (the local blocks do not conform).      *)
(* dist_cg is deterministic in allreduced values: it is modelled as        *)
(* converging, on every rank.                                              *)
Results(r, c) ==
    LET root == r = 0 \/ N = 1
    IN  CASE c = "assign" -> {"input"}
          [] c = "dist_solve" -> IF root THEN {"solution", x[r]} ELSE {"rows"}
          [] c = "dist_matmul" /\ x[r] \in Whole ->
                 IF root THEN {"product"} ELSE {x[r]}
          [] c = "dist_cg" /\ x[r] \in Whole -> {"solution"}
          [] OTHER -> {x[r]}

(* The command is over: run_command returns true and the caller goes on.   *)
Complete(r, c) ==
    /\ \E v \in Results(r, c) : x' = [x EXCEPT ![r] = v]
    /\ cmd'  = [cmd EXCEPT ![r] = "none"]
    /\ next' = [next EXCEPT ![r] = @ + 1]

(* run_command: exit ends the sources of this rank.  The first distributed *)
(* command creates the interpreter's static context, whose initialiser     *)
(* calls MPI_Init_thread although main() already has.                      *)
RunCommand(r, c) ==
    /\ ran' = [ran EXCEPT ![r] = Append(@, c)]
    /\ \/ /\ c = "exit"
          /\ pc' = [pc EXCEPT ![r] = "stop"]
          /\ cmd' = [cmd EXCEPT ![r] = "none"]
          /\ Leave(r)
          /\ UNCHANGED <<alive, next, todo, inited, x>>
       \/ /\ c # "exit" /\ UsesMpi(r, c) /\ ~inited[r] /\ "aborts" \in SecondInit
          /\ alive' = FALSE
          /\ UNCHANGED <<pc, next, cmd, todo, calls, inside, inited, x>>
       \/ /\ c # "exit"
          /\ UsesMpi(r, c) /\ ~inited[r] => "tolerated" \in SecondInit
          /\ inited' = [inited EXCEPT ![r] = @ \/ UsesMpi(r, c)]
          /\ LET ops == Collectives(r, c)
             IN  IF ops = <<>>
                 THEN Complete(r, c) /\ Leave(r) /\ UNCHANGED todo
                 ELSE /\ cmd'  = [cmd EXCEPT ![r] = c]
                      /\ todo' = [todo EXCEPT ![r] = Tail(ops)]
                      /\ Enter(r, Call(Head(ops), "none", Len(ran[r]) + 1, 1))
                      /\ UNCHANGED <<next, x>>
          /\ UNCHANGED <<alive, pc>>

-----------------------------------------------------------------------------
(* main() of one rank.                                                     *)

(* The job lives and the rank's main() has come this far.                  *)
At(r, places) == alive /\ pc[r] \in places

(* MPI_Init, the banner and the barrier that says the ranks are up.        *)
Boot(r) ==
    /\ At(r, {"boot"})
    /\ pc' = [pc EXCEPT ![r] = "ready"]
    /\ Enter(r, Call("barrier", "none", 0, 0))
    /\ UNCHANGED <<launch, alive, next, cmd, todo, inited, x, ran>>

(* No source at all: this rank serves unless its own stdin is a terminal.  *)
Serves(r) ==
    \/ launch.serve
    \/ ~launch.hasScript /\ launch.evals = <<>> /\ ~launch.tty[r]

(* The lines of the source the rank is in; a script that does not open is  *)
(* reported and passed over.                                               *)
Lines(r) ==
    CASE pc[r] = "script" ->
             IF launch.hasScript /\ launch.opens[r] THEN launch.script ELSE <<>>
      [] pc[r] = "eval" -> launch.evals
      [] OTHER -> <<>>

Ready(r) ==
    /\ At(r, {"ready"}) /\ CanReturn(r)
    /\ pc' = [pc EXCEPT ![r] = "script"]
    /\ Leave(r)
    /\ UNCHANGED <<launch, alive, next, cmd, todo, inited, x, ran>>

(* run_script and the loop over the -e commands.                           *)
RunLine(r) ==
    /\ At(r, {"script", "eval"}) /\ cmd[r] = "none"
    /\ next[r] <= Len(Lines(r))
    /\ RunCommand(r, Lines(r)[next[r]])
    /\ UNCHANGED launch

EndOfLines(r) ==
    /\ At(r, {"script", "eval"}) /\ cmd[r] = "none"
    /\ next[r] > Len(Lines(r))
    /\ pc' = [pc EXCEPT ![r] = IF pc[r] = "script" THEN "eval"
                               ELSE IF Serves(r) THEN "serve" ELSE "stop"]
    /\ next' = [next EXCEPT ![r] = 1]
    /\ UNCHANGED <<launch, alive, cmd, todo, calls, inside, inited, x, ran>>

(* The serve loop: rank 0 reads a line, end of file reads as "exit"; with  *)
(* more than one rank everybody then enters broadcast_line.                *)
NextInput == IF next[0] <= Len(launch.stdin) THEN launch.stdin[next[0]] ELSE "exit"

(* Mutant: at end of file rank 0 leaves the loop without telling anybody.  *)
BugReadLine(r) ==
    /\ At(r, {"serve"}) /\ cmd[r] = "none"
    /\ IF r = 0 /\ next[0] > Len(launch.stdin)
       THEN pc' = [pc EXCEPT ![r] = "stop"] /\ UNCHANGED <<cmd, calls, inside>>
       ELSE /\ cmd' = [cmd EXCEPT ![r] = "broadcast_line"]
            /\ Enter(r, Call("broadcast_line", IF r = 0 THEN NextInput ELSE "none", Len(ran[r]), 3))
            /\ UNCHANGED pc
    /\ UNCHANGED <<launch, alive, next, todo, inited, x, ran>>

ReadLine(r) ==
    /\ At(r, {"serve"}) /\ cmd[r] = "none"
    /\ IF N = 1
       THEN RunCommand(r, NextInput)
       ELSE /\ cmd' = [cmd EXCEPT ![r] = "broadcast_line"]
            /\ Enter(r, Call("broadcast_line", IF r = 0 THEN NextInput ELSE "none", Len(ran[r]), 3))
            /\ UNCHANGED <<alive, pc, next, todo, inited, x, ran>>
    /\ UNCHANGED launch

(* Mutants: whatever rank 0 broadcast is taken for a line; the buffer of   *)
(* the line is reused for rank 0's next call.                              *)
BugReceived(r) == calls[0][Len(calls[r])].line
BugReceivedLast(r) ==
    LET c == calls[0][Len(calls[0])]
    IN  IF c.op = "broadcast_line" THEN c.line ELSE "bad"

(* The line rank 0 sent; a broadcast that was no line decodes to noise,    *)
(* which no command parses.                                                *)
Received(r) ==
    LET c == calls[0][Len(calls[r])]
    IN  IF c.op = "broadcast_line" THEN c.line ELSE "bad"

RunReceived(r) ==
    /\ At(r, {"serve"}) /\ cmd[r] = "broadcast_line" /\ CanReturn(r)
    /\ RunCommand(r, Received(r))
    /\ UNCHANGED launch

(* The command in progress leaves one collective: it enters its next one,  *)
(* or is over.                                                             *)
Proceed(r) ==
    /\ At(r, {"script", "eval", "serve"}) /\ cmd[r] \in Commands /\ CanReturn(r)
    /\ IF todo[r] # <<>>
       THEN /\ Enter(r, Call(Head(todo[r]), "none", Len(ran[r]), 2))
            /\ todo' = [todo EXCEPT ![r] = Tail(@)]
            /\ UNCHANGED <<cmd, next, x>>
       ELSE Complete(r, cmd[r]) /\ Leave(r) /\ UNCHANGED todo
    /\ UNCHANGED <<launch, alive, pc, inited, ran>>

(* Mutant: a rank that is through with its commands finalizes at once.     *)
BugStop(r) ==
    /\ At(r, {"stop"})
    /\ pc' = [pc EXCEPT ![r] = "done"]
    /\ UNCHANGED <<launch, alive, next, cmd, todo, calls, inside, inited, x, ran>>

(* The last barrier, then MPI_Finalize.                                    *)
Stop(r) ==
    /\ At(r, {"stop"})
    /\ pc' = [pc EXCEPT ![r] = "closing"]
    /\ Enter(r, Call("barrier", "none", Len(ran[r]), 3))
    /\ UNCHANGED <<launch, alive, next, cmd, todo, inited, x, ran>>

Finalize(r) ==
    /\ At(r, {"closing"}) /\ CanReturn(r)
    /\ pc' = [pc EXCEPT ![r] = "done"]
    /\ Leave(r)
    /\ UNCHANGED <<launch, alive, next, cmd, todo, inited, x, ran>>

Step(r) ==
    \/ Boot(r)     \/ Ready(r)       \/ RunLine(r) \/ EndOfLines(r)
    \/ ReadLine(r) \/ RunReceived(r) \/ Proceed(r) \/ Stop(r) \/ Finalize(r)

Next == \E r \in Ranks : Step(r)

Spec == Init /\ [][Next]_vars

(* The operating system runs every rank, and a collective whose partners   *)
(* have all arrived returns.                                               *)
FairSpec == Spec /\ \A r \in Ranks : WF_vars(Step(r))

-----------------------------------------------------------------------------
(* Properties.                                                             *)

TypeOK ==
    /\ launch \in LaunchRecord
    /\ alive  \in BOOLEAN
    /\ pc     \in [Ranks -> {"boot", "ready", "script", "eval", "serve",
                             "stop", "closing", "done"}]
    /\ next   \in [Ranks -> Nat \ {0}]
    /\ cmd    \in [Ranks -> Commands \cup {"none", "broadcast_line"}]
    /\ inside \in [Ranks -> BOOLEAN]
    /\ inited \in [Ranks -> BOOLEAN]
    /\ x      \in [Ranks -> Values]
    /\ ran    \in [Ranks -> Seq(Commands)]

(* What the design asks of the environment: the script is on a file system *)
(* all ranks share, and without a source all ranks have the same kind of   *)
(* standard input.                                                         *)
Uniform ==
    /\ launch.hasScript => \A r, q \in Ranks : launch.opens[r] = launch.opens[q]
    /\ \A r, q \in Ranks : Serves(r) = Serves(q)

(* The rank has taken a command whose result only rank 0 holds.            *)
Ran(r, cs)  == \E i \in 1 .. Len(ran[r]) : ran[r][i] \in cs
NobodyRan(cs) == \A r \in Ranks : ~Ran(r, cs)

(* Every rank runs the same command stream: in a uniform job, of what two  *)
(* ranks have taken so far one is a prefix of the other, whichever mixture *)
(* of script, -e and broadcast lines it came from, even when the ranks     *)
(* later block on collectives that do not match.                           *)
SameStream ==
    Uniform => \A r, q \in Ranks :
        \A i \in 1 .. Len(ran[r]) : i <= Len(ran[q]) => ran[r][i] = ran[q][i]

(* The k-th collective is the same one on every rank that has come to it.  *)
SameCollectives ==
    \A r, q \in Ranks : \A k \in 1 .. Len(calls[r]) :
        k <= Len(calls[q]) => calls[r][k].op = calls[q][k].op

(* In a uniform job the ranks can only part at a collective after a        *)
(* dist_solve, whose result is a whole solution on rank 0 and a block of   *)
(* the right-hand side elsewhere; every other command keeps them together. *)
CollectivesMatch == Uniform /\ NobodyRan({"dist_solve"}) => SameCollectives

(* In a uniform job sessions agree after the same number of commands, as   *)
(* long as none of them left its result on rank 0 only.                    *)
SessionsAgree ==
    Uniform /\ NobodyRan({"dist_solve", "dist_matmul"}) =>
        \A r, q \in Ranks :
            cmd[r] = "none" /\ cmd[q] = "none" /\ ran[r] = ran[q] => x[r] = x[q]

(* A rank calls MPI_Finalize only when all ranks have run all their        *)
(* commands: its closing barrier cannot be mistaken for another's          *)
(* mpi_barrier() command.                                                  *)
LeaveTogether ==
    Uniform /\ NobodyRan({"dist_solve"}) =>
        \A r, q \in Ranks : pc[r] = "done" => pc[q] \in {"closing", "done"}

(* A uniform job without a dist_solve comes to its end on every rank: the  *)
(* end of rank 0's input, or an exit in any source, stops them all.        *)
Ended == ~alive \/ \A r \in Ranks : pc[r] = "done"
Solves(l) == \E s \in {l.script, l.evals, l.stdin} :
                 \E i \in 1 .. Len(s) : s[i] = "dist_solve"
ShutsDown == Uniform /\ ~Solves(launch) => <>Ended

(* mathscript_server.cpp:5-9: the ranks run the same stream, so they reach *)
(* the same collectives in the same order.  A uniform job violates it.     *)
UniformRanksMeet == Uniform => SameCollectives
=============================================================================
