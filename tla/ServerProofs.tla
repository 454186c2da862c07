---------------------------- MODULE ServerProofs ----------------------------
(***************************************************************************)
(* What Server.tla promises, proved for every number of ranks and every    *)
(* set of launches: the ranks of a uniform job run one command stream, and *)
(* without a dist_solve they enter the same collectives, hold the same     *)
(* session and leave together.                                             *)
(*                                                                         *)
(* The argument is a merge of lists.  Every collective has a place in the  *)
(* stream (a command and a slot of it); a rank enters collectives at       *)
(* rising places and leaves out none that all ranks must enter, so two     *)
(* lists can part only at a kernel one rank skips.  AgreeInv says what the *)
(* k-th collectives of two ranks may then be, AnsweredInv that nobody has  *)
(* left a collective its partners have not come to.                        *)
(***************************************************************************)
EXTENDS Server, SequenceTheorems, TLAPS

-----------------------------------------------------------------------------
(* Types: a collective's record, and where the lines of a broadcast are.   *)

Ops == {"barrier", "mpi_bcast", "gather", "allreduce", "allgather"}

AnyOp    == Ops \cup {"broadcast_line"}
Payloads == Commands \cup {"none"}

Calls == [op : AnyOp, line : Payloads, at : Nat, slot : 0 .. 3]

LinesInv ==
    /\ \A k \in 1 .. Len(calls[0]) :
           calls[0][k].op = "broadcast_line" => calls[0][k].line \in Commands
    /\ \A r \in Ranks : cmd[r] = "broadcast_line" =>
           /\ pc[r] = "serve"
           /\ calls[r] # <<>>
           /\ calls[r][Len(calls[r])].op = "broadcast_line"

TypeInv ==
    /\ TypeOK
    /\ calls \in [Ranks -> Seq(Calls)]
    /\ todo  \in [Ranks -> Seq(Ops)]
    /\ LinesInv

USE RanksAssumption

LEMMA RootIsRank == 0 \in Ranks
  BY DEF Ranks

LEMMA CallsAre ==
  ASSUME TypeInv, NEW r \in Ranks
  PROVE  /\ calls[r] \in Seq(Calls) /\ Len(calls[r]) \in Nat
         /\ \A k \in 1 .. Len(calls[r]) : calls[r][k] \in Calls
  BY ElementOfSeq, LenProperties DEF TypeInv

LEMMA CallIs ==
  \A op \in AnyOp, line \in Payloads, at \in Nat, slot \in 0 .. 3 :
      /\ Call(op, line, at, slot) \in Calls
      /\ Call(op, line, at, slot).op = op
      /\ Call(op, line, at, slot).line = line
      /\ Call(op, line, at, slot).at = at
      /\ Call(op, line, at, slot).slot = slot
  BY DEF Call, Calls

LEMMA Entered ==
  ASSUME TypeInv, NEW r \in Ranks, NEW c \in Calls, Enter(r, c)
  PROVE  /\ calls' \in [Ranks -> Seq(Calls)]
         /\ inside' \in [Ranks -> BOOLEAN]
         /\ Len(calls'[r]) = Len(calls[r]) + 1
         /\ \A k \in 1 .. Len(calls[r]) : calls'[r][k] = calls[r][k]
         /\ calls'[r][Len(calls[r]) + 1] = c
         /\ calls'[r] # <<>>
         /\ \A q \in Ranks \ {r} : calls'[q] = calls[q]
  <1>1. calls[r] \in Seq(Calls) /\ calls' = [calls EXCEPT ![r] = Append(calls[r], c)]
    BY CallsAre DEF Enter
  <1>2. /\ Append(calls[r], c) \in Seq(Calls) /\ Len(Append(calls[r], c)) = Len(calls[r]) + 1
        /\ \A k \in 1 .. Len(calls[r]) : Append(calls[r], c)[k] = calls[r][k]
        /\ Append(calls[r], c)[Len(calls[r]) + 1] = c
        /\ Append(calls[r], c) # <<>>
    BY <1>1, AppendProperties, EmptySeq, LenProperties
  <1>3. calls \in [Ranks -> Seq(Calls)] /\ inside \in [Ranks -> BOOLEAN]
    BY DEF TypeInv, TypeOK
  <1>4. inside' \in [Ranks -> BOOLEAN]
    BY <1>3 DEF Enter
  <1> HIDE DEF Enter
  <1> QED
    BY <1>1, <1>2, <1>3, <1>4

(* The collectives of a command that enters any.                           *)
First(c) == CASE c = "mpi_barrier" -> "barrier"
              [] c = "mpi_bcast"   -> "mpi_bcast"
              [] c = "dist_cg"     -> "allreduce"
              [] OTHER             -> "gather"
Second(c) == IF c = "dist_cg" THEN "allgather" ELSE "gather"

Single == {"mpi_barrier", "mpi_bcast"}
Paired == {"dist_solve", "dist_matmul", "dist_cg"}

LEMMA CollectivesAre ==
  ASSUME NEW r \in Ranks, NEW c \in Commands
  PROVE  \/ /\ Collectives(r, c) = <<>>
            /\ c \notin Single \cup {"dist_solve"}
            /\ c \in Paired => x[r] \notin Whole
         \/ /\ Collectives(r, c) = <<First(c)>>
            /\ c \in Single
         \/ /\ Collectives(r, c) = <<First(c), Second(c)>>
            /\ c \in Paired
            /\ c # "dist_solve" => x[r] \in Whole
  BY DEF Collectives, Commands, First, Second, Single, Paired

LEMMA Tuples ==
  ASSUME NEW a, NEW b
  PROVE  /\ <<a>> # <<>> /\ Head(<<a>>) = a /\ Tail(<<a>>) = <<>>
         /\ <<a, b>> # <<>> /\ Head(<<a, b>>) = a /\ Tail(<<a, b>>) = <<b>>
  OBVIOUS

LEMMA FirstSecond == \A c : First(c) \in Ops /\ Second(c) \in Ops
  BY DEF First, Second, Ops

LEMMA OpsOne == ASSUME NEW a \in Ops PROVE <<a>> \in Seq(Ops) /\ <<>> \in Seq(Ops)
  OBVIOUS

LEMMA ResultsAre ==
  ASSUME TypeInv, NEW r \in Ranks, NEW c \in Commands
  PROVE  Results(r, c) \subseteq Values
  BY DEF Results, Values, Whole, TypeInv, TypeOK, Commands

(* Entering a collective that is no line leaves the lines as they are.      *)
LEMMA LinesKept ==
  ASSUME TypeInv, NEW r \in Ranks, NEW c \in Calls, Enter(r, c),
         c.op = "broadcast_line" /\ r = 0 => c.line \in Commands,
         \A q \in Ranks \ {r} : cmd'[q] = cmd[q] /\ pc'[q] = pc[q],
         cmd'[r] = "broadcast_line" => c.op = "broadcast_line" /\ pc'[r] = "serve"
  PROVE  LinesInv'
  <1> DEFINE n == Len(calls[r])
  <1>0. /\ Len(calls'[r]) = n + 1 /\ calls'[r][n + 1] = c /\ calls'[r] # <<>> /\ n \in Nat
        /\ \A k \in 1 .. n : calls'[r][k] = calls[r][k]
        /\ \A q \in Ranks \ {r} : calls'[q] = calls[q]
    BY Entered, CallsAre
  <1> HIDE DEF n
  <1>1. \A k \in 1 .. Len(calls'[0]) :
           calls'[0][k].op = "broadcast_line" => calls'[0][k].line \in Commands
    <2>1. CASE r = 0
      <3> SUFFICES ASSUME NEW k \in 1 .. n + 1, calls'[0][k].op = "broadcast_line"
                   PROVE  calls'[0][k].line \in Commands
        BY <1>0, <2>1
      <3>1. CASE k = n + 1
        BY <1>0, <2>1, <3>1
      <3>2. CASE k \in 1 .. n
        BY <1>0, <2>1, <3>2 DEF TypeInv, LinesInv, n
      <3> QED
        BY <1>0, <3>1, <3>2
    <2>2. CASE r # 0
      BY <1>0, <2>2, RootIsRank DEF TypeInv, LinesInv
    <2> QED
      BY <2>1, <2>2
  <1>2. \A q \in Ranks : cmd'[q] = "broadcast_line" =>
           /\ pc'[q] = "serve"
           /\ calls'[q] # <<>>
           /\ calls'[q][Len(calls'[q])].op = "broadcast_line"
    BY <1>0 DEF TypeInv, LinesInv
  <1> QED
    BY <1>1, <1>2 DEF LinesInv

LEMMA RunCommandTyped ==
  ASSUME TypeInv, NEW r \in Ranks, NEW c \in Commands, RunCommand(r, c), UNCHANGED launch
  PROVE  TypeInv'
  <1>1. ran' \in [Ranks -> Seq(Commands)]
    <2>1. ran[r] \in Seq(Commands)
      BY DEF TypeInv, TypeOK
    <2>2. Append(ran[r], c) \in Seq(Commands)
      BY <2>1, AppendProperties
    <2> QED
      BY <2>2 DEF RunCommand, TypeInv, TypeOK
  <1>2. CASE /\ c = "exit"
             /\ pc' = [pc EXCEPT ![r] = "stop"]
             /\ cmd' = [cmd EXCEPT ![r] = "none"]
             /\ Leave(r)
             /\ UNCHANGED <<alive, next, todo, inited, x>>
    <2>1. TypeOK'
      BY <1>1, <1>2 DEF TypeInv, TypeOK, Leave
    <2>2. LinesInv'
      BY <1>2 DEF TypeInv, TypeOK, LinesInv, Leave
    <2> QED
      BY <1>2, <2>1, <2>2 DEF TypeInv, Leave
  <1>3. CASE alive' = FALSE /\ UNCHANGED <<pc, next, cmd, todo, calls, inside, inited, x>>
    <2>1. TypeOK'
      BY <1>1, <1>3 DEF TypeInv, TypeOK
    <2> QED
      BY <1>3, <2>1 DEF TypeInv, LinesInv
  <1>4. CASE /\ inited' = [inited EXCEPT ![r] = @ \/ UsesMpi(r, c)]
             /\ Collectives(r, c) = <<>>
             /\ Complete(r, c) /\ Leave(r) /\ UNCHANGED todo
             /\ UNCHANGED <<alive, pc>>
    <2>1. inited' \in [Ranks -> BOOLEAN]
      BY <1>4 DEF TypeInv, TypeOK
    <2>2. x' \in [Ranks -> Values]
      BY <1>4, ResultsAre DEF Complete, TypeInv, TypeOK
    <2>3. TypeOK'
      BY <1>1, <1>4, <2>1, <2>2 DEF TypeInv, TypeOK, Leave, Complete
    <2>4. LinesInv'
      BY <1>4 DEF TypeInv, TypeOK, LinesInv, Leave, Complete
    <2> QED
      BY <1>4, <2>3, <2>4 DEF TypeInv, Leave
  <1>5. CASE /\ inited' = [inited EXCEPT ![r] = @ \/ UsesMpi(r, c)]
             /\ Collectives(r, c) # <<>>
             /\ cmd'  = [cmd EXCEPT ![r] = c]
             /\ todo' = [todo EXCEPT ![r] = Tail(Collectives(r, c))]
             /\ Enter(r, Call(Head(Collectives(r, c)), "none", Len(ran[r]) + 1, 1))
             /\ UNCHANGED <<next, x>>
             /\ UNCHANGED <<alive, pc>>
    <2> DEFINE o == Head(Collectives(r, c))
    <2>1. /\ o \in Ops /\ Tail(Collectives(r, c)) \in Seq(Ops)
          /\ o = First(c)
      <3>1. CASE Collectives(r, c) = <<First(c)>>
        BY <3>1, FirstSecond, Tuples, OpsOne
      <3>2. CASE Collectives(r, c) = <<First(c), Second(c)>>
        BY <3>2, FirstSecond, Tuples, OpsOne
      <3> QED
        BY <1>5, <3>1, <3>2, CollectivesAre
    <2>2. o # "broadcast_line" /\ cmd' = [cmd EXCEPT ![r] = c] /\ c # "broadcast_line"
      BY <1>5, <2>1 DEF First, Commands
    <2>3. Len(ran[r]) + 1 \in Nat
      BY LenProperties DEF TypeInv, TypeOK
    <2> DEFINE call == Call(o, "none", Len(ran[r]) + 1, 1)
    <2>4. call \in Calls /\ call.op = o /\ Enter(r, call)
      <3>1. Enter(r, call)
        BY <1>5
      <3> HIDE DEF o
      <3>2. call \in Calls /\ call.op = o
        BY <2>1, <2>3 DEF Call, Calls, AnyOp, Payloads
      <3> QED
        BY <3>1, <3>2
    <2> HIDE DEF o, call
    <2>5. calls' \in [Ranks -> Seq(Calls)] /\ inside' \in [Ranks -> BOOLEAN]
      BY <2>4, Entered
    <2>6. cmd'[r] = c /\ \A q \in Ranks \ {r} : cmd'[q] = cmd[q] /\ pc'[q] = pc[q]
      BY <1>5, <2>2 DEF TypeInv, TypeOK
    <2>7. LinesInv'
      BY <2>2, <2>4, <2>6, LinesKept
    <2>8. inited' \in [Ranks -> BOOLEAN]
      BY <1>5 DEF TypeInv, TypeOK
    <2>9. TypeOK'
      BY <1>1, <1>5, <2>5, <2>8 DEF TypeInv, TypeOK
    <2> QED
      BY <1>5, <2>1, <2>5, <2>7, <2>9 DEF TypeInv
  <1> QED
    BY <1>2, <1>3, <1>4, <1>5 DEF RunCommand

LEMMA LinesAre ==
  ASSUME TypeInv, NEW r \in Ranks
  PROVE  /\ Lines(r) \in Seq(Commands)
         /\ \A i \in 1 .. Len(Lines(r)) : Lines(r)[i] \in Commands
         /\ NextInput \in Commands
  <1>1. launch.script \in Seq(Commands) /\ launch.evals \in Seq(Commands)
        /\ launch.stdin \in Seq(Commands)
    BY DEF TypeInv, TypeOK, LaunchRecord
  <1>2. Lines(r) \in Seq(Commands)
    BY <1>1, EmptySeq DEF Lines
  <1>3. NextInput \in Commands
    <2>1. next[0] \in Nat \ {0}
      BY RootIsRank DEF TypeInv, TypeOK
    <2>2. CASE next[0] <= Len(launch.stdin)
      BY <1>1, <2>1, <2>2, ElementOfSeq, LenProperties DEF NextInput
    <2>3. CASE ~(next[0] <= Len(launch.stdin))
      BY <2>3 DEF NextInput, Commands
    <2> QED
      BY <2>2, <2>3
  <1> QED
    BY <1>2, <1>3, ElementOfSeq, LenProperties

LEMMA ReceivedIs ==
  ASSUME TypeInv, NEW r \in Ranks, cmd[r] = "broadcast_line", CanReturn(r)
  PROVE  /\ Len(calls[r]) \in 1 .. Len(calls[0])
         /\ MpiOp(calls[0][Len(calls[r])].op) = "mpi_bcast"
         /\ Received(r) \in Commands
  <1> DEFINE k == Len(calls[r])
  <1>1. calls[r] # <<>> /\ calls[r][k].op = "broadcast_line" /\ k \in Nat
    BY CallsAre DEF TypeInv, LinesInv
  <1>2. k # 0
    BY <1>1, CallsAre, EmptySeq
  <1>3. MpiOp(calls[r][k].op) = "mpi_bcast"
    BY <1>1 DEF MpiOp
  <1>4. Met(0, k, "mpi_bcast")
    BY <1>3 DEF CanReturn
  <1>5. k \in 1 .. Len(calls[0]) /\ MpiOp(calls[0][k].op) = "mpi_bcast"
    BY <1>1, <1>2, <1>4, CallsAre, RootIsRank DEF Met
  <1> QED
    BY <1>5 DEF Received, Commands, TypeInv, LinesInv

LEMMA TypeStep == ASSUME TypeInv, NEW r \in Ranks, Step(r) PROVE TypeInv'
  <1>1. CASE Boot(r) \/ Stop(r)
    <2> DEFINE at == IF pc[r] = "boot" THEN 0 ELSE Len(ran[r])
               slot == IF pc[r] = "boot" THEN 0 ELSE 3
               call == Call("barrier", "none", at, slot)
    <2>1. Enter(r, call) /\ UNCHANGED <<launch, alive, next, cmd, todo, inited, x, ran>>
      BY <1>1 DEF Boot, Stop, At
    <2>2. at \in Nat /\ slot \in 0 .. 3
      BY LenProperties DEF TypeInv, TypeOK
    <2> HIDE DEF at, slot
    <2>3. call \in Calls /\ call.op = "barrier"
      BY <2>2 DEF Call, Calls, AnyOp, Payloads, Ops
    <2> HIDE DEF call
    <2>4. calls' \in [Ranks -> Seq(Calls)] /\ inside' \in [Ranks -> BOOLEAN]
      BY <2>1, <2>3, Entered
    <2>5. /\ cmd'[r] # "broadcast_line"
          /\ \A q \in Ranks \ {r} : cmd'[q] = cmd[q] /\ pc'[q] = pc[q]
      BY <1>1, <2>1 DEF Boot, Stop, At, TypeInv, TypeOK, LinesInv
    <2>6. LinesInv'
      BY <2>1, <2>3, <2>5, LinesKept
    <2>7. pc' \in [Ranks -> {"boot", "ready", "script", "eval", "serve",
                             "stop", "closing", "done"}]
      BY <1>1 DEF Boot, Stop, TypeInv, TypeOK
    <2>8. TypeOK'
      BY <2>1, <2>4, <2>7 DEF TypeInv, TypeOK
    <2> QED
      BY <2>1, <2>4, <2>6, <2>8 DEF TypeInv
  <1>2. CASE Ready(r) \/ Finalize(r)
    <2>1. TypeOK'
      BY <1>2 DEF Ready, Finalize, Leave, TypeInv, TypeOK
    <2>2. /\ UNCHANGED <<calls, cmd, todo>> /\ pc[r] # "serve"
          /\ \A q \in Ranks \ {r} : pc'[q] = pc[q]
      BY <1>2 DEF Ready, Finalize, At, Leave, TypeInv, TypeOK
    <2> QED
      BY <2>1, <2>2 DEF TypeInv, LinesInv
  <1>3. CASE RunLine(r)
    <2>1. next[r] \in 1 .. Len(Lines(r))
      BY <1>3, LinesAre, LenProperties DEF RunLine, TypeInv, TypeOK
    <2>2. Lines(r)[next[r]] \in Commands
      BY <2>1, LinesAre
    <2> QED
      BY <1>3, <2>2, RunCommandTyped DEF RunLine
  <1>4. CASE EndOfLines(r)
    <2>1. TypeOK'
      BY <1>4 DEF EndOfLines, TypeInv, TypeOK
    <2>2. /\ UNCHANGED <<calls, cmd, todo>> /\ cmd[r] = "none"
          /\ \A q \in Ranks \ {r} : pc'[q] = pc[q]
      BY <1>4 DEF EndOfLines, TypeInv, TypeOK
    <2> QED
      BY <2>1, <2>2 DEF TypeInv, LinesInv
  <1>5. CASE ReadLine(r)
    <2>1. CASE N = 1
      BY <1>5, <2>1, LinesAre, RunCommandTyped DEF ReadLine
    <2>2. CASE N # 1
      <3>1. PICK l \in Payloads :
                l = (IF r = 0 THEN NextInput ELSE "none") /\ (r = 0 => l \in Commands)
        BY LinesAre DEF Payloads
      <3> DEFINE call == Call("broadcast_line", l, Len(ran[r]), 3)
      <3>2. /\ cmd' = [cmd EXCEPT ![r] = "broadcast_line"] /\ Enter(r, call)
            /\ UNCHANGED <<launch, alive, pc, next, todo, inited, x, ran>>
            /\ pc[r] = "serve"
        BY <1>5, <2>2, <3>1 DEF ReadLine, At
      <3>3. Len(ran[r]) \in Nat
        BY LenProperties DEF TypeInv, TypeOK
      <3>4. call \in Calls /\ call.op = "broadcast_line" /\ call.line = l
        <4>1. "broadcast_line" \in AnyOp /\ 3 \in 0 .. 3
          BY DEF AnyOp
        <4> QED
          BY <3>3, <4>1, CallIs
      <3> HIDE DEF call
      <3>5. calls' \in [Ranks -> Seq(Calls)] /\ inside' \in [Ranks -> BOOLEAN]
        BY <3>2, <3>4, Entered
      <3>6. LinesInv'
        BY <3>1, <3>2, <3>4, LinesKept DEF TypeInv, TypeOK
      <3>7. TypeOK'
        BY <3>2, <3>5 DEF TypeInv, TypeOK
      <3> QED
        BY <3>2, <3>5, <3>6, <3>7 DEF TypeInv
    <2> QED
      BY <2>1, <2>2
  <1>6. CASE RunReceived(r)
    BY <1>6, ReceivedIs, RunCommandTyped DEF RunReceived
  <1>7. CASE Proceed(r)
    <2>1. CASE todo[r] # <<>>
      <3> DEFINE o == Head(todo[r])
                 call == Call(o, "none", Len(ran[r]), 2)
      <3>1. /\ Enter(r, call) /\ todo' = [todo EXCEPT ![r] = Tail(todo[r])]
            /\ UNCHANGED <<launch, alive, pc, cmd, next, inited, x, ran>>
            /\ cmd[r] \in Commands
        BY <1>7, <2>1 DEF Proceed
      <3>2. Len(ran[r]) \in Nat /\ o \in Ops /\ Tail(todo[r]) \in Seq(Ops)
        BY <2>1, HeadTailProperties, LenProperties, EmptySeq DEF TypeInv, TypeOK
      <3> HIDE DEF o
      <3>3. call \in Calls /\ call.op = o
        <4>1. call.op = o
          BY DEF Call
        <4>2. call \in Calls
          BY <3>2 DEF Call, Calls, AnyOp, Payloads
        <4> QED
          BY <4>1, <4>2
      <3> HIDE DEF call
      <3>4. calls' \in [Ranks -> Seq(Calls)] /\ inside' \in [Ranks -> BOOLEAN]
        BY <3>1, <3>3, Entered
      <3>5. cmd[r] # "broadcast_line" /\ o # "broadcast_line"
        BY <3>1, <3>2 DEF Commands, Ops
      <3>6. TypeOK'
        BY <3>1, <3>4 DEF TypeInv, TypeOK
      <3>7. LinesInv'
        BY <3>1, <3>3, <3>5, LinesKept
      <3>8. todo' \in [Ranks -> Seq(Ops)]
        BY <3>1, <3>2 DEF TypeInv
      <3> QED
        BY <3>4, <3>6, <3>7, <3>8 DEF TypeInv
    <2>2. CASE todo[r] = <<>>
      <3>1. /\ Complete(r, cmd[r]) /\ Leave(r) /\ cmd[r] \in Commands
            /\ UNCHANGED <<launch, alive, pc, todo, inited, ran>>
        BY <1>7, <2>2 DEF Proceed
      <3>2. x' \in [Ranks -> Values]
        BY <3>1, ResultsAre DEF Complete, TypeInv, TypeOK
      <3>3. TypeOK'
        BY <3>1, <3>2 DEF Complete, Leave, TypeInv, TypeOK
      <3>4. LinesInv'
        BY <3>1 DEF Complete, Leave, TypeInv, TypeOK, LinesInv
      <3> QED
        BY <3>1, <3>3, <3>4 DEF Leave, TypeInv
    <2> QED
      BY <2>1, <2>2
  <1> QED
    BY <1>1, <1>2, <1>3, <1>4, <1>5, <1>6, <1>7 DEF Step

(* For every number of ranks and every set of launches each variable keeps *)
(* its range; a line that reaches a rank is one rank 0 read.               *)
THEOREM TypeCorrect == Spec => []TypeOK
  <1>1. Init => TypeInv
    BY EmptySeq, LenProperties DEF Init, TypeInv, TypeOK, LinesInv, LaunchRecord, Commands, Values, Ranks
  <1>2. TypeInv /\ [Next]_vars => TypeInv'
    <2> SUFFICES ASSUME TypeInv, [Next]_vars PROVE TypeInv'
      OBVIOUS
    <2>1. CASE Next
      BY <2>1, TypeStep DEF Next
    <2>2. CASE UNCHANGED vars
      BY <2>2 DEF vars, TypeInv, TypeOK, LinesInv
    <2> QED
      BY <2>1, <2>2
  <1>3. TypeInv => TypeOK
    BY DEF TypeInv
  <1> QED
    BY <1>1, <1>2, <1>3, PTL DEF Spec
-----------------------------------------------------------------------------
(* The stream all ranks of a uniform job run: the script, the -e commands, *)
(* the lines of rank 0's input, and "exit" for ever after.                 *)

ScriptLines(l) == IF l.hasScript /\ l.opens[0] THEN l.script ELSE <<>>
Offline(l)     == Len(ScriptLines(l)) + Len(l.evals)

Line(l, i) ==
    CASE i <= Len(ScriptLines(l)) -> ScriptLines(l)[i]
      [] i > Len(ScriptLines(l)) /\ i <= Offline(l) -> l.evals[i - Len(ScriptLines(l))]
      [] i > Offline(l) /\ i - Offline(l) <= Len(l.stdin) -> l.stdin[i - Offline(l)]
      [] OTHER -> "exit"

(* Rank 0, and with it every rank of a uniform job, goes on to serve.      *)
Serving(l) == l.serve \/ (~l.hasScript /\ l.evals = <<>> /\ ~l.tty[0])

(* Nothing follows the m-th command.                                       *)
Ends(l, m) == \/ m > 0 /\ Line(l, m) = "exit"
              \/ m = Offline(l) /\ ~Serving(l)

AssignedBy(l, m) == \E i \in 1 .. m : Line(l, i) = "assign"

(* What x is after m commands, none of which leaves its result on rank 0.  *)
Solved(l, m) == \A i \in 1 .. m : Line(l, i) = "assign" =>
                    \E j \in i + 1 .. m : Line(l, j) = "dist_cg"
XAfter(l, m) == IF ~AssignedBy(l, m) THEN "none"
                ELSE IF Solved(l, m) THEN "solution" ELSE "input"

(* A place of the stream is a command and a slot of it (see Call): the op  *)
(* a collective has there; whether every rank enters one there, whatever   *)
(* its x; whether one that holds the whole of x does; whether one may.     *)
OpAt(l, m, s) ==
    CASE s = 1 /\ Line(l, m) = "mpi_bcast" -> "mpi_bcast"
      [] s \in {1, 2} /\ Line(l, m) \in {"dist_solve", "dist_matmul"} -> "gather"
      [] s = 1 /\ Line(l, m) = "dist_cg" -> "allreduce"
      [] s = 2 /\ Line(l, m) = "dist_cg" -> "allgather"
      [] s = 3 /\ ~Ends(l, m) -> "broadcast_line"
      [] OTHER -> "barrier"

Must(l, m, s) ==
    \/ s = 0 /\ m = 0
    \/ s = 1 /\ m > 0 /\ Line(l, m) \in {"mpi_barrier", "mpi_bcast", "dist_solve"}
    \/ s = 2 /\ m > 0 /\ Line(l, m) = "dist_solve"
    \/ s = 3 /\ (m >= Offline(l) \/ Ends(l, m))

Kernel(l, m, s) == s \in {1, 2} /\ m > 0 /\ Line(l, m) \in {"dist_matmul", "dist_cg"}
Can(l, m, s)    == Must(l, m, s) \/ (Kernel(l, m, s) /\ AssignedBy(l, m))

(* The order of places.                                                    *)
Place(c) == 4 * c.at + c.slot

(* The collectives whose partners may not be there: a gather makes only    *)
(* rank 0 wait, and who meets it in another one waits for ever.            *)
Weak == {"gather", "allreduce", "allgather"}

-----------------------------------------------------------------------------
(* The inductive invariant.                                                *)

Busy(r)    == cmd[r] \in Commands
Pending(r) == IF Busy(r) THEN 1 ELSE 0
Closed(r)  == pc[r] \in {"closing", "done"}

(* The first place the rank has not passed.                                *)
Front(r) ==
    IF pc[r] = "boot" THEN 0
    ELSE IF Closed(r) \/ cmd[r] = "broadcast_line" THEN 4 * Len(ran[r]) + 4
    ELSE IF Busy(r) /\ todo[r] # <<>> THEN 4 * Len(ran[r]) + 2
    ELSE 4 * Len(ran[r]) + 3

(* The rank has returned from its k-th collective.                         *)
Idle(r)    == pc[r] \notin {"ready", "closing"} /\ cmd[r] = "none"
Left(r, k) == k < Len(calls[r]) \/ Idle(r)

StreamInv(r) == \A i \in 1 .. Len(ran[r]) : ran[r][i] = Line(launch, i)

(* Where main() is tells how many commands it has taken.                   *)
ControlInv(r) ==
    /\ pc[r] \in {"boot", "ready"} =>
           Len(ran[r]) = 0 /\ cmd[r] = "none" /\ next[r] = 1
    /\ pc[r] = "script" =>
           /\ Len(ran[r]) = next[r] - 1 + Pending(r)
           /\ Len(ran[r]) <= Len(ScriptLines(launch))
    /\ pc[r] = "eval" =>
           /\ Len(ran[r]) = Len(ScriptLines(launch)) + next[r] - 1 + Pending(r)
           /\ Len(ran[r]) <= Offline(launch)
    /\ pc[r] = "serve" =>
           /\ Serving(launch)
           /\ Len(ran[r]) = Offline(launch) + next[r] - 1 + Pending(r)
    /\ pc[r] \in {"script", "eval", "serve"} =>
           \A i \in 1 .. Len(ran[r]) : Line(launch, i) # "exit"
    /\ pc[r] \in {"stop", "closing", "done"} =>
           cmd[r] = "none" /\ Ends(launch, Len(ran[r]))

(* What a rank knows of the command it is in.                              *)
CommandInv(r) ==
    /\ cmd[r] = "broadcast_line" =>
           /\ pc[r] = "serve"
           /\ calls[r][Len(calls[r])].at = Len(ran[r])
    /\ Busy(r) =>
           /\ pc[r] \in {"script", "eval", "serve"}
           /\ Len(ran[r]) > 0 /\ cmd[r] = Line(launch, Len(ran[r]))
           /\ cmd[r] \in {"dist_matmul", "dist_cg"} => x[r] \in Whole
           /\ todo[r] # <<>> =>
                  /\ cmd[r] \in Paired
                  /\ todo[r] = <<OpAt(launch, Len(ran[r]), 2)>>

(* The collectives a rank has entered lie at rising places it has passed.  *)
(* It has left out none it must enter.  Rank 0 enters all it can, as it    *)
(* keeps a matrix that was assigned; the others enter only what they can,  *)
(* as they never come by a matrix that was not.                            *)
NoSolve == NobodyRan({"dist_solve"})

LawfulInv(r) ==
    \A k \in 1 .. Len(calls[r]) :
        LET c == calls[r][k] IN
        /\ Place(c) < Front(r)
        /\ \A j \in 1 .. k - 1 : Place(calls[r][j]) < Place(c)
        /\ c.op = OpAt(launch, c.at, c.slot)
        /\ Must(launch, c.at, c.slot) \/ Kernel(launch, c.at, c.slot)
        /\ r # 0 \/ NoSolve => Can(launch, c.at, c.slot)
        /\ r = 0 /\ c.op = "broadcast_line" => c.line = Line(launch, c.at + 1)
        /\ c.slot = 3 /\ Ends(launch, c.at) => Closed(r)

Has(s, m, t) == \E k \in 1 .. Len(s) : s[k].at = m /\ s[k].slot = t

Due(r, m, s) == \/ Must(launch, m, s)
                \/ (r = 0 \/ NoSolve) /\ Can(launch, m, s)

CoverInv(r) ==
    \A m \in Nat, s \in 0 .. 3 :
        4 * m + s < Front(r) /\ Due(r, m, s) => Has(calls[r], m, s)

Finished(r) == Len(ran[r]) - Pending(r)

SessionInv(r) ==
    /\ r # 0 \/ NoSolve => (x[r] \in Whole => AssignedBy(launch, Finished(r)))
    /\ r = 0 \/ NoSolve => (AssignedBy(launch, Finished(r)) => x[r] \in Whole)
    /\ NobodyRan({"dist_solve", "dist_matmul"}) => x[r] = XAfter(launch, Finished(r))

RankInv(r) == /\ ControlInv(r) /\ CommandInv(r)
              /\ LawfulInv(r) /\ CoverInv(r) /\ SessionInv(r)

(* The k-th collectives of two ranks are at the same place.                *)
Same(r, q, k) == calls[r][k].at = calls[q][k].at /\ calls[r][k].slot = calls[q][k].slot

(* Against rank 0: the same place, or rank 0 is in a kernel the other did  *)
(* not enter, behind it in the stream.                                     *)
Agree(q, k) == \/ Same(0, q, k)
               \/ /\ calls[0][k].op \in Weak
                  /\ Place(calls[0][k]) < Place(calls[q][k])

AgreeInv ==
    /\ \A q \in Ranks : \A k \in 1 .. Len(calls[q]) : k <= Len(calls[0]) => Agree(q, k)
    /\ NoSolve => \A r, q \in Ranks : \A k \in 1 .. Len(calls[r]) :
           k <= Len(calls[q]) => Same(r, q, k)

(* What a rank needed to return from its k-th collective.                  *)
Answered(r, k) ==
    /\ calls[r][k].op \notin Weak =>
           k <= Len(calls[0]) /\ MpiOp(calls[0][k].op) = MpiOp(calls[r][k].op)
    /\ calls[r][k].op \in {"barrier", "allreduce", "allgather"} =>
           \A q \in Ranks : k <= Len(calls[q])

AnsweredInv(r) == \A k \in 1 .. Len(calls[r]) : Left(r, k) => Answered(r, k)

LiveInv == /\ \A r \in Ranks : RankInv(r) /\ AnsweredInv(r)
           /\ AgreeInv

(* After an abort only what the properties say is left to hold.            *)
DeadInv == CollectivesMatch /\ SessionsAgree /\ LeaveTogether

JobInv == /\ \A r \in Ranks : StreamInv(r)
          /\ alive  => LiveInv
          /\ ~alive => DeadInv

IInv == TypeInv /\ (Uniform /\ N > 1 => JobInv)
-----------------------------------------------------------------------------
(* Two lists of collectives at rising places of one stream.                *)

LEMMA SamePlace ==
  \A c, d \in Calls :
      /\ Place(c) \in Nat
      /\ Place(c) = Place(d) => c.at = d.at /\ c.slot = d.slot
      /\ c.at = d.at /\ c.slot = d.slot => Place(c) = Place(d)
  BY DEF Place, Calls

LEMMA KernelsAreWeak ==
  \A l, m, s : Kernel(l, m, s) => OpAt(l, m, s) \in Weak
  BY DEF Kernel, OpAt, Weak

LEMMA WeakIsMpi ==
  \A o : /\ o \in Weak => MpiOp(o) = o
         /\ o \notin Weak => MpiOp(o) \notin Weak
  BY DEF Weak, MpiOp

Rising(s) == \A k \in 1 .. Len(s) : \A j \in 1 .. k - 1 : Place(s[j]) < Place(s[k])

Lawful(l, c) == /\ c.op = OpAt(l, c.at, c.slot)
                /\ Must(l, c.at, c.slot) \/ Kernel(l, c.at, c.slot)

Meets(a, b, k) == \/ a[k].at = b[k].at /\ a[k].slot = b[k].slot
                  \/ a[k].op \in Weak /\ Place(a[k]) < Place(b[k])

(* In a list at rising places what lies before the k-th has a lower index. *)
LEMMA Earlier ==
  ASSUME NEW s \in Seq(Calls), Rising(s), NEW k \in 1 .. Len(s), NEW c \in Calls,
         Has(s, c.at, c.slot), Place(c) < Place(s[k])
  PROVE  \E j \in 1 .. k - 1 : Place(s[j]) = Place(c) /\ s[j].at = c.at /\ s[j].slot = c.slot
  <1>1. PICK j \in 1 .. Len(s) : s[j].at = c.at /\ s[j].slot = c.slot
    BY DEF Has
  <1>2. s[j] \in Calls /\ s[k] \in Calls /\ Len(s) \in Nat
    BY ElementOfSeq, LenProperties
  <1>3. Place(s[j]) = Place(c) /\ Place(s[j]) \in Nat /\ Place(s[k]) \in Nat
    BY <1>1, <1>2, SamePlace
  <1>4. ~(k < j)
    <2> SUFFICES ASSUME k < j PROVE FALSE
      OBVIOUS
    <2>1. k \in 1 .. j - 1
      BY <1>2
    <2> QED
      BY <1>3, <2>1 DEF Rising
  <1>5. j \in 1 .. k - 1
    BY <1>2, <1>3, <1>4
  <1> QED
    BY <1>1, <1>3, <1>5

(* Rank 0's collectives a against another rank's b: a covers those of b    *)
(* before a[k], and b the ones every rank must enter.                      *)
LEMMA Meet ==
  ASSUME NEW l, NEW a \in Seq(Calls), NEW b \in Seq(Calls),
         NEW k \in 1 .. Len(a), k \in 1 .. Len(b),
         Rising(a), Rising(b),
         \A i \in 1 .. Len(a) : Lawful(l, a[i]),
         \A i \in 1 .. Len(b) : Lawful(l, b[i]),
         \A i \in 1 .. Len(b) : Place(b[i]) < Place(a[k]) => Has(a, b[i].at, b[i].slot),
         (Must(l, a[k].at, a[k].slot) /\ Place(a[k]) < Place(b[k])) => Has(b, a[k].at, a[k].slot),
         \A j \in 1 .. k - 1 : Meets(a, b, j),
         \A j \in 1 .. k - 1 : b[j].op \notin Weak => MpiOp(a[j].op) = MpiOp(b[j].op)
  PROVE  Meets(a, b, k)
  <1>0. /\ \A i \in 1 .. Len(a) : a[i] \in Calls /\ Place(a[i]) \in Nat
        /\ \A i \in 1 .. Len(b) : b[i] \in Calls /\ Place(b[i]) \in Nat
        /\ Len(a) \in Nat /\ Len(b) \in Nat
    BY ElementOfSeq, LenProperties, SamePlace
  <1>1. CASE Place(a[k]) = Place(b[k])
    BY <1>0, <1>1, SamePlace DEF Meets
  <1>2. ~(Place(b[k]) < Place(a[k]))
    <2> SUFFICES ASSUME Place(b[k]) < Place(a[k]) PROVE FALSE
      OBVIOUS
    <2>1. PICK j \in 1 .. k - 1 : Place(a[j]) = Place(b[k])
      BY <1>0, Earlier
    <2>2. j \in 1 .. Len(b) /\ j \in 1 .. Len(a)
      BY <1>0
    <2>3. Place(a[j]) <= Place(b[j])
      <3>1. /\ a[j] \in Calls /\ b[j] \in Calls /\ Meets(a, b, j)
            /\ Place(a[j]) \in Nat /\ Place(b[j]) \in Nat
        BY <1>0, <2>2
      <3>2. Place(a[j]) = Place(b[j]) \/ Place(a[j]) < Place(b[j])
        BY <3>1, SamePlace DEF Meets
      <3> QED
        BY <3>1, <3>2
    <2>4. Place(b[j]) < Place(b[k])
      BY DEF Rising
    <2> QED
      BY <1>0, <2>1, <2>2, <2>3, <2>4
  <1>3. CASE Place(a[k]) < Place(b[k])
    <2>1. SUFFICES ASSUME a[k].op \notin Weak PROVE FALSE
      BY <1>3 DEF Meets
    <2>2. Must(l, a[k].at, a[k].slot)
      BY <2>1, KernelsAreWeak DEF Lawful
    <2>3. PICK j \in 1 .. k - 1 : /\ Place(b[j]) = Place(a[k])
                                  /\ b[j].at = a[k].at /\ b[j].slot = a[k].slot
      BY <1>0, <1>3, <2>2, Earlier
    <2>4. j \in 1 .. Len(b) /\ j \in 1 .. Len(a)
      BY <1>0
    <2>5. b[j].op = a[k].op
      BY <2>3, <2>4 DEF Lawful
    <2>6. MpiOp(a[j].op) = MpiOp(b[j].op)
      BY <2>1, <2>5
    <2>7. Place(a[j]) < Place(a[k])
      BY DEF Rising
    <2>8. a[j].op \in Weak
      <3>1. /\ a[j] \in Calls /\ b[j] \in Calls /\ Meets(a, b, j)
            /\ Place(a[j]) \in Nat /\ Place(b[j]) \in Nat
        BY <1>0, <2>4
      <3>2. Place(a[j]) # Place(b[j])
        BY <2>3, <2>7, <3>1
      <3> QED
        BY <3>1, <3>2, SamePlace DEF Meets
    <2> QED
      BY <2>1, <2>5, <2>6, <2>8, WeakIsMpi
  <1> QED
    BY <1>0, <1>1, <1>2, <1>3

(* Two ranks that enter and cover the same places meet at every one.       *)
LEMMA MeetSame ==
  ASSUME NEW a \in Seq(Calls), NEW b \in Seq(Calls),
         NEW k \in 1 .. Len(a), k \in 1 .. Len(b),
         Rising(a), Rising(b),
         Place(b[k]) < Place(a[k]) => Has(a, b[k].at, b[k].slot),
         Place(a[k]) < Place(b[k]) => Has(b, a[k].at, a[k].slot),
         \A j \in 1 .. k - 1 : a[j].at = b[j].at /\ a[j].slot = b[j].slot
  PROVE  a[k].at = b[k].at /\ a[k].slot = b[k].slot
  <1>0. /\ \A i \in 1 .. Len(a) : a[i] \in Calls /\ Place(a[i]) \in Nat
        /\ \A i \in 1 .. Len(b) : b[i] \in Calls /\ Place(b[i]) \in Nat
        /\ Len(a) \in Nat /\ Len(b) \in Nat
    BY ElementOfSeq, LenProperties, SamePlace
  <1>1. ~(Place(b[k]) < Place(a[k]))
    <2> SUFFICES ASSUME Place(b[k]) < Place(a[k]) PROVE FALSE
      OBVIOUS
    <2>1. PICK j \in 1 .. k - 1 : Place(a[j]) = Place(b[k])
      BY <1>0, Earlier
    <2>2. a[j] \in Calls /\ b[j] \in Calls /\ Place(b[j]) < Place(b[k])
      BY <1>0 DEF Rising
    <2>3. Place(a[j]) = Place(b[j]) /\ Place(b[j]) \in Nat
      BY <2>2, SamePlace
    <2> QED
      BY <1>0, <2>1, <2>2, <2>3
  <1>2. ~(Place(a[k]) < Place(b[k]))
    <2> SUFFICES ASSUME Place(a[k]) < Place(b[k]) PROVE FALSE
      OBVIOUS
    <2>1. PICK j \in 1 .. k - 1 : Place(b[j]) = Place(a[k])
      BY <1>0, Earlier
    <2>2. a[j] \in Calls /\ b[j] \in Calls /\ Place(a[j]) < Place(a[k])
      BY <1>0 DEF Rising
    <2>3. Place(a[j]) = Place(b[j]) /\ Place(a[j]) \in Nat
      BY <2>2, SamePlace
    <2> QED
      BY <1>0, <2>1, <2>2, <2>3
  <1> QED
    BY <1>0, <1>1, <1>2, SamePlace

-----------------------------------------------------------------------------
(* The stream from one command to the next.                                *)

LEMMA AssignedStep ==
  \A l : \A m \in Nat :
      AssignedBy(l, m + 1) <=> AssignedBy(l, m) \/ Line(l, m + 1) = "assign"
  <1> SUFFICES ASSUME NEW l, NEW m \in Nat
               PROVE  AssignedBy(l, m + 1) <=> AssignedBy(l, m) \/ Line(l, m + 1) = "assign"
    OBVIOUS
  <1>1. \A i : i \in 1 .. m + 1 <=> i \in 1 .. m \/ i = m + 1
    OBVIOUS
  <1> QED
    BY <1>1, Zenon DEF AssignedBy

LEMMA XAfterStep ==
  \A l : \A m \in Nat :
      /\ Line(l, m + 1) = "assign" => XAfter(l, m + 1) = "input"
      /\ Line(l, m + 1) = "dist_cg" =>
             XAfter(l, m + 1) = IF AssignedBy(l, m) THEN "solution" ELSE "none"
      /\ Line(l, m + 1) \notin {"assign", "dist_cg"} => XAfter(l, m + 1) = XAfter(l, m)
  <1> SUFFICES ASSUME NEW l, NEW m \in Nat
               PROVE
      /\ Line(l, m + 1) = "assign" => XAfter(l, m + 1) = "input"
      /\ Line(l, m + 1) = "dist_cg" =>
             XAfter(l, m + 1) = IF AssignedBy(l, m) THEN "solution" ELSE "none"
      /\ Line(l, m + 1) \notin {"assign", "dist_cg"} => XAfter(l, m + 1) = XAfter(l, m)
    OBVIOUS
  <1>1. \A i, n \in 1 .. m : i \in n + 1 .. m + 1 <=> i \in n + 1 .. m \/ i = m + 1
    OBVIOUS
  <1>2. CASE Line(l, m + 1) = "assign"
    <2>1. ~Solved(l, m + 1)
      <3>1. m + 1 \in 1 .. m + 1 /\ ~\E j \in (m + 1) + 1 .. m + 1 : Line(l, j) = "dist_cg"
        OBVIOUS
      <3> QED
        BY <1>2, <3>1 DEF Solved
    <2> QED
      BY <1>2, <2>1, AssignedStep DEF XAfter
  <1>3. CASE Line(l, m + 1) = "dist_cg"
    <2>1. Solved(l, m + 1)
      <3> SUFFICES ASSUME NEW i \in 1 .. m + 1, Line(l, i) = "assign"
                   PROVE  \E j \in i + 1 .. m + 1 : Line(l, j) = "dist_cg"
        BY DEF Solved
      <3>1. i # m + 1
        BY <1>3
      <3>2. m + 1 \in i + 1 .. m + 1
        BY <3>1
      <3> QED
        BY <1>3, <3>2
    <2> QED
      BY <1>3, <2>1, AssignedStep DEF XAfter
  <1>4. CASE Line(l, m + 1) \notin {"assign", "dist_cg"}
    <2>1. Solved(l, m + 1) <=> Solved(l, m)
      <3>1. ASSUME Solved(l, m + 1), NEW i \in 1 .. m, Line(l, i) = "assign"
            PROVE  \E j \in i + 1 .. m : Line(l, j) = "dist_cg"
        <4>1. PICK j \in i + 1 .. m + 1 : Line(l, j) = "dist_cg"
          BY <3>1 DEF Solved
        <4>2. j # m + 1
          BY <1>4, <4>1
        <4>3. j \in i + 1 .. m
          BY <4>2
        <4> QED
          BY <4>1, <4>3
      <3>2. ASSUME Solved(l, m), NEW i \in 1 .. m + 1, Line(l, i) = "assign"
            PROVE  \E j \in i + 1 .. m + 1 : Line(l, j) = "dist_cg"
        <4>1. i \in 1 .. m
          BY <1>4, <3>2
        <4>2. PICK j \in i + 1 .. m : Line(l, j) = "dist_cg"
          BY <3>2, <4>1 DEF Solved
        <4>3. j \in i + 1 .. m + 1
          BY <4>1
        <4> QED
          BY <4>2, <4>3
      <3> QED
        BY <3>1, <3>2 DEF Solved
    <2> QED
      BY <1>4, <2>1, AssignedStep DEF XAfter
  <1> QED
    BY <1>2, <1>3, <1>4

-----------------------------------------------------------------------------
(* The ranks' collectives stay in agreement when one rank goes on.          *)

LEMMA AgreeStep ==
  ASSUME TypeInv', NEW r \in Ranks, NoSolve' => NoSolve,
         \A q \in Ranks \ {r} : calls'[q] = calls[q],
         Len(calls[r]) \in Nat, Len(calls'[r]) <= Len(calls[r]) + 1,
         \A k \in 1 .. Len(calls[r]) : calls'[r][k] = calls[r][k],
         \A q \in Ranks : LawfulInv(q)' /\ CoverInv(q)' /\ AnsweredInv(q)',
         AgreeInv
  PROVE  AgreeInv'
  <1> DEFINE s(q) == calls'[q]
  <1>0. \A q \in Ranks : /\ s(q) \in Seq(Calls) /\ Len(s(q)) \in Nat
                         /\ \A k \in 1 .. Len(s(q)) : s(q)[k] \in Calls
    BY ElementOfSeq, LenProperties DEF TypeInv
  <1>1. \A q \in Ranks : Rising(s(q)) /\ \A k \in 1 .. Len(s(q)) : Lawful(launch', s(q)[k])
    BY DEF LawfulInv, Rising, Lawful
  <1>2. \A q \in Ranks : Front(q)' \in Nat
    <2>1. \A q \in Ranks : Len(ran'[q]) \in Nat
      BY LenProperties DEF TypeInv, TypeOK
    <2> QED
      BY <2>1 DEF Front
  <1>3. ASSUME NEW p \in Ranks, NEW q \in Ranks, NEW c \in Calls,
               NEW k \in 1 .. Len(s(q)), Place(c) < Place(s(q)[k]),
               Due(q, c.at, c.slot)'
        PROVE  Has(s(q), c.at, c.slot)
    <2>1. Place(s(q)[k]) < Front(q)' /\ s(q)[k] \in Calls
      BY <1>0, <1>3 DEF LawfulInv
    <2>2. Place(c) \in Nat /\ Place(s(q)[k]) \in Nat /\ Front(q)' \in Nat
      BY <1>2, <2>1, SamePlace
    <2>3. Place(c) < Front(q)'
      BY <1>3, <2>1, <2>2
    <2>4. 4 * c.at + c.slot < Front(q)' /\ c.at \in Nat /\ c.slot \in 0 .. 3
      BY <2>3 DEF Place, Calls
    <2> QED
      BY <1>3, <2>4 DEF CoverInv
  <1>4. \A q \in Ranks : \A k \in 1 .. Len(s(q)) : \A j \in 1 .. k - 1 :
            j \in 1 .. Len(calls[q]) /\ s(q)[j] = calls[q][j] /\ Answered(q, j)'
    <2> SUFFICES ASSUME NEW q \in Ranks, NEW k \in 1 .. Len(s(q)), NEW j \in 1 .. k - 1
                 PROVE  j \in 1 .. Len(calls[q]) /\ s(q)[j] = calls[q][j] /\ Answered(q, j)'
      OBVIOUS
    <2>1. j \in 1 .. Len(s(q)) /\ j < Len(s(q))
      BY <1>0
    <2>2. Left(q, j)'
      BY <2>1 DEF Left
    <2>3. Answered(q, j)'
      BY <2>1, <2>2 DEF AnsweredInv
    <2>4. CASE q = r
      BY <1>0, <2>1, <2>3, <2>4
    <2>5. CASE q # r
      BY <2>1, <2>3, <2>5
    <2> QED
      BY <2>4, <2>5
  <1> HIDE DEF s
  <1>5. ASSUME NEW q \in Ranks, NEW k \in 1 .. Len(s(q)), k \in 1 .. Len(s(0))
        PROVE  Meets(s(0), s(q), k)
    <2>1. CASE q = 0
      BY <2>1 DEF Meets
    <2>2. CASE q # 0
      <3>1. \A i \in 1 .. Len(s(q)) :
                Place(s(q)[i]) < Place(s(0)[k]) => Has(s(0), s(q)[i].at, s(q)[i].slot)
        <4> SUFFICES ASSUME NEW i \in 1 .. Len(s(q)), Place(s(q)[i]) < Place(s(0)[k])
                     PROVE  Has(s(0), s(q)[i].at, s(q)[i].slot)
          OBVIOUS
        <4>1. PICK c \in Calls : c = s(q)[i]
          BY <1>0
        <4>2. Can(launch', c.at, c.slot)
          BY <2>2, <4>1 DEF LawfulInv, s
        <4>3. Due(0, c.at, c.slot)'
          BY <4>2 DEF Due
        <4> QED
          BY <1>3, <1>5, <4>1, <4>3, RootIsRank
      <3>2. (Must(launch', s(0)[k].at, s(0)[k].slot) /\ Place(s(0)[k]) < Place(s(q)[k]))
                => Has(s(q), s(0)[k].at, s(0)[k].slot)
        <4>1. PICK c \in Calls : c = s(0)[k]
          BY <1>0, <1>5, RootIsRank
        <4>2. Must(launch', c.at, c.slot) => Due(q, c.at, c.slot)'
          BY DEF Due
        <4> QED
          BY <1>3, <1>5, <4>1, <4>2
      <3>3. \A j \in 1 .. k - 1 : Meets(s(0), s(q), j)
        <4> SUFFICES ASSUME NEW j \in 1 .. k - 1 PROVE Meets(s(0), s(q), j)
          OBVIOUS
        <4>1. /\ j \in 1 .. Len(calls[q]) /\ s(q)[j] = calls[q][j]
              /\ j \in 1 .. Len(calls[0]) /\ s(0)[j] = calls[0][j]
          BY <1>4, <1>5, RootIsRank
        <4>2. Agree(q, j)
          BY <4>1 DEF AgreeInv
        <4> QED
          BY <4>1, <4>2 DEF Agree, Same, Meets
      <3>4. \A j \in 1 .. k - 1 :
                s(q)[j].op \notin Weak => MpiOp(s(0)[j].op) = MpiOp(s(q)[j].op)
        BY <1>4 DEF Answered, s
      <3>5. s(0) \in Seq(Calls) /\ s(q) \in Seq(Calls)
        BY <1>0, RootIsRank
      <3>6. /\ Rising(s(0)) /\ \A i \in 1 .. Len(s(0)) : Lawful(launch', s(0)[i])
            /\ Rising(s(q)) /\ \A i \in 1 .. Len(s(q)) : Lawful(launch', s(q)[i])
        BY <1>1, RootIsRank
      <3> QED
        BY <1>5, <3>1, <3>2, <3>3, <3>4, <3>5, <3>6, Meet
    <2> QED
      BY <2>1, <2>2
  <1>6. ASSUME NoSolve', NEW p \in Ranks, NEW q \in Ranks,
               NEW k \in 1 .. Len(s(p)), k \in 1 .. Len(s(q))
        PROVE  s(p)[k].at = s(q)[k].at /\ s(p)[k].slot = s(q)[k].slot
    <2>1. PICK c \in Calls : c = s(p)[k]
      BY <1>0, <1>6
    <2>2. PICK d \in Calls : d = s(q)[k]
      BY <1>0, <1>6
    <2>3. /\ Place(s(p)[k]) < Place(s(q)[k]) => Has(s(q), s(p)[k].at, s(p)[k].slot)
          /\ Place(s(q)[k]) < Place(s(p)[k]) => Has(s(p), s(q)[k].at, s(q)[k].slot)
      <3>1. Can(launch', c.at, c.slot) /\ Can(launch', d.at, d.slot)
        BY <1>6, <2>1, <2>2 DEF LawfulInv, s
      <3>2. Due(q, c.at, c.slot)' /\ Due(p, d.at, d.slot)'
        BY <1>6, <3>1 DEF Due
      <3>3. Place(c) < Place(s(q)[k]) => Has(s(q), c.at, c.slot)
        BY <1>3, <1>6, <3>2
      <3>4. Place(d) < Place(s(p)[k]) => Has(s(p), d.at, d.slot)
        BY <1>3, <1>6, <3>2
      <3> QED
        BY <2>1, <2>2, <3>3, <3>4
    <2>4. \A j \in 1 .. k - 1 : s(p)[j].at = s(q)[j].at /\ s(p)[j].slot = s(q)[j].slot
      <3> SUFFICES ASSUME NEW j \in 1 .. k - 1
                   PROVE  s(p)[j].at = s(q)[j].at /\ s(p)[j].slot = s(q)[j].slot
        OBVIOUS
      <3>1. /\ j \in 1 .. Len(calls[q]) /\ s(q)[j] = calls[q][j]
            /\ j \in 1 .. Len(calls[p]) /\ s(p)[j] = calls[p][j]
        BY <1>4, <1>6
      <3>2. Same(p, q, j)
        BY <1>6, <3>1 DEF AgreeInv
      <3> QED
        BY <3>1, <3>2 DEF Same
    <2>5. s(p) \in Seq(Calls) /\ s(q) \in Seq(Calls) /\ Rising(s(p)) /\ Rising(s(q))
      BY <1>0, <1>1
    <2> QED
      BY <1>6, <2>3, <2>4, <2>5, MeetSame
  <1>7. \A q \in Ranks : \A k \in 1 .. Len(calls'[q]) :
            k <= Len(calls'[0]) => Agree(q, k)'
    <2> SUFFICES ASSUME NEW q \in Ranks, NEW k \in 1 .. Len(calls'[q]), k <= Len(calls'[0])
                 PROVE  Agree(q, k)'
      OBVIOUS
    <2>1. k \in 1 .. Len(s(q)) /\ k \in 1 .. Len(s(0))
      BY <1>0, RootIsRank DEF s
    <2>2. Meets(s(0), s(q), k)
      BY <1>5, <2>1
    <2> QED
      BY <2>2 DEF Meets, Agree, Same, s
  <1>8. NoSolve' => \A p, q \in Ranks : \A k \in 1 .. Len(calls'[p]) :
            k <= Len(calls'[q]) => Same(p, q, k)'
    <2> SUFFICES ASSUME NoSolve', NEW p \in Ranks, NEW q \in Ranks,
                        NEW k \in 1 .. Len(calls'[p]), k <= Len(calls'[q])
                 PROVE  Same(p, q, k)'
      OBVIOUS
    <2>1. k \in 1 .. Len(s(p)) /\ k \in 1 .. Len(s(q))
      BY <1>0 DEF s
    <2> QED
      BY <1>6, <2>1 DEF Same, s
  <1> QED
    BY <1>7, <1>8 DEF AgreeInv

-----------------------------------------------------------------------------
(* One rank goes on: what it enters, what it passes, and the other ranks.  *)

LEMMA FrontIs ==
  ASSUME TypeInv, NEW r \in Ranks
  PROVE  Len(ran[r]) \in Nat /\ Front(r) \in Nat
  <1>1. Len(ran[r]) \in Nat
    BY LenProperties DEF TypeInv, TypeOK
  <1> QED
    BY <1>1 DEF Front

LEMMA PlacesEntered ==
  ASSUME TypeInv, TypeInv', NEW r \in Ranks, NEW c \in Calls, Enter(r, c),
         launch' = launch, NoSolve' => NoSolve, LawfulInv(r), CoverInv(r),
         Front(r) <= Place(c), Place(c) < Front(r)',
         Lawful(launch, c),
         (r # 0 \/ NoSolve') => Can(launch, c.at, c.slot),
         (r = 0 /\ c.op = "broadcast_line") => c.line = Line(launch, c.at + 1),
         (c.slot = 3 /\ Ends(launch, c.at)) => Closed(r)',
         Closed(r) => Closed(r)',
         \A m \in Nat, s \in 0 .. 3 :
             (Front(r) <= 4 * m + s /\ 4 * m + s < Front(r)')
                 => (m = c.at /\ s = c.slot) \/ ~Due(r, m, s)'
  PROVE  LawfulInv(r)' /\ CoverInv(r)'
  <1> DEFINE n == Len(calls[r])
  <1>0. /\ n \in Nat /\ Len(calls'[r]) = n + 1 /\ calls'[r][n + 1] = c
        /\ \A k \in 1 .. n : calls'[r][k] = calls[r][k] /\ calls[r][k] \in Calls
        /\ Front(r) \in Nat /\ Place(c) \in Nat
    BY Entered, CallsAre, FrontIs, SamePlace
  <1>1. Front(r)' \in Nat
    <2>1. Len(ran'[r]) \in Nat
      BY LenProperties DEF TypeInv, TypeOK
    <2> QED
      BY <2>1 DEF Front
  <1>2. \A k \in 1 .. n : Place(calls[r][k]) < Front(r) /\ Place(calls[r][k]) \in Nat
    BY <1>0, SamePlace DEF LawfulInv, n
  <1> HIDE DEF n
  <1>3. LawfulInv(r)'
    <2> SUFFICES ASSUME NEW k \in 1 .. n + 1
                 PROVE
        LET d == calls'[r][k] IN
        /\ Place(d) < Front(r)'
        /\ \A j \in 1 .. k - 1 : Place(calls'[r][j]) < Place(d)
        /\ d.op = OpAt(launch, d.at, d.slot)
        /\ Must(launch, d.at, d.slot) \/ Kernel(launch, d.at, d.slot)
        /\ r # 0 \/ NoSolve' => Can(launch, d.at, d.slot)
        /\ r = 0 /\ d.op = "broadcast_line" => d.line = Line(launch, d.at + 1)
        /\ d.slot = 3 /\ Ends(launch, d.at) => Closed(r)'
      BY <1>0 DEF LawfulInv
    <2>1. CASE k = n + 1
      <3>1. \A j \in 1 .. k - 1 : Place(calls'[r][j]) < Place(c)
        BY <1>0, <1>2, <2>1
      <3> QED
        BY <1>0, <2>1, <3>1 DEF Lawful
    <2>2. CASE k \in 1 .. n
      <3>1. calls'[r][k] = calls[r][k] /\ \A j \in 1 .. k - 1 : calls'[r][j] = calls[r][j]
        BY <1>0, <2>2
      <3>2. Place(calls[r][k]) < Front(r)'
        BY <1>0, <1>1, <1>2, <2>2
      <3> QED
        BY <2>2, <3>1, <3>2 DEF LawfulInv, n
    <2> QED
      BY <1>0, <2>1, <2>2, SMTT(30)
  <1>4. CoverInv(r)'
    <2> SUFFICES ASSUME NEW m \in Nat, NEW s \in 0 .. 3,
                        4 * m + s < Front(r)', Due(r, m, s)'
                 PROVE  Has(calls'[r], m, s)
      BY DEF CoverInv
    <2>1. CASE 4 * m + s < Front(r)
      <3>1. Due(r, m, s)
        BY DEF Due
      <3>2. Has(calls[r], m, s)
        BY <2>1, <3>1 DEF CoverInv
      <3>3. PICK k \in 1 .. n : calls[r][k].at = m /\ calls[r][k].slot = s
        BY <3>2 DEF Has, n
      <3>4. k \in 1 .. Len(calls'[r]) /\ calls'[r][k] = calls[r][k]
        BY <1>0
      <3> QED
        BY <3>3, <3>4 DEF Has
    <2>2. CASE Front(r) <= 4 * m + s
      <3>1. m = c.at /\ s = c.slot
        BY <2>2
      <3>2. n + 1 \in 1 .. Len(calls'[r])
        BY <1>0
      <3> QED
        BY <1>0, <3>1, <3>2 DEF Has
    <2> QED
      BY <1>0, <2>1, <2>2
  <1> QED
    BY <1>3, <1>4

LEMMA PlacesKept ==
  ASSUME TypeInv, TypeInv', NEW r \in Ranks, calls'[r] = calls[r],
         launch' = launch, NoSolve' => NoSolve, LawfulInv(r), CoverInv(r),
         Front(r) <= Front(r)', Closed(r) => Closed(r)',
         \A m \in Nat, s \in 0 .. 3 :
             (Front(r) <= 4 * m + s /\ 4 * m + s < Front(r)') => ~Due(r, m, s)'
  PROVE  LawfulInv(r)' /\ CoverInv(r)'
  <1>0. Front(r) \in Nat /\ \A k \in 1 .. Len(calls[r]) : Place(calls[r][k]) \in Nat
    BY CallsAre, FrontIs, SamePlace
  <1>1. Front(r)' \in Nat
    <2>1. Len(ran'[r]) \in Nat
      BY LenProperties DEF TypeInv, TypeOK
    <2> QED
      BY <2>1 DEF Front
  <1>2. LawfulInv(r)'
    <2>1. \A k \in 1 .. Len(calls[r]) : Place(calls[r][k]) < Front(r)'
      BY <1>0, <1>1 DEF LawfulInv
    <2> QED
      BY <2>1 DEF LawfulInv
  <1>3. CoverInv(r)'
    <2> SUFFICES ASSUME NEW m \in Nat, NEW s \in 0 .. 3,
                        4 * m + s < Front(r)', Due(r, m, s)'
                 PROVE  Has(calls[r], m, s)
      BY DEF CoverInv
    <2>1. 4 * m + s < Front(r)
      <3>1. ~(Front(r) <= 4 * m + s)
        BY Zenon
      <3>2. 4 * m + s \in Nat
        OBVIOUS
      <3> HIDE DEF Front
      <3> QED
        BY <1>0, <3>1, <3>2
    <2>2. Due(r, m, s)
      BY DEF Due
    <2> QED
      BY <2>1, <2>2 DEF CoverInv
  <1> QED
    BY <1>2, <1>3

(* A command, once taken, stays taken.                                     *)
LEMMA RanGrows ==
  ASSUME TypeInv, NEW r \in Ranks, NEW c \in Commands, NEW cs,
         ran' = [ran EXCEPT ![r] = Append(ran[r], c)]
  PROVE  /\ NobodyRan(cs)' => NobodyRan(cs) /\ c \notin cs
         /\ Len(ran'[r]) = Len(ran[r]) + 1 /\ ran'[r][Len(ran[r]) + 1] = c
         /\ \A i \in 1 .. Len(ran[r]) : ran'[r][i] = ran[r][i]
         /\ \A q \in Ranks \ {r} : ran'[q] = ran[q]
  <1>1. ran \in [Ranks -> Seq(Commands)] /\ Len(ran[r]) \in Nat
    BY FrontIs DEF TypeInv, TypeOK
  <1>2. /\ Len(Append(ran[r], c)) = Len(ran[r]) + 1
        /\ Append(ran[r], c)[Len(ran[r]) + 1] = c
        /\ \A i \in 1 .. Len(ran[r]) : Append(ran[r], c)[i] = ran[r][i]
    BY <1>1, AppendProperties
  <1>3. ran'[r] = Append(ran[r], c) /\ \A q \in Ranks \ {r} : ran'[q] = ran[q]
    BY <1>1
  <1>4. ASSUME NEW q \in Ranks, Ran(q, cs) PROVE Ran(q, cs)'
    BY <1>1, <1>2, <1>3, <1>4 DEF Ran
  <1>5. ASSUME c \in cs PROVE Ran(r, cs)'
    <2>1. Len(ran[r]) + 1 \in 1 .. Len(ran'[r])
      BY <1>1, <1>2, <1>3
    <2> QED
      BY <1>2, <1>3, <1>5, <2>1 DEF Ran
  <1> QED
    BY <1>2, <1>3, <1>4, <1>5 DEF NobodyRan

(* What a rank of the job needs is its own: the others change none of it.   *)
LEMMA Untouched ==
  ASSUME NEW r \in Ranks, launch' = launch, NoSolve' => NoSolve,
         NobodyRan({"dist_solve", "dist_matmul"})' => NobodyRan({"dist_solve", "dist_matmul"}),
         pc'[r] = pc[r], next'[r] = next[r], cmd'[r] = cmd[r], todo'[r] = todo[r],
         calls'[r] = calls[r], x'[r] = x[r], ran'[r] = ran[r]
  PROVE  StreamInv(r) /\ RankInv(r) => StreamInv(r)' /\ RankInv(r)'
  <1>1. Front(r)' = Front(r) /\ Finished(r)' = Finished(r) /\ Closed(r)' = Closed(r)
        /\ Busy(r)' = Busy(r) /\ Pending(r)' = Pending(r)
    BY DEF Front, Finished, Closed, Busy, Pending
  <1>2. StreamInv(r) => StreamInv(r)'
    BY DEF StreamInv
  <1>3. ControlInv(r) => ControlInv(r)'
    BY <1>1 DEF ControlInv
  <1>4. CommandInv(r) => CommandInv(r)'
    BY <1>1 DEF CommandInv
  <1>5. LawfulInv(r) => LawfulInv(r)'
    BY <1>1 DEF LawfulInv
  <1>6. CoverInv(r) => CoverInv(r)'
    BY <1>1 DEF CoverInv, Due
  <1>7. SessionInv(r) => SessionInv(r)'
    BY <1>1 DEF SessionInv
  <1> QED
    BY <1>2, <1>3, <1>4, <1>5, <1>6, <1>7 DEF RankInv

(* A rank that may return has been answered.                               *)
LEMMA AnsweredNow ==
  ASSUME TypeInv, NEW r \in Ranks, CanReturn(r), Len(calls[r]) \in 1 .. Len(calls[r])
  PROVE  Answered(r, Len(calls[r]))
  <1> DEFINE k == Len(calls[r])
             o == calls[r][k].op
  <1>1. o \in AnyOp /\ k \in Nat
    BY CallsAre DEF Calls
  <1>2. ASSUME o \in {"mpi_bcast", "broadcast_line"} PROVE Met(0, k, "mpi_bcast")
    BY <1>2 DEF CanReturn, MpiOp
  <1>3. ASSUME o \in {"barrier", "allreduce", "allgather"}
        PROVE  \A q \in Ranks : Met(q, k, o)
    BY <1>3 DEF CanReturn, MpiOp
  <1>4. \A q \in Ranks : Met(q, k, MpiOp(o)) => k <= Len(calls[q]) /\ MpiOp(calls[q][k].op) = MpiOp(o)
    BY <1>1, CallsAre DEF Met
  <1>5. o \notin Weak => o \in {"mpi_bcast", "broadcast_line", "barrier"}
    BY <1>1 DEF Weak, AnyOp, Ops
  <1>6. /\ o \in {"mpi_bcast", "broadcast_line"} => MpiOp(o) = "mpi_bcast"
        /\ o \in {"barrier", "allreduce", "allgather"} => MpiOp(o) = o
    BY DEF MpiOp
  <1> HIDE DEF k, o
  <1>7. o \notin Weak => k <= Len(calls[0]) /\ MpiOp(calls[0][k].op) = MpiOp(o)
    BY <1>2, <1>3, <1>4, <1>5, <1>6, RootIsRank
  <1>8. o \in {"barrier", "allreduce", "allgather"} => \A q \in Ranks : k <= Len(calls[q])
    BY <1>3, <1>4, <1>6
  <1> QED
    BY <1>7, <1>8 DEF Answered, k, o

LEMMA AnsweredStep ==
  ASSUME TypeInv, TypeInv', NEW r \in Ranks,
         \A q \in Ranks \ {r} : calls'[q] = calls[q] /\ pc'[q] = pc[q] /\ cmd'[q] = cmd[q],
         Len(calls'[r]) \in {Len(calls[r]), Len(calls[r]) + 1},
         \A k \in 1 .. Len(calls[r]) : calls'[r][k] = calls[r][k],
         Len(calls'[r]) = Len(calls[r]) + 1 => ~Idle(r)',
         Idle(r) \/ CanReturn(r),
         \A q \in Ranks : AnsweredInv(q)
  PROVE  \A q \in Ranks : AnsweredInv(q)'
  <1>0. \A q \in Ranks : Len(calls[q]) \in Nat
    BY CallsAre
  <1>1. \A q \in Ranks : \A k \in 1 .. Len(calls[q]) : Answered(q, k) => Answered(q, k)'
    <2> SUFFICES ASSUME NEW q \in Ranks, NEW k \in 1 .. Len(calls[q]), Answered(q, k)
                 PROVE  Answered(q, k)'
      OBVIOUS
    <2>1. \A p \in Ranks : k <= Len(calls[p]) =>
              k <= Len(calls'[p]) /\ calls'[p][k] = calls[p][k]
      BY <1>0
    <2>2. k <= Len(calls[q])
      BY <1>0
    <2> QED
      BY <2>1, <2>2, RootIsRank DEF Answered
  <1> SUFFICES ASSUME NEW q \in Ranks, NEW k \in 1 .. Len(calls'[q]), Left(q, k)'
               PROVE  Answered(q, k)'
    BY DEF AnsweredInv
  <1>2. CASE q # r
    <2>1. Left(q, k) /\ k \in 1 .. Len(calls[q])
      BY <1>2 DEF Left, Idle
    <2> QED
      BY <1>1, <2>1 DEF AnsweredInv
  <1>3. CASE q = r
    <2>1. k \in 1 .. Len(calls[r])
      BY <1>0, <1>3 DEF Left
    <2>2. CASE Idle(r) \/ k # Len(calls[r])
      <3>1. Left(r, k)
        BY <1>0, <2>1, <2>2 DEF Left
      <3> QED
        BY <1>1, <1>3, <2>1, <3>1 DEF AnsweredInv
    <2>3. CASE CanReturn(r) /\ k = Len(calls[r])
      BY <1>1, <1>3, <2>1, <2>3, AnsweredNow
    <2> QED
      BY <2>2, <2>3
  <1> QED
    BY <1>2, <1>3

-----------------------------------------------------------------------------
(* A rank takes its next command, or is through with one.                  *)

LEMMA DueIsCan ==
  \A r, m, s : Due(r, m, s) => Can(launch, m, s)
  BY DEF Due, Can

(* The session stays what the stream makes of it.                          *)
LEMMA SessionStep ==
  ASSUME TypeInv, NEW r \in Ranks, NEW c \in Commands, N > 1, launch' = launch,
         NEW m \in Nat, Finished(r) = m, Finished(r)' = m + 1,
         c = Line(launch, m + 1), x'[r] \in Results(r, c),
         NoSolve' => NoSolve /\ c # "dist_solve",
         NobodyRan({"dist_solve", "dist_matmul"})' =>
             /\ NobodyRan({"dist_solve", "dist_matmul"}) /\ NoSolve
             /\ c \notin {"dist_solve", "dist_matmul"},
         SessionInv(r)
  PROVE  SessionInv(r)'
  <1>1. AssignedBy(launch, m + 1) <=> AssignedBy(launch, m) \/ c = "assign"
    BY AssignedStep
  <1>2. /\ r # 0 \/ NoSolve' => (x[r] \in Whole => AssignedBy(launch, m))
        /\ r = 0 \/ NoSolve' => (AssignedBy(launch, m) => x[r] \in Whole)
    BY DEF SessionInv
  <1>3. /\ r # 0 \/ NoSolve' => (x'[r] \in Whole => AssignedBy(launch, m + 1))
        /\ r = 0 \/ NoSolve' => (AssignedBy(launch, m + 1) => x'[r] \in Whole)
    <2>1. CASE c = "assign"
      BY <1>1, <2>1 DEF Results, Whole
    <2>2. CASE c = "dist_solve"
      <3>1. r = 0 => x'[r] \in {"solution", x[r]}
        BY <2>2 DEF Results
      <3>2. r # 0 => x'[r] = "rows"
        BY <2>2 DEF Results
      <3> QED
        BY <1>1, <1>2, <2>2, <3>1, <3>2 DEF Whole
    <2>3. CASE c = "dist_matmul"
      <3>1. x[r] \in Whole => x'[r] \in {"product", x[r]}
        BY <2>3 DEF Results
      <3>2. x[r] \notin Whole => x'[r] = x[r]
        BY <2>3 DEF Results
      <3> QED
        BY <1>1, <1>2, <2>3, <3>1, <3>2 DEF Whole
    <2>4. CASE c = "dist_cg"
      <3>1. x[r] \in Whole => x'[r] = "solution"
        BY <2>4 DEF Results
      <3>2. x[r] \notin Whole => x'[r] = x[r]
        BY <2>4 DEF Results
      <3> QED
        BY <1>1, <1>2, <2>4, <3>1, <3>2 DEF Whole
    <2>5. CASE c \notin {"assign", "dist_solve", "dist_matmul", "dist_cg"}
      <3>1. x'[r] = x[r]
        BY <2>5 DEF Results
      <3> QED
        BY <1>1, <1>2, <2>5, <3>1
    <2> QED
      BY <2>1, <2>2, <2>3, <2>4, <2>5
  <1>4. ASSUME NobodyRan({"dist_solve", "dist_matmul"})'
        PROVE  x'[r] = XAfter(launch, m + 1)
    <2>1. /\ c \notin {"dist_solve", "dist_matmul"} /\ x[r] = XAfter(launch, m)
          /\ x[r] \in Whole <=> AssignedBy(launch, m)
      BY <1>4 DEF SessionInv
    <2>2. CASE c = "assign"
      BY <2>2, XAfterStep DEF Results
    <2>3. CASE c = "dist_cg"
      <3>1. CASE AssignedBy(launch, m)
        BY <2>1, <2>3, <3>1, XAfterStep DEF Results
      <3>2. CASE ~AssignedBy(launch, m)
        <4>1. x'[r] = x[r] /\ x[r] = "none"
          BY <2>1, <2>3, <3>2 DEF Results, XAfter
        <4> QED
          BY <2>3, <3>2, <4>1, XAfterStep
      <3> QED
        BY <3>1, <3>2
    <2>4. CASE c \notin {"assign", "dist_cg"}
      <3>1. x'[r] = x[r]
        BY <2>1, <2>4 DEF Results
      <3> QED
        BY <2>1, <2>4, <3>1, XAfterStep
    <2> QED
      BY <2>2, <2>3, <2>4
  <1> QED
    BY <1>3, <1>4 DEF SessionInv

(* The rank is about to take command c, the next of the stream.            *)
Takes(r, c) ==
    /\ N > 1 /\ launch' = launch
    /\ c \in Commands /\ c = Line(launch, Len(ran[r]) + 1)
    /\ pc[r] \in {"script", "eval", "serve"}
    /\ cmd[r] = IF pc[r] = "serve" THEN "broadcast_line" ELSE "none"
    /\ pc[r] = "script" => Len(ran[r]) < Len(ScriptLines(launch))
    /\ pc[r] = "eval" => Len(ran[r]) < Offline(launch)
    /\ ran' = [ran EXCEPT ![r] = Append(ran[r], c)]
    /\ StreamInv(r) /\ RankInv(r)

LEMMA Taking ==
  ASSUME TypeInv, NEW r \in Ranks, NEW c, Takes(r, c)
  PROVE  LET L == Len(ran[r]) IN
         /\ L \in Nat /\ Len(ran'[r]) = L + 1
         /\ StreamInv(r)'
         /\ NoSolve' => NoSolve /\ c # "dist_solve"
         /\ NobodyRan({"dist_solve", "dist_matmul"})' =>
                /\ NobodyRan({"dist_solve", "dist_matmul"}) /\ NoSolve
                /\ c \notin {"dist_solve", "dist_matmul"}
         /\ Pending(r) = 0 /\ Finished(r) = L /\ ~Closed(r)
         /\ Front(r) \in 4 * L + 3 .. 4 * L + 4
         /\ \A m \in Nat, s \in 0 .. 3 :
                (Front(r) <= 4 * m + s /\ 4 * m + s < 4 * L + 5) => ~Can(launch, m, s)
         /\ Len(ScriptLines(launch)) \in Nat /\ Len(ScriptLines(launch)) <= Offline(launch)
         /\ Offline(launch) \in Nat /\ next[r] \in Nat
         /\ \A i \in 1 .. L : Line(launch, i) # "exit"
  <1> DEFINE L == Len(ran[r])
  <1>0. L \in Nat /\ c \in Commands /\ ran' = [ran EXCEPT ![r] = Append(ran[r], c)]
    BY FrontIs DEF Takes
  <1>1. /\ Len(ran'[r]) = L + 1 /\ ran'[r][L + 1] = c
        /\ \A i \in 1 .. L : ran'[r][i] = ran[r][i]
        /\ NoSolve' => NoSolve /\ c # "dist_solve"
        /\ NobodyRan({"dist_solve", "dist_matmul"})' =>
               /\ NobodyRan({"dist_solve", "dist_matmul"})
               /\ c \notin {"dist_solve", "dist_matmul"}
    BY <1>0, RanGrows DEF NoSolve
  <1>2. NobodyRan({"dist_solve", "dist_matmul"}) => NoSolve
    BY DEF NoSolve, NobodyRan, Ran
  <1>3. Pending(r) = 0 /\ Finished(r) = L /\ ~Busy(r) /\ ~Closed(r)
    BY <1>0 DEF Takes, Pending, Finished, Busy, Closed, Commands
  <1>4. Front(r) = IF pc[r] = "serve" THEN 4 * L + 4 ELSE 4 * L + 3
    BY <1>3 DEF Takes, Front
  <1>5. StreamInv(r)'
    BY <1>0, <1>1 DEF Takes, StreamInv
  <1>6. /\ Len(ScriptLines(launch)) \in Nat /\ Len(ScriptLines(launch)) <= Offline(launch)
        /\ Offline(launch) \in Nat /\ next[r] \in Nat
    <2>1. launch.script \in Seq(Commands) /\ launch.evals \in Seq(Commands)
      BY DEF TypeInv, TypeOK, LaunchRecord
    <2>2. Len(ScriptLines(launch)) \in Nat /\ Len(launch.evals) \in Nat
      BY <2>1, EmptySeq, LenProperties DEF ScriptLines
    <2> QED
      BY <2>2 DEF Offline, TypeInv, TypeOK
  <1>7. \A i \in 1 .. L : Line(launch, i) # "exit"
    BY DEF Takes, RankInv, ControlInv
  <1>8. ASSUME NEW m \in Nat, NEW s \in 0 .. 3,
               Front(r) <= 4 * m + s, 4 * m + s < 4 * L + 5
        PROVE  ~Can(launch, m, s)
    <2>1. (m = L /\ s = 3 /\ pc[r] # "serve") \/ (m = L + 1 /\ s = 0)
      BY <1>0, <1>4, <1>8
    <2>2. CASE m = L + 1 /\ s = 0
      BY <1>0, <2>2 DEF Can, Must, Kernel
    <2>3. CASE m = L /\ s = 3 /\ pc[r] # "serve"
      <3>1. L < Offline(launch)
        BY <1>0, <1>6, <2>3 DEF Takes
      <3>2. ~Ends(launch, L)
        BY <1>0, <1>6, <1>7, <3>1 DEF Ends
      <3> QED
        BY <1>0, <1>6, <2>3, <3>1, <3>2 DEF Can, Must, Kernel
    <2> QED
      BY <2>1, <2>2, <2>3
  <1> QED
    BY <1>0, <1>1, <1>2, <1>3, <1>4, <1>5, <1>6, <1>7, <1>8

(* The command is exit, or a local one, or fails before its collective.    *)
LEMMA TakesLocal ==
  ASSUME TypeInv, TypeInv', NEW r \in Ranks, NEW c, Takes(r, c),
         calls'[r] = calls[r], cmd'[r] = "none", x'[r] \in Results(r, c),
         c \notin Single \cup {"dist_solve"}, c \in Paired => x[r] \notin Whole,
         IF c = "exit" THEN pc'[r] = "stop"
         ELSE pc'[r] = pc[r] /\ next'[r] = next[r] + 1
  PROVE  RankInv(r)'
  <1> DEFINE L == Len(ran[r])
  <1>0. /\ L \in Nat /\ Len(ran'[r]) = L + 1
        /\ StreamInv(r)'
        /\ NoSolve' => NoSolve /\ c # "dist_solve"
        /\ NobodyRan({"dist_solve", "dist_matmul"})' =>
                /\ NobodyRan({"dist_solve", "dist_matmul"}) /\ NoSolve
                /\ c \notin {"dist_solve", "dist_matmul"}
        /\ Pending(r) = 0 /\ Finished(r) = L /\ ~Closed(r)
        /\ Front(r) \in 4 * L + 3 .. 4 * L + 4
        /\ Len(ScriptLines(launch)) \in Nat /\ Len(ScriptLines(launch)) <= Offline(launch)
        /\ Offline(launch) \in Nat /\ next[r] \in Nat
        /\ \A i \in 1 .. L : Line(launch, i) # "exit"
    BY Taking
  <1>1. \A m \in Nat, s \in 0 .. 3 :
            (Front(r) <= 4 * m + s /\ 4 * m + s < 4 * L + 5) => ~Can(launch, m, s)
    BY Taking
  <1>2. /\ N > 1 /\ launch' = launch /\ c \in Commands /\ c = Line(launch, L + 1)
        /\ pc[r] \in {"script", "eval", "serve"}
        /\ pc[r] = "script" => L < Len(ScriptLines(launch))
        /\ pc[r] = "eval" => L < Offline(launch)
        /\ ControlInv(r) /\ SessionInv(r) /\ LawfulInv(r) /\ CoverInv(r)
    BY DEF Takes, RankInv
  <1> HIDE DEF L
  <1>3. /\ Pending(r)' = 0 /\ Finished(r)' = L + 1 /\ ~Busy(r)' /\ Front(r)' = 4 * L + 7
    <2>1. ~Busy(r)' /\ Pending(r)' = 0
      BY DEF Busy, Pending, Commands
    <2>2. pc'[r] \notin {"boot", "closing", "done"}
      BY <1>2
    <2> QED
      BY <1>0, <2>1, <2>2, SMTT(30) DEF Finished, Front, Closed
  <1>4. ControlInv(r)'
    <2>1. CASE c = "exit"
      <3>1. pc'[r] = "stop"
        BY <2>1
      <3>2. Ends(launch', Len(ran'[r]))
        BY <1>0, <1>2, <2>1 DEF Ends
      <3> QED
        BY <3>1, <3>2 DEF ControlInv
    <2>2. CASE c # "exit"
      <3>1. pc'[r] = pc[r] /\ next'[r] = next[r] + 1
        BY <2>2
      <3>2. \A i \in 1 .. Len(ran'[r]) : Line(launch', i) # "exit"
        BY <1>0, <1>2, <2>2
      <3>3. /\ pc[r] = "script" => L = next[r] - 1
            /\ pc[r] = "eval" => L = Len(ScriptLines(launch)) + next[r] - 1
            /\ pc[r] = "serve" => L = Offline(launch) + next[r] - 1 /\ Serving(launch)
        BY <1>0, <1>2 DEF ControlInv, L
      <3>4. /\ pc'[r] \in {"script", "eval", "serve"}
            /\ pc'[r] = "script" =>
                   Len(ran'[r]) = next'[r] - 1 + Pending(r)'
                   /\ Len(ran'[r]) <= Len(ScriptLines(launch'))
            /\ pc'[r] = "eval" =>
                   Len(ran'[r]) = Len(ScriptLines(launch')) + next'[r] - 1 + Pending(r)'
                   /\ Len(ran'[r]) <= Offline(launch')
            /\ pc'[r] = "serve" =>
                   Serving(launch')
                   /\ Len(ran'[r]) = Offline(launch') + next'[r] - 1 + Pending(r)'
        <4>1. /\ L \in Nat /\ Len(ran'[r]) = L + 1 /\ Pending(r)' = 0 /\ launch' = launch
              /\ next[r] \in Nat /\ Len(ScriptLines(launch)) \in Nat
              /\ Offline(launch) \in Nat
              /\ pc[r] \in {"script", "eval", "serve"}
              /\ pc[r] = "script" => L < Len(ScriptLines(launch))
              /\ pc[r] = "eval" => L < Offline(launch)
          BY <1>0, <1>2, <1>3
        <4>2. CASE pc[r] = "script"
          BY <3>1, <3>3, <4>1, <4>2
        <4>3. CASE pc[r] = "eval"
          BY <3>1, <3>3, <4>1, <4>3
        <4>4. CASE pc[r] = "serve"
          BY <3>1, <3>3, <4>1, <4>4
        <4> QED
          BY <4>1, <4>2, <4>3, <4>4
      <3> QED
        BY <3>2, <3>4 DEF ControlInv
    <2> QED
      BY <2>1, <2>2
  <1>5. CommandInv(r)'
    BY <1>3 DEF CommandInv
  <1>6. SessionInv(r)'
    BY <1>0, <1>2, <1>3, SessionStep DEF L
  <1>7. LawfulInv(r)' /\ CoverInv(r)'
    <2>1. \A m \in Nat, s \in 0 .. 3 :
              (Front(r) <= 4 * m + s /\ 4 * m + s < Front(r)') => ~Due(r, m, s)'
      <3> SUFFICES ASSUME NEW m \in Nat, NEW s \in 0 .. 3,
                          Front(r) <= 4 * m + s, 4 * m + s < Front(r)'
                   PROVE  ~Due(r, m, s)'
        OBVIOUS
      <3>1. CASE 4 * m + s < 4 * L + 5
        BY <1>1, <1>2, <3>1 DEF Due, Can
      <3>2. CASE m = L + 1 /\ s \in {1, 2}
        <4>1. ~Must(launch, m, s)
          BY <1>0, <1>2, <3>2 DEF Must, Single
        <4>2. ASSUME (r = 0 \/ NoSolve)', Can(launch, m, s) PROVE FALSE
          <5>1. Kernel(launch, m, s) /\ AssignedBy(launch, L + 1)
            BY <3>2, <4>1, <4>2 DEF Can
          <5>2. c \in {"dist_matmul", "dist_cg"}
            BY <1>2, <3>2, <5>1 DEF Kernel
          <5>3. AssignedBy(launch, L)
            BY <1>0, <1>2, <5>1, <5>2, AssignedStep
          <5>4. x[r] \in Whole
            BY <1>0, <1>2, <4>2, <5>3 DEF SessionInv
          <5> QED
            BY <5>2, <5>4 DEF Paired
        <4> QED
          BY <1>2, <4>1, <4>2 DEF Due
      <3> QED
        BY <1>0, <1>3, <3>1, <3>2
    <2>2. Front(r) <= Front(r)'
      BY <1>0, <1>3
    <2> QED
      BY <1>0, <1>2, <2>1, <2>2, PlacesKept
  <1> QED
    BY <1>4, <1>5, <1>6, <1>7 DEF RankInv

(* The command enters its first collective.                                *)
LEMMA TakesCollective ==
  ASSUME TypeInv, TypeInv', NEW r \in Ranks, NEW c, Takes(r, c),
         cmd'[r] = c, pc'[r] = pc[r], next'[r] = next[r], x'[r] = x[r],
         Enter(r, Call(First(c), "none", Len(ran[r]) + 1, 1)),
         \/ c \in Single /\ todo'[r] = <<>>
         \/ /\ c \in Paired /\ todo'[r] = <<Second(c)>>
            /\ c # "dist_solve" => x[r] \in Whole
  PROVE  RankInv(r)'
  <1> DEFINE L == Len(ran[r])
  <1>0. /\ L \in Nat /\ Len(ran'[r]) = L + 1
        /\ StreamInv(r)'
        /\ NoSolve' => NoSolve /\ c # "dist_solve"
        /\ NobodyRan({"dist_solve", "dist_matmul"})' =>
                /\ NobodyRan({"dist_solve", "dist_matmul"}) /\ NoSolve
                /\ c \notin {"dist_solve", "dist_matmul"}
        /\ Pending(r) = 0 /\ Finished(r) = L /\ ~Closed(r)
        /\ Front(r) \in 4 * L + 3 .. 4 * L + 4
        /\ Len(ScriptLines(launch)) \in Nat /\ Len(ScriptLines(launch)) <= Offline(launch)
        /\ Offline(launch) \in Nat /\ next[r] \in Nat
        /\ \A i \in 1 .. L : Line(launch, i) # "exit"
    BY Taking
  <1>1. \A m \in Nat, s \in 0 .. 3 :
            (Front(r) <= 4 * m + s /\ 4 * m + s < 4 * L + 5) => ~Can(launch, m, s)
    BY Taking
  <1>2. /\ N > 1 /\ launch' = launch /\ c \in Commands /\ c = Line(launch, L + 1)
        /\ pc[r] \in {"script", "eval", "serve"}
        /\ pc[r] = "script" => L < Len(ScriptLines(launch))
        /\ pc[r] = "eval" => L < Offline(launch)
        /\ ControlInv(r) /\ SessionInv(r) /\ LawfulInv(r) /\ CoverInv(r)
    BY DEF Takes, RankInv
  <1>3. PICK call \in Calls : /\ call = Call(First(c), "none", L + 1, 1)
                              /\ call.op = First(c) /\ call.at = L + 1 /\ call.slot = 1
    <2>1. /\ First(c) \in AnyOp /\ First(c) # "broadcast_line" /\ "none" \in Payloads
          /\ L + 1 \in Nat /\ 1 \in 0 .. 3
      <3>1. First(c) \in Ops /\ L + 1 \in Nat
        BY <1>0, FirstSecond
      <3>2. First(c) # "broadcast_line"
        BY DEF First
      <3> QED
        BY <3>1, <3>2 DEF AnyOp, Payloads
    <2> QED
      BY <2>1, CallIs
  <1>4. Enter(r, call) /\ call.op # "broadcast_line"
    BY <1>3 DEF First, L
  <1> HIDE DEF L
  <1>5. c # "exit" /\ c # "broadcast_line" /\ c # "none"
    BY <1>2 DEF Single, Paired, Commands
  <1>6. /\ Busy(r)' /\ Pending(r)' = 1 /\ Finished(r)' = L
        /\ Front(r)' = IF c \in Single THEN 4 * L + 7 ELSE 4 * L + 6
    <2>1. Busy(r)' /\ Pending(r)' = 1
      BY <1>2 DEF Busy, Pending
    <2>2. pc'[r] \notin {"boot", "closing", "done"} /\ cmd'[r] # "broadcast_line"
      BY <1>2, <1>5
    <2>3. IF c \in Single THEN todo'[r] = <<>> ELSE todo'[r] # <<>>
      BY Tuples DEF Single, Paired
    <2>4. Front(r)' = IF c \in Single THEN 4 * Len(ran'[r]) + 3 ELSE 4 * Len(ran'[r]) + 2
      BY <2>1, <2>2, <2>3 DEF Front, Closed
    <2>5. L \in Nat /\ Len(ran'[r]) = L + 1
      BY <1>0
    <2>6. Finished(r)' = L
      BY <2>1, <2>5 DEF Finished
    <2> QED
      BY <2>1, <2>4, <2>5, <2>6, SMTT(30)
  <1>7. ControlInv(r)'
    <2>1. \A i \in 1 .. Len(ran'[r]) : Line(launch', i) # "exit"
      BY <1>0, <1>2, <1>5
    <2>2. /\ pc[r] = "script" => L = next[r] - 1
          /\ pc[r] = "eval" => L = Len(ScriptLines(launch)) + next[r] - 1
          /\ pc[r] = "serve" => L = Offline(launch) + next[r] - 1 /\ Serving(launch)
      BY <1>0, <1>2 DEF ControlInv, L
    <2>3. /\ pc'[r] \in {"script", "eval", "serve"}
          /\ pc'[r] = "script" =>
                 Len(ran'[r]) = next'[r] - 1 + Pending(r)'
                 /\ Len(ran'[r]) <= Len(ScriptLines(launch'))
          /\ pc'[r] = "eval" =>
                 Len(ran'[r]) = Len(ScriptLines(launch')) + next'[r] - 1 + Pending(r)'
                 /\ Len(ran'[r]) <= Offline(launch')
          /\ pc'[r] = "serve" =>
                 Serving(launch')
                 /\ Len(ran'[r]) = Offline(launch') + next'[r] - 1 + Pending(r)'
      BY <1>0, <1>2, <1>6, <2>2
    <2> QED
      BY <2>1, <2>3 DEF ControlInv
  <1>8. CommandInv(r)'
    <2>1. c \in Paired => Second(c) = OpAt(launch, L + 1, 2)
      BY <1>2 DEF Paired, Second, OpAt
    <2>2. c \in Single => c \notin Paired
      BY DEF Single, Paired
    <2>3. c \in {"dist_matmul", "dist_cg"} => x'[r] \in Whole
      BY DEF Single
    <2>4. todo'[r] # <<>> => c \in Paired /\ todo'[r] = <<OpAt(launch, L + 1, 2)>>
      BY <2>1
    <2> QED
      BY <1>0, <1>2, <1>5, <2>3, <2>4 DEF CommandInv
  <1>9. SessionInv(r)'
    BY <1>0, <1>2, <1>6 DEF SessionInv
  <1>10. LawfulInv(r)' /\ CoverInv(r)'
    <2>1. \A m \in Nat, s \in 0 .. 3 :
              (Front(r) <= 4 * m + s /\ 4 * m + s < Front(r)')
                  => (m = L + 1 /\ s = 1) \/ ~Due(r, m, s)'
      <3> SUFFICES ASSUME NEW m \in Nat, NEW s \in 0 .. 3,
                          Front(r) <= 4 * m + s, 4 * m + s < Front(r)'
                   PROVE  (m = L + 1 /\ s = 1) \/ ~Due(r, m, s)'
        OBVIOUS
      <3>1. CASE 4 * m + s < 4 * L + 5
        BY <1>1, <1>2, <3>1 DEF Due, Can
      <3>2. CASE c \in Single /\ m = L + 1 /\ s = 2
        BY <1>2, <3>2 DEF Due, Can, Must, Kernel, Single
      <3>3. L \in Nat /\ Front(r)' \in {4 * L + 6, 4 * L + 7}
            /\ (c \notin Single => Front(r)' = 4 * L + 6)
        BY <1>0, <1>6
      <3>4. 4 * m + s >= 4 * L + 5 => m = L + 1 /\ s \in {1, 2}
        BY <3>3, SMTT(30)
      <3>5. c \notin Single /\ m = L + 1 => s # 2
        BY <3>3
      <3> QED
        BY <3>1, <3>2, <3>3, <3>4, <3>5
    <2>2. L \in Nat /\ Place(call) = 4 * L + 5
      <3>1. L \in Nat
        BY <1>0
      <3> QED
        BY <1>3, <3>1 DEF Place
    <2>3. Lawful(launch, call)
      BY <1>0, <1>2, <1>3 DEF Lawful, First, OpAt, Must, Kernel, Single, Paired
    <2>4. (r # 0 \/ NoSolve') => Can(launch, L + 1, 1)
      <3>1. CASE c \in Single \cup {"dist_solve"}
        BY <1>0, <1>2, <3>1 DEF Can, Must, Single
      <3>2. CASE c \notin Single \cup {"dist_solve"}
        <4>1. c \in {"dist_matmul", "dist_cg"} /\ x[r] \in Whole
          BY <3>2 DEF Paired
        <4>2. (r # 0 \/ NoSolve') => AssignedBy(launch, L + 1)
          BY <1>0, <1>2, <4>1, AssignedStep DEF SessionInv
        <4>3. Kernel(launch, L + 1, 1)
          BY <1>0, <1>2, <4>1 DEF Kernel
        <4> QED
          BY <4>2, <4>3 DEF Can
      <3> QED
        BY <3>1, <3>2
    <2>5. Front(r) <= Place(call) /\ Place(call) < Front(r)'
      BY <1>0, <1>6, <2>2, SMTT(30)
    <2>6. /\ Closed(r) => Closed(r)'
          /\ call.slot = 1 /\ call.at = L + 1 /\ call.op # "broadcast_line"
          /\ NoSolve' => NoSolve
          /\ launch' = launch
          /\ LawfulInv(r) /\ CoverInv(r) /\ Enter(r, call)
      BY <1>0, <1>2, <1>3, <1>4
    <2>7. \A m \in Nat, s \in 0 .. 3 :
              (Front(r) <= 4 * m + s /\ 4 * m + s < Front(r)')
                  => (m = call.at /\ s = call.slot) \/ ~Due(r, m, s)'
      BY <2>1, <2>6
    <2> QED
      BY <2>3, <2>4, <2>5, <2>6, <2>7, PlacesEntered
  <1> QED
    BY <1>7, <1>8, <1>9, <1>10 DEF RankInv

LEMMA RunStep ==
  ASSUME TypeInv, TypeInv', NEW r \in Ranks, NEW c, Takes(r, c), RunCommand(r, c), alive'
  PROVE  StreamInv(r)' /\ RankInv(r)'
  <1>0. StreamInv(r)' /\ c \in Commands
    BY Taking DEF Takes
  <1>1. CASE c = "exit"
    <2>1. /\ pc'[r] = "stop" /\ cmd'[r] = "none" /\ calls'[r] = calls[r] /\ x'[r] = x[r]
      BY <1>1 DEF RunCommand, Leave, TypeInv, TypeOK
    <2>2. x'[r] \in Results(r, c)
      BY <1>1, <2>1 DEF Results
    <2>3. c \notin Single \cup {"dist_solve"} /\ c \notin Paired
      BY <1>1 DEF Single, Paired
    <2> QED
      BY <1>0, <1>1, <2>1, <2>2, <2>3, TakesLocal
  <1>2. CASE c # "exit" /\ Collectives(r, c) = <<>>
    <2>1. Complete(r, c) /\ calls' = calls /\ pc' = pc
      BY <1>2 DEF RunCommand, Leave
    <2>2. /\ calls'[r] = calls[r] /\ cmd'[r] = "none" /\ x'[r] \in Results(r, c)
          /\ pc'[r] = pc[r] /\ next'[r] = next[r] + 1
      BY <2>1 DEF Complete, TypeInv, TypeOK
    <2>3. c \notin Single \cup {"dist_solve"} /\ (c \in Paired => x[r] \notin Whole)
      BY <1>0, <1>2, CollectivesAre, Tuples, SMTT(30)
    <2> QED
      BY <1>0, <1>2, <2>2, <2>3, TakesLocal
  <1>3. CASE c # "exit" /\ Collectives(r, c) # <<>>
    <2>1. /\ cmd' = [cmd EXCEPT ![r] = c] /\ pc' = pc /\ next' = next /\ x' = x
          /\ todo' = [todo EXCEPT ![r] = Tail(Collectives(r, c))]
          /\ Enter(r, Call(Head(Collectives(r, c)), "none", Len(ran[r]) + 1, 1))
      BY <1>3 DEF RunCommand
    <2>2. \/ /\ Collectives(r, c) = <<First(c)>> /\ c \in Single
          \/ /\ Collectives(r, c) = <<First(c), Second(c)>> /\ c \in Paired
             /\ c # "dist_solve" => x[r] \in Whole
      BY <1>0, <1>3, CollectivesAre
    <2>3. Enter(r, Call(First(c), "none", Len(ran[r]) + 1, 1))
      BY <2>1, <2>2, Tuples
    <2>4. \/ c \in Single /\ todo'[r] = <<>>
          \/ /\ c \in Paired /\ todo'[r] = <<Second(c)>>
             /\ c # "dist_solve" => x[r] \in Whole
      BY <2>1, <2>2, Tuples, ZenonT(30) DEF TypeInv
    <2>5. cmd'[r] = c /\ pc'[r] = pc[r] /\ next'[r] = next[r] /\ x'[r] = x[r]
      BY <2>1 DEF TypeInv, TypeOK
    <2> QED
      BY <1>0, <2>3, <2>4, <2>5, TakesCollective
  <1> QED
    BY <1>1, <1>2, <1>3

(* In a uniform job every rank has rank 0's script and its reason to serve. *)
LEMMA UniformIs ==
  ASSUME Uniform, NEW r \in Ranks
  PROVE  /\ pc[r] = "script" => Lines(r) = ScriptLines(launch)
         /\ pc[r] = "eval" => Lines(r) = launch.evals
         /\ Serves(r) <=> Serving(launch)
  <1>1. launch.hasScript => launch.opens[r] = launch.opens[0]
    BY RootIsRank DEF Uniform
  <1>2. Serves(r) = Serves(0)
    BY RootIsRank DEF Uniform
  <1>3. Serves(0) <=> Serving(launch)
    BY DEF Serves, Serving
  <1>4. Serves(r) <=> Serving(launch)
    BY <1>2, <1>3
  <1>5. pc[r] = "script" => Lines(r) = ScriptLines(launch)
    BY <1>1 DEF Lines, ScriptLines
  <1>6. pc[r] = "eval" => Lines(r) = launch.evals
    BY DEF Lines
  <1> QED
    BY <1>4, <1>5, <1>6

LEMMA LaunchIs ==
  ASSUME TypeInv
  PROVE  /\ Len(ScriptLines(launch)) \in Nat /\ Len(launch.evals) \in Nat
         /\ Len(launch.stdin) \in Nat
         /\ Offline(launch) = Len(ScriptLines(launch)) + Len(launch.evals)
  <1>1. /\ launch.script \in Seq(Commands) /\ launch.evals \in Seq(Commands)
        /\ launch.stdin \in Seq(Commands)
    BY DEF TypeInv, TypeOK, LaunchRecord
  <1>2. Len(ScriptLines(launch)) \in Nat
    BY <1>1, EmptySeq, LenProperties DEF ScriptLines
  <1> QED
    BY <1>1, <1>2, LenProperties DEF Offline

LEMMA RunLineTakes ==
  ASSUME TypeInv, Uniform, N > 1, NEW r \in Ranks, StreamInv(r), RankInv(r), RunLine(r)
  PROVE  Takes(r, Lines(r)[next[r]])
  <1> DEFINE L == Len(ran[r])
             S == Len(ScriptLines(launch))
             c == Lines(r)[next[r]]
  <1>1. /\ launch' = launch /\ pc[r] \in {"script", "eval"} /\ cmd[r] = "none"
        /\ next[r] \in Nat \ {0} /\ next[r] <= Len(Lines(r)) /\ RunCommand(r, c)
    BY DEF RunLine, At, TypeInv, TypeOK
  <1>2. L \in Nat /\ S \in Nat /\ Len(launch.evals) \in Nat
        /\ Offline(launch) = S + Len(launch.evals)
    BY FrontIs, LaunchIs
  <1>3. Pending(r) = 0
    BY <1>1 DEF Pending, Busy, Commands
  <1>4. c \in Commands
    <2>1. Len(Lines(r)) \in Nat
      BY LinesAre, LenProperties
    <2>2. next[r] \in 1 .. Len(Lines(r))
      BY <1>1, <2>1
    <2> QED
      BY <2>2, LinesAre
  <1>5. ControlInv(r)
    BY DEF RankInv
  <1>6. ran' = [ran EXCEPT ![r] = Append(ran[r], c)]
    BY <1>1 DEF RunCommand
  <1>7. CASE pc[r] = "script"
    <2>1. L = next[r] - 1 /\ next[r] <= S /\ c = ScriptLines(launch)[next[r]]
      BY <1>1, <1>2, <1>3, <1>5, <1>7, UniformIs DEF ControlInv
    <2>2. c = Line(launch, L + 1)
      BY <1>1, <1>2, <2>1 DEF Line
    <2>3. L < S
      BY <1>1, <1>2, <2>1
    <2> QED
      BY <1>1, <1>4, <1>6, <1>7, <2>2, <2>3 DEF Takes
  <1>8. CASE pc[r] = "eval"
    <2>1. /\ L = S + next[r] - 1 /\ next[r] <= Len(launch.evals)
          /\ c = launch.evals[next[r]]
      BY <1>1, <1>2, <1>3, <1>5, <1>8, UniformIs DEF ControlInv
    <2>2. /\ ~(L + 1 <= S) /\ L + 1 > S /\ L + 1 <= Offline(launch)
          /\ (L + 1) - S = next[r] /\ L < Offline(launch)
      <3>1. \A l, s, n, e \in Nat :
                (l = s + n - 1 /\ n # 0 /\ n <= e) =>
                    /\ ~(l + 1 <= s) /\ l + 1 > s /\ l + 1 <= s + e
                    /\ (l + 1) - s = n /\ l < s + e
        OBVIOUS
      <3>2. /\ L \in Nat /\ S \in Nat /\ next[r] \in Nat /\ Len(launch.evals) \in Nat
            /\ next[r] # 0 /\ next[r] <= Len(launch.evals) /\ L = S + next[r] - 1
        BY <1>1, <1>2, <2>1
      <3> HIDE DEF L, S
      <3>3. /\ ~(L + 1 <= S) /\ L + 1 > S /\ L + 1 <= S + Len(launch.evals)
            /\ (L + 1) - S = next[r] /\ L < S + Len(launch.evals)
        BY <3>1, <3>2
      <3> QED
        BY <1>2, <3>3
    <2>3. c = Line(launch, L + 1)
      BY <1>1, <1>2, <2>1, <2>2, SMTT(30) DEF Line
    <2> QED
      BY <1>1, <1>4, <1>6, <1>8, <2>2, <2>3 DEF Takes
  <1> QED
    BY <1>1, <1>7, <1>8

LEMMA ReceivedTakes ==
  ASSUME TypeInv, N > 1, NEW r \in Ranks, StreamInv(r), LiveInv, RunReceived(r)
  PROVE  Takes(r, Received(r))
  <1> DEFINE k == Len(calls[r])
             L == Len(ran[r])
  <1>1. /\ launch' = launch /\ pc[r] = "serve" /\ cmd[r] = "broadcast_line"
        /\ CanReturn(r) /\ RunCommand(r, Received(r)) /\ RankInv(r) /\ RankInv(0)
    BY RootIsRank DEF RunReceived, At, LiveInv
  <1>2. /\ k \in 1 .. Len(calls[0]) /\ MpiOp(calls[0][k].op) = "mpi_bcast"
        /\ Received(r) \in Commands
    BY <1>1, ReceivedIs
  <1>3. /\ calls[r][k].op = "broadcast_line" /\ calls[r][k].at = L
        /\ k \in 1 .. Len(calls[r]) /\ calls[r][k] \in Calls /\ calls[0][k] \in Calls
    <2>1. calls[r][k].op = "broadcast_line"
      BY <1>1 DEF TypeInv, LinesInv
    <2>2. calls[r][k].at = L
      BY <1>1 DEF RankInv, CommandInv
    <2>3. k \in 1 .. Len(calls[r])
      BY <1>2, CallsAre
    <2> QED
      BY <1>2, <2>1, <2>2, <2>3, CallsAre, RootIsRank
  <1>4. calls[0][k].op \notin Weak
    BY <1>2 DEF MpiOp, Weak
  <1>5. calls[0][k].at = L /\ calls[0][k].slot = calls[r][k].slot
    <2>1. Agree(r, k)
      BY <1>2, <1>3 DEF LiveInv, AgreeInv
    <2> QED
      BY <1>3, <1>4, <2>1 DEF Agree, Same
  <1>6. calls[0][k].op = "broadcast_line"
    <2>1. calls[r][k].op = OpAt(launch, L, calls[r][k].slot)
      BY <1>1, <1>3 DEF RankInv, LawfulInv
    <2>2. calls[0][k].op = OpAt(launch, L, calls[r][k].slot)
      BY <1>1, <1>2, <1>5 DEF RankInv, LawfulInv
    <2> QED
      BY <1>3, <2>1, <2>2
  <1>7. calls[0][k].line = Line(launch, L + 1)
    BY <1>1, <1>2, <1>5, <1>6 DEF RankInv, LawfulInv
  <1>8. Received(r) = Line(launch, L + 1)
    BY <1>6, <1>7 DEF Received
  <1>9. ran' = [ran EXCEPT ![r] = Append(ran[r], Received(r))]
    BY <1>1 DEF RunCommand
  <1> QED
    BY <1>1, <1>2, <1>8, <1>9 DEF Takes

(* Between two commands the history of the streams stands still.           *)
LEMMA Still ==
  ASSUME launch' = launch, ran' = ran, NEW r \in Ranks, StreamInv(r)
  PROVE  /\ NoSolve' <=> NoSolve
         /\ NobodyRan({"dist_solve", "dist_matmul"})' <=> NobodyRan({"dist_solve", "dist_matmul"})
         /\ StreamInv(r)' /\ Len(ran'[r]) = Len(ran[r])
         /\ (x'[r] = x[r] /\ Finished(r)' = Finished(r) /\ SessionInv(r)) => SessionInv(r)'
  BY DEF NoSolve, NobodyRan, Ran, StreamInv, SessionInv

LEMMA BootStep ==
  ASSUME TypeInv, TypeInv', NEW r \in Ranks, StreamInv(r), RankInv(r), Boot(r)
  PROVE  StreamInv(r)' /\ RankInv(r)'
  <1>1. /\ launch' = launch /\ ran' = ran /\ pc[r] = "boot" /\ pc'[r] = "ready"
        /\ cmd'[r] = cmd[r] /\ next'[r] = next[r] /\ x'[r] = x[r]
        /\ Enter(r, Call("barrier", "none", 0, 0))
    BY DEF Boot, At, TypeInv, TypeOK
  <1>2. Len(ran[r]) = 0 /\ cmd[r] = "none" /\ next[r] = 1
    BY <1>1 DEF RankInv, ControlInv
  <1>3. StreamInv(r)' /\ Len(ran'[r]) = 0 /\ (NoSolve' => NoSolve)
    BY <1>1, <1>2, Still
  <1>4. ~Busy(r) /\ ~Busy(r)' /\ Finished(r)' = Finished(r)
    BY <1>1, <1>2 DEF Busy, Commands, Finished, Pending
  <1>5. Front(r) = 0 /\ Front(r)' = 3 /\ ~Closed(r)
    BY <1>1, <1>2, <1>3, <1>4 DEF Front, Closed
  <1>6. ControlInv(r)'
    BY <1>1, <1>2, <1>3 DEF ControlInv
  <1>7. CommandInv(r)'
    BY <1>1, <1>2, <1>4 DEF CommandInv
  <1>8. SessionInv(r)'
    BY <1>1, <1>4, Still DEF RankInv
  <1>9. LawfulInv(r)' /\ CoverInv(r)'
    <2>1. PICK c \in Calls : /\ c = Call("barrier", "none", 0, 0) /\ c.op = "barrier"
                             /\ c.at = 0 /\ c.slot = 0
      <3>1. "barrier" \in AnyOp /\ "none" \in Payloads /\ 0 \in Nat /\ 0 \in 0 .. 3
        BY DEF AnyOp, Ops, Payloads
      <3> QED
        BY <3>1, CallIs
    <2>2. Must(launch, 0, 0) /\ OpAt(launch, 0, 0) = "barrier"
      BY DEF Must, OpAt
    <2>3. Lawful(launch, c) /\ Can(launch, c.at, c.slot) /\ Place(c) = 0
      BY <2>1, <2>2 DEF Lawful, Can, Place
    <2>4. \A m \in Nat, s \in 0 .. 3 :
              (Front(r) <= 4 * m + s /\ 4 * m + s < Front(r)')
                  => (m = c.at /\ s = c.slot) \/ ~Due(r, m, s)'
      <3> SUFFICES ASSUME NEW m \in Nat, NEW s \in 0 .. 3, 4 * m + s < 3
                   PROVE  (m = 0 /\ s = 0) \/ ~Due(r, m, s)'
        BY <1>5, <2>1
      <3>1. m = 0 /\ s \in {0, 1, 2}
        OBVIOUS
      <3> QED
        BY <3>1 DEF Due, Can, Must, Kernel
    <2>5. Enter(r, c) /\ LawfulInv(r) /\ CoverInv(r)
      BY <1>1, <2>1 DEF RankInv
    <2>6. Front(r) <= Place(c) /\ Place(c) < Front(r)'
      BY <1>5, <2>3
    <2>7. c.slot # 3 /\ c.op # "broadcast_line" /\ (Closed(r) => Closed(r)')
      BY <1>5, <2>1
    <2> QED
      BY <1>1, <1>3, <2>3, <2>4, <2>5, <2>6, <2>7, PlacesEntered
  <1> QED
    BY <1>3, <1>6, <1>7, <1>8, <1>9 DEF RankInv

(* Nothing is entered and nothing that is due is passed.                   *)
LEMMA QuietStep ==
  ASSUME TypeInv, TypeInv', NEW r \in Ranks, StreamInv(r), RankInv(r),
         launch' = launch, ran' = ran, calls'[r] = calls[r], x'[r] = x[r],
         cmd[r] = "none", cmd'[r] = "none", pc[r] # "boot", pc'[r] # "boot",
         Closed(r)' <=> Closed(r), ControlInv(r)'
  PROVE  StreamInv(r)' /\ RankInv(r)'
  <1>1. /\ NoSolve' => NoSolve
        /\ StreamInv(r)' /\ Len(ran'[r]) = Len(ran[r])
    BY Still
  <1>2. ~Busy(r) /\ ~Busy(r)' /\ Finished(r)' = Finished(r)
    BY <1>1 DEF Busy, Commands, Finished, Pending
  <1>3. Front(r)' = Front(r) /\ Front(r) \in Nat
    BY <1>1, <1>2, FrontIs DEF Front
  <1>4. CommandInv(r)'
    BY <1>2 DEF CommandInv
  <1>5. SessionInv(r)'
    BY <1>2, Still DEF RankInv
  <1>6. LawfulInv(r)' /\ CoverInv(r)'
    <2>1. \A m \in Nat, s \in 0 .. 3 :
              ~(Front(r) <= 4 * m + s /\ 4 * m + s < Front(r)')
      BY <1>3
    <2> QED
      BY <1>1, <1>3, <2>1, PlacesKept DEF RankInv
  <1> QED
    BY <1>1, <1>4, <1>5, <1>6 DEF RankInv

LEMMA ReadyOrFinalStep ==
  ASSUME TypeInv, TypeInv', NEW r \in Ranks, StreamInv(r), RankInv(r),
         Ready(r) \/ Finalize(r)
  PROVE  StreamInv(r)' /\ RankInv(r)'
  <1>1. /\ launch' = launch /\ ran' = ran /\ calls' = calls /\ x' = x /\ next' = next
        /\ cmd' = cmd
        /\ \/ pc[r] = "ready" /\ pc'[r] = "script"
           \/ pc[r] = "closing" /\ pc'[r] = "done"
    BY DEF Ready, Finalize, At, Leave, TypeInv, TypeOK
  <1>2. cmd[r] = "none"
    BY <1>1 DEF RankInv, ControlInv
  <1>3. Closed(r)' <=> Closed(r)
    BY <1>1 DEF Closed
  <1>4. ControlInv(r)'
    <2>1. CASE pc[r] = "ready" /\ pc'[r] = "script"
      <3>1. Len(ran[r]) = 0 /\ next[r] = 1
        BY <2>1 DEF RankInv, ControlInv
      <3>2. Pending(r)' = 0
        BY <1>1, <1>2 DEF Pending, Busy, Commands
      <3>3. Len(ScriptLines(launch)) \in Nat
        BY LaunchIs
      <3>4. /\ Len(ran'[r]) = next'[r] - 1 + Pending(r)'
            /\ Len(ran'[r]) <= Len(ScriptLines(launch'))
            /\ \A i \in 1 .. Len(ran'[r]) : Line(launch', i) # "exit"
        BY <1>1, <3>1, <3>2, <3>3
      <3> QED
        BY <2>1, <3>4 DEF ControlInv
    <2>2. CASE pc[r] = "closing" /\ pc'[r] = "done"
      <3>1. Ends(launch, Len(ran[r]))
        BY <2>2 DEF RankInv, ControlInv
      <3> QED
        BY <1>1, <1>2, <2>2, <3>1 DEF ControlInv
    <2> QED
      BY <1>1, <2>1, <2>2
  <1> QED
    BY <1>1, <1>2, <1>3, <1>4, QuietStep

LEMMA EndOfLinesStep ==
  ASSUME TypeInv, TypeInv', Uniform, NEW r \in Ranks, StreamInv(r), RankInv(r), EndOfLines(r)
  PROVE  StreamInv(r)' /\ RankInv(r)'
  <1> DEFINE L == Len(ran[r])
             S == Len(ScriptLines(launch))
             E == Len(launch.evals)
  <1>1. /\ launch' = launch /\ ran' = ran /\ calls' = calls /\ x' = x /\ cmd' = cmd
        /\ cmd[r] = "none" /\ pc[r] \in {"script", "eval"}
        /\ next[r] > Len(Lines(r)) /\ next'[r] = 1
        /\ pc'[r] = IF pc[r] = "script" THEN "eval" ELSE IF Serves(r) THEN "serve" ELSE "stop"
    BY DEF EndOfLines, At, TypeInv, TypeOK
  <1>2. /\ L \in Nat /\ S \in Nat /\ E \in Nat /\ Offline(launch) = S + E
        /\ next[r] \in Nat
    BY FrontIs, LaunchIs DEF TypeInv, TypeOK
  <1>3. Pending(r) = 0 /\ Pending(r)' = 0
    BY <1>1 DEF Pending, Busy, Commands
  <1>4. \A i \in 1 .. L : Line(launch, i) # "exit"
    BY <1>1 DEF RankInv, ControlInv
  <1>5. /\ pc[r] = "script" => L = S
        /\ pc[r] = "eval" => L = Offline(launch)
    <2>1. pc[r] = "script" => L = next[r] - 1 + Pending(r) /\ L <= S /\ next[r] > S
      BY <1>1, UniformIs DEF RankInv, ControlInv
    <2>2. pc[r] = "eval" => /\ L = S + next[r] - 1 + Pending(r) /\ L <= Offline(launch)
                            /\ next[r] > E
      BY <1>1, UniformIs DEF RankInv, ControlInv
    <2> HIDE DEF L, S, E
    <2> QED
      BY <1>2, <1>3, <2>1, <2>2
  <1>6. ControlInv(r)'
    <2>1. CASE pc[r] = "script"
      <3>1. /\ pc'[r] = "eval" /\ Len(ran'[r]) = Len(ScriptLines(launch')) + next'[r] - 1 + Pending(r)'
            /\ Len(ran'[r]) <= Offline(launch')
            /\ \A i \in 1 .. Len(ran'[r]) : Line(launch', i) # "exit"
        BY <1>1, <1>2, <1>3, <1>4, <1>5, <2>1
      <3> QED
        BY <3>1 DEF ControlInv
    <2>2. CASE pc[r] = "eval" /\ Serves(r)
      <3>1. /\ pc'[r] = "serve" /\ Serving(launch')
            /\ Len(ran'[r]) = Offline(launch') + next'[r] - 1 + Pending(r)'
            /\ \A i \in 1 .. Len(ran'[r]) : Line(launch', i) # "exit"
        BY <1>1, <1>2, <1>3, <1>4, <1>5, <2>2, UniformIs
      <3> QED
        BY <3>1 DEF ControlInv
    <2>3. CASE pc[r] = "eval" /\ ~Serves(r)
      <3>1. pc'[r] = "stop" /\ cmd'[r] = "none" /\ Ends(launch', Len(ran'[r]))
        BY <1>1, <1>5, <2>3, UniformIs DEF Ends
      <3> QED
        BY <3>1 DEF ControlInv
    <2> QED
      BY <1>1, <2>1, <2>2, <2>3
  <1>7. Closed(r)' <=> Closed(r)
    BY <1>1 DEF Closed
  <1>8. pc[r] # "boot" /\ pc'[r] # "boot"
    BY <1>1
  <1> QED
    BY <1>1, <1>6, <1>7, <1>8, QuietStep

LEMMA StopStep ==
  ASSUME TypeInv, TypeInv', NEW r \in Ranks, StreamInv(r), RankInv(r), Stop(r)
  PROVE  StreamInv(r)' /\ RankInv(r)'
  <1> DEFINE L == Len(ran[r])
  <1>1. /\ launch' = launch /\ ran' = ran /\ pc[r] = "stop" /\ pc'[r] = "closing"
        /\ cmd'[r] = cmd[r] /\ x'[r] = x[r]
        /\ Enter(r, Call("barrier", "none", L, 3))
    BY DEF Stop, At, TypeInv, TypeOK
  <1>2. cmd[r] = "none" /\ Ends(launch, L) /\ L \in Nat
    BY <1>1, FrontIs DEF RankInv, ControlInv
  <1>3. StreamInv(r)' /\ Len(ran'[r]) = L /\ (NoSolve' => NoSolve)
    BY <1>1, Still
  <1>4. ~Busy(r) /\ ~Busy(r)' /\ Finished(r)' = Finished(r)
    BY <1>1, <1>2 DEF Busy, Commands, Finished, Pending
  <1>5. Front(r) = 4 * L + 3 /\ Front(r)' = 4 * L + 4 /\ ~Closed(r) /\ Closed(r)'
    BY <1>1, <1>2, <1>3, <1>4 DEF Front, Closed
  <1>6. ControlInv(r)'
    BY <1>1, <1>2, <1>3 DEF ControlInv
  <1>7. CommandInv(r)'
    BY <1>1, <1>2, <1>4 DEF CommandInv
  <1>8. SessionInv(r)'
    BY <1>1, <1>4, Still DEF RankInv
  <1>9. LawfulInv(r)' /\ CoverInv(r)'
    <2>1. PICK c \in Calls : /\ c = Call("barrier", "none", L, 3) /\ c.op = "barrier"
                             /\ c.at = L /\ c.slot = 3
      <3>1. "barrier" \in AnyOp /\ "none" \in Payloads /\ 3 \in 0 .. 3
        BY DEF AnyOp, Ops, Payloads
      <3> QED
        BY <1>2, <3>1, CallIs
    <2>2. Enter(r, c) /\ LawfulInv(r) /\ CoverInv(r)
      BY <1>1, <2>1 DEF RankInv
    <2> HIDE DEF L
    <2>3. Must(launch, L, 3) /\ OpAt(launch, L, 3) = "barrier"
      BY <1>2 DEF Must, OpAt
    <2>4. Lawful(launch, c) /\ Can(launch, c.at, c.slot) /\ Place(c) = 4 * L + 3
      BY <1>2, <2>1, <2>3 DEF Lawful, Can, Place
    <2>5. \A m \in Nat, s \in 0 .. 3 :
              (Front(r) <= 4 * m + s /\ 4 * m + s < Front(r)') => (m = c.at /\ s = c.slot)
      BY <1>2, <1>5, <2>1
    <2>6. Front(r) <= Place(c) /\ Place(c) < Front(r)'
      BY <1>2, <1>5, <2>4
    <2> QED
      BY <1>1, <1>3, <1>5, <2>1, <2>2, <2>4, <2>5, <2>6, PlacesEntered
  <1> QED
    BY <1>3, <1>6, <1>7, <1>8, <1>9 DEF RankInv

LEMMA ReadLineStep ==
  ASSUME TypeInv, TypeInv', N > 1, NEW r \in Ranks, StreamInv(r), RankInv(r), ReadLine(r)
  PROVE  StreamInv(r)' /\ RankInv(r)'
  <1> DEFINE L == Len(ran[r])
  <1>0. PICK text \in Payloads : text = IF r = 0 THEN NextInput ELSE "none"
    <2>1. NextInput \in Commands
      BY LinesAre
    <2> QED
      BY <2>1 DEF Payloads
  <1>1. /\ launch' = launch /\ ran' = ran /\ pc[r] = "serve" /\ pc'[r] = pc[r]
        /\ cmd[r] = "none" /\ cmd'[r] = "broadcast_line" /\ x'[r] = x[r] /\ next' = next
        /\ todo' = todo
        /\ Enter(r, Call("broadcast_line", text, L, 3))
    <2>1. N # 1
      OBVIOUS
    <2>2. /\ launch' = launch /\ ran' = ran /\ pc[r] = "serve" /\ pc' = pc
          /\ cmd[r] = "none" /\ cmd' = [cmd EXCEPT ![r] = "broadcast_line"]
          /\ x' = x /\ next' = next /\ todo' = todo
          /\ Enter(r, Call("broadcast_line", IF r = 0 THEN NextInput ELSE "none", L, 3))
      BY <2>1 DEF ReadLine, At
    <2>3. cmd'[r] = "broadcast_line"
      BY <2>2 DEF TypeInv, TypeOK
    <2> QED
      BY <1>0, <2>2, <2>3
  <1>2. /\ L \in Nat /\ next[r] \in Nat \ {0} /\ Offline(launch) \in Nat
        /\ Len(launch.stdin) \in Nat
    <2>1. L \in Nat /\ next[r] \in Nat \ {0}
      BY FrontIs DEF TypeInv, TypeOK
    <2> QED
      BY <2>1, LaunchIs
  <1>3. StreamInv(r)' /\ Len(ran'[r]) = L /\ (NoSolve' => NoSolve)
    BY <1>1, Still
  <1>4. /\ ~Busy(r) /\ ~Busy(r)' /\ Pending(r) = 0 /\ Pending(r)' = 0
        /\ Finished(r)' = Finished(r)
    BY <1>1, <1>2, <1>3 DEF Busy, Commands, Finished, Pending
  <1>5. /\ Serving(launch) /\ L = Offline(launch) + next[r] - 1
        /\ \A i \in 1 .. L : Line(launch, i) # "exit"
    BY <1>1, <1>2, <1>4 DEF RankInv, ControlInv
  <1>6. Front(r) = 4 * L + 3 /\ Front(r)' = 4 * L + 4 /\ ~Closed(r)
    BY <1>1, <1>3, <1>4 DEF Front, Closed
  <1>7. PICK c \in Calls : /\ c = Call("broadcast_line", text, L, 3) /\ c.op = "broadcast_line"
                           /\ c.line = text /\ c.at = L /\ c.slot = 3
    <2>1. "broadcast_line" \in AnyOp /\ 3 \in 0 .. 3
      BY DEF AnyOp
    <2> QED
      BY <1>2, <2>1, CallIs
  <1>8. Enter(r, c)
    BY <1>1, <1>7
  <1>9. r = 0 => text = Line(launch, L + 1)
    <2> SUFFICES ASSUME r = 0 PROVE NextInput = Line(launch, L + 1)
      BY <1>0
    <2>0. L = Offline(launch) + next[0] - 1 /\ next[0] \in Nat \ {0}
      BY <1>2, <1>5
    <2>1. Len(ScriptLines(launch)) \in Nat /\ Len(ScriptLines(launch)) <= Offline(launch)
      BY LaunchIs
    <2> HIDE DEF L
    <2>2. /\ ~(L + 1 <= Len(ScriptLines(launch))) /\ ~(L + 1 <= Offline(launch))
          /\ L + 1 > Offline(launch) /\ (L + 1) - Offline(launch) = next[0]
      BY <1>2, <2>0, <2>1
    <2> QED
      BY <2>2 DEF Line, NextInput
  <1>10. ~Ends(launch, L) /\ L >= Offline(launch)
    <2> HIDE DEF L
    <2> QED
      BY <1>2, <1>5 DEF Ends
  <1>11. ControlInv(r)'
    <2>1. /\ pc'[r] = "serve" /\ Serving(launch')
          /\ Len(ran'[r]) = Offline(launch') + next'[r] - 1 + Pending(r)'
          /\ \A i \in 1 .. Len(ran'[r]) : Line(launch', i) # "exit"
      BY <1>1, <1>2, <1>3, <1>4, <1>5
    <2> QED
      BY <2>1 DEF ControlInv
  <1>12. CommandInv(r)'
    <2>1. calls'[r][Len(calls'[r])] = c
      <3>1. Len(calls'[r]) = Len(calls[r]) + 1 /\ calls'[r][Len(calls[r]) + 1] = c
        BY <1>8, Entered
      <3> QED
        BY <3>1
    <2> QED
      BY <1>1, <1>3, <1>4, <1>7, <2>1 DEF CommandInv
  <1>13. SessionInv(r)'
    BY <1>1, <1>4, Still DEF RankInv
  <1>14. LawfulInv(r)' /\ CoverInv(r)'
    <2>1. LawfulInv(r) /\ CoverInv(r)
      BY DEF RankInv
    <2> HIDE DEF L
    <2>2. Must(launch, L, 3) /\ OpAt(launch, L, 3) = "broadcast_line"
      BY <1>10 DEF Must, OpAt
    <2>3. Lawful(launch, c) /\ Can(launch, c.at, c.slot) /\ Place(c) = 4 * L + 3
      BY <1>2, <1>7, <2>2 DEF Lawful, Can, Place
    <2>4. \A m \in Nat, s \in 0 .. 3 :
              (Front(r) <= 4 * m + s /\ 4 * m + s < Front(r)') => (m = c.at /\ s = c.slot)
      BY <1>2, <1>6, <1>7
    <2>5. Front(r) <= Place(c) /\ Place(c) < Front(r)'
      BY <1>2, <1>6, <2>3
    <2>6. /\ (r = 0 /\ c.op = "broadcast_line") => c.line = Line(launch, c.at + 1)
          /\ ~(c.slot = 3 /\ Ends(launch, c.at))
          /\ Closed(r) => Closed(r)'
      BY <1>6, <1>7, <1>9, <1>10
    <2>7. launch' = launch /\ (NoSolve' => NoSolve)
      BY <1>1, <1>3
    <2> QED
      BY <1>8, <2>1, <2>3, <2>4, <2>5, <2>6, <2>7, PlacesEntered
  <1> QED
    BY <1>3, <1>11, <1>12, <1>13, <1>14 DEF RankInv

LEMMA ProceedStep ==
  ASSUME TypeInv, TypeInv', N > 1, NEW r \in Ranks, StreamInv(r), RankInv(r), Proceed(r)
  PROVE  StreamInv(r)' /\ RankInv(r)'
  <1> DEFINE L == Len(ran[r])
  <1>1. /\ launch' = launch /\ ran' = ran /\ pc[r] \in {"script", "eval", "serve"}
        /\ pc' = pc /\ cmd[r] \in Commands
    BY DEF Proceed, At
  <1>2. StreamInv(r)' /\ Len(ran'[r]) = L /\ (NoSolve' => NoSolve)
    BY <1>1, Still
  <1>3. /\ Busy(r) /\ Pending(r) = 1 /\ L \in Nat /\ L > 0 /\ cmd[r] = Line(launch, L)
        /\ cmd[r] \in {"dist_matmul", "dist_cg"} => x[r] \in Whole
        /\ todo[r] # <<>> => cmd[r] \in Paired /\ todo[r] = <<OpAt(launch, L, 2)>>
    BY <1>1, FrontIs DEF Busy, Pending, RankInv, CommandInv
  <1>4. cmd[r] # "broadcast_line" /\ cmd[r] # "none"
    BY <1>1 DEF Commands
  <1>5. Finished(r) = L - 1
    BY <1>3 DEF Finished
  <1>6. LawfulInv(r) /\ CoverInv(r) /\ SessionInv(r) /\ ControlInv(r)
    BY DEF RankInv
  <1>7. CASE todo[r] # <<>>
    <2> DEFINE o == OpAt(launch, L, 2)
    <2>1. /\ Enter(r, Call(o, "none", L, 2)) /\ todo'[r] = <<>>
          /\ cmd' = cmd /\ next' = next /\ x' = x
      <3>1. Head(todo[r]) = o /\ Tail(todo[r]) = <<>>
        BY <1>3, <1>7, Tuples
      <3>2. /\ Enter(r, Call(Head(todo[r]), "none", L, 2))
            /\ todo' = [todo EXCEPT ![r] = Tail(todo[r])]
            /\ cmd' = cmd /\ next' = next /\ x' = x
        BY <1>7 DEF Proceed
      <3> QED
        BY <3>1, <3>2 DEF TypeInv
    <2>2. o \in AnyOp /\ o # "broadcast_line"
      BY DEF OpAt, AnyOp, Ops
    <2> HIDE DEF o
    <2>3. PICK c \in Calls : /\ c = Call(o, "none", L, 2) /\ c.op = o
                             /\ c.at = L /\ c.slot = 2
      <3>1. "none" \in Payloads /\ 2 \in 0 .. 3
        BY DEF Payloads
      <3> QED
        BY <1>3, <2>2, <3>1, CallIs
    <2>4. Enter(r, c)
      BY <2>1, <2>3
    <2>5. Busy(r)' /\ Pending(r)' = 1 /\ Finished(r)' = Finished(r)
      BY <1>1, <1>3, <2>1 DEF Busy, Pending, Finished
    <2>6. /\ Front(r) = 4 * L + 2 /\ Front(r)' = 4 * L + 3
          /\ ~Closed(r)
      BY <1>1, <1>2, <1>3, <1>4, <1>7, <2>1, <2>5 DEF Front, Closed
    <2>7. ControlInv(r)'
      BY <1>1, <1>2, <1>3, <1>4, <1>6, <2>1, <2>5 DEF ControlInv
    <2>8. CommandInv(r)'
      BY <1>1, <1>2, <1>3, <1>4, <2>1 DEF CommandInv
    <2>9. SessionInv(r)'
      BY <1>1, <1>6, <2>1, <2>5, Still
    <2> HIDE DEF L
    <2>10. Must(launch, L, 2) \/ Kernel(launch, L, 2)
      BY <1>3, <1>7 DEF Must, Kernel, Paired
    <2>11. Lawful(launch, c) /\ Place(c) = 4 * L + 2
      BY <1>3, <2>3, <2>10 DEF Lawful, Place, o
    <2>12. (r # 0 \/ NoSolve') => Can(launch, L, 2)
      <3>1. CASE cmd[r] = "dist_solve"
        BY <1>3, <3>1 DEF Can, Must
      <3>2. CASE cmd[r] \in {"dist_matmul", "dist_cg"}
        <4>1. (r # 0 \/ NoSolve') => AssignedBy(launch, L - 1)
          BY <1>2, <1>3, <1>5, <1>6, <3>2 DEF SessionInv
        <4>2. AssignedBy(launch, L - 1) => AssignedBy(launch, L)
          BY <1>3, AssignedStep
        <4>3. Kernel(launch, L, 2)
          BY <1>3, <3>2 DEF Kernel
        <4> QED
          BY <4>1, <4>2, <4>3 DEF Can
      <3> QED
        BY <1>3, <1>7, <3>1, <3>2 DEF Paired
    <2>13. \A m \in Nat, s \in 0 .. 3 :
              (Front(r) <= 4 * m + s /\ 4 * m + s < Front(r)') => (m = c.at /\ s = c.slot)
      BY <1>3, <2>3, <2>6
    <2>14. Front(r) <= Place(c) /\ Place(c) < Front(r)'
      BY <1>3, <2>6, <2>11
    <2>15. /\ (r # 0 \/ NoSolve') => Can(launch, c.at, c.slot)
           /\ c.slot # 3 /\ c.op # "broadcast_line" /\ ~Closed(r)
           /\ launch' = launch
      BY <1>1, <2>2, <2>3, <2>6, <2>12
    <2>16. LawfulInv(r)' /\ CoverInv(r)'
      BY <1>2, <1>6, <2>4, <2>11, <2>13, <2>14, <2>15, PlacesEntered
    <2> QED
      BY <1>2, <2>7, <2>8, <2>9, <2>16 DEF RankInv
  <1>8. CASE todo[r] = <<>>
    <2>1. Complete(r, cmd[r]) /\ calls' = calls /\ todo' = todo
      BY <1>8 DEF Proceed, Leave
    <2>2. /\ cmd'[r] = "none" /\ x'[r] \in Results(r, cmd[r]) /\ next'[r] = next[r] + 1
          /\ next[r] \in Nat /\ pc'[r] = pc[r]
      BY <1>1, <2>1 DEF Complete, TypeInv, TypeOK
    <2>3. ~Busy(r)' /\ Pending(r)' = 0 /\ Finished(r)' = L
      BY <1>2, <1>3, <2>2 DEF Busy, Pending, Finished, Commands
    <2>4. Front(r) = 4 * L + 3 /\ Front(r)' = 4 * L + 3 /\ ~Closed(r)
      BY <1>1, <1>2, <1>3, <1>4, <1>8, <2>2, <2>3 DEF Front, Closed
    <2>5. ControlInv(r)'
      <3>1. /\ pc[r] = "script" => L = next[r] - 1 + 1 /\ L <= Len(ScriptLines(launch))
            /\ pc[r] = "eval" => /\ L = Len(ScriptLines(launch)) + next[r] - 1 + 1
                                 /\ L <= Offline(launch)
            /\ pc[r] = "serve" => L = Offline(launch) + next[r] - 1 + 1 /\ Serving(launch)
            /\ \A i \in 1 .. L : Line(launch, i) # "exit"
        BY <1>1, <1>3, <1>6 DEF ControlInv
      <3>2. Len(ScriptLines(launch)) \in Nat /\ Offline(launch) \in Nat
        BY LaunchIs
      <3>3. /\ pc'[r] \in {"script", "eval", "serve"}
            /\ pc'[r] = "script" =>
                   Len(ran'[r]) = next'[r] - 1 + Pending(r)'
                   /\ Len(ran'[r]) <= Len(ScriptLines(launch'))
            /\ pc'[r] = "eval" =>
                   Len(ran'[r]) = Len(ScriptLines(launch')) + next'[r] - 1 + Pending(r)'
                   /\ Len(ran'[r]) <= Offline(launch')
            /\ pc'[r] = "serve" =>
                   Serving(launch')
                   /\ Len(ran'[r]) = Offline(launch') + next'[r] - 1 + Pending(r)'
            /\ \A i \in 1 .. Len(ran'[r]) : Line(launch', i) # "exit"
        <4>1. /\ pc'[r] = pc[r] /\ launch' = launch /\ Len(ran'[r]) = L /\ Pending(r)' = 0
              /\ next'[r] = next[r] + 1 /\ next[r] \in Nat /\ L \in Nat
              /\ pc[r] \in {"script", "eval", "serve"}
          BY <1>1, <1>2, <1>3, <2>2, <2>3
        <4>2. CASE pc[r] = "script"
          BY <3>1, <3>2, <4>1, <4>2, SMTT(30)
        <4>3. CASE pc[r] = "eval"
          BY <3>1, <3>2, <4>1, <4>3
        <4>4. CASE pc[r] = "serve"
          BY <3>1, <3>2, <4>1, <4>4
        <4> QED
          BY <4>1, <4>2, <4>3, <4>4
      <3> QED
        BY <3>3 DEF ControlInv
    <2>6. CommandInv(r)'
      BY <2>2, <2>3 DEF CommandInv
    <2>7. SessionInv(r)'
      <3>1. /\ Ran(r, {"dist_solve"})' <=> Ran(r, {"dist_solve"})
            /\ ran[r][L] = cmd[r] /\ L \in 1 .. L
        BY <1>1, <1>3 DEF Ran, StreamInv
      <3>2. \A cs : cmd[r] \in cs => ~NobodyRan(cs)
        BY <3>1 DEF NobodyRan, Ran
      <3>3. NobodyRan({"dist_solve", "dist_matmul"}) => NobodyRan({"dist_solve"})
        BY DEF NobodyRan, Ran
      <3>4. /\ NoSolve' <=> NoSolve
            /\ NobodyRan({"dist_solve", "dist_matmul"})'
                   <=> NobodyRan({"dist_solve", "dist_matmul"})
        BY <1>1, Still
      <3>5. /\ NoSolve' => NoSolve /\ cmd[r] # "dist_solve"
            /\ NobodyRan({"dist_solve", "dist_matmul"})' =>
                   /\ NobodyRan({"dist_solve", "dist_matmul"}) /\ NoSolve
                   /\ cmd[r] \notin {"dist_solve", "dist_matmul"}
        BY <3>2, <3>3, <3>4 DEF NoSolve
      <3> HIDE DEF L
      <3>6. PICK m \in Nat : L = m + 1
        BY <1>3
      <3>7. Finished(r) = m /\ Finished(r)' = m + 1 /\ cmd[r] = Line(launch, m + 1)
        BY <1>3, <1>5, <2>3, <3>6
      <3> QED
        BY <1>1, <1>6, <2>2, <3>5, <3>7, SessionStep
    <2>8. LawfulInv(r)' /\ CoverInv(r)'
      <3>1. \A m \in Nat, s \in 0 .. 3 :
                ~(Front(r) <= 4 * m + s /\ 4 * m + s < Front(r)')
        BY <1>3, <2>4
      <3>2. Front(r) <= Front(r)'
        BY <1>3, <2>4
      <3> QED
        BY <1>1, <1>2, <1>6, <2>1, <2>4, <3>1, <3>2, PlacesKept
    <2> QED
      BY <1>2, <2>5, <2>6, <2>7, <2>8 DEF RankInv
  <1> QED
    BY <1>7, <1>8

-----------------------------------------------------------------------------
(* A step of the job.                                                      *)

LEMMA RunFrame ==
  ASSUME TypeInv, NEW r \in Ranks, NEW c \in Commands, RunCommand(r, c)
  PROVE  /\ \A q \in Ranks \ {r} : /\ pc'[q] = pc[q] /\ next'[q] = next[q] /\ cmd'[q] = cmd[q]
                                   /\ todo'[q] = todo[q] /\ x'[q] = x[q] /\ calls'[q] = calls[q]
         /\ Len(calls'[r]) \in {Len(calls[r]), Len(calls[r]) + 1}
         /\ \A k \in 1 .. Len(calls[r]) : calls'[r][k] = calls[r][k]
         /\ Len(calls'[r]) = Len(calls[r]) + 1 => ~Idle(r)'
  <1>0. Len(calls[r]) \in Nat
    BY CallsAre
  <1>1. CASE calls' = calls
    <2>1. \A q \in Ranks \ {r} : /\ pc'[q] = pc[q] /\ next'[q] = next[q] /\ cmd'[q] = cmd[q]
                                 /\ todo'[q] = todo[q] /\ x'[q] = x[q]
      BY DEF RunCommand, Complete, TypeInv, TypeOK
    <2> QED
      BY <1>0, <1>1, <2>1
  <1>2. CASE /\ cmd'  = [cmd EXCEPT ![r] = c]
             /\ todo' = [todo EXCEPT ![r] = Tail(Collectives(r, c))]
             /\ Enter(r, Call(Head(Collectives(r, c)), "none", Len(ran[r]) + 1, 1))
             /\ UNCHANGED <<pc, next, x>> /\ Collectives(r, c) # <<>>
    <2>1. Head(Collectives(r, c)) = First(c)
      BY <1>2, CollectivesAre, Tuples
    <2>2. PICK d \in Calls : d = Call(First(c), "none", Len(ran[r]) + 1, 1)
      <3>1. First(c) \in AnyOp /\ "none" \in Payloads /\ 1 \in 0 .. 3 /\ Len(ran[r]) + 1 \in Nat
        BY FirstSecond, FrontIs DEF AnyOp, Payloads
      <3> QED
        BY <3>1, CallIs
    <2>3. Enter(r, d)
      BY <1>2, <2>1, <2>2
    <2>4. /\ Len(calls'[r]) = Len(calls[r]) + 1
          /\ \A k \in 1 .. Len(calls[r]) : calls'[r][k] = calls[r][k]
          /\ \A q \in Ranks \ {r} : calls'[q] = calls[q]
      BY <2>3, Entered
    <2>5. /\ cmd'[r] = c /\ c # "none"
          /\ \A q \in Ranks \ {r} : cmd'[q] = cmd[q] /\ todo'[q] = todo[q]
      BY <1>2 DEF TypeInv, TypeOK, Commands
    <2>6. ~Idle(r)'
      BY <2>5 DEF Idle
    <2> QED
      BY <1>2, <2>4, <2>5, <2>6
  <1> QED
    BY <1>1, <1>2 DEF RunCommand, Leave

(* Of all ranks only r goes on, by at most one collective, in which it is. *)
OnlyOne(r) ==
    /\ launch' = launch
    /\ \A q \in Ranks \ {r} : /\ pc'[q] = pc[q] /\ next'[q] = next[q] /\ cmd'[q] = cmd[q]
                              /\ todo'[q] = todo[q] /\ x'[q] = x[q] /\ calls'[q] = calls[q]
                              /\ ran'[q] = ran[q]
    /\ Len(calls'[r]) \in {Len(calls[r]), Len(calls[r]) + 1}
    /\ \A k \in 1 .. Len(calls[r]) : calls'[r][k] = calls[r][k]
    /\ Len(calls'[r]) = Len(calls[r]) + 1 => ~Idle(r)'
    /\ \A cs : NobodyRan(cs)' => NobodyRan(cs)

LEMMA Frame ==
  ASSUME TypeInv, N > 1, NEW r \in Ranks, Step(r)
  PROVE  alive /\ OnlyOne(r)
  <1>1. ASSUME NEW c \in Commands, RunCommand(r, c), UNCHANGED launch, alive
        PROVE  alive /\ OnlyOne(r)
    <2>1. ran' = [ran EXCEPT ![r] = Append(ran[r], c)]
      BY <1>1 DEF RunCommand
    <2>2. \A q \in Ranks \ {r} : ran'[q] = ran[q]
      BY <2>1 DEF TypeInv, TypeOK
    <2>3. \A cs : NobodyRan(cs)' => NobodyRan(cs)
      BY <2>1, RanGrows
    <2>4. /\ \A q \in Ranks \ {r} : /\ pc'[q] = pc[q] /\ next'[q] = next[q] /\ cmd'[q] = cmd[q]
                                    /\ todo'[q] = todo[q] /\ x'[q] = x[q] /\ calls'[q] = calls[q]
          /\ Len(calls'[r]) \in {Len(calls[r]), Len(calls[r]) + 1}
          /\ \A k \in 1 .. Len(calls[r]) : calls'[r][k] = calls[r][k]
          /\ Len(calls'[r]) = Len(calls[r]) + 1 => ~Idle(r)'
      BY <1>1, RunFrame
    <2> QED
      BY <1>1, <2>2, <2>3, <2>4 DEF OnlyOne
  <1>2. ran' = ran => \A cs : NobodyRan(cs)' => NobodyRan(cs)
    BY DEF NobodyRan, Ran
  <1>3. Len(calls[r]) \in Nat /\ Len(ran[r]) \in Nat
    BY CallsAre, FrontIs
  <1>4. ASSUME NEW op \in AnyOp, NEW text \in Payloads, NEW at \in Nat, NEW s \in 0 .. 3,
               Enter(r, Call(op, text, at, s))
        PROVE  /\ Len(calls'[r]) = Len(calls[r]) + 1
               /\ \A k \in 1 .. Len(calls[r]) : calls'[r][k] = calls[r][k]
               /\ \A q \in Ranks \ {r} : calls'[q] = calls[q]
    <2>1. PICK d \in Calls : d = Call(op, text, at, s)
      BY CallIs
    <2> QED
      BY <1>4, <2>1, Entered
  <1>5. "none" \in Payloads /\ NextInput \in Payloads /\ 0 \in 0 .. 3 /\ 2 \in 0 .. 3 /\ 3 \in 0 .. 3
    BY LinesAre DEF Payloads
  <1>6. "barrier" \in AnyOp /\ "broadcast_line" \in AnyOp /\ Ops \subseteq AnyOp
    BY DEF AnyOp, Ops
  <1>7. CASE Boot(r) \/ Stop(r)
    <2>1. /\ UNCHANGED <<launch, alive, next, cmd, todo, inited, x, ran>> /\ alive
          /\ \E at \in Nat : \E s \in 0 .. 3 : Enter(r, Call("barrier", "none", at, s))
          /\ pc'[r] \in {"ready", "closing"}
          /\ \A q \in Ranks \ {r} : pc'[q] = pc[q]
      BY <1>3, <1>5, <1>7 DEF Boot, Stop, At, TypeInv, TypeOK
    <2>2. ~Idle(r)'
      BY <2>1 DEF Idle
    <2> QED
      BY <1>2, <1>4, <1>5, <1>6, <2>1, <2>2 DEF OnlyOne
  <1>8. CASE Ready(r) \/ Finalize(r) \/ EndOfLines(r)
    <2>1. /\ UNCHANGED <<launch, alive, cmd, todo, calls, x, ran>> /\ alive
          /\ \A q \in Ranks \ {r} : pc'[q] = pc[q] /\ next'[q] = next[q]
      BY <1>8 DEF Ready, Finalize, EndOfLines, Leave, At, TypeInv, TypeOK
    <2> QED
      BY <1>2, <1>3, <2>1 DEF OnlyOne
  <1>9. CASE RunLine(r)
    <2>1. next[r] \in 1 .. Len(Lines(r))
      BY <1>9, LinesAre, LenProperties DEF RunLine, TypeInv, TypeOK
    <2>2. Lines(r)[next[r]] \in Commands
      BY <2>1, LinesAre
    <2> QED
      BY <1>1, <1>9, <2>2 DEF RunLine, At
  <1>10. CASE RunReceived(r)
    <2>1. Received(r) \in Commands
      BY <1>10, ReceivedIs DEF RunReceived
    <2> QED
      BY <1>1, <1>10, <2>1 DEF RunReceived, At
  <1>11. CASE ReadLine(r)
    <2>1. N # 1
      OBVIOUS
    <2>2. /\ UNCHANGED <<launch, alive, pc, next, todo, x, ran>> /\ alive
          /\ cmd' = [cmd EXCEPT ![r] = "broadcast_line"]
          /\ Enter(r, Call("broadcast_line", IF r = 0 THEN NextInput ELSE "none", Len(ran[r]), 3))
      BY <1>11, <2>1 DEF ReadLine, At
    <2>3. PICK text \in Payloads : Enter(r, Call("broadcast_line", text, Len(ran[r]), 3))
      BY <1>5, <2>2
    <2>4. cmd'[r] = "broadcast_line" /\ \A q \in Ranks \ {r} : cmd'[q] = cmd[q]
      BY <2>2 DEF TypeInv, TypeOK
    <2>5. ~Idle(r)'
      BY <2>4 DEF Idle
    <2>6. /\ Len(calls'[r]) = Len(calls[r]) + 1
          /\ \A k \in 1 .. Len(calls[r]) : calls'[r][k] = calls[r][k]
          /\ \A q \in Ranks \ {r} : calls'[q] = calls[q]
      BY <1>3, <1>4, <1>5, <1>6, <2>3
    <2> QED
      BY <1>2, <2>2, <2>4, <2>5, <2>6 DEF OnlyOne
  <1>12. CASE Proceed(r) /\ todo[r] # <<>>
    <2>1. /\ UNCHANGED <<launch, alive, pc, next, cmd, x, ran>> /\ alive /\ cmd[r] \in Commands
          /\ todo' = [todo EXCEPT ![r] = Tail(todo[r])]
          /\ Enter(r, Call(Head(todo[r]), "none", Len(ran[r]), 2))
      BY <1>12 DEF Proceed, At
    <2>2. Head(todo[r]) \in AnyOp
      BY <1>6, <1>12, HeadTailProperties DEF TypeInv
    <2>3. \A q \in Ranks \ {r} : todo'[q] = todo[q]
      BY <2>1 DEF TypeInv
    <2>4. ~Idle(r)'
      BY <2>1 DEF Idle, Commands
    <2>5. /\ Len(calls'[r]) = Len(calls[r]) + 1
          /\ \A k \in 1 .. Len(calls[r]) : calls'[r][k] = calls[r][k]
          /\ \A q \in Ranks \ {r} : calls'[q] = calls[q]
      BY <1>3, <1>4, <1>5, <2>1, <2>2
    <2> QED
      BY <1>2, <2>1, <2>3, <2>4, <2>5 DEF OnlyOne
  <1>13. CASE Proceed(r) /\ todo[r] = <<>>
    <2>1. /\ UNCHANGED <<launch, alive, pc, todo, calls, ran>> /\ alive
          /\ \A q \in Ranks \ {r} : next'[q] = next[q] /\ cmd'[q] = cmd[q] /\ x'[q] = x[q]
      BY <1>13 DEF Proceed, Complete, Leave, At, TypeInv, TypeOK
    <2> QED
      BY <1>2, <1>3, <2>1 DEF OnlyOne
  <1> QED
    BY <1>7, <1>8, <1>9, <1>10, <1>11, <1>12, <1>13 DEF Step

(* A rank goes on from a collective only when it may return from it.       *)
LEMMA Departs ==
  ASSUME TypeInv, NEW r \in Ranks, RankInv(r), Step(r)
  PROVE  Idle(r) \/ CanReturn(r)
  <1>1. CASE Boot(r) \/ Stop(r)
    <2>1. pc[r] \in {"boot", "stop"}
      BY <1>1 DEF Boot, Stop, At
    <2>2. cmd[r] = "none"
      BY <2>1 DEF RankInv, ControlInv
    <2> QED
      BY <2>1, <2>2 DEF Idle
  <1>2. CASE RunLine(r) \/ EndOfLines(r) \/ ReadLine(r)
    BY <1>2 DEF RunLine, EndOfLines, ReadLine, At, Idle
  <1>3. CASE Ready(r) \/ RunReceived(r) \/ Proceed(r) \/ Finalize(r)
    BY <1>3 DEF Ready, RunReceived, Proceed, Finalize
  <1> QED
    BY <1>1, <1>2, <1>3 DEF Step


(* A rank's step keeps what holds of it, as long as the job lives.         *)
LEMMA OwnStep ==
  ASSUME TypeInv, TypeInv', Uniform, N > 1, NEW r \in Ranks,
         StreamInv(r), LiveInv, Step(r), alive'
  PROVE  StreamInv(r)' /\ RankInv(r)'
  <1>0. RankInv(r)
    BY DEF LiveInv
  <1>1. CASE Boot(r)
    BY <1>0, <1>1, BootStep
  <1>2. CASE Ready(r) \/ Finalize(r)
    BY <1>0, <1>2, ReadyOrFinalStep
  <1>3. CASE RunLine(r)
    <2>1. Takes(r, Lines(r)[next[r]])
      BY <1>0, <1>3, RunLineTakes
    <2>2. RunCommand(r, Lines(r)[next[r]])
      BY <1>3 DEF RunLine
    <2> QED
      BY <2>1, <2>2, RunStep
  <1>4. CASE EndOfLines(r)
    BY <1>0, <1>4, EndOfLinesStep
  <1>5. CASE ReadLine(r)
    BY <1>0, <1>5, ReadLineStep
  <1>6. CASE RunReceived(r)
    <2>1. Takes(r, Received(r))
      BY <1>6, ReceivedTakes
    <2>2. RunCommand(r, Received(r))
      BY <1>6 DEF RunReceived
    <2> QED
      BY <2>1, <2>2, RunStep
  <1>7. CASE Proceed(r)
    BY <1>0, <1>7, ProceedStep
  <1>8. CASE Stop(r)
    BY <1>0, <1>8, StopStep
  <1> QED
    BY <1>1, <1>2, <1>3, <1>4, <1>5, <1>6, <1>7, <1>8 DEF Step

LEMMA LiveStep ==
  ASSUME TypeInv, TypeInv', Uniform, N > 1, NEW r \in Ranks,
         \A q \in Ranks : StreamInv(q), LiveInv, Step(r), alive'
  PROVE  (\A q \in Ranks : StreamInv(q)') /\ LiveInv'
  <1>1. OnlyOne(r) /\ (NoSolve' => NoSolve)
    BY Frame DEF OnlyOne, NoSolve
  <1>2. StreamInv(r)' /\ RankInv(r)'
    BY OwnStep
  <1>3. ASSUME NEW q \in Ranks, q # r
        PROVE  StreamInv(q)' /\ RankInv(q)'
    <2>1. StreamInv(q) /\ RankInv(q)
      BY DEF LiveInv
    <2>2. /\ launch' = launch
          /\ NoSolve' => NoSolve
          /\ NobodyRan({"dist_solve", "dist_matmul"})' => NobodyRan({"dist_solve", "dist_matmul"})
          /\ pc'[q] = pc[q] /\ next'[q] = next[q] /\ cmd'[q] = cmd[q] /\ todo'[q] = todo[q]
          /\ calls'[q] = calls[q] /\ x'[q] = x[q] /\ ran'[q] = ran[q]
      BY <1>1, <1>3 DEF OnlyOne
    <2> QED
      BY <2>1, <2>2, Untouched
  <1>4. \A q \in Ranks : StreamInv(q)' /\ RankInv(q)'
    BY <1>2, <1>3
  <1>5. Idle(r) \/ CanReturn(r)
    BY Departs DEF LiveInv
  <1>6. \A q \in Ranks : AnsweredInv(q)'
    <2>1. /\ \A q \in Ranks \ {r} : calls'[q] = calls[q] /\ pc'[q] = pc[q] /\ cmd'[q] = cmd[q]
          /\ Len(calls'[r]) \in {Len(calls[r]), Len(calls[r]) + 1}
          /\ \A k \in 1 .. Len(calls[r]) : calls'[r][k] = calls[r][k]
          /\ Len(calls'[r]) = Len(calls[r]) + 1 => ~Idle(r)'
      BY Frame DEF OnlyOne
    <2>2. \A q \in Ranks : AnsweredInv(q)
      BY DEF LiveInv
    <2> QED
      BY <1>5, <2>1, <2>2, AnsweredStep
  <1>7. AgreeInv'
    <2>1. /\ \A q \in Ranks \ {r} : calls'[q] = calls[q]
          /\ Len(calls'[r]) \in {Len(calls[r]), Len(calls[r]) + 1}
          /\ \A k \in 1 .. Len(calls[r]) : calls'[r][k] = calls[r][k]
          /\ NoSolve' => NoSolve
      BY <1>1, Frame DEF OnlyOne
    <2>2. Len(calls[r]) \in Nat /\ Len(calls'[r]) <= Len(calls[r]) + 1
      BY <2>1, CallsAre
    <2>3. \A q \in Ranks : LawfulInv(q)' /\ CoverInv(q)' /\ AnsweredInv(q)'
      BY <1>4, <1>6 DEF RankInv
    <2>4. AgreeInv
      BY DEF LiveInv
    <2> QED
      BY <2>1, <2>2, <2>3, <2>4, AgreeStep
  <1> QED
    BY <1>4, <1>6, <1>7 DEF LiveInv

(* What the properties say follows while the job lives.                    *)
LEMMA Gives ==
  ASSUME TypeInv, LiveInv
  PROVE  DeadInv
  <1>1. ASSUME NoSolve, NEW r \in Ranks, NEW q \in Ranks,
               NEW k \in 1 .. Len(calls[r]), k <= Len(calls[q])
        PROVE  Same(r, q, k) /\ calls[r][k].op = calls[q][k].op
    <2>1. Same(r, q, k)
      BY <1>1 DEF LiveInv, AgreeInv
    <2>2. k \in 1 .. Len(calls[q])
      BY <1>1, CallsAre
    <2>3. /\ calls[r][k].op = OpAt(launch, calls[r][k].at, calls[r][k].slot)
          /\ calls[q][k].op = OpAt(launch, calls[q][k].at, calls[q][k].slot)
      BY <2>2 DEF LiveInv, RankInv, LawfulInv
    <2> QED
      BY <2>1, <2>3 DEF Same
  <1>2. CollectivesMatch
    BY <1>1 DEF CollectivesMatch, SameCollectives, NoSolve
  <1>3. SessionsAgree
    <2> SUFFICES ASSUME NobodyRan({"dist_solve", "dist_matmul"}),
                        NEW r \in Ranks, NEW q \in Ranks,
                        cmd[r] = "none", cmd[q] = "none", ran[r] = ran[q]
                 PROVE  x[r] = x[q]
      BY DEF SessionsAgree
    <2>1. Finished(r) = Len(ran[r]) /\ Finished(q) = Len(ran[q])
      BY FrontIs DEF Finished, Pending, Busy, Commands
    <2> QED
      BY <2>1 DEF LiveInv, RankInv, SessionInv
  <1>4. LeaveTogether
    <2> SUFFICES ASSUME NoSolve, NEW r \in Ranks, NEW q \in Ranks, pc[r] = "done"
                 PROVE  Closed(q)
      BY DEF LeaveTogether, NoSolve, Closed
    <2> DEFINE L == Len(ran[r])
    <2>1. L \in Nat /\ Front(r) = 4 * L + 4 /\ cmd[r] = "none" /\ Ends(launch, L) /\ Idle(r)
      BY FrontIs DEF LiveInv, RankInv, ControlInv, Front, Closed, Idle
    <2> HIDE DEF L
    <2>2. Due(r, L, 3) /\ OpAt(launch, L, 3) = "barrier"
      BY <2>1 DEF Due, Must, OpAt
    <2>3. PICK k \in 1 .. Len(calls[r]) : calls[r][k].at = L /\ calls[r][k].slot = 3
      <3>1. 4 * L + 3 < Front(r)
        BY <2>1
      <3>2. 3 \in 0 .. 3 /\ CoverInv(r)
        BY DEF LiveInv, RankInv
      <3> QED
        BY <2>1, <2>2, <3>1, <3>2 DEF CoverInv, Has
    <2>4. calls[r][k].op = "barrier"
      BY <2>2, <2>3 DEF LiveInv, RankInv, LawfulInv
    <2>5. k <= Len(calls[q])
      BY <2>1, <2>4 DEF LiveInv, AnsweredInv, Answered, Left
    <2>6. k \in 1 .. Len(calls[q])
      BY <2>5, CallsAre
    <2>7. calls[q][k].at = L /\ calls[q][k].slot = 3
      BY <1>1, <2>3, <2>5 DEF Same
    <2> QED
      BY <2>1, <2>6, <2>7 DEF LiveInv, RankInv, LawfulInv
  <1> QED
    BY <1>2, <1>3, <1>4 DEF DeadInv

(* A rank that MPI aborts has taken a command and done nothing else.  Only *)
(* dist_cg could have told it from a rank that is through with it, and     *)
(* there the other rank was let out of an allreduce this one never entered.*)
LEMMA DeadStep ==
  ASSUME TypeInv, NEW r \in Ranks, NEW c, Takes(r, c), RunCommand(r, c), alive, ~alive',
         \A q \in Ranks : StreamInv(q), LiveInv
  PROVE  (\A q \in Ranks : StreamInv(q)') /\ DeadInv'
  <1> DEFINE L == Len(ran[r])
             Both == {"dist_solve", "dist_matmul"}
  <1>0. /\ launch' = launch /\ pc' = pc /\ cmd' = cmd /\ calls' = calls /\ x' = x
        /\ UsesMpi(r, c) /\ c \in Commands /\ c = Line(launch, L + 1)
        /\ ran' = [ran EXCEPT ![r] = Append(ran[r], c)]
    BY DEF RunCommand, Takes
  <1>1. /\ L \in Nat /\ StreamInv(r)' /\ Len(ran'[r]) = L + 1
        /\ Front(r) \in 4 * L + 3 .. 4 * L + 4 /\ Finished(r) = L
        /\ NobodyRan(Both)' => NobodyRan(Both) /\ NoSolve /\ c \notin Both
        /\ NoSolve' => NoSolve
    BY Taking
  <1>2. \A q \in Ranks \ {r} : ran'[q] = ran[q]
    BY <1>0 DEF TypeInv, TypeOK
  <1> HIDE DEF L, Both
  <1>3. DeadInv
    BY Gives
  <1>4. \A q \in Ranks : StreamInv(q)'
    <2>1. ASSUME NEW q \in Ranks, q # r PROVE StreamInv(q)'
      BY <1>0, <1>2, <2>1 DEF StreamInv
    <2> QED
      BY <1>1, <2>1
  <1>5. CollectivesMatch'
    <2>1. Uniform' => Uniform
      BY <1>0 DEF Uniform, Serves
    <2>2. SameCollectives => SameCollectives'
      BY <1>0 DEF SameCollectives
    <2> QED
      BY <1>1, <1>3, <2>1, <2>2 DEF DeadInv, CollectivesMatch, NoSolve
  <1>6. LeaveTogether'
    <2>1. Uniform' => Uniform
      BY <1>0 DEF Uniform, Serves
    <2> QED
      BY <1>0, <1>1, <1>3, <2>1 DEF DeadInv, LeaveTogether, NoSolve
  <1>7. ASSUME NobodyRan(Both)', NEW q \in Ranks, q # r, cmd[q] = "none", ran'[r] = ran[q]
        PROVE  x[r] = x[q]
    <2>1. /\ Len(ran[q]) = L + 1 /\ Finished(q) = L + 1
          /\ NoSolve /\ c \notin Both /\ NobodyRan(Both)
      BY <1>1, <1>7 DEF Finished, Pending, Busy, Commands
    <2>2. x[r] = XAfter(launch, L) /\ x[q] = XAfter(launch, L + 1)
      BY <1>1, <2>1 DEF LiveInv, RankInv, SessionInv, Both
    <2>3. CASE c # "dist_cg"
      <3>1. c \in {"mpi_barrier", "mpi_bcast"}
        BY <1>0, <2>1, <2>3 DEF UsesMpi, Both
      <3> QED
        BY <1>0, <1>1, <2>2, <3>1, XAfterStep
    <2>4. CASE c = "dist_cg"
      <3>1. AssignedBy(launch, L)
        BY <1>0, <2>2, <2>4 DEF UsesMpi, XAfter
      <3>2. AssignedBy(launch, L + 1)
        BY <1>1, <3>1, AssignedStep
      <3>3. Due(q, L + 1, 1) /\ Due(q, L + 1, 2)
        BY <1>0, <1>1, <2>1, <2>4, <3>2 DEF Due, Can, Kernel
      <3>4. Front(q) >= 4 * (L + 1) + 3
        BY <1>1, <1>7, <2>1 DEF Front, Busy, Commands, LiveInv, RankInv, ControlInv
      <3>5. Has(calls[q], L + 1, 1) /\ Has(calls[q], L + 1, 2)
        <4>1. CoverInv(q) /\ 1 \in 0 .. 3 /\ 2 \in 0 .. 3 /\ L + 1 \in Nat
          BY <1>1 DEF LiveInv, RankInv
        <4>2. 4 * (L + 1) + 1 < Front(q) /\ 4 * (L + 1) + 2 < Front(q)
          BY <1>1, <3>4, FrontIs
        <4> QED
          BY <3>3, <4>1, <4>2 DEF CoverInv
      <3>6. PICK k, j \in 1 .. Len(calls[q]) : /\ calls[q][k].at = L + 1 /\ calls[q][k].slot = 1
                                               /\ calls[q][j].at = L + 1 /\ calls[q][j].slot = 2
        BY <3>5 DEF Has
      <3>7. Left(q, k)
        <4>1. Place(calls[q][k]) = 4 * L + 5 /\ Place(calls[q][j]) = 4 * L + 6
          BY <1>1, <3>6 DEF Place
        <4>2. ~(j < k)
          <5>1. ASSUME j \in 1 .. k - 1 PROVE FALSE
            <6>1. Place(calls[q][j]) < Place(calls[q][k])
              BY <5>1 DEF LiveInv, RankInv, LawfulInv
            <6> QED
              BY <1>1, <4>1, <6>1
          <5> QED
            BY <5>1, CallsAre
        <4>3. j # k
          BY <3>6
        <4> QED
          BY <4>2, <4>3, CallsAre DEF Left
      <3>8. calls[q][k].op = "allreduce"
        <4>1. OpAt(launch, L + 1, 1) = "allreduce"
          BY <1>0, <2>4 DEF OpAt
        <4> QED
          BY <3>6, <4>1 DEF LiveInv, RankInv, LawfulInv
      <3>9. k <= Len(calls[r])
        BY <3>7, <3>8 DEF LiveInv, AnsweredInv, Answered
      <3>10. Same(q, r, k)
        BY <2>1, <3>9 DEF LiveInv, AgreeInv
      <3>11. Place(calls[r][k]) < Front(r)
        BY <3>9, CallsAre DEF LiveInv, RankInv, LawfulInv
      <3>12. Place(calls[r][k]) = 4 * (L + 1) + 1
        BY <3>6, <3>10 DEF Same, Place
      <3> QED
        BY <1>1, <3>11, <3>12
    <2> QED
      BY <2>3, <2>4
  <1>8. SessionsAgree'
    <2> SUFFICES ASSUME Uniform', NobodyRan(Both)', NEW p \in Ranks, NEW q \in Ranks,
                        cmd[p] = "none", cmd[q] = "none", ran'[p] = ran'[q]
                 PROVE  x[p] = x[q]
      BY <1>0 DEF SessionsAgree, Both
    <2>1. CASE p = q
      BY <2>1
    <2>2. CASE p = r /\ q # r
      BY <1>2, <1>7, <2>2
    <2>3. CASE q = r /\ p # r
      BY <1>2, <1>7, <2>3
    <2>4. CASE p # r /\ q # r
      <3>1. Uniform
        BY <1>0 DEF Uniform, Serves
      <3> QED
        BY <1>1, <1>2, <1>3, <2>4, <3>1 DEF DeadInv, SessionsAgree, Both
    <2> QED
      BY <2>1, <2>2, <2>3, <2>4
  <1> QED
    BY <1>4, <1>5, <1>6, <1>8 DEF DeadInv

LEMMA JobStep ==
  ASSUME TypeInv, TypeInv', Uniform, N > 1, JobInv, NEW r \in Ranks, Step(r)
  PROVE  JobInv'
  <1>1. alive /\ LiveInv /\ \A q \in Ranks : StreamInv(q)
    BY Frame DEF JobInv
  <1>2. CASE alive'
    BY <1>1, <1>2, LiveStep DEF JobInv
  <1>3. CASE ~alive'
    <2>1. RunLine(r) \/ RunReceived(r)
      <3>1. \/ Boot(r) \/ Ready(r) \/ EndOfLines(r) \/ ReadLine(r)
            \/ Proceed(r) \/ Stop(r) \/ Finalize(r)
            => alive' = alive
        <4>1. (Boot(r) \/ Ready(r) \/ EndOfLines(r)) => alive' = alive
          BY DEF Boot, Ready, EndOfLines
        <4>2. (Proceed(r) \/ Stop(r) \/ Finalize(r)) => alive' = alive
          BY DEF Proceed, Stop, Finalize
        <4>3. ReadLine(r) => alive' = alive
          BY DEF ReadLine
        <4> QED
          BY <4>1, <4>2, <4>3
      <3> QED
        BY <1>1, <1>3, <3>1 DEF Step
    <2>2. PICK c : Takes(r, c) /\ RunCommand(r, c)
      <3>1. CASE RunLine(r)
        <4>1. Takes(r, Lines(r)[next[r]])
          BY <1>1, <3>1, RunLineTakes DEF LiveInv
        <4> QED
          BY <3>1, <4>1 DEF RunLine
      <3>2. CASE RunReceived(r)
        <4>1. Takes(r, Received(r))
          BY <1>1, <3>2, ReceivedTakes
        <4> QED
          BY <3>2, <4>1 DEF RunReceived
      <3> QED
        BY <2>1, <3>1, <3>2
    <2>3. (\A q \in Ranks : StreamInv(q)') /\ DeadInv'
      BY <1>1, <1>3, <2>2, DeadStep
    <2> QED
      BY <1>3, <2>3 DEF JobInv
  <1> QED
    BY <1>2, <1>3

LEMMA InitOK == Init => IInv
  <1> SUFFICES ASSUME Init PROVE IInv
    OBVIOUS
  <1>1. TypeInv
    BY EmptySeq, LenProperties
    DEF Init, TypeInv, TypeOK, LinesInv, LaunchRecord, Commands, Values, Ranks
  <1>2. \A r \in Ranks : /\ ran[r] = <<>> /\ calls[r] = <<>> /\ pc[r] = "boot" /\ x[r] = "none"
                         /\ cmd[r] = "none" /\ next[r] = 1 /\ Len(ran[r]) = 0 /\ Len(calls[r]) = 0
    BY EmptySeq DEF Init
  <1>3. ASSUME NEW r \in Ranks PROVE StreamInv(r) /\ RankInv(r) /\ AnsweredInv(r)
    <2>1. Front(r) = 0 /\ Finished(r) = 0 /\ ~Busy(r)
      BY <1>2 DEF Front, Finished, Pending, Busy, Commands
    <2>2. StreamInv(r) /\ LawfulInv(r) /\ AnsweredInv(r)
      BY <1>2 DEF StreamInv, LawfulInv, AnsweredInv
    <2>3. ControlInv(r) /\ CommandInv(r)
      BY <1>2, <2>1 DEF ControlInv, CommandInv
    <2>4. CoverInv(r)
      BY <2>1 DEF CoverInv
    <2>5. SessionInv(r)
      <3>1. ~AssignedBy(launch, 0)
        BY DEF AssignedBy
      <3>2. XAfter(launch, 0) = "none" /\ x[r] = "none" /\ "none" \notin Whole
        BY <1>2, <3>1 DEF XAfter, Whole
      <3> QED
        BY <2>1, <3>1, <3>2 DEF SessionInv
    <2> QED
      BY <2>2, <2>3, <2>4, <2>5 DEF RankInv
  <1>4. AgreeInv
    BY <1>2 DEF AgreeInv
  <1>5. alive
    BY DEF Init
  <1> QED
    BY <1>1, <1>3, <1>4, <1>5 DEF IInv, JobInv, LiveInv

LEMMA StepOK == IInv /\ [Next]_vars => IInv'
  <1> SUFFICES ASSUME IInv, [Next]_vars PROVE IInv'
    OBVIOUS
  <1>1. CASE Next
    <2>1. PICK r \in Ranks : Step(r)
      BY <1>1 DEF Next
    <2>2. TypeInv /\ TypeInv'
      BY <2>1, TypeStep DEF IInv
    <2>3. ASSUME Uniform', N > 1 PROVE JobInv'
      <3>1. launch' = launch
        BY <2>1, <2>2, <2>3, Frame DEF OnlyOne
      <3>2. Uniform
        BY <2>3, <3>1 DEF Uniform, Serves
      <3> QED
        BY <2>1, <2>2, <2>3, <3>2, JobStep DEF IInv
    <2> QED
      BY <2>2, <2>3 DEF IInv
  <1>2. CASE UNCHANGED vars
    <2>1. TypeInv' <=> TypeInv
      BY <1>2 DEF vars, TypeInv, TypeOK, LinesInv
    <2>2. Uniform' <=> Uniform
      BY <1>2 DEF vars, Uniform, Serves
    <2>3. JobInv' <=> JobInv
      <3>1. \A r \in Ranks : /\ StreamInv(r)' <=> StreamInv(r)
                             /\ Front(r)' = Front(r) /\ Finished(r)' = Finished(r)
                             /\ Busy(r)' <=> Busy(r)
                             /\ Pending(r)' = Pending(r)
                             /\ Closed(r)' <=> Closed(r)
        BY <1>2 DEF vars, StreamInv, Front, Finished, Busy, Pending, Closed
      <3>2. \A cs : NobodyRan(cs)' <=> NobodyRan(cs)
        BY <1>2 DEF vars, NobodyRan, Ran
      <3>3. \A r \in Ranks : /\ ControlInv(r)' <=> ControlInv(r)
                             /\ CommandInv(r)' <=> CommandInv(r)
        BY <1>2, <3>1 DEF vars, ControlInv, CommandInv
      <3>4. \A r \in Ranks : /\ LawfulInv(r)' <=> LawfulInv(r)
                             /\ CoverInv(r)' <=> CoverInv(r)
        BY <1>2, <3>1, <3>2 DEF vars, LawfulInv, CoverInv, Due, NoSolve
      <3>5. \A r \in Ranks : SessionInv(r)' <=> SessionInv(r)
        BY <1>2, <3>1, <3>2 DEF vars, SessionInv, NoSolve
      <3>6. AgreeInv' <=> AgreeInv
        BY <1>2, <3>2 DEF vars, AgreeInv, Agree, Same, NoSolve
      <3>7. \A r \in Ranks : AnsweredInv(r)' <=> AnsweredInv(r)
        BY <1>2 DEF vars, AnsweredInv, Answered, Left, Idle
      <3>8. LiveInv' <=> LiveInv
        BY <3>3, <3>4, <3>5, <3>6, <3>7 DEF LiveInv, RankInv
      <3>9. (CollectivesMatch' <=> CollectivesMatch) /\ (LeaveTogether' <=> LeaveTogether)
        BY <1>2, <2>2, <3>2 DEF vars, CollectivesMatch, LeaveTogether, SameCollectives
      <3>10. SessionsAgree' <=> SessionsAgree
        BY <1>2, <2>2, <3>2 DEF vars, SessionsAgree
      <3> QED
        BY <1>2, <3>1, <3>8, <3>9, <3>10 DEF vars, JobInv, DeadInv
    <2> QED
      BY <2>1, <2>2, <2>3 DEF IInv
  <1> QED
    BY <1>1, <1>2

(* For every number of ranks and every set of launches, in every reachable *)
(* state the job is in order: each rank has taken a prefix of the stream,  *)
(* has entered the collectives of that prefix in its order, knows what x   *)
(* it holds, and has been let out of a collective only by its partners.    *)
THEOREM InvCorrect == Spec => []IInv
  BY InitOK, StepOK, PTL DEF Spec

LEMMA OneOrMore == N = 1 \/ N > 1
  OBVIOUS

LEMMA AloneIs == N = 1 => \A r \in Ranks : r = 0
  BY DEF Ranks

(* The ranks of a uniform job run the same command stream, whichever       *)
(* mixture of script, -e and broadcast lines it comes from: the commands   *)
(* one has taken are a prefix of those of the other or the reverse, even   *)
(* when they block later on collectives that do not match.                 *)
THEOREM StreamCorrect == Spec => []SameStream
  <1>1. IInv => SameStream
    <2> SUFFICES ASSUME IInv, Uniform, NEW r \in Ranks, NEW q \in Ranks,
                        NEW i \in 1 .. Len(ran[r]), i <= Len(ran[q])
                 PROVE  ran[r][i] = ran[q][i]
      BY DEF SameStream
    <2>1. CASE N > 1
      <3>1. StreamInv(r) /\ StreamInv(q) /\ i \in 1 .. Len(ran[q])
        BY <2>1, FrontIs DEF IInv, JobInv
      <3> QED
        BY <3>1 DEF StreamInv
    <2>2. CASE N = 1
      BY <2>2, AloneIs
    <2> QED
      BY <2>1, <2>2, OneOrMore
  <1> QED
    BY <1>1, InvCorrect, PTL

LEMMA InvGives == IInv => CollectivesMatch /\ SessionsAgree /\ LeaveTogether
  <1> SUFFICES ASSUME IInv PROVE CollectivesMatch /\ SessionsAgree /\ LeaveTogether
    OBVIOUS
  <1>1. CASE Uniform /\ N > 1
    <2>1. TypeInv /\ JobInv
      BY <1>1 DEF IInv
    <2>2. DeadInv
      BY <2>1, Gives DEF JobInv
    <2> QED
      BY <2>2 DEF DeadInv
  <1>2. CASE ~Uniform
    BY <1>2 DEF CollectivesMatch, SessionsAgree, LeaveTogether
  <1>3. CASE N = 1
    BY <1>3, AloneIs DEF CollectivesMatch, SameCollectives, SessionsAgree, LeaveTogether
  <1> QED
    BY <1>1, <1>2, <1>3, OneOrMore

(* In a uniform job the ranks can only part at a collective after a        *)
(* dist_solve: without one the k-th collective, of whatever kernels, lines *)
(* and barriers, is the same on every rank that has come to it.            *)
THEOREM CollectivesCorrect == Spec => []CollectivesMatch
  BY InvCorrect, InvGives, PTL

(* Ranks of a uniform job between two commands hold the same session when  *)
(* they have taken the same commands and none left its result on rank 0.   *)
THEOREM SessionsCorrect == Spec => []SessionsAgree
  BY InvCorrect, InvGives, PTL

(* A rank of a uniform job without a dist_solve finalizes MPI only when    *)
(* all ranks are through with their commands: nobody's mpi_barrier() is    *)
(* taken for its last barrier.                                             *)
THEOREM LeaveCorrect == Spec => []LeaveTogether
  BY InvCorrect, InvGives, PTL
=============================================================================
