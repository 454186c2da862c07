--------------------------- MODULE ReplGuiProofs -----------------------------
(* The window, the worker and the interpreter, for any command lines, script  *)
(* files, editor contents, session files and depth of sourcing: the type      *)
(* invariant, "one name, one value", the nesting of scripts, "one command     *)
(* under way", the panels, and loads that are all or nothing.                 *)
(*                                                                            *)
(* One inductive invariant, Inv, carries all of them. InterpInv speaks of the *)
(* interpreter alone and is kept by every Step whoever calls it; WindowInv and *)
(* BusyInv speak of the two event queues; PanelsCurrent needs BusyInv, because *)
(* a session only changes under a window that does not accept input.          *)
EXTENDS ReplGui, SequenceTheorems, FiniteSetTheorems, TLAPS

(* ---- the inductive invariant ------------------------------------------- *)
(* Every line that can reach execute().                                       *)
AllLines ==
  Lines \cup (UNION {Range(Scripts[path]) : path \in DOMAIN Scripts})
        \cup (UNION {Range(lines) : lines \in Editors})

IsFunction(f) == f = [x \in DOMAIN f |-> f[x]]

(* The shape of a session. The values of scalars are of any kind.             *)
Session(s) ==
  /\ s = [scalars |-> s.scalars, matrices |-> s.matrices, history |-> s.history,
          plot |-> s.plot]
  /\ IsFunction(s.scalars)
  /\ s.matrices \in [DOMAIN s.matrices -> Nat]
  /\ s.history \in Seq(AllLines)
  /\ s.plot \in Nat

OneValue(s) == DOMAIN s.scalars \cap DOMAIN s.matrices = {}

Events == {[event |-> "cancel"]} \cup {[event |-> "evaluate", line |-> l] : l \in AllLines}

SessionInv == Session(state) /\ OneValue(state) /\ draws \in Nat

(* A file that was written completely holds what was saved in it, and what    *)
(* was saved had one value to a name, so that parsing drops nothing of it.    *)
FilesInv ==
  /\ files = [p \in SaveFiles |-> files[p]]
  /\ saved = [p \in SaveFiles |-> saved[p]]
  /\ \A p \in SaveFiles :
       /\ Session(files[p].data)
       /\ files[p].whole => files[p].data = saved[p] /\ OneValue(saved[p])

Frames == [path : DOMAIN Scripts, line : Nat \ {0}]

(* An open script has a next line, or has just run its last.                  *)
StackInv ==
  /\ stack \in Seq(Frames)
  /\ \A i \in DOMAIN stack : stack[i].line <= Len(Scripts[stack[i].path]) + 1
  /\ ScriptsNest

(* Between opening a file and writing it, the line under way is that save.    *)
CallInv ==
  /\ call \in AllLines \cup {NoLine}
  /\ phase \in {"idle", "dispatch", "script", "writing", "return"}
  /\ result \in {"ok", "error"}
  /\ phase = "script" => stack # <<>>
  /\ phase = "dispatch" => call \in AllLines
  /\ phase = "writing" =>
       IF stack = <<>> THEN call.op = "save"
       ELSE /\ Last(stack).line <= Len(Scripts[Last(stack).path])
            /\ NextLine.op = "save"

InterpInv == SessionInv /\ FilesInv /\ StackInv /\ CallInv

Posted == {i \in DOMAIN inbox : inbox[i].event = "evaluate"}

Answers == {"ok", "error", "cancelled"}

QueuesInv ==
  inbox \in Seq(Events) /\ outbox \in Seq(Answers) /\ queue \in Seq(AllLines)

FlagsInv ==
  cancel \in BOOLEAN /\ busy \in BOOLEAN /\ stop \in BOOLEAN /\ stopped \in BOOLEAN

WindowInv == QueuesInv /\ FlagsInv /\ actions \in 0..MaxActions

(* The one command is nowhere, posted, being evaluated, or answered.          *)
BusyInv ==
  \/ ~busy /\ Posted = {} /\ phase = "idle" /\ outbox = <<>>
  \/ busy /\ (\E i \in DOMAIN inbox : Posted = {i}) /\ phase = "idle" /\ outbox = <<>>
  \/ busy /\ Posted = {} /\ phase # "idle" /\ outbox = <<>>
  \/ busy /\ Posted = {} /\ phase = "idle" /\ Len(outbox) = 1

Inv == InterpInv /\ WindowInv /\ BusyInv /\ PanelsCurrent

-----------------------------------------------------------------------------
(* What the helpers of the interpreter keep.                                  *)
LEMMA KnownLines == \A line \in AllLines : CommandLine(line)
  BY LinesAssumption, EditorsAssumption DEF AllLines, LineList

LEMMA EmptyFunction == IsFunction(<<>>) /\ DOMAIN <<>> = {} /\ <<>> \in [{} -> Nat]
  BY DEF IsFunction

LEMMA EmptySession == Session(EmptyState) /\ OneValue(EmptyState)
  BY EmptyFunction DEF EmptyState, Session, OneValue

(* Storing a scalar under a name, or a matrix, keeps the kinds apart.         *)
LEMMA ScalarStored ==
  ASSUME NEW f, NEW m, m \in [DOMAIN m -> Nat], DOMAIN f \cap DOMAIN m = {},
         NEW n, NEW v
  PROVE  /\ IsFunction(With(f, n, v))
         /\ Without(m, n) \in [DOMAIN Without(m, n) -> Nat]
         /\ DOMAIN With(f, n, v) \cap DOMAIN Without(m, n) = {}
  <1>1. DOMAIN With(f, n, v) = DOMAIN f \cup {n} /\ IsFunction(With(f, n, v))
    BY DEF With, IsFunction
  <1>2. DOMAIN Without(m, n) = DOMAIN m \ {n}
    BY DEF Without, Restrict
  <1>3. Without(m, n) \in [DOMAIN Without(m, n) -> Nat]
    BY <1>2 DEF Without, Restrict
  <1> QED
    BY <1>1, <1>2, <1>3

LEMMA MatrixStored ==
  ASSUME NEW f, NEW m, m \in [DOMAIN m -> Nat], DOMAIN f \cap DOMAIN m = {},
         NEW n, NEW v \in Nat
  PROVE  /\ IsFunction(Without(f, n))
         /\ With(m, n, v) \in [DOMAIN With(m, n, v) -> Nat]
         /\ DOMAIN Without(f, n) \cap DOMAIN With(m, n, v) = {}
  <1>1. DOMAIN With(m, n, v) = DOMAIN m \cup {n}
    BY DEF With
  <1>2. DOMAIN Without(f, n) = DOMAIN f \ {n} /\ IsFunction(Without(f, n))
    BY DEF Without, Restrict, IsFunction
  <1>3. With(m, n, v) \in [DOMAIN With(m, n, v) -> Nat]
    BY <1>1 DEF With
  <1> QED
    BY <1>1, <1>2, <1>3

LEMMA Entered ==
  ASSUME NEW s, Session(s), NEW line \in AllLines
  PROVE  LET t == [s EXCEPT !.history = Append(@, line)] IN
         /\ Session(t)
         /\ t.scalars = s.scalars /\ t.matrices = s.matrices
  BY AppendProperties, SMTT(30) DEF Session

LEMMA KindsStored ==
  ASSUME NEW s, Session(s), NEW f, IsFunction(f), NEW g, g \in [DOMAIN g -> Nat],
         DOMAIN f \cap DOMAIN g = {}
  PROVE  LET t == [s EXCEPT !.scalars = f, !.matrices = g] IN
         Session(t) /\ OneValue(t)
  <1>1. [s EXCEPT !.scalars = f, !.matrices = g] =
          [scalars |-> f, matrices |-> g, history |-> s.history, plot |-> s.plot]
    <2>1. PICK a, b, c, d : s = [scalars |-> a, matrices |-> b, history |-> c, plot |-> d]
      BY DEF Session
    <2> DEFINE u == [s EXCEPT !.scalars = f]
    <2>2. u = [scalars |-> f, matrices |-> b, history |-> c, plot |-> d]
      BY <2>1
    <2> HIDE DEF u
    <2>3. [u EXCEPT !.matrices = g] =
            [scalars |-> f, matrices |-> g, history |-> c, plot |-> d]
      BY <2>2
    <2> QED
      BY <2>1, <2>3 DEF u
  <1> QED
    BY <1>1 DEF Session, OneValue

LEMMA PrefixIs ==
  ASSUME NEW s, Session(s), NEW k \in 0..3
  PROVE  Session(Prefix(s, k))
  BY EmptyFunction DEF Session, Prefix

LEMMA TornIs ==
  ASSUME NEW s, Session(s), NEW torn \in TornFiles(s)
  PROVE  Session(torn.data) /\ ~torn.whole
  BY PrefixIs DEF TornFiles

LEMMA ParsedIs ==
  ASSUME NEW d, Session(d)
  PROVE  /\ Session(Parsed(d)) /\ OneValue(Parsed(d))
         /\ OneValue(d) => Parsed(d) = d
  <1> DEFINE f == Restrict(d.scalars, DOMAIN d.scalars \ DOMAIN d.matrices)
  <1>1. /\ DOMAIN f = DOMAIN d.scalars \ DOMAIN d.matrices
        /\ IsFunction(f)
    BY DEF Restrict, IsFunction
  <1>2. OneValue(d) => f = d.scalars
    BY DEF Session, OneValue, Restrict, IsFunction
  <1>3. Parsed(d) = [d EXCEPT !.scalars = f]
    BY DEF Parsed
  <1> HIDE DEF f
  <1> QED
    BY <1>1, <1>2, <1>3 DEF Session, OneValue

(* The line under way is one of the lines there are.                          *)
LEMMA Offered ==
  ASSUME InterpInv, NEW op, Offers(op)
  PROVE  /\ NextLine \in AllLines /\ NextLine.op = op /\ CommandLine(NextLine)
         /\ phase \in {"dispatch", "script"}
         /\ phase = "script" => stack # <<>>
  <1>1. CASE phase = "dispatch"
    BY <1>1, KnownLines DEF InterpInv, CallInv, Offers, NextLine
  <1>2. CASE phase = "script"
    <2>1. Len(stack) \in DOMAIN stack /\ Last(stack) = stack[Len(stack)]
      BY <1>2, EmptySeq, LenProperties DEF InterpInv, CallInv, StackInv, Last
    <2> DEFINE top == stack[Len(stack)]
    <2>2. top \in Frames
      BY <2>1, ElementOfSeq, LenProperties DEF InterpInv, StackInv
    <2>3. top.path \in DOMAIN Scripts /\ top.line \in 1..Len(Scripts[top.path])
      BY <1>2, <2>1, <2>2, LenProperties, LinesAssumption DEF Offers, LineList, Frames
    <2>4. Scripts[top.path][top.line] \in Range(Scripts[top.path])
      BY <2>3, LenProperties, LinesAssumption DEF LineList, Range
    <2>5. NextLine = Scripts[top.path][top.line]
      BY <1>2, <2>1 DEF NextLine
    <2> QED
      BY <1>2, <2>3, <2>4, <2>5, KnownLines DEF AllLines, Offers, InterpInv, CallInv
  <1> QED
    BY <1>1, <1>2 DEF Offers

(* The innermost script has a line left.                                      *)
Within == stack # <<>> => Last(stack).line <= Len(Scripts[Last(stack).path])

LEMMA TopFrame ==
  ASSUME StackInv, stack # <<>>
  PROVE  /\ Len(stack) \in DOMAIN stack /\ Last(stack) = stack[Len(stack)]
         /\ Last(stack) \in Frames
         /\ Len(Scripts[Last(stack).path]) \in Nat
  <1>1. Len(stack) \in DOMAIN stack /\ Last(stack) = stack[Len(stack)]
    BY EmptySeq, LenProperties DEF StackInv, Last
  <1>2. stack[Len(stack)] \in Frames
    BY <1>1, ElementOfSeq, LenProperties DEF StackInv
  <1> QED
    BY <1>1, <1>2, LenProperties, LinesAssumption DEF LineList, Frames

LEMMA WithinOffered ==
  ASSUME InterpInv, NEW op, Offers(op)
  PROVE  Within
  BY TopFrame DEF InterpInv, StackInv, ScriptsNest, CallInv, Offers, Within, Frames

(* Going on to the next line of the innermost script.                         *)
LEMMA LineDone ==
  ASSUME StackInv, Within, stack # <<>>
  PROVE  LET up == [stack EXCEPT ![Len(stack)].line = @ + 1] IN
         /\ up \in Seq(Frames) /\ Len(up) = Len(stack) /\ up # <<>>
         /\ DOMAIN up = DOMAIN stack
         /\ \A i \in DOMAIN stack :
              /\ up[i].path = stack[i].path
              /\ up[i].line <= Len(Scripts[up[i].path]) + 1
  <1> DEFINE n == Len(stack)
             top == stack[n]
             new == [top EXCEPT !.line = @ + 1]
             up == [stack EXCEPT ![n] = new]
  <1>1. n \in 1..Len(stack) /\ top \in Frames /\ Len(Scripts[top.path]) \in Nat
    BY TopFrame, LenProperties DEF StackInv
  <1>2. new = [path |-> top.path, line |-> top.line + 1] /\ new \in Frames
    BY <1>1 DEF Frames
  <1>3. new.line <= Len(Scripts[new.path]) + 1 /\ new.path = top.path
    BY <1>1, <1>2, TopFrame DEF Within, Frames
  <1> HIDE DEF new
  <1>4. up \in Seq(Frames) /\ Len(up) = Len(stack)
        /\ \A i \in 1..Len(stack) : up[i] = IF i = n THEN new ELSE stack[i]
    BY <1>1, <1>2, ExceptSeq DEF StackInv
  <1>5. up = [stack EXCEPT ![Len(stack)].line = @ + 1]
    BY DEF new
  <1>6. DOMAIN up = DOMAIN stack /\ DOMAIN stack = 1..Len(stack) /\ Len(stack) # 0
    BY <1>1, <1>4, LenProperties DEF StackInv
  <1> HIDE DEF up
  <1> QED
    BY <1>1, <1>3, <1>4, <1>5, <1>6, EmptySeq DEF StackInv

LEMMA SucceedsKeeps ==
  ASSUME InterpInv, Within, phase # "idle", phase # "return", Succeeds
  PROVE  StackInv' /\ CallInv'
  <1>1. CASE stack = <<>>
    BY <1>1 DEF InterpInv, StackInv, CallInv, Succeeds, ScriptsNest
  <1>2. CASE stack # <<>>
    BY <1>2, LineDone DEF InterpInv, StackInv, CallInv, Succeeds, ScriptsNest
  <1> QED
    BY <1>1, <1>2

LEMMA FailsKeeps ==
  ASSUME InterpInv, Fails
  PROVE  StackInv' /\ CallInv'
  <1>1. <<>> \in Seq(Frames) /\ DOMAIN <<>> = {} /\ Len(<<>>) = 0 /\ MaxDepth \in Nat
    BY LinesAssumption, EmptySeq
  <1> QED
    BY <1>1 DEF InterpInv, StackInv, CallInv, Fails, ScriptsNest

-----------------------------------------------------------------------------
(* Commands: one lemma per action.                                            *)
LEMMA RecordedIs ==
  ASSUME InterpInv, NEW op, Offers(op)
  PROVE  /\ Session(Recorded) /\ OneValue(Recorded)
         /\ Recorded.scalars = state.scalars /\ Recorded.matrices = state.matrices
         /\ IsFunction(state.scalars) /\ state.matrices \in [DOMAIN state.matrices -> Nat]
         /\ DOMAIN state.scalars \cap DOMAIN state.matrices = {}
  BY Offered, Entered DEF InterpInv, SessionInv, OneValue, Recorded, Session

(* A command that stores variables; any command that ends a line.             *)
LEMMA Stored ==
  ASSUME InterpInv, NEW op, Offers(op),
         NEW f, IsFunction(f), NEW g, g \in [DOMAIN g -> Nat],
         DOMAIN f \cap DOMAIN g = {},
         state' = [Recorded EXCEPT !.scalars = f, !.matrices = g]
  PROVE  Session(state') /\ OneValue(state')
  BY RecordedIs, KindsStored

LEMMA Interpreted ==
  ASSUME InterpInv, NEW op, Offers(op), UNCHANGED disk, Succeeds \/ Fails,
         Session(state'), OneValue(state'), draws' \in Nat
  PROVE  InterpInv'
  <1>1. StackInv' /\ CallInv'
    BY Offered, WithinOffered, SucceedsKeeps, FailsKeeps
  <1> QED
    BY <1>1 DEF InterpInv, SessionInv, FilesInv, disk, Session, OneValue

LEMMA AssignScalarKeeps == InterpInv /\ AssignScalar => InterpInv'
  <1> SUFFICES ASSUME InterpInv, AssignScalar PROVE InterpInv'
    OBVIOUS
  <1> DEFINE f == With(Recorded.scalars, NextLine.name, NextLine.value)
             g == Without(Recorded.matrices, NextLine.name)
  <1>1. Offers("scalar") /\ Succeeds /\ UNCHANGED disk /\ draws' \in Nat
    BY DEF AssignScalar, InterpInv, SessionInv
  <1>2. state' = [Recorded EXCEPT !.scalars = f, !.matrices = g]
    BY DEF AssignScalar
  <1>3. f = With(state.scalars, NextLine.name, NextLine.value)
        /\ g = Without(state.matrices, NextLine.name)
    BY <1>1, RecordedIs
  <1> HIDE DEF f, g
  <1>4. IsFunction(f) /\ g \in [DOMAIN g -> Nat] /\ DOMAIN f \cap DOMAIN g = {}
    BY <1>1, <1>3, RecordedIs, ScalarStored
  <1>5. Session(state') /\ OneValue(state')
    BY <1>1, <1>2, <1>4, Stored
  <1> QED
    BY <1>1, <1>5, Interpreted

LEMMA AssignMatrixKeeps == InterpInv /\ AssignMatrix => InterpInv'
  <1> SUFFICES ASSUME InterpInv, AssignMatrix PROVE InterpInv'
    OBVIOUS
  <1> DEFINE f == Without(Recorded.scalars, NextLine.name)
             g == With(Recorded.matrices, NextLine.name, draws')
  <1>1. Offers("rand") /\ Succeeds /\ UNCHANGED disk /\ draws' \in Nat
    BY DEF AssignMatrix, InterpInv, SessionInv
  <1>2. state' = [Recorded EXCEPT !.scalars = f, !.matrices = g]
    BY DEF AssignMatrix
  <1>3. f = Without(state.scalars, NextLine.name)
        /\ g = With(state.matrices, NextLine.name, draws')
    BY <1>1, RecordedIs
  <1> HIDE DEF f, g
  <1>4. IsFunction(f) /\ g \in [DOMAIN g -> Nat] /\ DOMAIN f \cap DOMAIN g = {}
    BY <1>1, <1>3, RecordedIs, MatrixStored
  <1>5. Session(state') /\ OneValue(state')
    BY <1>1, <1>2, <1>4, Stored
  <1> QED
    BY <1>1, <1>5, Interpreted

(* A command that leaves nothing but its line in the history.                 *)
LEMMA RefusedKeeps ==
  ASSUME InterpInv, NEW op, Offers(op), UNCHANGED disk, Succeeds \/ Fails,
         state' = Recorded, draws' \in Nat
  PROVE  InterpInv'
  BY RecordedIs, Interpreted

LEMMA AssignPairKeeps == InterpInv /\ AssignPair => InterpInv'
  <1> SUFFICES ASSUME InterpInv, AssignPair PROVE InterpInv'
    OBVIOUS
  <1> DEFINE from == NextLine.from
             f == Without(Without(Recorded.scalars, NextLine.name), NextLine.second)
             g == With(With(Recorded.matrices, NextLine.name, Recorded.matrices[from]),
                       NextLine.second, Recorded.matrices[from])
  <1>1. Offers("pair") /\ UNCHANGED disk /\ draws' \in Nat
    BY DEF AssignPair, InterpInv, SessionInv
  <1>2. CASE from \in DOMAIN state.matrices
    <2>1. state' = [Recorded EXCEPT !.scalars = f, !.matrices = g] /\ Succeeds
      BY <1>2 DEF AssignPair
    <2> DEFINE m == state.matrices
               v == m[from]
               f1 == Without(state.scalars, NextLine.name)
               g1 == With(m, NextLine.name, v)
    <2>2. f = Without(f1, NextLine.second) /\ g = With(g1, NextLine.second, v)
      BY <1>1, RecordedIs
    <2>3. v \in Nat /\ m \in [DOMAIN m -> Nat] /\ DOMAIN state.scalars \cap DOMAIN m = {}
      BY <1>1, <1>2, RecordedIs
    <2> HIDE DEF f, g, m, v
    <2>4. IsFunction(f1) /\ g1 \in [DOMAIN g1 -> Nat] /\ DOMAIN f1 \cap DOMAIN g1 = {}
      BY <2>3, MatrixStored
    <2> HIDE DEF f1, g1
    <2>5. IsFunction(f) /\ g \in [DOMAIN g -> Nat] /\ DOMAIN f \cap DOMAIN g = {}
      BY <2>2, <2>3, <2>4, MatrixStored
    <2>6. Session(state') /\ OneValue(state')
      BY <1>1, <2>1, <2>5, Stored
    <2> QED
      BY <1>1, <2>1, <2>6, Interpreted
  <1>3. CASE from \notin DOMAIN state.matrices
    BY <1>1, <1>3, RefusedKeeps DEF AssignPair
  <1> QED
    BY <1>2, <1>3

LEMMA BareCallKeeps == InterpInv /\ BareCall => InterpInv'
  <1> SUFFICES ASSUME InterpInv, BareCall PROVE InterpInv'
    OBVIOUS
  <1> DEFINE f == Without(Recorded.scalars, "_")
             g == With(Recorded.matrices, "_", draws')
  <1>1. Offers("bare") /\ UNCHANGED disk /\ draws' \in Nat
    BY DEF BareCall, InterpInv, SessionInv
  <1>2. CASE state' = Recorded /\ Fails
    BY <1>1, <1>2, RefusedKeeps
  <1>3. CASE state' = [Recorded EXCEPT !.scalars = f, !.matrices = g] /\ Succeeds
    <2>1. f = Without(state.scalars, "_") /\ g = With(state.matrices, "_", draws')
      BY <1>1, RecordedIs
    <2> HIDE DEF f, g
    <2>2. IsFunction(f) /\ g \in [DOMAIN g -> Nat] /\ DOMAIN f \cap DOMAIN g = {}
      BY <1>1, <2>1, RecordedIs, MatrixStored
    <2>3. Session(state') /\ OneValue(state')
      BY <1>1, <1>3, <2>2, Stored
    <2> QED
      BY <1>1, <1>3, <2>3, Interpreted
  <1> QED
    BY <1>2, <1>3 DEF BareCall

LEMMA SetPlotKeeps == InterpInv /\ SetPlot => InterpInv'
  <1> SUFFICES ASSUME InterpInv, SetPlot PROVE InterpInv'
    OBVIOUS
  <1> DEFINE r == Recorded
             v == state.matrices[NextLine.name]
  <1>1. Offers("plot") /\ UNCHANGED disk /\ draws' \in Nat
    BY DEF SetPlot, InterpInv, SessionInv
  <1>2. CASE NextLine.name \in DOMAIN state.matrices
    <2>1. state' = [r EXCEPT !.plot = v] /\ Succeeds /\ v \in Nat
      BY <1>1, <1>2, RecordedIs DEF SetPlot
    <2>2. Session(r) /\ OneValue(r)
      BY <1>1, RecordedIs
    <2> HIDE DEF r, v
    <2>3. Session([r EXCEPT !.plot = v]) /\ OneValue([r EXCEPT !.plot = v])
      BY <2>1, <2>2 DEF Session, OneValue
    <2> QED
      BY <1>1, <2>1, <2>3, Interpreted
  <1>3. CASE NextLine.name \notin DOMAIN state.matrices
    BY <1>1, <1>3, RefusedKeeps DEF SetPlot
  <1> QED
    BY <1>2, <1>3

LEMMA ObjectsKeep == InterpInv /\ (CreateObject \/ ClearObject) => InterpInv'
  <1>1. InterpInv /\ CreateObject => InterpInv'
    BY RefusedKeeps DEF CreateObject, InterpInv, SessionInv
  <1>2. InterpInv /\ ClearObject => InterpInv'
    BY RefusedKeeps DEF ClearObject, InterpInv, SessionInv
  <1> QED
    BY <1>1, <1>2

LEMMA ClearKeeps == InterpInv /\ Clear => InterpInv'
  BY EmptySession, Interpreted DEF Clear

-----------------------------------------------------------------------------
(* Scripts and session files.                                                 *)
LEMMA RunFileKeeps == InterpInv /\ RunFile => InterpInv'
  <1> SUFFICES ASSUME InterpInv, RunFile PROVE InterpInv'
    OBVIOUS
  <1> DEFINE path == NextLine.path
             caller == IF stack = <<>> THEN stack
                       ELSE [stack EXCEPT ![Len(stack)].line = @ + 1]
  <1>1. Offers("run") /\ UNCHANGED disk /\ draws' \in Nat
    BY DEF RunFile, InterpInv, SessionInv
  <1>2. SessionInv' /\ FilesInv'
    BY <1>1, RecordedIs DEF RunFile, InterpInv, SessionInv, FilesInv, disk, Session, OneValue
  <1>3. CASE MayOpen(path)
    <2>1. /\ caller \in Seq(Frames) /\ Len(caller) = Len(stack) /\ DOMAIN caller = DOMAIN stack
          /\ \A i \in DOMAIN stack :
               /\ caller[i].path = stack[i].path
               /\ caller[i].line <= Len(Scripts[caller[i].path]) + 1
      BY <1>1, WithinOffered, LineDone DEF InterpInv, StackInv
    <2>2. stack' = Append(caller, Frame(path)) /\ phase' = "script"
          /\ UNCHANGED <<call, result>>
      BY <1>3 DEF RunFile
    <2>3. Frame(path) \in Frames /\ Frame(path).path = path /\ Frame(path).line = 1
          /\ Len(Scripts[path]) \in Nat
      BY <1>3, LinesAssumption, LenProperties DEF MayOpen, Frame, Frames, LineList
    <2> HIDE DEF caller
    <2>4. /\ stack' \in Seq(Frames) /\ Len(stack') = Len(stack) + 1
          /\ \A i \in 1..Len(stack) : stack'[i] = caller[i]
          /\ stack'[Len(stack) + 1] = Frame(path)
      BY <2>1, <2>2, <2>3, AppendProperties
    <2>5. DOMAIN stack = 1..Len(stack) /\ DOMAIN stack' = 1..Len(stack) + 1
          /\ Len(stack) \in Nat /\ stack' # <<>>
      BY <2>4, LenProperties, EmptySeq DEF InterpInv, StackInv
    <2>6. Len(stack) < MaxDepth /\ \A i \in DOMAIN stack : stack[i].path # path
      BY <1>3 DEF MayOpen, Open
    <2>7. StackInv'
      BY <2>1, <2>2, <2>3, <2>4, <2>5, <2>6, LinesAssumption, SMTT(40)
      DEF InterpInv, StackInv, ScriptsNest
    <2> QED
      BY <1>2, <2>2, <2>5, <2>7 DEF InterpInv, CallInv
  <1>4. CASE ~MayOpen(path)
    BY <1>2, <1>4, FailsKeeps DEF RunFile, InterpInv
  <1> QED
    BY <1>3, <1>4

LEMMA ScriptEndsKeeps == InterpInv /\ ScriptEnds => InterpInv'
  <1> SUFFICES ASSUME InterpInv, ScriptEnds PROVE InterpInv'
    OBVIOUS
  <1>1. stack \in Seq(Frames) /\ stack # <<>> /\ Len(stack) \in Nat \ {0}
        /\ DOMAIN stack = 1..Len(stack)
    BY LenProperties, EmptySeq DEF InterpInv, StackInv, CallInv, ScriptEnds
  <1>2. /\ stack' \in Seq(Frames) /\ Len(stack') = Len(stack) - 1
        /\ \A i \in 1..Len(stack) - 1 : stack'[i] = stack[i]
    BY <1>1, SubSeqProperties DEF ScriptEnds, Front
  <1>3. DOMAIN stack' = 1..Len(stack) - 1 /\ (stack' = <<>> <=> Len(stack) = 1)
    BY <1>1, <1>2, LenProperties, EmptySeq
  <1>4. \A i \in DOMAIN stack' : i \in DOMAIN stack /\ stack'[i] = stack[i]
    BY <1>1, <1>2, <1>3
  <1>5. Len(stack') <= MaxDepth
    BY <1>1, <1>2, LinesAssumption DEF InterpInv, StackInv, ScriptsNest
  <1>6. StackInv'
    BY <1>2, <1>3, <1>4, <1>5, SMTT(40) DEF InterpInv, StackInv, ScriptsNest, ScriptEnds
  <1> QED
    BY <1>1, <1>3, <1>6
    DEF InterpInv, SessionInv, FilesInv, CallInv, ScriptEnds, session, disk, Session, OneValue

LEMMA SaveOpensKeeps == InterpInv /\ SaveOpens => InterpInv'
  <1> SUFFICES ASSUME InterpInv, SaveOpens PROVE InterpInv'
    OBVIOUS
  <1>1. Offers("save") /\ NextLine.path \in SaveFiles /\ NextLine.op = "save"
    BY Offered DEF SaveOpens, CommandLine
  <1>2. SessionInv'
    BY <1>1, RecordedIs DEF SaveOpens, InterpInv, SessionInv, Session, OneValue
  <1>3. FilesInv'
    BY <1>1, EmptySession DEF SaveOpens, InterpInv, FilesInv, Session, OneValue
  <1>4. StackInv'
    BY DEF SaveOpens, InterpInv, StackInv, ScriptsNest
  <1>5. CallInv'
    BY <1>1, Offered, WithinOffered
    DEF SaveOpens, InterpInv, CallInv, StackInv, ScriptsNest, Offers, NextLine, Within
  <1> QED
    BY <1>2, <1>3, <1>4, <1>5 DEF InterpInv

LEMMA SaveCannotOpenKeeps == InterpInv /\ SaveCannotOpen => InterpInv'
  BY RefusedKeeps DEF SaveCannotOpen, InterpInv, SessionInv

LEMMA Writing ==
  ASSUME InterpInv, phase = "writing"
  PROVE  WritingPath \in SaveFiles /\ Within
  <1>1. CASE stack = <<>>
    BY <1>1, KnownLines DEF InterpInv, CallInv, WritingPath, Within, NoLine, CommandLine
  <1>2. CASE stack # <<>>
    <2> DEFINE top == Last(stack)
    <2>1. top \in Frames /\ top.line \in 1..Len(Scripts[top.path])
      BY <1>2, TopFrame DEF InterpInv, CallInv, Frames
    <2>2. Scripts[top.path][top.line] \in AllLines
      BY <2>1, LinesAssumption, LenProperties DEF Frames, LineList, Range, AllLines
    <2>3. NextLine = Scripts[top.path][top.line] /\ NextLine.op = "save"
      BY <1>2 DEF NextLine, InterpInv, CallInv
    <2> HIDE DEF top
    <2>4. NextLine.path \in SaveFiles
      BY <2>2, <2>3, KnownLines DEF CommandLine
    <2> QED
      BY <1>2, <2>4 DEF WritingPath, Within, InterpInv, CallInv
  <1> QED
    BY <1>1, <1>2

LEMMA WritesKeeps ==
  ASSUME SessionInv, FilesInv, NEW path \in SaveFiles,
         Writes(path) \/ (/\ \E torn \in TornFiles(state) : files' = [files EXCEPT ![path] = torn]
                          /\ UNCHANGED saved)
  PROVE  FilesInv'
  <1>1. CASE Writes(path)
    BY <1>1 DEF Writes, SessionInv, FilesInv, Session, OneValue
  <1>2. CASE /\ \E torn \in TornFiles(state) : files' = [files EXCEPT ![path] = torn]
             /\ UNCHANGED saved
    <2>1. PICK torn \in TornFiles(state) : files' = [files EXCEPT ![path] = torn]
      BY <1>2
    <2>2. Session(torn.data) /\ ~torn.whole
      BY TornIs DEF SessionInv
    <2> QED
      BY <1>2, <2>1, <2>2 DEF FilesInv, Session, OneValue
  <1> QED
    BY <1>1, <1>2

LEMMA SaveEndsKeeps == InterpInv /\ (SaveWrites \/ SaveTears) => InterpInv'
  <1> SUFFICES ASSUME InterpInv, SaveWrites \/ SaveTears PROVE InterpInv'
    OBVIOUS
  <1>1. phase = "writing" /\ (Succeeds \/ Fails) /\ UNCHANGED session
    BY DEF SaveWrites, SaveTears
  <1>2. FilesInv'
    BY <1>1, Writing, WritesKeeps DEF SaveWrites, SaveTears, InterpInv
  <1>3. StackInv' /\ CallInv'
    BY <1>1, Writing, SucceedsKeeps, FailsKeeps
  <1> QED
    BY <1>1, <1>2, <1>3 DEF InterpInv, SessionInv, session, Session, OneValue

(* Whoever loads, a complete file gives back what was saved.                  *)
LEMMA LoadsIs ==
  ASSUME FilesInv, NEW path \in SaveFiles, Loads(path)
  PROVE  /\ Session(state') /\ OneValue(state') /\ draws' \in Nat
         /\ files[path].whole => state' = saved[path]
  BY ParsedIs DEF FilesInv, Loads

LEMMA LoadSessionKeeps == InterpInv /\ LoadSession => InterpInv'
  <1> SUFFICES ASSUME InterpInv, LoadSession PROVE InterpInv'
    OBVIOUS
  <1>1. Offers("load") /\ NextLine.path \in SaveFiles /\ UNCHANGED disk
    BY Offered DEF LoadSession, CommandLine
  <1>2. CASE Readable(NextLine.path)
    BY <1>1, <1>2, LoadsIs, Interpreted DEF LoadSession, InterpInv
  <1>3. CASE ~Readable(NextLine.path)
    BY <1>1, <1>3, RefusedKeeps DEF LoadSession, InterpInv, SessionInv
  <1> QED
    BY <1>2, <1>3

LEMMA StepKeeps == InterpInv /\ Step => InterpInv'
  BY AssignScalarKeeps, AssignMatrixKeeps, AssignPairKeeps, BareCallKeeps, SetPlotKeeps,
     ObjectsKeep, ClearKeeps, RunFileKeeps, ScriptEndsKeeps, SaveOpensKeeps,
     SaveCannotOpenKeeps, SaveEndsKeeps, LoadSessionKeeps DEF Step

LEMMA DiesKeeps == InterpInv /\ Dies => InterpInv'
  <1> SUFFICES ASSUME InterpInv, Dies PROVE InterpInv'
    OBVIOUS
  <1>1. SessionInv'
    BY EmptySession DEF Dies, SessionInv, Session, OneValue
  <1>2. FilesInv'
    <2>1. CASE phase = "writing"
      BY <2>1, Writing, WritesKeeps DEF Dies, InterpInv
    <2>2. CASE phase # "writing"
      BY <2>2 DEF Dies, InterpInv, FilesInv, Session, OneValue
    <2> QED
      BY <2>1, <2>2
  <1>3. StackInv' /\ CallInv'
    BY EmptySeq, LinesAssumption DEF Dies, StackInv, CallInv, ScriptsNest
  <1> QED
    BY <1>1, <1>2, <1>3 DEF InterpInv

-----------------------------------------------------------------------------
(* The window and the worker.                                                 *)
LEMMA GuiInitInv == GuiInit => Inv
  <1> SUFFICES ASSUME GuiInit PROVE Inv
    OBVIOUS
  <1>1. SessionInv /\ FilesInv
    BY EmptySession DEF GuiInit, Init, SessionInv, FilesInv, NoFile
  <1>2. StackInv /\ CallInv
    BY EmptySeq, LinesAssumption DEF GuiInit, Init, StackInv, CallInv, ScriptsNest
  <1>3. FlagsInv
    BY Zenon DEF GuiInit, FlagsInv
  <1>4. QueuesInv
    BY EmptySeq DEF GuiInit, QueuesInv
  <1>5. actions \in 0..MaxActions
    BY EditorsAssumption DEF GuiInit
  <1>6. inbox = <<>> /\ ~busy /\ phase = "idle" /\ outbox = <<>> /\ shown = View
    BY DEF GuiInit, Init
  <1>7. BusyInv
    BY <1>6, EmptySeq DEF BusyInv, Posted
  <1> QED
    BY <1>1, <1>2, <1>3, <1>4, <1>5, <1>6, <1>7 DEF Inv, InterpInv, WindowInv, PanelsCurrent

LEMMA Unmoved == InterpInv /\ UNCHANGED interp => InterpInv'
  BY DEF InterpInv, SessionInv, FilesInv, StackInv, CallInv, ScriptsNest, NextLine, Session, OneValue,
         interp, session, control, disk

(* What is posted behind, and what is taken from the front of, the inbox.     *)
LEMMA PostedBehind ==
  ASSUME inbox \in Seq(Events), NEW e \in Events, inbox' = Append(inbox, e)
  PROVE  /\ inbox' \in Seq(Events)
         /\ Posted' = Posted \cup (IF e.event = "evaluate" THEN {Len(inbox) + 1} ELSE {})
         /\ DOMAIN inbox \subseteq DOMAIN inbox' /\ Len(inbox) + 1 \in DOMAIN inbox'
  BY AppendProperties, LenProperties DEF Posted

LEMMA TakenFromFront ==
  ASSUME inbox \in Seq(Events), inbox # <<>>, inbox' = Tail(inbox)
  PROVE  /\ inbox' \in Seq(Events)
         /\ Head(inbox) \in Events
         /\ Head(inbox).event = "evaluate" => 1 \in Posted
         /\ Head(inbox).event # "evaluate" => 1 \notin Posted
         /\ Posted' = {i - 1 : i \in Posted \ {1}}
         /\ \A i \in Posted \ {1} : i - 1 \in DOMAIN inbox'
  BY HeadTailProperties, LenProperties, EmptySeq, SMTT(30) DEF Posted

LEMMA EvaluateEvent ==
  /\ \A line \in AllLines :
       /\ [event |-> "evaluate", line |-> line] \in Events
       /\ [event |-> "evaluate", line |-> line].event = "evaluate"
  /\ [event |-> "cancel"] \in Events /\ [event |-> "cancel"].event # "evaluate"
  /\ \A e \in Events :
       /\ e.event \in {"evaluate", "cancel"}
       /\ e.event = "evaluate" => e.line \in AllLines
  <1>1. \A line \in AllLines : [event |-> "evaluate", line |-> line].event = "evaluate"
    OBVIOUS
  <1>2. \A line \in AllLines : [event |-> "evaluate", line |-> line] \in Events
    BY DEF Events
  <1>3. [event |-> "cancel"] \in Events /\ [event |-> "cancel"].event = "cancel"
    BY DEF Events
  <1>4. ASSUME NEW e \in Events
        PROVE  e.event \in {"evaluate", "cancel"} /\ (e.event = "evaluate" => e.line \in AllLines)
    <2>1. CASE e = [event |-> "cancel"]
      BY <2>1, <1>3
    <2>2. CASE e \in {[event |-> "evaluate", line |-> l] : l \in AllLines}
      <3>1. PICK l \in AllLines : e = [event |-> "evaluate", line |-> l]
        BY <2>2
      <3> QED
        BY <3>1
    <2> QED
      BY <2>1, <2>2 DEF Events
  <1> QED
    BY <1>1, <1>2, <1>3, <1>4

LEMMA ListIs ==
  ASSUME NEW list \in Seq(AllLines), list # <<>>
  PROVE  Head(list) \in AllLines /\ Tail(list) \in Seq(AllLines)
  BY HeadTailProperties, EmptySeq

LEMMA Unseen == UNCHANGED interp => View' = View
  BY DEF View, interp, session

LEMMA ActsIs == WindowInv /\ Acts => actions' \in 0..MaxActions
  BY EditorsAssumption DEF WindowInv, Acts

(* start_eval() in a window that waits for nothing.                           *)
LEMMA StartsOne ==
  ASSUME Inv, NEW line \in AllLines, StartEval(line), Posted = {}, phase = "idle",
         UNCHANGED interp, outbox' = <<>>
  PROVE  inbox' \in Seq(Events) /\ BusyInv' /\ busy'
  <1> DEFINE e == [event |-> "evaluate", line |-> line]
  <1>1. inbox \in Seq(Events) /\ inbox' = Append(inbox, e)
    BY DEF StartEval, Inv, WindowInv, QueuesInv
  <1>2. e \in Events /\ e.event = "evaluate"
    BY EvaluateEvent
  <1> HIDE DEF e
  <1>3. /\ inbox' \in Seq(Events) /\ Len(inbox) + 1 \in DOMAIN inbox'
        /\ Posted' = {Len(inbox) + 1}
    BY <1>1, <1>2, PostedBehind
  <1> QED
    BY <1>3 DEF StartEval, BusyInv, interp, control

LEMMA OnSubmitKeeps == ASSUME NEW line \in Lines PROVE Inv /\ OnSubmit(line) => Inv'
  <1> SUFFICES ASSUME Inv, OnSubmit(line) PROVE Inv'
    OBVIOUS
  <1>1. InterpInv' /\ line \in AllLines
    BY Unmoved DEF OnSubmit, Inv, AllLines
  <1>2. inbox' \in Seq(Events) /\ BusyInv' /\ busy'
    BY <1>1, StartsOne DEF OnSubmit, Inv, BusyInv
  <1>3. QueuesInv' /\ actions' \in 0..MaxActions
    BY <1>2, ActsIs, EmptySeq DEF OnSubmit, Inv, WindowInv, QueuesInv
  <1>4. FlagsInv'
    BY Zenon DEF OnSubmit, StartEval, Inv, WindowInv, FlagsInv
  <1> QED
    BY <1>1, <1>2, <1>3, <1>4 DEF Inv, WindowInv, PanelsCurrent

LEMMA OnRunScriptKeeps ==
  ASSUME NEW lines \in Editors PROVE Inv /\ OnRunScript(lines) => Inv'
  <1> SUFFICES ASSUME Inv, OnRunScript(lines) PROVE Inv'
    OBVIOUS
  <1>1. InterpInv'
    BY Unmoved DEF OnRunScript, Inv
  <1>2. lines \in Seq(AllLines) /\ lines # <<>>
    <2>1. Range(lines) \subseteq AllLines /\ lines \in Seq(Range(lines))
      BY EditorsAssumption DEF AllLines, LineList
    <2> QED
      BY <2>1 DEF OnRunScript
  <1>3. Head(lines) \in AllLines /\ Tail(lines) \in Seq(AllLines)
    BY <1>2, ListIs
  <1>4. inbox' \in Seq(Events) /\ BusyInv' /\ busy'
    BY <1>3, StartsOne DEF OnRunScript, Inv, BusyInv
  <1>5. QueuesInv' /\ actions' \in 0..MaxActions
    BY <1>3, <1>4, ActsIs DEF OnRunScript, Inv, WindowInv, QueuesInv
  <1>6. FlagsInv'
    BY Zenon DEF OnRunScript, StartEval, Inv, WindowInv, FlagsInv
  <1> QED
    BY <1>1, <1>4, <1>5, <1>6 DEF Inv, WindowInv, PanelsCurrent

LEMMA OnStopKeeps == Inv /\ OnStop => Inv'
  <1> SUFFICES ASSUME Inv, OnStop PROVE Inv'
    OBVIOUS
  <1>1. InterpInv' /\ View' = View
    BY Unmoved, Unseen DEF OnStop, Inv
  <1>2. inbox' \in Seq(Events) /\ Posted' = Posted /\ DOMAIN inbox \subseteq DOMAIN inbox'
    BY PostedBehind, EvaluateEvent DEF OnStop, Inv, WindowInv, QueuesInv
  <1>3. BusyInv'
    BY <1>2 DEF OnStop, Inv, BusyInv, interp, control
  <1>4. QueuesInv' /\ actions' \in 0..MaxActions
    BY <1>2, ActsIs DEF OnStop, Inv, WindowInv, QueuesInv
  <1>5. FlagsInv'
    BY Zenon DEF OnStop, Inv, WindowInv, FlagsInv
  <1> QED
    BY <1>1, <1>3, <1>4, <1>5 DEF Inv, WindowInv, PanelsCurrent, OnStop

LEMMA OnReplyKeeps == Inv /\ OnReply => Inv'
  <1> SUFFICES ASSUME Inv, OnReply PROVE Inv'
    OBVIOUS
  <1> DEFINE rest == IF Head(outbox) = "cancelled" THEN <<>> ELSE queue
  <1>1. InterpInv' /\ View' = View /\ shown' = View
    BY Unmoved, Unseen DEF OnReply, Inv
  <1>2. /\ Posted = {} /\ phase = "idle" /\ phase' = "idle"
        /\ outbox' = <<>> /\ outbox' \in Seq(Answers)
    <2>1. Len(outbox) = 1
      BY EmptySeq DEF Inv, BusyInv, OnReply
    <2>2. outbox' \in Seq(Answers) /\ Len(outbox') = 0
      BY <2>1, HeadTailProperties DEF Inv, WindowInv, QueuesInv, OnReply
    <2> QED
      BY <2>1, <2>2, EmptySeq DEF Inv, BusyInv, OnReply, interp, control
  <1>3. rest \in Seq(AllLines)
    BY EmptySeq DEF Inv, WindowInv, QueuesInv
  <1>4. actions' \in 0..MaxActions
    BY DEF Inv, WindowInv, OnReply
  <1>5. FlagsInv'
    BY Zenon DEF OnReply, StartEval, Inv, WindowInv, FlagsInv
  <1>6. CASE rest = <<>>
    <2>1. ~busy' /\ queue' = <<>> /\ UNCHANGED inbox
      BY <1>6 DEF OnReply
    <2>2. BusyInv'
      BY <1>2, <2>1 DEF BusyInv, Posted
    <2>3. QueuesInv'
      BY <1>2, <2>1, EmptySeq DEF Inv, WindowInv, QueuesInv
    <2> QED
      BY <1>1, <1>4, <1>5, <2>2, <2>3 DEF Inv, WindowInv, PanelsCurrent
  <1>7. CASE rest # <<>>
    <2>1. StartEval(Head(rest)) /\ queue' = Tail(rest)
      BY <1>7 DEF OnReply
    <2>2. Head(rest) \in AllLines /\ Tail(rest) \in Seq(AllLines)
      BY <1>3, <1>7, ListIs
    <2> HIDE DEF rest
    <2>3. inbox' \in Seq(Events) /\ BusyInv' /\ busy'
      BY <1>2, <2>1, <2>2, StartsOne DEF OnReply
    <2>4. QueuesInv'
      BY <1>2, <2>1, <2>2, <2>3 DEF QueuesInv
    <2> QED
      BY <1>1, <1>4, <1>5, <2>3, <2>4 DEF Inv, WindowInv, PanelsCurrent
  <1> QED
    BY <1>6, <1>7

LEMMA MenuKeeps ==
  ASSUME NEW path \in SaveFiles PROVE Inv /\ (MenuSave(path) \/ MenuLoad(path)) => Inv'
  <1> SUFFICES ASSUME Inv, MenuSave(path) \/ MenuLoad(path) PROVE Inv'
    OBVIOUS
  <1>1. ~busy /\ UNCHANGED control /\ UNCHANGED worker /\ UNCHANGED <<busy, stop, queue, stopped>>
        /\ Acts
    BY DEF MenuSave, MenuLoad
  <1>2. StackInv' /\ CallInv' /\ BusyInv' /\ WindowInv'
    <2>1. StackInv' /\ CallInv' /\ BusyInv'
      BY <1>1
      DEF control, worker, Inv, InterpInv, StackInv, ScriptsNest, CallInv, NextLine, BusyInv, Posted
    <2>2. QueuesInv' /\ actions' \in 0..MaxActions
      BY <1>1, ActsIs DEF worker, Inv, WindowInv, QueuesInv
    <2>3. FlagsInv'
      BY <1>1 DEF worker, Inv, WindowInv, FlagsInv
    <2> QED
      BY <2>1, <2>2, <2>3 DEF WindowInv
  <1>3. CASE MenuSave(path)
    <2>1. FilesInv'
      BY <1>3, WritesKeeps DEF MenuSave, Inv, InterpInv
    <2>2. SessionInv' /\ View' = View /\ UNCHANGED <<shown, busy>>
      BY <1>3 DEF MenuSave, session, Inv, InterpInv, SessionInv, Session, OneValue, View
    <2> QED
      BY <1>2, <2>1, <2>2 DEF Inv, InterpInv, PanelsCurrent
  <1>4. CASE MenuLoad(path)
    <2>1. FilesInv'
      BY <1>4 DEF MenuLoad, disk, Inv, InterpInv, FilesInv, Session, OneValue
    <2>2. CASE Loads(path) /\ shown' = View'
      BY <1>2, <2>1, <2>2, LoadsIs DEF Inv, InterpInv, SessionInv, PanelsCurrent
    <2>3. CASE UNCHANGED <<session, shown>>
      <3>1. SessionInv' /\ View' = View
        BY <2>3 DEF session, Inv, InterpInv, SessionInv, Session, OneValue, View
      <3> QED
        BY <1>1, <1>2, <2>1, <2>3, <3>1 DEF Inv, InterpInv, PanelsCurrent
    <2> QED
      BY <1>4, <2>2, <2>3 DEF MenuLoad
  <1> QED
    BY <1>3, <1>4

LEMMA EvaluateKeeps == Inv /\ Evaluate => Inv'
  <1> SUFFICES ASSUME Inv, Evaluate PROVE Inv'
    OBVIOUS
  <1>1. inbox \in Seq(Events) /\ inbox # <<>> /\ inbox' = Tail(inbox)
        /\ Head(inbox).event = "evaluate"
    BY DEF Evaluate, Inv, WindowInv, QueuesInv
  <1>2. /\ inbox' \in Seq(Events) /\ 1 \in Posted /\ Head(inbox).line \in AllLines
        /\ Posted' = {i - 1 : i \in Posted \ {1}}
    BY <1>1, TakenFromFront, EvaluateEvent
  <1>3. busy /\ Posted' = {} /\ phase = "idle" /\ outbox = <<>>
    <2>1. busy /\ (\E i \in DOMAIN inbox : Posted = {i}) /\ phase = "idle" /\ outbox = <<>>
      BY <1>2 DEF Inv, BusyInv
    <2>2. Posted \ {1} = {}
      BY <1>2, <2>1
    <2> QED
      BY <1>2, <2>1, <2>2
  <1>4. phase' = "dispatch" /\ call' = Head(inbox).line /\ UNCHANGED <<session, disk, stack, result>>
    BY DEF Evaluate, Execute
  <1>5. InterpInv'
    <2>1. SessionInv' /\ FilesInv'
      BY <1>4 DEF Inv, InterpInv, SessionInv, FilesInv, session, disk, Session, OneValue
    <2>2. StackInv'
      BY <1>3, <1>4 DEF Inv, InterpInv, StackInv, ScriptsNest
    <2>3. CallInv'
      BY <1>2, <1>4 DEF Inv, InterpInv, CallInv
    <2> QED
      BY <2>1, <2>2, <2>3 DEF InterpInv
  <1>6. UNCHANGED <<outbox, busy, queue, actions, stop, stopped>> /\ cancel' = FALSE
    BY DEF Evaluate, window
  <1>7. BusyInv'
    BY <1>3, <1>4, <1>6 DEF BusyInv
  <1>8. QueuesInv' /\ actions' \in 0..MaxActions
    BY <1>2, <1>6 DEF Inv, WindowInv, QueuesInv
  <1>9. FlagsInv'
    BY <1>6, Zenon DEF Inv, WindowInv, FlagsInv
  <1> QED
    BY <1>3, <1>5, <1>6, <1>7, <1>8, <1>9 DEF Inv, WindowInv, PanelsCurrent

LEMMA RequestCancelKeeps == Inv /\ RequestCancel => Inv'
  <1> SUFFICES ASSUME Inv, RequestCancel PROVE Inv'
    OBVIOUS
  <1>1. inbox \in Seq(Events) /\ inbox # <<>> /\ inbox' = Tail(inbox)
        /\ Head(inbox).event # "evaluate"
    BY DEF RequestCancel, Inv, WindowInv, QueuesInv
  <1>2. /\ inbox' \in Seq(Events)
        /\ Posted' = {i - 1 : i \in Posted}
        /\ \A i \in Posted : i - 1 \in DOMAIN inbox'
    BY <1>1, TakenFromFront
  <1>3. InterpInv' /\ View' = View
    BY Unmoved, Unseen DEF RequestCancel, Inv
  <1>4. UNCHANGED <<outbox, busy, queue, actions, stop, stopped, shown, phase>> /\ cancel' = TRUE
    BY DEF RequestCancel, window, interp, control
  <1>5. BusyInv'
    <2>1. Posted = {} => Posted' = {}
      BY <1>2
    <2>2. ASSUME NEW i \in DOMAIN inbox, Posted = {i}
          PROVE  Posted' = {i - 1} /\ i - 1 \in DOMAIN inbox'
      BY <1>2, <2>2
    <2> QED
      BY <1>4, <2>1, <2>2 DEF Inv, BusyInv
  <1>6. QueuesInv' /\ actions' \in 0..MaxActions
    BY <1>2, <1>4 DEF Inv, WindowInv, QueuesInv
  <1>7. FlagsInv'
    BY <1>4, Zenon DEF Inv, WindowInv, FlagsInv
  <1> QED
    BY <1>3, <1>4, <1>5, <1>6, <1>7 DEF Inv, WindowInv, PanelsCurrent

(* Interpreting never leaves or reaches the idle worker.                      *)
LEMMA StepIsBusy == ASSUME InterpInv, Step PROVE phase # "idle" /\ phase' # "idle"
  BY DEF Step, AssignScalar, AssignMatrix, AssignPair, BareCall, SetPlot, CreateObject,
         ClearObject, Clear, RunFile, ScriptEnds, SaveOpens, SaveCannotOpen, SaveWrites,
         SaveTears, LoadSession, Offers, Succeeds, Fails

LEMMA InterpretsKeeps == Inv /\ Interprets => Inv'
  <1> SUFFICES ASSUME Inv, Interprets PROVE Inv'
    OBVIOUS
  <1>1. InterpInv' /\ phase # "idle" /\ phase' # "idle"
    BY StepKeeps, StepIsBusy DEF Interprets, Inv
  <1>2. UNCHANGED <<inbox, outbox, cancel, busy, stop, queue, shown, stopped, actions>>
    BY DEF Interprets, window, worker
  <1>3. BusyInv' /\ busy
    BY <1>1, <1>2 DEF Inv, BusyInv, Posted
  <1>4. WindowInv'
    BY <1>2 DEF Inv, WindowInv, QueuesInv, FlagsInv
  <1> QED
    BY <1>1, <1>2, <1>3, <1>4 DEF Inv, PanelsCurrent

LEMMA EvaluatedKeeps == Inv /\ Evaluated => Inv'
  <1> SUFFICES ASSUME Inv, Evaluated PROVE Inv'
    OBVIOUS
  <1> DEFINE answer == IF cancel THEN "cancelled" ELSE result
  <1>1. phase = "return" /\ phase' = "idle" /\ call' = NoLine
        /\ UNCHANGED <<session, disk, stack, result, inbox, cancel, window>>
        /\ outbox' = Append(outbox, answer)
    BY DEF Evaluated
  <1>2. busy /\ Posted = {} /\ outbox = <<>> /\ answer \in Answers
    BY <1>1 DEF Inv, InterpInv, CallInv, BusyInv, Answers
  <1> HIDE DEF answer
  <1>3. outbox' \in Seq(Answers) /\ Len(outbox') = 1
    BY <1>1, <1>2, EmptySeq, AppendProperties
  <1>4. InterpInv'
    <2>1. SessionInv' /\ FilesInv'
      BY <1>1 DEF Inv, InterpInv, SessionInv, FilesInv, session, disk, Session, OneValue
    <2>2. StackInv' /\ CallInv'
      BY <1>1 DEF Inv, InterpInv, StackInv, ScriptsNest, CallInv
    <2> QED
      BY <2>1, <2>2 DEF InterpInv
  <1>5. UNCHANGED <<busy, stop, queue, shown, stopped, actions>>
    BY <1>1 DEF window
  <1>6. BusyInv'
    BY <1>1, <1>2, <1>3, <1>5 DEF BusyInv, Posted
  <1>7. WindowInv'
    BY <1>1, <1>3, <1>5 DEF Inv, WindowInv, QueuesInv, FlagsInv
  <1> QED
    BY <1>2, <1>4, <1>5, <1>6, <1>7 DEF Inv, PanelsCurrent

LEMMA CrashKeeps == Inv /\ Crash => Inv'
  <1> SUFFICES ASSUME Inv, Crash PROVE Inv'
    OBVIOUS
  <1>1. InterpInv' /\ phase' = "idle"
    BY DiesKeeps DEF Crash, Dies, Inv
  <1>2. inbox' = <<>> /\ outbox' = <<>> /\ queue' = <<>> /\ ~busy' /\ shown' = View'
    BY DEF Crash
  <1>3. QueuesInv' /\ actions' \in 0..MaxActions
    BY <1>2, EmptySeq, ActsIs DEF Crash, Inv, QueuesInv
  <1>4. FlagsInv'
    BY Zenon DEF Crash, FlagsInv
  <1>5. BusyInv'
    BY <1>1, <1>2, EmptySeq DEF BusyInv, Posted
  <1> QED
    BY <1>1, <1>2, <1>3, <1>4, <1>5 DEF Inv, WindowInv, PanelsCurrent

LEMMA UnchangedKeeps == Inv /\ UNCHANGED vars => Inv'
  <1> SUFFICES ASSUME Inv, UNCHANGED vars PROVE Inv'
    OBVIOUS
  <1>1. InterpInv' /\ View' = View
    BY Unmoved, Unseen DEF vars, Inv
  <1> QED
    BY <1>1 DEF vars, interp, control, window, worker, Inv, WindowInv, QueuesInv, FlagsInv, BusyInv,
                Posted, PanelsCurrent

(* The invariant: the window's handlers, the worker's slots, every command of *)
(* the interpreter and a crash keep it.                                       *)
THEOREM InvCorrect == Spec => []Inv
  <1>1. ASSUME Inv, [Next]_vars PROVE Inv'
    <2>1. ASSUME Next PROVE Inv'
      BY <1>1, <2>1, OnSubmitKeeps, OnRunScriptKeeps, MenuKeeps, OnStopKeeps, OnReplyKeeps,
         EvaluateKeeps, RequestCancelKeeps, InterpretsKeeps, EvaluatedKeeps, CrashKeeps DEF Next
    <2> QED
      BY <1>1, <2>1, UnchangedKeeps
  <1> QED
    BY GuiInitInv, <1>1, PTL DEF Spec

-----------------------------------------------------------------------------
(* Sessions, files, scripts, calls and queues hold what the code may put      *)
(* there: a script's next line is one of its own, a plot shows a draw.        *)
THEOREM TypeCorrect == Spec => []TypeOK
  <1>1. ASSUME Inv PROVE TypeOK
    <2>1. \A d : Session(d) =>
             /\ \A i \in DOMAIN d.history : d.history[i].op \in Ops \ {"none"}
             /\ Range(d.matrices) \cup {d.plot} \subseteq Nat
      BY KnownLines, ElementOfSeq, LenProperties DEF Session, CommandLine, Range
    <2>2. \A d \in {state} \cup {files[p].data : p \in SaveFiles} : Session(d)
      BY <1>1 DEF Inv, InterpInv, SessionInv, FilesInv
    <2>3. \A i \in DOMAIN stack : stack[i].line \in 1..Len(Scripts[stack[i].path]) + 1
      <3> SUFFICES ASSUME NEW i \in DOMAIN stack
                   PROVE  stack[i].line \in 1..Len(Scripts[stack[i].path]) + 1
        OBVIOUS
      <3>1. stack[i] \in Frames /\ stack[i].line <= Len(Scripts[stack[i].path]) + 1
        BY <1>1, ElementOfSeq, LenProperties DEF Inv, InterpInv, StackInv
      <3>2. Len(Scripts[stack[i].path]) \in Nat
        BY <3>1, LinesAssumption, LenProperties DEF Frames, LineList
      <3> QED
        BY <3>1, <3>2 DEF Frames
    <2>4. call.op \in Ops
      BY <1>1, KnownLines DEF Inv, InterpInv, CallInv, CommandLine, NoLine, Ops
    <2>5. InterpTypeOK
      BY <1>1, <2>1, <2>2, <2>3, <2>4 DEF Inv, InterpInv, SessionInv, CallInv, InterpTypeOK
    <2>6. \A i \in DOMAIN inbox : inbox[i].event \in {"evaluate", "cancel"}
      <3>1. \A i \in DOMAIN inbox : inbox[i] \in Events
        BY <1>1, ElementOfSeq, LenProperties DEF Inv, WindowInv, QueuesInv
      <3>2. \A e \in Events : e.event \in {"evaluate", "cancel"}
        BY EvaluateEvent
      <3> QED
        BY <3>1, <3>2
    <2>7. \A i \in DOMAIN outbox : outbox[i] \in {"ok", "error", "cancelled"}
      BY <1>1, ElementOfSeq, LenProperties DEF Inv, WindowInv, QueuesInv, Answers
    <2> QED
      BY <1>1, <2>5, <2>6, <2>7 DEF Inv, WindowInv, FlagsInv, TypeOK
  <1> QED
    BY <1>1, InvCorrect, PTL

(* No sequence of assignments, retries, scripts and loads leaves a name in    *)
(* both maps of the session.                                                  *)
THEOREM NamesCorrect == Spec => []OneNameOneValue
  <1>1. Inv => OneNameOneValue
    BY DEF Inv, InterpInv, SessionInv, OneValue, OneNameOneValue
  <1> QED
    BY <1>1, InvCorrect, PTL

(* run_file() never nests beyond kMaxScriptDepth or in a circle, and no error *)
(* leaves an entry on script_stack_.                                          *)
THEOREM ScriptsCorrect == Spec => []ScriptsNest
  <1>1. Inv => ScriptsNest
    BY DEF Inv, InterpInv, StackInv
  <1> QED
    BY <1>1, InvCorrect, PTL

(* repl_busy_ is exactly "one command is posted, evaluated or answered".      *)
THEOREM BusyCorrect == Spec => []OneCommandUnderWay
  <1>1. ASSUME Inv PROVE OneCommandUnderWay
    <2>1. Posted = {} => Cardinality(Posted) = 0
      BY FS_EmptySet
    <2>2. ASSUME NEW i \in DOMAIN inbox, Posted = {i} PROVE Cardinality(Posted) = 1
      BY <2>2, FS_Singleton
    <2>3. Len(<<>>) = 0
      BY EmptySeq
    <2>4. OneCommandUnderWay <=>
            Cardinality(Posted) + (IF phase = "idle" THEN 0 ELSE 1) + Len(outbox)
              = IF busy THEN 1 ELSE 0
      BY DEF OneCommandUnderWay, Posted
    <2> HIDE DEF Posted
    <2>5. BusyInv
      BY <1>1 DEF Inv
    <2>6. CASE ~busy /\ Posted = {} /\ phase = "idle" /\ outbox = <<>>
      BY <2>1, <2>3, <2>4, <2>6
    <2>7. CASE busy /\ (\E i \in DOMAIN inbox : Posted = {i}) /\ phase = "idle" /\ outbox = <<>>
      BY <2>2, <2>3, <2>4, <2>7
    <2>8. CASE busy /\ Posted = {} /\ phase # "idle" /\ outbox = <<>>
      BY <2>1, <2>3, <2>4, <2>8
    <2>9. CASE busy /\ Posted = {} /\ phase = "idle" /\ Len(outbox) = 1
      BY <2>1, <2>4, <2>9
    <2> QED
      BY <2>5, <2>6, <2>7, <2>8, <2>9 DEF BusyInv
  <1> QED
    BY <1>1, InvCorrect, PTL

(* A window that accepts input shows the interpreter's variables and plot.    *)
THEOREM PanelsCorrect == Spec => []PanelsCurrent
  <1>1. Inv => PanelsCurrent
    BY DEF Inv
  <1> QED
    BY <1>1, InvCorrect, PTL

(* load_session() restores all of a complete file, or nothing is touched.     *)
THEOREM LoadsCorrect == Spec => LoadAllOrNothing
  <1> DEFINE Whole == IF result' = "ok"
                      THEN files[NextLine.path].whole => state' = saved[NextLine.path]
                      ELSE /\ UNCHANGED <<objects, draws>>
                           /\ [state' EXCEPT !.history = <<>>] = [state EXCEPT !.history = <<>>]
  <1>1. ASSUME Inv, LoadSession PROVE Whole
    <2>1. Offers("load") /\ NextLine.path \in SaveFiles
      BY <1>1, Offered DEF LoadSession, CommandLine, Inv
    <2>2. CASE Readable(NextLine.path)
      BY <1>1, <2>1, <2>2, LoadsIs DEF LoadSession, Succeeds, Inv, InterpInv
    <2>3. CASE ~Readable(NextLine.path)
      <3>1. state' = Recorded /\ UNCHANGED <<objects, draws>> /\ result' = "error"
        BY <1>1, <2>3 DEF LoadSession, Fails
      <3>2. Session(state)
        BY <1>1 DEF Inv, InterpInv, SessionInv
      <3>3. [Recorded EXCEPT !.history = <<>>] = [state EXCEPT !.history = <<>>]
        BY <3>2 DEF Recorded, Session
      <3> QED
        BY <3>1, <3>3
    <2> QED
      BY <2>2, <2>3
  <1>2. Inv /\ [Next]_vars => [LoadSession => Whole]_interp
    BY <1>1
  <1> QED
    BY <1>2, InvCorrect, PTL DEF Spec, LoadAllOrNothing
=============================================================================
