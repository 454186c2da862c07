---------------------------- MODULE Interpreter ------------------------------
(* The session of ms::interp::Interpreter (src/src/interp/repl_engine.cpp):   *)
(* its variables, matrices, plot and history, scripts that source scripts,    *)
(* and session files that are written in place.                               *)
(*                                                                            *)
(* A command line is a record; what it computes is reduced to what the        *)
(* session keeps of it. A matrix is the number of the random draw it came     *)
(* from. One execute() of a command is an action; a script is one action per  *)
(* line, and a save is two, because the process may die between them.         *)
EXTENDS Naturals, Sequences, SequencesExt, Functions, FiniteSets

CONSTANTS
  Lines,      \* the command lines a user may type
  Scripts,    \* path -> sequence of lines: the script files on disk
  SaveFiles,  \* paths of session files
  MaxDepth    \* kMaxScriptDepth

Ops == {"none", "scalar", "rand", "pair", "bare", "plot", "create", "free", "clear",
        "run", "save", "load"}

CommandLine(line) ==
  /\ line.op \in Ops \ {"none"}
  /\ line.op \in {"save", "load"} => line.path \in SaveFiles

(* A list of command lines: a script file, the contents of the editor.        *)
LineList(list) ==
  list \in Seq(Range(list)) /\ \A line \in Range(list) : CommandLine(line)

ASSUME LinesAssumption ==
  /\ \A line \in Lines : CommandLine(line)
  /\ \A path \in DOMAIN Scripts : LineList(Scripts[path])
  /\ MaxDepth \in Nat

NoLine == [op |-> "none"]
NoPath == "none"

EmptyState == [scalars |-> <<>>, matrices |-> <<>>, history |-> <<>>, plot |-> 0]

VARIABLES
  state,   \* state_
  objects, \* session_objects_: the handles
  draws,   \* random_draws_
  stack,   \* script_stack_, with the next line of each open script
  call,    \* the line execute() was called with
  phase,   \* "idle", "dispatch", "script", "writing", "return"
  result,  \* "ok" or "error" of the last execute()
  files,   \* session files
  saved    \* history: the session last written to each file

session == <<state, objects, draws>>
control == <<stack, call, phase, result>>
disk == <<files, saved>>
interp == <<session, control, disk>>

NoFile == [exists |-> FALSE, parses |-> FALSE, whole |-> FALSE, data |-> EmptyState]

Init ==
  /\ state = EmptyState /\ objects = {} /\ draws = 0
  /\ stack = <<>> /\ call = NoLine /\ phase = "idle" /\ result = "ok"
  /\ files = [p \in SaveFiles |-> NoFile]
  /\ saved = [p \in SaveFiles |-> EmptyState]

Without(f, name) == Restrict(f, DOMAIN f \ {name})
With(f, name, value) == [n \in DOMAIN f \cup {name} |-> IF n = name THEN value ELSE f[n]]

(* ---- control ----------------------------------------------------------- *)
(* The line to execute: the caller's, or the next one of the innermost script.*)
NextLine ==
  IF phase = "dispatch" THEN call ELSE Scripts[Last(stack).path][Last(stack).line]
Offers(op) ==
  /\ \/ phase = "dispatch"
     \/ phase = "script" /\ Last(stack).line <= Len(Scripts[Last(stack).path])
  /\ NextLine.op = op

(* execute() of the line succeeded: the script goes on, or the call returns.  *)
Succeeds ==
  /\ phase' = IF stack = <<>> THEN "return" ELSE "script"
  /\ stack' = IF stack = <<>> THEN stack ELSE [stack EXCEPT ![Len(stack)].line = @ + 1]
  /\ result' = "ok"
  /\ UNCHANGED call

(* It failed: every open script returns the error and its DepthGuard pops.    *)
Fails ==
  /\ stack' = <<>>
  /\ phase' = "return"
  /\ result' = "error"
  /\ UNCHANGED call

(* execute_impl() records the line before it reads it.                        *)
Recorded == [state EXCEPT !.history = Append(@, NextLine)]

Execute(line) ==
  /\ phase = "idle"
  /\ phase' = "dispatch" /\ call' = line
  /\ UNCHANGED <<session, disk, stack, result>>

(* ---- assignments ------------------------------------------------------- *)
BugAssignScalar ==
  /\ Offers("scalar")
  /\ state' = [Recorded EXCEPT !.scalars = With(@, NextLine.name, NextLine.value)]
  /\ Succeeds
  /\ UNCHANGED <<objects, draws, disk>>

AssignScalar ==
  /\ Offers("scalar")
  /\ state' = [Recorded EXCEPT !.scalars = With(@, NextLine.name, NextLine.value),
                               !.matrices = Without(@, NextLine.name)]
  /\ Succeeds
  /\ UNCHANGED <<objects, draws, disk>>

(* name = rand(m, n): one draw of the session's stream.                       *)
AssignMatrix ==
  /\ Offers("rand")
  /\ draws' = draws + 1
  /\ state' = [Recorded EXCEPT !.scalars = Without(@, NextLine.name),
                               !.matrices = With(@, NextLine.name, draws')]
  /\ Succeeds
  /\ UNCHANGED <<objects, disk>>

(* L, U = lu(A): two targets, and an error leaves both alone.                 *)
AssignPair ==
  /\ Offers("pair")
  /\ LET from == NextLine.from IN
     IF from \in DOMAIN state.matrices
       THEN /\ state' = [Recorded EXCEPT
                 !.scalars = Without(Without(@, NextLine.name), NextLine.second),
                 !.matrices = With(With(@, NextLine.name, @[from]), NextLine.second, @[from])]
            /\ Succeeds
       ELSE state' = Recorded /\ Fails
  /\ UNCHANGED <<objects, draws, disk>>

(* A bare call with a comma inside an argument: the first reading fails, maybe*)
(* after it has drawn; the second assigns its value to "_" and its own history*)
(* entry is cut off again.                                                    *)
BareCall ==
  /\ Offers("bare")
  /\ \/ /\ draws' \in draws + 1 .. draws + 2   \* the first reading drew, or not
        /\ state' = [Recorded EXCEPT !.scalars = Without(@, "_"),
                                     !.matrices = With(@, "_", draws')]
        /\ Succeeds
     \/ /\ draws' \in draws .. draws + 1
        /\ state' = Recorded
        /\ Fails
  /\ UNCHANGED <<objects, disk>>

SetPlot ==
  /\ Offers("plot")
  /\ IF NextLine.name \in DOMAIN state.matrices
       THEN state' = [Recorded EXCEPT !.plot = state.matrices[NextLine.name]] /\ Succeeds
       ELSE state' = Recorded /\ Fails
  /\ UNCHANGED <<objects, draws, disk>>

(* bloom(h, ...), session_object_clear(h): handles live outside state_.       *)
CreateObject ==
  /\ Offers("create")
  /\ state' = Recorded
  /\ objects' = objects \cup {NextLine.name}
  /\ IF NextLine.name \in objects THEN Fails ELSE Succeeds
  /\ UNCHANGED <<draws, disk>>

ClearObject ==
  /\ Offers("free")
  /\ state' = Recorded
  /\ objects' = objects \ {NextLine.name}
  /\ IF NextLine.name \in objects THEN Succeeds ELSE Fails
  /\ UNCHANGED <<draws, disk>>

(* clear: reset(), its own history entry included.                            *)
Clear ==
  /\ Offers("clear")
  /\ state' = EmptyState /\ objects' = {} /\ draws' = 0
  /\ Succeeds
  /\ UNCHANGED disk

(* ---- scripts ----------------------------------------------------------- *)
Open(path) == \E i \in DOMAIN stack : stack[i].path = path

BugMayOpen(path) == path \in DOMAIN Scripts /\ Len(stack) < MaxDepth

MayOpen(path) ==
  /\ Len(stack) < MaxDepth
  /\ ~Open(path)
  /\ path \in DOMAIN Scripts

BugFrame(path) == [path |-> path, line |-> 0]

Frame(path) == [path |-> path, line |-> 1]

(* run_file(): a source line of a script calls it directly, so only a typed   *)
(* one is recorded.                                                           *)
RunFile ==
  /\ Offers("run")
  /\ state' = IF stack = <<>> THEN Recorded ELSE state
  /\ LET path == NextLine.path
         caller == IF stack = <<>> THEN stack
                   ELSE [stack EXCEPT ![Len(stack)].line = @ + 1]
     IN IF MayOpen(path)
          THEN /\ stack' = Append(caller, Frame(path))
               /\ phase' = "script"
               /\ UNCHANGED <<call, result>>
          ELSE Fails
  /\ UNCHANGED <<objects, draws, disk>>

ScriptEnds ==
  /\ phase = "script"
  /\ Last(stack).line > Len(Scripts[Last(stack).path])
  /\ stack' = Front(stack)
  /\ phase' = IF Len(stack) = 1 THEN "return" ELSE "script"
  /\ result' = "ok"
  /\ UNCHANGED <<call, session, disk>>

(* ---- session files ----------------------------------------------------- *)
(* What a prefix of the text of a session holds: scalars, matrices, history   *)
(* and plot are written in this order.                                        *)
Prefix(s, sections) ==
  [scalars  |-> IF sections >= 1 THEN s.scalars ELSE <<>>,
   matrices |-> IF sections >= 2 THEN s.matrices ELSE <<>>,
   history  |-> IF sections >= 3 THEN s.history ELSE <<>>,
   plot     |-> 0]
(* A cut line may or may not parse.                                           *)
TornFiles(s) ==
  {[exists |-> TRUE, parses |-> p, whole |-> FALSE, data |-> Prefix(s, k)] :
     p \in BOOLEAN, k \in 0..3}

(* save_session() builds the text, then opens the file, which truncates it.   *)
SaveOpens ==
  /\ Offers("save")
  /\ state' = Recorded
  /\ phase' = "writing"
  /\ files' = [files EXCEPT ![NextLine.path] =
                 [exists |-> TRUE, parses |-> TRUE, whole |-> FALSE, data |-> EmptyState]]
  /\ UNCHANGED <<objects, draws, stack, call, result, saved>>

SaveCannotOpen ==
  /\ Offers("save")
  /\ state' = Recorded
  /\ Fails
  /\ UNCHANGED <<objects, draws, disk>>

WritingPath == IF stack = <<>> THEN call.path ELSE NextLine.path
Writes(path) ==
  /\ files' = [files EXCEPT ![path] =
                 [exists |-> TRUE, parses |-> TRUE, whole |-> TRUE, data |-> state]]
  /\ saved' = [saved EXCEPT ![path] = state]

SaveWrites ==
  /\ phase = "writing"
  /\ Writes(WritingPath)
  /\ Succeeds
  /\ UNCHANGED session

(* The disk is full: noticed by operator<<, or only by the flush when the     *)
(* stream is destroyed, whose failure nobody sees.                            *)
SaveTears ==
  /\ phase = "writing"
  /\ \E torn \in TornFiles(state) : files' = [files EXCEPT ![WritingPath] = torn]
  /\ Fails \/ Succeeds
  /\ UNCHANGED <<session, saved>>

(* load_session(): read into a local session, swapped in at the end; a line   *)
(* of either kind erases the name from the other kind.                        *)
Parsed(d) == [d EXCEPT !.scalars = Restrict(@, DOMAIN @ \ DOMAIN d.matrices)]
Readable(path) == files[path].exists /\ files[path].parses
Loads(path) ==
  /\ state' = Parsed(files[path].data)
  /\ objects' = {}
  /\ draws' = 0

BugLoadSession ==
  /\ Offers("load")
  /\ LET f == files[NextLine.path] IN
     IF Readable(NextLine.path)
       THEN Loads(NextLine.path) /\ Succeeds
       ELSE /\ state' = [EmptyState EXCEPT !.scalars = f.data.scalars]
            /\ objects' = {} /\ draws' = 0
            /\ Fails
  /\ UNCHANGED disk

LoadSession ==
  /\ Offers("load")
  /\ IF Readable(NextLine.path)
       THEN Loads(NextLine.path) /\ Succeeds
       ELSE /\ state' = Recorded
            /\ UNCHANGED <<objects, draws>>
            /\ Fails
  /\ UNCHANGED disk

Step ==
  \/ AssignScalar \/ AssignMatrix \/ AssignPair \/ BareCall \/ SetPlot
  \/ CreateObject \/ ClearObject \/ Clear
  \/ RunFile \/ ScriptEnds
  \/ SaveOpens \/ SaveCannotOpen \/ SaveWrites \/ SaveTears \/ LoadSession

(* The process dies; a file that was being written keeps a prefix.            *)
Dies ==
  /\ state' = EmptyState /\ objects' = {} /\ draws' = 0
  /\ stack' = <<>> /\ call' = NoLine /\ phase' = "idle" /\ result' = "ok"
  /\ IF phase = "writing"
       THEN \E torn \in TornFiles(state) : files' = [files EXCEPT ![WritingPath] = torn]
       ELSE UNCHANGED files
  /\ UNCHANGED saved

(* ---- properties -------------------------------------------------------- *)
InterpTypeOK ==
  /\ \A d \in {state} \cup {files[p].data : p \in SaveFiles} :
       /\ \A i \in DOMAIN d.history : d.history[i].op \in Ops \ {"none"}
       /\ Range(d.matrices) \cup {d.plot} \subseteq Nat
  /\ draws \in Nat
  /\ \A i \in DOMAIN stack : stack[i].line \in 1..Len(Scripts[stack[i].path]) + 1
  /\ call.op \in Ops
  /\ phase \in {"idle", "dispatch", "script", "writing", "return"}
  /\ result \in {"ok", "error"}

(* "One name, one value": no name is a scalar and a matrix at once, whatever  *)
(* sequence of assignments, failed retries, scripts and loads led here.       *)
OneNameOneValue == DOMAIN state.scalars \cap DOMAIN state.matrices = {}

(* Sourcing is bounded by kMaxScriptDepth, never circular, and every error    *)
(* unwinds script_stack_ completely: a stale entry would make an innocent     *)
(* script circular for the rest of the session.                               *)
ScriptsNest ==
  /\ Len(stack) <= MaxDepth
  /\ \A i, j \in DOMAIN stack : stack[i].path = stack[j].path => i = j
  /\ phase \in {"idle", "dispatch", "return"} => stack = <<>>

(* A load is all or nothing.  A file that was written completely gives back   *)
(* the session it was saved from: every variable, the plot and the history.   *)
(* A load that fails, on a missing or a torn file, leaves variables, plot,    *)
(* handles and draws alone: "nothing has touched the live session until here" *)
LoadAllOrNothing ==
  [][LoadSession =>
       IF result' = "ok"
       THEN files[NextLine.path].whole => state' = saved[NextLine.path]
       ELSE /\ UNCHANGED <<objects, draws>>
            /\ [state' EXCEPT !.history = <<>>] = [state EXCEPT !.history = <<>>]]_interp
=============================================================================
