------------------------------ MODULE ReplGui --------------------------------
(* The window and the worker of src/src/gui: MainWindow on the UI thread,     *)
(* ReplWorker, which owns the interpreter, on a thread with an event queue.   *)
(* Calls to the worker are queued or block the UI until the worker has        *)
(* reached them; its signals are queued to the UI.                            *)
EXTENDS Interpreter

CONSTANTS
  Editors,   \* contents of the script editor: sequences of lines
  MaxActions \* bound: things the user does, over all restarts

ASSUME EditorsAssumption ==
  /\ \A lines \in Editors : LineList(lines)
  /\ MaxActions \in Nat

VARIABLES
  inbox,     \* events posted to the worker
  outbox,    \* signals posted to the window
  cancel,    \* cancel_requested_
  busy,      \* repl_busy_
  stop,      \* whether the Stop button is enabled
  queue,     \* script_queue_
  shown,     \* what the variable list and the plot show
  stopped,   \* history: Stop was pressed since the window became busy
  actions    \* bound: counts towards MaxActions

window == <<busy, stop, queue, shown, stopped, actions>>
worker == <<inbox, outbox, cancel>>
vars == <<interp, window, worker>>

View == [scalars |-> state.scalars, matrices |-> state.matrices, plot |-> state.plot]

GuiInit ==
  /\ Init
  /\ inbox = <<>> /\ outbox = <<>> /\ cancel = FALSE
  /\ busy = FALSE /\ stop = FALSE /\ queue = <<>>
  /\ shown = View
  /\ stopped = FALSE /\ actions = 0

(* ---- the window -------------------------------------------------------- *)
Acts == actions < MaxActions /\ actions' = actions + 1

StartEval(line) ==
  /\ busy' = TRUE /\ stop' = TRUE
  /\ inbox' = Append(inbox, [event |-> "evaluate", line |-> line])

BugOnSubmit(line) ==
  /\ Acts
  /\ queue' = <<>>
  /\ StartEval(line)
  /\ UNCHANGED <<interp, outbox, cancel, shown, stopped>>

OnSubmit(line) ==
  /\ ~busy /\ Acts
  /\ queue' = <<>>
  /\ StartEval(line)
  /\ UNCHANGED <<interp, outbox, cancel, shown, stopped>>

OnRunScript(lines) ==
  /\ ~busy /\ Acts /\ lines # <<>>
  /\ queue' = Tail(lines)
  /\ StartEval(Head(lines))
  /\ UNCHANGED <<interp, outbox, cancel, shown, stopped>>

OnStop ==
  /\ busy /\ stop /\ Acts
  /\ stop' = FALSE
  /\ stopped' = TRUE
  /\ inbox' = Append(inbox, [event |-> "cancel"])
  /\ UNCHANGED <<interp, outbox, cancel, busy, queue, shown>>

(* A blocking call returns when the worker has handled what was posted before.*)
WorkerReached == phase = "idle" /\ inbox = <<>>

(* on_repl_finished/error/cancelled, then finish_repl_op(): the panels are    *)
(* refreshed, and the next line of the script goes out.                       *)
OnReply ==
  /\ outbox # <<>> /\ WorkerReached
  /\ outbox' = Tail(outbox)
  /\ shown' = View
  /\ LET rest == IF Head(outbox) = "cancelled" THEN <<>> ELSE queue IN
     IF rest = <<>>
       THEN /\ busy' = FALSE /\ stop' = FALSE /\ stopped' = FALSE
            /\ queue' = rest /\ UNCHANGED inbox
       ELSE StartEval(Head(rest)) /\ queue' = Tail(rest) /\ UNCHANGED stopped
  /\ UNCHANGED <<interp, cancel, actions>>

(* File > Save Session and Load Session call the worker directly: no history. *)
MenuSave(path) ==
  /\ ~busy /\ WorkerReached /\ Acts
  /\ \/ Writes(path)
     \/ /\ \E torn \in TornFiles(state) : files' = [files EXCEPT ![path] = torn]
        /\ UNCHANGED saved
  /\ UNCHANGED <<session, control, worker, busy, stop, queue, shown, stopped>>

BugMenuLoad(path) ==
  /\ ~busy /\ WorkerReached /\ Acts
  /\ Readable(path)
  /\ Loads(path)
  /\ UNCHANGED <<control, disk, worker, busy, stop, queue, shown, stopped>>

MenuLoad(path) ==
  /\ ~busy /\ WorkerReached /\ Acts
  /\ IF Readable(path) THEN Loads(path) /\ shown' = View' ELSE UNCHANGED <<session, shown>>
  /\ UNCHANGED <<control, disk, worker, busy, stop, queue, stopped>>

(* ---- the worker -------------------------------------------------------- *)
Evaluate ==
  /\ inbox # <<>> /\ Head(inbox).event = "evaluate"
  /\ Execute(Head(inbox).line)
  /\ inbox' = Tail(inbox)
  /\ cancel' = FALSE
  /\ UNCHANGED <<outbox, window>>

RequestCancel ==
  /\ phase = "idle" /\ inbox # <<>> /\ Head(inbox).event = "cancel"
  /\ inbox' = Tail(inbox)
  /\ cancel' = TRUE
  /\ UNCHANGED <<interp, outbox, window>>

Interprets == Step /\ UNCHANGED <<window, worker>>

BugEvaluated ==
  /\ phase = "return"
  /\ phase' = "idle" /\ call' = NoLine
  /\ outbox' = IF result = "ok" THEN Append(outbox, "ok") ELSE outbox
  /\ UNCHANGED <<session, disk, stack, result, inbox, cancel, window>>

Evaluated ==
  /\ phase = "return"
  /\ phase' = "idle" /\ call' = NoLine
  /\ outbox' = Append(outbox, IF cancel THEN "cancelled" ELSE result)
  /\ UNCHANGED <<session, disk, stack, result, inbox, cancel, window>>

(* The program dies and is started again: the constructor fills the panels.   *)
Crash ==
  /\ Acts
  /\ Dies
  /\ inbox' = <<>> /\ outbox' = <<>> /\ cancel' = FALSE
  /\ busy' = FALSE /\ stop' = FALSE /\ queue' = <<>>
  /\ shown' = View'
  /\ stopped' = FALSE

Next ==
  \/ \E line \in Lines : OnSubmit(line)
  \/ \E lines \in Editors : OnRunScript(lines)
  \/ \E path \in SaveFiles : MenuSave(path) \/ MenuLoad(path)
  \/ OnStop \/ OnReply
  \/ Evaluate \/ RequestCancel \/ Interprets \/ Evaluated
  \/ Crash

Spec == GuiInit /\ [][Next]_vars

(* Both event loops keep running and every command ends.                      *)
WorkerRuns == Evaluate \/ RequestCancel \/ Interprets \/ Evaluated
FairSpec == Spec /\ WF_vars(WorkerRuns) /\ WF_vars(OnReply)

(* ---- properties -------------------------------------------------------- *)
TypeOK ==
  /\ InterpTypeOK
  /\ \A i \in DOMAIN inbox : inbox[i].event \in {"evaluate", "cancel"}
  /\ \A i \in DOMAIN outbox : outbox[i] \in {"ok", "error", "cancelled"}
  /\ cancel \in BOOLEAN /\ busy \in BOOLEAN /\ stop \in BOOLEAN /\ stopped \in BOOLEAN
  /\ actions \in 0..MaxActions

(* repl_busy_ is exactly "one command is under way": posted, being evaluated, *)
(* or evaluated with its signal still to be delivered.                        *)
OneCommandUnderWay ==
  Cardinality({i \in DOMAIN inbox : inbox[i].event = "evaluate"})
    + (IF phase = "idle" THEN 0 ELSE 1) + Len(outbox) = IF busy THEN 1 ELSE 0

(* Whenever the window accepts input, its panels show the interpreter's       *)
(* variables and plot: after an error halfway through a script, a load from   *)
(* the menu, or a restart too.                                                *)
PanelsCurrent == ~busy => shown = View

(* The window accepts input again, however a script ends.                     *)
BusyEnds == busy ~> ~busy

(* MainWindow.cpp:2713, the banner: "Stop cancels long REPL work". Once Stop  *)
(* was pressed no further line of the script is sent.                         *)
StopEndsScript == [][stopped /\ stopped' => Len(queue') >= Len(queue)]_vars
=============================================================================
