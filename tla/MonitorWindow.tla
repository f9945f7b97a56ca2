---------------------------- MODULE MonitorWindow ----------------------------
(***************************************************************************)
(* The windows of "Salon" that show a process monitor: the alerts and the  *)
(* table of all processes (UI.c) and the prototype of the table            *)
(* (prueba.c).  Each window starts a monitor, a child process that writes  *)
(* to a pipe; a GLib watch on the pipe reads a line at a time and fills    *)
(* the store of the window; the stop button ends both.  The user and the   *)
(* monitors (the program of guardia_info.c) are the environment.           *)
(***************************************************************************)
EXTENDS Naturals, Sequences

CONSTANTS
  Windows,   \* windows that may exist at once
  Views,     \* which of the three kinds of window the user opens
  PipeSize,  \* bound: lines that fit in the pipe of a monitor
  NoWindow,  \* no window
  Main       \* the main window of the panel

ASSUME ConstantsOK ==
  /\ Views \subseteq {"alerts", "processes", "prototype"}
  /\ PipeSize \in Nat \ {0}
  /\ NoWindow # Main /\ {NoWindow, Main} \cap Windows = {}

VARIABLES
  win,      \* each window with its monitor, pipe and watch
  chooser,  \* whether the window with the buttons of both views is open
  modal,    \* the window whose message dialog waits for the user
  panel,    \* whether the main loop runs
  misused   \* history: <<window, use>> of data that had been freed

vars == <<win, chooser, modal, panel, misused>>

(* What the monitor prints: the marker of an iteration, an alert, the row  *)
(* of a process; "bad" is a row or an alert that is not valid UTF-8.       *)
Line == {"NUEVA_ITERACION", "ALERTA", "FILA", "bad"}

(* child: the process (stopping: it has been sent SIGTERM; zombie: it has  *)
(* ended and keeps its number; replaced: its number is another process's). *)
Session ==
  [view : {"none"} \cup Views, shown : {"none", "open", "gone"},
   child : {"none", "running", "stopping", "zombie", "replaced"},
   pipe : UNION {[1 .. n -> Line] : n \in 0 .. PipeSize},
   watch : BOOLEAN, pdata : {"none", "live", "freed"}]

Unused == [view |-> "none", shown |-> "none", child |-> "none", pipe |-> <<>>,
           watch |-> FALSE, pdata |-> "none"]

Init ==
  /\ win = [w \in Windows |-> Unused]
  /\ chooser = FALSE /\ modal = NoWindow /\ panel = "running" /\ misused = {}

Update(w, session) == win' = [win EXCEPT ![w] = session]

-----------------------------------------------------------------------------
(* Opening a window.                                                       *)

(* A dialog takes the clicks of all windows until it is answered.          *)
Clickable == panel = "running" /\ modal = NoWindow

Empty(view) == [Unused EXCEPT !.view = view, !.shown = "open"]

(* The monitor is started and its output watched, or a threshold is        *)
(* missing or the program cannot be started: then the window stays, with   *)
(* a dialog before it and a stop button that does nothing.                 *)
Open(w, view) ==
  /\ Clickable /\ view \in Views
  /\ win[w] = Unused
  /\ \/ /\ Update(w, [Empty(view) EXCEPT !.child = "running", !.watch = TRUE, !.pdata = "live"])
        /\ UNCHANGED modal
     \/ Update(w, Empty(view)) /\ modal' = w
  /\ UNCHANGED <<chooser, panel, misused>>

(* The button of the main window: without both thresholds, a message.      *)
ClickMonitoring ==
  /\ Clickable
  /\ \/ modal' = Main /\ UNCHANGED chooser
     \/ ~chooser /\ chooser' = TRUE /\ UNCHANGED modal
  /\ UNCHANGED <<win, panel, misused>>

CloseChooser ==
  /\ Clickable /\ chooser
  /\ chooser' = FALSE
  /\ UNCHANGED <<win, modal, panel, misused>>

OpenAlerts(w)    == chooser /\ Open(w, "alerts")
OpenProcesses(w) == chooser /\ Open(w, "processes")
OpenPrototype(w) == Open(w, "prototype")

AnswerDialog ==
  /\ panel = "running" /\ modal # NoWindow
  /\ modal' = NoWindow
  /\ UNCHANGED <<win, chooser, panel, misused>>

-----------------------------------------------------------------------------
(* Stopping and closing.                                                   *)

Killed(child) == IF child = "running" THEN "stopping" ELSE child

(* Mutants: the child is not stopped; the window is not destroyed.         *)
StoppedNoKill(s)    == [s EXCEPT !.shown = "gone", !.pdata = "freed"]
StoppedNoDestroy(s) == [s EXCEPT !.child = Killed(@), !.pdata = "freed"]

(* SIGTERM, the window destroyed, the channel released and the data freed; *)
(* the watch has a reference to the channel and stays.                     *)
Stopped(s) == [s EXCEPT !.child = Killed(@), !.shown = "gone", !.pdata = "freed"]

(* In the prototype the same handler is connected to "destroy" of the      *)
(* window that it destroys: it runs again inside itself.                   *)
ClickStop(w) ==
  /\ Clickable /\ win[w].shown = "open" /\ win[w].pdata # "none"
  /\ Update(w, Stopped(win[w]))
  /\ misused' = IF win[w].view = "prototype" \/ win[w].pdata = "freed"
                THEN misused \cup {<<w, "free">>} ELSE misused
  /\ UNCHANGED <<chooser, modal, panel>>

(* The window is closed without the stop button.                           *)
CloseWindow(w) ==
  /\ Clickable /\ win[w].shown = "open"
  /\ Update(w, IF win[w].view = "prototype" /\ win[w].pdata # "none" THEN Stopped(win[w])
               ELSE [win[w] EXCEPT !.shown = "gone"])
  /\ UNCHANGED <<chooser, modal, panel, misused>>

-----------------------------------------------------------------------------
(* The watch: one line, or the end of the output.                          *)

NextLine(w) == Head(win[w].pipe)
Rest(w)     == [win[w] EXCEPT !.pipe = Tail(@)]

(* The callback reaches the store through the data of the window: memory   *)
(* that may have been freed, and then the program may end.                 *)
Touch(w) ==
  /\ Update(w, Rest(w))
  /\ \/ win[w].pdata = "live" /\ UNCHANGED <<panel, misused>>
     \/ /\ win[w].pdata = "freed"
        /\ panel' \in {"running", "ended"}
        /\ misused' = misused \cup {<<w, "read">>}

Readable(w, view) ==
  panel = "running" /\ win[w].view = view /\ win[w].watch /\ win[w].pipe # <<>>

(* A marker clears the table, a line of the kind that it shows adds a row, *)
(* other lines are passed over.  One that cannot be decoded is an error    *)
(* each time it is read: the callback keeps the watch and nothing changes. *)
ReadLine(w, view, kind) ==
  /\ Readable(w, view)
  /\ \/ NextLine(w) \in {"NUEVA_ITERACION", kind} /\ Touch(w)
     \/ /\ NextLine(w) \in {"ALERTA", "FILA"} \ {kind}
        /\ Update(w, Rest(w)) /\ UNCHANGED <<panel, misused>>
  /\ UNCHANGED <<chooser, modal>>

ReadAlert(w)   == ReadLine(w, "alerts", "ALERTA")
ReadProcess(w) == ReadLine(w, "processes", "FILA")

(* The channel of the prototype has no buffer (prueba.c:118), and reading  *)
(* a line of such a channel is an error: its callback, called again and    *)
(* again, also when the monitor has ended, reads nothing and keeps the     *)
(* watch.                                                                  *)
Unbuffered(w) == win[w].view = "prototype"

(* Mutant: the callback asks to be called again at the end of the output.  *)
ReadEndMutant(w) ==
  /\ ~Unbuffered(w)
  /\ panel = "running" /\ win[w].watch /\ win[w].pipe = <<>>
  /\ win[w].child \in {"zombie", "replaced"}
  /\ UNCHANGED vars

(* The output ends when the process has ended and its lines have been read.*)
ReadEnd(w) ==
  /\ ~Unbuffered(w)
  /\ panel = "running" /\ win[w].watch /\ win[w].pipe = <<>>
  /\ win[w].child \in {"zombie", "replaced"}
  /\ Update(w, [win[w] EXCEPT !.watch = FALSE])
  /\ UNCHANGED <<chooser, modal, panel, misused>>

Dispatch(w) == ReadAlert(w) \/ ReadProcess(w) \/ ReadEnd(w)

-----------------------------------------------------------------------------
(* The monitors and the main window.                                       *)

(* Mutant: without G_SPAWN_DO_NOT_REAP_CHILD the number is free at once.   *)
AfterExitMutant == "replaced"

(* Nobody waits for the child, which keeps its number for ever.            *)
AfterExit == "zombie"

(* Threads of several iterations print, without waiting for one another:   *)
(* any line may follow any other.  A full pipe holds the monitor up.       *)
WriteLine(w) ==
  /\ panel = "running" /\ win[w].child \in {"running", "stopping"}
  /\ Len(win[w].pipe) < PipeSize
  /\ \E line \in Line : Update(w, [win[w] EXCEPT !.pipe = Append(@, line)])
  /\ UNCHANGED <<chooser, modal, panel, misused>>

Exit(w, from) ==
  /\ win[w].child = from
  /\ Update(w, [win[w] EXCEPT !.child = AfterExit])
  /\ UNCHANGED <<chooser, modal, panel, misused>>

Crash(w)     == Exit(w, "running")   \* on its own, or by SIGPIPE
Terminate(w) == Exit(w, "stopping")  \* by SIGTERM

(* What has nothing left to do can be used again.                          *)
Release(w) ==
  /\ win[w].shown = "gone" /\ ~win[w].watch /\ win[w].child \in {"none", "zombie"}
  /\ Update(w, Unused)
  /\ misused' = misused \ {<<w, "read">>, <<w, "free">>}
  /\ UNCHANGED <<chooser, modal, panel>>

(* The main window is closed: the process ends, and its windows with it.   *)
EndPanel ==
  /\ Clickable
  /\ panel' = "ended"
  /\ UNCHANGED <<win, chooser, modal, misused>>

Idle == panel = "ended" /\ UNCHANGED vars

UserStep(w) ==
  \/ OpenAlerts(w) \/ OpenProcesses(w) \/ OpenPrototype(w)
  \/ ClickStop(w) \/ CloseWindow(w)

MonitorStep(w) == WriteLine(w) \/ Crash(w) \/ Terminate(w)

Next ==
  \/ \E w \in Windows : UserStep(w) \/ Dispatch(w) \/ MonitorStep(w) \/ Release(w)
  \/ ClickMonitoring \/ CloseChooser \/ AnswerDialog \/ EndPanel \/ Idle

Spec == Init /\ [][Next]_vars

(* The main loop dispatches what is ready, and signals are delivered.      *)
FairSpec ==
  /\ Spec
  /\ \A w \in Windows : WF_vars(Dispatch(w)) /\ WF_vars(Terminate(w))

-----------------------------------------------------------------------------
(* Every variable has its type, and the data of a window that is shown has *)
(* not been freed (UI.c:209-221).                                          *)
TypeOK ==
  /\ win \in [Windows -> Session]
  /\ \A w \in Windows : win[w].shown = "open" => win[w].pdata # "freed"
  /\ chooser \in BOOLEAN /\ modal \in Windows \cup {NoWindow, Main}
  /\ panel \in {"running", "ended"}
  /\ misused \subseteq Windows \X {"read", "free"}

(* The stop button signals the monitor of its window, or nobody: however   *)
(* long ago the monitor has ended, its number has not gone to another      *)
(* process (UI.c:204-208 and the flag of 290).                             *)
KillHitsMonitor ==
  [][\A w \in Windows : win[w].pdata = "live" /\ win'[w].pdata = "freed" =>
       win[w].child \in {"running", "zombie"}]_vars

(* The data of a window of the panel is freed once: by then the button is  *)
(* gone (UI.c:198-222).                                                    *)
NoDoubleFree ==
  \A w \in Windows : win[w].view # "prototype" => <<w, "free">> \notin misused

(* Once the stop button has been clicked the monitor ends.                 *)
StoppedMonitorEnds ==
  \A w \in Windows : win[w].pdata = "freed" ~> win[w].child \notin {"running", "stopping"}

(* The watch of a window of the panel goes away when its monitor has ended *)
(* and its last line has been read, unless it is stuck at one that cannot  *)
(* be decoded (UI.c:131-134, 188-194).                                     *)
WatchEnds ==
  \A w \in Windows : win[w].child = "zombie" /\ win[w].view # "prototype" ~>
    \/ ~win[w].watch \/ panel = "ended"
    \/ win[w].pipe # <<>> /\ NextLine(w) = "bad"

(* Data that has been freed is not used again: what the comment "Marca el  *)
(* puntero como NULL para evitar doble free" is about (UI.c:219).          *)
NoUseAfterFree == misused = {}
=============================================================================
