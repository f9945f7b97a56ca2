-------------------------------- MODULE Salon --------------------------------
(***************************************************************************)
(* The main panel of "Salon" (UI.c): the thread that collects what the USB *)
(* watcher prints, the timer that shows it, and the handlers of the        *)
(* buttons, which run in the main loop, some of them with a loop of their  *)
(* own in which other handlers run.  The user, the watcher, the port       *)
(* scanner and the process monitor are the environment.                    *)
(***************************************************************************)
EXTENDS Naturals, Sequences

CONSTANTS
  Monitors,   \* monitors of do_all whose output may be unread at once
  NoMonitor,  \* guardia_pid = 0
  Pieces,     \* into how many pieces of 511 bytes fgets may cut a line
  MaxLines,   \* bound: pieces the USB watcher prints
  PortLines,  \* bound: lines the port scanner prints
  AlertLines, \* bound: lines in the pipe of a monitor
  MaxDepth    \* bound: handlers inside one another

ASSUME ConstantsOK ==
  /\ NoMonitor \notin Monitors /\ Pieces \subseteq Nat \ {0}
  /\ MaxLines \in Nat /\ PortLines \in Nat /\ AlertLines \in Nat /\ MaxDepth \in Nat

VARIABLES
  phase,    \* running, quit (the main window has been closed), ended
  usb,      \* where usb_scan_thread is
  output,   \* pieces of lines in usb_scan_output
  rest,     \* pieces of the last line that are not read yet
  long,     \* history: a line longer than 511 bytes was read
  shown,    \* whether the results are visible
  timer,    \* usb_refresh_timeout_id # 0
  sources,  \* refresh timers attached to the main loop
  buffer,   \* what the text buffer contains
  aux,      \* a report waits to be exported
  stack,    \* the handlers that run, the innermost last
  guardia,  \* guardia_pid
  child,    \* the monitors of do_all
  unread,   \* lines in their pipes
  watch,    \* whether their output is watched
  rewritten,\* history: the buffer was replaced since do_all filled it
  stuck     \* whether a watch of another window is ready for ever

thread  == <<usb, output, rest, long>>
results == <<shown, timer, sources, aux>>
monitor == <<guardia, child, unread, watch>>
panel   == <<phase, thread, results, buffer, stack, monitor, rewritten>>
vars    == <<panel, stuck>>

Sections == {"usb", "torn", "cut", "ports", "alerts"}
Text     == [has : SUBSET Sections, usb : 0 .. MaxLines]
Blank    == [has |-> {}, usb |-> 0]

Places == {"ports", "dispatch", "export", "allports", "allspawn", "allsleep"}
Frame  == [at : Places, left : 0 .. PortLines]

Init ==
  /\ phase = "running" /\ usb = "popen" /\ output = 0 /\ rest = 0 /\ long = FALSE
  /\ shown = FALSE /\ timer = FALSE /\ sources = 0 /\ aux = FALSE
  /\ buffer = Blank /\ stack = <<>>
  /\ guardia = NoMonitor
  /\ child = [m \in Monitors |-> "none"]
  /\ unread = [m \in Monitors |-> 0]
  /\ watch = [m \in Monitors |-> FALSE]
  /\ rewritten = FALSE /\ stuck = FALSE

-----------------------------------------------------------------------------
(* usb_scan_thread.                                                        *)

(* The mutex is held while the thread appends; the main thread takes and   *)
(* releases it within one step.                                            *)
Locked == usb \in {"append", "appendError"}

ThreadMoves(from, to) == phase # "ended" /\ usb = from /\ usb' = to

UsbStart ==
  /\ \/ ThreadMoves("popen", "fgets")
     \/ ThreadMoves("popen", "appendError")
  /\ UNCHANGED <<phase, output, rest, long, results, buffer, stack, monitor, rewritten>>

(* Another piece of a line, or of the next one.                            *)
UsbPiece ==
  IF rest > 0 THEN rest' = rest - 1 /\ UNCHANGED long
  ELSE \E n \in Pieces : rest' = n - 1 /\ long' = (long \/ n > 1)

UsbLine ==
  /\ \/ output < MaxLines /\ ThreadMoves("fgets", "append") /\ UsbPiece
     \/ ThreadMoves("fgets", "ended") /\ UNCHANGED <<rest, long>>
  /\ UNCHANGED <<phase, output, results, buffer, stack, monitor, rewritten>>

UsbAppended ==
  /\ \/ ThreadMoves("append", "fgets")
     \/ ThreadMoves("appendError", "ended")
  /\ output' = IF output < MaxLines THEN output + 1 ELSE output
  /\ UNCHANGED <<phase, rest, long, results, buffer, stack, monitor, rewritten>>

ThreadStep == UsbStart \/ UsbLine \/ UsbAppended

-----------------------------------------------------------------------------
(* The main loop and its nested iterations.                                *)

Top == stack[Len(stack)]
Pop == SubSeq(stack, 1, Len(stack) - 1)
Push(place, left) == stack' = Append(stack, [at |-> place, left |-> left])
Goto(place, left) == stack' = Append(Pop, [at |-> place, left |-> left])

Running(place) == phase # "ended" /\ stack # <<>> /\ Top.at = place

(* Callbacks run in gtk_main, inside a port scan and inside an export.     *)
Dispatching ==
  \/ stack = <<>> /\ phase = "running"
  \/ Running("dispatch") \/ Running("export")

Clickable == Dispatching /\ phase = "running" /\ Len(stack) < MaxDepth

(* The buffer goes with the main window: using it later may end all.       *)
Edit(text) ==
  IF phase = "running" THEN buffer' = text /\ UNCHANGED phase
  ELSE UNCHANGED buffer /\ phase' \in {phase, "ended"}

With(section) == [buffer EXCEPT !.has = @ \cup {section}]

(* It may end in the middle of a piece, or of a line.                      *)
Snapshot == [has |-> {"usb"} \cup (IF Locked THEN {"torn"} ELSE {})
                             \cup (IF rest > 0 THEN {"cut"} ELSE {}),
             usb |-> output]

(* Mutant: the timer copies the output without the mutex.                  *)
RefreshMutant ==
  /\ Dispatching /\ sources > 0
  /\ Edit(Snapshot) /\ rewritten' = TRUE
  /\ UNCHANGED <<thread, results, stack, monitor>>

(* Mutant: the timer is not called again.                                  *)
RefreshOnceMutant ==
  /\ Dispatching /\ sources > 0 /\ ~Locked
  /\ Edit(Snapshot) /\ rewritten' = TRUE
  /\ sources' = sources - 1
  /\ UNCHANGED <<thread, shown, timer, aux, stack, monitor>>

Refresh ==
  /\ Dispatching /\ sources > 0
  /\ ~Locked
  /\ Edit(Snapshot) /\ rewritten' = TRUE
  /\ UNCHANGED <<thread, results, stack, monitor>>

(* Mutant: a second click starts a second timer.                           *)
ClickScanMutant ==
  /\ Clickable /\ sources < 2
  /\ shown' = TRUE /\ timer' = TRUE /\ sources' = sources + 1
  /\ UNCHANGED <<phase, thread, aux, buffer, stack, monitor, rewritten>>

ClickScan ==
  /\ Clickable
  /\ ~timer
  /\ shown' = TRUE /\ timer' = TRUE /\ sources' = sources + 1
  /\ UNCHANGED <<phase, thread, aux, buffer, stack, monitor, rewritten>>

(* Mutant: the timer is removed although none runs.                        *)
HideResultsMutant == shown' = FALSE /\ timer' = FALSE /\ sources' = sources - 1

(* Hiding the results stops the timer.                                     *)
HideResults ==
  /\ shown' = FALSE /\ timer' = FALSE
  /\ sources' = IF timer THEN sources - 1 ELSE sources

ClickHide ==
  /\ Clickable /\ shown
  /\ IF aux
     THEN aux' = FALSE /\ Push("export", 0) /\ UNCHANGED <<shown, timer, sources>>
     ELSE HideResults /\ UNCHANGED <<aux, stack>>
  /\ UNCHANGED <<phase, thread, buffer, monitor, rewritten>>

(* The page is drawn from the buffer as it is then.                        *)
ExportEnds ==
  /\ Running("export")
  /\ HideResults /\ stack' = Pop
  /\ UNCHANGED <<phase, thread, aux, buffer, monitor, rewritten>>

(* Without both ports, or without the scanner, only a message is shown.    *)
ClickPorts ==
  /\ Clickable
  /\ \/ \E n \in 0 .. PortLines : Push("ports", n) /\ shown' = TRUE
     \/ UNCHANGED stack /\ shown' \in {shown, TRUE}
  /\ buffer' = Blank /\ rewritten' = TRUE
  /\ UNCHANGED <<phase, thread, timer, sources, aux, monitor>>

PortLine ==
  /\ Running("ports") /\ Top.left > 0
  /\ Edit(With("ports"))
  /\ Goto("dispatch", Top.left - 1)
  /\ UNCHANGED <<thread, results, monitor, rewritten>>

Ready(m) == watch[m] /\ (unread[m] > 0 \/ child[m] = "ended")

(* No events are pending, of a window either: on to the next line.         *)
PortPause ==
  /\ Running("dispatch") /\ ~stuck /\ \A m \in Monitors : ~Ready(m)
  /\ Goto("ports", Top.left)
  /\ UNCHANGED <<phase, thread, results, buffer, monitor, rewritten>>

PortsEnd ==
  /\ Running("ports") /\ Top.left = 0
  /\ stack' = Pop
  /\ UNCHANGED <<phase, thread, results, buffer, monitor, rewritten>>

CloseMain ==
  /\ Dispatching /\ phase = "running"
  /\ phase' = "quit"
  /\ UNCHANGED <<thread, results, buffer, stack, monitor, rewritten>>


(* gtk_main returns when the handlers have; main ends.                     *)
LoopEnds ==
  /\ phase = "quit" /\ stack = <<>>
  /\ phase' = "ended"
  /\ UNCHANGED <<thread, results, buffer, stack, monitor, rewritten>>

-----------------------------------------------------------------------------
(* do_all: it holds the main loop until it returns.                        *)

ClickAll ==
  /\ Clickable /\ ~Locked
  /\ buffer' = Snapshot /\ rewritten' = FALSE
  /\ shown' = TRUE
  /\ Push("allports", 0)
  /\ UNCHANGED <<phase, thread, timer, sources, aux, monitor>>

(* Mutant: the lines of the scanner replace what was there.                *)
AllPortsMutant ==
  /\ Running("allports") /\ buffer' = [Blank EXCEPT !.has = {"ports"}]
  /\ Goto("allspawn", 0)
  /\ UNCHANGED <<phase, thread, results, monitor, rewritten>>

AllPorts ==
  /\ Running("allports")
  /\ buffer' = With("ports")
  /\ Goto("allspawn", 0)
  /\ UNCHANGED <<phase, thread, results, monitor, rewritten>>

AllSpawn(m) ==
  /\ Running("allspawn") /\ child[m] \in {"none", "ended"} /\ ~watch[m]
  /\ guardia' = m
  /\ child' = [child EXCEPT ![m] = "running"]
  /\ unread' = [unread EXCEPT ![m] = 0]
  /\ watch' = [watch EXCEPT ![m] = TRUE]
  /\ Goto("allsleep", 0)
  /\ UNCHANGED <<phase, thread, results, buffer, rewritten>>

AllSpawnFails ==
  /\ Running("allspawn")
  /\ Goto("allsleep", 0)
  /\ UNCHANGED <<phase, thread, results, buffer, monitor, rewritten>>

(* Mutant: guardia_pid is set to 0 before it is used.                      *)
AllEndMutant ==
  /\ Running("allsleep") /\ guardia' = NoMonitor /\ aux' = TRUE /\ stack' = Pop
  /\ UNCHANGED <<phase, thread, shown, timer, sources, buffer, child, unread, watch, rewritten>>

(* After three seconds the monitor is sent SIGTERM.                        *)
AllEnd ==
  /\ Running("allsleep")
  /\ child' = [m \in Monitors |->
                IF m = guardia /\ child[m] = "running" THEN "stopping" ELSE child[m]]
  /\ guardia' = NoMonitor /\ aux' = TRUE
  /\ stack' = Pop
  /\ UNCHANGED <<phase, thread, shown, timer, sources, buffer, unread, watch, rewritten>>

(* guardia_io_cb: an alert goes into the buffer, another line is dropped.  *)
ReadAlert(m) ==
  /\ Dispatching /\ watch[m] /\ unread[m] > 0
  /\ Edit(With("alerts")) \/ UNCHANGED <<phase, buffer>>
  /\ unread' = [unread EXCEPT ![m] = @ - 1]
  /\ UNCHANGED <<thread, results, stack, guardia, child, watch, rewritten>>

(* The output has ended, half a line is there, or it cannot be decoded.    *)
EndWatch(m) ==
  /\ Dispatching /\ Ready(m)
  /\ watch' = [watch EXCEPT ![m] = FALSE]
  /\ UNCHANGED <<phase, thread, results, buffer, stack, guardia, child, unread, rewritten>>

-----------------------------------------------------------------------------
(* The monitors of do_all.                                                 *)

WriteAlert(m) ==
  /\ child[m] \in {"running", "stopping"} /\ unread[m] < AlertLines
  /\ unread' = [unread EXCEPT ![m] = @ + 1]
  /\ UNCHANGED <<phase, thread, results, buffer, stack, guardia, child, watch, rewritten>>

Exit(m, from) ==
  /\ child[m] = from
  /\ child' = [child EXCEPT ![m] = "ended"]
  /\ UNCHANGED <<phase, thread, results, buffer, stack, guardia, unread, watch, rewritten>>

Idle == phase = "ended" /\ UNCHANGED panel

(* A window cannot decode a line, and its monitor has ended: the watch of  *)
(* the window is ready again whenever it has been called.                  *)
WatchSticks == phase # "ended" /\ stuck' = TRUE /\ UNCHANGED panel

HandlerStep ==
  \/ ExportEnds \/ PortLine \/ PortPause \/ PortsEnd \/ LoopEnds
  \/ AllPorts \/ AllSpawnFails \/ AllEnd
  \/ \E m \in Monitors : AllSpawn(m)

Click == ClickScan \/ ClickHide \/ ClickPorts \/ ClickAll \/ CloseMain

PanelMoves ==
  \/ ThreadStep \/ Refresh \/ HandlerStep \/ Click \/ Idle
  \/ \E m \in Monitors : \/ ReadAlert(m) \/ EndWatch(m) \/ WriteAlert(m)
                         \/ Exit(m, "running") \/ Exit(m, "stopping")

Next ==
  \/ PanelMoves /\ UNCHANGED stuck
  \/ WatchSticks

Spec == Init /\ [][Next]_vars

(* Handlers go on, the thread and signals too; the main loop dispatches    *)
(* whatever is ready again and again, also after long handlers.            *)
FairSpec ==
  /\ Spec
  /\ WF_panel(HandlerStep) /\ WF_panel(ThreadStep) /\ SF_panel(Refresh)
  /\ \A m \in Monitors : /\ SF_panel(ReadAlert(m) \/ EndWatch(m))
                         /\ WF_panel(Exit(m, "stopping"))

-----------------------------------------------------------------------------
(* Every variable has its type.                                            *)
TypeOK ==
  /\ phase \in {"running", "quit", "ended"}
  /\ usb \in {"popen", "fgets", "append", "appendError", "ended"} /\ output \in 0 .. MaxLines
  /\ rest \in Nat /\ long \in BOOLEAN /\ stuck \in BOOLEAN
  /\ shown \in BOOLEAN /\ timer \in BOOLEAN /\ sources \in Nat /\ aux \in BOOLEAN
  /\ buffer \in Text
  /\ Len(stack) <= MaxDepth /\ \A k \in DOMAIN stack : stack[k] \in Frame
  /\ guardia \in Monitors \cup {NoMonitor}
  /\ child \in [Monitors -> {"none", "running", "stopping", "ended"}]
  /\ unread \in [Monitors -> 0 .. AlertLines] /\ watch \in [Monitors -> BOOLEAN]
  /\ rewritten \in BOOLEAN

(* What is shown, or put into a report, never has half of what fgets has   *)
(* read in it: usb_mutex (UI.c:468-471, 478-480, 626-628).  So it ends in  *)
(* the middle of a line of the USB watcher only after a line longer than   *)
(* 511 bytes, which is appended piece by piece (UI.c:465-470).             *)
WholeLines == "torn" \notin buffer.has /\ ("cut" \in buffer.has => long)

(* There is one refresh timer at most, and none that would rewrite results *)
(* that have been hidden (UI.c:493-503, 718-732), whatever handlers run    *)
(* inside one another.                                                     *)
RefreshOnlyWhileShown ==
  /\ sources = IF timer THEN 1 ELSE 0
  /\ timer => shown

(* A page is drawn, whatever ran inside the export before, with the        *)
(* sections do_all has put into the buffer, unless a refresh or a port     *)
(* scan has replaced them (UI.c:573-592, 615-724).                         *)
ReportComplete ==
  Running("export") /\ ~rewritten => {"usb", "ports"} \subseteq buffer.has

(* No monitor started by do_all is left running when it returns            *)
(* (UI.c:686-715).                                                         *)
NoMonitorLeft ==
  \A m \in Monitors : child[m] = "running" => guardia = m /\ Running("allsleep")

(* While the results are refreshed, every line of the USB watcher is shown *)
(* some day, in all its pieces (UI.c:464-488).                             *)
UsbLineShown ==
  \A n \in 1 .. MaxLines :
    output >= n /\ timer ~> ~timer \/ buffer.usb >= n \/ phase # "running"

InPortScan == \E k \in DOMAIN stack : stack[k].at \in {"ports", "dispatch"}

=============================================================================
