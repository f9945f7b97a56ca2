------------------------------ MODULE SalonProofs ------------------------------
(***************************************************************************)
(* Proofs about Salon, for any number of monitors, any lines and any depth *)
(* of handlers inside one another: the types, what is never shown, the     *)
(* refresh timer, and the monitors of do_all.                              *)
(***************************************************************************)
EXTENDS Salon, SequenceTheorems, TLAPS

-----------------------------------------------------------------------------
(* Steps.                                                                  *)

(* What a watch of another window does leaves the panel alone.             *)
LEMMA StepOfPanel == [Next]_vars => [PanelMoves]_panel
<1> QED BY DEF Next, vars, WatchSticks

-----------------------------------------------------------------------------
(* Types.                                                                  *)

(* The handlers are a sequence.                                            *)
StackOK == stack \in Seq(Frame)

(* The innermost handler, and what is left without it.                     *)
LEMMA PopType ==
  ASSUME StackOK, stack # <<>>
  PROVE  /\ Top \in Frame /\ Len(stack) \in Nat \ {0}
         /\ Pop \in Seq(Frame) /\ Len(Pop) = Len(stack) - 1
<1> DEFINE F == Frame
<1>1. stack \in Seq(F) /\ Len(stack) \in Nat \ {0}
  BY DEF StackOK
<1> HIDE DEF F
<1>2. stack[Len(stack)] \in F
  BY <1>1
<1>3. \A n \in 1 .. Len(stack) - 1 : stack[n] \in F
  BY <1>1
<1>4. /\ SubSeq(stack, 1, Len(stack) - 1) \in Seq(F)
      /\ Len(SubSeq(stack, 1, Len(stack) - 1)) = Len(stack) - 1
  <2>1. Len(stack) - 1 \in Int
    BY <1>1
  <2>2. Len(SubSeq(stack, 1, Len(stack) - 1))
          = IF 1 <= Len(stack) - 1 THEN Len(stack) - 1 - 1 + 1 ELSE 0
    BY <1>3, <2>1, SubSeqProperties
  <2>3. SubSeq(stack, 1, Len(stack) - 1) \in Seq(F)
    BY <1>3, <2>1, SubSeqProperties
  <2> DEFINE L == Len(stack)
             K == Len(SubSeq(stack, 1, L - 1))
  <2>4. L \in Nat \ {0} /\ K = IF 1 <= L - 1 THEN L - 1 - 1 + 1 ELSE 0
    BY <1>1, <2>2
  <2>5. K = L - 1
    <3> HIDE DEF L, K
    <3> QED BY <2>4
  <2> QED BY <2>3, <2>5
<1> QED BY <1>1, <1>2, <1>4 DEF F, Top, Pop

(* A handler starts.                                                       *)
LEMMA PushType ==
  ASSUME StackOK, NEW place \in Places, NEW left \in 0 .. PortLines, Push(place, left)
  PROVE  /\ StackOK' /\ Len(stack') = Len(stack) + 1 /\ stack' # <<>>
         /\ Top'.at = place
  BY DEF StackOK, Push, Top, Frame

(* The innermost handler goes on.                                          *)
LEMMA GotoType ==
  ASSUME StackOK, stack # <<>>, NEW place \in Places, NEW left \in 0 .. PortLines,
         Goto(place, left)
  PROVE  /\ StackOK' /\ Len(stack') = Len(stack) /\ stack' # <<>>
         /\ Top'.at = place
<1>1. Pop \in Seq(Frame) /\ Len(Pop) = Len(stack) - 1 /\ Len(stack) \in Nat \ {0}
  BY PopType
<1>2. [at |-> place, left |-> left] \in Frame
  BY DEF Frame
<1> HIDE DEF Frame
<1> QED BY <1>1, <1>2 DEF StackOK, Goto, Top

(* Every step leaves a sequence of handlers that is not too deep.          *)
LEMMA StackStep ==
  ASSUME StackOK, [PanelMoves]_panel
  PROVE  StackOK' /\ (Len(stack) <= MaxDepth => Len(stack') <= MaxDepth)
<1> USE DEF Running, Dispatching, Clickable
<1>0. 0 \in 0 .. PortLines /\ Len(stack) \in Nat /\ MaxDepth \in Nat
  BY ConstantsOK DEF ConstantsOK, StackOK
<1>1. CASE UNCHANGED stack
  BY <1>1 DEF StackOK
<1>2. CASE stack # <<>> /\ stack' = Pop
  BY <1>0, <1>2, PopType DEF StackOK
<1>3. CASE /\ Len(stack) < MaxDepth
           /\ \E place \in Places, left \in 0 .. PortLines : Push(place, left)
  BY <1>0, <1>3, PushType
<1>4. CASE stack # <<>> /\ \E place \in Places, left \in 0 .. PortLines : Goto(place, left)
  BY <1>0, <1>4, GotoType
<1>5. \/ UNCHANGED stack
      \/ stack # <<>> /\ stack' = Pop
      \/ /\ Len(stack) < MaxDepth
         /\ \E place \in Places, left \in 0 .. PortLines : Push(place, left)
      \/ stack # <<>> /\ \E place \in Places, left \in 0 .. PortLines : Goto(place, left)
  <2>1. CASE UNCHANGED panel
    BY <2>1 DEF panel
  <2>2. CASE ThreadStep \/ Refresh \/ Idle
    BY <2>2 DEF ThreadStep, UsbStart, UsbLine, UsbAppended, Refresh, Idle, panel
  <2>3. CASE Click
    <3>1. CASE ClickScan \/ CloseMain
      BY <3>1 DEF ClickScan, CloseMain
    <3>2. CASE ClickHide
      BY <1>0, <3>2 DEF ClickHide, Places
    <3>3. CASE ClickPorts
      BY <3>3 DEF ClickPorts, Places
    <3>4. CASE ClickAll
      BY <1>0, <3>4 DEF ClickAll, Places
    <3> QED BY <2>3, <3>1, <3>2, <3>3, <3>4 DEF Click
  <2>4. CASE HandlerStep
    <3>1. CASE ExportEnds \/ PortsEnd \/ LoopEnds \/ AllEnd
      BY <3>1 DEF ExportEnds, PortsEnd, LoopEnds, AllEnd
    <3>2. CASE PortLine
      <4>1. Top.left - 1 \in 0 .. PortLines
        <5>1. Top.left \in 0 .. PortLines /\ Top.left > 0
          BY <3>2, PopType DEF PortLine, Frame
        <5> QED BY <5>1, ConstantsOK DEF ConstantsOK
      <4> QED BY <3>2, <4>1 DEF PortLine, Places
    <3>3. CASE PortPause
      <4>1. Top.left \in 0 .. PortLines
        BY <3>3, PopType DEF PortPause, Frame
      <4> QED BY <3>3, <4>1 DEF PortPause, Places
    <3>4. CASE AllPorts \/ AllSpawnFails \/ \E m \in Monitors : AllSpawn(m)
      BY <1>0, <3>4 DEF AllPorts, AllSpawnFails, AllSpawn, Places
    <3> QED BY <2>4, <3>1, <3>2, <3>3, <3>4 DEF HandlerStep
  <2>5. ASSUME NEW m \in Monitors,
               \/ ReadAlert(m) \/ EndWatch(m) \/ WriteAlert(m)
               \/ Exit(m, "running") \/ Exit(m, "stopping")
        PROVE  UNCHANGED stack
    BY <2>5 DEF ReadAlert, EndWatch, WriteAlert, Exit
  <2> QED BY <2>1, <2>2, <2>3, <2>4, <2>5 DEF PanelMoves
<1> QED BY <1>1, <1>2, <1>3, <1>4, <1>5

(* The types of everything but the handlers.                               *)
FieldsOK ==
  /\ phase \in {"running", "quit", "ended"}
  /\ usb \in {"popen", "fgets", "append", "appendError", "ended"} /\ output \in 0 .. MaxLines
  /\ rest \in Nat /\ long \in BOOLEAN
  /\ shown \in BOOLEAN /\ timer \in BOOLEAN /\ sources \in Nat /\ aux \in BOOLEAN
  /\ buffer \in Text
  /\ guardia \in Monitors \cup {NoMonitor}
  /\ child \in [Monitors -> {"none", "running", "stopping", "ended"}]
  /\ unread \in [Monitors -> 0 .. AlertLines] /\ watch \in [Monitors -> BOOLEAN]
  /\ rewritten \in BOOLEAN

(* There is one refresh timer at most, and its variable says so.           *)
OneTimer == sources = IF timer THEN 1 ELSE 0

(* What may be put into the buffer is text.                                *)
LEMMA TextTyped ==
  ASSUME FieldsOK
  PROVE  /\ Blank \in Text /\ Snapshot \in Text
         /\ \A section \in Sections : With(section) \in Text
<1>1. 0 \in 0 .. MaxLines
  BY ConstantsOK DEF ConstantsOK
<1>2. buffer \in [has : SUBSET Sections, usb : 0 .. MaxLines]
  BY DEF FieldsOK, Text
<1>3. Blank \in Text
  BY <1>1 DEF Blank, Text
<1>4. Snapshot \in Text
  BY DEF Snapshot, Text, Sections, FieldsOK
<1>5. \A section \in Sections : With(section) \in Text
  BY <1>2 DEF With, Text
<1> QED BY <1>3, <1>4, <1>5

(* Writing into the text buffer, also when it has gone.                    *)
LEMMA EditTyped ==
  ASSUME FieldsOK, NEW text \in Text, Edit(text)
  PROVE  phase' \in {"running", "quit", "ended"} /\ buffer' \in Text
  BY DEF FieldsOK, Edit

(* Hiding the results leaves no timer.                                     *)
LEMMA HideTyped ==
  ASSUME FieldsOK, OneTimer, HideResults
  PROVE  shown' \in BOOLEAN /\ timer' \in BOOLEAN /\ sources' \in Nat /\ OneTimer'
<1>1. shown' = FALSE /\ timer' = FALSE
  BY DEF HideResults
<1>2. sources' = 0
  <2>1. CASE timer
    BY <2>1 DEF OneTimer, HideResults
  <2>2. CASE ~timer
    BY <2>2 DEF OneTimer, HideResults
  <2> QED BY <2>1, <2>2
<1>3. OneTimer'
  BY <1>1, <1>2, Zenon DEF OneTimer
<1>4. shown' \in BOOLEAN /\ timer' \in BOOLEAN
  BY <1>1, Zenon
<1>5. sources' \in Nat
  BY <1>2
<1> QED BY <1>3, <1>4, <1>5

(* A handler, also one inside another, keeps the types and the timer.      *)
LEMMA HandlerTyped ==
  ASSUME FieldsOK, OneTimer, HandlerStep
  PROVE  FieldsOK' /\ OneTimer'
<1> USE DEF FieldsOK, OneTimer, thread, results, monitor
<1>1. CASE ExportEnds
  <2>1. shown' \in BOOLEAN /\ timer' \in BOOLEAN /\ sources' \in Nat /\ OneTimer'
    BY <1>1, HideTyped DEF ExportEnds
  <2>2. UNCHANGED <<phase, thread, aux, buffer, monitor, rewritten>>
    BY <1>1 DEF ExportEnds
  <2>3. FieldsOK'
    BY <2>1, <2>2
  <2> QED BY <2>1, <2>3
<1>2. CASE PortLine
  <2>1. phase' \in {"running", "quit", "ended"} /\ buffer' \in Text
    BY <1>2, TextTyped, EditTyped DEF PortLine, Sections
  <2> QED BY <1>2, <2>1 DEF PortLine
<1>3. CASE PortPause \/ PortsEnd \/ LoopEnds \/ AllSpawnFails
  BY <1>3 DEF PortPause, PortsEnd, LoopEnds, AllSpawnFails
<1>4. CASE AllPorts
  BY <1>4, TextTyped DEF AllPorts, Sections
<1>5. CASE AllEnd
  BY <1>5 DEF AllEnd
<1>6. ASSUME NEW m \in Monitors, AllSpawn(m) PROVE FieldsOK' /\ OneTimer'
  BY <1>6, ConstantsOK DEF AllSpawn, ConstantsOK
<1> QED BY <1>1, <1>2, <1>3, <1>4, <1>5, <1>6 DEF HandlerStep

(* A click keeps the types and the timer.                                  *)
LEMMA ClickTyped ==
  ASSUME FieldsOK, OneTimer, Click
  PROVE  FieldsOK' /\ OneTimer'
<1> USE DEF FieldsOK, OneTimer, thread, results, monitor
<1>1. CASE ClickScan
  BY <1>1 DEF ClickScan
<1>2. CASE ClickHide
  <2>1. CASE aux
    BY <1>2, <2>1 DEF ClickHide
  <2>2. CASE ~aux
    <3>1. shown' \in BOOLEAN /\ timer' \in BOOLEAN /\ sources' \in Nat /\ OneTimer'
      BY <1>2, <2>2, HideTyped DEF ClickHide
    <3>2. UNCHANGED <<phase, thread, aux, buffer, monitor, rewritten>>
      BY <1>2, <2>2 DEF ClickHide
    <3>3. FieldsOK'
      BY <3>1, <3>2
    <3> QED BY <3>1, <3>3
  <2> QED BY <2>1, <2>2
<1>3. CASE ClickPorts
  BY <1>3, TextTyped DEF ClickPorts
<1>4. CASE ClickAll
  BY <1>4, TextTyped DEF ClickAll
<1>5. CASE CloseMain
  BY <1>5 DEF CloseMain
<1> QED BY <1>1, <1>2, <1>3, <1>4, <1>5 DEF Click

(* The pieces of the last line that have not been read yet.                *)
LEMMA PiecesTyped ==
  ASSUME FieldsOK, UsbPiece \/ UNCHANGED <<rest, long>>
  PROVE  /\ rest' \in Nat /\ long' \in BOOLEAN /\ (long => long')
         /\ (rest > 0 => long) => (rest' > 0 => long')
<1>1. rest \in Nat /\ long \in BOOLEAN
  BY DEF FieldsOK
<1>2. CASE UNCHANGED <<rest, long>>
  BY <1>1, <1>2
<1>3. CASE rest > 0 /\ rest' = rest - 1 /\ UNCHANGED long
  BY <1>1, <1>3
<1>4. CASE \E n \in Pieces : rest' = n - 1 /\ long' = (long \/ n > 1)
  <2>1. PICK n \in Nat \ {0} : rest' = n - 1 /\ long' = (long \/ n > 1)
    BY <1>4, ConstantsOK DEF ConstantsOK
  <2>2. rest' \in Nat /\ (rest' > 0 <=> n > 1)
    BY <2>1
  <2>3. long' = (long \/ rest' > 0)
    BY <2>1, <2>2
  <2> QED BY <1>1, <2>2, <2>3, Zenon
<1> QED BY <1>2, <1>3, <1>4 DEF UsbPiece

(* The thread, the timer, the watches and the monitors keep them.          *)
LEMMA OthersTyped ==
  ASSUME FieldsOK, OneTimer,
         \/ ThreadStep \/ Refresh \/ Idle
         \/ \E m \in Monitors : \/ ReadAlert(m) \/ EndWatch(m) \/ WriteAlert(m)
                                \/ Exit(m, "running") \/ Exit(m, "stopping")
  PROVE  FieldsOK' /\ OneTimer'
<1> USE DEF FieldsOK, OneTimer, thread, results, monitor
<1>1. CASE ThreadStep
  <2>1. rest' \in Nat /\ long' \in BOOLEAN
    BY <1>1, PiecesTyped DEF ThreadStep, UsbStart, UsbLine, UsbAppended
  <2>2. /\ output' \in 0 .. MaxLines
        /\ usb' \in {"popen", "fgets", "append", "appendError", "ended"}
    BY <1>1, ConstantsOK
       DEF ConstantsOK, ThreadStep, UsbStart, UsbLine, UsbAppended, ThreadMoves
  <2>3. UNCHANGED <<phase, results, buffer, stack, monitor, rewritten>>
    BY <1>1 DEF ThreadStep, UsbStart, UsbLine, UsbAppended
  <2> QED BY <2>1, <2>2, <2>3
<1>2. CASE Refresh
  <2>1. phase' \in {"running", "quit", "ended"} /\ buffer' \in Text
    BY <1>2, TextTyped, EditTyped DEF Refresh
  <2> QED BY <1>2, <2>1 DEF Refresh
<1>3. CASE Idle
  BY <1>3 DEF Idle, panel
<1>4. ASSUME NEW m \in Monitors, ReadAlert(m) PROVE FieldsOK' /\ OneTimer'
  <2>1. phase' \in {"running", "quit", "ended"} /\ buffer' \in Text
    BY <1>4, TextTyped, EditTyped DEF ReadAlert, Sections
  <2>2. unread' \in [Monitors -> 0 .. AlertLines]
    BY <1>4, ConstantsOK DEF ConstantsOK, ReadAlert
  <2> QED BY <1>4, <2>1, <2>2 DEF ReadAlert
<1>5. ASSUME NEW m \in Monitors, EndWatch(m) PROVE FieldsOK' /\ OneTimer'
  BY <1>5 DEF EndWatch
<1>6. ASSUME NEW m \in Monitors, WriteAlert(m) PROVE FieldsOK' /\ OneTimer'
  BY <1>6, ConstantsOK DEF ConstantsOK, WriteAlert
<1>7. ASSUME NEW m \in Monitors, Exit(m, "running") \/ Exit(m, "stopping")
      PROVE  FieldsOK' /\ OneTimer'
  BY <1>7 DEF Exit
<1> QED BY <1>1, <1>2, <1>3, <1>4, <1>5, <1>6, <1>7

PanelInv == FieldsOK /\ StackOK /\ OneTimer /\ Len(stack) <= MaxDepth

(* The panel starts typed, without handlers and without a timer.           *)
LEMMA PanelInit == Init => PanelInv
<1> SUFFICES ASSUME Init PROVE PanelInv
  OBVIOUS
<1>1. FieldsOK
  <2>1. 0 \in 0 .. MaxLines /\ 0 \in 0 .. AlertLines
    BY ConstantsOK DEF ConstantsOK
  <2>2. Blank \in Text
    BY <2>1 DEF Text, Blank
  <2>3. /\ child \in [Monitors -> {"none", "running", "stopping", "ended"}]
        /\ unread \in [Monitors -> 0 .. AlertLines] /\ watch \in [Monitors -> BOOLEAN]
    BY <2>1 DEF Init
  <2>4. /\ shown \in BOOLEAN /\ timer \in BOOLEAN /\ aux \in BOOLEAN /\ rewritten \in BOOLEAN
        /\ long \in BOOLEAN
    BY Zenon DEF Init
  <2>5. /\ phase \in {"running", "quit", "ended"} /\ output \in 0 .. MaxLines
        /\ usb \in {"popen", "fgets", "append", "appendError", "ended"}
        /\ rest \in Nat /\ sources \in Nat /\ guardia \in Monitors \cup {NoMonitor} /\ buffer \in Text
    BY <2>1, <2>2 DEF Init
  <2> QED BY <2>3, <2>4, <2>5 DEF FieldsOK
<1>2. StackOK /\ Len(stack) <= MaxDepth
  BY ConstantsOK DEF ConstantsOK, Init, StackOK
<1>3. OneTimer
  BY DEF Init, OneTimer
<1> QED BY <1>1, <1>2, <1>3 DEF PanelInv

(* Every step keeps the types and the one timer.                           *)
LEMMA PanelStep == PanelInv /\ [PanelMoves]_panel => PanelInv'
<1> SUFFICES ASSUME PanelInv, [PanelMoves]_panel PROVE PanelInv'
  OBVIOUS
<1>1. FieldsOK /\ StackOK /\ OneTimer /\ Len(stack) <= MaxDepth
  BY DEF PanelInv
<1>2. StackOK' /\ Len(stack') <= MaxDepth
  BY <1>1, StackStep
<1>3. FieldsOK' /\ OneTimer'
  <2>1. CASE UNCHANGED panel
    BY <1>1, <2>1 DEF panel, thread, results, monitor, FieldsOK, OneTimer
  <2>2. CASE HandlerStep
    BY <1>1, <2>2, HandlerTyped
  <2>3. CASE Click
    BY <1>1, <2>3, ClickTyped
  <2>4. CASE \/ ThreadStep \/ Refresh \/ Idle
             \/ \E m \in Monitors : \/ ReadAlert(m) \/ EndWatch(m) \/ WriteAlert(m)
                                    \/ Exit(m, "running") \/ Exit(m, "stopping")
    BY <1>1, <2>4, OthersTyped
  <2> QED BY <2>1, <2>2, <2>3, <2>4 DEF PanelMoves
<1> QED BY <1>2, <1>3 DEF PanelInv

(* Every variable of the panel keeps its type, and one refresh timer at    *)
(* most is attached to the main loop.                                      *)
THEOREM TypeCorrect == Spec => [](TypeOK /\ OneTimer)
<1>1. PanelInv /\ stuck \in BOOLEAN => TypeOK /\ OneTimer
  <2> SUFFICES ASSUME PanelInv, stuck \in BOOLEAN PROVE TypeOK /\ OneTimer
    OBVIOUS
  <2>1. \A k \in DOMAIN stack : stack[k] \in Frame
    <3> DEFINE F == Frame
    <3>1. stack \in Seq(F)
      BY DEF PanelInv, StackOK
    <3> HIDE DEF F
    <3>2. \A k \in DOMAIN stack : stack[k] \in F
      BY <3>1
    <3> QED BY <3>2 DEF F
  <2> QED BY <2>1 DEF PanelInv, FieldsOK, TypeOK
<1>2. Init => stuck \in BOOLEAN
  BY Zenon DEF Init
<1>3. stuck \in BOOLEAN /\ [Next]_vars => (stuck \in BOOLEAN)'
  BY DEF Next, vars, WatchSticks
<1> QED BY <1>1, <1>2, <1>3, PanelInit, PanelStep, StepOfPanel, PTL DEF Spec

-----------------------------------------------------------------------------
(* What is shown.                                                          *)

(* Every step leaves a running timer to results that are shown.            *)
LEMMA TimerStep ==
  ASSUME PanelInv, RefreshOnlyWhileShown, [PanelMoves]_panel
  PROVE  RefreshOnlyWhileShown'
<1>1. OneTimer'
  BY PanelStep DEF PanelInv
<1>2. (timer => shown)'
  <2> USE DEF RefreshOnlyWhileShown, results
  <2>1. CASE UNCHANGED <<shown, timer>>
    BY <2>1
  <2>2. CASE shown' = TRUE
    BY <2>2
  <2>3. CASE HideResults
    BY <2>3 DEF HideResults
  <2>4. UNCHANGED <<shown, timer>> \/ shown' = TRUE \/ HideResults
    <3>1. CASE UNCHANGED panel
      BY <3>1 DEF panel
    <3>2. CASE HandlerStep
      BY <3>2 DEF HandlerStep, ExportEnds, PortLine, PortPause, PortsEnd, LoopEnds, AllPorts,
                  AllSpawnFails, AllEnd, AllSpawn
    <3>3. CASE Click
      BY <3>3 DEF Click, ClickScan, ClickHide, ClickPorts, ClickAll, CloseMain
    <3>4. CASE ThreadStep \/ Refresh \/ Idle
      BY <3>4 DEF ThreadStep, UsbStart, UsbLine, UsbAppended, Refresh, Idle, panel
    <3>5. ASSUME NEW m \in Monitors,
                 \/ ReadAlert(m) \/ EndWatch(m) \/ WriteAlert(m)
                 \/ Exit(m, "running") \/ Exit(m, "stopping")
          PROVE  UNCHANGED <<shown, timer>>
      BY <3>5 DEF ReadAlert, EndWatch, WriteAlert, Exit
    <3> QED BY <3>1, <3>2, <3>3, <3>4, <3>5 DEF PanelMoves
  <2> QED BY <2>1, <2>2, <2>3, <2>4
<1> QED BY <1>1, <1>2 DEF OneTimer, RefreshOnlyWhileShown

(* There is one refresh timer at most, and none that would rewrite results *)
(* that have been hidden, for any depth of handlers inside handlers.       *)
THEOREM TimerOnlyWhileShown == Spec => []RefreshOnlyWhileShown
<1>1. Init => RefreshOnlyWhileShown
  BY DEF Init, RefreshOnlyWhileShown
<1> QED BY <1>1, PanelInit, PanelStep, TimerStep, StepOfPanel, PTL DEF Spec

(* What is left of a line that has been read in part is that of a long one.*)
RestOfLong == rest > 0 => long

(* Every step keeps this, and no long line is forgotten.                   *)
LEMMA LongStep ==
  ASSUME PanelInv, RestOfLong, [PanelMoves]_panel
  PROVE  RestOfLong' /\ (long => long')
<1>1. FieldsOK
  BY DEF PanelInv
<1>2. UsbPiece \/ UNCHANGED <<rest, long>>
  <2>1. CASE UNCHANGED panel
    BY <2>1 DEF panel, thread
  <2>2. CASE ThreadStep
    BY <2>2 DEF ThreadStep, UsbStart, UsbLine, UsbAppended
  <2>3. CASE HandlerStep \/ Click \/ Refresh \/ Idle
    BY <2>3 DEF HandlerStep, ExportEnds, PortLine, PortPause, PortsEnd, LoopEnds, AllPorts,
                AllSpawnFails, AllEnd, AllSpawn, Click, ClickScan, ClickHide, ClickPorts,
                ClickAll, CloseMain, Refresh, Idle, panel, thread
  <2>4. ASSUME NEW m \in Monitors,
               \/ ReadAlert(m) \/ EndWatch(m) \/ WriteAlert(m)
               \/ Exit(m, "running") \/ Exit(m, "stopping")
        PROVE  UNCHANGED <<rest, long>>
    BY <2>4 DEF ReadAlert, EndWatch, WriteAlert, Exit, thread
  <2> QED BY <2>1, <2>2, <2>3, <2>4 DEF PanelMoves
<1> QED BY <1>1, <1>2, PiecesTyped DEF RestOfLong

(* No step copies half a piece of a line into the buffer, nor half a line  *)
(* that is not long.                                                       *)
LEMMA WholeStep ==
  ASSUME PanelInv, RestOfLong, WholeLines, [PanelMoves]_panel
  PROVE  WholeLines'
<1> USE DEF WholeLines, monitor, results, thread
<1>1. buffer \in [has : SUBSET Sections, usb : 0 .. MaxLines]
  BY DEF PanelInv, FieldsOK, Text
<1>2. /\ "torn" \notin Blank.has /\ "cut" \notin Blank.has
      /\ ~Locked => "torn" \notin Snapshot.has
      /\ "cut" \in Snapshot.has => long
  BY DEF Blank, Snapshot, RestOfLong
<1>3. \A section \in {"ports", "alerts"} : /\ "torn" \notin With(section).has
                                           /\ "cut" \in With(section).has => long
  <2>1. \A section : With(section).has = buffer.has \cup {section}
    BY <1>1 DEF With
  <2> QED BY <2>1
<1>0. long => long'
  BY LongStep
<1>4. CASE buffer' = buffer \/ buffer' = Blank
  BY <1>0, <1>2, <1>4
<1>5. CASE ~Locked /\ buffer' = Snapshot
  BY <1>0, <1>2, <1>5
<1>6. CASE buffer' = With("ports") \/ buffer' = With("alerts")
  BY <1>0, <1>3, <1>6
<1>7. \/ buffer' = buffer
      \/ buffer' = Blank
      \/ ~Locked /\ buffer' = Snapshot
      \/ buffer' = With("ports")
      \/ buffer' = With("alerts")
  <2>1. CASE UNCHANGED panel
    BY <2>1 DEF panel
  <2>2. CASE HandlerStep
    BY <2>2 DEF HandlerStep, ExportEnds, PortLine, PortPause, PortsEnd, LoopEnds, AllPorts,
                AllSpawnFails, AllEnd, AllSpawn, Edit
  <2>3. CASE Click
    BY <2>3 DEF Click, ClickScan, ClickHide, ClickPorts, ClickAll, CloseMain
  <2>4. CASE ThreadStep \/ Refresh \/ Idle
    BY <2>4 DEF ThreadStep, UsbStart, UsbLine, UsbAppended, Refresh, Idle, panel, Edit
  <2>5. ASSUME NEW m \in Monitors,
               \/ ReadAlert(m) \/ EndWatch(m) \/ WriteAlert(m)
               \/ Exit(m, "running") \/ Exit(m, "stopping")
        PROVE  buffer' = buffer \/ buffer' = With("alerts")
    BY <2>5 DEF ReadAlert, EndWatch, WriteAlert, Exit, Edit
  <2> QED BY <2>1, <2>2, <2>3, <2>4, <2>5 DEF PanelMoves
<1> QED BY <1>4, <1>5, <1>6, <1>7

(* What is shown, or put into a report, never has half of what fgets has   *)
(* read in it, and it ends in the middle of a line of the USB watcher only *)
(* after a line that fgets has cut.                                        *)
THEOREM NoTornLine == Spec => []WholeLines
<1>1. Init => WholeLines
  BY DEF Init, WholeLines, Blank
<1>2. Init => RestOfLong
  BY DEF Init, RestOfLong
<1>3. PanelInv /\ RestOfLong /\ [PanelMoves]_panel => RestOfLong'
  BY LongStep
<1> QED BY <1>1, <1>2, <1>3, PanelInit, PanelStep, WholeStep, StepOfPanel, PTL DEF Spec

-----------------------------------------------------------------------------
(* The monitors of do_all.                                                 *)

(* While do_all waits for its monitor, the main loop stands still: what    *)
(* may happen is the end of the wait, or a step of the thread or of a      *)
(* monitor, which leave the handlers alone.                                *)
LEMMA WaitingHoldsLoop ==
  ASSUME PanelInv, Running("allsleep"), [PanelMoves]_panel
  PROVE  \/ AllEnd
         \/ /\ UNCHANGED <<phase, stack, guardia>>
            /\ \A m \in Monitors : child'[m] = "running" => child[m] = "running"
<1> USE DEF Running, Dispatching, Clickable
<1>0. child \in [Monitors -> {"none", "running", "stopping", "ended"}]
  BY DEF PanelInv, FieldsOK, monitor
<1>1. CASE UNCHANGED panel
  BY <1>1 DEF panel, monitor
<1>2. CASE HandlerStep
  BY <1>2 DEF HandlerStep, ExportEnds, PortLine, PortPause, PortsEnd, LoopEnds, AllPorts,
              AllSpawnFails, AllSpawn
<1>3. CASE Click
  BY <1>3 DEF Click, ClickScan, ClickHide, ClickPorts, ClickAll, CloseMain
<1>4. CASE ThreadStep \/ Refresh \/ Idle
  BY <1>4 DEF ThreadStep, UsbStart, UsbLine, UsbAppended, Refresh, Idle, panel, monitor
<1>5. ASSUME NEW m \in Monitors, ReadAlert(m) \/ EndWatch(m)
      PROVE  FALSE
  BY <1>5 DEF ReadAlert, EndWatch
<1>6. ASSUME NEW m \in Monitors, WriteAlert(m)
      PROVE  UNCHANGED <<phase, stack, guardia, child>>
  BY <1>6 DEF WriteAlert
<1>7. ASSUME NEW m \in Monitors, Exit(m, "running") \/ Exit(m, "stopping")
      PROVE  /\ UNCHANGED <<phase, stack, guardia>>
             /\ \A n \in Monitors : child'[n] = "running" => child[n] = "running"
  BY <1>0, <1>7 DEF Exit
<1> QED BY <1>1, <1>2, <1>3, <1>4, <1>5, <1>6, <1>7 DEF PanelMoves

(* A monitor begins to run only when do_all starts it.                     *)
LEMMA OnlySpawnStarts ==
  ASSUME PanelInv, [PanelMoves]_panel
  PROVE  \/ \E m \in Monitors : AllSpawn(m)
         \/ \A m \in Monitors : child'[m] = "running" => child[m] = "running"
<1> USE DEF monitor
<1>0. child \in [Monitors -> {"none", "running", "stopping", "ended"}]
  BY DEF PanelInv, FieldsOK
<1>1. CASE UNCHANGED panel
  BY <1>1 DEF panel
<1>2. CASE HandlerStep
  <2>1. CASE AllEnd
    BY <2>1 DEF AllEnd
  <2> QED BY <1>2, <2>1 DEF HandlerStep, ExportEnds, PortLine, PortPause, PortsEnd, LoopEnds,
                            AllPorts, AllSpawnFails
<1>3. CASE Click
  BY <1>3 DEF Click, ClickScan, ClickHide, ClickPorts, ClickAll, CloseMain
<1>4. CASE ThreadStep \/ Refresh \/ Idle
  BY <1>4 DEF ThreadStep, UsbStart, UsbLine, UsbAppended, Refresh, Idle, panel
<1>5. ASSUME NEW m \in Monitors, ReadAlert(m) \/ EndWatch(m) \/ WriteAlert(m)
      PROVE  UNCHANGED child
  BY <1>5 DEF ReadAlert, EndWatch, WriteAlert
<1>6. ASSUME NEW m \in Monitors, Exit(m, "running") \/ Exit(m, "stopping")
      PROVE  \A n \in Monitors : child'[n] = "running" => child[n] = "running"
  BY <1>0, <1>6 DEF Exit
<1> QED BY <1>1, <1>2, <1>3, <1>4, <1>5, <1>6 DEF PanelMoves

(* Every step leaves no monitor of do_all running unless do_all waits for  *)
(* it.                                                                     *)
LEMMA MonitorStep ==
  ASSUME PanelInv, NoMonitorLeft, [PanelMoves]_panel
  PROVE  NoMonitorLeft'
<1> USE DEF NoMonitorLeft
<1>0. child \in [Monitors -> {"none", "running", "stopping", "ended"}]
  BY DEF PanelInv, FieldsOK
<1>1. CASE Running("allsleep")
  <2>1. CASE AllEnd
    BY <1>0, <1>1, <2>1 DEF AllEnd
  <2>2. CASE /\ UNCHANGED <<phase, stack, guardia>>
             /\ \A m \in Monitors : child'[m] = "running" => child[m] = "running"
    BY <1>1, <2>2 DEF Running, Top
  <2> QED BY <1>1, <2>1, <2>2, WaitingHoldsLoop
<1>2. CASE ~Running("allsleep")
  <2>1. \A m \in Monitors : child[m] # "running"
    BY <1>2
  <2>2. ASSUME NEW m \in Monitors, AllSpawn(m) PROVE NoMonitorLeft'
    <3>1. stack # <<>> /\ phase # "ended" /\ UNCHANGED phase /\ Goto("allsleep", 0)
      BY <2>2 DEF AllSpawn, Running
    <3>2. 0 \in 0 .. PortLines /\ "allsleep" \in Places /\ StackOK
      BY ConstantsOK DEF ConstantsOK, Places, PanelInv
    <3>3. stack' # <<>> /\ Top'.at = "allsleep"
      BY <3>1, <3>2, GotoType
    <3>4. Running("allsleep")'
      BY <3>1, <3>3 DEF Running
    <3>5. guardia' = m /\ \A n \in Monitors : child'[n] = "running" => n = m
      BY <1>0, <2>1, <2>2 DEF AllSpawn
    <3> QED BY <3>4, <3>5
  <2> QED BY <2>1, <2>2, OnlySpawnStarts
<1> QED BY <1>1, <1>2

(* No monitor started by do_all is left running when it returns, whatever  *)
(* handlers do_all was clicked in.                                         *)
THEOREM MonitorStopped == Spec => []NoMonitorLeft
<1>1. Init => NoMonitorLeft
  BY DEF Init, NoMonitorLeft
<1> QED BY <1>1, PanelInit, PanelStep, MonitorStep, StepOfPanel, PTL DEF Spec

-----------------------------------------------------------------------------
(* The report.                                                             *)

(* From a do_all until the buffer is replaced, whatever runs and whenever  *)
(* the report is exported, the lines of the watcher are in the buffer, and *)
(* once the scanner has been read its lines too.                           *)
ReportKept ==
  ~rewritten /\ (aux \/ stack # <<>>) =>
    /\ "usb" \in buffer.has
    /\ \/ stack # <<>> /\ Top.at = "allports"
       \/ "ports" \in buffer.has

(* do_all and the port scan leave what has been collected.                 *)
LEMMA HandlersKeepReport ==
  ASSUME PanelInv, ReportKept, HandlerStep
  PROVE  ReportKept'
<1> USE DEF Running, ReportKept
<1>0. StackOK /\ 0 \in 0 .. PortLines /\ buffer \in [has : SUBSET Sections, usb : 0 .. MaxLines]
  BY ConstantsOK DEF ConstantsOK, PanelInv, FieldsOK, Text
<1>1. \A section \in Sections : With(section).has = buffer.has \cup {section}
  BY <1>0 DEF With
<1>2. CASE ExportEnds \/ PortsEnd
  BY <1>2 DEF ExportEnds, PortsEnd, results
<1>3. CASE LoopEnds
  BY <1>3 DEF LoopEnds, results
<1>4. CASE AllEnd
  BY <1>4 DEF AllEnd
<1>5. CASE PortPause
  BY <1>5 DEF PortPause, results
<1>6. CASE PortLine
  <2>1. buffer' = buffer \/ buffer' = With("ports")
    BY <1>6 DEF PortLine, Edit
  <2>2. buffer.has \subseteq buffer'.has
    BY <1>1, <2>1 DEF Sections
  <2>3. stack # <<>> /\ Top.at = "ports" /\ UNCHANGED <<aux, rewritten>>
    BY <1>6 DEF PortLine, results
  <2> QED BY <2>2, <2>3
<1>7. CASE AllPorts
  <2>1. buffer'.has = buffer.has \cup {"ports"} /\ stack # <<>> /\ UNCHANGED <<aux, rewritten>>
    BY <1>1, <1>7 DEF AllPorts, results, Sections
  <2> QED BY <2>1
<1>8. CASE AllSpawnFails \/ \E m \in Monitors : AllSpawn(m)
  <2>1. stack # <<>> /\ Top.at = "allspawn" /\ UNCHANGED <<aux, rewritten, buffer>>
    BY <1>8 DEF AllSpawnFails, AllSpawn, results
  <2> QED BY <2>1
<1> QED BY <1>2, <1>3, <1>4, <1>5, <1>6, <1>7, <1>8 DEF HandlerStep

(* A click starts a report, hands it on to its export, or replaces it.     *)
LEMMA ClicksKeepReport ==
  ASSUME PanelInv, ReportKept, Click
  PROVE  ReportKept'
<1> USE DEF ReportKept
<1>0. StackOK /\ 0 \in 0 .. PortLines
  BY ConstantsOK DEF ConstantsOK, PanelInv
<1>1. CASE ClickScan \/ CloseMain
  BY <1>1 DEF ClickScan, CloseMain, results, Top
<1>2. CASE ClickPorts
  BY <1>2 DEF ClickPorts
<1>3. CASE ClickHide
  <2>1. UNCHANGED <<buffer, rewritten>> /\ ((aux /\ ~aux') \/ UNCHANGED <<aux, stack>>)
    BY <1>3 DEF ClickHide
  <2>2. ~(stack # <<>> /\ Top.at = "allports")
    BY <1>3 DEF ClickHide, Clickable, Dispatching, Running
  <2> QED BY <2>1, <2>2
<1>4. CASE ClickAll
  <2>1. "usb" \in buffer'.has
    BY <1>4 DEF ClickAll, Snapshot
  <2>2. Push("allports", 0) /\ "allports" \in Places
    BY <1>4 DEF ClickAll, Places
  <2>3. stack' # <<>> /\ Top'.at = "allports"
    BY <1>0, <2>2, PushType
  <2> QED BY <2>1, <2>3
<1> QED BY <1>1, <1>2, <1>3, <1>4 DEF Click

(* Nothing else takes a section from the buffer, unless it replaces all.   *)
LEMMA ReportStep ==
  ASSUME PanelInv, ReportKept, [PanelMoves]_panel
  PROVE  ReportKept'
<1>1. CASE UNCHANGED panel
  BY <1>1 DEF panel, results, ReportKept, Top
<1>2. CASE HandlerStep
  BY <1>2, HandlersKeepReport
<1>3. CASE Click
  BY <1>3, ClicksKeepReport
<1>4. CASE Refresh
  BY <1>4 DEF Refresh, ReportKept
<1>5. CASE ThreadStep \/ Idle
  BY <1>5 DEF ThreadStep, UsbStart, UsbLine, UsbAppended, Idle, panel, results, ReportKept, Top
<1>6. ASSUME NEW m \in Monitors,
             \/ ReadAlert(m) \/ EndWatch(m) \/ WriteAlert(m)
             \/ Exit(m, "running") \/ Exit(m, "stopping")
      PROVE  ReportKept'
  <2>1. UNCHANGED <<aux, stack, rewritten>>
    BY <1>6 DEF ReadAlert, EndWatch, WriteAlert, Exit, results
  <2>2. buffer \in [has : SUBSET Sections, usb : 0 .. MaxLines]
    BY DEF PanelInv, FieldsOK, Text
  <2>3. buffer' = buffer \/ buffer' = With("alerts")
    BY <1>6 DEF ReadAlert, EndWatch, WriteAlert, Exit, Edit
  <2>4. buffer.has \subseteq buffer'.has
    BY <2>2, <2>3 DEF With
  <2> QED BY <2>1, <2>4 DEF ReportKept, Top
<1> QED BY <1>1, <1>2, <1>3, <1>4, <1>5, <1>6 DEF PanelMoves

(* A page is drawn, whatever ran inside the export before, with the        *)
(* sections do_all has put into the buffer, unless a refresh or a port     *)
(* scan has replaced them.                                                 *)
THEOREM ReportHasSections == Spec => []ReportComplete
<1>1. Init => ReportKept
  BY DEF Init, ReportKept
<1>2. ReportKept => ReportComplete
  BY DEF ReportKept, ReportComplete, Running
<1> QED BY <1>1, <1>2, PanelInit, PanelStep, ReportStep, StepOfPanel, PTL DEF Spec
=============================================================================
