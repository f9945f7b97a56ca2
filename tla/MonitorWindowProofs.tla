-------------------------- MODULE MonitorWindowProofs --------------------------
(***************************************************************************)
(* Proofs about MonitorWindow, for any number of windows and any pipe: the *)
(* types, that the stop button signals the monitor of its window, and that *)
(* data is freed once.                                                     *)
(***************************************************************************)
EXTENDS MonitorWindow, SequenceTheorems, TLAPS

-----------------------------------------------------------------------------
(* A pipe, and the lines in it.                                            *)

Pipes == UNION {[1 .. n -> Line] : n \in 0 .. PipeSize}

(* A pipe is a sequence of lines that is not too long.                     *)
LEMMA PipeType ==
  ASSUME NEW p
  PROVE  p \in Pipes <=> p \in Seq(Line) /\ Len(p) <= PipeSize
<1> DEFINE L == Line
<1>0. PipeSize \in Nat
  BY ConstantsOK DEF ConstantsOK
<1> HIDE DEF L
<1>1. ASSUME p \in Seq(L), Len(p) <= PipeSize
      PROVE  p \in UNION {[1 .. n -> L] : n \in 0 .. PipeSize}
  <2>1. Len(p) \in 0 .. PipeSize /\ p \in [1 .. Len(p) -> L]
    BY <1>0, <1>1, LenProperties
  <2> QED BY <2>1
<1>2. ASSUME p \in UNION {[1 .. n -> L] : n \in 0 .. PipeSize}
      PROVE  p \in Seq(L) /\ Len(p) <= PipeSize
  <2>1. PICK n \in 0 .. PipeSize : p \in [1 .. n -> L]
    BY <1>2
  <2>2. n \in Nat /\ p \in Seq(L)
    BY <1>0, <2>1
  <2>3. Len(p) = n
    BY <2>1, <2>2
  <2> QED BY <1>0, <2>2, <2>3
<1> QED BY <1>1, <1>2 DEF L, Pipes

(* Freed data belongs to a window that has gone; the monitor of live data  *)
(* has not been signalled.                                                 *)
SessionOK(s) ==
  /\ s \in Session
  /\ s.pdata = "freed" => s.shown = "gone"
  /\ s.pdata = "live" => s.child \in {"running", "zombie"}

(* A window before it is used.                                             *)
LEMMA UnusedOK == SessionOK(Unused)
<1>1. <<>> \in Pipes /\ Len(<<>>) = 0
  <2>1. <<>> \in Seq(Line) /\ Len(<<>>) = 0
    BY EmptySeq
  <2>2. Len(<<>>) <= PipeSize
    BY <2>1, ConstantsOK DEF ConstantsOK
  <2> QED BY <2>1, <2>2, PipeType
<1>2. Unused \in Session
  BY <1>1 DEF Unused, Session, Pipes
<1> QED BY <1>1, <1>2 DEF SessionOK, Unused

(* A window that has just been opened.                                     *)
LEMMA OpenedOK ==
  ASSUME NEW view \in Views
  PROVE  /\ SessionOK(Empty(view))
         /\ SessionOK([Empty(view) EXCEPT !.child = "running", !.watch = TRUE, !.pdata = "live"])
<1>1. Unused \in Session /\ Len(<<>>) = 0
  BY UnusedOK, EmptySeq DEF SessionOK
<1>2. Empty(view) \in Session
  BY <1>1 DEF Empty, Session
<1>3. [Empty(view) EXCEPT !.child = "running", !.watch = TRUE, !.pdata = "live"] \in Session
  BY <1>2 DEF Session
<1> QED BY <1>1, <1>2, <1>3 DEF SessionOK, Unused, Empty

(* A window that is stopped, or closed.                                    *)
LEMMA ClosedOK ==
  ASSUME NEW s, SessionOK(s)
  PROVE  SessionOK(Stopped(s)) /\ SessionOK([s EXCEPT !.shown = "gone"])
<1>1. s \in Session
  BY DEF SessionOK
<1>2. Killed(s.child) \in {"none", "running", "stopping", "zombie", "replaced"}
  BY <1>1 DEF Killed, Session
<1>3. Stopped(s) \in Session /\ [s EXCEPT !.shown = "gone"] \in Session
  BY <1>1, <1>2 DEF Stopped, Session
<1>4. /\ Stopped(s).shown = "gone" /\ Stopped(s).pdata = "freed"
      /\ [s EXCEPT !.shown = "gone"].shown = "gone"
      /\ [s EXCEPT !.shown = "gone"].pdata = s.pdata
      /\ [s EXCEPT !.shown = "gone"].child = s.child
  BY <1>1 DEF Stopped, Session
<1> QED BY <1>3, <1>4 DEF SessionOK

(* A monitor that ends, a watch that is removed.                           *)
LEMMA EndedOK ==
  ASSUME NEW s, SessionOK(s)
  PROVE  SessionOK([s EXCEPT !.child = AfterExit]) /\ SessionOK([s EXCEPT !.watch = FALSE])
<1>1. s \in Session
  BY DEF SessionOK
<1>2. [s EXCEPT !.child = AfterExit] \in Session /\ [s EXCEPT !.watch = FALSE] \in Session
  BY <1>1 DEF AfterExit, Session
<1> QED BY <1>1, <1>2 DEF SessionOK, AfterExit, Session

(* One line fewer in the pipe.                                             *)
LEMMA TailFacts ==
  ASSUME NEW p \in Pipes, p # <<>>
  PROVE  Tail(p) \in Pipes
<1> DEFINE L == Line
<1>1. p \in Seq(L) /\ Len(p) <= PipeSize /\ PipeSize \in Nat
  BY PipeType, ConstantsOK DEF ConstantsOK
<1> HIDE DEF L
<1>2. Len(p) \in Nat \ {0} /\ Tail(p) \in Seq(L) /\ Len(Tail(p)) = Len(p) - 1
  BY <1>1, EmptySeq, HeadTailProperties, LenProperties
<1>3. Len(Tail(p)) <= PipeSize
  BY <1>1, <1>2
<1>4. Tail(p) \in Seq(Line)
  BY <1>2 DEF L
<1> QED BY <1>3, <1>4, PipeType

(* The callback has read a line.                                           *)
LEMMA ReadOK ==
  ASSUME NEW w, SessionOK(win[w]), win[w].pipe # <<>>
  PROVE  SessionOK(Rest(w)) /\ Rest(w).view = win[w].view
<1>1. win[w] \in Session /\ win[w].pipe \in Pipes
  BY DEF SessionOK, Session, Pipes
<1>2. Tail(win[w].pipe) \in Pipes
  BY <1>1, TailFacts
<1>3. Rest(w) = [win[w] EXCEPT !.pipe = Tail(win[w].pipe)] /\ Rest(w) \in Session
  BY <1>1, <1>2 DEF Rest, Session, Pipes
<1>4. /\ Rest(w).shown = win[w].shown /\ Rest(w).view = win[w].view
      /\ Rest(w).child = win[w].child /\ Rest(w).pdata = win[w].pdata
  BY <1>1, <1>3 DEF Session
<1> QED BY <1>3, <1>4 DEF SessionOK

(* A line a monitor prints.                                                *)
LEMMA WrittenOK ==
  ASSUME NEW s, SessionOK(s), Len(s.pipe) < PipeSize, NEW line \in Line
  PROVE  SessionOK([s EXCEPT !.pipe = Append(s.pipe, line)])
<1> DEFINE p == s.pipe
           q == Append(p, line)
           r == [s EXCEPT !.pipe = q]
<1>1. s \in Session /\ p \in Pipes /\ PipeSize \in Nat
  BY ConstantsOK DEF SessionOK, Session, Pipes, ConstantsOK
<1>2. p \in Seq(Line) /\ Len(p) \in Nat
  BY <1>1, PipeType, LenProperties
<1>3. q \in Seq(Line) /\ Len(q) = Len(p) + 1
  <2> DEFINE L == Line
  <2>1. p \in Seq(L) /\ line \in L
    BY <1>2
  <2> HIDE DEF L, p
  <2>2. Append(p, line) \in Seq(L) /\ Len(Append(p, line)) = Len(p) + 1
    BY <2>1
  <2> QED BY <2>2 DEF L, p
<1>4. q \in Pipes
  <2>1. Len(p) < PipeSize
    OBVIOUS
  <2> HIDE DEF p, q
  <2>2. Len(q) <= PipeSize
    BY <1>1, <1>2, <1>3, <2>1
  <2> QED BY <1>3, <2>2, PipeType
<1> HIDE DEF q
<1>5. r \in Session
  BY <1>1, <1>4 DEF Session, Pipes
<1>6. r.shown = s.shown /\ r.child = s.child /\ r.pdata = s.pdata
  BY <1>1 DEF Session
<1> HIDE DEF r
<1>7. SessionOK(r)
  BY <1>5, <1>6 DEF SessionOK
<1> QED BY <1>7 DEF r, q

-----------------------------------------------------------------------------
(* Steps.                                                                  *)

WindowInv == TypeOK /\ NoDoubleFree /\ \A w \in Windows : SessionOK(win[w])

(* A window that is used otherwise, and perhaps another misuse of it.      *)
LEMMA UpdateOK ==
  ASSUME WindowInv, NEW w \in Windows, NEW s, SessionOK(s), Update(w, s),
         chooser' \in BOOLEAN, modal' \in Windows \cup {NoWindow, Main},
         panel' \in {"running", "ended"}, misused' \subseteq Windows \X {"read", "free"},
         \A v \in Windows : <<v, "free">> \in misused' =>
                              IF v = w THEN s.view = "prototype" ELSE <<v, "free">> \in misused
  PROVE  WindowInv'
<1>1. s \in Session /\ win \in [Windows -> Session]
  BY DEF SessionOK, WindowInv, TypeOK
<1>2. win' = [win EXCEPT ![w] = s]
  BY DEF Update
<1>3. win' \in [Windows -> Session] /\ win'[w] = s /\ \A v \in Windows : v # w => win'[v] = win[v]
  BY <1>1, <1>2
<1>5. \A v \in Windows : SessionOK(win'[v])
  BY <1>3 DEF WindowInv
<1>4. TypeOK'
  BY <1>3, <1>5 DEF TypeOK, SessionOK
<1>6. NoDoubleFree'
  BY <1>3 DEF WindowInv, NoDoubleFree
<1> QED BY <1>4, <1>5, <1>6 DEF WindowInv, SessionOK

(* The same for what is not a free.                                        *)
LEMMA KeepViewOK ==
  ASSUME WindowInv, NEW w \in Windows, NEW s, SessionOK(s), Update(w, s), s.view = win[w].view,
         UNCHANGED <<chooser, modal>>, panel' \in {"running", "ended"},
         misused' \in {misused, misused \cup {<<w, "read">>}}
  PROVE  WindowInv'
<1>1. \A v \in Windows : <<v, "free">> \in misused' => <<v, "free">> \in misused
  OBVIOUS
<1>2. <<w, "free">> \in misused => win[w].view = "prototype"
  BY DEF WindowInv, NoDoubleFree
<1>3. misused' \subseteq Windows \X {"read", "free"}
  BY DEF WindowInv, TypeOK
<1> QED BY <1>1, <1>2, <1>3, UpdateOK DEF WindowInv, TypeOK

(* The main loop calls the watch of a window.                              *)
LEMMA DispatchOK ==
  ASSUME WindowInv, NEW w \in Windows, Dispatch(w)
  PROVE  WindowInv'
<1>0. SessionOK(win[w]) /\ win[w] \in Session /\ panel \in {"running", "ended"}
  BY DEF WindowInv, TypeOK
<1>1. ASSUME NEW view, NEW kind, ReadLine(w, view, kind) PROVE WindowInv'
  <2>1. SessionOK(Rest(w)) /\ Rest(w).view = win[w].view
    BY <1>0, <1>1, ReadOK DEF ReadLine, Readable
  <2>2. /\ Update(w, Rest(w)) /\ UNCHANGED <<chooser, modal>>
        /\ panel' \in {"running", "ended"}
        /\ misused' \in {misused, misused \cup {<<w, "read">>}}
    BY <1>0, <1>1 DEF ReadLine, Touch
  <2> QED BY <2>1, <2>2, KeepViewOK
<1>3. CASE ReadEnd(w)
  <2>1. /\ SessionOK([win[w] EXCEPT !.watch = FALSE])
        /\ [win[w] EXCEPT !.watch = FALSE].view = win[w].view
    BY <1>0, EndedOK DEF Session
  <2> QED BY <1>3, <2>1, KeepViewOK DEF ReadEnd
<1> QED BY <1>1, <1>3 DEF Dispatch, ReadAlert, ReadProcess

(* A monitor prints, or ends.                                              *)
LEMMA MonitorOK ==
  ASSUME WindowInv, NEW w \in Windows, MonitorStep(w)
  PROVE  WindowInv'
<1>0. SessionOK(win[w]) /\ win[w] \in Session /\ panel \in {"running", "ended"}
  BY DEF WindowInv, TypeOK
<1>1. CASE WriteLine(w)
  <2>1. PICK line \in Line : Update(w, [win[w] EXCEPT !.pipe = Append(win[w].pipe, line)])
    BY <1>1 DEF WriteLine
  <2> DEFINE s == [win[w] EXCEPT !.pipe = Append(win[w].pipe, line)]
  <2>2. SessionOK(s)
    BY <1>0, <1>1, WrittenOK DEF WriteLine
  <2>3. s.view = win[w].view
    BY <1>0 DEF Session
  <2>4. Update(w, s)
    BY <2>1
  <2> HIDE DEF s
  <2> QED BY <1>0, <1>1, <2>2, <2>3, <2>4, KeepViewOK DEF WriteLine
<1>2. ASSUME NEW from, Exit(w, from) PROVE WindowInv'
  <2>1. /\ SessionOK([win[w] EXCEPT !.child = AfterExit])
        /\ [win[w] EXCEPT !.child = AfterExit].view = win[w].view
    BY <1>0, EndedOK DEF Session
  <2> QED BY <1>0, <1>2, <2>1, KeepViewOK DEF Exit
<1> QED BY <1>1, <1>2 DEF MonitorStep, Crash, Terminate

(* The user opens, stops or closes a window.                               *)
LEMMA UserOK ==
  ASSUME WindowInv, NEW w \in Windows, UserStep(w)
  PROVE  WindowInv'
<1>0. /\ SessionOK(win[w]) /\ win[w] \in Session /\ panel \in {"running", "ended"}
      /\ chooser \in BOOLEAN /\ modal \in Windows \cup {NoWindow, Main}
      /\ misused \subseteq Windows \X {"read", "free"}
      /\ \A v \in Windows : <<v, "free">> \in misused => win[v].view = "prototype"
  BY DEF WindowInv, TypeOK, NoDoubleFree
<1>1. ASSUME NEW view, Open(w, view) PROVE WindowInv'
  <2>1. view \in Views /\ win[w] = Unused /\ UNCHANGED <<chooser, panel, misused>>
    BY <1>1 DEF Open
  <2>2. <<w, "free">> \notin misused
    BY <1>0, <2>1 DEF Unused
  <2>3. modal' \in Windows \cup {NoWindow, Main}
    BY <1>0, <1>1 DEF Open
  <2>4. PICK s : SessionOK(s) /\ Update(w, s)
    BY <1>1, <2>1, OpenedOK DEF Open
  <2> QED BY <1>0, <2>1, <2>2, <2>3, <2>4, UpdateOK
<1>2. CASE ClickStop(w)
  <2>1. /\ SessionOK(Stopped(win[w])) /\ Stopped(win[w]).view = win[w].view
        /\ Update(w, Stopped(win[w])) /\ UNCHANGED <<chooser, modal, panel>>
    BY <1>0, <1>2, ClosedOK DEF ClickStop, Stopped, Session
  <2>2. win[w].pdata # "freed"
    BY <1>0, <1>2 DEF ClickStop, SessionOK
  <2>3. /\ misused' \subseteq Windows \X {"read", "free"}
        /\ \A v \in Windows : <<v, "free">> \in misused' =>
             IF v = w THEN win[w].view = "prototype" ELSE <<v, "free">> \in misused
    BY <1>0, <1>2, <2>2 DEF ClickStop
  <2> QED BY <1>0, <2>1, <2>3, UpdateOK
<1>3. CASE CloseWindow(w)
  <2>1. /\ SessionOK(Stopped(win[w])) /\ Stopped(win[w]).view = win[w].view
        /\ SessionOK([win[w] EXCEPT !.shown = "gone"])
        /\ [win[w] EXCEPT !.shown = "gone"].view = win[w].view
    BY <1>0, ClosedOK DEF Stopped, Session
  <2>2. /\ \/ Update(w, Stopped(win[w]))
           \/ Update(w, [win[w] EXCEPT !.shown = "gone"])
        /\ UNCHANGED <<chooser, modal, panel, misused>>
    BY <1>3 DEF CloseWindow
  <2> QED BY <1>0, <2>1, <2>2, KeepViewOK
<1> QED BY <1>1, <1>2, <1>3 DEF UserStep, OpenAlerts, OpenProcesses, OpenPrototype

(* Every step.                                                             *)
LEMMA WindowStep == WindowInv /\ [Next]_vars => WindowInv'
<1> SUFFICES ASSUME WindowInv, [Next]_vars PROVE WindowInv'
  OBVIOUS
<1>0. /\ chooser \in BOOLEAN /\ modal \in Windows \cup {NoWindow, Main}
      /\ panel \in {"running", "ended"} /\ misused \subseteq Windows \X {"read", "free"}
      /\ \A v \in Windows : <<v, "free">> \in misused => win[v].view = "prototype"
  BY DEF WindowInv, TypeOK, NoDoubleFree
<1>1. ASSUME UNCHANGED <<win, misused>>, chooser' \in BOOLEAN,
             modal' \in Windows \cup {NoWindow, Main}, panel' \in {"running", "ended"}
      PROVE  WindowInv'
  BY <1>1 DEF WindowInv, TypeOK, NoDoubleFree, SessionOK
<1>2. CASE UNCHANGED vars \/ Idle
  BY <1>0, <1>1, <1>2 DEF vars, Idle
<1>3. CASE ClickMonitoring \/ CloseChooser \/ AnswerDialog \/ EndPanel
  BY <1>0, <1>1, <1>3 DEF ClickMonitoring, CloseChooser, AnswerDialog, EndPanel
<1>4. ASSUME NEW w \in Windows, Release(w) PROVE WindowInv'
  <2>1. /\ Update(w, Unused) /\ UNCHANGED <<chooser, modal, panel>>
        /\ misused' \subseteq misused /\ <<w, "free">> \notin misused'
    BY <1>4 DEF Release
  <2>2. SessionOK(Unused)
    BY UnusedOK
  <2> QED BY <1>0, <2>1, <2>2, UpdateOK
<1> QED BY <1>2, <1>3, <1>4, UserOK, DispatchOK, MonitorOK DEF Next

(* The initial state.                                                      *)
LEMMA WindowInit == Init => WindowInv
<1> SUFFICES ASSUME Init PROVE WindowInv
  OBVIOUS
<1>1. SessionOK(Unused) /\ Unused \in Session
  BY UnusedOK DEF SessionOK
<1>2. \A w \in Windows : win[w] = Unused
  BY DEF Init
<1>3. TypeOK /\ NoDoubleFree
  BY <1>1, <1>2 DEF Init, TypeOK, NoDoubleFree, SessionOK
<1> QED BY <1>1, <1>2, <1>3 DEF WindowInv

LEMMA AlwaysWindowInv == Spec => []WindowInv
<1> QED BY WindowInit, WindowStep, PTL DEF Spec

-----------------------------------------------------------------------------

(* Every variable has its type in every reachable state, and the data of a *)
(* window that is shown has not been freed (UI.c:209-221), whatever the    *)
(* number of windows and the capacity of a pipe.                           *)
THEOREM TypeCorrect == Spec => []TypeOK
<1>1. WindowInv => TypeOK
  BY DEF WindowInv
<1> QED BY <1>1, AlwaysWindowInv, PTL

(* The data of a window of the panel is freed once (UI.c:198-222): the     *)
(* window with the button has gone by then.                                *)
THEOREM FreedOnce == Spec => []NoDoubleFree
<1>1. WindowInv => NoDoubleFree
  BY DEF WindowInv
<1> QED BY <1>1, AlwaysWindowInv, PTL

(* The stop button signals a process that is the monitor of its window,    *)
(* running or not yet reaped, never another one that has got its number    *)
(* (UI.c:204-208 and the flag of 290).                                     *)
THEOREM KillsRightProcess == Spec => KillHitsMonitor
<1>1. WindowInv /\ [Next]_vars =>
        [\A w \in Windows : win[w].pdata = "live" /\ win'[w].pdata = "freed" =>
           win[w].child \in {"running", "zombie"}]_vars
  BY DEF WindowInv, SessionOK
<1> QED BY <1>1, AlwaysWindowInv, PTL DEF Spec, KillHitsMonitor
=============================================================================
