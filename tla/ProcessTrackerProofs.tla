------------------------ MODULE ProcessTrackerProofs ------------------------
(***************************************************************************)
(* Proofs about ProcessTracker: its types, the mutual exclusion of the     *)
(* threads and cleanup, and what the mutex protects, for any number of     *)
(* processes and threads.                                                  *)
(***************************************************************************)
EXTENDS ProcessTracker, TLAPS

(* The CPU percentage of any two samples is an integer.                    *)
LEMMA CpuUseType ==
  ASSUME NEW x \in Int, NEW y \in Int
  PROVE  CpuUse(x, y) \in Int
<1> DEFINE q == IF y > 0 THEN (100 * x) \div y ELSE 0
<1>1. q \in Int
  OBVIOUS
<1>2. NumCpus \in Nat \ {0}
  BY ConstantsOK DEF ConstantsOK
<1>3. q \div NumCpus \in Int
  <2> HIDE DEF q
  <2> QED BY <1>1, <1>2
<1> QED BY <1>3 DEF CpuUse

(* The lines a thread decides to print are lines of the protocol.          *)
LEMMA OptionalType ==
  ASSUME NEW cond, NEW kind \in Kinds
  PROVE  Optional(cond, kind) \in Seq(Kinds)
<1>1. CASE cond
  BY <1>1 DEF Optional
<1>2. CASE ~cond
  BY <1>2 DEF Optional
<1> QED BY <1>1, <1>2

(* A reading cut to whole percents loses less than one percent.            *)
LEMMA CutReading ==
  ASSUME NEW ram \in Nat
  PROVE  /\ Truncated(ram) \in Nat
         /\ Unit * Truncated(ram) <= ram /\ ram < Unit * Truncated(ram) + Unit
<1> DEFINE u == Unit
<1>1. u \in Nat \ {0}
  BY ConstantsOK DEF ConstantsOK
<1> HIDE DEF u
<1>2. u * (ram \div u) <= ram /\ ram < u * (ram \div u) + u /\ ram \div u \in Nat
  BY <1>1
<1> QED BY <1>2 DEF Truncated, u

(* The peak alarms of a sample are lines of the protocol.                  *)
LEMMA PeaksType == \A a, h : Peaks(a, h) \in Seq(Kinds)
<1> TAKE a, h
<1>1. "ALERTA_PICO_CPU" \in Kinds /\ "ALERTA_PICO_RAM" \in Kinds
  BY DEF Kinds
<1> QED BY <1>1, OptionalType DEF Peaks

(* The report of a sample is a sequence of lines, never empty.             *)
LEMMA ReportType == \A a : Report(a) \in Seq(Kinds) /\ Report(a) # <<>>
<1> TAKE a
<1> DEFINE cpuLine == Optional(a.cpu > UmbralCPU /\ ~a.trusted, "ALERTA_USO_CPU")
           ramLine == Optional(a.ram > UmbralMem /\ ~a.trusted, "ALERTA_USO_RAM")
<1>1. /\ "ALERTA_USO_CPU" \in Kinds /\ "ALERTA_USO_RAM" \in Kinds
      /\ "FILA" \in Kinds
  BY DEF Kinds
<1>2. cpuLine \in Seq(Kinds) /\ ramLine \in Seq(Kinds)
  BY <1>1, OptionalType
<1>3. Report(a) = cpuLine \o ramLine \o <<"FILA">>
  BY DEF Report
<1> HIDE DEF cpuLine, ramLine
<1>4. cpuLine \o ramLine \in Seq(Kinds)
  BY <1>2
<1>5. <<"FILA">> \in Seq(Kinds) /\ Len(<<"FILA">>) = 1
  BY <1>1
<1>6. /\ (cpuLine \o ramLine) \o <<"FILA">> \in Seq(Kinds)
      /\ Len((cpuLine \o ramLine) \o <<"FILA">>) = Len(cpuLine \o ramLine) + 1
  BY <1>4, <1>5
<1> QED BY <1>3, <1>4, <1>6

(* Removing by swapping with the last element leaves a shorter sequence    *)
(* of the same elements.                                                   *)
LEMMA SwapRemoveType ==
  ASSUME NEW S, NEW seq \in Seq(S), NEW i \in DOMAIN seq
  PROVE  /\ SwapRemove(seq, i) \in Seq(S)
         /\ Len(SwapRemove(seq, i)) = Len(seq) - 1
         /\ \A k \in 1 .. Len(seq) - 1 :
              SwapRemove(seq, i)[k] = IF k = i THEN seq[Len(seq)] ELSE seq[k]
<1>1. Len(seq) \in Nat \ {0} /\ Len(seq) - 1 \in Nat
  OBVIOUS
<1>2. \A k \in 1 .. Len(seq) - 1 : seq[k] \in S /\ seq[Len(seq)] \in S
  BY <1>1
<1>3. SwapRemove(seq, i) \in [1 .. Len(seq) - 1 -> S]
  BY <1>2 DEF SwapRemove
<1>4. SwapRemove(seq, i) \in Seq(S)
  BY <1>1, <1>3
<1> QED BY <1>1, <1>3, <1>4 DEF SwapRemove

(* Assigning an element of a sequence.                                     *)
LEMMA SeqExcept ==
  ASSUME NEW S, NEW s \in Seq(S), NEW i, NEW e, i \in DOMAIN s => e \in S
  PROVE  /\ [s EXCEPT ![i] = e] \in Seq(S)
         /\ Len([s EXCEPT ![i] = e]) = Len(s)
<1> DEFINE r == [s EXCEPT ![i] = e]
<1>1. s \in [1 .. Len(s) -> S] /\ Len(s) \in Nat
  OBVIOUS
<1>2. r \in [1 .. Len(s) -> S]
  BY <1>1
<1> HIDE DEF r
<1>3. r \in Seq(S)
  BY <1>1, <1>2
<1>4. Len(r) = Len(s)
  BY <1>1, <1>2, <1>3
<1> QED BY <1>3, <1>4 DEF r

(* Writing fields of the locals of a thread leaves well-typed locals.      *)
LEMMA FreshLocals == \A p \in Pids : [NoLocals EXCEPT !.pid = p] \in Locals
<1>1. NoLocals \in Locals
  BY DEF NoLocals, Locals
<1>2. ASSUME NEW a \in Locals, NEW p \in Pids
      PROVE  [a EXCEPT !.pid = p] \in Locals
  BY DEF Locals
<1> QED BY <1>1, <1>2

(* The same after reading /proc/[pid]/status.                              *)
LEMMA StatusUpdate ==
  ASSUME NEW f \in [Threads -> Locals], NEW t \in Threads,
         NEW b \in BOOLEAN, NEW n \in Nat
  PROVE  [f EXCEPT ![t].trusted = b, ![t].ram = n] \in [Threads -> Locals]
  BY DEF Locals

(* The same when /proc/[pid]/status cannot be opened.                      *)
LEMMA TrustUpdate ==
  ASSUME NEW f \in [Threads -> Locals], NEW t \in Threads, NEW b \in BOOLEAN
  PROVE  [f EXCEPT ![t].trusted = b] \in [Threads -> Locals]
  BY DEF Locals

(* The same after reading /proc/[pid]/stat.                                *)
LEMMA TimeUpdate ==
  \A f \in [Threads -> Locals], t \in Threads, n \in Nat :
    [f EXCEPT ![t].time = n] \in [Threads -> Locals]
  BY DEF Locals

(* The same after reading /proc/stat.                                      *)
LEMMA TotalUpdate ==
  \A f \in [Threads -> Locals], t \in Threads, n \in Nat :
    [f EXCEPT ![t].total = n] \in [Threads -> Locals]
  BY DEF Locals

(* The same after finding the entry of the process.                        *)
LEMMA FoundUpdate ==
  ASSUME NEW f \in [Threads -> Locals], NEW t \in Threads, NEW n \in Nat, NEW c \in Int
  PROVE  [f EXCEPT ![t].idx = n, ![t].cpu = c] \in [Threads -> Locals]
  BY DEF Locals

(* Storing a sample in an entry leaves a well-typed entry.                 *)
LEMMA HistoryUpdate ==
  ASSUME NEW h \in History, NEW c \in Int, NEW r \in Int,
         NEW x \in Nat, NEW y \in Nat, NEW e \in Nat
  PROVE  [h EXCEPT !.cpu = c, !.ram = r, !.time = x, !.total = y,
                   !.known = TRUE, !.exact = e] \in History
  BY DEF History

-----------------------------------------------------------------------------
(* Types.                                                                  *)

(* A process that starts is well-typed.                                    *)
LEMMA FreshProcess == \A b \in Trust, r \in Rams : Fresh(b, r) \in Process
<1> TAKE b \in Trust, r \in Rams
<1>1. b \in BOOLEAN /\ r \in Nat
  BY ConstantsOK DEF ConstantsOK
<1>2. Dead \in Process
  BY DEF Dead, Process
<1>3. \A d \in Process :
        [d EXCEPT !.alive = TRUE, !.trusted = b, !.ram = r] \in Process
  BY <1>1 DEF Process
<1> QED BY <1>2, <1>3 DEF Fresh

(* The initial states are well-typed.                                      *)
LEMMA InitTyped == Init => TypeOK
<1> SUFFICES ASSUME Init PROVE TypeOK
  OBVIOUS
<1> USE ConstantsOK DEF ConstantsOK, Init
<1>1. proc \in [Pids -> Process]
  <2>1. Dead \in Process
    BY DEF Process, Dead
  <2>2. \A b \in Trust, r \in Rams : Fresh(b, r) \in Process
    BY FreshProcess
  <2> QED BY <2>1, <2>2
<1>2. arg \in [Threads -> Locals]
  BY DEF Locals, NoLocals
<1>3. pc \in [Threads -> ThreadPC] /\ main \in MainPC
  BY DEF ThreadPC, MainPC
<1>4. tracker \in Seq(History) /\ pipe \in Seq(Line)
  OBVIOUS
<1>5. lines \in [Threads -> Seq(Kinds)]
  OBVIOUS
<1>6. todo \subseteq Pids /\ gone \subseteq Pids /\ crashed \in BOOLEAN
  OBVIOUS
<1>7. /\ total \in Nat /\ capacity \in Nat \ {0} /\ cursor \in Nat \ {0}
      /\ elapsed \in Nat
  OBVIOUS
<1> QED BY <1>1, <1>2, <1>3, <1>4, <1>5, <1>6, <1>7 DEF TypeOK

(* What each thread holds, written once for the steps below.               *)
LEMMA ThreadTypes ==
  ASSUME TypeOK, NEW t \in Threads
  PROVE  /\ arg[t].pid \in Pids \cup {Nobody}
         /\ arg[t].time \in Nat /\ arg[t].total \in Nat /\ arg[t].ram \in Nat
         /\ arg[t].cpu \in Int /\ arg[t].idx \in Nat
         /\ lines[t] \in Seq(Kinds)
  BY DEF TypeOK, Locals

(* Writing a line keeps the pipe well-typed.                               *)
LEMMA PrintTyped ==
  ASSUME TypeOK, NEW kind \in Kinds, NEW pid \in Pids \cup {Nobody}, WriteLine(kind, pid)
  PROVE  pipe' \in Seq(Line)
<1>1. [kind |-> kind, pid |-> pid] \in Line
  BY DEF Line
<1> QED BY <1>1 DEF TypeOK, WriteLine

(* The main thread keeps the types.                                        *)
LEMMA MainTyped == TypeOK /\ MainStep => TypeOK'
<1> SUFFICES ASSUME TypeOK, MainStep PROVE TypeOK'
  OBVIOUS
<1> USE DEF TypeOK, env, table, mainVars, MainAt
<1>1. CASE CheckCleanup
  BY <1>1 DEF CheckCleanup, MainPC
<1>2. CASE LockForCleanup
  BY <1>2 DEF LockForCleanup, MainPC
<1>3. CASE CleanupKeep
  BY <1>3 DEF CleanupKeep, MainPC
<1>4. CASE CleanupDrop
  <2>1. cursor \in DOMAIN tracker
    BY <1>4 DEF CleanupDrop
  <2>2. tracker' \in Seq(History)
    BY <1>4, <2>1, SwapRemoveType DEF CleanupDrop
  <2> QED BY <1>4, <2>2 DEF CleanupDrop, MainPC
<1>5. CASE CleanupEnd
  BY <1>5 DEF CleanupEnd, MainPC
<1>6. CASE Banner
  <2>1. pipe' \in Seq(Line)
    BY <1>6, PrintTyped DEF Banner, Kinds
  <2> QED BY <1>6, <2>1 DEF Banner, MainPC
<1>7. CASE OpenProc
  BY <1>7 DEF OpenProc, MainPC
<1>8. CASE CloseProc
  BY <1>8 DEF CloseProc, MainPC
<1>9. CASE Sleep
  BY <1>9, ConstantsOK DEF Sleep, MainPC, ConstantsOK
<1>10. ASSUME NEW p \in Pids, ListSkip(p) PROVE TypeOK'
  BY <1>10 DEF ListSkip
<1>11. ASSUME NEW p \in Pids, NEW t \in Threads, ListEntry(p, t) PROVE TypeOK'
  <2>1. "status" \in ThreadPC
    BY DEF ThreadPC
  <2> QED BY <1>11, <2>1, FreshLocals DEF ListEntry
<1> QED BY <1>1, <1>2, <1>3, <1>4, <1>5, <1>6, <1>7, <1>8, <1>9, <1>10, <1>11
        DEF MainStep

(* A thread that exists knows which process it is to sample.               *)
ThreadHasPid == \A t \in Threads : pc[t] # "none" => arg[t].pid \in Pids

(* The steps of a thread keep the locals of all threads well-typed.        *)
LEMMA ArgTyped ==
  ASSUME TypeOK, ThreadHasPid, NEW t \in Threads, ThreadStep(t)
  PROVE  arg' \in [Threads -> Locals]
<1>0. arg \in [Threads -> Locals] /\ proc \in [Pids -> Process]
  BY DEF TypeOK
<1>1. CASE ReadStatus(t)
  <2>1. arg[t].pid \in Pids
    BY <1>1 DEF ReadStatus, ThreadHasPid, At
  <2>2. proc[arg[t].pid].trusted \in BOOLEAN /\ proc[arg[t].pid].ram \in Nat
    BY <1>0, <2>1 DEF Process
  <2>3. \A r \in {proc[arg[t].pid].ram} \cup (IF OpenFails THEN {0} ELSE {}) :
          [arg EXCEPT ![t].trusted = proc[arg[t].pid].trusted, ![t].ram = r]
             \in [Threads -> Locals]
    BY <1>0, <2>2, StatusUpdate
  <2>4. \A b \in Trust : [arg EXCEPT ![t].trusted = b] \in [Threads -> Locals]
    BY <1>0, TrustUpdate, ConstantsOK DEF ConstantsOK
  <2>5. \/ \E r \in {proc[arg[t].pid].ram} \cup (IF OpenFails THEN {0} ELSE {}) :
             arg' = [arg EXCEPT ![t].trusted = proc[arg[t].pid].trusted, ![t].ram = r]
        \/ \E b \in Trust : arg' = [arg EXCEPT ![t].trusted = b]
    BY <1>1, Zenon DEF ReadStatus
  <2>6. ASSUME NEW r \in {proc[arg[t].pid].ram} \cup (IF OpenFails THEN {0} ELSE {}),
               arg' = [arg EXCEPT ![t].trusted = proc[arg[t].pid].trusted, ![t].ram = r]
        PROVE  arg' \in [Threads -> Locals]
    <3>1. [arg EXCEPT ![t].trusted = proc[arg[t].pid].trusted, ![t].ram = r]
             \in [Threads -> Locals]
      BY <2>3
    <3> QED BY ONLY <2>6, <3>1
  <2>7. ASSUME NEW b \in Trust, arg' = [arg EXCEPT ![t].trusted = b]
        PROVE  arg' \in [Threads -> Locals]
    <3>1. [arg EXCEPT ![t].trusted = b] \in [Threads -> Locals]
      BY <2>4
    <3> QED BY ONLY <2>7, <3>1
  <2> QED BY ONLY <2>5, <2>6, <2>7
<1>2. CASE ReadStat(t)
  <2>1. arg[t].pid \in Pids
    BY <1>2 DEF ReadStat, ThreadHasPid, At
  <2>2. proc[arg[t].pid].time \in Nat
    BY <1>0, <2>1 DEF Process
  <2> QED BY <1>0, <1>2, <2>2, TimeUpdate DEF ReadStat
<1>3. CASE ReadCpuTime(t)
  <2>1. total \in Nat
    BY DEF TypeOK
  <2> QED BY <1>0, <1>3, <2>1, TotalUpdate DEF ReadCpuTime
<1>4. CASE FindTracked(t)
  <2>1. PICK i \in DOMAIN tracker :
          arg' = [arg EXCEPT ![t].idx = i,
                       ![t].cpu = CpuUse(arg[t].time - tracker[i].time,
                                         arg[t].total - tracker[i].total)]
    BY <1>4 DEF FindTracked
  <2>2. tracker[i] \in History /\ i \in Nat
    BY DEF TypeOK
  <2>3. tracker[i].time \in Nat /\ tracker[i].total \in Nat
    BY <2>2 DEF History
  <2>4. /\ arg[t].time - tracker[i].time \in Int
        /\ arg[t].total - tracker[i].total \in Int
    BY <2>3, ThreadTypes
  <2>5. CpuUse(arg[t].time - tracker[i].time, arg[t].total - tracker[i].total) \in Int
    BY <2>4, CpuUseType
  <2> QED BY <1>0, <2>1, <2>2, <2>5, FoundUpdate
<1>5. CASE PrintReport(t)
  <2>1. NoLocals \in Locals
    BY DEF NoLocals, Locals
  <2> QED BY <1>0, <1>5, <2>1 DEF PrintReport
<1>6. ASSUME \/ ReadStatFault(t) \/ LockTracker(t) \/ FindUntracked(t)
             \/ ReallocFails(t) \/ PrintPeak(t) \/ StoreSample(t) \/ InsertEntry(t)
      PROVE  arg' \in [Threads -> Locals]
  <2>1. arg' = arg
    BY <1>6 DEF ReadStatFault, LockTracker, FindUntracked, ReallocFails,
                PrintPeak, StoreSample, InsertEntry
  <2> QED BY <1>0, <2>1
<1> QED BY <1>1, <1>2, <1>3, <1>4, <1>5, <1>6 DEF ThreadStep

(* The steps of a thread keep the types.                                   *)
LEMMA ThreadTyped ==
  ASSUME TypeOK, ThreadHasPid, NEW t \in Threads, ThreadStep(t)
  PROVE  TypeOK'
<1> USE DEF TypeOK, env, table, mainVars, At, Goto
<1>0. /\ arg[t] \in Locals
      /\ {"none", "status", "stat", "cputime", "lock", "find", "peaks", "insert",
          "report"} \subseteq ThreadPC
  BY DEF ThreadPC, Holding
<1>1. CASE ReadStatus(t)
  BY <1>0, <1>1, ArgTyped DEF ReadStatus
<1>2. CASE ReadStat(t)
  BY <1>0, <1>2, ArgTyped DEF ReadStat
<1>3. CASE ReadStatFault(t)
  BY <1>3 DEF ReadStatFault
<1>4. CASE ReadCpuTime(t)
  BY <1>0, <1>4, ArgTyped DEF ReadCpuTime
<1>5. CASE LockTracker(t)
  BY <1>0, <1>5 DEF LockTracker
<1>6. CASE FindTracked(t)
  <2>1. lines' \in [Threads -> Seq(Kinds)]
    BY <1>6, PeaksType DEF FindTracked
  <2> QED BY <1>0, <1>6, <2>1, ArgTyped DEF FindTracked
<1>7. CASE FindUntracked(t)
  BY <1>0, <1>7, ConstantsOK DEF FindUntracked, ConstantsOK
<1>8. CASE ReallocFails(t)
  BY <1>8 DEF ReallocFails
<1>9. CASE PrintPeak(t)
  <2>1. Head(lines[t]) \in Kinds /\ Tail(lines[t]) \in Seq(Kinds)
    BY <1>9, ThreadTypes DEF PrintPeak
  <2>2. pipe' \in Seq(Line)
    BY <1>9, <2>1, ThreadTypes, PrintTyped DEF PrintPeak
  <2> QED BY <1>9, <2>1, <2>2 DEF PrintPeak
<1>10. CASE StoreSample(t)
  <2>1. Truncated(arg[t].ram) \in Int
    <3>1. arg[t].ram \in Nat
      BY ThreadTypes
    <3> QED BY ONLY <3>1, CutReading
  <2>2. tracker' \in Seq(History)
    <3> DEFINE stored ==
          [tracker[arg[t].idx] EXCEPT
             !.cpu = arg[t].cpu, !.ram = Truncated(arg[t].ram),
             !.time = arg[t].time, !.total = arg[t].total,
             !.known = TRUE, !.exact = arg[t].ram]
    <3>1. arg[t].idx \in DOMAIN tracker => stored \in History
      <4>1. \A i \in DOMAIN tracker : tracker[i] \in History
        OBVIOUS
      <4>2. /\ arg[t].cpu \in Int /\ arg[t].time \in Nat /\ arg[t].total \in Nat
            /\ arg[t].ram \in Nat
        BY ThreadTypes
      <4> QED BY ONLY <2>1, <4>1, <4>2, HistoryUpdate
    <3>2. tracker' = [tracker EXCEPT ![arg[t].idx] = stored]
      BY <1>10 DEF StoreSample
    <3>3. tracker \in Seq(History)
      OBVIOUS
    <3> HIDE DEF stored
    <3> QED BY ONLY <3>1, <3>2, <3>3, SeqExcept
  <2>3. lines' \in [Threads -> Seq(Kinds)]
    BY <1>10, ReportType DEF StoreSample
  <2> QED BY <1>0, <1>10, <2>2, <2>3 DEF StoreSample
<1>11. CASE InsertEntry(t)
  <2>1. ASSUME NEW g \in Garbage
        PROVE  [pid |-> arg[t].pid, cpu |-> 0, ram |-> g, time |-> arg[t].time,
                total |-> arg[t].total, known |-> FALSE, exact |-> 0] \in History
    BY <1>11, ThreadTypes, ConstantsOK
       DEF InsertEntry, ThreadHasPid, History, ConstantsOK
  <2>2. tracker' \in Seq(History)
    BY <1>11, <2>1 DEF InsertEntry
  <2>3. lines' \in [Threads -> Seq(Kinds)]
    BY <1>11, ReportType DEF InsertEntry
  <2> QED BY <1>0, <1>11, <2>2, <2>3 DEF InsertEntry
<1>12. CASE PrintReport(t)
  <2>1. Head(lines[t]) \in Kinds /\ Tail(lines[t]) \in Seq(Kinds)
    BY <1>12, ThreadTypes DEF PrintReport
  <2>2. pipe' \in Seq(Line)
    BY <1>12, <2>1, ThreadTypes, PrintTyped DEF PrintReport
  <2> QED BY <1>0, <1>12, <2>1, <2>2, ArgTyped DEF PrintReport
<1> QED BY <1>1, <1>2, <1>3, <1>4, <1>5, <1>6, <1>7, <1>8, <1>9, <1>10, <1>11, <1>12
        DEF ThreadStep

(* The kernel and the reader keep the types.                               *)
LEMMA EnvTyped == TypeOK /\ EnvStep => TypeOK'
<1> SUFFICES ASSUME TypeOK, EnvStep PROVE TypeOK'
  OBVIOUS
<1> USE DEF TypeOK, table, mainVars, env
<1>1. CASE ReadLine
  BY <1>1 DEF ReadLine
<1>2. ASSUME NEW procNow \in [Pids -> Process], NEW totalNow \in Nat,
             NEW goneNow \in SUBSET Pids, KernelStep(procNow, totalNow, goneNow)
      PROVE  TypeOK'
  BY <1>2 DEF KernelStep
<1> HIDE DEF TypeOK
<1>3. ASSUME NEW p \in Pids, ProcessStarts(p) PROVE TypeOK'
  <2>1. PICK b \in Trust, r \in Rams :
          KernelStep([proc EXCEPT ![p] = Fresh(b, r)], total, gone \ {p})
    BY <1>3 DEF ProcessStarts
  <2>2. [proc EXCEPT ![p] = Fresh(b, r)] \in [Pids -> Process]
    BY FreshProcess DEF TypeOK
  <2>3. total \in Nat /\ gone \ {p} \in SUBSET Pids
    BY DEF TypeOK
  <2> QED BY <1>2, <2>1, <2>2, <2>3
<1>4. ASSUME NEW p \in Pids, ProcessExits(p) PROVE TypeOK'
  <2>1. Dead \in Process
    BY DEF Process, Dead
  <2>2. [proc EXCEPT ![p] = Dead] \in [Pids -> Process]
    BY <2>1 DEF TypeOK
  <2> QED BY <1>2, <1>4, <2>2 DEF TypeOK, ProcessExits
<1>5. ASSUME NEW p \in Pids, ClockTick(p) PROVE TypeOK'
  <2>1. PICK n \in 0 .. NumCpus :
          KernelStep([proc EXCEPT ![p].time = @ + n], total + NumCpus, gone)
    BY <1>5 DEF ClockTick
  <2>2. NumCpus \in Nat /\ n \in Nat
    BY ConstantsOK DEF ConstantsOK
  <2>3. [proc EXCEPT ![p].time = @ + n] \in [Pids -> Process]
    <3>1. proc \in [Pids -> Process] /\ proc[p].time + n \in Nat
      BY <2>2 DEF TypeOK, Process
    <3>2. \A k \in Nat : [proc EXCEPT ![p].time = k] \in [Pids -> Process]
      BY <3>1 DEF Process
    <3> QED BY <3>1, <3>2
  <2>4. total + NumCpus \in Nat
    BY <2>2 DEF TypeOK
  <2> QED BY <1>2, <2>1, <2>3, <2>4 DEF TypeOK
<1>6. ASSUME NEW p \in Pids, ProcessResizes(p) PROVE TypeOK'
  <2>1. PICK r \in Rams : KernelStep([proc EXCEPT ![p].ram = r], total, gone)
    BY <1>6 DEF ProcessResizes
  <2>2. r \in Nat
    BY ConstantsOK DEF ConstantsOK
  <2>3. [proc EXCEPT ![p].ram = r] \in [Pids -> Process]
    BY <2>2 DEF TypeOK, Process
  <2> QED BY <1>2, <2>1, <2>3 DEF TypeOK
<1> QED BY <1>1, <1>3, <1>4, <1>5, <1>6 DEF EnvStep

(* Only these three steps change what ThreadHasPid is about.               *)
LEMMA HasPidStep == TypeOK /\ ThreadHasPid /\ Next => ThreadHasPid'
<1> SUFFICES ASSUME TypeOK, ThreadHasPid, Next PROVE ThreadHasPid'
  OBVIOUS
<1>0. pc \in [Threads -> ThreadPC] /\ arg \in [Threads -> Locals]
  BY DEF TypeOK
<1>1. CASE MainStep
  <2>1. ASSUME NEW p \in Pids, NEW u \in Threads, ListEntry(p, u)
        PROVE  ThreadHasPid'
    <3>1. /\ pc' = [pc EXCEPT ![u] = "status"]
          /\ arg' = [arg EXCEPT ![u] = [NoLocals EXCEPT !.pid = p]]
      BY <2>1 DEF ListEntry
    <3>2. [NoLocals EXCEPT !.pid = p].pid = p
      BY DEF NoLocals
    <3> QED BY <1>0, <3>1, <3>2 DEF ThreadHasPid
  <2>2. ASSUME \/ CheckCleanup \/ LockForCleanup \/ CleanupKeep \/ CleanupDrop
               \/ CleanupEnd \/ Banner \/ OpenProc \/ CloseProc \/ Sleep
               \/ \E p \in Pids : ListSkip(p)
        PROVE  pc' = pc /\ arg' = arg
    BY <2>2 DEF CheckCleanup, LockForCleanup, CleanupKeep, CleanupDrop, CleanupEnd,
                Banner, OpenProc, CloseProc, Sleep, ListSkip
  <2>3. pc' = pc /\ arg' = arg => ThreadHasPid'
    BY DEF ThreadHasPid
  <2> QED BY <1>1, <2>1, <2>2, <2>3 DEF MainStep
<1>2. ASSUME NEW u \in Threads, ThreadStep(u) PROVE ThreadHasPid'
  <2>1. \A t \in Threads \ {u} : pc'[t] = pc[t] /\ arg'[t] = arg[t]
    BY <1>0, <1>2 DEF ThreadStep, ReadStatus, ReadStat, ReadStatFault, ReadCpuTime,
       LockTracker, FindTracked, FindUntracked, ReallocFails, PrintPeak, StoreSample,
       InsertEntry, PrintReport, Goto
  <2>2. pc[u] # "none" /\ (pc'[u] # "none" => arg'[u].pid = arg[u].pid)
    <3>1. CASE ReadStatus(u)
      BY <1>0, <3>1 DEF ReadStatus, At, Locals
    <3>2. CASE ReadStat(u)
      BY <1>0, <3>2 DEF ReadStat, At, Locals
    <3>3. CASE ReadCpuTime(u)
      BY <1>0, <3>3 DEF ReadCpuTime, At, Locals
    <3>4. CASE FindTracked(u)
      BY <1>0, <3>4 DEF FindTracked, At, Locals
    <3>5. CASE PrintReport(u)
      BY <1>0, <3>5 DEF PrintReport, At, Goto
    <3>6. ASSUME \/ ReadStatFault(u) \/ LockTracker(u) \/ FindUntracked(u)
                 \/ ReallocFails(u) \/ PrintPeak(u) \/ StoreSample(u) \/ InsertEntry(u)
          PROVE  pc[u] # "none" /\ arg' = arg
      BY <3>6 DEF ReadStatFault, LockTracker, FindUntracked, ReallocFails,
                  PrintPeak, StoreSample, InsertEntry, At
    <3> QED BY <1>2, <3>1, <3>2, <3>3, <3>4, <3>5, <3>6 DEF ThreadStep
  <2> QED BY <2>1, <2>2 DEF ThreadHasPid
<1>3. CASE EnvStep
  <2>1. pc' = pc /\ arg' = arg
    BY <1>3 DEF EnvStep, ReadLine, ProcessStarts, ProcessExits, ClockTick,
                ProcessResizes, KernelStep
  <2> QED BY <2>1 DEF ThreadHasPid
<1> QED BY <1>1, <1>2, <1>3 DEF Next

(* Every variable keeps its type, for any number of processes and threads; *)
(* that a thread always knows its process makes TypeOK inductive.          *)
THEOREM TypeCorrect == Spec => [](TypeOK /\ ThreadHasPid)
<1>1. Init => TypeOK /\ ThreadHasPid
  BY InitTyped DEF Init, ThreadHasPid
<1>2. TypeOK /\ ThreadHasPid /\ [Next]_vars => (TypeOK /\ ThreadHasPid)'
  <2> SUFFICES ASSUME TypeOK, ThreadHasPid, [Next]_vars
               PROVE  (TypeOK /\ ThreadHasPid)'
    OBVIOUS
  <2>1. CASE Next
    BY <2>1, MainTyped, ThreadTyped, EnvTyped, HasPidStep DEF Next
  <2>2. CASE UNCHANGED vars
    BY <2>2 DEF vars, env, table, mainVars, TypeOK, ThreadHasPid
  <2> QED BY <2>1, <2>2
<1> QED BY <1>1, <1>2, PTL DEF Spec

-----------------------------------------------------------------------------
(* What the mutex protects.                                                *)

(* The owner of the mutex is the one that is between lock and unlock.      *)
Exclusive ==
  /\ \A t \in Threads : pc[t] \in Holding <=> lock = t
  /\ main = "cleanup" <=> lock = MainThread

(* The process a thread is about to insert is not in the table.            *)
InsertFresh == \A t \in Threads : pc[t] = "insert" => arg[t].pid \notin Tracked

TableInv ==
  Exclusive /\ NoDuplicatePids /\ LookupStable /\ WithinCapacity /\ InsertFresh

(* A step outside the critical sections.  It changes neither the table nor *)
(* the mutex, and no thread enters, leaves or moves inside a section.      *)
LEMMA Quiet ==
  ASSUME TableInv, UNCHANGED <<tracker, capacity, lock>>,
         main' = "cleanup" <=> main = "cleanup",
         \A t \in Threads :
            \/ pc'[t] = pc[t] /\ arg'[t] = arg[t]
            \/ pc[t] \notin Holding /\ pc'[t] \notin Holding
  PROVE  TableInv'
<1>1. Exclusive'
  BY DEF TableInv, Exclusive
<1>2. NoDuplicatePids' /\ Tracked' = Tracked
  BY DEF TableInv, NoDuplicatePids, Tracked
<1>3. \A t \in Threads : pc'[t] \in {"peaks", "insert"} => pc'[t] = pc[t] /\ arg'[t] = arg[t]
  BY DEF Holding
<1>4. LookupStable' /\ WithinCapacity' /\ InsertFresh'
  BY <1>2, <1>3 DEF TableInv, LookupStable, WithinCapacity, InsertFresh
<1> QED BY <1>1, <1>2, <1>4 DEF TableInv

(* While somebody else owns the mutex, no thread is in a section.          *)
LEMMA OwnerAlone ==
  ASSUME TableInv, NEW t \in Threads, lock # t
  PROVE  pc[t] \notin {"find", "peaks", "insert"}
  BY DEF TableInv, Exclusive, Holding

(* The swap of cleanup keeps TableInv: the mutex is its own, so nobody     *)
(* depends on the position of an entry (guardia_info.c:25).                *)
LEMMA CleanupStep == TypeOK /\ TableInv /\ CleanupDrop => TableInv'
<1> SUFFICES ASSUME TypeOK, TableInv, CleanupDrop PROVE TableInv'
  OBVIOUS
<1>1. /\ lock = MainThread /\ main = "cleanup" /\ main' = "cleanup"
      /\ UNCHANGED <<lock, pc, arg, capacity>>
      /\ cursor \in DOMAIN tracker /\ tracker \in Seq(History)
      /\ tracker' = SwapRemove(tracker, cursor)
  BY DEF CleanupDrop, MainAt, TableInv, Exclusive, TypeOK
<1>2. \A t \in Threads : pc[t] \notin {"find", "peaks", "insert"}
  BY <1>1, OwnerAlone, ConstantsOK DEF ConstantsOK
<1>3. /\ tracker' \in Seq(History) /\ Len(tracker') = Len(tracker) - 1
      /\ \A k \in 1 .. Len(tracker) - 1 :
           tracker'[k] = IF k = cursor THEN tracker[Len(tracker)] ELSE tracker[k]
  BY <1>1, SwapRemoveType
<1>4. NoDuplicatePids'
  <2>1. SUFFICES ASSUME NEW i \in 1 .. Len(tracker) - 1, NEW j \in 1 .. Len(tracker) - 1,
                        tracker'[i].pid = tracker'[j].pid
                 PROVE  i = j
    BY <1>3 DEF NoDuplicatePids
  <2>2. \A k, m \in DOMAIN tracker : tracker[k].pid = tracker[m].pid => k = m
    BY DEF TableInv, NoDuplicatePids
  <2>3. Len(tracker) \in Nat \ {0} /\ DOMAIN tracker = 1 .. Len(tracker)
    BY <1>1
  <2> QED BY <1>1, <1>3, <2>1, <2>2, <2>3
<1>5. Len(tracker') <= capacity'
  BY <1>1, <1>3 DEF TableInv, WithinCapacity, TypeOK
<1> QED BY <1>1, <1>2, <1>4, <1>5
        DEF TableInv, Exclusive, LookupStable, WithinCapacity, InsertFresh

(* The main thread keeps TableInv.                                         *)
LEMMA MainKeepsTable == TypeOK /\ TableInv /\ MainStep => TableInv'
<1> SUFFICES ASSUME TypeOK, TableInv, MainStep PROVE TableInv'
  OBVIOUS
<1> USE DEF table, env, mainVars, MainAt
<1>1. CASE CheckCleanup \/ Banner \/ OpenProc \/ CloseProc \/ Sleep \/ CleanupKeep
  BY <1>1, Quiet DEF CheckCleanup, Banner, OpenProc, CloseProc, Sleep, CleanupKeep
<1>2. ASSUME NEW p \in Pids, ListSkip(p) PROVE TableInv'
  BY <1>2, Quiet DEF ListSkip
<1>3. ASSUME NEW p \in Pids, NEW u \in Threads, ListEntry(p, u) PROVE TableInv'
  <2>1. /\ UNCHANGED <<tracker, capacity, lock>> /\ main' = main
        /\ pc[u] = "none" /\ pc' = [pc EXCEPT ![u] = "status"]
        /\ \A t \in Threads \ {u} : pc'[t] = pc[t] /\ arg'[t] = arg[t]
    BY <1>3 DEF ListEntry, TypeOK
  <2>2. pc'[u] = "status"
    BY <2>1 DEF TypeOK
  <2>3. \A t \in Threads : \/ pc'[t] = pc[t] /\ arg'[t] = arg[t]
                           \/ pc[t] \notin Holding /\ pc'[t] \notin Holding
    BY <2>1, <2>2 DEF Holding
  <2> QED BY <2>1, <2>3, Quiet
<1>4. CASE LockForCleanup
  <2>1. /\ lock = Nobody /\ lock' = MainThread /\ main' = "cleanup"
        /\ UNCHANGED <<tracker, capacity, pc, arg>>
    BY <1>4 DEF LockForCleanup
  <2>2. \A t \in Threads : t # Nobody /\ t # MainThread
    BY ConstantsOK DEF ConstantsOK
  <2>3. Exclusive'
    BY <2>1, <2>2 DEF TableInv, Exclusive
  <2> QED BY <2>1, <2>3 DEF TableInv, NoDuplicatePids, LookupStable, WithinCapacity,
                            InsertFresh, Tracked
<1>5. CASE CleanupDrop
  BY <1>5, CleanupStep
<1>6. CASE CleanupEnd
  <2>1. /\ main = "cleanup" /\ lock' = Nobody /\ main' = "banner"
        /\ UNCHANGED <<tracker, capacity, pc, arg>>
    BY <1>6 DEF CleanupEnd
  <2>2. Nobody # MainThread /\ \A t \in Threads : t # Nobody /\ t # MainThread
    BY ConstantsOK DEF ConstantsOK
  <2>3. Exclusive'
    BY <2>1, <2>2 DEF TableInv, Exclusive
  <2> QED BY <2>1, <2>3 DEF TableInv, NoDuplicatePids, LookupStable, WithinCapacity,
                            InsertFresh, Tracked
<1> QED BY <1>1, <1>2, <1>3, <1>4, <1>5, <1>6 DEF MainStep

(* A thread changes its own place and its own locals only.                 *)
LEMMA OthersStay ==
  ASSUME TypeOK, NEW u \in Threads, ThreadStep(u)
  PROVE  /\ \A t \in Threads \ {u} : pc'[t] = pc[t] /\ arg'[t] = arg[t]
         /\ main' = main
<1>1. pc \in [Threads -> ThreadPC] /\ arg \in [Threads -> Locals]
  BY DEF TypeOK
<1> QED BY <1>1 DEF ThreadStep, ReadStatus, ReadStat, ReadStatFault, ReadCpuTime,
       LockTracker, FindTracked, FindUntracked, ReallocFails, PrintPeak, StoreSample,
       InsertEntry, PrintReport, Goto, mainVars

(* Outside the critical section a thread leaves the table alone.           *)
LEMMA QuietThread ==
  ASSUME TypeOK, TableInv, NEW u \in Threads, ThreadStep(u),
         UNCHANGED <<tracker, capacity, lock>>,
         pc[u] \notin Holding, pc'[u] \notin Holding
  PROVE  TableInv'
  BY OthersStay, Quiet

(* The owner of the mutex moves inside its critical section or leaves it:  *)
(* what is left to show is about the table and about the owner itself.     *)
LEMMA OwnerStep ==
  ASSUME TypeOK, TableInv, NEW u \in Threads, ThreadStep(u), lock = u,
         \/ lock' = u /\ pc'[u] \in Holding
         \/ lock' = Nobody /\ pc'[u] \notin Holding,
         NoDuplicatePids', Len(tracker') <= capacity',
         pc'[u] = "peaks" => /\ arg'[u].idx \in DOMAIN tracker'
                             /\ tracker'[arg'[u].idx].pid = arg'[u].pid,
         pc'[u] = "insert" => Len(tracker') < capacity' /\ arg'[u].pid \notin Tracked'
  PROVE  TableInv'
<1>1. \A t \in Threads : t # Nobody /\ t # MainThread
  BY ConstantsOK DEF ConstantsOK
<1>2. main' # "cleanup" /\ lock' # MainThread
  BY <1>1, OthersStay, ConstantsOK DEF TableInv, Exclusive, ConstantsOK
<1>3. \A t \in Threads \ {u} : pc[t] \notin Holding /\ pc'[t] \notin Holding
  BY OthersStay DEF TableInv, Exclusive
<1>4. Exclusive'
  BY <1>1, <1>2, <1>3 DEF Exclusive
<1>5. \A t \in Threads \ {u} : pc'[t] # "peaks" /\ pc'[t] # "insert"
  BY <1>3 DEF Holding
<1> QED BY <1>4, <1>5 DEF TableInv, LookupStable, WithinCapacity, InsertFresh

(* The steps of a thread keep TableInv.                                    *)
LEMMA ThreadKeepsTable ==
  ASSUME TypeOK, ThreadHasPid, TableInv, NEW u \in Threads, ThreadStep(u)
  PROVE  TableInv'
<1>0. /\ pc \in [Threads -> ThreadPC] /\ arg \in [Threads -> Locals]
      /\ tracker \in Seq(History) /\ capacity \in Nat \ {0}
  BY DEF TypeOK
<1> USE DEF table, At, Goto
<1>1. CASE ReadStatus(u) \/ ReadStat(u) \/ ReadCpuTime(u) \/ PrintReport(u)
  <2>1. pc[u] \notin Holding /\ pc'[u] \notin Holding
    BY <1>0, <1>1 DEF ReadStatus, ReadStat, ReadCpuTime, PrintReport, Holding
  <2>2. UNCHANGED <<tracker, capacity, lock>>
    BY <1>1 DEF ReadStatus, ReadStat, ReadCpuTime, PrintReport
  <2> QED BY <2>1, <2>2, QuietThread
<1>2. CASE ReadStatFault(u) \/ ReallocFails(u) \/ PrintPeak(u)
  <2>1. UNCHANGED <<tracker, capacity, lock, pc, arg, main>>
    BY <1>2 DEF ReadStatFault, ReallocFails, PrintPeak, mainVars
  <2> QED BY <2>1, Quiet
<1>3. CASE LockTracker(u)
  <2>1. /\ lock = Nobody /\ lock' = u /\ pc' = [pc EXCEPT ![u] = "find"]
        /\ UNCHANGED <<tracker, capacity, arg, main>>
    BY <1>3 DEF LockTracker, mainVars
  <2>2. \A t \in Threads : t # Nobody /\ t # MainThread
    BY ConstantsOK DEF ConstantsOK
  <2>3. Exclusive'
    <3>1. \A t \in Threads : pc[t] \notin Holding
      BY <2>1, <2>2 DEF TableInv, Exclusive
    <3>2. main' # "cleanup" /\ lock' # MainThread
      BY <2>1, <2>2, ConstantsOK DEF TableInv, Exclusive, ConstantsOK
    <3>3. pc'[u] \in Holding /\ \A t \in Threads \ {u} : pc'[t] = pc[t]
      BY <1>0, <2>1 DEF Holding
    <3> QED BY <2>1, <3>1, <3>2, <3>3 DEF Exclusive
  <2>4. \A t \in Threads : pc'[t] \in {"peaks", "insert"} => pc'[t] = pc[t]
    BY <1>0, <2>1
  <2> QED BY <2>1, <2>3, <2>4 DEF TableInv, NoDuplicatePids, LookupStable,
                                  WithinCapacity, InsertFresh, Tracked
<1>4. CASE FindTracked(u)
  <2>1. PICK i \in DOMAIN tracker :
          /\ tracker[i].pid = arg[u].pid
          /\ arg' = [arg EXCEPT ![u].idx = i,
                       ![u].cpu = CpuUse(arg[u].time - tracker[i].time,
                                         arg[u].total - tracker[i].total)]
    BY <1>4 DEF FindTracked
  <2>2. arg'[u].idx = i /\ arg'[u].pid = arg[u].pid
    BY <1>0, <2>1 DEF Locals
  <2>3. /\ UNCHANGED <<tracker, capacity, lock>>
        /\ pc[u] = "find" /\ pc'[u] = "peaks"
    BY <1>0, <1>4 DEF FindTracked
  <2>4. lock = u /\ pc'[u] \in Holding
    BY <2>3 DEF TableInv, Exclusive, Holding
  <2>5. NoDuplicatePids' /\ Len(tracker') <= capacity'
    BY <2>3 DEF TableInv, NoDuplicatePids, WithinCapacity
  <2> QED BY <2>1, <2>2, <2>3, <2>4, <2>5, OwnerStep
<1>5. CASE FindUntracked(u)
  <2>1. /\ UNCHANGED <<tracker, lock, arg>> /\ arg[u].pid \notin Tracked
        /\ pc[u] = "find" /\ pc'[u] = "insert"
    BY <1>0, <1>5 DEF FindUntracked
  <2>2. Len(tracker') < capacity'
    <3>1. Len(tracker) <= capacity
      BY DEF TableInv, WithinCapacity
    <3> QED BY <1>0, <1>5, <2>1, <3>1 DEF FindUntracked
  <2>3. lock = u /\ pc'[u] \in Holding
    BY <2>1 DEF TableInv, Exclusive, Holding
  <2>4. NoDuplicatePids' /\ Tracked' = Tracked
    BY <2>1 DEF TableInv, NoDuplicatePids, Tracked
  <2>5. Len(tracker') <= capacity'
    BY <1>0, <1>5, <2>1, <2>2 DEF FindUntracked
  <2> QED BY <2>1, <2>2, <2>3, <2>4, <2>5, OwnerStep
<1>6. CASE StoreSample(u)
  <2>1. /\ lock' = Nobody /\ pc[u] = "peaks" /\ pc'[u] = "report" /\ capacity' = capacity
    BY <1>0, <1>6 DEF StoreSample
  <2>2. lock = u /\ pc'[u] \notin Holding
    BY <2>1 DEF TableInv, Exclusive, Holding
  <2>3. PICK e : /\ tracker' = [tracker EXCEPT ![arg[u].idx] = e]
                 /\ e.pid = tracker[arg[u].idx].pid /\ e \in History
    <3> DEFINE old == tracker[arg[u].idx]
               e == [old EXCEPT !.cpu = arg[u].cpu, !.ram = Truncated(arg[u].ram),
                                !.time = arg[u].time, !.total = arg[u].total,
                                !.known = TRUE, !.exact = arg[u].ram]
    <3>1. arg[u].idx \in DOMAIN tracker
      BY <2>1 DEF TableInv, LookupStable
    <3>2. old \in History /\ Truncated(arg[u].ram) \in Int
      <4>1. arg[u].ram \in Nat
        BY ThreadTypes
      <4>2. Truncated(arg[u].ram) \in Int
        BY ONLY <4>1, CutReading
      <4> QED BY <1>0, <3>1, <4>2
    <3>3. e \in History
      BY <3>2, ThreadTypes, HistoryUpdate
    <3>4. e.pid = old.pid
      BY <3>2 DEF History
    <3>5. tracker' = [tracker EXCEPT ![arg[u].idx] = e]
      BY <1>6 DEF StoreSample
    <3> QED BY <3>3, <3>4, <3>5
  <2>4. Len(tracker') = Len(tracker) /\ DOMAIN tracker' = DOMAIN tracker
    BY <1>0, <2>3, SeqExcept
  <2>5. \A k \in DOMAIN tracker : tracker'[k].pid = tracker[k].pid
    BY <1>0, <2>3
  <2>6. NoDuplicatePids' /\ Len(tracker') <= capacity'
    BY <2>1, <2>4, <2>5 DEF TableInv, NoDuplicatePids, WithinCapacity
  <2> QED BY <2>1, <2>2, <2>6, OwnerStep
<1>7. CASE InsertEntry(u)
  <2>1. /\ lock' = Nobody /\ pc[u] = "insert" /\ pc'[u] = "report" /\ capacity' = capacity
    BY <1>0, <1>7 DEF InsertEntry
  <2>2. lock = u /\ pc'[u] \notin Holding
    BY <2>1 DEF TableInv, Exclusive, Holding
  <2>3. PICK e : tracker' = Append(tracker, e) /\ e.pid = arg[u].pid
    BY <1>7 DEF InsertEntry
  <2>4. /\ DOMAIN tracker' = 1 .. Len(tracker) + 1 /\ Len(tracker') = Len(tracker) + 1
        /\ \A k \in 1 .. Len(tracker) : tracker'[k] = tracker[k]
        /\ tracker'[Len(tracker) + 1] = e
    BY <1>0, <2>3
  <2>5. \A k \in 1 .. Len(tracker) : tracker[k].pid # arg[u].pid
    BY <1>0, <2>1 DEF TableInv, InsertFresh, Tracked
  <2>6. NoDuplicatePids'
    <3>1. \A i, j \in 1 .. Len(tracker) : tracker[i].pid = tracker[j].pid => i = j
      BY <1>0 DEF TableInv, NoDuplicatePids
    <3>2. Len(tracker) \in Nat
      BY <1>0
    <3>3. SUFFICES ASSUME NEW i \in 1 .. Len(tracker) + 1, NEW j \in 1 .. Len(tracker) + 1,
                          tracker'[i].pid = tracker'[j].pid
                   PROVE  i = j
      BY <2>4 DEF NoDuplicatePids
    <3> QED BY <2>3, <2>4, <2>5, <3>1, <3>2, <3>3
  <2>7. Len(tracker') <= capacity'
    BY <1>0, <2>1, <2>4 DEF TableInv, WithinCapacity
  <2> QED BY <2>1, <2>2, <2>6, <2>7, OwnerStep
<1> QED BY <1>1, <1>2, <1>3, <1>4, <1>5, <1>6, <1>7 DEF ThreadStep

(* The environment keeps TableInv: it does not touch the table.            *)
LEMMA EnvKeepsTable == TableInv /\ EnvStep => TableInv'
<1>1. EnvStep => UNCHANGED <<tracker, capacity, lock, main, pc, arg>>
  BY DEF EnvStep, ReadLine, ProcessStarts, ProcessExits, ClockTick, ProcessResizes,
         KernelStep, table, mainVars
<1> QED BY <1>1, Quiet

(* The table is safe for any number of processes and threads: the owner of *)
(* tracker_mutex is alone in its section, an entry per process, the entry  *)
(* found stays where it was found, and entries stay within capacity.       *)
THEOREM TableSafe == Spec => []TableInv
<1>1. Init => TableInv
  BY ConstantsOK DEF Init, TableInv, Exclusive, NoDuplicatePids, LookupStable,
     WithinCapacity, InsertFresh, Holding, ConstantsOK
<1>2. TypeOK /\ ThreadHasPid /\ TableInv /\ [Next]_vars => TableInv'
  <2> SUFFICES ASSUME TypeOK, ThreadHasPid, TableInv, [Next]_vars PROVE TableInv'
    OBVIOUS
  <2>1. CASE Next
    BY <2>1, MainKeepsTable, ThreadKeepsTable, EnvKeepsTable DEF Next
  <2>2. CASE UNCHANGED vars
    BY <2>2, Quiet DEF vars, table, mainVars
  <2> QED BY <2>1, <2>2
<1> QED BY <1>1, <1>2, TypeCorrect, PTL DEF Spec

(* The properties the runs check, as consequences.                         *)

(* The table never has two entries of one process (guardia_info.c:38-105). *)
THEOREM NoDuplicates == Spec => []NoDuplicatePids
<1>1. TableInv => NoDuplicatePids
  BY DEF TableInv
<1> QED BY <1>1, TableSafe, PTL

(* The entry that update_process has found is where it found it until it   *)
(* has been written (guardia_info.c:40-74).                                *)
THEOREM FoundEntryStays == Spec => []LookupStable
<1>1. TableInv => LookupStable
  BY DEF TableInv
<1> QED BY <1>1, TableSafe, PTL

(* The entries fit in the memory allocated for them                        *)
(* (guardia_info.c:79-100).                                                *)
THEOREM FitsInMemory == Spec => []WithinCapacity
<1>1. TableInv => WithinCapacity
  BY DEF TableInv
<1> QED BY <1>1, TableSafe, PTL

-----------------------------------------------------------------------------
(* What cleanup removes and what it leaves.                                *)

(* Processes in gone do not exist, and cleanup has none of them behind it. *)
CleanupInv ==
  /\ \A p \in gone : ~proc[p].alive
  /\ main = "cleanup" =>
       \A i \in DOMAIN tracker : i < cursor => tracker[i].pid \notin gone

(* While cleanup runs, the threads leave the table alone.                  *)
LEMMA ThreadKeepsPids ==
  ASSUME TypeOK, TableInv, NEW u \in Threads, ThreadStep(u)
  PROVE  /\ UNCHANGED <<proc, gone, main, cursor>>
         /\ main = "cleanup" => tracker' = tracker
         /\ Tracked \subseteq Tracked'
<1>0. tracker \in Seq(History)
  BY DEF TypeOK
<1>1. UNCHANGED <<proc, gone, main, cursor>>
  BY DEF ThreadStep, ReadStatus, ReadStat, ReadStatFault, ReadCpuTime, LockTracker,
     FindTracked, FindUntracked, ReallocFails, PrintPeak, StoreSample, InsertEntry,
     PrintReport, env, mainVars
<1>2. CASE StoreSample(u)
  <2>1. pc[u] = "peaks"
    BY <1>2 DEF StoreSample, At
  <2>2. main # "cleanup"
    BY <2>1, ConstantsOK DEF TableInv, Exclusive, Holding, ConstantsOK
  <2>3. arg[u].idx \in DOMAIN tracker
    BY <2>1 DEF TableInv, LookupStable
  <2>4. PICK e : tracker' = [tracker EXCEPT ![arg[u].idx] = e]
                 /\ e.pid = tracker[arg[u].idx].pid
    <3>1. tracker[arg[u].idx] \in History
      BY <1>0, <2>3
    <3> DEFINE e == [tracker[arg[u].idx] EXCEPT
                       !.cpu = arg[u].cpu, !.ram = Truncated(arg[u].ram),
                       !.time = arg[u].time, !.total = arg[u].total,
                       !.known = TRUE, !.exact = arg[u].ram]
    <3>2. e.pid = tracker[arg[u].idx].pid
      BY <3>1 DEF History
    <3>3. tracker' = [tracker EXCEPT ![arg[u].idx] = e]
      BY <1>2 DEF StoreSample
    <3> QED BY <3>2, <3>3
  <2>5. DOMAIN tracker' = DOMAIN tracker
        /\ \A k \in DOMAIN tracker : tracker'[k].pid = tracker[k].pid
    BY <1>0, <2>4
  <2> QED BY <1>1, <2>2, <2>5 DEF Tracked
<1>3. CASE InsertEntry(u)
  <2>1. pc[u] = "insert"
    BY <1>3 DEF InsertEntry, At
  <2>2. main # "cleanup"
    BY <2>1, ConstantsOK DEF TableInv, Exclusive, Holding, ConstantsOK
  <2>3. PICK e : tracker' = Append(tracker, e)
    BY <1>3 DEF InsertEntry
  <2>4. \A k \in DOMAIN tracker : k \in DOMAIN tracker' /\ tracker'[k] = tracker[k]
    BY <1>0, <2>3
  <2> QED BY <1>1, <2>2, <2>4 DEF Tracked
<1>4. ASSUME \/ ReadStatus(u) \/ ReadStat(u) \/ ReadStatFault(u) \/ ReadCpuTime(u)
             \/ LockTracker(u) \/ FindTracked(u) \/ FindUntracked(u)
             \/ ReallocFails(u) \/ PrintPeak(u) \/ PrintReport(u)
      PROVE  tracker' = tracker
  BY <1>4 DEF ReadStatus, ReadStat, ReadStatFault, ReadCpuTime, LockTracker,
     FindTracked, FindUntracked, ReallocFails, PrintPeak, PrintReport, table
<1> QED BY <1>1, <1>2, <1>3, <1>4 DEF ThreadStep, Tracked

(* A main step other than the swap leaves the table alone.                 *)
LEMMA MainKeepsPids ==
  MainStep /\ ~CleanupDrop => tracker' = tracker /\ proc' = proc
  BY DEF MainStep, CheckCleanup, LockForCleanup, CleanupKeep, CleanupEnd, Banner,
     OpenProc, CloseProc, Sleep, ListSkip, ListEntry, table, env

(* The environment leaves the table and cleanup alone.                     *)
LEMMA EnvKeepsPids == EnvStep => UNCHANGED <<tracker, main, cursor>>
  BY DEF EnvStep, ReadLine, ProcessStarts, ProcessExits, ClockTick, ProcessResizes,
     KernelStep, table, mainVars

(* Cleanup never drops the history of a running process: the one entry the *)
(* swap loses is the one whose process it has just found gone.             *)
LEMMA DropOnlyDead ==
  ASSUME TypeOK, CleanupDrop, NEW p \in Pids, p \in Tracked, p \notin Tracked'
  PROVE  ~proc[p].alive
<1>1. /\ cursor \in DOMAIN tracker /\ tracker \in Seq(History)
      /\ tracker' = SwapRemove(tracker, cursor)
      /\ ~proc[tracker[cursor].pid].alive
  BY DEF CleanupDrop, TypeOK
<1>2. /\ tracker' \in Seq(History) /\ Len(tracker') = Len(tracker) - 1
      /\ \A k \in 1 .. Len(tracker) - 1 :
           tracker'[k] = IF k = cursor THEN tracker[Len(tracker)] ELSE tracker[k]
  BY <1>1, SwapRemoveType
<1>3. PICK i \in DOMAIN tracker : tracker[i].pid = p
  BY DEF Tracked
<1>4. \A k \in 1 .. Len(tracker) - 1 : tracker'[k].pid # p
  BY <1>1, <1>2 DEF Tracked
<1>5. Len(tracker) \in Nat /\ i \in 1 .. Len(tracker) /\ cursor \in 1 .. Len(tracker)
  BY <1>1
<1>6. CASE i # cursor /\ i = Len(tracker)
  BY <1>2, <1>3, <1>4, <1>5, <1>6
<1>7. CASE i # cursor /\ i # Len(tracker)
  BY <1>2, <1>3, <1>4, <1>5, <1>7
<1> QED BY <1>1, <1>3, <1>6, <1>7

(* No step drops the history of a running process (guardia_info.c:23-26).  *)
THEOREM RunningKept == Spec => CleanupKeepsLive
<1>1. TypeOK /\ TableInv /\ [Next]_vars
        => [\A p \in Pids : p \in Tracked /\ p \notin Tracked' => ~proc[p].alive]_vars
  <2> SUFFICES ASSUME TypeOK, TableInv, Next, NEW p \in Pids,
                      p \in Tracked, p \notin Tracked'
               PROVE  ~proc[p].alive
    OBVIOUS
  <2>1. tracker' # tracker
    BY DEF Tracked
  <2>2. CleanupDrop
    BY <2>1, MainKeepsPids, ThreadKeepsPids, EnvKeepsPids DEF Next
  <2> QED BY <2>2, DropOnlyDead
<1> QED BY <1>1, TypeCorrect, TableSafe, PTL DEF Spec, CleanupKeepsLive

(* The main thread keeps what cleanup has achieved so far.                 *)
LEMMA MainKeepsCleanup ==
  ASSUME TypeOK, CleanupInv, MainStep
  PROVE  CleanupInv'
<1> USE DEF table, env, mainVars, MainAt
<1>1. CASE LockForCleanup
  BY <1>1 DEF LockForCleanup, CleanupInv, TypeOK
<1>2. CASE CleanupKeep
  <2>1. /\ UNCHANGED <<tracker, proc, gone>> /\ main = "cleanup"
        /\ cursor' = cursor + 1 /\ cursor \in Nat
        /\ proc[tracker[cursor].pid].alive
    BY <1>2 DEF CleanupKeep, TypeOK
  <2>2. tracker[cursor].pid \notin gone
    BY <2>1 DEF CleanupInv
  <2>3. \A i \in DOMAIN tracker : i < cursor + 1 => i < cursor \/ i = cursor
    BY <2>1 DEF TypeOK
  <2> QED BY <2>1, <2>2, <2>3 DEF CleanupInv
<1>3. CASE CleanupDrop
  <2>1. /\ cursor \in DOMAIN tracker /\ tracker \in Seq(History)
        /\ tracker' = SwapRemove(tracker, cursor) /\ main = "cleanup"
        /\ UNCHANGED <<proc, gone, cursor>> /\ cursor \in Nat
    BY <1>3 DEF CleanupDrop, TypeOK
  <2>2. /\ tracker' \in Seq(History) /\ Len(tracker') = Len(tracker) - 1
        /\ \A k \in 1 .. Len(tracker) - 1 :
             tracker'[k] = IF k = cursor THEN tracker[Len(tracker)] ELSE tracker[k]
    BY <2>1, SwapRemoveType
  <2>3. \A i \in DOMAIN tracker' : i < cursor => i \in DOMAIN tracker /\ tracker'[i] = tracker[i]
    BY <2>1, <2>2
  <2> QED BY <2>1, <2>3 DEF CleanupInv
<1>4. ASSUME \/ CheckCleanup \/ CleanupEnd \/ Banner \/ OpenProc \/ CloseProc \/ Sleep
             \/ \E p \in Pids : ListSkip(p) \/ \E t \in Threads : ListEntry(p, t)
      PROVE  main' # "cleanup" /\ proc' = proc /\ gone' = gone
  BY <1>4 DEF CheckCleanup, CleanupEnd, Banner, OpenProc, CloseProc, Sleep, ListSkip,
              ListEntry
<1> QED BY <1>1, <1>2, <1>3, <1>4 DEF MainStep, CleanupInv

(* So does the environment: a process that starts is no longer in gone.    *)
LEMMA EnvKeepsCleanup ==
  ASSUME TypeOK, CleanupInv, EnvStep
  PROVE  CleanupInv'
<1>0. proc \in [Pids -> Process] /\ gone \subseteq Pids
  BY DEF TypeOK
<1>1. gone' \subseteq gone /\ \A q \in gone' : ~proc'[q].alive
  <2>1. CASE ReadLine
    BY <2>1 DEF ReadLine, CleanupInv, env
  <2>2. ASSUME NEW p \in Pids, ProcessStarts(p)
        PROVE  gone' \subseteq gone /\ \A q \in gone' : ~proc'[q].alive
    BY <1>0, <2>2 DEF ProcessStarts, KernelStep, CleanupInv
  <2>3. ASSUME NEW p \in Pids, ProcessExits(p)
        PROVE  gone' \subseteq gone /\ \A q \in gone' : ~proc'[q].alive
    BY <1>0, <2>3 DEF ProcessExits, KernelStep, CleanupInv, Dead
  <2>4. ASSUME NEW p \in Pids, ClockTick(p)
        PROVE  gone' \subseteq gone /\ \A q \in gone' : ~proc'[q].alive
    BY <1>0, <2>4 DEF ClockTick, KernelStep, CleanupInv, Process
  <2>5. ASSUME NEW p \in Pids, ProcessResizes(p)
        PROVE  gone' \subseteq gone /\ \A q \in gone' : ~proc'[q].alive
    BY <1>0, <2>5 DEF ProcessResizes, KernelStep, CleanupInv, Process
  <2> QED BY <2>1, <2>2, <2>3, <2>4, <2>5 DEF EnvStep
<1> QED BY <1>1, EnvKeepsPids DEF CleanupInv

(* When cleanup ends, no process that was absent all along is left in the  *)
(* table, wherever the swaps have moved its entry.                         *)
THEOREM CleanupLeavesNoDead == Spec => []CleanupComplete
<1>1. Init => CleanupInv
  BY DEF Init, CleanupInv
<1>2. TypeOK /\ TableInv /\ CleanupInv /\ [Next]_vars => CleanupInv'
  <2> SUFFICES ASSUME TypeOK, TableInv, CleanupInv, [Next]_vars PROVE CleanupInv'
    OBVIOUS
  <2>1. CASE MainStep
    BY <2>1, MainKeepsCleanup
  <2>2. ASSUME NEW u \in Threads, ThreadStep(u) PROVE CleanupInv'
    BY <2>2, ThreadKeepsPids DEF CleanupInv
  <2>3. CASE EnvStep
    BY <2>3, EnvKeepsCleanup
  <2>4. CASE UNCHANGED vars
    BY <2>4 DEF vars, env, table, mainVars, CleanupInv
  <2> QED BY <2>1, <2>2, <2>3, <2>4 DEF Next
<1>3. TypeOK /\ CleanupInv => CleanupComplete
  <2> SUFFICES ASSUME TypeOK, CleanupInv, main = "cleanup", cursor > Len(tracker),
                      NEW i \in DOMAIN tracker
               PROVE  tracker[i].pid \notin gone
    BY DEF CleanupComplete, Tracked
  <2>1. i < cursor
    BY DEF TypeOK
  <2> QED BY <2>1 DEF CleanupInv
<1> QED BY <1>1, <1>2, <1>3, TypeCorrect, TableSafe, PTL DEF Spec

-----------------------------------------------------------------------------
(* The memory-peak alarm.                                                  *)

(* The alarm is among the lines of an entry exactly when its condition     *)
(* holds, whether or not the CPU alarm comes before it.                    *)
LEMMA RamAlarm ==
  ASSUME NEW a, NEW h
  PROVE  (\E k \in DOMAIN Peaks(a, h) : Peaks(a, h)[k] = "ALERTA_PICO_RAM")
           <=> (a.ram - Unit * h.ram > 10 * Unit /\ ~a.trusted)
<1> DEFINE cpuPeak == CpuUse(a.time - h.time, a.total - h.total) - h.cpu > UmbralCPU /\ ~a.trusted
           ramPeak == a.ram - Unit * h.ram > 10 * Unit /\ ~a.trusted
           C == Optional(cpuPeak, "ALERTA_PICO_CPU")
           R == Optional(ramPeak, "ALERTA_PICO_RAM")
<1>1. Peaks(a, h) = C \o R
  BY DEF Peaks
<1>2. C = <<>> \/ C = <<"ALERTA_PICO_CPU">>
  BY DEF Optional
<1>3. R = IF ramPeak THEN <<"ALERTA_PICO_RAM">> ELSE <<>>
  BY DEF Optional
<1> HIDE DEF cpuPeak, ramPeak, C, R
<1>4. CASE ramPeak
  <2>1. R = <<"ALERTA_PICO_RAM">>
    BY <1>3, <1>4
  <2>2. \/ (C \o R)[1] = "ALERTA_PICO_RAM" /\ 1 \in DOMAIN (C \o R)
        \/ (C \o R)[2] = "ALERTA_PICO_RAM" /\ 2 \in DOMAIN (C \o R)
    BY <1>2, <2>1
  <2> QED BY <1>1, <1>4, <2>2 DEF ramPeak
<1>5. CASE ~ramPeak
  <2>1. R = <<>>
    BY <1>3, <1>5
  <2>2. C \o R = C
    BY <1>2, <2>1
  <2>3. \A k \in DOMAIN C : k = 1 /\ C[k] = "ALERTA_PICO_CPU"
    BY <1>2
  <2> QED BY <1>1, <1>5, <2>2, <2>3 DEF ramPeak
<1> QED BY <1>4, <1>5

(* A reading that has been stored is the previous one, cut to whole        *)
(* percents.                                                               *)
TruncatedExact ==
  \A i \in DOMAIN tracker : tracker[i].known => tracker[i].ram = Truncated(tracker[i].exact)

(* The entries that cleanup moves, a thread writes or adds keep this.      *)
LEMMA TruncatedStep ==
  ASSUME TypeOK, TableInv, TruncatedExact, [Next]_vars
  PROVE  TruncatedExact'
<1>0. tracker \in Seq(History)
  BY DEF TypeOK
<1>1. CASE tracker' = tracker
  BY <1>1 DEF TruncatedExact
<1>2. CASE CleanupDrop
  <2>1. cursor \in DOMAIN tracker /\ tracker' = SwapRemove(tracker, cursor)
    BY <1>2 DEF CleanupDrop, TypeOK
  <2>2. /\ Len(tracker') = Len(tracker) - 1 /\ tracker' \in Seq(History)
        /\ \A k \in 1 .. Len(tracker) - 1 :
             tracker'[k] = IF k = cursor THEN tracker[Len(tracker)] ELSE tracker[k]
    BY <1>0, <2>1, SwapRemoveType
  <2>3. Len(tracker) \in Nat \ {0} /\ DOMAIN tracker' = 1 .. Len(tracker) - 1
    BY <1>0, <2>1, <2>2
  <2>4. \A k \in DOMAIN tracker' : \E i \in DOMAIN tracker : tracker'[k] = tracker[i]
    BY <1>0, <2>2, <2>3
  <2> QED BY <2>4 DEF TruncatedExact
<1>3. ASSUME NEW u \in Threads, StoreSample(u) PROVE TruncatedExact'
  <2> DEFINE old == tracker[arg[u].idx]
             e == [old EXCEPT !.cpu = arg[u].cpu, !.ram = Truncated(arg[u].ram),
                              !.time = arg[u].time, !.total = arg[u].total,
                              !.known = TRUE, !.exact = arg[u].ram]
  <2>1. arg[u].idx \in DOMAIN tracker
    BY <1>3 DEF StoreSample, At, TableInv, LookupStable
  <2>2. old \in History
    BY <1>0, <2>1
  <2>3. e.ram = Truncated(arg[u].ram) /\ e.exact = arg[u].ram
    BY <2>2 DEF History
  <2>4. tracker' = [tracker EXCEPT ![arg[u].idx] = e]
    BY <1>3 DEF StoreSample
  <2> HIDE DEF e
  <2>5. DOMAIN tracker' = DOMAIN tracker /\ tracker'[arg[u].idx] = e
        /\ \A i \in DOMAIN tracker : i # arg[u].idx => tracker'[i] = tracker[i]
    BY <1>0, <2>1, <2>4
  <2> QED BY <2>3, <2>5 DEF TruncatedExact
<1>4. ASSUME NEW u \in Threads, InsertEntry(u) PROVE TruncatedExact'
  <2>1. PICK e : tracker' = Append(tracker, e) /\ e.known = FALSE
    BY <1>4 DEF InsertEntry
  <2>2. /\ DOMAIN tracker' = 1 .. Len(tracker) + 1 /\ tracker'[Len(tracker) + 1] = e
        /\ \A k \in 1 .. Len(tracker) : tracker'[k] = tracker[k]
    BY <1>0, <2>1
  <2>3. \A k \in DOMAIN tracker' : k = Len(tracker) + 1 \/ k \in DOMAIN tracker
    BY <1>0, <2>2
  <2> QED BY <1>0, <2>1, <2>2, <2>3 DEF TruncatedExact
<1>5. ASSUME NEW u \in Threads, ThreadStep(u), ~StoreSample(u), ~InsertEntry(u)
      PROVE  tracker' = tracker
  BY <1>5 DEF ThreadStep, ReadStatus, ReadStat, ReadStatFault, ReadCpuTime, LockTracker,
     FindTracked, FindUntracked, ReallocFails, PrintPeak, PrintReport, table
<1>6. CASE UNCHANGED vars
  BY <1>1, <1>6 DEF vars, table
<1> QED BY <1>1, <1>2, <1>3, <1>4, <1>5, <1>6, MainKeepsPids, EnvKeepsPids DEF Next

(* What a comparison with a stored reading says: the predecessor was cut   *)
(* by less than one percent, which the difference gains                    *)
(* (guardia_info.c:61).                                                    *)
LEMMA CutDifference ==
  ASSUME NEW now \in Nat, NEW exact \in Nat
  PROVE  /\ now - Unit * Truncated(exact) > 10 * Unit => now - exact > 9 * Unit
         /\ now - exact > 10 * Unit => now - Unit * Truncated(exact) > 10 * Unit
<1> DEFINE cut == Unit * Truncated(exact)
<1>1. Unit \in Nat \ {0} /\ cut \in Nat /\ cut <= exact /\ exact < cut + Unit
  BY ConstantsOK, CutReading DEF ConstantsOK
<1> HIDE DEF cut
<1>2. now - cut > 10 * Unit => now - exact > 9 * Unit
  BY <1>1
<1>3. now - exact > 10 * Unit => now - cut > 10 * Unit
  BY <1>1
<1> QED BY <1>2, <1>3 DEF cut

(* Only update_process finds an entry, and it compares with that entry.    *)
LEMMA FindCompares ==
  ASSUME TypeOK, Next, NEW t \in Threads, pc[t] = "find", pc'[t] = "peaks"
  PROVE  LET h == tracker[arg'[t].idx]
         IN  h \in History /\ arg'[t].idx \in DOMAIN tracker /\ lines'[t] = Peaks(arg[t], h)
<1>0. /\ pc \in [Threads -> ThreadPC] /\ arg \in [Threads -> Locals]
      /\ lines \in [Threads -> Seq(Kinds)] /\ tracker \in Seq(History)
  BY DEF TypeOK
<1>1. pc' # pc
  OBVIOUS
<1>2. ~EnvStep
  BY <1>1 DEF EnvStep, ReadLine, ProcessStarts, ProcessExits, ClockTick, ProcessResizes,
              KernelStep
<1>3. ~MainStep
  <2>1. ASSUME NEW p \in Pids, NEW u \in Threads, ListEntry(p, u) PROVE FALSE
    BY <1>0, <2>1 DEF ListEntry
  <2> QED BY <1>1, <2>1 DEF MainStep, CheckCleanup, LockForCleanup, CleanupKeep,
             CleanupDrop, CleanupEnd, Banner, OpenProc, CloseProc, Sleep, ListSkip
<1>4. PICK u \in Threads : ThreadStep(u)
  BY <1>2, <1>3 DEF Next
<1>5. u = t
  BY <1>4, OthersStay
<1>6. FindTracked(t)
  BY <1>0, <1>4, <1>5 DEF ThreadStep, ReadStatus, ReadStat, ReadStatFault, ReadCpuTime,
     LockTracker, FindUntracked, ReallocFails, PrintPeak, StoreSample, InsertEntry,
     PrintReport, At, Goto
<1>7. PICK i \in DOMAIN tracker :
        /\ arg' = [arg EXCEPT ![t].idx = i,
                     ![t].cpu = CpuUse(arg[t].time - tracker[i].time,
                                       arg[t].total - tracker[i].total)]
        /\ lines' = [lines EXCEPT ![t] = Peaks(arg[t], tracker[i])]
  BY <1>6 DEF FindTracked
<1>8. arg'[t].idx = i
  BY <1>0, <1>7 DEF Locals
<1>9. lines'[t] = Peaks(arg[t], tracker[i])
  BY <1>0, <1>7
<1> QED BY <1>0, <1>8, <1>9

(* Once a reading has been stored the memory-peak alarm is as precise as   *)
(* the truncation lets it be: a rise of more than ten points is always     *)
(* reported, one of nine points or less never, whatever the readings and   *)
(* however fine they are (guardia_info.c:61 and 70).                       *)
THEOREM PeaksPrecise == Spec => RamPeakPrecision
<1>1. Init => TruncatedExact
  BY DEF Init, TruncatedExact
<1>2. TypeOK /\ TableInv /\ TruncatedExact /\ [Next]_vars => TruncatedExact'
  BY TruncatedStep
<1>3. TypeOK /\ TruncatedExact /\ [Next]_vars =>
        [\A t \in Threads : pc[t] = "find" /\ pc'[t] = "peaks" =>
           LET h == tracker[arg'[t].idx]
               rise == arg[t].ram - h.exact
               alarm == \E k \in DOMAIN lines'[t] : lines'[t][k] = "ALERTA_PICO_RAM"
           IN  h.known => /\ alarm => rise > 9 * Unit
                          /\ rise > 10 * Unit /\ ~arg[t].trusted => alarm]_vars
  <2> SUFFICES ASSUME TypeOK, TruncatedExact, Next, NEW t \in Threads,
                      pc[t] = "find", pc'[t] = "peaks"
               PROVE  LET h == tracker[arg'[t].idx]
                          rise == arg[t].ram - h.exact
                          alarm == \E k \in DOMAIN lines'[t] : lines'[t][k] = "ALERTA_PICO_RAM"
                      IN  h.known => /\ alarm => rise > 9 * Unit
                                     /\ rise > 10 * Unit /\ ~arg[t].trusted => alarm
    OBVIOUS
  <2> DEFINE h == tracker[arg'[t].idx]
             alarm == \E k \in DOMAIN lines'[t] : lines'[t][k] = "ALERTA_PICO_RAM"
  <2>1. h \in History /\ (h.known => h.ram = Truncated(h.exact)) /\ lines'[t] = Peaks(arg[t], h)
    BY FindCompares DEF TruncatedExact
  <2>2. alarm <=> (arg[t].ram - Unit * h.ram > 10 * Unit /\ ~arg[t].trusted)
    BY <2>1, RamAlarm
  <2>3. arg[t].ram \in Nat /\ h.exact \in Nat
    BY <2>1, ThreadTypes DEF History
  <2> HIDE DEF h, alarm
  <2>4. h.known => /\ alarm => arg[t].ram - h.exact > 9 * Unit
                   /\ arg[t].ram - h.exact > 10 * Unit /\ ~arg[t].trusted => alarm
    BY <2>1, <2>2, <2>3, CutDifference
  <2> QED BY <2>4 DEF h, alarm
<1> QED BY <1>1, <1>2, <1>3, TypeCorrect, TableSafe, PTL DEF Spec, RamPeakPrecision
=============================================================================
