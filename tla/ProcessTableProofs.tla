--------------------------- MODULE ProcessTableProofs ---------------------------
(***************************************************************************)
(* Proof that the process monitor implements SampleTable: whatever the     *)
(* number of processes and threads and the order they run in, the shared   *)
(* table is a map from processes to samples.                               *)
(***************************************************************************)
EXTENDS ProcessTrackerProofs

(* Before it reads the status of its process a thread holds no reading.    *)
NoReading == \A t \in Threads : pc[t] = "status" => arg[t].ram = 0

TableBook == TypeOK /\ ThreadHasPid /\ TableInv

(* Main starts threads without a reading.                                  *)
LEMMA MainKeepsNoReading == TypeOK /\ NoReading /\ MainStep => NoReading'
<1> SUFFICES ASSUME TypeOK, NoReading, MainStep PROVE NoReading'
  OBVIOUS
<1>0. pc \in [Threads -> ThreadPC] /\ arg \in [Threads -> Locals]
  BY DEF TypeOK
<1>1. CASE UNCHANGED <<pc, arg>>
  BY <1>1 DEF NoReading
<1>2. ASSUME NEW p \in Pids, NEW u \in Threads, ListEntry(p, u) PROVE NoReading'
  <2>1. /\ arg'[u] = [NoLocals EXCEPT !.pid = p]
        /\ \A t \in Threads \ {u} : pc'[t] = pc[t] /\ arg'[t] = arg[t]
    BY <1>0, <1>2 DEF ListEntry
  <2>2. arg'[u].ram = 0
    BY <2>1 DEF NoLocals
  <2> QED BY <2>1, <2>2 DEF NoReading
<1> QED BY <1>1, <1>2
     DEF MainStep, CheckCleanup, LockForCleanup, CleanupKeep, CleanupDrop, CleanupEnd, Banner,
         OpenProc, CloseProc, Sleep, ListSkip

(* No step gives a thread a reading before ReadStatus does.                *)
LEMMA NoReadingKept == TypeOK /\ NoReading /\ [Next]_vars => NoReading'
<1> SUFFICES ASSUME TypeOK, NoReading, [Next]_vars PROVE NoReading'
  OBVIOUS
<1>1. CASE UNCHANGED <<pc, arg>>
  BY <1>1 DEF NoReading
<1>2. ASSUME NEW u \in Threads, ThreadStep(u) PROVE NoReading'
  <2>1. pc'[u] = "status" => pc[u] = "status" /\ arg'[u] = arg[u]
    BY <1>2
       DEF TypeOK, At, Goto, ThreadStep, ReadStatus, ReadStat, ReadStatFault, ReadCpuTime,
           LockTracker, FindTracked, FindUntracked, ReallocFails, PrintPeak, StoreSample,
           InsertEntry, PrintReport
  <2> QED BY <1>2, <2>1, OthersStay DEF NoReading
<1>3. CASE EnvStep
  <2>1. UNCHANGED <<pc, arg>>
    BY <1>3 DEF EnvStep, ReadLine, ProcessStarts, ProcessExits, ClockTick, ProcessResizes,
                KernelStep
  <2> QED BY <1>1, <2>1
<1> QED BY <1>1, <1>2, <1>3, MainKeepsNoReading DEF Next, vars

-----------------------------------------------------------------------------
(* What the steps are in SampleTable.                                      *)

(* The readings of the kernel have the type SampleTable gives them.        *)
LEMMA ReadingTyped == TypeOK => Reading \in Table!Readings
  BY DEF TypeOK, Process, Reading, Table!Readings, Table!Gone

(* A step that neither changes the table nor what a thread holds.          *)
LEMMA BookStays ==
  ASSUME UNCHANGED tracker, \A t \in Threads : Held'[t] = Held[t]
  PROVE  UNCHANGED <<Held, Samples>>
<1>1. Held = [t \in Threads |-> Held[t]] /\ Held' = [t \in Threads |-> Held'[t]]
  BY DEF Held
<1> QED BY <1>1 DEF Samples, Sample

(* The swap of cleanup forgets the process of the entry it removes.        *)
LEMMA DropForgets ==
  ASSUME TableBook, CleanupDrop
  PROVE  \E p \in Pids : Table!Forget(p)
<1>1. /\ cursor \in DOMAIN tracker /\ tracker \in Seq(History)
      /\ tracker' = SwapRemove(tracker, cursor)
      /\ ~proc[tracker[cursor].pid].alive /\ UNCHANGED <<proc, pc, arg>>
  BY DEF CleanupDrop, TypeOK, TableBook, env
<1> DEFINE p == tracker[cursor].pid
           n == Len(tracker)
<1>2. p \in Pids /\ n \in Nat \ {0} /\ cursor \in 1 .. n /\ DOMAIN tracker = 1 .. n
  <2>1. tracker[cursor] \in History
    BY <1>1
  <2> QED BY <1>1, <2>1 DEF History
<1>3. UNCHANGED <<Reading, Held>> /\ Reading[p] = Table!Gone
  BY <1>1, <1>2 DEF Reading, Held, Table!Gone
<1>4. \A k \in 1 .. n : tracker[k].pid = p => k = cursor
  BY <1>1, <1>2 DEF TableBook, TableInv, NoDuplicatePids
<1>5. /\ DOMAIN tracker' = 1 .. n - 1
      /\ \A k \in 1 .. n - 1 : tracker'[k] = IF k = cursor THEN tracker[n] ELSE tracker[k]
  BY <1>1, <1>2 DEF SwapRemove
<1>6. \A h : Sample(h).pid = h.pid
  BY DEF Sample
<1>7. ASSUME NEW s, s \in Samples' PROVE s \in Table!Without(p)
  <2>1. PICK k \in 1 .. n - 1 : s = Sample(tracker'[k])
    BY <1>5, <1>7 DEF Samples, Sample
  <2>2. PICK l \in 1 .. n : s = Sample(tracker[l]) /\ l # cursor
    BY <1>2, <1>5, <2>1
  <2> QED BY <1>2, <1>4, <1>6, <2>2 DEF Samples, Table!Without
<1>8. ASSUME NEW s, s \in Table!Without(p) PROVE s \in Samples'
  <2>1. PICK k \in 1 .. n : s = Sample(tracker[k]) /\ k # cursor
    BY <1>2, <1>6, <1>8 DEF Samples, Table!Without
  <2>2. \E l \in 1 .. n - 1 : tracker'[l] = tracker[k]
    BY <1>2, <1>5, <2>1
  <2> QED BY <1>5, <2>1, <2>2 DEF Samples, Sample
<1>9. Samples' = Table!Without(p)
  BY <1>7, <1>8
<1> QED BY <1>2, <1>3, <1>9 DEF Table!Forget

(* A thread that starts holds no reading yet.                              *)
LEMMA StartsEmpty ==
  ASSUME TypeOK, NEW p \in Pids, NEW u \in Threads, ListEntry(p, u)
  PROVE  UNCHANGED <<Reading, Held, Samples>>
<1>1. pc \in [Threads -> ThreadPC] /\ arg \in [Threads -> Locals]
  BY DEF TypeOK
<1>2. /\ pc[u] = "none" /\ pc'[u] = "status" /\ UNCHANGED <<tracker, proc>>
      /\ \A t \in Threads \ {u} : pc'[t] = pc[t] /\ arg'[t] = arg[t]
  BY <1>1 DEF ListEntry, table, env
<1>3. \A t \in Threads : Held'[t] = Held[t]
  BY <1>2 DEF Held
<1> QED BY <1>2, <1>3, BookStays DEF Reading

Holds == {"stat", "cputime", "lock", "find", "peaks", "insert"}

(* A thread that has read the status of its process holds its reading.     *)
LEMMA HeldBy ==
  ASSUME TableBook, NEW t \in Threads
  PROVE  Held[t] = IF pc[t] \in Holds THEN [pid |-> arg[t].pid, ram |-> arg[t].ram]
                                      ELSE Table!Nothing
  BY DEF TableBook, TypeOK, ThreadPC, Holding, Holds, Held, Table!Nothing

(* So it does after the step.                                              *)
LEMMA HeldNext ==
  ASSUME TypeOK', NEW t \in Threads
  PROVE  Held'[t] = IF pc'[t] \in Holds THEN [pid |-> arg'[t].pid, ram |-> arg'[t].ram]
                                        ELSE Table!Nothing
  BY DEF TypeOK, ThreadPC, Holding, Holds, Held, Table!Nothing

(* Reading the status of a process takes its reading.                      *)
LEMMA StatusTakes ==
  ASSUME TableBook, TypeOK', NoReading, NEW u \in Threads, ReadStatus(u)
  PROVE  \E p \in Pids : Table!Take(u, p)
<1> DEFINE p == arg[u].pid
<1>0. /\ pc \in [Threads -> ThreadPC] /\ arg \in [Threads -> Locals]
      /\ proc \in [Pids -> Process] /\ p \in Pids
  BY DEF TableBook, TypeOK, ThreadHasPid, ReadStatus, At
<1>1. /\ pc[u] = "status" /\ pc'[u] = "stat" /\ arg[u].ram = 0 /\ UNCHANGED <<tracker, proc>>
  BY <1>0 DEF ReadStatus, At, Goto, NoReading, table, env
<1>2. \A t \in Threads \ {u} : pc'[t] = pc[t] /\ arg'[t] = arg[t]
  BY OthersStay DEF TableBook, ThreadStep
<1>3. PICK r : /\ r = arg'[u].ram /\ arg'[u].pid = p
               /\ \/ proc[p].alive /\ r = proc[p].ram
                  \/ r = 0 /\ (~proc[p].alive \/ OpenFails)
  <2>1. arg[u] \in Locals
    BY <1>0
  <2>2. CASE \E r \in {proc[p].ram} \cup (IF OpenFails THEN {0} ELSE {}) :
               /\ proc[p].alive
               /\ arg' = [arg EXCEPT ![u].trusted = proc[p].trusted, ![u].ram = r]
    <3>1. PICK r \in {proc[p].ram} \cup (IF OpenFails THEN {0} ELSE {}) :
               /\ proc[p].alive
               /\ arg' = [arg EXCEPT ![u].trusted = proc[p].trusted, ![u].ram = r]
      BY <2>2
    <3>2. arg'[u] = [arg[u] EXCEPT !.trusted = proc[p].trusted, !.ram = r]
      BY <1>0, <3>1
    <3>3. arg'[u].ram = r /\ arg'[u].pid = p
      BY <2>1, <3>2 DEF Locals
    <3> QED BY <3>1, <3>3
  <2>3. CASE \E b \in Trust : (~proc[p].alive \/ OpenFails) /\ arg' = [arg EXCEPT ![u].trusted = b]
    <3>1. PICK b \in Trust : (~proc[p].alive \/ OpenFails) /\ arg' = [arg EXCEPT ![u].trusted = b]
      BY <2>3
    <3>2. arg'[u] = [arg[u] EXCEPT !.trusted = b]
      BY <1>0, <3>1
    <3>3. arg'[u].ram = 0 /\ arg'[u].pid = p
      BY <1>1, <2>1, <3>2 DEF Locals
    <3> QED BY <3>1, <3>3
  <2> QED BY <2>2, <2>3 DEF ReadStatus
<1>4. Reading[p] = (IF proc[p].alive THEN proc[p].ram ELSE -1) /\ Reading' = Reading
  BY <1>0, <1>1 DEF Reading
<1>5. proc[p].ram \in Nat /\ r # -1
  BY <1>0, <1>3 DEF Process
<1>6. /\ r \in {Reading[p], 0} \ {Table!Gone}
      /\ r # Reading[p] => Reading[p] = Table!Gone \/ OpenFails
  BY <1>3, <1>4, <1>5 DEF Table!Gone
<1>7. Held[u] = Table!Nothing /\ Held'[u] = [pid |-> p, ram |-> r]
  BY <1>1, <1>3, HeldBy, HeldNext DEF Holds
<1>8. \A t \in Threads \ {u} : Held'[t] = Held[t]
  BY <1>2 DEF Held
<1>9. Held' = [Held EXCEPT ![u] = [pid |-> p, ram |-> r]]
  <2>1. Held = [t \in Threads |-> Held[t]] /\ Held' = [t \in Threads |-> Held'[t]]
    BY DEF Held
  <2> QED BY <1>7, <1>8, <2>1
<1>10. Samples' = Samples
  BY <1>1 DEF Samples, Sample
<1> QED BY <1>0, <1>4, <1>6, <1>7, <1>9, <1>10 DEF Table!Take

(* Between the reading and the record what a thread holds does not change. *)
LEMMA HoldingStays ==
  ASSUME TableBook, TypeOK', NEW u \in Threads,
         \/ ReadStat(u) \/ ReadStatFault(u) \/ ReadCpuTime(u) \/ LockTracker(u)
         \/ FindTracked(u) \/ FindUntracked(u) \/ ReallocFails(u) \/ PrintPeak(u) \/ PrintReport(u)
  PROVE  UNCHANGED <<Reading, Held, Samples>>
<1>0. pc \in [Threads -> ThreadPC] /\ arg \in [Threads -> Locals] /\ arg[u] \in Locals
  BY DEF TableBook, TypeOK
<1>1. UNCHANGED <<tracker, proc>>
  BY DEF ReadStat, ReadStatFault, ReadCpuTime, LockTracker, FindTracked, FindUntracked,
         ReallocFails, PrintPeak, PrintReport, table, env
<1>2. \A t \in Threads \ {u} : pc'[t] = pc[t] /\ arg'[t] = arg[t]
  BY OthersStay DEF TableBook, ThreadStep
<1>3. Held'[u] = Held[u]
  <2>1. CASE ReadStat(u)
    <3>1. pc[u] = "stat" /\ pc'[u] = "cputime"
          /\ arg'[u] = [arg[u] EXCEPT !.time = proc[arg[u].pid].time]
      BY <1>0, <2>1 DEF ReadStat, At, Goto
    <3>2. arg'[u].pid = arg[u].pid /\ arg'[u].ram = arg[u].ram
      BY <1>0, <3>1 DEF Locals
    <3> QED BY <3>1, <3>2, HeldBy, HeldNext DEF Holds
  <2>2. CASE ReadCpuTime(u)
    <3>1. PICK c : arg' = [arg EXCEPT ![u].total = c]
      BY <2>2 DEF ReadCpuTime
    <3>2. arg'[u] = [arg[u] EXCEPT !.total = c]
      BY <1>0, <3>1
    <3>3. arg'[u].pid = arg[u].pid /\ arg'[u].ram = arg[u].ram
      BY <1>0, <3>2 DEF Locals
    <3>4. pc[u] \in Holds /\ pc'[u] \in Holds
      BY <1>0, <2>2 DEF ReadCpuTime, At, Goto, Holds
    <3> QED BY <3>3, <3>4, HeldBy, HeldNext
  <2>3. CASE FindTracked(u)
    <3>1. PICK n, c : arg' = [arg EXCEPT ![u].idx = n, ![u].cpu = c]
      BY <2>3 DEF FindTracked
    <3>2. arg'[u] = [arg[u] EXCEPT !.idx = n, !.cpu = c]
      BY <1>0, <3>1
    <3>3. arg'[u].pid = arg[u].pid /\ arg'[u].ram = arg[u].ram
      BY <1>0, <3>2 DEF Locals
    <3>4. pc[u] \in Holds /\ pc'[u] \in Holds
      BY <1>0, <2>3 DEF FindTracked, At, Goto, Holds
    <3> QED BY <3>3, <3>4, HeldBy, HeldNext
  <2>4. CASE PrintReport(u)
    <3>1. pc[u] = "report" /\ pc'[u] \in {"report", "none"}
      BY <1>0, <2>4 DEF PrintReport, At, Goto
    <3> QED BY <3>1, HeldBy, HeldNext DEF Holds
  <2>5. CASE LockTracker(u) \/ FindUntracked(u)
    <3>1. pc[u] \in Holds /\ pc'[u] \in Holds /\ arg' = arg
      BY <1>0, <2>5 DEF LockTracker, FindUntracked, At, Goto, Holds
    <3> QED BY <3>1, HeldBy, HeldNext
  <2>6. CASE ReadStatFault(u) \/ ReallocFails(u) \/ PrintPeak(u)
    BY <2>6 DEF ReadStatFault, ReallocFails, PrintPeak, Held
  <2> QED BY <2>1, <2>2, <2>3, <2>4, <2>5, <2>6
<1>4. \A t \in Threads : Held'[t] = Held[t]
  BY <1>2, <1>3 DEF Held
<1> QED BY <1>1, <1>4, BookStays DEF Reading

(* A thread that leaves its section has recorded what it held.             *)
LEMMA RecordIs ==
  ASSUME TableBook, TypeOK', NEW u \in Threads, StoreSample(u) \/ InsertEntry(u),
         Samples' = Table!Without(arg[u].pid) \cup
           {[pid |-> arg[u].pid,
             ram |-> IF arg[u].pid \in Table!Sampled THEN arg[u].ram ELSE Table!Unread]}
  PROVE  Table!Record(u)
<1>1. /\ pc[u] \in {"peaks", "insert"} /\ pc'[u] = "report" /\ UNCHANGED <<proc, arg>>
      /\ ThreadStep(u)
  BY DEF StoreSample, InsertEntry, At, Goto, env, TableBook, TypeOK, ThreadStep
<1>2. Held[u] = [pid |-> arg[u].pid, ram |-> arg[u].ram] /\ Held'[u] = Table!Nothing
  BY <1>1, HeldBy, HeldNext DEF Holds
<1>3. Held[u] # Table!Nothing
  <2>1. arg[u].pid \in Pids /\ Nobody \notin Pids
    BY <1>1, ConstantsOK DEF TableBook, ThreadHasPid, ConstantsOK
  <2>2. Held[u].pid # Table!Nothing.pid
    BY <1>2, <2>1 DEF Table!Nothing
  <2> QED BY <2>2
<1>4. \A t \in Threads \ {u} : Held'[t] = Held[t]
  BY <1>1, OthersStay DEF Held, TableBook
<1>5. Held' = [Held EXCEPT ![u] = Table!Nothing]
  <2>1. Held = [t \in Threads |-> Held[t]] /\ Held' = [t \in Threads |-> Held'[t]]
    BY DEF Held
  <2> QED BY <1>2, <1>4, <2>1
<1>6. Held[u].pid = arg[u].pid /\ Held[u].ram = arg[u].ram
  BY <1>2
<1>7. Reading' = Reading
  BY <1>1 DEF Reading
<1> QED BY <1>3, <1>5, <1>6, <1>7 DEF Table!Record

(* Storing a sample replaces the one sample of the process.                *)
LEMMA StoreRecords ==
  ASSUME TableBook, TypeOK', NEW u \in Threads, StoreSample(u)
  PROVE  Table!Record(u)
<1> DEFINE p == arg[u].pid
           k == arg[u].idx
           h == [tracker[k] EXCEPT !.cpu = arg[u].cpu, !.ram = Truncated(arg[u].ram),
                   !.time = arg[u].time, !.total = arg[u].total,
                   !.known = TRUE, !.exact = arg[u].ram]
<1>1. /\ pc[u] = "peaks" /\ tracker \in Seq(History) /\ k \in DOMAIN tracker
      /\ tracker[k].pid = p /\ tracker[k] \in History
      /\ tracker' = [tracker EXCEPT ![k] = h]
  BY DEF StoreSample, At, TableBook, TypeOK, TableInv, LookupStable
<1>2. h.pid = p /\ h.known = TRUE /\ h.exact = arg[u].ram
  BY <1>1 DEF History
<1> HIDE DEF h
<1>3. /\ DOMAIN tracker' = DOMAIN tracker /\ tracker'[k] = h
      /\ \A j \in DOMAIN tracker : j # k => tracker'[j] = tracker[j]
  BY <1>1
<1>4. \A j \in DOMAIN tracker : tracker[j].pid = p <=> j = k
  BY <1>1 DEF TableBook, TableInv, NoDuplicatePids
<1>5. (\A g : Sample(g).pid = g.pid) /\ Sample(h) = [pid |-> p, ram |-> arg[u].ram]
  BY <1>2 DEF Sample
<1>6. p \in Table!Sampled
  BY <1>1, <1>5 DEF Samples, Table!Sampled
<1>7. Samples' = Table!Without(p) \cup {Sample(h)}
  <2>1. ASSUME NEW s, s \in Samples' PROVE s \in Table!Without(p) \cup {Sample(h)}
    <3>1. PICK j \in DOMAIN tracker : s = Sample(tracker'[j])
      BY <1>3, <2>1 DEF Samples, Sample
    <3> QED BY <1>3, <1>4, <1>5, <3>1 DEF Samples, Table!Without
  <2>2. ASSUME NEW s, s \in Table!Without(p) PROVE s \in Samples'
    <3>1. PICK j \in DOMAIN tracker : s = Sample(tracker[j]) /\ s.pid # p
      BY <2>2 DEF Samples, Table!Without
    <3>2. j # k
      BY <1>4, <1>5, <3>1
    <3> QED BY <1>3, <3>1, <3>2 DEF Samples, Sample
  <2>3. Sample(h) \in Samples'
    BY <1>1, <1>3 DEF Samples, Sample
  <2> QED BY <2>1, <2>2, <2>3
<1> QED BY <1>5, <1>6, <1>7, RecordIs

(* Inserting adds a first sample, of a process that had none.              *)
LEMMA InsertRecords ==
  ASSUME TableBook, TypeOK', NEW u \in Threads, InsertEntry(u)
  PROVE  Table!Record(u)
<1> DEFINE p == arg[u].pid
           n == Len(tracker)
<1>1. pc[u] = "insert" /\ tracker \in Seq(History) /\ n \in Nat /\ DOMAIN tracker = 1 .. n
  BY DEF InsertEntry, At, TableBook, TypeOK
<1>2. p \notin Tracked
  BY <1>1 DEF TableBook, TableInv, InsertFresh
<1>3. PICK h : /\ tracker' = Append(tracker, h) /\ h.pid = p /\ h.known = FALSE
  BY DEF InsertEntry
<1>4. /\ DOMAIN tracker' = 1 .. n + 1 /\ tracker'[n + 1] = h
      /\ \A j \in 1 .. n : tracker'[j] = tracker[j]
  <2>1. h \in History
    <3>1. tracker' \in Seq(History) /\ tracker' = Append(tracker, h)
      BY <1>3 DEF TypeOK
    <3>2. n + 1 \in DOMAIN tracker' /\ tracker'[n + 1] = h
      BY <1>1, <1>3
    <3> QED BY <3>1, <3>2
  <2> QED BY <1>1, <1>3, <2>1
<1>5. (\A g : Sample(g).pid = g.pid) /\ Sample(h) = [pid |-> p, ram |-> Table!Unread]
  BY <1>3 DEF Sample, Table!Unread
<1>6. p \notin Table!Sampled
  BY <1>2, <1>5 DEF Tracked, Samples, Table!Sampled
<1>7. Table!Without(p) = Samples
  BY <1>6 DEF Table!Without, Table!Sampled
<1>8. Samples' = Samples \cup {Sample(h)}
  <2>1. ASSUME NEW s PROVE s \in Samples' <=> s \in Samples \/ s = Sample(h)
    <3>1. s \in Samples <=> \E j \in 1 .. n : s = Sample(tracker[j])
      BY <1>1 DEF Samples
    <3>2. s \in Samples' <=> \E j \in 1 .. n + 1 : s = Sample(tracker'[j])
      BY <1>4 DEF Samples, Sample
    <3> QED BY <1>1, <1>4, <3>1, <3>2
  <2> QED BY <2>1
<1> QED BY <1>5, <1>6, <1>7, <1>8, RecordIs

(* Every behaviour of the monitor is a behaviour of SampleTable, for any   *)
(* number of processes, threads and readings (guardia_info.c:17-106).      *)
THEOREM MonitorImplementsTable == Spec => ImplementsTable
<1>1. Init => Table!Init
  <2> SUFFICES ASSUME Init PROVE Table!Init
    OBVIOUS
  <2>1. Reading \in Table!Readings
    BY InitTyped, ReadingTyped
  <2>2. Held = [t \in Threads |-> Table!Nothing] /\ Samples = {}
    BY DEF Init, Held, Samples, Table!Nothing
  <2> QED BY <2>1, <2>2 DEF Table!Init
<1>2. TypeOK /\ ThreadHasPid /\ TableInv /\ NoReading /\ [Next]_vars /\ TypeOK'
        => [Table!Next]_(Table!book)
  <2> SUFFICES ASSUME TableBook, NoReading, [Next]_vars, TypeOK'
               PROVE  [Table!Next]_(Table!book)
    BY DEF TableBook
  <2>1. CASE UNCHANGED vars
    BY <2>1 DEF vars, env, table, Table!book, Reading, Held, Samples, Sample
  <2>2. CASE MainStep
    <3>1. CASE CleanupDrop
      BY <3>1, DropForgets DEF Table!Next
    <3>2. ASSUME NEW p \in Pids, NEW u \in Threads, ListEntry(p, u)
          PROVE  [Table!Next]_(Table!book)
      BY <3>2, StartsEmpty DEF TableBook, Table!book
    <3>3. CASE UNCHANGED <<tracker, proc, pc, arg>>
      BY <3>3 DEF Table!book, Reading, Held, Samples, Sample
    <3> QED BY <2>2, <3>1, <3>2, <3>3
         DEF MainStep, CheckCleanup, LockForCleanup, CleanupKeep, CleanupEnd, Banner, OpenProc,
             CloseProc, Sleep, ListSkip, env, table
  <2>3. ASSUME NEW u \in Threads, ThreadStep(u) PROVE [Table!Next]_(Table!book)
    BY <2>3, StatusTakes, HoldingStays, StoreRecords, InsertRecords
       DEF ThreadStep, Table!Next, Table!book
  <2>4. CASE EnvStep
    <3>1. UNCHANGED <<tracker, pc, arg>>
      BY <2>4 DEF EnvStep, ReadLine, ProcessStarts, ProcessExits, ClockTick, ProcessResizes,
                  KernelStep, table
    <3>2. Reading' \in Table!Readings
      BY DEF TypeOK, Process, Reading, Table!Readings, Table!Gone
    <3> QED BY <3>1, <3>2 DEF Table!Next, Table!World, Held, Samples, Sample
  <2> QED BY <2>1, <2>2, <2>3, <2>4 DEF Next
<1>3. Init => NoReading
  BY DEF Init, NoReading
<1>4. TypeOK /\ NoReading /\ [Next]_vars => NoReading'
  BY NoReadingKept
<1> QED BY <1>1, <1>2, <1>3, <1>4, TypeCorrect, TableSafe, PTL
     DEF Spec, ImplementsTable, Table!Spec
=============================================================================
