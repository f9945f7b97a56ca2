--------------------------- MODULE ProcessTracker ---------------------------
(***************************************************************************)
(* The process monitor of "Guardia del tesoro real": the main loop that    *)
(* lists /proc every few seconds and starts one detached thread per        *)
(* process, the threads that sample a process and update the shared table  *)
(* ProcessTracker under tracker_mutex, and the clean-up of that table.     *)
(* The kernel (processes that start, run, grow and exit) and the reader at *)
(* the other end of stdout are the environment.                            *)
(***************************************************************************)
EXTENDS Integers, Sequences

CONSTANTS
  Pids,          \* process numbers that may appear in /proc
  Threads,       \* threads that may exist at once; pthread_create fails beyond
  Unit,          \* how finely memory is read: parts of a percent
  Rams,          \* memory readings: Unit is one percent of the total RAM
  Trust,         \* which answers lista_blanca(name) may give
  Garbage,       \* what an unwritten prev_ram_percent may hold, in percent
  OpenFails,     \* whether the kernel may refuse to open a file that exists
  NumCpus,       \* _SC_NPROCESSORS_ONLN
  UmbralCPU,     \* threshold of CPU use, percent
  UmbralMem,     \* threshold of memory use, like Rams
  InitCapacity,  \* capacity set by init_tracker
  SleepTime,     \* seconds the main loop sleeps
  CleanupAge,    \* seconds after which the table is cleaned
  PipeSize,      \* bound: lines that fit in the stdout pipe
  MaxTotal,      \* bound: ticks counted in /proc/stat
  MaxCapacity,   \* bound: realloc fails beyond this capacity
  MainThread,    \* the main thread, as an owner of the mutex
  Nobody         \* no owner; also no process

ASSUME ConstantsOK ==
  /\ Nobody \notin Pids \cup Threads \cup {MainThread}
  /\ MainThread \notin Threads
  /\ Unit \in Nat \ {0} /\ Rams \subseteq Nat /\ Trust \subseteq BOOLEAN /\ Garbage \subseteq Int
  /\ OpenFails \in BOOLEAN
  /\ NumCpus \in Nat \ {0} /\ UmbralCPU \in Nat /\ UmbralMem \in Nat
  /\ InitCapacity \in Nat \ {0} /\ MaxCapacity \in Nat
  /\ SleepTime \in Nat /\ CleanupAge \in Nat
  /\ PipeSize \in Nat \ {0} /\ MaxTotal \in Nat

VARIABLES
  proc,      \* /proc: what the kernel shows of each process
  total,     \* ticks of all CPUs, the first line of /proc/stat
  tracker,   \* tracker->processes[0 .. count-1]
  capacity,  \* tracker->capacity
  lock,      \* owner of tracker_mutex
  main,      \* where the main thread is
  todo,      \* directory entries readdir has still to return
  cursor,    \* i in cleanup
  elapsed,   \* time(NULL) - last_cleanup, cut at CleanupAge + 1
  pc,        \* where each thread is; "none" when it does not exist
  arg,       \* the locals of process_info and update_process
  lines,     \* lines each thread has decided to print
  pipe,      \* lines written and not yet read
  crashed,   \* the monitor has been ended by a signal or by exit
  gone       \* history: processes absent ever since the clean-up began

env  == <<proc, total>>
table == <<tracker, capacity>>
mainVars == <<main, todo, cursor, elapsed>>
vars == <<env, table, lock, mainVars, pc, arg, lines, pipe, crashed, gone>>

-----------------------------------------------------------------------------
MainPC   == {"top", "lock", "cleanup", "banner", "open", "list", "sleep"}
Holding  == {"find", "peaks", "insert"}   \* places between lock and unlock
ThreadPC == {"none", "status", "stat", "cputime", "lock", "report"} \cup Holding
Kinds    == {"NUEVA_ITERACION", "ALERTA_PICO_CPU", "ALERTA_PICO_RAM",
             "ALERTA_USO_CPU", "ALERTA_USO_RAM", "FILA"}

Process == [alive : BOOLEAN, trusted : BOOLEAN, time : Nat, ram : Nat]
\* ProcessHistory; "known" and "exact" are history: whether prev_ram_percent
\* has been written, and the reading it was truncated from.
History == [pid : Pids, cpu : Int, ram : Int, time : Nat, total : Nat,
            known : BOOLEAN, exact : Nat]
Locals  == [pid : Pids \cup {Nobody}, trusted : BOOLEAN, time : Nat,
            total : Nat, ram : Nat, cpu : Int, idx : Nat]
Line    == [kind : Kinds, pid : Pids \cup {Nobody}]

NoLocals == [pid |-> Nobody, trusted |-> FALSE, time |-> 0, total |-> 0,
             ram |-> 0, cpu |-> 0, idx |-> 0]
Dead     == [alive |-> FALSE, trusted |-> FALSE, time |-> 0, ram |-> 0]
Fresh(trusted, ram) == [Dead EXCEPT !.alive = TRUE, !.trusted = trusted, !.ram = ram]

Tracked == {tracker[i].pid : i \in DOMAIN tracker}

(* Percentage of the CPU time of the machine, in whole percents.           *)
CpuUse(deltaProc, deltaTotal) ==
  (IF deltaTotal > 0 THEN (100 * deltaProc) \div deltaTotal ELSE 0) \div NumCpus

(* Assigning a float percentage to the long prev_ram_percent.              *)
Truncated(ram) == ram \div Unit

Optional(cond, kind) == IF cond THEN <<kind>> ELSE <<>>

(* Mutant: whole percents subtracted from a reading in parts of a percent. *)
PeaksMutant(a, h) == Optional(a.ram - h.ram > 10 * Unit /\ ~a.trusted, "ALERTA_PICO_RAM")

Peaks(a, h) ==
  Optional(CpuUse(a.time - h.time, a.total - h.total) - h.cpu > UmbralCPU /\ ~a.trusted,
           "ALERTA_PICO_CPU")
  \o Optional(a.ram - Unit * h.ram > 10 * Unit /\ ~a.trusted, "ALERTA_PICO_RAM")

Report(a) ==
  Optional(a.cpu > UmbralCPU /\ ~a.trusted, "ALERTA_USO_CPU")
  \o Optional(a.ram > UmbralMem /\ ~a.trusted, "ALERTA_USO_RAM")
  \o <<"FILA">>

(* Mutant: the last entry is dropped without being moved.                  *)
SwapRemoveMutant(seq, i) == SubSeq(seq, 1, Len(seq) - 1)

(* processes[i] = processes[count-1]; count--                              *)
SwapRemove(seq, i) ==
  [k \in 1 .. Len(seq) - 1 |-> IF k = i THEN seq[Len(seq)] ELSE seq[k]]

WriteLine(kind, pid) ==
  /\ Len(pipe) < PipeSize
  /\ pipe' = Append(pipe, [kind |-> kind, pid |-> pid])

Init ==
  /\ proc \in [Pids -> {Dead} \cup {Fresh(b, r) : b \in Trust, r \in Rams}]
  /\ total = 0
  /\ tracker = <<>> /\ capacity = InitCapacity /\ lock = Nobody
  /\ main = "top" /\ todo = {} /\ cursor = 1 /\ elapsed = 0
  /\ pc = [t \in Threads |-> "none"]
  /\ arg = [t \in Threads |-> NoLocals]
  /\ lines = [t \in Threads |-> <<>>]
  /\ pipe = <<>> /\ crashed = FALSE /\ gone = {}

-----------------------------------------------------------------------------
(* The main thread.                                                        *)

MainAt(from, to) == ~crashed /\ main = from /\ main' = to

CheckCleanup ==
  /\ MainAt("top", IF elapsed > CleanupAge THEN "lock" ELSE "banner")
  /\ UNCHANGED <<env, table, lock, todo, cursor, elapsed, pc, arg, lines, pipe, crashed, gone>>

(* Mutant: cleanup does not take the mutex.                                *)
LockForCleanupMutant ==
  /\ MainAt("lock", "cleanup")
  /\ cursor' = 1 /\ gone' = {p \in Pids : ~proc[p].alive}
  /\ UNCHANGED <<env, table, lock, todo, elapsed, pc, arg, lines, pipe, crashed>>

LockForCleanup ==
  /\ MainAt("lock", "cleanup")
  /\ lock = Nobody
  /\ lock' = MainThread
  /\ cursor' = 1
  /\ gone' = {p \in Pids : ~proc[p].alive}
  /\ UNCHANGED <<env, table, todo, elapsed, pc, arg, lines, pipe, crashed>>

CleanupKeep ==
  /\ MainAt("cleanup", "cleanup")
  /\ cursor <= Len(tracker)
  /\ proc[tracker[cursor].pid].alive
  /\ cursor' = cursor + 1
  /\ UNCHANGED <<env, table, lock, todo, elapsed, pc, arg, lines, pipe, crashed, gone>>

(* Mutants: after the swap i goes back (-1) or on (+1).                    *)
CleanupDropAnd(step) ==
  /\ MainAt("cleanup", "cleanup")
  /\ cursor <= Len(tracker) /\ ~proc[tracker[cursor].pid].alive
  /\ tracker' = SwapRemove(tracker, cursor) /\ cursor' = cursor + step
  /\ UNCHANGED <<env, capacity, lock, todo, elapsed, pc, arg, lines, pipe, crashed, gone>>
CleanupDropBack == CleanupDropAnd(-1)
CleanupDropOn   == CleanupDropAnd(1)

CleanupDrop ==
  /\ MainAt("cleanup", "cleanup")
  /\ cursor <= Len(tracker)
  /\ ~proc[tracker[cursor].pid].alive
  /\ tracker' = SwapRemove(tracker, cursor)
  /\ UNCHANGED <<env, capacity, lock, todo, cursor, elapsed, pc, arg, lines, pipe, crashed, gone>>

(* Mutant: cleanup ends without releasing the mutex.                       *)
CleanupEndMutant ==
  /\ MainAt("cleanup", "banner") /\ cursor > Len(tracker)
  /\ elapsed' = 0
  /\ UNCHANGED <<env, table, lock, todo, cursor, pc, arg, lines, pipe, crashed, gone>>

CleanupEnd ==
  /\ MainAt("cleanup", "banner")
  /\ cursor > Len(tracker)
  /\ lock' = Nobody
  /\ elapsed' = 0
  /\ UNCHANGED <<env, table, todo, cursor, pc, arg, lines, pipe, crashed, gone>>

Banner ==
  /\ MainAt("banner", "open")
  /\ WriteLine("NUEVA_ITERACION", Nobody)
  /\ UNCHANGED <<env, table, lock, todo, cursor, elapsed, pc, arg, lines, crashed, gone>>

(* When opendir fails the loop sleeps and starts again.                    *)
OpenProc ==
  /\ \/ MainAt("open", "list") /\ todo' = Pids
     \/ OpenFails /\ MainAt("open", "sleep") /\ UNCHANGED todo
  /\ UNCHANGED <<env, table, lock, cursor, elapsed, pc, arg, lines, pipe, crashed, gone>>

ListEntry(p, t) ==
  /\ MainAt("list", "list")
  /\ p \in todo /\ proc[p].alive
  /\ pc[t] = "none"
  /\ todo' = todo \ {p}
  /\ pc' = [pc EXCEPT ![t] = "status"]
  /\ arg' = [arg EXCEPT ![t] = [NoLocals EXCEPT !.pid = p]]
  /\ UNCHANGED <<env, table, lock, cursor, elapsed, lines, pipe, crashed, gone>>

(* The entry is gone when readdir gets there, or pthread_create fails      *)
(* because there are too many threads.                                     *)
ListSkip(p) ==
  /\ MainAt("list", "list")
  /\ p \in todo
  /\ ~proc[p].alive \/ \A t \in Threads : pc[t] # "none"
  /\ todo' = todo \ {p}
  /\ UNCHANGED <<env, table, lock, cursor, elapsed, pc, arg, lines, pipe, crashed, gone>>

CloseProc ==
  /\ MainAt("list", "sleep")
  /\ todo = {}
  /\ UNCHANGED <<env, table, lock, todo, cursor, elapsed, pc, arg, lines, pipe, crashed, gone>>

(* An iteration lasts SleepTime or longer.                                 *)
Sleep ==
  /\ MainAt("sleep", "top")
  /\ elapsed' \in {e \in 0 .. CleanupAge + 1 : e >= elapsed + SleepTime}
                  \cup {CleanupAge + 1}
  /\ UNCHANGED <<env, table, lock, todo, cursor, pc, arg, lines, pipe, crashed, gone>>

MainStep ==
  \/ CheckCleanup \/ LockForCleanup \/ CleanupKeep \/ CleanupDrop \/ CleanupEnd
  \/ Banner \/ OpenProc \/ CloseProc \/ Sleep
  \/ \E p \in Pids : ListSkip(p) \/ \E t \in Threads : ListEntry(p, t)

-----------------------------------------------------------------------------
(* A thread: process_info, with update_process between lock and unlock.    *)

At(t, place) == ~crashed /\ pc[t] = place
Goto(t, place) == pc' = [pc EXCEPT ![t] = place]

(* /proc/[pid]/status: when it cannot be opened, name is left unwritten    *)
(* and rss stays 0.  get_total_ram failing also gives a reading of 0.      *)
ReadStatus(t) ==
  /\ At(t, "status")
  /\ Goto(t, "stat")
  /\ LET p == arg[t].pid IN
     \/ /\ proc[p].alive
        /\ \E r \in {proc[p].ram} \cup (IF OpenFails THEN {0} ELSE {}) :
             arg' = [arg EXCEPT ![t].trusted = proc[p].trusted, ![t].ram = r]
     \/ /\ ~proc[p].alive \/ OpenFails
        /\ \E b \in Trust : arg' = [arg EXCEPT ![t].trusted = b]
  /\ UNCHANGED <<env, table, lock, mainVars, lines, pipe, crashed, gone>>

ReadStat(t) ==
  /\ At(t, "stat")
  /\ proc[arg[t].pid].alive
  /\ Goto(t, "cputime")
  /\ arg' = [arg EXCEPT ![t].time = proc[arg[t].pid].time]
  /\ UNCHANGED <<env, table, lock, mainVars, lines, pipe, crashed, gone>>

(* A failed fopen is reported and the null FILE is read all the same: the  *)
(* whole monitor ends with a segmentation fault.                           *)
ReadStatFault(t) ==
  /\ At(t, "stat")
  /\ ~proc[arg[t].pid].alive \/ OpenFails
  /\ crashed' = TRUE
  /\ UNCHANGED <<env, table, lock, mainVars, pc, arg, lines, pipe, gone>>

(* get_cpu_time returns 0 when /proc/stat cannot be read.                  *)
ReadCpuTime(t) ==
  /\ At(t, "cputime")
  /\ Goto(t, "lock")
  /\ \E c \in {total} \cup (IF OpenFails THEN {0} ELSE {}) :
       arg' = [arg EXCEPT ![t].total = c]
  /\ UNCHANGED <<env, table, lock, mainVars, lines, pipe, crashed, gone>>

(* Mutant: the thread does not wait for the mutex.                         *)
LockTrackerMutant(t) ==
  /\ At(t, "lock") /\ lock' = t /\ Goto(t, "find")
  /\ UNCHANGED <<env, table, mainVars, arg, lines, pipe, crashed, gone>>

LockTracker(t) ==
  /\ At(t, "lock")
  /\ lock = Nobody
  /\ lock' = t
  /\ Goto(t, "find")
  /\ UNCHANGED <<env, table, mainVars, arg, lines, pipe, crashed, gone>>

FindTracked(t) ==
  /\ At(t, "find")
  /\ \E i \in DOMAIN tracker :
       /\ tracker[i].pid = arg[t].pid
       /\ \A j \in 1 .. i - 1 : tracker[j].pid # arg[t].pid
       /\ LET h == tracker[i] IN
          /\ arg' = [arg EXCEPT ![t].idx = i,
                       ![t].cpu = CpuUse(arg[t].time - h.time,
                                        arg[t].total - h.total)]
          /\ lines' = [lines EXCEPT ![t] = Peaks(arg[t], h)]
  /\ Goto(t, "peaks")
  /\ UNCHANGED <<env, table, lock, mainVars, pipe, crashed, gone>>

(* Mutant: > instead of >= in the test of the capacity.                    *)
FindUntrackedMutant(t) ==
  /\ At(t, "find") /\ arg[t].pid \notin Tracked
  /\ Len(tracker) <= capacity
  /\ Goto(t, "insert")
  /\ UNCHANGED <<env, table, lock, mainVars, arg, lines, pipe, crashed, gone>>

(* The process is not in the table; the table grows when it is full.       *)
FindUntracked(t) ==
  /\ At(t, "find")
  /\ arg[t].pid \notin Tracked
  /\ \/ Len(tracker) < capacity /\ UNCHANGED capacity
     \/ /\ Len(tracker) >= capacity
        /\ 2 * capacity <= MaxCapacity
        /\ capacity' = 2 * capacity
  /\ Goto(t, "insert")
  /\ UNCHANGED <<env, tracker, lock, mainVars, arg, lines, pipe, crashed, gone>>

(* realloc fails: exit(EXIT_FAILURE).                                      *)
ReallocFails(t) ==
  /\ At(t, "find")
  /\ arg[t].pid \notin Tracked
  /\ Len(tracker) >= capacity
  /\ crashed' = TRUE
  /\ UNCHANGED <<env, table, lock, mainVars, pc, arg, lines, pipe, gone>>

PrintPeak(t) ==
  /\ At(t, "peaks")
  /\ lines[t] # <<>>
  /\ WriteLine(Head(lines[t]), arg[t].pid)
  /\ lines' = [lines EXCEPT ![t] = Tail(@)]
  /\ UNCHANGED <<env, table, lock, mainVars, pc, arg, crashed, gone>>

(* Mutant: the mutex is not released after an update.                      *)
StoreSampleMutant(t) ==
  /\ At(t, "peaks") /\ lines[t] = <<>>
  /\ Goto(t, "report") /\ lines' = [lines EXCEPT ![t] = Report(arg[t])]
  /\ UNCHANGED <<env, table, lock, mainVars, arg, pipe, crashed, gone>>

(* The fields of the entry are assigned, the mutex is released.            *)
StoreSample(t) ==
  /\ At(t, "peaks")
  /\ lines[t] = <<>>
  /\ tracker' = [tracker EXCEPT ![arg[t].idx] =
       [@ EXCEPT !.cpu = arg[t].cpu, !.ram = Truncated(arg[t].ram),
                 !.time = arg[t].time, !.total = arg[t].total,
                 !.known = TRUE, !.exact = arg[t].ram]]
  /\ lock' = Nobody
  /\ Goto(t, "report")
  /\ lines' = [lines EXCEPT ![t] = Report(arg[t])]
  /\ UNCHANGED <<env, capacity, mainVars, arg, pipe, crashed, gone>>

(* Mutant: the new entry is not counted.                                   *)
InsertEntryMutant(t) ==
  /\ At(t, "insert") /\ lock' = Nobody
  /\ Goto(t, "report") /\ lines' = [lines EXCEPT ![t] = Report(arg[t])]
  /\ UNCHANGED <<env, table, mainVars, arg, pipe, crashed, gone>>

(* prev_ram_percent is not assigned in a new entry.                        *)
InsertEntry(t) ==
  /\ At(t, "insert")
  /\ \E g \in Garbage :
       tracker' = Append(tracker, [pid |-> arg[t].pid, cpu |-> 0, ram |-> g,
                    time |-> arg[t].time, total |-> arg[t].total,
                    known |-> FALSE, exact |-> 0])
  /\ lock' = Nobody
  /\ Goto(t, "report")
  /\ lines' = [lines EXCEPT ![t] = Report(arg[t])]
  /\ UNCHANGED <<env, capacity, mainVars, arg, pipe, crashed, gone>>

(* After the last line the thread frees its arguments and ends.            *)
PrintReport(t) ==
  /\ At(t, "report")
  /\ lines[t] # <<>>
  /\ WriteLine(Head(lines[t]), arg[t].pid)
  /\ lines' = [lines EXCEPT ![t] = Tail(@)]
  /\ IF Len(lines[t]) > 1
     THEN UNCHANGED <<pc, arg>>
     ELSE Goto(t, "none") /\ arg' = [arg EXCEPT ![t] = NoLocals]
  /\ UNCHANGED <<env, table, lock, mainVars, crashed, gone>>

ThreadStep(t) ==
  \/ ReadStatus(t) \/ ReadStat(t) \/ ReadStatFault(t) \/ ReadCpuTime(t)
  \/ LockTracker(t) \/ FindTracked(t) \/ FindUntracked(t) \/ ReallocFails(t)
  \/ PrintPeak(t) \/ StoreSample(t) \/ InsertEntry(t) \/ PrintReport(t)

-----------------------------------------------------------------------------
(* The environment: the kernel and the reader of stdout.                   *)

KernelStep(procNow, totalNow, goneNow) ==
  /\ proc' = procNow /\ total' = totalNow /\ gone' = goneNow
  /\ UNCHANGED <<table, lock, mainVars, pc, arg, lines, pipe, crashed>>

ProcessStarts(p) ==
  /\ ~proc[p].alive
  /\ \E b \in Trust, r \in Rams :
       KernelStep([proc EXCEPT ![p] = Fresh(b, r)], total, gone \ {p})

ProcessExits(p) ==
  /\ proc[p].alive
  /\ KernelStep([proc EXCEPT ![p] = Dead], total, gone)

(* A tick of every CPU, up to NumCpus of them spent on one process.        *)
ClockTick(p) ==
  /\ total + NumCpus <= MaxTotal
  /\ \E n \in 0 .. NumCpus :
       /\ n > 0 => proc[p].alive
       /\ KernelStep([proc EXCEPT ![p].time = @ + n], total + NumCpus, gone)

ProcessResizes(p) ==
  /\ proc[p].alive
  /\ \E r \in Rams \ {proc[p].ram} :
       KernelStep([proc EXCEPT ![p].ram = r], total, gone)

ReadLine ==
  /\ pipe # <<>>
  /\ pipe' = Tail(pipe)
  /\ UNCHANGED <<env, table, lock, mainVars, pc, arg, lines, crashed, gone>>

EnvStep ==
  \/ ReadLine
  \/ \E p \in Pids : \/ ProcessStarts(p) \/ ProcessExits(p)
                     \/ ClockTick(p) \/ ProcessResizes(p)

Next == MainStep \/ (\E t \in Threads : ThreadStep(t)) \/ EnvStep

Spec == Init /\ [][Next]_vars

(* The scheduler runs every thread that can run; somebody reads stdout.    *)
Fairness ==
  /\ WF_vars(MainStep)
  /\ \A t \in Threads : WF_vars(ThreadStep(t))
  /\ WF_vars(ReadLine)

FairSpec == Spec /\ Fairness

(* In addition a thread that waits for the mutex or for room in the pipe   *)
(* gets it some day: the main thread, which may take it again and again,   *)
(* sleeps for seconds in between.                                          *)
FairLockSpec ==
  /\ FairSpec
  /\ \A t \in Threads : SF_vars(LockTracker(t)) /\ SF_vars(PrintPeak(t) \/ PrintReport(t))

-----------------------------------------------------------------------------
(* Every variable has its type.                                            *)
TypeOK ==
  /\ proc \in [Pids -> Process] /\ total \in Nat
  /\ tracker \in Seq(History) /\ capacity \in Nat \ {0}
  /\ lock \in Threads \cup {MainThread, Nobody}
  /\ main \in MainPC /\ todo \subseteq Pids /\ cursor \in Nat \ {0}
  /\ elapsed \in Nat
  /\ pc \in [Threads -> ThreadPC] /\ arg \in [Threads -> Locals]
  /\ lines \in [Threads -> Seq(Kinds)]
  /\ pipe \in Seq(Line)
  /\ crashed \in BOOLEAN /\ gone \subseteq Pids

(* The table has at most one entry of a process, although several threads  *)
(* may be sampling the same process at once: searching and inserting are   *)
(* one critical section of update_process (guardia_info.c:38-105).         *)
NoDuplicatePids ==
  \A i, j \in DOMAIN tracker : tracker[i].pid = tracker[j].pid => i = j

(* While update_process works on the entry it has found, nothing moves or  *)
(* removes that entry: the swap of cleanup (guardia_info.c:25) would make  *)
(* it write the sample of one process into the history of another.         *)
LookupStable ==
  \A t \in Threads : pc[t] = "peaks" =>
     /\ arg[t].idx \in DOMAIN tracker
     /\ tracker[arg[t].idx].pid = arg[t].pid

(* The entries fit in the memory allocated for them, and there is room for *)
(* the one that a thread is about to write (guardia_info.c:79-100).        *)
WithinCapacity ==
  /\ Len(tracker) <= capacity
  /\ \A t \in Threads : pc[t] = "insert" => Len(tracker) < capacity

(* When cleanup ends, it has removed every process that did not exist      *)
(* during the whole of it, also the entry swapped into a freed slot        *)
(* (guardia_info.c:21-30).                                                 *)
CleanupComplete ==
  main = "cleanup" /\ cursor > Len(tracker) => Tracked \cap gone = {}

(* No step drops the history of a process that is running.                 *)
CleanupKeepsLive ==
  [][\A p \in Pids : p \in Tracked /\ p \notin Tracked' => ~proc[p].alive]_vars

(* The memory-peak alarm (guardia_info.c:61) compares a reading with a     *)
(* previous one cut to whole percents.  Once a previous reading has been   *)
(* stored, a rise of more than ten points is always reported and one of    *)
(* nine points or less never is; in between it depends on the fraction     *)
(* that was cut off, however finely memory is read.                        *)
RamPeakPrecision ==
  [][\A t \in Threads : pc[t] = "find" /\ pc'[t] = "peaks" =>
       LET h == tracker[arg'[t].idx]
           rise == arg[t].ram - h.exact
           alarm == \E k \in DOMAIN lines'[t] : lines'[t][k] = "ALERTA_PICO_RAM"
       IN  h.known => /\ alarm => rise > 9 * Unit
                      /\ rise > 10 * Unit /\ ~arg[t].trusted => alarm]_vars

(* The readings the kernel offers, those the threads hold, and the table   *)
(* as SampleTable sees it.                                                 *)
Reading == [p \in Pids |-> IF proc[p].alive THEN proc[p].ram ELSE -1]
Held    == [t \in Threads |-> IF pc[t] \in {"none", "status", "report"}
                              THEN [pid |-> Nobody, ram |-> 0]
                              ELSE [pid |-> arg[t].pid, ram |-> arg[t].ram]]
Sample(h) == [pid |-> h.pid, ram |-> IF h.known THEN h.exact ELSE -1]
Samples == {Sample(tracker[i]) : i \in DOMAIN tracker}

Table == INSTANCE SampleTable WITH reading <- Reading, held <- Held, samples <- Samples

(* Threads that sample, search, shift and grow the table together keep one *)
(* sample of each process, never mix up those of two, and forget only      *)
(* processes that have gone (guardia_info.c:17-33, 38-105).                *)
ImplementsTable == Table!Spec

(* Whoever takes the mutex gives it back, although it may be writing to a  *)
(* full pipe while it holds it (guardia_info.c:59-63).                     *)
LockReleased ==
  \A t \in Threads \cup {MainThread} : lock = t ~> (lock # t \/ crashed)

(* The main loop starts iteration after iteration.                         *)
LoopsForever == []<>(main = "top" \/ crashed)

(* A process that keeps running gets into the table and stays there.       *)
LiveProcessTracked ==
  \A p \in Pids : <>[](proc[p].alive) => <>[](p \in Tracked \/ crashed)

(* The monitor outlives the processes it watches: process_info reports a   *)
(* /proc/[pid]/stat that cannot be opened (guardia_info.c:136-138).        *)
MonitorSurvives == ~crashed
=============================================================================
