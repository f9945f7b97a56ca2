---------------------------- MODULE PortScanner ----------------------------
(***************************************************************************)
(* The port scanner of "Defensores de las Murallas": the main thread       *)
(* checks the range, splits it into one block of ports per thread, creates *)
(* the threads, joins them and says that the scan is complete; each thread *)
(* tries to connect to the ports of its block and reports the open ones.   *)
(***************************************************************************)
EXTENDS Integers, FiniteSets

CONSTANTS
  MaxThreads,   \* MAX_THREADS
  MaxPorts,     \* MAX_PORTS
  PortSpace,    \* numbers that fit in sin_port; htons keeps the remainder
  Bounds,       \* numbers the user may give as ends of the range
  OpenSets,     \* which sets of ports may be open on this machine
  StaleEnds,    \* what end_port may read as after its block has been freed
  CreateFails,  \* whether pthread_create may fail
  SocketFails   \* whether socket may fail

ASSUME ConstantsOK ==
  /\ MaxThreads \in Nat \ {0} /\ MaxPorts \in Nat
  /\ PortSpace \in Nat /\ MaxPorts < PortSpace
  /\ Bounds \subseteq Int /\ StaleEnds \subseteq Int
  /\ CreateFails \in BOOLEAN /\ SocketFails \in BOOLEAN

Threads == 0 .. MaxThreads - 1

VARIABLES
  lo, hi,     \* start_port and end_port of main
  open,       \* ports something listens on
  main,       \* where main is
  i,          \* its loop counter
  start,      \* current_start
  args,       \* the block each thread was given
  place,      \* where each thread is
  port,       \* port of the for loop of each thread
  lines,      \* reports: <<thread, port>>
  skipped,    \* history: ports whose socket could not be created
  corrupt     \* history: main has read a block after it was freed

range == <<lo, hi, open>>
threads == <<args, place, port, lines, skipped>>
vars == <<range, main, i, start, threads, corrupt>>

MainPC == {"check", "create", "advance", "join", "done", "rejected", "crashed"}
Ended  == {"done", "rejected", "crashed"}   \* the process has ended

Total      == hi - lo + 1
Count      == IF Total < MaxThreads THEN Total ELSE MaxThreads
PerThread  == Total \div Count
Extra      == Total % Count
Created    == {k \in Threads : place[k] # "none"}

(* args[k] is freed by main when the thread could not be created, and by   *)
(* the thread when it ends.                                                *)
Freed(k) == place[k] \in {"none", "ended"}

Init ==
  /\ lo \in Bounds /\ hi \in Bounds /\ open \in OpenSets
  /\ main = "check" /\ i = 0 /\ start = 0
  /\ args = [k \in Threads |-> [start |-> 0, end |-> 0]]
  /\ place = [k \in Threads |-> "none"]
  /\ port = [k \in Threads |-> 0]
  /\ lines = {} /\ skipped = {} /\ corrupt = FALSE

-----------------------------------------------------------------------------
(* The main thread.                                                        *)

CheckRange ==
  /\ main = "check"
  /\ IF lo < 1 \/ hi > MaxPorts \/ lo > hi
     THEN main' = "rejected" /\ UNCHANGED start
     ELSE main' = "create" /\ start' = lo
  /\ UNCHANGED <<range, i, threads, corrupt>>

(* Mutant: the remainder of the division is lost.                          *)
BlockMutant == [start |-> start, end |-> start + PerThread - 1]

Block == [start |-> start,
          end |-> start + PerThread - 1 + (IF i < Extra THEN 1 ELSE 0)]

CreateThread ==
  /\ main = "create" /\ main' = "advance"
  /\ args' = [args EXCEPT ![i] = Block]
  /\ place' = [place EXCEPT ![i] = "loop"]
  /\ port' = [port EXCEPT ![i] = start]
  /\ UNCHANGED <<range, i, start, lines, skipped, corrupt>>

CreateError ==
  /\ CreateFails
  /\ main = "create" /\ main' = "advance"
  /\ args' = [args EXCEPT ![i] = Block]
  /\ UNCHANGED <<range, i, start, place, port, lines, skipped, corrupt>>

(* Mutant: the counter of the join loop starts one too low.                *)
AdvanceMutant ==
  /\ main = "advance" /\ start' = args[i].end + 1
  /\ IF i + 1 < Count
     THEN main' = "create" /\ i' = i + 1
     ELSE main' = "join" /\ i' = i - Count
  /\ UNCHANGED <<range, threads, corrupt>>

(* current_start = args->end_port + 1, whoever owns args by then.          *)
Advance ==
  /\ main = "advance"
  /\ \E e \in {args[i].end} \cup (IF Freed(i) THEN StaleEnds ELSE {}) : start' = e + 1
  /\ corrupt' = (corrupt \/ Freed(i))
  /\ IF i + 1 < Count
     THEN main' = "create" /\ i' = i + 1
     ELSE main' = "join" /\ i' = 0
  /\ UNCHANGED <<range, threads>>

(* Mutant: the threads are detached instead of joined.                     *)
JoinMutant ==
  /\ main = "join" /\ i < Count /\ place[i] # "none"
  /\ i' = i + 1
  /\ UNCHANGED <<range, main, start, threads, corrupt>>

Join ==
  /\ main = "join" /\ i < Count
  /\ place[i] = "ended"
  /\ i' = i + 1
  /\ UNCHANGED <<range, main, start, threads, corrupt>>

(* Joining the identifier of a thread that was not created: the variable   *)
(* was never written, the call returns an error or ends the program.       *)
JoinUnset ==
  /\ main = "join" /\ i < Count
  /\ place[i] = "none"
  /\ \/ i' = i + 1 /\ UNCHANGED main
     \/ main' = "crashed" /\ UNCHANGED i
  /\ UNCHANGED <<range, start, threads, corrupt>>

Complete ==
  /\ main = "join" /\ i = Count
  /\ main' = "done"
  /\ UNCHANGED <<range, i, start, threads, corrupt>>

MainStep ==
  CheckRange \/ CreateThread \/ CreateError \/ Advance \/ Join \/ JoinUnset \/ Complete

-----------------------------------------------------------------------------
(* A thread: port_scanner.                                                 *)

InLoop(k) == main \notin Ended /\ place[k] = "loop" /\ port[k] <= args[k].end

SkipPort(k) ==
  /\ SocketFails
  /\ InLoop(k)
  /\ skipped' = skipped \cup {port[k]}
  /\ port' = [port EXCEPT ![k] = @ + 1]
  /\ UNCHANGED <<range, main, i, start, args, place, lines, corrupt>>

(* Mutant: the port is advanced before it is reported.                     *)
ConnectMutant(k) ==
  /\ InLoop(k)
  /\ port' = [port EXCEPT ![k] = @ + 1]
  /\ place' = [place EXCEPT ![k] = IF port[k] % PortSpace \in open THEN "report" ELSE "loop"]
  /\ UNCHANGED <<range, main, i, start, args, lines, skipped, corrupt>>

(* connect, with the port number cut to 16 bits by htons.                  *)
Connect(k) ==
  /\ InLoop(k)
  /\ IF port[k] % PortSpace \in open
     THEN place' = [place EXCEPT ![k] = "report"] /\ UNCHANGED port
     ELSE port' = [port EXCEPT ![k] = @ + 1] /\ UNCHANGED place
  /\ UNCHANGED <<range, main, i, start, args, lines, skipped, corrupt>>

(* Mutant: the port is not advanced after it has been reported.            *)
ReportMutant(k) ==
  /\ main \notin Ended /\ place[k] = "report"
  /\ lines' = lines \cup {<<k, port[k]>>}
  /\ place' = [place EXCEPT ![k] = "loop"]
  /\ UNCHANGED <<range, main, i, start, args, port, skipped, corrupt>>

(* The line is printed with the mutex held, which protects nothing else.   *)
Report(k) ==
  /\ main \notin Ended /\ place[k] = "report"
  /\ lines' = lines \cup {<<k, port[k]>>}
  /\ port' = [port EXCEPT ![k] = @ + 1]
  /\ place' = [place EXCEPT ![k] = "loop"]
  /\ UNCHANGED <<range, main, i, start, args, skipped, corrupt>>

(* free(args); pthread_exit.                                               *)
Exit(k) ==
  /\ main \notin Ended /\ place[k] = "loop" /\ port[k] > args[k].end
  /\ place' = [place EXCEPT ![k] = "ended"]
  /\ UNCHANGED <<range, main, i, start, args, port, lines, skipped, corrupt>>

ThreadStep(k) == SkipPort(k) \/ Connect(k) \/ Report(k) \/ Exit(k)

Stopped == main \in Ended /\ UNCHANGED vars

Next == MainStep \/ (\E k \in Threads : ThreadStep(k)) \/ Stopped

Spec == Init /\ [][Next]_vars

(* The scheduler runs every thread that can run.                           *)
FairSpec == Spec /\ WF_vars(MainStep) /\ \A k \in Threads : WF_vars(ThreadStep(k))

-----------------------------------------------------------------------------
(* Every variable has its type.                                            *)
TypeOK ==
  /\ lo \in Bounds /\ hi \in Bounds /\ open \in OpenSets
  /\ main \in MainPC /\ i \in Nat /\ start \in Int
  /\ args \in [Threads -> [start : Int, end : Int]]
  /\ place \in [Threads -> {"none", "loop", "report", "ended"}]
  /\ port \in [Threads -> Int]
  /\ lines \subseteq Threads \X Int /\ skipped \subseteq Int
  /\ corrupt \in BOOLEAN

(* The blocks follow one another from the first port of the range to the   *)
(* last, none of them empty, whatever the remainder of the division        *)
(* (Ports_Scanner.c:133-153), unless a freed block has been read.          *)
Tiled ==
  main \in {"join", "done"} /\ ~corrupt =>
    /\ args[0].start = lo /\ args[Count - 1].end = hi
    /\ \A k \in 0 .. Count - 1 : args[k].start <= args[k].end
    /\ \A k \in 0 .. Count - 2 : args[k].end + 1 = args[k + 1].start

(* A complete scan has reported every open port of the range once, and     *)
(* nothing else, except ports whose socket could not be created.           *)
ReportedOnce ==
  main = "done" /\ ~corrupt =>
    /\ \A line \in lines : line[2] \in lo .. hi
    /\ \A p \in lo .. hi :
         Cardinality({k \in Threads : <<k, p>> \in lines}) =
           (IF p \in open \ skipped THEN 1 ELSE 0)

(* The ports threads have passed, and those they have reported, as long as *)
(* main has not read a freed block.                                        *)
Tried    == IF corrupt THEN {} ELSE UNION {args[k].start .. port[k] - 1 : k \in Created}
Reported == IF corrupt THEN {} ELSE {line[2] : line \in lines}
Status   == CASE corrupt -> "broken"
              [] main = "done" /\ ~corrupt -> "complete"
              [] main = "rejected" /\ ~corrupt -> "rejected"
              [] OTHER -> "scanning"

Scan == INSTANCE PortScan WITH tried <- Tried, reported <- Reported, status <- Status

(* The threads together try each port of the range once, as one thread     *)
(* with the whole range would, and the scan is complete when they have     *)
(* tried them all (Ports_Scanner.c:72-107, 133-159).                        *)
ImplementsScan == Scan!Spec

(* When the program says that the scan is complete, no thread is still at  *)
(* work (Ports_Scanner.c:155-157).                                         *)
NoneLeftBehind ==
  main = "done" => \A k \in Threads : place[k] \in {"none", "ended"}

(* The program ends, by itself or by a crash.                              *)
Terminates == <>(main \in Ended)

(* "Escaneo completado." for the range that was announced: each of its     *)
(* ports has been tried by some thread (Ports_Scanner.c:131 and 159).      *)
CompleteCoversRange ==
  main = "done" =>
    \A p \in lo .. hi : \E k \in Created : p \in args[k].start .. args[k].end
=============================================================================
