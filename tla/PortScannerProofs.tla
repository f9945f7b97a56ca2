-------------------------- MODULE PortScannerProofs --------------------------
(***************************************************************************)
(* Proofs about PortScanner: the split of the range into blocks and the    *)
(* joining of the threads, for every range and every number of threads.    *)
(***************************************************************************)
EXTENDS PortScanner, TLAPS

-----------------------------------------------------------------------------
(* The arithmetic of the split.                                            *)

ValidRange == lo \in Int /\ hi \in Int /\ lo <= hi

(* First port of block k: the Extra first blocks are one port longer.      *)
First(k) == lo + k * PerThread + (IF k < Extra THEN k ELSE Extra)

(* Quotient and remainder of natural numbers.                              *)
LEMMA Division ==
  ASSUME NEW a \in Nat, NEW b \in Nat \ {0}
  PROVE  /\ a \div b \in Nat /\ a % b \in 0 .. b - 1
         /\ a = b * (a \div b) + (a % b)
         /\ b <= a => a \div b >= 1
  OBVIOUS

(* The blocks have PerThread ports and the first Extra of them one more;   *)
(* together they have Total ports (Ports_Scanner.c:133-136).               *)
LEMMA SplitSizes ==
  ASSUME ValidRange
  PROVE  /\ Total \in Nat \ {0} /\ Count \in 1 .. MaxThreads
         /\ PerThread \in Nat \ {0} /\ Extra \in 0 .. Count - 1
         /\ Count * PerThread + Extra = Total
<1>1. Total \in Nat \ {0}
  BY DEF ValidRange, Total
<1>2. Count \in Nat \ {0} /\ Count <= Total /\ Count <= MaxThreads
  BY <1>1, ConstantsOK DEF Count, ConstantsOK
<1>3. /\ Total \div Count \in Nat /\ Total % Count \in 0 .. Count - 1
      /\ Total = Count * (Total \div Count) + (Total % Count)
      /\ Total \div Count >= 1
  BY <1>1, <1>2, Division
<1> QED BY <1>1, <1>2, <1>3, ConstantsOK DEF PerThread, Extra, ConstantsOK

(* Consecutive blocks, from lo to hi.                                      *)
LEMMA FirstSteps ==
  ASSUME ValidRange
  PROVE  /\ First(0) = lo /\ First(Count) = hi + 1
         /\ \A k \in 0 .. Count - 1 :
              /\ First(k) \in Int
              /\ First(k + 1) = First(k) + PerThread + (IF k < Extra THEN 1 ELSE 0)
              /\ First(k) <= First(k + 1) - 1
<1> DEFINE P == PerThread
           E == Extra
           C == Count
<1>1. /\ P \in Nat \ {0} /\ C \in Nat \ {0} /\ E \in 0 .. C - 1 /\ C * P + E = Total
      /\ lo \in Int /\ hi \in Int
  BY SplitSizes, ConstantsOK DEF ValidRange, ConstantsOK
<1>2. \A k : First(k) = lo + k * P + (IF k < E THEN k ELSE E)
  BY DEF First
<1>3. Total = hi - lo + 1
  BY DEF Total
<1> HIDE DEF P, E, C
<1>4. First(0) = lo
  BY <1>1, <1>2
<1>5. First(C) = hi + 1
  BY <1>1, <1>2, <1>3
<1>6. ASSUME NEW k \in 0 .. C - 1
      PROVE  /\ First(k) \in Int
             /\ First(k + 1) = First(k) + P + (IF k < E THEN 1 ELSE 0)
             /\ First(k) <= First(k + 1) - 1
  <2>1. (k + 1) * P = k * P + P /\ k * P \in Int
    BY <1>1
  <2>2. First(k) \in Int
    BY <1>1, <1>2, <2>1
  <2>3. First(k + 1) = First(k) + P + (IF k < E THEN 1 ELSE 0)
    <3>1. First(k + 1) = lo + (k * P + P) + (IF k + 1 < E THEN k + 1 ELSE E)
      BY <1>2, <2>1
    <3>2. First(k) = lo + k * P + (IF k < E THEN k ELSE E)
      BY <1>2
    <3> QED BY <1>1, <2>1, <3>1, <3>2
  <2> QED BY <1>1, <2>2, <2>3
<1> QED BY <1>4, <1>5, <1>6 DEF P, E, C

-----------------------------------------------------------------------------
(* Types.                                                                  *)

Working == {"create", "advance", "join", "done"}

(* Past the check the range is valid, and the counter stays in the arrays. *)
RangeChecked ==
  /\ main \in Working => ValidRange
  /\ main = "check" => i = 0
  /\ main \in {"create", "advance"} => i \in 0 .. Count - 1
  /\ main = "join" => i \in 0 .. Count

(* There are at most as many blocks as threads.                            *)
LEMMA CountFits ==
  ASSUME ValidRange
  PROVE  Count \in Nat \ {0} /\ 0 .. Count - 1 \subseteq Threads
  BY SplitSizes, ConstantsOK DEF Threads, ConstantsOK

(* A step that leaves the range alone leaves its split alone.              *)
LEMMA SameSplit ==
  ASSUME UNCHANGED range
  PROVE  /\ ValidRange' = ValidRange /\ Count' = Count
         /\ \A k : First(k)' = First(k)
  BY DEF range, ValidRange, Count, Total, First, PerThread, Extra

(* The steps of the main thread keep the types and what CheckRange has     *)
(* established.                                                            *)
LEMMA MainTyped ==
  ASSUME TypeOK, RangeChecked, MainStep
  PROVE  TypeOK' /\ RangeChecked'
<1>0. /\ lo \in Int /\ hi \in Int /\ UNCHANGED range
      /\ ValidRange' = ValidRange /\ Count' = Count
  <2>1. UNCHANGED range
    BY DEF MainStep, CheckRange, CreateThread, CreateError, Advance, Join, JoinUnset, Complete
  <2> QED BY <2>1, SameSplit, ConstantsOK DEF TypeOK, ConstantsOK
<1> USE DEF TypeOK, RangeChecked, Working, MainPC, range, threads
<1>1. CASE CheckRange
  <2>1. main' = "create" => ValidRange
    BY <1>0, <1>1 DEF CheckRange, ValidRange
  <2>2. ValidRange => 0 \in 0 .. Count - 1
    BY CountFits
  <2>3. start' \in Int /\ main' \in {"create", "rejected"} /\ i' = 0
    BY <1>0, <1>1 DEF CheckRange
  <2> QED BY <1>0, <1>1, <2>1, <2>2, <2>3 DEF CheckRange
<1>2. CASE CreateThread \/ CreateError
  <2>1. main = "create" /\ main' = "advance" /\ UNCHANGED <<i, start, lines, skipped, corrupt>>
    BY <1>2 DEF CreateThread, CreateError
  <2>2. i \in Threads
    BY <2>1, CountFits
  <2>3. Block \in [start : Int, end : Int]
    <3>1. PerThread \in Int
      BY <2>1, SplitSizes
    <3> QED BY <3>1 DEF Block
  <2>4. args' \in [Threads -> [start : Int, end : Int]]
    BY <1>2, <2>3 DEF CreateThread, CreateError
  <2>5. /\ place' \in [Threads -> {"none", "loop", "report", "ended"}]
        /\ port' \in [Threads -> Int]
    BY <1>2 DEF CreateThread, CreateError
  <2> QED BY <1>0, <2>1, <2>4, <2>5
<1>3. CASE Advance
  <2>1. /\ main = "advance" /\ UNCHANGED <<range, threads>>
        /\ corrupt' = (corrupt \/ Freed(i))
        /\ \/ i + 1 < Count /\ main' = "create" /\ i' = i + 1
           \/ ~(i + 1 < Count) /\ main' = "join" /\ i' = 0
    BY <1>3 DEF Advance
  <2>2. ValidRange /\ i \in 0 .. Count - 1 /\ i \in Threads /\ Count \in Nat
    BY <2>1, CountFits
  <2>3. start' \in Int
    <3>1. PICK e \in {args[i].end} \cup (IF Freed(i) THEN StaleEnds ELSE {}) : start' = e + 1
      BY <1>3 DEF Advance
    <3>2. e \in Int
      BY <2>2, <3>1, ConstantsOK DEF ConstantsOK
    <3> QED BY <3>1, <3>2
  <2>4. corrupt' \in BOOLEAN
    BY <2>1 DEF Freed
  <2>5. RangeChecked'
    BY <1>0, <2>1, <2>2
  <2> QED BY <1>0, <2>1, <2>2, <2>3, <2>4, <2>5
<1>4. CASE Join \/ JoinUnset \/ Complete
  <2>1. /\ main = "join" /\ UNCHANGED <<range, start, threads, corrupt>>
        /\ \/ i < Count /\ i' = i + 1 /\ main' = "join"
           \/ i' = i /\ main' \in {"crashed", "done"}
    BY <1>4 DEF Join, JoinUnset, Complete
  <2>2. ValidRange /\ i \in 0 .. Count /\ Count \in Nat
    BY <2>1, CountFits
  <2> QED BY <1>0, <2>1, <2>2
<1> QED BY <1>1, <1>2, <1>3, <1>4 DEF MainStep

(* So do the steps of the threads.                                         *)
LEMMA ThreadTyped ==
  ASSUME TypeOK, RangeChecked, NEW k \in Threads, ThreadStep(k)
  PROVE  TypeOK' /\ RangeChecked' /\ UNCHANGED <<range, main, i, start, args, corrupt>>
<1>1. UNCHANGED <<range, main, i, start, args, corrupt>>
  BY DEF ThreadStep, SkipPort, Connect, Report, Exit
<1>2. RangeChecked'
  BY <1>1, SameSplit DEF RangeChecked
<1>3. port' \in [Threads -> Int] /\ place' \in [Threads -> {"none", "loop", "report", "ended"}]
  BY DEF TypeOK, ThreadStep, SkipPort, Connect, Report, Exit
<1>4. lines' \subseteq Threads \X Int /\ skipped' \subseteq Int
  <2>1. /\ port[k] \in Int /\ <<k, port[k]>> \in Threads \X Int
        /\ lines \subseteq Threads \X Int /\ skipped \subseteq Int
    BY DEF TypeOK
  <2>2. lines' = lines \/ lines' = lines \cup {<<k, port[k]>>}
    BY DEF ThreadStep, SkipPort, Connect, Report, Exit
  <2>3. skipped' = skipped \/ skipped' = skipped \cup {port[k]}
    BY DEF ThreadStep, SkipPort, Connect, Report, Exit
  <2> QED BY <2>1, <2>2, <2>3
<1> QED BY <1>1, <1>2, <1>3, <1>4 DEF TypeOK, range

(* The types of the initial state.                                         *)
LEMMA InitTyped == Init => TypeOK /\ RangeChecked
<1> SUFFICES ASSUME Init PROVE TypeOK /\ RangeChecked
  OBVIOUS
<1>1. /\ args \in [Threads -> [start : Int, end : Int]]
      /\ place \in [Threads -> {"none", "loop", "report", "ended"}]
      /\ port \in [Threads -> Int]
  BY DEF Init
<1>2. lines = {} /\ skipped = {} /\ corrupt = FALSE /\ i = 0 /\ start = 0
  BY DEF Init
<1>3. RangeChecked /\ main \in MainPC
  BY DEF Init, RangeChecked, Working, MainPC
<1>4. lines \subseteq Threads \X Int /\ skipped \subseteq Int
  BY <1>2
<1>5. lo \in Bounds /\ hi \in Bounds /\ open \in OpenSets
  BY DEF Init
<1>6. i \in Nat /\ start \in Int
  BY <1>2
<1>7. corrupt \in BOOLEAN
  BY <1>2, Zenon
<1> QED BY <1>1, <1>3, <1>4, <1>5, <1>6, <1>7 DEF TypeOK

(* No step breaks the types.                                               *)
LEMMA TypesKept == TypeOK /\ RangeChecked /\ [Next]_vars => TypeOK' /\ RangeChecked'
<1> SUFFICES ASSUME TypeOK, RangeChecked, [Next]_vars PROVE TypeOK' /\ RangeChecked'
  OBVIOUS
<1>1. CASE UNCHANGED vars
  BY <1>1, SameSplit DEF vars, threads, range, TypeOK, RangeChecked
<1> QED BY <1>1, MainTyped, ThreadTyped DEF Next, Stopped

(* Types, together with what the check of the range establishes.           *)
THEOREM TypeCorrect == Spec => [](TypeOK /\ RangeChecked)
<1>1. Init => TypeOK /\ RangeChecked
  BY InitTyped
<1>2. TypeOK /\ RangeChecked /\ [Next]_vars => TypeOK' /\ RangeChecked'
  BY TypesKept
<1> QED BY <1>1, <1>2, PTL DEF Spec

-----------------------------------------------------------------------------
(* The blocks.                                                             *)

(* As long as no freed block has been read, every block given out is the   *)
(* one the split assigns, and current_start is the first port of the next. *)
GivenOut(n) == \A k \in 0 .. n - 1 : args[k] = [start |-> First(k), end |-> First(k + 1) - 1]

BlocksInv ==
  ~corrupt =>
    /\ main = "create"  => start = First(i) /\ GivenOut(i)
    /\ main = "advance" => start = First(i) /\ GivenOut(i + 1)
    /\ main \in {"join", "done"} => GivenOut(Count)

(* The main thread makes each block where the one before it ends           *)
(* (Ports_Scanner.c:141-153).                                              *)
LEMMA MainKeepsBlocks ==
  ASSUME TypeOK, RangeChecked, BlocksInv, MainStep
  PROVE  BlocksInv'
<1>0. \A k : First(k)' = First(k)
  <2>1. UNCHANGED range
    BY DEF MainStep, CheckRange, CreateThread, CreateError, Advance, Join, JoinUnset, Complete
  <2> QED BY <2>1, SameSplit
<1>1. Count' = Count
  BY SameSplit
     DEF MainStep, CheckRange, CreateThread, CreateError, Advance, Join, JoinUnset, Complete
<1>2. CASE CheckRange
  <2>1. main' \in {"create", "rejected"} /\ i' = 0 /\ (main' = "create" => start' = lo)
    BY <1>2 DEF CheckRange, RangeChecked
  <2>2. main' = "create" => ValidRange
    BY <1>2, ConstantsOK DEF CheckRange, ValidRange, TypeOK, ConstantsOK
  <2>3. main' = "create" => start' = First(0)
    BY <2>1, <2>2, FirstSteps
  <2> QED BY <1>0, <2>1, <2>3 DEF BlocksInv, GivenOut
<1>3. CASE CreateThread \/ CreateError
  <2>1. /\ main = "create" /\ main' = "advance" /\ i' = i /\ start' = start
        /\ corrupt' = corrupt /\ args' = [args EXCEPT ![i] = Block]
    BY <1>3 DEF CreateThread, CreateError
  <2>2. ValidRange /\ i \in 0 .. Count - 1 /\ i \in Threads
    BY <2>1, CountFits DEF RangeChecked, Working
  <2>3. SUFFICES ASSUME ~corrupt, start = First(i), GivenOut(i) PROVE GivenOut(i + 1)'
    BY <1>0, <2>1 DEF BlocksInv
  <2>4. Block = [start |-> First(i), end |-> First(i + 1) - 1]
    BY <2>2, <2>3, FirstSteps, SplitSizes DEF Block
  <2>5. args'[i] = Block /\ \A k \in 0 .. i - 1 : args'[k] = args[k]
    BY <2>1, <2>2 DEF TypeOK, Threads
  <2>6. \A k \in 0 .. i : k \in 0 .. i - 1 \/ k = i
    BY <2>2, CountFits
  <2>7. (i + 1)' - 1 = i
    BY <2>1, <2>2, CountFits
  <2> QED BY <1>0, <2>3, <2>4, <2>5, <2>6, <2>7 DEF GivenOut
<1>4. CASE Advance
  <2>1. /\ main = "advance" /\ args' = args
        /\ \/ i + 1 < Count /\ main' = "create" /\ i' = i + 1
           \/ ~(i + 1 < Count) /\ main' = "join"
    BY <1>4 DEF Advance, threads
  <2>2. ~corrupt' => ~corrupt /\ start' = args[i].end + 1
    BY <1>4 DEF Advance
  <2>3. ValidRange /\ i \in 0 .. Count - 1 /\ Count \in Nat
    BY <2>1, CountFits DEF RangeChecked, Working
  <2>4. \A n : (\A k \in 0 .. n - 1 :
                  args'[k] = [start |-> First(k)', end |-> First(k + 1)' - 1]) <=> GivenOut(n)
    BY <1>0, <2>1 DEF GivenOut
  <2>5. ASSUME ~corrupt' PROVE start' = First(i + 1) /\ GivenOut(i + 1)
    <3>1. GivenOut(i + 1) /\ i \in 0 .. (i + 1) - 1
      BY <2>1, <2>2, <2>3, <2>5 DEF BlocksInv
    <3>2. args[i].end = First(i + 1) - 1
      <4>1. args[i] = [start |-> First(i), end |-> First(i + 1) - 1]
        BY <3>1 DEF GivenOut
      <4> QED BY ONLY <4>1
    <3>3. First(i + 1) \in Int
      BY <2>3, FirstSteps, SplitSizes
    <3> QED BY <2>2, <2>5, <3>1, <3>2, <3>3
  <2>6. CASE i + 1 < Count
    <3>1. main' = "create" /\ i' = i + 1
      BY <2>1, <2>6
    <3> QED BY <1>0, <2>1, <2>4, <2>5, <3>1 DEF BlocksInv, GivenOut
  <2>7. CASE ~(i + 1 < Count)
    <3>1. main' = "join" /\ i + 1 = Count
      BY <2>1, <2>3, <2>7
    <3> QED BY <1>0, <1>1, <2>1, <2>4, <2>5, <3>1 DEF BlocksInv, GivenOut
  <2> QED BY <2>6, <2>7
<1>5. CASE Join \/ JoinUnset \/ Complete
  <2>1. /\ main = "join" /\ main' \in {"join", "done", "crashed"}
        /\ args' = args /\ corrupt' = corrupt
    BY <1>5 DEF Join, JoinUnset, Complete, threads
  <2> QED BY <1>0, <1>1, <2>1 DEF BlocksInv, GivenOut
<1> QED BY <1>2, <1>3, <1>4, <1>5 DEF MainStep

(* A step that leaves the blocks and the place of main alone keeps what is *)
(* known of them.                                                          *)
LEMMA SameBlocks ==
  ASSUME BlocksInv, UNCHANGED <<range, main, i, start, args, corrupt>>
  PROVE  BlocksInv'
  BY SameSplit DEF BlocksInv, GivenOut

(* No step breaks what is known of the blocks.                             *)
LEMMA BlocksKept == TypeOK /\ RangeChecked /\ BlocksInv /\ [Next]_vars => BlocksInv'
<1> SUFFICES ASSUME TypeOK, RangeChecked, BlocksInv, [Next]_vars PROVE BlocksInv'
  OBVIOUS
<1>1. CASE UNCHANGED vars
  BY <1>1, SameBlocks DEF vars, threads
<1>2. ASSUME NEW k \in Threads, ThreadStep(k) PROVE BlocksInv'
  BY <1>2, ThreadTyped, SameBlocks
<1> QED BY <1>1, <1>2, MainKeepsBlocks DEF Next, Stopped

(* The blocks given out tile the range, for every range and every limit on *)
(* the number of threads, as long as main has read no freed block.         *)
THEOREM BlocksTile == Spec => []Tiled
<1>1. Init => BlocksInv
  BY DEF Init, BlocksInv
<1>2. TypeOK /\ RangeChecked /\ BlocksInv /\ [Next]_vars => BlocksInv'
  BY BlocksKept
<1>3. TypeOK /\ RangeChecked /\ BlocksInv => Tiled
  <2> SUFFICES ASSUME TypeOK, RangeChecked, BlocksInv, main \in {"join", "done"}, ~corrupt
               PROVE  /\ args[0].start = lo /\ args[Count - 1].end = hi
                      /\ \A k \in 0 .. Count - 1 : args[k].start <= args[k].end
                      /\ \A k \in 0 .. Count - 2 : args[k].end + 1 = args[k + 1].start
    BY DEF Tiled
  <2>1. ValidRange /\ GivenOut(Count) /\ Count \in Nat \ {0}
    BY CountFits DEF BlocksInv, RangeChecked, Working
  <2>2. \A k \in 0 .. Count - 1 :
          args[k].start = First(k) /\ args[k].end = First(k + 1) - 1
    <3> TAKE k \in 0 .. Count - 1
    <3>1. args[k] = [start |-> First(k), end |-> First(k + 1) - 1]
      BY <2>1 DEF GivenOut
    <3> QED BY ONLY <3>1
  <2>3. /\ 0 \in 0 .. Count - 1 /\ Count - 1 \in 0 .. Count - 1
        /\ (Count - 1) + 1 = Count
        /\ \A k \in 0 .. Count - 2 : k \in 0 .. Count - 1 /\ k + 1 \in 0 .. Count - 1
    BY <2>1
  <2>4. args[0].start = lo
    BY <2>1, <2>2, <2>3, FirstSteps
  <2>5. args[Count - 1].end = hi
    <3>1. args[Count - 1].end = First(Count) - 1
      BY <2>2, <2>3
    <3> QED BY <2>1, <3>1, FirstSteps DEF ValidRange
  <2>6. \A k \in 0 .. Count - 1 : args[k].start <= args[k].end
    BY <2>1, <2>2, FirstSteps
  <2>7. \A k \in 0 .. Count - 2 : args[k].end + 1 = args[k + 1].start
    <3> TAKE k \in 0 .. Count - 2
    <3>1. First(k + 1) \in Int
      BY <2>1, <2>3, FirstSteps
    <3> QED BY <2>2, <2>3, <3>1
  <2> QED BY <2>4, <2>5, <2>6, <2>7
<1> QED BY <1>1, <1>2, <1>3, TypeCorrect, PTL DEF Spec

-----------------------------------------------------------------------------
(* The joins.                                                              *)

Settled(k) == place[k] \in {"none", "ended"}

(* Threads are created in order, and joined in the same order.             *)
JoinInv ==
  /\ \A k \in Threads :
       \/ main \in Working /\ (main = "create" => k < i)
                           /\ (main = "advance" => k <= i)
                           /\ (main \in {"join", "done"} => k < Count)
       \/ main = "crashed"
       \/ place[k] = "none"
  /\ main = "join" => \A k \in Threads : k < i => Settled(k)
  /\ main = "done" => \A k \in Threads : Settled(k)

(* The main thread creates the threads in order and passes only those that *)
(* have ended (Ports_Scanner.c:155-157).                                   *)
LEMMA MainKeepsJoins ==
  ASSUME TypeOK, RangeChecked, JoinInv, MainStep
  PROVE  JoinInv'
<1>0. Count' = Count /\ \A k \in Threads : k \in Nat
  BY SameSplit
     DEF MainStep, CheckRange, CreateThread, CreateError, Advance, Join, JoinUnset, Complete,
         Threads
<1> USE DEF JoinInv, Settled, Working, threads
<1>1. CASE CheckRange
  BY <1>1 DEF CheckRange
<1>2. CASE CreateThread \/ CreateError
  <2>1. main = "create" /\ main' = "advance" /\ i' = i
    BY <1>2 DEF CreateThread, CreateError
  <2>2. \A k \in Threads : k = i \/ place'[k] = place[k]
    BY <1>2 DEF CreateThread, CreateError, TypeOK
  <2>3. i \in Nat
    BY DEF TypeOK
  <2> QED BY <1>0, <2>1, <2>2, <2>3
<1>3. CASE Advance
  <2>1. /\ main = "advance" /\ place' = place
        /\ \/ i + 1 < Count /\ main' = "create" /\ i' = i + 1
           \/ ~(i + 1 < Count) /\ main' = "join" /\ i' = 0
    BY <1>3 DEF Advance
  <2>2. i \in 0 .. Count - 1 /\ Count \in Nat
    BY <2>1, CountFits DEF RangeChecked
  <2> QED BY <1>0, <2>1, <2>2
<1>4. CASE Join \/ JoinUnset
  <2>1. /\ main = "join" /\ place' = place /\ Settled(i)
        /\ \/ main' = "join" /\ i' = i + 1
           \/ main' = "crashed"
    BY <1>4 DEF Join, JoinUnset
  <2>2. i \in Nat
    BY DEF TypeOK
  <2> QED BY <1>0, <2>1, <2>2
<1>5. CASE Complete
  <2>1. main = "join" /\ i = Count /\ main' = "done" /\ place' = place
    BY <1>5 DEF Complete
  <2> QED BY <1>0, <2>1
<1> QED BY <1>1, <1>2, <1>3, <1>4, <1>5 DEF MainStep

(* A thread that has ended stays ended.                                    *)
LEMMA ThreadKeepsJoins ==
  ASSUME TypeOK, RangeChecked, JoinInv, NEW k \in Threads, ThreadStep(k)
  PROVE  JoinInv'
<1>1. UNCHANGED <<range, main, i>> /\ Count' = Count
  BY ThreadTyped, SameSplit
<1>2. main # "done" /\ place[k] \in {"loop", "report"}
  BY DEF ThreadStep, SkipPort, Connect, Report, Exit, InLoop, Ended
<1>3. \A j \in Threads \ {k} : place'[j] = place[j]
  BY DEF TypeOK, ThreadStep, SkipPort, Connect, Report, Exit
<1> QED BY <1>1, <1>2, <1>3 DEF JoinInv, Settled

(* No step breaks what is known of the joins.                              *)
LEMMA JoinsKept == TypeOK /\ RangeChecked /\ JoinInv /\ [Next]_vars => JoinInv'
<1> SUFFICES ASSUME TypeOK, RangeChecked, JoinInv, [Next]_vars PROVE JoinInv'
  OBVIOUS
<1>1. CASE UNCHANGED vars
  BY <1>1, SameSplit DEF vars, threads, JoinInv, Settled
<1> QED BY <1>1, MainKeepsJoins, ThreadKeepsJoins DEF Next, Stopped

(* The scan is declared complete only after every thread has ended, for    *)
(* every range and every limit on the number of threads.                   *)
THEOREM AllJoined == Spec => []NoneLeftBehind
<1>1. Init => JoinInv
  BY DEF Init, JoinInv
<1>2. TypeOK /\ RangeChecked /\ JoinInv /\ [Next]_vars => JoinInv'
  BY JoinsKept
<1>3. JoinInv => NoneLeftBehind
  BY DEF JoinInv, NoneLeftBehind, Settled
<1> QED BY <1>1, <1>2, <1>3, TypeCorrect, PTL DEF Spec
=============================================================================
