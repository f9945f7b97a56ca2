---------------------------- MODULE PortScanProofs ----------------------------
(***************************************************************************)
(* Proofs about PortScanner: what is reported, and that the threads        *)
(* together implement PortScan, for every range, number of threads and set *)
(* of open ports.                                                          *)
(***************************************************************************)
EXTENDS PortScannerProofs, FiniteSetTheorems

-----------------------------------------------------------------------------
(* Where the blocks are.                                                   *)

(* A block ends before the next ones begin, and all lie in the range.      *)
LEMMA BlocksApart ==
  ASSUME ValidRange, NEW k \in 0 .. Count - 1
  PROVE  /\ First(k) \in Int /\ First(k + 1) \in Int
         /\ lo <= First(k) /\ First(k) < First(k + 1) /\ First(k + 1) <= hi + 1
         /\ \A l \in 0 .. Count - 1 : k < l => First(k + 1) <= First(l)
<1> DEFINE P == PerThread
           E == Extra
           C == Count
<1>1. /\ P \in Nat \ {0} /\ C \in Nat \ {0} /\ E \in 0 .. C - 1 /\ C * P + E = hi - lo + 1
      /\ lo \in Int /\ hi \in Int
  BY SplitSizes, ConstantsOK DEF ValidRange, ConstantsOK, Total
<1>2. \A n : First(n) = lo + n * P + (IF n < E THEN n ELSE E)
  BY DEF First
<1> HIDE DEF P, E, C
<1>3. ASSUME NEW m \in 0 .. C, NEW n \in 0 .. C, m <= n
      PROVE  First(m) \in Int /\ First(n) \in Int /\ First(m) <= First(n)
  <2>1. m * P \in Int /\ n * P \in Int /\ (n - m) * P \in Int
    BY <1>1
  <2>2. n * P = m * P + (n - m) * P
    BY <1>1
  <2>3. (n - m) * P >= 0
    BY <1>1, <1>3
  <2> QED BY <1>1, <1>2, <1>3, <2>1, <2>2, <2>3
<1>4. k \in 0 .. C /\ k + 1 \in 0 .. C /\ 0 \in 0 .. C /\ C \in 0 .. C /\ k \in 0 .. C - 1
  BY <1>1 DEF C
<1>5. First(0) = lo /\ First(C) = hi + 1 /\ First(k) <= First(k + 1) - 1
  BY FirstSteps DEF C
<1>6. ASSUME NEW l \in 0 .. C - 1, k < l PROVE First(k + 1) <= First(l)
  <2>1. l \in 0 .. C /\ k + 1 <= l
    BY <1>1, <1>4, <1>6
  <2> QED BY <1>3, <1>4, <2>1
<1>7. lo <= First(k) /\ First(k) \in Int
  <2>1. 0 <= k
    BY <1>4
  <2> QED BY <1>3, <1>4, <1>5, <2>1
<1>8. First(k + 1) <= hi + 1 /\ First(k + 1) \in Int
  <2>1. k + 1 <= C
    BY <1>1, <1>4
  <2> QED BY <1>3, <1>4, <1>5, <2>1
<1> QED BY <1>5, <1>6, <1>7, <1>8 DEF C

(* Every port of the range is in a block.                                  *)
LEMMA BlocksCover ==
  ASSUME ValidRange, NEW p \in lo .. hi
  PROVE  \E k \in 0 .. Count - 1 : First(k) <= p /\ p < First(k + 1)
<1> DEFINE P == PerThread
           E == Extra
           C == Count
           d == p - lo
<1>1. /\ P \in Nat \ {0} /\ C \in Nat \ {0} /\ E \in 0 .. C - 1 /\ C * P + E = hi - lo + 1
      /\ lo \in Int /\ hi \in Int /\ p \in Int
  BY SplitSizes, ConstantsOK DEF ValidRange, ConstantsOK, Total
<1>2. \A n : First(n) = lo + n * P + (IF n < E THEN n ELSE E)
  BY DEF First
<1>3. d \in Nat /\ d < C * P + E
  BY <1>1
<1> HIDE DEF P, E, C, d
<1>4. p = lo + d
  BY <1>1 DEF d
<1>5. CASE d < E * (P + 1)
  <2> DEFINE k == d \div (P + 1)
             r == d % (P + 1)
  <2>1. k \in Nat /\ r \in 0 .. P /\ d = (P + 1) * k + r
    <3>1. P + 1 \in Nat \ {0} /\ (P + 1) - 1 = P
      BY <1>1
    <3> QED BY <1>3, <3>1, Division
  <2> HIDE DEF k, r
  <2>2. k < E
    <3> SUFFICES ASSUME k >= E PROVE FALSE
      BY <1>1, <2>1
    <3>1. (P + 1) * k = (P + 1) * E + (P + 1) * (k - E) /\ (P + 1) * (k - E) >= 0
      BY <1>1, <2>1
    <3>2. E * (P + 1) = (P + 1) * E /\ (P + 1) * E \in Int /\ (P + 1) * k \in Int
      BY <1>1, <2>1
    <3> QED BY <1>1, <1>3, <1>5, <2>1, <3>1, <3>2
  <2>3. (P + 1) * k = k * P + k /\ (k + 1) * P = k * P + P /\ k * P \in Int
    BY <1>1, <2>1
  <2>4. First(k) = lo + k * P + k
    BY <1>2, <2>2
  <2>5. First(k + 1) = lo + (k * P + P) + (k + 1)
    <3>1. (IF k + 1 < E THEN k + 1 ELSE E) = k + 1
      BY <1>1, <2>1, <2>2
    <3> QED BY <1>2, <2>3, <3>1
  <2>6. First(k) <= p /\ p < First(k + 1)
    BY <1>1, <1>4, <2>1, <2>3, <2>4, <2>5
  <2>7. k \in 0 .. C - 1
    BY <1>1, <2>1, <2>2
  <2> QED BY <2>6, <2>7 DEF C
<1>6. CASE ~(d < E * (P + 1))
  <2> DEFINE f == d - E * (P + 1)
             q == f \div P
             r == f % P
             k == E + q
  <2>1. E * (P + 1) = E * P + E /\ E * P \in Int
    BY <1>1
  <2>2. f \in Nat /\ d = E * P + E + f
    BY <1>1, <1>3, <1>6, <2>1
  <2>3. q \in Nat /\ r \in 0 .. P - 1 /\ f = P * q + r
    BY <1>1, <2>2, Division
  <2> HIDE DEF f, q, r
  <2>4. P * q = q * P /\ k * P = E * P + q * P /\ (k + 1) * P = E * P + q * P + P /\ q * P \in Int
    BY <1>1, <2>3
  <2>5. k \in Nat /\ k >= E
    BY <1>1, <2>3
  <2>6. k < C
    <3> SUFFICES ASSUME k >= C PROVE FALSE
      BY <1>1, <2>5
    <3>1. k * P = C * P + (k - C) * P /\ (k - C) * P >= 0 /\ C * P \in Int /\ (k - C) * P \in Int
      <4> HIDE DEF k
      <4> QED BY <1>1, <2>5
    <3> QED BY <1>1, <1>3, <2>1, <2>2, <2>3, <2>4, <3>1
  <2>7. First(k) = lo + k * P + E /\ First(k + 1) = lo + (k + 1) * P + E
    <3>1. ~(k < E) /\ ~(k + 1 < E)
      BY <1>1, <2>5
    <3> HIDE DEF k
    <3> QED BY <1>2, <3>1
  <2>8. First(k) <= p /\ p < First(k + 1)
    BY <1>1, <1>4, <2>1, <2>2, <2>3, <2>4, <2>7
  <2>9. k \in 0 .. C - 1
    BY <1>1, <2>5, <2>6
  <2> QED BY <2>8, <2>9 DEF C
<1> QED BY <1>5, <1>6

(* A port is in one block only.                                            *)
LEMMA OneBlock ==
  ASSUME ValidRange, NEW k \in 0 .. Count - 1, NEW l \in 0 .. Count - 1, NEW p \in Int,
         First(k) <= p, p < First(k + 1), First(l) <= p, p < First(l + 1)
  PROVE  k = l
<1>1. CASE k < l
  BY <1>1, BlocksApart
<1>2. CASE l < k
  BY <1>2, BlocksApart
<1>3. k \in Int /\ l \in Int
  BY CountFits
<1> QED BY <1>1, <1>2, <1>3

-----------------------------------------------------------------------------
(* What the threads have done.                                             *)

(* Blocks 0 .. Given - 1 have been made.                                   *)
Given == CASE main = "create" -> i
           [] main = "advance" -> i + 1
           [] main \in {"join", "done"} -> Count
           [] OTHER -> 0

Passed(k) == First(k) .. port[k] - 1

AtWork(k) ==
  /\ First(k) <= port[k] /\ port[k] <= First(k + 1)
  /\ place[k] = "report" => port[k] < First(k + 1) /\ port[k] \in open
  /\ place[k] = "ended" => port[k] = First(k + 1)
  /\ \A p \in Passed(k) : <<k, p>> \in lines <=> p \in open \ skipped

WorkInv ==
  /\ main \in Working => lo >= 1 /\ hi <= MaxPorts
  /\ ~corrupt =>
       /\ main # "crashed"
       /\ \A k \in Threads : place[k] # "none" => k < Given
       /\ \A k \in Threads : k < Given => place[k] # "none" \/ (main = "advance" /\ k = i)
       /\ \A k \in Created : AtWork(k)
       /\ \A k, p : <<k, p>> \in lines => k \in Created /\ p \in Passed(k)
       /\ \A p \in skipped : \E k \in Created : p \in Passed(k)

(* A thread that exists has one of the blocks of the split.                *)
LEMMA HasBlock ==
  ASSUME TypeOK, RangeChecked, BlocksInv, WorkInv, ~corrupt, NEW k \in Created
  PROVE  /\ main \in Working /\ ValidRange /\ k \in 0 .. Count - 1 /\ k \in Threads
         /\ args[k].start = First(k) /\ args[k].end = First(k + 1) - 1
         /\ First(k) \in Int /\ First(k + 1) \in Int /\ port[k] \in Int
<1>1. k \in Threads /\ k < Given /\ k \in Nat
  BY DEF Created, WorkInv, Threads
<1>2. main \in Working /\ ValidRange
  BY <1>1 DEF Given, RangeChecked, Working
<1>3. Count \in Nat \ {0} /\ 0 .. Count - 1 \subseteq Threads
  BY <1>2, CountFits
<1>4. Given \in 0 .. Count /\ GivenOut(Given)
  <2>1. CASE main = "create"
    BY <1>3, <2>1 DEF Given, RangeChecked, BlocksInv
  <2>2. CASE main = "advance"
    BY <1>3, <2>2 DEF Given, RangeChecked, BlocksInv
  <2>3. CASE main \in {"join", "done"}
    BY <1>3, <2>3 DEF Given, RangeChecked, BlocksInv
  <2> QED BY <1>2, <2>1, <2>2, <2>3 DEF Working
<1>5. k \in 0 .. Given - 1 /\ k \in 0 .. Count - 1
  BY <1>1, <1>3, <1>4
<1>6. args[k] = [start |-> First(k), end |-> First(k + 1) - 1]
  BY <1>4, <1>5 DEF GivenOut
<1>7. args[k].start = First(k) /\ args[k].end = First(k + 1) - 1
  BY ONLY <1>6
<1>8. port[k] \in Int
  BY <1>1 DEF TypeOK
<1> QED BY <1>1, <1>2, <1>5, <1>7, <1>8, BlocksApart

(* The number htons keeps of a port of the range is the port.              *)
LEMMA PortFits ==
  ASSUME TypeOK, RangeChecked, BlocksInv, WorkInv, ~corrupt, NEW k \in Created,
         port[k] < First(k + 1)
  PROVE  port[k] \in lo .. hi /\ port[k] % PortSpace = port[k]
<1>1. /\ main \in Working /\ ValidRange /\ k \in 0 .. Count - 1
      /\ First(k) \in Int /\ First(k + 1) \in Int /\ port[k] \in Int
  BY HasBlock
<1>2. lo <= First(k) /\ First(k + 1) <= hi + 1 /\ First(k) <= port[k]
  BY <1>1, BlocksApart DEF WorkInv, AtWork
<1>3. port[k] \in lo .. hi
  BY <1>1, <1>2 DEF ValidRange
<1>4. lo >= 1 /\ hi <= MaxPorts /\ MaxPorts < PortSpace /\ PortSpace \in Nat /\ MaxPorts \in Nat
  BY <1>1, ConstantsOK DEF WorkInv, ConstantsOK
<1>5. port[k] \in 1 .. PortSpace - 1
  BY <1>1, <1>3, <1>4 DEF ValidRange
<1>6. \A n \in Nat : \A m \in 1 .. n - 1 : m % n = m
  OBVIOUS
<1> QED BY <1>3, <1>4, <1>5, <1>6

(* No other thread has passed the port a thread is at, nor has it itself.  *)
LEMMA NotPassed ==
  ASSUME TypeOK, RangeChecked, BlocksInv, WorkInv, ~corrupt,
         NEW k \in Created, port[k] < First(k + 1), NEW l \in Created
  PROVE  port[k] \notin Passed(l)
<1>1. /\ ValidRange /\ k \in 0 .. Count - 1 /\ l \in 0 .. Count - 1 /\ port[k] \in Int
      /\ port[l] \in Int /\ First(l) \in Int /\ First(l + 1) \in Int
  BY HasBlock
<1>2. First(k) <= port[k] /\ port[l] <= First(l + 1)
  BY DEF WorkInv, AtWork
<1>3. SUFFICES ASSUME port[k] \in Passed(l) PROVE FALSE
  OBVIOUS
<1>4. First(l) <= port[k] /\ port[k] < port[l] /\ port[k] < First(l + 1)
  BY <1>1, <1>2, <1>3 DEF Passed
<1>5. k = l
  BY <1>1, <1>2, <1>4, OneBlock
<1> QED BY <1>1, <1>4, <1>5

(* A step of a thread passes its port, or goes to report it, or ends.      *)
LEMMA ThreadDoes ==
  ASSUME TypeOK, RangeChecked, BlocksInv, WorkInv, ~corrupt, NEW k \in Threads, ThreadStep(k)
  PROVE  /\ k \in Created /\ main # "done"
         /\ UNCHANGED <<range, main, i, start, args, corrupt>> /\ Created' = Created
         /\ \A l \in Threads : l # k => place'[l] = place[l] /\ port'[l] = port[l]
         /\ \/ /\ UNCHANGED <<port, lines, skipped>>
               /\ \/ place'[k] = "report" /\ port[k] < First(k + 1) /\ port[k] \in open
                  \/ place'[k] = "ended" /\ port[k] = First(k + 1)
            \/ /\ port[k] < First(k + 1) /\ port'[k] = port[k] + 1 /\ place'[k] = "loop"
               /\ \/ SocketFails /\ lines' = lines /\ skipped' = skipped \cup {port[k]}
                  \/ lines' = lines /\ skipped' = skipped /\ port[k] \notin open
                  \/ /\ lines' = lines \cup {<<k, port[k]>>} /\ skipped' = skipped
                     /\ port[k] \in open
<1>1. /\ UNCHANGED <<range, main, i, start, args, corrupt>>
      /\ main # "done" /\ place[k] \in {"loop", "report"}
  BY ThreadTyped DEF ThreadStep, SkipPort, Connect, Report, Exit, InLoop, Ended
<1>2. k \in Created
  BY <1>1 DEF Created
<1>3. /\ args[k].end = First(k + 1) - 1 /\ First(k + 1) \in Int /\ port[k] \in Int
      /\ port[k] <= First(k + 1)
      /\ place[k] = "report" => port[k] < First(k + 1) /\ port[k] \in open
  BY <1>2, HasBlock DEF WorkInv, AtWork
<1>4. /\ place \in [Threads -> {"none", "loop", "report", "ended"}] /\ port \in [Threads -> Int]
  BY DEF TypeOK
<1>5. port[k] < First(k + 1) => port[k] % PortSpace = port[k]
  BY <1>2, PortFits
<1>6. CASE SkipPort(k)
  <2>1. /\ port[k] <= args[k].end /\ place[k] = "loop" /\ place' = place /\ lines' = lines
        /\ port' = [port EXCEPT ![k] = @ + 1] /\ skipped' = skipped \cup {port[k]} /\ SocketFails
    BY <1>6 DEF SkipPort, InLoop
  <2> QED BY <1>1, <1>2, <1>3, <1>4, <2>1 DEF Created
<1>7. CASE Connect(k)
  <2>1. port[k] < First(k + 1) /\ port[k] % PortSpace = port[k]
    BY <1>3, <1>5, <1>7 DEF Connect, InLoop
  <2>2. CASE port[k] \in open
    <3>1. place' = [place EXCEPT ![k] = "report"] /\ UNCHANGED <<port, lines, skipped>>
      BY <1>7, <2>1, <2>2 DEF Connect
    <3> QED BY <1>1, <1>2, <1>4, <2>1, <2>2, <3>1 DEF Created
  <2>3. CASE port[k] \notin open
    <3>1. /\ port' = [port EXCEPT ![k] = @ + 1] /\ UNCHANGED <<place, lines, skipped>>
          /\ place[k] = "loop"
      BY <1>7, <2>1, <2>3 DEF Connect, InLoop
    <3> QED BY <1>1, <1>2, <1>4, <2>1, <2>3, <3>1 DEF Created
  <2> QED BY <2>2, <2>3
<1>8. CASE Report(k)
  <2>1. /\ place[k] = "report" /\ lines' = lines \cup {<<k, port[k]>>} /\ skipped' = skipped
        /\ port' = [port EXCEPT ![k] = @ + 1] /\ place' = [place EXCEPT ![k] = "loop"]
    BY <1>8 DEF Report
  <2> QED BY <1>1, <1>2, <1>3, <1>4, <2>1 DEF Created
<1>9. CASE Exit(k)
  <2>1. /\ port[k] > args[k].end /\ place' = [place EXCEPT ![k] = "ended"]
        /\ UNCHANGED <<port, lines, skipped>>
    BY <1>9 DEF Exit
  <2> QED BY <1>1, <1>2, <1>3, <1>4, <2>1 DEF Created
<1> QED BY <1>6, <1>7, <1>8, <1>9 DEF ThreadStep

(* A thread reports what it passes, and keeps to its block.                *)
LEMMA ThreadKeepsWork ==
  ASSUME TypeOK, RangeChecked, BlocksInv, WorkInv, NEW k \in Threads, ThreadStep(k)
  PROVE  WorkInv'
<1>1. UNCHANGED <<range, main, i, start, args, corrupt>>
  BY ThreadTyped
<1>2. Count' = Count /\ \A l : First(l)' = First(l)
  BY <1>1, SameSplit
<1>3. Given' = Given /\ UNCHANGED <<lo, hi, open>>
  BY <1>1, <1>2 DEF Given, range
<1>4. main \in Working => lo >= 1 /\ hi <= MaxPorts
  BY DEF WorkInv
<1>5. CASE corrupt
  BY <1>1, <1>3, <1>4, <1>5 DEF WorkInv
<1>6. CASE ~corrupt
  <2> DEFINE q == port[k]
  <2>1. /\ k \in Created /\ Created' = Created /\ Created \subseteq Threads /\ k \in Threads
        /\ \A l \in Threads : l # k => place'[l] = place[l] /\ port'[l] = port[l]
    BY <1>6, ThreadDoes DEF Created
  <2>2. /\ \A l \in Created : AtWork(l)
        /\ \A l, p : <<l, p>> \in lines => l \in Created /\ p \in Passed(l)
        /\ \A p \in skipped : \E l \in Created : p \in Passed(l)
    BY <1>6 DEF WorkInv
  <2>3. \A l \in Created : First(l) \in Int /\ First(l + 1) \in Int /\ port[l] \in Int
    BY <1>6, HasBlock
  <2>4. \A l \in Threads : place'[l] # "none" <=> place[l] # "none"
    BY <2>1 DEF Created
  <2>5. \A l \in Created : l # k => Passed(l)' = Passed(l)
    BY <1>2, <2>1 DEF Passed
  <2>6. /\ \A l \in Created : AtWork(l)'
        /\ \A l, p : (<<l, p>> \in lines)' => l \in Created /\ p \in Passed(l)'
        /\ \A p \in skipped' : \E l \in Created : p \in Passed(l)'
    <3>1. CASE UNCHANGED <<port, lines, skipped>>
      <4>1. \A l : Passed(l)' = Passed(l)
        BY <1>2, <3>1 DEF Passed
      <4>2. \/ place'[k] = "report" /\ q < First(k + 1) /\ q \in open
            \/ place'[k] = "ended" /\ q = First(k + 1)
        <5>1. port'[k] = q
          BY <3>1
        <5> QED BY <1>6, <2>1, <2>3, <5>1, ThreadDoes
      <4>3. \A l \in Created : AtWork(l)'
        BY <1>2, <1>3, <2>1, <2>2, <2>3, <3>1, <4>1, <4>2 DEF AtWork
      <4> QED BY <2>2, <3>1, <4>1, <4>3
    <3>2. CASE /\ q < First(k + 1) /\ port'[k] = q + 1 /\ place'[k] = "loop"
               /\ \/ SocketFails /\ lines' = lines /\ skipped' = skipped \cup {q}
                  \/ lines' = lines /\ skipped' = skipped /\ q \notin open
                  \/ lines' = lines \cup {<<k, q>>} /\ skipped' = skipped /\ q \in open
      <4>1. \A l \in Created : q \notin Passed(l)
        BY <1>6, <2>1, <3>2, NotPassed
      <4>2. Passed(k)' = Passed(k) \cup {q} /\ q \in Int /\ First(k) <= q
        <5>1. Passed(k)' = First(k) .. (q + 1) - 1
          BY <1>2, <3>2 DEF Passed
        <5>2. First(k) <= q /\ q \in Int /\ First(k) \in Int
          BY <2>1, <2>2, <2>3 DEF AtWork
        <5>3. Passed(k) = First(k) .. q - 1
          BY DEF Passed
        <5>4. \A a, b \in Int : a <= b => a .. (b + 1) - 1 = (a .. b - 1) \cup {b}
          OBVIOUS
        <5> HIDE DEF q
        <5> QED BY <5>1, <5>2, <5>3, <5>4
      <4>3. \A l \in Created : Passed(l) \subseteq Passed(l)'
        BY <2>5, <4>2
      <4>4. \A l, p : <<l, p>> \in lines' => l \in Created /\ p \in Passed(l)'
        BY <2>1, <2>2, <3>2, <4>2, <4>3
      <4>5. \A p \in skipped' : \E l \in Created : p \in Passed(l)'
        BY <2>1, <2>2, <3>2, <4>2, <4>3
      <4>6. q \notin skipped /\ <<k, q>> \notin lines
        BY <2>1, <2>2, <4>1
      <4>7. ASSUME NEW l \in Created, NEW p \in Passed(l)'
            PROVE  <<l, p>> \in lines' <=> p \in open \ skipped'
        <5>1. CASE p \in Passed(l)
          <6>1. p # q /\ (<<l, p>> \in lines <=> p \in open \ skipped)
            BY <2>2, <4>1, <5>1 DEF AtWork
          <6>2. <<l, p>> # <<k, q>>
            BY <6>1
          <6>3. (<<l, p>> \in lines' <=> <<l, p>> \in lines) /\ (p \in skipped' <=> p \in skipped)
            BY <3>2, <6>1, <6>2
          <6> QED BY <6>1, <6>3
        <5>2. CASE p \notin Passed(l)
          <6>1. l = k /\ p = q
            BY <2>5, <4>2, <4>7, <5>2
          <6> QED BY <3>2, <4>6, <6>1
        <5> QED BY <5>1, <5>2
      <4>8. ASSUME NEW l \in Created PROVE AtWork(l)'
        <5>1. CASE l = k
          <6>1. First(k) <= port'[k] /\ port'[k] <= First(k + 1)
            BY <2>1, <2>3, <3>2, <4>2
          <6> QED BY <1>2, <1>3, <2>1, <3>2, <4>7, <5>1, <6>1 DEF AtWork
        <5>2. CASE l # k
          BY <1>2, <1>3, <2>1, <2>2, <4>7, <5>2 DEF AtWork
        <5> QED BY <5>1, <5>2
      <4> QED BY <4>4, <4>5, <4>8
    <3> QED BY <1>6, <3>1, <3>2, ThreadDoes
  <2> QED BY <1>1, <1>3, <1>4, <1>6, <2>1, <2>4, <2>6 DEF WorkInv
<1> QED BY <1>5, <1>6

(* The main thread makes the blocks in order, joins what it has created,   *)
(* and notices nothing else.                                               *)
LEMMA MainKeepsWork ==
  ASSUME TypeOK, RangeChecked, BlocksInv, WorkInv, MainStep
  PROVE  WorkInv'
<1>1. UNCHANGED <<lo, hi, open, lines, skipped>> /\ (corrupt => corrupt')
  <2>1. UNCHANGED <<lo, hi, open, lines, skipped>>
    BY DEF MainStep, CheckRange, CreateThread, CreateError, Advance, Join, JoinUnset, Complete,
           range, threads
  <2>2. corrupt' = corrupt \/ corrupt' = (corrupt \/ Freed(i))
    BY Zenon
       DEF MainStep, CheckRange, CreateThread, CreateError, Advance, Join, JoinUnset, Complete
  <2>3. corrupt => corrupt'
    BY <2>2, Zenon
  <2> QED BY <2>1, <2>3
<1>2. Count' = Count /\ \A l : First(l)' = First(l)
  BY <1>1, SameSplit DEF range
<1>3. (main \in Working => lo >= 1 /\ hi <= MaxPorts)'
  <2>1. main' \in Working => main \in Working \/ main = "check"
    BY DEF MainStep, CheckRange, CreateThread, CreateError, Advance, Join, JoinUnset, Complete,
           Working
  <2>2. main = "check" /\ main' \in Working => lo >= 1 /\ hi <= MaxPorts
    <3>1. lo \in Int /\ hi \in Int /\ MaxPorts \in Int
      BY ConstantsOK DEF TypeOK, ConstantsOK
    <3> QED BY <3>1 DEF MainStep, CheckRange, CreateThread, CreateError, Advance, Join, JoinUnset,
                        Complete, Working
  <2> QED BY <1>1, <2>1, <2>2 DEF WorkInv
<1>4. CASE corrupt'
  BY <1>3, <1>4 DEF WorkInv
<1>5. CASE ~corrupt'
  <2>1. /\ ~corrupt /\ main # "crashed"
        /\ \A k \in Threads : place[k] # "none" => k < Given
        /\ \A k \in Threads : k < Given => place[k] # "none" \/ (main = "advance" /\ k = i)
        /\ \A k \in Created : AtWork(k)
        /\ \A k, p : <<k, p>> \in lines => k \in Created /\ p \in Passed(k)
        /\ \A p \in skipped : \E k \in Created : p \in Passed(k)
    BY <1>1, <1>5 DEF WorkInv
  <2>2. SUFFICES
          /\ main' # "crashed"
          /\ \A k \in Threads : place'[k] # "none" => k < Given'
          /\ \A k \in Threads : k < Given' => place'[k] # "none" \/ (main' = "advance" /\ k = i')
          /\ \A k \in Created' : AtWork(k)'
          /\ \A k, p : <<k, p>> \in lines => k \in Created' /\ p \in Passed(k)'
          /\ \A p \in skipped : \E k \in Created' : p \in Passed(k)'
    BY <1>1, <1>3, <1>5 DEF WorkInv
  <2>3. ASSUME UNCHANGED <<place, port>>
        PROVE  /\ \A k \in Created' : AtWork(k)'
               /\ \A k, p : <<k, p>> \in lines => k \in Created' /\ p \in Passed(k)'
               /\ \A p \in skipped : \E k \in Created' : p \in Passed(k)'
    <3>1. Created' = Created /\ \A k : Passed(k)' = Passed(k)
      BY <1>2, <2>3 DEF Created, Passed
    <3>2. \A k : AtWork(k)' <=> AtWork(k)
      BY <1>1, <1>2, <2>3, <3>1 DEF AtWork
    <3> QED BY <2>1, <3>1, <3>2
  <2>4. \A k \in Threads : k \in Nat
    BY DEF Threads
  <2>5. CASE CheckRange
    <3>1. main = "check" /\ UNCHANGED <<place, port>> /\ i = 0 /\ i' = 0
          /\ main' \in {"rejected", "create"}
      BY <2>5 DEF CheckRange, threads, RangeChecked
    <3>2. Given = 0 /\ Given' = 0
      BY <3>1 DEF Given
    <3> QED BY <2>1, <2>3, <2>4, <3>1, <3>2
  <2>6. CASE CreateThread
    <3>1. /\ main = "create" /\ main' = "advance" /\ i' = i
          /\ place' = [place EXCEPT ![i] = "loop"] /\ port' = [port EXCEPT ![i] = start]
      BY <2>6 DEF CreateThread
    <3>2. ValidRange /\ i \in 0 .. Count - 1 /\ i \in Threads
      BY <3>1, CountFits DEF RangeChecked, Working
    <3>3. start = First(i) /\ First(i) \in Int /\ First(i + 1) \in Int /\ First(i) < First(i + 1)
      BY <2>1, <3>1, <3>2, BlocksApart DEF BlocksInv
    <3>4. Given = i /\ Given' = i + 1 /\ i \in Int
      BY <3>1, <3>2, CountFits DEF Given
    <3>5. /\ place'[i] = "loop" /\ port'[i] = First(i) /\ place[i] = "none"
          /\ \A k \in Threads : k # i => place'[k] = place[k] /\ port'[k] = port[k]
      BY <2>1, <3>1, <3>2, <3>3, <3>4 DEF TypeOK
    <3>6. Created' = Created \cup {i} /\ i \notin Created /\ Created \subseteq Threads
      BY <3>2, <3>5 DEF Created
    <3>7. \A k \in Created : Passed(k)' = Passed(k)
      BY <1>2, <3>5, <3>6 DEF Passed
    <3>8. \A k : k = i => Passed(k)' = {}
      BY <1>2, <3>3, <3>5 DEF Passed
    <3>9. ASSUME NEW k \in Created' PROVE AtWork(k)'
      <4>1. CASE k = i
        <5>1. Passed(k)' = {} /\ port'[k] = First(k) /\ place'[k] = "loop"
          BY <3>5, <3>8, <4>1
        <5>2. First(k) <= First(k) /\ First(k) <= First(k + 1)
          BY <3>3, <4>1
        <5> QED BY <1>2, <5>1, <5>2 DEF AtWork
      <4>2. CASE k # i
        <5>1. k \in Created /\ place'[k] = place[k] /\ port'[k] = port[k]
          BY <3>5, <3>6, <3>9, <4>2
        <5> QED BY <1>1, <1>2, <2>1, <3>7, <5>1 DEF AtWork
      <4> QED BY <4>1, <4>2
    <3>10. /\ \A k \in Threads : place'[k] # "none" => k < i + 1
           /\ \A k \in Threads : k < i + 1 => place'[k] # "none"
      <4>1. \A k \in Threads : k < i + 1 <=> k < i \/ k = i
        BY <2>4, <3>4
      <4> QED BY <2>1, <3>1, <3>4, <3>5, <4>1
    <3> QED BY <2>1, <3>1, <3>4, <3>6, <3>7, <3>9, <3>10
  <2>7. CASE CreateError
    <3>1. main = "create" /\ main' = "advance" /\ i' = i /\ UNCHANGED <<place, port>>
      BY <2>7 DEF CreateError
    <3>2. Given = i /\ Given' = i + 1 /\ i \in Nat
      BY <3>1 DEF Given, TypeOK
    <3>3. \A k \in Threads : (k < i + 1 <=> k < i \/ k = i) /\ (k < i => k < i + 1)
      BY <2>4, <3>2
    <3> QED BY <2>1, <2>3, <3>1, <3>2, <3>3
  <2>8. CASE Advance
    <3>1. /\ main = "advance" /\ UNCHANGED <<place, port>> /\ corrupt' = (corrupt \/ Freed(i))
          /\ \/ i + 1 < Count /\ main' = "create" /\ i' = i + 1
             \/ ~(i + 1 < Count) /\ main' = "join"
      BY <2>8 DEF Advance, threads
    <3>2. i \in 0 .. Count - 1 /\ Count \in Nat
      BY <3>1, CountFits DEF RangeChecked, Working
    <3>3. Given = i + 1 /\ Given' = i + 1
      BY <1>2, <3>1, <3>2 DEF Given
    <3>4. place[i] # "none"
      BY <1>5, <3>1 DEF Freed
    <3> QED BY <2>1, <2>3, <3>1, <3>3, <3>4
  <2>9. CASE Join \/ JoinUnset \/ Complete
    <3>1. main = "join" /\ UNCHANGED <<place, port>> /\ main' \in {"join", "done", "crashed"}
      BY <2>9 DEF Join, JoinUnset, Complete, threads
    <3>2. Given = Count /\ i \in 0 .. Count /\ Count \in Nat /\ 0 .. Count - 1 \subseteq Threads
      BY <3>1, CountFits DEF Given, RangeChecked, Working
    <3>3. main' # "crashed"
      <4>1. CASE JoinUnset
        <5>1. i < Count /\ place[i] = "none"
          BY <4>1 DEF JoinUnset
        <5>2. i \in Threads
          BY <3>2, <5>1
        <5> QED BY <2>1, <3>1, <3>2, <5>1, <5>2
      <4> QED BY <2>9, <3>1, <4>1 DEF Join, Complete
    <3>4. Given' = Count
      BY <1>2, <3>1, <3>3 DEF Given
    <3> QED BY <2>1, <2>3, <3>1, <3>2, <3>3, <3>4
  <2> QED BY <2>5, <2>6, <2>7, <2>8, <2>9 DEF MainStep
<1> QED BY <1>4, <1>5

(* No step breaks what is known of the work done.                          *)
LEMMA WorkKept ==
  TypeOK /\ RangeChecked /\ BlocksInv /\ WorkInv /\ [Next]_vars => WorkInv'
<1> SUFFICES ASSUME TypeOK, RangeChecked, BlocksInv, WorkInv, [Next]_vars PROVE WorkInv'
  OBVIOUS
<1>1. CASE UNCHANGED vars
  <2>1. Count' = Count /\ \A l : First(l)' = First(l)
    BY <1>1, SameSplit DEF vars
  <2> QED BY <1>1, <2>1 DEF vars, range, threads, WorkInv, Given, Created, AtWork, Passed
<1> QED BY <1>1, MainKeepsWork, ThreadKeepsWork DEF Next, Stopped

ScanInv == TypeOK /\ RangeChecked /\ BlocksInv /\ WorkInv

(* All that is known of the scan, at every step.                           *)
LEMMA ScanSafe == Spec => []ScanInv
<1>1. Init => BlocksInv /\ WorkInv
  <2> SUFFICES ASSUME Init PROVE BlocksInv /\ WorkInv
    OBVIOUS
  <2>1. /\ main = "check" /\ lines = {} /\ skipped = {}
        /\ \A k \in Threads : place[k] = "none" /\ k \in Nat
    BY DEF Init, Threads
  <2>2. Created = {} /\ Given = 0
    BY <2>1 DEF Created, Given
  <2>3. \A k \in Threads : ~(k < Given)
    BY <2>1, <2>2
  <2> QED BY <2>1, <2>2, <2>3 DEF BlocksInv, WorkInv, Working
<1>2. Init => TypeOK /\ RangeChecked
  BY InitTyped
<1>3. ScanInv /\ [Next]_vars => ScanInv'
  BY TypesKept, BlocksKept, WorkKept DEF ScanInv
<1> QED BY <1>1, <1>2, <1>3, PTL DEF Spec, ScanInv

(* When the threads that were to be created have ended, every port of the  *)
(* range has been passed.                                                  *)
LEMMA AllPassed ==
  ASSUME ScanInv, ~corrupt, main \in {"join", "done"}, \A k \in Created : place[k] = "ended",
         NEW p \in lo .. hi
  PROVE  \E k \in Created : p \in Passed(k)
<1>1. ValidRange /\ Count \in Nat /\ 0 .. Count - 1 \subseteq Threads /\ Given = Count
  BY CountFits DEF ScanInv, RangeChecked, Working, Given
<1>2. PICK k \in 0 .. Count - 1 : First(k) <= p /\ p < First(k + 1)
  BY <1>1, BlocksCover
<1>3. k \in Threads /\ k < Given
  BY <1>1
<1>4. k \in Created
  BY <1>3 DEF Created, ScanInv, WorkInv
<1>5. port[k] = First(k + 1) /\ First(k) \in Int /\ First(k + 1) \in Int /\ p \in Int
  BY <1>1, <1>4, HasBlock DEF ScanInv, WorkInv, AtWork, ValidRange
<1> QED BY <1>2, <1>4, <1>5 DEF Passed

(* What a thread has passed is in its block, and so in the range.          *)
LEMMA PassedInRange ==
  ASSUME ScanInv, ~corrupt, NEW k \in Created, NEW p \in Passed(k)
  PROVE  p \in lo .. hi /\ First(k) <= p /\ p < First(k + 1) /\ p \in Int
<1>1. /\ ValidRange /\ k \in 0 .. Count - 1
      /\ First(k) \in Int /\ First(k + 1) \in Int /\ port[k] \in Int /\ port[k] <= First(k + 1)
  BY HasBlock DEF ScanInv, WorkInv, AtWork
<1>2. lo <= First(k) /\ First(k + 1) <= hi + 1
  BY <1>1, BlocksApart
<1> QED BY <1>1, <1>2 DEF Passed, ValidRange

(* A complete scan reports each open port of the range once and no other   *)
(* port, for every range, every number of threads and every set of open    *)
(* ports, unless main has read a freed block.                              *)
THEOREM OpenPortsReported == Spec => []ReportedOnce
<1>1. ScanInv /\ NoneLeftBehind => ReportedOnce
  <2> SUFFICES ASSUME ScanInv, NoneLeftBehind, main = "done", ~corrupt
               PROVE  /\ \A line \in lines : line[2] \in lo .. hi
                      /\ \A p \in lo .. hi :
                           Cardinality({k \in Threads : <<k, p>> \in lines}) =
                             (IF p \in open \ skipped THEN 1 ELSE 0)
    BY DEF ReportedOnce
  <2>1. \A k \in Created : place[k] = "ended" /\ k \in Threads
    BY DEF NoneLeftBehind, Created
  <2>2. \A k, p : <<k, p>> \in lines => k \in Created /\ p \in Passed(k)
    BY DEF ScanInv, WorkInv
  <2>3. ASSUME NEW line \in lines PROVE line[2] \in lo .. hi
    <3>1. line = <<line[1], line[2]>>
      BY <2>3 DEF ScanInv, TypeOK
    <3>2. line[1] \in Created /\ line[2] \in Passed(line[1])
      BY <2>2, <2>3, <3>1
    <3> QED BY <3>2, PassedInRange
  <2>4. ASSUME NEW p \in lo .. hi
        PROVE  Cardinality({k \in Threads : <<k, p>> \in lines}) =
                 (IF p \in open \ skipped THEN 1 ELSE 0)
    <3>1. PICK k \in Created : p \in Passed(k)
      BY <2>1, AllPassed
    <3>2. <<k, p>> \in lines <=> p \in open \ skipped
      BY <3>1 DEF ScanInv, WorkInv, AtWork
    <3>3. ASSUME NEW l \in Threads, <<l, p>> \in lines PROVE l = k
      <4>1. l \in Created /\ p \in Passed(l)
        BY <2>2, <3>3
      <4>2. /\ ValidRange /\ k \in 0 .. Count - 1 /\ l \in 0 .. Count - 1
        BY <4>1, HasBlock DEF ScanInv
      <4> QED BY <3>1, <4>1, <4>2, PassedInRange, OneBlock
    <3>4. CASE p \in open \ skipped
      <4>1. {j \in Threads : <<j, p>> \in lines} = {k}
        BY <2>1, <3>2, <3>3, <3>4
      <4> QED BY <3>4, <4>1, FS_Singleton
    <3>5. CASE p \notin open \ skipped
      <4>1. {j \in Threads : <<j, p>> \in lines} = {}
        BY <3>2, <3>3, <3>5
      <4> QED BY <3>5, <4>1, FS_EmptySet
    <3> QED BY <3>4, <3>5
  <2> QED BY <2>3, <2>4
<1> QED BY <1>1, ScanSafe, AllJoined, PTL

-----------------------------------------------------------------------------
(* The refinement.                                                         *)

(* The ports tried are those the threads have passed.                      *)
LEMMA TriedPassed ==
  ASSUME ScanInv, ~corrupt
  PROVE  \A p : p \in Tried <=> \E k \in Created : p \in Passed(k)
<1>1. \A k \in Created : args[k].start .. port[k] - 1 = Passed(k)
  BY HasBlock DEF ScanInv, Passed
<1> QED BY <1>1 DEF Tried

(* A step of a thread is a step of PortScan, or changes nothing it sees.   *)
LEMMA ThreadTries ==
  ASSUME ScanInv, ~corrupt, NEW k \in Threads, ThreadStep(k)
  PROVE  (\E p \in lo .. hi : Scan!Try(p)) \/ UNCHANGED Scan!scan
<1> DEFINE q == port[k]
<1>1. /\ k \in Created /\ main # "done" /\ Created' = Created
      /\ UNCHANGED <<range, main, i, start, args, corrupt>>
      /\ \A l \in Threads : l # k => port'[l] = port[l]
  BY ThreadDoes DEF ScanInv
<1>2. UNCHANGED <<lo, hi, open, Status>> /\ Status = "scanning"
  <2>1. main \in Working
    BY <1>1, HasBlock DEF ScanInv
  <2> QED BY <1>1, <2>1 DEF range, Status, Working
<1>3. \A l \in Created : l \in Threads /\ args[l].start = First(l)
  BY HasBlock DEF ScanInv
<1>4. Reported = {line[2] : line \in lines} /\ Reported' = {line[2] : line \in lines'}
  BY <1>1 DEF Reported
<1>5. Tried = UNION {args[l].start .. port[l] - 1 : l \in Created}
      /\ Tried' = UNION {args[l].start .. port'[l] - 1 : l \in Created}
  BY <1>1 DEF Tried
<1>6. CASE UNCHANGED <<port, lines, skipped>>
  BY <1>2, <1>4, <1>5, <1>6 DEF Scan!scan
<1>7. CASE /\ q < First(k + 1) /\ port'[k] = q + 1
           /\ \/ SocketFails /\ lines' = lines
              \/ lines' = lines /\ q \notin open
              \/ lines' = lines \cup {<<k, q>>} /\ q \in open
  <2>1. q \in lo .. hi /\ \A l \in Created : q \notin Passed(l)
    BY <1>1, <1>7, PortFits, NotPassed DEF ScanInv
  <2>2. q \notin Tried
    BY <2>1, TriedPassed
  <2>3. Tried' = Tried \cup {q}
    <3>1. args[k].start .. port'[k] - 1 = (args[k].start .. q - 1) \cup {q}
      <4>1. /\ args[k].start = First(k) /\ First(k) \in Int /\ q \in Int /\ First(k) <= q
        BY <1>1, HasBlock DEF ScanInv, WorkInv, AtWork
      <4>2. \A a, b \in Int : a <= b => a .. (b + 1) - 1 = (a .. b - 1) \cup {b}
        OBVIOUS
      <4> HIDE DEF q
      <4> QED BY <1>7, <4>1, <4>2
    <3>2. \A l \in Created : l # k => args[l].start .. port'[l] - 1 = args[l].start .. port[l] - 1
      BY <1>1, <1>3
    <3> HIDE DEF q
    <3>3. q = port[k]
      BY DEF q
    <3>4. ASSUME NEW p PROVE p \in Tried' <=> p \in Tried \/ p = q
      <4>1. p \in Tried' <=> \E l \in Created : p \in args[l].start .. port'[l] - 1
        BY <1>5
      <4>2. p \in Tried <=> \E l \in Created : p \in args[l].start .. port[l] - 1
        BY <1>5
      <4> QED BY <1>1, <3>1, <3>2, <3>3, <4>1, <4>2
    <3> QED BY <3>4
  <2>4. Reported' = Reported \/ (q \in open /\ Reported' = Reported \cup {q})
    BY <1>4, <1>7
  <2>5. /\ \/ Reported' = IF q \in open THEN Reported \cup {q} ELSE Reported
           \/ SocketFails /\ Reported' = Reported
    <3>1. CASE lines' = lines
      BY <1>4, <1>7, <3>1
    <3>2. CASE lines' = lines \cup {<<k, q>>} /\ q \in open
      <4> HIDE DEF q
      <4>1. <<k, q>>[2] = q
        OBVIOUS
      <4>2. \A r : r \in Reported' <=> r \in Reported \/ r = q
        BY <1>4, <3>2, <4>1
      <4> QED BY <3>2, <4>2
    <3> QED BY <1>7, <3>1, <3>2
  <2>6. 1 <= lo /\ lo <= hi /\ hi <= MaxPorts
    <3>1. main \in Working /\ ValidRange
      BY <1>1, HasBlock DEF ScanInv
    <3> QED BY <3>1 DEF ScanInv, WorkInv, ValidRange
  <2>7. Scan!Try(q)
    BY <1>2, <2>1, <2>2, <2>3, <2>5, <2>6 DEF Scan!Try, Scan!Valid
  <2> QED BY <2>1, <2>7
<1> QED BY <1>6, <1>7, ThreadDoes DEF ScanInv

(* What MainStep leaves alone: the range, what is reported and tried.      *)
LEMMA MainLeaves ==
  ASSUME MainStep
  PROVE  /\ UNCHANGED <<lo, hi, open, lines>> /\ (corrupt => corrupt')
         /\ UNCHANGED <<port, args, place>> \/ main = "create"
<1>1. UNCHANGED <<lo, hi, open, lines>> /\ (UNCHANGED <<port, args, place>> \/ main = "create")
  BY DEF MainStep, CheckRange, CreateThread, CreateError, Advance, Join, JoinUnset, Complete,
         range, threads
<1>2. corrupt' = corrupt \/ corrupt' = (corrupt \/ Freed(i))
  BY Zenon
     DEF MainStep, CheckRange, CreateThread, CreateError, Advance, Join, JoinUnset, Complete
<1>3. corrupt => corrupt'
  BY <1>2, Zenon
<1> QED BY <1>1, <1>3

(* Creating a thread tries no port.                                        *)
LEMMA CreateTries ==
  ASSUME ScanInv, ~corrupt, CreateThread \/ CreateError
  PROVE  UNCHANGED Scan!scan
<1>1. /\ main = "create" /\ main' = "advance" /\ corrupt' = corrupt /\ i \in Threads
      /\ UNCHANGED <<lo, hi, open, lines>>
      /\ args' = [args EXCEPT ![i] = Block]
  <2>1. main = "create" => i \in Threads
    BY CountFits DEF ScanInv, RangeChecked, Working
  <2> QED BY <2>1 DEF CreateThread, CreateError, range
<1>2. i \notin Created
  BY <1>1 DEF ScanInv, WorkInv, Created, Given, Threads
<1>3. Reported' = Reported /\ Status' = Status
  BY <1>1 DEF Reported, Status
<1>4. \A k \in Created : args'[k] = args[k]
  BY <1>1, <1>2 DEF ScanInv, TypeOK, Created
<1>5. CASE CreateError
  <2>1. UNCHANGED <<place, port>>
    BY <1>5 DEF CreateError
  <2> QED BY <1>1, <1>3, <1>4, <2>1 DEF Tried, Created, Scan!scan
<1>6. CASE CreateThread
  <2>1. /\ place' = [place EXCEPT ![i] = "loop"] /\ port' = [port EXCEPT ![i] = start]
    BY <1>6 DEF CreateThread
  <2>2. /\ Created' = Created \cup {i} /\ \A k \in Created : port'[k] = port[k]
        /\ port'[i] = start /\ args'[i] = Block
    BY <1>1, <1>2, <2>1 DEF ScanInv, TypeOK, Created
  <2>3. args'[i].start .. port'[i] - 1 = {}
    <3>1. args'[i].start = start /\ start \in Int
      BY <2>2 DEF Block, ScanInv, TypeOK
    <3>2. \A n \in Int : n .. n - 1 = {}
      OBVIOUS
    <3> QED BY <2>2, <3>1, <3>2
  <2>4. ASSUME NEW p PROVE p \in Tried' <=> p \in Tried
    <3>1. p \in Tried <=> \E k \in Created : p \in args[k].start .. port[k] - 1
      BY DEF Tried
    <3>2. p \in Tried' <=> \E k \in Created' : p \in args'[k].start .. port'[k] - 1
      BY <1>1 DEF Tried
    <3> QED BY <1>4, <2>2, <2>3, <3>1, <3>2
  <2>5. Tried' = Tried
    <3>1. Tried = UNION {args[k].start .. port[k] - 1 : k \in Created}
          /\ Tried' = UNION {args'[k].start .. port'[k] - 1 : k \in Created'}
      BY <1>1 DEF Tried
    <3> QED BY <2>4, <3>1
  <2> QED BY <1>1, <1>3, <2>5 DEF Scan!scan
<1> QED BY <1>5, <1>6

(* A step of main is a step of PortScan, or changes nothing it sees.       *)
LEMMA MainTries ==
  ASSUME ScanInv, JoinInv, ~corrupt, MainStep
  PROVE  Scan!Complete \/ Scan!Reject \/ Scan!Break \/ UNCHANGED Scan!scan
<1>1. lo \in Int /\ hi \in Int /\ MaxPorts \in Int /\ UNCHANGED <<lo, hi, open, lines>>
  BY MainLeaves, ConstantsOK DEF ScanInv, TypeOK, ConstantsOK
<1>2. CASE CheckRange
  <2>1. /\ main = "check" /\ corrupt' = corrupt /\ UNCHANGED <<place, port, args>>
        /\ \/ main' = "rejected" /\ ~Scan!Valid
           \/ main' = "create"
    BY <1>1, <1>2 DEF CheckRange, threads, Scan!Valid
  <2>2. Tried' = Tried /\ Reported' = Reported
    BY <1>1, <2>1 DEF Tried, Reported, Created
  <2> QED BY <1>1, <2>1, <2>2 DEF Scan!Reject, Scan!scan, Status
<1>3. CASE Advance
  <2>1. /\ main = "advance" /\ main' \in {"create", "join"} /\ UNCHANGED <<place, port, args>>
    BY <1>3 DEF Advance, threads
  <2>2. corrupt' \in BOOLEAN
    BY <1>3 DEF Advance
  <2>3. CASE corrupt'
    <3>1. Scan!Valid
      BY <2>1 DEF ScanInv, RangeChecked, WorkInv, ValidRange, Working, Scan!Valid
    <3>2. Status = "scanning" /\ Status' = "broken" /\ Tried' = {} /\ Reported' = {}
      BY <2>1, <2>3 DEF Status, Tried, Reported
    <3> QED BY <1>1, <3>1, <3>2 DEF Scan!Break
  <2>4. CASE ~corrupt'
    BY <1>1, <2>1, <2>4 DEF Status, Tried, Reported, Created, Scan!scan
  <2> QED BY <2>3, <2>4
<1>4. CASE Join \/ JoinUnset
  <2>1. main = "join" /\ corrupt' = corrupt /\ UNCHANGED <<place, port, args>>
    BY <1>4 DEF Join, JoinUnset, threads
  <2>2. main' = "join"
    <3>1. i \in Threads /\ i < Given
      <4>1. i \in 0 .. Count - 1 /\ 0 .. Count - 1 \subseteq Threads
        <5>1. Count \in Nat /\ 0 .. Count - 1 \subseteq Threads /\ i \in 0 .. Count /\ i < Count
          BY <1>4, <2>1, CountFits DEF ScanInv, RangeChecked, Working, Join, JoinUnset
        <5> QED BY <5>1
      <4> QED BY <1>4, <2>1, <4>1 DEF Given, Join, JoinUnset
    <3>2. place[i] # "none"
      BY <2>1, <3>1 DEF ScanInv, WorkInv
    <3> QED BY <1>4, <2>1, <3>2 DEF Join, JoinUnset
  <2> QED BY <1>1, <2>1, <2>2 DEF Status, Tried, Reported, Created, Scan!scan
<1>5. CASE Complete
  <2>1. /\ main = "join" /\ i = Count /\ main' = "done" /\ corrupt' = corrupt
        /\ UNCHANGED <<place, port, args>>
    BY <1>5 DEF Complete, threads
  <2>2. \A k \in Created : place[k] = "ended"
    BY <2>1 DEF JoinInv, Settled, Created, Working
  <2>3. Scan!Valid
    BY <2>1 DEF ScanInv, RangeChecked, WorkInv, ValidRange, Working, Scan!Valid
  <2>4. \A p : p \in Tried <=> p \in lo .. hi
    BY <2>1, <2>2, AllPassed, PassedInRange, TriedPassed
  <2>5. Tried = lo .. hi
    BY <2>4
  <2>6. /\ Tried' = Tried /\ Reported' = Reported
        /\ Status = "scanning" /\ Status' = "complete"
    BY <1>1, <2>1 DEF Status, Tried, Reported, Created
  <2> QED BY <1>1, <2>3, <2>5, <2>6 DEF Scan!Complete
<1> QED BY <1>2, <1>3, <1>4, <1>5, CreateTries DEF MainStep

(* Every behaviour of the threads together is a behaviour of PortScan: each *)
(* port of the range is tried once, and the scan is complete only when all *)
(* have been tried, whatever the range, the number of threads and the      *)
(* order they run in (Ports_Scanner.c:72-107, 133-159).                    *)
THEOREM ThreadsImplementScan == Spec => ImplementsScan
<1>1. Init => Scan!Init
  <2> SUFFICES ASSUME Init PROVE Scan!Init
    OBVIOUS
  <2>1. /\ main = "check" /\ lines = {} /\ ~corrupt /\ Created = {}
        /\ lo \in Bounds /\ hi \in Bounds /\ open \in OpenSets
    BY DEF Init, Created
  <2> QED BY <2>1 DEF Scan!Init, Tried, Reported, Status
<1>2. ScanInv /\ JoinInv /\ [Next]_vars => [Scan!Next]_(Scan!scan)
  <2> SUFFICES ASSUME ScanInv, JoinInv, [Next]_vars PROVE [Scan!Next]_(Scan!scan)
    OBVIOUS
  <2>1. CASE UNCHANGED vars
    BY <2>1 DEF vars, range, threads, Scan!scan, Tried, Reported, Status, Created
  <2>2. CASE MainStep
    <3>1. CASE ~corrupt
      BY <2>2, <3>1, MainTries DEF Scan!Next
    <3>2. CASE corrupt
      BY <2>2, <3>2, MainLeaves DEF Scan!scan, Tried, Reported, Status
    <3> QED BY <3>1, <3>2
  <2>3. ASSUME NEW k \in Threads, ThreadStep(k) PROVE [Scan!Next]_(Scan!scan)
    <3>1. CASE ~corrupt
      BY <2>3, <3>1, ThreadTries DEF Scan!Next
    <3>2. CASE corrupt
      <4>1. UNCHANGED <<range, corrupt>>
        BY <2>3, ThreadTyped DEF ScanInv
      <4> QED BY <3>2, <4>1 DEF range, Scan!scan, Tried, Reported, Status
    <3> QED BY <3>1, <3>2
  <2> QED BY <2>1, <2>2, <2>3 DEF Next, Stopped
<1>3. Init => JoinInv
  BY DEF Init, JoinInv
<1>4. TypeOK /\ RangeChecked /\ JoinInv /\ [Next]_vars => JoinInv'
  BY JoinsKept
<1> QED BY <1>1, <1>2, <1>3, <1>4, ScanSafe, TypeCorrect, PTL DEF Spec, ImplementsScan, Scan!Spec
=============================================================================
