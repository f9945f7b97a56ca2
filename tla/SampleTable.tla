----------------------------- MODULE SampleTable -----------------------------
(***************************************************************************)
(* What the process monitor promises of its table: threads take readings   *)
(* of processes and record them; a process has at most one sample, which   *)
(* is a reading some thread took of that very process, and loses it only   *)
(* when the kernel does not show the process any more.                     *)
(***************************************************************************)
EXTENDS Integers

CONSTANTS Pids, Threads, OpenFails, Nobody   \* as in ProcessTracker

VARIABLES
  reading,  \* the memory reading of each process, or Gone
  held,     \* the reading each thread has taken and not recorded
  samples   \* the table

book == <<reading, held, samples>>

Gone   == -1   \* no such process
Unread == -1   \* the reading of a first sample is not kept

Readings == [Pids -> Nat \cup {Gone}]
Nothing == [pid |-> Nobody, ram |-> 0]
Sampled == {s.pid : s \in samples}
Without(p) == {s \in samples : s.pid # p}

Init ==
  /\ reading \in Readings
  /\ held = [t \in Threads |-> Nothing] /\ samples = {}

(* Processes start, grow and exit.                                         *)
World ==
  /\ reading' \in Readings
  /\ UNCHANGED <<held, samples>>

(* A reading that fails counts as 0.                                       *)
Take(t, p) ==
  /\ held[t] = Nothing
  /\ \E r \in {reading[p], 0} \ {Gone} :
       /\ r # reading[p] => reading[p] = Gone \/ OpenFails
       /\ held' = [held EXCEPT ![t] = [pid |-> p, ram |-> r]]
  /\ UNCHANGED <<reading, samples>>

Record(t) ==
  /\ held[t] # Nothing
  /\ LET p == held[t].pid IN
       samples' = Without(p) \cup
         {[pid |-> p, ram |-> IF p \in Sampled THEN held[t].ram ELSE Unread]}
  /\ held' = [held EXCEPT ![t] = Nothing]
  /\ UNCHANGED reading

Forget(p) ==
  /\ reading[p] = Gone
  /\ samples' = Without(p)
  /\ UNCHANGED <<reading, held>>

Next ==
  \/ World
  \/ \E t \in Threads : Record(t) \/ \E p \in Pids : Take(t, p)
  \/ \E p \in Pids : Forget(p)

Spec == Init /\ [][Next]_book
=============================================================================
