------------------------------- MODULE PortScan -------------------------------
(***************************************************************************)
(* What the port scanner promises: each port of a valid range is tried     *)
(* once, in any order; an open one is reported, unless there was no socket *)
(* for it; and the scan is complete when every port has been tried.        *)
(* Whatever happens once main has read a block that was freed is not       *)
(* promised to be of any use.                                              *)
(***************************************************************************)
EXTENDS Integers

CONSTANTS MaxPorts, Bounds, OpenSets, SocketFails   \* as in PortScanner

VARIABLES
  lo, hi, open,  \* the range, and the ports something listens on
  tried,         \* ports that have been tried
  reported,      \* ports that have been reported
  status         \* scanning, complete, rejected, broken

scan == <<lo, hi, open, tried, reported, status>>

Init ==
  /\ lo \in Bounds /\ hi \in Bounds /\ open \in OpenSets
  /\ tried = {} /\ reported = {} /\ status = "scanning"

Valid == 1 <= lo /\ lo <= hi /\ hi <= MaxPorts

Try(p) ==
  /\ status = "scanning" /\ Valid
  /\ p \in (lo .. hi) \ tried
  /\ tried' = tried \cup {p}
  /\ \/ reported' = IF p \in open THEN reported \cup {p} ELSE reported
     \/ SocketFails /\ reported' = reported
  /\ UNCHANGED <<lo, hi, open, status>>

Complete ==
  /\ status = "scanning" /\ Valid
  /\ tried = lo .. hi
  /\ status' = "complete"
  /\ UNCHANGED <<lo, hi, open, tried, reported>>

Reject ==
  /\ status = "scanning" /\ ~Valid
  /\ status' = "rejected"
  /\ UNCHANGED <<lo, hi, open, tried, reported>>

Break ==
  /\ status = "scanning" /\ Valid
  /\ status' = "broken" /\ tried' = {} /\ reported' = {}
  /\ UNCHANGED <<lo, hi, open>>

Next == (\E p \in lo .. hi : Try(p)) \/ Complete \/ Reject \/ Break

Spec == Init /\ [][Next]_scan
=============================================================================
