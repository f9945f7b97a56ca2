--------------------------- MODULE MCPortScanner ---------------------------
(* Instances of PortScanner for TLC.                                       *)
EXTENDS PortScanner

AnyEnds  == 0 .. MaxPorts + 1                   \* ends of the range, valid or not
Listening == {{}, {1, 2}, {2, 4}, {1, 3, 4}}
OneRange == {1, 3}
Garbage  == {-2, 5}                             \* end_port of a freed block
=============================================================================
