---------------------------- MODULE MCUsbWatcher ----------------------------
(* Instances of UsbWatcher for TLC.  Files are named by number.            *)
EXTENDS UsbWatcher

OneStick == {"sda1"}

(* 1 nota.txt; 2 nota.exe.                                                 *)
TwoFiles   == {1, 2}
OneFile    == {1}
AllOnFirst == [f \in Files |-> "sda1"]
Names      == [f \in Files |-> "nota"]
Extensions == [f \in Files |-> IF f = 2 THEN "exe" ELSE "txt"]
Begins     == {<<"nota", "nota">>}
Flat       == [f \in Files |-> {f}]

(* A file before and after a write, chmod, touch and chown.                *)
Before  == [size |-> 0, perm |-> 0, mtime |-> 0, owner |-> 0]
Changed == [size |-> 2, perm |-> 1, mtime |-> 1, owner |-> 1]
Attributes == {Before, Changed}
OneAttribute == {Before}

(* The directory of the stick, one of the files or mtab cannot be read.    *)
Failures == {<<"opendir root", "sda1">>, <<"stat", 2>>, <<"setmntent", <<"/dev", "sda1">>>>}
NoFailure == {}
=============================================================================
