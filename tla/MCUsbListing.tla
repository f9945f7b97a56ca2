---------------------------- MODULE MCUsbListing ----------------------------
(* Instances of UsbListing for TLC.                                        *)
EXTENDS UsbListing

Sticks == {"sda1"}
Paths  == {1, 2}
OnFirst    == [f \in Files |-> "sda1"]
Names      == [f \in Files |-> IF f = 1 THEN "fotos" ELSE "foto"]
Extensions == [f \in Files |-> "txt"]
Begins     == {<<"fotos", "fotos">>, <<"foto", "foto">>, <<"foto", "fotos">>}

(* 1 is a directory, 2 is in it; the directory cannot always be opened.    *)
Nested   == [f \in Files |-> IF f = 1 THEN {1, 2} ELSE {f}]
Failures == {<<"opendir", 1>>}

Before  == [size |-> 0, perm |-> 0, mtime |-> 0, owner |-> 0]
Written == [size |-> 2, perm |-> 0, mtime |-> 1, owner |-> 0]
Attributes == {Before, Written}
=============================================================================
