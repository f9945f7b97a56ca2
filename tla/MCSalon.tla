------------------------------- MODULE MCSalon -------------------------------
(* Instances of Salon for TLC.                                             *)
EXTENDS Salon

(* Lines up to 511 bytes and longer ones.                                  *)
OneOrTwo == {1, 2}
=============================================================================
