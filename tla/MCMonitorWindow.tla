--------------------------- MODULE MCMonitorWindow ---------------------------
(* Instances of MonitorWindow for TLC.                                     *)
EXTENDS MonitorWindow

AllViews  == {"alerts", "processes", "prototype"}
AlertView == {"alerts"}
=============================================================================
