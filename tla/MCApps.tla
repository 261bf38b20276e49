------------------------------- MODULE MCApps -------------------------------
(* Three processes, so that two can share a namespace with or without the  *)
(* third; one of them may not be inspected.                                *)
EXTENDS Apps
=============================================================================
