---------------------------- MODULE MCDashboard ----------------------------
(* The dashboard on a small instance: one page, two connections, so that a *)
(* reconnected page can coexist with the handler of its broken connection. *)
EXTENDS Dashboard
=============================================================================
