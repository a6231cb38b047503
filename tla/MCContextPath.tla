---------------------------- MODULE MCContextPath -----------------------------
(* The Context area on the small instance of Path.cfg, for TLC.            *)
EXTENDS ContextArea

(* Pid 1 is an agent, pid 2 is not. *)
TwoProcesses == <<TRUE, FALSE>>
===============================================================================
