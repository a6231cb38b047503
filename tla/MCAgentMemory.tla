---------------------------- MODULE MCAgentMemory -----------------------------
(* Frames and address spaces on the small instances of Memory.cfg and      *)
(* ChildAgent.cfg, for TLC.                                                *)
EXTENDS AgentMemory
===============================================================================
