---------------------------- MODULE MCAgentKernel -----------------------------
(* Values for the constants of AgentKernel that a .cfg cannot write.       *)
EXTENDS AgentKernel

Forever       == {-1}
ForeverOrSoon == {-1, 1}
SoonOrHuge    == {1, IntMax}
UselessBit    == {{"other"}}
FileOnly      == {{"file"}}
NoMasks       == {}
===============================================================================
