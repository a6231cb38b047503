----------------------------- MODULE MCOpenFiles ------------------------------
(* Values for the constants of OpenFiles that a .cfg cannot write.  No     *)
(* definition tells two names that fit their entry from one another.       *)
EXTENDS OpenFiles

OpenModes    == {{}, {"CREATE"}, {"WRONLY", "TRUNC"}}
NameSymmetry == Permutations(Names \ (FullNames \cup LongNames))
===============================================================================
