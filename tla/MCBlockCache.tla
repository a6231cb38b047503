----------------------------- MODULE MCBlockCache -----------------------------
(* The block cache on the small device of Blocks.cfg, for TLC.             *)
EXTENDS BlockCache
===============================================================================
