----------------------------- MODULE MCFileAttrs ------------------------------
(* The attribute store on the small sets of Attrs.cfg, for TLC: two files  *)
(* and two keys suffice for an entry to be listed under the wrong one.     *)
EXTENDS FileAttrs
===============================================================================
