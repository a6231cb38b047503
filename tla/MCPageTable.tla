----------------------------- MODULE MCPageTable ------------------------------
(***************************************************************************)
(* The page tables against the private address spaces they implement.      *)
(***************************************************************************)
EXTENDS PageTable

(* One segment across the boundary of two last-level tables, its file      *)
(* shorter than its memory, neither a whole number of pages; or two        *)
(* segments, the second without data.                                      *)
SmallPrograms == {<<[va |-> 6, mem |-> 3, file |-> 3]>>,
                  <<[va |-> 0, mem |-> 2, file |-> 1], [va |-> 4, mem |-> 1, file |-> 0]>>}

(* A buffer over both pages of the segment, one from a last byte to a      *)
(* first one, and one across the boundary of two middle-level tables.      *)
SmallBuffers == {<<6, 4>>, <<7, 2>>, <<31, 2>>}
===============================================================================
