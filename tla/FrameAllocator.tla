---------------------------- MODULE FrameAllocator ----------------------------
(***************************************************************************)
(* StackFrameAllocator (os/src/mm/frame_allocator.rs): the frames that     *)
(* were never used, from current to end, and a stack of returned ones.     *)
(***************************************************************************)
EXTENDS Integers, Sequences

CONSTANTS FrameEnd    \* StackFrameAllocator::end

ASSUME FrameAssumption == FrameEnd \in Nat \ {0}

VARIABLES fresh,      \* StackFrameAllocator::current
          recycled    \* StackFrameAllocator::recycled

Frames == 0 .. FrameEnd - 1

(* alloc(), n times, finds a frame each time. *)
Fits(n) == n =< Len(recycled) + (FrameEnd - fresh)

(* The frames of alloc(), n times: first what was recycled last, then      *)
(* frames never used.                                                      *)
Alloc(n) ==
    [i \in 1 .. n |-> IF i =< Len(recycled) THEN recycled[Len(recycled) + 1 - i]
                      ELSE fresh + (i - Len(recycled)) - 1]

(* The allocator after n frames were taken and those of `dropped` returned.*)
AllocAndFree(n, dropped) ==
    LET old == IF n < Len(recycled) THEN n ELSE Len(recycled) IN
    /\ recycled' = SubSeq(recycled, 1, Len(recycled) - old) \o dropped
    /\ fresh' = fresh + (n - old)
===============================================================================
