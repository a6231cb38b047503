---------------------------- MODULE AddressSpaces -----------------------------
(***************************************************************************)
(* What the memory manager promises: private address spaces.  A space maps *)
(* some of its addresses to bytes.  A program is loaded with its data at   *)
(* its addresses and zeros elsewhere, a copy has the same bytes at the     *)
(* same addresses, a write changes the addresses it names in one space.    *)
(***************************************************************************)
EXTENDS Integers

CONSTANTS Spaces,    \* the address spaces
          Images,    \* what programs look like when they are loaded
          Writes,    \* the writes <<ptr, len>>
          PageBytes  \* memory is added and removed in pages of this size

VARIABLE view        \* the bytes of a space by address

Nothing == [a \in {} |-> 0]

(* Whole pages. *)
Paged(A) == \A a \in A : \A b \in (a \div PageBytes) * PageBytes
                                   .. (a \div PageBytes) * PageBytes + PageBytes - 1 : b \in A

SpacesInit == view = [s \in Spaces |-> Nothing]

Load(s) == /\ view[s] = Nothing
           /\ \E image \in Images : view' = [view EXCEPT ![s] = image]

Copy(s, t) == view[t] = Nothing /\ view' = [view EXCEPT ![t] = view[s]]

(* Zeroed pages are added. *)
Extend(s) ==
    \E after \in {view'[s]} :
        /\ DOMAIN view[s] \subseteq DOMAIN after
        /\ Paged(DOMAIN after \ DOMAIN view[s])
        /\ view' = [view EXCEPT ![s] = [a \in DOMAIN after |->
                        IF a \in DOMAIN view[s] THEN view[s][a] ELSE 0]]

(* Pages are removed, or all of the space. *)
Remove(s) ==
    \E after \in {view'[s]} :
        /\ DOMAIN after \subseteq DOMAIN view[s]
        /\ Paged(DOMAIN view[s] \ DOMAIN after)
        /\ view' = [view EXCEPT ![s] = [a \in DOMAIN after |-> view[s][a]]]

Write(s, ptr, len) ==
    /\ ptr .. ptr + len - 1 \subseteq DOMAIN view[s]
    /\ view' = [view EXCEPT ![s] = [a \in DOMAIN view[s] |->
                  IF a \in ptr .. ptr + len - 1 THEN -(a - ptr + 1) ELSE view[s][a]]]

SpacesNext ==
    \E s \in Spaces :
        \/ Load(s)
        \/ \E t \in Spaces : Copy(s, t)
        \/ Extend(s)
        \/ Remove(s)
        \/ \E w \in Writes : Write(s, w[1], w[2])

SpacesSpec == SpacesInit /\ [][SpacesNext]_view
===============================================================================
