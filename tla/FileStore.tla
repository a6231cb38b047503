------------------------------ MODULE FileStore -------------------------------
(***************************************************************************)
(* What an application sees of the file system: named files that are lists *)
(* of values, and open files, each with a place in one of them.  A write   *)
(* behind the end of a file, which a truncation under an open file makes   *)
(* possible, fills the gap with zeroes.                                    *)
(***************************************************************************)
EXTENDS Naturals, Sequences

CONSTANTS Names, Ids, Flags, Lengths, Data(_, _), Zero, Absent, Closed

(* Data(o, len) is the buffer that is written when the place is o.         *)

VARIABLES store,    \* the files: a list of values, or Absent
          open      \* the open files: a name, a place and the rights, or Closed

filesVars == <<store, open>>

FilesInit ==
    /\ store = [n \in Names |-> Absent]
    /\ open = [k \in Ids |-> Closed]

(* CREATE leaves an empty file whether or not there was one, TRUNC empties *)
(* one that there is.  No flag: for reading; WRONLY: for writing; any      *)
(* other: for both.                                                        *)
Open(k, n, flags) ==
    /\ open[k] = Closed
    /\ "CREATE" \in flags \/ store[n] # Absent
    /\ open' = [open EXCEPT ![k] = [name |-> n, offset |-> 0,
                                    readable |-> "WRONLY" \notin flags,
                                    writable |-> flags # {}]]
    /\ store' = IF flags \cap {"CREATE", "TRUNC"} # {}
                THEN [store EXCEPT ![n] = <<>>] ELSE store

(* The place moves over what is read, and stays behind the end. *)
Read(k, len) ==
    /\ open[k] # Closed
    /\ open[k].readable
    /\ LET left == Len(store[open[k].name]) - open[k].offset
           n    == IF left =< 0 THEN 0 ELSE IF len < left THEN len ELSE left
       IN  open' = [open EXCEPT ![k].offset = @ + n]
    /\ UNCHANGED store

(* file with buf written at offset. *)
Written(file, offset, buf) ==
    LET end  == offset + Len(buf)
        size == IF end > Len(file) THEN end ELSE Len(file)
    IN  [o \in 1 .. size |-> IF o > offset /\ o =< end THEN buf[o - offset]
                             ELSE IF o =< Len(file) THEN file[o] ELSE Zero]

WriteFile(k, len) ==
    /\ open[k] # Closed
    /\ open[k].writable
    /\ open' = [open EXCEPT ![k].offset = @ + len]
    /\ LET buf == Data(open[k].offset, len)
       IN  store' = [store EXCEPT ![open[k].name] = Written(@, open[k].offset, buf)]

(* The last descriptors of some open files go. *)
Drop(K) ==
    /\ open' = [k \in Ids |-> IF k \in K THEN Closed ELSE open[k]]
    /\ UNCHANGED store

FilesNext ==
    \/ \E k \in Ids, n \in Names, flags \in Flags : Open(k, n, flags)
    \/ \E k \in Ids, len \in Lengths : Read(k, len) \/ WriteFile(k, len)
    \/ \E K \in SUBSET Ids : Drop(K)

FilesSpec == FilesInit /\ [][FilesNext]_filesVars
===============================================================================
