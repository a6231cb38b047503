------------------------------ MODULE OpenFiles -------------------------------
(***************************************************************************)
(* The file system calls (os/src/syscall/fs.rs, os/src/fs/inode.rs) over   *)
(* EasyFs: OSInodes with their offsets, and the tasks' descriptor tables,  *)
(* which fork copies so that parent and child share the OSInodes.          *)
(*                                                                         *)
(* A call is one step: the kernel is not interrupted and the file system   *)
(* holds its mutex.  A read or write of several user pages is one transfer *)
(* of their sum, as the loop over the slices makes it.                     *)
(***************************************************************************)
EXTENDS EasyFs

CONSTANTS
    Tasks,       \* the tasks
    First,       \* the task that runs at first
    MaxOpen,     \* bound: OSInodes at a time
    MaxFds,      \* bound: length of a descriptor table
    MaxCalls,    \* bound: calls made
    Flags,       \* bound: flags tried in sys_open, each a set of flag names
    Lengths,     \* bound: lengths read and written
    Absent,      \* no such file, in the abstract store
    Closed       \* no OSInode

(* struct OSInode *)
OSInode == [inode : Inodes, offset : Nat, readable : BOOLEAN, writable : BOOLEAN]

ASSUME OpenAssumption ==
    /\ First \in Tasks
    /\ Flags \subseteq SUBSET {"WRONLY", "RDWR", "CREATE", "TRUNC"}
    /\ Lengths \subseteq Nat \ {0}
    /\ MaxOpen \in Nat
    /\ Closed \notin OSInode
    /\ Closed \notin [name : Names, offset : Nat, readable : BOOLEAN, writable : BOOLEAN]
    /\ Absent \notin Seq(Values)

VARIABLES
    fs,         \* the file system
    files,      \* the OSInodes
    table,      \* fd_table of each task; a task that is not there has none
    panicked,   \* why the kernel stopped, "no" while it runs
    calls       \* the number of calls made, for the bound

openVars == <<fs, files, table, panicked, calls>>

Ids    == 1 .. MaxOpen
None   == 0        \* an empty place of fd_table
Stdin  == -1
Stdout == -2

OpenInit ==
    /\ fs = Formatted
    /\ files = [k \in Ids |-> Closed]
    /\ table = [p \in Tasks |-> IF p = First THEN <<Stdin, Stdout, Stdout>> ELSE <<>>]
    /\ panicked = "no"
    /\ calls = 0

(* Task p makes a call. *)
Running(p) ==
    /\ panicked = "no"
    /\ table[p] # <<>>
    /\ calls < MaxCalls
    /\ calls' = calls + 1

(* An OSInode is dropped with its last descriptor. *)
Used(t)     == UNION {ToSet(t[p]) : p \in Tasks}
Kept(f, t)  == [k \in Ids |-> IF k \in Used(t) THEN f[k] ELSE Closed]

(* The file behind descriptor fd of p, if it is an OSInode. *)
IsFile(p, fd) == fd \in DOMAIN table[p] /\ table[p][fd] \in Ids

(* alloc_fd *)
AllocFd(t) ==
    IF \E fd \in DOMAIN t : t[fd] = None
    THEN CHOOSE fd \in DOMAIN t : t[fd] = None /\ \A d \in DOMAIN t : t[d] = None => fd =< d
    ELSE Len(t) + 1

(* OSInode::new and its place in the table of p. *)
Install(p, i, flags) ==
    LET k  == Lowest({j \in Ids : files[j] = Closed})
        fd == AllocFd(table[p])
    IN  /\ files' = [files EXCEPT ![k] = [inode |-> i, offset |-> 0,
                                          readable |-> "WRONLY" \notin flags,
                                          writable |-> flags # {}]]
        /\ table' = [table EXCEPT ![p] = IF fd > Len(@) THEN Append(@, k)
                                         ELSE [@ EXCEPT ![fd] = k]]

(* The bounds of sys_open. *)
Room(p) ==
    /\ \E k \in Ids : files[k] = Closed
    /\ AllocFd(table[p]) =< MaxFds

(* Variant: CREATE leaves a file that is there as it is. *)
OpenedKeeps(n, flags) ==
    IF ~Exists(fs, n) THEN Create(fs, n)
    ELSE IF "TRUNC" \notin flags THEN fs ELSE Clear(fs, Find(fs, n))

(* The file system after open_file.  A file that is there is cleared by    *)
(* CREATE and by TRUNC, whoever else has it open.                          *)
Opened(n, flags) ==
    IF ~Exists(fs, n) THEN Create(fs, n)
    ELSE IF flags \cap {"CREATE", "TRUNC"} = {} THEN fs ELSE Clear(fs, Find(fs, n))

(* What stops the kernel in open_file. *)
StopOpen(n, flags) ==
    IF StopFind(fs, n) # "no" THEN StopFind(fs, n)
    ELSE IF ~Exists(fs, n) THEN IF "CREATE" \in flags THEN StopCreate(fs, n) ELSE "no"
    ELSE IF flags \cap {"CREATE", "TRUNC"} = {} THEN "no" ELSE StopClear(fs, Find(fs, n))

(* sys_open that does not fail with -1. *)
SysOpen(p, n, flags) ==
    /\ Running(p) /\ Room(p)
    /\ panicked' = StopOpen(n, flags)
    /\ \/ panicked' # "no" /\ UNCHANGED <<fs, files, table>>
       \/ /\ panicked' = "no"
          /\ "CREATE" \in flags \/ Exists(fs, n)
          /\ fs' = Opened(n, flags)
          /\ Install(p, Find(fs', n), flags)

(* sys_close of an OSInode.  Closing a standard stream changes no file and *)
(* is left out, to bound the tables.                                       *)
SysClose(p, fd) ==
    /\ Running(p)
    /\ IsFile(p, fd)
    /\ table' = [table EXCEPT ![p][fd] = None]
    /\ files' = Kept(files, table')
    /\ UNCHANGED <<fs, panicked>>

(* sys_read of an OSInode. *)
SysRead(p, fd, len) ==
    /\ Running(p)
    /\ IsFile(p, fd)
    /\ LET k == table[p][fd]
       IN  /\ files[k].readable
           /\ files' = [files EXCEPT ![k].offset =
                           @ + Len(ReadAt(fs, files[k].inode, @, len))]
    /\ UNCHANGED <<fs, table, panicked>>

(* The data of a write at offset: every cell names its place in the file,  *)
(* so that a cell that is misplaced, lost or left over from before shows.  *)
Data(offset, len) == [k \in 1 .. len |-> offset + k]

(* sys_write of an OSInode. *)
SysWrite(p, fd, len) ==
    /\ Running(p)
    /\ IsFile(p, fd)
    /\ LET f   == files[table[p][fd]]
           end == f.offset + len
       IN  /\ f.writable
           /\ panicked' = StopIncrease(fs, f.inode, end)
           /\ IF panicked' # "no" THEN UNCHANGED <<fs, files>>
              ELSE /\ fs' = Write(fs, f.inode, f.offset, Data(f.offset, len))
                   /\ files' = [files EXCEPT ![table[p][fd]].offset = end]
    /\ UNCHANGED table

(* fork: the table is copied, the OSInodes are shared. *)
SysFork(p, q) ==
    /\ Running(p)
    /\ table[q] = <<>>
    /\ table' = [table EXCEPT ![q] = table[p]]
    /\ UNCHANGED <<fs, files, panicked>>

(* waitpid drops the task, its table and the OSInodes only it had; until   *)
(* then an exited task keeps them and makes no call.                       *)
Reap(q) ==
    /\ Running(q)
    /\ q # First
    /\ table' = [table EXCEPT ![q] = <<>>]
    /\ files' = Kept(files, table')
    /\ UNCHANGED <<fs, panicked>>

OpenNext ==
    \/ \E p \in Tasks, n \in Names, flags \in Flags : SysOpen(p, n, flags)
    \/ \E p \in Tasks : \E fd \in DOMAIN table[p] :
          \/ SysClose(p, fd)
          \/ \E len \in Lengths : SysRead(p, fd, len) \/ SysWrite(p, fd, len)
    \/ \E p, q \in Tasks : SysFork(p, q)
    \/ \E q \in Tasks : Reap(q)

OpenSpec == OpenInit /\ [][OpenNext]_openVars

-------------------------------------------------------------------------------
(* Every allocated block belongs to one place of one file or of the        *)
(* directory, and every block a file uses is allocated: truncation leaks   *)
(* none and no two files ever share one.                                   *)
BlocksAccounted ==
    LET Owned(i) == ToSet(BlocksOf(fs, i))
    IN  /\ \A i \in fs.ibits : Cardinality(Owned(i)) = TotalBlocks(fs.inode[i].size)
        /\ \A i, j \in fs.ibits : i # j => Owned(i) \cap Owned(j) = {}
        /\ UNION {Owned(i) : i \in fs.ibits} = fs.dbits

(* A free block is zeroed, so a block that is handed out shows nothing of  *)
(* the file it was taken from.                                             *)
FreeBlocksZero == \A b \in DataArea \ fs.dbits : fs.block[b] = ZeroBlock

(* The directory lists every allocated inode but its own, under one name.  *)
DirectoryComplete ==
    LET e == Entries(fs)
    IN  /\ {e[k].inode : k \in DOMAIN e} = fs.ibits \ {Root}
        /\ \A k, l \in DOMAIN e : k # l => e[k].name # e[l].name /\ e[k].inode # e[l].inode

(* The open files are exactly those with a descriptor, and have an inode.  *)
OpenFilesLive ==
    \A k \in Ids : IF k \in Used(table) THEN files[k] # Closed /\ files[k].inode \in fs.ibits
                   ELSE files[k] = Closed

FsInv == BlocksAccounted /\ FreeBlocksZero /\ DirectoryComplete /\ OpenFilesLive

(* The assertions and unwraps of easy-fs about its own bookkeeping never   *)
(* fail: total_blocks, increase_size and clear_size agree on the blocks of *)
(* every file, and every block freed was allocated.  (What does stop the   *)
(* kernel is a limit it does not check: a full disk, a file that outgrows  *)
(* indirect2, a name that does not fit its entry.)                         *)
AssertionsHold == panicked # "assertion"

Contents(n) ==
    IF ~Exists(fs, n) THEN Absent
    ELSE LET i == Find(fs, n) IN ReadAt(fs, i, 0, fs.inode[i].size)

NameOf(i) ==
    LET e == Entries(fs) IN e[CHOOSE k \in DOMAIN e : e[k].inode = i].name

OpenView(k) ==
    IF files[k] = Closed THEN Closed
    ELSE [name |-> NameOf(files[k].inode), offset |-> files[k].offset,
          readable |-> files[k].readable, writable |-> files[k].writable]

StoreView == [n \in Names |-> Contents(n)]
OpenViews == [k \in Ids |-> OpenView(k)]

Abstract == INSTANCE FileStore WITH store <- StoreView, open <- OpenViews

(* Through bitmaps, indirect blocks, shared offsets and truncation under   *)
(* open files, the applications see named lists of values.                 *)
ImplementsFiles == Abstract!FilesSpec
===============================================================================
