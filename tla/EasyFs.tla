-------------------------------- MODULE EasyFs --------------------------------
(***************************************************************************)
(* The on-disk file system (easy-fs/src: bitmap.rs, efs.rs, layout.rs,     *)
(* vfs.rs) as operators on its state fs:                                   *)
(*   ibits, dbits   the bits set in the inode and the data bitmap          *)
(*   inode          the inode area                                         *)
(*   block          the data area                                          *)
(* Blocks are read and written as one store (BlockCache shows that they    *)
(* may be).  A block holds Cells cells; a cell is a byte of a file, an     *)
(* entry of the directory or a block number, and Zero when it is zeroed.   *)
(* A data block's number is its bit plus one, so that Zero is no block, as *)
(* data_area_start_block > 0 makes it in the code.                         *)
(***************************************************************************)
EXTENDS Integers, Sequences, SequencesExt

CONSTANTS
    Names,          \* file names
    FullNames,      \* those of 28 bytes, which fill DirEntry::name to its end
    LongNames,      \* those of more than 28 bytes
    Cells,          \* cells per block (BLOCK_SZ, INODE_INDIRECT1_COUNT)
    DirectCount,    \* INODE_DIRECT_COUNT (28 in the code)
    NumInodes,      \* size of the inode area
    NumBlocks,      \* size of the data area
    Zero            \* a zeroed cell

ASSUME FsAssumption ==
    /\ Cells \in Nat \ {0} /\ DirectCount \in Nat
    /\ NumInodes \in Nat \ {0} /\ NumBlocks \in Nat
    /\ FullNames \subseteq Names /\ LongNames \subseteq Names

Inodes   == 0 .. NumInodes - 1
DataArea == 1 .. NumBlocks
Root     == 0

(* What a cell holds: a byte or a block number, a zero, or a DirEntry. *)
Values   == Int \cup {Zero} \cup [name : Names, inode : Inodes]

(* direct[0] .., indirect1 and indirect2 of a DiskInode, by number. *)
Indirect1 == DirectCount
Indirect2 == DirectCount + 1
Pointers  == 0 .. Indirect2

INDIRECT1_BOUND == DirectCount + Cells
INDIRECT2_BOUND == INDIRECT1_BOUND + Cells * Cells

ZeroBlock == [c \in 0 .. Cells - 1 |-> Zero]

(* DiskInode::initialize *)
NewInode(dir) == [size |-> 0, ptr |-> [r \in Pointers |-> Zero], dir |-> dir]

(* EasyFileSystem::create: everything zeroed, inode 0 the root directory. *)
Formatted ==
    [ibits |-> {Root},
     dbits |-> {},
     inode |-> [i \in Inodes |-> NewInode(i = Root)],
     block |-> [b \in DataArea |-> ZeroBlock]]

-------------------------------------------------------------------------------
(* layout.rs: the block tree of an inode.                                  *)

(* _data_blocks *)
DataBlocks(size) == (size + Cells - 1) \div Cells

(* Variant: the block of indirect pointers is counted one block too late. *)
TotalBlocksLate(size) ==
    LET n == DataBlocks(size)
    IN  n + (IF n > DirectCount + 1 THEN 1 ELSE 0)
          + (IF n > INDIRECT1_BOUND
             THEN 1 + (n - INDIRECT1_BOUND + Cells - 1) \div Cells ELSE 0)

(* total_blocks: data blocks and the blocks of block numbers above them. *)
TotalBlocks(size) ==
    LET n == DataBlocks(size)
    IN  n + (IF n > DirectCount THEN 1 ELSE 0)
          + (IF n > INDIRECT1_BOUND
             THEN 1 + (n - INDIRECT1_BOUND + Cells - 1) \div Cells ELSE 0)

(* A slot is a place for a block number: a pointer of the inode, followed  *)
(* by the index in each block of numbers below it.  SlotsOf(k) are the     *)
(* slots data block k is the first to need, outer ones first, in the order *)
(* in which increase_size fills and clear_size collects them.              *)
SlotsOf(k) ==
    LET last == k - INDIRECT1_BOUND
        When(cond, slot) == IF cond THEN <<slot>> ELSE <<>>
    IN  IF k < DirectCount THEN << <<k>> >>
        ELSE IF k < INDIRECT1_BOUND
        THEN When(k = DirectCount, <<Indirect1>>) \o << <<Indirect1, k - DirectCount>> >>
        ELSE When(last = 0, <<Indirect2>>)
               \o When(last % Cells = 0, <<Indirect2, last \div Cells>>)
               \o << <<Indirect2, last \div Cells, last % Cells>> >>

(* The slots that data blocks 0 .. n - 1 need, and from .. to - 1. *)
SlotList[n \in 0 .. INDIRECT2_BOUND] ==
    IF n = 0 THEN <<>> ELSE SlotList[n - 1] \o SlotsOf(n - 1)
Slots(from, to) == SubSeq(SlotList[to], Len(SlotList[from]) + 1, Len(SlotList[to]))

(* The block number in a slot of inode i. *)
At(fs, i, slot) ==
    LET outer == fs.inode[i].ptr[slot[1]]
    IN  CASE Len(slot) = 1 -> outer
          [] Len(slot) = 2 -> fs.block[outer][slot[2]]
          [] Len(slot) = 3 -> fs.block[fs.block[outer][slot[2]]][slot[3]]

(* The slot assigned. *)
Put(fs, i, slot, b) ==
    IF Len(slot) = 1 THEN [fs EXCEPT !.inode[i].ptr[slot[1]] = b]
    ELSE [fs EXCEPT !.block[At(fs, i, Front(slot))][Last(slot)] = b]

(* get_block_id *)
LeafSlot == [k \in 0 .. INDIRECT2_BOUND - 1 |-> Last(SlotsOf(k))]
GetBlockId(fs, i, k) == At(fs, i, LeafSlot[k])

(* The blocks of inode i, as clear_size collects them. *)
BlocksOf(fs, i) ==
    LET slots == Slots(0, DataBlocks(fs.inode[i].size))
    IN  [k \in DOMAIN slots |-> At(fs, i, slots[k])]

-------------------------------------------------------------------------------
(* bitmap.rs, efs.rs, vfs.rs: allocation and resizing.                     *)

(* Bitmap::alloc: the lowest clear bit. *)
Lowest(free) == CHOOSE b \in free : \A c \in free : b =< c

(* alloc_data, n times. *)
AllocData(fs, n) ==
    LET v[k \in 0 .. n] ==
            IF k = 0 THEN <<>>
            ELSE Append(v[k - 1], Lowest(DataArea \ (fs.dbits \cup ToSet(v[k - 1]))))
    IN  v[n]

(* blocks_num_needed *)
Needed(fs, i, size) == TotalBlocks(size) - TotalBlocks(fs.inode[i].size)

(* What stops the kernel in increase_size: alloc_data finds no block, an   *)
(* index runs off the end of indirect2, or new_blocks.next() finds the     *)
(* list used up.  "no" when nothing does.  (The bitmap has a few more bits *)
(* than the data area has blocks.  Bits are taken lowest first and slots   *)
(* filled in order, so the last block of the file gets the highest, and    *)
(* every caller writes to that block: a bit behind the device stops the    *)
(* same call in the driver, which "no space" stands for, too.)             *)
StopIncrease(fs, i, size) ==
    LET slots == Slots(DataBlocks(fs.inode[i].size), DataBlocks(size))
    IN  IF size < fs.inode[i].size THEN "no"
        ELSE IF Cardinality(DataArea \ fs.dbits) < Needed(fs, i, size) THEN "no space"
        ELSE IF DataBlocks(size) > INDIRECT2_BOUND THEN "too large"
        ELSE IF Needed(fs, i, size) < Len(slots) THEN "assertion" ELSE "no"

(* Inode::increase_size with DiskInode::increase_size: the new blocks are  *)
(* put into the new slots in order.                                        *)
IncreaseSize(fs, i, size) ==
    IF size < fs.inode[i].size THEN fs
    ELSE LET slots == Slots(DataBlocks(fs.inode[i].size), DataBlocks(size))
             new   == AllocData(fs, Needed(fs, i, size))
             sized == [fs EXCEPT !.inode[i].size = size,
                                 !.dbits = @ \cup ToSet(new)]
             filled[k \in 0 .. Len(slots)] ==
                 IF k = 0 THEN sized ELSE Put(filled[k - 1], i, slots[k], new[k])
         IN  filled[Len(slots)]

(* Variant: the freed blocks are not zeroed. *)
DeallocUnzeroed(fs, v) == [fs EXCEPT !.dbits = @ \ ToSet(v)]

(* dealloc_data for each block of v: it is zeroed and its bit cleared. *)
Dealloc(fs, v) ==
    [fs EXCEPT !.dbits = @ \ ToSet(v),
               !.block = [b \in DataArea |-> IF b \in ToSet(v) THEN ZeroBlock ELSE @[b]]]

(* The assertions of clear_size, clear and Bitmap::dealloc that stop the   *)
(* kernel: indirect2 lists all blocks, the blocks collected are as many as *)
(* the size needs, and every bit is set when it is cleared.                *)
StopClear(fs, i) ==
    LET v == BlocksOf(fs, i)
    IN  IF /\ DataBlocks(fs.inode[i].size) =< INDIRECT2_BOUND
           /\ Len(v) = TotalBlocks(fs.inode[i].size)
           /\ ToSet(v) \subseteq fs.dbits
           /\ \A k, l \in DOMAIN v : k # l => v[k] # v[l]
        THEN "no" ELSE "assertion"

(* Inode::clear with DiskInode::clear_size: the pointers it collected from *)
(* are reset, the blocks below them freed.                                 *)
Clear(fs, i) ==
    LET used == ToSet(Slots(0, DataBlocks(fs.inode[i].size)))
        cut  == [fs EXCEPT !.inode[i].size = 0,
                           !.inode[i].ptr = [r \in Pointers |-> IF <<r>> \in used
                                                                THEN Zero ELSE @[r]]]
    IN  Dealloc(cut, BlocksOf(fs, i))

-------------------------------------------------------------------------------
(* layout.rs, vfs.rs: reading and writing.                                 *)

(* DiskInode::read_at *)
ReadAt(fs, i, offset, len) ==
    LET size == fs.inode[i].size
        end  == IF offset + len < size THEN offset + len ELSE size
    IN  [k \in 1 .. end - offset |->
            LET o == offset + k - 1
            IN  fs.block[GetBlockId(fs, i, o \div Cells)][o % Cells]]

(* DiskInode::write_at, inside the size. *)
WriteAt(fs, i, offset, buf) ==
    LET o(k) == offset + k - 1
        written[k \in 0 .. Len(buf)] ==
            IF k = 0 THEN fs
            ELSE [written[k - 1] EXCEPT
                     !.block[GetBlockId(fs, i, o(k) \div Cells)][o(k) % Cells] = buf[k]]
    IN  written[Len(buf)]

(* Inode::write_at *)
Write(fs, i, offset, buf) ==
    WriteAt(IncreaseSize(fs, i, offset + Len(buf)), i, offset, buf)

(* The entries of the root directory, in order. *)
Entries(fs) == ReadAt(fs, Root, 0, fs.inode[Root].size)

(* find_inode_id: the first entry with the name. *)
Exists(fs, name) ==
    LET e == Entries(fs) IN \E k \in DOMAIN e : e[k].name = name
Find(fs, name) ==
    LET e == Entries(fs)
        k == CHOOSE k \in DOMAIN e :
                e[k].name = name /\ \A l \in DOMAIN e : e[l].name = name => k =< l
    IN  e[k].inode

(* What stops find_inode_id: DirEntry::name looks for the zero at the end  *)
(* of each name it passes, and a name of 28 bytes has none.                *)
StopFind(fs, name) ==
    LET e == Entries(fs)
    IN  IF \E k \in DOMAIN e : /\ e[k].name \in FullNames
                              /\ \A l \in 1 .. k - 1 : e[l].name # name
        THEN "no end of name" ELSE "no"

(* Inode::create of a name that is not found: a new inode, and an entry at *)
(* the end of the directory.                                               *)
Create(fs, name) ==
    LET i    == Lowest(Inodes \ fs.ibits)
        init == [fs EXCEPT !.ibits = @ \cup {i}, !.inode[i] = NewInode(FALSE)]
    IN  Write(init, Root, fs.inode[Root].size, << [name |-> name, inode |-> i] >>)

(* What stops it: no inode or no block is left, or DirEntry::new copies    *)
(* more than 28 bytes.                                                     *)
StopCreate(fs, name) ==
    LET grown == StopIncrease(fs, Root, fs.inode[Root].size + 1)
    IN  IF Inodes \subseteq fs.ibits THEN "no space"
        ELSE IF grown = "no" /\ name \in LongNames THEN "long name" ELSE grown
===============================================================================
