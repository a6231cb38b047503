---------------------------- MODULE OpenFilesProofs ----------------------------
(***************************************************************************)
(* The file system keeps its books through every sequence of calls.        *)
(***************************************************************************)
EXTENDS OpenFiles, EasyFsProofs

(* The kernel runs, or ran into a limit that it does not check.            *)
Limits == {"no", "no space", "too large", "long name", "no end of name"}

(* The descriptors and the open files.                                     *)
OpenTypes == /\ files \in [Ids -> OSInode \cup {Closed}]
             /\ table \in [Tasks -> Seq(Int)]
             /\ panicked \in Limits

(* The open files are those with a descriptor; none is the directory.      *)
Live(f, t, g) ==
    \A k \in Ids : IF k \in Used(t) THEN f[k] \in OSInode /\ f[k].inode \in g.ibits \ {Root}
                   ELSE f[k] = Closed

(* The inductive invariant.                                                *)
OpenIInv == OpenTypes /\ FsOK(fs) /\ DirOK(fs) /\ Live(files, table, fs)

-------------------------------------------------------------------------------
(* An open file has a descriptor.                                          *)
LEMMA UsedIs ==
  ASSUME NEW t, NEW k
  PROVE  k \in Used(t) <=> \E p \in Tasks : \E fd \in DOMAIN t[p] : t[p][fd] = k
BY DEF Used, ToSet

(* BlocksOf accounts for the blocks.                                       *)
LEMMA BooksAreKept ==
  ASSUME FsOK(fs)
  PROVE  BlocksAccounted /\ FreeBlocksZero
<1> DEFINE Own(i) == ToSet(BlocksOf(fs, i))
<1>1. \A i \in fs.ibits : Own(i) = Owned(fs, i) /\ Cardinality(Own(i)) = TotalBlocks(fs.inode[i].size)
  BY BlocksOfAre
<1>2. FsTrees(fs) /\ FsApart(fs) /\ FsNoLeak(fs) /\ FsZero(fs)
  BY DEF FsOK
<1>3. \A i, j \in fs.ibits : i # j => Own(i) \cap Own(j) = {}
  <2> SUFFICES ASSUME NEW i \in fs.ibits, NEW j \in fs.ibits, i # j,
                      NEW b \in Owned(fs, i), b \in Owned(fs, j)
               PROVE  FALSE
    BY <1>1
  <2>1. PICK s \in SlotsIn(fs, i) : b = At(fs, i, s)
    BY DEF Owned
  <2>2. PICK t \in SlotsIn(fs, j) : b = At(fs, j, t)
    BY DEF Owned
  <2>3. QED
    BY <1>2, <2>1, <2>2 DEF FsApart
<1>4. UNION {Own(i) : i \in fs.ibits} = fs.dbits
  <2>1. ASSUME NEW b \in fs.dbits PROVE b \in UNION {Own(i) : i \in fs.ibits}
    <3>1. PICK i \in fs.ibits : \E s \in SlotsIn(fs, i) : At(fs, i, s) = b
      BY <1>2 DEF FsNoLeak
    <3>2. b \in Own(i)
      BY <1>1, <3>1 DEF Owned
    <3>3. QED
      BY <3>2
  <2>2. ASSUME NEW i \in fs.ibits, NEW b \in Own(i) PROVE b \in fs.dbits
    BY <1>1, <1>2 DEF Owned, FsTrees
  <2>3. QED
    BY <2>1, <2>2
<1>5. FreeBlocksZero
  BY <1>2 DEF FreeBlocksZero, FsZero
<1>6. BlocksAccounted
  BY <1>1, <1>3, <1>4 DEF BlocksAccounted
<1>7. QED
  BY <1>5, <1>6

(* The directory's entries.                                                *)
LEMMA DirectoryIs ==
  ASSUME FsOK(fs), DirOK(fs)
  PROVE  DirectoryComplete
<1> DEFINE size == fs.inode[Root].size
           e == Entries(fs)
<1>1. size \in Nat /\ e = [k \in 1 .. size |-> Cell(fs, Root, k - 1)]
  BY EntriesAre
<1> HIDE DEF e
<1>2. /\ DOMAIN e = 1 .. size
      /\ \A k \in 1 .. size : e[k] = Cell(fs, Root, k - 1) /\ k - 1 \in DirPlaces(fs) /\ k \in Int
      /\ \A o \in DirPlaces(fs) : o + 1 \in 1 .. size /\ e[o + 1] = Cell(fs, Root, o)
  <2>1. \A o \in DirPlaces(fs) : o \in Nat /\ o + 1 \in 1 .. size /\ (o + 1) - 1 = o
    BY <1>1 DEF DirPlaces
  <2>2. \A k \in 1 .. size : k - 1 \in DirPlaces(fs)
    BY <1>1 DEF DirPlaces
  <2>3. QED
    BY <1>1, <2>1, <2>2
<1>3. {e[k].inode : k \in DOMAIN e} = fs.ibits \ {Root}
  <2>1. ASSUME NEW k \in DOMAIN e PROVE e[k].inode \in fs.ibits \ {Root}
    BY <1>2 DEF DirOK
  <2>2. ASSUME NEW i \in fs.ibits \ {Root} PROVE i \in {e[k].inode : k \in DOMAIN e}
    <3>1. PICK o \in DirPlaces(fs) : Cell(fs, Root, o).inode = i
      BY DEF DirOK
    <3>2. o + 1 \in DOMAIN e /\ e[o + 1].inode = i
      BY <1>2, <3>1
    <3>3. QED
      BY <3>2
  <2>3. QED
    BY <2>1, <2>2
<1>4. ASSUME NEW k \in DOMAIN e, NEW l \in DOMAIN e, k # l
      PROVE  e[k].name # e[l].name /\ e[k].inode # e[l].inode
  <2>1. k - 1 # l - 1
    BY <1>2, <1>4
  <2>2. QED
    BY <1>2, <2>1 DEF DirOK
<1>5. QED
  BY <1>3, <1>4 DEF DirectoryComplete, e

(* The inductive invariant implies the properties.                         *)
LEMMA OpenIInvImplies == OpenIInv => FsInv /\ AssertionsHold
<1> SUFFICES ASSUME OpenIInv PROVE FsInv /\ AssertionsHold
  OBVIOUS
<1>1. BlocksAccounted /\ FreeBlocksZero /\ DirectoryComplete
  BY BooksAreKept, DirectoryIs DEF OpenIInv
<1>2. OpenFilesLive
  BY OpenAssumption DEF OpenIInv, Live, OpenFilesLive
<1>3. AssertionsHold
  BY DEF OpenIInv, OpenTypes, Limits, AssertionsHold
<1>4. QED
  BY <1>1, <1>2, <1>3 DEF FsInv

(* It holds at first.                                                      *)
LEMMA OpenInitIInv == OpenInit => OpenIInv
<1> SUFFICES ASSUME OpenInit PROVE OpenIInv
  OBVIOUS
<1>1. FsOK(fs) /\ DirOK(fs)
  BY FormattedOK, FormattedDir DEF OpenInit
<1>2. OpenTypes
  <2>1. <<Stdin, Stdout, Stdout>> \in Seq(Int) /\ <<>> \in Seq(Int)
    BY DEF Stdin, Stdout
  <2>2. table \in [Tasks -> Seq(Int)]
    BY <2>1 DEF OpenInit
  <2>3. QED
    BY <2>2 DEF OpenInit, OpenTypes, Limits
<1>3. ASSUME NEW k \in Ids PROVE k \notin Used(table)
  <2> SUFFICES ASSUME NEW p \in Tasks, NEW fd \in DOMAIN table[p], table[p][fd] = k PROVE FALSE
    BY UsedIs
  <2>1. k \in Int /\ k >= 1
    BY OpenAssumption DEF Ids
  <2>2. CASE p = First
    <3>1. table[p] = <<Stdin, Stdout, Stdout>>
      BY <2>2 DEF OpenInit
    <3>2. table[p][fd] \in {-1, -2}
      BY <3>1 DEF Stdin, Stdout
    <3>3. QED
      BY <2>1, <3>2
  <2>3. CASE p # First
    BY <2>3 DEF OpenInit
  <2>4. QED
    BY <2>2, <2>3
<1>4. Live(files, table, fs)
  BY <1>3 DEF Live, OpenInit
<1>5. QED
  BY <1>1, <1>2, <1>4 DEF OpenIInv

-------------------------------------------------------------------------------
(* Descriptors are dropped: the open files that lose their last one go.    *)
LEMMA LiveKept ==
  ASSUME NEW f, NEW t, NEW u, NEW g, Live(f, t, g), Used(u) \cap Ids \subseteq Used(t)
  PROVE  Live(Kept(f, u), u, g)
<1> SUFFICES ASSUME NEW k \in Ids
             PROVE  IF k \in Used(u) THEN Kept(f, u)[k] \in OSInode /\ Kept(f, u)[k].inode \in g.ibits \ {Root}
                    ELSE Kept(f, u)[k] = Closed
  BY DEF Live
<1>1. Kept(f, u)[k] = IF k \in Used(u) THEN f[k] ELSE Closed
  BY DEF Kept
<1>2. k \in Used(u) => f[k] \in OSInode /\ f[k].inode \in g.ibits \ {Root}
  BY DEF Live
<1>3. QED
  BY <1>1, <1>2

(* The open files keep their types.                                        *)
LEMMA KeptType ==
  ASSUME NEW f \in [Ids -> OSInode \cup {Closed}], NEW u
  PROVE  Kept(f, u) \in [Ids -> OSInode \cup {Closed}]
BY DEF Kept

(* sys_close.                                                              *)
LEMMA CloseStep ==
  ASSUME OpenIInv, NEW p \in Tasks, NEW fd \in DOMAIN table[p], SysClose(p, fd)
  PROVE  OpenIInv'
<1>1. /\ IsFile(p, fd) /\ table' = [table EXCEPT ![p][fd] = None]
      /\ files' = Kept(files, table') /\ fs' = fs /\ panicked' = panicked
  BY DEF SysClose
<1>2. /\ table \in [Tasks -> Seq(Int)] /\ files \in [Ids -> OSInode \cup {Closed}]
      /\ FsOK(fs) /\ DirOK(fs) /\ Live(files, table, fs) /\ panicked \in Limits
  BY DEF OpenIInv, OpenTypes
<1> DEFINE row == [table[p] EXCEPT ![fd] = None]
<1>3. table[p] \in Seq(Int)
  BY ONLY <1>2, p \in Tasks
<1>4. /\ table' \in [Tasks -> Seq(Int)] /\ table'[p] = row
      /\ \A q \in Tasks : q # p => table'[q] = table[q]
  <2>1. row \in Seq(Int)
    BY ONLY <1>3, fd \in DOMAIN table[p] DEF None
  <2>2. table' = [table EXCEPT ![p] = row]
    BY <1>1, <1>2
  <2> HIDE DEF row
  <2>3. QED
    BY ONLY <1>2, <2>1, <2>2, p \in Tasks
<1>5. ASSUME NEW k \in Ids, k \in Used(table') PROVE k \in Used(table)
  <2>1. PICK q \in Tasks : \E d \in DOMAIN table'[q] : table'[q][d] = k
    BY <1>5, UsedIs
  <2>2. PICK d \in DOMAIN table'[q] : table'[q][d] = k
    BY <2>1
  <2>3. k # None
    BY OpenAssumption DEF Ids, None
  <2>4. d \in DOMAIN table[q] /\ table[q][d] = k
    BY <1>3, <1>4, <2>2, <2>3
  <2>5. QED
    BY <2>4, UsedIs
<1>6. Live(files', table', fs')
  BY <1>1, <1>2, <1>5, LiveKept
<1>7. files' \in [Ids -> OSInode \cup {Closed}]
  BY <1>1, <1>2, KeptType
<1>8. QED
  BY <1>1, <1>2, <1>4, <1>6, <1>7 DEF OpenIInv, OpenTypes

(* What read_at returns ends with the file.                                *)
LEMMA ReadLength ==
  ASSUME NEW g, NEW i, g.inode[i].size \in Nat, NEW offset \in Nat, NEW len \in Nat
  PROVE  LET left == g.inode[i].size - offset
             n    == Len(ReadAt(g, i, offset, len))
         IN  n \in Nat /\ n = IF left =< 0 THEN 0 ELSE IF len < left THEN len ELSE left
<1> DEFINE size == g.inode[i].size
           left == size - offset
           end == IF offset + len < size THEN offset + len ELSE size
           m == end - offset
           r == ReadAt(g, i, offset, len)
<1>1. m \in Int /\ left \in Int /\ m = IF len < left THEN len ELSE left
  OBVIOUS
<1>2. DOMAIN r = 1 .. m
  BY DEF ReadAt
<1>3. r = [k \in 1 .. m |-> r[k]]
  BY DEF ReadAt
<1> HIDE DEF m, r, left
<1>4. CASE m \in Nat
  <2>1. Len(r) = m
    BY <1>3, <1>4
  <2>2. m = IF left =< 0 THEN 0 ELSE IF len < left THEN len ELSE left
    BY <1>1, <1>4
  <2>3. QED
    BY <1>4, <2>1, <2>2 DEF r, left
<1>5. CASE m \notin Nat
  <2>1. 1 .. m = {} /\ left =< 0
    BY <1>1, <1>5
  <2>2. r = <<>>
    BY <1>3, <2>1
  <2>3. Len(r) = 0
    BY <2>2
  <2>4. QED
    BY <2>1, <2>3 DEF r, left
<1>6. QED
  BY <1>4, <1>5

(* The open file k moved on.                                               *)
Moved(f, k, o) == [f EXCEPT ![k].offset = o]

(* The same files are open.                                                *)
LEMMA LiveMoves ==
  ASSUME NEW f \in [Ids -> OSInode \cup {Closed}], NEW t, NEW g, Live(f, t, g),
         NEW k \in Ids, k \in Used(t), NEW o \in Nat, NEW h, h = Moved(f, k, o)
  PROVE  h \in [Ids -> OSInode \cup {Closed}] /\ Live(h, t, g)
<1>1. f[k] \in OSInode /\ f[k].inode \in g.ibits \ {Root}
  BY DEF Live
<1>2. /\ h[k] = [f[k] EXCEPT !.offset = o]
      /\ \A l \in Ids : l # k => h[l] = f[l]
      /\ DOMAIN h = Ids /\ h = [l \in Ids |-> h[l]]
  BY DEF Moved
<1>3. h[k] \in OSInode /\ h[k].inode = f[k].inode
  BY <1>1, <1>2 DEF OSInode
<1>4. h \in [Ids -> OSInode \cup {Closed}]
  BY <1>2, <1>3
<1>5. ASSUME NEW l \in Ids
      PROVE  IF l \in Used(t) THEN h[l] \in OSInode /\ h[l].inode \in g.ibits \ {Root}
             ELSE h[l] = Closed
  <2>1. CASE l = k
    BY <1>1, <1>3, <2>1
  <2>2. CASE l # k
    BY <1>2, <2>2 DEF Live
  <2>3. QED
    BY <2>1, <2>2
<1>6. QED
  BY <1>4, <1>5 DEF Live

(* sys_read.                                                               *)
LEMMA ReadStep ==
  ASSUME OpenIInv, NEW p \in Tasks, NEW fd \in DOMAIN table[p], NEW len \in Lengths,
         SysRead(p, fd, len)
  PROVE  OpenIInv'
<1> DEFINE k == table[p][fd]
           i == files[k].inode
           o == files[k].offset + Len(ReadAt(fs, i, files[k].offset, len))
<1>1. /\ k \in Ids /\ files' = [files EXCEPT ![k].offset = @ + Len(ReadAt(fs, i, @, len))]
      /\ fs' = fs /\ table' = table /\ panicked' = panicked
  BY DEF SysRead, IsFile
<1>2. /\ table \in [Tasks -> Seq(Int)] /\ files \in [Ids -> OSInode \cup {Closed}]
      /\ FsOK(fs) /\ DirOK(fs) /\ Live(files, table, fs) /\ panicked \in Limits
  BY DEF OpenIInv, OpenTypes
<1>3. k \in Used(table)
  BY UsedIs
<1>4. files[k] \in OSInode /\ i \in fs.ibits
  BY <1>1, <1>2, <1>3 DEF Live
<1>5. len \in Nat /\ files[k].offset \in Nat /\ fs.inode[i].size \in Nat
  <2>1. len \in Nat
    BY OpenAssumption
  <2>2. files[k].offset \in Nat
    BY <1>4 DEF OSInode
  <2>3. fs.inode[i].size \in Nat
    BY <1>2, <1>4, SizesAre DEF FsOK
  <2>4. QED
    BY <2>1, <2>2, <2>3
<1>6. o \in Nat
  <2>1. Len(ReadAt(fs, i, files[k].offset, len)) \in Nat
    BY ONLY <1>5, ReadLength
  <2>2. QED
    BY ONLY <1>5, <2>1
<1>7. files' = Moved(files, k, o)
  BY <1>1, <1>2 DEF Moved
<1> HIDE DEF k, o
<1>8. files' \in [Ids -> OSInode \cup {Closed}] /\ Live(files', table, fs)
  BY <1>1, <1>2, <1>3, <1>6, <1>7, LiveMoves
<1>9. QED
  BY <1>1, <1>2, <1>8 DEF OpenIInv, OpenTypes

(* fork.                                                                   *)
LEMMA ForkStep ==
  ASSUME OpenIInv, NEW p \in Tasks, NEW q \in Tasks, SysFork(p, q)
  PROVE  OpenIInv'
<1>1. /\ table[q] = <<>> /\ table[p] # <<>> /\ table' = [table EXCEPT ![q] = table[p]]
      /\ files' = files /\ fs' = fs /\ panicked' = panicked
  BY DEF SysFork, Running
<1>2. /\ table \in [Tasks -> Seq(Int)] /\ files \in [Ids -> OSInode \cup {Closed}]
      /\ FsOK(fs) /\ DirOK(fs) /\ Live(files, table, fs) /\ panicked \in Limits
  BY DEF OpenIInv, OpenTypes
<1>3. /\ table' \in [Tasks -> Seq(Int)] /\ table'[q] = table[p] /\ p # q
      /\ \A r \in Tasks : r # q => table'[r] = table[r]
  BY <1>1, <1>2
<1>4. ASSUME NEW k PROVE k \in Used(table') <=> k \in Used(table)
  <2>1. ASSUME k \in Used(table') PROVE k \in Used(table)
    <3>1. PICK r \in Tasks : \E d \in DOMAIN table'[r] : table'[r][d] = k
      BY <2>1, UsedIs
    <3>2. CASE r = q
      BY <1>3, <3>1, <3>2, UsedIs
    <3>3. CASE r # q
      BY <1>3, <3>1, <3>3, UsedIs
    <3>4. QED
      BY <3>2, <3>3
  <2>2. ASSUME k \in Used(table) PROVE k \in Used(table')
    <3>1. PICK r \in Tasks : \E d \in DOMAIN table[r] : table[r][d] = k
      BY <2>2, UsedIs
    <3>2. r # q
      BY <1>1, <3>1
    <3>3. \E d \in DOMAIN table'[r] : table'[r][d] = k
      BY <1>3, <3>1, <3>2
    <3>4. QED
      BY <3>3, UsedIs
  <2>3. QED
    BY <2>1, <2>2
<1>5. Live(files, table', fs)
  BY <1>2, <1>4 DEF Live
<1>6. QED
  BY <1>1, <1>2, <1>3, <1>5 DEF OpenIInv, OpenTypes

(* waitpid.                                                                *)
LEMMA ReapStep ==
  ASSUME OpenIInv, NEW q \in Tasks, Reap(q)
  PROVE  OpenIInv'
<1>1. /\ table' = [table EXCEPT ![q] = <<>>] /\ files' = Kept(files, table')
      /\ fs' = fs /\ panicked' = panicked
  BY DEF Reap
<1>2. /\ table \in [Tasks -> Seq(Int)] /\ files \in [Ids -> OSInode \cup {Closed}]
      /\ FsOK(fs) /\ DirOK(fs) /\ Live(files, table, fs) /\ panicked \in Limits
  BY DEF OpenIInv, OpenTypes
<1>3. /\ table' \in [Tasks -> Seq(Int)] /\ table'[q] = <<>>
      /\ \A r \in Tasks : r # q => table'[r] = table[r]
  <2>1. <<>> \in Seq(Int)
    OBVIOUS
  <2>2. QED
    BY ONLY <1>1, <1>2, <2>1, q \in Tasks
<1>4. ASSUME NEW k, k \in Used(table') PROVE k \in Used(table)
  <2>1. PICK r \in Tasks : \E d \in DOMAIN table'[r] : table'[r][d] = k
    BY <1>4, UsedIs
  <2>2. r # q
    BY <1>3, <2>1
  <2>3. \E d \in DOMAIN table[r] : table[r][d] = k
    BY <1>3, <2>1, <2>2
  <2>4. QED
    BY <2>3, UsedIs
<1>5. Live(files', table', fs)
  BY <1>1, <1>2, <1>4, LiveKept
<1>6. files' \in [Ids -> OSInode \cup {Closed}]
  BY <1>1, <1>2, KeptType
<1>7. QED
  BY <1>1, <1>2, <1>3, <1>5, <1>6 DEF OpenIInv, OpenTypes

(* What stops an increase.                                                 *)
LEMMA StopsAre ==
  ASSUME NEW g, FsOK(g), NEW i \in g.ibits, NEW size \in Nat
  PROVE  StopIncrease(g, i, size) \in Limits
<1>1. StopIncrease(g, i, size) # "assertion"
  BY IncreaseNeverShort DEF FsOK
<1>2. StopIncrease(g, i, size) \in {"no", "no space", "too large", "assertion"}
  BY DEF StopIncrease
<1>3. QED
  BY <1>1, <1>2 DEF Limits

(* The data written are values.                                            *)
LEMMA DataIs ==
  ASSUME NEW offset \in Nat, NEW len \in Nat
  PROVE  /\ Data(offset, len) \in Seq(Values) /\ Len(Data(offset, len)) = len
         /\ \A k \in 1 .. len : Data(offset, len)[k] = offset + k
<1>1. \A k \in 1 .. len : offset + k \in Values
  BY DEF Values
<1>2. QED
  BY <1>1 DEF Data

(* A file other than the directory is written: names and inodes stay.      *)
LEMMA WroteKeepsDir ==
  ASSUME NEW g, FsOK(g), DirOK(g), NEW h, NEW i \in g.ibits \ {Root}, NEW offset, NEW buf,
         WroteFile(g, h, i, offset, buf)
  PROVE  /\ FsOK(h) /\ DirOK(h) /\ h.ibits = g.ibits
         /\ \A n : Exists(h, n) <=> Exists(g, n)
         /\ \A n : Exists(g, n) => Find(h, n) = Find(g, n)
<1>1. /\ FsOK(h) /\ h.ibits = g.ibits /\ Root \in g.ibits
      /\ \A j \in Inodes : j # i => h.inode[j] = g.inode[j]
      /\ \A j \in g.ibits : \A o \in Nat :
            o < h.inode[j].size /\ j # i =>
              Cell(h, j, o) = IF o < g.inode[j].size THEN Cell(g, j, o) ELSE Zero
  BY DEF WroteFile, FsOK, FsShape
<1>2. Root \in Inodes
  BY FsAssumption DEF Root, Inodes
<1>3. h.inode[Root] = g.inode[Root]
  BY <1>1, <1>2
<1>4. ASSUME NEW o \in DirPlaces(g) PROVE Cell(h, Root, o) = Cell(g, Root, o)
  <2>1. o \in Nat /\ o < g.inode[Root].size
    BY EntriesAre
  <2>2. QED
    BY <1>1, <1>3, <2>1
<1>5. QED
  BY <1>1, <1>3, <1>4, DirStays

(* sys_write.                                                              *)
LEMMA WriteStep ==
  ASSUME OpenIInv, NEW p \in Tasks, NEW fd \in DOMAIN table[p], NEW len \in Lengths,
         SysWrite(p, fd, len)
  PROVE  OpenIInv'
<1> DEFINE k == table[p][fd]
           i == files[k].inode
           offset == files[k].offset
           end == offset + len
           buf == Data(offset, len)
<1>1. /\ k \in Ids /\ panicked' = StopIncrease(fs, i, end)
      /\ table' = table
      /\ panicked' # "no" => fs' = fs /\ files' = files
      /\ panicked' = "no" => /\ fs' = Write(fs, i, offset, buf)
                             /\ files' = [files EXCEPT ![k].offset = end]
  BY DEF SysWrite, IsFile
<1>2. /\ table \in [Tasks -> Seq(Int)] /\ files \in [Ids -> OSInode \cup {Closed}]
      /\ FsOK(fs) /\ DirOK(fs) /\ Live(files, table, fs) /\ panicked \in Limits
  BY DEF OpenIInv, OpenTypes
<1>3. k \in Used(table)
  BY UsedIs
<1>4. files[k] \in OSInode /\ i \in fs.ibits \ {Root}
  BY <1>1, <1>2, <1>3 DEF Live
<1>5. len \in Nat /\ offset \in Nat /\ end \in Nat
  <2>1. len \in Nat
    BY OpenAssumption
  <2>2. offset \in Nat
    BY <1>4 DEF OSInode
  <2>3. QED
    BY <2>1, <2>2
<1> HIDE DEF k, i, offset
<1>6. panicked' \in Limits
  BY <1>1, <1>2, <1>4, <1>5, StopsAre
<1>7. CASE panicked' # "no"
  BY <1>1, <1>2, <1>6, <1>7 DEF OpenIInv, OpenTypes
<1>8. CASE panicked' = "no"
  <2>1. buf \in Seq(Values) /\ Len(buf) = len
    BY <1>5, DataIs
  <2> HIDE DEF buf
  <2>2. WroteFile(fs, fs', i, offset, buf)
    <3>1. offset + Len(buf) = end /\ StopIncrease(fs, i, end) = "no" /\ i \in fs.ibits
      BY <1>1, <1>4, <1>8, <2>1
    <3>2. StopIncrease(fs, i, offset + Len(buf)) = "no"
      BY <3>1
    <3>3. fs' = Write(fs, i, offset, buf)
      BY <1>1, <1>8
    <3>4. WroteFile(fs, Write(fs, i, offset, buf), i, offset, buf)
      BY <1>2, <1>5, <2>1, <3>1, <3>2, WriteGives
    <3>5. QED
      BY <3>3, <3>4
  <2>3. FsOK(fs') /\ DirOK(fs') /\ fs'.ibits = fs.ibits
    BY <1>2, <1>4, <2>2, WroteKeepsDir
  <2>4. files' \in [Ids -> OSInode \cup {Closed}] /\ Live(files', table, fs)
    <3>1. files' = Moved(files, k, end)
      BY <1>1, <1>8 DEF Moved
    <3>2. QED
      BY <1>1, <1>2, <1>3, <1>5, <3>1, LiveMoves
  <2>5. Live(files', table, fs')
    BY <2>3, <2>4 DEF Live
  <2>6. QED
    BY <1>1, <1>2, <1>6, <2>3, <2>4, <2>5 DEF OpenIInv, OpenTypes
<1>9. QED
  BY <1>7, <1>8

(* open_file, when nothing stops it: the name is there afterwards, and     *)
(* stands for an inode that is no directory.                               *)
LEMMA OpenedGives ==
  ASSUME FsOK(fs), DirOK(fs), NEW n \in Names, NEW flags
  PROVE  /\ StopOpen(n, flags) \in Limits
         /\ StopOpen(n, flags) = "no" /\ ("CREATE" \in flags \/ Exists(fs, n)) =>
              LET g == Opened(n, flags)
              IN  /\ FsOK(g) /\ DirOK(g) /\ fs.ibits \subseteq g.ibits
                  /\ Exists(g, n) /\ Find(g, n) \in g.ibits \ {Root}
<1> DEFINE g == Opened(n, flags)
           stop == StopOpen(n, flags)
<1>0. Root \in fs.ibits /\ Root \in Inodes /\ fs.ibits \subseteq Inodes
  <2>1. Root \in Inodes
    BY FsAssumption DEF Root, Inodes
  <2>2. QED
    BY <2>1, FsParts DEF FsOK, FsShape
<1>1. StopFind(fs, n) \in {"no", "no end of name"}
  BY DEF StopFind
<1>2. CASE ~Exists(fs, n)
  <2>1. g = Create(fs, n)
    BY <1>2 DEF Opened
  <2>2. stop \in {"no", "no end of name", StopCreate(fs, n)}
    BY <1>2, <1>1 DEF StopOpen
  <2>3. StopCreate(fs, n) \in Limits
    <3>1. fs.inode[Root].size + 1 \in Nat
      BY EntriesAre
    <3>2. StopIncrease(fs, Root, fs.inode[Root].size + 1) \in Limits
      BY <1>0, <3>1, StopsAre
    <3>3. QED
      BY <3>2 DEF StopCreate, Limits
  <2>4. stop \in Limits
    BY <2>2, <2>3 DEF Limits
  <2>5. "CREATE" \in flags /\ stop = "no" => StopCreate(fs, n) = "no"
    BY <1>2 DEF StopOpen
  <2> HIDE DEF g, stop
  <2>6. ASSUME stop = "no", "CREATE" \in flags
        PROVE  /\ FsOK(g) /\ DirOK(g) /\ fs.ibits \subseteq g.ibits
               /\ Exists(g, n) /\ Find(g, n) \in g.ibits \ {Root}
    <3>1. PICK i \in Inodes \ fs.ibits : Created(fs, g, n, i)
      BY <2>1, <2>5, <2>6, CreateGives
    <3>2. DirOK(g) /\ Exists(g, n) /\ Find(g, n) = i
      BY <1>2, <3>1, DirGrows
    <3>3. FsOK(g) /\ g.ibits = fs.ibits \cup {i}
      BY <3>1 DEF Created
    <3>4. QED
      BY <1>0, <3>2, <3>3
  <2>7. QED
    BY <1>2, <2>4, <2>6 DEF g, stop
<1>3. CASE Exists(fs, n)
  <2> DEFINE i == Find(fs, n)
  <2>1. i \in fs.ibits \ {Root}
    <3>1. PICK o \in DirPlaces(fs) : Cell(fs, Root, o).name = n
      BY <1>3, FindIs
    <3>2. i = Cell(fs, Root, o).inode
      BY <3>1, FindIs
    <3>3. QED
      BY <3>2 DEF DirOK
  <2>2. CASE flags \cap {"CREATE", "TRUNC"} = {}
    <3>1. stop \in Limits /\ g = fs
      BY <1>3, <1>1, <2>2 DEF Opened, StopOpen, Limits
    <3>2. QED
      BY <1>3, <2>1, <3>1
  <2>3. CASE flags \cap {"CREATE", "TRUNC"} # {}
    <3>1. g = Clear(fs, i) /\ stop \in {"no", "no end of name", StopClear(fs, i)}
      BY <1>3, <1>1, <2>3 DEF Opened, StopOpen
    <3>2. stop \in Limits
      BY <2>1, <3>1, ClearNeverStops DEF Limits
    <3> HIDE DEF g, stop, i
    <3>3. Cleared(fs, g, i)
      BY <2>1, <3>1, ClearGives
    <3>4. /\ FsOK(g) /\ g.ibits = fs.ibits
          /\ \A j \in Inodes : j # i => g.inode[j] = fs.inode[j]
          /\ \A j \in fs.ibits : \A o \in Nat :
                j # i /\ o < fs.inode[j].size => Cell(g, j, o) = Cell(fs, j, o)
      BY <3>3 DEF Cleared
    <3>5. g.inode[Root] = fs.inode[Root]
      BY <1>0, <2>1, <3>4
    <3>6. \A o \in DirPlaces(fs) : Cell(g, Root, o) = Cell(fs, Root, o)
      BY <1>0, <2>1, <3>4, EntriesAre
    <3>7. /\ DirOK(g) /\ Exists(g, n) /\ Find(g, n) = i
      BY <1>3, <3>4, <3>5, <3>6, DirStays DEF i
    <3>8. QED
      BY <2>1, <3>2, <3>4, <3>7 DEF g, stop
  <2>4. QED
    BY <2>2, <2>3
<1>4. QED
  BY <1>2, <1>3

(* alloc_fd returns an empty place or the one behind the table.            *)
LEMMA AllocFdIs ==
  ASSUME NEW t \in Seq(Int)
  PROVE  \/ AllocFd(t) \in DOMAIN t /\ t[AllocFd(t)] = None
         \/ AllocFd(t) = Len(t) + 1
<1>1. CASE \E fd \in DOMAIN t : t[fd] = None
  <2> DEFINE free == {fd \in DOMAIN t : t[fd] = None}
             P(fd) == t[fd] = None /\ \A d \in DOMAIN t : t[d] = None => fd =< d
  <2>1. free \subseteq Nat /\ free # {}
    BY <1>1
  <2>2. PICK fd \in free : \A d \in free : fd =< d
    BY ONLY <2>1, Least
  <2>3. fd \in DOMAIN t /\ P(fd)
    BY <2>2
  <2>4. AllocFd(t) = CHOOSE d \in DOMAIN t : P(d)
    BY <1>1 DEF AllocFd
  <2> HIDE DEF P
  <2>5. AllocFd(t) \in DOMAIN t /\ P(AllocFd(t))
    BY ONLY <2>3, <2>4
  <2>6. QED
    BY <2>5 DEF P
<1>2. CASE ~\E fd \in DOMAIN t : t[fd] = None
  BY <1>2 DEF AllocFd
<1>3. QED
  BY <1>1, <1>2

(* The table of a task with a descriptor for k.                            *)
WithFd(t, k) == IF AllocFd(t) > Len(t) THEN Append(t, k) ELSE [t EXCEPT ![AllocFd(t)] = k]

(* A table refers to an open file.                                         *)
Refers(t, l) == \E d \in DOMAIN t : t[d] = l

(* The new table refers to k and to what the old one referred to.          *)
LEMMA WithFdIs ==
  ASSUME NEW t \in Seq(Int), NEW k \in Int
  PROVE  /\ WithFd(t, k) \in Seq(Int)
         /\ \A l : l # None => (Refers(WithFd(t, k), l) <=> (l = k \/ Refers(t, l)))
<1> DEFINE fd == AllocFd(t)
<1>1. CASE fd \in DOMAIN t /\ t[fd] = None
  <2>1. fd \in Nat /\ Len(t) \in Nat /\ ~(fd > Len(t))
    BY <1>1
  <2>2. WithFd(t, k) = [t EXCEPT ![fd] = k]
    BY <2>1 DEF WithFd
  <2> HIDE DEF fd
  <2>3. QED
    BY <1>1, <2>2 DEF Refers
<1>2. CASE fd = Len(t) + 1
  <2>1. Len(t) \in Nat /\ fd > Len(t)
    BY <1>2
  <2>2. WithFd(t, k) = Append(t, k)
    BY <2>1 DEF WithFd
  <2> HIDE DEF fd
  <2>3. /\ Append(t, k) \in Seq(Int) /\ DOMAIN Append(t, k) = DOMAIN t \cup {Len(t) + 1}
        /\ Append(t, k)[Len(t) + 1] = k /\ \A d \in DOMAIN t : Append(t, k)[d] = t[d]
    OBVIOUS
  <2>4. QED
    BY ONLY <2>2, <2>3 DEF Refers
<1>3. QED
  BY <1>1, <1>2, AllocFdIs

(* sys_open.                                                               *)
LEMMA OpenStep ==
  ASSUME OpenIInv, NEW p \in Tasks, NEW n \in Names, NEW flags \in Flags, SysOpen(p, n, flags)
  PROVE  OpenIInv'
<1> DEFINE g == Opened(n, flags)
           i == Find(fs', n)
           free == {j \in Ids : files[j] = Closed}
           k == Lowest(free)
           new == [inode |-> i, offset |-> 0, readable |-> "WRONLY" \notin flags,
                   writable |-> flags # {}]
<1>1. /\ \E j \in Ids : files[j] = Closed
      /\ panicked' = StopOpen(n, flags)
      /\ panicked' # "no" => fs' = fs /\ files' = files /\ table' = table
      /\ panicked' = "no" => /\ "CREATE" \in flags \/ Exists(fs, n)
                             /\ fs' = g /\ Install(p, i, flags)
  BY DEF SysOpen, Room
<1>2. /\ table \in [Tasks -> Seq(Int)] /\ files \in [Ids -> OSInode \cup {Closed}]
      /\ FsOK(fs) /\ DirOK(fs) /\ Live(files, table, fs) /\ panicked \in Limits
  BY DEF OpenIInv, OpenTypes
<1>3. panicked' \in Limits
  BY <1>1, <1>2, OpenedGives
<1>4. CASE panicked' # "no"
  BY <1>1, <1>2, <1>3, <1>4 DEF OpenIInv, OpenTypes
<1>5. CASE panicked' = "no"
  <2>1. FsOK(fs') /\ DirOK(fs') /\ fs.ibits \subseteq fs'.ibits /\ i \in fs'.ibits \ {Root}
    BY <1>1, <1>2, <1>5, OpenedGives
  <2>2. k \in Ids /\ files[k] = Closed /\ k \in Int /\ k # None
    <3>1. free \subseteq Nat /\ free # {}
      BY <1>1, OpenAssumption DEF Ids
    <3>2. k \in free
      BY <3>1, LowestIn
    <3>3. QED
      BY <3>2, OpenAssumption DEF Ids, None
  <2>3. /\ files' = [files EXCEPT ![k] = new]
        /\ table' = [table EXCEPT ![p] = WithFd(table[p], k)]
    BY <1>1, <1>2, <1>5 DEF Install, WithFd
  <2>4. new \in OSInode /\ new.inode = i
    <3>1. i \in Inodes
      BY <2>1, FsParts DEF FsOK, FsShape
    <3>2. QED
      BY <3>1 DEF OSInode
  <2> HIDE DEF new, k, i
  <2>5. /\ table' \in [Tasks -> Seq(Int)] /\ table'[p] = WithFd(table[p], k)
        /\ \A q \in Tasks : q # p => table'[q] = table[q]
    BY <1>2, <2>2, <2>3, WithFdIs
  <2>6. \A l \in Ids : l \in Used(table') <=> (l = k \/ l \in Used(table))
    <3> SUFFICES ASSUME NEW l \in Ids PROVE l \in Used(table') <=> (l = k \/ l \in Used(table))
      OBVIOUS
    <3>1. l # None
      BY OpenAssumption DEF Ids, None
    <3>2. Refers(table'[p], l) <=> (l = k \/ Refers(table[p], l))
      <4>1. table[p] \in Seq(Int)
        BY <1>2
      <4>2. Refers(WithFd(table[p], k), l) <=> (l = k \/ Refers(table[p], l))
        BY ONLY <2>2, <3>1, <4>1, WithFdIs
      <4>3. QED
        BY ONLY <2>5, <4>2
    <3>3. \A q \in Tasks : q # p => (Refers(table'[q], l) <=> Refers(table[q], l))
      BY <2>5
    <3>4. /\ l \in Used(table') <=> \E q \in Tasks : Refers(table'[q], l)
          /\ l \in Used(table) <=> \E q \in Tasks : Refers(table[q], l)
      BY UsedIs DEF Refers
    <3>5. QED
      BY ONLY <3>2, <3>3, <3>4, p \in Tasks
  <2>7. /\ files' \in [Ids -> OSInode \cup {Closed}] /\ files'[k] = new
        /\ \A l \in Ids : l # k => files'[l] = files[l]
    BY <1>2, <2>2, <2>3, <2>4
  <2>8. Live(files', table', fs')
    BY <1>2, <2>1, <2>4, <2>6, <2>7 DEF Live
  <2>9. QED
    BY <1>3, <2>1, <2>5, <2>7, <2>8 DEF OpenIInv, OpenTypes
<1>6. QED
  BY <1>4, <1>5

-------------------------------------------------------------------------------
(* The inductive invariant holds in every reachable state.                 *)
THEOREM OpenIInvAlways == OpenSpec => []OpenIInv
<1>1. OpenIInv /\ [OpenNext]_openVars => OpenIInv'
  <2> SUFFICES ASSUME OpenIInv, [OpenNext]_openVars PROVE OpenIInv'
    OBVIOUS
  <2>1. ASSUME NEW p \in Tasks, NEW n \in Names, NEW flags \in Flags, SysOpen(p, n, flags)
        PROVE  OpenIInv'
    BY <2>1, OpenStep
  <2>2. ASSUME NEW p \in Tasks, NEW fd \in DOMAIN table[p], SysClose(p, fd) PROVE OpenIInv'
    BY <2>2, CloseStep
  <2>3. ASSUME NEW p \in Tasks, NEW fd \in DOMAIN table[p], NEW len \in Lengths,
               SysRead(p, fd, len)
        PROVE  OpenIInv'
    BY <2>3, ReadStep
  <2>4. ASSUME NEW p \in Tasks, NEW fd \in DOMAIN table[p], NEW len \in Lengths,
               SysWrite(p, fd, len)
        PROVE  OpenIInv'
    BY <2>4, WriteStep
  <2>5. ASSUME NEW p \in Tasks, NEW q \in Tasks, SysFork(p, q) PROVE OpenIInv'
    BY <2>5, ForkStep
  <2>6. ASSUME NEW q \in Tasks, Reap(q) PROVE OpenIInv'
    BY <2>6, ReapStep
  <2>7. CASE UNCHANGED openVars
    BY <2>7 DEF openVars, OpenIInv, OpenTypes
  <2>8. QED
    BY <2>1, <2>2, <2>3, <2>4, <2>5, <2>6, <2>7 DEF OpenNext
<1>2. QED
  BY <1>1, OpenInitIInv, PTL DEF OpenSpec

(* The books of the file system balance after every call: every allocated  *)
(* block belongs to one place of one file, a free block is zeroed, the     *)
(* directory lists the allocated inodes once each, and the open files are  *)
(* those with a descriptor.                                                *)
THEOREM FileSystemIsSound == OpenSpec => []FsInv
BY OpenIInvAlways, OpenIInvImplies, PTL

(* No assertion or unwrap of easy-fs about its own books fails, whatever   *)
(* the sizes of the files asked for: what stops the kernel in a file       *)
(* system call is a limit it does not check (Limits).                      *)
THEOREM NoAssertionFails == OpenSpec => []AssertionsHold
BY OpenIInvAlways, OpenIInvImplies, PTL

-------------------------------------------------------------------------------
(* What the applications see of a state g: the name of an inode, the       *)
(* contents of a file, the files by name, an open file.                    *)
NameIn(g, i) == LET e == Entries(g) IN e[CHOOSE k \in DOMAIN e : e[k].inode = i].name

File(g, i) == [o \in 1 .. g.inode[i].size |-> Cell(g, i, o - 1)]

ContentsIn(g, n) == IF Exists(g, n) THEN File(g, Find(g, n)) ELSE Absent

Shown(g, f) ==
    IF f = Closed THEN Closed
    ELSE [name |-> NameIn(g, f.inode), offset |-> f.offset,
          readable |-> f.readable, writable |-> f.writable]

(* A name that is there stands for an inode, ...                           *)
LEMMA FindNames ==
  ASSUME NEW g, FsOK(g), DirOK(g), NEW n, Exists(g, n)
  PROVE  Find(g, n) \in g.ibits \ {Root} /\ NameIn(g, Find(g, n)) = n
<1> DEFINE size == g.inode[Root].size
           e == Entries(g)
           i == Find(g, n)
           P(k) == e[k].inode = i
<1>1. PICK o \in DirPlaces(g) : Cell(g, Root, o).name = n
  BY FindIs
<1>2. i = Cell(g, Root, o).inode
  BY <1>1, FindIs
<1>3. size \in Nat /\ e = [k \in 1 .. size |-> Cell(g, Root, k - 1)]
  BY EntriesAre
<1>4. NameIn(g, i) = e[CHOOSE k \in DOMAIN e : P(k)].name
  BY DEF NameIn
<1> HIDE DEF e, size, i
<1>5. /\ DOMAIN e = 1 .. size
      /\ \A k \in 1 .. size : e[k] = Cell(g, Root, k - 1) /\ k - 1 \in DirPlaces(g)
      /\ o + 1 \in 1 .. size /\ (o + 1) - 1 = o
  BY <1>1, <1>3 DEF DirPlaces, size
<1>6. P(o + 1)
  BY <1>2, <1>5
<1>7. PICK c : c = CHOOSE k \in DOMAIN e : P(k)
  OBVIOUS
<1>8. c \in 1 .. size /\ P(c)
  BY <1>5, <1>6, <1>7
<1>9. c - 1 = o
  BY <1>1, <1>2, <1>5, <1>8 DEF DirOK
<1>10. NameIn(g, i) = n
  BY <1>1, <1>4, <1>5, <1>7, <1>8, <1>9
<1>11. i \in g.ibits \ {Root}
  BY <1>2 DEF DirOK
<1>12. QED
  BY <1>10, <1>11 DEF i

(* ... and an inode but the directory's has a name.                        *)
LEMMA NamesFind ==
  ASSUME NEW g, FsOK(g), DirOK(g), NEW i \in g.ibits \ {Root}
  PROVE  NameIn(g, i) \in Names /\ Exists(g, NameIn(g, i)) /\ Find(g, NameIn(g, i)) = i
<1>1. PICK o \in DirPlaces(g) : Cell(g, Root, o).inode = i
  BY DEF DirOK
<1> DEFINE n == Cell(g, Root, o).name
<1>2. n \in Names
  BY DEF DirOK, Entry
<1>3. Exists(g, n) /\ Find(g, n) = i
  BY <1>1, FindIs
<1>4. NameIn(g, i) = n
  BY <1>3, FindNames
<1>5. QED
  BY <1>2, <1>3, <1>4

(* Names stay while the search for them does.                              *)
LEMMA NamesStay ==
  ASSUME NEW g, FsOK(g), DirOK(g), NEW h, FsOK(h), DirOK(h),
         \A n : Exists(g, n) => Exists(h, n) /\ Find(h, n) = Find(g, n),
         NEW i \in g.ibits \ {Root}
  PROVE  NameIn(h, i) = NameIn(g, i)
<1> DEFINE n == NameIn(g, i)
<1>1. Exists(g, n) /\ Find(g, n) = i
  BY NamesFind
<1>2. Exists(h, n) /\ Find(h, n) = i
  BY <1>1
<1>3. QED
  BY <1>2, FindNames

(* What the mapping of the refinement shows.                               *)
LEMMA ViewsAre ==
  ASSUME NEW g, FsOK(g), DirOK(g), NEW n, Exists(g, n)
  PROVE  ReadAt(g, Find(g, n), 0, g.inode[Find(g, n)].size) = ContentsIn(g, n)
<1>1. Find(g, n) \in g.ibits
  BY FindNames
<1>2. g.inode[Find(g, n)].size \in Nat
  BY <1>1, SizesAre DEF FsOK
<1>3. QED
  BY <1>2, ReadWhole DEF ContentsIn, File

(* A file is a list of values.                                             *)
LEMMA FileIs ==
  ASSUME NEW g, FsOK(g), NEW i \in g.ibits
  PROVE  /\ g.inode[i].size \in Nat /\ File(g, i) \in Seq(Values) /\ Len(File(g, i)) = g.inode[i].size
         /\ DOMAIN File(g, i) = 1 .. g.inode[i].size
         /\ \A o \in 1 .. g.inode[i].size : File(g, i)[o] = Cell(g, i, o - 1)
<1> DEFINE size == g.inode[i].size
<1>1. size \in Nat /\ FsShape(g)
  BY SizesAre DEF FsOK
<1>2. ASSUME NEW o \in 1 .. size PROVE Cell(g, i, o - 1) \in Values
  <2>1. o - 1 \in Nat /\ o - 1 < size
    BY <1>1
  <2>2. /\ (o - 1) \div Cells \in Nat /\ (o - 1) \div Cells < DataBlocks(size)
        /\ (o - 1) % Cells \in CellIndex
    BY ONLY <1>1, <2>1, CellInside
  <2> DEFINE l == (o - 1) \div Cells
             c == (o - 1) % Cells
  <2>3. l \in Leaves(g, i)
    <3>1. DataBlocks(size) \in Nat
      BY <1>1, DataBlocksAre
    <3>2. QED
      BY <2>2, <3>1 DEF Leaves
  <2> HIDE DEF l, c
  <2>4. GetBlockId(g, i, l) \in DataArea
    BY <2>3, LeavesApart
  <2>5. g.block \in [DataArea -> [CellIndex -> Values]]
    BY <1>1, FsParts DEF FsShape
  <2>6. g.block[GetBlockId(g, i, l)][c] \in Values
    BY <2>2, <2>4, <2>5 DEF c
  <2>7. QED
    BY <2>6 DEF Cell, l, c
<1> HIDE DEF size
<1>3. File(g, i) = [o \in 1 .. size |-> Cell(g, i, o - 1)]
  BY DEF File, size
<1>4. QED
  BY <1>1, <1>2, <1>3 DEF size

(* The files after a write: the one that is written and the others.        *)
LEMMA FileWritten ==
  ASSUME NEW g, FsOK(g), NEW i \in g.ibits, NEW offset \in Nat, NEW buf \in Seq(Values),
         NEW h, WroteFile(g, h, i, offset, buf)
  PROVE  /\ File(h, i) = Abstract!Written(File(g, i), offset, buf)
         /\ \A j \in g.ibits : j # i => File(h, j) = File(g, j)
<1> DEFINE end == offset + Len(buf)
<1>1. /\ FsOK(h) /\ h.ibits = g.ibits
      /\ h.inode[i].size = IF g.inode[i].size < end THEN end ELSE g.inode[i].size
      /\ \A j \in Inodes : j # i => h.inode[j] = g.inode[j]
      /\ \A j \in g.ibits : \A o \in Nat :
              o < h.inode[j].size =>
                Cell(h, j, o) = IF j = i /\ offset =< o /\ o < end THEN buf[(o - offset) + 1]
                                ELSE IF o < g.inode[j].size THEN Cell(g, j, o) ELSE Zero
  BY DEF WroteFile
<1>2. \A j \in g.ibits : j \in Inodes /\ g.inode[j].size \in Nat
  BY SizesAre DEF FsOK
<1>3. end \in Nat /\ Len(buf) \in Nat
  OBVIOUS
<1>4. File(h, i) = Abstract!Written(File(g, i), offset, buf)
  <2> DEFINE m == g.inode[i].size
             size == h.inode[i].size
             file == File(g, i)
  <2>1. m \in Nat /\ Len(file) = m /\ \A o \in 1 .. m : file[o] = Cell(g, i, o - 1)
    BY FileIs
  <2>2. size \in Nat /\ size = IF end > m THEN end ELSE m
    BY <1>1, <1>3, <2>1
  <2> HIDE DEF m, size, file
  <2>3. ASSUME NEW o \in 1 .. size
        PROVE  Cell(h, i, o - 1) = IF o > offset /\ o =< end THEN buf[o - offset]
                                   ELSE IF o =< Len(file) THEN file[o] ELSE Zero
    <3>1. o - 1 \in Nat /\ o - 1 < size /\ o \in Nat /\ o >= 1
      BY <2>2
    <3>2. Cell(h, i, o - 1) = IF offset =< o - 1 /\ o - 1 < end THEN buf[((o - 1) - offset) + 1]
                              ELSE IF o - 1 < m THEN Cell(g, i, o - 1) ELSE Zero
      BY <1>1, <3>1 DEF size, m
    <3>3. /\ offset =< o - 1 /\ o - 1 < end <=> o > offset /\ o =< end
          /\ ((o - 1) - offset) + 1 = o - offset
          /\ o - 1 < m <=> o =< m
      BY <1>3, <2>1, <3>1
    <3>4. o =< m => file[o] = Cell(g, i, o - 1)
      BY <2>1, <3>1
    <3>5. QED
      BY ONLY <2>1, <3>2, <3>3, <3>4
  <2>4. File(h, i) = [o \in 1 .. size |-> Cell(h, i, o - 1)]
    BY DEF File, size
  <2>5. Abstract!Written(file, offset, buf) =
          [o \in 1 .. size |-> IF o > offset /\ o =< end THEN buf[o - offset]
                               ELSE IF o =< Len(file) THEN file[o] ELSE Zero]
    BY <2>1, <2>2 DEF Abstract!Written
  <2>6. QED
    BY ONLY <2>3, <2>4, <2>5 DEF file
<1>5. ASSUME NEW j \in g.ibits, j # i PROVE File(h, j) = File(g, j)
  <2>1. h.inode[j] = g.inode[j] /\ g.inode[j].size \in Nat
    BY <1>1, <1>2, <1>5
  <2>2. \A o \in 1 .. g.inode[j].size : Cell(h, j, o - 1) = Cell(g, j, o - 1)
    <3> SUFFICES ASSUME NEW o \in 1 .. g.inode[j].size PROVE Cell(h, j, o - 1) = Cell(g, j, o - 1)
      OBVIOUS
    <3>1. o - 1 \in Nat /\ o - 1 < g.inode[j].size
      BY <2>1
    <3>2. QED
      BY <1>1, <1>5, <2>1, <3>1
  <2>3. QED
    BY <2>1, <2>2 DEF File
<1>6. QED
  BY <1>4, <1>5

(* The refinement mapping before and after a step.                         *)
LEMMA MappedNow ==
  ASSUME OpenIInv
  PROVE  /\ StoreView = [n \in Names |-> ContentsIn(fs, n)]
         /\ OpenViews = [k \in Ids |-> Shown(fs, files[k])]
<1>1. \A n \in Names : Contents(n) = ContentsIn(fs, n)
  <2> SUFFICES ASSUME NEW n \in Names PROVE Contents(n) = ContentsIn(fs, n)
    OBVIOUS
  <2>1. CASE Exists(fs, n)
    BY <2>1, ViewsAre DEF Contents, OpenIInv
  <2>2. CASE ~Exists(fs, n)
    BY <2>2 DEF Contents, ContentsIn
  <2>3. QED
    BY <2>1, <2>2
<1>2. \A k \in Ids : OpenView(k) = Shown(fs, files[k])
  BY DEF OpenView, NameOf, Shown, NameIn
<1>3. QED
  BY <1>1, <1>2 DEF StoreView, OpenViews

(* The same in the next state.                                             *)
LEMMA MappedNext ==
  ASSUME OpenIInv'
  PROVE  /\ StoreView' = [n \in Names |-> ContentsIn(fs', n)]
         /\ OpenViews' = [k \in Ids |-> Shown(fs', files'[k])]
<1>1. \A n \in Names : Contents(n)' = ContentsIn(fs', n)
  <2> SUFFICES ASSUME NEW n \in Names PROVE Contents(n)' = ContentsIn(fs', n)
    OBVIOUS
  <2>1. CASE Exists(fs', n)
    <3>1. FsOK(fs') /\ DirOK(fs')
      BY DEF OpenIInv
    <3>2. QED
      BY <2>1, <3>1, ViewsAre DEF Contents
  <2>2. CASE ~Exists(fs', n)
    BY <2>2 DEF Contents, ContentsIn
  <2>3. QED
    BY <2>1, <2>2
<1>2. \A k \in Ids : OpenView(k)' = Shown(fs', files'[k])
  BY DEF OpenView, NameOf, Shown, NameIn
<1>3. QED
  BY <1>1, <1>2 DEF StoreView, OpenViews

(* Nothing of the file system changes: nothing of the store does.          *)
LEMMA StoreStays ==
  ASSUME OpenIInv, OpenIInv', fs' = fs
  PROVE  StoreView' = StoreView /\ OpenViews' = [k \in Ids |-> Shown(fs, files'[k])]
BY MappedNow, MappedNext

(* An open file as the applications see it.                                *)
LEMMA ShownIs ==
  ASSUME OpenIInv, NEW k \in Ids, k \in Used(table)
  PROVE  /\ files[k] \in OSInode /\ files[k].inode \in fs.ibits \ {Root}
         /\ files[k] # Closed /\ OpenViews[k] # Closed
         /\ OpenViews[k] = [name |-> NameIn(fs, files[k].inode), offset |-> files[k].offset,
                            readable |-> files[k].readable, writable |-> files[k].writable]
         /\ NameIn(fs, files[k].inode) \in Names
         /\ StoreView[NameIn(fs, files[k].inode)] = File(fs, files[k].inode)
<1>1. FsOK(fs) /\ DirOK(fs) /\ files[k] \in OSInode /\ files[k].inode \in fs.ibits \ {Root}
  BY DEF OpenIInv, Live
<1>2. files[k] # Closed
  BY <1>1, OpenAssumption
<1> DEFINE i == files[k].inode
           n == NameIn(fs, i)
           view == [name |-> n, offset |-> files[k].offset,
                    readable |-> files[k].readable, writable |-> files[k].writable]
<1>3. n \in Names /\ Exists(fs, n) /\ Find(fs, n) = i
  BY <1>1, NamesFind
<1>4. OpenViews[k] = view
  BY <1>2, MappedNow DEF Shown
<1>5. view # Closed
  <2>1. files[k].offset \in Nat /\ files[k].readable \in BOOLEAN /\ files[k].writable \in BOOLEAN
    BY <1>1 DEF OSInode
  <2> HIDE DEF n
  <2>2. view \in [name : Names, offset : Nat, readable : BOOLEAN, writable : BOOLEAN]
    BY <1>3, <2>1
  <2>3. QED
    BY <2>2, OpenAssumption
<1>6. StoreView[n] = File(fs, i)
  BY <1>3, MappedNow DEF ContentsIn
<1>7. QED
  BY <1>1, <1>2, <1>3, <1>4, <1>5, <1>6

(* Descriptors that go: a step of the store that drops open files.         *)
LEMMA DropShown ==
  ASSUME OpenIInv, OpenIInv', fs' = fs, files' = Kept(files, table')
  PROVE  \E K \in SUBSET Ids : Abstract!Drop(K)
<1> DEFINE K == Ids \ Used(table')
<1>1. StoreView' = StoreView /\ OpenViews' = [k \in Ids |-> Shown(fs, files'[k])]
  BY StoreStays
<1>2. OpenViews = [k \in Ids |-> Shown(fs, files[k])]
  BY MappedNow
<1>3. \A k \in Ids : files'[k] = IF k \in K THEN Closed ELSE files[k]
  BY DEF Kept
<1>4. \A k \in Ids : Shown(fs, files'[k]) = IF k \in K THEN Closed ELSE OpenViews[k]
  BY <1>2, <1>3 DEF Shown
<1> HIDE DEF K
<1>5. Abstract!Drop(K)
  BY <1>1, <1>4 DEF Abstract!Drop
<1>6. K \in SUBSET Ids
  BY DEF K
<1>7. QED
  BY <1>5, <1>6

(* The view of an open file that moved on.                                 *)
LEMMA ShownMoves ==
  ASSUME OpenIInv, NEW k \in Ids, k \in Used(table), NEW o \in Nat,
         NEW h, \A l \in Ids : l \in Used(table) => NameIn(h, files[l].inode) = NameIn(fs, files[l].inode)
  PROVE  [l \in Ids |-> Shown(h, Moved(files, k, o)[l])] = [OpenViews EXCEPT ![k].offset = o]
<1> DEFINE f == Moved(files, k, o)
<1>1. files \in [Ids -> OSInode \cup {Closed}] /\ Live(files, table, fs)
  BY DEF OpenIInv, OpenTypes
<1>2. OpenViews = [l \in Ids |-> Shown(fs, files[l])]
  BY MappedNow
<1>3. files[k] \in OSInode /\ files[k] # Closed
  BY ShownIs
<1>4. /\ f[k] = [files[k] EXCEPT !.offset = o]
      /\ \A l \in Ids : l # k => f[l] = files[l]
  BY <1>1 DEF Moved
<1>5. /\ f[k].inode = files[k].inode /\ f[k].offset = o /\ f[k].readable = files[k].readable
      /\ f[k].writable = files[k].writable /\ f[k] \in OSInode
  BY <1>3, <1>4 DEF OSInode
<1> HIDE DEF f
<1>6. f[k] # Closed
  BY <1>5, OpenAssumption
<1>7. Shown(h, f[k]) = [OpenViews[k] EXCEPT !.offset = o]
  <2>1. Shown(h, f[k]) = [name |-> NameIn(fs, files[k].inode), offset |-> o,
                          readable |-> files[k].readable, writable |-> files[k].writable]
    BY <1>5, <1>6 DEF Shown
  <2>2. OpenViews[k] = [name |-> NameIn(fs, files[k].inode), offset |-> files[k].offset,
                        readable |-> files[k].readable, writable |-> files[k].writable]
    BY ShownIs
  <2>3. QED
    BY <2>1, <2>2
<1>8. \A l \in Ids : l # k => Shown(h, f[l]) = OpenViews[l]
  <2> SUFFICES ASSUME NEW l \in Ids, l # k PROVE Shown(h, files[l]) = Shown(fs, files[l])
    BY <1>2, <1>4
  <2>1. CASE l \in Used(table)
    BY <2>1 DEF Shown
  <2>2. CASE l \notin Used(table)
    BY <1>1, <2>2 DEF Live, Shown
  <2>3. QED
    BY <2>1, <2>2
<1>9. DOMAIN OpenViews = Ids
  BY <1>2
<1>10. QED
  BY ONLY <1>2, <1>7, <1>8, <1>9, k \in Ids DEF f

(* sys_read is Read.                                                       *)
LEMMA ReadShown ==
  ASSUME OpenIInv, OpenIInv', NEW p \in Tasks, NEW fd \in DOMAIN table[p], NEW len \in Lengths,
         SysRead(p, fd, len)
  PROVE  \E k \in Ids : Abstract!Read(k, len)
<1> DEFINE k == table[p][fd]
           i == files[k].inode
           offset == files[k].offset
           m == Len(ReadAt(fs, i, offset, len))
           n == NameIn(fs, i)
<1>1. /\ k \in Ids /\ files[k].readable /\ fs' = fs
      /\ files' = [files EXCEPT ![k].offset = @ + Len(ReadAt(fs, i, @, len))]
  BY DEF SysRead, IsFile
<1>2. k \in Used(table)
  BY UsedIs
<1> HIDE DEF k
<1>3. /\ files[k] \in OSInode /\ i \in fs.ibits \ {Root} /\ OpenViews[k] # Closed
      /\ OpenViews[k] = [name |-> n, offset |-> offset,
                         readable |-> files[k].readable, writable |-> files[k].writable]
      /\ n \in Names /\ StoreView[n] = File(fs, i)
  BY <1>1, <1>2, ShownIs
<1>4. offset \in Nat /\ len \in Nat /\ FsOK(fs)
  BY <1>3, OpenAssumption DEF OSInode, OpenIInv
<1>5. fs.inode[i].size \in Nat /\ Len(File(fs, i)) = fs.inode[i].size
  BY <1>3, <1>4, FileIs
<1> DEFINE left == fs.inode[i].size - offset
<1>6. m \in Nat /\ m = IF left =< 0 THEN 0 ELSE IF len < left THEN len ELSE left
  BY <1>4, <1>5, ReadLength
<1>7. files' = Moved(files, k, offset + m)
  BY <1>1 DEF Moved
<1>8. left = Len(StoreView[OpenViews[k].name]) - OpenViews[k].offset
  BY <1>3, <1>5
<1>9. OpenViews[k].readable /\ OpenViews[k].offset = offset
  BY <1>1, <1>3
<1>10. StoreView' = StoreView /\ OpenViews' = [l \in Ids |-> Shown(fs, files'[l])]
  BY <1>1, StoreStays
<1> HIDE DEF m, left, i, offset, n
<1>11. OpenViews' = [OpenViews EXCEPT ![k].offset = offset + m]
  <2>1. offset + m \in Nat
    BY <1>4, <1>6
  <2>2. [l \in Ids |-> Shown(fs, Moved(files, k, offset + m)[l])]
          = [OpenViews EXCEPT ![k].offset = offset + m]
    BY <1>1, <1>2, <2>1, ShownMoves
  <2>3. QED
    BY <1>7, <1>10, <2>2
<1>12. OpenViews' = [OpenViews EXCEPT ![k].offset = @ + m]
  BY <1>9, <1>11
<1>13. Abstract!Read(k, len)
  BY <1>3, <1>6, <1>8, <1>9, <1>10, <1>12 DEF Abstract!Read
<1>14. QED
  BY <1>1, <1>13

(* The state changes no name: files with their names.                      *)
LEMMA NamesKept ==
  ASSUME OpenIInv, NEW h, FsOK(h), DirOK(h),
         \A n : Exists(fs, n) => Exists(h, n) /\ Find(h, n) = Find(fs, n)
  PROVE  \A l \in Ids : l \in Used(table) => NameIn(h, files[l].inode) = NameIn(fs, files[l].inode)
<1> SUFFICES ASSUME NEW l \in Ids, l \in Used(table)
             PROVE  NameIn(h, files[l].inode) = NameIn(fs, files[l].inode)
  OBVIOUS
<1>1. FsOK(fs) /\ DirOK(fs) /\ files[l].inode \in fs.ibits \ {Root}
  BY DEF OpenIInv, Live
<1>2. QED
  BY <1>1, NamesStay

(* sys_write is WriteFile, when nothing stops it.                          *)
LEMMA WriteShown ==
  ASSUME OpenIInv, OpenIInv', NEW p \in Tasks, NEW fd \in DOMAIN table[p], NEW len \in Lengths,
         SysWrite(p, fd, len), panicked' = "no"
  PROVE  \E k \in Ids : Abstract!WriteFile(k, len)
<1> DEFINE k == table[p][fd]
           i == files[k].inode
           offset == files[k].offset
           end == offset + len
           buf == Data(offset, len)
           n == NameIn(fs, i)
<1>1. /\ k \in Ids /\ files[k].writable
      /\ StopIncrease(fs, i, end) = "no"
      /\ fs' = Write(fs, i, offset, buf) /\ files' = [files EXCEPT ![k].offset = end]
  BY DEF SysWrite, IsFile
<1>2. k \in Used(table)
  BY UsedIs
<1> HIDE DEF k
<1>3. /\ files[k] \in OSInode /\ i \in fs.ibits \ {Root} /\ OpenViews[k] # Closed
      /\ OpenViews[k] = [name |-> n, offset |-> offset,
                         readable |-> files[k].readable, writable |-> files[k].writable]
      /\ n \in Names /\ StoreView[n] = File(fs, i)
  BY <1>1, <1>2, ShownIs
<1>4. offset \in Nat /\ len \in Nat /\ end \in Nat
  <2>1. offset \in Nat /\ len \in Nat
    BY <1>3, OpenAssumption DEF OSInode
  <2>2. QED
    BY <2>1
<1>5. FsOK(fs) /\ DirOK(fs) /\ FsOK(fs') /\ DirOK(fs')
  BY DEF OpenIInv
<1>6. OpenViews[k].writable /\ OpenViews[k].offset = offset /\ OpenViews[k].name = n
  BY <1>1, <1>3
<1>7. buf \in Seq(Values) /\ Len(buf) = len
  BY <1>4, DataIs
<1> HIDE DEF i, offset, buf, n
<1>8. WroteFile(fs, fs', i, offset, buf)
  BY <1>1, <1>3, <1>4, <1>5, <1>7, WriteGives
<1>9. /\ \A m : Exists(fs', m) <=> Exists(fs, m)
      /\ \A m : Exists(fs, m) => Find(fs', m) = Find(fs, m)
  BY <1>3, <1>5, <1>8, WroteKeepsDir
<1>10. OpenViews' = [OpenViews EXCEPT ![k].offset = @ + len]
  <2>1. files' = Moved(files, k, end)
    BY <1>1 DEF Moved
  <2>2. \A l \in Ids : l \in Used(table) => NameIn(fs', files[l].inode) = NameIn(fs, files[l].inode)
    BY <1>5, <1>9, NamesKept
  <2> HIDE DEF end
  <2>3. [l \in Ids |-> Shown(fs', Moved(files, k, end)[l])] = [OpenViews EXCEPT ![k].offset = end]
    BY <1>1, <1>2, <1>4, <2>2, ShownMoves
  <2>4. OpenViews' = [OpenViews EXCEPT ![k].offset = end]
    BY <2>1, <2>3, MappedNext
  <2>5. QED
    BY <1>6, <2>4 DEF end
<1>11. /\ File(fs', i) = Abstract!Written(File(fs, i), offset, buf)
       /\ \A j \in fs.ibits : j # i => File(fs', j) = File(fs, j)
  BY <1>3, <1>4, <1>5, <1>7, <1>8, FileWritten
<1>12. StoreView' = [StoreView EXCEPT ![n] = Abstract!Written(@, offset, buf)]
  <2>1. StoreView = [m \in Names |-> ContentsIn(fs, m)]
    BY MappedNow
  <2>2. StoreView' = [m \in Names |-> ContentsIn(fs', m)]
    BY MappedNext
  <2>3. Exists(fs, n) /\ Find(fs, n) = i
    BY <1>3, <1>5, NamesFind DEF n
  <2>4. ContentsIn(fs', n) = Abstract!Written(StoreView[n], offset, buf)
    BY <1>3, <1>9, <1>11, <2>3 DEF ContentsIn
  <2>5. \A m \in Names : m # n => ContentsIn(fs', m) = StoreView[m]
    <3> SUFFICES ASSUME NEW m \in Names, m # n PROVE ContentsIn(fs', m) = ContentsIn(fs, m)
      BY <2>1
    <3>1. CASE Exists(fs, m)
      <4>1. Find(fs, m) \in fs.ibits /\ Find(fs, m) # i
        BY <1>5, <3>1, FindNames DEF n
      <4>2. QED
        BY <1>9, <1>11, <3>1, <4>1 DEF ContentsIn
    <3>2. CASE ~Exists(fs, m)
      BY <1>9, <3>2 DEF ContentsIn
    <3>3. QED
      BY <3>1, <3>2
  <2>6. DOMAIN StoreView = Names
    BY <2>1
  <2>7. QED
    BY ONLY <1>3, <2>1, <2>2, <2>4, <2>5, <2>6
<1>13. Abstract!WriteFile(k, len)
  BY <1>3, <1>6, <1>10, <1>12 DEF Abstract!WriteFile, buf
<1>14. QED
  BY <1>1, <1>13

(* An empty file, and one whose cells stay.                                *)
LEMMA FileSame ==
  ASSUME NEW g, NEW h, NEW i
  PROVE  /\ h.inode[i].size = 0 => File(h, i) = <<>>
         /\ /\ g.inode[i].size \in Nat /\ h.inode[i] = g.inode[i]
            /\ \A o \in Nat : o < g.inode[i].size => Cell(h, i, o) = Cell(g, i, o)
            => File(h, i) = File(g, i)
<1>1. ASSUME h.inode[i].size = 0 PROVE File(h, i) = <<>>
  <2>1. 1 .. 0 = {}
    OBVIOUS
  <2>2. QED
    BY <1>1, <2>1 DEF File
<1>2. ASSUME g.inode[i].size \in Nat, h.inode[i] = g.inode[i],
             \A o \in Nat : o < g.inode[i].size => Cell(h, i, o) = Cell(g, i, o)
      PROVE  File(h, i) = File(g, i)
  <2>1. \A o \in 1 .. g.inode[i].size : o - 1 \in Nat /\ o - 1 < g.inode[i].size
    BY <1>2
  <2>2. \A o \in 1 .. g.inode[i].size : Cell(h, i, o - 1) = Cell(g, i, o - 1)
    BY <1>2, <2>1
  <2>3. QED
    BY <1>2, <2>2 DEF File
<1>3. QED
  BY <1>1, <1>2

(* The names and contents after open_file: CREATE and TRUNC empty the file *)
(* of the name, no other changes.                                          *)
LEMMA OpenedShows ==
  ASSUME FsOK(fs), DirOK(fs), NEW n \in Names, NEW flags,
         StopOpen(n, flags) = "no", "CREATE" \in flags \/ Exists(fs, n),
         NEW g, g = Opened(n, flags)
  PROVE  /\ \A m : Exists(fs, m) => Exists(g, m) /\ Find(g, m) = Find(fs, m)
         /\ \A m \in Names :
              ContentsIn(g, m) = IF m = n /\ flags \cap {"CREATE", "TRUNC"} # {} THEN <<>>
                                 ELSE ContentsIn(fs, m)
<1>0. Root \in fs.ibits /\ Root \in Inodes /\ fs.ibits \subseteq Inodes
      /\ \A j \in fs.ibits : fs.inode[j].size \in Nat
  <2>1. Root \in Inodes
    BY FsAssumption DEF Root, Inodes
  <2>2. QED
    BY <2>1, FsParts, SizesAre DEF FsOK, FsShape
<1>1. CASE ~Exists(fs, n)
  <2>1. StopCreate(fs, n) = "no"
    BY <1>1 DEF StopOpen
  <2>2. g = Create(fs, n)
    BY <1>1 DEF Opened
  <2>3. PICK i \in Inodes \ fs.ibits : Created(fs, g, n, i)
    BY <2>1, <2>2, CreateGives
  <2>4. /\ DirOK(g) /\ Exists(g, n) /\ Find(g, n) = i
        /\ \A m : m # n => (Exists(g, m) <=> Exists(fs, m))
        /\ \A m : m # n /\ Exists(fs, m) => Find(g, m) = Find(fs, m)
    BY <1>1, <2>3, DirGrows
  <2>5. /\ g.inode[i].size = 0
        /\ \A j \in Inodes : j # i /\ j # Root => g.inode[j] = fs.inode[j]
        /\ \A j \in fs.ibits : \A o \in Nat : o < fs.inode[j].size => Cell(g, j, o) = Cell(fs, j, o)
    BY <2>3 DEF Created
  <2>6. ContentsIn(g, n) = <<>>
    BY <2>4, <2>5, FileSame DEF ContentsIn
  <2>7. ASSUME NEW m, m # n PROVE ContentsIn(g, m) = ContentsIn(fs, m)
    <3>1. CASE Exists(fs, m)
      <4>1. Find(fs, m) \in fs.ibits \ {Root}
        BY <3>1, FindNames
      <4>2. File(g, Find(fs, m)) = File(fs, Find(fs, m))
        BY <1>0, <2>5, <4>1, FileSame
      <4>3. QED
        BY <2>4, <2>7, <3>1, <4>2 DEF ContentsIn
    <3>2. CASE ~Exists(fs, m)
      BY <2>4, <2>7, <3>2 DEF ContentsIn
    <3>3. QED
      BY <3>1, <3>2
  <2>8. flags \cap {"CREATE", "TRUNC"} # {}
    BY <1>1
  <2>9. QED
    BY <1>1, <2>4, <2>6, <2>7, <2>8
<1>2. CASE Exists(fs, n) /\ flags \cap {"CREATE", "TRUNC"} = {}
  <2>1. g = fs
    BY <1>2 DEF Opened
  <2>2. QED
    BY <1>2, <2>1
<1>3. CASE Exists(fs, n) /\ flags \cap {"CREATE", "TRUNC"} # {}
  <2> DEFINE i == Find(fs, n)
  <2>1. i \in fs.ibits \ {Root} /\ NameIn(fs, i) = n
    BY <1>3, FindNames
  <2>2. g = Clear(fs, i)
    BY <1>3 DEF Opened
  <2> HIDE DEF i
  <2>3. Cleared(fs, g, i)
    BY <2>1, <2>2, ClearGives
  <2>4. /\ FsOK(g) /\ g.ibits = fs.ibits /\ g.inode[i].size = 0
        /\ \A j \in Inodes : j # i => g.inode[j] = fs.inode[j]
        /\ \A j \in fs.ibits : \A o \in Nat :
              j # i /\ o < fs.inode[j].size => Cell(g, j, o) = Cell(fs, j, o)
    BY <2>3 DEF Cleared
  <2>5. g.inode[Root] = fs.inode[Root]
    BY <1>0, <2>1, <2>4
  <2>6. \A o \in DirPlaces(fs) : Cell(g, Root, o) = Cell(fs, Root, o)
    BY <1>0, <2>1, <2>4, EntriesAre
  <2>7. /\ \A m : Exists(g, m) <=> Exists(fs, m)
        /\ \A m : Exists(fs, m) => Find(g, m) = Find(fs, m)
    BY <2>4, <2>5, <2>6, DirStays
  <2>8. ContentsIn(g, n) = <<>>
    <3>1. File(g, i) = <<>>
      BY <2>4, FileSame
    <3>2. QED
      BY <1>3, <2>7, <3>1 DEF ContentsIn, i
  <2>9. ASSUME NEW m, m # n PROVE ContentsIn(g, m) = ContentsIn(fs, m)
    <3>1. CASE Exists(fs, m)
      <4>1. Find(fs, m) \in fs.ibits /\ Find(fs, m) # i
        BY <2>1, <2>9, <3>1, FindNames
      <4>2. File(g, Find(fs, m)) = File(fs, Find(fs, m))
        BY <1>0, <2>4, <4>1, FileSame
      <4>3. QED
        BY <2>7, <3>1, <4>2 DEF ContentsIn
    <3>2. CASE ~Exists(fs, m)
      BY <2>7, <3>2 DEF ContentsIn
    <3>3. QED
      BY <3>1, <3>2
  <2>10. QED
    BY <1>3, <2>7, <2>8, <2>9
<1>4. QED
  BY <1>1, <1>2, <1>3

(* sys_open is Open, when nothing stops it.                                *)
LEMMA OpenShown ==
  ASSUME OpenIInv, OpenIInv', NEW p \in Tasks, NEW n \in Names, NEW flags \in Flags,
         SysOpen(p, n, flags), panicked' = "no"
  PROVE  \E k \in Ids : Abstract!Open(k, n, flags)
<1> DEFINE i == Find(fs', n)
           free == {j \in Ids : files[j] = Closed}
           k == Lowest(free)
           new == [inode |-> i, offset |-> 0, readable |-> "WRONLY" \notin flags,
                   writable |-> flags # {}]
           shown == [name |-> n, offset |-> 0, readable |-> "WRONLY" \notin flags,
                     writable |-> flags # {}]
<1>1. /\ \E j \in Ids : files[j] = Closed
      /\ "CREATE" \in flags \/ Exists(fs, n)
      /\ StopOpen(n, flags) = "no"
      /\ fs' = Opened(n, flags) /\ Install(p, i, flags)
  BY DEF SysOpen, Room
<1>2. /\ files \in [Ids -> OSInode \cup {Closed}] /\ Live(files, table, fs)
      /\ FsOK(fs) /\ DirOK(fs) /\ FsOK(fs') /\ DirOK(fs')
  BY DEF OpenIInv, OpenTypes
<1>3. Exists(fs', n) /\ i \in fs'.ibits \ {Root}
  BY <1>1, <1>2, OpenedGives
<1>4. /\ \A m : Exists(fs, m) => Exists(fs', m) /\ Find(fs', m) = Find(fs, m)
      /\ \A m \in Names :
              ContentsIn(fs', m) = IF m = n /\ flags \cap {"CREATE", "TRUNC"} # {} THEN <<>>
                                   ELSE ContentsIn(fs, m)
  BY <1>1, <1>2, OpenedShows
<1>5. k \in Ids /\ files[k] = Closed
  <2>1. free \subseteq Nat /\ free # {}
    BY <1>1, OpenAssumption DEF Ids
  <2>2. k \in free
    BY <2>1, LowestIn
  <2>3. QED
    BY <2>2
<1>6. files' = [files EXCEPT ![k] = new]
  BY <1>1 DEF Install
<1>7. new \in OSInode /\ new.inode = i
  <2>1. i \in Inodes
    BY <1>2, <1>3, FsParts DEF FsOK, FsShape
  <2>2. QED
    BY <2>1 DEF OSInode
<1>8. Shown(fs', new) = shown
  <2>1. new # Closed
    BY <1>7, OpenAssumption
  <2>2. NameIn(fs', i) = n
    BY <1>2, <1>3, FindNames
  <2>3. QED
    BY <2>1, <2>2 DEF Shown
<1> HIDE DEF k, i, new
<1>9. files'[k] = new /\ \A l \in Ids : l # k => files'[l] = files[l]
  BY <1>2, <1>5, <1>6
<1>10. OpenViews = [l \in Ids |-> Shown(fs, files[l])] /\ OpenViews' = [l \in Ids |-> Shown(fs', files'[l])]
  BY MappedNow, MappedNext
<1>11. \A l \in Ids : l # k => Shown(fs', files[l]) = Shown(fs, files[l])
  <2> SUFFICES ASSUME NEW l \in Ids, l # k PROVE Shown(fs', files[l]) = Shown(fs, files[l])
    OBVIOUS
  <2>1. CASE l \in Used(table)
    <3>1. NameIn(fs', files[l].inode) = NameIn(fs, files[l].inode)
      BY <1>2, <1>4, <2>1, NamesKept
    <3>2. QED
      BY <3>1 DEF Shown
  <2>2. CASE l \notin Used(table)
    BY <1>2, <2>2 DEF Live, Shown
  <2>3. QED
    BY <2>1, <2>2
<1>12. OpenViews[k] = Closed
  BY <1>5, <1>10 DEF Shown
<1> HIDE DEF shown
<1>13. OpenViews' = [OpenViews EXCEPT ![k] = shown]
  BY ONLY <1>5, <1>8, <1>9, <1>10, <1>11
<1>14. "CREATE" \in flags \/ StoreView[n] # Absent
  <2> SUFFICES ASSUME Exists(fs, n) PROVE StoreView[n] # Absent
    BY <1>1
  <2>1. Find(fs, n) \in fs.ibits
    BY <1>2, FindNames
  <2>2. StoreView[n] = File(fs, Find(fs, n))
    BY MappedNow DEF ContentsIn
  <2>3. File(fs, Find(fs, n)) \in Seq(Values)
    BY <1>2, <2>1, FileIs
  <2>4. QED
    BY <2>2, <2>3, OpenAssumption
<1>15. StoreView' = IF flags \cap {"CREATE", "TRUNC"} # {}
                    THEN [StoreView EXCEPT ![n] = <<>>] ELSE StoreView
  <2>1. StoreView = [m \in Names |-> ContentsIn(fs, m)] /\ StoreView' = [m \in Names |-> ContentsIn(fs', m)]
    BY MappedNow, MappedNext
  <2>2. CASE flags \cap {"CREATE", "TRUNC"} # {}
    <3>1. \A m \in Names : ContentsIn(fs', m) = IF m = n THEN <<>> ELSE ContentsIn(fs, m)
      BY <1>4, <2>2
    <3>2. QED
      BY ONLY <2>1, <2>2, <3>1, n \in Names
  <2>3. CASE flags \cap {"CREATE", "TRUNC"} = {}
    <3>1. \A m \in Names : ContentsIn(fs', m) = ContentsIn(fs, m)
      BY <1>4, <2>3
    <3>2. QED
      BY ONLY <2>1, <2>3, <3>1
  <2>4. QED
    BY <2>2, <2>3
<1>16. Abstract!Open(k, n, flags)
  BY <1>12, <1>13, <1>14, <1>15 DEF Abstract!Open, shown
<1>17. QED
  BY <1>5, <1>16

(* Neither the file system nor the open files change: the views stay.      *)
LEMMA NothingShown ==
  ASSUME OpenIInv, OpenIInv', fs' = fs, files' = files
  PROVE  UNCHANGED Abstract!filesVars
<1>1. StoreView' = StoreView /\ OpenViews' = [k \in Ids |-> Shown(fs, files'[k])]
  BY StoreStays
<1>2. OpenViews = [k \in Ids |-> Shown(fs, files[k])]
  BY MappedNow
<1>3. OpenViews' = OpenViews
  BY <1>1, <1>2
<1>4. QED
  BY <1>1, <1>3 DEF Abstract!filesVars

(* Through bitmaps, block trees, shared offsets and truncation under open  *)
(* files, the applications see named lists of values: every call is a step *)
(* of FileStore or changes nothing there.                                  *)
THEOREM FilesAreLists == OpenSpec => ImplementsFiles
<1>1. OpenInit => Abstract!FilesInit
  <2> SUFFICES ASSUME OpenInit PROVE Abstract!FilesInit
    OBVIOUS
  <2>1. OpenIInv
    BY OpenInitIInv
  <2>2. FsOK(fs) /\ DirOK(fs) /\ fs.ibits = {Root}
    BY <2>1 DEF OpenIInv, OpenInit, Formatted
  <2>3. ASSUME NEW n PROVE ~Exists(fs, n)
    BY <2>2, FindNames
  <2>4. StoreView = [n \in Names |-> Absent]
    BY <2>1, <2>3, MappedNow DEF ContentsIn
  <2>5. OpenViews = [k \in Ids |-> Closed]
    BY <2>1, MappedNow DEF OpenInit, Shown
  <2>6. QED
    BY <2>4, <2>5 DEF Abstract!FilesInit
<1>2. OpenIInv /\ OpenIInv' /\ [OpenNext]_openVars => [Abstract!FilesNext]_Abstract!filesVars
  <2> SUFFICES ASSUME OpenIInv, OpenIInv', [OpenNext]_openVars
               PROVE  [Abstract!FilesNext]_Abstract!filesVars
    OBVIOUS
  <2>1. ASSUME NEW p \in Tasks, NEW n \in Names, NEW flags \in Flags, SysOpen(p, n, flags)
        PROVE  [Abstract!FilesNext]_Abstract!filesVars
    <3>1. CASE panicked' = "no"
      BY <2>1, <3>1, OpenShown DEF Abstract!FilesNext
    <3>2. CASE panicked' # "no"
      BY <2>1, <3>2, NothingShown DEF SysOpen
    <3>3. QED
      BY <3>1, <3>2
  <2>2. ASSUME NEW p \in Tasks, NEW fd \in DOMAIN table[p], SysClose(p, fd)
        PROVE  [Abstract!FilesNext]_Abstract!filesVars
    BY <2>2, DropShown DEF SysClose, Abstract!FilesNext
  <2>3. ASSUME NEW p \in Tasks, NEW fd \in DOMAIN table[p], NEW len \in Lengths,
               SysRead(p, fd, len)
        PROVE  [Abstract!FilesNext]_Abstract!filesVars
    BY <2>3, ReadShown DEF Abstract!FilesNext
  <2>4. ASSUME NEW p \in Tasks, NEW fd \in DOMAIN table[p], NEW len \in Lengths,
               SysWrite(p, fd, len)
        PROVE  [Abstract!FilesNext]_Abstract!filesVars
    <3>1. CASE panicked' = "no"
      BY <2>4, <3>1, WriteShown DEF Abstract!FilesNext
    <3>2. CASE panicked' # "no"
      BY <2>4, <3>2, NothingShown DEF SysWrite
    <3>3. QED
      BY <3>1, <3>2
  <2>5. ASSUME NEW p \in Tasks, NEW q \in Tasks, SysFork(p, q)
        PROVE  [Abstract!FilesNext]_Abstract!filesVars
    BY <2>5, NothingShown DEF SysFork
  <2>6. ASSUME NEW q \in Tasks, Reap(q) PROVE [Abstract!FilesNext]_Abstract!filesVars
    BY <2>6, DropShown DEF Reap, Abstract!FilesNext
  <2>7. CASE UNCHANGED openVars
    BY <2>7, NothingShown DEF openVars
  <2>8. QED
    BY <2>1, <2>2, <2>3, <2>4, <2>5, <2>6, <2>7 DEF OpenNext
<1>3. QED
  BY <1>1, <1>2, OpenIInvAlways, PTL DEF OpenSpec, ImplementsFiles, Abstract!FilesSpec
===============================================================================
