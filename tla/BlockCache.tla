------------------------------ MODULE BlockCache ------------------------------
(***************************************************************************)
(* The block cache of easy-fs (easy-fs/src/block_cache.rs): a queue of at  *)
(* most CacheSize cached blocks over a block device.                       *)
(*                                                                         *)
(* The file system runs one operation at a time (it holds its mutex, and   *)
(* the kernel is not interrupted), but an operation nests its accesses:    *)
(* the closure given to read or modify asks for further blocks while the   *)
(* outer one stays locked.  held is the stack of those blocks.  A block in *)
(* it has a second Arc, which is what strong_count tells apart.            *)
(***************************************************************************)
EXTENDS Naturals, Sequences, FiniteSets

CONSTANTS
    Blocks,       \* block ids of the device
    Values,       \* contents of a block
    CacheSize,    \* BLOCK_CACHE_SIZE (16 in the code)
    MaxHeld       \* deepest nesting of accesses (3 in the code: a disk inode,
                  \* its indirect2 block and an indirect1 block below it)

ASSUME CacheAssumption ==
    /\ CacheSize \in Nat \ {0}
    /\ MaxHeld \in Nat

VARIABLES
    disk,       \* the block device
    queue,      \* BlockCacheManager.queue, front first
    held,       \* the blocks locked by the running operation, outermost first
    synced,     \* history: the blocks when block_cache_sync_all last returned
    panicked    \* "Run out of BlockCache!"

cacheVars == <<disk, queue, held, synced, panicked>>

(* A BlockCache: block_id, cache, modified. *)
Entry == [id : Blocks, data : Values, modified : BOOLEAN]

Held   == {held[i] : i \in 1 .. Len(held)}
Places == 1 .. Len(queue)

(* The block as a caller that asked for it would see it. *)
View == [b \in Blocks |-> IF \E i \in Places : queue[i].id = b
                          THEN queue[CHOOSE i \in Places : queue[i].id = b].data
                          ELSE disk[b]]

CacheInit ==
    /\ disk \in [Blocks -> Values]
    /\ queue = <<>>
    /\ held = <<>>
    /\ synced = disk
    /\ panicked = FALSE

(* Variant: the entry is dropped without being written back. *)
SyncSkipped(d, e) == d

(* BlockCache::sync of entry e, on the disk d. *)
Sync(d, e) == IF e.modified THEN [d EXCEPT ![e.id] = e.data] ELSE d

(* BlockCache::new: the block is loaded from the device. *)
Load(d, b) == [id |-> b, data |-> d[b], modified |-> FALSE]

(* Variant: the reference count is not looked at. *)
EvictableAll == Places

(* Variant: only blocks that need no write-back are replaced. *)
EvictableClean == {i \in Places : queue[i].id \notin Held /\ ~queue[i].modified}

(* The entries whose only Arc is the queue's. *)
Evictable == {i \in Places : queue[i].id \notin Held}

(* The first of them from the front. *)
IsVictim(i) == i \in Evictable /\ \A j \in Evictable : i =< j

Without(q, i) == [j \in 1 .. Len(q) - 1 |-> IF j < i THEN q[j] ELSE q[j + 1]]

(* get_block_cache on a block that is cached. *)
Hit(b) ==
    /\ \E i \in Places : queue[i].id = b
    /\ UNCHANGED <<disk, queue, panicked>>

(* get_block_cache on another block while the cache has room.              *)
Fill(b) ==
    /\ \A i \in Places : queue[i].id # b
    /\ Len(queue) < CacheSize
    /\ queue' = Append(queue, Load(disk, b))
    /\ UNCHANGED <<disk, panicked>>

(* get_block_cache on another block when the cache is full: the victim     *)
(* leaves the queue, its Drop writes it back, the block is loaded.         *)
Substitute(b) ==
    /\ \A i \in Places : queue[i].id # b
    /\ Len(queue) = CacheSize
    /\ \E i \in Places :
         /\ IsVictim(i)
         /\ disk' = Sync(disk, queue[i])
         /\ queue' = Append(Without(queue, i), Load(Sync(disk, queue[i]), b))
    /\ UNCHANGED panicked

(* get_block_cache(b).lock().  The spin lock of a block that is already    *)
(* held would never be taken: the blocks an operation nests are different  *)
(* ones (a disk inode's block, an indirect block, a data or bitmap block). *)
Get(b) ==
    /\ ~panicked
    /\ Len(held) < MaxHeld
    /\ b \notin Held
    /\ Hit(b) \/ Fill(b) \/ Substitute(b)
    /\ held' = Append(held, b)
    /\ UNCHANGED synced

(* get_block_cache with every entry in use. *)
RunOut(b) ==
    /\ ~panicked
    /\ Len(held) < MaxHeld
    /\ \A i \in Places : queue[i].id # b
    /\ Len(queue) = CacheSize
    /\ Evictable = {}
    /\ panicked' = TRUE
    /\ UNCHANGED <<disk, queue, held, synced>>

(* modify on a locked block: the closure of an outer block goes on         *)
(* assigning after an inner access, so any held block may be the one.      *)
Modify(b, v) ==
    /\ ~panicked
    /\ b \in Held
    /\ queue' = [i \in Places |-> IF queue[i].id = b
                                  THEN [queue[i] EXCEPT !.data = v, !.modified = TRUE]
                                  ELSE queue[i]]
    /\ UNCHANGED <<disk, held, synced, panicked>>

(* The guard and the Arc of the innermost access are dropped. *)
Release ==
    /\ ~panicked
    /\ held # <<>>
    /\ held' = SubSeq(held, 1, Len(held) - 1)
    /\ UNCHANGED <<disk, queue, synced, panicked>>

(* block_cache_sync_all, called by an operation before it returns: every   *)
(* entry is written back and stays cached.  It locks the entries, so it    *)
(* must not run inside a closure; no caller does.                          *)
SyncAll ==
    /\ ~panicked
    /\ held = <<>>
    /\ disk' = [b \in Blocks |-> IF \E i \in Places : queue[i].id = b /\ queue[i].modified
                                 THEN View[b] ELSE disk[b]]
    /\ queue' = [i \in Places |-> [queue[i] EXCEPT !.modified = FALSE]]
    /\ synced' = disk'
    /\ UNCHANGED <<held, panicked>>

CacheNext ==
    \/ \E b \in Blocks : Get(b) \/ RunOut(b)
    \/ \E b \in Blocks, v \in Values : Modify(b, v)
    \/ Release
    \/ SyncAll

CacheSpec == CacheInit /\ [][CacheNext]_cacheVars

-------------------------------------------------------------------------------
CacheTypeOK ==
    /\ disk \in [Blocks -> Values]
    /\ queue \in Seq(Entry)
    /\ Len(queue) =< CacheSize
    /\ held \in Seq(Blocks)
    /\ Len(held) =< MaxHeld
    /\ synced \in [Blocks -> Values]
    /\ panicked \in BOOLEAN

(* A block is cached at most once, so two callers never see two copies.    *)
OneCopy == \A i, j \in Places : queue[i].id = queue[j].id => i = j

(* No block leaves the cache while an operation has it locked, and none is *)
(* locked twice.                                                           *)
HeldStays ==
    /\ \A k \in 1 .. Len(held) : \E i \in Places : queue[i].id = held[k]
    /\ \A k, l \in 1 .. Len(held) : held[k] = held[l] => k = l

(* An entry that is not marked equals the block on the device, so dropping *)
(* it without a write loses nothing.                                       *)
CleanIsOnDisk == \A i \in Places : ~queue[i].modified => queue[i].data = disk[queue[i].id]

(* The inductive invariant.                                                *)
CacheInv ==
    /\ CacheTypeOK
    /\ OneCopy
    /\ HeldStays
    /\ CleanIsOnDisk

(* get_block_cache runs out of blocks only when every entry belongs to an  *)
(* access of the running operation: dirty or not, an unused entry can be   *)
(* replaced.                                                               *)
RunsOutOnlyWhenAllHeld == panicked => Len(held) = CacheSize

Store == INSTANCE BlockStore WITH store <- View, durable <- synced, using <- held

(* Through hits, evictions and write-backs the callers see a plain store,  *)
(* and block_cache_sync_all makes all of it durable.                       *)
ImplementsStore == Store!StoreSpec
===============================================================================
