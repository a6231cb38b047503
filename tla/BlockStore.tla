------------------------------ MODULE BlockStore ------------------------------
(***************************************************************************)
(* What the block cache promises its callers: a plain store of blocks.     *)
(* Asking for a block or letting it go changes no block, a write changes   *)
(* one block that is held, and after block_cache_sync_all the device holds *)
(* the whole store.                                                        *)
(***************************************************************************)
EXTENDS Naturals, Sequences

CONSTANTS Blocks, Values

VARIABLES store,      \* the blocks as the callers see them
          durable,    \* the blocks as block_cache_sync_all left them
          using       \* the blocks the running operation holds

storeVars == <<store, durable, using>>

StoreInit ==
    /\ store \in [Blocks -> Values]
    /\ durable = store
    /\ using = <<>>

(* get_block_cache(b).lock() *)
Ask(b) ==
    /\ using' = Append(using, b)
    /\ UNCHANGED <<store, durable>>

(* One assignment in the closure given to modify. *)
Write(b, v) ==
    /\ \E k \in 1 .. Len(using) : using[k] = b
    /\ store' = [store EXCEPT ![b] = v]
    /\ UNCHANGED <<durable, using>>

(* The innermost access ends. *)
LetGo ==
    /\ using # <<>>
    /\ using' = SubSeq(using, 1, Len(using) - 1)
    /\ UNCHANGED <<store, durable>>

(* block_cache_sync_all: everything written so far is durable. *)
Flush ==
    /\ using = <<>>
    /\ durable' = store
    /\ UNCHANGED <<store, using>>

StoreNext ==
    \/ \E b \in Blocks : Ask(b)
    \/ \E b \in Blocks, v \in Values : Write(b, v)
    \/ LetGo
    \/ Flush

StoreSpec == StoreInit /\ [][StoreNext]_storeVars
===============================================================================
