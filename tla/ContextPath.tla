----------------------------- MODULE ContextPath ------------------------------
(***************************************************************************)
(* The Context Path of one agent (os/src/agent/context_path.rs): a list of *)
(* nodes whose bytes lie one after the other in the Path Buffer of the     *)
(* user-mapped Context area, and whose meta-data the kernel keeps in       *)
(* AgentExt.  Pushing a node evicts old ones by moving the bytes behind    *)
(* them to the left.                                                       *)
(*                                                                         *)
(* A byte is abstracted to the node it belongs to and its position in it.  *)
(* push_node is several steps, one per round of its eviction loop, so that *)
(* the state at the head of the loop is visible; no other call on this     *)
(* agent's path can come in between (the caller is the agent itself).      *)
(***************************************************************************)
EXTENDS Integers, Sequences

CONSTANTS
    PathBufferLen, \* layout::PATH_BUFFER_LEN (32768 in the code)
    MaxBytes,      \* path_quota.max_bytes (16384 in sys_agent_create)
    MaxNodes,      \* path_quota.max_nodes (128 in sys_agent_create)
    HeaderSize,    \* NODE_HEADER_SIZE (24 in the code)
    Chunk,         \* CHUNK in shift_path_buffer_left (256 in the code)
    Policy,        \* path_quota.policy ("Lru" in AgentExt::new)
    Payloads,      \* bound: the lengths req_len + resp_len tried
    MaxSeq         \* bound: the number of pushes

(* push_node compares a node with PATH_BUFFER_LEN but the whole path only  *)
(* with max_bytes: the path stays in its buffer because of this relation.  *)
ASSUME QuotaAssumption ==
    /\ PathBufferLen \in Nat
    /\ MaxBytes \in Nat /\ MaxBytes =< PathBufferLen
    /\ MaxNodes \in Nat \ {0}
    /\ HeaderSize \in Nat \ {0}
    /\ Chunk \in Nat \ {0}

ASSUME PushAssumption ==
    /\ Policy \in {"Fifo", "Lru"}
    /\ Payloads \subseteq Nat
    /\ MaxSeq \in Nat

VARIABLES
    meta,     \* path_meta
    used,     \* path_used_bytes
    nextSeq,  \* next_seq
    buffer,   \* the Path Buffer
    header,   \* path_used_bytes and path_node_count of the area's header
    clock,    \* get_time() at the last push
    push,     \* size of the node push_node is making room for, or NoPush
    before    \* history: the nodes the running push_node found

pathVars == <<meta, used, nextSeq, buffer, header, clock, push, before>>

NoPush == 0

NodeMeta == [offset : Nat, len : Nat, time : Nat, seq : Nat]

(* A byte: the k-th of node seq is <<seq, k>>. *)
Bytes == Nat \X Nat
Blank == <<0, 0>>

(* The bytes of a node, as write_node_at puts them down. *)
Node(seq, size) == [k \in 1 .. size |-> <<seq, k>>]

(* What a reader finds at a node's offset and length. *)
ReadNode(m) == [k \in 1 .. m.len |-> buffer[m.offset + k - 1]]

Nodes == [i \in 1 .. Len(meta) |-> ReadNode(meta[i])]

PathInit ==
    /\ meta = <<>>
    /\ used = 0
    /\ nextSeq = 0
    /\ buffer = [i \in 0 .. PathBufferLen - 1 |-> Blank]
    /\ header = [used |-> 0, count |-> 0]
    /\ clock = 0
    /\ push = NoPush
    /\ before = <<>>

(* sync_header *)
SyncHeader == header' = [used |-> used', count |-> Len(meta')]

-------------------------------------------------------------------------------
(* Variant: the last byte is not moved. *)
ShiftLeftShort(b, from, len, shift) ==
    [i \in DOMAIN b |-> IF i \in from - shift .. from - shift + len - 2
                        THEN b[i + shift] ELSE b[i]]

(* shift_path_buffer_left: the bytes from .. from + len - 1 move shift     *)
(* places to the left.                                                     *)
ShiftLeft(b, from, len, shift) ==
    [i \in DOMAIN b |-> IF i \in from - shift .. from - shift + len - 1
                        THEN b[i + shift] ELSE b[i]]

(* Variant: the chunks are copied from the last to the first. *)
ShiftChunksBackwards(b, from, len, shift) ==
    LET chunks == (len + Chunk - 1) \div Chunk
        copy[c \in 0 .. chunks] ==
            IF c = 0 THEN b
            ELSE LET src == from + (chunks - c) * Chunk
                     n   == IF len - (chunks - c) * Chunk < Chunk
                            THEN len - (chunks - c) * Chunk ELSE Chunk
                 IN  [i \in DOMAIN b |-> IF i \in src - shift .. src - shift + n - 1
                                         THEN copy[c - 1][i + shift]
                                         ELSE copy[c - 1][i]]
    IN  copy[chunks]

(* The loop of shift_path_buffer_left: a chunk is read and written back    *)
(* shift places to the left, from the first to the last.                   *)
ShiftChunks(b, from, len, shift) ==
    LET chunks == (len + Chunk - 1) \div Chunk
        copy[c \in 0 .. chunks] ==
            IF c = 0 THEN b
            ELSE LET src == from + (c - 1) * Chunk
                     n   == IF len - (c - 1) * Chunk < Chunk
                            THEN len - (c - 1) * Chunk ELSE Chunk
                 IN  [i \in DOMAIN b |-> IF i \in src - shift .. src - shift + n - 1
                                         THEN copy[c - 1][i + shift]
                                         ELSE copy[c - 1][i]]
    IN  copy[chunks]

(* Variant: the last of the oldest write_time. *)
IsVictimLast(i) ==
    \A j \in 1 .. Len(meta) : /\ meta[i].time =< meta[j].time
                              /\ meta[j].time = meta[i].time => j =< i

(* pick_victim: the first node, or the first of the oldest write_time.     *)
IsVictim(i) ==
    \/ Policy = "Fifo" /\ i = 1
    \/ /\ Policy = "Lru"
       /\ \A j \in 1 .. Len(meta) : /\ meta[i].time =< meta[j].time
                                    /\ meta[j].time = meta[i].time => i =< j

(* Variants: an off-by-one in the node quota, and in the byte quota. *)
MustEvictLate  == used + push > MaxBytes \/ Len(meta) > MaxNodes
MustEvictEarly == used + push >= MaxBytes \/ Len(meta) >= MaxNodes

(* The condition of the eviction loop. *)
MustEvict == used + push > MaxBytes \/ Len(meta) >= MaxNodes

(* Variant: a node is only compared with the buffer, not with the quota. *)
PushBeginUnchecked(n) ==
    /\ push = NoPush
    /\ nextSeq < MaxSeq
    /\ HeaderSize + n =< PathBufferLen
    /\ push' = HeaderSize + n
    /\ before' = Nodes
    /\ UNCHANGED <<meta, used, nextSeq, buffer, header, clock>>

(* push_node up to its loop.  A node larger than the buffer or the quota   *)
(* is refused and nothing changes.                                         *)
PushBegin(n) ==
    /\ push = NoPush
    /\ nextSeq < MaxSeq
    /\ HeaderSize + n =< PathBufferLen /\ HeaderSize + n =< MaxBytes
    /\ push' = HeaderSize + n
    /\ before' = Nodes
    /\ UNCHANGED <<meta, used, nextSeq, buffer, header, clock>>

(* The meta-data of m after its bytes moved. *)
Moved(m, from, shift) ==
    IF m.offset >= from THEN [m EXCEPT !.offset = @ - shift] ELSE m

(* Variant: the offsets of the nodes behind the victim are not adjusted. *)
EvictStaleOffsets ==
    /\ push # NoPush /\ MustEvict
    /\ \E i \in 1 .. Len(meta) :
        /\ IsVictim(i)
        /\ LET from == meta[i].offset + meta[i].len
               tail == IF used >= from THEN used - from ELSE 0
           IN  buffer' = ShiftLeft(buffer, from, tail, meta[i].len)
        /\ meta' = [j \in 1 .. Len(meta) - 1 |-> meta[IF j < i THEN j ELSE j + 1]]
        /\ used' = IF used >= meta[i].len THEN used - meta[i].len ELSE 0
    /\ UNCHANGED <<nextSeq, header, clock, push, before>>

(* One round of the loop: evict_one.  (That the path is never empty here,  *)
(* the InternalError return, is EvictionSucceeds.)                         *)
EvictOne ==
    /\ push # NoPush /\ MustEvict
    /\ \E i \in 1 .. Len(meta) :
        /\ IsVictim(i)
        /\ LET from  == meta[i].offset + meta[i].len
               shift == meta[i].len
               tail  == IF used >= from THEN used - from ELSE 0
           IN
            /\ buffer' = ShiftLeft(buffer, from, tail, shift)
            /\ meta' = [j \in 1 .. Len(meta) - 1 |->
                          Moved(meta[IF j < i THEN j ELSE j + 1], from, shift)]
            /\ used' = IF used >= shift THEN used - shift ELSE 0
    /\ UNCHANGED <<nextSeq, header, clock, push, before>>

(* The rest of push_node: the node is written behind the others.  The      *)
(* clock may or may not have advanced since the last push.                 *)
PushEnd(tick) ==
    /\ push # NoPush /\ ~MustEvict
    /\ clock' = clock + tick
    /\ buffer' = [i \in DOMAIN buffer |->
                    IF i \in used .. used + push - 1
                    THEN <<nextSeq, i - used + 1>> ELSE buffer[i]]
    /\ meta' = Append(meta, [offset |-> used, len |-> push,
                             time |-> clock + tick, seq |-> nextSeq])
    /\ used' = used + push
    /\ nextSeq' = nextSeq + 1
    /\ push' = NoPush
    /\ before' = <<>>
    /\ SyncHeader

(* Variant: the header is not brought up to date. *)
RollbackNoSync(n) ==
    /\ push = NoPush
    /\ n =< Len(meta)
    /\ meta' = SubSeq(meta, 1, n)
    /\ used' = IF n = 0 THEN 0 ELSE meta[n].offset + meta[n].len
    /\ UNCHANGED <<nextSeq, buffer, clock, push, before, header>>

(* rollback: only the first n nodes are kept (NotFound if there are fewer).*)
Rollback(n) ==
    /\ push = NoPush
    /\ n =< Len(meta)
    /\ meta' = SubSeq(meta, 1, n)
    /\ used' = IF n = 0 THEN 0 ELSE meta[n].offset + meta[n].len
    /\ SyncHeader
    /\ UNCHANGED <<nextSeq, buffer, clock, push, before>>

(* clear *)
Clear ==
    /\ push = NoPush
    /\ meta' = <<>>
    /\ used' = 0
    /\ SyncHeader
    /\ UNCHANGED <<nextSeq, buffer, clock, push, before>>

PathNext ==
    \/ \E n \in Payloads : PushBegin(n)
    \/ EvictOne
    \/ \E tick \in 0 .. 1 : PushEnd(tick)
    \/ \E n \in 0 .. MaxNodes : Rollback(n)
    \/ Clear

PathSpec == PathInit /\ [][PathNext]_pathVars

-------------------------------------------------------------------------------
(* Type invariant. *)
PathTypeOK ==
    /\ meta \in Seq(NodeMeta)
    /\ used \in Nat
    /\ nextSeq \in Nat
    /\ buffer \in [0 .. PathBufferLen - 1 -> Bytes]
    /\ header \in [used : Nat, count : Nat]
    /\ clock \in Nat
    /\ push \in Nat

(* The nodes lie one behind the other from the start of the buffer to      *)
(* path_used_bytes, without overlap.                                       *)
Layout ==
    /\ meta = <<>> => used = 0
    /\ \A i \in 1 .. Len(meta) :
        /\ meta[i].len >= 1
        /\ i = 1 => meta[i].offset = 0
        /\ i < Len(meta) => meta[i + 1].offset = meta[i].offset + meta[i].len
        /\ i = Len(meta) => used = meta[i].offset + meta[i].len
        /\ meta[i].offset + meta[i].len =< used
        /\ \A j \in 1 .. i - 1 : meta[j].offset + meta[j].len =< meta[i].offset

(* Sequence numbers and write times grow along the path; next_seq was      *)
(* given to no node, rolled back ones included.                            *)
PathOrdered ==
    \A i \in 1 .. Len(meta) :
        /\ meta[i].seq < nextSeq /\ meta[i].time =< clock
        /\ \A j \in 1 .. i - 1 : /\ meta[j].seq < meta[i].seq
                                 /\ meta[j].time =< meta[i].time

(* The quotas hold, so the path never runs over the end of the Path Buffer *)
(* into the Tool Call History behind it.                                   *)
WithinQuota ==
    /\ used =< MaxBytes /\ Len(meta) =< MaxNodes
    /\ push # NoPush => push =< MaxBytes

(* Every node the meta-data lists can be read back from the buffer, byte   *)
(* for byte, however many nodes were evicted or rolled back around it.     *)
NodesIntact ==
    \A i \in 1 .. Len(meta) : \A k \in 1 .. meta[i].len :
        buffer[meta[i].offset + k - 1] = <<meta[i].seq, k>>

(* Between two calls the header the user reads agrees with the kernel.     *)
HeaderAgrees == push = NoPush => header = [used |-> used, count |-> Len(meta)]

(* The loop of push_node always finds a node to evict: its InternalError   *)
(* return ("should not happen") does not happen.                           *)
EvictionSucceeds == push # NoPush /\ MustEvict => meta # <<>>

PathInv ==
    /\ PathTypeOK
    /\ Layout
    /\ PathOrdered
    /\ WithinQuota
    /\ NodesIntact
    /\ HeaderAgrees

(* Both policies evict the oldest node: nodes are only written once, so    *)
(* the least recently written one is the first.                            *)
VictimIsOldest == meta # <<>> => {i \in 1 .. Len(meta) : IsVictim(i)} = {1}

(* The chunked copy moves the bytes as if they were read all at once, for  *)
(* every place, length and distance, also when source and target overlap,  *)
(* on every buffer an eviction finds.                                      *)
ChunksMoveAll ==
    push # NoPush => \A from \in 1 .. PathBufferLen - 1 :
        \A shift \in 1 .. from, len \in 0 .. PathBufferLen - from :
            ShiftChunks(buffer, from, len, shift) = ShiftLeft(buffer, from, len, shift)

-------------------------------------------------------------------------------
(* The path as its reader sees it between two calls: while push_node runs, *)
(* the nodes it found.                                                     *)
Log == INSTANCE ContextLog WITH
    LogBytes <- MaxBytes, LogNodes <- MaxNodes,
    log <- IF push = NoPush THEN Nodes ELSE before,
    written <- nextSeq

(* The calls implement the log: a push drops the fewest oldest nodes that  *)
(* make room, every other node keeps its bytes, rollback keeps a prefix.   *)
ImplementsLog == Log!LogSpec
===============================================================================
