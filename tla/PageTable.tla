------------------------------ MODULE PageTable -------------------------------
(***************************************************************************)
(* Address spaces down to their page tables (os/src/mm): the three-level   *)
(* walk that creates tables as it goes, areas mapped page by page,         *)
(* programs loaded (from_elf), address spaces copied (from_existed_user),  *)
(* the Context area and kernel stacks added and removed, and the kernel's  *)
(* writes to user memory through translated_byte_buffer.                   *)
(*                                                                         *)
(* The loops that map areas are several steps, one per page, so that the   *)
(* tables are visible in between; no other operation comes in between.  A  *)
(* frame is an array of entries (`pte`) and an array of bytes (`byte`);    *)
(* the code has one array for both, which is the same as long as no frame  *)
(* is a table and a page at once (TablesInv).  Which task uses which       *)
(* memory set is AgentMemory's matter.  The identity-mapped sections of    *)
(* the kernel's own memory set are left out: they are mapped at boot, have *)
(* no frames of the allocator and are never removed.                       *)
(***************************************************************************)
EXTENDS FrameAllocator, FiniteSets, SequencesExt

CONSTANTS
    Fan,            \* entries of a table (512 in the code)
    PageSize,       \* PAGE_SIZE (4096 in the code)
    UserSets,       \* the memory sets of tasks
    Kernel,         \* KERNEL_SPACE
    Pids,           \* pids, numbered as in kernel_stack_position
    Programs,       \* ELF files: a list of segments [va, mem, file]
    StackPages,     \* pages of a user stack and of a kernel stack (2)
    ContextVa,      \* CONTEXT_AREA_BASE
    ContextPages,   \* pages of a Context area (16)
    Buffers,        \* the user buffers <<ptr, len>> tried
    Refs,           \* the addresses of user integers tried
    RefSize,        \* their size
    MaxOps          \* bound: the number of operations

Sets == UserSets \cup {Kernel}

ASSUME PageAssumption ==
    /\ {Fan, PageSize, StackPages, ContextPages, RefSize} \subseteq Nat \ {0}
    /\ Fan % 2 = 0
    /\ FrameEnd >= 3
    /\ UserSets \subseteq Int /\ IsFiniteSet(UserSets) /\ Kernel \notin UserSets
    /\ Pids \subseteq Nat /\ ContextVa \in Nat
    /\ Programs \subseteq Seq([va : Nat, mem : Nat, file : Nat]) \ {<<>>}
    /\ PageSize % RefSize = 0 /\ Refs \subseteq Nat /\ \A va \in Refs : va % RefSize = 0
    /\ MaxOps \in Nat

VARIABLES
    pte,       \* the entries of every frame
    byte,      \* the bytes of every frame
    root,      \* root_ppn of a memory set
    tables,    \* page_table.frames of a memory set
    areas,     \* areas of a memory set
    status,    \* "none", "building", "live" or, areas cleared, "exited"
    agents,    \* the sets whose task called sys_agent_create
    op,        \* the loop that is running, or Idle
    ops,       \* the number of operations so far
    panicked   \* why the kernel panicked, or "no"

ptVars == <<fresh, recycled, pte, byte, root, tables, areas, status, agents,
            op, ops, panicked>>

-------------------------------------------------------------------------------
(* Addresses (os/src/mm/address.rs).  A machine word has one bit more than *)
(* a virtual address.                                                      *)
VpnEnd  == Fan * Fan * Fan
VaEnd   == VpnEnd * PageSize
WordEnd == 2 * VaEnd

(* From<usize> for VirtAddr, and back with its sign extended. *)
VirtAddr(word) == word % VaEnd
ToUsize(va) == IF va >= VaEnd \div 2 THEN va + (WordEnd - VaEnd) ELSE va

Floor(va) == va \div PageSize
Ceil(va) == IF va = 0 THEN 0 ELSE (va - 1 + PageSize) \div PageSize
PageOffset(va) == va % PageSize

(* VirtPageNum::indexes *)
Indexes(vpn) == <<(vpn \div (Fan * Fan)) % Fan, (vpn \div Fan) % Fan, vpn % Fan>>

TRAMPOLINE    == WordEnd - PageSize
TRAP_CONTEXT  == TRAMPOLINE - PageSize
TrampolineVpn == Floor(VirtAddr(TRAMPOLINE))
TrampolinePpn == FrameEnd    \* kernel code, not a frame of the allocator

(* What programs and their pointers are like.  The segments of an ELF file *)
(* begin with a page, as the linker script of the user programs has it,    *)
(* have no more bytes in the file than in memory and end within the        *)
(* address space.  The buffers and integers of user programs lie in the    *)
(* lower half of it.                                                       *)
InLowerHalf(ptr, len) == ptr \in Nat /\ len \in Nat /\ ptr + len < VaEnd \div 2
ASSUME UserAssumption ==
    /\ \A prog \in Programs : \A i \in 1 .. Len(prog) :
         /\ prog[i].va % PageSize = 0 /\ prog[i].file =< prog[i].mem
         /\ prog[i].va + prog[i].mem < VaEnd
    /\ \A b \in Buffers : InLowerHalf(b[1], b[2])
    /\ \A va \in Refs : InLowerHalf(va, RefSize)

-------------------------------------------------------------------------------
(* Page tables (os/src/mm/page_table.rs). *)
Empty == [ppn |-> 0, flags |-> {}]
Entry(ppn, flags) == [ppn |-> ppn, flags |-> flags \cup {"V"}]
IsValid(entry) == "V" \in entry.flags

(* FrameTracker::new clears the frames taken. *)
Cleared(memory, taken, blank) ==
    [f \in Frames |-> IF f \in ToSet(taken) THEN blank ELSE memory[f]]
ClearTable == [i \in 0 .. Fan - 1 |-> Empty]
ClearPage  == [i \in 0 .. PageSize - 1 |-> 0]

(* The tables find_pte_create has to add on its way to vpn. *)
Missing(r, vpn) ==
    LET i == Indexes(vpn) IN
    IF ~IsValid(pte[r][i[1]]) THEN 2
    ELSE IF ~IsValid(pte[pte[r][i[1]].ppn][i[2]]) THEN 1 ELSE 0

(* find_pte: is there an entry for vpn (valid or not), and which one.      *)
HasPte(r, vpn) == Missing(r, vpn) = 0
FindPte(r, vpn) ==
    LET i == Indexes(vpn)
        t == pte[r][i[1]].ppn
    IN  pte[pte[t][i[2]].ppn][i[3]]

IsMapped(r, vpn) == HasPte(r, vpn) /\ IsValid(FindPte(r, vpn))

(* find_pte_create and the store of map: the tables after vpn was mapped,  *)
(* where `new` are the frames taken for missing tables.                    *)
MapEntry(m, r, vpn, entry, new) ==
    LET i  == Indexes(vpn)
        n  == Len(new)
        t1 == IF n = 2 THEN new[1] ELSE m[r][i[1]].ppn
        t2 == IF n >= 1 THEN new[n] ELSE m[t1][i[2]].ppn
        m1 == [m EXCEPT ![r][i[1]] = Entry(t1, {})]
        m2 == [m1 EXCEPT ![t1][i[2]] = Entry(t2, {})]
    IN  [m2 EXCEPT ![t2][i[3]] = entry]

-------------------------------------------------------------------------------
(* Areas (os/src/mm/memory_set.rs).  An area still to be mapped has in     *)
(* `file` the number of bytes of its data.                                 *)

(* MapArea::new: the pages that hold start_va up to end_va. *)
NewArea(start_va, end_va, perm, file) ==
    [start |-> Floor(VirtAddr(start_va)), end |-> Ceil(VirtAddr(end_va)),
     perm |-> perm, file |-> file]

(* A mapped area and its trackers, by page. *)
MapArea(a, frames) == [start |-> a.start, end |-> a.end, perm |-> a.perm, frames |-> frames]

(* MapArea::from_another *)
FromAnother(area) == [start |-> area.start, end |-> area.end, perm |-> area.perm, file |-> 0]

PagesOf(area) == area.start .. area.end - 1

(* The frames of an area, in the order of its pages. *)
FramesOf(area) == [i \in 1 .. area.end - area.start |-> area.frames[area.start + i - 1]]

(* The frames a list of areas returns when it is dropped. *)
DataFrames(list) == FlattenSeq([i \in 1 .. Len(list) |-> FramesOf(list[i])])

Idle == [set |-> Kernel, from |-> Kernel, todo |-> <<>>, next |-> 0, frames |-> <<>>]

Running(s, from, todo) ==
    [set |-> s, from |-> from, todo |-> todo, next |-> todo[1].start, frames |-> <<>>]

Ready == op = Idle /\ panicked = "no"
Begins == Ready /\ ops < MaxOps /\ ops' = ops + 1

PageInit ==
    /\ fresh = 3 /\ recycled = <<>>
    /\ LET blank == [f \in Frames |-> ClearTable] IN
       pte = MapEntry(blank, 0, TrampolineVpn, Entry(TrampolinePpn, {"R", "X"}), <<1, 2>>)
    /\ byte = [f \in Frames |-> ClearPage]
    /\ root = [s \in Sets |-> 0]
    /\ tables = [s \in Sets |-> IF s = Kernel THEN <<0, 1, 2>> ELSE <<>>]
    /\ areas = [s \in Sets |-> <<>>]
    /\ status = [s \in Sets |-> IF s = Kernel THEN "live" ELSE "none"]
    /\ agents = {}
    /\ op = Idle
    /\ ops = 0
    /\ panicked = "no"

(* frame_alloc().unwrap() on None, the assertion of map. *)
Panic(why) ==
    /\ panicked' = why
    /\ UNCHANGED <<fresh, recycled, pte, byte, root, tables, areas, status, agents, op>>

(* new_bare and map_trampoline, then the areas of `todo` are pushed.  (The *)
(* names of memory sets do not matter: the first unused one is taken.)     *)
NewSet(s, from, todo) ==
    LET a == Alloc(3) IN
    /\ Begins /\ s \in UserSets /\ status[s] = "none"
    /\ \A t \in UserSets : t < s => status[t] # "none"
    /\ \/ ~Fits(3) /\ Panic("oom")
       \/ /\ Fits(3)
          /\ AllocAndFree(3, <<>>)
          /\ pte' = MapEntry(Cleared(pte, a, ClearTable), a[1], TrampolineVpn,
                             Entry(TrampolinePpn, {"R", "X"}), <<a[2], a[3]>>)
          /\ byte' = Cleared(byte, a, ClearPage)
          /\ root' = [root EXCEPT ![s] = a[1]]
          /\ tables' = [tables EXCEPT ![s] = a]
          /\ status' = [status EXCEPT ![s] = "building"]
          /\ op' = Running(s, from, todo)
          /\ UNCHANGED <<areas, agents, panicked>>

(* The areas of a program: its segments, then behind a guard page the user *)
(* stack, and the trap context.                                            *)
ProgramAreas(prog) ==
    LET segments == [i \in 1 .. Len(prog) |->
                       NewArea(prog[i].va, prog[i].va + prog[i].mem, {"R", "U"}, prog[i].file)]
        bottom   == segments[Len(prog)].end * PageSize + PageSize
    IN  segments \o <<NewArea(bottom, bottom + StackPages * PageSize, {"R", "W", "U"}, 0),
                      NewArea(TRAP_CONTEXT, TRAMPOLINE, {"R", "W"}, 0)>>

(* MemorySet::from_elf (TaskControlBlock::new, exec). *)
FromElf(s, prog) == NewSet(s, Kernel, ProgramAreas(prog))

(* MemorySet::from_existed_user (fork). *)
FromExistedUser(s, t) ==
    /\ s \in UserSets /\ status[s] = "live"
    /\ NewSet(t, s, [i \in 1 .. Len(areas[s]) |-> FromAnother(areas[s][i])])

(* insert_framed_area *)
InsertFramedArea(s, start_va, end_va, perm) ==
    /\ Begins
    /\ op' = Running(s, Kernel, <<NewArea(start_va, end_va, perm, 0)>>)
    /\ UNCHANGED <<fresh, recycled, pte, byte, root, tables, areas, status, panicked>>

(* AgentContextArea::allocate; sys_agent_create refuses an agent. *)
AllocateContext(s) ==
    /\ status[s] = "live" /\ s \in UserSets \ agents
    /\ InsertFramedArea(s, ContextVa, ContextVa + ContextPages * PageSize, {"R", "W", "U"})
    /\ agents' = agents \cup {s}

(* kernel_stack_position *)
StackTop(pid) == TRAMPOLINE - pid * (StackPages * PageSize + PageSize)
StackBottom(pid) == StackTop(pid) - StackPages * PageSize
HasStack(pid) == \E i \in 1 .. Len(areas[Kernel]) :
                    areas[Kernel][i].start = Floor(VirtAddr(StackBottom(pid)))

(* KernelStack::new; a pid in use is not handed out again. *)
KernelStackNew(pid) ==
    /\ ~HasStack(pid)
    /\ InsertFramedArea(Kernel, StackBottom(pid), StackTop(pid), {"R", "W"})
    /\ UNCHANGED agents

(* One round of MapArea::map: map_one takes a frame, then map the tables   *)
(* that are missing.                                                       *)
MapOne ==
    /\ panicked = "no" /\ op # Idle /\ op.next < Head(op.todo).end
    /\ LET r == root[op.set]
           n == 1 + Missing(r, op.next)
           a == Alloc(n)
           new == SubSeq(a, 2, n)
       IN
        \/ ~Fits(n) /\ Panic("oom") /\ UNCHANGED ops
        \/ Fits(n) /\ IsMapped(r, op.next) /\ Panic("mapped before mapping") /\ UNCHANGED ops
        \/ /\ Fits(n) /\ ~IsMapped(r, op.next)
           /\ AllocAndFree(n, <<>>)
           /\ pte' = MapEntry(Cleared(pte, a, ClearTable), r, op.next,
                              Entry(a[1], Head(op.todo).perm), new)
           /\ byte' = Cleared(byte, a, ClearPage)
           /\ tables' = [tables EXCEPT ![op.set] = @ \o new]
           /\ op' = [op EXCEPT !.next = @ + 1,
                               !.frames = [v \in Head(op.todo).start .. op.next |->
                                             IF v = op.next THEN a[1] ELSE op.frames[v]]]
           /\ UNCHANGED <<root, areas, status, agents, ops, panicked>>

(* from_existed_user copies the pages of an area one by one. *)
Copied(area) ==
    [f \in Frames |->
        IF \E v \in PagesOf(area) : FindPte(root[op.set], v).ppn = f
        THEN byte[FindPte(root[op.from], CHOOSE v \in PagesOf(area) :
                                            FindPte(root[op.set], v).ppn = f).ppn]
        ELSE byte[f]]

(* copy_data: the k-th byte of the file (k itself) is put down from the    *)
(* start of the first page on, a page at a time.                           *)
Loaded(area, len) ==
    [f \in Frames |->
        IF \E v \in PagesOf(area) : FindPte(root[op.set], v).ppn = f
        THEN LET v     == CHOOSE v \in PagesOf(area) : FindPte(root[op.set], v).ppn = f
                 start == (v - area.start) * PageSize
             IN  [i \in 0 .. PageSize - 1 |-> IF start + i < len THEN start + i + 1
                                              ELSE byte[f][i]]
        ELSE byte[f]]

(* The end of push: data is copied, the area is appended.  Then the next   *)
(* area, or the memory set is complete.                                    *)
PushArea ==
    /\ panicked = "no" /\ op # Idle /\ op.next = Head(op.todo).end
    /\ LET area == MapArea(Head(op.todo), op.frames)
           rest == Tail(op.todo)
       IN
        /\ byte' = IF op.from # Kernel THEN Copied(area) ELSE Loaded(area, Head(op.todo).file)
        /\ areas' = [areas EXCEPT ![op.set] = Append(@, area)]
        /\ op' = IF rest = <<>> THEN Idle ELSE Running(op.set, op.from, rest)
        /\ status' = IF rest = <<>> THEN [status EXCEPT ![op.set] = "live"] ELSE status
    /\ UNCHANGED <<fresh, recycled, pte, root, tables, agents, ops, panicked>>

(* Variant: the frames are returned, the entries stay. *)
KernelStackDropStale(pid) ==
    /\ Begins /\ HasStack(pid)
    /\ LET i == CHOOSE i \in 1 .. Len(areas[Kernel]) :
                    areas[Kernel][i].start = Floor(VirtAddr(StackBottom(pid)))
       IN  /\ AllocAndFree(0, FramesOf(areas[Kernel][i]))
           /\ areas' = [areas EXCEPT ![Kernel] = RemoveAt(@, i)]
    /\ UNCHANGED <<pte, byte, root, tables, status, agents, op, panicked>>

(* KernelStack::drop: remove_area_with_start_vpn unmaps the first area     *)
(* that starts there, page by page.  (The assertion of unmap holds by      *)
(* TablesInv.)                                                             *)
KernelStackDrop(pid) ==
    /\ Begins /\ HasStack(pid)
    /\ LET starts == {i \in 1 .. Len(areas[Kernel]) :
                        areas[Kernel][i].start = Floor(VirtAddr(StackBottom(pid)))}
           area   == areas[Kernel][Min(starts)]
           at(v)  == LET i == Indexes(v)
                         t == pte[root[Kernel]][i[1]].ppn
                     IN  <<pte[t][i[2]].ppn, i[3]>>
       IN
        /\ AllocAndFree(0, FramesOf(area))
        /\ pte' = [f \in Frames |-> [k \in 0 .. Fan - 1 |->
                     IF \E v \in PagesOf(area) : at(v) = <<f, k>> THEN Empty ELSE pte[f][k]]]
        /\ areas' = [areas EXCEPT ![Kernel] = RemoveAt(@, Min(starts))]
    /\ UNCHANGED <<byte, root, tables, status, agents, op, panicked>>

(* recycle_data_pages (exit): the areas are cleared, the tables stay as    *)
(* they are, their stale entries included.                                 *)
RecycleDataPages(s) ==
    /\ Begins /\ s \in UserSets /\ status[s] = "live"
    /\ AllocAndFree(0, DataFrames(areas[s]))
    /\ areas' = [areas EXCEPT ![s] = <<>>]
    /\ status' = [status EXCEPT ![s] = "exited"]
    /\ UNCHANGED <<pte, byte, root, tables, agents, op, panicked>>

(* The memory set is dropped: replaced by exec, or its zombie was reaped.  *)
DropSet(s) ==
    /\ Begins /\ s \in UserSets /\ status[s] \in {"live", "exited"}
    /\ AllocAndFree(0, tables[s] \o DataFrames(areas[s]))
    /\ areas' = [areas EXCEPT ![s] = <<>>]
    /\ tables' = [tables EXCEPT ![s] = <<>>]
    /\ status' = [status EXCEPT ![s] = "none"]
    /\ agents' = agents \ {s}
    /\ UNCHANGED <<pte, byte, root, op, panicked>>

-------------------------------------------------------------------------------
(* Access to user memory (translated_byte_buffer and its callers). *)

(* Variant: a slice that ends with its page ends at offset 0 of it. *)
ByteBufferEmptySlices(r, ptr, len) ==
    LET slices[start \in ptr .. ptr + len] ==
            IF start >= ptr + len THEN <<>>
            ELSE LET vpn    == Floor(VirtAddr(start))
                     end_va == Min({(vpn + 1) * PageSize, VirtAddr(ptr + len)})
                     size   == IF PageOffset(end_va) = 0 THEN 0
                               ELSE PageOffset(end_va) - PageOffset(start)
                 IN  [i \in 1 .. size |-> <<FindPte(r, vpn).ppn, PageOffset(start) + i - 1>>]
                       \o slices[ToUsize(end_va)]
    IN  slices[ptr]

(* translated_byte_buffer: one slice per page the buffer touches; here the *)
(* places of its bytes one after the other, as UserBufferIterator and      *)
(* write_user_bytes go through them.                                       *)
TranslatedByteBuffer(r, ptr, len) ==
    LET slices[start \in ptr .. ptr + len] ==
            IF start >= ptr + len THEN <<>>
            ELSE LET vpn    == Floor(VirtAddr(start))
                     end_va == Min({(vpn + 1) * PageSize, VirtAddr(ptr + len)})
                     stop   == IF PageOffset(end_va) = 0 THEN PageSize ELSE PageOffset(end_va)
                     size   == stop - PageOffset(VirtAddr(start))
                 IN  [i \in 1 .. size |-> <<FindPte(r, vpn).ppn, PageOffset(start) + i - 1>>]
                       \o slices[ToUsize(end_va)]
    IN  slices[ptr]

Accessible(s, ptr, len) ==
    \A va \in ptr .. ptr + len - 1 : IsMapped(root[s], Floor(VirtAddr(va)))

(* write_user_bytes, or a read into a UserBuffer: the k-th byte of the     *)
(* buffer becomes -k.  The caller passes memory of its own.                *)
WriteBuffer(s, ptr, len) ==
    /\ Begins /\ s \in UserSets /\ status[s] = "live" /\ Accessible(s, ptr, len)
    /\ LET places == TranslatedByteBuffer(root[s], ptr, len) IN
       byte' = [f \in Frames |-> [i \in 0 .. PageSize - 1 |->
                  IF \E k \in 1 .. Len(places) : places[k] = <<f, i>>
                  THEN -(CHOOSE k \in 1 .. Len(places) : places[k] = <<f, i>>)
                  ELSE byte[f][i]]]
    /\ UNCHANGED <<fresh, recycled, pte, root, tables, areas, status, agents, op, panicked>>

(* translate_va *)
TranslateVa(r, va) == FindPte(r, Floor(va)).ppn * PageSize + PageOffset(va)

(* A store through translated_refmut (the exit code of sys_waitpid): the   *)
(* bytes behind the translated address, in physical memory.                *)
WriteRef(s, ptr) ==
    /\ Begins /\ s \in UserSets /\ status[s] = "live" /\ Accessible(s, ptr, RefSize)
    /\ LET pa == TranslateVa(root[s], VirtAddr(ptr)) IN
       byte' = [f \in Frames |-> [i \in 0 .. PageSize - 1 |->
                  IF f * PageSize + i \in pa .. pa + RefSize - 1
                  THEN -(f * PageSize + i - pa + 1) ELSE byte[f][i]]]
    /\ UNCHANGED <<fresh, recycled, pte, root, tables, areas, status, agents, op, panicked>>

PageNext ==
    \/ \E s \in UserSets, prog \in Programs : FromElf(s, prog)
    \/ \E s, t \in UserSets : FromExistedUser(s, t)
    \/ \E s \in UserSets : AllocateContext(s)
    \/ \E pid \in Pids : KernelStackNew(pid)
    \/ MapOne
    \/ PushArea
    \/ \E pid \in Pids : KernelStackDrop(pid)
    \/ \E s \in UserSets : RecycleDataPages(s)
    \/ \E s \in UserSets : DropSet(s)
    \/ \E s \in UserSets, b \in Buffers : WriteBuffer(s, b[1], b[2])
    \/ \E s \in UserSets, va \in Refs : WriteRef(s, va)

PageSpec == PageInit /\ [][PageNext]_ptVars

-------------------------------------------------------------------------------
(* Type invariant. *)
PageTypeOK ==
    /\ pte \in [Frames -> [0 .. Fan - 1 -> [ppn : 0 .. FrameEnd, flags : SUBSET {"V", "R", "W", "X", "U"}]]]
    /\ byte \in [Frames -> [0 .. PageSize - 1 -> Int]]
    /\ root \in [Sets -> Frames]
    /\ tables \in [Sets -> Seq(Frames)]
    /\ status \in [Sets -> {"none", "building", "live", "exited"}]
    /\ panicked \in {"no", "oom", "mapped before mapping"}

Indices == 0 .. Fan - 1

(* The entries that point to tables, by the table and index they are in.   *)
Links(s) ==
    LET upper == {<<root[s], i>> : i \in {i \in Indices : IsValid(pte[root[s]][i])}} IN
    upper \cup {l \in {<<pte[u[1]][u[2]].ppn, i>> : u \in upper, i \in Indices} :
                    IsValid(pte[l[1]][l[2]])}

(* The tables of a memory set form a tree below its root: every table the  *)
(* set owns but the root is reached by exactly one entry, and nothing else *)
(* is reached.                                                             *)
TablesFormTree ==
    \A s \in Sets : status[s] # "none" =>
        /\ root[s] = tables[s][1]
        /\ Cardinality(Links(s)) = Len(tables[s]) - 1
        /\ {pte[l[1]][l[2]].ppn : l \in Links(s)} = {tables[s][i] : i \in 2 .. Len(tables[s])}

(* The areas of a memory set, the one being mapped included. *)
Current(s) ==
    areas[s] \o (IF op.set = s /\ op # Idle
                 THEN <<MapArea([Head(op.todo) EXCEPT !.end = op.next], op.frames)>>
                 ELSE <<>>)

(* A page is mapped if and only if an area (or the trampoline) has it, to  *)
(* the frame the area keeps for it and with the area's permissions.        *)
LeavesMatchAreas ==
    \A s \in Sets : status[s] \in {"building", "live"} =>
        LET current == Current(s) IN
        /\ {v \in 0 .. VpnEnd - 1 : IsMapped(root[s], v)} \ {TrampolineVpn} =
             UNION {PagesOf(current[i]) : i \in 1 .. Len(current)}
        /\ \A i \in 1 .. Len(current) :
            /\ \A j \in 1 .. i - 1 : PagesOf(current[i]) \cap PagesOf(current[j]) = {}
            /\ \A v \in PagesOf(current[i]) :
                FindPte(root[s], v) = Entry(current[i].frames[v], current[i].perm)

(* The frames in the allocator's stack, the tables and the pages. *)
InUse ==
    LET sets == SetToSeq(Sets) IN
    recycled \o FlattenSeq([i \in 1 .. Len(sets) |->
                              tables[sets[i]] \o DataFrames(Current(sets[i]))])

(* Every frame that was ever taken has one use: none is shared between     *)
(* spaces, a table and a page at once, or lost, whatever was mapped,       *)
(* removed, copied and dropped before.                                     *)
FramesUsedOnce ==
    LET used == InUse IN Len(used) = fresh /\ ToSet(used) = 0 .. fresh - 1

(* The page tables of all memory sets are sound. *)
TablesInv == PageTypeOK /\ TablesFormTree /\ LeavesMatchAreas /\ FramesUsedOnce

-------------------------------------------------------------------------------
(* The refinement of AddressSpaces. *)

(* The bytes of a space as the hardware and the kernel reach them through  *)
(* its page table, once it is complete.                                    *)
View(s) ==
    LET pages == {v \in UNION {PagesOf(areas[s][i]) : i \in 1 .. Len(areas[s])} :
                    IsMapped(root[s], v)}
    IN  IF status[s] # "live" THEN [a \in {} |-> 0]
        ELSE [a \in {v * PageSize + i : v \in pages, i \in 0 .. PageSize - 1} |->
                byte[FindPte(root[s], Floor(a)).ppn][PageOffset(a)]]

(* A loaded program, by address. *)
Image(prog) ==
    [a \in UNION {{v * PageSize + i : v \in PagesOf(area), i \in 0 .. PageSize - 1} :
                    area \in ToSet(ProgramAreas(prog))} |->
        IF \E i \in 1 .. Len(prog) : a \in prog[i].va .. prog[i].va + prog[i].file - 1
        THEN LET i == CHOOSE i \in 1 .. Len(prog) : a \in prog[i].va .. prog[i].va + prog[i].file - 1
             IN  a - prog[i].va + 1
        ELSE 0]

Private == INSTANCE AddressSpaces WITH
    Spaces <- Sets,
    Images <- {Image(prog) : prog \in Programs},
    Writes <- Buffers \cup {<<va, RefSize>> : va \in Refs},
    PageBytes <- PageSize,
    view <- [s \in Sets |-> View(s)]

(* Page tables implement private address spaces: a loaded program has its  *)
(* file's bytes at its addresses and zeros behind them, a forked space is  *)
(* a copy, and a write through translated_byte_buffer changes exactly the  *)
(* bytes ptr .. ptr + len - 1 of one space, in order, across pages and     *)
(* tables, whatever frames were used for before.                           *)
ImplementsSpaces == Private!SpacesSpec
===============================================================================
