# OS-Agent: specification and verification

OS-Agent is an rCore-style RISC-V kernel, written in Rust, in which a process can
become an *Agent*: it gets a kernel-managed Context area in its address space, a
Context Path of past tool calls, tool calls with a binary protocol, attributes on
files with indexed search, and an event loop (heartbeats, messages, file events)
with a blocking wait and priority scheduling. Its file system is easy-fs.

The modules here are translated from the Rust sources. TLC checks them on small
instances; TLAPS proves the main safety properties for every value of the
constants. `PROJECT.json` maps each definition to its source lines and lists the
runs, mutants, hazards and theorems.

    tlc -workers 2 -config Agents.cfg MCAgentKernel    # a run
    tlapm AgentKernelProofs.tla                        # a proof module

## 1. Inventory

| Component (source) | State | Operations | What makes it correct | Module |
|---|---|---|---|---|
| Scheduler (`task/manager.rs`, `processor.rs`, `mod.rs`) | ready queue, running task | add, fetch, yield, preempt, idle loop | a task is in one place; strict priority, first in first out; the hart always finds a task | `ReadyQueue`, `AgentKernel` |
| Tasks and process tree (`task/task.rs`, `mod.rs`, `syscall/process.rs`) | status, children, zombies | fork, exit with reparenting, waitpid, snapshot | no task leaves the tree; a zombie has one reference | `AgentKernel` |
| Pid allocator (`task/pid.rs`) | next pid, recycle stack | alloc, dealloc | a pid is free, recycled once or in use | `AgentKernel` |
| Event loop (`agent/event_bus.rs`, `blocking.rs`, `pcb_ext.rs`, `syscall/agent.rs`) | events, masks, mailbox, heartbeat, loop state, `BLOCKED_AGENTS` | wait, watch, unwatch, heartbeat, send, receive, file broadcast, timer tick | no lost wake-up; deadlines; bounded mailbox in order; waits end; an event is kept until its agent disposes of it | `AgentEvents`, `AgentKernel`, `EventChannel` |
| Context Path (`agent/context_path.rs`) | node list, Path Buffer, header | push with eviction, rollback, clear, query | nodes read back unharmed, quotas, header | `ContextPath`, `ContextLog` |
| File attributes (`agent/file_attr.rs`) | attributes, two inverted indexes | set, tag, digest, remove, two queries | the indexes follow; queries agree; changes are broadcast | `FileAttrs` |
| Context area and tool calls (`agent/context_area.rs`, `agent/tool`, `agent_proto`, `syscall/agent.rs`, `user/src/lib.rs`) | Tool Result region, Path Buffer, what the program remembers of a call | tool call (decode, dispatch, five handlers), context query, the library's zero-copy reads | an answer is readable until the next one; nodes found by a query are readable until one moves | `ContextArea` |
| Frames and ownership (`mm/frame_allocator.rs`, `memory_set.rs`, `task/task.rs`) | allocator stack, frames of each task | fork, exec, exit, reap, agent creation, kernel writes to the Context area | frames conserved, reachable only by their owner, no old data | `FrameAllocator`, `AgentMemory` |
| Page tables and address spaces (`mm/page_table.rs`, `memory_set.rs`, `address.rs`, `task/pid.rs`) | three-level tables, areas, frames' contents | load, copy, extend, clear, drop, kernel stacks, access to user memory | the tables are trees of frames of their own; private address spaces | `FrameAllocator`, `PageTable`, `AddressSpaces` |
| Block cache (`easy-fs/src/block_cache.rs`) | queue of 16 blocks, dirty marks | get, replace, modify, sync | a plain store of blocks; durable after sync | `BlockCache`, `BlockStore` |
| easy-fs (`bitmap.rs`, `efs.rs`, `layout.rs`, `vfs.rs`) | bitmaps, inodes, block trees, directory | create, find, read, write, clear | blocks accounted for; assertions hold | `EasyFs` |
| Open files (`os/src/fs/inode.rs`, `syscall/fs.rs`) | open files with offsets, descriptor tables | open, close, read, write, fork, drop | named lists of bytes | `OpenFiles`, `FileStore` |
| Drivers, SBI, heap, assembly, boot, image packer, applications | - | - | - | not modelled, see section 7 |

How they interact. A trap enters `trap_handler`; a system call runs in the caller's
context, a timer trap ticks the event bus and suspends the current task. The event
bus finds agents by walking the process tree from INITPROC, sets their flags and
moves sleepers from `BLOCKED_AGENTS` to the ready queue; the scheduler later returns
into the loop of `sys_agent_wait`, which looks at the flags again. `send_message` is
reached through a tool call, the file broadcast through the attribute calls, and
both act on *other* tasks' control blocks. File calls go through `OSInode`, easy-fs
and the block cache to the device.

What is hard here: the order in which tasks, ticks and events interleave around a
sleeping agent; timeouts computed from several clock reads; answers and nodes read
through offsets that a later call may have made stale; buffers that cross pages; tree and pid reuse under
arbitrary exits; overlapping moves in the Path Buffer; two indexes kept in step with
the data; frames freed in phases; a replaced cache block that is still in use;
truncation of a file somebody has open. `PROJECT.json` lists each with its line under
`hazards`.

## 2. What the model takes as given

* **One hart, kernel not preempted.** SIE is clear in S-mode, so a handler runs
  undisturbed until it calls `schedule()`. An action is one such run. The only system
  call that sleeps in the middle is `sys_agent_wait`: its locals are the variable
  `wait` and its continuation is the action `WaitResume`. The polling of `Stdin::read`
  is a sequence of yields.
* **The clock moves anywhere**, also between two clock reads of one handler (`MaxSkew`).
* **Applications are arbitrary** sequences of system calls, exits and faults. The
  exception is INITPROC: `initproc.rs` forks once, then waits and yields for ever.
* **Release build** (`os/Makefile`: `MODE := release`): integer overflow wraps. The only
  place where it shows is the deadline of `sys_agent_wait`, modelled with `IntMax`.
* **Panics** are states in `AgentMemory`, `PageTable`, `BlockCache` and `OpenFiles`
  (`panicked`), and nothing happens after one. A full disk and no memory are such ends,
  and so are the limits of easy-fs that no code checks: a file too large for its block
  tree, a name too long for its entry.

## 3. Modules and their correspondence to the code

**`ReadyQueue`** has `TaskManager::add`, the scan of `fetch` as a recursive function
(`FetchScan`) and its meaning (`IsBest`), which the scheduler uses. `ScanFindsBest`
relates the two.

**`AgentEvents`** is the part of `AgentExt` the event loop uses and the decisions of
`sys_agent_wait`: what is pending, what the mask selects (`WaitMask`), what a return
consumes; when a heartbeat is due; delivery to a bounded mailbox. A mask is a set of
bits, with one bit that no event sets.

**`AgentKernel`** composes both with tasks, tree, pids and the wait list. One action per
system call, plus `RunTasks` (idle loop), `TimerTrap`, `Elapse` and `WaitResume`.
`WaitTurn` is one round of the loop in `sys_agent_wait`: report and return, time out, or
go to sleep. The call reads the clock three times (start, deadline, first check), a
resumed turn once, and time may pass between the reads. Messages are numbered per mailbox. Orders that come from a tree walk or a
`swap_remove` (`Orders`) are any order: the model allows more than the code does.
`Snapshot` is the least set of tasks closed under children from INITPROC, which is what
the traversal collects. `sys_agent_create` of an agent's child panics in the code
(finding 1); `AgentKernel` lets it succeed and `AgentMemory` has the panic.

**`EventChannel`** is what the event loop promises an agent, in four variables: who is an
agent, which events are raised for it, which it waits for, who is asleep. Others raise
events and wake sleepers, at least those that wait for what was raised. Only the agent's
own steps take an event away: a wait that reports it, taking the last message,
restarting or stopping the heartbeat. `AgentKernel` implements it under the mapping
`raised <- Pending(ext)`, `mask <- WaitMask(ext)`, `asleep <- blocked`. The channel does
not count: two heartbeats before a wait are one event, as in the code. A restart of the
heartbeat may come at any time, so that of the heartbeat flag alone the channel says
only that nobody *else* clears it.

**`ContextPath`** is one agent's path. A byte is the pair of its node and its position,
so a byte that is moved wrongly shows. `push_node` is three kinds of steps (begin, one
per round of the eviction loop, end) so that properties can speak about the loop. The
user program can write to its own Path Buffer; the model is of an agent that does not.
**`ContextLog`** is what it promises: a list of nodes from which a push removes the
fewest oldest ones. `ShiftChunks` is the copy loop in chunks; the actions use `ShiftLeft`,
the move at once, and `ChunksMoveAll` relates the two.

**`ContextArea`** extends it to the whole area. `sys_tool_call` and `sys_context_query`
write their answer at the start of the Tool Result region, which lies right before the
Path Buffer, and the user library keeps an offset and a length and reads later, without
a system call. A request is a frame that decodes or fails in one of the ways
`decode_request` knows; a handler is the set of statuses it can answer with, given the
processes that exist and the pid asked for; an answer is its length and the call that
wrote each of its bytes. `outcome` and `metas` are what the library's `ToolCallOutcome`
and `PathMetaList` hold. The history variables `lastWrite` and `moved` say when these
may be stale. `AreaSpec` implements `PathSpec`: no call touches the path but those on it.

**`FileAttrs`** has every change of the store, both queries, and the two system calls
with their broadcast. A `Vec` in an index is a bag, because duplicates matter and order
does not. `init_demo_attrs` is a boot phase in which any store operation may occur,
including `remove_kv`, which nothing calls.

**`FrameAllocator`** is `StackFrameAllocator`: fresh frames and a stack of recycled ones.

**`AgentMemory`** models frames by owner and part (kernel stack, page tables, image,
Context area), the stack discipline of `StackFrameAllocator`, and the contents of a frame
as the program that wrote it last. Exit frees the areas' frames but leaves the zombie's
page-table entries, as `recycle_data_pages` does; waitpid frees the rest.

**`PageTable`** looks inside: the walk of `find_pte_create` that takes a frame for each
table it misses, areas mapped page by page (one step per page, so that the tables are
seen in between), `from_elf`, `from_existed_user`, the Context area, kernel stacks in
`KERNEL_SPACE` with their guard page, `recycle_data_pages` and drop, and kernel writes
through `translated_byte_buffer` and `translated_refmut`. Addresses have the width the
tables give them, and are rounded, cut into indexes and sign-extended as in
`address.rs`. **`AddressSpaces`** is what the memory manager promises: a space is a
function from addresses to bytes, a copy has the same bytes, a write changes the
addresses it names in one space. The refinement mapping `View` reads a space byte by byte
through its tables; `Image` is what a loaded program looks like. They stand with
`UserAssumption` in `PageTable`: segments of a program begin with a page and end within
the address space, and pointers lie in the lower half of it, where a word is its own
virtual address.

**`BlockCache`** is the queue with its dirty marks over a device. The file system nests
accesses (closures given to `read` and `modify` ask for further blocks); `held` is the
stack of locked blocks, which is what `Arc::strong_count` sees. **`BlockStore`** is the
abstract store with a durable copy.

**`EasyFs`** has the file system as operators on its state. A block holds `Cells` cells; a
cell is a byte, a directory entry or a block number. A *slot* names a place for a block
number; `SlotsOf(k)` lists the slots data block k needs first, the order in which
`increase_size` fills and `clear_size` collects. `total_blocks` stays a formula of its
own, as in the code: `AssertionsHold` and `FsInv` relate it to the slots. What stops the
kernel is named by the operators `StopIncrease`, `StopFind`, `StopCreate` and `StopClear`:
"no space", "too large" (a file has no maximum size; `increase_size` indexes `indirect2`
behind its end at block 16540 of the code), "long name" (`DirEntry::new` copies more than
28 bytes), "no end of name" (28 bytes leave no terminator, and `DirEntry::name` runs off
the array in every later lookup that comes to the entry), and "assertion" for the rest.
Only the last is what the code says cannot happen, and what `AssertionsHold` is about.
**`OpenFiles`** is the state machine of the calls, **`FileStore`** what an application
sees. Data written names its place in the file, so a cell that is misplaced, lost or left
over shows; a second write of the same cell has the same data, so the loss of an overwrite
alone would not. Closing standard streams is left out.

## 4. Runs

| Run | Bounds | Shows |
|---|---|---|
| `agents` | 2 applications, mailbox of 2, 3 messages per agent, file mask, one loop input, one priority, no clock and no heartbeats | `OnePlace`, `TreeComplete`, `PidsPartitioned`, `NeverIdle` through forks, exits, reaps and pid reuse; `NoLostWakeup` for messages and file events, `SleepersThink`, `MailboxKeepsNewest`; `KernelInv`, the inductive invariant of the proofs; the refinement of `EventChannel` |
| `clock` | 2 applications, time to 3, skew 1, timeouts of 1 and of the largest integer, a heartbeat of 2, failing tool calls, the useless mask bit | `SleepsBeforeDeadline`, `TickWakesAllDue`; `NoLostWakeup` for heartbeats |
| `live` | 2 applications, one priority, the highest (a higher one is capped), timeouts none or 1, 1 message per agent | `TimedWaitReturns`, `EventEndsWait`, `ReadyRuns`, `OrphansReaped` under fairness; `ScanFindsBest` |
| `path` | buffer of 6, quota of 5 bytes and 3 nodes, 4 pushes of 1 to 3 bytes (and one too large), chunks of 2; a result region of 4 bytes, answers of 4 and 5 bytes, 2 tool calls or queries | node integrity, quotas, header, the eviction loop, the chunked move, answers and query results that stay readable, refinement of `ContextLog` |
| `attrs` | 2 files, 2 keys, 2 values, 3 tags (one empty) | the indexes follow, the queries agree, changes are broadcast |
| `memory` | 14 frames, 3 pids, 4 programs | frames conserved and private, out-of-memory included |
| `pages` | 3 user spaces, 2 kernel stacks, 34 frames, tables of 4 entries, pages of 2 bytes, 5 operations | `TablesInv`: the tables of a space are a tree, a frame has one use; refinement of `AddressSpaces` |
| `blocks` | 4 blocks, 2 cached, nesting of 3 | `CacheInv`, when the cache runs out, refinement of `BlockStore` |
| `files` | 4 names, one that fills its entry and one that is too long for it, 2 tasks, 2 open files, 4 inodes, 14 data blocks of 2 cells, 1 direct pointer, 7 calls | `FsInv`, `AssertionsHold`, refinement of `FileStore` |
| `starve` | one task above the default priority | violation: finding 2 |
| `default_mask` | an agent that watches nothing | violation: finding 3 |
| `child_agent` | as `memory` | violation: finding 1 |

Why the bounds are enough. Three tasks (two applications and INITPROC) have a sender, a
sleeper and a parent; orphans with children of their own, which need a fourth task, are
left to the proofs, which have no bound on tasks. Pids are reused, since `MaxPid` limits
the pids and not the number of forks. A mailbox of two that takes three messages
overflows with two in it, so that their order, a gap and the wrong victim can show; the
other runs have a mailbox of one. Tasks of different priorities run in `starve` only and in
the proofs, which leave the priorities open.
An answer of 4 bytes fills the result region and one of 5 does not fit; the node list of
a query does or does not, by the number of nodes. With pages of two bytes, buffers of
two and four bytes end with a page, cross from one to the next, and cross the boundary of
two tables; five operations are enough to load, copy, extend,
write and drop, and to run out of the 34 frames in each of them. Time to 3 with skew 1 has a tick before,
at and after a deadline of 1. A cache of two with nesting of three has to evict on most
accesses and can run out. One direct pointer and two cells per block put the boundaries
of direct, indirect and doubly indirect blocks at 2, 6 and 10 cells and the end of the
tree at 14; writes of 3 and 8 cells cross each of them, past the end included, while two
files fill the disk of 14 blocks before. `Files.cfg` uses the symmetry of the two ordinary
names: it checks no liveness. Deadlock is checked wherever the kernel runs for ever; `blocks`,
`files`, `memory` and `pages` end at a panic or at their bound.

**Fairness** (`FairSpec`, runs `live` and `starve`). Weak fairness of the idle loop and
of a woken task's handler: the kernel is code that runs. Weak fairness of the clock.
Strong fairness of the timer trap: the interrupt stays pending while the kernel runs and
is taken as soon as *some* task is in user mode, although user mode is left again and
again. Strong fairness of INITPROC's `sys_waitpid` for each child: its program only
waits and yields, `sys_waitpid` takes the first zombie of its list and orphans are
appended, so when INITPROC runs again and again it comes to each. No fairness of
applications: they may compute for ever, and preemption must suffice. The liveness
properties hold with equal priorities only, which `starve` shows. `TimedWaitReturns`
speaks of waits whose deadline lies within `MaxTime`, because the clock stops there.

Every property has a mutant: a variant of a definition with a plausible slip (named
`Variant` in the modules) under which TLC finds the property violated.

## 5. Findings

1. **The child of an agent cannot become an agent** (`child_agent`). `fork` clears
   `agent_ext` but copies the address space with the Context area; `sys_agent_create` then
   maps the area again and `PageTable::map` panics the kernel. The comment in `task.rs`
   and ADR-003 say that the area is not inherited.
2. **Starvation** (`starve`). `MAX_PRIORITY` is described as a guard against starving
   others; the scan has no ageing, so one task above the default priority starves the rest.
3. **The default mask** (`default_mask`). `watched_events == 0` is documented as caring
   about all events; the code selects heartbeats and messages only, and a file event passes
   such an agent by.

A further statement is contradicted, with no run of its own: `docs/perf-report.md` 4.3 says
that only an unknown system call number panics and that every error of an Agent call is a
negative result. Besides finding 1, and running out of frames in `sys_agent_create`, this is
not so after an `exec`: it replaces the address space and keeps `agent_ext`, so the agent's
next tool call or push writes to an area that is no longer mapped, and
`translated_byte_buffer` panics ("not mapped" in `AgentMemory`, which the run `memory`
reaches).

Not contradicted by a comment, and so only noted: the limits of easy-fs in section 3,
which stop the kernel in a file call; a message to a zombie is reported as delivered; a
file event that arrived before `unwatch` is reported after the next `watch`; a deadline
that overflows becomes 0, so every tick wakes the sleeper.
ADR-003 describes a ring of tool results with a sequence lock: `write_tool_result`
implements it and nothing calls it. `sys_tool_call` writes every answer at the start of
the region, as docs/impl-report-tool-call.md says, and `sys_context_query` its meta-data
too, so that an answer lasts until the next tool call or query (`LastResultReadable`).

## 6. Proofs

All theorems hold for every value of the constants allowed by the named assumptions.

**`AgentKernelProofs`** (`BoundsAssumption`, `ParametersAssumption`, `InputsAssumption`).
`KernelInv` is inductive and its conjuncts are proved one after another, each from the
ones before it. `OnePlace` needs that a fresh pid is in no queue, which is
`PidsPartitioned`; `PidsPartitioned` needs that a reaped task is in the tree and nowhere
else; `TreeComplete` needs that an exiting task's parent is alive, and is proved on the
least closed set: fork adds a leaf (`ForkTree`), exit moves children to the root
(`ExitTree`), reap removes a leaf (`ReapTree`). `NoLostWakeup` holds because every action
that raises an event at a sleeper wakes it in the same step, and going to sleep looks at
the events in the same step; it needs `SleepersThink`, which says that a sleeper's frame
is on its stack and that nobody else can change its mask. `InitProcAlive` is there
because `NeverIdle` follows from it: INITPROC is always ready or running.
`SleepIsBounded` adds the invariant that a frame's deadline covers its start plus its
timeout; `TickMissesNobody` compares the sleepers after a trap with the heartbeats and
deadlines that were due before it (the trap itself resets the time of the last beat), and
needs `TreeComplete`: a sleeper the snapshot missed would miss its heartbeat.
`ScanFindsTheBest` shows that the loop of `TaskManager::fetch` computes what the scheduler's actions assume.

The second part of the module proves `EventLoopImplementsChannel`: every step of the kernel is a
step of `EventChannel` or a stutter. It uses `KernelInv`, and that a task which is no agent
has a fresh extension (`NonAgents`, inductive), so that agent creation and the reaping of
other tasks show nothing. Steps that raise events are one lemma, `QuietIsRaise`, in which
`NoLostWakeup'` provides that those who wait for the event were woken. The agent's own
system calls each match the step that disposes of what they clear.

**`ContextAreaProofs`** (`QuotaAssumption`, `PushAssumption`, `AreaAssumption`). The first part
is about the path alone. `PathInv` is inductive. The
central step is `EvictKeeps`: nodes are contiguous and ordered by write time, so the
victim is the first under both policies, the move covers exactly the bytes of the others,
and each is found at its new offset. `QuotaAssumption` contains `MaxBytes <=
PathBufferLen`, which the code never checks but its constants satisfy.
`HeaderStaysInStep` adds that the header the program reads follows. `PathImplementsLog` is
the refinement of `ContextLog`. While `push_node` runs, the log still shows the nodes the
call found, so the proof needs an invariant of its own, `PushRemembers`: the nodes left are
a suffix of those, the ones evicted are their beginning, and with one evicted node fewer
the new node would not have fitted. `ChunksMoveEveryByte` proves the chunked copy for every
chunk size, distance and length: a round overwrites only what earlier rounds have read.

In the second part `AreaImplementsPath` takes all of these theorems
over to the composed area. `AnswersStayReadable`: an answer is the last thing written to
the region until the next call that writes, failing calls included. `HeldNodesStayReadable`:
the offsets a query returned find the bytes of their nodes until an eviction or rollback.

**`FileAttrsProofs`** (`AttrAssumption`). `AttrInv`: each index counts a file once exactly
where its attributes say. `IndexedEqualsScan` follows, for queries with a criterion.
`EveryChangeIsAnnounced` is the action property of the broadcasts.

**`BlockCacheProofs`** (`CacheAssumption`). `CacheInv` is inductive; `CacheImplementsStore`
is the refinement, every step of the cache a step of the store or a stutter.
`RunsOutLate` counts the held blocks against the queue; `NeverRunsOut` concludes that
nesting no deeper than the cache (3 and 16 in the code) cannot panic.

**`AgentMemoryProofs`** (`MemoryAssumption`: the first process fits into memory, as the
kernel cannot boot otherwise). `MemInv` is inductive. `FramesConserved` of the run counts
the places of a frame; `FramesOnce` says the same with disjoint sets and injective
sequences. A fork is safe because a free pid holds no frame (`FreeHoldsNothing`), a write
because a task's program is in its own lineage (`OwnProgram`). Every action returns some
frames and takes others, and all of them are cases of one lemma, `Exchange`, about what the
allocator's stack holds afterwards. `MemoryIsSafe` and `DataIsPrivate` follow.

**`EasyFsProofs`** and **`OpenFilesProofs`** (`FsAssumption`, `OpenAssumption`; no bound on
the sizes of files or the lengths of names). The first is about the operators.
`Need(s)` is the file block that brings slot s; the tree of a file of n blocks is the slots
with `Need(s) < n`. `SlotListIs` shows that the order of `increase_size` lists each of these
slots once, a block of pointers before what lies below it, and that there are as many of
them as the formula of `total_blocks` says. `FsOK` is the state between two operations: each
slot of each file has an allocated block, no two slots the same, no other block is
allocated, free blocks and the rest of a file's last block are zeroed. Each operation keeps
`FsOK` and does to the cells of the files what it should: `IncreaseGrows` and `WriteGives`,
`ClearGives`, `CreateGives`. In the middle of an increase the tree is only partly there;
`FillOne` says what a prefix of the new slots has. The second module adds the directory
(`DirOK`) and the descriptors (`Live`) to the inductive invariant `OpenIInv` and proves one
step per call. `FileSystemIsSound` and `NoAssertionFails` follow: an increase that no
limit stops stays inside the tree (`GrownFits`), and there the counts of blocks agree
(`IncreaseNeverShort`, `ClearNeverStops`); what is left are the limits of section 3
(`Limits`), which the theorem does not exclude. `FilesAreLists` is the
refinement of `FileStore`: a name stands for one inode and an inode has one name
(`FindNames`, `NamesFind`), and `FileWritten` turns the cells after a write into the list of
`FileStore`, zeroes in the gap included. `OpenAssumption` has `Closed` and `Absent` differ
from open files and from lists, so that the views can be told apart.

**`PageTableProofs`** (`FrameAssumption`, `PageAssumption`, `UserAssumption`: an even number
of entries in a table, at least the three frames of the kernel's first tables, integers of
user programs aligned). `TablesInv` counts links and lists frames; `PagesInv`, the
inductive invariant, says the same so that a step can be followed. Everything about a
tree is stated of any memory `m` in place of `pte`: `MapEntry` writes up to three
entries, and in the memories between them the way to the page is only partly there.
`Tree` says that every table of a set but its root is below exactly one entry,
`Leaves` that the pages mapped are those of the areas (the one being mapped included) and
the trampoline, `Exclusive` that no two of them share a frame, and `Once` that the sets, and
the allocator's stack, hold disjoint frames. `AddTable` and `FindPteCreate` are the walk that creates
tables, `UnmapClears` the one that clears an entry, and `Exchange` is what the allocator
holds after a step that returns some frames and takes others. `OneStep` says that a step
which changes one memory set, with frames that were free or its own, disturbs no other;
each action is then about one set. `PagesInvSound` turns disjoint sets back into the counts
of `TablesInv` (`TablesAreSound`).

`PagesImplementSpaces` is the refinement of `AddressSpaces`. A memory set shows nothing
until its last area is pushed, so the proof needs to know what was put into its pages
before: `LoadInv`, inductive together with `PagesInv`, says that a page mapped and not yet
pushed is blank, that the areas pushed so far hold the bytes planned for them (the data of
the program's segments, or what the set that is copied has), and that an area added to a
complete set has no data. `PushCompletes` reads the plan off at the end: `LoadDone` equates
the pages of the segments with `Image`, `CopyDone` with the view that was copied.
`BufferPlaces` shows that the slices of `translated_byte_buffer` are the places of
the bytes one after the other, for every buffer of the lower half, ends of pages included;
`InOnePage` that an aligned integer does not cross a page, without which the physical
addresses behind the first byte would belong to another frame.

**Recursive functions.** `FetchScan`, `ShiftChunks`, `ContextLog`'s `Size`, and `SlotList`,
`AllocData`, `IncreaseSize` and `WriteAt` of `EasyFs`, and the slices of
`TranslatedByteBuffer` are recursive functions of a finite range. The library's induction theorems take an operator as a
parameter and cannot be used here; instead the proofs use that a set of numbers that is
not empty has a least element (`Least`). An explicit function (the best of the first n
entries, the buffer after n rounds, the state after n cells) is shown to satisfy the recursion, so that the function
the definition chooses satisfies it too; a least argument at which the two differ is then
impossible.

Only model-checked: the properties of `live`, which need fairness (`TimedWaitReturns`,
`EventEndsWait`, `ReadyRuns`, `OrphansReaped`): liveness under fairness is out of the
provers' reach.

## 7. Not modelled, and why

* The bytes of a protocol frame: `agent_proto` is a library's encoding behind a header of
  six bytes. The ways a frame fails to decode are in `ContextArea`.
* The contents of the read-only tools' answers (system status, process query, context
  read), `sys_agent_info`, the benchmark: they change nothing another component looks at.
  `sys_tool_list` copies a constant to a user buffer.
* The byte packing of inodes, bitmaps and directory entries; permission bits of pages;
  the kernel's identity-mapped sections; `translated_str`.
* `write_tool_result`, which nothing calls.
* Pointers of system calls to unmapped memory: the code says nowhere what they should do.
* Power loss: easy-fs has no journal and no recovery, so there is nothing to check
  beyond durability after sync (`BlockStore`).
* virtio, SBI, console, kernel heap, assembly, boot, `easy-fs-fuse`, the demo programs
  other than `initproc`.

## 8. Plan

Order of work: (1) kernel core, (2) Context Path, (3) attributes, (4) memory, (5) block
cache and file system, (6) the Context area with tool calls, (7) page tables, (8) the
event channel. All are modelled and checked, and every invariant, action property and
refinement the runs check is a theorem. Left: the composition of `AgentKernel` and
`AgentMemory`, the same forks, exits and waits in one model, with finding 1 and the exec
case.
