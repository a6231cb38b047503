----------------------------- MODULE AgentMemory ------------------------------
(***************************************************************************)
(* Physical frames and address spaces (os/src/mm) through the life of the  *)
(* tasks: fork, exec, exit, waitpid, sys_agent_create and the kernel's own *)
(* writes to an agent's Context area.                                      *)
(*                                                                         *)
(* A task holds frames for its kernel stack, its page table, its image     *)
(* (program, user stack, trap context) and its Context area, each in the   *)
(* order they were allocated.  All tables of an address space are          *)
(* allocated before its pages (the code mixes them).  A frame's contents   *)
(* is the program that wrote it last, or Zero.  Who may wait for whom, and *)
(* which pid is next, is AgentKernel's matter: here any free pid is used.  *)
(***************************************************************************)
EXTENDS FrameAllocator, FiniteSets, SequencesExt

CONSTANTS
    Pids,           \* pids
    InitProc,       \* the pid of INITPROC
    StackPages,     \* pages of a kernel stack (2 in the code)
    ImageSizes,     \* the numbers of pages an image may have
    ImageTables,    \* page-table frames of an image, the root included
    ContextPages,   \* pages of a Context area (16 in the code)
    ContextTables,  \* page-table frames a Context area adds
    MaxBirths       \* bound: the number of forks and execs

ASSUME MemoryAssumption ==
    /\ InitProc \in Pids
    /\ {StackPages, ImageTables, ContextPages, ContextTables} \subseteq Nat \ {0}
    /\ ImageSizes \subseteq Nat \ {0}
    /\ ImageTables + 1 + StackPages =< FrameEnd    \* INITPROC fits at boot
    /\ MaxBirths \in Nat \ {0}

VARIABLES
    data,       \* contents of the frames
    state,      \* of a pid: "Free", "Live" or "Zombie"
    space,      \* the frames of a task, by part
    mapped,     \* the frames the valid leaf entries of its page table point to
    agents,     \* the tasks with agent_ext = Some
    label,      \* history: the program a task runs (its fork or exec)
    lineage,    \* history: the programs whose data a task may hold
    births,     \* history: the number of programs so far
    panicked    \* why the kernel panicked, or "no"

memVars == <<fresh, recycled, data, state, space, mapped, agents, label,
             lineage, births, panicked>>

Zero   == 0
Parts  == {"stack", "tables", "image", "context"}
NoSpace == [part \in Parts |-> <<>>]

(* The frames of a sequence of trackers. *)
Of(frames) == ToSet(frames)

-------------------------------------------------------------------------------
(* Variant: a frame is handed out with what it held. *)
ContentsDirty(taken, copies) ==
    [f \in Frames |-> IF f \in DOMAIN copies THEN copies[f] ELSE data[f]]

(* FrameTracker::new clears the frames taken; then `copies` is written.    *)
Contents(taken, copies) ==
    [f \in Frames |-> IF f \in DOMAIN copies THEN copies[f]
                      ELSE IF f \in taken THEN Zero ELSE data[f]]

NoCopies == [f \in {} |-> Zero]

-------------------------------------------------------------------------------
(* INITPROC: TaskControlBlock::new at boot. *)
MemInit ==
    /\ recycled = <<>>
    /\ fresh = ImageTables + 1 + StackPages
    /\ data = [f \in Frames |-> Zero]
    /\ state = [p \in Pids |-> IF p = InitProc THEN "Live" ELSE "Free"]
    /\ space = [p \in Pids |-> IF p # InitProc THEN NoSpace ELSE
                 [NoSpace EXCEPT
                    !["tables"] = [i \in 1 .. ImageTables |-> i - 1],
                    !["image"]  = <<ImageTables>>,
                    !["stack"]  = [i \in 1 .. StackPages |-> ImageTables + i]]]
    /\ mapped = [p \in Pids |-> IF p = InitProc THEN {ImageTables} ELSE {}]
    /\ agents = {}
    /\ label = [p \in Pids |-> 1]
    /\ lineage = [p \in Pids |-> {1}]
    /\ births = 1
    /\ panicked = "no"

(* frame_alloc().unwrap() on None and the other panics: the kernel stops. *)
Panic(why) ==
    /\ panicked' = why
    /\ UNCHANGED <<fresh, recycled, data, state, space, mapped, agents, label, lineage, births>>

Runs(p) == panicked = "no" /\ state[p] = "Live"

(* initproc.rs forks once and then only waits for children and yields.     *)
RunsApp(p) == Runs(p) /\ p # InitProc

(* fork: MemorySet::from_existed_user copies every area of the parent page *)
(* by page, its Context area too; the child is no agent.                   *)
SysFork(p, c) ==
    /\ Runs(p) /\ state[c] = "Free" /\ births < MaxBirths
    /\ p = InitProc => births = 1
    /\ LET T == Len(space[p]["tables"])
           I == Len(space[p]["image"])
           C == Len(space[p]["context"])
           n == T + I + C + StackPages
           a == Alloc(n)
           child == [stack   |-> SubSeq(a, T + I + C + 1, n),
                     tables  |-> SubSeq(a, 1, T),
                     image   |-> SubSeq(a, T + 1, T + I),
                     context |-> SubSeq(a, T + I + 1, T + I + C)]
           pages == child["image"] \o child["context"]
           from  == space[p]["image"] \o space[p]["context"]
       IN
        \/ /\ Fits(n)
           /\ AllocAndFree(n, <<>>)
           /\ data' = Contents(Of(a), [f \in Of(pages) |->
                         data[from[CHOOSE i \in 1 .. Len(pages) : pages[i] = f]]])
           /\ state' = [state EXCEPT ![c] = "Live"]
           /\ space' = [space EXCEPT ![c] = child]
           /\ mapped' = [mapped EXCEPT ![c] = Of(pages)]
           /\ births' = births + 1
           /\ label' = [label EXCEPT ![c] = births + 1]
           /\ lineage' = [lineage EXCEPT ![c] = lineage[p] \cup {births + 1}]
           /\ UNCHANGED <<agents, panicked>>
        \/ ~Fits(n) /\ Panic("oom")

(* exec: the new address space is built before the old one is dropped; the *)
(* Context area goes with the old one, agent_ext stays.                    *)
SysExec(p, size) ==
    /\ RunsApp(p) /\ births < MaxBirths
    /\ LET n == ImageTables + size
           a == Alloc(n)
           image == SubSeq(a, ImageTables + 1, n)
       IN
        \/ /\ Fits(n)
           /\ AllocAndFree(n, space[p]["tables"] \o space[p]["image"] \o space[p]["context"])
           /\ data' = Contents(Of(a), NoCopies)
           /\ space' = [space EXCEPT ![p] = [@ EXCEPT !["tables"] = SubSeq(a, 1, ImageTables),
                                                     !["image"] = image,
                                                     !["context"] = <<>>]]
           /\ mapped' = [mapped EXCEPT ![p] = Of(image)]
           /\ births' = births + 1
           /\ label' = [label EXCEPT ![p] = births + 1]
           /\ lineage' = [lineage EXCEPT ![p] = {births + 1}]
           /\ UNCHANGED <<state, agents, panicked>>
        \/ ~Fits(n) /\ Panic("oom")

(* Variant: the frames are returned but the areas keep their trackers. *)
SysExitKeepsAreas(p) ==
    /\ RunsApp(p)
    /\ state' = [state EXCEPT ![p] = "Zombie"]
    /\ AllocAndFree(0, space[p]["image"] \o space[p]["context"])
    /\ UNCHANGED <<data, space, mapped, agents, label, lineage, births, panicked>>

(* exit_current_and_run_next: recycle_data_pages drops the areas; the page *)
(* table, its stale entries included, and the kernel stack stay until the  *)
(* task is reaped.  (If INITPROC exits the machine is shut down.)          *)
SysExit(p) ==
    /\ RunsApp(p)
    /\ state' = [state EXCEPT ![p] = "Zombie"]
    /\ AllocAndFree(0, space[p]["image"] \o space[p]["context"])
    /\ space' = [space EXCEPT ![p] = [@ EXCEPT !["image"] = <<>>, !["context"] = <<>>]]
    /\ UNCHANGED <<data, mapped, agents, label, lineage, births, panicked>>

(* sys_waitpid: the last reference to the task's control block is dropped. *)
Reap(p) ==
    /\ panicked = "no" /\ state[p] = "Zombie"
    /\ state' = [state EXCEPT ![p] = "Free"]
    /\ AllocAndFree(0, space[p]["stack"] \o space[p]["tables"]
                         \o space[p]["image"] \o space[p]["context"])
    /\ space' = [space EXCEPT ![p] = NoSpace]
    /\ mapped' = [mapped EXCEPT ![p] = {}]
    /\ agents' = agents \ {p}
    /\ UNCHANGED <<data, label, lineage, births, panicked>>

(* sys_agent_create: map asserts that the page is not mapped yet.          *)
SysAgentCreate(p) ==
    /\ RunsApp(p) /\ p \notin agents
    /\ LET n == ContextTables + ContextPages
           a == Alloc(n)
           context == SubSeq(a, ContextTables + 1, n)
       IN
        \/ /\ space[p]["context"] = <<>> /\ Fits(n)
           /\ AllocAndFree(n, <<>>)
           /\ data' = Contents(Of(a), [f \in Of(context) |-> label[p]])
           /\ space' = [space EXCEPT ![p] =
                 [@ EXCEPT !["tables"] = space[p]["tables"] \o SubSeq(a, 1, ContextTables),
                           !["context"] = context]]
           /\ mapped' = [mapped EXCEPT ![p] = @ \cup Of(context)]
           /\ agents' = agents \cup {p}
           /\ UNCHANGED <<state, label, lineage, births, panicked>>
        \/ space[p]["context"] = <<>> /\ ~Fits(n) /\ Panic("oom")
        \/ space[p]["context"] # <<>> /\ Panic("mapped before mapping")

(* write_user_bytes to an agent's Context area (sys_tool_call,             *)
(* sys_context_push, sync_header): translated_byte_buffer unwraps the      *)
(* translation of the page.                                                *)
WriteContext(p) ==
    /\ RunsApp(p) /\ p \in agents
    /\ \/ /\ space[p]["context"] # <<>>
          /\ data' = [f \in Frames |-> IF f \in Of(space[p]["context"]) THEN label[p] ELSE data[f]]
          /\ UNCHANGED <<fresh, recycled, state, space, mapped, agents, label,
                         lineage, births, panicked>>
       \/ space[p]["context"] = <<>> /\ Panic("not mapped")

(* The task writes to the pages its page table maps. *)
UserWrite(p) ==
    /\ Runs(p)
    /\ data' = [f \in Frames |-> IF f \in mapped[p] THEN label[p] ELSE data[f]]
    /\ UNCHANGED <<fresh, recycled, state, space, mapped, agents, label,
                   lineage, births, panicked>>

MemNext ==
    \E p \in Pids :
        \/ \E c \in Pids : SysFork(p, c)
        \/ \E size \in ImageSizes : SysExec(p, size)
        \/ SysExit(p)
        \/ Reap(p)
        \/ SysAgentCreate(p)
        \/ WriteContext(p)
        \/ UserWrite(p)

MemSpec == MemInit /\ [][MemNext]_memVars

-------------------------------------------------------------------------------
MemTypeOK ==
    /\ fresh \in 0 .. FrameEnd
    /\ recycled \in Seq(Frames)
    /\ data \in [Frames -> 0 .. MaxBirths]
    /\ state \in [Pids -> {"Free", "Live", "Zombie"}]
    /\ space \in [Pids -> [Parts -> Seq(Frames)]]
    /\ mapped \in [Pids -> SUBSET Frames]
    /\ agents \subseteq Pids
    /\ label \in [Pids -> 1 .. MaxBirths]
    /\ lineage \in [Pids -> SUBSET (1 .. MaxBirths)]
    /\ births \in 1 .. MaxBirths
    /\ panicked \in {"no", "oom", "mapped before mapping", "not mapped"}

(* Where a frame is: in the allocator's stack, or in a part of a task.     *)
Places(f) ==
    {<<"recycled", i>> : i \in {j \in DOMAIN recycled : recycled[j] = f}}
    \cup UNION {{<<p, part, i>> : i \in {j \in DOMAIN space[p][part] : space[p][part][j] = f}}
                    : p \in Pids, part \in Parts}

(* Every frame ever taken is in exactly one place: no frame is shared or   *)
(* leaked, and dealloc never finds a frame that is recycled already (its   *)
(* panic), whatever the order of forks, execs, exits and waits.            *)
FramesConserved ==
    \A f \in Frames : Cardinality(Places(f)) = IF f < fresh THEN 1 ELSE 0

(* The page table of a task that can run maps only frames the task owns,   *)
(* although exit leaves stale entries behind.                              *)
MappingsOwned ==
    \A p \in Pids : state[p] = "Live" =>
        mapped[p] = Of(space[p]["image"]) \cup Of(space[p]["context"])

(* Physical memory is accounted for, and no task can reach another's.      *)
MemoryInv == MemTypeOK /\ FramesConserved /\ MappingsOwned

(* A task only ever sees data of its program, or of those it was forked    *)
(* from: never what a dead task or its own program before exec left in a   *)
(* frame.                                                                  *)
PrivateData ==
    \A p \in Pids : state[p] = "Live" =>
        \A f \in mapped[p] : data[f] = Zero \/ data[f] \in lineage[p]

(* The fork comment (os/src/task/task.rs:194): a forked child becomes an   *)
(* agent by calling sys_agent_create.                                      *)
ChildMayBecomeAgent == panicked # "mapped before mapping"
===============================================================================
