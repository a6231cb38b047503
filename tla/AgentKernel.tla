----------------------------- MODULE AgentKernel ------------------------------
(***************************************************************************)
(* Processes, the scheduler and the Agent event loop of the kernel.        *)
(*                                                                         *)
(* One hart runs the kernel with interrupts disabled (SIE is clear in      *)
(* S-mode), so a trap handler runs without interruption up to the point    *)
(* where it calls schedule(); the interleaving is that of the scheduler.   *)
(* Each action is one such run: a system call, a timer trap, the idle      *)
(* loop picking a task, or the rest of sys_agent_wait after a wake-up.     *)
(*                                                                         *)
(* Sources: os/src/task/{mod,task,manager,processor,pid}.rs,               *)
(* os/src/agent/{blocking,event_bus,pcb_ext}.rs, os/src/syscall/process.rs *)
(* and the event-loop part of os/src/syscall/agent.rs, os/src/trap/mod.rs. *)
(***************************************************************************)
EXTENDS ReadyQueue, AgentEvents, FiniteSets, Functions

CONSTANTS
    MaxPid,          \* bound: the largest pid the model hands out
    MaxPriority,     \* MAX_PRIORITY (255 in the code)
    DefaultPriority, \* DEFAULT_PRIORITY (16 in the code)
    Priorities,      \* bound: arguments tried for sys_agent_set_priority
    MailboxCapacity, \* AgentExt::mailbox_capacity (32 in the code)
    MaxSends,        \* bound: messages delivered to one agent
    IntMax,          \* the largest i64
    MaxTime,         \* bound: the clock stops here
    MaxSkew,         \* bound: time passing between two clock reads of a handler
    Timeouts,        \* bound: arguments tried for sys_agent_wait
    Intervals,       \* bound: arguments tried for sys_agent_heartbeat_set
    Masks,           \* bound: arguments tried for watch and unwatch
    LoopInputs,      \* bound: arguments tried for sys_agent_set_loop_state
    ToolOutcomes     \* bound: ends of a tool call that delivers no message

ASSUME BoundsAssumption ==
    /\ MaxPid \in Nat \ {0}
    /\ MaxSends \in Nat
    /\ MaxTime \in Nat
    /\ MaxSkew \in Nat

ASSUME ParametersAssumption ==
    /\ MaxPriority \in Nat
    /\ DefaultPriority \in 0 .. MaxPriority
    /\ MailboxCapacity \in Nat \ {0}
    /\ IntMax \in Nat /\ IntMax >= MaxTime

ASSUME InputsAssumption ==
    /\ Priorities \subseteq Nat
    /\ Timeouts \subseteq -1 .. IntMax
    /\ Intervals \subseteq Nat
    /\ Masks \subseteq SUBSET Bits
    /\ LoopInputs \subseteq LoopStates
    /\ ToolOutcomes \subseteq {"Calling", "Observing"}

Pids       == 0 .. MaxPid
InitProc   == 0          \* INITPROC has pid 0 = IDLE_PID
NoTask     == -1         \* PROCESSOR.current = None
NoDeadline == -1         \* wake_deadline_ms = None
Statuses   == {"Free", "Ready", "Running", "Zombie", "Blocked"}

VARIABLES
    pidNext,   \* PidAllocator::current
    recycled,  \* PidAllocator::recycled, a stack
    status,    \* task_status of each task; "Free": no task has the pid
    priority,  \* priority of each task
    children,  \* children of each task (the Vec's order is abstracted)
    ready,     \* TASK_MANAGER.ready_queue
    current,   \* PROCESSOR.current
    blocked,   \* BLOCKED_AGENTS (order abstracted; the deadline is in wait)
    agents,    \* the tasks with agent_ext = Some
    ext,       \* their AgentExt; NewExt for the others
    wait,      \* the locals of sys_agent_wait on a task's kernel stack
    sent,      \* history: messages delivered to the task's mailbox so far
    now        \* get_time_ms()

schedVars == <<status, ready, current, blocked>>
treeVars  == <<pidNext, recycled, children>>
vars == <<pidNext, recycled, status, priority, children, ready, current,
          blocked, agents, ext, wait, sent, now>>

Live == {p \in Pids : status[p] # "Free"}

WaitFrame == [active : BOOLEAN, start : Nat, timeout : -1 .. IntMax,
              deadline : {NoDeadline} \cup Nat]
NoWait    == [active |-> FALSE, start |-> 0, timeout |-> 0, deadline |-> 0]

Init ==
    /\ pidNext = 1
    /\ recycled = <<>>
    /\ status = [p \in Pids |-> IF p = InitProc THEN "Ready" ELSE "Free"]
    /\ priority = [p \in Pids |-> DefaultPriority]
    /\ children = [p \in Pids |-> {}]
    /\ ready = <<InitProc>>
    /\ current = NoTask
    /\ blocked = {}
    /\ agents = {}
    /\ ext = [p \in Pids |-> NewExt]
    /\ wait = [p \in Pids |-> NoWait]
    /\ sent = [p \in Pids |-> 0]
    /\ now = 0

-------------------------------------------------------------------------------
(* The process tree. *)

(* A set that holds a task's children whenever it holds the task. *)
Closed(S) == \A q \in S : children[q] \subseteq S

(* snapshot_all_processes: the tasks a traversal of the children lists     *)
(* from INITPROC reaches, that is the least closed set with INITPROC.      *)
Snapshot ==
    {p \in Pids : \A S \in SUBSET Pids : InitProc \in S /\ Closed(S) => p \in S}

(* The orders in which a batch of tasks can be put back in the queue.  The *)
(* code's order (that of the traversal, of the Vec) is one of them.        *)
Orders(S) == Bijection(1 .. Cardinality(S), S)

-------------------------------------------------------------------------------
(* The scheduler. *)

(* The current task is in user mode: it can trap. *)
InUser(p) == current = p /\ ~wait[p].active

(* initproc.rs forks once and then only waits for children and yields.     *)
InApp(p) == InUser(p) /\ p # InitProc

(* run_tasks: the idle loop fetches the best ready task and switches to it *)
RunTasks ==
    /\ current = NoTask
    /\ \E i \in 1 .. Len(ready) :
        /\ IsBest(ready, priority, i)
        /\ current' = ready[i]
        /\ ready' = RemoveIndex(ready, i)
        /\ status' = [status EXCEPT ![ready[i]] = "Running"]
    /\ UNCHANGED <<treeVars, priority, blocked, agents, ext, wait, sent, now>>

(* Variant: the entry stays in BLOCKED_AGENTS. *)
WakeAllKeepsEntry(W) ==
    /\ \E order \in Orders(W) : ready' = ready \o order
    /\ status' = [q \in Pids |-> IF q \in W THEN "Ready" ELSE status[q]]
    /\ UNCHANGED blocked

(* wake_agent_by_pid, and so wake_one, for every task of W.                *)
WakeAll(W) ==
    /\ \E order \in Orders(W) : ready' = ready \o order
    /\ status' = [q \in Pids |-> IF q \in W THEN "Ready" ELSE status[q]]
    /\ blocked' = blocked \ W

(* Variant: the suspended task is not put back in the queue. *)
SysYieldForgets(p) ==
    /\ InUser(p)
    /\ status' = [status EXCEPT ![p] = "Ready"]
    /\ current' = NoTask
    /\ UNCHANGED <<treeVars, priority, ready, blocked, agents, ext, wait, sent, now>>

(* sys_yield, and one round of Stdin::read without input. *)
SysYield(p) ==
    /\ InUser(p)
    /\ ready' = Add(ready, p)
    /\ status' = [status EXCEPT ![p] = "Ready"]
    /\ current' = NoTask
    /\ UNCHANGED <<treeVars, priority, blocked, agents, ext, wait, sent, now>>

(* Time passes outside the handlers. *)
Elapse ==
    /\ now < MaxTime
    /\ now' = now + 1
    /\ UNCHANGED <<treeVars, schedVars, priority, agents, ext, wait, sent>>

(* The agents whose heartbeat the tick raises. *)
DueAgents(t) == {q \in Snapshot \cap agents : HeartbeatDue(ext[q], t)}

(* Variants of TimedOut: a sleeper is late only after its deadline; the    *)
(* trap handler does not call tick_wake_timeouts.                          *)
TimedOutAfter(t) == {q \in blocked : /\ wait[q].deadline # NoDeadline
                                     /\ t > wait[q].deadline}
TimedOutNever(t) == {}

(* tick_wake_timeouts: the sleepers whose deadline has passed. *)
TimedOut(t) == {q \in blocked : /\ wait[q].deadline # NoDeadline
                                /\ t >= wait[q].deadline}

(* Variant of Beaten: the tick marks the heartbeat and wakes nobody. *)
BeatenSleepOn(due) == {}

(* The sleepers among the due agents, which tick_all_agents wakes. *)
Beaten(due) == due \cap blocked

(* The SupervisorTimer trap: tick_all_agents, tick_wake_timeouts (which    *)
(* reads the clock d later), suspend_current_and_run_next.                 *)
TimerTrap(p, d) ==
    /\ InUser(p)
    /\ now + d =< MaxTime
    /\ now' = now + d
    /\ LET due  == DueAgents(now)
           beat == Beaten(due)
           late == TimedOut(now + d) \ beat
       IN
        /\ ext' = [q \in Pids |-> IF q \in due THEN Beat(ext[q], now) ELSE ext[q]]
        /\ \E o1 \in Orders(beat), o2 \in Orders(late) :
                ready' = Add((ready \o o1) \o o2, p)
        /\ status' = [q \in Pids |-> IF q \in beat \cup late \cup {p}
                                     THEN "Ready" ELSE status[q]]
        /\ blocked' = blocked \ (beat \cup late)
    /\ current' = NoTask
    /\ UNCHANGED <<treeVars, priority, agents, wait, sent>>

-------------------------------------------------------------------------------
(* Processes: sys_fork, sys_exit and the fault handlers, sys_waitpid.      *)

(* PidAllocator::alloc: the last recycled pid, or a new one. *)
AllocPid == IF recycled = <<>> THEN pidNext ELSE recycled[Len(recycled)]

(* Variant: a recycled pid is read and not removed. *)
SysForkKeepsPid(p) ==
    /\ InUser(p)
    /\ p = InitProc => pidNext = 1
    /\ AllocPid =< MaxPid
    /\ LET c == AllocPid IN
        /\ status' = [status EXCEPT ![c] = "Ready"]
        /\ priority' = [priority EXCEPT ![c] = priority[p]]
        /\ children' = [children EXCEPT ![p] = @ \cup {c}]
        /\ ready' = Add(ready, c)
    /\ pidNext' = IF recycled = <<>> THEN pidNext + 1 ELSE pidNext
    /\ UNCHANGED <<recycled, current, blocked, agents, ext, wait, sent, now>>

SysFork(p) ==
    /\ InUser(p)
    /\ p = InitProc => pidNext = 1
    /\ AllocPid =< MaxPid
    /\ LET c == AllocPid IN
        /\ status' = [status EXCEPT ![c] = "Ready"]
        /\ priority' = [priority EXCEPT ![c] = priority[p]]
        /\ children' = [children EXCEPT ![p] = @ \cup {c}]
        /\ ready' = Add(ready, c)
    /\ IF recycled = <<>>
       THEN pidNext' = pidNext + 1 /\ UNCHANGED recycled
       ELSE recycled' = SubSeq(recycled, 1, Len(recycled) - 1) /\ UNCHANGED pidNext
    /\ UNCHANGED <<current, blocked, agents, ext, wait, sent, now>>

(* Variant: the children are not handed to INITPROC. *)
SysExitOrphans(p) ==
    /\ InApp(p)
    /\ status' = [status EXCEPT ![p] = "Zombie"]
    /\ children' = [children EXCEPT ![p] = {}]
    /\ current' = NoTask
    /\ UNCHANGED <<pidNext, recycled, priority, ready, blocked, agents, ext,
                   wait, sent, now>>

(* exit_current_and_run_next: the children go to INITPROC; agent_ext stays *)
(* with the zombie.  (When INITPROC exits the machine shuts down, but      *)
(* initproc.rs never exits.)                                               *)
SysExit(p) ==
    /\ InApp(p)
    /\ status' = [status EXCEPT ![p] = "Zombie"]
    /\ children' = [children EXCEPT ![InitProc] = @ \cup children[p], ![p] = {}]
    /\ current' = NoTask
    /\ UNCHANGED <<pidNext, recycled, priority, ready, blocked, agents, ext,
                   wait, sent, now>>

(* Variant: any child is reaped, not only a zombie. *)
SysWaitpidAny(p, c) ==
    /\ InUser(p)
    /\ c \in children[p]
    /\ children' = [children EXCEPT ![p] = @ \ {c}]
    /\ recycled' = Append(recycled, c)
    /\ status' = [status EXCEPT ![c] = "Free"]
    /\ priority' = [priority EXCEPT ![c] = DefaultPriority]
    /\ agents' = agents \ {c}
    /\ ext' = [ext EXCEPT ![c] = NewExt]
    /\ sent' = [sent EXCEPT ![c] = 0]
    /\ UNCHANGED <<pidNext, ready, current, blocked, wait, now>>

(* sys_waitpid finding a zombie child: the TCB is dropped and its pid      *)
(* recycled.  (With no such child it returns -1 or -2 and changes nothing.)*)
SysWaitpid(p, c) ==
    /\ InUser(p)
    /\ c \in children[p] /\ status[c] = "Zombie"
    /\ children' = [children EXCEPT ![p] = @ \ {c}]
    /\ recycled' = Append(recycled, c)
    /\ status' = [status EXCEPT ![c] = "Free"]
    /\ priority' = [priority EXCEPT ![c] = DefaultPriority]
    /\ agents' = agents \ {c}
    /\ ext' = [ext EXCEPT ![c] = NewExt]
    /\ sent' = [sent EXCEPT ![c] = 0]
    /\ UNCHANGED <<pidNext, ready, current, blocked, wait, now>>

-------------------------------------------------------------------------------
(* System calls by which a task changes its own scheduling data.           *)

(* sys_agent_create.  (The address space is AgentMemory's matter: there    *)
(* the call panics the kernel for the child of an agent.)                  *)
SysAgentCreate(p) ==
    /\ InApp(p) /\ p \notin agents
    /\ agents' = agents \cup {p}
    /\ ext' = [ext EXCEPT ![p] = NewExt]
    /\ UNCHANGED <<treeVars, schedVars, priority, wait, sent, now>>

SysAgentSetPriority(p, v) ==
    /\ InApp(p)
    /\ priority' = [priority EXCEPT ![p] = IF v < MaxPriority THEN v ELSE MaxPriority]
    /\ UNCHANGED <<treeVars, schedVars, agents, ext, wait, sent, now>>

(* An Agent system call that only changes the caller's own AgentExt.       *)
SetOwnExt(p, e) ==
    /\ InApp(p) /\ p \in agents
    /\ ext' = [ext EXCEPT ![p] = e]
    /\ UNCHANGED <<treeVars, schedVars, priority, agents, wait, sent, now>>

SysAgentHeartbeatSet(p, v) ==
    SetOwnExt(p, [ext[p] EXCEPT !.interval = v, !.last = now, !.hbPending = FALSE])

SysAgentHeartbeatStop(p) ==
    SetOwnExt(p, [ext[p] EXCEPT !.interval = 0, !.hbPending = FALSE])

SysAgentWatch(p, m) ==
    SetOwnExt(p, [ext[p] EXCEPT !.watched = @ \cup m])

SysAgentUnwatch(p, m) ==
    SetOwnExt(p, [ext[p] EXCEPT !.watched = @ \ m])

SysAgentSetLoopState(p, s) ==
    SetOwnExt(p, [ext[p] EXCEPT !.loop = s])

(* sys_mailbox_recv takes the oldest message (-6 and no change if empty).  *)
SysMailboxRecv(p) ==
    /\ ext[p].mailbox # <<>>
    /\ SetOwnExt(p, [ext[p] EXCEPT !.mailbox = Tail(@)])

(* sys_tool_call without a delivery.  It enters Calling; a request that    *)
(* does not decode or dispatch returns there, every other call, the        *)
(* refused message included, ends in Observing.                            *)
SysToolCall(p, end) ==
    SetOwnExt(p, [ext[p] EXCEPT !.loop = end])

-------------------------------------------------------------------------------
(* System calls that raise events at other agents.                         *)

(* Variant: the message is delivered and nobody is woken. *)
SysToolCallSendSilent(p, q) ==
    /\ InApp(p) /\ p \in agents
    /\ q \in Snapshot \cap agents
    /\ sent[q] < MaxSends
    /\ sent' = [sent EXCEPT ![q] = @ + 1]
    /\ LET delivered ==
            [ext EXCEPT ![q] = Deliver(@, sent[q] + 1, MailboxCapacity)]
       IN  ext' = [delivered EXCEPT ![p].loop = "Observing"]
    /\ UNCHANGED <<treeVars, schedVars, priority, agents, wait, now>>

(* sys_tool_call with send_message to an agent: deliver_message finds the  *)
(* target in the snapshot, a zombie included, and wakes it if it sleeps.   *)
SysToolCallSend(p, q) ==
    /\ InApp(p) /\ p \in agents
    /\ q \in Snapshot \cap agents
    /\ sent[q] < MaxSends
    /\ sent' = [sent EXCEPT ![q] = @ + 1]
    /\ LET delivered ==
            [ext EXCEPT ![q] = Deliver(@, sent[q] + 1, MailboxCapacity)]
       IN  ext' = [delivered EXCEPT ![p].loop = "Observing"]
    /\ WakeAll({q} \cap blocked)
    /\ UNCHANGED <<treeVars, priority, current, agents, wait, now>>

(* sys_file_attr_set, and sys_file_attr_del when it removed something:     *)
(* broadcast_file_event marks and wakes the agents that watch files.       *)
FileWatchers == {q \in Snapshot \cap agents : File \in ext[q].watched}

(* Variant: the watchers are marked and not woken. *)
SysFileAttrSilent(p) ==
    /\ InApp(p)
    /\ ext' = [q \in Pids |-> IF q \in FileWatchers
                              THEN [ext[q] EXCEPT !.filePending = TRUE] ELSE ext[q]]
    /\ UNCHANGED <<treeVars, schedVars, priority, agents, wait, sent, now>>

SysFileAttr(p) ==
    /\ InApp(p)
    /\ ext' = [q \in Pids |-> IF q \in FileWatchers
                              THEN [ext[q] EXCEPT !.filePending = TRUE] ELSE ext[q]]
    /\ WakeAll(FileWatchers \cap blocked)
    /\ UNCHANGED <<treeVars, priority, current, agents, wait, sent, now>>

-------------------------------------------------------------------------------
(* sys_agent_wait. *)

(* Variant: the timeout itself is taken for the deadline. *)
DeadlineForRelative(t, timeout) == IF timeout < 0 THEN NoDeadline ELSE timeout

(* get_time_ms() as i64 + timeout_ms wraps in a release build; a negative  *)
(* sum becomes deadline 0.                                                 *)
DeadlineFor(t, timeout) ==
    IF timeout < 0 THEN NoDeadline
    ELSE IF t + timeout > IntMax THEN 0 ELSE t + timeout

Expired(w, t) == w.timeout >= 0 /\ t - w.start >= w.timeout

(* Variant: the agent falls asleep in whatever loop state it was. *)
WaitTurnStateless(p, w, t) ==
    \/ /\ Triggered(ext[p]) # {} \/ Expired(w, t)
       /\ ext' = [ext EXCEPT ![p] = Consume(@)]
       /\ wait' = [wait EXCEPT ![p] = NoWait]
       /\ UNCHANGED schedVars
    \/ /\ Triggered(ext[p]) = {} /\ ~Expired(w, t)
       /\ wait' = [wait EXCEPT ![p] = w]
       /\ status' = [status EXCEPT ![p] = "Blocked"]
       /\ blocked' = blocked \cup {p}
       /\ current' = NoTask
       /\ UNCHANGED <<ready, ext>>

(* One turn of the loop at time t for the call with locals w: return the   *)
(* triggered events, or 0 on a timeout, or block_current_agent.            *)
WaitTurn(p, w, t) ==
    \/ /\ Triggered(ext[p]) # {} \/ Expired(w, t)
       /\ ext' = [ext EXCEPT ![p] = Consume(@)]
       /\ wait' = [wait EXCEPT ![p] = NoWait]
       /\ UNCHANGED schedVars
    \/ /\ Triggered(ext[p]) = {} /\ ~Expired(w, t)
       /\ ext' = [ext EXCEPT ![p].loop = "Thinking"]
       /\ wait' = [wait EXCEPT ![p] = w]
       /\ status' = [status EXCEPT ![p] = "Blocked"]
       /\ blocked' = blocked \cup {p}
       /\ current' = NoTask
       /\ UNCHANGED ready

(* The call reads the clock three times: start_ms, the deadline's base d   *)
(* later, and e after the start for the timeout check of the first turn.   *)
SysAgentWait(p, timeout, d, e) ==
    /\ InApp(p) /\ p \in agents
    /\ now + e =< MaxTime
    /\ now' = now + e
    /\ WaitTurn(p, [active |-> TRUE, start |-> now, timeout |-> timeout,
                    deadline |-> DeadlineFor(now + d, timeout)], now + e)
    /\ UNCHANGED <<treeVars, priority, agents, sent>>

(* The task was woken and scheduled: schedule() returns into the loop.     *)
WaitResume(p) ==
    /\ current = p /\ wait[p].active
    /\ WaitTurn(p, wait[p], now)
    /\ UNCHANGED <<treeVars, priority, agents, sent, now>>

-------------------------------------------------------------------------------
UserStep(p) ==
    \/ SysYield(p)
    \/ SysFork(p)
    \/ SysExit(p)
    \/ \E c \in Pids : SysWaitpid(p, c)
    \/ SysAgentCreate(p)
    \/ \E v \in Priorities : SysAgentSetPriority(p, v)
    \/ \E v \in Intervals : SysAgentHeartbeatSet(p, v)
    \/ SysAgentHeartbeatStop(p)
    \/ \E m \in Masks : SysAgentWatch(p, m) \/ SysAgentUnwatch(p, m)
    \/ \E s \in LoopInputs : SysAgentSetLoopState(p, s)
    \/ SysMailboxRecv(p)
    \/ \E end \in ToolOutcomes : SysToolCall(p, end)
    \/ \E q \in Pids : SysToolCallSend(p, q)
    \/ SysFileAttr(p)
    \/ \E timeout \in Timeouts, d \in 0 .. MaxSkew :
          \E e \in d .. MaxSkew : SysAgentWait(p, timeout, d, e)

Timer(p) == \E d \in 0 .. MaxSkew : TimerTrap(p, d)

Next ==
    \/ RunTasks
    \/ Elapse
    \/ \E p \in Pids : UserStep(p) \/ Timer(p) \/ WaitResume(p)

(* The kernel runs to completion and the idle loop spins (weak fairness);  *)
(* the clock advances; a pending timer interrupt is taken as soon as a     *)
(* task is in user mode, whatever ran before (strong fairness).  INITPROC  *)
(* does nothing but wait(-1) and yield; sys_waitpid takes the first zombie *)
(* in its list and orphans join at the end, so if it runs again and again  *)
(* it gets to each of them.  Nothing is assumed of what applications do.   *)
Fairness ==
    /\ WF_vars(RunTasks)
    /\ WF_vars(Elapse)
    /\ \A p \in Pids : WF_vars(WaitResume(p))
    /\ SF_vars(\E p \in Pids : Timer(p))
    /\ \A c \in Pids : SF_vars(SysWaitpid(InitProc, c))

Spec     == Init /\ [][Next]_vars
FairSpec == Spec /\ Fairness

-------------------------------------------------------------------------------
(* Type invariant. *)
TypeOK ==
    /\ pidNext \in 1 .. MaxPid + 1
    /\ recycled \in Seq(Pids)
    /\ status \in [Pids -> Statuses]
    /\ priority \in [Pids -> 0 .. MaxPriority]
    /\ children \in [Pids -> SUBSET Pids]
    /\ ready \in Seq(Pids)
    /\ current \in Pids \cup {NoTask}
    /\ blocked \subseteq Pids
    /\ agents \subseteq Pids
    /\ ext \in [Pids -> AgentExt]
    /\ wait \in [Pids -> WaitFrame]
    /\ sent \in [Pids -> Nat]
    /\ now \in Nat

(* Every task is in exactly one place, the one its status names: once in   *)
(* the ready queue, on the processor, or in BLOCKED_AGENTS; a zombie is in *)
(* none of them, so that the list of its parent holds the only reference   *)
(* (the assertion on Arc::strong_count in sys_waitpid).                    *)
OnePlace ==
    /\ IsInjective(ready)
    /\ \A p \in Pids :
        /\ status[p] = "Ready" <=> p \in Range(ready)
        /\ status[p] = "Running" <=> current = p
        /\ status[p] = "Blocked" <=> p \in blocked

(* Every task but INITPROC is in the children list of exactly one task,    *)
(* which is alive; and snapshot_all_processes finds all the tasks, however *)
(* their parents exited: no agent is lost to ticks, messages and           *)
(* broadcasts.                                                             *)
TreeComplete ==
    /\ \A p, q \in Pids : p # q => children[p] \cap children[q] = {}
    /\ \A p \in Pids : /\ children[p] \subseteq Live \ {InitProc}
                       /\ children[p] # {} => status[p] \notin {"Free", "Zombie"}
    /\ Snapshot = Live

(* A pid below PidAllocator::current is either in use or recycled, once:   *)
(* the assertions of PidAllocator::dealloc hold and alloc returns no pid   *)
(* in use.                                                                 *)
PidsPartitioned ==
    /\ IsInjective(recycled)
    /\ Live \cap Range(recycled) = {}
    /\ Live \cup Range(recycled) = 0 .. pidNext - 1

(* No lost wake-up: while an agent sleeps in sys_agent_wait, no event that *)
(* would end its wait is pending.                                          *)
NoLostWakeup == \A p \in blocked : Triggered(ext[p]) = {}

(* The hart never goes idle for good: run_tasks with an empty queue spins  *)
(* with interrupts disabled and no timer could ever wake anybody.          *)
NeverIdle == current # NoTask \/ ready # <<>>

(* The scan of TaskManager::fetch finds exactly the entry the scheduler    *)
(* above picks (IsBest), the first of the highest level, on every          *)
(* reachable queue and for any priorities of its tasks.                    *)
ScanFindsBest ==
    ready # <<>> =>
        \A prio \in [Range(ready) -> 0 .. 2] :
            {i \in 1 .. Len(ready) : IsBest(ready, prio, i)} = {FetchScan(ready, prio)}

(* A sleeping task, and a woken one until its sys_agent_wait returns, is   *)
(* an agent in state Thinking with the call's locals on its stack.         *)
SleepersThink ==
    \A p \in Pids :
        /\ p \in blocked => wait[p].active
        /\ wait[p].active => /\ p \in agents /\ ext[p].loop = "Thinking"
                             /\ status[p] \in {"Ready", "Running", "Blocked"}

(* A mailbox holds the newest messages delivered, in order and without a   *)
(* gap, at most mailbox_capacity of them: overflow only costs the oldest.  *)
MailboxKeepsNewest ==
    \A p \in Pids :
        LET mb == ext[p].mailbox IN
        /\ Len(mb) =< MailboxCapacity
        /\ \A i \in 1 .. Len(mb) : mb[i] = sent[p] - Len(mb) + i

(* INITPROC never sleeps or exits; with the parts above this makes the     *)
(* invariants inductive.                                                   *)
InitProcAlive ==
    status[InitProc] \in {"Ready", "Running"} /\ ~wait[InitProc].active

KernelInv ==
    /\ TypeOK
    /\ OnePlace
    /\ TreeComplete
    /\ PidsPartitioned
    /\ SleepersThink
    /\ NoLostWakeup
    /\ MailboxKeepsNewest
    /\ InitProcAlive

(* The call with locals w has a timeout, and its deadline does not wrap.   *)
Fits(w) == w.timeout >= 0 /\ w.start + MaxSkew + w.timeout =< IntMax

(* A step that puts an agent to sleep does so before its deadline. *)
SleepStep ==
    \A p \in blocked' \ blocked : Fits(wait'[p]) => now' < wait'[p].deadline

(* An agent goes to sleep only when its deadline lies in the future, so a  *)
(* wake-up by tick_wake_timeouts always ends the wait (unless the deadline *)
(* overflowed).                                                            *)
SleepsBeforeDeadline == [][SleepStep]_vars

(* A timer trap leaves no due sleeper asleep: whoever sleeps after it had  *)
(* no heartbeat due in the state the trap found.  (The trap resets the     *)
(* time of the last beat, so the state after it could not tell.)           *)
TickStep ==
    (\E p \in Pids : Timer(p)) =>
        \A q \in blocked' :
            /\ ~HeartbeatDue(ext[q], now)
            /\ wait[q].deadline # NoDeadline => now < wait[q].deadline

(* After a timer trap (tick_all_agents, tick_wake_timeouts) nobody sleeps  *)
(* past its deadline or on a heartbeat that was due when the trap was      *)
(* taken.                                                                  *)
TickWakesAllDue == [][TickStep]_vars

(* sys_agent_wait with a timeout returns: the agent sleeps no longer than  *)
(* its deadline and is scheduled again.                                    *)
TimedWaitReturns ==
    \A p \in Pids :
        (/\ wait[p].active
         /\ wait[p].timeout >= 0
         /\ wait[p].start + MaxSkew + wait[p].timeout =< MaxTime)
            ~> ~wait[p].active

(* A watched event ends the wait. *)
EventEndsWait ==
    \A p \in Pids : wait[p].active /\ Triggered(ext[p]) # {} ~> ~wait[p].active

(* No starvation: a ready task gets the processor.                         *)
ReadyRuns == \A p \in Pids : status[p] = "Ready" ~> status[p] = "Running"

(* A zombie that is in no application's list of children, because its      *)
(* parent exited before or after it, does not stay: it went to INITPROC,   *)
(* whose wait loop reaps it and returns its pid.                           *)
OrphansReaped ==
    \A c \in Pids :
        (status[c] = "Zombie" /\ \A p \in Pids \ {InitProc} : c \notin children[p])
            ~> status[c] # "Zombie"

Channel == INSTANCE EventChannel WITH
    Tasks <- Pids,
    open <- agents,
    raised <- [p \in Pids |-> Pending(ext[p])],
    mask <- [p \in Pids |-> WaitMask(ext[p])],
    asleep <- blocked

(* The event loop implements the event channel: an event raised for an     *)
(* agent by a tick, a message or a file change is kept, through waits that *)
(* report others, timeouts, changes of the mask and tool calls, until the  *)
(* agent itself disposes of it, and no agent sleeps on one it waits for.   *)
ImplementsChannel == Channel!ChannelSpec

(* The comment of sys_agent_wait: with watched_events = 0 an agent is      *)
(* taken to care about all events, file events included.                   *)
DefaultWatchesAll ==
    [][(\E p \in Pids : SysFileAttr(p)) =>
          \A q \in blocked : ext[q].watched = {} => q \notin blocked']_vars
===============================================================================
