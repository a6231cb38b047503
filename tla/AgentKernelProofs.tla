-------------------------- MODULE AgentKernelProofs ---------------------------
(***************************************************************************)
(* The safety invariants of the scheduler, the process tree, the pid       *)
(* allocator, the wait list and the mailboxes, proved for every number of  *)
(* tasks, priorities, timeouts, masks and mailbox capacities.  KernelInv   *)
(* is the inductive invariant: its conjuncts are proved one after another, *)
(* each from the ones before it.                                           *)
(***************************************************************************)
EXTENDS AgentKernel, TLAPS, FiniteSetTheorems

(* The pids in use are finitely many, whatever set of them is taken. *)
LEMMA PidsFinite == \A S \in SUBSET Pids : IsFiniteSet(S) /\ Cardinality(S) \in Nat
<1>1. IsFiniteSet(Pids)
  BY FS_Interval, BoundsAssumption DEF Pids
<1>2. QED
  BY <1>1, FS_Subset, FS_CardinalityType

(* An order in which a batch of sleepers is woken is a list of exactly     *)
(* those sleepers, each once.                                              *)
LEMMA OrdersAreLists ==
  ASSUME NEW S \in SUBSET Pids, NEW o \in Orders(S)
  PROVE  o \in Seq(Pids) /\ IsInjective(o) /\ Range(o) = S
<1>1. Cardinality(S) \in Nat
  BY PidsFinite
<1>2. o \in [1 .. Cardinality(S) -> S]
  BY DEF Orders, Bijection, Injection
<1>3. IsInjective(o)
  BY DEF Orders, Bijection, Injection
<1>4. \A t \in S : \E s \in 1 .. Cardinality(S) : o[s] = t
  BY DEF Orders, Bijection, Surjection
<1>5. o \in Seq(S)
  BY <1>1, <1>2
<1>6. QED
  BY <1>2, <1>3, <1>4, <1>5 DEF Range

(* Two lists without duplicates and without a common member concatenate to *)
(* a list without duplicates.                                              *)
LEMMA ConcatDistinct ==
  ASSUME NEW q \in Seq(Pids), NEW o \in Seq(Pids),
         IsInjective(q), IsInjective(o), Range(q) \cap Range(o) = {}
  PROVE  /\ q \o o \in Seq(Pids) /\ IsInjective(q \o o)
         /\ Range(q \o o) = Range(q) \cup Range(o)
<1>1. q \o o \in Seq(Pids)
  OBVIOUS
<1>2. IsInjective(q \o o)
  <2> DEFINE n == Len(q)
  <2>1. \A a \in DOMAIN (q \o o) :
          \/ a \in DOMAIN q /\ (q \o o)[a] = q[a]
          \/ a - n \in DOMAIN o /\ a \in Int /\ (q \o o)[a] = o[a - n]
    OBVIOUS
  <2>2. \A a \in DOMAIN q, b \in DOMAIN o : q[a] # o[b]
    BY DEF Range
  <2>3. SUFFICES ASSUME NEW a \in DOMAIN (q \o o), NEW b \in DOMAIN (q \o o),
                        (q \o o)[a] = (q \o o)[b]
                 PROVE  a = b
    BY DEF IsInjective
  <2>4. a \in Int /\ b \in Int /\ n \in Int
    OBVIOUS
  <2>5. CASE a \in DOMAIN q /\ b \in DOMAIN q /\ q[a] = q[b]
    BY <2>5 DEF IsInjective
  <2>6. CASE a - n \in DOMAIN o /\ b - n \in DOMAIN o /\ o[a - n] = o[b - n]
    <3>1. a - n = b - n
      BY <2>6 DEF IsInjective
    <3>2. QED
      BY <3>1, <2>4
  <2>7. QED
    BY <2>1, <2>2, <2>3, <2>5, <2>6
<1>3. Range(q \o o) = Range(q) \cup Range(o)
  <2> DEFINE n == Len(q)
  <2>1. \A a \in DOMAIN (q \o o) :
          \/ a \in DOMAIN q /\ (q \o o)[a] = q[a]
          \/ a - n \in DOMAIN o /\ (q \o o)[a] = o[a - n]
    OBVIOUS
  <2>2. \A a \in DOMAIN q : a \in DOMAIN (q \o o) /\ (q \o o)[a] = q[a]
    OBVIOUS
  <2>3. \A a \in DOMAIN o : a + n \in DOMAIN (q \o o) /\ (q \o o)[a + n] = o[a]
    OBVIOUS
  <2>4. Range(q \o o) \subseteq Range(q) \cup Range(o)
    BY <2>1 DEF Range
  <2>5. Range(q) \subseteq Range(q \o o)
    BY <2>2 DEF Range
  <2>6. Range(o) \subseteq Range(q \o o)
    BY <2>3 DEF Range
  <2>7. QED
    BY <2>4, <2>5, <2>6
<1>4. QED
  BY <1>1, <1>2, <1>3

(* add_task of a task that is not queued keeps the ready queue free of     *)
(* duplicates.                                                             *)
LEMMA AppendDistinct ==
  ASSUME NEW q \in Seq(Pids), NEW p \in Pids, IsInjective(q), p \notin Range(q)
  PROVE  /\ Append(q, p) \in Seq(Pids) /\ IsInjective(Append(q, p))
         /\ Range(Append(q, p)) = Range(q) \cup {p}
<1>1. IsInjective(Append(q, p))
  BY DEF IsInjective, Range
<1>2. Range(Append(q, p)) = Range(q) \cup {p}
  BY DEF Range
<1>3. QED
  BY <1>1, <1>2

(* remove_at in fetch takes out exactly the chosen task and keeps the      *)
(* queue free of duplicates.                                               *)
LEMMA RemoveDistinct ==
  ASSUME NEW q \in Seq(Pids), NEW i \in 1 .. Len(q), IsInjective(q)
  PROVE  /\ RemoveIndex(q, i) \in Seq(Pids) /\ IsInjective(RemoveIndex(q, i))
         /\ Range(RemoveIndex(q, i)) = Range(q) \ {q[i]}
<1> DEFINE r == RemoveIndex(q, i)
           front == SubSeq(q, 1, i - 1)
           back == SubSeq(q, i + 1, Len(q))
           src(k) == IF k < i THEN k ELSE k + 1
<1>1. Len(q) \in Nat /\ i \in Nat /\ 1 =< i /\ i =< Len(q)
  OBVIOUS
<1>a. /\ front \in Seq(Pids) /\ Len(front) = i - 1
      /\ \A k \in 1 .. i - 1 : front[k] = q[k]
  BY <1>1
<1>b. /\ back \in Seq(Pids) /\ Len(back) = Len(q) - i
      /\ \A k \in 1 .. Len(q) - i : back[k] = q[i + k]
  BY <1>1
<1>c. r = front \o back
  BY DEF RemoveIndex
<1>2. r \in Seq(Pids) /\ Len(r) = Len(q) - 1
  <2> HIDE DEF front, back, r
  <2> QED BY <1>1, <1>a, <1>b, <1>c
<1>3. \A k \in 1 .. Len(r) : r[k] = q[src(k)] /\ src(k) \in 1 .. Len(q) /\ src(k) # i
  <2> SUFFICES ASSUME NEW k \in 1 .. Len(r)
               PROVE  r[k] = q[src(k)] /\ src(k) \in 1 .. Len(q) /\ src(k) # i
    OBVIOUS
  <2> HIDE DEF front, back, r
  <2>1. CASE k < i
    BY <2>1, <1>1, <1>a, <1>b, <1>c, <1>2
  <2>2. CASE k >= i
    <3>1. r[k] = back[k - (i - 1)] /\ k - (i - 1) \in 1 .. Len(q) - i
      BY <2>2, <1>1, <1>a, <1>b, <1>c, <1>2
    <3>2. QED
      BY <3>1, <2>2, <1>1, <1>b, <1>2
  <2>3. QED
    BY <2>1, <2>2, <1>1
<1>4. \A j \in 1 .. Len(q) : j # i => \E k \in 1 .. Len(r) : src(k) = j
  <2> SUFFICES ASSUME NEW j \in 1 .. Len(q), j # i
               PROVE  \E k \in 1 .. Len(r) : src(k) = j
    OBVIOUS
  <2>1. CASE j < i
    BY <2>1, <1>1, <1>2, SMTT(40)
  <2>2. CASE j > i
    <3>1. j - 1 \in 1 .. Len(r) /\ src(j - 1) = j
      BY <2>2, <1>1, <1>2
    <3>2. QED
      BY <3>1
  <2>3. QED
    BY <2>1, <2>2, <1>1
<1>5. DOMAIN r = 1 .. Len(r) /\ DOMAIN q = 1 .. Len(q)
  BY <1>2
<1>6. IsInjective(r)
  <2> SUFFICES ASSUME NEW a \in 1 .. Len(r), NEW b \in 1 .. Len(r), r[a] = r[b]
               PROVE  a = b
    BY <1>5 DEF IsInjective
  <2>1. src(a) = src(b)
    BY <1>3, <1>5 DEF IsInjective
  <2>2. QED
    BY <2>1, <1>1, <1>2
<1>7. Range(r) = Range(q) \ {q[i]}
  <2> HIDE DEF r, src
  <2>1. Range(r) = {r[k] : k \in 1 .. Len(r)} /\ Range(q) = {q[k] : k \in 1 .. Len(q)}
    BY <1>5 DEF Range
  <2>2. \A a, b \in 1 .. Len(q) : q[a] = q[b] => a = b
    BY <1>5 DEF IsInjective
  <2>3. \A k \in 1 .. Len(r) : \E j \in 1 .. Len(q) : j # i /\ r[k] = q[j]
    BY <1>3
  <2>4. \A j \in 1 .. Len(q) : j # i => \E k \in 1 .. Len(r) : r[k] = q[j]
    BY <1>3, <1>4
  <2>5. Range(r) \subseteq Range(q) \ {q[i]}
    BY <2>1, <2>2, <2>3
  <2>6. Range(q) \ {q[i]} \subseteq Range(r)
    BY <2>1, <2>4
  <2>7. QED
    BY <2>5, <2>6
<1>8. QED
  BY <1>2, <1>6, <1>7

(* The operators that update an AgentExt record return one. *)
LEMMA ExtTypes ==
  ASSUME NEW e \in AgentExt
  PROVE  /\ Consume(e) \in AgentExt
         /\ \A t \in Nat : Beat(e, t) \in AgentExt
         /\ \A m \in Nat : Deliver(e, m, MailboxCapacity) \in AgentExt
         /\ [e EXCEPT !.filePending = TRUE] \in AgentExt
         /\ \A s \in LoopStates : [e EXCEPT !.loop = s] \in AgentExt
         /\ \A m \in SUBSET Bits : /\ [e EXCEPT !.watched = @ \cup m] \in AgentExt
                                   /\ [e EXCEPT !.watched = @ \ m] \in AgentExt
         /\ e.mailbox # <<>> => [e EXCEPT !.mailbox = Tail(@)] \in AgentExt
<1>1. Consume(e) \in AgentExt
  BY DEF Consume, AgentExt, LoopStates
<1>2. \A t \in Nat : Beat(e, t) \in AgentExt
  BY DEF Beat, AgentExt
<1>3. \A m \in Nat : Deliver(e, m, MailboxCapacity) \in AgentExt
  <2> SUFFICES ASSUME NEW m \in Nat PROVE Deliver(e, m, MailboxCapacity) \in AgentExt
    OBVIOUS
  <2>1. e.mailbox \in Seq(Nat)
    BY DEF AgentExt
  <2> DEFINE kept == IF Len(e.mailbox) >= MailboxCapacity THEN Tail(e.mailbox) ELSE e.mailbox
  <2>2. kept \in Seq(Nat)
    <3>1. CASE Len(e.mailbox) >= MailboxCapacity
      <4>1. e.mailbox # <<>>
        BY <3>1, ParametersAssumption
      <4>2. QED
        BY <4>1, <2>1, <3>1
    <3>2. CASE ~(Len(e.mailbox) >= MailboxCapacity)
      BY <3>2, <2>1
    <3>3. QED
      BY <3>1, <3>2
  <2>3. Append(kept, m) \in Seq(Nat)
    BY <2>2
  <2>4. QED
    BY <2>3 DEF Deliver, AgentExt
<1>4. /\ [e EXCEPT !.filePending = TRUE] \in AgentExt
      /\ \A s \in LoopStates : [e EXCEPT !.loop = s] \in AgentExt
      /\ \A m \in SUBSET Bits : /\ [e EXCEPT !.watched = @ \cup m] \in AgentExt
                                /\ [e EXCEPT !.watched = @ \ m] \in AgentExt
  BY DEF AgentExt
<1>5. e.mailbox # <<>> => [e EXCEPT !.mailbox = Tail(@)] \in AgentExt
  <2>1. e.mailbox # <<>> => Tail(e.mailbox) \in Seq(Nat)
    BY DEF AgentExt
  <2>2. QED
    BY <2>1 DEF AgentExt
<1>6. QED
  BY <1>1, <1>2, <1>3, <1>4, <1>5

(***************************************************************************)
(* The type invariant.                                                     *)
(***************************************************************************)
(* One turn of the loop in sys_agent_wait leaves the state well typed. *)
LEMMA WaitTurnTypes ==
  ASSUME TypeOK, NEW p \in Pids, NEW w \in WaitFrame, NEW t \in Nat, WaitTurn(p, w, t)
  PROVE  /\ status' \in [Pids -> Statuses] /\ ready' \in Seq(Pids)
         /\ current' \in Pids \cup {NoTask} /\ blocked' \subseteq Pids
         /\ ext' \in [Pids -> AgentExt] /\ wait' \in [Pids -> WaitFrame]
<1> USE DEF TypeOK
<1>1. ext[p] \in AgentExt
  OBVIOUS
<1>2. Consume(ext[p]) \in AgentExt /\ [ext[p] EXCEPT !.loop = "Thinking"] \in AgentExt
  BY <1>1, ExtTypes DEF LoopStates
<1>3. NoWait \in WaitFrame
  BY ParametersAssumption DEF NoWait, WaitFrame
<1>4. ext' \in [Pids -> AgentExt]
  BY <1>2 DEF WaitTurn
<1>5. wait' \in [Pids -> WaitFrame]
  BY <1>3 DEF WaitTurn
<1>6. /\ status' \in [Pids -> Statuses] /\ ready' \in Seq(Pids)
      /\ current' \in Pids \cup {NoTask} /\ blocked' \subseteq Pids
  BY DEF WaitTurn, schedVars, Statuses
<1>7. QED
  BY <1>4, <1>5, <1>6

(* Every step leaves the state well typed. *)
LEMMA TypeStep == TypeOK /\ [Next]_vars => TypeOK'
<1> SUFFICES ASSUME TypeOK, [Next]_vars PROVE TypeOK'
  OBVIOUS
<1> USE DEF TypeOK, treeVars, schedVars
<1>n. NewExt \in AgentExt
  BY DEF NewExt, AgentExt, LoopStates
<1>1. CASE RunTasks
  <2>1. PICK i \in 1 .. Len(ready) : /\ current' = ready[i]
                                     /\ ready' = RemoveIndex(ready, i)
                                    /\ status' = [status EXCEPT ![ready[i]] = "Running"]
    BY <1>1 DEF RunTasks
  <2>2. RemoveIndex(ready, i) \in Seq(Pids)
    BY SMTT(40) DEF RemoveIndex
  <2>3. ready[i] \in Pids
    OBVIOUS
  <2>4. QED
    BY <1>1, <2>1, <2>2, <2>3 DEF RunTasks, Statuses
<1>2. CASE Elapse
  BY <1>2 DEF Elapse
<1>3. ASSUME NEW p \in Pids, SysYield(p) PROVE TypeOK'
  BY <1>3 DEF SysYield, Add, Statuses
<1>4. ASSUME NEW p \in Pids, SysFork(p) PROVE TypeOK'
  <2>1. AllocPid \in Pids
    <3>1. CASE recycled = <<>>
      BY <1>4, <3>1, BoundsAssumption DEF SysFork, AllocPid, Pids
    <3>2. CASE recycled # <<>>
      <4>1. Len(recycled) \in 1 .. Len(recycled)
        BY <3>2
      <4>2. recycled[Len(recycled)] \in Pids
        BY <4>1
      <4>3. QED
        BY <3>2, <4>2 DEF AllocPid
    <3>3. QED
      BY <3>1, <3>2
  <2>2. pidNext' \in 1 .. MaxPid + 1 /\ recycled' \in Seq(Pids)
    <3>1. CASE recycled = <<>>
      <4>1. pidNext =< MaxPid /\ pidNext' = pidNext + 1 /\ recycled' = recycled
        BY <1>4, <3>1 DEF SysFork, AllocPid
      <4>2. QED
        BY <4>1, BoundsAssumption
    <3>2. CASE recycled # <<>>
      <4>1. SubSeq(recycled, 1, Len(recycled) - 1) \in Seq(Pids)
        BY <3>2
      <4>2. QED
        BY <1>4, <3>2, <4>1 DEF SysFork
    <3>3. QED
      BY <3>1, <3>2
  <2>3. status' \in [Pids -> Statuses] /\ priority' \in [Pids -> 0 .. MaxPriority]
    BY <1>4, <2>1 DEF SysFork, Statuses
  <2>4. children' \in [Pids -> SUBSET Pids] /\ ready' \in Seq(Pids)
    BY <1>4, <2>1 DEF SysFork, Add
  <2>5. QED
    BY <1>4, <2>2, <2>3, <2>4 DEF SysFork
<1>5. ASSUME NEW p \in Pids, SysExit(p) PROVE TypeOK'
  BY <1>5, BoundsAssumption DEF SysExit, Statuses, InitProc, Pids
<1>6. ASSUME NEW p \in Pids, NEW c \in Pids, SysWaitpid(p, c) PROVE TypeOK'
  BY <1>6, <1>n, ParametersAssumption, SMTT(40) DEF SysWaitpid, Statuses
<1>7. ASSUME NEW p \in Pids, SysAgentCreate(p) PROVE TypeOK'
  BY <1>7, <1>n DEF SysAgentCreate
<1>8. ASSUME NEW p \in Pids, NEW v \in Priorities, SysAgentSetPriority(p, v) PROVE TypeOK'
  BY <1>8, InputsAssumption, ParametersAssumption, SMTT(40) DEF SysAgentSetPriority
<1>9. ASSUME NEW p \in Pids, NEW e \in AgentExt, SetOwnExt(p, e) PROVE TypeOK'
  BY <1>9 DEF SetOwnExt
<1>10. ASSUME NEW p \in Pids, NEW v \in Intervals, SysAgentHeartbeatSet(p, v) PROVE TypeOK'
  <2>1. [ext[p] EXCEPT !.interval = v, !.last = now, !.hbPending = FALSE] \in AgentExt
    <3>1. v \in Nat /\ now \in Nat /\ ext[p] \in AgentExt
      BY InputsAssumption
    <3>2. QED
      BY <3>1 DEF AgentExt
  <2>2. QED
    BY <1>9, <1>10, <2>1 DEF SysAgentHeartbeatSet
<1>11. ASSUME NEW p \in Pids, SysAgentHeartbeatStop(p) PROVE TypeOK'
  <2>1. [ext[p] EXCEPT !.interval = 0, !.hbPending = FALSE] \in AgentExt
    BY DEF AgentExt
  <2>2. QED
    BY <1>9, <1>11, <2>1 DEF SysAgentHeartbeatStop
<1>12. ASSUME NEW p \in Pids, NEW m \in Masks, SysAgentWatch(p, m) \/ SysAgentUnwatch(p, m)
       PROVE  TypeOK'
  <2>1. m \in SUBSET Bits /\ ext[p] \in AgentExt
    BY InputsAssumption
  <2>2. /\ [ext[p] EXCEPT !.watched = @ \cup m] \in AgentExt
        /\ [ext[p] EXCEPT !.watched = @ \ m] \in AgentExt
    BY <2>1, ExtTypes
  <2>3. QED
    BY <1>9, <1>12, <2>2 DEF SysAgentWatch, SysAgentUnwatch
<1>13. ASSUME NEW p \in Pids, NEW s \in LoopStates, SysAgentSetLoopState(p, s) \/ SysToolCall(p, s)
       PROVE  TypeOK'
  <2>1. [ext[p] EXCEPT !.loop = s] \in AgentExt
    BY ExtTypes
  <2>2. QED
    BY <1>9, <1>13, <2>1 DEF SysAgentSetLoopState, SysToolCall
<1>14. ASSUME NEW p \in Pids, SysMailboxRecv(p) PROVE TypeOK'
  <2>1. ext[p].mailbox # <<>>
    BY <1>14 DEF SysMailboxRecv
  <2>2. [ext[p] EXCEPT !.mailbox = Tail(@)] \in AgentExt
    BY <2>1, ExtTypes
  <2>3. QED
    BY <1>9, <1>14, <2>2 DEF SysMailboxRecv
<1>15. ASSUME NEW W \in SUBSET Pids, WakeAll(W)
       PROVE  /\ ready' \in Seq(Pids) /\ status' \in [Pids -> Statuses]
              /\ blocked' \subseteq Pids
  <2>1. PICK o \in Orders(W) : ready' = ready \o o
    BY <1>15 DEF WakeAll
  <2>2. o \in Seq(Pids)
    BY OrdersAreLists
  <2>3. QED
    BY <1>15, <2>1, <2>2 DEF WakeAll, Statuses
<1>16. ASSUME NEW p \in Pids, NEW q \in Pids, SysToolCallSend(p, q) PROVE TypeOK'
  <2> DEFINE delivered == [ext EXCEPT ![q] = Deliver(@, sent[q] + 1, MailboxCapacity)]
  <2>1. Deliver(ext[q], sent[q] + 1, MailboxCapacity) \in AgentExt
    <3>1. ext[q] \in AgentExt /\ sent[q] + 1 \in Nat
      OBVIOUS
    <3>2. QED
      BY <3>1, ExtTypes
  <2>2. delivered \in [Pids -> AgentExt]
    BY <2>1
  <2>3. [delivered[p] EXCEPT !.loop = "Observing"] \in AgentExt
    BY <2>2, ExtTypes DEF LoopStates
  <2>4. ext' \in [Pids -> AgentExt]
    BY <1>16, <2>2, <2>3 DEF SysToolCallSend
  <2>5. WakeAll({q} \cap blocked)
    BY <1>16 DEF SysToolCallSend
  <2>6. /\ ready' \in Seq(Pids) /\ status' \in [Pids -> Statuses]
        /\ blocked' \subseteq Pids
    BY <1>15, <2>5
  <2>7. sent' \in [Pids -> Nat]
    BY <1>16 DEF SysToolCallSend
  <2>8. QED
    BY <1>16, <2>4, <2>6, <2>7 DEF SysToolCallSend
<1>17. ASSUME NEW p \in Pids, SysFileAttr(p) PROVE TypeOK'
  <2>1. \A q \in Pids : [ext[q] EXCEPT !.filePending = TRUE] \in AgentExt
    BY ExtTypes
  <2>2. ext' \in [Pids -> AgentExt]
    BY <1>17, <2>1 DEF SysFileAttr
  <2>3. WakeAll(FileWatchers \cap blocked)
    BY <1>17 DEF SysFileAttr
  <2>4. QED
    BY <1>15, <1>17, <2>2, <2>3 DEF SysFileAttr
<1>18. ASSUME NEW p \in Pids, NEW timeout \in Timeouts, NEW d \in 0 .. MaxSkew,
              NEW e \in d .. MaxSkew, SysAgentWait(p, timeout, d, e)
       PROVE  TypeOK'
  <2> DEFINE w == [active |-> TRUE, start |-> now, timeout |-> timeout,
                   deadline |-> DeadlineFor(now + d, timeout)]
  <2>1. now + d \in Nat /\ now + e \in Nat /\ d \in Nat
    BY BoundsAssumption
  <2>2. w \in WaitFrame
    BY <2>1, InputsAssumption, ParametersAssumption DEF WaitFrame, DeadlineFor, NoDeadline
  <2>3. WaitTurn(p, w, now + e)
    BY <1>18 DEF SysAgentWait
  <2>4. QED
    BY <1>18, <2>1, <2>2, <2>3, WaitTurnTypes DEF SysAgentWait
<1>19. ASSUME NEW p \in Pids, WaitResume(p) PROVE TypeOK'
  <2>1. wait[p] \in WaitFrame /\ WaitTurn(p, wait[p], now)
    BY <1>19 DEF WaitResume
  <2>2. QED
    BY <1>19, <2>1, WaitTurnTypes DEF WaitResume
<1>20. ASSUME NEW p \in Pids, NEW d \in 0 .. MaxSkew, TimerTrap(p, d) PROVE TypeOK'
  <2> DEFINE due == DueAgents(now)
             beat == due \cap blocked
             late == TimedOut(now + d) \ (due \cap blocked)
  <2>1. now + d \in Nat
    BY BoundsAssumption
  <2>2. \A q \in Pids : Beat(ext[q], now) \in AgentExt
    BY ExtTypes
  <2>3. ext' \in [Pids -> AgentExt]
    BY <1>20, <2>2 DEF TimerTrap, Beaten
  <2>4. beat \in SUBSET Pids /\ late \in SUBSET Pids
    BY DEF TimedOut
  <2>5. PICK o1 \in Orders(beat), o2 \in Orders(late) : ready' = Add((ready \o o1) \o o2, p)
    BY <1>20 DEF TimerTrap, Beaten
  <2>6. o1 \in Seq(Pids) /\ o2 \in Seq(Pids)
    BY <2>4, OrdersAreLists
  <2>7. ready' \in Seq(Pids)
    BY <2>5, <2>6 DEF Add
  <2>8. status' \in [Pids -> Statuses] /\ blocked' \subseteq Pids
    BY <1>20 DEF TimerTrap, Beaten, Statuses
  <2>9. QED
    BY <1>20, <2>1, <2>3, <2>7, <2>8 DEF TimerTrap, Beaten
<1>21. CASE UNCHANGED vars
  BY <1>21 DEF vars
<1>22. LoopInputs \subseteq LoopStates /\ ToolOutcomes \subseteq LoopStates
  BY InputsAssumption DEF LoopStates
<1>23. QED
  BY <1>1, <1>2, <1>3, <1>4, <1>5, <1>6, <1>7, <1>8, <1>10, <1>11, <1>12, <1>13,
     <1>14, <1>16, <1>17, <1>18, <1>19, <1>20, <1>21, <1>22
     DEF Next, UserStep, Timer

(* The state the boot code builds is well typed. *)
LEMMA InitTypes == Init => TypeOK
<1>1. NewExt \in AgentExt
  BY DEF NewExt, AgentExt, LoopStates
<1>2. NoWait \in WaitFrame
  BY ParametersAssumption DEF NoWait, WaitFrame
<1>3. InitProc \in Pids
  BY BoundsAssumption DEF InitProc, Pids
<1>4. QED
  BY <1>1, <1>2, <1>3, BoundsAssumption, ParametersAssumption
     DEF Init, TypeOK, Statuses

(* Every reachable state of the kernel is well typed. *)
THEOREM TypeCorrect == Spec => []TypeOK
<1>1. QED
  BY InitTypes, TypeStep, PTL DEF Spec

(***************************************************************************)
(* OnePlace: every task is in exactly one scheduler structure.             *)
(***************************************************************************)
(* PidAllocator::alloc hands out a pid no task has. *)
LEMMA FreshPid ==
  ASSUME TypeOK, PidsPartitioned, AllocPid =< MaxPid
  PROVE  AllocPid \in Pids /\ status[AllocPid] = "Free"
<1>1. CASE recycled = <<>>
  <2>1. Range(recycled) = {}
    BY <1>1 DEF Range
  <2>2. AllocPid = pidNext /\ pidNext \in Pids
    BY <1>1, BoundsAssumption DEF AllocPid, TypeOK, Pids
  <2>3. pidNext \notin 0 .. pidNext - 1
    BY DEF TypeOK
  <2>4. QED
    BY <2>1, <2>2, <2>3 DEF PidsPartitioned, Live
<1>2. CASE recycled # <<>>
  <2>1. Len(recycled) \in DOMAIN recycled /\ AllocPid = recycled[Len(recycled)]
    BY <1>2 DEF AllocPid, TypeOK
  <2>2. AllocPid \in Range(recycled) /\ AllocPid \in Pids
    BY <2>1 DEF Range, TypeOK
  <2>3. QED
    BY <2>2 DEF PidsPartitioned, Live
<1>3. QED
  BY <1>1, <1>2

(* Appending a batch of woken tasks keeps the queue free of duplicates.    *)
LEMMA QueueGrows ==
  ASSUME NEW q \in Seq(Pids), IsInjective(q), NEW W \in SUBSET Pids,
         Range(q) \cap W = {}, NEW o \in Orders(W)
  PROVE  /\ q \o o \in Seq(Pids) /\ IsInjective(q \o o)
         /\ Range(q \o o) = Range(q) \cup W
BY OrdersAreLists, ConcatDistinct

(* Waking every sleeper an event concerns moves each of them from the wait *)
(* list to the ready queue, and nothing else.                              *)
LEMMA WakePlaces ==
  ASSUME TypeOK, OnePlace, NEW W \in SUBSET blocked, WakeAll(W), current' = current
  PROVE  OnePlace'
<1>1. W \in SUBSET Pids /\ Range(ready) \cap W = {}
  BY DEF TypeOK, OnePlace
<1>2. PICK o \in Orders(W) : ready' = ready \o o
  BY DEF WakeAll
<1>3. IsInjective(ready') /\ Range(ready') = Range(ready) \cup W
  BY <1>1, <1>2, QueueGrows DEF TypeOK, OnePlace
<1>4. QED
  BY <1>1, <1>3 DEF WakeAll, OnePlace, TypeOK

(* One turn of the loop in sys_agent_wait leaves the caller in exactly one *)
(* place.                                                                  *)
LEMMA WaitTurnPlaces ==
  ASSUME TypeOK, OnePlace, NEW p \in Pids, current = p, NEW w, NEW t, WaitTurn(p, w, t)
  PROVE  OnePlace'
<1>1. CASE UNCHANGED schedVars
  BY <1>1 DEF OnePlace, schedVars
<1>2. CASE /\ status' = [status EXCEPT ![p] = "Blocked"]
           /\ blocked' = blocked \cup {p}
           /\ current' = NoTask
           /\ UNCHANGED ready
  BY <1>2 DEF OnePlace, TypeOK, NoTask, Pids
<1>3. QED
  BY <1>1, <1>2 DEF WaitTurn

(* Every step leaves every task in exactly one place. *)
LEMMA PlaceStep ==
  ASSUME TypeOK, OnePlace, PidsPartitioned, SleepersThink, [Next]_vars
  PROVE  OnePlace'
<1> DEFINE Same == UNCHANGED schedVars
<1>s. CASE Same
  BY <1>s DEF OnePlace, schedVars
<1>1. CASE RunTasks
  <2>1. PICK i \in 1 .. Len(ready) : /\ current' = ready[i]
                                     /\ ready' = RemoveIndex(ready, i)
                                    /\ status' = [status EXCEPT ![ready[i]] = "Running"]
    BY <1>1 DEF RunTasks
  <2>2. IsInjective(ready') /\ Range(ready') = Range(ready) \ {ready[i]}
    BY <2>1, RemoveDistinct DEF OnePlace, TypeOK
  <2>3. ready[i] \in Pids /\ ready[i] \in Range(ready)
    BY DEF TypeOK, Range
  <2>4. current = NoTask /\ blocked' = blocked
    BY <1>1 DEF RunTasks
  <2>5. QED
    BY <2>1, <2>2, <2>3, <2>4 DEF OnePlace, TypeOK, NoTask, Pids
<1>2. ASSUME NEW p \in Pids, SysYield(p) PROVE OnePlace'
  <2>1. p \notin Range(ready) /\ current = p
    BY <1>2 DEF OnePlace, SysYield, InUser
  <2>2. IsInjective(ready') /\ Range(ready') = Range(ready) \cup {p}
    BY <1>2, <2>1, AppendDistinct DEF SysYield, Add, OnePlace, TypeOK
  <2>3. QED
    BY <1>2, <2>1, <2>2 DEF SysYield, OnePlace, TypeOK, NoTask, Pids
<1>3. ASSUME NEW p \in Pids, SysFork(p) PROVE OnePlace'
  <2>1. AllocPid \in Pids /\ status[AllocPid] = "Free"
    BY <1>3, FreshPid DEF SysFork
  <2>2. AllocPid \notin Range(ready)
    BY <2>1 DEF OnePlace
  <2>3. IsInjective(ready') /\ Range(ready') = Range(ready) \cup {AllocPid}
    BY <1>3, <2>1, <2>2, AppendDistinct DEF SysFork, Add, OnePlace, TypeOK
  <2>4. QED
    BY <1>3, <2>1, <2>3 DEF SysFork, OnePlace, TypeOK
<1>4. ASSUME NEW p \in Pids, SysExit(p) PROVE OnePlace'
  BY <1>4 DEF SysExit, InApp, InUser, OnePlace, TypeOK, NoTask, Pids
<1>5. ASSUME NEW p \in Pids, NEW c \in Pids, SysWaitpid(p, c) PROVE OnePlace'
  BY <1>5 DEF SysWaitpid, OnePlace, TypeOK
<1>6. ASSUME NEW p \in Pids, NEW q \in Pids, SysToolCallSend(p, q) PROVE OnePlace'
  BY <1>6, WakePlaces DEF SysToolCallSend
<1>7. ASSUME NEW p \in Pids, SysFileAttr(p) PROVE OnePlace'
  BY <1>7, WakePlaces DEF SysFileAttr
<1>8. ASSUME NEW p \in Pids, NEW timeout \in Timeouts, NEW d \in 0 .. MaxSkew,
             NEW e \in d .. MaxSkew, SysAgentWait(p, timeout, d, e)
      PROVE  OnePlace'
  BY <1>8, WaitTurnPlaces DEF SysAgentWait, InApp, InUser
<1>9. ASSUME NEW p \in Pids, WaitResume(p) PROVE OnePlace'
  BY <1>9, WaitTurnPlaces DEF WaitResume
<1>10. ASSUME NEW p \in Pids, NEW d \in 0 .. MaxSkew, TimerTrap(p, d) PROVE OnePlace'
  <2> DEFINE due == DueAgents(now)
             beat == due \cap blocked
             late == TimedOut(now + d) \ (due \cap blocked)
  <2>1. /\ beat \in SUBSET Pids /\ late \in SUBSET Pids /\ beat \cap late = {}
        /\ beat \subseteq blocked /\ late \subseteq blocked
    BY DEF TimedOut, TypeOK
  <2>2. PICK o1 \in Orders(beat), o2 \in Orders(late) : ready' = Add((ready \o o1) \o o2, p)
    BY <1>10 DEF TimerTrap, Beaten
  <2>3. current = p /\ status[p] = "Running" /\ p \notin Range(ready) /\ p \notin blocked
    BY <1>10 DEF TimerTrap, Beaten, InUser, OnePlace
  <2>4. Range(ready) \cap blocked = {}
    BY DEF OnePlace, TypeOK
  <2>5. /\ ready \o o1 \in Seq(Pids) /\ IsInjective(ready \o o1)
        /\ Range(ready \o o1) = Range(ready) \cup beat
    <3>1. ready \in Seq(Pids) /\ IsInjective(ready) /\ Range(ready) \cap beat = {}
      BY <2>1, <2>4 DEF OnePlace, TypeOK
    <3> HIDE DEF beat
    <3>2. QED
      BY <2>1, <3>1, QueueGrows
  <2>6. /\ (ready \o o1) \o o2 \in Seq(Pids) /\ IsInjective((ready \o o1) \o o2)
        /\ Range((ready \o o1) \o o2) = Range(ready) \cup beat \cup late
    <3>1. Range(ready \o o1) \cap late = {}
      BY <2>1, <2>4, <2>5
    <3> DEFINE q1 == ready \o o1
    <3> HIDE DEF q1, late, beat, due
    <3>2. /\ q1 \o o2 \in Seq(Pids) /\ IsInjective(q1 \o o2)
          /\ Range(q1 \o o2) = Range(q1) \cup late
      BY <2>1, <2>5, <3>1, QueueGrows DEF q1
    <3>3. QED
      BY <2>5, <3>2 DEF q1
  <2>7. IsInjective(ready') /\ Range(ready') = Range(ready) \cup beat \cup late \cup {p}
    <3>1. p \notin Range((ready \o o1) \o o2)
      BY <2>1, <2>3, <2>6
    <3>2. QED
      BY <2>2, <2>6, <3>1, AppendDistinct DEF Add
  <2>8. /\ status' = [q \in Pids |-> IF q \in beat \cup late \cup {p} THEN "Ready" ELSE status[q]]
        /\ blocked' = blocked \ (beat \cup late)
        /\ current' = NoTask
    BY <1>10 DEF TimerTrap, Beaten
  <2> HIDE DEF beat, late, due
  <2>9. QED
    BY <2>1, <2>3, <2>7, <2>8 DEF OnePlace, TypeOK, NoTask, Pids
<1>11. ASSUME NEW p \in Pids, NEW e, SetOwnExt(p, e) PROVE Same
  BY <1>11 DEF SetOwnExt
<1>12. ASSUME NEW p \in Pids, UserStep(p) PROVE OnePlace'
  BY <1>s, <1>2, <1>3, <1>4, <1>5, <1>6, <1>7, <1>8, <1>11, <1>12
     DEF UserStep, SysAgentCreate, SysAgentSetPriority, SysAgentHeartbeatSet,
         SysAgentHeartbeatStop, SysAgentWatch, SysAgentUnwatch,
         SysAgentSetLoopState, SysMailboxRecv, SysToolCall
<1>13. Elapse => Same
  BY DEF Elapse
<1>14. UNCHANGED vars => Same
  BY DEF vars, schedVars
<1>15. QED
  BY <1>s, <1>1, <1>9, <1>10, <1>12, <1>13, <1>14 DEF Next, Timer

(***************************************************************************)
(* TreeComplete: the snapshot finds every task.                            *)
(***************************************************************************)

(* A step that moves no task between the free, zombie and living states    *)
(* and leaves the children lists and the pid allocator alone.              *)
SameTree ==
    /\ UNCHANGED <<pidNext, recycled, children>>
    /\ \A q \in Pids : /\ status[q] = "Free" <=> status'[q] = "Free"
                       /\ status[q] = "Zombie" <=> status'[q] = "Zombie"

(* A step that changes neither parents, children nor who is a zombie keeps *)
(* TreeComplete.                                                           *)
LEMMA SameTreeKeeps ==
  ASSUME TreeComplete, SameTree PROVE TreeComplete'
<1>1. Live' = Live /\ Snapshot' = Snapshot
  BY DEF SameTree, Live, Snapshot, Closed
<1>2. QED
  BY <1>1 DEF TreeComplete, SameTree

(* A task in a scheduler structure has a pid in use. *)
LEMMA InLive ==
  ASSUME TypeOK, OnePlace, NEW p \in Pids, current = p
  PROVE  p \in Live /\ status[p] = "Running"
BY DEF OnePlace, Live

(* fork hangs the new task under its parent and nowhere else. *)
LEMMA ForkTree ==
  ASSUME TypeOK, OnePlace, PidsPartitioned, TreeComplete, InitProcAlive,
         NEW p \in Pids, SysFork(p)
  PROVE  TreeComplete'
<1> DEFINE c == AllocPid
<1>1. c \in Pids /\ status[c] = "Free" /\ c \notin Live /\ c # InitProc
  BY FreshPid DEF SysFork, Live, InitProcAlive
<1>2. p \in Live /\ status[p] = "Running"
  BY InLive DEF SysFork, InUser
<1>3. /\ children' = [children EXCEPT ![p] = @ \cup {c}]
      /\ status' = [status EXCEPT ![c] = "Ready"]
  BY DEF SysFork
<1> HIDE DEF c
<1>4. Live' = Live \cup {c}
  BY <1>1, <1>3 DEF Live, TypeOK
<1>5. \A q \in Pids : children[q] \subseteq children'[q] /\ children'[q] \subseteq children[q] \cup {c}
  BY <1>3 DEF TypeOK
<1>6. \A q \in Pids : children[q] \subseteq Live \ {InitProc} /\ c \notin children[q]
  BY <1>1 DEF TreeComplete
<1>7. \A q, r \in Pids : q # r => children'[q] \cap children'[r] = {}
  BY <1>3, <1>6 DEF TreeComplete, TypeOK
<1>8. \A q \in Pids : /\ children'[q] \subseteq Live' \ {InitProc}
                      /\ children'[q] # {} => status'[q] \notin {"Free", "Zombie"}
  BY <1>1, <1>2, <1>3, <1>4, <1>5, <1>6 DEF TreeComplete, TypeOK
<1>9. Snapshot' \subseteq Live'
  <2> SUFFICES ASSUME NEW x \in Snapshot' PROVE x \in Live'
    OBVIOUS
  <2>1. Live' \in SUBSET Pids /\ InitProc \in Live'
    BY <1>4, BoundsAssumption DEF Live, InitProcAlive, InitProc, Pids
  <2>2. ASSUME NEW q \in Live' PROVE children'[q] \subseteq Live'
    <3>1. q \in Pids
      BY <2>1
    <3>2. children'[q] \subseteq Live' \ {InitProc}
      BY <3>1, <1>8
    <3>3. QED
      BY <3>2
  <2>3. \A S \in SUBSET Pids :
          InitProc \in S /\ (\A q \in S : children'[q] \subseteq S) => x \in S
    BY DEF Snapshot, Closed
  <2>4. QED
    BY <2>1, <2>2, <2>3
<1>10. Live' \subseteq Snapshot'
  <2> SUFFICES ASSUME NEW x \in Live', NEW S \in SUBSET Pids, InitProc \in S,
                      \A q \in S : children'[q] \subseteq S
               PROVE  x \in S
    BY DEF Snapshot, Closed, Live
  <2>1. Closed(S)
    BY <1>5 DEF Closed
  <2>2. Live \subseteq S
    BY <2>1 DEF TreeComplete, Snapshot
  <2>3. c \in S
    BY <1>2, <1>3, <2>2 DEF TypeOK
  <2>4. QED
    BY <1>4, <2>2, <2>3
<1>11. QED
  BY <1>7, <1>8, <1>9, <1>10 DEF TreeComplete

(* exit hands every child to INITPROC, so no task is left under a zombie. *)
LEMMA ExitTree ==
  ASSUME TypeOK, OnePlace, TreeComplete, InitProcAlive, NEW p \in Pids, SysExit(p)
  PROVE  TreeComplete'
<1>1. p # InitProc /\ p \in Live /\ status[p] = "Running" /\ InitProc \in Pids
  BY InLive, BoundsAssumption DEF SysExit, InApp, InUser, InitProc, Pids
<1>2. /\ children' = [children EXCEPT ![InitProc] = @ \cup children[p], ![p] = {}]
      /\ status' = [status EXCEPT ![p] = "Zombie"]
  BY DEF SysExit
<1>3. Live' = Live
  BY <1>1, <1>2 DEF Live, TypeOK
<1>4. /\ children'[p] = {} /\ children'[InitProc] = children[InitProc] \cup children[p]
      /\ \A q \in Pids : q # p /\ q # InitProc => children'[q] = children[q]
  BY <1>1, <1>2 DEF TypeOK
<1>5. \A q, r \in Pids : q # r => children'[q] \cap children'[r] = {}
  BY <1>1, <1>4 DEF TreeComplete
<1>6. \A q \in Pids : /\ children'[q] \subseteq Live' \ {InitProc}
                      /\ children'[q] # {} => status'[q] \notin {"Free", "Zombie"}
  <2> SUFFICES ASSUME NEW q \in Pids
               PROVE  /\ children'[q] \subseteq Live' \ {InitProc}
                      /\ children'[q] # {} => status'[q] \notin {"Free", "Zombie"}
    OBVIOUS
  <2>1. \A r \in Pids : /\ children[r] \subseteq Live \ {InitProc}
                        /\ children[r] # {} => status[r] \notin {"Free", "Zombie"}
    BY DEF TreeComplete
  <2>2. q # p => status'[q] = status[q]
    BY <1>2 DEF TypeOK
  <2>3. CASE q = p
    BY <1>4, <2>3
  <2>4. CASE q = InitProc
    BY <1>1, <1>3, <1>4, <2>1, <2>2, <2>4 DEF InitProcAlive
  <2>5. CASE q # p /\ q # InitProc
    BY <1>3, <1>4, <2>1, <2>2, <2>5
  <2>6. QED
    BY <2>3, <2>4, <2>5
<1>7. Snapshot' \subseteq Live'
  <2> SUFFICES ASSUME NEW x \in Snapshot' PROVE x \in Live'
    OBVIOUS
  <2>1. Live' \in SUBSET Pids /\ InitProc \in Live'
    BY <1>1, <1>3 DEF Live, InitProcAlive
  <2>2. ASSUME NEW q \in Live' PROVE children'[q] \subseteq Live'
    <3>1. q \in Pids
      BY <2>1
    <3>2. children'[q] \subseteq Live' \ {InitProc}
      BY <3>1, <1>6
    <3>3. QED
      BY <3>2
  <2>3. \A S \in SUBSET Pids :
          InitProc \in S /\ (\A q \in S : children'[q] \subseteq S) => x \in S
    BY DEF Snapshot, Closed
  <2>4. QED
    BY <2>1, <2>2, <2>3
<1>8. Live' \subseteq Snapshot'
  <2> SUFFICES ASSUME NEW x \in Live', NEW S \in SUBSET Pids, InitProc \in S,
                      \A q \in S : children'[q] \subseteq S
               PROVE  x \in S
    BY DEF Snapshot, Closed, Live
  <2>1. Closed(S)
    BY <1>4 DEF Closed
  <2>2. QED
    BY <1>3, <2>1 DEF TreeComplete, Snapshot
<1>9. QED
  BY <1>5, <1>6, <1>7, <1>8 DEF TreeComplete

(* waitpid takes the zombie out of its parent's children and frees its     *)
(* pid.                                                                    *)
LEMMA ReapTree ==
  ASSUME TypeOK, OnePlace, TreeComplete, InitProcAlive,
         NEW p \in Pids, NEW c \in Pids, SysWaitpid(p, c)
  PROVE  TreeComplete'
<1>1. c \in children[p] /\ status[c] = "Zombie" /\ children[c] = {} /\ c # InitProc
  BY DEF SysWaitpid, TreeComplete, InitProcAlive
<1>2. /\ children' = [children EXCEPT ![p] = @ \ {c}]
      /\ status' = [status EXCEPT ![c] = "Free"]
  BY DEF SysWaitpid
<1>3. Live' = Live \ {c} /\ InitProc \in Live' /\ Live' \in SUBSET Pids
  BY <1>1, <1>2, BoundsAssumption, SMTT(40) DEF Live, TypeOK, InitProcAlive, InitProc, Pids
<1>4. \A q \in Pids : children'[q] = children[q] \ {c}
  BY <1>1, <1>2 DEF TreeComplete, TypeOK
<1>5. \A q, r \in Pids : q # r => children'[q] \cap children'[r] = {}
  BY <1>4 DEF TreeComplete
<1>6. \A q \in Pids : /\ children'[q] \subseteq Live' \ {InitProc}
                      /\ children'[q] # {} => status'[q] \notin {"Free", "Zombie"}
  BY <1>1, <1>2, <1>3, <1>4 DEF TreeComplete, TypeOK
<1>7. Snapshot' \subseteq Live'
  <2> SUFFICES ASSUME NEW x \in Snapshot' PROVE x \in Live'
    OBVIOUS
  <2>1. Live' \in SUBSET Pids /\ InitProc \in Live'
    BY <1>3
  <2>2. ASSUME NEW q \in Live' PROVE children'[q] \subseteq Live'
    <3>1. q \in Pids
      BY <2>1
    <3>2. children'[q] \subseteq Live' \ {InitProc}
      BY <3>1, <1>6
    <3>3. QED
      BY <3>2
  <2>3. \A S \in SUBSET Pids :
          InitProc \in S /\ (\A q \in S : children'[q] \subseteq S) => x \in S
    BY DEF Snapshot, Closed
  <2>4. QED
    BY <2>1, <2>2, <2>3
<1>8. Live' \subseteq Snapshot'
  <2> SUFFICES ASSUME NEW x \in Live', NEW S \in SUBSET Pids, InitProc \in S,
                      \A q \in S : children'[q] \subseteq S
               PROVE  x \in S
    BY DEF Snapshot, Closed, Live
  <2>1. Closed(S \cup {c}) /\ S \cup {c} \in SUBSET Pids
    BY <1>1, <1>4 DEF Closed
  <2>2. Live \subseteq S \cup {c}
    BY <2>1 DEF TreeComplete, Snapshot
  <2>3. QED
    BY <1>3, <2>2
<1>9. QED
  BY <1>5, <1>6, <1>7, <1>8 DEF TreeComplete

(* Waking sleepers does not touch the tree. *)
LEMMA WakeKeepsTree ==
  ASSUME TypeOK, OnePlace, UNCHANGED treeVars, NEW W \in SUBSET blocked, WakeAll(W)
  PROVE  SameTree
BY DEF TypeOK, OnePlace, treeVars, WakeAll, SameTree

(* A turn of the loop in sys_agent_wait does not touch the tree. *)
LEMMA WaitTurnKeepsTree ==
  ASSUME TypeOK, OnePlace, UNCHANGED treeVars,
         NEW p \in Pids, current = p, NEW w, NEW t, WaitTurn(p, w, t)
  PROVE  SameTree
<1>1. status[p] = "Running"
  BY DEF OnePlace
<1>2. status' = status \/ status' = [status EXCEPT ![p] = "Blocked"]
  BY DEF WaitTurn, schedVars
<1>3. QED
  BY <1>1, <1>2 DEF TypeOK, treeVars, SameTree

(* Only fork, exit and waitpid change the tree. *)
LEMMA TreeSteps ==
  ASSUME TypeOK, OnePlace, [Next]_vars
  PROVE  \/ SameTree
         \/ \E p \in Pids : SysFork(p) \/ SysExit(p) \/ \E c \in Pids : SysWaitpid(p, c)
<1>s. UNCHANGED treeVars /\ status' = status => SameTree
  BY DEF SameTree, treeVars
<1>1. CASE RunTasks
  <2>1. PICK i \in 1 .. Len(ready) : status' = [status EXCEPT ![ready[i]] = "Running"]
    BY <1>1 DEF RunTasks
  <2>2. ready[i] \in Pids /\ ready[i] \in Range(ready)
    BY DEF TypeOK, Range
  <2>3. status[ready[i]] = "Ready"
    BY <2>2 DEF OnePlace
  <2>4. QED
    BY <1>1, <2>1, <2>2, <2>3 DEF RunTasks, SameTree, treeVars, TypeOK
<1>2. ASSUME NEW p \in Pids, SysYield(p) PROVE SameTree
  BY <1>2 DEF SysYield, InUser, SameTree, treeVars, TypeOK, OnePlace
<1>3. ASSUME NEW p \in Pids, NEW q \in Pids, SysToolCallSend(p, q) PROVE SameTree
  BY <1>3, WakeKeepsTree DEF SysToolCallSend
<1>4. ASSUME NEW p \in Pids, SysFileAttr(p) PROVE SameTree
  BY <1>4, WakeKeepsTree DEF SysFileAttr
<1>5. ASSUME NEW p \in Pids, NEW timeout \in Timeouts, NEW d \in 0 .. MaxSkew,
             NEW e \in d .. MaxSkew, SysAgentWait(p, timeout, d, e)
      PROVE  SameTree
  BY <1>5, WaitTurnKeepsTree DEF SysAgentWait, InApp, InUser
<1>6. ASSUME NEW p \in Pids, WaitResume(p) PROVE SameTree
  BY <1>6, WaitTurnKeepsTree DEF WaitResume
<1>7. ASSUME NEW p \in Pids, NEW d \in 0 .. MaxSkew, TimerTrap(p, d) PROVE SameTree
  <2> DEFINE beat  == DueAgents(now) \cap blocked
             woken == beat \cup (TimedOut(now + d) \ beat) \cup {p}
  <2>1. status' = [q \in Pids |-> IF q \in woken THEN "Ready" ELSE status[q]]
    BY <1>7 DEF TimerTrap, Beaten
  <2>2. \A q \in woken : q \in blocked \/ q = current
    BY <1>7 DEF TimerTrap, Beaten, InUser, TimedOut
  <2>3. UNCHANGED treeVars
    BY <1>7 DEF TimerTrap, Beaten
  <2> HIDE DEF woken
  <2>4. QED
    BY <2>1, <2>2, <2>3 DEF SameTree, treeVars, TypeOK, OnePlace
<1>8. ASSUME NEW p \in Pids, NEW e, SetOwnExt(p, e) PROVE SameTree
  BY <1>8, <1>s DEF SetOwnExt, schedVars
<1>9. ASSUME NEW p \in Pids, UserStep(p)
      PROVE  SameTree \/ SysFork(p) \/ SysExit(p) \/ \E c \in Pids : SysWaitpid(p, c)
  <2>1. ASSUME SysAgentCreate(p) \/ \E v \in Priorities : SysAgentSetPriority(p, v) PROVE SameTree
    BY <2>1, <1>s DEF SysAgentCreate, SysAgentSetPriority, schedVars
  <2>2. QED
    BY <1>2, <1>3, <1>4, <1>5, <1>8, <1>9, <2>1
       DEF UserStep, SysAgentHeartbeatSet, SysAgentHeartbeatStop, SysAgentWatch,
           SysAgentUnwatch, SysAgentSetLoopState, SysMailboxRecv, SysToolCall
<1>10. Elapse => SameTree
  BY <1>s DEF Elapse, schedVars
<1>11. UNCHANGED vars => SameTree
  BY <1>s DEF vars, treeVars
<1>12. QED
  BY <1>1, <1>6, <1>7, <1>9, <1>10, <1>11 DEF Next, Timer

(* Every step keeps TreeComplete. *)
LEMMA TreeStep ==
  ASSUME TypeOK, OnePlace, PidsPartitioned, TreeComplete, InitProcAlive, [Next]_vars
  PROVE  TreeComplete'
BY TreeSteps, SameTreeKeeps, ForkTree, ExitTree, ReapTree

(***************************************************************************)
(* PidsPartitioned: pids in use and recycled pids.                         *)
(***************************************************************************)
(* Every step keeps pids in use and recycled pids apart, and below the     *)
(* allocator's mark.                                                       *)
LEMMA PidStep ==
  ASSUME TypeOK, OnePlace, PidsPartitioned, TreeComplete, InitProcAlive, [Next]_vars
  PROVE  PidsPartitioned'
<1>1. CASE SameTree
  <2>1. Live' = Live
    BY <1>1 DEF SameTree, Live
  <2>2. QED
    BY <1>1, <2>1 DEF SameTree, PidsPartitioned
<1>2. ASSUME NEW p \in Pids, SysFork(p) PROVE PidsPartitioned'
  <2> DEFINE c == AllocPid
  <2>1. c \in Pids /\ status[c] = "Free" /\ c \notin Live
    BY <1>2, FreshPid DEF SysFork, Live
  <2>2. Live' = Live \cup {c}
    BY <1>2, <2>1 DEF SysFork, Live, TypeOK
  <2>3. CASE recycled = <<>>
    <3>1. pidNext' = pidNext + 1 /\ recycled' = recycled /\ c = pidNext
      BY <1>2, <2>3 DEF SysFork, AllocPid
    <3>2. Range(recycled) = {}
      BY <2>3 DEF Range
    <3>3. 0 .. pidNext' - 1 = (0 .. pidNext - 1) \cup {pidNext}
      BY <3>1 DEF TypeOK
    <3>4. QED
      BY <2>2, <3>1, <3>2, <3>3 DEF PidsPartitioned
  <2>4. CASE recycled # <<>>
    <3> DEFINE n == Len(recycled)
    <3>1. n \in 1 .. Len(recycled) /\ c = recycled[n]
      BY <2>4 DEF AllocPid, TypeOK
    <3>2. recycled' = SubSeq(recycled, 1, n - 1) /\ pidNext' = pidNext
      BY <1>2, <2>4 DEF SysFork
    <3>3. SubSeq(recycled, 1, n - 1) = RemoveIndex(recycled, n)
      <4>1. SubSeq(recycled, n + 1, n) = <<>>
        BY <3>1 DEF TypeOK
      <4>2. SubSeq(recycled, 1, n - 1) \in Seq(Pids)
        BY <3>1 DEF TypeOK
      <4>3. QED
        BY <4>1, <4>2 DEF RemoveIndex
    <3>4. IsInjective(recycled') /\ Range(recycled') = Range(recycled) \ {c}
      BY <3>1, <3>2, <3>3, RemoveDistinct DEF PidsPartitioned, TypeOK
    <3>5. c \in Range(recycled)
      BY <3>1 DEF Range, TypeOK
    <3> HIDE DEF c
    <3>6. QED
      BY <2>2, <3>2, <3>4, <3>5 DEF PidsPartitioned
  <2>5. QED
    BY <2>3, <2>4
<1>3. ASSUME NEW p \in Pids, SysExit(p) PROVE PidsPartitioned'
  <2>1. Live' = Live
    BY <1>3, InLive DEF SysExit, InApp, InUser, Live, TypeOK
  <2>2. QED
    BY <1>3, <2>1 DEF SysExit, PidsPartitioned
<1>4. ASSUME NEW p \in Pids, NEW c \in Pids, SysWaitpid(p, c) PROVE PidsPartitioned'
  <2>1. c \in Live /\ Live' = Live \ {c}
    BY <1>4 DEF SysWaitpid, Live, TypeOK
  <2>2. c \notin Range(recycled)
    BY <2>1 DEF PidsPartitioned
  <2>3. IsInjective(recycled') /\ Range(recycled') = Range(recycled) \cup {c}
    BY <1>4, <2>2, AppendDistinct DEF SysWaitpid, PidsPartitioned, TypeOK
  <2>4. QED
    BY <1>4, <2>1, <2>3 DEF SysWaitpid, PidsPartitioned
<1>5. QED
  BY <1>1, <1>2, <1>3, <1>4, TreeSteps

(***************************************************************************)
(* SleepersThink and InitProcAlive: what a sleeping task has on its stack. *)
(***************************************************************************)

(* A step that touches no wait in progress: it may wake sleepers and       *)
(* change their events, never their locals or their loop state.            *)
WaitsStand ==
    /\ wait' = wait /\ blocked' \subseteq blocked
    /\ \A q \in Pids : wait[q].active =>
          /\ q \in agents' /\ ext'[q].loop = ext[q].loop
          /\ status'[q] \in {"Ready", "Running", "Blocked"}
    /\ status'[InitProc] \in {"Ready", "Running"}

(* Such a step keeps both invariants.                                      *)
LEMMA WaitsStandKeeps ==
  ASSUME TypeOK, SleepersThink, InitProcAlive, WaitsStand
  PROVE  SleepersThink' /\ InitProcAlive'
BY DEF TypeOK, SleepersThink, InitProcAlive, WaitsStand

(* INITPROC is a pid. *)
LEMMA InitProcIsPid == InitProc \in Pids
BY BoundsAssumption DEF InitProc, Pids

(* One turn of the loop in sys_agent_wait leaves the caller returned from  *)
(* the call or asleep in it, in state Thinking.                            *)
LEMMA WaitTurnThinks ==
  ASSUME TypeOK, OnePlace, SleepersThink, InitProcAlive, UNCHANGED agents,
         NEW p \in agents, p # InitProc, current = p, NEW w, w.active,
         NEW t, WaitTurn(p, w, t)
  PROVE  SleepersThink' /\ InitProcAlive'
<1>1. p \in Pids /\ p \notin blocked /\ status[p] = "Running"
  BY DEF TypeOK, OnePlace
<1>2. CASE wait' = [wait EXCEPT ![p] = NoWait] /\ UNCHANGED schedVars
           /\ ext' = [ext EXCEPT ![p] = Consume(@)]
  <2>1. \A q \in Pids : q # p => ext'[q] = ext[q] /\ wait'[q] = wait[q]
    BY <1>2 DEF TypeOK
  <2>2. wait'[p].active = FALSE
    BY <1>1, <1>2 DEF TypeOK, NoWait
  <2>3. QED
    BY <1>1, <1>2, <2>1, <2>2, InitProcIsPid
       DEF TypeOK, SleepersThink, InitProcAlive, schedVars
<1>3. CASE /\ wait' = [wait EXCEPT ![p] = w] /\ blocked' = blocked \cup {p}
           /\ ext' = [ext EXCEPT ![p].loop = "Thinking"]
           /\ status' = [status EXCEPT ![p] = "Blocked"]
  <2>1. \A q \in Pids : q # p => /\ ext'[q] = ext[q] /\ wait'[q] = wait[q]
                                 /\ status'[q] = status[q]
    BY <1>3 DEF TypeOK
  <2>2. wait'[p] = w /\ status'[p] = "Blocked" /\ ext'[p].loop = "Thinking"
    BY <1>1, <1>3 DEF TypeOK, AgentExt
  <2>3. QED
    BY <1>3, <2>1, <2>2, InitProcIsPid DEF SleepersThink, InitProcAlive
<1>4. QED
  BY <1>2, <1>3 DEF WaitTurn

(* Every step keeps SleepersThink and InitProcAlive.                       *)
LEMMA ThinkStep ==
  ASSUME TypeOK, OnePlace, PidsPartitioned, SleepersThink, InitProcAlive, [Next]_vars
  PROVE  SleepersThink' /\ InitProcAlive'
<1>i. InitProc \in Pids
  BY InitProcIsPid
<1>s. UNCHANGED <<wait, schedVars, agents, ext>> => WaitsStand
  BY <1>i DEF WaitsStand, schedVars, SleepersThink, InitProcAlive
<1>r. \A p \in Pids : current = p => status[p] = "Running" /\ p \notin blocked
  BY DEF OnePlace
<1>1. CASE RunTasks
  <2>1. PICK i \in 1 .. Len(ready) : status' = [status EXCEPT ![ready[i]] = "Running"]
    BY <1>1 DEF RunTasks
  <2>2. ready[i] \in Pids
    BY DEF TypeOK
  <2>3. QED
    BY <1>1, <1>i, <2>1, <2>2 DEF RunTasks, WaitsStand, SleepersThink, InitProcAlive, TypeOK
<1>2. ASSUME NEW p \in Pids, SysYield(p) PROVE WaitsStand
  BY <1>2, <1>i DEF SysYield, InUser, WaitsStand, SleepersThink, InitProcAlive, TypeOK
<1>3. ASSUME NEW p \in Pids, SysFork(p) PROVE WaitsStand
  <2>1. AllocPid \in Pids /\ status' = [status EXCEPT ![AllocPid] = "Ready"]
    BY <1>3, FreshPid DEF SysFork
  <2>2. QED
    BY <1>3, <1>i, <2>1 DEF SysFork, WaitsStand, SleepersThink, InitProcAlive, TypeOK
<1>4. ASSUME NEW p \in Pids, SysExit(p) PROVE WaitsStand
  BY <1>4, <1>i DEF SysExit, InApp, InUser, WaitsStand, SleepersThink, InitProcAlive, TypeOK
<1>5. ASSUME NEW p \in Pids, NEW c \in Pids, SysWaitpid(p, c) PROVE WaitsStand
  <2>1. status[c] = "Zombie" /\ ~wait[c].active /\ c # InitProc
    BY <1>5 DEF SysWaitpid, SleepersThink, InitProcAlive
  <2>2. QED
    BY <1>5, <1>i, <2>1 DEF SysWaitpid, WaitsStand, SleepersThink, InitProcAlive, TypeOK
<1>6. ASSUME NEW p \in Pids, SysAgentCreate(p) PROVE WaitsStand
  BY <1>6, <1>i DEF SysAgentCreate, InApp, InUser, schedVars, WaitsStand, SleepersThink,
                    InitProcAlive, TypeOK
<1>7. ASSUME NEW p \in Pids, NEW e, SetOwnExt(p, e) PROVE WaitsStand
  BY <1>7, <1>i DEF SetOwnExt, InApp, InUser, schedVars, WaitsStand, SleepersThink,
                    InitProcAlive, TypeOK
<1>8. ASSUME NEW p \in Pids, NEW q \in Pids, SysToolCallSend(p, q) PROVE WaitsStand
  <2>1. ~wait[p].active /\ wait' = wait /\ agents' = agents
    BY <1>8 DEF SysToolCallSend, InApp, InUser
  <2>2. /\ status' = [x \in Pids |-> IF x \in {q} \cap blocked THEN "Ready" ELSE status[x]]
        /\ blocked' \subseteq blocked
    BY <1>8 DEF SysToolCallSend, WakeAll
  <2>3. \A x \in Pids : x # p => ext'[x].loop = ext[x].loop
    BY <1>8 DEF SysToolCallSend, Deliver, TypeOK, AgentExt
  <2>4. QED
    BY <1>i, <2>1, <2>2, <2>3 DEF WaitsStand, SleepersThink, InitProcAlive
<1>9. ASSUME NEW p \in Pids, SysFileAttr(p) PROVE WaitsStand
  <2>1. /\ status' = [x \in Pids |-> IF x \in FileWatchers \cap blocked THEN "Ready" ELSE status[x]]
        /\ blocked' \subseteq blocked
    BY <1>9 DEF SysFileAttr, WakeAll
  <2>2. \A x \in Pids : ext'[x].loop = ext[x].loop
    BY <1>9 DEF SysFileAttr, TypeOK, AgentExt
  <2>3. QED
    BY <1>9, <1>i, <2>1, <2>2 DEF SysFileAttr, WaitsStand, SleepersThink, InitProcAlive
<1>10. ASSUME NEW p \in Pids, NEW d \in 0 .. MaxSkew, TimerTrap(p, d) PROVE WaitsStand
  <2> DEFINE due == DueAgents(now)
             woken == (due \cap blocked) \cup (TimedOut(now + d) \ (due \cap blocked)) \cup {p}
  <2>1. /\ status' = [q \in Pids |-> IF q \in woken THEN "Ready" ELSE status[q]]
        /\ blocked' \subseteq blocked /\ wait' = wait /\ agents' = agents
        /\ ext' = [q \in Pids |-> IF q \in due THEN Beat(ext[q], now) ELSE ext[q]]
    BY <1>10 DEF TimerTrap, Beaten
  <2> HIDE DEF woken, due
  <2>2. \A x \in Pids : ext'[x].loop = ext[x].loop
    BY <2>1 DEF Beat, TypeOK, AgentExt
  <2>3. QED
    BY <1>i, <2>1, <2>2 DEF WaitsStand, SleepersThink, InitProcAlive
<1>11. ASSUME NEW p \in Pids, NEW timeout \in Timeouts, NEW d \in 0 .. MaxSkew,
              NEW e \in d .. MaxSkew, SysAgentWait(p, timeout, d, e)
       PROVE  SleepersThink' /\ InitProcAlive'
  BY <1>11, WaitTurnThinks DEF SysAgentWait, InApp, InUser
<1>12. ASSUME NEW p \in Pids, WaitResume(p) PROVE SleepersThink' /\ InitProcAlive'
  <2>1. p \in agents /\ p # InitProc
    BY <1>12 DEF WaitResume, SleepersThink, InitProcAlive
  <2>2. QED
    BY <1>12, <2>1, WaitTurnThinks DEF WaitResume
<1>13. ASSUME NEW p \in Pids, UserStep(p) PROVE SleepersThink' /\ InitProcAlive'
  <2>1. ASSUME NEW v \in Priorities, SysAgentSetPriority(p, v) PROVE WaitsStand
    BY <2>1, <1>s DEF SysAgentSetPriority
  <2>2. QED
    BY <1>2, <1>3, <1>4, <1>5, <1>6, <1>7, <1>8, <1>9, <1>11, <1>13, <2>1, WaitsStandKeeps
       DEF UserStep, SysAgentHeartbeatSet, SysAgentHeartbeatStop, SysAgentWatch,
           SysAgentUnwatch, SysAgentSetLoopState, SysMailboxRecv, SysToolCall
<1>14. Elapse => WaitsStand
  BY <1>s DEF Elapse
<1>15. UNCHANGED vars => WaitsStand
  BY <1>s DEF vars, schedVars
<1>16. QED
  BY <1>1, <1>10, <1>12, <1>13, <1>14, <1>15, WaitsStandKeeps DEF Next, Timer

(***************************************************************************)
(* NoLostWakeup: a step that raises an event at a sleeper wakes it.        *)
(***************************************************************************)

(* A step after which every sleeper slept before and has the same events.  *)
SleepersUndisturbed ==
    blocked' \subseteq blocked /\ \A q \in blocked' : ext'[q] = ext[q]

(* A task that goes to sleep in sys_agent_wait found no event it watches,  *)
(* and entering Thinking raises none.                                      *)
LEMMA WaitTurnWakes ==
  ASSUME TypeOK, OnePlace, NoLostWakeup, NEW p \in Pids, current = p,
         NEW w, NEW t, WaitTurn(p, w, t)
  PROVE  NoLostWakeup'
<1>1. p \notin blocked
  BY DEF OnePlace
<1>2. CASE blocked' = blocked /\ ext' = [ext EXCEPT ![p] = Consume(@)]
  BY <1>1, <1>2 DEF NoLostWakeup, TypeOK
<1>3. CASE /\ blocked' = blocked \cup {p} /\ Triggered(ext[p]) = {}
           /\ ext' = [ext EXCEPT ![p].loop = "Thinking"]
  <2>1. /\ ext'[p].hbPending = ext[p].hbPending /\ ext'[p].filePending = ext[p].filePending
        /\ ext'[p].mailbox = ext[p].mailbox /\ ext'[p].watched = ext[p].watched
    BY <1>3 DEF TypeOK, AgentExt
  <2>2. Triggered(ext'[p]) = {}
    BY <1>3, <2>1 DEF Triggered, Pending, WaitMask
  <2>3. \A q \in blocked : ext'[q] = ext[q]
    BY <1>1, <1>3 DEF TypeOK
  <2>4. QED
    BY <1>3, <2>2, <2>3 DEF NoLostWakeup
<1>4. QED
  BY <1>2, <1>3 DEF WaitTurn, schedVars

(* Every step keeps NoLostWakeup.                                          *)
LEMMA WakeStep ==
  ASSUME TypeOK, OnePlace, NoLostWakeup, [Next]_vars
  PROVE  NoLostWakeup'
<1>k. SleepersUndisturbed => NoLostWakeup'
  BY DEF SleepersUndisturbed, NoLostWakeup
<1>s. UNCHANGED <<blocked, ext>> => SleepersUndisturbed
  BY DEF SleepersUndisturbed
<1>r. \A p \in Pids : current = p => p \notin blocked
  BY DEF OnePlace
<1>1. ASSUME NEW p \in Pids, NEW c \in Pids, SysWaitpid(p, c) PROVE SleepersUndisturbed
  BY <1>1 DEF SysWaitpid, OnePlace, SleepersUndisturbed, TypeOK
<1>2. ASSUME NEW p \in Pids, SysAgentCreate(p) PROVE SleepersUndisturbed
  BY <1>2, <1>r DEF SysAgentCreate, InApp, InUser, schedVars, SleepersUndisturbed, TypeOK
<1>3. ASSUME NEW p \in Pids, NEW e, SetOwnExt(p, e) PROVE SleepersUndisturbed
  BY <1>3, <1>r DEF SetOwnExt, InApp, InUser, schedVars, SleepersUndisturbed, TypeOK
<1>4. ASSUME NEW p \in Pids, NEW q \in Pids, SysToolCallSend(p, q) PROVE SleepersUndisturbed
  <2>1. p \notin blocked /\ blocked' = blocked \ ({q} \cap blocked)
    BY <1>4, <1>r DEF SysToolCallSend, InApp, InUser, WakeAll
  <2>2. \A x \in Pids : x # p /\ x # q => ext'[x] = ext[x]
    BY <1>4 DEF SysToolCallSend, TypeOK
  <2>3. QED
    BY <2>1, <2>2 DEF SleepersUndisturbed, TypeOK
<1>5. ASSUME NEW p \in Pids, SysFileAttr(p) PROVE SleepersUndisturbed
  <2>1. blocked' = blocked \ (FileWatchers \cap blocked)
    BY <1>5 DEF SysFileAttr, WakeAll
  <2>2. \A x \in Pids : x \notin FileWatchers => ext'[x] = ext[x]
    BY <1>5 DEF SysFileAttr
  <2>3. QED
    BY <2>1, <2>2 DEF SleepersUndisturbed, TypeOK
<1>6. ASSUME NEW p \in Pids, NEW d \in 0 .. MaxSkew, TimerTrap(p, d) PROVE SleepersUndisturbed
  <2> DEFINE due == DueAgents(now)
             late == TimedOut(now + d) \ (due \cap blocked)
  <2>1. /\ blocked' = blocked \ ((due \cap blocked) \cup late)
        /\ ext' = [q \in Pids |-> IF q \in due THEN Beat(ext[q], now) ELSE ext[q]]
    BY <1>6 DEF TimerTrap, Beaten
  <2> HIDE DEF due, late
  <2>2. QED
    BY <2>1 DEF SleepersUndisturbed, TypeOK
<1>7. ASSUME NEW p \in Pids, UserStep(p) PROVE NoLostWakeup'
  <2>1. ASSUME NEW timeout \in Timeouts, NEW d \in 0 .. MaxSkew, NEW e \in d .. MaxSkew,
               SysAgentWait(p, timeout, d, e)
        PROVE  NoLostWakeup'
    BY <2>1, WaitTurnWakes DEF SysAgentWait, InApp, InUser
  <2>2. SysYield(p) \/ SysFork(p) \/ SysExit(p) => SleepersUndisturbed
    BY <1>s DEF SysYield, SysFork, SysExit
  <2>3. ASSUME NEW v \in Priorities, SysAgentSetPriority(p, v) PROVE SleepersUndisturbed
    BY <2>3, <1>s DEF SysAgentSetPriority, schedVars
  <2>4. QED
    BY <1>k, <1>1, <1>2, <1>3, <1>4, <1>5, <1>7, <2>1, <2>2, <2>3
       DEF UserStep, SysAgentHeartbeatSet, SysAgentHeartbeatStop, SysAgentWatch,
           SysAgentUnwatch, SysAgentSetLoopState, SysMailboxRecv, SysToolCall
<1>8. ASSUME NEW p \in Pids, WaitResume(p) PROVE NoLostWakeup'
  BY <1>8, WaitTurnWakes DEF WaitResume
<1>9. RunTasks \/ Elapse \/ UNCHANGED vars => SleepersUndisturbed
  BY <1>s DEF RunTasks, Elapse, vars, schedVars
<1>10. QED
  BY <1>k, <1>6, <1>7, <1>8, <1>9 DEF Next, Timer

(***************************************************************************)
(* MailboxKeepsNewest: what a mailbox holds.                               *)
(***************************************************************************)

(* The contents mb are the last of the n messages delivered so far.        *)
HoldsNewest(mb, n) ==
    /\ Len(mb) =< MailboxCapacity
    /\ \A i \in 1 .. Len(mb) : mb[i] = n - Len(mb) + i

(* Taking the oldest message leaves the newest.                            *)
LEMMA RecvKeepsNewest ==
  ASSUME NEW mb \in Seq(Nat), NEW n \in Nat, mb # <<>>, HoldsNewest(mb, n)
  PROVE  HoldsNewest(Tail(mb), n)
<1>1. /\ Tail(mb) \in Seq(Nat) /\ Len(Tail(mb)) = Len(mb) - 1 /\ Len(mb) \in Nat \ {0}
      /\ \A i \in 1 .. Len(mb) - 1 : Tail(mb)[i] = mb[i + 1]
  OBVIOUS
<1>2. ASSUME NEW i \in 1 .. Len(mb) - 1 PROVE mb[i + 1] = n - (Len(mb) - 1) + i
  <2>1. i + 1 \in 1 .. Len(mb)
    BY <1>1
  <2>2. mb[i + 1] = n - Len(mb) + (i + 1)
    BY <2>1 DEF HoldsNewest
  <2>3. QED
    BY <2>2, <1>1
<1>3. QED
  BY <1>1, <1>2, ParametersAssumption DEF HoldsNewest

(* Appending message n + 1 to a mailbox with room keeps the newest.        *)
LEMMA AppendKeepsNewest ==
  ASSUME NEW mb \in Seq(Nat), NEW n \in Nat, Len(mb) < MailboxCapacity, HoldsNewest(mb, n)
  PROVE  HoldsNewest(Append(mb, n + 1), n + 1)
<1> DEFINE r == Append(mb, n + 1)
<1>1. /\ Len(r) = Len(mb) + 1 /\ Len(mb) \in Nat
      /\ r[Len(mb) + 1] = n + 1
      /\ \A i \in 1 .. Len(mb) : r[i] = mb[i]
  OBVIOUS
<1> HIDE DEF r
<1>2. ASSUME NEW i \in 1 .. Len(mb) + 1 PROVE r[i] = (n + 1) - (Len(mb) + 1) + i
  <2>1. CASE i = Len(mb) + 1
    BY <1>1, <2>1
  <2>2. CASE i \in 1 .. Len(mb)
    BY <1>1, <2>2 DEF HoldsNewest
  <2>3. QED
    BY <1>1, <2>1, <2>2
<1>3. Len(r) =< MailboxCapacity
  BY <1>1, ParametersAssumption
<1>4. QED
  BY <1>1, <1>2, <1>3 DEF HoldsNewest, r

(* deliver_message, with its drop of the oldest, keeps the newest.         *)
LEMMA DeliverKeepsNewest ==
  ASSUME NEW e \in AgentExt, NEW n \in Nat, HoldsNewest(e.mailbox, n)
  PROVE  HoldsNewest(Deliver(e, n + 1, MailboxCapacity).mailbox, n + 1)
<1> DEFINE mb == e.mailbox
           kept == IF Len(mb) >= MailboxCapacity THEN Tail(mb) ELSE mb
<1>1. mb \in Seq(Nat) /\ Len(mb) \in Nat
  BY DEF AgentExt
<1>2. kept \in Seq(Nat) /\ Len(kept) < MailboxCapacity /\ HoldsNewest(kept, n)
  <2>1. CASE Len(mb) >= MailboxCapacity
    <3>1. mb # <<>> /\ Len(mb) = MailboxCapacity
      BY <1>1, <2>1, ParametersAssumption DEF HoldsNewest
    <3>2. Tail(mb) \in Seq(Nat) /\ Len(Tail(mb)) = Len(mb) - 1
      BY <1>1, <3>1
    <3>3. HoldsNewest(Tail(mb), n)
      BY <1>1, <3>1, RecvKeepsNewest
    <3>4. QED
      BY <2>1, <3>1, <3>2, <3>3, ParametersAssumption
  <2>2. CASE ~(Len(mb) >= MailboxCapacity)
    BY <1>1, <2>2, ParametersAssumption
  <2>3. QED
    BY <2>1, <2>2
<1>3. Deliver(e, n + 1, MailboxCapacity).mailbox = Append(kept, n + 1)
  BY DEF Deliver, AgentExt
<1> HIDE DEF kept
<1>4. QED
  BY <1>2, <1>3, AppendKeepsNewest

(* Every step keeps MailboxKeepsNewest.                                    *)
LEMMA MailStep ==
  ASSUME TypeOK, MailboxKeepsNewest, [Next]_vars
  PROVE  MailboxKeepsNewest'
<1> DEFINE Held(q) == HoldsNewest(ext[q].mailbox, sent[q])
           HeldNext(q) == HoldsNewest(ext'[q].mailbox, sent'[q])
           Same(q) == ext'[q].mailbox = ext[q].mailbox /\ sent'[q] = sent[q]
<1>1. \A q \in Pids : Held(q)
  BY DEF MailboxKeepsNewest, HoldsNewest
<1>2. SUFFICES \A q \in Pids : HeldNext(q)
  BY DEF MailboxKeepsNewest, HoldsNewest
<1>3. \A q \in Pids : Same(q) => HeldNext(q)
  BY <1>1
<1>4. \A q \in Pids : /\ ext[q] \in AgentExt /\ sent[q] \in Nat
                      /\ ext[q].mailbox \in Seq(Nat)
  BY DEF TypeOK, AgentExt
<1>5. \A n \in Nat : HoldsNewest(NewExt.mailbox, n)
  BY ParametersAssumption DEF NewExt, HoldsNewest
<1>s. UNCHANGED <<ext, sent>> => \A q \in Pids : Same(q)
  OBVIOUS
<1>6. ASSUME NEW p \in Pids, NEW c \in Pids, SysWaitpid(p, c) PROVE \A q \in Pids : HeldNext(q)
  <2>1. \A q \in Pids : q # c => Same(q)
    BY <1>6 DEF SysWaitpid, TypeOK
  <2>2. ext'[c] = NewExt /\ sent'[c] = 0
    BY <1>6 DEF SysWaitpid, TypeOK
  <2>3. QED
    BY <1>3, <1>5, <2>1, <2>2
<1>7. ASSUME NEW p \in Pids, SysAgentCreate(p) PROVE \A q \in Pids : HeldNext(q)
  <2>1. \A q \in Pids : q # p => Same(q)
    BY <1>7 DEF SysAgentCreate, TypeOK
  <2>2. ext'[p] = NewExt /\ sent'[p] \in Nat
    BY <1>4, <1>7 DEF SysAgentCreate, TypeOK
  <2>3. QED
    BY <1>3, <1>5, <2>1, <2>2
<1>8. ASSUME NEW p \in Pids, NEW e, SetOwnExt(p, e), e.mailbox = ext[p].mailbox
      PROVE  \A q \in Pids : Same(q)
  BY <1>8 DEF SetOwnExt, TypeOK
<1>9. ASSUME NEW p \in Pids, SysMailboxRecv(p) PROVE \A q \in Pids : HeldNext(q)
  <2>1. ext[p].mailbox # <<>> /\ sent' = sent
    BY <1>9 DEF SysMailboxRecv, SetOwnExt
  <2>2. /\ ext'[p].mailbox = Tail(ext[p].mailbox)
        /\ \A q \in Pids : q # p => ext'[q] = ext[q]
    BY <1>4, <1>9 DEF SysMailboxRecv, SetOwnExt, TypeOK, AgentExt
  <2>3. HeldNext(p)
    BY <1>1, <1>4, <2>1, <2>2, RecvKeepsNewest
  <2>4. QED
    BY <1>3, <2>1, <2>2, <2>3
<1>10. ASSUME NEW p \in Pids, NEW r \in Pids, SysToolCallSend(p, r)
       PROVE  \A q \in Pids : HeldNext(q)
  <2> DEFINE got == Deliver(ext[r], sent[r] + 1, MailboxCapacity)
  <2>1. got \in AgentExt
    <3>1. ext[r] \in AgentExt /\ sent[r] + 1 \in Nat
      BY <1>4
    <3>2. QED
      BY <3>1, ExtTypes
  <2>2. sent' = [sent EXCEPT ![r] = @ + 1]
    BY <1>10 DEF SysToolCallSend
  <2>3. ext' = [[ext EXCEPT ![r] = got] EXCEPT ![p].loop = "Observing"]
    BY <1>10 DEF SysToolCallSend
  <2> HIDE DEF got
  <2>4. ext'[r].mailbox = got.mailbox
    BY <2>1, <2>3 DEF TypeOK, AgentExt
  <2>5. \A q \in Pids : q # r => Same(q)
    BY <2>2, <2>3 DEF TypeOK, AgentExt
  <2>6. HoldsNewest(got.mailbox, sent[r] + 1)
    BY <1>1, <1>4, DeliverKeepsNewest DEF got
  <2>7. HeldNext(r)
    BY <2>2, <2>4, <2>6 DEF TypeOK
  <2>8. QED
    BY <1>3, <2>5, <2>7
<1>11. ASSUME NEW p \in Pids, SysFileAttr(p) PROVE \A q \in Pids : Same(q)
  BY <1>11 DEF SysFileAttr, TypeOK, AgentExt
<1>12. ASSUME NEW p \in Pids, NEW d \in 0 .. MaxSkew, TimerTrap(p, d)
       PROVE  \A q \in Pids : Same(q)
  BY <1>12 DEF TimerTrap, Beaten, Beat, TypeOK, AgentExt
<1>13. ASSUME NEW p \in Pids, NEW w, NEW t, WaitTurn(p, w, t), UNCHANGED sent
       PROVE  \A q \in Pids : Same(q)
  <2>1. Consume(ext[p]).mailbox = ext[p].mailbox
    BY <1>4 DEF Consume, AgentExt
  <2>2. [ext[p] EXCEPT !.loop = "Thinking"].mailbox = ext[p].mailbox
    BY <1>4 DEF AgentExt
  <2>3. \/ ext' = [ext EXCEPT ![p] = Consume(ext[p])]
        \/ ext' = [ext EXCEPT ![p] = [ext[p] EXCEPT !.loop = "Thinking"]]
    BY <1>13 DEF WaitTurn, TypeOK
  <2>4. QED
    BY <1>13, <2>1, <2>2, <2>3 DEF TypeOK
<1>14. ASSUME NEW p \in Pids, UserStep(p) PROVE \A q \in Pids : HeldNext(q)
  <2>1. SysYield(p) \/ SysFork(p) \/ SysExit(p) => UNCHANGED <<ext, sent>>
    BY DEF SysYield, SysFork, SysExit
  <2>2. ASSUME NEW v \in Priorities, SysAgentSetPriority(p, v) PROVE UNCHANGED <<ext, sent>>
    BY <2>2 DEF SysAgentSetPriority
  <2>3. ASSUME NEW timeout \in Timeouts, NEW d \in 0 .. MaxSkew, NEW e \in d .. MaxSkew,
               SysAgentWait(p, timeout, d, e)
        PROVE  \A q \in Pids : Same(q)
    BY <1>13, <2>3 DEF SysAgentWait
  <2>4. \/ \E v \in Intervals : SysAgentHeartbeatSet(p, v)
        \/ SysAgentHeartbeatStop(p)
        \/ \E m \in Masks : SysAgentWatch(p, m) \/ SysAgentUnwatch(p, m)
        \/ \E s \in LoopInputs : SysAgentSetLoopState(p, s)
        \/ \E end \in ToolOutcomes : SysToolCall(p, end)
        => \A q \in Pids : Same(q)
    BY <1>4, <1>8 DEF SysAgentHeartbeatSet, SysAgentHeartbeatStop, SysAgentWatch,
           SysAgentUnwatch, SysAgentSetLoopState, SysToolCall, AgentExt
  <2>5. QED
    BY <1>3, <1>s, <1>6, <1>7, <1>9, <1>10, <1>11, <1>14, <2>1, <2>2, <2>3, <2>4 DEF UserStep
<1>15. ASSUME NEW p \in Pids, WaitResume(p) PROVE \A q \in Pids : Same(q)
  BY <1>13, <1>15 DEF WaitResume
<1>16. RunTasks \/ Elapse \/ UNCHANGED vars => UNCHANGED <<ext, sent>>
  BY DEF RunTasks, Elapse, vars
<1>17. QED
  BY <1>3, <1>s, <1>12, <1>14, <1>15, <1>16 DEF Next, Timer

(***************************************************************************)
(* The kernel's invariant.                                                 *)
(***************************************************************************)

(* It holds when the kernel starts INITPROC.                               *)
LEMMA InitInv == Init => KernelInv
<1> SUFFICES ASSUME Init PROVE KernelInv
  OBVIOUS
<1>1. TypeOK
  BY InitTypes
<1>i. InitProc \in Pids /\ InitProc = 0
  BY InitProcIsPid DEF InitProc
<1>2. OnePlace
  <2>1. ready = <<InitProc>> /\ Range(ready) = {InitProc} /\ IsInjective(ready)
    BY DEF Init, Range, IsInjective
  <2>2. QED
    BY <2>1, <1>i DEF Init, OnePlace, NoTask, Pids
<1>l. Live = {InitProc}
  BY <1>i DEF Init, Live
<1>3. TreeComplete
  <2>1. \A p \in Pids : children[p] = {}
    BY DEF Init
  <2>2. Closed({InitProc})
    BY <2>1, <1>i DEF Closed
  <2>3. Snapshot = {InitProc}
    BY <1>i, <2>2 DEF Snapshot
  <2>4. QED
    BY <1>l, <2>1, <2>3 DEF TreeComplete
<1>4. PidsPartitioned
  <2>1. recycled = <<>> /\ Range(recycled) = {} /\ IsInjective(recycled)
    BY DEF Init, Range, IsInjective
  <2>2. 0 .. pidNext - 1 = {InitProc}
    BY <1>i DEF Init
  <2>3. QED
    BY <1>l, <2>1, <2>2 DEF PidsPartitioned
<1>5. SleepersThink /\ NoLostWakeup /\ InitProcAlive
  BY <1>i DEF Init, SleepersThink, NoLostWakeup, InitProcAlive, NoWait
<1>6. MailboxKeepsNewest
  BY ParametersAssumption DEF Init, MailboxKeepsNewest, NewExt
<1>7. QED
  BY <1>1, <1>2, <1>3, <1>4, <1>5, <1>6 DEF KernelInv

(* Every step keeps it.                                                    *)
LEMMA InvStep == KernelInv /\ [Next]_vars => KernelInv'
<1> SUFFICES ASSUME KernelInv, [Next]_vars PROVE KernelInv'
  OBVIOUS
<1>1. /\ TypeOK /\ OnePlace /\ TreeComplete /\ PidsPartitioned /\ SleepersThink
      /\ NoLostWakeup /\ MailboxKeepsNewest /\ InitProcAlive
  BY DEF KernelInv
<1>2. TypeOK' /\ OnePlace'
  BY <1>1, TypeStep, PlaceStep
<1>3. TreeComplete' /\ PidsPartitioned'
  BY <1>1, TreeStep, PidStep
<1>4. SleepersThink' /\ InitProcAlive'
  BY <1>1, ThinkStep
<1>5. NoLostWakeup' /\ MailboxKeepsNewest'
  BY <1>1, WakeStep, MailStep
<1>6. QED
  BY <1>2, <1>3, <1>4, <1>5 DEF KernelInv

(* Whatever the applications do, and for any number of tasks, priorities,  *)
(* timeouts and mailbox capacities, the kernel keeps its invariant.        *)
THEOREM KernelInvariant == Spec => []KernelInv
BY InitInv, InvStep, PTL DEF Spec

(* A task is in exactly one of the places the kernel keeps tasks in: the   *)
(* Arc::strong_count assertion of sys_waitpid cannot fail on account of    *)
(* the scheduler.                                                          *)
THEOREM EveryTaskInOnePlace == Spec => []OnePlace
<1>1. KernelInv => OnePlace
  BY DEF KernelInv
<1>2. QED
  BY <1>1, KernelInvariant, PTL

(* An agent asleep in sys_agent_wait is in the loop state Thinking: nobody *)
(* changes the state of a sleeper, and a tool call that failed before left *)
(* no trace in it.                                                         *)
THEOREM SleepersStayThinking == Spec => []SleepersThink
<1>1. KernelInv => SleepersThink
  BY DEF KernelInv
<1>2. QED
  BY <1>1, KernelInvariant, PTL

(* The traversal from INITPROC finds all the tasks.                        *)
THEOREM SnapshotFindsAll == Spec => []TreeComplete
<1>1. KernelInv => TreeComplete
  BY DEF KernelInv
<1>2. QED
  BY <1>1, KernelInvariant, PTL

(* The allocator never hands out a pid in use.                             *)
THEOREM PidsNeverShared == Spec => []PidsPartitioned
<1>1. KernelInv => PidsPartitioned
  BY DEF KernelInv
<1>2. QED
  BY <1>1, KernelInvariant, PTL

(* No agent sleeps in sys_agent_wait while an event it waits for is        *)
(* pending.                                                                *)
THEOREM WakeupsNeverLost == Spec => []NoLostWakeup
<1>1. KernelInv => NoLostWakeup
  BY DEF KernelInv
<1>2. QED
  BY <1>1, KernelInvariant, PTL

(* A mailbox holds the newest messages without a gap.                      *)
THEOREM MailboxOrder == Spec => []MailboxKeepsNewest
<1>1. KernelInv => MailboxKeepsNewest
  BY DEF KernelInv
<1>2. QED
  BY <1>1, KernelInvariant, PTL

(* The idle loop always finds a task, because INITPROC never sleeps.       *)
THEOREM HartNeverIdle == Spec => []NeverIdle
<1>1. KernelInv => NeverIdle
  <2> SUFFICES ASSUME KernelInv, current = NoTask, ready = <<>> PROVE FALSE
    BY DEF NeverIdle
  <2>1. InitProc \in Pids /\ current # InitProc
    BY InitProcIsPid DEF NoTask, InitProc
  <2>2. Range(ready) = {}
    BY DEF Range
  <2>3. QED
    BY <2>1, <2>2 DEF KernelInv, OnePlace, InitProcAlive
<1>2. QED
  BY <1>1, KernelInvariant, PTL

(***************************************************************************)
(* Deadlines.                                                              *)
(***************************************************************************)

(* The deadline on a sleeper's stack is no earlier than its timeout.       *)
DeadlineCovers ==
    \A p \in Pids :
        LET w == wait[p] IN
        w.active /\ Fits(w) => w.deadline >= w.start + w.timeout

(* The frame a new call of sys_agent_wait pushes has such a deadline.      *)
LEMMA NewFrameCovers ==
  ASSUME NEW t \in Nat, NEW d \in 0 .. MaxSkew, NEW timeout \in -1 .. IntMax,
         NEW w \in WaitFrame, w.start = t, w.timeout = timeout,
         w.deadline = DeadlineFor(t + d, timeout), Fits(w)
  PROVE  w.deadline = t + d + timeout
BY BoundsAssumption, ParametersAssumption DEF Fits, DeadlineFor

(* One turn of the wait keeps DeadlineCovers and sleeps only before its    *)
(* deadline.                                                               *)
LEMMA TurnDeadline ==
  ASSUME TypeOK, DeadlineCovers, NEW p \in Pids, NEW w \in WaitFrame, NEW t \in Nat,
         WaitTurn(p, w, t), now' = t, Fits(w) => w.deadline >= w.start + w.timeout
  PROVE  DeadlineCovers' /\ SleepStep
<1>1. CASE wait' = [wait EXCEPT ![p] = NoWait] /\ blocked' = blocked
  <2>1. ~wait'[p].active /\ \A q \in Pids : q # p => wait'[q] = wait[q]
    BY <1>1 DEF NoWait, TypeOK
  <2>2. QED
    BY <1>1, <2>1 DEF DeadlineCovers, SleepStep, Fits
<1>2. CASE wait' = [wait EXCEPT ![p] = w] /\ blocked' = blocked \cup {p} /\ ~Expired(w, t)
  <2>1. wait'[p] = w /\ \A q \in Pids : q # p => wait'[q] = wait[q]
    BY <1>2 DEF TypeOK
  <2>2. DeadlineCovers'
    BY <2>1 DEF DeadlineCovers, Fits
  <2>3. Fits(w) => t < w.deadline
    <3>1. w.start \in Nat /\ w.timeout \in Int /\ w.deadline \in Int
      BY DEF WaitFrame, NoDeadline
    <3>2. QED
      BY <1>2, <3>1 DEF Fits, Expired
  <2>4. QED
    BY <1>2, <2>1, <2>2, <2>3 DEF SleepStep
<1>3. QED
  BY <1>1, <1>2 DEF WaitTurn, schedVars

(* Every step keeps DeadlineCovers, and puts an agent to sleep only before *)
(* its deadline.                                                           *)
LEMMA DeadlineStep ==
  ASSUME KernelInv, DeadlineCovers, [Next]_vars
  PROVE  DeadlineCovers' /\ SleepStep
<1>t. TypeOK
  BY DEF KernelInv
<1>s. wait' = wait /\ blocked' \subseteq blocked => DeadlineCovers' /\ SleepStep
  BY DEF DeadlineCovers, SleepStep, Fits
<1>1. ASSUME NEW p \in Pids, NEW timeout \in Timeouts, NEW d \in 0 .. MaxSkew,
             NEW e \in d .. MaxSkew, SysAgentWait(p, timeout, d, e)
      PROVE  DeadlineCovers' /\ SleepStep
  <2> DEFINE w == [active |-> TRUE, start |-> now, timeout |-> timeout,
                   deadline |-> DeadlineFor(now + d, timeout)]
  <2>1. /\ now + d \in Nat /\ now + e \in Nat /\ d \in Nat /\ now \in Nat
        /\ timeout \in -1 .. IntMax
    BY <1>t, BoundsAssumption, InputsAssumption DEF TypeOK
  <2>2. w \in WaitFrame
    BY <2>1, ParametersAssumption DEF WaitFrame, DeadlineFor, NoDeadline
  <2>3. WaitTurn(p, w, now + e) /\ now' = now + e
    BY <1>1 DEF SysAgentWait
  <2>4. w.start = now /\ w.timeout = timeout /\ w.deadline = DeadlineFor(now + d, timeout)
    OBVIOUS
  <2> HIDE DEF w
  <2>5. Fits(w) => w.deadline >= w.start + w.timeout
    <3> SUFFICES ASSUME Fits(w) PROVE w.deadline >= w.start + w.timeout
      OBVIOUS
    <3>1. w.deadline = now + d + timeout
      BY <2>1, <2>2, <2>4, NewFrameCovers
    <3>2. QED
      BY <2>1, <2>4, <3>1
  <2>6. QED
    BY <1>t, <2>1, <2>2, <2>3, <2>5, TurnDeadline
<1>2. ASSUME NEW p \in Pids, WaitResume(p) PROVE DeadlineCovers' /\ SleepStep
  <2>1. wait[p] \in WaitFrame /\ now \in Nat
    BY <1>t DEF TypeOK
  <2>2. WaitTurn(p, wait[p], now) /\ wait[p].active /\ now' = now
    BY <1>2 DEF WaitResume
  <2>3. Fits(wait[p]) => wait[p].deadline >= wait[p].start + wait[p].timeout
    BY <2>2 DEF DeadlineCovers
  <2>4. QED
    BY <1>t, <2>1, <2>2, <2>3, TurnDeadline
<1>3. ASSUME NEW p \in Pids, UserStep(p) PROVE DeadlineCovers' /\ SleepStep
  <2>1. ASSUME NEW q \in Pids, SysToolCallSend(p, q) PROVE wait' = wait /\ blocked' \subseteq blocked
    BY <2>1 DEF SysToolCallSend, WakeAll
  <2>2. SysFileAttr(p) => wait' = wait /\ blocked' \subseteq blocked
    BY DEF SysFileAttr, WakeAll
  <2>3. ASSUME NEW e, SetOwnExt(p, e) PROVE wait' = wait /\ blocked' \subseteq blocked
    BY <2>3 DEF SetOwnExt, schedVars
  <2>4. SysYield(p) \/ SysFork(p) \/ SysExit(p) \/ (\E c \in Pids : SysWaitpid(p, c))
        => wait' = wait /\ blocked' \subseteq blocked
    BY DEF SysYield, SysFork, SysExit, SysWaitpid
  <2>5. SysAgentCreate(p) \/ (\E v \in Priorities : SysAgentSetPriority(p, v))
        => wait' = wait /\ blocked' \subseteq blocked
    BY DEF SysAgentCreate, SysAgentSetPriority, schedVars
  <2>6. QED
    BY <1>s, <1>1, <1>3, <2>1, <2>2, <2>3, <2>4, <2>5
       DEF UserStep, SysAgentHeartbeatSet, SysAgentHeartbeatStop, SysAgentWatch,
           SysAgentUnwatch, SysAgentSetLoopState, SysMailboxRecv, SysToolCall
<1>4. ASSUME NEW p \in Pids, Timer(p) PROVE wait' = wait /\ blocked' \subseteq blocked
  BY <1>4 DEF Timer, TimerTrap, Beaten
<1>5. RunTasks \/ Elapse \/ UNCHANGED vars => wait' = wait /\ blocked' \subseteq blocked
  BY DEF RunTasks, Elapse, vars, schedVars
<1>6. QED
  BY <1>s, <1>2, <1>3, <1>4, <1>5 DEF Next

(* sys_agent_wait puts an agent to sleep only before its deadline, so the  *)
(* tick that finds the deadline passed always ends the wait.               *)
THEOREM SleepIsBounded == Spec => SleepsBeforeDeadline
<1>1. Init => DeadlineCovers
  BY DEF Init, DeadlineCovers, NoWait
<1>2. KernelInv /\ DeadlineCovers /\ [Next]_vars => DeadlineCovers' /\ SleepStep
  BY DeadlineStep
<1>3. QED
  BY <1>1, <1>2, KernelInvariant, PTL DEF Spec, SleepsBeforeDeadline

(* A timer trap leaves nobody asleep past a deadline, or on a heartbeat    *)
(* that was due when the trap was taken (by the state before it, as its    *)
(* own Beat hides that): the snapshot holds every sleeper because it holds *)
(* every task, and whoever is marked is woken.                             *)
THEOREM TickMissesNobody == Spec => TickWakesAllDue
<1>1. ASSUME KernelInv, NEW p \in Pids, Timer(p), NEW q \in blocked'
      PROVE  /\ ~HeartbeatDue(ext[q], now)
             /\ wait[q].deadline # NoDeadline => now < wait[q].deadline
  <2>1. PICK d \in 0 .. MaxSkew : TimerTrap(p, d)
    BY <1>1 DEF Timer
  <2> DEFINE due == DueAgents(now)
  <2>2. blocked' = blocked \ ((due \cap blocked) \cup (TimedOut(now + d) \ (due \cap blocked)))
    BY <2>1 DEF TimerTrap, Beaten
  <2>3. q \in Pids /\ q \in blocked /\ q \notin due /\ q \notin TimedOut(now + d)
    BY <1>1, <2>2 DEF KernelInv, TypeOK
  <2>4. q \in Snapshot \cap agents
    BY <1>1, <2>3 DEF KernelInv, OnePlace, TreeComplete, SleepersThink, Live
  <2>5. ~HeartbeatDue(ext[q], now)
    BY <2>3, <2>4 DEF DueAgents
  <2>6. ASSUME wait[q].deadline # NoDeadline PROVE now < wait[q].deadline
    <3>1. wait[q].deadline \in Nat /\ now \in Nat /\ d \in Nat
      BY <1>1, <2>3, <2>6, BoundsAssumption DEF KernelInv, TypeOK, WaitFrame
    <3>2. ~(now + d >= wait[q].deadline)
      BY <2>3, <2>6 DEF TimedOut
    <3>3. QED
      BY <3>1, <3>2
  <2>7. QED
    BY <2>5, <2>6
<1>2. KernelInv => TickStep
  BY <1>1 DEF TickStep
<1>3. QED
  BY <1>2, KernelInvariant, PTL DEF TickWakesAllDue

(* A set of natural numbers that is not empty has a least element. *)
LEMMA Least ==
  ASSUME NEW T, T \subseteq Nat, T # {}
  PROVE  \E x \in T : \A y \in T : x =< y
<1> DEFINE R == OpToRel(<, Nat)
<1>1. IsWellFoundedOn(R, Nat)
  BY NatLessThanWellFounded
<1>2. \A x, y \in Nat : <<x, y>> \in R <=> x < y
  BY DEF OpToRel
<1> HIDE DEF R
<1>3. PICK x \in T : \A y \in T : ~(<<y, x>> \in R)
  BY <1>1, WFMin
<1>4. ASSUME NEW y \in T PROVE x =< y
  <2>1. x \in Nat /\ y \in Nat /\ ~(y < x)
    BY <1>2, <1>3
  <2>2. QED
    BY <2>1
<1>5. QED
  BY <1>4

(* Entry k is the first of the largest level among the first n of a queue  *)
(* whose i-th entry has level w[i].                                        *)
BestOf(w, n, k) ==
    /\ k \in 1 .. n
    /\ \A j \in 1 .. n : w[j] < w[k] \/ (w[j] = w[k] /\ k =< j)

(* One round of the scan keeps the best entry, whichever it is. *)
LEMMA RoundKeepsBest ==
  ASSUME NEW N \in Nat, NEW w \in [1 .. N -> Int], NEW n \in 2 .. N, NEW k, BestOf(w, n - 1, k)
  PROVE  BestOf(w, n, IF w[n] > w[k] THEN n ELSE k)
<1>1. k \in 1 .. n - 1 /\ w[k] \in Int /\ w[n] \in Int
  BY DEF BestOf
<1>2. ASSUME NEW j \in 1 .. n, j # n
      PROVE  w[j] \in Int /\ j \in 1 .. n - 1 /\ (w[j] < w[k] \/ (w[j] = w[k] /\ k =< j))
  <2>1. j \in 1 .. n - 1 /\ j \in 1 .. N
    BY <1>2
  <2>2. QED
    BY <2>1 DEF BestOf
<1>3. CASE w[n] > w[k]
  <2>1. \A j \in 1 .. n : w[j] < w[n] \/ (w[j] = w[n] /\ n =< j)
    BY <1>1, <1>2, <1>3
  <2>2. QED
    BY <1>3, <2>1 DEF BestOf
<1>4. CASE ~(w[n] > w[k])
  <2>1. \A j \in 1 .. n : w[j] < w[k] \/ (w[j] = w[k] /\ k =< j)
    BY <1>1, <1>2, <1>4
  <2>2. QED
    BY <1>1, <1>4, <2>1 DEF BestOf
<1>5. QED
  BY <1>3, <1>4

(* There is one best entry at most. *)
LEMMA OneBest ==
  ASSUME NEW N \in Nat, NEW w \in [1 .. N -> Int], NEW n \in 1 .. N, NEW k, NEW m,
         BestOf(w, n, k), BestOf(w, n, m)
  PROVE  k = m
<1>1. k \in 1 .. n /\ m \in 1 .. n /\ w[k] \in Int /\ w[m] \in Int
  BY DEF BestOf
<1>2. /\ w[k] < w[m] \/ (w[k] = w[m] /\ m =< k)
      /\ w[m] < w[k] \/ (w[m] = w[k] /\ k =< m)
  BY <1>1 DEF BestOf
<1>3. QED
  BY <1>1, <1>2

(* Every prefix of a queue has a best entry. *)
LEMMA SomeBest ==
  ASSUME NEW N \in Nat, NEW w \in [1 .. N -> Int]
  PROVE  \A n \in 1 .. N : \E k : BestOf(w, n, k)
<1> DEFINE T == {n \in 1 .. N : ~\E k : BestOf(w, n, k)}
<1>1. T = {}
  <2> SUFFICES ASSUME T # {} PROVE FALSE
    OBVIOUS
  <2>1. T \subseteq Nat
    OBVIOUS
  <2>2. PICK n \in T : \A y \in T : n =< y
    BY <2>1, Least
  <2>3. CASE n = 1
    <3>1. w[1] \in Int
      BY <2>2, <2>3
    <3>2. BestOf(w, 1, 1)
      BY <3>1 DEF BestOf
    <3>3. QED
      BY <2>2, <2>3, <3>2
  <2>4. CASE n # 1
    <3>1. n \in 2 .. N /\ n - 1 \in 1 .. N /\ ~(n =< n - 1)
      BY <2>4
    <3>2. n - 1 \notin T
      BY <2>2, <3>1
    <3>3. PICK k : BestOf(w, n - 1, k)
      BY <3>1, <3>2
    <3>4. BestOf(w, n, IF w[n] > w[k] THEN n ELSE k)
      BY <3>1, <3>3, RoundKeepsBest
    <3>5. QED
      BY <2>2, <3>4
  <2>5. QED
    BY <2>3, <2>4
<1>2. QED
  BY <1>1

(* The scan over any queue that is not empty, for any integer levels, ends *)
(* with the best entry: the function that maps n to the best of the first  *)
(* n satisfies the scan's recursion, and no other one does.                *)
LEMMA ScanIsBest ==
  ASSUME NEW S, NEW q \in Seq(S), q # <<>>, NEW prio,
         \A i \in 1 .. Len(q) : prio[q[i]] \in Int
  PROVE  BestOf([i \in 1 .. Len(q) |-> prio[q[i]]], Len(q), FetchScan(q, prio))
<1> DEFINE N == Len(q)
           w == [i \in 1 .. N |-> prio[q[i]]]
           g == [n \in 1 .. N |-> CHOOSE k : BestOf(w, n, k)]
           scan == CHOOSE s : s = [i \in 1 .. Len(q) |->
                       IF i = 1 THEN 1 ELSE IF prio[q[i]] > prio[q[s[i - 1]]] THEN i ELSE s[i - 1]]
<1>1. N \in Nat /\ N \in 1 .. N
  OBVIOUS
<1>2. w \in [1 .. N -> Int] /\ \A i \in 1 .. N : w[i] = prio[q[i]]
  OBVIOUS
<1>3. FetchScan(q, prio) = scan[N]
  BY DEF FetchScan, BetterIndex
<1> HIDE DEF w
<1>4. \A n \in 1 .. N : BestOf(w, n, g[n])
  BY <1>1, <1>2, SomeBest
<1>5. DOMAIN g = 1 .. N /\ g = [n \in 1 .. N |-> g[n]]
  OBVIOUS
<1> HIDE DEF g, N
<1>6. ASSUME NEW n \in 1 .. N
      PROVE  g[n] = IF n = 1 THEN 1
                    ELSE IF prio[q[n]] > prio[q[g[n - 1]]] THEN n ELSE g[n - 1]
  <2>1. CASE n = 1
    <3>1. g[1] \in 1 .. 1
      BY <1>4, <2>1 DEF BestOf
    <3>2. QED
      BY <2>1, <3>1
  <2>2. CASE n # 1
    <3>1. n \in 2 .. N /\ n - 1 \in 1 .. N
      BY <1>1, <2>2
    <3>2. BestOf(w, n - 1, g[n - 1])
      BY <1>4, <3>1
    <3>3. BestOf(w, n, IF w[n] > w[g[n - 1]] THEN n ELSE g[n - 1])
      BY <1>1, <1>2, <3>1, <3>2, RoundKeepsBest
    <3>4. g[n] = IF w[n] > w[g[n - 1]] THEN n ELSE g[n - 1]
      BY <1>1, <1>2, <1>4, <3>3, OneBest
    <3>5. g[n - 1] \in 1 .. N
      BY <1>1, <3>1, <3>2 DEF BestOf
    <3>6. QED
      BY <1>2, <2>2, <3>4, <3>5
  <2>3. QED
    BY <2>1, <2>2
<1>7. g = [i \in 1 .. Len(q) |->
             IF i = 1 THEN 1 ELSE IF prio[q[i]] > prio[q[g[i - 1]]] THEN i ELSE g[i - 1]]
  <2>1. N = Len(q)
    BY DEF N
  <2>2. QED
    BY <1>5, <1>6, <2>1
<1>8. scan = [i \in 1 .. Len(q) |->
             IF i = 1 THEN 1 ELSE IF prio[q[i]] > prio[q[scan[i - 1]]] THEN i ELSE scan[i - 1]]
  BY <1>7
<1> HIDE DEF scan
<1>9. ASSUME NEW n \in 1 .. N
      PROVE  scan[n] = IF n = 1 THEN 1
                       ELSE IF prio[q[n]] > prio[q[scan[n - 1]]] THEN n ELSE scan[n - 1]
  BY <1>8 DEF N
<1> DEFINE T == {n \in 1 .. N : scan[n] # g[n]}
<1>10. T = {}
  <2> SUFFICES ASSUME T # {} PROVE FALSE
    OBVIOUS
  <2>1. T \subseteq Nat
    BY <1>1
  <2>2. PICK n \in T : \A y \in T : n =< y
    BY <2>1, Least
  <2>3. n # 1
    BY <1>6, <1>9, <2>2
  <2>4. n - 1 \in 1 .. N /\ ~(n =< n - 1)
    BY <1>1, <2>2, <2>3
  <2>5. scan[n - 1] = g[n - 1]
    BY <2>2, <2>4
  <2>6. scan[n] = g[n]
    BY <1>6, <1>9, <2>2, <2>3, <2>5
  <2>7. QED
    BY <2>2, <2>6
<1>11. scan[N] = g[N] /\ BestOf(w, N, g[N])
  BY <1>1, <1>4, <1>10
<1>12. QED
  BY <1>3, <1>11 DEF w, N

(* The scan of TaskManager::fetch finds the first entry of the highest     *)
(* priority, and no other entry is one: what the scheduler's actions take  *)
(* from the queue is what the loop in the code takes.                      *)
THEOREM ScanFindsTheBest == Spec => []ScanFindsBest
<1>1. ASSUME TypeOK, ready # <<>>, NEW prio \in [Range(ready) -> 0 .. 2]
      PROVE  {i \in 1 .. Len(ready) : IsBest(ready, prio, i)} = {FetchScan(ready, prio)}
  <2> DEFINE N == Len(ready)
             w == [i \in 1 .. N |-> prio[ready[i]]]
             best == FetchScan(ready, prio)
  <2>1. ready \in Seq(Pids)
    BY <1>1 DEF TypeOK
  <2>2. \A i \in 1 .. N : prio[ready[i]] \in Int
    BY <2>1 DEF Range
  <2>3. BestOf(w, N, best)
    BY <1>1, <2>1, <2>2, ScanIsBest
  <2>4. N \in Nat /\ N \in 1 .. N /\ w \in [1 .. N -> Int]
    BY <1>1, <2>1, <2>2
  <2>5. \A i \in 1 .. N : w[i] = prio[ready[i]]
    OBVIOUS
  <2> HIDE DEF w, best
  <2>6. \A i \in 1 .. N : IsBest(ready, prio, i) <=> BestOf(w, N, i)
    BY <2>5 DEF IsBest, BestOf
  <2>7. best \in 1 .. N /\ \A i \in 1 .. N : BestOf(w, N, i) => i = best
    <3>1. best \in 1 .. N
      BY <2>3 DEF BestOf
    <3> HIDE DEF N
    <3>2. QED
      BY <2>3, <2>4, <3>1, OneBest
  <2>8. QED
    BY <2>3, <2>6, <2>7 DEF best
<1>2. TypeOK => ScanFindsBest
  BY <1>1 DEF ScanFindsBest
<1>3. QED
  BY <1>2, TypeCorrect, PTL

-------------------------------------------------------------------------------
(* The event loop implements the event channel: no event is lost between   *)
(* the one who raises it and the agent's own system calls.                 *)

(* The events of an extension, one by one. *)
LEMMA PendingMembers ==
  ASSUME NEW e \in AgentExt
  PROVE  /\ Pending(e) \subseteq {Heartbeat, Message, File}
         /\ Heartbeat \in Pending(e) <=> e.hbPending
         /\ Message \in Pending(e) <=> e.mailbox # <<>>
         /\ File \in Pending(e) <=> e.filePending
BY DEF Pending, Heartbeat, Message, File

(* Two extensions with the same flags, and mailboxes both empty or not,    *)
(* have the same events.                                                   *)
LEMMA PendingSame ==
  ASSUME NEW e \in AgentExt, NEW f \in AgentExt,
         f.hbPending = e.hbPending, f.filePending = e.filePending, f.mailbox = e.mailbox
  PROVE  Pending(f) = Pending(e)
BY DEF Pending

(* What the updates of an extension do to its events: nothing, ...         *)
LEMMA EventsKept ==
  ASSUME NEW e \in AgentExt
  PROVE  /\ \A s \in LoopStates : /\ Pending([e EXCEPT !.loop = s]) = Pending(e)
                                  /\ WaitMask([e EXCEPT !.loop = s]) = WaitMask(e)
         /\ \A m \in SUBSET Bits : /\ Pending([e EXCEPT !.watched = @ \cup m]) = Pending(e)
                                   /\ Pending([e EXCEPT !.watched = @ \ m]) = Pending(e)
<1>1. ASSUME NEW s \in LoopStates
      PROVE  /\ Pending([e EXCEPT !.loop = s]) = Pending(e)
             /\ WaitMask([e EXCEPT !.loop = s]) = WaitMask(e)
  <2> DEFINE f == [e EXCEPT !.loop = s]
  <2>1. f \in AgentExt
    BY ExtTypes
  <2>2. /\ f.hbPending = e.hbPending /\ f.filePending = e.filePending
        /\ f.mailbox = e.mailbox /\ f.watched = e.watched
    BY DEF AgentExt
  <2> HIDE DEF f
  <2>3. Pending(f) = Pending(e) /\ WaitMask(f) = WaitMask(e)
    BY <2>1, <2>2, PendingSame DEF WaitMask
  <2>4. QED
    BY <2>3 DEF f
<1>2. ASSUME NEW w \in SUBSET Bits
      PROVE  Pending([e EXCEPT !.watched = w]) = Pending(e)
  <2> DEFINE f == [e EXCEPT !.watched = w]
  <2>1. f \in AgentExt
    BY DEF AgentExt
  <2>2. f.hbPending = e.hbPending /\ f.filePending = e.filePending /\ f.mailbox = e.mailbox
    BY DEF AgentExt
  <2> HIDE DEF f
  <2>3. Pending(f) = Pending(e)
    BY <2>1, <2>2, PendingSame
  <2>4. QED
    BY <2>3 DEF f
<1>3. \A m \in SUBSET Bits : (e.watched \cup m) \in SUBSET Bits /\ (e.watched \ m) \in SUBSET Bits
  BY DEF AgentExt
<1>4. QED
  BY <1>1, <1>2, <1>3

(* ... more are raised, ...                                                *)
LEMMA EventsRaised ==
  ASSUME NEW e \in AgentExt
  PROVE  /\ \A t \in Nat : /\ Pending(e) \subseteq Pending(Beat(e, t))
                           /\ WaitMask(Beat(e, t)) = WaitMask(e)
         /\ \A m \in Nat : /\ Pending(e) \subseteq Pending(Deliver(e, m, MailboxCapacity))
                           /\ WaitMask(Deliver(e, m, MailboxCapacity)) = WaitMask(e)
         /\ Pending(e) \subseteq Pending([e EXCEPT !.filePending = TRUE])
         /\ WaitMask([e EXCEPT !.filePending = TRUE]) = WaitMask(e)
<1>1. ASSUME NEW f \in AgentExt, f.watched = e.watched,
             e.hbPending => f.hbPending, e.filePending => f.filePending,
             e.mailbox # <<>> => f.mailbox # <<>>
      PROVE  Pending(e) \subseteq Pending(f) /\ WaitMask(f) = WaitMask(e)
  BY <1>1, PendingMembers DEF WaitMask
<1>2. ASSUME NEW t \in Nat
      PROVE  /\ Pending(e) \subseteq Pending(Beat(e, t))
             /\ WaitMask(Beat(e, t)) = WaitMask(e)
  <2>1. Beat(e, t) \in AgentExt
    BY ExtTypes
  <2>2. /\ Beat(e, t).watched = e.watched /\ Beat(e, t).hbPending
        /\ Beat(e, t).filePending = e.filePending /\ Beat(e, t).mailbox = e.mailbox
    BY DEF Beat, AgentExt
  <2>3. QED
    BY <1>1, <2>1, <2>2
<1>3. ASSUME NEW m \in Nat
      PROVE  /\ Pending(e) \subseteq Pending(Deliver(e, m, MailboxCapacity))
             /\ WaitMask(Deliver(e, m, MailboxCapacity)) = WaitMask(e)
  <2> DEFINE f == Deliver(e, m, MailboxCapacity)
             kept == IF Len(e.mailbox) >= MailboxCapacity THEN Tail(e.mailbox) ELSE e.mailbox
  <2>1. f \in AgentExt
    BY ExtTypes
  <2>2. /\ f.watched = e.watched /\ f.hbPending = e.hbPending
        /\ f.filePending = e.filePending /\ f.mailbox = Append(kept, m)
    BY DEF Deliver, AgentExt
  <2>3. f.mailbox # <<>>
    <3>1. e.mailbox \in Seq(Nat)
      BY DEF AgentExt
    <3>2. kept \in Seq(Nat)
      <4>1. CASE Len(e.mailbox) >= MailboxCapacity
        <5>1. e.mailbox # <<>>
          BY <4>1, ParametersAssumption
        <5>2. QED
          BY <3>1, <4>1, <5>1
      <4>2. CASE ~(Len(e.mailbox) >= MailboxCapacity)
        BY <3>1, <4>2
      <4>3. QED
        BY <4>1, <4>2
    <3> HIDE DEF f, kept
    <3>3. Append(kept, m) # <<>>
      <4>1. Len(Append(kept, m)) = Len(kept) + 1 /\ Len(kept) \in Nat
        BY <3>2
      <4>2. Len(Append(kept, m)) # 0
        BY <4>1
      <4>3. Len(<<>>) = 0
        OBVIOUS
      <4>4. QED
        BY <4>2, <4>3, Zenon
    <3>4. f.mailbox = Append(kept, m)
      BY <2>2
    <3>5. QED
      BY <3>3, <3>4, Zenon
  <2> HIDE DEF f
  <2>4. Pending(e) \subseteq Pending(f) /\ WaitMask(f) = WaitMask(e)
    BY <1>1, <2>1, <2>2, <2>3
  <2>5. QED
    BY <2>4 DEF f
<1>4. /\ Pending(e) \subseteq Pending([e EXCEPT !.filePending = TRUE])
      /\ WaitMask([e EXCEPT !.filePending = TRUE]) = WaitMask(e)
  <2> DEFINE f == [e EXCEPT !.filePending = TRUE]
  <2>1. f \in AgentExt
    BY ExtTypes
  <2>2. /\ f.watched = e.watched /\ f.hbPending = e.hbPending
        /\ f.filePending /\ f.mailbox = e.mailbox
    BY DEF AgentExt
  <2> HIDE DEF f
  <2>3. Pending(e) \subseteq Pending(f) /\ WaitMask(f) = WaitMask(e)
    BY <1>1, <2>1, <2>2
  <2>4. QED
    BY <2>3 DEF f
<1>5. QED
  BY <1>2, <1>3, <1>4

(* ... or the agent disposes of them.                                      *)
LEMMA EventsDisposed ==
  ASSUME NEW e \in AgentExt
  PROVE  /\ Pending(Consume(e)) = Pending(e) \ (WaitMask(e) \ {Message})
         /\ WaitMask(Consume(e)) = WaitMask(e)
<1> DEFINE f == Consume(e)
<1>1. f \in AgentExt
  BY ExtTypes
<1>2. /\ f.watched = e.watched /\ f.mailbox = e.mailbox
      /\ f.hbPending <=> (e.hbPending /\ Heartbeat \notin Triggered(e))
      /\ f.filePending <=> (e.filePending /\ File \notin Triggered(e))
  BY DEF Consume, AgentExt
<1> HIDE DEF f
<1>3. Heartbeat # Message /\ File # Message
  BY DEF Heartbeat, Message, File
<1>4. /\ Heartbeat \in Pending(f) <=> Heartbeat \in Pending(e) /\ Heartbeat \notin WaitMask(e)
      /\ File \in Pending(f) <=> File \in Pending(e) /\ File \notin WaitMask(e)
      /\ Message \in Pending(f) <=> Message \in Pending(e)
  BY <1>1, <1>2, PendingMembers DEF Triggered
<1>5. Pending(f) \subseteq {Heartbeat, Message, File} /\ Pending(e) \subseteq {Heartbeat, Message, File}
  BY <1>1, PendingMembers
<1>6. Pending(f) = Pending(e) \ (WaitMask(e) \ {Message})
  BY <1>3, <1>4, <1>5
<1>7. WaitMask(f) = WaitMask(e)
  BY <1>2 DEF WaitMask
<1>8. QED
  BY <1>6, <1>7 DEF f

(* A restarted or stopped heartbeat, and a taken message.                  *)
LEMMA OwnEvents ==
  ASSUME NEW e \in AgentExt
  PROVE  /\ \A v, l \in Nat :
              LET f == [e EXCEPT !.interval = v, !.last = l, !.hbPending = FALSE]
              IN  Pending(f) = Pending(e) \ {Heartbeat} /\ WaitMask(f) = WaitMask(e)
         /\ LET f == [e EXCEPT !.interval = 0, !.hbPending = FALSE]
            IN  Pending(f) = Pending(e) \ {Heartbeat} /\ WaitMask(f) = WaitMask(e)
         /\ e.mailbox # <<>> =>
              LET f == [e EXCEPT !.mailbox = Tail(@)]
              IN  /\ Pending(f) \in {Pending(e), Pending(e) \ {Message}}
                  /\ WaitMask(f) = WaitMask(e)
<1>d. Heartbeat # Message /\ Heartbeat # File /\ File # Message
  BY DEF Heartbeat, Message, File
<1>1. ASSUME NEW f \in AgentExt, f.watched = e.watched, ~f.hbPending,
             f.filePending = e.filePending, f.mailbox = e.mailbox
      PROVE  Pending(f) = Pending(e) \ {Heartbeat} /\ WaitMask(f) = WaitMask(e)
  <2>1. /\ Heartbeat \notin Pending(f)
        /\ File \in Pending(f) <=> File \in Pending(e)
        /\ Message \in Pending(f) <=> Message \in Pending(e)
    BY <1>1, PendingMembers
  <2>2. Pending(f) \subseteq {Heartbeat, Message, File} /\ Pending(e) \subseteq {Heartbeat, Message, File}
    BY <1>1, PendingMembers
  <2>3. QED
    BY <1>d, <1>1, <2>1, <2>2 DEF WaitMask
<1>2. ASSUME NEW v \in Nat, NEW l \in Nat
      PROVE  LET f == [e EXCEPT !.interval = v, !.last = l, !.hbPending = FALSE]
             IN  Pending(f) = Pending(e) \ {Heartbeat} /\ WaitMask(f) = WaitMask(e)
  <2> DEFINE f == [e EXCEPT !.interval = v, !.last = l, !.hbPending = FALSE]
  <2>1. f \in AgentExt
    BY DEF AgentExt
  <2>2. f.watched = e.watched /\ ~f.hbPending /\ f.filePending = e.filePending /\ f.mailbox = e.mailbox
    BY DEF AgentExt
  <2> HIDE DEF f
  <2>3. Pending(f) = Pending(e) \ {Heartbeat} /\ WaitMask(f) = WaitMask(e)
    BY <1>1, <2>1, <2>2
  <2>4. QED
    BY <2>3 DEF f
<1>3. LET f == [e EXCEPT !.interval = 0, !.hbPending = FALSE]
      IN  Pending(f) = Pending(e) \ {Heartbeat} /\ WaitMask(f) = WaitMask(e)
  <2> DEFINE f == [e EXCEPT !.interval = 0, !.hbPending = FALSE]
  <2>1. f \in AgentExt
    BY DEF AgentExt
  <2>2. f.watched = e.watched /\ ~f.hbPending /\ f.filePending = e.filePending /\ f.mailbox = e.mailbox
    BY DEF AgentExt
  <2> HIDE DEF f
  <2>3. Pending(f) = Pending(e) \ {Heartbeat} /\ WaitMask(f) = WaitMask(e)
    BY <1>1, <2>1, <2>2
  <2>4. QED
    BY <2>3 DEF f
<1>4. ASSUME e.mailbox # <<>>
      PROVE  LET f == [e EXCEPT !.mailbox = Tail(@)]
             IN  /\ Pending(f) \in {Pending(e), Pending(e) \ {Message}}
                 /\ WaitMask(f) = WaitMask(e)
  <2> DEFINE f == [e EXCEPT !.mailbox = Tail(@)]
  <2>1. f \in AgentExt
    BY <1>4, ExtTypes
  <2>2. f.watched = e.watched /\ f.hbPending = e.hbPending /\ f.filePending = e.filePending
    BY DEF AgentExt
  <2> HIDE DEF f
  <2>3. /\ Heartbeat \in Pending(f) <=> Heartbeat \in Pending(e)
        /\ File \in Pending(f) <=> File \in Pending(e)
        /\ Message \in Pending(e)
    BY <1>4, <2>1, <2>2, PendingMembers
  <2>4. Pending(f) \subseteq {Heartbeat, Message, File} /\ Pending(e) \subseteq {Heartbeat, Message, File}
    BY <2>1, PendingMembers
  <2>5. Pending(f) = Pending(e) \/ Pending(f) = Pending(e) \ {Message}
    <3>1. CASE Message \in Pending(f)
      BY <1>d, <2>3, <2>4, <3>1
    <3>2. CASE Message \notin Pending(f)
      BY <1>d, <2>3, <2>4, <3>2
    <3>3. QED
      BY <3>1, <3>2
  <2>6. WaitMask(f) = WaitMask(e)
    BY <2>2 DEF WaitMask
  <2>7. QED
    BY <2>5, <2>6 DEF f
<1>5. QED
  BY <1>2, <1>3, <1>4

(***************************************************************************)
(* A task that is no agent has the extension AgentExt::new would give it.  *)
(***************************************************************************)
NonAgents == \A q \in Pids \ agents : ext[q] = NewExt

(* One turn of the loop of an agent's sys_agent_wait leaves the others be. *)
LEMMA WaitTurnOwn ==
  ASSUME TypeOK, NEW p \in Pids, NEW w, NEW t, WaitTurn(p, w, t)
  PROVE  \A q \in Pids : q # p => ext'[q] = ext[q]
BY DEF WaitTurn, TypeOK

(* Every step keeps NonAgents.                                             *)
LEMMA NonAgentsStep ==
  ASSUME TypeOK, SleepersThink, NonAgents, [Next]_vars
  PROVE  NonAgents'
<1>s. UNCHANGED <<agents, ext>> => NonAgents'
  BY DEF NonAgents
<1>o. ASSUME NEW p \in agents, agents' = agents, \A q \in Pids : q # p => ext'[q] = ext[q]
      PROVE  NonAgents'
  BY <1>o DEF NonAgents
<1>1. ASSUME NEW p \in Pids, NEW c \in Pids, SysWaitpid(p, c) PROVE NonAgents'
  BY <1>1 DEF SysWaitpid, NonAgents, TypeOK
<1>2. ASSUME NEW p \in Pids, SysAgentCreate(p) PROVE NonAgents'
  BY <1>2 DEF SysAgentCreate, NonAgents, TypeOK
<1>3. ASSUME NEW p \in Pids, NEW e, SetOwnExt(p, e) PROVE NonAgents'
  BY <1>3, <1>o DEF SetOwnExt, TypeOK
<1>4. ASSUME NEW p \in Pids, NEW q \in Pids, SysToolCallSend(p, q) PROVE NonAgents'
  <2>1. p \in agents /\ q \in agents /\ agents' = agents
    BY <1>4 DEF SysToolCallSend
  <2>2. \A x \in Pids : x # p /\ x # q => ext'[x] = ext[x]
    BY <1>4 DEF SysToolCallSend, TypeOK
  <2>3. QED
    BY <2>1, <2>2 DEF NonAgents
<1>5. ASSUME NEW p \in Pids, SysFileAttr(p) PROVE NonAgents'
  <2>1. FileWatchers \subseteq agents /\ agents' = agents
    BY <1>5 DEF SysFileAttr, FileWatchers
  <2>2. \A x \in Pids : x \notin FileWatchers => ext'[x] = ext[x]
    BY <1>5 DEF SysFileAttr
  <2>3. QED
    BY <2>1, <2>2 DEF NonAgents
<1>6. ASSUME NEW p \in Pids, NEW d \in 0 .. MaxSkew, TimerTrap(p, d) PROVE NonAgents'
  <2>1. DueAgents(now) \subseteq agents /\ agents' = agents
    BY <1>6 DEF TimerTrap, Beaten, DueAgents
  <2>2. \A x \in Pids : x \notin DueAgents(now) => ext'[x] = ext[x]
    BY <1>6 DEF TimerTrap, Beaten
  <2>3. QED
    BY <2>1, <2>2 DEF NonAgents
<1>7. ASSUME NEW p \in Pids, UserStep(p) PROVE NonAgents'
  <2>1. ASSUME NEW timeout \in Timeouts, NEW d \in 0 .. MaxSkew, NEW e \in d .. MaxSkew,
               SysAgentWait(p, timeout, d, e)
        PROVE  NonAgents'
    BY <2>1, <1>o, WaitTurnOwn DEF SysAgentWait
  <2>2. SysYield(p) \/ SysFork(p) \/ SysExit(p) => NonAgents'
    BY <1>s DEF SysYield, SysFork, SysExit
  <2>3. ASSUME NEW v \in Priorities, SysAgentSetPriority(p, v) PROVE NonAgents'
    BY <2>3, <1>s DEF SysAgentSetPriority
  <2>4. QED
    BY <1>1, <1>2, <1>3, <1>4, <1>5, <1>7, <2>1, <2>2, <2>3
       DEF UserStep, SysAgentHeartbeatSet, SysAgentHeartbeatStop, SysAgentWatch,
           SysAgentUnwatch, SysAgentSetLoopState, SysMailboxRecv, SysToolCall
<1>8. ASSUME NEW p \in Pids, WaitResume(p) PROVE NonAgents'
  <2>1. p \in agents /\ agents' = agents
    BY <1>8 DEF WaitResume, SleepersThink
  <2>2. QED
    BY <1>8, <1>o, <2>1, WaitTurnOwn DEF WaitResume
<1>9. RunTasks \/ Elapse \/ UNCHANGED vars => NonAgents'
  BY <1>s DEF RunTasks, Elapse, vars, schedVars
<1>10. QED
  BY <1>6, <1>7, <1>8, <1>9 DEF Next, Timer

(***************************************************************************)
(* The steps of the channel.                                               *)
(***************************************************************************)

(* A step that takes nobody's events, changes no mask and puts nobody to   *)
(* sleep is a Raise: NoLostWakeup' is what wakes those who wait.           *)
LEMMA QuietIsRaise ==
  ASSUME TypeOK, TypeOK', NoLostWakeup', NonAgents, NonAgents',
         agents' = agents, blocked' \subseteq blocked,
         \A q \in Pids : /\ Pending(ext[q]) \subseteq Pending(ext'[q])
                         /\ WaitMask(ext'[q]) = WaitMask(ext[q])
  PROVE  Channel!Raise
<1>1. \A q \in Pids : Pending(ext'[q]) \in SUBSET {Heartbeat, Message, File}
  BY PendingMembers DEF TypeOK
<1>2. \A q \in Pids \ agents : Pending(ext'[q]) = Pending(ext[q])
  BY DEF NonAgents
<1>3. \A q \in blocked' : q \in Pids /\ Pending(ext'[q]) \cap WaitMask(ext[q]) = {}
  BY DEF NoLostWakeup, Triggered, TypeOK
<1>4. QED
  BY <1>1, <1>2, <1>3 DEF Channel!Raise, TypeOK

(* The same events, masks, agents and sleepers. *)
LEMMA SameIsStutter ==
  ASSUME agents' = agents, blocked' = blocked,
         \A q \in Pids : /\ Pending(ext'[q]) = Pending(ext[q])
                         /\ WaitMask(ext'[q]) = WaitMask(ext[q])
  PROVE  UNCHANGED Channel!channelVars
BY DEF Channel!channelVars

(* The running agent disposes of events of its own.                        *)
LEMMA OwnIsDispose ==
  ASSUME TypeOK, OnePlace, NEW p \in agents, current = p, NEW e, NEW S,
         ext' = [ext EXCEPT ![p] = e], agents' = agents, blocked' = blocked,
         Pending(e) = Pending(ext[p]) \ S, WaitMask(e) = WaitMask(ext[p])
  PROVE  Channel!Dispose(p, S)
<1>1. p \in Pids /\ p \notin blocked
  BY DEF TypeOK, OnePlace
<1>2. ext'[p] = e /\ \A q \in Pids : q # p => ext'[q] = ext[q]
  BY <1>1 DEF TypeOK
<1>3. \A q \in Pids : WaitMask(ext'[q]) = WaitMask(ext[q])
  BY <1>2
<1>4. \A q \in Pids : Pending(ext'[q]) = IF q = p THEN Pending(ext[p]) \ S ELSE Pending(ext[q])
  BY <1>2
<1>5. QED
  BY <1>1, <1>3, <1>4 DEF Channel!Dispose

(* One turn of sys_agent_wait reports, or falls asleep.                    *)
LEMMA WaitTurnIsStep ==
  ASSUME TypeOK, OnePlace, NEW p \in agents, current = p, agents' = agents,
         NEW w, NEW t, WaitTurn(p, w, t)
  PROVE  Channel!Report(p) \/ Channel!Sleep(p)
<1>1. p \in Pids /\ p \notin blocked /\ ext[p] \in AgentExt
  BY DEF TypeOK, OnePlace
<1>2. CASE ext' = [ext EXCEPT ![p] = Consume(@)] /\ blocked' = blocked
  <2>1. Channel!Dispose(p, WaitMask(ext[p]) \ {Message})
    BY <1>1, <1>2, OwnIsDispose, EventsDisposed
  <2>2. QED
    BY <1>1, <2>1 DEF Channel!Report
<1>3. CASE /\ Triggered(ext[p]) = {} /\ blocked' = blocked \cup {p}
           /\ ext' = [ext EXCEPT ![p].loop = "Thinking"]
  <2>1. "Thinking" \in LoopStates
    BY DEF LoopStates
  <2>2. ext' = [ext EXCEPT ![p] = [ext[p] EXCEPT !.loop = "Thinking"]]
    BY <1>1, <1>3 DEF TypeOK
  <2>3. \A q \in Pids : q # p => ext'[q] = ext[q]
    BY <2>2 DEF TypeOK
  <2>4. ext'[p] = [ext[p] EXCEPT !.loop = "Thinking"]
    BY <1>1, <2>2 DEF TypeOK
  <2>5. Pending(ext'[p]) = Pending(ext[p]) /\ WaitMask(ext'[p]) = WaitMask(ext[p])
    BY <1>1, <2>1, <2>4, EventsKept
  <2>6. \A q \in Pids : Pending(ext'[q]) = Pending(ext[q]) /\ WaitMask(ext'[q]) = WaitMask(ext[q])
    BY <2>3, <2>5
  <2>7. Channel!Sleep(p)
    BY <1>1, <1>3, <2>6 DEF Channel!Sleep, Triggered
  <2>8. QED
    BY <2>7
<1>4. QED
  BY <1>2, <1>3 DEF WaitTurn, schedVars

(* The system calls by which an agent changes its own extension.           *)
LEMMA OwnSteps ==
  ASSUME TypeOK, OnePlace, NEW p \in Pids
  PROVE  /\ \A v \in Intervals : SysAgentHeartbeatSet(p, v) => Channel!Restart(p)
         /\ SysAgentHeartbeatStop(p) => Channel!Restart(p)
         /\ \A m \in Masks : SysAgentWatch(p, m) \/ SysAgentUnwatch(p, m) => Channel!Watch(p)
         /\ \A s \in LoopStates :
                SetOwnExt(p, [ext[p] EXCEPT !.loop = s]) => UNCHANGED Channel!channelVars
         /\ SysMailboxRecv(p) => Channel!Take(p) \/ UNCHANGED Channel!channelVars
<1>p. ext[p] \in AgentExt /\ now \in Nat
  BY DEF TypeOK
<1>o. ASSUME NEW e, SetOwnExt(p, e)
      PROVE  /\ p \in agents /\ p \notin blocked /\ current = p
             /\ ext' = [ext EXCEPT ![p] = e] /\ agents' = agents /\ blocked' = blocked
             /\ ext'[p] = e /\ \A q \in Pids : q # p => ext'[q] = ext[q]
  BY <1>o DEF SetOwnExt, InApp, InUser, schedVars, OnePlace, TypeOK
<1>d. ASSUME NEW e, NEW S, SetOwnExt(p, e),
             Pending(e) = Pending(ext[p]) \ S, WaitMask(e) = WaitMask(ext[p])
      PROVE  Channel!Dispose(p, S)
  BY <1>d, <1>o, OwnIsDispose
<1>s. ASSUME NEW e, SetOwnExt(p, e),
             Pending(e) = Pending(ext[p]), WaitMask(e) = WaitMask(ext[p])
      PROVE  UNCHANGED Channel!channelVars
  BY <1>s, <1>o, SameIsStutter
<1>w. ASSUME NEW e, SetOwnExt(p, e), Pending(e) = Pending(ext[p])
      PROVE  Channel!Watch(p)
  <2>1. \A q \in Pids : Pending(ext'[q]) = Pending(ext[q])
    BY <1>w, <1>o
  <2>2. \A q \in Pids : q # p => WaitMask(ext'[q]) = WaitMask(ext[q])
    BY <1>w, <1>o
  <2>3. p \in agents /\ p \notin blocked /\ agents' = agents /\ blocked' = blocked
    BY <1>w, <1>o
  <2>4. QED
    BY <2>1, <2>2, <2>3 DEF Channel!Watch
<1>1. ASSUME NEW v \in Intervals, SysAgentHeartbeatSet(p, v) PROVE Channel!Restart(p)
  <2> DEFINE e == [ext[p] EXCEPT !.interval = v, !.last = now, !.hbPending = FALSE]
  <2>1. v \in Nat
    BY InputsAssumption
  <2>2. Pending(e) = Pending(ext[p]) \ {Heartbeat} /\ WaitMask(e) = WaitMask(ext[p])
    <3>1. \A x, l \in Nat :
            LET f == [ext[p] EXCEPT !.interval = x, !.last = l, !.hbPending = FALSE]
            IN  Pending(f) = Pending(ext[p]) \ {Heartbeat} /\ WaitMask(f) = WaitMask(ext[p])
      BY <1>p, OwnEvents
    <3>2. QED
      BY <1>p, <2>1, <3>1
  <2>3. SetOwnExt(p, e)
    BY <1>1 DEF SysAgentHeartbeatSet
  <2> HIDE DEF e
  <2>4. QED
    BY <1>d, <2>2, <2>3 DEF Channel!Restart
<1>2. ASSUME SysAgentHeartbeatStop(p) PROVE Channel!Restart(p)
  <2> DEFINE e == [ext[p] EXCEPT !.interval = 0, !.hbPending = FALSE]
  <2>1. Pending(e) = Pending(ext[p]) \ {Heartbeat} /\ WaitMask(e) = WaitMask(ext[p])
    BY <1>p, OwnEvents
  <2>2. SetOwnExt(p, e)
    BY <1>2 DEF SysAgentHeartbeatStop
  <2> HIDE DEF e
  <2>3. QED
    BY <1>d, <2>1, <2>2 DEF Channel!Restart
<1>3. ASSUME NEW m \in Masks, SysAgentWatch(p, m) \/ SysAgentUnwatch(p, m)
      PROVE  Channel!Watch(p)
  <2>1. m \in SUBSET Bits
    BY InputsAssumption
  <2>2. CASE SysAgentWatch(p, m)
    BY <1>p, <1>w, <2>1, <2>2, EventsKept DEF SysAgentWatch
  <2>3. CASE SysAgentUnwatch(p, m)
    BY <1>p, <1>w, <2>1, <2>3, EventsKept DEF SysAgentUnwatch
  <2>4. QED
    BY <1>3, <2>2, <2>3
<1>4. ASSUME NEW s \in LoopStates, SetOwnExt(p, [ext[p] EXCEPT !.loop = s])
      PROVE  UNCHANGED Channel!channelVars
  BY <1>p, <1>s, <1>4, EventsKept
<1>5. ASSUME SysMailboxRecv(p) PROVE Channel!Take(p) \/ UNCHANGED Channel!channelVars
  <2> DEFINE e == [ext[p] EXCEPT !.mailbox = Tail(@)]
  <2>1. /\ Pending(e) \in {Pending(ext[p]), Pending(ext[p]) \ {Message}}
        /\ WaitMask(e) = WaitMask(ext[p])
    BY <1>p, <1>5, OwnEvents DEF SysMailboxRecv
  <2>2. SetOwnExt(p, e)
    BY <1>5 DEF SysMailboxRecv
  <2> HIDE DEF e
  <2>3. QED
    BY <1>d, <1>s, <2>1, <2>2 DEF Channel!Take
<1>6. QED
  BY <1>1, <1>2, <1>3, <1>4, <1>5

(* The steps that raise events for other agents.                           *)
LEMMA RaisingSteps ==
  ASSUME TypeOK, TypeOK', NoLostWakeup', NonAgents, NonAgents', NEW p \in Pids
  PROVE  /\ \A q \in Pids : SysToolCallSend(p, q) => Channel!Raise
         /\ SysFileAttr(p) => Channel!Raise
         /\ \A d \in 0 .. MaxSkew : TimerTrap(p, d) => Channel!Raise
<1>t. \A q \in Pids : ext[q] \in AgentExt
  BY DEF TypeOK
<1>1. ASSUME NEW q \in Pids, SysToolCallSend(p, q) PROVE Channel!Raise
  <2> DEFINE m == sent[q] + 1
             delivered == [ext EXCEPT ![q] = Deliver(@, m, MailboxCapacity)]
  <2>1. m \in Nat /\ "Observing" \in LoopStates
    <3>1. sent[q] \in Nat
      BY DEF TypeOK
    <3>2. QED
      BY <3>1 DEF LoopStates
  <2>2. Deliver(ext[q], m, MailboxCapacity) \in AgentExt
    BY <1>t, <2>1, ExtTypes
  <2>3. /\ delivered \in [Pids -> AgentExt]
        /\ \A x \in Pids : /\ Pending(ext[x]) \subseteq Pending(delivered[x])
                            /\ WaitMask(delivered[x]) = WaitMask(ext[x])
    <3> HIDE DEF m
    <3>1. delivered[q] = Deliver(ext[q], m, MailboxCapacity)
      BY DEF TypeOK
    <3>2. \A x \in Pids : x # q => delivered[x] = ext[x]
      BY DEF TypeOK
    <3>3. /\ Pending(ext[q]) \subseteq Pending(delivered[q])
          /\ WaitMask(delivered[q]) = WaitMask(ext[q])
      BY <1>t, <2>1, <3>1, EventsRaised
    <3>4. delivered \in [Pids -> AgentExt]
      BY <2>2 DEF TypeOK
    <3> HIDE DEF delivered
    <3>5. QED
      BY <3>2, <3>3, <3>4
  <2>4. ext' = [delivered EXCEPT ![p] = [delivered[p] EXCEPT !.loop = "Observing"]]
    BY <1>1 DEF SysToolCallSend
  <2> HIDE DEF delivered
  <2>5. /\ ext'[p] = [delivered[p] EXCEPT !.loop = "Observing"]
        /\ \A x \in Pids : x # p => ext'[x] = delivered[x]
    BY <2>3, <2>4
  <2>6. Pending(ext'[p]) = Pending(delivered[p]) /\ WaitMask(ext'[p]) = WaitMask(delivered[p])
    <3>1. delivered[p] \in AgentExt
      BY <2>3
    <3>2. QED
      BY <2>1, <2>5, <3>1, EventsKept
  <2>7. \A x \in Pids : /\ Pending(ext[x]) \subseteq Pending(ext'[x])
                        /\ WaitMask(ext'[x]) = WaitMask(ext[x])
    BY <2>3, <2>5, <2>6
  <2>8. agents' = agents /\ blocked' \subseteq blocked
    BY <1>1 DEF SysToolCallSend, WakeAll
  <2>9. QED
    BY <2>7, <2>8, QuietIsRaise
<1>2. ASSUME SysFileAttr(p) PROVE Channel!Raise
  <2>1. \A x \in Pids : ext'[x] \in {ext[x], [ext[x] EXCEPT !.filePending = TRUE]}
    BY <1>2 DEF SysFileAttr
  <2>2. \A x \in Pids : /\ Pending(ext[x]) \subseteq Pending(ext'[x])
                        /\ WaitMask(ext'[x]) = WaitMask(ext[x])
    BY <1>t, <2>1, EventsRaised
  <2>3. agents' = agents /\ blocked' \subseteq blocked
    BY <1>2 DEF SysFileAttr, WakeAll
  <2>4. QED
    BY <2>2, <2>3, QuietIsRaise
<1>3. ASSUME NEW d \in 0 .. MaxSkew, TimerTrap(p, d) PROVE Channel!Raise
  <2>1. \A x \in Pids : ext'[x] \in {ext[x], Beat(ext[x], now)}
    BY <1>3 DEF TimerTrap, Beaten
  <2>2. now \in Nat
    BY DEF TypeOK
  <2>3. \A x \in Pids : /\ Pending(ext[x]) \subseteq Pending(ext'[x])
                        /\ WaitMask(ext'[x]) = WaitMask(ext[x])
    BY <1>t, <2>1, <2>2, EventsRaised
  <2>4. agents' = agents /\ blocked' \subseteq blocked
    BY <1>3 DEF TimerTrap, Beaten
  <2>5. QED
    BY <2>3, <2>4, QuietIsRaise
<1>4. QED
  BY <1>1, <1>2, <1>3

(* An agent comes into being, and a dead one is reaped.                    *)
LEMMA LifeSteps ==
  ASSUME TypeOK, OnePlace, NonAgents, NEW p \in Pids
  PROVE  /\ SysAgentCreate(p) => Channel!Open(p)
         /\ \A c \in Pids : SysWaitpid(p, c) =>
                Channel!Close(c) \/ UNCHANGED Channel!channelVars
<1>1. ASSUME SysAgentCreate(p) PROVE Channel!Open(p)
  <2>1. p \notin agents /\ p \notin blocked /\ agents' = agents \cup {p} /\ blocked' = blocked
    BY <1>1 DEF SysAgentCreate, InApp, InUser, schedVars, OnePlace
  <2>2. ext' = ext
    BY <1>1 DEF SysAgentCreate, NonAgents, TypeOK
  <2>3. QED
    BY <2>1, <2>2 DEF Channel!Open
<1>2. ASSUME NEW c \in Pids, SysWaitpid(p, c)
      PROVE  Channel!Close(c) \/ UNCHANGED Channel!channelVars
  <2>1. c \notin blocked /\ blocked' = blocked
    BY <1>2 DEF SysWaitpid, OnePlace
  <2>2. ext'[c] = NewExt /\ \A q \in Pids : q # c => ext'[q] = ext[q]
    BY <1>2 DEF SysWaitpid, TypeOK
  <2>3. CASE c \in agents
    <3>1. Pending(NewExt) = {} /\ WaitMask(NewExt) = {Heartbeat, Message}
      BY DEF Pending, WaitMask, NewExt
    <3>2. \A q \in Pids : Pending(ext'[q]) = IF q = c THEN {} ELSE Pending(ext[q])
      BY <2>2, <3>1
    <3>3. \A q \in Pids : WaitMask(ext'[q]) = IF q = c THEN {Heartbeat, Message} ELSE WaitMask(ext[q])
      BY <2>2, <3>1
    <3>4. agents' = agents \ {c}
      BY <1>2 DEF SysWaitpid
    <3>5. QED
      BY <2>1, <2>3, <3>2, <3>3, <3>4 DEF Channel!Close, Channel!Fresh
  <2>4. CASE c \notin agents
    <3>1. agents' = agents
      BY <1>2, <2>4 DEF SysWaitpid
    <3>2. \A q \in Pids : ext'[q] = ext[q]
      BY <2>2, <2>4 DEF NonAgents
    <3>3. QED
      BY <2>1, <3>1, <3>2, SameIsStutter
  <2>5. QED
    BY <2>3, <2>4
<1>3. QED
  BY <1>1, <1>2

(* Every step of the kernel is one of the channel, or a stutter.           *)
LEMMA ChannelStep ==
  ASSUME KernelInv, KernelInv', NonAgents, NonAgents', [Next]_vars
  PROVE  [Channel!ChannelNext]_Channel!channelVars
<1>i. TypeOK /\ TypeOK' /\ OnePlace /\ SleepersThink /\ NoLostWakeup'
  BY DEF KernelInv
<1>s. UNCHANGED <<agents, blocked, ext>> => UNCHANGED Channel!channelVars
  BY SameIsStutter
<1>1. ASSUME NEW p \in Pids, UserStep(p)
      PROVE  [Channel!ChannelNext]_Channel!channelVars
  <2>1. SysYield(p) \/ SysFork(p) \/ SysExit(p) => UNCHANGED Channel!channelVars
    BY <1>s DEF SysYield, SysFork, SysExit
  <2>2. ASSUME NEW v \in Priorities, SysAgentSetPriority(p, v)
        PROVE  UNCHANGED Channel!channelVars
    BY <1>s, <2>2 DEF SysAgentSetPriority, schedVars
  <2>3. ASSUME NEW timeout \in Timeouts, NEW d \in 0 .. MaxSkew, NEW e \in d .. MaxSkew,
               SysAgentWait(p, timeout, d, e)
        PROVE  Channel!Report(p) \/ Channel!Sleep(p)
    BY <1>i, <2>3, WaitTurnIsStep DEF SysAgentWait, InApp, InUser
  <2>4. /\ \A s \in LoopInputs : SysAgentSetLoopState(p, s) => UNCHANGED Channel!channelVars
        /\ \A end \in ToolOutcomes : SysToolCall(p, end) => UNCHANGED Channel!channelVars
    <3>1. LoopInputs \subseteq LoopStates /\ ToolOutcomes \subseteq LoopStates
      BY InputsAssumption DEF LoopStates
    <3>2. QED
      BY <1>i, <3>1, OwnSteps DEF SysAgentSetLoopState, SysToolCall
  <2>5. /\ \A v \in Intervals : SysAgentHeartbeatSet(p, v) => Channel!Restart(p)
        /\ SysAgentHeartbeatStop(p) => Channel!Restart(p)
        /\ \A m \in Masks : SysAgentWatch(p, m) \/ SysAgentUnwatch(p, m) => Channel!Watch(p)
        /\ SysMailboxRecv(p) => Channel!Take(p) \/ UNCHANGED Channel!channelVars
    BY <1>i, OwnSteps
  <2>6. /\ \A q \in Pids : SysToolCallSend(p, q) => Channel!Raise
        /\ SysFileAttr(p) => Channel!Raise
    BY <1>i, RaisingSteps
  <2>7. /\ SysAgentCreate(p) => Channel!Open(p)
        /\ \A c \in Pids : SysWaitpid(p, c) =>
                Channel!Close(c) \/ UNCHANGED Channel!channelVars
    BY <1>i, LifeSteps
  <2>8. QED
    BY <1>1, <2>1, <2>2, <2>3, <2>4, <2>5, <2>6, <2>7 DEF UserStep, Channel!ChannelNext
<1>2. ASSUME NEW p \in Pids, WaitResume(p) PROVE Channel!Report(p) \/ Channel!Sleep(p)
  BY <1>i, <1>2, WaitTurnIsStep DEF WaitResume, SleepersThink
<1>3. ASSUME NEW p \in Pids, Timer(p) PROVE Channel!Raise
  BY <1>i, <1>3, RaisingSteps DEF Timer
<1>4. RunTasks \/ Elapse \/ UNCHANGED vars => UNCHANGED Channel!channelVars
  BY <1>s DEF RunTasks, Elapse, vars, schedVars
<1>5. QED
  BY <1>1, <1>2, <1>3, <1>4 DEF Next, Channel!ChannelNext

(* An event raised for an agent by a tick, a message or a file change is   *)
(* kept until the agent itself disposes of it, and no agent sleeps on one  *)
(* it waits for: the kernel's event loop implements the event channel, for *)
(* any number of tasks, any masks, timeouts and mailbox capacity.          *)
THEOREM EventLoopImplementsChannel == Spec => ImplementsChannel
<1>1. Init => KernelInv /\ NonAgents
  BY InitInv DEF Init, NonAgents
<1>2. Init => Channel!ChannelInit
  <2>1. Pending(NewExt) = {} /\ WaitMask(NewExt) = {Heartbeat, Message}
    BY DEF Pending, WaitMask, NewExt
  <2>2. QED
    BY <2>1 DEF Init, Channel!ChannelInit, Channel!Fresh
<1>3. KernelInv /\ NonAgents /\ [Next]_vars => NonAgents'
  BY NonAgentsStep DEF KernelInv
<1>4. KernelInv /\ KernelInv' /\ NonAgents /\ NonAgents' /\ [Next]_vars
        => [Channel!ChannelNext]_Channel!channelVars
  BY ChannelStep
<1>5. QED
  BY <1>1, <1>2, <1>3, <1>4, InvStep, PTL DEF Spec, ImplementsChannel, Channel!ChannelSpec
===============================================================================
