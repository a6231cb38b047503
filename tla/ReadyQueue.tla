------------------------------ MODULE ReadyQueue ------------------------------
(***************************************************************************)
(* The ready queue of os/src/task/manager.rs: a VecDeque of tasks, served  *)
(* by strict priority and, among equal priorities, first in first out.     *)
(* Constant-level operators only; AgentKernel keeps the queue in a         *)
(* variable.  A queue is a sequence of pids, prio maps a pid to the        *)
(* priority field of its TCB (TaskManager::fetch reads it at fetch time).  *)
(***************************************************************************)
EXTENDS Integers, Sequences

(* TaskManager::add: push_back. *)
Add(q, p) == Append(q, p)

(* Variant: an equal priority replaces the best as well. *)
BetterIndexOrEqual(q, prio, best, i) ==
    IF prio[q[i]] >= prio[q[best]] THEN i ELSE best

(* One iteration of the scan in TaskManager::fetch: the best index so far  *)
(* is replaced only by a strictly larger priority.                         *)
BetterIndex(q, prio, best, i) ==
    IF prio[q[i]] > prio[q[best]] THEN i ELSE best

(* The scan of TaskManager::fetch over the indices 2 .. Len(q), starting   *)
(* with the first entry as the best.                                       *)
FetchScan(q, prio) ==
    LET scan[i \in 1 .. Len(q)] ==
            IF i = 1 THEN 1 ELSE BetterIndex(q, prio, scan[i - 1], i)
    IN  scan[Len(q)]

(* Variant: the last among the entries of largest priority. *)
IsBestLast(q, prio, i) ==
    \A j \in 1 .. Len(q) :
        \/ prio[q[j]] < prio[q[i]]
        \/ prio[q[j]] = prio[q[i]] /\ j =< i

(* What the scan finds: the first among the entries of largest priority.   *)
IsBest(q, prio, i) ==
    \A j \in 1 .. Len(q) :
        \/ prio[q[j]] < prio[q[i]]
        \/ prio[q[j]] = prio[q[i]] /\ i =< j

(* The queue without its i-th entry: VecDeque::remove.                     *)
RemoveIndex(q, i) == SubSeq(q, 1, i - 1) \o SubSeq(q, i + 1, Len(q))
===============================================================================
