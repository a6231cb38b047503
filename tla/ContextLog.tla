------------------------------ MODULE ContextLog ------------------------------
(***************************************************************************)
(* What the Context Path promises its agent: a log of the nodes it pushed, *)
(* from which a push removes no more of the oldest nodes than it must, and *)
(* which can be cut back to a prefix.  A node is its bytes.                *)
(***************************************************************************)
EXTENDS Integers, Sequences

CONSTANTS LogBytes,  \* the quota of bytes
          LogNodes   \* the quota of nodes

VARIABLES log,       \* the nodes, oldest first
          written    \* the number of nodes pushed so far

logVars == <<log, written>>

(* The bytes of a list of nodes. *)
Size(l) ==
    LET sum[i \in 0 .. Len(l)] == IF i = 0 THEN 0 ELSE sum[i - 1] + Len(l[i])
    IN  sum[Len(l)]

(* The list without its k oldest nodes. *)
Without(l, k) == SubSeq(l, k + 1, Len(l))

(* There is room for one more node of n bytes. *)
Room(l, n) == Size(l) + n =< LogBytes /\ Len(l) < LogNodes

LogInit == log = <<>> /\ written = 0

LogPush(node) ==
    /\ written' = written + 1
    /\ Len(node) =< LogBytes
    /\ \E k \in 0 .. Len(log) :
        /\ Room(Without(log, k), Len(node))
        /\ \A j \in 0 .. k - 1 : ~Room(Without(log, j), Len(node))
        /\ log' = Append(Without(log, k), node)

LogRollback(n) ==
    /\ UNCHANGED written
    /\ n =< Len(log)
    /\ log' = SubSeq(log, 1, n)

(* The node pushed as number s has s in each of its bytes. *)
LogNext ==
    \/ \E n \in 1 .. LogBytes : LogPush([k \in 1 .. n |-> <<written, k>>])
    \/ \E n \in 0 .. LogNodes : LogRollback(n)

LogSpec == LogInit /\ [][LogNext]_logVars
===============================================================================
