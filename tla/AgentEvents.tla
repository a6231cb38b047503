------------------------------ MODULE AgentEvents -----------------------------
(***************************************************************************)
(* The Agent extension of a task control block (os/src/agent/pcb_ext.rs)   *)
(* as far as the event loop uses it, the event bits of                     *)
(* os/src/agent/event_bus.rs and the decisions sys_agent_wait takes on     *)
(* them.  Constant-level operators only; AgentKernel keeps one extension   *)
(* per task in a variable.                                                 *)
(***************************************************************************)
EXTENDS Integers, Sequences

(* The three event bits; "other" stands for any bit of the u32 mask that   *)
(* no event ever sets (a mask is a set of bits).                           *)
Heartbeat == "heartbeat"
Message   == "message"
File      == "file"
Bits      == {Heartbeat, Message, File, "other"}

LoopStates == {"Idle", "Thinking", "Calling", "Observing", "Done"}

(* Messages are numbered in the order of their delivery to the agent.      *)
AgentExt ==
    [interval : Nat, last : Nat, hbPending : BOOLEAN, filePending : BOOLEAN,
     watched : SUBSET Bits, mailbox : Seq(Nat), loop : LoopStates]

(* AgentExt::new: no heartbeat, nothing watched, an empty mailbox.         *)
NewExt ==
    [interval |-> 0, last |-> 0, hbPending |-> FALSE, filePending |-> FALSE,
     watched |-> {}, mailbox |-> <<>>, loop |-> "Idle"]

(* The events that have arrived and were not consumed.                     *)
Pending(e) ==
    {b \in {Heartbeat, Message, File} :
        \/ b = Heartbeat /\ e.hbPending
        \/ b = Message /\ e.mailbox # <<>>
        \/ b = File /\ e.filePending}

(* The events a wait returns for: the watched ones, or, when nothing is    *)
(* watched, heartbeats and messages.                                       *)
WaitMask(e) == IF e.watched = {} THEN {Heartbeat, Message} ELSE e.watched

Triggered(e) == Pending(e) \cap WaitMask(e)

(* Variant: the returning wait clears the flags it does not report, too. *)
ConsumeAll(e) ==
    [e EXCEPT !.hbPending = FALSE, !.filePending = FALSE, !.loop = "Idle"]

(* The returning wait consumes heartbeat and file events that it reports;  *)
(* a message stays in the mailbox until sys_mailbox_recv takes it.         *)
Consume(e) ==
    [e EXCEPT !.hbPending   = @ /\ Heartbeat \notin Triggered(e),
              !.filePending = @ /\ File \notin Triggered(e),
              !.loop        = "Idle"]

(* tick_all_agents: the heartbeat is due (now.saturating_sub(last)).       *)
HeartbeatDue(e, now) ==
    /\ e.interval > 0
    /\ (IF now > e.last THEN now - e.last ELSE 0) >= e.interval

Beat(e, now) == [e EXCEPT !.hbPending = TRUE, !.last = now]

(* Variant: a full mailbox loses its newest message (pop_back). *)
DeliverOverNewest(e, m, capacity) ==
    [e EXCEPT !.mailbox =
        Append(IF Len(@) >= capacity THEN SubSeq(@, 1, Len(@) - 1) ELSE @, m)]

(* deliver_message: a full mailbox loses its oldest message.               *)
Deliver(e, m, capacity) ==
    [e EXCEPT !.mailbox = Append(IF Len(@) >= capacity THEN Tail(@) ELSE @, m)]
===============================================================================
