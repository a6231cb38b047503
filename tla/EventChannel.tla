----------------------------- MODULE EventChannel -----------------------------
(***************************************************************************)
(* What the event loop promises to an agent: events are raised for it by   *)
(* others, it sleeps only while none that it waits for is raised, and an   *)
(* event that was raised stays so until the agent itself disposes of it:   *)
(* its wait reports it, it takes the last message, it restarts or stops    *)
(* its heartbeat.                                                          *)
(***************************************************************************)
CONSTANTS Tasks, Heartbeat, Message, File

VARIABLES
    open,     \* the tasks that are agents
    raised,   \* the events raised for a task and not disposed of
    mask,     \* the events a wait of the task returns for
    asleep    \* the tasks asleep in a wait

channelVars == <<open, raised, mask, asleep>>

Fresh == {Heartbeat, Message}

ChannelInit ==
    /\ open = {}
    /\ raised = [p \in Tasks |-> {}]
    /\ mask = [p \in Tasks |-> Fresh]
    /\ asleep = {}

(* Events are raised and sleepers are woken, at least those that wait for  *)
(* what was raised; nobody falls asleep and nothing raised disappears.     *)
Raise ==
    /\ raised' \in [Tasks -> SUBSET {Heartbeat, Message, File}]
    /\ \A p \in Tasks : raised[p] \subseteq raised'[p]
    /\ \A p \in Tasks \ open : raised'[p] = raised[p]
    /\ asleep' \subseteq asleep
    /\ \A p \in asleep' : raised'[p] \cap mask[p] = {}
    /\ UNCHANGED <<open, mask>>

(* p disposes of the events of S. *)
Dispose(p, S) ==
    /\ p \in open \ asleep
    /\ raised' = [raised EXCEPT ![p] = @ \ S]
    /\ UNCHANGED <<open, mask, asleep>>

(* A wait of p returns: it reports all that p waits for.  The messages     *)
(* themselves are still to be taken.                                       *)
Report(p) == Dispose(p, mask[p] \ {Message})

Take(p) == Dispose(p, {Message})

Restart(p) == Dispose(p, {Heartbeat})

Sleep(p) ==
    /\ p \in open \ asleep
    /\ raised[p] \cap mask[p] = {}
    /\ asleep' = asleep \cup {p}
    /\ UNCHANGED <<open, raised, mask>>

Watch(p) ==
    /\ p \in open \ asleep
    /\ mask' = [mask EXCEPT ![p] = mask'[p]]
    /\ UNCHANGED <<open, raised, asleep>>

Open(p) ==
    /\ p \notin open \cup asleep
    /\ open' = open \cup {p}
    /\ UNCHANGED <<raised, mask, asleep>>

(* A dead agent is forgotten, with the events nobody will read. *)
Close(p) ==
    /\ p \in open \ asleep
    /\ open' = open \ {p}
    /\ raised' = [raised EXCEPT ![p] = {}]
    /\ mask' = [mask EXCEPT ![p] = Fresh]
    /\ UNCHANGED asleep

ChannelNext ==
    \/ Raise
    \/ \E p \in Tasks : \/ Report(p) \/ Take(p) \/ Restart(p) \/ Sleep(p)
                        \/ Watch(p) \/ Open(p) \/ Close(p)

ChannelSpec == ChannelInit /\ [][ChannelNext]_channelVars
===============================================================================
