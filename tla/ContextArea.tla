----------------------------- MODULE ContextArea ------------------------------
(***************************************************************************)
(* The Context area of one agent: the Path Buffer of ContextPath and, just *)
(* before it, the Tool Result region, into which sys_tool_call             *)
(* (os/src/syscall/agent.rs) puts the answer of a tool and                 *)
(* sys_context_query the meta-data of the path.  The user library          *)
(* (user/src/lib.rs) keeps an offset and a length and reads the bytes      *)
(* where they are, without a system call, as late as it likes.             *)
(*                                                                         *)
(* A tool is abstracted to the status and the length of its answer; a byte *)
(* to the call that wrote it and its position.  loop_state is in           *)
(* AgentKernel.                                                            *)
(***************************************************************************)
EXTENDS ContextPath

CONSTANTS
    ResultLen,    \* layout::TOOL_RESULT_LEN (16384 in the code)
    Answers,      \* bound: the lengths of the answers tried
    MetaSize,     \* bytes of a node in serialize_meta (at most 30 in the code)
    Processes,    \* the tasks snapshot_all_processes finds, and whether they are agents
    Targets,      \* the pids that are asked for
    MaxCalls      \* bound: the number of tool calls and queries

ASSUME AreaAssumption ==
    /\ {ResultLen, MetaSize} \subseteq Nat \ {0}
    /\ Answers \subseteq Nat \ {0}
    /\ MaxCalls \in Nat

VARIABLES
    result,    \* the Tool Result region
    calls,     \* the number of tool calls and queries so far
    outcome,   \* the ToolCallOutcome the program got last, and from which call
    metas,     \* the PathMetaList the program got last
    lastWrite, \* history: the last call that wrote to the region
    moved      \* history: nodes were evicted or rolled back since the last query

areaVars == <<result, calls, outcome, metas, lastWrite, moved>>

(* Calls are numbered after the nodes, so that their bytes differ. *)
ThisCall == MaxSeq + calls + 1
Body(call, len) == Node(call, len)

NoOutcome == [call |-> 0, ok |-> TRUE, offset |-> 0, len |-> 0]

AreaInit ==
    /\ PathInit
    /\ result = [i \in 0 .. ResultLen - 1 |-> Blank]
    /\ calls = 0
    /\ outcome = NoOutcome
    /\ metas = <<>>
    /\ lastWrite = 0
    /\ moved = FALSE

-------------------------------------------------------------------------------
(* The tool protocol (agent_proto/src/lib.rs). *)
ToolName == {"SystemStatus", "QueryProcess", "ReadContext", "SendMessage", "QueryFile"}

(* A request frame: its header, and whether postcard can decode what       *)
(* follows.  encode_request only makes complete ones.                      *)
Frame == {"Complete", "TooShort", "BadMagic", "UnsupportedVersion", "BadBody"}

(* A request names a tool and, independently, the variant of ToolParams;   *)
(* the parameters of a tool are abstracted to a target.                    *)
ToolRequest == [tool : ToolName, params : ToolName, target : Targets,
                type : {"Process", "Agent", "File"}]

(* check_frame_header, decode_request *)
Decodes(frame) == frame = "Complete"

-------------------------------------------------------------------------------
(* The tools (os/src/agent/tool): the answers a request may get. *)
Status(status) == {[status |-> status, len |-> 0]}
Answered == {[status |-> "Ok", len |-> n] : n \in Answers}

system_status(req) == Answered

query_process(req) == IF req.params # "QueryProcess" THEN Status("BadParams") ELSE Answered

read_context(req) ==
    IF req.params # "ReadContext" THEN Status("BadParams")
    ELSE IF req.type = "File" THEN Status("NotImplemented")
    ELSE IF req.target \notin DOMAIN Processes THEN Status("ToolNotFound")
    ELSE IF req.type = "Agent" /\ ~Processes[req.target] THEN Status("PermissionDenied")
    ELSE Answered

(* What deliver_message does to the target is AgentKernel's SysSendMessage.*)
send_message(req) ==
    IF req.params # "SendMessage" THEN Status("BadParams")
    ELSE IF req.target \in DOMAIN Processes /\ Processes[req.target] THEN Status("Ok")
    ELSE Status("PermissionDenied")

query_file(req) == IF req.params # "QueryFile" THEN Status("BadParams") ELSE Answered

(* ToolDispatcher::dispatch *)
dispatch(req) ==
    CASE req.tool = "SystemStatus" -> system_status(req)
      [] req.tool = "QueryProcess" -> query_process(req)
      [] req.tool = "ReadContext"  -> read_context(req)
      [] req.tool = "SendMessage"  -> send_message(req)
      [] req.tool = "QueryFile"    -> query_file(req)

DispatchResult == UNION {dispatch(req) : req \in ToolRequest}

-------------------------------------------------------------------------------
(* write_user_bytes at TOOL_RESULT_OFF: what does not fit into the region  *)
(* goes on into the Path Buffer behind it.                                 *)
WriteResult(body) ==
    /\ result' = [i \in DOMAIN result |-> IF i < Len(body) THEN body[i + 1] ELSE result[i]]
    /\ buffer' = [i \in DOMAIN buffer |-> IF ResultLen + i < Len(body)
                                          THEN body[ResultLen + i + 1] ELSE buffer[i]]
    /\ lastWrite' = ThisCall

NoResult == UNCHANGED <<result, buffer, lastWrite>>

Calls == push = NoPush /\ calls < MaxCalls /\ calls' = calls + 1

pathRest == <<meta, used, nextSeq, header, clock, push, before>>

(* Variant: the answer is not compared with the region. *)
ToolCallUnchecked(frame, dr) ==
    /\ Calls
    /\ IF ~Decodes(frame) THEN NoResult /\ UNCHANGED outcome
       ELSE /\ outcome' = [call |-> ThisCall, ok |-> dr.status = "Ok", offset |-> 0, len |-> dr.len]
            /\ IF dr.len > 0 THEN WriteResult(Body(ThisCall, dr.len)) ELSE NoResult
    /\ UNCHANGED <<pathRest, metas, moved>>

(* Variant: out_offset and out_len are only written with a result, and the *)
(* caller finds there what the last call left.                             *)
ToolCallKeepsOut(frame, dr) ==
    /\ Calls
    /\ IF ~Decodes(frame) \/ dr.len > ResultLen THEN NoResult /\ UNCHANGED outcome
       ELSE IF dr.len > 0
       THEN /\ outcome' = [call |-> ThisCall, ok |-> dr.status = "Ok", offset |-> 0, len |-> dr.len]
            /\ WriteResult(Body(ThisCall, dr.len))
       ELSE outcome' = [outcome EXCEPT !.call = ThisCall, !.ok = dr.status = "Ok"] /\ NoResult
    /\ UNCHANGED <<pathRest, metas, moved>>

(* tool_call and sys_tool_call.  What is no request frame, or has an       *)
(* answer larger than the region, is an error: nothing is written, and the *)
(* program has no outcome.  (So is a request too large for the library's   *)
(* frame buffer, which is not even sent.)  Else the answer, if there is    *)
(* one, is written to the start of the region, and the program gets the    *)
(* offset, the length and the status, of which it asks is_ok.              *)
ToolCall(frame, dr) ==
    /\ Calls
    /\ IF ~Decodes(frame) \/ dr.len > ResultLen THEN NoResult /\ UNCHANGED outcome
       ELSE /\ outcome' = [call |-> ThisCall, ok |-> dr.status = "Ok", offset |-> 0, len |-> dr.len]
            /\ IF dr.len > 0 THEN WriteResult(Body(ThisCall, dr.len)) ELSE NoResult
    /\ UNCHANGED <<pathRest, metas, moved>>

(* context_query_meta and sys_context_query: serialize_meta goes to the    *)
(* same place, the library decodes it at once.                             *)
ContextQueryMeta ==
    /\ Calls
    /\ LET size == 1 + MetaSize * Len(meta) IN
        IF size =< ResultLen
        THEN /\ WriteResult(Body(ThisCall, size))
             /\ metas' = meta
             /\ moved' = FALSE
        ELSE NoResult /\ UNCHANGED <<metas, moved>>
    /\ UNCHANGED <<pathRest, outcome>>

(* The calls on the path. *)
PathCall ==
    /\ \/ (\E n \in Payloads : PushBegin(n)) /\ UNCHANGED moved
       \/ EvictOne /\ moved' = TRUE
       \/ (\E tick \in 0 .. 1 : PushEnd(tick)) /\ UNCHANGED moved
       \/ (\E n \in 0 .. MaxNodes : Rollback(n)) /\ moved' = TRUE
       \/ Clear /\ moved' = TRUE
    /\ UNCHANGED <<result, calls, outcome, metas, lastWrite>>

AreaNext ==
    \/ PathCall
    \/ \E frame \in Frame, dr \in DispatchResult : ToolCall(frame, dr)
    \/ ContextQueryMeta

AreaSpec == AreaInit /\ [][AreaNext]_<<pathVars, areaVars>>

-------------------------------------------------------------------------------
(* ToolCallOutcome::result_bytes *)
ResultBytes(o) == [k \in 1 .. o.len |-> result[o.offset + k - 1]]

(* read_path_node_zero_copy, with the meta-data the program holds. *)
ReadHeld(m) == [k \in 1 .. m.len |-> buffer[m.offset + k - 1]]

(* An outcome reads back as the answer of its own call for as long as no   *)
(* later call has written to the region: calls that fail, that have no     *)
(* answer, and those on the path do not disturb it, and an outcome without *)
(* an answer never shows an older one.                                     *)
LastResultReadable ==
    /\ outcome.len > 0 => outcome.ok
    /\ lastWrite =< outcome.call => ResultBytes(outcome) = Body(outcome.call, outcome.len)

(* The nodes of a queried list can be read in place, byte for byte, until  *)
(* nodes are evicted or rolled back: not later pushes, not tool calls and  *)
(* not the next query disturb them.                                        *)
HeldNodesReadable ==
    ~moved => \A i \in 1 .. Len(metas) : ReadHeld(metas[i]) = Node(metas[i].seq, metas[i].len)
===============================================================================
