----------------------------- MODULE TargetHub -----------------------------
(***************************************************************************)
(* The heart of mcp-center: IdaTcpHub accepts one TCP connection per       *)
(* running plugin client, IdaClientConnection reads its messages and keeps *)
(* the calls that wait for a tool_result, TargetRegistry says which        *)
(* windows are registered and through which connection they are reached,   *)
(* and IdaMcpToolHandler runs the tool calls of MCP agents against it.     *)
(*                                                                         *)
(* The plugin of an IDA window (tcp_client.py) appears here only as the    *)
(* other end of the connection: it says hello, sends heartbeats, runs the  *)
(* tool calls one after the other and goes away; the same window may then  *)
(* come back over a new connection under the same instance id.             *)
(*                                                                         *)
(* Steps are as large as the code allows them to be: a read and its        *)
(* handler, a critical section of the registry, the code between two       *)
(* awaits.  Target metadata is reduced to the instance id it carries; what *)
(* NormalizeMetadata does with the other fields does not influence who is  *)
(* registered or called.                                                   *)
(***************************************************************************)
EXTENDS Naturals, Sequences, FiniteSets

CONSTANTS
    Insts,       \* instance ids, one per IDA window
    Conns,       \* TCP connections, each used once
    InstOf,      \* the window at the other end of a connection
    Calls,       \* tool calls of MCP agents, each used once
    MetaCalls,   \* those of them that run target.get_metadata
    NoConn,
    NoCall,
    SocketRoom,  \* frames the socket buffers take from the center
    BeatRoom     \* bound on unread frames before a further heartbeat

(***************************************************************************)
(* RefreshMetadataAsync makes one call of its own per connection; it is    *)
(* named by its connection.                                                *)
(***************************************************************************)
CallIds == Calls \cup Conns

ASSUME ConnectionAssumption ==
    /\ InstOf \in [Conns -> Insts]
    /\ NoConn \notin Conns

ASSUME CallAssumption ==
    /\ MetaCalls \subseteq Calls
    /\ Calls \cap Conns = {}
    /\ NoCall \notin CallIds

ASSUME BoundAssumption == SocketRoom \in Nat \ {0} /\ BeatRoom \in Nat \ {0}

VARIABLES
    client,     \* the plugin's end of a connection
    up,         \* frames on their way to the center
    down,       \* tool_call frames on their way to the plugin
    executed,   \* requests whose tool has run inside IDA
    phase,      \* how far RunAsync and Dispose have come on a connection
    known,      \* _instanceId is set on the connection
    pending,    \* _pendingCalls
    gate,       \* the holder of _writeGate
    targets,    \* TargetRegistry._targets
    connOf,     \* TargetRegistry._connections
    pc,         \* where a call stands
    asked,      \* the instance id an agent's call names
    conn,       \* the connection a call goes through
    completion, \* the TaskCompletionSource of a call
    outcome,    \* what the caller was told
    active,     \* ActiveOperationStore
    logged      \* entries a call has left in OperationLogStore

pluginVars == <<client, up, down, executed>>
hubVars == <<phase, known, pending, gate>>
registryVars == <<targets, connOf>>
callVars == <<pc, asked, conn, completion, outcome, active, logged>>
vars == <<pluginVars, hubVars, registryVars, callVars>>

ClientStates == {"off", "connected", "pumping", "closed"}
Phases == {"none", "reading", "ended", "unregistered", "dead"}
CallStates == {"idle", "found", "invoking", "registered", "writing", "awaiting", "done"}
Completions == {"none", "ok", "failed", "timeout", "disconnected"}
Outcomes == {"none", "ok", "error"}

Hello == [type |-> "hello", id |-> NoCall, reply |-> "none"]
Heartbeat == [type |-> "heartbeat", id |-> NoCall, reply |-> "none"]
ToolResult(k, reply) == [type |-> "tool_result", id |-> k, reply |-> reply]
Messages ==
    {Hello, Heartbeat}
        \cup [type : {"tool_result"}, id : CallIds, reply : {"ok", "failed", "oversized"}]

Received(c, type) == phase[c] = "reading" /\ up[c] # <<>> /\ Head(up[c]).type = type
Consume(c) == up' = [up EXCEPT ![c] = Tail(@)]

Init ==
    /\ client = [c \in Conns |-> "off"]
    /\ up = [c \in Conns |-> <<>>]
    /\ down = [c \in Conns |-> <<>>]
    /\ executed = {}
    /\ phase = [c \in Conns |-> "none"]
    /\ known = [c \in Conns |-> FALSE]
    /\ pending = [c \in Conns |-> {}]
    /\ gate = [c \in Conns |-> NoCall]
    /\ targets = {}
    /\ connOf = [i \in Insts |-> NoConn]
    /\ pc = [k \in CallIds |-> "idle"]
    /\ asked \in [Calls -> Insts]
    /\ conn = [k \in CallIds |-> NoConn]
    /\ completion = [k \in CallIds |-> "none"]
    /\ outcome = [k \in CallIds |-> "none"]
    /\ active = {}
    /\ logged = [k \in Calls |-> 0]

-----------------------------------------------------------------------------
(* The plugin: _run and _connect_and_pump of tcp_client.py.                *)

(* create_connection; IdaTcpHub accepts and RunAsync begins to read.  The  *)
(* client thread closes a socket before it opens the next one.             *)
Connect(c) ==
    /\ client[c] = "off"
    /\ \A d \in Conns : InstOf[d] = InstOf[c] => client[d] \in {"off", "closed"}
    /\ client' = [client EXCEPT ![c] = "connected"]
    /\ phase' = [phase EXCEPT ![c] = "reading"]
    /\ UNCHANGED <<up, down, executed, known, pending, gate, registryVars, callVars>>

(* Frames sent to a center that no longer reads are lost.                  *)
Send(c, m) == up' = IF phase[c] = "reading" THEN [up EXCEPT ![c] = Append(@, m)] ELSE up

SendHello(c) ==
    /\ client[c] = "connected"
    /\ client' = [client EXCEPT ![c] = "pumping"]
    /\ Send(c, Hello)
    /\ UNCHANGED <<down, executed, hubVars, registryVars, callVars>>

SendHeartbeat(c) ==
    /\ client[c] = "pumping"
    /\ Len(up[c]) < BeatRoom
    /\ Send(c, Heartbeat)
    /\ UNCHANGED <<client, down, executed, hubVars, registryVars, callVars>>

(* read_message, execute_tool and the answer, in one thread.  The answer   *)
(* may be larger than the frames the center accepts.                       *)
HandleToolCall(c) ==
    /\ client[c] = "pumping"
    /\ down[c] # <<>>
    /\ \E reply \in {"ok", "failed", "oversized"} : Send(c, ToolResult(Head(down[c]), reply))
    /\ executed' = executed \cup {Head(down[c])}
    /\ down' = [down EXCEPT ![c] = Tail(@)]
    /\ UNCHANGED <<client, hubVars, registryVars, callVars>>

(* The window exits, the network or the center drops the connection, or    *)
(* the client gives up on a frame it cannot read.                          *)
ClientClose(c) ==
    /\ client[c] \in {"connected", "pumping"}
    /\ client' = [client EXCEPT ![c] = "closed"]
    /\ down' = [down EXCEPT ![c] = <<>>]
    /\ UNCHANGED <<up, executed, hubVars, registryVars, callVars>>

-----------------------------------------------------------------------------
(* TargetRegistry.  Each of these is one critical section of _gate.        *)

UpsertMetadata(i, c) ==
    /\ targets' = targets \cup {i}
    /\ connOf' = IF c = NoConn THEN connOf ELSE [connOf EXCEPT ![i] = c]

(* Fault: Remove without the ReferenceEquals check.                        *)
OwnedByAnyone(i, c) == TRUE

Owned(i, c) == connOf[i] \in {NoConn, c}

Remove(i, c) ==
    /\ targets' = IF Owned(i, c) THEN targets \ {i} ELSE targets
    /\ connOf' = IF Owned(i, c) THEN [connOf EXCEPT ![i] = NoConn] ELSE connOf

-----------------------------------------------------------------------------
(* IdaClientConnection: the read loop, the message handlers and Dispose.   *)

(* HandleHello registers the window and starts RefreshMetadataAsync.       *)
HandleHello(c) ==
    /\ Received(c, "hello")
    /\ Consume(c)
    /\ known' = [known EXCEPT ![c] = TRUE]
    /\ UpsertMetadata(InstOf[c], c)
    /\ pc' = [pc EXCEPT ![c] = "invoking"]
    /\ conn' = [conn EXCEPT ![c] = c]
    /\ UNCHANGED <<client, down, executed, phase, pending, gate,
                   asked, completion, outcome, active, logged>>

(* Fault: a heartbeat only touches a target that is registered already.    *)
HeartbeatOnlyMarks(c) ==
    /\ Received(c, "heartbeat")
    /\ Consume(c)
    /\ UNCHANGED <<client, down, executed, phase, known, pending, gate, registryVars, callVars>>

(* Every heartbeat of the plugin carries metadata.                         *)
HandleHeartbeat(c) ==
    /\ Received(c, "heartbeat")
    /\ Consume(c)
    /\ known' = [known EXCEPT ![c] = TRUE]
    /\ UpsertMetadata(InstOf[c], c)
    /\ UNCHANGED <<client, down, executed, phase, pending, gate, callVars>>

(* TrySetResult and its siblings: the first one wins.                      *)
TrySet(k, value) ==
    completion' = [completion EXCEPT ![k] = IF @ = "none" THEN value ELSE @]

(* Fault: a result is handed to whichever call is pending.                 *)
ResultForAnyPending(c) ==
    LET m == Head(up[c]) IN
    /\ Received(c, "tool_result")
    /\ m.reply # "oversized"
    /\ Consume(c)
    /\ \/ /\ pending[c] = {}
          /\ UNCHANGED <<pending, completion>>
       \/ \E k \in pending[c] :
             /\ pending' = [pending EXCEPT ![c] = @ \ {k}]
             /\ TrySet(k, m.reply)
    /\ UNCHANGED <<client, down, executed, phase, known, gate, registryVars,
                   pc, asked, conn, outcome, active, logged>>

HandleToolResult(c) ==
    LET m == Head(up[c]) IN
    /\ Received(c, "tool_result")
    /\ m.reply # "oversized"
    /\ Consume(c)
    /\ IF m.id \in pending[c]
         THEN /\ pending' = [pending EXCEPT ![c] = @ \ {m.id}]
              /\ TrySet(m.id, m.reply)
         ELSE UNCHANGED <<pending, completion>>
    /\ UNCHANGED <<client, down, executed, phase, known, gate, registryVars,
                   pc, asked, conn, outcome, active, logged>>

(* RunAsync ends because ReadAsync returned null or threw: the peer is     *)
(* gone (frames it sent last may be lost with a reset) or a frame is too   *)
(* large.  Leaving the method disposes the stream and so closes the socket.*)
EndRead(c) ==
    /\ phase[c] = "reading"
    /\ \/ client[c] = "closed"
       \/ Received(c, "tool_result") /\ Head(up[c]).reply = "oversized"
    /\ phase' = [phase EXCEPT ![c] = "ended"]
    /\ up' = [up EXCEPT ![c] = <<>>]
    /\ UNCHANGED <<client, down, executed, known, pending, gate, registryVars, callVars>>

(* Dispose, first part: TargetRegistry.Remove.                             *)
Unregister(c) ==
    /\ phase[c] = "ended"
    /\ phase' = [phase EXCEPT ![c] = "unregistered"]
    /\ IF known[c] THEN Remove(InstOf[c], c) ELSE UNCHANGED registryVars
    /\ UNCHANGED <<pluginVars, known, pending, gate, callVars>>

(* Dispose, second part: every call still pending fails.                   *)
FailPending(c) ==
    /\ phase[c] = "unregistered"
    /\ phase' = [phase EXCEPT ![c] = "dead"]
    /\ completion' = [k \in CallIds |->
          IF k \in pending[c] /\ completion[k] = "none" THEN "disconnected" ELSE completion[k]]
    /\ UNCHANGED <<pluginVars, known, pending, gate, registryVars,
                   pc, asked, conn, outcome, active, logged>>

-----------------------------------------------------------------------------
(* IdaMcpToolHandler.InvokeTargetToolAsync: two critical sections of the   *)
(* registry, then the call itself.                                         *)

Goto(k, state) == pc' = [pc EXCEPT ![k] = state]

(* Fault: the operation is only ended on success.                          *)
FinishWithoutFinally(k, result) ==
    /\ Goto(k, "done")
    /\ outcome' = [outcome EXCEPT ![k] = result]
    /\ logged' = IF k \in Calls THEN [logged EXCEPT ![k] = @ + 1] ELSE logged
    /\ active' = IF result = "ok" THEN active \ {k} ELSE active

(* The caller gets its answer, which is logged; the operation is over.     *)
Finish(k, result) ==
    /\ Goto(k, "done")
    /\ outcome' = [outcome EXCEPT ![k] = result]
    /\ logged' = IF k \in Calls THEN [logged EXCEPT ![k] = @ + 1] ELSE logged
    /\ active' = active \ {k}

FindTarget(k) ==
    /\ k \in Calls /\ pc[k] = "idle"
    /\ IF asked[k] \in targets
         THEN Goto(k, "found") /\ UNCHANGED <<outcome, logged, active>>
         ELSE Finish(k, "error")
    /\ UNCHANGED <<pluginVars, hubVars, registryVars, asked, conn, completion>>

FindConnection(k) ==
    /\ pc[k] = "found"
    /\ IF connOf[asked[k]] = NoConn
         THEN Finish(k, "error") /\ UNCHANGED conn
         ELSE /\ Goto(k, "invoking")
              /\ conn' = [conn EXCEPT ![k] = connOf[asked[k]]]
              /\ active' = active \cup {k}
              /\ UNCHANGED <<outcome, logged>>
    /\ UNCHANGED <<pluginVars, hubVars, registryVars, asked, completion>>

-----------------------------------------------------------------------------
(* IdaClientConnection.InvokeToolAsync.                                    *)

(* Fault: the call is sent without an entry in _pendingCalls.              *)
RegisterNowhere(k) ==
    /\ pc[k] = "invoking"
    /\ Goto(k, "registered")
    /\ UNCHANGED <<pluginVars, phase, known, pending, gate, registryVars,
                   asked, conn, completion, outcome, active, logged>>

(* The completion is pending before anything is written; the timeout runs. *)
Register(k) ==
    /\ pc[k] = "invoking"
    /\ Goto(k, "registered")
    /\ pending' = [pending EXCEPT ![conn[k]] = @ \cup {k}]
    /\ UNCHANGED <<pluginVars, phase, known, gate, registryVars,
                   asked, conn, completion, outcome, active, logged>>

EnterGate(k) ==
    /\ pc[k] = "registered"
    /\ gate[conn[k]] = NoCall
    /\ Goto(k, "writing")
    /\ gate' = [gate EXCEPT ![conn[k]] = k]
    /\ UNCHANGED <<pluginVars, phase, known, pending, registryVars,
                   asked, conn, completion, outcome, active, logged>>

(* Fault: the stream outlives the read loop.                               *)
SocketStaysOpen(c) == phase[c] # "none"

SocketOpen(c) == phase[c] = "reading"

(* A frame written after the peer has gone, but before the center has      *)
(* noticed, is lost.                                                       *)
WriteToolCall(k) ==
    LET c == conn[k] IN
    /\ pc[k] = "writing"
    /\ SocketOpen(c)
    /\ client[c] = "closed" \/ Len(down[c]) < SocketRoom
    /\ down' = [down EXCEPT ![c] = IF client[c] = "closed" THEN @ ELSE Append(@, k)]
    /\ gate' = [gate EXCEPT ![c] = NoCall]
    /\ Goto(k, "awaiting")
    /\ UNCHANGED <<client, up, executed, phase, known, pending, registryVars,
                   asked, conn, completion, outcome, active, logged>>

(* Fault: the gate is not released when the write throws.                  *)
FailWriteKeepingGate(k) ==
    LET c == conn[k] IN
    /\ pc[k] = "writing"
    /\ ~SocketOpen(c) \/ client[c] = "closed"
    /\ pending' = [pending EXCEPT ![c] = @ \ {k}]
    /\ Finish(k, "error")
    /\ UNCHANGED <<pluginVars, phase, known, gate, registryVars, asked, conn, completion>>

(* The write throws: the socket is closed, or reset by the peer.           *)
FailWrite(k) ==
    LET c == conn[k] IN
    /\ pc[k] = "writing"
    /\ ~SocketOpen(c) \/ client[c] = "closed"
    /\ gate' = [gate EXCEPT ![c] = NoCall]
    /\ pending' = [pending EXCEPT ![c] = @ \ {k}]
    /\ Finish(k, "error")
    /\ UNCHANGED <<pluginVars, phase, known, registryVars, asked, conn, completion>>

(* The timeout only completes the task: a call that is still in the write  *)
(* or waits for the gate does not notice it.                               *)
TimeOut(k) ==
    /\ pc[k] \in {"registered", "writing", "awaiting"}
    /\ completion[k] = "none"
    /\ TrySet(k, "timeout")
    /\ UNCHANGED <<pluginVars, hubVars, registryVars, pc, asked, conn, outcome, active, logged>>

(* Fault: a cancelled task counts as answered.                             *)
AnswerIgnoringTimeout(k) == IF completion[k] \in {"ok", "timeout"} THEN "ok" ELSE "error"

Answer(k) == IF completion[k] = "ok" THEN "ok" ELSE "error"

(* The caller resumes after the await.  Metadata that came back goes into  *)
(* the registry: RefreshTargetMetadata without a connection for an agent's *)
(* call, RefreshMetadataAsync with its own.                                *)
Resume(k) ==
    LET c == conn[k] IN
    /\ pc[k] = "awaiting"
    /\ completion[k] # "none"
    /\ pending' = [pending EXCEPT ![c] = @ \ {k}]
    /\ Finish(k, Answer(k))
    /\ CASE completion[k] = "ok" /\ k \in MetaCalls ->
              UpsertMetadata(InstOf[c], NoConn) /\ UNCHANGED known
         [] completion[k] = "ok" /\ k \in Conns ->
              UpsertMetadata(InstOf[c], c) /\ known' = [known EXCEPT ![c] = TRUE]
         [] OTHER -> UNCHANGED <<registryVars, known>>
    /\ UNCHANGED <<pluginVars, phase, gate, asked, conn, completion>>

-----------------------------------------------------------------------------
Plugin(c) ==
    Connect(c) \/ SendHello(c) \/ SendHeartbeat(c) \/ HandleToolCall(c) \/ ClientClose(c)

Connection(c) ==
    \/ HandleHello(c) \/ HandleHeartbeat(c) \/ HandleToolResult(c)
    \/ EndRead(c) \/ Unregister(c) \/ FailPending(c)

Call(k) ==
    \/ FindTarget(k) \/ FindConnection(k)
    \/ Register(k) \/ EnterGate(k) \/ WriteToolCall(k) \/ FailWrite(k)
    \/ TimeOut(k) \/ Resume(k)

Next ==
    \/ \E c \in Conns : Plugin(c) \/ Connection(c)
    \/ \E k \in CallIds : Call(k)

Spec == Init /\ [][Next]_vars
-----------------------------------------------------------------------------
(***************************************************************************)
(* Fairness.  The thread pool runs every continuation and every timer; the *)
(* plugin's loop sends a heartbeat every five seconds and serves the calls *)
(* it finds.  Nobody has to open a window, call a tool or stay connected.  *)
(***************************************************************************)
Fairness ==
    /\ \A c \in Conns :
          /\ WF_vars(SendHeartbeat(c)) /\ WF_vars(HandleToolCall(c))
          /\ WF_vars(Connection(c))
    /\ \A k \in CallIds :
          /\ WF_vars(FindConnection(k) \/ Register(k) \/ WriteToolCall(k) \/ FailWrite(k) \/ Resume(k))
          /\ WF_vars(EnterGate(k)) /\ WF_vars(TimeOut(k))

FairSpec == Spec /\ Fairness

-----------------------------------------------------------------------------
InFlight == {"registered", "writing", "awaiting"}

(* The variables hold values of their types.                               *)
TypeOK ==
    /\ client \in [Conns -> ClientStates]
    /\ up \in [Conns -> Seq(Messages)]
    /\ down \in [Conns -> Seq(CallIds)]
    /\ executed \subseteq CallIds
    /\ phase \in [Conns -> Phases]
    /\ known \in [Conns -> BOOLEAN]
    /\ pending \in [Conns -> SUBSET CallIds]
    /\ gate \in [Conns -> CallIds \cup {NoCall}]
    /\ targets \subseteq Insts
    /\ connOf \in [Insts -> Conns \cup {NoConn}]
    /\ pc \in [CallIds -> CallStates]
    /\ asked \in [Calls -> Insts]
    /\ conn \in [CallIds -> Conns \cup {NoConn}]
    /\ completion \in [CallIds -> Completions]
    /\ outcome \in [CallIds -> Outcomes]
    /\ active \subseteq Calls
    /\ logged \in [Calls -> Nat]

(* Once Dispose has run on a connection, no call sent over it is left to   *)
(* its timeout: those registered before were failed by Dispose, those      *)
(* registered later cannot write to the closed socket.                     *)
NoOrphanedCall ==
    \A k \in CallIds :
        pc[k] = "awaiting" /\ phase[conn[k]] = "dead" => completion[k] # "none"

(* A call completes with a tool_result only if its own tool has run: the   *)
(* late answer of a call that timed out is never taken for another's.      *)
AnswersAreReal ==
    \A k \in CallIds : completion[k] \in {"ok", "failed"} => k \in executed

(* Whatever ends a call (answer, timeout, failed write, closed connection) *)
(* leaves neither an entry in _pendingCalls nor the write gate behind.     *)
NothingLeaks ==
    \A c \in Conns :
        /\ \A k \in pending[c] : conn[k] = c /\ pc[k] \in InFlight
        /\ gate[c] # NoCall => conn[gate[c]] = c /\ pc[gate[c]] = "writing"

(* On every path through InvokeTargetToolAsync a call is logged once, and  *)
(* it is an active operation exactly while it uses a connection.           *)
CallsAccountedFor ==
    \A k \in Calls :
        /\ logged[k] = IF pc[k] = "done" THEN 1 ELSE 0
        /\ k \in active <=> pc[k] \in InFlight \cup {"invoking"}

(* The strengthening that makes the invariants above inductive.            *)

(* A connection brings one hello, as its first frame, and only that frame  *)
(* starts the connection's own call.                                       *)
HelloComesFirst ==
    \A c \in Conns :
        /\ client[c] \in {"off", "connected"} => up[c] = <<>> /\ pc[c] = "idle"
        /\ \A n \in DOMAIN up[c] : up[c][n].type = "hello" => n = 1 /\ pc[c] = "idle"

ResultsAreReal ==
    \A c \in Conns : \A n \in DOMAIN up[c] :
        up[c][n].type = "tool_result" => up[c][n].id \in executed

(* What the plugin is asked to run has been called.                        *)
RequestsHaveBegun ==
    \A c \in Conns : \A n \in DOMAIN down[c] : pc[down[c][n]] # "idle"

(* A call that has a connection was registered there before it wrote, and  *)
(* stays pending there until something completes it.                       *)
WaitingIsPending ==
    \A k \in CallIds :
        /\ pc[k] \in InFlight \cup {"invoking"} => conn[k] \in Conns
        /\ pc[k] \in InFlight /\ completion[k] = "none" => k \in pending[conn[k]]
        /\ pc[k] = "found" => k \in Calls

(* The inductive invariant of the proofs: all of the above together.       *)
HubInv ==
    /\ TypeOK
    /\ HelloComesFirst
    /\ ResultsAreReal
    /\ RequestsHaveBegun
    /\ WaitingIsPending
    /\ NothingLeaks
    /\ NoOrphanedCall
    /\ AnswersAreReal
    /\ CallsAccountedFor

-----------------------------------------------------------------------------
(* A window that reconnects is not unregistered by the disposal of its old *)
(* connection: while a registered connection is being read, the registry   *)
(* routes its window to it or to another connection, never nowhere.        *)
LiveRegistrationKept ==
    [][\A c \in Conns :
          connOf[InstOf[c]] = c /\ phase[c] = "reading" /\ phase'[c] = "reading"
              => connOf'[InstOf[c]] # NoConn]_vars

(* What the caller of a tool sees of the state of its call.                *)
CallStatus ==
    [k \in CallIds |->
        CASE pc[k] = "idle" -> "idle"
          [] pc[k] = "done" -> outcome[k]
          [] OTHER -> "running"]

Service == INSTANCE ToolCalls WITH status <- CallStatus, ran <- executed

(* Registry, connections and timeouts together keep the promise of         *)
(* ToolCalls to the callers of tools.                                      *)
KeepsToolCallPromise == Service!Spec

(* A call that has begun to look for its window returns to its caller.     *)
CallsReturn == \A k \in CallIds : pc[k] # "idle" ~> pc[k] = "done"

(* A connection that stays open ends up as the route to its window and     *)
(* remains so, whatever frames and refreshes of older connections of the   *)
(* same window are still under way.                                        *)
OpenWindowStaysReachable ==
    \A c \in Conns :
        <>[](client[c] = "pumping" /\ phase[c] = "reading")
            => <>[](InstOf[c] \in targets /\ connOf[InstOf[c]] = c)

-----------------------------------------------------------------------------
(* docs/protocol.md: "If the TCP connection closes, the center removes the *)
(* target registration."  When all connections of a window are closed and  *)
(* disposed of and no call is under way, nothing will remove it any more.  *)
Settled(i) ==
    /\ \A c \in Conns : InstOf[c] = i => phase[c] \in {"none", "dead"}
    /\ \A k \in CallIds : pc[k] \in {"idle", "done"}

(* ... and so no target is left then, and no route to a connection: the    *)
(* answer to a refresh of metadata, of an agent or of the connection       *)
(* itself, does not bring the window back after Dispose.                   *)
ClosedWindowIsForgotten ==
    \A i \in Insts : Settled(i) => i \notin targets /\ connOf[i] = NoConn
=============================================================================
