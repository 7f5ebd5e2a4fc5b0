---------------------------- MODULE PluginClient ----------------------------
(***************************************************************************)
(* The plugin of one IDA window: plugin_t.init and term on the main thread *)
(* (entry.py), and the thread of a CenterTcpClient that connects, says     *)
(* hello, sends heartbeats, runs tool calls and connects again             *)
(* (tcp_client.py).  Whatever the client wants from IDA goes through       *)
(* run_on_ida_thread, so the two threads wait for each other: the client   *)
(* in execute_sync, the main thread in the join of stop().                 *)
(*                                                                         *)
(* Every init makes a new CenterTcpClient; the thread of an earlier one    *)
(* may still be there.  Clients are numbered in the order they are made.   *)
(* The shutdown message is left out: the center never sends it.            *)
(***************************************************************************)
EXTENDS IdaThread

ASSUME ClientAssumption == Callers \subseteq Nat

VARIABLES
    plugin,   \* _client of the plugin_t
    joining,  \* the main thread is in stop()
    stopping, \* _stop_event of a client
    thread,   \* where the thread of a client stands
    sock,     \* its socket: the center has closed it and there is a tool call
              \* left to read ("cut"), or there is nothing left ("drained")
    greeted,  \* hello was sent over the socket
    center    \* the center accepts connections

clientVars == <<plugin, joining, stopping, thread, sock, greeted, center>>
pluginVars == <<idaVars, clientVars>>

ThreadStates ==
    {"none", "retry", "connect", "hello", "loop", "beat", "poll", "tool", "reply",
     "pause", "exited"}

ClientTypeOK ==
    /\ IdaTypeOK
    /\ plugin \in Callers \cup {NoCaller}
    /\ joining \in BOOLEAN
    /\ stopping \in [Callers -> BOOLEAN]
    /\ thread \in [Callers -> ThreadStates]
    /\ sock \in [Callers -> {"none", "open", "cut", "drained"}]
    /\ greeted \in [Callers -> BOOLEAN]
    /\ center \in BOOLEAN

ClientInit ==
    /\ IdaInit
    /\ plugin = NoCaller
    /\ joining = FALSE
    /\ stopping = [w \in Callers |-> FALSE]
    /\ thread = [w \in Callers |-> "none"]
    /\ sock = [w \in Callers |-> "none"]
    /\ greeted = [w \in Callers |-> FALSE]
    /\ center = TRUE

-----------------------------------------------------------------------------
(* The main thread.                                                        *)

MainIsFree == step = "free" /\ ~joining
Alive(w) == thread[w] \notin {"none", "exited"}

PluginInit(w) ==
    /\ MainIsFree /\ plugin = NoCaller
    /\ \A v \in Callers : thread[v] = "none" <=> v >= w
    /\ plugin' = w
    /\ thread' = [thread EXCEPT ![w] = "retry"]
    /\ UNCHANGED <<idaVars, joining, stopping, sock, greeted, center>>

(* stop(): set the event and join; term() then drops the client.           *)
PluginTerm ==
    /\ MainIsFree /\ plugin # NoCaller
    /\ stopping' = [stopping EXCEPT ![plugin] = TRUE]
    /\ joining' = Alive(plugin)
    /\ plugin' = IF Alive(plugin) THEN plugin ELSE NoCaller
    /\ UNCHANGED <<idaVars, thread, sock, greeted, center>>

(* Fault: join() without a timeout.                                        *)
JoinUntilExit ==
    /\ joining
    /\ thread[plugin] = "exited"
    /\ joining' = FALSE
    /\ plugin' = NoCaller
    /\ UNCHANGED <<idaVars, stopping, thread, sock, greeted, center>>

(* The thread has exited, or two seconds are over.                         *)
JoinEnds ==
    /\ joining
    /\ joining' = FALSE
    /\ plugin' = NoCaller
    /\ UNCHANGED <<idaVars, stopping, thread, sock, greeted, center>>

(* IDA runs what execute_sync asks for when its main thread is free.       *)
Serve(w) == MainIsFree /\ Enter(w) /\ UNCHANGED clientVars
Work == Wrapper /\ UNCHANGED clientVars
Late == Timeout /\ UNCHANGED clientVars

-----------------------------------------------------------------------------
(* The thread of a client: _run and _connect_and_pump.                     *)

Go(w, state) == thread' = [thread EXCEPT ![w] = state]
KeepSocket == UNCHANGED <<sock, greeted>>

Closed(w) == sock[w] \in {"cut", "drained"}

(* Fault: the socket is left open.                                         *)
HangUpOpen(w) == Go(w, "pause") /\ KeepSocket

(* Leaving _connect_and_pump, with or without an exception, closes the     *)
(* socket; _run then waits for the reconnect delay.                        *)
HangUp(w) ==
    /\ Go(w, "pause")
    /\ sock' = [sock EXCEPT ![w] = "none"]
    /\ greeted' = [greeted EXCEPT ![w] = FALSE]

(* sendall over a socket the center has closed may fail or go unnoticed.   *)
SendThen(w, state) ==
    \/ Go(w, state) /\ KeepSocket
    \/ Closed(w) /\ HangUp(w)

ThreadExits(w) ==
    /\ thread[w] = "retry" /\ stopping[w]
    /\ Go(w, "exited") /\ KeepSocket
    /\ UNCHANGED <<idaVars, plugin, joining, stopping, center>>

(* Between this look at the event and the connection it may be set.        *)
BeginConnect(w) ==
    /\ thread[w] = "retry" /\ ~stopping[w]
    /\ Go(w, "connect") /\ KeepSocket
    /\ UNCHANGED <<idaVars, plugin, joining, stopping, center>>

(* A connection, and the metadata for the hello is asked for.              *)
Connect(w) ==
    /\ thread[w] = "connect"
    /\ center
    /\ sock' = [sock EXCEPT ![w] = "open"]
    /\ Go(w, "hello")
    /\ Submit(w)
    /\ UNCHANGED <<plugin, joining, stopping, greeted, center>>

(* Fault: the error is not caught, and the thread is over.                 *)
ConnectFailsForGood(w) ==
    /\ thread[w] = "connect"
    /\ ~center
    /\ Go(w, "exited") /\ KeepSocket
    /\ UNCHANGED <<idaVars, plugin, joining, stopping, center>>

ConnectFails(w) ==
    /\ thread[w] = "connect"
    /\ ~center
    /\ Go(w, "pause") /\ KeepSocket
    /\ UNCHANGED <<idaVars, plugin, joining, stopping, center>>

SendHello(w) ==
    /\ thread[w] = "hello"
    /\ Collect(w, "value")
    /\ \/ Go(w, "loop") /\ greeted' = [greeted EXCEPT ![w] = TRUE] /\ UNCHANGED sock
       \/ Closed(w) /\ HangUp(w)
    /\ UNCHANGED <<plugin, joining, stopping, center>>

SendHeartbeat(w) ==
    /\ thread[w] = "beat"
    /\ Collect(w, "value")
    /\ SendThen(w, "poll")
    /\ UNCHANGED <<plugin, joining, stopping, center>>

(* An error while metadata is collected ends the connection.               *)
MetadataFails(w) ==
    /\ thread[w] \in {"hello", "beat"}
    /\ Collect(w, "error")
    /\ HangUp(w)
    /\ UNCHANGED <<plugin, joining, stopping, center>>

(* Fault: only _run looks at the event.                                    *)
LoopOn(w) ==
    /\ thread[w] = "loop" /\ stopping[w]
    /\ Go(w, "poll") /\ KeepSocket
    /\ UNCHANGED <<idaVars, plugin, joining, stopping, center>>

(* Top of the loop: the event, then the heartbeat if one is due.           *)
LeaveLoop(w) ==
    /\ thread[w] = "loop" /\ stopping[w]
    /\ HangUp(w)
    /\ UNCHANGED <<idaVars, plugin, joining, stopping, center>>

BeginHeartbeat(w) ==
    /\ thread[w] = "loop" /\ ~stopping[w]
    /\ Go(w, "beat") /\ KeepSocket
    /\ Submit(w)
    /\ UNCHANGED <<plugin, joining, stopping, center>>

NoHeartbeatDue(w) ==
    /\ thread[w] = "loop" /\ ~stopping[w]
    /\ Go(w, "poll") /\ KeepSocket
    /\ UNCHANGED <<idaVars, plugin, joining, stopping, center>>

(* select: nothing to read, the end of the stream, or a tool call.         *)
PollNothing(w) ==
    /\ thread[w] = "poll" /\ sock[w] = "open"
    /\ Go(w, "loop") /\ KeepSocket
    /\ UNCHANGED <<idaVars, plugin, joining, stopping, center>>

CenterClosed(w) ==
    /\ thread[w] = "poll" /\ Closed(w)
    /\ HangUp(w)
    /\ UNCHANGED <<idaVars, plugin, joining, stopping, center>>

ReadToolCall(w, state) ==
    /\ thread[w] = "poll" /\ sock[w] # "drained"
    /\ Go(w, state)
    /\ sock' = [sock EXCEPT ![w] = IF @ = "cut" THEN "drained" ELSE @]
    /\ UNCHANGED <<greeted, plugin, joining, stopping, center>>

ReadIdaTool(w) == ReadToolCall(w, "tool") /\ Submit(w)

(* target.ping, an unknown tool or a malformed call need no IDA thread.    *)
ReadOtherTool(w) == ReadToolCall(w, "reply") /\ UNCHANGED idaVars

ToolEnds(w) ==
    /\ thread[w] = "tool"
    /\ Collect(w, "value") \/ Collect(w, "error")
    /\ Go(w, "reply") /\ KeepSocket
    /\ UNCHANGED <<plugin, joining, stopping, center>>

Reply(w) ==
    /\ thread[w] = "reply"
    /\ SendThen(w, "loop")
    /\ UNCHANGED <<idaVars, plugin, joining, stopping, center>>

(* The reconnect delay is over, or the event is set.                       *)
PauseEnds(w) ==
    /\ thread[w] = "pause"
    /\ Go(w, "retry") /\ KeepSocket
    /\ UNCHANGED <<idaVars, plugin, joining, stopping, center>>

Thread(w) ==
    \/ ThreadExits(w) \/ BeginConnect(w) \/ Connect(w) \/ ConnectFails(w) \/ PauseEnds(w)
    \/ SendHello(w) \/ SendHeartbeat(w) \/ MetadataFails(w)
    \/ LeaveLoop(w) \/ BeginHeartbeat(w) \/ NoHeartbeatDue(w)
    \/ PollNothing(w) \/ CenterClosed(w) \/ ReadIdaTool(w) \/ ReadOtherTool(w)
    \/ ToolEnds(w) \/ Reply(w)

-----------------------------------------------------------------------------
(* The center: it stops, closing every connection, and starts again, or    *)
(* drops one connection.  Bound: at most one tool call is left unread.     *)
Cut(S) ==
    \E state \in {"cut", "drained"} :
        sock' = [w \in Callers |-> IF w \in S /\ sock[w] = "open" THEN state ELSE sock[w]]

CenterStops ==
    /\ center
    /\ center' = FALSE
    /\ Cut(Callers)
    /\ UNCHANGED <<idaVars, plugin, joining, stopping, thread, greeted>>

CenterStarts ==
    /\ ~center
    /\ center' = TRUE
    /\ UNCHANGED <<idaVars, plugin, joining, stopping, thread, sock, greeted>>

CenterDrops(w) ==
    /\ sock[w] = "open"
    /\ Cut({w})
    /\ UNCHANGED <<idaVars, plugin, joining, stopping, thread, greeted, center>>

-----------------------------------------------------------------------------
ClientNext ==
    \/ PluginTerm \/ JoinEnds \/ Work \/ Late
    \/ \E w \in Callers : PluginInit(w) \/ Serve(w) \/ Thread(w) \/ CenterDrops(w)
    \/ CenterStops \/ CenterStarts

ClientSpec == ClientInit /\ [][ClientNext]_pluginVars

(* Both threads run; join returns; IDA serves execute_sync requests in the *)
(* order they were made, so each of them comes up.                         *)
FairSpec ==
    /\ ClientSpec
    /\ WF_pluginVars(JoinEnds) /\ WF_pluginVars(Work)
    /\ \A w \in Callers : WF_pluginVars(Thread(w)) /\ SF_pluginVars(Serve(w))

-----------------------------------------------------------------------------
(* A thread that is not in _connect_and_pump has closed its socket, so that *)
(* the center can remove the target (README.md, "Automatic target cleanup"). *)
ExitClosesSocket ==
    \A w \in Callers : thread[w] \in {"pause", "retry", "connect", "exited"} => sock[w] = "none"

(* The main thread and a client thread may wait for each other, one in the *)
(* join of stop() and the other in execute_sync: IDA gets its main thread  *)
(* back all the same, unless run_on_ida_thread hangs.                      *)
MainThreadReturns ==
    joining \/ step # "free" ~> (~joining /\ step = "free") \/ Stalled

(* A client that was told to stop does so, even if term() did not wait for *)
(* it and whatever the center sends, unless run_on_ida_thread hangs.       *)
StoppedThreadExits == \A w \in Callers : stopping[w] ~> thread[w] = "exited" \/ Stalled

(* Once the center stays up, drops no more connections and metadata can be *)
(* collected, the client of the plugin ends up with an open connection     *)
(* over which it has said hello.                                           *)
ClientReconnects ==
    \A w \in Callers :
        /\ <>[](center /\ plugin = w /\ ~stopping[w] /\ ~Stalled)
        /\ <>[][~CenterDrops(w) /\ ~MetadataFails(w)]_pluginVars
        => <>[](sock[w] = "open" /\ greeted[w])
=============================================================================
