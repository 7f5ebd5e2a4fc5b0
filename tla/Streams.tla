------------------------------ MODULE Streams ------------------------------
(***************************************************************************)
(* The HTTP server of a window of the archived upstream server and its     *)
(* event streams (zeromcp/mcp.py): a stream is served by a thread of its   *)
(* own, which looks once a second whether it is to end; what a client      *)
(* posts names its stream and is answered there.  The plugin stops the     *)
(* server and starts it again while such threads still run.                *)
(***************************************************************************)
EXTENDS Naturals, FiniteSets

CONSTANTS
    StreamIds, \* numbers of streams, in the order in which they come
    MaxServes  \* bound: servers that are made

StreamAssumption == StreamIds \subseteq Nat /\ MaxServes \in Nat

VARIABLES
    running,   \* _running
    current,   \* _http_server, numbered; 0 if there is none
    listening, \* servers that have their port
    served,    \* servers that were made
    halting,   \* where stop() stands
    connected, \* _sse_connections
    thread,    \* the handler of a stream
    alive,     \* conn.alive
    left,      \* streams whose client has gone
    post,      \* the stream that a post under way has found; 0 for none
    broken,    \* history: stop() failed
    late       \* history: streams that came while stop() was clearing

serverVars == <<running, current, listening, served, halting, broken>>
streamVars == <<connected, thread, alive, left, late>>
vars == <<serverVars, streamVars, post>>

-----------------------------------------------------------------------------
(* serve: the socket is bound before the thread starts.                    *)
Serve ==
    /\ ~running /\ halting = "no" /\ served < MaxServes
    /\ running' = TRUE
    /\ served' = served + 1 /\ current' = served'
    /\ listening' = listening \cup {served'}
    /\ UNCHANGED <<halting, broken, streamVars, post>>

(* stop: nothing is done if the server is not running; else all streams    *)
(* are marked, forgotten, and the socket closed.                           *)
BeginStop ==
    /\ running /\ halting = "no"
    /\ running' = FALSE /\ halting' = "marking"
    /\ UNCHANGED <<current, listening, served, broken, streamVars, post>>

MarkStreams ==
    /\ halting = "marking"
    /\ alive' = alive \ connected
    /\ halting' = "clearing"
    /\ UNCHANGED <<running, current, listening, served, broken, connected, thread, left, late, post>>

ClearStreams ==
    /\ halting = "clearing"
    /\ connected' = {}
    /\ halting' = "closing"
    /\ UNCHANGED <<running, current, listening, served, broken, thread, alive, left, late, post>>

CloseServer ==
    /\ halting = "closing"
    /\ listening' = listening \ {current}
    /\ current' = 0 /\ halting' = "no"
    /\ UNCHANGED <<running, served, broken, streamVars, post>>

-----------------------------------------------------------------------------
(* _handle_sse_get: the connection is known from before the first byte to  *)
(* the end of its handler, however that comes.                             *)
Joins(s) ==
    /\ thread[s] = "new" /\ listening # {}
    /\ \A q \in StreamIds : q < s => thread[q] # "new"
    /\ thread' = [thread EXCEPT ![s] = "serving"]
    /\ alive' = alive \cup {s}
    /\ connected' = connected \cup {s}
    /\ late' = IF halting = "clearing" THEN late \cup {s} ELSE late

Connect(s) == Joins(s) /\ UNCHANGED <<serverVars, left, post>>

(* The look of once a second, or a write that fails.                       *)
LeaveLoop(s) ==
    /\ thread[s] = "serving"
    /\ s \notin alive \/ ~running \/ s \in left
    /\ thread' = [thread EXCEPT ![s] = "ending"]
    /\ alive' = alive \ {s}
    /\ UNCHANGED <<serverVars, connected, left, late, post>>

Forgets(s) ==
    /\ thread[s] = "ending"
    /\ thread' = [thread EXCEPT ![s] = "over"]
    /\ connected' = connected \ {s}

Forget(s) == Forgets(s) /\ UNCHANGED <<serverVars, alive, left, late, post>>

ClientLeaves(s) ==
    /\ thread[s] = "serving" /\ s \notin left
    /\ left' = left \cup {s}
    /\ UNCHANGED <<serverVars, connected, thread, alive, late, post>>

(* A stream that comes or goes while stop() goes over the connections      *)
(* breaks its loop: the error leaves the socket open, and a later stop()   *)
(* returns at once.                                                        *)
StopBreaks(s) ==
    /\ halting = "marking" /\ connected # {}
    /\ \/ Joins(s)
       \/ Forgets(s) /\ alive' = alive \ connected /\ UNCHANGED late
    /\ halting' = "no" /\ broken' = TRUE
    /\ UNCHANGED <<running, current, listening, served, left, post>>

-----------------------------------------------------------------------------
(* _handle_sse_post: refused unless the stream is known; the answer is     *)
(* written to the stream that was found, if it still lives.                *)
Post(s) ==
    /\ post = 0 /\ listening # {} /\ s \in connected \cap alive
    /\ post' = s
    /\ UNCHANGED <<serverVars, streamVars>>

Answer ==
    /\ post # 0
    /\ alive' = alive \ (left \cap {post})
    /\ post' = 0
    /\ UNCHANGED <<serverVars, connected, thread, left, late>>

Init ==
    /\ running = FALSE /\ current = 0 /\ listening = {} /\ served = 0
    /\ halting = "no" /\ broken = FALSE
    /\ connected = {} /\ alive = {} /\ left = {} /\ late = {} /\ post = 0
    /\ thread = [s \in StreamIds |-> "new"]

Next ==
    \/ Serve \/ BeginStop \/ MarkStreams \/ ClearStreams \/ CloseServer \/ Answer
    \/ \E s \in StreamIds :
          Connect(s) \/ LeaveLoop(s) \/ Forget(s) \/ ClientLeaves(s) \/ StopBreaks(s) \/ Post(s)

Spec == Init /\ [][Next]_vars

-----------------------------------------------------------------------------
(* What can be posted to has a thread that serves it, and what is served   *)
(* and lives can be posted to, across a stop and a new start; but for a    *)
(* stream that came between the mark and the end of a stop.                *)
ServedStreamsAreKnown ==
    /\ \A s \in connected : thread[s] \in {"serving", "ending"}
    /\ running => \A s \in alive : thread[s] = "serving" => s \in connected \cup late

(* One server has a port at most, and none when stop() is through; but a   *)
(* stop that broke leaves its server behind.                               *)
OneServerListens ==
    ~broken => Cardinality(listening) <= 1 /\ (~running /\ halting = "no" => listening = {})

StreamsAreServed == ServedStreamsAreKnown /\ OneServerListens
=============================================================================
