-------------------------- MODULE TargetHubProofs --------------------------
(***************************************************************************)
(* Theorems about TargetHub for any number of windows, connections and     *)
(* calls.                                                                  *)
(***************************************************************************)
EXTENDS TargetHub, TLAPS

LEMMA MessageTypes ==
    /\ Hello \in Messages /\ Heartbeat \in Messages
    /\ \A k \in CallIds, r \in {"ok", "failed", "oversized"} : ToolResult(k, r) \in Messages
    /\ \A m \in Messages :
          m.type = "tool_result" => m.id \in CallIds /\ m.reply \in {"ok", "failed", "oversized"}
BY DEF Messages, Hello, Heartbeat, ToolResult

LEMMA TypeInit == Init => TypeOK
<1> SUFFICES ASSUME Init PROVE TypeOK
  OBVIOUS
<1>1. /\ up \in [Conns -> Seq(Messages)] /\ down \in [Conns -> Seq(CallIds)]
  BY DEF Init
<1>2. /\ conn \in [CallIds -> Conns \cup {NoConn}] /\ gate \in [Conns -> CallIds \cup {NoCall}]
  BY DEF Init
<1>3. /\ client \in [Conns -> ClientStates] /\ phase \in [Conns -> Phases]
      /\ pc \in [CallIds -> CallStates] /\ completion \in [CallIds -> Completions]
      /\ outcome \in [CallIds -> Outcomes]
  BY DEF Init, ClientStates, Phases, CallStates, Completions, Outcomes
<1>4. /\ known \in [Conns -> BOOLEAN] /\ pending \in [Conns -> SUBSET CallIds]
      /\ connOf \in [Insts -> Conns \cup {NoConn}] /\ logged \in [Calls -> Nat]
      /\ asked \in [Calls -> Insts]
  BY DEF Init
<1> QED BY <1>1, <1>2, <1>3, <1>4 DEF Init, TypeOK

LEMMA TypePlugin == ASSUME TypeOK, NEW c \in Conns, Plugin(c) PROVE TypeOK'
<1>1. CASE Connect(c)
  BY <1>1 DEF TypeOK, Connect, registryVars, callVars, ClientStates, Phases
<1>2. CASE SendHello(c)
  BY <1>2, MessageTypes DEF TypeOK, SendHello, Send, hubVars, registryVars, callVars, ClientStates
<1>3. CASE SendHeartbeat(c)
  BY <1>3, MessageTypes DEF TypeOK, SendHeartbeat, Send, hubVars, registryVars, callVars
<1>4. CASE HandleToolCall(c)
  <2>1. Head(down[c]) \in CallIds /\ Tail(down[c]) \in Seq(CallIds)
    BY <1>4 DEF TypeOK, HandleToolCall
  <2>2. up' \in [Conns -> Seq(Messages)]
    BY <1>4, <2>1, MessageTypes DEF TypeOK, HandleToolCall, Send
  <2> QED BY <1>4, <2>1, <2>2 DEF TypeOK, HandleToolCall, hubVars, registryVars, callVars
<1>5. CASE ClientClose(c)
  BY <1>5 DEF TypeOK, ClientClose, hubVars, registryVars, callVars, ClientStates
<1> QED BY <1>1, <1>2, <1>3, <1>4, <1>5 DEF Plugin

(* What the steps of TypeConnection and TypeCall have in common.           *)
LEMMA TypeRegistry ==
    ASSUME TypeOK, NEW i \in Insts, NEW c \in Conns \cup {NoConn}, UpsertMetadata(i, c) \/ Remove(i, c)
    PROVE  targets' \subseteq Insts /\ connOf' \in [Insts -> Conns \cup {NoConn}]
BY DEF TypeOK, UpsertMetadata, Remove

LEMMA TypeFinish ==
    ASSUME TypeOK, NEW k \in CallIds, NEW r \in Outcomes, Finish(k, r)
    PROVE  /\ pc' \in [CallIds -> CallStates] /\ outcome' \in [CallIds -> Outcomes]
           /\ active' \subseteq Calls /\ logged' \in [Calls -> Nat]
BY DEF TypeOK, Finish, Goto, CallStates

LEMMA TypeConnection == ASSUME TypeOK, NEW c \in Conns, Connection(c) PROVE TypeOK'
<1>c. InstOf[c] \in Insts /\ c \in CallIds
  BY ConnectionAssumption DEF CallIds
<1>t. ASSUME up[c] # <<>> PROVE Head(up[c]) \in Messages /\ Tail(up[c]) \in Seq(Messages)
  BY <1>t DEF TypeOK
<1>1. CASE HandleHello(c)
  <2>1. UpsertMetadata(InstOf[c], c) /\ up' \in [Conns -> Seq(Messages)]
    BY <1>1, <1>t DEF HandleHello, Received, Consume, TypeOK
  <2> QED BY <1>1, <1>c, <2>1, TypeRegistry DEF TypeOK, HandleHello, CallStates
<1>2. CASE HandleHeartbeat(c)
  <2>1. UpsertMetadata(InstOf[c], c) /\ up' \in [Conns -> Seq(Messages)]
    BY <1>2, <1>t DEF HandleHeartbeat, Received, Consume, TypeOK
  <2> QED BY <1>2, <1>c, <2>1, TypeRegistry DEF TypeOK, HandleHeartbeat, callVars
<1>3. CASE HandleToolResult(c)
  <2>1. up' \in [Conns -> Seq(Messages)]
    BY <1>3, <1>t DEF HandleToolResult, Received, Consume, TypeOK
  <2>2. Head(up[c]).id \in CallIds /\ Head(up[c]).reply \in Completions
    BY <1>3, <1>t, MessageTypes DEF HandleToolResult, Received, Completions
  <2>3. ASSUME Head(up[c]).id \in pending[c]
        PROVE  pending' \in [Conns -> SUBSET CallIds] /\ completion' \in [CallIds -> Completions]
    <3>1. /\ pending' = [pending EXCEPT ![c] = @ \ {Head(up[c]).id}]
          /\ TrySet(Head(up[c]).id, Head(up[c]).reply)
      BY <1>3, <2>3 DEF HandleToolResult
    <3> QED BY <2>2, <3>1 DEF TrySet, TypeOK
  <2>4. Head(up[c]).id \notin pending[c] => UNCHANGED <<pending, completion>>
    BY <1>3 DEF HandleToolResult
  <2>5. UNCHANGED <<client, down, executed, phase, known, gate, registryVars,
                    pc, asked, conn, outcome, active, logged>>
    BY <1>3 DEF HandleToolResult
  <2> QED BY <2>1, <2>3, <2>4, <2>5 DEF TypeOK, registryVars
<1>4. CASE EndRead(c)
  BY <1>4 DEF TypeOK, EndRead, registryVars, callVars, Phases
<1>5. CASE Unregister(c)
  BY <1>5, <1>c, TypeRegistry DEF TypeOK, Unregister, pluginVars, registryVars, callVars, Phases
<1>6. CASE FailPending(c)
  <2>1. completion' \in [CallIds -> Completions]
    BY <1>6 DEF FailPending, TypeOK, Completions
  <2> QED BY <1>6, <2>1 DEF TypeOK, FailPending, pluginVars, registryVars, Phases
<1> QED BY <1>1, <1>2, <1>3, <1>4, <1>5, <1>6 DEF Connection

LEMMA TypeCall ==
    ASSUME TypeOK, WaitingIsPending, NEW k \in CallIds, Call(k)
    PROVE  TypeOK'
<1>1. CASE FindTarget(k)
  <2>1. "error" \in Outcomes
    BY DEF Outcomes
  <2>2. /\ pc' \in [CallIds -> CallStates] /\ outcome' \in [CallIds -> Outcomes]
        /\ active' \subseteq Calls /\ logged' \in [Calls -> Nat]
    BY <1>1, <2>1, TypeFinish DEF FindTarget, TypeOK, Goto, CallStates
  <2> QED BY <1>1, <2>2 DEF TypeOK, FindTarget, pluginVars, hubVars, registryVars
<1>2. CASE FindConnection(k)
  <2>1. "error" \in Outcomes
    BY DEF Outcomes
  <2>2. k \in Calls /\ connOf[asked[k]] \in Conns \cup {NoConn}
    BY <1>2 DEF FindConnection, WaitingIsPending, TypeOK
  <2>3. /\ pc' \in [CallIds -> CallStates] /\ outcome' \in [CallIds -> Outcomes]
        /\ active' \subseteq Calls /\ logged' \in [Calls -> Nat]
    BY <1>2, <2>1, <2>2, TypeFinish DEF FindConnection, TypeOK, Goto, CallStates
  <2> QED BY <1>2, <2>2, <2>3 DEF TypeOK, FindConnection, pluginVars, hubVars, registryVars
<1>3. CASE Register(k)
  BY <1>3 DEF TypeOK, Register, Goto, CallStates, pluginVars, registryVars
<1>4. CASE EnterGate(k)
  BY <1>4 DEF TypeOK, EnterGate, Goto, CallStates, pluginVars, registryVars
<1>5. CASE WriteToolCall(k)
  <2>1. conn[k] \in Conns
    BY <1>5 DEF WriteToolCall, WaitingIsPending, InFlight
  <2> QED BY <1>5, <2>1 DEF TypeOK, WriteToolCall, Goto, CallStates, registryVars
<1>6. CASE FailWrite(k)
  <2>1. "error" \in Outcomes /\ conn[k] \in Conns
    BY <1>6 DEF Outcomes, FailWrite, WaitingIsPending, InFlight
  <2> QED BY <1>6, <2>1, TypeFinish DEF TypeOK, FailWrite, pluginVars, registryVars
<1>7. CASE TimeOut(k)
  BY <1>7 DEF TypeOK, TimeOut, TrySet, Completions, pluginVars, hubVars, registryVars
<1>8. CASE Resume(k)
  <2>1. Answer(k) \in Outcomes /\ conn[k] \in Conns
    BY <1>8 DEF Answer, Outcomes, Resume, WaitingIsPending, InFlight
  <2>2. InstOf[conn[k]] \in Insts
    BY <2>1, ConnectionAssumption
  <2>3. Finish(k, Answer(k)) /\ pending' \in [Conns -> SUBSET CallIds]
    BY <1>8 DEF Resume, TypeOK
  <2>4. /\ targets' \subseteq Insts /\ connOf' \in [Insts -> Conns \cup {NoConn}]
        /\ known' \in [Conns -> BOOLEAN]
    BY <1>8, <2>1, <2>2, TypeRegistry DEF Resume, TypeOK, registryVars
  <2> QED BY <1>8, <2>1, <2>3, <2>4, TypeFinish DEF TypeOK, Resume, pluginVars
<1> QED BY <1>1, <1>2, <1>3, <1>4, <1>5, <1>6, <1>7, <1>8 DEF Call

-----------------------------------------------------------------------------
(* Frames in a queue: a new one comes last, the others keep their order.   *)
LEMMA AppendFrames ==
    ASSUME NEW s \in Seq(Messages), NEW m \in Messages, NEW n \in DOMAIN Append(s, m)
    PROVE  \/ n \in DOMAIN s /\ Append(s, m)[n] = s[n]
           \/ n = Len(s) + 1 /\ Append(s, m)[n] = m
OBVIOUS

LEMMA TailFrames ==
    ASSUME NEW s \in Seq(Messages), s # <<>>, NEW n \in DOMAIN Tail(s)
    PROVE  n \in Nat \ {0} /\ n + 1 \in DOMAIN s /\ Tail(s)[n] = s[n + 1]
OBVIOUS

(* What the sends and reads do to the queue of frames of a connection.     *)
LEMMA SentFrames ==
    ASSUME TypeOK, NEW c \in Conns, NEW m \in Messages, Send(c, m),
           NEW d \in Conns, NEW n \in DOMAIN up'[d]
    PROVE  \/ n \in DOMAIN up[d] /\ up'[d][n] = up[d][n]
           \/ d = c /\ n = Len(up[c]) + 1 /\ up'[d][n] = m
BY AppendFrames DEF TypeOK, Send

LEMMA ConsumedFrames ==
    ASSUME TypeOK, NEW c \in Conns, up[c] # <<>>, Consume(c),
           NEW d \in Conns, NEW n \in DOMAIN up'[d]
    PROVE  \/ d # c /\ n \in DOMAIN up[d] /\ up'[d][n] = up[d][n]
           \/ d = c /\ n \in Nat \ {0} /\ n + 1 \in DOMAIN up[c] /\ up'[d][n] = up[c][n + 1]
BY TailFrames DEF TypeOK, Consume

(* A step of a call is a step of a call that has begun, or is an agent's.  *)
LEMMA CallIsNoFreshConnection ==
    ASSUME NEW k \in CallIds, Call(k), NEW c \in Conns, pc[c] = "idle"
    PROVE  k # c
BY CallAssumption DEF Call, FindTarget, FindConnection, Register, EnterGate, WriteToolCall,
   FailWrite, TimeOut, Resume

LEMMA CallFrame ==
    ASSUME NEW k \in CallIds, Call(k)
    PROVE  /\ UNCHANGED <<client, up, executed, phase>>
           /\ \A j \in CallIds \ {k} : TypeOK => pc'[j] = pc[j]
BY DEF Call, FindTarget, FindConnection, Register, EnterGate, WriteToolCall, FailWrite, TimeOut,
   Resume, Finish, Goto, pluginVars, hubVars, TypeOK

LEMMA HelloStep ==
    ASSUME TypeOK, HelloComesFirst, Next
    PROVE  HelloComesFirst'
<1>1. ASSUME NEW c \in Conns, Connect(c) PROVE HelloComesFirst'
  BY <1>1 DEF HelloComesFirst, Connect, TypeOK, callVars
<1>2. ASSUME NEW c \in Conns, SendHello(c) PROVE HelloComesFirst'
  <2>1. up[c] = <<>> /\ pc[c] = "idle" /\ UNCHANGED pc /\ Send(c, Hello)
    BY <1>2 DEF HelloComesFirst, SendHello, callVars
  <2>2. /\ client' = [client EXCEPT ![c] = "pumping"]
        /\ \A d \in Conns \ {c} : up'[d] = up[d]
    BY <1>2, <2>1 DEF SendHello, Send, TypeOK
  <2>3. \A n \in DOMAIN up'[c] : n = 1
    BY <2>1, MessageTypes DEF Send, TypeOK
  <2> QED BY <2>1, <2>2, <2>3 DEF HelloComesFirst, TypeOK
<1>3. ASSUME NEW c \in Conns, SendHeartbeat(c) \/ HandleToolCall(c) PROVE HelloComesFirst'
  <2>1. PICK m \in Messages : Send(c, m) /\ m.type # "hello"
    <3>1. CASE SendHeartbeat(c)
      BY <3>1, MessageTypes DEF SendHeartbeat, Heartbeat
    <3>2. CASE HandleToolCall(c)
      <4>1. PICK r \in {"ok", "failed", "oversized"} : Send(c, ToolResult(Head(down[c]), r))
        BY <3>2 DEF HandleToolCall
      <4>2. Head(down[c]) \in CallIds
        BY <3>2 DEF HandleToolCall, TypeOK
      <4> QED BY <4>1, <4>2, MessageTypes DEF ToolResult
    <3> QED BY <1>3, <3>1, <3>2
  <2>2. client[c] = "pumping" /\ UNCHANGED <<client, pc>>
    BY <1>3 DEF SendHeartbeat, HandleToolCall, callVars
  <2>3. \A d \in Conns \ {c} : up'[d] = up[d]
    BY <2>1 DEF Send, TypeOK
  <2> QED BY <2>1, <2>2, <2>3, SentFrames DEF HelloComesFirst
<1>4. ASSUME NEW c \in Conns, ClientClose(c) PROVE HelloComesFirst'
  BY <1>4 DEF HelloComesFirst, ClientClose, TypeOK, callVars
<1>5. ASSUME NEW c \in Conns, Connection(c) PROVE HelloComesFirst'
  <2>1. CASE HandleHello(c)
    <3>1. up[c] # <<>> /\ Consume(c) /\ UNCHANGED client /\ pc' = [pc EXCEPT ![c] = "invoking"]
      BY <2>1 DEF HandleHello, Received
    <3>2. 1 \in DOMAIN up[c] /\ up[c][1].type = "hello" /\ pc[c] = "idle"
      BY <2>1, <3>1 DEF HandleHello, Received, TypeOK, HelloComesFirst
    <3>3. \A d \in Conns \ {c} : up'[d] = up[d] /\ pc'[d] = pc[d]
      BY <3>1 DEF Consume, TypeOK
    <3>4. \A n \in DOMAIN up'[c] : up'[c][n].type # "hello"
      BY <3>1, ConsumedFrames DEF HelloComesFirst
    <3>5. client[c] \notin {"off", "connected"}
      BY <3>2 DEF HelloComesFirst
    <3> QED BY <3>1, <3>3, <3>4, <3>5 DEF HelloComesFirst
  <2>2. CASE HandleHeartbeat(c) \/ HandleToolResult(c)
    <3>1. up[c] # <<>> /\ Consume(c) /\ UNCHANGED <<client, pc>>
      BY <2>2 DEF HandleHeartbeat, HandleToolResult, Received, callVars
    <3>2. \A d \in Conns \ {c} : up'[d] = up[d]
      BY <3>1 DEF Consume, TypeOK
    <3>3. \A n \in DOMAIN up'[c] : up'[c][n].type # "hello"
      BY <3>1, ConsumedFrames DEF HelloComesFirst
    <3>4. client[c] \notin {"off", "connected"}
      BY <3>1 DEF HelloComesFirst
    <3> QED BY <3>1, <3>2, <3>3, <3>4 DEF HelloComesFirst
  <2>3. CASE EndRead(c)
    BY <2>3 DEF EndRead, HelloComesFirst, TypeOK, callVars
  <2>4. CASE Unregister(c) \/ FailPending(c)
    BY <2>4 DEF Unregister, FailPending, HelloComesFirst, pluginVars, callVars
  <2> QED BY <1>5, <2>1, <2>2, <2>3, <2>4 DEF Connection
<1>6. ASSUME NEW k \in CallIds, Call(k) PROVE HelloComesFirst'
  BY <1>6, CallIsNoFreshConnection, CallFrame DEF HelloComesFirst, CallIds
<1> QED BY <1>1, <1>2, <1>3, <1>4, <1>5, <1>6 DEF Next, Plugin

-----------------------------------------------------------------------------
LEMMA ResultsStep ==
    ASSUME TypeOK, ResultsAreReal, Next
    PROVE  ResultsAreReal'
<1>1. ASSUME NEW c \in Conns, Connect(c) \/ ClientClose(c) \/ Unregister(c) \/ FailPending(c)
      PROVE  ResultsAreReal'
  BY <1>1 DEF ResultsAreReal, Connect, ClientClose, Unregister, FailPending, pluginVars
<1>2. ASSUME NEW c \in Conns, SendHello(c) \/ SendHeartbeat(c) PROVE ResultsAreReal'
  <2>1. PICK m \in Messages : Send(c, m) /\ m.type # "tool_result" /\ UNCHANGED executed
    BY <1>2, MessageTypes DEF SendHello, SendHeartbeat, Hello, Heartbeat
  <2> QED BY <2>1, SentFrames DEF ResultsAreReal
<1>3. ASSUME NEW c \in Conns, HandleToolCall(c) PROVE ResultsAreReal'
  <2>1. PICK r \in {"ok", "failed", "oversized"} : Send(c, ToolResult(Head(down[c]), r))
    BY <1>3 DEF HandleToolCall
  <2>2. Head(down[c]) \in CallIds
    BY <1>3 DEF HandleToolCall, TypeOK
  <2>3. /\ ToolResult(Head(down[c]), r) \in Messages
        /\ ToolResult(Head(down[c]), r).id = Head(down[c])
        /\ executed' = executed \cup {Head(down[c])}
    BY <1>3, <2>2, MessageTypes DEF HandleToolCall, ToolResult
  <2> QED BY <2>1, <2>3, SentFrames DEF ResultsAreReal
<1>4. ASSUME NEW c \in Conns, HandleHello(c) \/ HandleHeartbeat(c) \/ HandleToolResult(c)
      PROVE  ResultsAreReal'
  <2>1. up[c] # <<>> /\ Consume(c) /\ UNCHANGED executed
    BY <1>4 DEF HandleHello, HandleHeartbeat, HandleToolResult, Received
  <2> QED BY <2>1, ConsumedFrames DEF ResultsAreReal
<1>5. ASSUME NEW c \in Conns, EndRead(c) PROVE ResultsAreReal'
  BY <1>5 DEF ResultsAreReal, EndRead, TypeOK
<1>6. ASSUME NEW k \in CallIds, Call(k) PROVE ResultsAreReal'
  BY <1>6, CallFrame DEF ResultsAreReal
<1> QED BY <1>1, <1>2, <1>3, <1>4, <1>5, <1>6 DEF Next, Plugin, Connection

-----------------------------------------------------------------------------
(* The steps of the plugin do not touch the calls of the center.           *)
LEMMA PluginFrame ==
    ASSUME NEW c \in Conns, Plugin(c)
    PROVE  /\ UNCHANGED <<pending, gate, registryVars, callVars>>
           /\ executed \subseteq executed'
BY DEF Plugin, Connect, SendHello, SendHeartbeat, HandleToolCall, ClientClose, hubVars

(* A hello starts the call of its own connection, which was idle.          *)
LEMMA HelloFrame ==
    ASSUME TypeOK, HelloComesFirst, NEW c \in Conns, HandleHello(c)
    PROVE  /\ pc[c] = "idle" /\ c \in CallIds /\ c \notin Calls
           /\ pc' = [pc EXCEPT ![c] = "invoking"] /\ conn' = [conn EXCEPT ![c] = c]
           /\ UNCHANGED <<executed, phase, pending, gate, completion, outcome, active, logged>>
<1>1. up[c] # <<>> /\ Head(up[c]).type = "hello"
  BY DEF HandleHello, Received
<1>2. 1 \in DOMAIN up[c] /\ up[c][1].type = "hello"
  BY <1>1 DEF TypeOK
<1> QED BY <1>2, CallAssumption DEF HandleHello, HelloComesFirst, CallIds

(* A tool_result completes the pending call it names, or nothing.          *)
LEMMA ResultFrame ==
    ASSUME TypeOK, ResultsAreReal, NEW c \in Conns, HandleToolResult(c)
    PROVE  /\ UNCHANGED <<executed, phase, gate, pc, conn, outcome, active, logged>>
           /\ \/ UNCHANGED <<pending, completion>>
              \/ \E k \in pending[c] \cap executed, r \in {"ok", "failed"} :
                    /\ pending' = [pending EXCEPT ![c] = @ \ {k}]
                    /\ completion' = [completion EXCEPT ![k] = IF @ = "none" THEN r ELSE @]
<1> DEFINE m == Head(up[c])
<1>1. UNCHANGED <<executed, phase, gate, pc, conn, outcome, active, logged>>
  BY DEF HandleToolResult
<1>2. m \in Messages /\ m.type = "tool_result" /\ m = up[c][1] /\ 1 \in DOMAIN up[c]
  BY DEF HandleToolResult, Received, TypeOK
<1>3. m.reply \in {"ok", "failed"} /\ m.id \in executed
  BY <1>2, MessageTypes DEF HandleToolResult, ResultsAreReal
<1>4. \/ UNCHANGED <<pending, completion>>
      \/ /\ m.id \in pending[c]
         /\ pending' = [pending EXCEPT ![c] = @ \ {m.id}]
         /\ completion' = [completion EXCEPT ![m.id] = IF @ = "none" THEN m.reply ELSE @]
  BY DEF HandleToolResult, TrySet
<1> HIDE DEF m
<1> QED BY <1>1, <1>3, <1>4

(* The steps of a connection that leave all calls alone.                   *)
LEMMA QuietFrame ==
    ASSUME NEW c \in Conns, HandleHeartbeat(c) \/ EndRead(c) \/ Unregister(c)
    PROVE  UNCHANGED <<executed, pending, gate, callVars>>
BY DEF HandleHeartbeat, EndRead, Unregister, pluginVars

LEMMA RequestsStep ==
    ASSUME TypeOK, HelloComesFirst, ResultsAreReal, WaitingIsPending, RequestsHaveBegun, Next
    PROVE  RequestsHaveBegun'
<1>1. ASSUME \A k \in CallIds : pc[k] # "idle" => pc'[k] # "idle",
             \A d \in Conns : \A n \in DOMAIN down'[d] :
                \E m \in DOMAIN down[d] : down'[d][n] = down[d][m]
      PROVE  RequestsHaveBegun'
  <2>1. \A d \in Conns : \A m \in DOMAIN down[d] : down[d][m] \in CallIds
    BY DEF TypeOK
  <2> QED BY <1>1, <2>1 DEF RequestsHaveBegun
<1>2. ASSUME NEW c \in Conns, Plugin(c) PROVE RequestsHaveBegun'
  <2>1. UNCHANGED pc
    BY <1>2, PluginFrame DEF callVars
  <2>2. \A d \in Conns :
          \/ down'[d] = down[d]
          \/ down'[d] = <<>>
          \/ down[d] # <<>> /\ down'[d] = Tail(down[d])
    <3>1. CASE HandleToolCall(c)
      <4>1. down[c] # <<>> /\ down' = [down EXCEPT ![c] = Tail(down[c])]
        BY <3>1 DEF HandleToolCall
      <4> QED BY <4>1 DEF TypeOK
    <3>2. CASE ClientClose(c)
      BY <3>2 DEF ClientClose, TypeOK
    <3>3. CASE Connect(c) \/ SendHello(c) \/ SendHeartbeat(c)
      BY <3>3 DEF Connect, SendHello, SendHeartbeat
    <3> QED BY <1>2, <3>1, <3>2, <3>3 DEF Plugin
  <2>3. ASSUME NEW d \in Conns, NEW n \in DOMAIN down'[d]
        PROVE  \E m \in DOMAIN down[d] : down'[d][n] = down[d][m]
    <3>1. CASE down'[d] = down[d] \/ down'[d] = <<>>
      BY <2>3, <3>1
    <3>2. CASE down[d] # <<>> /\ down'[d] = Tail(down[d])
      <4>1. n + 1 \in DOMAIN down[d] /\ down'[d][n] = down[d][n + 1]
        BY <2>3, <3>2 DEF TypeOK
      <4> QED BY <4>1
    <3> QED BY <2>2, <3>1, <3>2
  <2> QED BY <1>1, <2>1, <2>3
<1>3. ASSUME NEW c \in Conns, Connection(c) PROVE RequestsHaveBegun'
  <2>1. UNCHANGED down
    BY <1>3 DEF Connection, HandleHello, HandleHeartbeat, HandleToolResult, EndRead, Unregister,
       FailPending, pluginVars
  <2>2. \A k \in CallIds : pc[k] # "idle" => pc'[k] # "idle"
    <3>1. CASE HandleHello(c)
      BY <3>1, HelloFrame DEF TypeOK
    <3>2. CASE ~HandleHello(c)
      BY <1>3, <3>2 DEF Connection, HandleHeartbeat, HandleToolResult, EndRead, Unregister,
         FailPending, callVars
    <3> QED BY <3>1, <3>2
  <2> QED BY <1>1, <2>1, <2>2
<1>4. ASSUME NEW k \in CallIds, Call(k) PROVE RequestsHaveBegun'
  <2>1. \A j \in CallIds : pc[j] # "idle" => pc'[j] # "idle"
    BY <1>4 DEF Call, FindTarget, FindConnection, Register, EnterGate, WriteToolCall, FailWrite,
       TimeOut, Resume, Finish, Goto, TypeOK
  <2>2. CASE WriteToolCall(k)
    <3>1. /\ pc'[k] # "idle" /\ conn[k] \in Conns
          /\ down' = [down EXCEPT ![conn[k]] = IF client[conn[k]] = "closed" THEN @ ELSE Append(@, k)]
      BY <2>2 DEF WriteToolCall, Goto, WaitingIsPending, InFlight, TypeOK
    <3>2. ASSUME NEW d \in Conns, NEW n \in DOMAIN down'[d]
          PROVE  down'[d][n] = k \/ (n \in DOMAIN down[d] /\ down'[d][n] = down[d][n])
      BY <3>1, <3>2 DEF TypeOK
    <3>3. \A d \in Conns : \A m \in DOMAIN down[d] : down[d][m] \in CallIds
      BY DEF TypeOK
    <3> QED BY <2>1, <3>1, <3>2, <3>3 DEF RequestsHaveBegun
  <2>3. CASE ~WriteToolCall(k)
    <3>1. UNCHANGED down
      BY <1>4, <2>3 DEF Call, FindTarget, FindConnection, Register, EnterGate, FailWrite, TimeOut,
         Resume, pluginVars
    <3> QED BY <1>1, <2>1, <3>1
  <2> QED BY <2>2, <2>3
<1> QED BY <1>2, <1>3, <1>4 DEF Next

LEMMA WaitingStep ==
    ASSUME TypeOK, HelloComesFirst, ResultsAreReal, WaitingIsPending, Next
    PROVE  WaitingIsPending'
<1>1. ASSUME NEW c \in Conns, Plugin(c) PROVE WaitingIsPending'
  BY <1>1, PluginFrame DEF WaitingIsPending, callVars
<1>2. ASSUME NEW c \in Conns, HandleHello(c) PROVE WaitingIsPending'
  <2>1. /\ c \in CallIds /\ c \notin Calls /\ UNCHANGED <<pending, completion>>
        /\ pc' = [pc EXCEPT ![c] = "invoking"] /\ conn' = [conn EXCEPT ![c] = c]
    BY <1>2, HelloFrame
  <2>2. pc'[c] = "invoking" /\ conn'[c] = c
    BY <2>1 DEF TypeOK
  <2>3. \A k \in CallIds \ {c} : pc'[k] = pc[k] /\ conn'[k] = conn[k]
    BY <2>1 DEF TypeOK
  <2> QED BY <2>1, <2>2, <2>3 DEF WaitingIsPending, InFlight
<1>3. ASSUME NEW c \in Conns, HandleToolResult(c) PROVE WaitingIsPending'
  <2>1. CASE UNCHANGED <<pending, completion>>
    BY <1>3, <2>1, ResultFrame DEF WaitingIsPending
  <2>2. CASE ~UNCHANGED <<pending, completion>>
    <3>1. PICK k \in pending[c] \cap executed, r \in {"ok", "failed"} :
            /\ pending' = [pending EXCEPT ![c] = @ \ {k}]
            /\ completion' = [completion EXCEPT ![k] = IF @ = "none" THEN r ELSE @]
      BY <1>3, <2>2, ResultFrame
    <3>2. UNCHANGED <<pc, conn>>
      BY <1>3, ResultFrame
    <3>3. k \in CallIds /\ completion'[k] # "none"
      BY <3>1 DEF TypeOK
    <3>4. \A j \in CallIds \ {k} : completion'[j] = completion[j]
      BY <3>1 DEF TypeOK
    <3>5. \A d \in Conns, j \in CallIds \ {k} : j \in pending[d] => j \in pending'[d]
      BY <3>1 DEF TypeOK
    <3> QED BY <3>2, <3>3, <3>4, <3>5 DEF WaitingIsPending
  <2> QED BY <2>1, <2>2
<1>4. ASSUME NEW c \in Conns, HandleHeartbeat(c) \/ EndRead(c) \/ Unregister(c)
      PROVE  WaitingIsPending'
  BY <1>4, QuietFrame DEF WaitingIsPending, callVars
<1>5. ASSUME NEW c \in Conns, FailPending(c) PROVE WaitingIsPending'
  BY <1>5 DEF WaitingIsPending, FailPending, TypeOK
<1>6. ASSUME NEW k \in CallIds, Call(k) PROVE WaitingIsPending'
  <2>1. CASE FindTarget(k)
    BY <2>1 DEF FindTarget, Finish, Goto, WaitingIsPending, TypeOK, InFlight, hubVars
  <2>2. CASE FindConnection(k)
    <3>1. k \in Calls /\ connOf[asked[k]] \in Conns \cup {NoConn}
      BY <2>2 DEF FindConnection, WaitingIsPending, TypeOK
    <3> QED BY <2>2, <3>1 DEF FindConnection, Finish, Goto, WaitingIsPending, TypeOK, InFlight, hubVars
  <2>3. CASE Register(k)
    BY <2>3 DEF Register, Goto, WaitingIsPending, TypeOK, InFlight
  <2>4. CASE EnterGate(k)
    BY <2>4 DEF EnterGate, Goto, WaitingIsPending, TypeOK, InFlight
  <2>5. CASE WriteToolCall(k)
    BY <2>5 DEF WriteToolCall, Goto, WaitingIsPending, TypeOK, InFlight
  <2>6. CASE FailWrite(k)
    BY <2>6 DEF FailWrite, Finish, Goto, WaitingIsPending, TypeOK, InFlight
  <2>7. CASE TimeOut(k)
    BY <2>7 DEF TimeOut, TrySet, WaitingIsPending, TypeOK, InFlight, hubVars
  <2>8. CASE Resume(k)
    BY <2>8 DEF Resume, Finish, Goto, WaitingIsPending, TypeOK, InFlight
  <2> QED BY <1>6, <2>1, <2>2, <2>3, <2>4, <2>5, <2>6, <2>7, <2>8 DEF Call
<1> QED BY <1>1, <1>2, <1>3, <1>4, <1>5, <1>6 DEF Next, Connection

LEMMA LeaksStep ==
    ASSUME TypeOK, HelloComesFirst, ResultsAreReal, WaitingIsPending, NothingLeaks, Next
    PROVE  NothingLeaks'
<1>1. ASSUME NEW c \in Conns, Plugin(c) PROVE NothingLeaks'
  BY <1>1, PluginFrame DEF NothingLeaks, callVars
<1>2. ASSUME NEW c \in Conns, HandleHello(c) PROVE NothingLeaks'
  <2>1. \A d \in Conns : c \notin pending[d] /\ gate[d] # c
    BY <1>2, HelloFrame, CallAssumption DEF NothingLeaks, InFlight
  <2> QED BY <1>2, <2>1, HelloFrame DEF NothingLeaks, TypeOK, InFlight
<1>3. ASSUME NEW c \in Conns, HandleToolResult(c) PROVE NothingLeaks'
  <2>1. \A d \in Conns : pending'[d] \subseteq pending[d]
    <3>1. CASE UNCHANGED <<pending, completion>>
      BY <3>1
    <3>2. CASE ~UNCHANGED <<pending, completion>>
      <4>1. PICK k \in CallIds : pending' = [pending EXCEPT ![c] = @ \ {k}]
        BY <1>3, <3>2, ResultFrame DEF TypeOK
      <4> QED BY <4>1 DEF TypeOK
    <3> QED BY <3>1, <3>2
  <2>2. UNCHANGED <<gate, pc, conn>>
    BY <1>3, ResultFrame
  <2> QED BY <2>1, <2>2 DEF NothingLeaks
<1>4. ASSUME NEW c \in Conns, HandleHeartbeat(c) \/ EndRead(c) \/ Unregister(c) PROVE NothingLeaks'
  BY <1>4, QuietFrame DEF NothingLeaks, callVars
<1>5. ASSUME NEW c \in Conns, FailPending(c) PROVE NothingLeaks'
  BY <1>5 DEF NothingLeaks, FailPending
<1>6. ASSUME NEW k \in CallIds, Call(k) PROVE NothingLeaks'
  <2>1. CASE FindTarget(k)
    <3>1. \A d \in Conns : k \notin pending[d] /\ gate[d] # k
      BY <2>1, CallAssumption DEF FindTarget, NothingLeaks, InFlight
    <3>2. UNCHANGED <<pending, gate, conn>> /\ \A j \in CallIds \ {k} : pc'[j] = pc[j]
      BY <2>1 DEF FindTarget, Finish, Goto, hubVars, TypeOK
    <3>3. \A d \in Conns :
            pending[d] \subseteq CallIds \ {k} /\ (gate[d] # NoCall => gate[d] \in CallIds \ {k})
      BY <3>1 DEF TypeOK
    <3> QED BY <3>2, <3>3 DEF NothingLeaks
  <2>2. CASE FindConnection(k)
    <3>1. \A d \in Conns : k \notin pending[d] /\ gate[d] # k
      BY <2>2, CallAssumption DEF FindConnection, NothingLeaks, InFlight
    <3>2. UNCHANGED <<pending, gate>> /\ \A j \in CallIds \ {k} : pc'[j] = pc[j] /\ conn'[j] = conn[j]
      BY <2>2 DEF FindConnection, Finish, Goto, hubVars, TypeOK
    <3>3. \A d \in Conns :
            pending[d] \subseteq CallIds \ {k} /\ (gate[d] # NoCall => gate[d] \in CallIds \ {k})
      BY <3>1 DEF TypeOK
    <3> QED BY <3>2, <3>3 DEF NothingLeaks
  <2>3. CASE Register(k)
    BY <2>3 DEF Register, Goto, NothingLeaks, TypeOK, InFlight
  <2>4. CASE EnterGate(k)
    BY <2>4, CallAssumption DEF EnterGate, Goto, NothingLeaks, TypeOK, InFlight
  <2>5. CASE WriteToolCall(k)
    BY <2>5 DEF WriteToolCall, Goto, NothingLeaks, TypeOK, InFlight
  <2>6. CASE FailWrite(k)
    BY <2>6 DEF FailWrite, Finish, Goto, NothingLeaks, TypeOK, InFlight
  <2>7. CASE TimeOut(k)
    BY <2>7 DEF TimeOut, NothingLeaks, hubVars
  <2>8. CASE Resume(k)
    BY <2>8 DEF Resume, Finish, Goto, NothingLeaks, TypeOK, InFlight
  <2> QED BY <1>6, <2>1, <2>2, <2>3, <2>4, <2>5, <2>6, <2>7, <2>8 DEF Call
<1> QED BY <1>1, <1>2, <1>3, <1>4, <1>5, <1>6 DEF Next, Connection

LEMMA OrphansStep ==
    ASSUME TypeOK, HelloComesFirst, ResultsAreReal, WaitingIsPending, NoOrphanedCall, Next
    PROVE  NoOrphanedCall'
<1>1. ASSUME NEW c \in Conns, Connect(c) PROVE NoOrphanedCall'
  BY <1>1 DEF NoOrphanedCall, Connect, TypeOK, callVars
<1>2. ASSUME NEW c \in Conns,
             SendHello(c) \/ SendHeartbeat(c) \/ HandleToolCall(c) \/ ClientClose(c) \/ HandleHeartbeat(c)
      PROVE  NoOrphanedCall'
  BY <1>2 DEF NoOrphanedCall, SendHello, SendHeartbeat, HandleToolCall, ClientClose,
     HandleHeartbeat, hubVars, callVars
<1>3. ASSUME NEW c \in Conns, HandleHello(c) PROVE NoOrphanedCall'
  <2>1. /\ UNCHANGED <<phase, completion>>
        /\ pc' = [pc EXCEPT ![c] = "invoking"] /\ conn' = [conn EXCEPT ![c] = c]
    BY <1>3, HelloFrame
  <2>2. \A k \in CallIds : pc'[k] = "awaiting" => pc[k] = "awaiting" /\ conn'[k] = conn[k]
    BY <2>1 DEF TypeOK
  <2> QED BY <2>1, <2>2 DEF NoOrphanedCall
<1>4. ASSUME NEW c \in Conns, HandleToolResult(c) PROVE NoOrphanedCall'
  <2>1. UNCHANGED <<phase, pc, conn>>
    BY <1>4, ResultFrame
  <2>2. \A k \in CallIds : completion[k] # "none" => completion'[k] # "none"
    <3>1. CASE UNCHANGED <<pending, completion>>
      BY <3>1
    <3>2. CASE ~UNCHANGED <<pending, completion>>
      <4>1. PICK k \in CallIds, r \in {"ok", "failed"} :
              completion' = [completion EXCEPT ![k] = IF @ = "none" THEN r ELSE @]
        BY <1>4, <3>2, ResultFrame DEF TypeOK
      <4> QED BY <4>1 DEF TypeOK
    <3> QED BY <3>1, <3>2
  <2> QED BY <2>1, <2>2 DEF NoOrphanedCall
<1>5. ASSUME NEW c \in Conns, EndRead(c) \/ Unregister(c) PROVE NoOrphanedCall'
  <2>1. \A d \in Conns : phase'[d] = "dead" => phase[d] = "dead"
    BY <1>5 DEF EndRead, Unregister, TypeOK
  <2>2. UNCHANGED <<pc, conn, completion>>
    BY <1>5 DEF EndRead, Unregister, callVars
  <2>3. \A k \in CallIds : pc[k] = "awaiting" => conn[k] \in Conns
    BY DEF WaitingIsPending, InFlight
  <2> QED BY <2>1, <2>2, <2>3 DEF NoOrphanedCall
<1>6. ASSUME NEW c \in Conns, FailPending(c) PROVE NoOrphanedCall'
  <2>1. \A k \in CallIds : completion[k] # "none" => completion'[k] # "none"
    BY <1>6 DEF FailPending
  <2>2. \A k \in pending[c] : completion'[k] # "none"
    BY <1>6 DEF FailPending, TypeOK
  <2>3. \A d \in Conns \ {c} : phase'[d] = phase[d]
    BY <1>6 DEF FailPending, TypeOK
  <2>4. UNCHANGED <<pc, conn>>
    BY <1>6 DEF FailPending
  <2>5. \A k \in CallIds : pc[k] = "awaiting" =>
            conn[k] \in Conns /\ (completion[k] = "none" => k \in pending[conn[k]])
    BY DEF WaitingIsPending, InFlight
  <2> QED BY <2>1, <2>2, <2>3, <2>4, <2>5 DEF NoOrphanedCall
<1>7. ASSUME NEW k \in CallIds, Call(k) PROVE NoOrphanedCall'
  <2>1. CASE FindTarget(k)
    BY <2>1 DEF FindTarget, Finish, Goto, NoOrphanedCall, TypeOK, hubVars
  <2>2. CASE FindConnection(k)
    <3>1. \A j \in CallIds : pc'[j] = "awaiting" => pc[j] = "awaiting" /\ conn'[j] = conn[j]
      BY <2>2 DEF FindConnection, Finish, Goto, TypeOK
    <3>2. UNCHANGED <<phase, completion>>
      BY <2>2 DEF FindConnection, hubVars
    <3> QED BY <3>1, <3>2 DEF NoOrphanedCall
  <2>3. CASE Register(k)
    BY <2>3 DEF Register, Goto, NoOrphanedCall, TypeOK
  <2>4. CASE EnterGate(k)
    BY <2>4 DEF EnterGate, Goto, NoOrphanedCall, TypeOK
  <2>5. CASE WriteToolCall(k)
    BY <2>5 DEF WriteToolCall, SocketOpen, Goto, NoOrphanedCall, TypeOK
  <2>6. CASE FailWrite(k)
    BY <2>6 DEF FailWrite, Finish, Goto, NoOrphanedCall, TypeOK
  <2>7. CASE TimeOut(k)
    BY <2>7 DEF TimeOut, TrySet, NoOrphanedCall, TypeOK, hubVars
  <2>8. CASE Resume(k)
    BY <2>8 DEF Resume, Finish, Goto, NoOrphanedCall, TypeOK
  <2> QED BY <1>7, <2>1, <2>2, <2>3, <2>4, <2>5, <2>6, <2>7, <2>8 DEF Call
<1> QED BY <1>1, <1>2, <1>3, <1>4, <1>5, <1>6, <1>7 DEF Next, Plugin, Connection

LEMMA AnswersStep ==
    ASSUME TypeOK, HelloComesFirst, ResultsAreReal, AnswersAreReal, Next
    PROVE  AnswersAreReal'
<1>1. ASSUME NEW c \in Conns, Plugin(c) PROVE AnswersAreReal'
  BY <1>1, PluginFrame DEF AnswersAreReal, callVars
<1>2. ASSUME NEW c \in Conns, HandleHello(c) PROVE AnswersAreReal'
  BY <1>2, HelloFrame DEF AnswersAreReal
<1>3. ASSUME NEW c \in Conns, HandleToolResult(c) PROVE AnswersAreReal'
  <2>1. CASE UNCHANGED <<pending, completion>>
    BY <1>3, <2>1, ResultFrame DEF AnswersAreReal
  <2>2. CASE ~UNCHANGED <<pending, completion>>
    <3>1. PICK k \in executed, r \in {"ok", "failed"} :
            completion' = [completion EXCEPT ![k] = IF @ = "none" THEN r ELSE @]
      BY <1>3, <2>2, ResultFrame
    <3>2. UNCHANGED executed
      BY <1>3, ResultFrame
    <3> QED BY <3>1, <3>2 DEF AnswersAreReal, TypeOK
  <2> QED BY <2>1, <2>2
<1>4. ASSUME NEW c \in Conns, HandleHeartbeat(c) \/ EndRead(c) \/ Unregister(c) PROVE AnswersAreReal'
  BY <1>4, QuietFrame DEF AnswersAreReal, callVars
<1>5. ASSUME NEW c \in Conns, FailPending(c) PROVE AnswersAreReal'
  BY <1>5 DEF AnswersAreReal, FailPending, pluginVars, TypeOK
<1>6. ASSUME NEW k \in CallIds, Call(k) PROVE AnswersAreReal'
  <2>1. CASE TimeOut(k)
    BY <2>1 DEF TimeOut, TrySet, AnswersAreReal, TypeOK, pluginVars
  <2>2. CASE ~TimeOut(k)
    BY <1>6, <2>2 DEF Call, FindTarget, FindConnection, Register, EnterGate, WriteToolCall,
       FailWrite, Resume, AnswersAreReal, pluginVars
  <2> QED BY <2>1, <2>2
<1> QED BY <1>1, <1>2, <1>3, <1>4, <1>5, <1>6 DEF Next, Connection

LEMMA AccountStep ==
    ASSUME TypeOK, HelloComesFirst, ResultsAreReal, WaitingIsPending, CallsAccountedFor, Next
    PROVE  CallsAccountedFor'
<1>1. ASSUME NEW c \in Conns, Plugin(c) PROVE CallsAccountedFor'
  BY <1>1, PluginFrame DEF CallsAccountedFor, callVars
<1>2. ASSUME NEW c \in Conns, HandleHello(c) PROVE CallsAccountedFor'
  <2>1. /\ c \notin Calls /\ pc' = [pc EXCEPT ![c] = "invoking"] /\ UNCHANGED <<active, logged>>
    BY <1>2, HelloFrame
  <2>2. \A k \in Calls : pc'[k] = pc[k]
    BY <2>1 DEF TypeOK, CallIds
  <2> QED BY <2>1, <2>2 DEF CallsAccountedFor
<1>3. ASSUME NEW c \in Conns, HandleToolResult(c) PROVE CallsAccountedFor'
  BY <1>3, ResultFrame DEF CallsAccountedFor
<1>4. ASSUME NEW c \in Conns, HandleHeartbeat(c) \/ EndRead(c) \/ Unregister(c) \/ FailPending(c)
      PROVE  CallsAccountedFor'
  BY <1>4, QuietFrame DEF CallsAccountedFor, FailPending, callVars
<1>5. ASSUME NEW k \in CallIds, Call(k) PROVE CallsAccountedFor'
  <2> USE DEF CallsAccountedFor, InFlight, CallIds
  <2>1. CASE FindTarget(k)
    BY <2>1 DEF FindTarget, Finish, Goto, TypeOK
  <2>2. CASE FindConnection(k)
    BY <2>2 DEF FindConnection, Finish, Goto, TypeOK, WaitingIsPending
  <2>3. CASE Register(k)
    BY <2>3 DEF Register, Goto, TypeOK
  <2>4. CASE EnterGate(k)
    BY <2>4 DEF EnterGate, Goto, TypeOK
  <2>5. CASE WriteToolCall(k)
    BY <2>5 DEF WriteToolCall, Goto, TypeOK
  <2>6. CASE FailWrite(k)
    BY <2>6 DEF FailWrite, Finish, Goto, TypeOK
  <2>7. CASE TimeOut(k)
    BY <2>7 DEF TimeOut
  <2>8. CASE Resume(k)
    BY <2>8 DEF Resume, Finish, Goto, TypeOK
  <2> QED BY <1>5, <2>1, <2>2, <2>3, <2>4, <2>5, <2>6, <2>7, <2>8 DEF Call
<1> QED BY <1>1, <1>2, <1>3, <1>4, <1>5 DEF Next, Connection

-----------------------------------------------------------------------------
LEMMA InvInit == Init => HubInv
<1> SUFFICES ASSUME Init PROVE HubInv
  OBVIOUS
<1>1. TypeOK
  BY TypeInit
<1>2. HelloComesFirst /\ ResultsAreReal /\ RequestsHaveBegun
  BY DEF Init, HelloComesFirst, ResultsAreReal, RequestsHaveBegun, CallIds
<1>3. WaitingIsPending /\ NoOrphanedCall /\ AnswersAreReal
  BY DEF Init, WaitingIsPending, NoOrphanedCall, AnswersAreReal, InFlight
<1>4. NothingLeaks
  BY DEF Init, NothingLeaks
<1>5. CallsAccountedFor
  BY DEF Init, CallsAccountedFor, InFlight, CallIds
<1> QED BY <1>1, <1>2, <1>3, <1>4, <1>5 DEF HubInv

LEMMA InvStep == HubInv /\ [Next]_vars => HubInv'
<1> SUFFICES ASSUME HubInv, [Next]_vars PROVE HubInv'
  OBVIOUS
<1>1. CASE Next
  <2>1. TypeOK'
    BY <1>1, TypePlugin, TypeConnection, TypeCall DEF Next, HubInv
  <2> QED BY <1>1, <2>1, HelloStep, ResultsStep, RequestsStep, WaitingStep, LeaksStep,
             OrphansStep, AnswersStep, AccountStep DEF HubInv
<1>2. CASE UNCHANGED vars
  BY <1>2 DEF vars, pluginVars, hubVars, registryVars, callVars, HubInv, TypeOK, HelloComesFirst,
     ResultsAreReal, RequestsHaveBegun, WaitingIsPending, NothingLeaks, NoOrphanedCall,
     AnswersAreReal, CallsAccountedFor
<1> QED BY <1>1, <1>2

(* The inductive invariant holds in every reachable state.                 *)
THEOREM HubInvariant == Spec => []HubInv
BY InvInit, InvStep, PTL DEF Spec

(* Every reachable state is well typed.                                    *)
THEOREM TypeCorrect == Spec => []TypeOK
<1>1. HubInv => TypeOK
  BY DEF HubInv
<1> QED BY <1>1, HubInvariant, PTL

(* No call is left to its timeout by the disposal of its connection.       *)
THEOREM DisposeFailsAllCalls == Spec => []NoOrphanedCall
<1>1. HubInv => NoOrphanedCall
  BY DEF HubInv
<1> QED BY <1>1, HubInvariant, PTL

(* A call completes with a tool_result only if its own tool has run.       *)
THEOREM AnswersBelong == Spec => []AnswersAreReal
<1>1. HubInv => AnswersAreReal
  BY DEF HubInv
<1> QED BY <1>1, HubInvariant, PTL

(* Neither a pending entry nor the write gate outlives its call.           *)
THEOREM NoLeaks == Spec => []NothingLeaks
<1>1. HubInv => NothingLeaks
  BY DEF HubInv
<1> QED BY <1>1, HubInvariant, PTL

(* Calls are logged once and active while they use a connection.           *)
THEOREM AccountsBalance == Spec => []CallsAccountedFor
<1>1. HubInv => CallsAccountedFor
  BY DEF HubInv
<1> QED BY <1>1, HubInvariant, PTL

-----------------------------------------------------------------------------
(* The disposal of an old connection does not unregister a window that is  *)
(* registered with another connection.                                     *)
THEOREM LiveRegistrations == Spec => LiveRegistrationKept
<1>1. ASSUME HubInv, [Next]_vars, NEW c \in Conns, connOf[InstOf[c]] = c,
             phase[c] = "reading", phase'[c] = "reading"
      PROVE  connOf'[InstOf[c]] # NoConn
  <2> DEFINE i == InstOf[c]
  <2>i. i \in Insts /\ c # NoConn /\ TypeOK
    BY <1>1, ConnectionAssumption DEF HubInv
  <2>u. ASSUME NEW j \in Insts, NEW d \in Conns \cup {NoConn}, UpsertMetadata(j, d)
        PROVE  connOf'[i] # NoConn
    BY <1>1, <2>i, <2>u, ConnectionAssumption DEF UpsertMetadata, TypeOK
  <2>1. CASE UNCHANGED registryVars
    BY <1>1, <2>1, <2>i DEF registryVars
  <2>2. ASSUME NEW d \in Conns, HandleHello(d) \/ HandleHeartbeat(d) PROVE connOf'[i] # NoConn
    <3>1. UpsertMetadata(InstOf[d], d) /\ InstOf[d] \in Insts
      BY <2>2, ConnectionAssumption DEF HandleHello, HandleHeartbeat
    <3> QED BY <2>u, <3>1
  <2>3. ASSUME NEW d \in Conns, Unregister(d) PROVE connOf'[i] # NoConn
    <3>1. d # c
      BY <1>1, <2>3 DEF Unregister
    <3>2. UNCHANGED connOf \/ (Remove(InstOf[d], d) /\ InstOf[d] \in Insts)
      BY <2>3, ConnectionAssumption DEF Unregister, registryVars
    <3> QED BY <1>1, <2>i, <3>1, <3>2 DEF Remove, Owned, TypeOK
  <2>4. ASSUME NEW k \in CallIds, Resume(k) PROVE connOf'[i] # NoConn
    <3>1. conn[k] \in Conns
      BY <1>1, <2>4 DEF HubInv, WaitingIsPending, InFlight, Resume
    <3>2. InstOf[conn[k]] \in Insts
      BY <3>1, ConnectionAssumption
    <3>3. \/ UNCHANGED registryVars
          \/ UpsertMetadata(InstOf[conn[k]], NoConn)
          \/ UpsertMetadata(InstOf[conn[k]], conn[k])
      BY <2>4 DEF Resume
    <3> QED BY <2>1, <2>u, <3>1, <3>2, <3>3
  <2>5. CASE Next
    <3>1. ASSUME NEW d \in Conns, Plugin(d) PROVE UNCHANGED registryVars
      BY <3>1, PluginFrame
    <3>2. ASSUME NEW d \in Conns, HandleToolResult(d) \/ EndRead(d) \/ FailPending(d)
          PROVE  UNCHANGED registryVars
      BY <3>2 DEF HandleToolResult, EndRead, FailPending
    <3>3. ASSUME NEW k \in CallIds, Call(k), ~Resume(k) PROVE UNCHANGED registryVars
      BY <3>3 DEF Call, FindTarget, FindConnection, Register, EnterGate, WriteToolCall, FailWrite,
         TimeOut
    <3> QED BY <2>1, <2>2, <2>3, <2>4, <2>5, <3>1, <3>2, <3>3 DEF Next, Connection
  <2> QED BY <1>1, <2>1, <2>5 DEF vars
<1>2. HubInv /\ [Next]_vars =>
        [\A c \in Conns :
            connOf[InstOf[c]] = c /\ phase[c] = "reading" /\ phase'[c] = "reading"
                => connOf'[InstOf[c]] # NoConn]_vars
  BY <1>1
<1> QED BY <1>2, HubInvariant, PTL DEF Spec, LiveRegistrationKept

-----------------------------------------------------------------------------
(* A step that keeps the visible state of all calls but k.                 *)
LEMMA StatusFrame ==
    ASSUME NEW k \in CallIds,
           \A j \in CallIds \ {k} : pc'[j] = pc[j] /\ outcome'[j] = outcome[j]
    PROVE  CallStatus' = [CallStatus EXCEPT ![k] = CallStatus'[k]]
BY DEF CallStatus

LEMMA StatusUnchanged ==
    ASSUME UNCHANGED <<pc, outcome>> PROVE UNCHANGED CallStatus
BY DEF CallStatus

(* Every step of a call is a start, a refusal, a return or invisible.      *)
LEMMA CallRefines ==
    ASSUME HubInv, NEW k \in CallIds, Call(k)
    PROVE  [Service!Next]_(Service!vars)
<1>t. TypeOK /\ WaitingIsPending /\ AnswersAreReal
  BY DEF HubInv
<1>e. UNCHANGED executed
  BY CallFrame
<1>f. CallStatus' = [CallStatus EXCEPT ![k] = CallStatus'[k]]
  <2>1. \A j \in CallIds \ {k} : pc'[j] = pc[j] /\ outcome'[j] = outcome[j]
    BY <1>t DEF Call, FindTarget, FindConnection, Register, EnterGate, WriteToolCall, FailWrite,
       TimeOut, Resume, Finish, Goto, TypeOK
  <2> QED BY <2>1, StatusFrame
<1>1. CASE CallStatus'[k] = CallStatus[k]
  <2>1. UNCHANGED CallStatus
    BY <1>1, <1>f DEF CallStatus
  <2> QED BY <2>1, <1>e DEF Service!vars
<1>2. CASE CallStatus[k] = "idle" /\ CallStatus'[k] = "running"
  BY <1>2, <1>e, <1>f DEF Service!Next, Service!Start
<1>3. CASE CallStatus[k] = "idle" /\ CallStatus'[k] = "error"
  BY <1>3, <1>e, <1>f DEF Service!Next, Service!Refuse
<1>4. CASE /\ CallStatus[k] = "running"
           /\ CallStatus'[k] = "error" \/ (CallStatus'[k] = "ok" /\ k \in executed)
  <2>1. Service!Return(k)
    BY <1>4, <1>e, <1>f DEF Service!Return
  <2> QED BY <2>1 DEF Service!Next
<1>5. CASE FindTarget(k)
  <2>1. CallStatus[k] = "idle" /\ CallStatus'[k] \in {"running", "error"}
    BY <1>5, <1>t DEF FindTarget, Finish, Goto, CallStatus, TypeOK
  <2> QED BY <2>1, <1>2, <1>3
<1>6. CASE FindConnection(k)
  <2>1. CallStatus[k] = "running" /\ CallStatus'[k] \in {"running", "error"}
    BY <1>6, <1>t DEF FindConnection, Finish, Goto, CallStatus, TypeOK
  <2> QED BY <2>1, <1>1, <1>4
<1>7. CASE Register(k) \/ EnterGate(k) \/ WriteToolCall(k) \/ TimeOut(k)
  <2>1. CallStatus[k] = "running" /\ CallStatus'[k] = "running"
    BY <1>7, <1>t DEF Register, EnterGate, WriteToolCall, TimeOut, Goto, CallStatus, TypeOK
  <2> QED BY <2>1, <1>1
<1>8. CASE FailWrite(k)
  <2>1. CallStatus[k] = "running" /\ CallStatus'[k] = "error"
    BY <1>8, <1>t DEF FailWrite, Finish, Goto, CallStatus, TypeOK
  <2> QED BY <2>1, <1>4
<1>9. CASE Resume(k)
  <2>1. CallStatus[k] = "running" /\ CallStatus'[k] = Answer(k)
    BY <1>9, <1>t DEF Resume, Finish, Goto, CallStatus, TypeOK
  <2>2. Answer(k) = "error" \/ (Answer(k) = "ok" /\ k \in executed)
    BY <1>t DEF Answer, AnswersAreReal
  <2> QED BY <2>1, <2>2, <1>4
<1> QED BY <1>5, <1>6, <1>7, <1>8, <1>9 DEF Call

(* TargetHub implements ToolCalls: a call is refused or started, answered  *)
(* once, and answered with success only if its tool has run.               *)
THEOREM Refinement == Spec => KeepsToolCallPromise
<1>1. Init => Service!Init
  BY DEF Init, Service!Init, CallStatus
<1>2. ASSUME HubInv, [Next]_vars PROVE [Service!Next]_(Service!vars)
  <2>1. CASE UNCHANGED vars
    BY <2>1, StatusUnchanged DEF vars, pluginVars, callVars, Service!vars
  <2>2. ASSUME NEW c \in Conns, HandleToolCall(c) PROVE Service!Next
    <3>1. 1 \in DOMAIN down[c] /\ Head(down[c]) = down[c][1] /\ Head(down[c]) \in CallIds
      BY <1>2, <2>2 DEF HandleToolCall, HubInv, TypeOK
    <3>2. CallStatus[Head(down[c])] # "idle"
      <4>1. pc[Head(down[c])] # "idle" /\ outcome[Head(down[c])] \in Outcomes
        BY <1>2, <3>1 DEF HubInv, RequestsHaveBegun, TypeOK
      <4> QED BY <3>1, <4>1 DEF CallStatus, Outcomes
    <3>3. UNCHANGED CallStatus
      BY <2>2, StatusUnchanged DEF HandleToolCall, callVars
    <3>4. Service!Run(Head(down[c]))
      BY <2>2, <3>2, <3>3 DEF HandleToolCall, Service!Run
    <3> QED BY <3>1, <3>4 DEF Service!Next
  <2>3. ASSUME NEW c \in Conns, Plugin(c), ~HandleToolCall(c) PROVE UNCHANGED Service!vars
    <3>1. UNCHANGED <<pc, outcome, executed>>
      BY <2>3 DEF Plugin, Connect, SendHello, SendHeartbeat, ClientClose, callVars
    <3> QED BY <3>1, StatusUnchanged DEF Service!vars
  <2>4. ASSUME NEW c \in Conns, HandleHello(c) PROVE Service!Next
    <3>1. /\ pc[c] = "idle" /\ c \in CallIds /\ pc' = [pc EXCEPT ![c] = "invoking"]
          /\ UNCHANGED <<executed, outcome>>
      BY <1>2, <2>4, HelloFrame DEF HubInv
    <3>2. CallStatus' = [CallStatus EXCEPT ![c] = "running"] /\ CallStatus[c] = "idle"
      BY <1>2, <3>1 DEF CallStatus, HubInv, TypeOK
    <3> QED BY <3>1, <3>2 DEF Service!Next, Service!Start
  <2>5. ASSUME NEW c \in Conns, Connection(c), ~HandleHello(c) PROVE UNCHANGED Service!vars
    <3>1. UNCHANGED <<pc, outcome, executed>>
      BY <2>5 DEF Connection, HandleHeartbeat, HandleToolResult, EndRead, Unregister, FailPending,
         pluginVars, callVars
    <3> QED BY <3>1, StatusUnchanged DEF Service!vars
  <2>6. ASSUME NEW k \in CallIds, Call(k) PROVE [Service!Next]_(Service!vars)
    BY <1>2, <2>6, CallRefines
  <2> QED BY <1>2, <2>1, <2>2, <2>3, <2>4, <2>5, <2>6 DEF Next
<1> QED BY <1>1, <1>2, HubInvariant, PTL DEF Spec, Service!Spec, KeepsToolCallPromise
============================================================================
