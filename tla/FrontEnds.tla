----------------------------- MODULE FrontEnds -----------------------------
(***************************************************************************)
(* How the messages of agents come to the tools and their answers back:    *)
(* over HTTP (HttpMcpServer), over standard input and output of the center *)
(* (StdioMcpServer), and over those of the bridge, which posts every line  *)
(* to the HTTP server (Bridge/Program.cs).                                 *)
(*                                                                         *)
(* A message is reduced to its shape, on which the handlers branch, a tool *)
(* to whether it answers at once (ida_find_installations stands for those, *)
(* with the locator behind it) or takes its time, up to the 300 seconds of *)
(* ida_launch_file.                                                        *)
(***************************************************************************)
EXTENDS Locator

CONSTANTS
    Clients,    \* agents
    Msgs,       \* their messages, each sent once
    From,       \* the agent that may send a message
    Transports, \* of "http", "stdio" and "bridge", those looked at
    Arguments,  \* arguments idaPath: sequences of at most one path
    NoMsg

ASSUME MessageAssumption ==
    /\ From \in [Msgs -> Clients]
    /\ NoMsg \notin Msgs
    /\ Transports \subseteq {"http", "stdio", "bridge"}
    /\ Arguments \subseteq {<<>>} \cup {<<path>> : path \in Paths}

Shapes ==
    {"request",      \* initialize, ping and the lists
     "find", "slow", \* tools/call, see above
     "unknown",      \* a method that the center does not know
     "notification", \* a method and no id
     "response",     \* the answer of an agent to a request of the center
     "no_method",    \* an id, and neither method nor result
     "batch",        \* a JSON array
     "broken"}       \* not JSON

Tools == {"find", "slow"}
WithId == {"request", "find", "slow", "unknown", "response", "no_method"}
ToAnswer == {"request", "find", "slow", "unknown", "no_method"}

VARIABLES
    via,     \* the transport of an agent
    shape,   \* of a message
    idaPath, \* its argument, for "find"
    lines,   \* lines written to the standard input of a server or bridge
    read,    \* how many of them have been read
    reader,  \* the message its loop is working on
    work,    \* where a message stands
    given,   \* up, on the part of the bridge
    built,   \* the response the center has made
    replies  \* what the agent has got, in order

clientVars == <<via, shape, idaPath>>
serverVars == <<reader, work, given, built>>
vars == <<clientVars, lines, read, serverVars, replies>>

Stages == {"unsent", "line", "posted", "tool", "served", "over"}
Kinds == {"none", "result", "error", "accepted"}
NoResponse == [status |-> 0, id |-> NoMsg, kind |-> "none", found |-> <<>>]

Init ==
    /\ via \in [Clients -> Transports]
    /\ shape \in [Msgs -> Shapes]
    /\ idaPath \in [Msgs -> Arguments]
    /\ \A m \in Msgs : shape[m] # "find" => idaPath[m] = <<>>
    /\ lines = [c \in Clients |-> <<>>]
    /\ read = [c \in Clients |-> 0]
    /\ reader = [c \in Clients |-> NoMsg]
    /\ work = [m \in Msgs |-> "unsent"]
    /\ given = {}
    /\ built = [m \in Msgs |-> NoResponse]
    /\ replies = [c \in Clients |-> <<>>]

Goto(m, stage) == work' = [work EXCEPT ![m] = stage]

-----------------------------------------------------------------------------
(* Agents.                                                                 *)

Post(m) ==
    /\ work[m] = "unsent" /\ via[From[m]] = "http"
    /\ Goto(m, "posted")
    /\ UNCHANGED <<clientVars, lines, read, reader, given, built, replies>>

WriteLine(m) ==
    /\ work[m] = "unsent" /\ via[From[m]] # "http"
    /\ Goto(m, "line")
    /\ lines' = [lines EXCEPT ![From[m]] = Append(@, m)]
    /\ UNCHANGED <<clientVars, read, reader, given, built, replies>>

-----------------------------------------------------------------------------
(* The loops of StdioMcpServer.RunAsync and of the bridge.                 *)

(* Fault: the loop does not await the message before it reads the next.    *)
Ready(c) == TRUE

Idle(c) == reader[c] = NoMsg

(* The next line is read and handed over, or posted.                       *)
ReadLine(c) ==
    /\ Idle(c) /\ read[c] < Len(lines[c])
    /\ read' = [read EXCEPT ![c] = @ + 1]
    /\ reader' = [reader EXCEPT ![c] = lines[c][read[c] + 1]]
    /\ Goto(lines[c][read[c] + 1], "posted")
    /\ UNCHANGED <<clientVars, lines, given, built, replies>>

Reply(m, id, kind, found) ==
    replies' = [replies EXCEPT ![From[m]] =
        Append(@, [to |-> m, id |-> id, kind |-> kind, found |-> found])]

IdOf(m) == IF shape[m] \in WithId THEN m ELSE NoMsg

(* Fault: the exception ends the turn of the loop without a line.          *)
GiveUpSilently(c) ==
    LET m == reader[c] IN
    /\ via[c] = "bridge" /\ m # NoMsg /\ m \notin given
    /\ given' = given \cup {m}
    /\ reader' = [reader EXCEPT ![c] = NoMsg]
    /\ UNCHANGED <<clientVars, lines, read, work, built, replies>>

(* PostAsync throws: after 100 seconds, or because the center is not to be *)
(* reached.  The line says so with the id of the message; what the center  *)
(* has received it goes on with.                                           *)
GiveUp(c) ==
    LET m == reader[c] IN
    /\ via[c] = "bridge" /\ m # NoMsg /\ m \notin given
    /\ Reply(m, IdOf(m), "error", <<>>)
    /\ given' = given \cup {m}
    /\ reader' = [reader EXCEPT ![c] = NoMsg]
    /\ \/ UNCHANGED work
       \/ work[m] = "posted" /\ Goto(m, "over")
    /\ UNCHANGED <<clientVars, lines, read, built>>

-----------------------------------------------------------------------------
(* The center: HandleAsync and DispatchAsync of HttpMcpServer,             *)
(* HandleLineAsync of StdioMcpServer.                                      *)

Response(status, id, kind) == [status |-> status, id |-> id, kind |-> kind, found |-> <<>>]

IsAcceptedWithoutResponse(m) == shape[m] \in {"notification", "response"}

(* What HTTP answers that needs no tool.  A batch has no properties to     *)
(* look up, and JsonElement throws.                                        *)
HttpResponse(m) ==
    CASE shape[m] = "broken" -> Response(400, NoMsg, "error")
      [] IsAcceptedWithoutResponse(m) -> Response(202, NoMsg, "accepted")
      [] shape[m] = "batch" -> Response(500, NoMsg, "error")
      [] shape[m] = "request" -> Response(200, m, "result")
      [] OTHER -> Response(200, m, "error")

(* The same on standard output, where a response of the agent lacks a      *)
(* method and a notification is passed over.                               *)
StdioResponse(m) ==
    CASE shape[m] \in {"broken", "batch"} -> Response(200, NoMsg, "error")
      [] shape[m] = "notification" -> NoResponse
      [] shape[m] = "request" -> Response(200, m, "result")
      [] OTHER -> Response(200, m, "error")

Dispatch(m) ==
    /\ work[m] = "posted" /\ shape[m] \notin Tools
    /\ built' = [built EXCEPT ![m] =
          IF via[From[m]] = "stdio" THEN StdioResponse(m) ELSE HttpResponse(m)]
    /\ Goto(m, "served")
    /\ UNCHANGED <<clientVars, lines, read, reader, given, replies>>

BeginTool(m) ==
    /\ work[m] = "posted" /\ shape[m] \in Tools
    /\ Goto(m, "tool")
    /\ UNCHANGED <<clientVars, lines, read, reader, given, built, replies>>

(* CallAsync turns exceptions of a tool into a result that says so.        *)
EndTool(m) ==
    /\ work[m] = "tool"
    /\ built' = [built EXCEPT ![m] =
          [Response(200, m, "result") EXCEPT
              !.found = IF shape[m] = "find" THEN FindInstallations(idaPath[m]) ELSE <<>>]]
    /\ Goto(m, "served")
    /\ UNCHANGED <<clientVars, lines, read, reader, given, replies>>

-----------------------------------------------------------------------------
(* The answer goes back.                                                   *)

Respond(m) == Reply(m, built[m].id, built[m].kind, built[m].found)

(* WriteJsonAsync, WriteAcceptedAsync.                                     *)
AnswerOverHttp(m) ==
    /\ work[m] = "served" /\ via[From[m]] = "http"
    /\ Respond(m)
    /\ Goto(m, "over")
    /\ UNCHANGED <<clientVars, lines, read, reader, given, built>>

AnswerOnStdout(m) ==
    LET c == From[m] IN
    /\ work[m] = "served" /\ via[c] = "stdio"
    /\ IF built[m].kind = "none" THEN UNCHANGED replies ELSE Respond(m)
    /\ Goto(m, "over")
    /\ reader' = [reader EXCEPT ![c] = NoMsg]
    /\ UNCHANGED <<clientVars, lines, read, given, built>>

(* Fault: what comes late is written as well.                              *)
AnswerAnyTime(m) ==
    LET c == From[m] IN
    /\ work[m] = "served" /\ via[c] = "bridge"
    /\ Respond(m)
    /\ Goto(m, "over")
    /\ reader' = [reader EXCEPT ![c] = IF @ = m THEN NoMsg ELSE @]
    /\ UNCHANGED <<clientVars, lines, read, given, built>>

(* The bridge writes what it got: the error of its own for a status that   *)
(* is not 2xx, an empty line for 202.                                      *)
AnswerOverBridge(m) ==
    LET c == From[m] IN
    /\ work[m] = "served" /\ via[c] = "bridge" /\ m \notin given
    /\ IF built[m].status > 299 THEN Reply(m, IdOf(m), "error", <<>>) ELSE Respond(m)
    /\ Goto(m, "over")
    /\ reader' = [reader EXCEPT ![c] = NoMsg]
    /\ UNCHANGED <<clientVars, lines, read, given, built>>

(* The exchange was given up: writing fails, and nobody sees it.           *)
AnswerNobody(m) ==
    /\ work[m] = "served" /\ m \in given
    /\ Goto(m, "over")
    /\ UNCHANGED <<clientVars, lines, read, reader, given, built, replies>>

-----------------------------------------------------------------------------
Serve(m) ==
    \/ Dispatch(m) \/ BeginTool(m) \/ EndTool(m)
    \/ AnswerOverHttp(m) \/ AnswerOnStdout(m) \/ AnswerOverBridge(m) \/ AnswerNobody(m)

Next ==
    \/ \E m \in Msgs : Post(m) \/ WriteLine(m) \/ Serve(m)
    \/ \E c \in Clients : ReadLine(c) \/ GiveUp(c)

Spec == Init /\ [][Next]_vars

(* The loops go on reading, the center works on what it has received, and  *)
(* every tool has a limit of its own.  No agent has to send anything, and  *)
(* the bridge need not lose its patience.                                  *)
Fairness ==
    /\ \A c \in Clients : WF_vars(ReadLine(c))
    /\ \A m \in Msgs : WF_vars(Serve(m))

FairSpec == Spec /\ Fairness

-----------------------------------------------------------------------------
(* The variables hold values of their types.                               *)
TypeOK ==
    /\ via \in [Clients -> Transports]
    /\ shape \in [Msgs -> Shapes]
    /\ idaPath \in [Msgs -> Arguments]
    /\ lines \in [Clients -> Seq(Msgs)]
    /\ read \in [Clients -> Nat] /\ \A c \in Clients : read[c] <= Len(lines[c])
    /\ reader \in [Clients -> Msgs \cup {NoMsg}]
    /\ work \in [Msgs -> Stages]
    /\ given \subseteq Msgs
    /\ built = [m \in Msgs |-> built[m]] /\ \A m \in Msgs : built[m].kind \in Kinds
    /\ replies = [c \in Clients |-> replies[c]]
    /\ \A c \in Clients : /\ replies[c] \in Seq(ToSet(replies[c]))
                          /\ \A r \in ToSet(replies[c]) : r.to \in Msgs

(* What an agent that speaks JSON-RPC sees of all this: how many answers   *)
(* of each kind bear the id of a message.                                  *)
AnswersOf(m, kind) ==
    {n \in DOMAIN replies[From[m]] : replies[From[m]][n].id = m /\ replies[From[m]][n].kind = kind}

AnswersTo(m) == [kind \in Kinds |-> Cardinality(AnswersOf(m, kind))]

Rpc == INSTANCE JsonRpc WITH
    silent <- {m \in Msgs : shape[m] \in {"notification", "batch", "broken"}},
    sent <- {m \in Msgs : work[m] # "unsent"},
    ended <- {m \in Msgs : built[m].kind # "none"},
    answers <- [m \in Msgs |-> AnswersTo(m)]

(* All three transports keep the promise of JsonRpc: nothing is answered   *)
(* twice, also when the bridge has given up a call and the center then     *)
(* comes with its result, nothing unasked, and no result before its time.  *)
KeepsRpcPromise == Rpc!Spec

(* On standard output the answers come in the order of the lines they      *)
(* answer, whatever time each of them takes and whoever gave up.           *)
AnswersInOrder ==
    \A c \in Clients : via[c] # "http" =>
        \A a, b \in DOMAIN replies[c] : a < b =>
            \E i, j \in DOMAIN lines[c] :
                i < j /\ lines[c][i] = replies[c][a].to /\ lines[c][j] = replies[c][b].to

(* A request is answered in the end, with its id.                          *)
RequestsAnswered ==
    \A m \in Msgs :
        work[m] # "unsent" /\ shape[m] \in ToAnswer ~> AnswersTo(m) # Rpc!NoAnswer

(* ida_find_installations tells every candidate once, those that exist     *)
(* before those that do not, and so ida_launch_file, which takes the first *)
(* that exists, finds one whenever there is one.                           *)
InstallationsListed ==
    \A m \in Msgs : shape[m] = "find" /\ built[m].kind = "result" =>
        LET found == built[m].found
            expected == UNION {ToSet(ResolveExecutableCandidates(path)) :
                            path \in ToSet(idaPath[m] \o Configured \o Platform)}
        IN /\ ToSet(found) = expected /\ Len(found) = Cardinality(expected)
           /\ \A n \in 1..(Len(found) - 1) : Exists(found[n + 1]) => Exists(found[n])
           /\ (ResolveExecutablePath(idaPath[m]) = <<>>) <=> (expected \cap Executables = {})
-----------------------------------------------------------------------------
(* The inductive invariant: a line that has not been read waits, once; the *)
(* message of a loop is the last it has read, and whoever is at work on a  *)
(* message of a line has a loop waiting for it, unless it was given up.    *)
Silent == {"notification", "batch", "broken"}
InWork == {"posted", "tool", "served"}

LinesWait ==
    \A c \in Clients : \A i \in (read[c] + 1)..Len(lines[c]) :
        /\ From[lines[c][i]] = c /\ via[c] # "http" /\ work[lines[c][i]] = "line"
        /\ \A j \in (read[c] + 1)..Len(lines[c]) : lines[c][i] = lines[c][j] => i = j

LoopsAwait ==
    /\ \A c \in Clients : reader[c] # NoMsg =>
          /\ From[reader[c]] = c /\ via[c] # "http" /\ reader[c] \notin given
          /\ work[reader[c]] \in InWork
          /\ read[c] > 0 /\ lines[c][read[c]] = reader[c]
    /\ \A m \in Msgs : work[m] \in InWork /\ via[From[m]] # "http" /\ m \notin given =>
          reader[From[m]] = m
    /\ \A m \in given : via[From[m]] = "bridge" /\ work[m] \in InWork \cup {"over"}

(* Who is not to be answered gets no id, and a result is there when it is  *)
(* told.                                                                   *)
ResponsesFit ==
    \A m \in Msgs :
          /\ work[m] = "tool" => shape[m] \in Tools
          /\ built[m].kind # "none" => work[m] \in {"served", "over"}
          /\ work[m] = "served" /\ via[From[m]] # "stdio" => built[m].kind # "none"
          /\ built[m].id \in {m, NoMsg}
          /\ built[m].id = m => shape[m] \notin Silent /\ built[m].kind \in {"result", "error"}

RepliesFit ==
    \A c \in Clients : \A n \in DOMAIN replies[c] :
        LET r == replies[c][n] IN
        /\ From[r.to] = c /\ r.id \in {r.to, NoMsg}
        /\ r.id = r.to => shape[r.to] \notin Silent /\ r.kind \in {"result", "error"}
        /\ r.kind = "result" => built[r.to].kind # "none"
        /\ work[r.to] = "over" \/ r.to \in given

(* Lines before that of the loop have their answer, if they get one.       *)
Handled(c) == IF reader[c] = NoMsg THEN read[c] ELSE read[c] - 1

RepliesAreOfHandled ==
    \A c \in Clients : via[c] # "http" =>
        \A n \in DOMAIN replies[c] : \E i \in 1..Handled(c) : lines[c][i] = replies[c][n].to

FrontInv ==
    /\ TypeOK /\ LinesWait /\ LoopsAwait /\ ResponsesFit /\ RepliesFit /\ RepliesAreOfHandled
    /\ AnswersInOrder
=============================================================================
