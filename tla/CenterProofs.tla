---------------------------- MODULE CenterProofs ----------------------------
(***************************************************************************)
(* Theorems about three components of the center that share no state.      *)
(* FrontEnds, for any number of clients, messages and installations of     *)
(* IDA: the state of a message, of the line it came in and of the answers  *)
(* fit together, stdin is answered in its order, the front ends keep the   *)
(* promise of JsonRpc, and every installation is listed.  Windows, for any *)
(* number of processes, process ids, plugin clients, files and tool calls. *)
(* Desktop, from the plugin directory and the configuration of an MCP      *)
(* client, for any directories, files, plugins, agents, entries and number *)
(* of seconds.                                                             *)
(***************************************************************************)
EXTENDS FrontEnds, Windows, Desktop, FiniteSetTheorems, SequenceTheorems,
        WellFoundedInduction, TLAPS

-----------------------------------------------------------------------------
(* Appending to a sequence whose elements have no type but their own.      *)
LEMMA AppendFacts ==
    ASSUME NEW s, s \in Seq(ToSet(s)), NEW e
    PROVE  /\ Len(s) \in Nat /\ DOMAIN s = 1..Len(s)
           /\ DOMAIN Append(s, e) = 1..(Len(s) + 1)
           /\ \A n \in 1..Len(s) : Append(s, e)[n] = s[n]
           /\ Append(s, e)[Len(s) + 1] = e
           /\ Append(s, e) \in Seq(ToSet(Append(s, e)))
           /\ ToSet(Append(s, e)) = ToSet(s) \cup {e}
<1> DEFINE S == ToSet(s) \cup {e}
<1>1. s \in Seq(S)
  OBVIOUS
<1> HIDE DEF S
<1>2. e \in S
  BY DEF S
<1>3. /\ Len(s) \in Nat /\ DOMAIN s = 1..Len(s)
      /\ Append(s, e) \in Seq(S)
      /\ DOMAIN Append(s, e) = 1..(Len(s) + 1)
      /\ \A n \in 1..Len(s) : Append(s, e)[n] = s[n]
      /\ Append(s, e)[Len(s) + 1] = e
  BY <1>1, <1>2
<1>4. ToSet(Append(s, e)) = S
  BY <1>3 DEF ToSet, S
<1> QED BY <1>3, <1>4 DEF S

LEMMA InitInv == Init => FrontInv
<1> SUFFICES ASSUME Init PROVE FrontInv
  OBVIOUS
<1>1. TypeOK
  BY MessageAssumption DEF Init, TypeOK, NoResponse, Kinds, Stages, ToSet
<1>2. LinesWait /\ LoopsAwait /\ RepliesFit /\ RepliesAreOfHandled /\ AnswersInOrder
  BY DEF Init, LinesWait, LoopsAwait, RepliesFit, RepliesAreOfHandled, AnswersInOrder, InWork
<1>3. ResponsesFit
  BY MessageAssumption DEF Init, ResponsesFit, NoResponse
<1> QED BY <1>1, <1>2, <1>3 DEF FrontInv

(* What an answer changes.                                                 *)
LEMMA ReplyFacts ==
    ASSUME TypeOK, NEW m \in Msgs, NEW id, NEW kind, NEW found, Reply(m, id, kind, found)
    PROVE  /\ From[m] \in Clients
           /\ Len(replies[From[m]]) \in Nat
           /\ DOMAIN replies[From[m]] = 1..Len(replies[From[m]])
           /\ DOMAIN replies'[From[m]] = 1..(Len(replies[From[m]]) + 1)
           /\ \A n \in 1..Len(replies[From[m]]) : replies'[From[m]][n] = replies[From[m]][n]
           /\ replies'[From[m]][Len(replies[From[m]]) + 1].to = m
           /\ replies'[From[m]][Len(replies[From[m]]) + 1].id = id
           /\ replies'[From[m]][Len(replies[From[m]]) + 1].kind = kind
           /\ \A c \in Clients \ {From[m]} : replies'[c] = replies[c]
           /\ replies' = [c \in Clients |-> replies'[c]]
           /\ \A c \in Clients : /\ replies'[c] \in Seq(ToSet(replies'[c]))
                                 /\ \A r \in ToSet(replies'[c]) : r.to \in Msgs
<1> DEFINE answer == [to |-> m, id |-> id, kind |-> kind, found |-> found]
           c == From[m]
<1>1. c \in Clients
  BY MessageAssumption
<1>2. replies' = [replies EXCEPT ![c] = Append(replies[c], answer)]
  BY DEF Reply
<1>3. answer.to = m /\ answer.id = id /\ answer.kind = kind
  OBVIOUS
<1> HIDE DEF answer, c
<1>4. /\ replies'[c] = Append(replies[c], answer)
      /\ \A d \in Clients \ {c} : replies'[d] = replies[d]
      /\ replies' = [d \in Clients |-> replies'[d]]
  BY <1>1, <1>2 DEF TypeOK
<1>5. /\ replies[c] \in Seq(ToSet(replies[c]))
      /\ \A r \in ToSet(replies[c]) : r.to \in Msgs
  BY <1>1 DEF TypeOK
<1>6. /\ Len(replies[c]) \in Nat /\ DOMAIN replies[c] = 1..Len(replies[c])
      /\ DOMAIN replies'[c] = 1..(Len(replies[c]) + 1)
      /\ \A n \in 1..Len(replies[c]) : replies'[c][n] = replies[c][n]
      /\ replies'[c][Len(replies[c]) + 1] = answer
      /\ replies'[c] \in Seq(ToSet(replies'[c]))
      /\ ToSet(replies'[c]) = ToSet(replies[c]) \cup {answer}
  BY <1>4, <1>5, AppendFacts
<1>7. \A d \in Clients : /\ replies'[d] \in Seq(ToSet(replies'[d]))
                         /\ \A r \in ToSet(replies'[d]) : r.to \in Msgs
  <2> SUFFICES ASSUME NEW d \in Clients
               PROVE  /\ replies'[d] \in Seq(ToSet(replies'[d]))
                      /\ \A r \in ToSet(replies'[d]) : r.to \in Msgs
    OBVIOUS
  <2>1. CASE d = c
    BY <2>1, <1>3, <1>5, <1>6
  <2>2. CASE d # c
    BY <2>2, <1>4 DEF TypeOK
  <2> QED BY <2>1, <2>2
<1> QED BY <1>1, <1>3, <1>4, <1>6, <1>7 DEF c

(* And where the answers stand: the earlier ones stay where they were.     *)
LEMMA ReplyPlaces ==
    ASSUME TypeOK, NEW m \in Msgs, NEW id, NEW kind, NEW found, Reply(m, id, kind, found),
           NEW c \in Clients, NEW n \in DOMAIN replies'[c]
    PROVE  \/ n \in DOMAIN replies[c] /\ replies'[c][n] = replies[c][n]
           \/ /\ c = From[m] /\ n = Len(replies[c]) + 1
              /\ replies'[c][n].to = m /\ replies'[c][n].id = id /\ replies'[c][n].kind = kind
<1>1. CASE c # From[m]
  <2>1. replies'[c] = replies[c]
    BY <1>1, ReplyFacts
  <2> QED BY <2>1
<1>2. CASE c = From[m]
  <2>1. /\ Len(replies[c]) \in Nat /\ DOMAIN replies[c] = 1..Len(replies[c])
        /\ n \in 1..(Len(replies[c]) + 1)
        /\ \A i \in 1..Len(replies[c]) : replies'[c][i] = replies[c][i]
        /\ replies'[c][Len(replies[c]) + 1].to = m
        /\ replies'[c][Len(replies[c]) + 1].id = id
        /\ replies'[c][Len(replies[c]) + 1].kind = kind
    BY <1>2, ReplyFacts
  <2>2. n \in 1..Len(replies[c]) \/ n = Len(replies[c]) + 1
    BY <2>1
  <2> QED BY <1>2, <2>1, <2>2
<1> QED BY <1>1, <1>2

(* What Goto, a line, and the message at an id are.                        *)
LEMMA GotoFacts ==
    ASSUME TypeOK, NEW m \in Msgs, NEW w \in Stages, Goto(m, w)
    PROVE  /\ work' \in [Msgs -> Stages] /\ work'[m] = w
           /\ \A k \in Msgs \ {m} : work'[k] = work[k]
BY DEF TypeOK, Goto

LEMMA LineFacts ==
    ASSUME TypeOK, NEW c \in Clients
    PROVE  /\ lines[c] \in Seq(Msgs) /\ Len(lines[c]) \in Nat /\ read[c] \in Nat
           /\ read[c] <= Len(lines[c])
           /\ \A i \in 1..Len(lines[c]) : lines[c][i] \in Msgs
           /\ DOMAIN lines[c] = 1..Len(lines[c])
BY DEF TypeOK

LEMMA SentFacts == ASSUME NEW m \in Msgs PROVE From[m] \in Clients /\ m # NoMsg
BY MessageAssumption

(* What the center makes of a message.                                     *)
Fits(m, r) ==
    /\ r.kind \in Kinds /\ r.id \in {m, NoMsg}
    /\ r.id = m => shape[m] \notin Silent /\ r.kind \in {"result", "error"}
    /\ via[From[m]] # "stdio" => r.kind # "none"

(* The response to a message carries its id only if the message waits for  *)
(* an answer, and over HTTP there always is one.                           *)
LEMMA ResponseFits ==
    ASSUME TypeOK, NEW m \in Msgs, shape[m] \notin Tools
    PROVE  Fits(m, IF via[From[m]] = "stdio" THEN StdioResponse(m) ELSE HttpResponse(m))
<1>1. m # NoMsg
  BY SentFacts
<1>2. CASE via[From[m]] = "stdio"
  <2>1. StdioResponse(m).kind \in Kinds /\ StdioResponse(m).id \in {m, NoMsg}
    BY DEF StdioResponse, Response, NoResponse, Kinds
  <2>2. StdioResponse(m).id = m =>
            shape[m] \notin Silent /\ StdioResponse(m).kind \in {"result", "error"}
    BY <1>1 DEF StdioResponse, Response, NoResponse, Silent
  <2> QED BY <1>2, <2>1, <2>2 DEF Fits
<1>3. CASE via[From[m]] # "stdio"
  <2>1. HttpResponse(m).kind \in Kinds \ {"none"} /\ HttpResponse(m).id \in {m, NoMsg}
    BY DEF HttpResponse, Response, Kinds, IsAcceptedWithoutResponse
  <2>2. HttpResponse(m).id = m =>
            shape[m] \notin Silent /\ HttpResponse(m).kind \in {"result", "error"}
    BY <1>1 DEF HttpResponse, Response, Silent, IsAcceptedWithoutResponse
  <2> QED BY <1>3, <2>1, <2>2 DEF Fits
<1> QED BY <1>2, <1>3

LEMMA ToolResponseFits ==
    ASSUME TypeOK, NEW m \in Msgs, shape[m] \in Tools, NEW f
    PROVE  Fits(m, [Response(200, m, "result") EXCEPT !.found = f])
<1> DEFINE r == [Response(200, m, "result") EXCEPT !.found = f]
<1>1. r.kind = "result" /\ r.id = m
  BY DEF Response
<1> HIDE DEF r
<1>2. shape[m] \notin Silent
  BY DEF Tools, Silent
<1>3. Fits(m, r)
  BY <1>1, <1>2 DEF Fits, Kinds
<1> QED BY <1>3 DEF r

(* The two actions that make a response.                                   *)
LEMMA ServeFacts ==
    ASSUME TypeOK, ResponsesFit, NEW m \in Msgs, Dispatch(m) \/ EndTool(m)
    PROVE  /\ built' = [k \in Msgs |-> built'[k]] /\ Fits(m, built'[m])
           /\ \A k \in Msgs \ {m} : built'[k] = built[k]
           /\ work[m] \in {"posted", "tool"} /\ Goto(m, "served")
           /\ UNCHANGED <<clientVars, lines, read, reader, given, replies>>
<1>1. ASSUME NEW r, built' = [built EXCEPT ![m] = r]
      PROVE  /\ built' = [k \in Msgs |-> built'[k]] /\ built'[m] = r
             /\ \A k \in Msgs \ {m} : built'[k] = built[k]
  BY <1>1 DEF TypeOK
<1>2. CASE Dispatch(m)
  <2> DEFINE r == IF via[From[m]] = "stdio" THEN StdioResponse(m) ELSE HttpResponse(m)
  <2>1. Fits(m, r)
    BY <1>2, ResponseFits DEF Dispatch
  <2>2. built' = [built EXCEPT ![m] = r]
    BY <1>2 DEF Dispatch
  <2> HIDE DEF r
  <2> QED BY <1>1, <1>2, <2>1, <2>2 DEF Dispatch
<1>3. CASE EndTool(m)
  <2> DEFINE found == IF shape[m] = "find" THEN FindInstallations(idaPath[m]) ELSE <<>>
             r == [Response(200, m, "result") EXCEPT !.found = found]
  <2>1. shape[m] \in Tools
    BY <1>3 DEF EndTool, ResponsesFit
  <2> HIDE DEF found
  <2>2. Fits(m, r)
    BY <2>1, ToolResponseFits
  <2>3. built' = [built EXCEPT ![m] = r]
    BY <1>3 DEF EndTool, found
  <2> HIDE DEF r
  <2>4. /\ built' = [k \in Msgs |-> built'[k]] /\ built'[m] = r
        /\ \A k \in Msgs \ {m} : built'[k] = built[k]
    BY <1>1, <2>3, Zenon
  <2>5. /\ work[m] \in {"posted", "tool"} /\ Goto(m, "served")
        /\ UNCHANGED <<clientVars, lines, read, reader, given, replies>>
    BY <1>3 DEF EndTool
  <2> QED BY <2>2, <2>4, <2>5, Zenon
<1> QED BY <1>2, <1>3

(* An answer that is told.                                                 *)
Told(m, id, kind) ==
    /\ id \in {m, NoMsg}
    /\ id = m => shape[m] \notin Silent /\ kind \in {"result", "error"}
    /\ kind = "result" => built[m].kind # "none"

(* What is told about a message that could not be served.                  *)
LEMMA IdFits == ASSUME TypeOK, NEW m \in Msgs PROVE Told(m, IdOf(m), "error")
BY SentFacts DEF Told, IdOf, WithId, Silent

LEMMA BuiltFits == ASSUME ResponsesFit, NEW m \in Msgs PROVE Told(m, built[m].id, built[m].kind)
BY SentFacts DEF Told, ResponsesFit

(* Who answers: the message is in hand, and not given up, or is given up.  *)
Answers(m) ==
    /\ work[m] \in InWork /\ m \notin given
    /\ \/ work'[m] = "over" /\ UNCHANGED given
       \/ /\ work'[m] \in {work[m], "over"} /\ given' = given \cup {m}
          /\ via[From[m]] = "bridge"
    /\ \E id, kind, found : Told(m, id, kind) /\ Reply(m, id, kind, found)
    /\ UNCHANGED <<clientVars, lines, read, built>>
    /\ work' \in [Msgs -> Stages] /\ \A k \in Msgs \ {m} : work'[k] = work[k]
    /\ via[From[m]] # "http" =>
          /\ reader[From[m]] = m
          /\ reader' = [reader EXCEPT ![From[m]] = NoMsg]
    /\ via[From[m]] = "http" => UNCHANGED reader

(* Every way an answer leaves the process, once it is decided.             *)
LEMMA HttpAnswers == ASSUME FrontInv, NEW m \in Msgs, AnswerOverHttp(m) PROVE Answers(m)
<1>1. work' \in [Msgs -> Stages] /\ work'[m] = "over" /\ \A k \in Msgs \ {m} : work'[k] = work[k]
  BY GotoFacts DEF AnswerOverHttp, FrontInv, Stages
<1>2. Told(m, built[m].id, built[m].kind)
  BY BuiltFits DEF FrontInv
<1>3. m \notin given
  BY DEF AnswerOverHttp, FrontInv, LoopsAwait
<1> QED BY <1>1, <1>2, <1>3 DEF AnswerOverHttp, Answers, Respond, InWork

LEMMA StdoutAnswers ==
    ASSUME FrontInv, NEW m \in Msgs, AnswerOnStdout(m), built[m].kind # "none" PROVE Answers(m)
<1>1. work' \in [Msgs -> Stages] /\ work'[m] = "over" /\ \A k \in Msgs \ {m} : work'[k] = work[k]
  BY GotoFacts DEF AnswerOnStdout, FrontInv, Stages
<1>2. Told(m, built[m].id, built[m].kind)
  BY BuiltFits DEF FrontInv
<1>3. m \notin given /\ reader[From[m]] = m
  BY DEF AnswerOnStdout, FrontInv, LoopsAwait, InWork
<1> QED BY <1>1, <1>2, <1>3 DEF AnswerOnStdout, Answers, Respond, InWork

LEMMA BridgeAnswers == ASSUME FrontInv, NEW m \in Msgs, AnswerOverBridge(m) PROVE Answers(m)
<1>1. work' \in [Msgs -> Stages] /\ work'[m] = "over" /\ \A k \in Msgs \ {m} : work'[k] = work[k]
  BY GotoFacts DEF AnswerOverBridge, FrontInv, Stages
<1>2. Told(m, built[m].id, built[m].kind) /\ Told(m, IdOf(m), "error")
  BY BuiltFits, IdFits DEF FrontInv
<1>3. reader[From[m]] = m
  BY DEF AnswerOverBridge, FrontInv, LoopsAwait, InWork
<1>4. \E id, kind, found : Told(m, id, kind) /\ Reply(m, id, kind, found)
  BY <1>2 DEF AnswerOverBridge, Respond
<1> QED BY <1>1, <1>3, <1>4 DEF AnswerOverBridge, Answers, InWork

LEMMA GiveUpAnswers ==
    ASSUME FrontInv, NEW c \in Clients, GiveUp(c) PROVE reader[c] \in Msgs /\ Answers(reader[c])
<1> DEFINE m == reader[c]
<1>1. m \in Msgs /\ From[m] = c /\ m \notin given /\ work[m] \in InWork
  BY DEF GiveUp, FrontInv, LoopsAwait, TypeOK
<1>2. /\ work' \in [Msgs -> Stages] /\ \A k \in Msgs \ {m} : work'[k] = work[k]
      /\ work'[m] \in {work[m], "over"}
  <2>1. CASE UNCHANGED work
    BY <1>1, <2>1 DEF FrontInv, TypeOK
  <2>2. CASE Goto(m, "over")
    BY <1>1, <2>2, GotoFacts DEF FrontInv, Stages
  <2> QED BY <2>1, <2>2 DEF GiveUp
<1>3. \E id, kind, found : Told(m, id, kind) /\ Reply(m, id, kind, found)
  BY <1>1, IdFits DEF GiveUp, FrontInv
<1>4. given' = given \cup {m} /\ UNCHANGED <<clientVars, lines, read, built>> /\ via[c] = "bridge"
      /\ reader' = [reader EXCEPT ![c] = NoMsg]
  BY DEF GiveUp
<1> HIDE DEF m
<1>5. Answers(m)
  BY <1>1, <1>2, <1>3, <1>4 DEF Answers, m
<1> QED BY <1>1, <1>5 DEF m

Passes(m) == AnswerOnStdout(m) /\ built[m].kind = "none"

(* Every step is one of these.                                             *)
LEMMA Steps ==
    ASSUME FrontInv, [Next]_vars
    PROVE  \/ \E m \in Msgs : \/ Post(m) \/ WriteLine(m) \/ BeginTool(m) \/ AnswerNobody(m)
                              \/ Dispatch(m) \/ EndTool(m) \/ Passes(m) \/ Answers(m)
           \/ \E c \in Clients : ReadLine(c)
           \/ UNCHANGED vars
BY HttpAnswers, StdoutAnswers, BridgeAnswers, GiveUpAnswers DEF Next, Serve, Passes

LEMMA TypeNext == ASSUME FrontInv, [Next]_vars PROVE TypeOK'
<1>1. TypeOK
  BY DEF FrontInv
<1>2. ASSUME NEW m \in Msgs, Answers(m) PROVE TypeOK'
  <2>1. reader' \in [Clients -> Msgs \cup {NoMsg}]
    BY <1>1, <1>2 DEF Answers, TypeOK
  <2>2. given' \subseteq Msgs
    BY <1>1, <1>2 DEF Answers, TypeOK
  <2>3. /\ replies' = [c \in Clients |-> replies'[c]]
        /\ \A c \in Clients : /\ replies'[c] \in Seq(ToSet(replies'[c]))
                              /\ \A r \in ToSet(replies'[c]) : r.to \in Msgs
    BY <1>1, <1>2, ReplyFacts DEF Answers
  <2> QED BY <1>1, <1>2, <2>1, <2>2, <2>3 DEF Answers, TypeOK, clientVars
<1>3. ASSUME NEW m \in Msgs, Dispatch(m) \/ EndTool(m) PROVE TypeOK'
  <2>1. \A k \in Msgs : built'[k].kind \in Kinds
    BY <1>1, <1>3, ServeFacts DEF Fits, TypeOK, FrontInv
  <2>2. /\ built' = [k \in Msgs |-> built'[k]] /\ Goto(m, "served")
        /\ UNCHANGED <<clientVars, lines, read, reader, given, replies>>
    BY <1>1, <1>3, ServeFacts DEF FrontInv
  <2>3. work' \in [Msgs -> Stages]
    BY <1>1, <2>2, GotoFacts DEF Stages
  <2> QED BY <1>1, <2>1, <2>2, <2>3 DEF TypeOK, clientVars
<1>4. ASSUME NEW m \in Msgs, WriteLine(m) PROVE TypeOK'
  <2>1. lines' \in [Clients -> Seq(Msgs)]
    BY <1>1, <1>4, SentFacts DEF WriteLine, TypeOK
  <2>2. \A c \in Clients : read[c] <= Len(lines'[c])
    BY <1>1, <1>4, SentFacts DEF WriteLine, TypeOK
  <2>3. work' \in [Msgs -> Stages]
    BY <1>1, <1>4, GotoFacts DEF WriteLine, Stages
  <2> QED BY <1>1, <1>4, <2>1, <2>2, <2>3 DEF WriteLine, TypeOK, clientVars
<1>5. ASSUME NEW c \in Clients, ReadLine(c) PROVE TypeOK'
  <2>1. lines[c][read[c] + 1] \in Msgs
    BY <1>1, <1>5, LineFacts DEF ReadLine
  <2>2. work' \in [Msgs -> Stages]
    BY <1>1, <1>5, <2>1, GotoFacts DEF ReadLine, Stages
  <2>3. read' \in [Clients -> Nat] /\ \A d \in Clients : read'[d] <= Len(lines[d])
    BY <1>1, <1>5, LineFacts DEF ReadLine, TypeOK
  <2>4. reader' \in [Clients -> Msgs \cup {NoMsg}]
    BY <1>1, <1>5, <2>1 DEF ReadLine, TypeOK
  <2> QED BY <1>1, <1>5, <2>2, <2>3, <2>4 DEF ReadLine, TypeOK, clientVars
<1>6. ASSUME NEW m \in Msgs, Post(m) \/ BeginTool(m) \/ AnswerNobody(m) PROVE TypeOK'
  <2>1. work' \in [Msgs -> Stages]
    BY <1>1, <1>6, GotoFacts DEF Post, BeginTool, AnswerNobody, Stages
  <2> QED BY <1>1, <1>6, <2>1 DEF Post, BeginTool, AnswerNobody, TypeOK, clientVars
<1>7. ASSUME NEW m \in Msgs, Passes(m) PROVE TypeOK'
  <2>1. work' \in [Msgs -> Stages]
    BY <1>1, <1>7, GotoFacts DEF Passes, AnswerOnStdout, Stages
  <2>2. reader' \in [Clients -> Msgs \cup {NoMsg}]
    BY <1>1, <1>7 DEF Passes, AnswerOnStdout, TypeOK
  <2> QED BY <1>1, <1>7, <2>1, <2>2 DEF Passes, AnswerOnStdout, TypeOK, clientVars
<1>8. CASE UNCHANGED vars
  BY <1>1, <1>8 DEF vars, clientVars, serverVars, TypeOK
<1> QED BY <1>2, <1>3, <1>4, <1>5, <1>6, <1>7, <1>8, Steps

(* A step that moves one message on, and nothing else on the way in.       *)
LEMMA LinesKeep ==
    ASSUME FrontInv, UNCHANGED <<via, lines, read>>, NEW m \in Msgs, work[m] # "line",
           \A k \in Msgs \ {m} : work'[k] = work[k]
    PROVE  LinesWait'
BY LineFacts DEF FrontInv, LinesWait

(* Each part of the invariant is kept by every step.                       *)
LEMMA LinesNext == ASSUME FrontInv, [Next]_vars PROVE LinesWait'
<1>1. TypeOK
  BY DEF FrontInv
<1>2. ASSUME NEW m \in Msgs, Answers(m) PROVE LinesWait'
  BY <1>2, LinesKeep DEF Answers, InWork, clientVars
<1>3. ASSUME NEW m \in Msgs, Dispatch(m) \/ EndTool(m) PROVE LinesWait'
  <2>1. work[m] # "line" /\ Goto(m, "served") /\ UNCHANGED <<clientVars, lines, read>>
    BY <1>1, <1>3, ServeFacts DEF FrontInv
  <2>2. \A k \in Msgs \ {m} : work'[k] = work[k]
    BY <1>1, <2>1, GotoFacts DEF Stages
  <2> QED BY <2>1, <2>2, LinesKeep DEF clientVars
<1>4. ASSUME NEW m \in Msgs, Post(m) \/ BeginTool(m) \/ AnswerNobody(m) \/ Passes(m)
      PROVE  LinesWait'
  <2>1. \A k \in Msgs \ {m} : work'[k] = work[k]
    BY <1>1, <1>4, GotoFacts DEF Post, BeginTool, AnswerNobody, Passes, AnswerOnStdout, Stages
  <2> QED BY <1>4, <2>1, LinesKeep
          DEF Post, BeginTool, AnswerNobody, Passes, AnswerOnStdout, clientVars
<1>5. ASSUME NEW m \in Msgs, WriteLine(m) PROVE LinesWait'
  <2> DEFINE d == From[m]
  <2>1. d \in Clients /\ work[m] = "unsent" /\ via[d] # "http" /\ UNCHANGED <<via, read>>
    BY <1>5, SentFacts DEF WriteLine, clientVars
  <2>2. work'[m] = "line" /\ \A k \in Msgs \ {m} : work'[k] = work[k]
    BY <1>1, <1>5, GotoFacts DEF WriteLine, Stages
  <2>3. \A c \in Clients \ {d} : lines'[c] = lines[c]
    BY <1>1, <1>5 DEF WriteLine, TypeOK
  <2>4. lines'[d] = Append(lines[d], m)
    BY <1>1, <1>5, <2>1 DEF WriteLine, TypeOK
  <2>5. /\ Len(lines'[d]) = Len(lines[d]) + 1 /\ lines'[d][Len(lines[d]) + 1] = m
        /\ \A i \in 1..Len(lines[d]) : lines'[d][i] = lines[d][i]
    BY <1>1, <2>1, <2>4, LineFacts
  <2> SUFFICES ASSUME NEW c \in Clients, NEW i \in (read[c] + 1)..Len(lines'[c])
               PROVE  /\ From[lines'[c][i]] = c /\ via[c] # "http" /\ work'[lines'[c][i]] = "line"
                      /\ \A j \in (read[c] + 1)..Len(lines'[c]) :
                            lines'[c][i] = lines'[c][j] => i = j
    BY <2>1 DEF LinesWait
  <2>6. CASE c # d
    <3>1. lines'[c] = lines[c] /\ i \in (read[c] + 1)..Len(lines[c])
      BY <2>3, <2>6
    <3>2. i \in 1..Len(lines[c]) /\ lines[c][i] \in Msgs
      BY <1>1, <3>1, LineFacts
    <3>3. /\ From[lines[c][i]] = c /\ via[c] # "http" /\ work[lines[c][i]] = "line"
          /\ \A j \in (read[c] + 1)..Len(lines[c]) : lines[c][i] = lines[c][j] => i = j
      BY <3>1 DEF FrontInv, LinesWait
    <3>4. work'[lines[c][i]] = "line"
      BY <2>1, <2>2, <3>2, <3>3
    <3> QED BY <3>1, <3>3, <3>4, Zenon
  <2>7. CASE c = d
    <3>1. \A j \in (read[d] + 1)..Len(lines[d]) :
            work[lines[d][j]] = "line" /\ From[lines[d][j]] = d /\ lines[d][j] # m
                                       /\ lines[d][j] \in Msgs
      BY <1>1, <2>1, LineFacts DEF FrontInv, LinesWait
    <3>2. \A j, k \in (read[d] + 1)..Len(lines[d]) : lines[d][j] = lines[d][k] => j = k
      BY <2>1 DEF FrontInv, LinesWait
    <3>3. read[d] \in Nat /\ Len(lines[d]) \in Nat
      BY <1>1, <2>1, LineFacts
    <3> HIDE DEF d
    <3>4. \A j \in (read[d] + 1)..(Len(lines[d]) + 1) :
            \/ j = Len(lines[d]) + 1 /\ lines'[d][j] = m
            \/ j \in (read[d] + 1)..Len(lines[d]) /\ lines'[d][j] = lines[d][j]
      BY <2>5, <3>3
    <3>5. i \in (read[d] + 1)..(Len(lines[d]) + 1)
      BY <2>5, <2>7
    <3>6. From[lines'[d][i]] = d /\ work'[lines'[d][i]] = "line"
      <4>1. From[m] = d
        BY DEF d
      <4> QED BY <2>2, <3>1, <3>4, <3>5, <4>1
    <3>7. \A j \in (read[d] + 1)..(Len(lines[d]) + 1) : lines'[d][i] = lines'[d][j] => i = j
      BY <3>1, <3>2, <3>4, <3>5
    <3> QED BY <2>1, <2>5, <2>7, <3>6, <3>7
  <2> QED BY <2>6, <2>7
<1>6. ASSUME NEW d \in Clients, ReadLine(d) PROVE LinesWait'
  <2> DEFINE m == lines[d][read[d] + 1]
  <2>1. read[d] \in Nat /\ Len(lines[d]) \in Nat /\ read[d] < Len(lines[d]) /\ m \in Msgs
    BY <1>1, <1>6, LineFacts DEF ReadLine
  <2>2. \A k \in Msgs \ {m} : work'[k] = work[k]
    BY <1>1, <1>6, <2>1, GotoFacts DEF ReadLine, Stages
  <2>3. /\ read'[d] = read[d] + 1 /\ \A c \in Clients \ {d} : read'[c] = read[c]
        /\ UNCHANGED <<via, lines>>
    BY <1>1, <1>6 DEF ReadLine, TypeOK, clientVars
  <2>4. From[m] = d
    BY <2>1 DEF FrontInv, LinesWait
  <2> SUFFICES ASSUME NEW c \in Clients, NEW i \in (read'[c] + 1)..Len(lines[c])
               PROVE  /\ From[lines[c][i]] = c /\ via[c] # "http" /\ work'[lines[c][i]] = "line"
                      /\ \A j \in (read'[c] + 1)..Len(lines[c]) :
                            lines[c][i] = lines[c][j] => i = j
    BY <2>3 DEF LinesWait
  <2>5. read[c] \in Nat /\ Len(lines[c]) \in Nat /\ i \in (read[c] + 1)..Len(lines[c])
    BY <1>1, <2>3, LineFacts
  <2>6. /\ From[lines[c][i]] = c /\ via[c] # "http" /\ work[lines[c][i]] = "line"
        /\ \A j \in (read[c] + 1)..Len(lines[c]) : lines[c][i] = lines[c][j] => i = j
    BY <2>5 DEF FrontInv, LinesWait
  <2>7. lines[c][i] \in Msgs
    BY <1>1, <2>5, LineFacts
  <2>8. lines[c][i] # m
    <3>1. CASE c = d
      <4>1. i # read[c] + 1 /\ read[c] + 1 \in (read[c] + 1)..Len(lines[c])
        BY <2>1, <2>3, <2>5, <3>1
      <4>2. lines[c][i] # lines[c][read[c] + 1]
        BY <2>6, <4>1
      <4> QED BY <3>1, <4>2
    <3>2. CASE c # d
      BY <2>4, <2>6, <3>2
    <3> QED BY <3>1, <3>2
  <2>9. \A j \in (read'[c] + 1)..Len(lines[c]) : j \in (read[c] + 1)..Len(lines[c])
    BY <1>1, <2>3, <2>5, LineFacts
  <2> QED BY <2>2, <2>6, <2>7, <2>8, <2>9
<1>7. CASE UNCHANGED vars
  BY <1>7 DEF vars, clientVars, serverVars, FrontInv, LinesWait
<1> QED BY <1>2, <1>3, <1>4, <1>5, <1>6, <1>7, Steps

LEMMA AwaitNext == ASSUME FrontInv, [Next]_vars PROVE LoopsAwait'
<1>1. TypeOK /\ LoopsAwait
  BY DEF FrontInv
<1>2. ASSUME NEW m \in Msgs, Answers(m) PROVE LoopsAwait'
  <2>1. /\ m \notin given /\ From[m] \in Clients
        /\ via' = via /\ lines' = lines /\ read' = read
        /\ \A k \in Msgs \ {m} : work'[k] = work[k]
    BY <1>2, SentFacts DEF Answers, clientVars
  <2>2. \A c \in Clients : reader'[c] # NoMsg =>
          reader'[c] = reader[c] /\ reader[c] # m /\ reader[c] \in Msgs
    BY <1>1, <1>2, <2>1 DEF Answers, LoopsAwait, TypeOK
  <2>3. \A c \in Clients : reader'[c] # NoMsg => reader[c] \notin given'
    BY <1>1, <1>2, <2>1, <2>2 DEF Answers, LoopsAwait
  <2>4. \A k \in Msgs : work'[k] \in InWork /\ via[From[k]] # "http" /\ k \notin given' =>
          reader'[From[k]] = k
    <3> SUFFICES ASSUME NEW k \in Msgs, work'[k] \in InWork, via[From[k]] # "http", k \notin given'
                 PROVE  reader'[From[k]] = k
      OBVIOUS
    <3>1. k # m
      BY <1>2 DEF Answers, InWork
    <3>2. k \notin given /\ work[k] \in InWork
      BY <1>2, <2>1, <3>1 DEF Answers
    <3>3. reader[From[k]] = k
      BY <1>1, <3>2 DEF LoopsAwait
    <3>4. From[k] # From[m] \/ via[From[m]] = "http"
      BY <1>2, <3>1, <3>3 DEF Answers
    <3> QED BY <1>1, <1>2, <3>3, <3>4, SentFacts DEF Answers, TypeOK
  <2>5. \A k \in given' : via[From[k]] = "bridge" /\ work'[k] \in InWork \cup {"over"}
    <3>1. \A k \in given : /\ via[From[k]] = "bridge" /\ work'[k] \in InWork \cup {"over"}
                           /\ k \in Msgs
      <4>1. given \subseteq Msgs
        BY <1>1 DEF TypeOK
      <4>2. \A k \in given : via[From[k]] = "bridge" /\ work[k] \in InWork \cup {"over"}
        BY <1>1 DEF LoopsAwait
      <4> QED BY <2>1, <4>1, <4>2
    <3>2. work'[m] \in InWork \cup {"over"}
      BY <1>2 DEF Answers
    <3>3. given' = given \/ (given' = given \cup {m} /\ via[From[m]] = "bridge")
      BY <1>2 DEF Answers
    <3> QED BY <3>1, <3>2, <3>3
  <2> QED BY <1>1, <2>1, <2>2, <2>3, <2>4, <2>5 DEF LoopsAwait
<1>3. ASSUME NEW m \in Msgs, NEW w \in InWork, Goto(m, w), work[m] \in InWork,
             UNCHANGED <<via, lines, read, reader, given>>
      PROVE  LoopsAwait'
  <2>1. work'[m] = w /\ \A k \in Msgs \ {m} : work'[k] = work[k]
    BY <1>1, <1>3, GotoFacts DEF InWork, Stages
  <2>2. \A k \in Msgs : work'[k] \in InWork <=> work[k] \in InWork
    BY <1>3, <2>1
  <2>3. \A k \in Msgs : work'[k] \in InWork \cup {"over"} <=> work[k] \in InWork \cup {"over"}
    BY <1>3, <2>1
  <2>4. given \subseteq Msgs /\ \A c \in Clients : reader[c] # NoMsg => reader[c] \in Msgs
    BY <1>1 DEF TypeOK
  <2> QED BY <1>1, <1>3, <2>2, <2>3, <2>4 DEF LoopsAwait
<1>4. ASSUME NEW m \in Msgs, Dispatch(m) \/ EndTool(m) PROVE LoopsAwait'
  BY <1>1, <1>3, <1>4, ServeFacts DEF FrontInv, InWork, clientVars
<1>5. ASSUME NEW m \in Msgs, BeginTool(m) PROVE LoopsAwait'
  BY <1>3, <1>5 DEF BeginTool, InWork, clientVars
<1>6. ASSUME NEW m \in Msgs, Post(m) PROVE LoopsAwait'
  <2>1. work'[m] = "posted" /\ \A k \in Msgs \ {m} : work'[k] = work[k]
    BY <1>1, <1>6, GotoFacts DEF Post, Stages
  <2>2. /\ via[From[m]] = "http" /\ work[m] = "unsent"
        /\ UNCHANGED <<via, lines, read, reader, given>>
    BY <1>6 DEF Post, clientVars
  <2>3. given \subseteq Msgs /\ \A c \in Clients : reader[c] # NoMsg => reader[c] \in Msgs
    BY <1>1 DEF TypeOK
  <2> QED BY <1>1, <2>1, <2>2, <2>3 DEF LoopsAwait, InWork
<1>7. ASSUME NEW m \in Msgs, WriteLine(m) PROVE LoopsAwait'
  <2>1. work'[m] = "line" /\ \A k \in Msgs \ {m} : work'[k] = work[k]
    BY <1>1, <1>7, GotoFacts DEF WriteLine, Stages
  <2>2. work[m] = "unsent" /\ UNCHANGED <<via, read, reader, given>>
    BY <1>7 DEF WriteLine, clientVars
  <2>3. given \subseteq Msgs /\ \A c \in Clients : reader[c] # NoMsg => reader[c] \in Msgs
    BY <1>1 DEF TypeOK
  <2>4. \A c \in Clients : \A i \in 1..Len(lines[c]) : lines'[c][i] = lines[c][i]
    BY <1>1, <1>7, SentFacts DEF WriteLine, TypeOK
  <2>5. \A c \in Clients : read[c] > 0 => read[c] \in 1..Len(lines[c])
    BY <1>1, LineFacts
  <2> QED BY <1>1, <2>1, <2>2, <2>3, <2>4, <2>5 DEF LoopsAwait, InWork
<1>8. ASSUME NEW m \in Msgs, AnswerNobody(m) PROVE LoopsAwait'
  <2>1. work'[m] = "over" /\ \A k \in Msgs \ {m} : work'[k] = work[k]
    BY <1>1, <1>8, GotoFacts DEF AnswerNobody, Stages
  <2>2. work[m] = "served" /\ m \in given /\ UNCHANGED <<via, lines, read, reader, given>>
    BY <1>8 DEF AnswerNobody, clientVars
  <2>3. given \subseteq Msgs /\ \A c \in Clients : reader[c] # NoMsg => reader[c] \in Msgs
    BY <1>1 DEF TypeOK
  <2> QED BY <1>1, <2>1, <2>2, <2>3 DEF LoopsAwait, InWork
<1>9. ASSUME NEW m \in Msgs, Passes(m) PROVE LoopsAwait'
  <2> DEFINE d == From[m]
  <2>1. work'[m] = "over" /\ \A k \in Msgs \ {m} : work'[k] = work[k]
    BY <1>1, <1>9, GotoFacts DEF Passes, AnswerOnStdout, Stages
  <2>2. /\ work[m] = "served" /\ via[d] = "stdio" /\ d \in Clients
        /\ UNCHANGED <<via, lines, read, given>>
    BY <1>9, SentFacts DEF Passes, AnswerOnStdout, clientVars
  <2>3. reader[d] = m
    BY <1>1, <2>2 DEF LoopsAwait, InWork
  <2>4. reader'[d] = NoMsg /\ \A c \in Clients \ {d} : reader'[c] = reader[c]
    BY <1>1, <1>9, <2>2 DEF Passes, AnswerOnStdout, TypeOK
  <2>5. given \subseteq Msgs /\ \A c \in Clients : reader[c] # NoMsg => reader[c] \in Msgs
    BY <1>1 DEF TypeOK
  <2>6. \A k \in Msgs \ {m} : From[k] = d /\ k \notin given => work[k] \notin InWork
    BY <1>1, <2>2, <2>3 DEF LoopsAwait
  <2>7. \A k \in Msgs : From[k] \in Clients
    BY SentFacts
  <2> QED BY <1>1, <2>1, <2>2, <2>3, <2>4, <2>5, <2>6, <2>7 DEF LoopsAwait, InWork
<1>10. ASSUME NEW d \in Clients, ReadLine(d) PROVE LoopsAwait'
  <2> DEFINE m == lines[d][read[d] + 1]
  <2>1. read[d] \in Nat /\ read[d] < Len(lines[d]) /\ Len(lines[d]) \in Nat /\ m \in Msgs
    BY <1>1, <1>10, LineFacts DEF ReadLine
  <2>2. From[m] = d /\ via[d] # "http" /\ work[m] = "line"
    BY <2>1 DEF FrontInv, LinesWait
  <2>3. work'[m] = "posted" /\ \A k \in Msgs \ {m} : work'[k] = work[k]
    BY <1>1, <1>10, <2>1, GotoFacts DEF ReadLine, Stages
  <2>4. /\ reader[d] = NoMsg /\ UNCHANGED <<via, lines, given>>
        /\ reader'[d] = m /\ \A c \in Clients \ {d} : reader'[c] = reader[c]
        /\ read'[d] = read[d] + 1 /\ \A c \in Clients \ {d} : read'[c] = read[c]
    BY <1>1, <1>10 DEF ReadLine, Idle, TypeOK, clientVars
  <2>5. given \subseteq Msgs /\ \A c \in Clients : reader[c] # NoMsg => reader[c] \in Msgs
    BY <1>1 DEF TypeOK
  <2>6. m \notin given /\ m # NoMsg
    BY <1>1, <2>1, <2>2, SentFacts DEF LoopsAwait, InWork
  <2>7. \A k \in Msgs : From[k] \in Clients /\ k # NoMsg
    BY SentFacts
  <2>8. lines'[d][read'[d]] = m /\ read'[d] > 0
    BY <2>1, <2>4
  <2>9. \A k \in Msgs \ {m} : From[k] = d /\ k \notin given => work[k] \notin InWork
    BY <1>1, <2>2, <2>4, <2>7 DEF LoopsAwait
  <2> HIDE DEF m
  <2>10. \A c \in Clients : reader'[c] # NoMsg =>
          /\ From[reader'[c]] = c /\ via[c] # "http" /\ reader'[c] \notin given
          /\ work'[reader'[c]] \in InWork
          /\ read'[c] > 0 /\ lines[c][read'[c]] = reader'[c]
    <3> SUFFICES ASSUME NEW c \in Clients, reader'[c] # NoMsg
                 PROVE  /\ From[reader'[c]] = c /\ via[c] # "http" /\ reader'[c] \notin given
                        /\ work'[reader'[c]] \in InWork
                        /\ read'[c] > 0 /\ lines[c][read'[c]] = reader'[c]
      OBVIOUS
    <3>1. CASE c = d
      BY <2>2, <2>3, <2>4, <2>6, <2>8, <3>1 DEF InWork
    <3>2. CASE c # d
      BY <1>1, <2>2, <2>3, <2>4, <2>5, <3>2 DEF LoopsAwait
    <3> QED BY <3>1, <3>2
  <2>11. \A k \in Msgs : work'[k] \in InWork /\ via[From[k]] # "http" /\ k \notin given =>
          reader'[From[k]] = k
    BY <1>1, <2>2, <2>3, <2>4, <2>7, <2>9 DEF LoopsAwait
  <2>12. \A k \in given : via[From[k]] = "bridge" /\ work'[k] \in InWork \cup {"over"}
    BY <1>1, <2>3, <2>5, <2>6 DEF LoopsAwait
  <2> QED BY <2>4, <2>10, <2>11, <2>12 DEF LoopsAwait
<1>11. CASE UNCHANGED vars
  BY <1>1, <1>11 DEF vars, clientVars, serverVars, LoopsAwait
<1> QED BY <1>2, <1>4, <1>5, <1>6, <1>7, <1>8, <1>9, <1>10, <1>11, Steps

LEMMA ResponsesNext == ASSUME FrontInv, [Next]_vars PROVE ResponsesFit'
<1>1. TypeOK /\ ResponsesFit
  BY DEF FrontInv
<1>2. ASSUME NEW m \in Msgs, UNCHANGED <<via, shape, built>>,
             work[m] \in {"served", "over"} => work'[m] = "over",
             work'[m] = "tool" => work[m] = "tool" \/ shape[m] \in Tools,
             work'[m] = "served" => work[m] = "served",
             \A k \in Msgs \ {m} : work'[k] = work[k]
      PROVE  ResponsesFit'
  BY <1>1, <1>2 DEF ResponsesFit
<1>3. ASSUME NEW m \in Msgs, Answers(m) PROVE ResponsesFit'
  <2>1. work'[m] \in {work[m], "over"} /\ \A k \in Msgs \ {m} : work'[k] = work[k]
    BY <1>3 DEF Answers
  <2>2. UNCHANGED <<via, shape, built>>
    BY <1>3 DEF Answers, clientVars
  <2> QED BY <1>1, <2>1, <2>2 DEF ResponsesFit
<1>4. ASSUME NEW m \in Msgs, Dispatch(m) \/ EndTool(m) PROVE ResponsesFit'
  <2>1. /\ Fits(m, built'[m]) /\ \A k \in Msgs \ {m} : built'[k] = built[k]
        /\ Goto(m, "served") /\ UNCHANGED <<via, shape>>
    BY <1>1, <1>4, ServeFacts DEF clientVars
  <2>2. work'[m] = "served" /\ \A k \in Msgs \ {m} : work'[k] = work[k]
    BY <1>1, <2>1, GotoFacts DEF Stages
  <2> QED BY <1>1, <2>1, <2>2 DEF ResponsesFit, Fits
<1>5. ASSUME NEW m \in Msgs, Post(m) \/ WriteLine(m) PROVE ResponsesFit'
  <2>1. /\ work'[m] \in {"posted", "line"} /\ work[m] = "unsent"
        /\ \A k \in Msgs \ {m} : work'[k] = work[k]
    BY <1>1, <1>5, GotoFacts DEF Post, WriteLine, Stages
  <2>2. UNCHANGED <<via, shape, built>>
    BY <1>5 DEF Post, WriteLine, clientVars
  <2> QED BY <1>2, <2>1, <2>2
<1>6. ASSUME NEW m \in Msgs, BeginTool(m) PROVE ResponsesFit'
  <2>1. /\ work'[m] = "tool" /\ work[m] = "posted" /\ shape[m] \in Tools
        /\ \A k \in Msgs \ {m} : work'[k] = work[k]
    BY <1>1, <1>6, GotoFacts DEF BeginTool, Stages
  <2>2. UNCHANGED <<via, shape, built>>
    BY <1>6 DEF BeginTool, clientVars
  <2> QED BY <1>2, <2>1, <2>2
<1>7. ASSUME NEW m \in Msgs, AnswerNobody(m) \/ Passes(m) PROVE ResponsesFit'
  <2>1. /\ work'[m] = "over" /\ work[m] = "served"
        /\ \A k \in Msgs \ {m} : work'[k] = work[k]
    BY <1>1, <1>7, GotoFacts DEF AnswerNobody, Passes, AnswerOnStdout, Stages
  <2>2. UNCHANGED <<via, shape, built>>
    BY <1>7 DEF AnswerNobody, Passes, AnswerOnStdout, clientVars
  <2> QED BY <1>2, <2>1, <2>2
<1>8. ASSUME NEW c \in Clients, ReadLine(c) PROVE ResponsesFit'
  <2> DEFINE m == lines[c][read[c] + 1]
  <2>1. read[c] \in Nat /\ read[c] < Len(lines[c]) /\ Len(lines[c]) \in Nat /\ m \in Msgs
    BY <1>1, <1>8, LineFacts DEF ReadLine
  <2>2. work[m] = "line"
    BY <2>1 DEF FrontInv, LinesWait
  <2>3. work'[m] = "posted" /\ \A k \in Msgs \ {m} : work'[k] = work[k]
    BY <1>1, <1>8, <2>1, GotoFacts DEF ReadLine, Stages
  <2>4. UNCHANGED <<via, shape, built>>
    BY <1>8 DEF ReadLine, clientVars
  <2> QED BY <1>2, <2>1, <2>2, <2>3, <2>4
<1>9. CASE UNCHANGED vars
  BY <1>1, <1>9 DEF vars, clientVars, serverVars, ResponsesFit
<1> QED BY <1>3, <1>4, <1>5, <1>6, <1>7, <1>8, <1>9, Steps

(* What all steps but answers leave of the messages and what they got.     *)
LEMMA QuietSteps ==
    ASSUME FrontInv, [Next]_vars, ~\E m \in Msgs : Answers(m)
    PROVE  /\ UNCHANGED <<via, shape, replies>> /\ given' = given
           /\ \A m \in Msgs : work[m] = "over" => work'[m] = "over"
           /\ \A m \in Msgs : built[m].kind # "none" => built'[m] = built[m]
<1>1. TypeOK /\ ResponsesFit
  BY DEF FrontInv
<1> DEFINE Quiet == /\ UNCHANGED <<via, shape, replies>> /\ given' = given
                    /\ \A m \in Msgs : work[m] = "over" => work'[m] = "over"
                    /\ \A m \in Msgs : built[m].kind # "none" => built'[m] = built[m]
<1>2. ASSUME NEW m \in Msgs, Dispatch(m) \/ EndTool(m) PROVE Quiet
  <2>1. /\ \A k \in Msgs \ {m} : built'[k] = built[k]
        /\ Goto(m, "served") /\ UNCHANGED <<via, shape, replies, given>>
        /\ work[m] \in {"posted", "tool"}
    BY <1>1, <1>2, ServeFacts DEF clientVars
  <2>2. \A k \in Msgs \ {m} : work'[k] = work[k]
    BY <1>1, <2>1, GotoFacts DEF Stages
  <2>3. built[m].kind = "none"
    BY <1>1, <2>1 DEF ResponsesFit
  <2> QED BY <2>1, <2>2, <2>3
<1>3. ASSUME NEW m \in Msgs,
             Post(m) \/ WriteLine(m) \/ BeginTool(m) \/ AnswerNobody(m) \/ Passes(m)
      PROVE  Quiet
  <2>1. /\ \A k \in Msgs \ {m} : work'[k] = work[k]
        /\ work[m] = "over" => work'[m] = "over"
    BY <1>1, <1>3, GotoFacts
       DEF Post, WriteLine, BeginTool, AnswerNobody, Passes, AnswerOnStdout, Stages
  <2> QED BY <1>3, <2>1
          DEF Post, WriteLine, BeginTool, AnswerNobody, Passes, AnswerOnStdout, clientVars
<1>4. ASSUME NEW c \in Clients, ReadLine(c) PROVE Quiet
  <2> DEFINE m == lines[c][read[c] + 1]
  <2>1. read[c] \in Nat /\ read[c] < Len(lines[c]) /\ Len(lines[c]) \in Nat /\ m \in Msgs
    BY <1>1, <1>4, LineFacts DEF ReadLine
  <2>2. work[m] = "line"
    BY <2>1 DEF FrontInv, LinesWait
  <2>3. \A k \in Msgs \ {m} : work'[k] = work[k]
    BY <1>1, <1>4, <2>1, GotoFacts DEF ReadLine, Stages
  <2> QED BY <1>4, <2>1, <2>2, <2>3 DEF ReadLine, clientVars
<1>5. CASE UNCHANGED vars
  BY <1>5 DEF vars, clientVars, serverVars
<1> QED BY <1>2, <1>3, <1>4, <1>5, Steps

LEMMA RepliesNext == ASSUME FrontInv, [Next]_vars PROVE RepliesFit'
<1>1. TypeOK /\ RepliesFit /\ LoopsAwait
  BY DEF FrontInv
<1>2. \A c \in Clients : \A n \in DOMAIN replies[c] : replies[c][n].to \in Msgs
  BY <1>1 DEF TypeOK, ToSet
<1>3. CASE ~\E m \in Msgs : Answers(m)
  BY <1>1, <1>2, <1>3, QuietSteps DEF RepliesFit
<1>4. ASSUME NEW m \in Msgs, Answers(m) PROVE RepliesFit'
  <2>1. PICK id, kind, found : Told(m, id, kind) /\ Reply(m, id, kind, found)
    BY <1>4 DEF Answers
  <2>2. UNCHANGED <<shape, built>> /\ \A k \in Msgs \ {m} : work'[k] = work[k]
    BY <1>4 DEF Answers, clientVars
  <2>3. work'[m] = "over" \/ m \in given'
    BY <1>4 DEF Answers
  <2>4. given \subseteq given' /\ m \notin given /\ work[m] # "over"
    BY <1>4 DEF Answers, InWork
  <2>5. ASSUME NEW c \in Clients, NEW n \in DOMAIN replies[c]
        PROVE  LET r == replies[c][n] IN
               /\ From[r.to] = c /\ r.id \in {r.to, NoMsg}
               /\ r.id = r.to => shape[r.to] \notin Silent /\ r.kind \in {"result", "error"}
               /\ r.kind = "result" => built[r.to].kind # "none"
               /\ work'[r.to] = "over" \/ r.to \in given'
    <3>1. replies[c][n].to # m /\ replies[c][n].to \in Msgs
      BY <1>1, <1>2, <2>4 DEF RepliesFit
    <3> QED BY <1>1, <2>2, <2>4, <3>1 DEF RepliesFit
  <2>6. ASSUME NEW c \in Clients, NEW n \in DOMAIN replies'[c]
        PROVE  \/ n \in DOMAIN replies[c] /\ replies'[c][n] = replies[c][n]
               \/ /\ c = From[m] /\ replies'[c][n].to = m /\ replies'[c][n].id = id
                  /\ replies'[c][n].kind = kind
    BY <1>1, <2>1, ReplyPlaces
  <2> QED BY <2>1, <2>2, <2>3, <2>5, <2>6 DEF RepliesFit, Told
<1> QED BY <1>3, <1>4

(* Where an answer stands, an earlier line stands.                         *)
LEMMA OrderNext ==
    ASSUME FrontInv, [Next]_vars PROVE RepliesAreOfHandled' /\ AnswersInOrder'
<1>1. TypeOK /\ LoopsAwait /\ RepliesAreOfHandled /\ AnswersInOrder
  BY DEF FrontInv
<1>2. \A c \in Clients : Handled(c) \in Nat /\ Handled(c) <= Len(lines[c])
  BY <1>1, LineFacts DEF Handled, LoopsAwait
<1>3. ASSUME UNCHANGED <<via, replies>>,
             \A c \in Clients :
                /\ Len(lines'[c]) \in Nat /\ DOMAIN lines'[c] = 1..Len(lines'[c])
                /\ Len(lines[c]) <= Len(lines'[c])
                /\ \A i \in 1..Len(lines[c]) : lines'[c][i] = lines[c][i]
                /\ Handled(c)' \in Nat /\ Handled(c) <= Handled(c)'
      PROVE  RepliesAreOfHandled' /\ AnswersInOrder'
  <2>1. RepliesAreOfHandled'
    <3> SUFFICES ASSUME NEW c \in Clients, via[c] # "http", NEW n \in DOMAIN replies[c]
                 PROVE  \E i \in 1..(Handled(c)') : lines'[c][i] = replies[c][n].to
      BY <1>3 DEF RepliesAreOfHandled
    <3>1. PICK i \in 1..Handled(c) : lines[c][i] = replies[c][n].to
      BY <1>1 DEF RepliesAreOfHandled
    <3>2. i \in 1..Len(lines[c]) /\ i \in 1..(Handled(c)')
      BY <1>2, <1>3, <3>1, LineFacts
    <3> QED BY <1>3, <3>1, <3>2
  <2>2. AnswersInOrder'
    <3> SUFFICES ASSUME NEW c \in Clients, via[c] # "http", NEW a \in DOMAIN replies[c],
                        NEW b \in DOMAIN replies[c], a < b
                 PROVE  \E i, j \in DOMAIN lines'[c] :
                           /\ i < j /\ lines'[c][i] = replies[c][a].to
                           /\ lines'[c][j] = replies[c][b].to
      BY <1>3 DEF AnswersInOrder
    <3>1. PICK i, j \in DOMAIN lines[c] :
             i < j /\ lines[c][i] = replies[c][a].to /\ lines[c][j] = replies[c][b].to
      BY <1>1 DEF AnswersInOrder
    <3>2. i \in DOMAIN lines'[c] /\ j \in DOMAIN lines'[c]
      BY <1>1, <1>3, <3>1, LineFacts
    <3>3. lines'[c][i] = lines[c][i] /\ lines'[c][j] = lines[c][j]
      BY <1>1, <1>3, <3>1, LineFacts
    <3> QED BY <3>1, <3>2, <3>3
  <2> QED BY <2>1, <2>2
<1>4. ASSUME UNCHANGED <<via, replies, lines>>,
             \A c \in Clients : Handled(c)' \in Nat /\ Handled(c) <= Handled(c)'
      PROVE  RepliesAreOfHandled' /\ AnswersInOrder'
  <2>1. \A c \in Clients :
           /\ Len(lines'[c]) \in Nat /\ DOMAIN lines'[c] = 1..Len(lines'[c])
           /\ Len(lines[c]) <= Len(lines'[c])
           /\ \A i \in 1..Len(lines[c]) : lines'[c][i] = lines[c][i]
    BY <1>1, <1>4, LineFacts
  <2> QED BY <1>3, <1>4, <2>1
<1>5. ASSUME UNCHANGED <<via, replies, lines, read, reader>>
      PROVE  RepliesAreOfHandled' /\ AnswersInOrder'
  <2>1. \A c \in Clients : Handled(c)' = Handled(c)
    BY <1>5 DEF Handled
  <2>2. \A c \in Clients : Handled(c)' \in Nat /\ Handled(c) <= Handled(c)'
    BY <1>2, <2>1
  <2> QED BY <1>4, <1>5, <2>2
<1>6. ASSUME NEW m \in Msgs, Dispatch(m) \/ EndTool(m)
      PROVE  RepliesAreOfHandled' /\ AnswersInOrder'
  <2>1. UNCHANGED <<via, replies, lines, read, reader>>
    BY <1>1, <1>6, ServeFacts DEF FrontInv, clientVars
  <2> QED BY <1>5, <2>1
<1>7. ASSUME NEW m \in Msgs, Post(m) \/ BeginTool(m) \/ AnswerNobody(m)
      PROVE  RepliesAreOfHandled' /\ AnswersInOrder'
  <2>1. UNCHANGED <<via, replies, lines, read, reader>>
    BY <1>7 DEF Post, BeginTool, AnswerNobody, clientVars
  <2> QED BY <1>5, <2>1
<1>8. ASSUME NEW m \in Msgs, WriteLine(m) PROVE RepliesAreOfHandled' /\ AnswersInOrder'
  <2>1. UNCHANGED <<via, replies, read, reader>>
    BY <1>8 DEF WriteLine, clientVars
  <2>2. \A c \in Clients : Handled(c)' = Handled(c)
    BY <2>1 DEF Handled
  <2>3. \A c \in Clients : lines'[c] = lines[c] \/ lines'[c] = Append(lines[c], m)
    BY <1>1, <1>8, SentFacts DEF WriteLine, TypeOK
  <2>4. \A c \in Clients :
           /\ Len(lines'[c]) \in Nat /\ DOMAIN lines'[c] = 1..Len(lines'[c])
           /\ Len(lines[c]) <= Len(lines'[c])
           /\ \A i \in 1..Len(lines[c]) : lines'[c][i] = lines[c][i]
    <3> SUFFICES ASSUME NEW c \in Clients
                 PROVE  /\ Len(lines'[c]) \in Nat /\ DOMAIN lines'[c] = 1..Len(lines'[c])
                        /\ Len(lines[c]) <= Len(lines'[c])
                        /\ \A i \in 1..Len(lines[c]) : lines'[c][i] = lines[c][i]
      OBVIOUS
    <3>1. lines[c] \in Seq(Msgs)
      BY <1>1, LineFacts
    <3> QED BY <2>3, <3>1
  <2>5. \A c \in Clients : Handled(c)' \in Nat /\ Handled(c) <= Handled(c)'
    BY <1>2, <2>2
  <2> QED BY <1>3, <2>1, <2>4, <2>5
<1>9. ASSUME NEW d \in Clients, ReadLine(d) PROVE RepliesAreOfHandled' /\ AnswersInOrder'
  <2>1. /\ UNCHANGED <<via, replies, lines>> /\ reader[d] = NoMsg
        /\ read'[d] = read[d] + 1 /\ \A c \in Clients \ {d} : read'[c] = read[c]
        /\ reader'[d] = lines[d][read[d] + 1]
        /\ \A c \in Clients \ {d} : reader'[c] = reader[c]
    BY <1>1, <1>9 DEF ReadLine, Idle, clientVars, TypeOK
  <2>2. lines[d][read[d] + 1] # NoMsg /\ read[d] \in Nat
    BY <1>1, <1>9, LineFacts, SentFacts DEF ReadLine
  <2>3. Handled(d)' = Handled(d)
    BY <2>1, <2>2 DEF Handled
  <2>4. \A c \in Clients \ {d} : Handled(c)' = Handled(c)
    BY <2>1 DEF Handled
  <2>5. \A c \in Clients : Handled(c)' \in Nat /\ Handled(c) <= Handled(c)'
    BY <1>2, <2>3, <2>4
  <2> QED BY <1>4, <2>1, <2>5
<1>10. ASSUME NEW d \in Clients, reader' = [reader EXCEPT ![d] = NoMsg], read' = read
       PROVE  \A c \in Clients : Handled(c)' \in Nat /\ Handled(c) <= Handled(c)'
  <2> SUFFICES ASSUME NEW c \in Clients PROVE Handled(c)' \in Nat /\ Handled(c) <= Handled(c)'
    OBVIOUS
  <2>1. read[c] \in Nat /\ Handled(c) \in Nat /\ Handled(c) <= read[c]
    BY <1>1, <1>2, LineFacts DEF Handled
  <2>2. Handled(c)' = IF reader'[c] = NoMsg THEN read[c] ELSE read[c] - 1
    BY <1>10 DEF Handled
  <2>3. reader'[c] = NoMsg \/ reader'[c] = reader[c]
    BY <1>1, <1>10 DEF TypeOK
  <2> QED BY <2>1, <2>2, <2>3 DEF Handled
<1>11. ASSUME NEW m \in Msgs, Passes(m) PROVE RepliesAreOfHandled' /\ AnswersInOrder'
  <2>1. /\ UNCHANGED <<via, replies, lines, read>>
        /\ reader' = [reader EXCEPT ![From[m]] = NoMsg]
    BY <1>11 DEF Passes, AnswerOnStdout, clientVars
  <2> QED BY <1>4, <1>10, <2>1, SentFacts
<1>12. ASSUME NEW m \in Msgs, Answers(m) PROVE RepliesAreOfHandled' /\ AnswersInOrder'
  <2> DEFINE d == From[m]
  <2>1. PICK id, kind, found : Told(m, id, kind) /\ Reply(m, id, kind, found)
    BY <1>12 DEF Answers
  <2>2. UNCHANGED <<via, lines, read>> /\ d \in Clients
    BY <1>12, SentFacts DEF Answers, clientVars
  <2>3. \A c \in Clients : Handled(c)' \in Nat /\ Handled(c) <= Handled(c)'
    <3>1. CASE via[d] = "http"
      <4>1. \A c \in Clients : Handled(c)' = Handled(c)
        BY <1>12, <2>2, <3>1 DEF Answers, Handled
      <4> QED BY <1>2, <4>1
    <3>2. CASE via[d] # "http"
      BY <1>10, <1>12, <2>2, <3>2 DEF Answers
    <3> QED BY <3>1, <3>2
  <2>4. \A c \in Clients : \A n \in DOMAIN replies'[c] :
           \/ n \in DOMAIN replies[c] /\ replies'[c][n] = replies[c][n]
           \/ c = d /\ n = Len(replies[c]) + 1 /\ replies'[c][n].to = m
    BY <1>1, <2>1, ReplyPlaces
  <2>5. via[d] # "http" =>
           /\ read[d] \in 1..Len(lines[d]) /\ lines[d][read[d]] = m
           /\ Handled(d) = read[d] - 1 /\ Handled(d)' = read[d] /\ read[d] \in Nat
    <3>1. ASSUME via[d] # "http"
          PROVE  reader[d] = m /\ reader'[d] = NoMsg /\ reader[d] # NoMsg
      BY <1>1, <1>12, <2>2, <3>1, SentFacts DEF Answers, TypeOK
    <3>2. ASSUME via[d] # "http"
          PROVE  read[d] \in 1..Len(lines[d]) /\ lines[d][read[d]] = m /\ read[d] \in Nat
      BY <1>1, <2>2, <3>1, <3>2, LineFacts DEF LoopsAwait
    <3>3. ASSUME via[d] # "http"
          PROVE  Handled(d) = read[d] - 1 /\ Handled(d)' = read[d]
      BY <2>2, <3>1, <3>3 DEF Handled
    <3> QED BY <3>2, <3>3
  <2> HIDE DEF d
  <2>6. RepliesAreOfHandled'
    <3> SUFFICES ASSUME NEW c \in Clients, via[c] # "http", NEW n \in DOMAIN replies'[c]
                 PROVE  \E i \in 1..(Handled(c)') : lines[c][i] = replies'[c][n].to
      BY <2>2 DEF RepliesAreOfHandled
    <3>1. CASE n \in DOMAIN replies[c] /\ replies'[c][n] = replies[c][n]
      <4>1. PICK i \in 1..Handled(c) : lines[c][i] = replies[c][n].to
        BY <1>1, <3>1 DEF RepliesAreOfHandled
      <4>2. i \in 1..(Handled(c)')
        BY <1>2, <2>3, <4>1
      <4> QED BY <3>1, <4>1, <4>2
    <3>2. CASE c = d /\ replies'[c][n].to = m
      BY <2>5, <3>2
    <3> QED BY <2>4, <3>1, <3>2
  <2>7. AnswersInOrder'
    <3> SUFFICES ASSUME NEW c \in Clients, via[c] # "http", NEW a \in DOMAIN replies'[c],
                        NEW b \in DOMAIN replies'[c], a < b
                 PROVE  \E i, j \in DOMAIN lines[c] :
                           /\ i < j /\ lines[c][i] = replies'[c][a].to
                           /\ lines[c][j] = replies'[c][b].to
      BY <2>2 DEF AnswersInOrder
    <3>1. DOMAIN replies[c] = 1..Len(replies[c]) /\ Len(replies[c]) \in Nat
      BY <1>1, AppendFacts DEF TypeOK
    <3>2. a \in DOMAIN replies[c] /\ replies'[c][a] = replies[c][a]
      <4>1. a \in Nat /\ b \in Nat /\ DOMAIN replies'[c] \subseteq 1..(Len(replies[c]) + 1)
        <5>1. /\ Len(replies[d]) \in Nat /\ DOMAIN replies'[d] = 1..(Len(replies[d]) + 1)
              /\ \A e \in Clients \ {d} : replies'[e] = replies[e]
          BY <1>1, <2>1, ReplyFacts DEF d
        <5>2. DOMAIN replies'[c] \subseteq 1..(Len(replies[c]) + 1)
          <6>1. CASE c = d
            BY <5>1, <6>1
          <6>2. CASE c # d
            BY <3>1, <5>1, <6>2
          <6> QED BY <6>1, <6>2
        <5> QED BY <3>1, <5>2
      <4> QED BY <2>4, <3>1, <4>1
    <3>3. CASE b \in DOMAIN replies[c] /\ replies'[c][b] = replies[c][b]
      BY <1>1, <3>2, <3>3 DEF AnswersInOrder
    <3>4. CASE c = d /\ replies'[c][b].to = m
      <4>1. PICK i \in 1..Handled(c) : lines[c][i] = replies[c][a].to
        BY <1>1, <3>2 DEF RepliesAreOfHandled
      <4>2. i \in DOMAIN lines[c] /\ read[c] \in DOMAIN lines[c] /\ i < read[c]
        BY <1>1, <1>2, <2>5, <3>4, <4>1, LineFacts
      <4> QED BY <2>5, <3>2, <3>4, <4>1, <4>2
    <3> QED BY <2>4, <3>3, <3>4
  <2> QED BY <2>6, <2>7
<1>13. CASE UNCHANGED vars
  BY <1>5, <1>13 DEF vars, clientVars, serverVars
<1> QED BY <1>6, <1>7, <1>8, <1>9, <1>11, <1>12, <1>13, Steps

LEMMA InvNext == ASSUME FrontInv, [Next]_vars PROVE FrontInv'
BY TypeNext, LinesNext, AwaitNext, ResponsesNext, RepliesNext, OrderNext DEF FrontInv

(* Unread lines wait, each loop is at the last line it has read and works  *)
(* on its message alone, what is built for a message carries its id only   *)
(* if the message waits for an answer, and its answers come once that is   *)
(* decided: so it is after every step of handlers, bridge and loops.       *)
THEOREM FrontInvariant == Spec => []FrontInv
<1>1. FrontInv /\ [Next]_vars => FrontInv'
  BY InvNext
<1> QED BY <1>1, InitInv, PTL DEF Spec

(* Whoever writes to stdin reads the answers in the order of his lines:    *)
(* the loops serve a line before they read the next one.                   *)
THEOREM AnswersKeepOrder == Spec => []AnswersInOrder
<1>1. FrontInv => AnswersInOrder
  BY DEF FrontInv
<1> QED BY <1>1, FrontInvariant, PTL

-----------------------------------------------------------------------------
(* The promise of JsonRpc.                                                 *)

(* A message in work has no answer yet.                                    *)
LEMMA NoneYet ==
    ASSUME FrontInv, NEW m \in Msgs, Answers(m)
    PROVE  \A n \in DOMAIN replies[From[m]] : replies[From[m]][n].id # m
BY SentFacts DEF FrontInv, RepliesFit, Answers, InWork

LEMMA Counts == Cardinality({}) = 0 /\ \A n : Cardinality({n}) = 1
BY FS_EmptySet, FS_Singleton

(* A reply is counted where its id is.                                     *)
LEMMA CountsNext ==
    ASSUME FrontInv, NEW m \in Msgs, Answers(m), NEW id, NEW kind, NEW found, Told(m, id, kind),
           Reply(m, id, kind, found)
    PROVE  /\ AnswersTo(m) = [q \in Kinds |-> 0]
           /\ AnswersTo(m)' = [q \in Kinds |-> IF id = m /\ q = kind THEN 1 ELSE 0]
           /\ \A k \in Msgs \ {m} : AnswersTo(k)' = AnswersTo(k)
<1> DEFINE c == From[m]
           new == Len(replies[c]) + 1
<1>1. TypeOK
  BY DEF FrontInv
<1>2. \A q : AnswersOf(m, q) = {}
  BY NoneYet DEF AnswersOf
<1>3. AnswersTo(m) = [q \in Kinds |-> 0]
  BY <1>2, Counts DEF AnswersTo
<1>4. \A n \in DOMAIN replies'[c] :
         \/ n \in DOMAIN replies[c] /\ replies'[c][n] = replies[c][n]
         \/ n = new /\ replies'[c][n].id = id /\ replies'[c][n].kind = kind
  BY <1>1, ReplyPlaces, SentFacts
<1>5. /\ new \in DOMAIN replies'[c] /\ new \notin DOMAIN replies[c]
      /\ replies'[c][new].id = id /\ replies'[c][new].kind = kind
      /\ DOMAIN replies[c] \subseteq DOMAIN replies'[c]
      /\ \A n \in DOMAIN replies[c] : replies'[c][n] = replies[c][n]
  <2>1. /\ Len(replies[c]) \in Nat /\ DOMAIN replies[c] = 1..Len(replies[c])
        /\ DOMAIN replies'[c] = 1..(Len(replies[c]) + 1)
        /\ \A i \in 1..Len(replies[c]) : replies'[c][i] = replies[c][i]
        /\ replies'[c][new].id = id /\ replies'[c][new].kind = kind
    BY <1>1, ReplyFacts
  <2> QED BY <2>1
<1> HIDE DEF new
<1>6. \A q : AnswersOf(m, q)' = IF id = m /\ q = kind THEN {new} ELSE {}
  <2> SUFFICES ASSUME NEW q, NEW n
               PROVE  n \in AnswersOf(m, q)' <=> id = m /\ q = kind /\ n = new
    OBVIOUS
  <2>1. n \in AnswersOf(m, q)' <=>
          n \in DOMAIN replies'[c] /\ replies'[c][n].id = m /\ replies'[c][n].kind = q
    BY DEF AnswersOf
  <2> QED BY <1>4, <1>5, <2>1, NoneYet
<1>7. AnswersTo(m)' = [q \in Kinds |-> IF id = m /\ q = kind THEN 1 ELSE 0]
  <2>1. AnswersTo(m)' = [q \in Kinds |-> Cardinality(AnswersOf(m, q)')]
    BY DEF AnswersTo
  <2> QED BY <1>6, <2>1, Counts
<1>8. ASSUME NEW k \in Msgs \ {m} PROVE AnswersTo(k)' = AnswersTo(k)
  <2>1. \A q : AnswersOf(k, q)' = AnswersOf(k, q)
    <3>1. CASE From[k] # c
      <4>1. replies'[From[k]] = replies[From[k]]
        BY <1>1, <3>1, ReplyFacts, SentFacts
      <4> QED BY <4>1 DEF AnswersOf
    <3>2. CASE From[k] = c
      <4>1. id # k
        BY SentFacts DEF Told
      <4>2. ASSUME NEW q, NEW n PROVE n \in AnswersOf(k, q)' <=> n \in AnswersOf(k, q)
        <5>1. n \in AnswersOf(k, q)' <=>
                n \in DOMAIN replies'[c] /\ replies'[c][n].id = k /\ replies'[c][n].kind = q
          BY <3>2 DEF AnswersOf
        <5>2. n \in AnswersOf(k, q) <=>
                n \in DOMAIN replies[c] /\ replies[c][n].id = k /\ replies[c][n].kind = q
          BY <3>2 DEF AnswersOf
        <5> QED BY <1>4, <1>5, <4>1, <5>1, <5>2
      <4> QED BY <4>2
    <3> QED BY <3>1, <3>2
  <2>2. AnswersTo(k)' = [q \in Kinds |-> Cardinality(AnswersOf(k, q)')]
    BY DEF AnswersTo
  <2> QED BY <2>1, <2>2 DEF AnswersTo
<1> QED BY <1>3, <1>7, <1>8

(* Initial states and steps are those of JsonRpc.                          *)
LEMMA RpcInit == Init => Rpc!Init
<1> SUFFICES ASSUME Init PROVE Rpc!Init
  OBVIOUS
<1>1. ASSUME NEW m \in Msgs PROVE AnswersTo(m) = [kind \in Kinds |-> 0]
  <2>1. \A kind : AnswersOf(m, kind) = {}
    BY SentFacts DEF Init, AnswersOf
  <2> QED BY <2>1, Counts DEF AnswersTo
<1> QED BY <1>1 DEF Init, Rpc!Init, Rpc!NoAnswer, NoResponse

LEMMA RpcNext == ASSUME FrontInv, [Next]_vars PROVE [Rpc!Next]_(Rpc!vars)
<1>1. TypeOK /\ ResponsesFit
  BY DEF FrontInv
<1>2. ASSUME NEW m \in Msgs, Answers(m) PROVE [Rpc!Next]_(Rpc!vars)
  <2>1. PICK id, kind, found : Told(m, id, kind) /\ Reply(m, id, kind, found)
    BY <1>2 DEF Answers
  <2>2. UNCHANGED <<shape, built>> /\ \A k \in Msgs : work'[k] # "unsent" <=> work[k] # "unsent"
    BY <1>2 DEF Answers, InWork, clientVars
  <2>3. work[m] # "unsent"
    BY <1>2 DEF Answers, InWork
  <2> DEFINE before == [k \in Msgs |-> AnswersTo(k)]
             after == [k \in Msgs |-> AnswersTo(k)']
  <2>4. CASE id = m /\ kind \in Kinds
    <3>1. before[m] = [q \in Kinds |-> 0]
      BY <1>2, <2>1, CountsNext
    <3>2. after = [before EXCEPT ![m][kind] = 1]
      <4>1. after[m] = [q \in Kinds |-> IF q = kind THEN 1 ELSE 0]
        BY <1>2, <2>1, <2>4, CountsNext
      <4>2. after[m] = [before[m] EXCEPT ![kind] = 1]
        BY <2>4, <3>1, <4>1
      <4>3. \A k \in Msgs \ {m} : after[k] = before[k]
        BY <1>2, <2>1, CountsNext
      <4>4. /\ DOMAIN before = Msgs /\ before = [k \in Msgs |-> before[k]]
            /\ after = [k \in Msgs |-> after[k]]
        OBVIOUS
      <4> HIDE DEF before, after
      <4> QED BY <4>2, <4>3, <4>4
    <3>3. Rpc!Answer(m)
      BY <2>1, <2>2, <2>3, <2>4, <3>1, <3>2 DEF Rpc!Answer, Rpc!NoAnswer, Told, Silent
    <3> QED BY <3>3 DEF Rpc!Next
  <2>5. CASE id # m
    <3>1. after = before
      BY <1>2, <2>1, <2>5, CountsNext
    <3> QED BY <2>2, <3>1 DEF Rpc!vars
  <2>6. id = m => kind \in Kinds
    BY <2>1 DEF Told, Kinds
  <2> QED BY <2>4, <2>5, <2>6
<1>3. CASE ~\E m \in Msgs : Answers(m)
  <2>1. UNCHANGED <<shape, replies>> /\ \A m : AnswersTo(m)' = AnswersTo(m)
    BY <1>3, QuietSteps DEF AnswersTo, AnswersOf
  <2>2. ASSUME NEW m \in Msgs, Dispatch(m) \/ EndTool(m) PROVE [Rpc!Next]_(Rpc!vars)
    <3>1. /\ \A k \in Msgs \ {m} : built'[k] = built[k]
          /\ Goto(m, "served") /\ work[m] \in {"posted", "tool"}
      BY <1>1, <2>2, ServeFacts
    <3>2. \A k \in Msgs : work'[k] # "unsent" <=> work[k] # "unsent"
      BY <1>1, <3>1, GotoFacts DEF Stages
    <3>3. built[m].kind = "none"
      BY <1>1, <3>1 DEF ResponsesFit
    <3>4. CASE built'[m].kind = "none"
      <4>1. \A k \in Msgs : built'[k].kind # "none" <=> built[k].kind # "none"
        BY <3>1, <3>3, <3>4
      <4> QED BY <2>1, <3>2, <4>1 DEF Rpc!vars
    <3>5. CASE built'[m].kind # "none"
      <4>1. {k \in Msgs : built'[k].kind # "none"} = {k \in Msgs : built[k].kind # "none"} \cup {m}
        BY <3>1, <3>3, <3>5
      <4>2. Rpc!End(m)
        BY <2>1, <3>1, <3>2, <4>1 DEF Rpc!End
      <4> QED BY <4>2 DEF Rpc!Next
    <3> QED BY <3>4, <3>5
  <2>3. ASSUME NEW m \in Msgs, Post(m) \/ WriteLine(m) PROVE [Rpc!Next]_(Rpc!vars)
    <3>1. /\ work[m] = "unsent" /\ work'[m] # "unsent"
          /\ \A k \in Msgs \ {m} : work'[k] = work[k]
      BY <1>1, <2>3, GotoFacts DEF Post, WriteLine, Stages
    <3>2. {k \in Msgs : work'[k] # "unsent"} = {k \in Msgs : work[k] # "unsent"} \cup {m}
      BY <3>1
    <3>3. UNCHANGED built
      BY <2>3 DEF Post, WriteLine
    <3>4. Rpc!Send(m)
      BY <2>1, <3>1, <3>2, <3>3 DEF Rpc!Send
    <3> QED BY <3>4 DEF Rpc!Next
  <2>4. ASSUME UNCHANGED built, \A k \in Msgs : work'[k] # "unsent" <=> work[k] # "unsent"
        PROVE  UNCHANGED Rpc!vars
    BY <2>1, <2>4 DEF Rpc!vars
  <2>5. ASSUME NEW m \in Msgs, BeginTool(m) \/ AnswerNobody(m) \/ Passes(m)
        PROVE  UNCHANGED Rpc!vars
    <3>1. \A k \in Msgs : work'[k] # "unsent" <=> work[k] # "unsent"
      BY <1>1, <2>5, GotoFacts DEF BeginTool, AnswerNobody, Passes, AnswerOnStdout, Stages
    <3>2. UNCHANGED built
      BY <2>5 DEF BeginTool, AnswerNobody, Passes, AnswerOnStdout
    <3> QED BY <2>4, <3>1, <3>2
  <2>6. ASSUME NEW c \in Clients, ReadLine(c) PROVE UNCHANGED Rpc!vars
    <3> DEFINE m == lines[c][read[c] + 1]
    <3>1. read[c] \in Nat /\ read[c] < Len(lines[c]) /\ Len(lines[c]) \in Nat /\ m \in Msgs
      BY <1>1, <2>6, LineFacts DEF ReadLine
    <3>2. work[m] = "line"
      BY <3>1 DEF FrontInv, LinesWait
    <3>3. work'[m] = "posted" /\ \A k \in Msgs \ {m} : work'[k] = work[k]
      BY <1>1, <2>6, <3>1, GotoFacts DEF ReadLine, Stages
    <3>4. UNCHANGED built
      BY <2>6 DEF ReadLine
    <3> QED BY <2>4, <3>2, <3>3, <3>4
  <2>7. CASE UNCHANGED vars
    BY <2>4, <2>7 DEF vars, serverVars
  <2> QED BY <1>3, <2>2, <2>3, <2>5, <2>6, <2>7, Steps
<1> QED BY <1>2, <1>3

(* Whichever way a message comes in, it is answered at most once, never    *)
(* before it was sent or if it wants no answer, and with a result only     *)
(* after its tool has ended, whoever has given it up: the three front ends *)
(* implement JsonRpc.                                                      *)
THEOREM RpcPromiseKept == Spec => KeepsRpcPromise
<1>1. FrontInv /\ [Next]_vars => [Rpc!Next]_(Rpc!vars)
  BY RpcNext
<1> QED BY <1>1, RpcInit, FrontInvariant, PTL DEF Spec, Rpc!Spec, KeepsRpcPromise

-----------------------------------------------------------------------------
(* Installations: the least of some numbers, and the order of keys.        *)
LEMMA MinOf ==
    ASSUME NEW S, S \subseteq Nat, S # {}
    PROVE  Min(S) \in S /\ \A n \in S : Min(S) <= n
<1>1. PICK x \in S : \A y \in S : ~(<<y, x>> \in OpToRel(<, Nat))
  BY NatLessThanWellFounded, WFMin
<1>2. \A y \in S : ~(y < x)
  BY <1>1 DEF OpToRel
<1>3. \A y \in S : x <= y
  BY <1>2
<1> QED BY <1>1, <1>3 DEF Min

Keys == Nat \X Nat \X Nat \X Nat

LEMMA BeforeIs ==
    ASSUME NEW k, NEW l
    PROVE  Before(k, l) <=>
              \/ k[1] < l[1]
              \/ k[1] = l[1] /\ k[2] < l[2]
              \/ k[1] = l[1] /\ k[2] = l[2] /\ k[3] < l[3]
              \/ k[1] = l[1] /\ k[2] = l[2] /\ k[3] = l[3] /\ k[4] < l[4]
<1>1. Before(k, l) <=>
         \/ k[1] < l[1] /\ \A j \in 1 .. 0 : k[j] = l[j]
         \/ k[2] < l[2] /\ \A j \in 1 .. 1 : k[j] = l[j]
         \/ k[3] < l[3] /\ \A j \in 1 .. 2 : k[j] = l[j]
         \/ k[4] < l[4] /\ \A j \in 1 .. 3 : k[j] = l[j]
  <2>1. 1 .. 4 = {1, 2, 3, 4} /\ 1 - 1 = 0 /\ 2 - 1 = 1 /\ 3 - 1 = 2 /\ 4 - 1 = 3
    OBVIOUS
  <2> QED BY <2>1 DEF Before
<1>2. 1 .. 0 = {} /\ 1 .. 1 = {1} /\ 1 .. 2 = {1, 2} /\ 1 .. 3 = {1, 2, 3}
  OBVIOUS
<1> QED BY <1>1, <1>2

LEMMA KeysAreOrdered ==
    ASSUME NEW k \in Keys, NEW l \in Keys, NEW m \in Keys
    PROVE  /\ Before(k, l) /\ Before(l, m) => Before(k, m)
           /\ ~Before(k, k)
           /\ Before(k, l) \/ Before(l, k) \/ (k[3] = l[3] /\ k[4] = l[4])
<1>1. \A x \in Keys : x[1] \in Nat /\ x[2] \in Nat /\ x[3] \in Nat /\ x[4] \in Nat
  BY DEF Keys
<1>2. /\ k[1] \in Nat /\ k[2] \in Nat /\ k[3] \in Nat /\ k[4] \in Nat
      /\ l[1] \in Nat /\ l[2] \in Nat /\ l[3] \in Nat /\ l[4] \in Nat
      /\ m[1] \in Nat /\ m[2] \in Nat /\ m[3] \in Nat /\ m[4] \in Nat
  BY <1>1
<1> QED BY <1>2, BeforeIs

(* The list in which as many come before the n-th as have to.              *)
LEMMA RanksAreAList ==
    ASSUME NEW S, IsFiniteSet(S), NEW R,
           \A x \in S : <<x, x>> \notin R,
           \A x, y, z \in S : <<x, y>> \in R /\ <<y, z>> \in R => <<x, z>> \in R,
           \A x, y \in S : x # y => <<x, y>> \in R \/ <<y, x>> \in R,
           NEW f, f = [n \in 1 .. Cardinality(S) |->
                          CHOOSE x \in S : Cardinality({y \in S : <<y, x>> \in R}) = n - 1]
    PROVE  /\ f \in [1 .. Cardinality(S) -> S]
           /\ \A x \in S : \E n \in 1 .. Cardinality(S) : f[n] = x
           /\ \A i, j \in 1 .. Cardinality(S) : i < j => <<f[i], f[j]>> \in R
<1> DEFINE N == Cardinality(S)
           Earlier(x) == {y \in S : <<y, x>> \in R}
           rank == [x \in S |-> Cardinality(Earlier(x)) + 1]
<1>1. N \in Nat
  BY FS_CardinalityType
<1>2. ASSUME NEW x \in S
      PROVE  IsFiniteSet(Earlier(x)) /\ Cardinality(Earlier(x)) \in Nat /\ rank[x] \in 1 .. N
  <2>1. Earlier(x) \in SUBSET (S \ {x})
    OBVIOUS
  <2>2. IsFiniteSet(S \ {x}) /\ Cardinality(S \ {x}) = N - 1
    BY FS_RemoveElement
  <2>3. IsFiniteSet(Earlier(x)) /\ Cardinality(Earlier(x)) <= N - 1
    <3>1. PICK T, E : T = S \ {x} /\ E = Earlier(x)
      OBVIOUS
    <3>2. IsFiniteSet(T) /\ Cardinality(T) = N - 1 /\ E \in SUBSET T
      BY <2>1, <2>2, <3>1
    <3>3. IsFiniteSet(E) /\ Cardinality(E) <= Cardinality(T)
      BY <3>2, FS_Subset
    <3> HIDE DEF Earlier, N
    <3> QED BY <3>1, <3>2, <3>3
  <2>4. Cardinality(Earlier(x)) \in Nat
    BY <2>3, FS_CardinalityType
  <2>5. rank[x] = Cardinality(Earlier(x)) + 1
    OBVIOUS
  <2> HIDE DEF Earlier, rank, N
  <2> QED BY <1>1, <2>3, <2>4, <2>5
<1>3. ASSUME NEW x \in S, NEW y \in S, <<x, y>> \in R PROVE rank[x] < rank[y]
  <2>1. Earlier(x) \cup {x} \in SUBSET Earlier(y) /\ x \notin Earlier(x)
    BY <1>3
  <2>2. Cardinality(Earlier(x) \cup {x}) = Cardinality(Earlier(x)) + 1
    BY <1>2, <2>1, FS_AddElement
  <2>3. Cardinality(Earlier(x) \cup {x}) <= Cardinality(Earlier(y))
    BY <1>2, <2>1, FS_Subset
  <2>4. rank[x] = Cardinality(Earlier(x)) + 1 /\ rank[y] = Cardinality(Earlier(y)) + 1
    OBVIOUS
  <2>5. Cardinality(Earlier(x)) \in Nat /\ Cardinality(Earlier(y)) \in Nat
    BY <1>2
  <2> HIDE DEF Earlier, rank
  <2> QED BY <2>2, <2>3, <2>4, <2>5
<1>4. rank \in [S -> 1 .. N]
  BY <1>2
<1>5. \A x, y \in S : rank[x] = rank[y] => x = y
  <2>1. SUFFICES ASSUME NEW x \in S, NEW y \in S, rank[x] = rank[y], x # y PROVE FALSE
    OBVIOUS
  <2>2. rank[x] < rank[y] \/ rank[y] < rank[x]
    BY <1>3, <2>1
  <2>3. rank[x] \in Nat
    BY <1>1, <1>4
  <2> HIDE DEF rank
  <2> QED BY <2>1, <2>2, <2>3
<1>6. \A n \in 1 .. N : \E x \in S : rank[x] = n
  <2>1. rank \in Injection(S, 1 .. N)
    BY <1>4, <1>5 DEF Injection, IsInjective
  <2>2. IsFiniteSet(1 .. N) /\ Cardinality(1 .. N) = N
    BY <1>1, FS_Interval
  <2>3. rank \in Surjection(S, 1 .. N)
    BY <2>1, <2>2, FS_Injection
  <2> QED BY <2>3 DEF Surjection
<1>7. ASSUME NEW n \in 1 .. N PROVE f[n] \in S /\ rank[f[n]] = n
  <2>1. f[n] = CHOOSE x \in S : Cardinality(Earlier(x)) = n - 1
    BY <1>7
  <2>2. PICK x \in S : rank[x] = n
    BY <1>6
  <2>3. \A y \in S : rank[y] = Cardinality(Earlier(y)) + 1 /\ Cardinality(Earlier(y)) \in Nat
    BY <1>2
  <2> HIDE DEF Earlier, rank
  <2>4. Cardinality(Earlier(x)) = n - 1
    BY <1>1, <2>2, <2>3
  <2>5. f[n] \in S /\ Cardinality(Earlier(f[n])) = n - 1
    BY <2>1, <2>4
  <2> QED BY <1>1, <2>3, <2>5
<1>8. f \in [1 .. N -> S]
  BY <1>7
<1>9. \A x \in S : \E n \in 1 .. N : f[n] = x
  <2>1. TAKE x \in S
  <2>2. rank[x] \in 1 .. N
    BY <1>4
  <2>3. rank[f[rank[x]]] = rank[x] /\ f[rank[x]] \in S
    BY <1>7, <2>2
  <2> HIDE DEF rank
  <2> QED BY <1>5, <2>2, <2>3
<1>10. \A i, j \in 1 .. N : i < j => <<f[i], f[j]>> \in R
  <2>1. SUFFICES ASSUME NEW i \in 1 .. N, NEW j \in 1 .. N, i < j, <<f[i], f[j]>> \notin R PROVE FALSE
    OBVIOUS
  <2>2. f[i] \in S /\ f[j] \in S /\ rank[f[i]] = i /\ rank[f[j]] = j
    BY <1>7
  <2> HIDE DEF rank
  <2>3. i \in Nat /\ j \in Nat /\ i # j
    BY <1>1, <2>1
  <2>4. f[i] # f[j]
    BY <2>2, <2>3, Zenon
  <2>5. <<f[j], f[i]>> \in R
    BY <2>1, <2>2, <2>4
  <2>6. rank[f[j]] < rank[f[i]]
    BY <1>3, <2>2, <2>5
  <2>7. j < i
    BY <2>2, <2>6
  <2> QED BY <2>1, <2>3, <2>7
<1> QED BY <1>8, <1>9, <1>10

-----------------------------------------------------------------------------
(* What is found, and where.                                               *)
Found == Executables \cup Missing

LEMMA PlacesOf ==
    ASSUME NEW a \in Arguments
    PROVE  /\ Places(a) \in Seq(Paths) /\ Len(Places(a)) \in Nat /\ DOMAIN Places(a) = 1 .. Len(Places(a))
           /\ \A n \in DOMAIN Places(a) :
                 /\ FoundIn(a, n) \in Seq(Found) /\ Len(FoundIn(a, n)) \in Nat
                 /\ DOMAIN FoundIn(a, n) = 1 .. Len(FoundIn(a, n))
                 /\ ToSet(FoundIn(a, n)) \subseteq Found
<1>1. a \in Seq(Paths) /\ Configured \in Seq(Paths) /\ Platform \in Seq(Paths)
  <2>1. a = <<>> \/ \E path \in Paths : a = <<path>>
    BY MessageAssumption
  <2>2. Directories \subseteq Paths
    BY DEF Paths
  <2>3. a \in Seq(Paths)
    <3>1. CASE a = <<>>
      BY <3>1, EmptySeq
    <3>2. CASE \E path \in Paths : a = <<path>>
      BY <3>2
    <3> QED BY <2>1, <3>1, <3>2
  <2>4. Configured \in Seq(Paths) /\ Platform \in Seq(Directories)
    BY LocatorAssumption
  <2>5. Platform \in Seq(Paths)
    BY <2>2, <2>4, SeqMonotonic
  <2> QED BY <2>3, <2>4, <2>5
<1>2. Places(a) \in Seq(Paths)
  BY <1>1, ConcatProperties DEF Places
<1>3. Len(Places(a)) \in Nat /\ DOMAIN Places(a) = 1 .. Len(Places(a))
  BY <1>2, LenProperties
<1>4. ASSUME NEW n \in DOMAIN Places(a) PROVE FoundIn(a, n) \in Seq(Found)
  <2>1. Places(a)[n] \in Paths
    BY <1>2, <1>3, ElementOfSeq
  <2>2. CASE Places(a)[n] \in Directories
    <3>1. FoundIn(a, n) \in Seq(Executables)
      BY <2>2, LocatorAssumption DEF FoundIn, ResolveExecutableCandidates
    <3> QED BY <3>1, SeqMonotonic DEF Found
  <2>3. CASE Places(a)[n] \notin Directories
    <3>1. PICK p \in Found : p = Places(a)[n]
      BY <2>1, <2>3 DEF Paths, Found
    <3>2. FoundIn(a, n) = <<p>>
      BY <2>3, <3>1 DEF FoundIn, ResolveExecutableCandidates
    <3> QED BY <3>2
  <2> QED BY <2>2, <2>3
<1>5. ASSUME NEW n \in DOMAIN Places(a)
      PROVE  /\ Len(FoundIn(a, n)) \in Nat /\ DOMAIN FoundIn(a, n) = 1 .. Len(FoundIn(a, n))
             /\ ToSet(FoundIn(a, n)) \subseteq Found
  <2>1. PICK s \in Seq(Found) : s = FoundIn(a, n)
    BY <1>4
  <2>2. Len(s) \in Nat /\ DOMAIN s = 1 .. Len(s) /\ \A k \in 1 .. Len(s) : s[k] \in Found
    BY LenProperties, ElementOfSeq
  <2>3. ToSet(s) \subseteq Found
    BY <2>2 DEF ToSet
  <2> QED BY <2>1, <2>2, <2>3
<1> QED BY <1>2, <1>3, <1>4, <1>5

LEMMA CandidatesAreFinite ==
    ASSUME NEW a \in Arguments PROVE IsFiniteSet(Candidates(a)) /\ Candidates(a) \subseteq Found
<1> DEFINE sets == {ToSet(FoundIn(a, n)) : n \in DOMAIN Places(a)}
           f == [n \in DOMAIN Places(a) |-> ToSet(FoundIn(a, n))]
<1>1. IsFiniteSet(DOMAIN Places(a))
  BY PlacesOf, FS_Interval
<1>2. f \in Surjection(DOMAIN Places(a), sets)
  BY DEF Surjection
<1>3. IsFiniteSet(sets)
  BY <1>1, <1>2, FS_Surjection
<1>4. ASSUME NEW n \in DOMAIN Places(a) PROVE IsFiniteSet(ToSet(FoundIn(a, n)))
  <2>1. PICK s : s = FoundIn(a, n)
    OBVIOUS
  <2>2. DOMAIN s = 1 .. Len(s) /\ Len(s) \in Nat
    BY <2>1, PlacesOf
  <2>3. IsFiniteSet(DOMAIN s)
    BY <2>2, FS_Interval
  <2>4. [k \in DOMAIN s |-> s[k]] \in Surjection(DOMAIN s, ToSet(s))
    BY DEF Surjection, ToSet
  <2> QED BY <2>1, <2>3, <2>4, FS_Surjection
<1>5. \A T \in sets : IsFiniteSet(T)
  BY <1>4
<1>6. IsFiniteSet(UNION sets)
  <2> HIDE DEF sets
  <2> QED BY <1>3, <1>5, FS_UNION
<1>7. Candidates(a) = UNION sets
  BY DEF Candidates
<1>8. \A T \in sets : T \subseteq Found
  BY PlacesOf
<1> QED BY <1>6, <1>7, <1>8

(* The place at which a path is found is its own.                          *)
LEMMA KeyOf ==
    ASSUME NEW a \in Arguments, NEW p \in Candidates(a)
    PROVE  /\ SortKey(a, p) \in Keys
           /\ SortKey(a, p)[1] = IF Exists(p) THEN 0 ELSE 1
           /\ p = FoundIn(a, SortKey(a, p)[3])[SortKey(a, p)[4]]
<1> DEFINE S == {n \in DOMAIN Places(a) : p \in ToSet(FoundIn(a, n))}
           m == PlaceOf(a, p)
           s == FoundIn(a, m)
           T == {k \in DOMAIN s : s[k] = p}
           k == TurnOf(a, p)
<1>1. S \subseteq Nat /\ S # {}
  BY PlacesOf DEF Candidates
<1>2. m = Min(S) /\ m \in S
  BY <1>1, MinOf DEF PlaceOf
<1>3. DOMAIN s \subseteq Nat /\ p \in ToSet(s) /\ m \in Nat
  BY <1>1, <1>2, PlacesOf
<1>4. T \subseteq Nat /\ T # {}
  BY <1>3 DEF ToSet
<1>5. k = Min(T) /\ k \in T
  BY <1>4, MinOf DEF TurnOf
<1>6. k \in Nat /\ s[k] = p
  BY <1>4, <1>5
<1>7. NameRank[p] \in Nat
  <2>1. p \in Executables \cup Missing
    BY CandidatesAreFinite DEF Found
  <2> QED BY <2>1, LocatorAssumption
<1> DEFINE e == IF Exists(p) THEN 0 ELSE 1
<1>8. SortKey(a, p) = <<e, NameRank[p], m, k>>
  BY DEF SortKey
<1>9. e \in Nat
  OBVIOUS
<1>10. e = IF Exists(p) THEN 0 ELSE 1
  OBVIOUS
<1>11. s = FoundIn(a, m)
  OBVIOUS
<1> HIDE DEF e, m, s, k, S, T
<1>12. SortKey(a, p) \in Keys /\ SortKey(a, p)[1] = e /\ SortKey(a, p)[3] = m /\ SortKey(a, p)[4] = k
  BY <1>3, <1>6, <1>7, <1>8, <1>9 DEF Keys
<1> QED BY <1>6, <1>10, <1>11, <1>12

(* Every candidate is listed once, in the order of the keys.               *)
LEMMA ListOf ==
    ASSUME NEW a \in Arguments, NEW list, list = FindInstallations(a)
    PROVE  /\ list \in Seq(Candidates(a)) /\ ToSet(list) = Candidates(a)
           /\ Len(list) = Cardinality(Candidates(a)) /\ Len(list) \in Nat
           /\ \A i, j \in 1 .. Len(list) : i < j => Before(SortKey(a, list[i]), SortKey(a, list[j]))
<1> DEFINE C == Candidates(a)
           I == Installs(a)
           N == Cardinality(I)
           g == [p \in C |-> [path |-> p, key |-> SortKey(a, p)]]
           R == {c \in I \X I : Before(c[1].key, c[2].key)}
           f == [n \in 1 .. N |-> CHOOSE x \in I : Cardinality({y \in I : <<y, x>> \in R}) = n - 1]
<1>1. I = {[path |-> p, key |-> SortKey(a, p)] : p \in C}
  BY DEF Installs
<1>2. \A x \in I : x.path \in C /\ x.key = SortKey(a, x.path) /\ x = [path |-> x.path, key |-> x.key]
  BY <1>1
<1>3. IsFiniteSet(C) /\ g \in Surjection(C, I) /\ g \in Injection(C, I)
  <2>1. g \in Surjection(C, I)
    BY <1>1 DEF Surjection
  <2>2. \A p, q \in C : g[p] = g[q] => p = q
    <3>1. \A p \in C : g[p].path = p
      OBVIOUS
    <3> HIDE DEF g
    <3> QED BY <3>1
  <2>3. g \in Injection(C, I)
    <3>1. g \in [C -> I]
      BY <1>1
    <3> HIDE DEF g
    <3> QED BY <2>2, <3>1 DEF Injection, IsInjective
  <2> QED BY <2>1, <2>3, CandidatesAreFinite
<1>4. IsFiniteSet(I) /\ N = Cardinality(C)
  <2> HIDE DEF g, I, C
  <2>1. IsFiniteSet(I) /\ (Cardinality(I) = Cardinality(C) <=> g \in Injection(C, I))
    BY <1>3, FS_Surjection
  <2> QED BY <1>3, <2>1 DEF N
<1>5. N \in Nat
  BY <1>4, FS_CardinalityType
<1> HIDE DEF g
<1>6. \A x, y \in I : <<x, y>> \in R <=> Before(SortKey(a, x.path), SortKey(a, y.path))
  BY <1>2
<1>7. \A x \in I : /\ SortKey(a, x.path) \in Keys
                   /\ x.path = FoundIn(a, SortKey(a, x.path)[3])[SortKey(a, x.path)[4]]
  BY <1>2, KeyOf
<1>8. \A x \in I : <<x, x>> \notin R
  <2> HIDE DEF R, I
  <2> QED BY <1>6, <1>7, KeysAreOrdered
<1>9. \A x, y, z \in I : <<x, y>> \in R /\ <<y, z>> \in R => <<x, z>> \in R
  <2> HIDE DEF R, I
  <2>1. TAKE x, y, z \in I
  <2>2. PICK u \in Keys, v \in Keys, w \in Keys :
           u = SortKey(a, x.path) /\ v = SortKey(a, y.path) /\ w = SortKey(a, z.path)
    BY <1>7
  <2>3. Before(u, v) /\ Before(v, w) => Before(u, w)
    BY KeysAreOrdered
  <2> QED BY <1>6, <2>2, <2>3
<1>10. \A x, y \in I : x # y => <<x, y>> \in R \/ <<y, x>> \in R
  <2> HIDE DEF R, I
  <2>1. SUFFICES ASSUME NEW x \in I, NEW y \in I, <<x, y>> \notin R, <<y, x>> \notin R PROVE x = y
    OBVIOUS
  <2>2. PICK u \in Keys, v \in Keys : u = SortKey(a, x.path) /\ v = SortKey(a, y.path)
    BY <1>7
  <2>3. ~Before(u, v) /\ ~Before(v, u)
    BY <1>6, <2>1, <2>2
  <2>4. u[3] = v[3] /\ u[4] = v[4]
    BY <2>3, KeysAreOrdered
  <2>5. x.path = y.path
    BY <1>7, <2>2, <2>4
  <2> QED BY <1>2, <2>5
<1>11. /\ f \in [1 .. N -> I]
       /\ \A x \in I : \E n \in 1 .. N : f[n] = x
       /\ \A i, j \in 1 .. N : i < j => <<f[i], f[j]>> \in R
  <2>1. PICK S, Q, h : S = I /\ Q = R /\ h = f
    OBVIOUS
  <2> HIDE DEF R, I
  <2>2. h = [n \in 1 .. Cardinality(S) |-> CHOOSE x \in S : Cardinality({y \in S : <<y, x>> \in Q}) = n - 1]
    BY <2>1
  <2>3. /\ IsFiniteSet(S) /\ \A x \in S : <<x, x>> \notin Q
        /\ \A x, y, z \in S : <<x, y>> \in Q /\ <<y, z>> \in Q => <<x, z>> \in Q
        /\ \A x, y \in S : x # y => <<x, y>> \in Q \/ <<y, x>> \in Q
    BY <1>4, <1>8, <1>9, <1>10, <2>1
  <2>4. /\ h \in [1 .. Cardinality(S) -> S]
        /\ \A x \in S : \E n \in 1 .. Cardinality(S) : h[n] = x
        /\ \A i, j \in 1 .. Cardinality(S) : i < j => <<h[i], h[j]>> \in Q
    <3>1. (/\ IsFiniteSet(S) /\ \A x \in S : <<x, x>> \notin Q
           /\ \A x, y, z \in S : <<x, y>> \in Q /\ <<y, z>> \in Q => <<x, z>> \in Q
           /\ \A x, y \in S : x # y => <<x, y>> \in Q \/ <<y, x>> \in Q
           /\ h = [n \in 1 .. Cardinality(S) |->
                     CHOOSE x \in S : Cardinality({y \in S : <<y, x>> \in Q}) = n - 1])
          => (/\ h \in [1 .. Cardinality(S) -> S]
              /\ \A x \in S : \E n \in 1 .. Cardinality(S) : h[n] = x
              /\ \A i, j \in 1 .. Cardinality(S) : i < j => <<h[i], h[j]>> \in Q)
      BY RanksAreAList, ZenonT(30)
    <3> QED BY <2>2, <2>3, <3>1, Zenon
  <2> HIDE DEF f
  <2> QED BY <2>1, <2>4 DEF N
<1>12. list = [n \in 1 .. N |-> f[n].path]
  <2>1. \A x, y \in I : <<y, x>> \in R <=> Before(y.key, x.key)
    OBVIOUS
  <2>2. \A x \in I : {y \in I : Before(y.key, x.key)} = {y \in I : <<y, x>> \in R}
    BY <2>1
  <2>3. \A n : (CHOOSE x \in I : Cardinality({y \in I : Before(y.key, x.key)}) = n - 1)
             = (CHOOSE x \in I : Cardinality({y \in I : <<y, x>> \in R}) = n - 1)
    <3> HIDE DEF I, R
    <3> QED BY <2>2
  <2>4. list = [n \in 1 .. N |-> (CHOOSE x \in I : Cardinality({y \in I : Before(y.key, x.key)}) = n - 1).path]
    BY Zenon DEF FindInstallations
  <2> HIDE DEF I, R, N
  <2> QED BY <2>3, <2>4
<1> HIDE DEF f, R, N
<1>13. ASSUME NEW n \in 1 .. N PROVE list[n] = f[n].path /\ list[n] \in C /\ f[n] \in I
  <2>1. f[n] \in I /\ list[n] = f[n].path
    BY <1>11, <1>12
  <2> HIDE DEF I, C
  <2> QED BY <1>2, <2>1
<1> HIDE DEF I, C
<1>14. list \in Seq(C) /\ Len(list) = N /\ DOMAIN list = 1 .. N
  <2>1. list \in [1 .. N -> C]
    BY <1>12, <1>13
  <2>2. list \in Seq(C)
    BY <1>5, <2>1 DEF Seq
  <2> QED BY <1>5, <2>1, <2>2, LenProperties
<1>15. ToSet(list) = C
  <2>1. ASSUME NEW p \in C PROVE \E n \in 1 .. N : list[n] = p
    <3>1. PICK x \in I : x.path = p
      <4>1. [path |-> p, key |-> SortKey(a, p)] \in I
        BY <1>1
      <4> QED BY <4>1
    <3>2. PICK n \in 1 .. N : f[n] = x
      BY <1>11
    <3> QED BY <1>13, <3>1, <3>2
  <2> QED BY <1>13, <1>14, <2>1 DEF ToSet
<1>16. ASSUME NEW i \in 1 .. N, NEW j \in 1 .. N, i < j PROVE Before(SortKey(a, list[i]), SortKey(a, list[j]))
  <2>1. <<f[i], f[j]>> \in R
    BY <1>11, <1>16
  <2> QED BY <1>6, <1>13, <2>1
<1> QED BY <1>4, <1>5, <1>14, <1>15, <1>16 DEF C

(* What the property says of a list is true of that of any argument.       *)
ListedRight(a, found) ==
    LET expected == UNION {ToSet(ResolveExecutableCandidates(path)) :
                        path \in ToSet(a \o Configured \o Platform)}
    IN /\ ToSet(found) = expected /\ Len(found) = Cardinality(expected)
       /\ \A n \in 1 .. (Len(found) - 1) : Exists(found[n + 1]) => Exists(found[n])
       /\ (ResolveExecutablePath(a) = <<>>) <=> (expected \cap Executables = {})

LEMMA AnswerIsRight ==
    ASSUME NEW a \in Arguments, NEW found, found = FindInstallations(a) PROVE ListedRight(a, found)
<1> DEFINE expected == UNION {ToSet(ResolveExecutableCandidates(path)) :
                           path \in ToSet(a \o Configured \o Platform)}
<1>1. expected = Candidates(a)
  <2>1. expected = UNION {ToSet(ResolveExecutableCandidates(path)) : path \in ToSet(Places(a))}
    BY DEF Places
  <2>2. {ToSet(ResolveExecutableCandidates(path)) : path \in ToSet(Places(a))}
        = {ToSet(FoundIn(a, n)) : n \in DOMAIN Places(a)}
    BY DEF ToSet, FoundIn
  <2> QED BY <2>1, <2>2 DEF Candidates
<1> HIDE DEF expected
<1>2. /\ found \in Seq(Candidates(a)) /\ ToSet(found) = Candidates(a)
      /\ Len(found) = Cardinality(Candidates(a)) /\ Len(found) \in Nat
      /\ \A i, j \in 1 .. Len(found) : i < j => Before(SortKey(a, found[i]), SortKey(a, found[j]))
  BY ListOf
<1>3. DOMAIN found = 1 .. Len(found) /\ \A n \in 1 .. Len(found) : found[n] \in Candidates(a)
  BY <1>2, LenProperties, ElementOfSeq
<1>4. ASSUME NEW n \in 1 .. (Len(found) - 1), Exists(found[n + 1]) PROVE Exists(found[n])
  <2>1. n \in 1 .. Len(found) /\ n + 1 \in 1 .. Len(found) /\ n < n + 1
    BY <1>2, <1>4
  <2>2. PICK k, l : k = SortKey(a, found[n]) /\ l = SortKey(a, found[n + 1])
    OBVIOUS
  <2>3. Before(k, l)
    BY <1>2, <2>1, <2>2
  <2>4. k \in Keys /\ k[1] = IF Exists(found[n]) THEN 0 ELSE 1
    BY <1>3, <2>1, <2>2, KeyOf
  <2>5. l[1] = 0
    BY <1>3, <1>4, <2>1, <2>2, KeyOf
  <2>6. k[1] < 0 \/ k[1] = 0
    BY <2>3, <2>5, BeforeIs
  <2> QED BY <2>4, <2>6
<1>5. (ResolveExecutablePath(a) = <<>>) <=> (expected \cap Executables = {})
  <2> DEFINE exist == {n \in DOMAIN found : Exists(found[n])}
  <2>1. ResolveExecutablePath(a) = IF exist = {} THEN <<>> ELSE <<found[Min(exist)]>>
    BY DEF ResolveExecutablePath
  <2>2. exist = {} <=> (expected \cap Executables = {})
    BY <1>1, <1>2 DEF ToSet, Exists
  <2> HIDE DEF exist
  <2>3. \A x : <<x>> # <<>>
    OBVIOUS
  <2> QED BY <2>1, <2>2, <2>3
<1> QED BY <1>1, <1>2, <1>4, <1>5 DEF ListedRight, expected

(* Only the end of the tool makes a result for ida_find_installations.     *)
FoundIsAnswer ==
    \A m \in Msgs : shape[m] = "find" /\ built[m].kind = "result" =>
        built[m].found = FindInstallations(idaPath[m])

LEMMA InstallsFoundNext == ASSUME FrontInv, FoundIsAnswer, [Next]_vars PROVE FoundIsAnswer'
<1>1. ASSUME UNCHANGED <<clientVars, built>> PROVE FoundIsAnswer'
  BY <1>1 DEF FoundIsAnswer, clientVars
<1>2. TypeOK /\ ResponsesFit
  BY DEF FrontInv
<1>3. ASSUME NEW m \in Msgs, Dispatch(m) PROVE FoundIsAnswer'
  <2>1. UNCHANGED clientVars /\ \A k \in Msgs \ {m} : built'[k] = built[k]
    BY <1>2, <1>3, ServeFacts
  <2>2. shape[m] # "find"
    BY <1>3 DEF Dispatch, Tools
  <2> QED BY <2>1, <2>2 DEF FoundIsAnswer, clientVars
<1>4. ASSUME NEW m \in Msgs, EndTool(m) PROVE FoundIsAnswer'
  <2>1. UNCHANGED clientVars /\ \A k \in Msgs \ {m} : built'[k] = built[k]
    BY <1>2, <1>4, ServeFacts
  <2>2. shape[m] = "find" => built'[m].found = FindInstallations(idaPath[m])
    BY <1>2, <1>4 DEF EndTool, TypeOK, Response
  <2> QED BY <2>1, <2>2 DEF FoundIsAnswer, clientVars
<1>5. ASSUME NEW m \in Msgs,
             \/ Post(m) \/ WriteLine(m) \/ BeginTool(m)
             \/ AnswerOverHttp(m) \/ AnswerOnStdout(m) \/ AnswerOverBridge(m) \/ AnswerNobody(m)
      PROVE  FoundIsAnswer'
  BY <1>1, <1>5
     DEF Post, WriteLine, BeginTool, AnswerOverHttp, AnswerOnStdout, AnswerOverBridge, AnswerNobody
<1>6. ASSUME NEW c \in Clients, ReadLine(c) \/ GiveUp(c) PROVE FoundIsAnswer'
  BY <1>1, <1>6 DEF ReadLine, GiveUp
<1>7. CASE UNCHANGED vars
  BY <1>1, <1>7 DEF vars, serverVars
<1> QED BY <1>3, <1>4, <1>5, <1>6, <1>7 DEF Next, Serve

(* ida_find_installations tells every candidate once, what exists before   *)
(* what does not, and ida_launch_file finds an executable if there is one. *)
(* The list is a sequence of ranks: an order in which as many candidates   *)
(* come before one as have a smaller key is a list of them all, sorted.    *)
THEOREM InstallationsAreListed == Spec => []InstallationsListed
<1>1. Init => FoundIsAnswer
  BY DEF Init, FoundIsAnswer, NoResponse
<1>2. FrontInv /\ FoundIsAnswer /\ [Next]_vars => FoundIsAnswer'
  BY InstallsFoundNext
<1>3. ASSUME FrontInv, FoundIsAnswer PROVE InstallationsListed
  <2> SUFFICES ASSUME NEW m \in Msgs, shape[m] = "find", built[m].kind = "result"
               PROVE  ListedRight(idaPath[m], built[m].found)
    BY DEF InstallationsListed, ListedRight
  <2>1. idaPath[m] \in Arguments
    BY <1>3 DEF FrontInv, TypeOK
  <2>2. built[m].found = FindInstallations(idaPath[m])
    BY <1>3 DEF FoundIsAnswer
  <2> QED BY <2>1, <2>2, AnswerIsRight
<1>4. FrontInv /\ FoundIsAnswer => InstallationsListed
  BY <1>3
<1> QED BY <1>1, <1>2, <1>4, FrontInvariant, PTL DEF Spec

-----------------------------------------------------------------------------
(* Types, by what the variables are about.                                 *)

ProcessTypes ==
    /\ state \in [Procs -> ProcStates]
    /\ pidOf \in [Procs -> Pids \cup {NoPid}]
    /\ doc \in [Procs -> Files \cup {NoFile}]
    /\ opened \in [Procs -> SUBSET Files]

ClientTypes ==
    /\ home \in [Insts -> Procs \cup {NoProc}]
    /\ frames \in [Insts -> Seq(Metadata)]
    /\ late \in [Insts -> TargetInfos]
    /\ targets \in [Insts -> TargetInfos]

CallTypes ==
    /\ listed \in [Pids -> Procs \cup {NoProc}]
    /\ started \subseteq Procs
    /\ pc \in [Calls -> {"idle", "polling", "closing", "done"}]
    /\ wanted \in [Calls -> Files \cup {NoFile}]
    /\ asked \in [Calls -> Insts \cup {NoInst}]
    /\ force \in [Calls -> BOOLEAN]
    /\ hit \in [Calls -> Procs \cup {NoProc}]
    /\ report \in [Calls -> Reports]

LEMMA TypeParts == WindowsTypeOK <=> ProcessTypes /\ ClientTypes /\ CallTypes
BY DEF WindowsTypeOK, ProcessTypes, ClientTypes, CallTypes

LEMMA ReportTypes ==
    /\ NoReport \in Reports /\ Failed \in Reports
    /\ \A f \in Files, i \in Insts \cup {NoInst} : LaunchedReport(f, i) \in Reports
    /\ \A k \in Calls : asked[k] \in Insts \cup {NoInst} => ClosedReport(k) \in Reports
BY DEF Reports, NoReport, Failed, LaunchedReport, ClosedReport

LEMMA MetadataTypes ==
    /\ NoMetadata \in TargetInfos
    /\ \A m \in Metadata : m # NoMetadata /\ m \in TargetInfos /\ m.pid \in Pids
    /\ \A m \in TargetInfos : m.file \in Files \cup {NoFile} /\ m.name \in Names
    /\ \A m \in TargetInfos : m # NoMetadata => m \in Metadata
BY WindowAssumption DEF TargetInfos, Metadata, NoMetadata, Names

LEMMA NormalizeTypes ==
    ASSUME NEW m \in Metadata, NEW t \in TargetInfos
    PROVE  NormalizeMetadata(m, t) \in Metadata
BY MetadataTypes DEF NormalizeMetadata, FirstUseful, Metadata, Names

(* What a plugin says of itself is metadata.                               *)
LEMMA CollectTypes ==
    ASSUME ProcessTypes, ClientTypes, NEW i \in Insts, Living(i), PidsAreUnique,
           NEW m \in CollectMetadata(i)
    PROVE  /\ m \in Metadata
           /\ m.pid = pidOf[home[i]]
           /\ m.file # NoFile => m.file = doc[home[i]]
<1>1. home[i] \in Procs /\ pidOf[home[i]] \in Pids /\ doc[home[i]] \in Files \cup {NoFile}
  BY DEF Living, ProcessTypes, ClientTypes, PidsAreUnique
<1> QED BY <1>1 DEF CollectMetadata, Metadata, Names

LEMMA TypeInit == WindowsInit => WindowsTypeOK
BY ReportTypes, MetadataTypes DEF WindowsInit, WindowsTypeOK, ProcStates

LEMMA ProcessTypesNext == ProcessTypes /\ [WindowsNext]_windowVars => ProcessTypes'
<1> SUFFICES ASSUME ProcessTypes, [WindowsNext]_windowVars PROVE ProcessTypes'
  OBVIOUS
<1> USE DEF ProcessTypes
<1>1. ASSUME NEW p \in Procs, StartIda(p) \/ CloseDatabase(p) \/ ProcessExits(p) PROVE ProcessTypes'
  BY <1>1 DEF StartIda, CloseDatabase, ProcessExits, Spawn, Gone, ProcStates
<1>2. ASSUME NEW i \in Insts, NEW p \in Procs, OpenDatabase(i, p) PROVE ProcessTypes'
  BY <1>2 DEF OpenDatabase
<1>3. ASSUME NEW k \in Calls, Launch(k) PROVE ProcessTypes'
  BY <1>3 DEF Launch, Spawn, ProcStates
<1>4. ASSUME NEW k \in Calls, EndClose(k) PROVE ProcessTypes'
  BY <1>4 DEF EndClose, Gone, ProcStates
<1>5. CASE UNCHANGED processVars
  BY <1>5 DEF processVars
<1> QED
  BY <1>1, <1>2, <1>3, <1>4, <1>5
  DEF WindowsNext, Environment, Registration, ToolBegins, ToolGoesOn, SendMetadata, AnswerMetadata,
      HandleMetadata, RefreshTargetMetadata, RemoveTarget, RefuseLaunch, CloseTarget, FoundTarget,
      WaitIsOver, windowVars

LEMMA ClientTypesNext ==
    ProcessTypes /\ ClientTypes /\ PidsAreUnique /\ [WindowsNext]_windowVars => ClientTypes'
<1> SUFFICES ASSUME ProcessTypes, ClientTypes, PidsAreUnique, [WindowsNext]_windowVars
             PROVE  ClientTypes'
  OBVIOUS
<1> USE DEF ClientTypes
<1>1. ASSUME NEW i \in Insts, NEW p \in Procs, OpenDatabase(i, p) PROVE ClientTypes'
  BY <1>1 DEF OpenDatabase
<1>2. ASSUME NEW i \in Insts, SendMetadata(i) PROVE ClientTypes'
  BY <1>2, CollectTypes DEF SendMetadata
<1>3. ASSUME NEW i \in Insts, AnswerMetadata(i) PROVE ClientTypes'
  BY <1>3, CollectTypes, MetadataTypes DEF AnswerMetadata
<1>4. ASSUME NEW i \in Insts, HandleMetadata(i) PROVE ClientTypes'
  <2>1. Head(frames[i]) \in Metadata /\ Tail(frames[i]) \in Seq(Metadata)
    BY <1>4 DEF HandleMetadata
  <2> QED BY <1>4, <2>1, NormalizeTypes, MetadataTypes DEF HandleMetadata, UpsertMetadata
<1>5. ASSUME NEW i \in Insts, RefreshTargetMetadata(i) PROVE ClientTypes'
  BY <1>5, NormalizeTypes, MetadataTypes DEF RefreshTargetMetadata, UpsertMetadata
<1>6. ASSUME NEW i \in Insts, RemoveTarget(i) PROVE ClientTypes'
  BY <1>6, MetadataTypes DEF RemoveTarget
<1>7. CASE UNCHANGED <<instVars, targets>>
  BY <1>7 DEF instVars
<1> QED
  BY <1>1, <1>2, <1>3, <1>4, <1>5, <1>6, <1>7
  DEF WindowsNext, Environment, Registration, ToolBegins, ToolGoesOn, StartIda, CloseDatabase,
      ProcessExits, RefuseLaunch, Launch, CloseTarget, FoundTarget, WaitIsOver, EndClose, windowVars

LEMMA CallTypesNext ==
    ProcessTypes /\ CallTypes /\ ClosingIsFound /\ [WindowsNext]_windowVars => CallTypes'
<1> SUFFICES ASSUME ProcessTypes, CallTypes, ClosingIsFound, [WindowsNext]_windowVars
             PROVE  CallTypes'
  OBVIOUS
<1> USE ReportTypes DEF CallTypes, Proceed, Finish, argVars
<1>1. ASSUME NEW k \in Calls, RefuseLaunch(k) PROVE CallTypes'
  BY <1>1 DEF RefuseLaunch
<1>2. ASSUME NEW k \in Calls, Launch(k) PROVE CallTypes'
  BY <1>2 DEF Launch, ListProcess
<1>3. ASSUME NEW k \in Calls, FoundTarget(k) PROVE CallTypes'
  BY <1>3 DEF FoundTarget, ClosingIsFound
<1>4. ASSUME NEW k \in Calls, WaitIsOver(k) PROVE CallTypes'
  BY <1>4 DEF WaitIsOver, ClosingIsFound
<1>5. ASSUME NEW k \in Calls, CloseTarget(k) PROVE CallTypes'
  BY <1>5 DEF CloseTarget
<1>6. ASSUME NEW k \in Calls, EndClose(k) PROVE CallTypes'
  BY <1>6 DEF EndClose
<1>7. CASE UNCHANGED <<listed, started, callVars>>
  BY <1>7 DEF callVars
<1> QED
  BY <1>1, <1>2, <1>3, <1>4, <1>5, <1>6, <1>7
  DEF WindowsNext, Environment, Registration, ToolBegins, ToolGoesOn, StartIda, OpenDatabase,
      CloseDatabase, ProcessExits, SendMetadata, AnswerMetadata, HandleMetadata,
      RefreshTargetMetadata, RemoveTarget, windowVars

-----------------------------------------------------------------------------
(* What stays: a process that has run keeps its id, a window its process.  *)

Stays ==
    /\ \A p \in Procs :
          /\ state[p] # "off" => state'[p] # "off" /\ pidOf'[p] = pidOf[p]
          /\ state[p] = "gone" => state'[p] = "gone"
          /\ opened[p] \subseteq opened'[p]
    /\ \A i \in Insts : home[i] # NoProc => home'[i] = home[i]

LEMMA StaysNext == ProcessTypes /\ ClientTypes /\ ClosingIsFound /\ [WindowsNext]_windowVars => Stays
<1> SUFFICES ASSUME ProcessTypes, ClientTypes, ClosingIsFound, [WindowsNext]_windowVars PROVE Stays
  OBVIOUS
<1> USE DEF ProcessTypes, ClientTypes, Stays, ProcStates
<1>1. ASSUME NEW p \in Procs, StartIda(p) \/ CloseDatabase(p) \/ ProcessExits(p) PROVE Stays
  BY <1>1 DEF StartIda, CloseDatabase, ProcessExits, Spawn, Gone, instVars
<1>2. ASSUME NEW i \in Insts, NEW p \in Procs, OpenDatabase(i, p) PROVE Stays
  BY <1>2 DEF OpenDatabase
<1>3. ASSUME NEW k \in Calls, Launch(k) PROVE Stays
  BY <1>3 DEF Launch, Spawn, instVars
<1>4. ASSUME NEW k \in Calls, EndClose(k) PROVE Stays
  <2>1. state[hit[k]] = "up" => hit[k] \in Procs
    BY <1>4 DEF EndClose, ClosingIsFound
  <2> QED BY <1>4, <2>1 DEF EndClose, Gone, instVars
<1>5. CASE UNCHANGED <<processVars, home>>
  BY <1>5 DEF processVars
<1> QED
  BY <1>1, <1>2, <1>3, <1>4, <1>5
  DEF WindowsNext, Environment, Registration, ToolBegins, ToolGoesOn, SendMetadata, AnswerMetadata,
      HandleMetadata, RefreshTargetMetadata, RemoveTarget, RefuseLaunch, CloseTarget, FoundTarget,
      WaitIsOver, windowVars, instVars

LEMMA SpeaksStill ==
    ASSUME ProcessTypes, Stays, NEW i \in Insts, NEW m, SpeaksOf(i, m)
    PROVE  SpeaksOf(i, m)' /\ home'[i] = home[i]
BY WindowAssumption DEF SpeaksOf, Stays, ProcessTypes

(* A process starts with an id that no running process has.                *)
LEMMA SpawnPids ==
    ASSUME ProcessTypes, PidsAreUnique, NEW p \in Procs, NEW n \in Pids, Spawn(p, n)
    PROVE  PidsAreUnique'
BY DEF ProcessTypes, PidsAreUnique, Spawn, FreePid

LEMMA PidsNext ==
    ProcessTypes /\ ClosingIsFound /\ PidsAreUnique /\ [WindowsNext]_windowVars => PidsAreUnique'
<1> SUFFICES ASSUME ProcessTypes, ClosingIsFound, PidsAreUnique, [WindowsNext]_windowVars
             PROVE  PidsAreUnique'
  OBVIOUS
<1>1. ASSUME NEW p \in Procs, StartIda(p) PROVE PidsAreUnique'
  BY <1>1, SpawnPids DEF StartIda
<1>2. ASSUME NEW k \in Calls, Launch(k) PROVE PidsAreUnique'
  BY <1>2, SpawnPids DEF Launch
<1>3. ASSUME NEW p \in Procs, state[p] # "off", Gone(p), UNCHANGED pidOf PROVE PidsAreUnique'
  BY <1>3 DEF ProcessTypes, Gone, PidsAreUnique
<1>4. ASSUME NEW p \in Procs, ProcessExits(p) PROVE PidsAreUnique'
  BY <1>3, <1>4 DEF ProcessExits
<1>5. ASSUME NEW k \in Calls, EndClose(k) PROVE PidsAreUnique'
  <2>1. CASE Gone(hit[k]) /\ state[hit[k]] = "up"
    BY <1>3, <1>5, <2>1 DEF EndClose, ClosingIsFound
  <2>2. CASE UNCHANGED state
    BY <1>5, <2>2 DEF EndClose, PidsAreUnique
  <2> QED BY <1>5, <2>1, <2>2 DEF EndClose
<1>6. CASE UNCHANGED <<state, pidOf>>
  BY <1>6 DEF PidsAreUnique
<1> QED
  BY <1>1, <1>2, <1>4, <1>5, <1>6
  DEF WindowsNext, Environment, Registration, ToolBegins, ToolGoesOn, OpenDatabase, CloseDatabase,
      SendMetadata, AnswerMetadata, HandleMetadata, RefreshTargetMetadata, RemoveTarget,
      RefuseLaunch, CloseTarget, FoundTarget, WaitIsOver, windowVars, processVars

LEMMA OpenFilesNext ==
    ProcessTypes /\ ClosingIsFound /\ OpenFilesAreOpened /\ [WindowsNext]_windowVars =>
        OpenFilesAreOpened'
<1> SUFFICES ASSUME ProcessTypes, ClosingIsFound, OpenFilesAreOpened, [WindowsNext]_windowVars
             PROVE  OpenFilesAreOpened'
  OBVIOUS
<1> USE DEF ProcessTypes, OpenFilesAreOpened
<1>1. ASSUME NEW p \in Procs, StartIda(p) \/ CloseDatabase(p) \/ ProcessExits(p)
      PROVE  OpenFilesAreOpened'
  BY <1>1 DEF StartIda, CloseDatabase, ProcessExits, Spawn, Gone
<1>2. ASSUME NEW i \in Insts, NEW p \in Procs, OpenDatabase(i, p) PROVE OpenFilesAreOpened'
  BY <1>2 DEF OpenDatabase
<1>3. ASSUME NEW k \in Calls, Launch(k) PROVE OpenFilesAreOpened'
  BY <1>3 DEF Launch, Spawn
<1>4. ASSUME NEW k \in Calls, EndClose(k) PROVE OpenFilesAreOpened'
  <2>1. CASE Gone(hit[k]) /\ state[hit[k]] = "up"
    BY <1>4, <2>1 DEF EndClose, Gone, ClosingIsFound
  <2>2. CASE UNCHANGED <<state, doc>>
    BY <1>4, <2>2 DEF EndClose
  <2> QED BY <1>4, <2>1, <2>2 DEF EndClose
<1>5. CASE UNCHANGED processVars
  BY <1>5 DEF processVars
<1> QED
  BY <1>1, <1>2, <1>3, <1>4, <1>5
  DEF WindowsNext, Environment, Registration, ToolBegins, ToolGoesOn, SendMetadata, AnswerMetadata,
      HandleMetadata, RefreshTargetMetadata, RemoveTarget, RefuseLaunch, CloseTarget, FoundTarget,
      WaitIsOver, windowVars

-----------------------------------------------------------------------------
(* Metadata is that of the window it is about.                             *)

LEMMA CollectIsOwn ==
    ASSUME ProcessTypes, ClientTypes, PidsAreUnique, OpenFilesAreOpened, NEW i \in Insts, Living(i),
           NEW m \in CollectMetadata(i)
    PROVE  SpeaksOf(i, m)
BY CollectTypes, WindowAssumption DEF SpeaksOf, Living, ClientTypes, OpenFilesAreOpened

LEMMA NormalizeIsOwn ==
    ASSUME NEW i \in Insts, NEW m, SpeaksOf(i, m), NEW t, t # NoMetadata => SpeaksOf(i, t)
    PROVE  SpeaksOf(i, NormalizeMetadata(m, t))
BY DEF SpeaksOf, NormalizeMetadata, FirstUseful, NoMetadata

LEMMA MetadataNext ==
    ASSUME ProcessTypes, ClientTypes, PidsAreUnique, OpenFilesAreOpened, MetadataIsOwn, Stays,
           [WindowsNext]_windowVars, ClientTypes'
    PROVE  MetadataIsOwn'
<1> DEFINE Own(i) == /\ \A n \in DOMAIN frames'[i] : SpeaksOf(i, frames'[i][n])
                     /\ late'[i] # NoMetadata => SpeaksOf(i, late'[i])
                     /\ targets'[i] # NoMetadata => SpeaksOf(i, targets'[i])
<1> USE DEF ClientTypes
<1>1. \A i \in Insts : home'[i] # NoProc => home'[i] \in Procs /\ state'[home'[i]] # "off"
  <2>1. ASSUME NEW j \in Insts, NEW p \in Procs, OpenDatabase(j, p)
        PROVE  \A i \in Insts : home'[i] # NoProc => state'[home'[i]] # "off"
    BY <2>1 DEF OpenDatabase, MetadataIsOwn, Stays
  <2>2. CASE UNCHANGED home
    BY <2>2 DEF MetadataIsOwn, Stays
  <2> QED
    BY <2>1, <2>2
    DEF WindowsNext, Environment, Registration, ToolBegins, ToolGoesOn, StartIda, CloseDatabase,
        ProcessExits, SendMetadata, AnswerMetadata, HandleMetadata, RefreshTargetMetadata,
        RemoveTarget, RefuseLaunch, Launch, CloseTarget, FoundTarget, WaitIsOver, EndClose,
        windowVars, instVars
<1>2. ASSUME NEW j \in Insts, SendMetadata(j), NEW i \in Insts PROVE Own(i)
  <2>1. PICK m \in CollectMetadata(j) : frames' = [frames EXCEPT ![j] = Append(@, m)]
    BY <1>2 DEF SendMetadata
  <2>2. SpeaksOf(j, m) /\ m \in Metadata
    BY <1>2, CollectIsOwn, CollectTypes DEF SendMetadata
  <2> QED BY <1>2, <2>1, <2>2 DEF SendMetadata, MetadataIsOwn
<1>3. ASSUME NEW j \in Insts, AnswerMetadata(j), NEW i \in Insts PROVE Own(i)
  BY <1>3, CollectIsOwn DEF AnswerMetadata, MetadataIsOwn
<1>4. ASSUME NEW j \in Insts, HandleMetadata(j), NEW i \in Insts PROVE Own(i)
  <2>1. SpeaksOf(j, Head(frames[j]))
    BY <1>4 DEF HandleMetadata, MetadataIsOwn
  <2>2. SpeaksOf(j, NormalizeMetadata(Head(frames[j]), targets[j]))
    BY <2>1, NormalizeIsOwn DEF MetadataIsOwn
  <2>3. targets'[i] # NoMetadata => SpeaksOf(i, targets'[i])
    BY <1>4, <2>2 DEF HandleMetadata, UpsertMetadata, MetadataIsOwn
  <2>4. \A n \in DOMAIN frames'[i] : SpeaksOf(i, frames'[i][n])
    BY <1>4 DEF HandleMetadata, MetadataIsOwn
  <2> QED BY <1>4, <2>3, <2>4 DEF HandleMetadata, MetadataIsOwn
<1>5. ASSUME NEW j \in Insts, RefreshTargetMetadata(j), NEW i \in Insts PROVE Own(i)
  <2>1. SpeaksOf(j, NormalizeMetadata(late[j], targets[j]))
    BY <1>5, NormalizeIsOwn DEF RefreshTargetMetadata, MetadataIsOwn
  <2> QED BY <1>5, <2>1 DEF RefreshTargetMetadata, UpsertMetadata, MetadataIsOwn
<1>6. ASSUME NEW j \in Insts, RemoveTarget(j), NEW i \in Insts PROVE Own(i)
  BY <1>6 DEF RemoveTarget, MetadataIsOwn
<1>7. ASSUME UNCHANGED <<frames, late, targets>>, NEW i \in Insts PROVE Own(i)
  BY <1>7 DEF MetadataIsOwn
<1>8. \A i \in Insts : Own(i)
  BY <1>2, <1>3, <1>4, <1>5, <1>6, <1>7
  DEF WindowsNext, Environment, Registration, ToolBegins, ToolGoesOn, StartIda, OpenDatabase,
      CloseDatabase, ProcessExits, RefuseLaunch, Launch, CloseTarget, FoundTarget, WaitIsOver,
      EndClose, windowVars, instVars
<1> QED BY <1>1, <1>8, SpeaksStill DEF MetadataIsOwn

-----------------------------------------------------------------------------
(* Tool calls.                                                             *)

LEMMA ClosingNext ==
    ASSUME ProcessTypes, ClientTypes, CallTypes, MetadataIsOwn, Stays, ClosingIsFound,
           [WindowsNext]_windowVars
    PROVE  ClosingIsFound'
<1> USE WindowAssumption DEF CallTypes, ClosingIsFound, Proceed, Finish, argVars
<1>1. \A i \in Insts : home[i] \in Procs => home'[i] \in Procs
  BY DEF Stays
<1>2. ASSUME NEW k \in Calls, RefuseLaunch(k) PROVE ClosingIsFound'
  BY <1>1, <1>2 DEF RefuseLaunch
<1>3. ASSUME NEW k \in Calls, Launch(k) PROVE ClosingIsFound'
  BY <1>1, <1>3 DEF Launch
<1>4. ASSUME NEW k \in Calls, FoundTarget(k) \/ WaitIsOver(k) PROVE ClosingIsFound'
  BY <1>1, <1>4 DEF FoundTarget, WaitIsOver
<1>5. ASSUME NEW k \in Calls, CloseTarget(k) PROVE ClosingIsFound'
  <2>1. PICK i \in Insts, forced \in BOOLEAN :
          /\ asked' = [asked EXCEPT ![k] = i]
          /\ \/ /\ Registered(i)
                /\ \E p \in Procs : ProcessOf(i, p) /\ hit' = [hit EXCEPT ![k] = p]
                /\ pc' = [pc EXCEPT ![k] = "closing"]
             \/ pc' = [pc EXCEPT ![k] = "done"] /\ UNCHANGED hit
    BY <1>5 DEF CloseTarget
  <2>2. Registered(i) => home[i] \in Procs
    BY DEF Registered, MetadataIsOwn, SpeaksOf
  <2> QED BY <1>1, <1>5, <2>1, <2>2 DEF CloseTarget
<1>6. ASSUME NEW k \in Calls, EndClose(k) PROVE ClosingIsFound'
  BY <1>1, <1>6 DEF EndClose
<1>7. CASE UNCHANGED callVars
  BY <1>1, <1>7 DEF callVars
<1> QED
  BY <1>2, <1>3, <1>4, <1>5, <1>6, <1>7
  DEF WindowsNext, Environment, Registration, ToolBegins, ToolGoesOn, StartIda, OpenDatabase,
      CloseDatabase, ProcessExits, SendMetadata, AnswerMetadata, HandleMetadata,
      RefreshTargetMetadata, RemoveTarget, windowVars

(* A target that is found by its path is a window that had the file open.  *)
LEMMA FoundHasFile ==
    ASSUME ClientTypes, MetadataIsOwn, NEW i \in Insts, NEW f \in Files, SamePath(f, i)
    PROVE  home[i] \in Procs /\ f \in opened[home[i]]
BY WindowAssumption DEF SamePath, Registered, MetadataIsOwn, SpeaksOf

Launched(k) == report[k].kind = "launched" /\ report[k].target # NoInst
RealLaunch(k) ==
    /\ report[k].target \in Insts
    /\ home[report[k].target] \in Procs
    /\ report[k].file \in opened[home[report[k].target]]

LEMMA LaunchParts ==
    ASSUME CallTypes
    PROVE  (\A k \in Calls : Launched(k) => RealLaunch(k)) <=> ReportsAreReal /\ LaunchReportsItsFile
BY DEF CallTypes, Reports, Launched, RealLaunch, ReportsAreReal, LaunchReportsItsFile

LEMMA ReportsNext ==
    ASSUME ProcessTypes, ClientTypes, CallTypes, CallTypes', MetadataIsOwn, Stays, ClosingIsFound,
           ReportsAreReal, LaunchReportsItsFile, [WindowsNext]_windowVars
    PROVE  (ReportsAreReal /\ LaunchReportsItsFile)'
<1> DEFINE Kept(k) == report'[k] = report[k] \/ report'[k].kind # "launched" \/ report'[k].target = NoInst
<1>1. ASSUME NEW k \in Calls, Launched(k), report'[k] = report[k] PROVE RealLaunch(k)'
  <2>1. RealLaunch(k)
    BY <1>1, LaunchParts
  <2>2. home'[report[k].target] = home[report[k].target]
    BY <2>1, WindowAssumption DEF RealLaunch, Stays
  <2> QED BY <1>1, <2>1, <2>2 DEF RealLaunch, Stays
<1>2. ASSUME NEW k \in Calls, FoundTarget(k) PROVE \A j \in Calls : Kept(j) \/ RealLaunch(j)'
  <2>1. PICK i \in Insts : SamePath(wanted[k], i) /\ report' = [report EXCEPT ![k] = LaunchedReport(wanted[k], i)]
    BY <1>2 DEF FoundTarget, Finish
  <2>2. wanted[k] \in Files
    BY <1>2 DEF FoundTarget, ClosingIsFound
  <2>3. home[i] \in Procs /\ wanted[k] \in opened[home[i]]
    BY <2>1, <2>2, FoundHasFile
  <2>4. home'[i] \in Procs /\ wanted[k] \in opened'[home'[i]]
    BY <2>3, WindowAssumption DEF Stays
  <2> QED BY <2>1, <2>4 DEF LaunchedReport, RealLaunch, CallTypes
<1>3. ASSUME NEW k \in Calls, RefuseLaunch(k) \/ Launch(k) \/ WaitIsOver(k) \/ CloseTarget(k) \/ EndClose(k)
      PROVE  \A j \in Calls : Kept(j)
  BY <1>3 DEF RefuseLaunch, Launch, WaitIsOver, CloseTarget, EndClose, Finish, Failed, NoReport,
              LaunchedReport, ClosedReport, CallTypes
<1>4. ASSUME UNCHANGED report PROVE \A j \in Calls : Kept(j)
  BY <1>4
<1>5. \A j \in Calls : Kept(j) \/ RealLaunch(j)'
  BY <1>2, <1>3, <1>4
  DEF WindowsNext, Environment, Registration, ToolBegins, ToolGoesOn, StartIda, OpenDatabase,
      CloseDatabase, ProcessExits, SendMetadata, AnswerMetadata, HandleMetadata,
      RefreshTargetMetadata, RemoveTarget, windowVars, callVars
<1>6. \A k \in Calls : Launched(k)' => RealLaunch(k)'
  BY <1>1, <1>5 DEF Launched
<1> QED BY <1>6, LaunchParts DEF CallTypes, Reports, Launched, RealLaunch, ReportsAreReal, LaunchReportsItsFile

StartedHaveRun == \A p \in started : state[p] # "off"

LEMMA ListedNext ==
    ASSUME ProcessTypes, CallTypes, PidsAreUnique, Stays, ClosingIsFound, StartedHaveRun,
           RunningLaunchesListed, [WindowsNext]_windowVars, ProcessTypes'
    PROVE  StartedHaveRun' /\ RunningLaunchesListed'
<1> USE DEF ProcessTypes, CallTypes, StartedHaveRun, RunningLaunchesListed
<1>1. ASSUME NEW k \in Calls, Launch(k) PROVE StartedHaveRun' /\ RunningLaunchesListed'
  <2>1. PICK p \in Procs, n \in Pids : /\ Spawn(p, n) /\ ListProcess(p, n)
                                      /\ started' = started \cup {p}
    BY <1>1 DEF Launch
  <2> QED BY <2>1, <1>1 DEF Spawn, FreePid, ListProcess, PidsAreUnique
<1>2. ASSUME UNCHANGED <<listed, started>>, \A p \in started : state'[p] = "up" => state[p] = "up"
      PROVE  StartedHaveRun' /\ RunningLaunchesListed'
  BY <1>2 DEF Stays
<1>3. ASSUME NEW p \in Procs, StartIda(p) \/ CloseDatabase(p) \/ ProcessExits(p)
      PROVE  StartedHaveRun' /\ RunningLaunchesListed'
  BY <1>2, <1>3 DEF StartIda, CloseDatabase, ProcessExits, Spawn, Gone
<1>4. ASSUME NEW i \in Insts, NEW p \in Procs, OpenDatabase(i, p)
      PROVE  StartedHaveRun' /\ RunningLaunchesListed'
  BY <1>2, <1>4 DEF OpenDatabase
<1>5. ASSUME NEW k \in Calls, EndClose(k) PROVE StartedHaveRun' /\ RunningLaunchesListed'
  <2>1. hit[k] \in Procs
    BY <1>5 DEF EndClose, ClosingIsFound
  <2> QED BY <1>2, <1>5, <2>1 DEF EndClose, Gone
<1>6. CASE UNCHANGED <<processVars, listed, started>>
  BY <1>2, <1>6 DEF processVars
<1> QED
  BY <1>1, <1>3, <1>4, <1>5, <1>6
  DEF WindowsNext, Environment, Registration, ToolBegins, ToolGoesOn, SendMetadata, AnswerMetadata,
      HandleMetadata, RefreshTargetMetadata, RemoveTarget, RefuseLaunch, CloseTarget, FoundTarget,
      WaitIsOver, windowVars

(* The process with the id of a registration is that of its window, or     *)
(* that one is gone.                                                       *)
LEMMA FoundProcess ==
    ASSUME ProcessTypes, ClientTypes, PidsAreUnique, MetadataIsOwn, NEW i \in Insts, Registered(i),
           NEW p \in Procs, ProcessOf(i, p)
    PROVE  home[i] \in Procs /\ (p = home[i] \/ state[home[i]] = "gone")
BY DEF ProcessTypes, ClientTypes, PidsAreUnique, MetadataIsOwn, Registered, ProcessOf, SpeaksOf, ProcStates

LEMMA CloseNext ==
    ASSUME ProcessTypes, ClientTypes, CallTypes, PidsAreUnique, MetadataIsOwn, Stays, ClosingIsFound,
           CloseHitsItsWindow, [WindowsNext]_windowVars
    PROVE  CloseHitsItsWindow'
<1> USE DEF CallTypes
<1> DEFINE Right(k) == hit[k] # NoProc => hit[k] = home[asked[k]] \/ state[home[asked[k]]] = "gone"
<1>1. ASSUME NEW k \in Calls, hit'[k] = hit[k], hit[k] # NoProc => asked'[k] = asked[k] PROVE Right(k)'
  <2>1. Right(k)
    BY DEF CloseHitsItsWindow
  <2>2. hit[k] # NoProc => home'[asked[k]] = home[asked[k]] /\ home[asked[k]] \in Procs
    BY WindowAssumption DEF Stays, ClosingIsFound
  <2> QED BY <1>1, <2>1, <2>2 DEF Stays
<1>2. ASSUME NEW k \in Calls, CloseTarget(k), NEW j \in Calls PROVE Right(j)'
  <2>1. PICK i \in Insts, forced \in BOOLEAN :
          /\ asked' = [asked EXCEPT ![k] = i]
          /\ \/ /\ Registered(i)
                /\ \E p \in Procs : ProcessOf(i, p) /\ hit' = [hit EXCEPT ![k] = p]
             \/ UNCHANGED hit
    BY <1>2 DEF CloseTarget
  <2>2. hit[k] = NoProc /\ UNCHANGED <<home, state>>
    BY <1>2 DEF CloseTarget, ClosingIsFound, processVars, instVars
  <2>3. CASE j = k /\ Registered(i) /\ \E p \in Procs : ProcessOf(i, p) /\ hit' = [hit EXCEPT ![k] = p]
    <3>1. PICK p \in Procs : ProcessOf(i, p) /\ hit' = [hit EXCEPT ![k] = p]
      BY <2>3
    <3>2. p = home[i] \/ state[home[i]] = "gone"
      BY <2>3, <3>1, FoundProcess
    <3> QED BY <2>1, <2>2, <2>3, <3>1, <3>2
  <2>4. CASE hit'[j] = hit[j] /\ (j = k \/ asked'[j] = asked[j])
    BY <1>1, <2>2, <2>4
  <2> QED BY <2>1, <2>3, <2>4
<1>3. ASSUME UNCHANGED <<asked, hit>>, NEW j \in Calls PROVE Right(j)'
  BY <1>1, <1>3
<1>4. \A j \in Calls : Right(j)'
  BY <1>2, <1>3
  DEF WindowsNext, Environment, Registration, ToolBegins, ToolGoesOn, StartIda, OpenDatabase,
      CloseDatabase, ProcessExits, SendMetadata, AnswerMetadata, HandleMetadata,
      RefreshTargetMetadata, RemoveTarget, RefuseLaunch, Launch, FoundTarget, WaitIsOver,
      EndClose, windowVars, callVars, argVars
<1> QED BY <1>4 DEF CloseHitsItsWindow

-----------------------------------------------------------------------------
(* The invariant of Windows holds initially and is kept by every step.     *)
LEMMA WindowInit == WindowsInit => WindowInv
<1> SUFFICES ASSUME WindowsInit PROVE WindowInv
  OBVIOUS
<1>1. PidsAreUnique /\ OpenFilesAreOpened
  BY DEF WindowsInit, PidsAreUnique, OpenFilesAreOpened
<1>2. MetadataIsOwn
  BY DEF WindowsInit, MetadataIsOwn
<1>3. ClosingIsFound /\ ReportsAreReal /\ LaunchReportsItsFile /\ CloseHitsItsWindow
  BY DEF WindowsInit, ClosingIsFound, ReportsAreReal, LaunchReportsItsFile, CloseHitsItsWindow, NoReport
<1>4. (\A p \in started : state[p] # "off") /\ RunningLaunchesListed
  BY DEF WindowsInit, RunningLaunchesListed
<1> QED BY TypeInit, <1>1, <1>2, <1>3, <1>4 DEF WindowInv

LEMMA WindowNext == WindowInv /\ [WindowsNext]_windowVars => WindowInv'
<1> SUFFICES ASSUME WindowInv, [WindowsNext]_windowVars PROVE WindowInv'
  OBVIOUS
<1>1. /\ ProcessTypes /\ ClientTypes /\ CallTypes
      /\ PidsAreUnique /\ MetadataIsOwn /\ OpenFilesAreOpened /\ ClosingIsFound
      /\ ReportsAreReal /\ LaunchReportsItsFile /\ CloseHitsItsWindow
      /\ StartedHaveRun /\ RunningLaunchesListed
  BY TypeParts DEF WindowInv, StartedHaveRun
<1>2. ProcessTypes' /\ ClientTypes' /\ CallTypes'
  BY <1>1, ProcessTypesNext, ClientTypesNext, CallTypesNext
<1>3. WindowsTypeOK'
  BY <1>2 DEF WindowsTypeOK, ProcessTypes, ClientTypes, CallTypes
<1>4. Stays
  BY <1>1, StaysNext
<1>5. PidsAreUnique' /\ OpenFilesAreOpened'
  BY <1>1, PidsNext, OpenFilesNext
<1>6. MetadataIsOwn' /\ ClosingIsFound'
  BY <1>1, <1>2, <1>4, MetadataNext, ClosingNext
<1>7. ReportsAreReal' /\ LaunchReportsItsFile' /\ CloseHitsItsWindow'
  BY <1>1, <1>2, <1>4, ReportsNext, CloseNext
<1>8. StartedHaveRun' /\ RunningLaunchesListed'
  BY <1>1, <1>2, <1>4, ListedNext
<1> QED BY <1>3, <1>5, <1>6, <1>7, <1>8 DEF WindowInv, StartedHaveRun

(* Windows: the inductive invariant, for any number of processes, ids,     *)
(* clients and calls.                                                      *)
THEOREM WindowInvariant == WindowsSpec => []WindowInv
BY WindowInit, WindowNext, PTL DEF WindowsSpec

(* Every reachable state is well typed.                                    *)
THEOREM TypeCorrect == WindowsSpec => []WindowsTypeOK
<1>1. WindowInv => WindowsTypeOK
  BY DEF WindowInv
<1> QED BY <1>1, WindowInvariant, PTL

(* ida_close_target closes the window it was asked to close, or that one   *)
(* is gone, however process ids are given out again.                       *)
THEOREM ClosesAreRight == WindowsSpec => []CloseHitsItsWindow
<1>1. WindowInv => CloseHitsItsWindow
  BY DEF WindowInv
<1> QED BY <1>1, WindowInvariant, PTL

(* ida_launch_file reports a window that has had the launched file open.   *)
THEOREM LaunchesAreRight == WindowsSpec => []LaunchReportsItsFile
<1>1. WindowInv => LaunchReportsItsFile
  BY DEF WindowInv
<1> QED BY <1>1, WindowInvariant, PTL

(* ida_list_launched_processes has every launched process that runs.       *)
THEOREM LaunchesAreListed == WindowsSpec => []RunningLaunchesListed
<1>1. WindowInv => RunningLaunchesListed
  BY DEF WindowInv
<1> QED BY <1>1, WindowInvariant, PTL

(* NormalizeMetadata takes neither a path nor a real name away.            *)
LEMMA NormalizeKeeps ==
    ASSUME NEW m \in Metadata, NEW t \in TargetInfos
    PROVE  /\ t.file # NoFile => NormalizeMetadata(m, t).file # NoFile
           /\ t.name = "real" => NormalizeMetadata(m, t).name = "real"
BY DEF NormalizeMetadata, FirstUseful

KnownKept(i) ==
    Registered(i) /\ targets'[i] # NoMetadata =>
        /\ targets[i].file # NoFile => targets'[i].file # NoFile
        /\ targets[i].name = "real" => targets'[i].name = "real"

LEMMA KnownStep == ASSUME ClientTypes, [WindowsNext]_windowVars, NEW i \in Insts PROVE KnownKept(i)
<1> USE DEF ClientTypes, KnownKept
<1>1. ASSUME NEW j \in Insts, HandleMetadata(j) PROVE KnownKept(i)
  <2>1. Head(frames[j]) \in Metadata
    BY <1>1 DEF HandleMetadata
  <2> QED BY <1>1, <2>1, NormalizeKeeps DEF HandleMetadata, UpsertMetadata
<1>2. ASSUME NEW j \in Insts, RefreshTargetMetadata(j) PROVE KnownKept(i)
  <2>1. late[j] \in Metadata
    BY <1>2, MetadataTypes DEF RefreshTargetMetadata
  <2> QED BY <1>2, <2>1, NormalizeKeeps DEF RefreshTargetMetadata, UpsertMetadata
<1>3. ASSUME NEW j \in Insts, RemoveTarget(j) PROVE KnownKept(i)
  BY <1>3 DEF RemoveTarget
<1>4. CASE UNCHANGED targets
  BY <1>4
<1> QED
  BY <1>1, <1>2, <1>3, <1>4
  DEF WindowsNext, Environment, Registration, ToolBegins, ToolGoesOn, StartIda, OpenDatabase,
      CloseDatabase, ProcessExits, SendMetadata, AnswerMetadata, RefuseLaunch, Launch,
      CloseTarget, FoundTarget, WaitIsOver, EndClose, windowVars

(* A path or a real name that the registry knows of a window stays known   *)
(* as long as the window is registered.                                    *)
THEOREM KnownIsKept == WindowsSpec => KnownStaysKnown
<1>1. WindowInv /\ [WindowsNext]_windowVars => [\A i \in Insts : KnownKept(i)]_windowVars
  BY TypeParts, KnownStep DEF WindowInv
<1>2. [\A i \in Insts : KnownKept(i)]_windowVars =>
        [\A i \in Insts : Registered(i) /\ targets'[i] # NoMetadata =>
            /\ targets[i].file # NoFile => targets'[i].file # NoFile
            /\ targets[i].name = "real" => targets'[i].name = "real"]_windowVars
  BY DEF KnownKept
<1> QED BY <1>1, <1>2, WindowInvariant, PTL DEF WindowsSpec, KnownStaysKnown

-----------------------------------------------------------------------------
(* The plugin directory.  Types first.                                     *)

LEMMA IndexIsNat == ASSUME Plugin!InstallAssumption PROVE Plugin!Cardinality(Contents) \in Nat
BY FS_CardinalityType
   DEF Plugin!InstallAssumption, Plugin!Cardinality, Cardinality, Plugin!IsFiniteSet, IsFiniteSet

LEMMA NoJobType == ASSUME Plugin!InstallAssumption PROVE Plugin!NoJob \in Plugin!Jobs
BY DEF Plugin!NoJob, Plugin!Jobs, Plugin!InstallAssumption

LEMMA PlaceType ==
    ASSUME Plugin!InstallAssumption, Plugin!TypeOK, NEW n \in Legacy,
           NEW i \in 0..Plugin!Cardinality(Contents)
    PROVE  Plugin!Place(n, i) \in Plugin!Places
BY DEF Plugin!TypeOK, Plugin!Place, Plugin!Places, Plugin!Jobs

LEMMA ResolvedType ==
    ASSUME Plugin!InstallAssumption, Plugin!TypeOK PROVE Plugin!ResolvePluginsDirectory \in Dirs
BY DEF Plugin!ResolvePluginsDirectory, Plugin!TypeOK, Plugin!InstallAssumption

LEMMA FoundType ==
    ASSUME Plugin!TypeOK, NEW d \in Dirs, NEW names, names \subseteq Plugin!LegacyPluginPaths(d)
    PROVE  {legacy[d][n] : n \in names} \subseteq Contents
BY DEF Plugin!TypeOK, Plugin!LegacyPluginPaths

LEMMA ArchiveType ==
    ASSUME Plugin!InstallAssumption, Plugin!TypeOK, NEW kind \in {"install", "archive"},
           NEW d \in Dirs, NEW keep, Plugin!BeginArchive(kind, d, keep)
    PROVE  job' \in Plugin!Jobs /\ todo' \subseteq Legacy /\ pluginStep' = "moving"
<1> DEFINE names == IF keep THEN {} ELSE Plugin!LegacyPluginPaths(d)
<1>1. names \subseteq Plugin!LegacyPluginPaths(d) /\ names \subseteq Legacy
  BY DEF Plugin!LegacyPluginPaths
<1>2. {legacy[d][n] : n \in names} \in SUBSET Contents
  BY <1>1, FoundType
<1> HIDE DEF names
<1>3. PICK sec \in 0..MaxStamp :
        job' = [kind |-> kind, dir |-> d, stamp |-> sec, found |-> {legacy[d][n] : n \in names}]
  BY DEF Plugin!BeginArchive, names
<1>4. job' \in Plugin!Jobs
  BY <1>2, <1>3 DEF Plugin!Jobs
<1> QED BY <1>1, <1>4 DEF Plugin!BeginArchive, names

LEMMA PluginTypeInit == ASSUME Plugin!InstallAssumption, Plugin!Init PROVE Plugin!TypeOK
<1>1. package \in [Dirs -> SUBSET Plugin!VersionedFiles]
  BY DEF Plugin!Init, Plugin!VersionedFiles, Plugin!Files
<1>2. job \in Plugin!Jobs
  BY NoJobType DEF Plugin!Init
<1> QED BY <1>1, <1>2 DEF Plugin!Init, Plugin!TypeOK, Plugin!Loaders

LEMMA PluginTypeUser ==
    ASSUME Plugin!InstallAssumption, Plugin!TypeOK, Plugin!User
    PROVE  Plugin!TypeOK'
<1>1. ASSUME NEW d \in Dirs, NEW n \in Legacy, NEW c \in Contents, Plugin!UserPlaces(d, n, c)
      PROVE  Plugin!TypeOK'
  BY <1>1 DEF Plugin!UserPlaces, Plugin!TypeOK, Plugin!jobVars
<1>2. CASE Plugin!PickDirectory \/ Plugin!SetLanguage
  BY <1>2 DEF Plugin!PickDirectory, Plugin!SetLanguage, Plugin!TypeOK, Plugin!fileVars,
         Plugin!jobVars
<1> QED BY <1>1, <1>2 DEF Plugin!User

LEMMA PluginTypeInstall ==
    ASSUME Plugin!InstallAssumption, Plugin!TypeOK, NEW d \in Dirs, NEW keep,
           Plugin!BeginInstall(d, keep)
    PROVE  Plugin!TypeOK'
<1>1. job' \in Plugin!Jobs /\ todo' \subseteq Legacy /\ pluginStep' = "moving"
  BY ArchiveType DEF Plugin!BeginInstall
<1> QED BY <1>1 DEF Plugin!BeginInstall, Plugin!TypeOK

LEMMA PluginTypeUninstall ==
    ASSUME Plugin!InstallAssumption, Plugin!TypeOK, NEW d \in Dirs, Plugin!BeginUninstall(d)
    PROVE  Plugin!TypeOK'
<1>1. job' \in Plugin!Jobs
  BY DEF Plugin!BeginUninstall, Plugin!Jobs, Plugin!InstallAssumption
<1> QED BY <1>1 DEF Plugin!BeginUninstall, Plugin!DeleteLoader, Plugin!TypeOK, Plugin!Loaders

LEMMA PluginTypeBegin ==
    ASSUME Plugin!InstallAssumption, Plugin!TypeOK, Plugin!Begin
    PROVE  Plugin!TypeOK'
<1>1. CASE Plugin!ArchiveLegacyPlugins
  <2>1. job' \in Plugin!Jobs /\ todo' \subseteq Legacy /\ pluginStep' = "moving"
    BY <1>1, ArchiveType, ResolvedType DEF Plugin!ArchiveLegacyPlugins
  <2> QED BY <1>1, <2>1 DEF Plugin!ArchiveLegacyPlugins, Plugin!TypeOK, Plugin!fileVars
<1>2. CASE Plugin!InstallOrRepair \/ Plugin!InstallScript
  BY <1>2, PluginTypeInstall, ResolvedType DEF Plugin!InstallOrRepair, Plugin!InstallScript
<1>3. CASE Plugin!Uninstall \/ Plugin!UninstallScript
  BY <1>3, PluginTypeUninstall, ResolvedType DEF Plugin!Uninstall, Plugin!UninstallScript
<1> QED BY <1>1, <1>2, <1>3 DEF Plugin!Begin

LEMMA PluginTypeMove ==
    ASSUME Plugin!InstallAssumption, Plugin!TypeOK, NEW n \in Legacy, Plugin!MoveLegacy(n)
    PROVE  Plugin!TypeOK'
<1>1. job.dir \in Dirs
  BY DEF Plugin!TypeOK, Plugin!Jobs
<1>2. PICK i \in 0..Plugin!Cardinality(Contents) :
        backups' = [backups EXCEPT ![Plugin!Place(n, i)] = legacy[job.dir][n]]
  BY DEF Plugin!MoveLegacy
<1>3. backups' \in [Plugin!Places -> Contents \cup {NoContent}]
  <2>1. legacy[job.dir][n] \in Contents \cup {NoContent}
    BY <1>1 DEF Plugin!TypeOK
  <2>2. backups \in [Plugin!Places -> Contents \cup {NoContent}]
    BY DEF Plugin!TypeOK
  <2>3. PICK p, v : p = Plugin!Place(n, i) /\ v = legacy[job.dir][n]
    OBVIOUS
  <2>4. backups' = [backups EXCEPT ![p] = v] /\ v \in Contents \cup {NoContent}
    BY <1>2, <2>1, <2>3
  <2> QED BY <2>2, <2>4
<1> QED BY <1>1, <1>3 DEF Plugin!MoveLegacy, Plugin!TypeOK

LEMMA PluginTypeStep ==
    ASSUME Plugin!InstallAssumption, Plugin!TypeOK, Plugin!Step \/ Plugin!Interrupt
    PROVE  Plugin!TypeOK'
<1> USE DEF Plugin!TypeOK, Plugin!fileVars, Plugin!jobVars, Plugin!Leave
<1>1. job.dir \in Dirs
  BY DEF Plugin!Jobs
<1>2. CASE \E n \in Legacy : Plugin!MoveLegacy(n)
  BY <1>2, PluginTypeMove
<1>3. CASE \/ Plugin!ArchivingEnds \/ Plugin!DeleteDirectory \/ Plugin!CreateDirectory
           \/ Plugin!Interrupt
  BY <1>1, <1>3, NoJobType DEF Plugin!ArchivingEnds, Plugin!DeleteDirectory, Plugin!CreateDirectory,
         Plugin!Interrupt
<1>4. ASSUME NEW f \in Plugin!VersionedFiles, Plugin!DeleteFile(f) PROVE Plugin!TypeOK'
  BY <1>1, <1>4 DEF Plugin!DeleteFile
<1>5. ASSUME NEW f \in NewFiles, Plugin!CopyFile(f) PROVE Plugin!TypeOK'
  <2>1. <<f, "new">> \in Plugin!VersionedFiles
    BY DEF Plugin!VersionedFiles, Plugin!Files
  <2> QED BY <1>1, <1>5, <2>1 DEF Plugin!CopyFile
<1>6. CASE Plugin!TruncateLoader \/ Plugin!WriteLoader
  BY <1>1, <1>6, NoJobType DEF Plugin!TruncateLoader, Plugin!WriteLoader, Plugin!Loaders
<1> QED BY <1>2, <1>3, <1>4, <1>5, <1>6 DEF Plugin!Step

LEMMA PluginTypeNext ==
    ASSUME Plugin!InstallAssumption, Plugin!TypeOK, [Plugin!Next]_(Plugin!vars)
    PROVE  Plugin!TypeOK'
<1>1. CASE UNCHANGED Plugin!vars
  BY <1>1 DEF Plugin!vars, Plugin!fileVars, Plugin!jobVars, Plugin!TypeOK
<1> QED BY <1>1, PluginTypeUser, PluginTypeBegin, PluginTypeStep DEF Plugin!Next

-----------------------------------------------------------------------------
(* The plugins of the user.                                                *)

(* A step moves one plugin into a free place, adds one, or leaves both the *)
(* plugins in place and the backups alone.                                 *)
LEMMA MoveOrKeep ==
    ASSUME [Plugin!Next]_(Plugin!vars)
    PROVE  \/ \E d \in Dirs, n \in Legacy, c \in Contents : Plugin!UserPlaces(d, n, c)
           \/ \E n \in Legacy : Plugin!MoveLegacy(n)
           \/ UNCHANGED <<legacy, backups, placed>>
BY DEF Plugin!Next, Plugin!User, Plugin!Begin, Plugin!Step, Plugin!Interrupt, Plugin!PickDirectory,
       Plugin!SetLanguage, Plugin!ArchiveLegacyPlugins, Plugin!InstallOrRepair,
       Plugin!InstallScript, Plugin!BeginInstall, Plugin!Uninstall, Plugin!UninstallScript,
       Plugin!BeginUninstall, Plugin!ArchivingEnds, Plugin!DeleteFile, Plugin!DeleteDirectory,
       Plugin!CreateDirectory, Plugin!CopyFile, Plugin!TruncateLoader, Plugin!WriteLoader,
       Plugin!vars, Plugin!fileVars

LEMMA LegacyNext ==
    ASSUME Plugin!InstallAssumption, Plugin!TypeOK, Plugin!LegacyIsPlaced,
           [Plugin!Next]_(Plugin!vars)
    PROVE  Plugin!LegacyIsPlaced'
<1> USE DEF Plugin!LegacyIsPlaced
<1>1. ASSUME NEW d \in Dirs, NEW n \in Legacy, NEW c \in Contents, Plugin!UserPlaces(d, n, c)
      PROVE  Plugin!LegacyIsPlaced'
  BY <1>1 DEF Plugin!UserPlaces, Plugin!TypeOK
<1>2. ASSUME NEW n \in Legacy, Plugin!MoveLegacy(n) PROVE Plugin!LegacyIsPlaced'
  BY <1>2 DEF Plugin!MoveLegacy, Plugin!TypeOK
<1>3. CASE UNCHANGED <<legacy, placed>>
  BY <1>3
<1> QED BY <1>1, <1>2, <1>3, MoveOrKeep

(* A backup is made in a free place, so it takes nothing away.             *)
LEMMA MoveSaves ==
    ASSUME Plugin!InstallAssumption, Plugin!TypeOK, NEW n \in Legacy, Plugin!MoveLegacy(n),
           NEW c \in Contents, Plugin!InPlace(c) \/ Plugin!InBackup(c)
    PROVE  (Plugin!InPlace(c) \/ Plugin!InBackup(c))'
<1>1. job.dir \in Dirs
  BY DEF Plugin!TypeOK, Plugin!Jobs
<1>2. PICK i \in 0..Plugin!Cardinality(Contents) :
        /\ Plugin!UniqueDestination(n, i)
        /\ backups' = [backups EXCEPT ![Plugin!Place(n, i)] = legacy[job.dir][n]]
  BY DEF Plugin!MoveLegacy
<1>3. Plugin!Place(n, i) \in Plugin!Places /\ backups[Plugin!Place(n, i)] = NoContent
  BY <1>2, PlaceType DEF Plugin!UniqueDestination
<1>4. c # NoContent
  BY DEF Plugin!InstallAssumption
<1>5. CASE Plugin!InBackup(c)
  <2>1. PICK p \in Plugin!Places : backups[p] = c
    BY <1>5 DEF Plugin!InBackup
  <2>2. backups'[p] = c
    BY <1>2, <1>3, <1>4, <2>1 DEF Plugin!TypeOK
  <2> QED BY <2>2 DEF Plugin!InBackup
<1>6. CASE Plugin!InPlace(c)
  <2>1. PICK d \in Dirs, m \in Legacy : legacy[d][m] = c
    BY <1>6 DEF Plugin!InPlace
  <2>2. CASE d = job.dir /\ m = n
    <3>1. backups'[Plugin!Place(n, i)] = c
      BY <1>2, <1>3, <2>1, <2>2 DEF Plugin!TypeOK
    <3> QED BY <1>3, <3>1 DEF Plugin!InBackup
  <2>3. CASE ~(d = job.dir /\ m = n)
    <3>1. legacy'[d][m] = c
      BY <1>1, <2>1, <2>3 DEF Plugin!MoveLegacy, Plugin!TypeOK
    <3> QED BY <3>1 DEF Plugin!InPlace
  <2> QED BY <2>2, <2>3
<1> QED BY <1>5, <1>6

LEMMA SurviveNext ==
    ASSUME Plugin!InstallAssumption, Plugin!TypeOK, Plugin!UserPluginsSurvive,
           [Plugin!Next]_(Plugin!vars)
    PROVE  Plugin!UserPluginsSurvive'
<1>1. ASSUME NEW d \in Dirs, NEW n \in Legacy, NEW c \in Contents, Plugin!UserPlaces(d, n, c)
      PROVE  Plugin!UserPluginsSurvive'
  <2>1. legacy'[d][n] = c
    BY <1>1 DEF Plugin!UserPlaces, Plugin!TypeOK
  <2>2. Plugin!InPlace(c)'
    BY <2>1 DEF Plugin!InPlace
  <2>3. ASSUME NEW b \in placed, b # NoContent PROVE (Plugin!InPlace(b) \/ Plugin!InBackup(b))'
    <3>1. Plugin!InPlace(b) => Plugin!InPlace(b)'
      BY <1>1, <2>3 DEF Plugin!UserPlaces, Plugin!InPlace, Plugin!TypeOK
    <3>2. Plugin!InBackup(b) => Plugin!InBackup(b)'
      BY <1>1 DEF Plugin!UserPlaces, Plugin!InBackup
    <3> QED BY <3>1, <3>2 DEF Plugin!UserPluginsSurvive
  <2>4. NoContent \notin placed
    BY DEF Plugin!TypeOK, Plugin!InstallAssumption
  <2> QED BY <1>1, <2>2, <2>3, <2>4 DEF Plugin!UserPlaces, Plugin!UserPluginsSurvive
<1>2. ASSUME NEW n \in Legacy, Plugin!MoveLegacy(n) PROVE Plugin!UserPluginsSurvive'
  <2>1. \A c \in placed : (Plugin!InPlace(c) \/ Plugin!InBackup(c))'
    BY <1>2, MoveSaves DEF Plugin!UserPluginsSurvive, Plugin!TypeOK
  <2> QED BY <1>2, <2>1 DEF Plugin!MoveLegacy, Plugin!UserPluginsSurvive
<1>3. CASE UNCHANGED <<legacy, backups, placed>>
  BY <1>3 DEF Plugin!UserPluginsSurvive, Plugin!InPlace, Plugin!InBackup
<1> QED BY <1>1, <1>2, <1>3, MoveOrKeep

(* The plugins that a job finds are those it is to move.                   *)
LEMMA ArchiveFinds ==
    ASSUME Plugin!InstallAssumption, Plugin!TypeOK, Plugin!LegacyIsPlaced, NEW d \in Dirs,
           NEW keep, NEW kind, Plugin!BeginArchive(kind, d, keep)
    PROVE  /\ job'.found \subseteq placed /\ job'.dir = d /\ job'.kind = kind
           /\ \A n \in Legacy : legacy[d][n] \in job'.found => n \in todo'
<1> DEFINE names == IF keep THEN {} ELSE Plugin!LegacyPluginPaths(d)
<1>1. names \subseteq Legacy /\ \A n \in names : legacy[d][n] # NoContent
  BY DEF Plugin!LegacyPluginPaths
<1>2. \A m \in Legacy, n \in names : legacy[d][m] = legacy[d][n] => m \in names
  BY DEF Plugin!LegacyPluginPaths
<1>3. todo' = names
  BY DEF Plugin!BeginArchive
<1> HIDE DEF names
<1>4. PICK sec \in 0..MaxStamp :
        job' = [kind |-> kind, dir |-> d, stamp |-> sec, found |-> {legacy[d][n] : n \in names}]
  BY DEF Plugin!BeginArchive, names
<1>5. {legacy[d][n] : n \in names} \subseteq placed
  BY <1>1 DEF Plugin!LegacyIsPlaced
<1> QED BY <1>2, <1>3, <1>4, <1>5

LEMMA FoundBegin ==
    ASSUME Plugin!InstallAssumption, Plugin!TypeOK, Plugin!LegacyIsPlaced, Plugin!Begin
    PROVE  Plugin!FoundIsMoved'
<1>1. ASSUME NEW d \in Dirs, NEW keep, NEW kind, Plugin!BeginArchive(kind, d, keep),
             UNCHANGED <<legacy, placed>>
      PROVE  Plugin!FoundIsMoved'
  BY <1>1, ArchiveFinds DEF Plugin!FoundIsMoved, Plugin!BeginArchive
<1>2. CASE Plugin!ArchiveLegacyPlugins
  BY <1>1, <1>2, ResolvedType DEF Plugin!ArchiveLegacyPlugins, Plugin!fileVars
<1>3. CASE Plugin!InstallOrRepair \/ Plugin!InstallScript
  BY <1>1, <1>3, ResolvedType DEF Plugin!InstallOrRepair, Plugin!InstallScript, Plugin!BeginInstall
<1>4. CASE Plugin!Uninstall \/ Plugin!UninstallScript
  BY <1>4 DEF Plugin!Uninstall, Plugin!UninstallScript, Plugin!BeginUninstall, Plugin!FoundIsMoved
<1> QED BY <1>2, <1>3, <1>4 DEF Plugin!Begin

LEMMA FoundNext ==
    ASSUME Plugin!InstallAssumption, Plugin!TypeOK, Plugin!LegacyIsPlaced,
           Plugin!FoundIsMoved, [Plugin!Next]_(Plugin!vars)
    PROVE  Plugin!FoundIsMoved'
<1> USE DEF Plugin!FoundIsMoved
<1>1. job.dir \in Dirs /\ job.found \subseteq Contents
  BY DEF Plugin!TypeOK, Plugin!Jobs
<1>2. ASSUME NEW d \in Dirs, NEW n \in Legacy, NEW c \in Contents, Plugin!UserPlaces(d, n, c)
      PROVE  Plugin!FoundIsMoved'
  BY <1>1, <1>2 DEF Plugin!UserPlaces, Plugin!TypeOK, Plugin!jobVars
<1>3. ASSUME NEW n \in Legacy, Plugin!MoveLegacy(n) PROVE Plugin!FoundIsMoved'
  <2>1. legacy'[job.dir][n] = NoContent /\ NoContent \notin job.found
    BY <1>1, <1>3 DEF Plugin!MoveLegacy, Plugin!TypeOK, Plugin!InstallAssumption
  <2>2. \A m \in Legacy \ {n} : legacy'[job.dir][m] = legacy[job.dir][m]
    BY <1>1, <1>3 DEF Plugin!MoveLegacy, Plugin!TypeOK
  <2> QED BY <1>3, <2>1, <2>2 DEF Plugin!MoveLegacy
<1>4. CASE pluginStep' = "idle" /\ job' = Plugin!NoJob /\ UNCHANGED placed
  BY <1>4 DEF Plugin!NoJob
<1>5. CASE UNCHANGED <<legacy, placed, job, todo>> /\ (pluginStep = "moving" => pluginStep' = pluginStep \/ todo = {})
           /\ pluginStep # "idle"
  BY <1>5
<1>6. CASE UNCHANGED <<legacy, placed, job, todo, pluginStep>>
  BY <1>6
<1>7. CASE \/ Plugin!ArchivingEnds \/ Plugin!DeleteDirectory \/ Plugin!CreateDirectory
           \/ Plugin!TruncateLoader \/ Plugin!WriteLoader \/ Plugin!Interrupt
  BY <1>4, <1>5, <1>7 DEF Plugin!ArchivingEnds, Plugin!DeleteDirectory, Plugin!CreateDirectory,
         Plugin!TruncateLoader, Plugin!WriteLoader, Plugin!Interrupt, Plugin!Leave, Plugin!fileVars
<1>8. CASE \/ Plugin!PickDirectory \/ Plugin!SetLanguage
           \/ (\E f \in Plugin!VersionedFiles : Plugin!DeleteFile(f))
           \/ (\E f \in NewFiles : Plugin!CopyFile(f)) \/ UNCHANGED Plugin!vars
  BY <1>6, <1>8 DEF Plugin!PickDirectory, Plugin!SetLanguage, Plugin!DeleteFile, Plugin!CopyFile,
         Plugin!vars, Plugin!fileVars, Plugin!jobVars
<1> QED BY <1>2, <1>3, <1>7, <1>8, FoundBegin DEF Plugin!Next, Plugin!User, Plugin!Step

-----------------------------------------------------------------------------
(* The package and its loader.                                             *)

PackageVars == <<loader, hasPackage, package, pluginStep, job>>

LEMMA PackageNext ==
    ASSUME Plugin!InstallAssumption, Plugin!TypeOK, Plugin!PackageIsNew, [Plugin!Next]_(Plugin!vars)
    PROVE  Plugin!PackageIsNew'
<1> USE DEF Plugin!PackageIsNew
<1>1. job.dir \in Dirs
  BY DEF Plugin!TypeOK, Plugin!Jobs
<1>2. CASE pluginStep' \in {"idle", "moving", "deleting"}
  BY <1>2
<1>3. CASE UNCHANGED PackageVars
  BY <1>3 DEF PackageVars, Plugin!Copied
<1>4. CASE Plugin!DeleteDirectory
  BY <1>1, <1>4 DEF Plugin!DeleteDirectory, Plugin!Emptied, Plugin!Leave
<1>5. CASE Plugin!CreateDirectory
  BY <1>1, <1>5 DEF Plugin!CreateDirectory, Plugin!TypeOK
<1>6. ASSUME NEW f \in NewFiles, Plugin!CopyFile(f) PROVE Plugin!PackageIsNew'
  <2>1. package'[job.dir] = (package[job.dir] \ {<<f, "old">>}) \cup {<<f, "new">>}
    BY <1>1, <1>6 DEF Plugin!CopyFile, Plugin!TypeOK
  <2> QED BY <1>6, <2>1 DEF Plugin!CopyFile, Plugin!jobVars
<1>7. CASE Plugin!TruncateLoader
  BY <1>7 DEF Plugin!TruncateLoader, Plugin!Copied
<1>8. ASSUME NEW f \in Plugin!VersionedFiles, Plugin!DeleteFile(f) PROVE pluginStep' = "deleting"
  BY <1>8 DEF Plugin!DeleteFile, Plugin!jobVars
<1>9. CASE Plugin!User
  BY <1>3, <1>9 DEF Plugin!User, Plugin!UserPlaces, Plugin!PickDirectory, Plugin!SetLanguage,
         PackageVars, Plugin!fileVars, Plugin!jobVars
<1>10. CASE Plugin!Begin
  BY <1>2, <1>10 DEF Plugin!Begin, Plugin!ArchiveLegacyPlugins, Plugin!InstallOrRepair,
         Plugin!InstallScript, Plugin!BeginInstall, Plugin!BeginArchive, Plugin!Uninstall,
         Plugin!UninstallScript, Plugin!BeginUninstall
<1>11. CASE \/ (\E n \in Legacy : Plugin!MoveLegacy(n)) \/ Plugin!ArchivingEnds
            \/ Plugin!WriteLoader \/ Plugin!Interrupt
  BY <1>2, <1>11 DEF Plugin!MoveLegacy, Plugin!ArchivingEnds, Plugin!WriteLoader, Plugin!Interrupt,
         Plugin!Leave
<1>12. CASE UNCHANGED Plugin!vars
  BY <1>3, <1>12 DEF Plugin!vars, Plugin!fileVars, Plugin!jobVars, PackageVars
<1> QED BY <1>2, <1>4, <1>5, <1>6, <1>7, <1>8, <1>9, <1>10, <1>11, <1>12
       DEF Plugin!Next, Plugin!Step

LEMMA UninstallNext ==
    ASSUME Plugin!InstallAssumption, Plugin!TypeOK, Plugin!PackageIsNew,
           Plugin!UninstallHasNoLoader, [Plugin!Next]_(Plugin!vars)
    PROVE  Plugin!UninstallHasNoLoader'
<1> USE DEF Plugin!UninstallHasNoLoader
<1>1. job.dir \in Dirs
  BY DEF Plugin!TypeOK, Plugin!Jobs
<1>2. CASE job'.kind \in {"install", "archive"}
  BY <1>2
<1>3. CASE UNCHANGED <<loader, pluginStep, job>>
  BY <1>3
<1>4. CASE job' = Plugin!NoJob
  BY <1>4, <1>2 DEF Plugin!NoJob
<1>5. ASSUME NEW d \in Dirs, Plugin!BeginUninstall(d) PROVE Plugin!UninstallHasNoLoader'
  BY <1>5 DEF Plugin!BeginUninstall, Plugin!DeleteLoader, Plugin!TypeOK
<1>6. CASE Plugin!Uninstall \/ Plugin!UninstallScript
  BY <1>5, <1>6, ResolvedType DEF Plugin!Uninstall, Plugin!UninstallScript
<1>7. CASE Plugin!ArchiveLegacyPlugins \/ Plugin!InstallOrRepair \/ Plugin!InstallScript
  BY <1>2, <1>7 DEF Plugin!ArchiveLegacyPlugins, Plugin!InstallOrRepair, Plugin!InstallScript,
         Plugin!BeginInstall, Plugin!BeginArchive
<1>8. CASE Plugin!User
  BY <1>3, <1>8 DEF Plugin!User, Plugin!UserPlaces, Plugin!PickDirectory, Plugin!SetLanguage,
         Plugin!fileVars, Plugin!jobVars
<1>9. ASSUME NEW n \in Legacy, Plugin!MoveLegacy(n) PROVE Plugin!UninstallHasNoLoader'
  BY <1>3, <1>9 DEF Plugin!MoveLegacy
<1>10. CASE Plugin!ArchivingEnds
  BY <1>4, <1>10 DEF Plugin!ArchivingEnds, Plugin!Leave
<1>11. ASSUME NEW f \in Plugin!VersionedFiles, Plugin!DeleteFile(f)
       PROVE  Plugin!UninstallHasNoLoader'
  BY <1>3, <1>11 DEF Plugin!DeleteFile, Plugin!jobVars
<1>12. CASE Plugin!DeleteDirectory
  BY <1>4, <1>12, <1>2 DEF Plugin!DeleteDirectory, Plugin!Leave
<1>13. CASE Plugin!CreateDirectory \/ Plugin!TruncateLoader
  BY <1>2, <1>13 DEF Plugin!CreateDirectory, Plugin!TruncateLoader, Plugin!PackageIsNew
<1>14. ASSUME NEW f \in NewFiles, Plugin!CopyFile(f) PROVE Plugin!UninstallHasNoLoader'
  BY <1>3, <1>14 DEF Plugin!CopyFile, Plugin!jobVars
<1>15. CASE Plugin!WriteLoader \/ Plugin!Interrupt
  BY <1>4, <1>15 DEF Plugin!WriteLoader, Plugin!Interrupt, Plugin!Leave
<1>16. CASE UNCHANGED Plugin!vars
  BY <1>3, <1>16 DEF Plugin!vars, Plugin!fileVars, Plugin!jobVars
<1> QED BY <1>6, <1>7, <1>8, <1>9, <1>10, <1>11, <1>12, <1>13, <1>14, <1>15, <1>16
        DEF Plugin!Next, Plugin!Begin, Plugin!Step

-----------------------------------------------------------------------------
LEMMA InstallInit == ASSUME Plugin!InstallAssumption, Plugin!Init PROVE Plugin!InstallInv
<1>1. Plugin!UserPluginsSurvive /\ Plugin!LegacyIsPlaced
  BY DEF Plugin!Init, Plugin!UserPluginsSurvive, Plugin!LegacyIsPlaced
<1>2. Plugin!FoundIsMoved /\ Plugin!PackageIsNew /\ Plugin!UninstallHasNoLoader
  BY DEF Plugin!Init, Plugin!FoundIsMoved, Plugin!PackageIsNew, Plugin!UninstallHasNoLoader,
         Plugin!NoJob
<1> QED BY <1>1, <1>2, PluginTypeInit DEF Plugin!InstallInv

LEMMA InstallNext ==
    ASSUME Plugin!InstallAssumption, Plugin!InstallInv, [Plugin!Next]_(Plugin!vars)
    PROVE  Plugin!InstallInv'
BY PluginTypeNext, SurviveNext, LegacyNext, FoundNext, PackageNext, UninstallNext
   DEF Plugin!InstallInv

(* The inductive invariant, for any directories, plugins and files.        *)
THEOREM InstallInvariant == ASSUME Plugin!InstallAssumption PROVE Plugin!Spec => []Plugin!InstallInv
<1>1. Plugin!Init => Plugin!InstallInv
  BY InstallInit
<1>2. Plugin!InstallInv /\ [Plugin!Next]_(Plugin!vars) => Plugin!InstallInv'
  BY InstallNext
<1> QED BY <1>1, <1>2, PTL DEF Plugin!Spec

(* The variables keep their types.                                         *)
THEOREM InstallTypeCorrect == ASSUME Plugin!InstallAssumption PROVE Plugin!Spec => []Plugin!TypeOK
<1>1. Plugin!InstallInv => Plugin!TypeOK
  BY DEF Plugin!InstallInv
<1> QED BY <1>1, InstallInvariant, PTL

(* However many plugins of one name are archived within a second, and      *)
(* wherever a job stops, each is in place or in a backup.                  *)
THEOREM InstallKeepsPlugins ==
    ASSUME Plugin!InstallAssumption
    PROVE  Plugin!Spec => []Plugin!UserPluginsSurvive
<1>1. Plugin!InstallInv => Plugin!UserPluginsSurvive
  BY DEF Plugin!InstallInv
<1> QED BY <1>1, InstallInvariant, PTL

-----------------------------------------------------------------------------
(* Who writes a loader, and who changes a package.                         *)
LEMMA LoaderSteps ==
    ASSUME Plugin!InstallAssumption, Plugin!TypeOK, [Plugin!Next]_(Plugin!vars),
           NEW d \in Dirs, loader'[d] # loader[d]
    PROVE  (pluginStep = "idle" /\ loader'[d] = "none") \/ Plugin!TruncateLoader \/ Plugin!WriteLoader
<1>1. ASSUME NEW e \in Dirs, Plugin!BeginUninstall(e) PROVE pluginStep = "idle" /\ loader'[d] = "none"
  BY <1>1 DEF Plugin!BeginUninstall, Plugin!DeleteLoader, Plugin!TypeOK
<1>2. CASE Plugin!Uninstall \/ Plugin!UninstallScript
  BY <1>1, <1>2, ResolvedType DEF Plugin!Uninstall, Plugin!UninstallScript
<1>3. CASE UNCHANGED loader
  BY <1>3
<1> QED BY <1>2, <1>3 DEF Plugin!Next, Plugin!User, Plugin!Begin, Plugin!Step, Plugin!Interrupt,
           Plugin!UserPlaces, Plugin!PickDirectory, Plugin!SetLanguage, Plugin!ArchiveLegacyPlugins,
           Plugin!InstallOrRepair, Plugin!InstallScript, Plugin!BeginInstall, Plugin!MoveLegacy,
           Plugin!ArchivingEnds, Plugin!DeleteFile, Plugin!DeleteDirectory, Plugin!CreateDirectory,
           Plugin!CopyFile, Plugin!vars, Plugin!fileVars

LEMMA PackageSteps ==
    ASSUME Plugin!TypeOK, [Plugin!Next]_(Plugin!vars), NEW d \in Dirs, package'[d] # package[d]
    PROVE  d = job.dir /\ (pluginStep = "deleting" \/ pluginStep = "copying") /\ UNCHANGED loader
<1>1. ASSUME NEW f \in Plugin!VersionedFiles, Plugin!DeleteFile(f)
      PROVE  d = job.dir /\ pluginStep = "deleting" /\ UNCHANGED loader
  BY <1>1 DEF Plugin!DeleteFile, Plugin!TypeOK
<1>2. ASSUME NEW f \in NewFiles, Plugin!CopyFile(f)
      PROVE  d = job.dir /\ pluginStep = "copying" /\ UNCHANGED loader
  BY <1>2 DEF Plugin!CopyFile, Plugin!TypeOK
<1>3. CASE UNCHANGED package
  BY <1>3
<1> QED BY <1>1, <1>2, <1>3 DEF Plugin!Next, Plugin!User, Plugin!Begin, Plugin!Step,
           Plugin!Interrupt, Plugin!UserPlaces, Plugin!PickDirectory, Plugin!SetLanguage,
           Plugin!ArchiveLegacyPlugins, Plugin!InstallOrRepair, Plugin!InstallScript,
           Plugin!BeginInstall, Plugin!Uninstall, Plugin!UninstallScript, Plugin!BeginUninstall,
           Plugin!MoveLegacy, Plugin!ArchivingEnds, Plugin!DeleteDirectory, Plugin!CreateDirectory,
           Plugin!TruncateLoader, Plugin!WriteLoader, Plugin!vars, Plugin!fileVars

(* While a package is being deleted, the directory goes last.              *)
LEMMA DirectorySteps ==
    ASSUME [Plugin!Next]_(Plugin!vars), pluginStep = "deleting", hasPackage' # hasPackage
    PROVE  Plugin!DeleteDirectory
BY DEF Plugin!Next, Plugin!User, Plugin!Begin, Plugin!Step, Plugin!Interrupt, Plugin!UserPlaces,
       Plugin!PickDirectory, Plugin!SetLanguage, Plugin!ArchiveLegacyPlugins,
       Plugin!InstallOrRepair, Plugin!InstallScript, Plugin!BeginInstall, Plugin!Uninstall,
       Plugin!UninstallScript, Plugin!BeginUninstall, Plugin!MoveLegacy, Plugin!ArchivingEnds,
       Plugin!DeleteFile, Plugin!CreateDirectory, Plugin!CopyFile, Plugin!TruncateLoader,
       Plugin!WriteLoader, Plugin!vars, Plugin!fileVars

LEMMA WrittenIsComplete ==
    ASSUME Plugin!InstallInv, Plugin!WriteLoader
    PROVE  job.dir \in hasPackage /\ Plugin!Complete(package[job.dir]) /\ loader'[job.dir] = "new"
<1>1. job.dir \in Dirs
  BY DEF Plugin!InstallInv, Plugin!TypeOK, Plugin!Jobs
<1> QED BY <1>1 DEF Plugin!InstallInv, Plugin!TypeOK, Plugin!WriteLoader, Plugin!PackageIsNew,
           Plugin!Copied, Plugin!Complete

(* In any installation, IDA finds a loader only with a whole package, and  *)
(* in any removal it loses the loader first.                               *)
THEOREM InstallEndsWithLoader ==
    ASSUME Plugin!InstallAssumption
    PROVE  Plugin!Spec => Plugin!LoaderComesLast
<1> DEFINE InOrder == \A d \in Dirs :
          /\ loader'[d] = "new" /\ loader[d] # "new" =>
                d \in hasPackage /\ Plugin!Complete(package[d])
          /\ package'[d] # package[d] /\ job.kind = "uninstall" => loader[d] = "none"
<1>1. ASSUME Plugin!InstallInv, [Plugin!Next]_(Plugin!vars) PROVE InOrder
  <2> SUFFICES ASSUME NEW d \in Dirs
               PROVE  /\ loader'[d] = "new" /\ loader[d] # "new" =>
                           d \in hasPackage /\ Plugin!Complete(package[d])
                      /\ package'[d] # package[d] /\ job.kind = "uninstall" => loader[d] = "none"
    OBVIOUS
  <2>1. ASSUME loader'[d] = "new", loader[d] # "new"
        PROVE  d \in hasPackage /\ Plugin!Complete(package[d])
    <3>1. CASE Plugin!TruncateLoader
      BY <1>1, <2>1, <3>1 DEF Plugin!TruncateLoader, Plugin!InstallInv, Plugin!TypeOK
    <3>2. CASE Plugin!WriteLoader
      <4>1. d = job.dir
        BY <1>1, <2>1, <3>2 DEF Plugin!WriteLoader, Plugin!InstallInv, Plugin!TypeOK
      <4> QED BY <1>1, <3>2, <4>1, WrittenIsComplete
    <3> QED BY <1>1, <2>1, <3>1, <3>2, LoaderSteps DEF Plugin!InstallInv
  <2>2. ASSUME package'[d] # package[d], job.kind = "uninstall" PROVE loader[d] = "none"
    BY <1>1, <2>2, PackageSteps DEF Plugin!InstallInv, Plugin!UninstallHasNoLoader
  <2> QED BY <2>1, <2>2
<1>2. Plugin!InstallInv /\ [Plugin!Next]_(Plugin!vars) => [InOrder]_(Plugin!vars)
  BY <1>1
<1> QED BY <1>2, InstallInvariant, PTL DEF Plugin!Spec, Plugin!LoaderComesLast

(* A job that reaches its end has installed exactly the files it brings    *)
(* and archived what it found, or has removed all of the plugin.           *)
THEOREM InstallCompletesJobs ==
    ASSUME Plugin!InstallAssumption
    PROVE  Plugin!Spec => Plugin!FinishedJobsAreComplete
<1> DEFINE Done ==
       /\ pluginStep = "loader" /\ loader'[job.dir] # loader[job.dir] =>
             /\ job.dir \in hasPackage' /\ Plugin!Complete(package'[job.dir])
             /\ loader'[job.dir] = "new"
             /\ \A c \in job.found, n \in Legacy : legacy'[job.dir][n] # c
       /\ pluginStep = "deleting" /\ job.kind = "uninstall" /\ hasPackage' # hasPackage =>
             loader'[job.dir] = "none" /\ job.dir \notin hasPackage' /\ package'[job.dir] = {}
<1>1. ASSUME Plugin!InstallInv, [Plugin!Next]_(Plugin!vars) PROVE Done
  <2>1. job.dir \in Dirs
    BY <1>1 DEF Plugin!InstallInv, Plugin!TypeOK, Plugin!Jobs
  <2>2. ASSUME pluginStep = "loader", loader'[job.dir] # loader[job.dir]
        PROVE  /\ job.dir \in hasPackage' /\ Plugin!Complete(package'[job.dir])
               /\ loader'[job.dir] = "new"
               /\ \A c \in job.found, n \in Legacy : legacy'[job.dir][n] # c
    <3>1. Plugin!WriteLoader
      BY <1>1, <2>1, <2>2, LoaderSteps DEF Plugin!TruncateLoader, Plugin!InstallInv
    <3>2. UNCHANGED <<hasPackage, package, legacy>>
      BY <3>1 DEF Plugin!WriteLoader
    <3>3. \A c \in job.found, n \in Legacy : legacy[job.dir][n] # c
      BY <1>1, <2>2 DEF Plugin!InstallInv, Plugin!FoundIsMoved
    <3> QED BY <1>1, <3>1, <3>2, <3>3, WrittenIsComplete
  <2>3. ASSUME pluginStep = "deleting", job.kind = "uninstall", hasPackage' # hasPackage
        PROVE  loader'[job.dir] = "none" /\ job.dir \notin hasPackage' /\ package'[job.dir] = {}
    <3>1. Plugin!DeleteDirectory
      BY <1>1, <2>3, DirectorySteps
    <3> QED BY <1>1, <2>3, <3>1 DEF Plugin!DeleteDirectory, Plugin!Emptied, Plugin!InstallInv,
               Plugin!UninstallHasNoLoader
  <2> QED BY <2>2, <2>3
<1>2. Plugin!InstallInv /\ [Plugin!Next]_(Plugin!vars) => [Done]_(Plugin!vars)
  BY <1>1
<1> QED BY <1>2, InstallInvariant, PTL DEF Plugin!Spec, Plugin!FinishedJobsAreComplete

-----------------------------------------------------------------------------
(* The configuration of an MCP client.                                     *)

LEMMA TextTypes ==
    /\ Agent!NoFile \in Agent!Texts /\ Agent!Blank \in Agent!Texts
    /\ \A s \in SUBSET Agent!Items : Agent!Whole(s) \in Agent!Texts
    /\ Agent!NoFile.items = {} /\ ~Agent!NoFile.exists
    /\ Agent!Blank.items = {} /\ Agent!Blank.exists
    /\ \A s : Agent!Whole(s).items = s /\ Agent!Whole(s).exists
BY DEF Agent!Texts, Agent!NoFile, Agent!Blank, Agent!Whole

LEMMA NewTextType == Agent!TypeOK => Agent!NewText \in Agent!Texts /\ Agent!NewText.exists
BY DEF Agent!TypeOK, Agent!NewText, Agent!Texts, Agent!Items

LEMMA AgentTypeInit == ASSUME Agent!ConfigAssumption, Agent!Init PROVE Agent!TypeOK
<1>1. config \in Agent!Texts
  BY TextTypes DEF Agent!Init, Agent!Texts, Agent!Items
<1> QED BY <1>1, TextTypes DEF Agent!Init, Agent!TypeOK, Agent!Items, Agent!ConfigAssumption

LEMMA AgentTypeNext ==
    ASSUME Agent!ConfigAssumption, Agent!TypeOK, [Agent!Next]_(Agent!vars)
    PROVE  Agent!TypeOK'
<1> USE Agent!ConfigAssumption DEF Agent!TypeOK, Agent!ConfigAssumption
<1>1. CASE Agent!Tick
  BY <1>1 DEF Agent!Tick
<1>2. ASSUME NEW e \in Entries, Agent!OthersAdd(e) PROVE Agent!TypeOK'
  <2>1. config.items \cup {e} \in SUBSET Agent!Items
    BY DEF Agent!Texts, Agent!Items
  <2>2. config' \in Agent!Texts
    BY <1>2, <2>1, TextTypes DEF Agent!OthersAdd
  <2> QED BY <1>2, <2>2 DEF Agent!OthersAdd
<1>3. CASE Agent!Configure
  <2>1. config.items \in SUBSET Agent!Items
    BY DEF Agent!Texts
  <2> QED BY <1>3, <2>1 DEF Agent!Configure
<1>4. CASE Agent!Backup
  BY <1>4 DEF Agent!Backup
<1>5. CASE Agent!Read
  BY <1>5 DEF Agent!Read
<1>6. CASE Agent!Truncate
  BY <1>6, TextTypes DEF Agent!Truncate
<1>7. CASE Agent!Write
  BY <1>7, TextTypes, NewTextType DEF Agent!Write
<1>8. CASE Agent!WritePart
  <2>1. config' \in Agent!Texts
    BY <1>8, NewTextType DEF Agent!WritePart, Agent!Texts
  <2> QED BY <1>8, <2>1, TextTypes DEF Agent!WritePart
<1>9. CASE Agent!Interrupt
  BY <1>9, TextTypes DEF Agent!Interrupt
<1>10. CASE UNCHANGED Agent!vars
  BY <1>10 DEF Agent!vars
<1> QED BY <1>1, <1>2, <1>3, <1>4, <1>5, <1>6, <1>7, <1>8, <1>9, <1>10 DEF Agent!Next

LEMMA MissingNext ==
    ASSUME Agent!ConfigAssumption, Agent!TypeOK, Agent!MissingIsEmpty, [Agent!Next]_(Agent!vars)
    PROVE  Agent!MissingIsEmpty'
<1> USE TextTypes DEF Agent!MissingIsEmpty
<1>1. CASE Agent!Backup
  BY <1>1 DEF Agent!Backup, Agent!TypeOK
<1>2. ASSUME NEW e \in Entries, Agent!OthersAdd(e) PROVE Agent!MissingIsEmpty'
  BY <1>2 DEF Agent!OthersAdd
<1>3. CASE Agent!Truncate \/ Agent!Write
  BY <1>3, NewTextType DEF Agent!Truncate, Agent!Write
<1>4. CASE Agent!WritePart
  BY <1>4 DEF Agent!WritePart
<1>5. CASE UNCHANGED <<config, copies>>
  BY <1>5
<1> QED BY <1>1, <1>2, <1>3, <1>4, <1>5 DEF Agent!Next, Agent!Tick, Agent!Configure, Agent!Read,
           Agent!Interrupt, Agent!vars

-----------------------------------------------------------------------------
(* A copy is made under a name that is free, so it takes nothing away.     *)
LEMMA BackupsStay ==
    ASSUME Agent!ConfigAssumption, Agent!TypeOK, Agent!MissingIsEmpty,
           [Agent!Next]_(Agent!vars), NEW items, Agent!InBackup(items)
    PROVE  Agent!InBackup(items)'
<1>1. CASE Agent!Backup
  <2>1. PICK s \in 0..MaxSecond : items \ {ours} \subseteq copies[s].items
    BY DEF Agent!InBackup
  <2>2. CASE s = second /\ copies' # copies
    <3>1. copies[second].items = {}
      BY <1>1, <2>2 DEF Agent!Backup, Agent!FreeName, Agent!MissingIsEmpty, Agent!TypeOK
    <3> QED BY <1>1, <2>1, <2>2, <3>1 DEF Agent!Backup, Agent!InBackup, Agent!TypeOK
  <2>3. CASE copies'[s] = copies[s]
    BY <2>1, <2>3 DEF Agent!InBackup
  <2> QED BY <1>1, <2>2, <2>3 DEF Agent!Backup, Agent!TypeOK
<1>2. CASE UNCHANGED copies
  BY <1>2 DEF Agent!InBackup
<1> QED BY <1>1, <1>2 DEF Agent!Next, Agent!Tick, Agent!OthersAdd, Agent!Configure, Agent!Read,
           Agent!Truncate, Agent!Write, Agent!WritePart, Agent!Interrupt, Agent!vars

LEMMA NothingIsBackedUp ==
    ASSUME Agent!ConfigAssumption, NEW items, items \subseteq {ours} PROVE Agent!InBackup(items)
BY DEF Agent!InBackup, Agent!ConfigAssumption

(* When a copy has been made, or none was needed, everything is in one.    *)
LEMMA BackupSaves ==
    ASSUME Agent!ConfigAssumption, Agent!ConfigInv, Agent!Backup, NEW items \in began
    PROVE  Agent!InBackup(items)'
<1>1. Agent!InBackup(items) => Agent!InBackup(items)'
  BY BackupsStay DEF Agent!ConfigInv, Agent!Next
<1>2. CASE Agent!NeedsBackup
  <2>1. copies' = [copies EXCEPT ![second] = config]
    BY <1>2 DEF Agent!Backup
  <2>2. items \ {ours} \subseteq config.items => Agent!InBackup(items)'
    BY <2>1 DEF Agent!InBackup, Agent!ConfigInv, Agent!TypeOK
  <2> QED BY <1>1, <2>2 DEF Agent!ConfigInv, Agent!ConfigSurvives, Agent!InBackup
<1>3. CASE ~Agent!NeedsBackup /\ Agent!Json
  <2>1. config.items = {}
    BY <1>3 DEF Agent!NeedsBackup, Agent!ConfigInv, Agent!MissingIsEmpty
  <2>2. items \ {ours} \subseteq config.items => items \subseteq {ours}
    BY <2>1
  <2> QED BY <1>1, <2>2, NothingIsBackedUp DEF Agent!ConfigInv, Agent!ConfigSurvives, Agent!InBackup
<1>4. CASE ~Agent!NeedsBackup /\ ~Agent!Json
  <2>1. text.items = {}
    BY <1>4 DEF Agent!NeedsBackup, Agent!IsBlank
  <2>2. items \ {ours} \subseteq text.items \/ Agent!InBackup(items)
    BY <1>4 DEF Agent!Backup, Agent!ConfigInv, Agent!ReadIsThere
  <2> QED BY <1>1, <2>1, <2>2, NothingIsBackedUp
<1> QED BY <1>2, <1>3, <1>4

LEMMA ConfigNext ==
    ASSUME Agent!ConfigAssumption, Agent!ConfigInv, [Agent!Next]_(Agent!vars)
    PROVE  Agent!ConfigInv'
<1>1. Agent!TypeOK' /\ Agent!MissingIsEmpty'
  BY AgentTypeNext, MissingNext DEF Agent!ConfigInv
<1>2. \A items : Agent!InBackup(items) => Agent!InBackup(items)'
  BY BackupsStay DEF Agent!ConfigInv
<1>3. Agent!ConfigSurvives <=>
        \A items \in began : items \ {ours} \subseteq config.items \/ Agent!InBackup(items)
  BY DEF Agent!ConfigSurvives, Agent!InBackup
<1>4. Agent!ConfigSurvives' <=>
        \A items \in began' : items \ {ours} \subseteq config'.items \/ Agent!InBackup(items)'
  BY DEF Agent!ConfigSurvives, Agent!InBackup
<1> DEFINE Kept == Agent!ConfigSurvives' /\ Agent!ReadIsThere' /\ Agent!BackedUp'
<1> SUFFICES Kept
  BY <1>1 DEF Agent!ConfigInv
<1> USE DEF Agent!Json
<1>5. CASE Agent!Tick
  BY <1>2, <1>3, <1>4, <1>5 DEF Agent!Tick, Agent!ConfigInv, Agent!ReadIsThere, Agent!BackedUp
<1>6. ASSUME NEW e \in Entries, Agent!OthersAdd(e) PROVE Kept
  <2>1. config.items \subseteq config'.items
    BY <1>6, TextTypes DEF Agent!OthersAdd
  <2> QED BY <1>2, <1>3, <1>4, <1>6, <2>1 DEF Agent!OthersAdd, Agent!ConfigInv, Agent!ReadIsThere,
             Agent!BackedUp
<1>7. CASE Agent!Configure
  BY <1>2, <1>3, <1>4, <1>7 DEF Agent!Configure, Agent!ConfigInv, Agent!ReadIsThere, Agent!BackedUp
<1>8. CASE Agent!Backup
  <2>1. \A items \in began : Agent!InBackup(items)'
    BY <1>8, BackupSaves
  <2> QED BY <1>4, <1>8, <2>1 DEF Agent!Backup, Agent!ReadIsThere, Agent!BackedUp
<1>9. CASE Agent!Read
  BY <1>2, <1>3, <1>4, <1>9 DEF Agent!Read, Agent!ConfigInv, Agent!ReadIsThere, Agent!BackedUp
<1>10. CASE Agent!Truncate \/ Agent!Write \/ Agent!WritePart
  BY <1>2, <1>4, <1>10 DEF Agent!Truncate, Agent!Write, Agent!WritePart, Agent!ConfigInv,
         Agent!ReadIsThere, Agent!BackedUp
<1>11. CASE Agent!Interrupt
  BY <1>2, <1>3, <1>4, <1>11 DEF Agent!Interrupt, Agent!ConfigInv, Agent!ReadIsThere, Agent!BackedUp
<1>12. CASE UNCHANGED Agent!vars
  BY <1>2, <1>3, <1>4, <1>12 DEF Agent!vars, Agent!ConfigInv, Agent!ReadIsThere, Agent!BackedUp
<1> QED BY <1>5, <1>6, <1>7, <1>8, <1>9, <1>10, <1>11, <1>12 DEF Agent!Next

LEMMA ConfigInit == ASSUME Agent!ConfigAssumption, Agent!Init PROVE Agent!ConfigInv
<1>1. Agent!MissingIsEmpty
  BY TextTypes DEF Agent!Init, Agent!MissingIsEmpty
<1>2. Agent!ConfigSurvives /\ Agent!ReadIsThere /\ Agent!BackedUp
  BY DEF Agent!Init, Agent!ConfigSurvives, Agent!ReadIsThere, Agent!BackedUp
<1> QED BY AgentTypeInit, <1>1, <1>2 DEF Agent!ConfigInv

(* The inductive invariant, whatever the file holds and whoever changes it.*)
THEOREM ConfigInvariant == ASSUME Agent!ConfigAssumption PROVE Agent!Spec => []Agent!ConfigInv
<1>1. Agent!Init => Agent!ConfigInv
  BY ConfigInit
<1>2. Agent!ConfigInv /\ [Agent!Next]_(Agent!vars) => Agent!ConfigInv'
  BY ConfigNext
<1> QED BY <1>1, <1>2, PTL DEF Agent!Spec

(* Adding the center to a configuration loses nothing that was in it: it   *)
(* is in the file or in one of its backups, wherever Configure stopped.    *)
THEOREM ConfigureKeepsEntries ==
    ASSUME Agent!ConfigAssumption
    PROVE  Agent!Spec => []Agent!ConfigSurvives
<1>1. Agent!ConfigInv => Agent!ConfigSurvives
  BY DEF Agent!ConfigInv
<1> QED BY <1>1, ConfigInvariant, PTL

-----------------------------------------------------------------------------
(* Desktop.                                                                *)

(* A step of Desktop is one of each part, or leaves it as it is.           *)
LEMMA PartSteps ==
    ASSUME [DesktopNext]_desktopVars
    PROVE  [Plugin!Next]_(Plugin!vars) /\ [Agent!Next]_(Agent!vars)
<1>1. CASE PluginStep
  BY <1>1 DEF PluginStep, agentVars, Agent!vars
<1>2. CASE AgentStep
  BY <1>2 DEF AgentStep, pluginVars, Plugin!vars, Plugin!fileVars, Plugin!jobVars
<1>3. CASE WindowStep \/ UNCHANGED desktopVars
  BY <1>3 DEF WindowStep, desktopVars, agentVars, pluginVars, Plugin!vars, Plugin!fileVars,
         Plugin!jobVars, Agent!vars
<1> QED BY <1>1, <1>2, <1>3 DEF DesktopNext

LEMMA PartSpecs == DesktopSpec => Plugin!Spec /\ Agent!Spec
<1>1. DesktopInit => Plugin!Init /\ Agent!Init
  BY DEF DesktopInit
<1>2. [DesktopNext]_desktopVars => [Plugin!Next]_(Plugin!vars) /\ [Agent!Next]_(Agent!vars)
  BY PartSteps
<1> QED BY <1>1, <1>2, PTL DEF DesktopSpec, Plugin!Spec, Agent!Spec

-----------------------------------------------------------------------------
(* However many plugins of one name are archived within a second, and      *)
(* wherever a job stops, each is in place or in a backup.                  *)
THEOREM PluginsAreKept == DesktopSpec => []UserPluginsSurvive
<1>1. Plugin!Spec => []Plugin!UserPluginsSurvive
  BY DesktopAssumption, InstallKeepsPlugins
<1> QED BY <1>1, PartSpecs, PTL DEF UserPluginsSurvive

(* A loader is written only for a whole package, and removed before any of *)
(* its package is.                                                         *)
THEOREM LoadersComeLast == DesktopSpec => LoaderComesLast
<1>1. Plugin!Spec => Plugin!LoaderComesLast
  BY DesktopAssumption, InstallEndsWithLoader
<1> QED BY <1>1, PartSpecs DEF LoaderComesLast

(* A job that reaches its end has done all of its work.                    *)
THEOREM JobsAreComplete == DesktopSpec => FinishedJobsAreComplete
<1>1. Plugin!Spec => Plugin!FinishedJobsAreComplete
  BY DesktopAssumption, InstallCompletesJobs
<1> QED BY <1>1, PartSpecs DEF FinishedJobsAreComplete

(* What a configuration held when it was to be changed is in the file or   *)
(* in a backup.                                                            *)
THEOREM ConfigsAreKept == DesktopSpec => []ConfigSurvives
<1>1. Agent!Spec => []Agent!ConfigSurvives
  BY DesktopAssumption, ConfigureKeepsEntries
<1> QED BY <1>1, PartSpecs, PTL DEF ConfigSurvives
=============================================================================
