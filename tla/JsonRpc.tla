------------------------------ MODULE JsonRpc ------------------------------
(***************************************************************************)
(* What a front end of mcp-center promises to the agents that speak        *)
(* JSON-RPC with it, without lines, HTTP exchanges or time limits: a       *)
(* message is answered at most once, never before it was sent and never if *)
(* it is a notification, and the result of a tool call is told only after  *)
(* its tool has ended.  An error may come instead of a result at any time: *)
(* the bridge gives up, the tool goes on.                                  *)
(***************************************************************************)
EXTENDS Naturals

CONSTANTS
    Msgs,
    Kinds    \* of answers, "result" and "error" among them

VARIABLES
    silent,  \* messages that want no answer
    sent,    \* messages the agent has sent
    ended,   \* messages whose tool, if they call one, has ended
    answers  \* how many answers of each kind bear the id of a message

vars == <<silent, sent, ended, answers>>

NoAnswer == [kind \in Kinds |-> 0]

Init ==
    /\ silent \subseteq Msgs
    /\ sent = {}
    /\ ended = {}
    /\ answers = [m \in Msgs |-> NoAnswer]

Send(m) ==
    /\ m \notin sent
    /\ sent' = sent \cup {m}
    /\ UNCHANGED <<silent, ended, answers>>

End(m) ==
    /\ m \in sent
    /\ ended' = ended \cup {m}
    /\ UNCHANGED <<silent, sent, answers>>

Answer(m) ==
    /\ m \in sent \ silent
    /\ answers[m] = NoAnswer
    /\ \E kind \in {"error"} \cup (IF m \in ended THEN {"result"} ELSE {}) :
          answers' = [answers EXCEPT ![m][kind] = 1]
    /\ UNCHANGED <<silent, sent, ended>>

Next == \E m \in Msgs : Send(m) \/ End(m) \/ Answer(m)

Spec == Init /\ [][Next]_vars
=============================================================================
