----------------------------- MODULE ToolCalls -----------------------------
(***************************************************************************)
(* What mcp-center promises about one tool call, without connections,      *)
(* registry or timeouts: a call is refused or started, a started call is   *)
(* answered exactly once, and the answer is a success only if the tool has *)
(* run inside IDA.  The converse is not promised: a tool may run although, *)
(* or after, its caller was told of an error (the 60 s timeout and a       *)
(* dropped connection both leave that open).                               *)
(***************************************************************************)
CONSTANT CallIds

VARIABLES
    status, \* what the caller knows
    ran     \* calls whose tool has run

vars == <<status, ran>>

Init ==
    /\ status = [k \in CallIds |-> "idle"]
    /\ ran = {}

Start(k) ==
    /\ status[k] = "idle"
    /\ status' = [status EXCEPT ![k] = "running"]
    /\ UNCHANGED ran

Refuse(k) ==
    /\ status[k] = "idle"
    /\ status' = [status EXCEPT ![k] = "error"]
    /\ UNCHANGED ran

Run(k) ==
    /\ status[k] # "idle"
    /\ ran' = ran \cup {k}
    /\ UNCHANGED status

Return(k) ==
    /\ status[k] = "running"
    /\ \E answer \in {"error"} \cup (IF k \in ran THEN {"ok"} ELSE {}) :
          status' = [status EXCEPT ![k] = answer]
    /\ UNCHANGED ran

Next == \E k \in CallIds : Start(k) \/ Refuse(k) \/ Run(k) \/ Return(k)

Spec == Init /\ [][Next]_vars
============================================================================
