----------------------------- MODULE MessagePipe ----------------------------
(***************************************************************************)
(* What the hub and the plugins take a connection for: a pipe that         *)
(* delivers whole messages, all of them and in the order they were sent.   *)
(* The reader sees the end of the pipe only when it has every message, and *)
(* an error only if the sender is gone or the next message is too large.   *)
(***************************************************************************)
EXTENDS Naturals, Sequences

CONSTANTS
    Messages,
    TooLarge  \* those that no reader has to accept

VARIABLES
    sent,      \* messages written, in order
    delivered, \* messages read, in order
    open,      \* the sender has not closed the pipe
    outcome    \* "reading", or how the reader came to its end

pipeVars == <<sent, delivered, open, outcome>>

Init ==
    /\ sent = <<>>
    /\ delivered = <<>>
    /\ open = TRUE
    /\ outcome = "reading"

Pending == Len(delivered) < Len(sent)
NextMessage == sent[Len(delivered) + 1]

Send(m) ==
    /\ open
    /\ sent' = Append(sent, m)
    /\ UNCHANGED <<delivered, open, outcome>>

Close ==
    /\ open
    /\ open' = FALSE
    /\ UNCHANGED <<sent, delivered, outcome>>

Deliver ==
    /\ outcome = "reading" /\ Pending /\ NextMessage \notin TooLarge
    /\ delivered' = Append(delivered, NextMessage)
    /\ UNCHANGED <<sent, open, outcome>>

End ==
    /\ outcome = "reading" /\ ~open /\ ~Pending
    /\ outcome' = "ended"
    /\ UNCHANGED <<sent, delivered, open>>

Fail ==
    /\ outcome = "reading"
    /\ IF Pending THEN NextMessage \in TooLarge ELSE ~open
    /\ outcome' = "failed"
    /\ UNCHANGED <<sent, delivered, open>>

Next == Close \/ Deliver \/ End \/ Fail \/ \E m \in Messages : Send(m)

Spec == Init /\ [][Next]_pipeVars
=============================================================================
