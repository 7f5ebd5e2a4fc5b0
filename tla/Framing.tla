------------------------------ MODULE Framing -------------------------------
(***************************************************************************)
(* One direction of a connection between the center and a plugin: frames   *)
(* of a length and a payload, written to a byte stream that hands them     *)
(* over in pieces of any size, and the reader that puts them together.     *)
(*                                                                         *)
(* CenterSpec is the direction from the plugin (encode_message) to the     *)
(* center (LengthPrefixedJsonFraming.ReadAsync), PluginSpec the other way, *)
(* from the center (Encode) to the plugin (read_message).                  *)
(*                                                                         *)
(* A byte is the place it has in the frame of its message.  JSON is left   *)
(* out: a payload reads as its message exactly if it is complete.          *)
(***************************************************************************)
EXTENDS Naturals, Sequences, FiniteSetsExt

CONSTANTS
    Messages,
    PayloadSize, \* bytes of the payload of a message
    HeaderSize,  \* four in the code
    MaxPayload,  \* 16 MB in the code
    MaxSent      \* bound: messages written

ASSUME SizeAssumption ==
    /\ PayloadSize \in [Messages -> Nat \ {0}]
    /\ HeaderSize \in Nat \ {0}
    /\ MaxPayload \in Nat

VARIABLES
    sent,      \* messages written to the stream
    open,      \* the sender has not closed it
    wire,      \* bytes the reader has not read yet
    part,      \* the reader fills its buffer with a "header" or a "payload"
    length,    \* how long that payload is
    buffer,
    delivered, \* messages handed to the caller
    outcome    \* "reading", the "ended" of a null message, or "failed"

senderVars == <<sent, open>>
readerVars == <<part, length, buffer, delivered, outcome>>
vars == <<senderVars, wire, readerVars>>

Init ==
    /\ sent = <<>>
    /\ open = TRUE
    /\ wire = <<>>
    /\ part = "header"
    /\ length = 0
    /\ buffer = <<>>
    /\ delivered = <<>>
    /\ outcome = "reading"

Frame(m) == [i \in 1..(HeaderSize + PayloadSize[m]) |-> [of |-> m, at |-> i]]
Header(m) == SubSeq(Frame(m), 1, HeaderSize)
Payload(m) == SubSeq(Frame(m), HeaderSize + 1, Len(Frame(m)))
Lengths == {PayloadSize[m] : m \in Messages}
Bytes == UNION {{Frame(m)[i] : i \in DOMAIN Frame(m)} : m \in Messages}

TypeOK ==
    /\ sent \in Seq(Messages)
    /\ open \in BOOLEAN
    /\ wire \in Seq(Bytes)
    /\ part \in {"header", "payload"}
    /\ length \in Lengths \cup {0}
    /\ buffer \in Seq(Bytes)
    /\ Len(buffer) <= IF part = "header" THEN HeaderSize ELSE length
    /\ delivered \in Seq(Messages)
    /\ outcome \in {"reading", "ended", "failed"}

-----------------------------------------------------------------------------
(* The sender.                                                             *)
Write(m) ==
    /\ open /\ Len(sent) < MaxSent
    /\ sent' = Append(sent, m)
    /\ wire' = wire \o Frame(m)
    /\ UNCHANGED <<open, readerVars>>

(* encode_message has no limit; Encode throws, and nothing is written.     *)
PluginWrites == \E m \in Messages : Write(m)
CenterWrites == \E m \in Messages : PayloadSize[m] <= MaxPayload /\ Write(m)

(* The connection is closed, possibly in the middle of a frame.            *)
Close ==
    /\ open
    /\ open' = FALSE
    /\ \/ UNCHANGED wire
       \/ \E m \in Messages : \E n \in 1..(Len(Frame(m)) - 1) :
              wire' = wire \o SubSeq(Frame(m), 1, n)
    /\ UNCHANGED <<sent, readerVars>>

-----------------------------------------------------------------------------
(* The readers.                                                            *)
Wanted == (IF part = "header" THEN HeaderSize ELSE length) - Len(buffer)

(* One read of the stream: some of the bytes that are there, as many as    *)
(* wanted at most.                                                         *)
Read(n) ==
    /\ n <= Wanted /\ n <= Len(wire)
    /\ buffer' = buffer \o SubSeq(wire, 1, n)
    /\ wire' = SubSeq(wire, n + 1, Len(wire))

Fail == outcome' = "failed"

(* read_message calls read once on an unbuffered stream, and raises        *)
(* EOFError if it returned less than was wanted.                           *)
ReadAtOnce ==
    /\ outcome = "reading" /\ Wanted > 0
    /\ \E n \in 1..Len(wire) :
           /\ Read(n)
           /\ IF n < Wanted THEN Fail ELSE UNCHANGED outcome
    /\ UNCHANGED <<senderVars, part, length, delivered>>

(* ReadExactlyOrEndAsync reads until its buffer is full.                   *)
ReadMore ==
    /\ outcome = "reading" /\ Wanted > 0
    /\ \E n \in 1..Len(wire) : Read(n)
    /\ UNCHANGED <<senderVars, part, length, delivered, outcome>>

(* A read that returns nothing: null for a stream that ends between two    *)
(* frames, an error otherwise.                                             *)
EndOfStream ==
    /\ outcome = "reading" /\ Wanted > 0
    /\ wire = <<>> /\ ~open
    /\ outcome' = IF part = "header" /\ buffer = <<>> THEN "ended" ELSE "failed"
    /\ UNCHANGED <<senderVars, wire, part, length, buffer, delivered>>

(* What the bytes of a header say; anything, if they are not a header.     *)
Says(bytes, n) ==
    IF \E m \in Messages : bytes = Header(m)
    THEN \E m \in Messages : bytes = Header(m) /\ n = PayloadSize[m]
    ELSE TRUE

HeaderRead(max) ==
    /\ outcome = "reading" /\ part = "header" /\ Wanted = 0
    /\ \E n \in Lengths :
           /\ Says(buffer, n)
           /\ IF n > max
              THEN Fail /\ UNCHANGED <<part, length, buffer>>
              ELSE part' = "payload" /\ length' = n /\ buffer' = <<>> /\ UNCHANGED outcome
    /\ UNCHANGED <<senderVars, wire, delivered>>

(* Deserialize.                                                            *)
PayloadRead ==
    /\ outcome = "reading" /\ part = "payload" /\ Wanted = 0
    /\ IF \E m \in Messages : buffer = Payload(m)
       THEN /\ \E m \in Messages : buffer = Payload(m) /\ delivered' = Append(delivered, m)
            /\ UNCHANGED outcome
       ELSE Fail /\ UNCHANGED delivered
    /\ part' = "header" /\ length' = 0 /\ buffer' = <<>>
    /\ UNCHANGED <<senderVars, wire>>

CenterReads == ReadMore \/ EndOfStream \/ HeaderRead(MaxPayload) \/ PayloadRead
PluginReads == ReadAtOnce \/ EndOfStream \/ HeaderRead(Max(Lengths)) \/ PayloadRead

-----------------------------------------------------------------------------
CenterNext == PluginWrites \/ Close \/ CenterReads
PluginNext == CenterWrites \/ Close \/ PluginReads

(* The reader of a connection runs for as long as it lasts.                *)
CenterSpec == Init /\ [][CenterNext]_vars /\ WF_vars(CenterReads)
PluginSpec == Init /\ [][PluginNext]_vars /\ WF_vars(PluginReads)

-----------------------------------------------------------------------------
Pipe == INSTANCE MessagePipe WITH
    TooLarge <- {m \in Messages : PayloadSize[m] > MaxPayload}

(* However the stream cuts frames into pieces, its reader makes a          *)
(* MessagePipe of it: messages come whole and in order, the end is seen    *)
(* where it is, and an error has a cause.                                  *)
KeepsPipePromise == Pipe!Spec

(* Every message that was written is delivered in the end, unless one is   *)
(* too large for the center.                                               *)
EverythingArrives ==
    \A n \in 1..MaxSent :
        Len(sent) = n ~>
            \/ Len(delivered) >= n
            \/ \E i \in DOMAIN sent : i <= n /\ PayloadSize[sent[i]] > MaxPayload

(* "Transport: TCP long connection" (docs/protocol.md:3), and the errors   *)
(* of read_message speak of an incomplete message: as long as the other    *)
(* side keeps the connection open, reading from it does not fail.          *)
OpenStreamReads == open => outcome = "reading"
=============================================================================
