------------------------------ MODULE Dispatch ------------------------------
(***************************************************************************)
(* The JSON-RPC registry of the archived upstream server (jsonrpc.py) and  *)
(* the loop of a server on standard input and output (mcp.py).  A line is  *)
(* read, the method it names is called with the arguments that were        *)
(* checked, its answer is written, and the next line is read.  A value is  *)
(* its kind: a word, the text of a number or of a list, a number, a list...*)
(***************************************************************************)
EXTENDS Naturals, Sequences, FiniteSets, Functions

CONSTANTS
    Signature,  \* methods to the parameters they take, in order
    Inputs,     \* the lines clients send, some after the other
    Null        \* the id null, and that of an answer to what is no request

VARIABLES
    lines,      \* lines that have not been read
    taken,      \* history: those that have
    called,     \* history: whether the line was handed to its method
    owed,       \* history: the ids of the answers they want
    input,      \* the line that is handled
    arguments,  \* those that the method was called with
    current,    \* _current_request.id
    output,     \* the answers: their ids, and the code of an error
    doing       \* "reading", "calling" or "ended"

vars == <<lines, taken, called, owed, input, arguments, current, output, doing>>

Texts == {"word", "digits", "list_text"}
Kinds == Texts \cup {"null", "true", "int", "float", "list"}
Classes == {"str", "bool", "int", "float", "list"}

(* A parameter: its name, whether it is required, whether it has a hint,   *)
(* whether the hint is a union, the classes it admits and whether null.    *)
ParameterType ==
    [name : STRING, required : BOOLEAN, hint : BOOLEAN, classes : SUBSET Classes,
     union : BOOLEAN, null : BOOLEAN]
InputLines == UNION {{l[k] : k \in DOMAIN l} : l \in Inputs}

DispatchAssumption ==
    /\ \A m \in DOMAIN Signature :
          /\ Signature[m] \in Seq(ParameterType)
          /\ \A k \in DOMAIN Signature[m] : Signature[m][k].null => Signature[m][k].union /\ Signature[m][k].hint
    /\ Inputs \subseteq Seq(InputLines)
    /\ \A line \in InputLines :
          /\ line.shape \in {"blank", "garbage", "array", "object"}
          /\ line.shape = "object" /\ line.params.is = "list" => line.params.values \in Seq(Kinds)
          /\ line.shape = "object" /\ line.params.is = "object" =>
                \A n \in DOMAIN line.params.values : line.params.values[n] \in Kinds

Parameters(m) == {Signature[m][k].name : k \in DOMAIN Signature[m]}
Required(m) == {Signature[m][k].name : k \in {j \in DOMAIN Signature[m] : Signature[m][j].required}}
Parameter(m, n) == CHOOSE p \in Range(Signature[m]) : p.name = n

-----------------------------------------------------------------------------
(* isinstance: true and false are numbers.                                 *)
Class(v) ==
    CASE v \in Texts -> {"str"}
      [] v = "true" -> {"bool", "int"}
      [] OTHER -> {v}
(* json.loads of a text; that of a word fails, and it stays.               *)
Loads(v) == CASE v = "digits" -> "int" [] v = "list_text" -> "list" [] OTHER -> v
Refused == "refused"
Matches(p, v) == p.classes \cap Class(v) # {}

(* Null, unions and the others.  A text that is given for a union is       *)
(* parsed, be strings among the union or not: type(str) is no class of one.*)
Validated(p, v) ==
    CASE ~p.hint -> v
      [] p.hint /\ v = "null" -> IF p.null THEN v ELSE Refused
      [] p.hint /\ v # "null" /\ p.union -> IF Matches(p, Loads(v)) THEN Loads(v) ELSE Refused
      [] OTHER -> IF p.classes = {"float"} /\ "int" \in Class(v) THEN "float"
                  ELSE IF Matches(p, v) THEN v ELSE Refused

(* params: none, a list, an object or something else; as an object, with   *)
(* names that are taken from the signature for a list.                     *)
NoArguments == [n \in {} |-> Null]
Named(line) ==
    IF line.params.is = "list"
      THEN [n \in {Signature[line.method][k].name : k \in DOMAIN line.params.values} |->
               line.params.values[CHOOSE k \in DOMAIN line.params.values :
                                      Signature[line.method][k].name = n]]
    ELSE IF line.params.is = "object" THEN line.params.values ELSE NoArguments

(* _call: the code of the error, or none.                                  *)
Allowed(line) ==
    LET m == line.method IN
    IF m \notin DOMAIN Signature THEN 32601 ELSE
    CASE line.params.is = "none" -> IF Required(m) = {} THEN 0 ELSE 32602
      [] line.params.is = "text" -> 32602
      [] line.params.is = "list" /\ Len(line.params.values) \notin
             Cardinality(Required(m))..Len(Signature[m]) -> 32602
      [] OTHER ->
            LET given == Named(line) IN
            IF /\ Required(m) \subseteq DOMAIN given
               /\ DOMAIN given \subseteq Parameters(m)
               /\ \A n \in DOMAIN given : Validated(Parameter(m, n), given[n]) # Refused
              THEN 0 ELSE 32602

(* What is looked at before a line is a request with an id of its own.     *)
Invalid(line) ==
    CASE line.shape = "garbage" -> 32700
      [] line.shape = "array" -> 32600
      [] line.shape = "object" /\ (~line.version \/ line.method = Null) -> 32600
      [] OTHER -> 0
Response(id, code) == [id |-> id, code |-> code]
Idle == [shape |-> "blank"]

(* What a line is owed: a request an answer with its id, and what is no    *)
(* request at all one with the id null; a notification none, whatever      *)
(* becomes of it, and a blank line none.                                   *)
HasId(line) == line.id # "absent"
WantsAnswer(line) == line.shape # "blank" /\ (Invalid(line) # 0 \/ HasId(line))
IdOf(line) == IF Invalid(line) # 0 THEN Null ELSE line.id

-----------------------------------------------------------------------------
Reading == doing = "reading" /\ lines # <<>>
Take(line, handed) ==
    /\ lines' = Tail(lines) /\ taken' = Append(taken, line) /\ called' = Append(called, handed)
    /\ owed' = IF WantsAnswer(line) THEN Append(owed, IdOf(line)) ELSE owed

SkipBlank ==
    /\ Reading /\ Head(lines).shape = "blank"
    /\ Take(Head(lines), FALSE)
    /\ UNCHANGED <<input, arguments, current, output, doing>>

RefuseInvalid ==
    /\ Reading /\ Head(lines).shape # "blank"
    /\ LET line == Head(lines) IN
          /\ Invalid(line) # 0
          /\ output' = Append(output, Response(Null, Invalid(line)))
          /\ Take(line, FALSE)
    /\ UNCHANGED <<input, arguments, current, doing>>

Respond(line, code) ==
    output' = IF HasId(line) THEN Append(output, Response(line.id, code)) ELSE output

RefuseCall ==
    /\ Reading /\ Head(lines).shape = "object"
    /\ LET line == Head(lines) IN
          /\ Invalid(line) = 0 /\ Allowed(line) # 0
          /\ Respond(line, Allowed(line))
          /\ Take(line, FALSE)
    /\ UNCHANGED <<input, arguments, current, doing>>

Call ==
    /\ Reading /\ Head(lines).shape = "object"
    /\ LET line == Head(lines) IN
          /\ Invalid(line) = 0 /\ Allowed(line) = 0
          /\ LET given == Named(line) IN
             arguments' = [n \in DOMAIN given |-> Validated(Parameter(line.method, n), given[n])]
          /\ current' = IF HasId(line) THEN line.id ELSE Null
          /\ input' = line /\ doing' = "calling"
          /\ Take(line, TRUE)
    /\ UNCHANGED output

(* The method returns, or raises an error of its own, that it was          *)
(* cancelled, or anything else.                                            *)
Return ==
    /\ doing = "calling"
    /\ \E code \in {0, 32601, 32800, 32603} : Respond(input, code)
    /\ current' = Null /\ input' = Idle /\ arguments' = NoArguments /\ doing' = "reading"
    /\ UNCHANGED <<lines, taken, called, owed>>

(* The end of the input, or a client that does not read the answers.       *)
End ==
    /\ doing = "reading" /\ doing' = "ended"
    /\ UNCHANGED <<lines, taken, called, owed, input, arguments, current, output>>

Init ==
    /\ lines \in Inputs
    /\ taken = <<>> /\ called = <<>> /\ owed = <<>> /\ output = <<>>
    /\ input = Idle /\ arguments = NoArguments /\ current = Null
    /\ doing = "reading"

Next == SkipBlank \/ RefuseInvalid \/ RefuseCall \/ Call \/ Return \/ End

Spec == Init /\ [][Next]_vars

-----------------------------------------------------------------------------
(* Every line that asks for an answer has one, in the order of the lines   *)
(* and with the id of its line, the one that is handled being the last to  *)
(* get it.  No id outlives the call it belongs to.                         *)
AnsweredInOrder ==
    /\ [k \in DOMAIN output |-> output[k].id]
           \o (IF doing = "calling" /\ WantsAnswer(input) THEN <<IdOf(input)>> ELSE <<>>) = owed
    /\ doing # "calling" => current = Null

(* A method is called with all that it requires, with nothing it does not  *)
(* take and with nothing of another type, and a line that gives it that is *)
(* handed to it.  Not so a text that is JSON for a union: it is parsed     *)
(* first, and what it is then may be refused.                              *)
Fits(p, v) ==
    \/ ~p.hint \/ (v = "null" /\ p.null) \/ (v # "null" /\ Matches(p, v))
    \/ v \in {"int", "true"} /\ p.classes = {"float"} /\ ~p.union
Proper(line) ==
    /\ line.method \in DOMAIN Signature /\ line.params.is # "text"
    /\ line.params.is = "list" => Len(line.params.values) <= Len(Signature[line.method])
    /\ LET given == Named(line) IN
          /\ Required(line.method) \subseteq DOMAIN given
          /\ DOMAIN given \subseteq Parameters(line.method)
          /\ \A n \in DOMAIN given : Fits(Parameter(line.method, n), given[n])
Ambiguous(line) ==
    \E n \in DOMAIN Named(line) \cap Parameters(line.method) :
        Parameter(line.method, n).union /\ Loads(Named(line)[n]) # Named(line)[n]
ArgumentsFit ==
    doing = "calling" =>
        /\ Required(input.method) \subseteq DOMAIN arguments
        /\ DOMAIN arguments \subseteq Parameters(input.method)
        /\ \A n \in DOMAIN arguments : Fits(Parameter(input.method, n), arguments[n])
LinesAreJudged ==
    \A k \in DOMAIN taken :
        LET line == taken[k] IN
        line.shape = "object" /\ Invalid(line) = 0 =>
            /\ called[k] => line.method \in DOMAIN Signature
            /\ (line.method \in DOMAIN Signature /\ ~called[k]) => ~Proper(line) \/ Ambiguous(line)
            /\ called[k] => Proper(line) \/ Ambiguous(line)
CallsAreChecked == ArgumentsFit /\ LinesAreJudged

LinesAreAnswered == AnsweredInOrder /\ CallsAreChecked
=============================================================================
