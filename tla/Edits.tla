-------------------------------- MODULE Edits -------------------------------
(***************************************************************************)
(* The tools of the archived upstream plugin that change the database by   *)
(* batches (api_modify.py, api_types.py), and a client that sends the same *)
(* request again when it lost the answer.  A batch runs as one function on *)
(* the main thread of IDA, item after item; each item adds its result to   *)
(* the answer and may end the batch.  The database is what the tools look  *)
(* at: names, local variables, frame members, types, enums and comments.   *)
(***************************************************************************)
EXTENDS Naturals, Sequences, SequencesExt, FiniteSets, Functions

CONSTANTS
    Funcs,      \* starts of functions
    Data,       \* addresses of data
    Names,      \* names a client gives
    Fixed,      \* frame members that are special or arguments
    Members,    \* names of enum members
    Values,     \* their values
    Enums,      \* enums
    Types,      \* types
    Lines,      \* comments of one line
    Requests,   \* the batches clients send
    MaxTries    \* bound: times a client sends a request

VARIABLES
    names,      \* of addresses, NoName for those a user has not named
    vibe,       \* functions in the directory /vibe/
    locals,     \* names of the local variables of a function
    frame,      \* names of its stack variables
    types,      \* types of addresses
    enums,      \* the members of an enum and their values, and whether it is a bitfield
    comments,   \* lines of the comments of functions and of addresses
    req,        \* the request: items, and stop_on_error, dry_run, allow_overwrite
    todo,       \* items that have not been looked at
    results,    \* the answer
    before,     \* history: names, locals, frame and enums when the request was sent
    tries       \* times it was sent

db == <<names, vibe, locals, frame, types, enums, comments>>
vars == <<db, req, todo, results, before, tries>>

NoName == "none"
(* What set_name makes of a name that is taken, when it may overwrite.     *)
Numbered == "numbered"
NoEnum == [is |-> FALSE, bitfield |-> FALSE, members |-> <<>>]
Addrs == Funcs \cup Data

Renames == {"func", "data", "local", "stack"}
Kinds == Renames \cup {"type", "enum", "member", "comment"}
EditsAssumption ==
    /\ Funcs \cap Data = {} /\ Names \cap {NoName, Numbered} = {} /\ MaxTries \in Nat
    /\ \A r \in Requests : \A k \in DOMAIN r.items :
         LET i == r.items[k] IN
         /\ i.kind \in Kinds
         /\ r.dry \/ r.overwrite => i.kind \in Renames
         /\ r.stop => i.kind \in Renames \cup {"type"}
         /\ i.kind \in Renames =>
              i = [kind |-> i.kind, at |-> i.at, old |-> i.old, new |-> i.new] /\ i.new \in Names
         /\ i.kind \in {"enum", "member"} => i.at \in Enums /\ (i.kind = "enum" <=> k = 1)
         /\ i.kind = "comment" => i.new \in Lines
    /\ \A r \in Requests : r.items \in Seq({r.items[k] : k \in DOMAIN r.items})

-----------------------------------------------------------------------------
(* Every item adds its result; a failure ends a batch with stop_on_error.  *)
Result(i, ok) == [item |-> i, ok |-> ok]
Succeed(i) == results' = Append(results, Result(i, TRUE)) /\ todo' = Tail(todo)
Fail(i) ==
    /\ results' = Append(results, Result(i, FALSE))
    /\ todo' = IF req.stop THEN <<>> ELSE Tail(todo)
    /\ UNCHANGED db

(* _set_name_checked: without allow_overwrite a name has one address.      *)
Conflict(ea, new) == ~req.overwrite /\ \E e \in Addrs \ {ea} : names[e] = new
Named(ea, new) == IF \E e \in Addrs \ {ea} : names[e] = new THEN Numbered ELSE new
SetName(ea, new) == names' = [names EXCEPT ![ea] = Named(ea, new)]

(* _rename_funcs.  A function that had no name of a user is placed in the  *)
(* directory for those that the client named, if that works.               *)
RenameFunc(i) ==
    /\ i.kind = "func"
    /\ \/ Fail(i) /\ (i.at \notin Funcs \/ ~req.dry \/ Conflict(i.at, i.new))
       \/ /\ i.at \in Funcs /\ ~Conflict(i.at, i.new)
          /\ IF req.dry THEN UNCHANGED <<names, vibe>>
             ELSE /\ SetName(i.at, i.new)
                  /\ vibe' \in {vibe, IF names[i.at] = NoName THEN vibe \cup {i.at} ELSE vibe}
          /\ Succeed(i)
          /\ UNCHANGED <<locals, frame, types, enums, comments>>

(* _rename_globals: by the address, or by the name that it has.  A dry run *)
(* does not see that IDA names no address that is not mapped.              *)
Target(i) == IF i.old = NoName THEN {i.at} ELSE {e \in Addrs : names[e] = i.old}
RenameGlobal(i) ==
    /\ i.kind = "data"
    /\ \/ Fail(i) /\ (Target(i) = {} \/ ~req.dry \/ \E ea \in Target(i) : Conflict(ea, i.new))
       \/ \E ea \in Target(i) :
            /\ ~Conflict(ea, i.new)
            /\ IF req.dry THEN UNCHANGED names ELSE ea \in Addrs /\ SetName(ea, i.new)
            /\ Succeed([i EXCEPT !.at = ea])
            /\ UNCHANGED <<vibe, locals, frame, types, enums, comments>>

Renamed(s, old, new) == (s \ {old}) \cup {new}

(* _rename_locals: the decompiler looks for the variable, a dry run does   *)
(* not.                                                                    *)
RenameLocal(i) ==
    /\ i.kind = "local"
    /\ \/ Fail(i) /\ (i.at \notin Funcs \/ ~req.dry)
       \/ /\ i.at \in Funcs
          /\ IF req.dry THEN UNCHANGED locals
             ELSE /\ i.old \in locals[i.at] /\ i.new \notin locals[i.at]
                  /\ locals' = [locals EXCEPT ![i.at] = Renamed(@, i.old, i.new)]
          /\ Succeed(i)
          /\ UNCHANGED <<names, vibe, frame, types, enums, comments>>

(* _rename_stack: not the saved registers and the arguments.               *)
RenameStack(i) ==
    /\ i.kind = "stack"
    /\ \/ Fail(i) /\ (i.at \notin Funcs \/ i.old \notin frame[i.at] \/ i.old \in Fixed \/ ~req.dry)
       \/ /\ i.at \in Funcs /\ i.old \in frame[i.at] \ Fixed
          /\ IF req.dry THEN UNCHANGED frame
             ELSE /\ i.new \notin frame[i.at]
                  /\ frame' = [frame EXCEPT ![i.at] = Renamed(@, i.old, i.new)]
          /\ Succeed(i)
          /\ UNCHANGED <<names, vibe, locals, types, enums, comments>>

(* type_apply_batch: the edit of a function, a global, a local variable or *)
(* a frame member, by the type it gives to an address.                     *)
ApplyType(i) ==
    /\ i.kind = "type"
    /\ \/ Fail(i)
       \/ /\ i.at \in Addrs
          /\ types' = [types EXCEPT ![i.at] = i.new]
          /\ Succeed(i)
          /\ UNCHANGED <<names, vibe, locals, frame, enums, comments>>

(* enum_upsert: an enum that is there keeps what it is; the members are    *)
(* not looked at when it is of the other kind, or cannot be created.       *)
UpsertEnum(i) ==
    /\ i.kind = "enum"
    /\ \/ /\ ~enums[i.at].is \/ enums[i.at].bitfield # i.bitfield
          /\ results' = Append(results, Result(i, FALSE)) /\ todo' = <<>>
          /\ UNCHANGED db
       \/ /\ enums[i.at].is => enums[i.at].bitfield = i.bitfield
          /\ enums' = [enums EXCEPT ![i.at].is = TRUE, ![i.at].bitfield = i.bitfield]
          /\ Succeed(i)
          /\ UNCHANGED <<names, vibe, locals, frame, types, comments>>

MembersOf(e) == enums[e].members
Taken(m) == \E e \in Enums : m \in DOMAIN MembersOf(e)
HasValue(e, v) == \E m \in DOMAIN MembersOf(e) : MembersOf(e)[m] = v
IsMember(e, m, v) == m \in DOMAIN MembersOf(e) /\ MembersOf(e)[m] = v
Added(e, m, v) ==
    [x \in DOMAIN MembersOf(e) \cup {m} |-> IF x = m THEN v ELSE MembersOf(e)[x]]

(* A member that is there with its value is skipped; one whose name or     *)
(* value is taken is a conflict; the others are added, if IDA does.        *)
UpsertMember(i) ==
    /\ i.kind = "member"
    /\ \/ Fail(i) /\ ~IsMember(i.at, i.new, i.value)
       \/ IsMember(i.at, i.new, i.value) /\ Succeed(i) /\ UNCHANGED db
       \/ /\ ~Taken(i.new) /\ ~HasValue(i.at, i.value)
          /\ enums' = [enums EXCEPT ![i.at].members = Added(i.at, i.new, i.value)]
          /\ Succeed(i)
          /\ UNCHANGED <<names, vibe, locals, frame, types, comments>>

(* append_comments: a comment of the function or of the line.              *)
Scope(i) == IF i.scope = "func" \/ (i.scope = "auto" /\ i.at \in Funcs) THEN "func" ELSE "line"
HasPlace(i) == i.at \in IF Scope(i) = "func" THEN Funcs ELSE Addrs
Skipped(i) == i.dedupe /\ i.new \in ToSet(comments[i.at][Scope(i)])
AppendComment(i) ==
    /\ i.kind = "comment"
    /\ \/ Fail(i) /\ (~HasPlace(i) \/ ~Skipped(i))
       \/ /\ HasPlace(i)
          /\ comments' = IF Skipped(i) THEN comments
                         ELSE [comments EXCEPT ![i.at][Scope(i)] = Append(@, i.new)]
          /\ Succeed(i)
          /\ UNCHANGED <<names, vibe, locals, frame, types, enums>>

Item(i) ==
    \/ RenameFunc(i) \/ RenameGlobal(i) \/ RenameLocal(i) \/ RenameStack(i)
    \/ ApplyType(i) \/ UpsertEnum(i) \/ UpsertMember(i) \/ AppendComment(i)

Step == todo # <<>> /\ Item(Head(todo)) /\ UNCHANGED <<req, before, tries>>

Now == [names |-> names, locals |-> locals, frame |-> frame, enums |-> enums]

(* The client got no answer and sends the request again.                   *)
Retry ==
    /\ todo = <<>> /\ tries < MaxTries
    /\ tries' = tries + 1
    /\ todo' = req.items /\ results' = <<>>
    /\ before' = Now
    /\ UNCHANGED <<db, req>>

-----------------------------------------------------------------------------
Init ==
    /\ names \in {f \in [Addrs -> Names \cup {NoName}] :
                    \A d, e \in Addrs : f[d] = f[e] => d = e \/ f[d] = NoName}
    /\ vibe = {} /\ types = [e \in Addrs |-> NoName]
    /\ \E n \in Names : /\ locals = [f \in Funcs |-> {n}]
                        /\ frame = [f \in Funcs |-> {n} \cup Fixed]
    /\ enums = [e \in Enums |-> NoEnum]
    /\ comments = [e \in Addrs |-> [func |-> <<>>, line |-> <<>>]]
    /\ req \in Requests
    /\ todo = req.items /\ results = <<>> /\ before = Now /\ tries = 1

Next == Step \/ Retry

Spec == Init /\ [][Next]_vars

-----------------------------------------------------------------------------
(* Where an item without an error left its mark.                           *)
Done(i) ==
    CASE i.kind \in {"func", "data"} -> names[i.at] = i.new
      [] i.kind = "local" -> i.new \in locals[i.at]
      [] i.kind = "stack" -> i.new \in frame[i.at]
      [] i.kind = "type" -> types[i.at] = i.new
      [] i.kind = "enum" -> enums[i.at].is /\ enums[i.at].bitfield = i.bitfield
      [] i.kind = "member" -> IsMember(i.at, i.new, i.value)
      [] i.kind = "comment" -> i.new \in ToSet(comments[i.at][Scope(i)])

(* Two items have the same mark to leave.                                  *)
SameMark(i, j) ==
    \/ i.kind \in {"func", "data"} /\ j.kind \in {"func", "data"} /\ i.at = j.at
    \/ i.kind = "type" /\ j.kind = "type" /\ i.at = j.at
    \/ i.kind \in {"local", "stack"} /\ j.kind = i.kind /\ j.old = i.new

(* The answer of a batch is what became of the database: what it says was  *)
(* done is done, unless a later item of the batch did something else to    *)
(* it; nothing follows the error that ends a batch, and only an error ends *)
(* one; a dry run leaves everything as it was.  A forced rename is left    *)
(* out: IDA may give it another name than the answer says.                 *)
ResultsTellTheTruth ==
    /\ req.dry => Now = before
    /\ ~req.dry /\ ~req.overwrite =>
         \A k \in DOMAIN results : results[k].ok =>
            \/ Done(results[k].item)
            \/ \E l \in (k + 1)..Len(results) : SameMark(results[k].item, results[l].item)
    /\ req.stop => \A k \in 1..(Len(results) - 1) : results[k].ok
    /\ todo = <<>> /\ Len(results) < Len(req.items) => ~Last(results).ok

(* A request that is sent again, because its answer was lost, does no      *)
(* harm: a comment is there once, members and values of the enums are not  *)
(* changed or given twice, and no name has two addresses.                  *)
RepeatsDoNoHarm ==
    /\ (\A k \in DOMAIN req.items : req.items[k].kind = "comment" => req.items[k].dedupe) =>
         \A e \in Addrs : IsInjective(comments[e].func) /\ IsInjective(comments[e].line)
    /\ \A e \in Enums : \A m \in DOMAIN before.enums[e].members :
         IsMember(e, m, before.enums[e].members[m])
    /\ \A d, e \in Enums : d # e => DOMAIN MembersOf(d) \cap DOMAIN MembersOf(e) = {}
    /\ \A e \in Enums : IsInjective(MembersOf(e))
    /\ \A d, e \in Addrs : names[d] = names[e] => d = e \/ names[d] \in {NoName, Numbered}

EditsAreTold == ResultsTellTheTruth /\ RepeatsDoNoHarm
=============================================================================
