------------------------------ MODULE Patching ------------------------------
(***************************************************************************)
(* The tools of the archived upstream plugin that write what IDA shows at  *)
(* an address, and those that read it back: bytes and integers             *)
(* (api_memory.py), comments, instructions and functions (api_modify.py),  *)
(* stack variables (api_stack.py) and breakpoints (api_debug.py).  A       *)
(* client sends some items one after the other; each is answered by itself *)
(* and an error does not stop the ones behind it.                          *)
(***************************************************************************)
EXTENDS Integers, Sequences, SequencesExt, Functions

CONSTANTS
    Mapped,     \* addresses of the database
    Outside,    \* addresses that are not mapped
    Base,       \* a byte is below this (256 in the code)
    Sizes,      \* sizes of integers, in bytes
    Offsets,    \* of stack variables
    Kept,       \* the name of a stack variable that is special or an argument
    Plans,      \* the items clients send
    Starts      \* databases in which they are carried out

VARIABLES
    mem,        \* bytes of the mapped addresses, Unloaded where the file has none
    notes,      \* comments: of the line, of the function, in the pseudocode
    code,       \* addresses that are instructions
    functions,  \* addresses at which functions start
    slots,      \* stack variables at the offsets of the frame
    points,     \* breakpoints
    plan,       \* the items
    replies,    \* what was answered
    was         \* history: mem at the start

world == <<mem, notes, code, functions, slots, points>>
vars == <<world, plan, replies, was>>

Addresses == Mapped \cup Outside
Unloaded == -1
Nothing == "nothing"

(* i8, u16le, u16be, ...                                                   *)
Classes == [size : Sizes, signed : BOOLEAN, big : BOOLEAN]
Bytes == 0..(Base - 1)

(* What a client may ask for; an instruction is its bytes.                 *)
IsItem(i) ==
    /\ i.at \in Addresses
    /\ \/ i.op \in {"comment", "define_func", "define_code", "add", "remove", "toggle", "condition"}
       \/ i.op = "get_int" /\ i.class \in Classes
       \/ i.op = "put_int" /\ i.class \in Classes /\ i.value \in Int
       \/ i.op \in {"get_bytes", "undefine"} /\ i.size \in Nat
       \/ i.op = "patch" /\ i.data \in Seq(Bytes)
       \/ i.op = "patch_asm" /\ i.insns \in Seq(Seq(Bytes))
       \/ i.op = "declare" /\ i.offset \in Offsets /\ i.name # Nothing
       \/ i.op = "delete" /\ i.name # Nothing
Items == UNION {{p[k] : k \in DOMAIN p} : p \in Plans}

PatchingAssumption ==
    /\ Mapped \subseteq Nat /\ Mapped # {} /\ Outside \subseteq Nat \ Mapped
    /\ Base \in Nat \ {0} /\ Base % 2 = 0 /\ Sizes \subseteq Nat \ {0}
    /\ Offsets \subseteq Nat /\ Offsets # {}
    /\ Starts \subseteq [Mapped -> Bytes \cup {Unloaded}]
    /\ Plans \subseteq Seq(Items) /\ \A i \in Items : IsItem(i)

First(S) == CHOOSE a \in S : \A b \in S : a <= b

-----------------------------------------------------------------------------
(* int.to_bytes and int.from_bytes.  Rest is what is left of a value when  *)
(* its lowest n bytes are taken away; a class holds the values of which in *)
(* the end nothing is left but their sign.                                 *)
Rest(class, value) ==
    LET rest[n \in 0..class.size] == IF n = 0 THEN value ELSE rest[n - 1] \div Base IN rest
Little(class, value) == [j \in 1..class.size |-> Rest(class, value)[j - 1] % Base]
Sign(class, little) == IF class.signed /\ little[class.size] >= Base \div 2 THEN -1 ELSE 0
Holds(class, value) == Rest(class, value)[class.size] = Sign(class, Little(class, value))
ToBytes(class, value) ==
    IF class.big THEN Reverse(Little(class, value)) ELSE Little(class, value)
FromBytes(class, data) ==
    LET little == IF class.big THEN Reverse(data) ELSE data
        high[n \in 0..class.size] ==
            IF n = 0 THEN Sign(class, little) ELSE high[n - 1] * Base + little[class.size - n + 1]
    IN  high[class.size]

(* Only of the first byte it is asked whether it is mapped; patch_bytes    *)
(* passes over those that are not.                                         *)
Covers(ea, n) == ea..(ea + n - 1)
Written(ea, data) ==
    [a \in Mapped |-> IF a \in Covers(ea, Len(data)) THEN data[a - ea + 1] ELSE mem[a]]

(* Bytes without a value are read as 0, also those outside the database.   *)
Byte(a) == IF a \in Mapped /\ mem[a] # Unloaded THEN mem[a] ELSE 0
read_bytes_bss_safe(ea, n) == [j \in 1..n |-> Byte(ea + j - 1)]

-----------------------------------------------------------------------------
Reply(i, ok, value) == replies' = Append(replies, [item |-> i, ok |-> ok, value |-> value])
Succeeds(i) == Reply(i, TRUE, Nothing)
Refused(i) == Reply(i, FALSE, Nothing)
Fails(i) == Refused(i) /\ UNCHANGED world

get_int(i) ==
    /\ i.op = "get_int"
    /\ Reply(i, TRUE, FromBytes(i.class, read_bytes_bss_safe(i.at, i.class.size)))
    /\ UNCHANGED world
get_bytes(i) ==
    /\ i.op = "get_bytes"
    /\ Reply(i, TRUE, read_bytes_bss_safe(i.at, i.size))
    /\ UNCHANGED world

patch(i) ==
    /\ i.op = "patch"
    /\ IF i.at \notin Mapped THEN Fails(i)
       ELSE /\ mem' = Written(i.at, i.data)
            /\ Succeeds(i)
            /\ UNCHANGED <<notes, code, functions, slots, points>>

(* A value that the class does not hold is an OverflowError, or a negative *)
(* value that is not allowed.                                              *)
put_int(i) ==
    /\ i.op = "put_int"
    /\ IF ~Holds(i.class, i.value) \/ i.at \notin Mapped THEN Fails(i)
       ELSE /\ mem' = Written(i.at, ToBytes(i.class, i.value))
            /\ Succeeds(i)
            /\ UNCHANGED <<notes, code, functions, slots, points>>

(* The instructions before the first one that does not assemble (it has no *)
(* bytes here) are patched, each behind the one before it.                 *)
Assembled(insns) ==
    LET bytes[n \in 0..Len(insns)] == IF n = 0 THEN <<>> ELSE bytes[n - 1] \o insns[n] IN bytes
AllBytes(insns) == Assembled(insns)[Len(insns)]
Unknown(insns) == {k \in DOMAIN insns : insns[k] = <<>>}
patch_asm(i) ==
    LET bad == Unknown(i.insns)
        done == IF bad = {} THEN Len(i.insns) ELSE First(bad) - 1
    IN  /\ i.op = "patch_asm"
        /\ mem' = Written(i.at, Assembled(i.insns)[done])
        /\ IF bad = {} THEN Succeeds(i) ELSE Refused(i)
        /\ UNCHANGED <<notes, code, functions, slots, points>>

(* The comment of the line comes first.  It stays when the decompiler then *)
(* has no place for the comment: then it is an error, but not when there   *)
(* is no decompiler or it does not decompile the function.                 *)
Noted(i, where) ==
    notes' = [notes EXCEPT ![i.at] = [w \in DOMAIN @ |-> IF w \in where THEN i.new ELSE @[w]]]
set_comments(i) ==
    /\ i.op = "comment"
    /\ \/ Fails(i)
       \/ /\ i.at \in Mapped
          /\ \/ Noted(i, {"line"}) /\ (Succeeds(i) \/ Refused(i))
             \/ i.at \in functions /\ Noted(i, {"line", "func"}) /\ Succeeds(i)
             \/ i.at \notin functions /\ Noted(i, {"line", "pseudo"}) /\ Succeeds(i)
          /\ UNCHANGED <<mem, code, functions, slots, points>>

(* IDA may refuse each of these.                                           *)
define_func(i) ==
    /\ i.op = "define_func"
    /\ \/ Fails(i)
       \/ /\ i.at \in Mapped \ functions
          /\ functions' = functions \cup {i.at} /\ code' = code \cup {i.at}
          /\ Succeeds(i)
          /\ UNCHANGED <<mem, notes, slots, points>>
define_code(i) ==
    /\ i.op = "define_code"
    /\ \/ Fails(i)
       \/ /\ i.at \in Mapped
          /\ code' = code \cup {i.at}
          /\ Succeeds(i)
          /\ UNCHANGED <<mem, notes, functions, slots, points>>
undefine(i) ==
    /\ i.op = "undefine"
    /\ \/ Fails(i)
       \/ /\ code' = code \ Covers(i.at, i.size)
          /\ functions' = functions \ Covers(i.at, i.size)
          /\ Succeeds(i)
          /\ UNCHANGED <<mem, notes, slots, points>>

(* define_stkvar gives the variable that is at the offset another name.    *)
Named(name) == {o \in Offsets : slots[o] = name}
declare_stack(i) ==
    /\ i.op = "declare"
    /\ \/ Fails(i)
       \/ /\ i.at \in functions /\ slots[i.offset] # Kept
          /\ Named(i.name) \subseteq {i.offset}
          /\ slots' = [slots EXCEPT ![i.offset] = i.name]
          /\ Succeeds(i)
          /\ UNCHANGED <<mem, notes, code, functions, points>>
delete_stack(i) ==
    /\ i.op = "delete"
    /\ \/ Fails(i)
       \/ /\ i.at \in functions /\ i.name # Kept
          /\ \E o \in Named(i.name) : slots' = [slots EXCEPT ![o] = Nothing]
          /\ Succeeds(i)
          /\ UNCHANGED <<mem, notes, code, functions, points>>

list_breakpoints == DOMAIN points

(* One that is there already is not an error.                              *)
dbg_add_bp(i) ==
    /\ i.op = "add"
    /\ \/ i.at \in list_breakpoints /\ Succeeds(i) /\ UNCHANGED world
       \/ i.at \notin list_breakpoints /\ Fails(i)
       \/ /\ i.at \notin list_breakpoints
          /\ points' =
                 [a \in DOMAIN points \cup {i.at} |->
                        IF a = i.at THEN [on |-> TRUE, cond |-> Nothing, lang |-> "IDC"] ELSE points[a]]
          /\ Succeeds(i)
          /\ UNCHANGED <<mem, notes, code, functions, slots>>
dbg_delete_bp(i) ==
    /\ i.op = "remove"
    /\ \/ Fails(i)
       \/ /\ i.at \in list_breakpoints
          /\ points' = Restrict(points, DOMAIN points \ {i.at})
          /\ Succeeds(i)
          /\ UNCHANGED <<mem, notes, code, functions, slots>>
dbg_toggle_bp(i) ==
    /\ i.op = "toggle"
    /\ \/ Fails(i)
       \/ /\ i.at \in list_breakpoints
          /\ points' = [points EXCEPT ![i.at].on = i.on]
          /\ Succeeds(i)
          /\ UNCHANGED <<mem, notes, code, functions, slots>>

(* What dbg_set_bp_condition does, one after the other: a condition in     *)
(* another language goes, the language is set, the condition is set.       *)
Relanguaged(i) == i.lang # Nothing /\ i.lang # points[i.at].lang
Cleared(i) ==
    IF Relanguaged(i) /\ i.cond # Nothing THEN [points[i.at] EXCEPT !.cond = Nothing]
                                          ELSE points[i.at]
InLanguage(i) == IF Relanguaged(i) THEN [Cleared(i) EXCEPT !.lang = i.lang] ELSE Cleared(i)
Conditioned(i) == [InLanguage(i) EXCEPT !.cond = i.cond]

(* Each of the steps may fail, and what was done before stays; also the    *)
(* last one, which looks whether the condition compiles.                   *)
dbg_set_bp_condition(i) ==
    /\ i.op = "condition"
    /\ IF i.at \notin list_breakpoints THEN Fails(i)
       ELSE /\ \/ /\ points' = [points EXCEPT ![i.at] = Conditioned(i)] /\ Succeeds(i)
               \/ /\ \E bpt \in {points[i.at], Cleared(i), InLanguage(i), Conditioned(i)} :
                        points' = [points EXCEPT ![i.at] = bpt]
                  /\ Refused(i)
            /\ UNCHANGED <<mem, notes, code, functions, slots>>

Item(i) ==
    \/ get_int(i) \/ get_bytes(i) \/ patch(i) \/ put_int(i) \/ patch_asm(i) \/ set_comments(i)
    \/ define_func(i) \/ define_code(i) \/ undefine(i) \/ declare_stack(i) \/ delete_stack(i)
    \/ dbg_add_bp(i) \/ dbg_delete_bp(i) \/ dbg_toggle_bp(i) \/ dbg_set_bp_condition(i)

-----------------------------------------------------------------------------
NoNotes == [w \in {"line", "func", "pseudo"} |-> Nothing]
Init ==
    /\ mem \in Starts /\ was = mem
    /\ notes = [a \in Addresses |-> NoNotes]
    /\ functions = {First(Mapped)} /\ code = functions
    /\ slots = [o \in Offsets |-> IF o = First(Offsets) THEN Kept ELSE Nothing]
    /\ points = [a \in {} |-> Nothing]
    /\ plan \in Plans
    /\ replies = <<>>

Next == plan # <<>> /\ Item(Head(plan)) /\ plan' = Tail(plan) /\ UNCHANGED was

Spec == Init /\ [][Next]_vars

-----------------------------------------------------------------------------
Before(k, l) == (k + 1)..(l - 1)
Writes == {"patch", "put_int", "patch_asm"}
Length(i) ==
    CASE i.op \in {"put_int", "get_int"} -> i.class.size
      [] i.op = "patch" -> Len(i.data)
      [] i.op = "patch_asm" -> Len(AllBytes(i.insns))
Overlap(i, j) == Covers(i.at, Length(i)) \cap Covers(j.at, Length(j)) # {}

(* An integer that was written is what is read there, in the same class,   *)
(* signed or not and in either order of bytes, as long as all of it is in  *)
(* the database and nothing was written over it.                           *)
IntegersReadBack ==
    \A k, l \in DOMAIN replies :
        LET put == replies[k].item
            get == replies[l].item IN
        /\ k < l /\ put.op = "put_int" /\ get.op = "get_int" /\ replies[k].ok
        /\ put.at = get.at /\ put.class = get.class
        /\ Covers(put.at, put.class.size) \subseteq Mapped
        /\ \A m \in Before(k, l) : replies[m].item.op \in Writes => ~Overlap(put, replies[m].item)
        => replies[l].value = put.value

(* Whatever differs from the database at the start was asked for: an item  *)
(* names the byte, the comment or the breakpoint, and it was answered      *)
(* without an error, or it is one that can fail halfway.  Variables of the *)
(* frame that belong to the call stay, and none is there twice.  A         *)
(* condition is in the language that it was given in, except when IDA      *)
(* refused to take it away.                                                *)
Halfway == {"patch_asm", "comment", "condition"}
Asked(ops, a) ==
    \E k \in DOMAIN replies : LET r == replies[k] IN
        /\ r.item.op \in ops /\ (r.ok \/ r.item.op \in Halfway)
        /\ a \in IF r.item.op \in Writes THEN Covers(r.item.at, Length(r.item)) ELSE {r.item.at}
GivenIn(a, cond, lang) ==
    \E k \in DOMAIN replies : LET r == replies[k] IN
        /\ r.item.op = "condition" /\ r.item.at = a
        /\ \/ r.item.cond = cond /\ r.item.lang \in {Nothing, lang}
           \/ r.item.cond = Nothing /\ r.item.lang = lang /\ ~r.ok
OnlyWhatWasAsked ==
    /\ \A a \in Mapped : mem[a] # was[a] => Asked(Writes, a)
    /\ \A a \in Addresses : notes[a] # NoNotes => Asked({"comment"}, a)
    /\ \A a \in DOMAIN points : Asked({"add"}, a)
    /\ slots[First(Offsets)] = Kept
    /\ \A o, p \in Offsets : slots[o] = slots[p] => o = p \/ slots[o] = Nothing
    /\ \A a \in DOMAIN points : points[a].cond # Nothing => GivenIn(a, points[a].cond, points[a].lang)

(* What an item that was answered without an error leaves.                 *)
Holding(ea, data) == \A a \in Covers(ea, Len(data)) \cap Mapped : mem[a] = data[a - ea + 1]
Done(i) ==
    CASE i.op \in {"get_int", "get_bytes"} -> TRUE
      [] i.op = "patch" -> Holding(i.at, i.data)
      [] i.op = "put_int" -> Holding(i.at, ToBytes(i.class, i.value))
      [] i.op = "patch_asm" -> Holding(i.at, AllBytes(i.insns))
      [] i.op = "comment" -> notes[i.at].line = i.new
      [] i.op = "define_func" -> i.at \in functions
      [] i.op = "define_code" -> i.at \in code
      [] i.op = "undefine" -> Covers(i.at, i.size) \cap (functions \cup code) = {}
      [] i.op = "declare" -> slots[i.offset] = i.name
      [] i.op = "delete" -> Named(i.name) = {}
      [] i.op = "add" -> i.at \in DOMAIN points
      [] i.op = "remove" -> i.at \notin DOMAIN points
      [] i.op = "toggle" -> i.at \in DOMAIN points /\ points[i.at].on = i.on
      [] i.op = "condition" -> /\ i.at \in DOMAIN points /\ points[i.at].cond = i.cond
                               /\ i.lang \in {Nothing, points[i.at].lang}

(* Items that leave something in the same place.                           *)
Defines == {"define_func", "define_code", "undefine"}
Points == {"add", "remove", "toggle", "condition"}
SamePlace(i, j) ==
    \/ i.op \in Writes /\ j.op \in Writes /\ Overlap(i, j)
    \/ i.op = "comment" /\ j.op = "comment" /\ i.at = j.at
    \/ i.op \in Defines /\ j.op \in Defines
    \/ i.op \in {"declare", "delete"} /\ j.op \in {"declare", "delete"} /\ i.name = j.name
    \/ i.op = "declare" /\ j.op = "declare" /\ i.offset = j.offset
    \/ i.op \in Points /\ j.op \in Points /\ i.at = j.at
       /\ (j.op = i.op \/ j.op = "remove" \/ i.op = "remove")
AnswersHold ==
    \A k \in DOMAIN replies : replies[k].ok =>
        \/ Done(replies[k].item)
        \/ \E l \in (k + 1)..Len(replies) : SamePlace(replies[k].item, replies[l].item)

PatchesAreTrue == IntegersReadBack /\ OnlyWhatWasAsked /\ AnswersHold
=============================================================================
