----------------------------- MODULE MCUpstream -----------------------------
(***************************************************************************)
(* A small instance of Upstream for TLC.                                   *)
(***************************************************************************)
EXTENDS Upstream, TLC, Integers, Sequences

CONSTANTS bin, idb, a, b, s1, s2, t1, t2, n, c1, c2, c3, fa, fb

(* A binary that may be opened by its database.                            *)
CandidatesDef == (bin :> {bin, idb}) @@ (idb :> {idb})

(* Two windows with a server each.                                         *)
WindowOfDef == (s1 :> a) @@ (s2 :> b)

(* A name that two windows have.                                           *)
NamedDef == (n :> {t1, t2})

(* Two clients share a file, a third has its own.                          *)
FileOfDef == (c1 :> fa) @@ (c2 :> fa) @@ (c3 :> fb)
OrderDef == <<c1, c2, c3>>

(* Batches of two items; those of a batch of renames come in the order of  *)
(* its sections.                                                           *)
Rename(k, at, old, new) == [kind |-> k, at |-> at, old |-> old, new |-> new]
Functions == {Rename("func", at, "none", new) : at \in {"f", "d"}, new \in Identifiers}
Globals == {Rename("data", "d", old, new) : old \in Identifiers \cup {"none"}, new \in Identifiers}
Variables == {Rename("local", "f", "m", new) : new \in Identifiers}
Slots == {Rename("stack", "f", old, new) : old \in {"m"} \cup Fixed, new \in Identifiers}
Batch(items, flag) ==
    [items |-> items, stop |-> flag = "stop", dry |-> flag = "dry", overwrite |-> flag = "overwrite"]
Pairs(S, T, flags) == {Batch(<<i, j>>, flag) : i \in S, j \in T, flag \in flags}
Renames ==
    LET flags == {"none", "stop", "dry"} IN
    Pairs(Functions, Functions \cup Globals, flags \cup {"overwrite"})
    \cup Pairs(Functions, Variables \cup Slots, flags)
    \cup Pairs(Globals, Globals \cup Variables, flags)
    \cup Pairs(Variables, Variables \cup Slots, flags)
    \cup Pairs(Slots, Slots, flags)
TypeItems == {[kind |-> "type", at |-> at, new |-> ty] : at \in {"f", "x"}, ty \in Types}
TypeEdits == Pairs(TypeItems, TypeItems, {"none", "stop"})
Enum(e, bitfield) == [kind |-> "enum", at |-> e, bitfield |-> bitfield]
Member(e, m, v) == [kind |-> "member", at |-> e, new |-> m, value |-> v]
Upserts ==
    {Batch(<<Enum(e, bf), Member(e, x, v), Member(e, y, w)>>, "none") :
        e \in Enums, bf \in BOOLEAN, x, y \in Members, v, w \in Values}
Comment(at, scope, line, dedupe) ==
    [kind |-> "comment", at |-> at, scope |-> scope, new |-> line, dedupe |-> dedupe]
Comments ==
    {Batch(<<Comment(x, s, "k", TRUE), Comment(y, t, l, d)>>, "none") :
        x, y \in {"f", "d"}, s, t \in {"auto", "func", "line"}, l \in Lines, d \in BOOLEAN}
EditBatchesDef == Renames \cup TypeEdits \cup Upserts \cup Comments

(* Integers of one and of two bytes that go from 0 to 3: every value, and  *)
(* some with something written between.                                    *)
StartsDef == {[x \in {0, 1} |-> v] : v \in {-1, 1}}
IntClass(z, sg, be) == [size |-> z, signed |-> sg, big |-> be]
IntClasses == {IntClass(1, sg, FALSE) : sg \in BOOLEAN} \cup {IntClass(2, sg, be) : sg, be \in BOOLEAN}
Put(x, c, v) == [op |-> "put_int", at |-> x, class |-> c, value |-> v]
Get(x, c) == [op |-> "get_int", at |-> x, class |-> c]
Between ==
    {[op |-> "patch", at |-> x, data |-> <<2, 3>>] : x \in 0..2}
    \cup {[op |-> "patch_asm", at |-> x, insns |-> <<<<0>>, bytes>>] : x \in 0..2, bytes \in {<<2>>, <<>>}}
    \cup {[op |-> "get_bytes", at |-> 1, size |-> 2], Put(1, IntClass(1, TRUE, FALSE), -1)}
MemoryPlans ==
    {<<Put(x, c, v), Get(x, c)>> : x \in 0..2, c \in IntClasses, v \in -9..16}
    \cup {<<Put(x, c, v), i, Get(x, c)>> : x \in 0..2, c \in IntClasses, v \in {-1, 3, 6}, i \in Between}

(* Two comments, definitions or stack variables, and breakpoints that two  *)
(* items change.                                                           *)
CommentItems == {[op |-> "comment", at |-> x, new |-> t] : x \in 0..2, t \in {"c", "d"}}
DefineItems ==
    {[op |-> o, at |-> x, size |-> z] :
        o \in {"define_func", "define_code", "undefine"}, x \in 0..2, z \in {1, 2}}
StackItems ==
    {[op |-> "declare", at |-> x, name |-> v, offset |-> o] :
        x \in 0..1, v \in {"p", "q", "arg"}, o \in {0, 4, 8}}
    \cup {[op |-> "delete", at |-> 0, name |-> v] : v \in {"p", "q", "arg"}}
AddPoint == [op |-> "add", at |-> 0]
PointItems ==
    {[op |-> "condition", at |-> 0, cond |-> c, lang |-> l] :
        c \in {"nothing", "c", "d"}, l \in {"nothing", "IDC", "Python"}}
    \cup {[op |-> "toggle", at |-> 0, on |-> x] : x \in BOOLEAN}
    \cup {AddPoint, [op |-> "remove", at |-> 0]}
PlansDef ==
    MemoryPlans \cup (CommentItems \X CommentItems) \cup (DefineItems \X DefineItems)
    \cup (StackItems \X StackItems)
    \cup {<<AddPoint, i, j>> : i, j \in PointItems} \cup {<<i, AddPoint>> : i \in PointItems}

(* Programs of three functions of up to two instructions that refer to     *)
(* them (or to none: 4), and each limit of a graph by itself.              *)
One(S) == {<<>>} \cup {<<<<x>>>> : x \in S}
Two(S) == {<<<<x>>, <<y>>>> : x, y \in S}
Same(S) == {<<<<x, y>>>> : x, y \in S}
ProgramsDef ==
    {(1 :> p) @@ (2 :> q) @@ (3 :> r) :
        p \in One(1..4) \cup Two(1..3) \cup Same(1..3),
        q \in One(1..3) \cup Two({1, 3}), r \in One({1, 2})}
Bound(d, nn, e, per) == [depth |-> d, nodes |-> nn, edges |-> e, per |-> per]
BoundsDef ==
    {Bound(4, 9, 9, 9), Bound(1, 9, 9, 9), Bound(2, 9, 9, 9), Bound(4, 2, 9, 9), Bound(4, 9, 2, 9),
     Bound(4, 9, 9, 1)}

(* A method without parameters, that of the notification that cancels, and *)
(* one with a parameter of each sort.                                      *)
Param(name, required, classes, union, null) ==
    [name |-> name, required |-> required, hint |-> classes # {}, classes |-> classes,
     union |-> union, null |-> null]
SignatureDef ==
    ("ping" :> <<>>)
    @@ ("cancelled" :> <<Param("requestId", TRUE, {"int", "str"}, TRUE, FALSE),
                         Param("reason", FALSE, {"str"}, TRUE, TRUE)>>)
    @@ ("call" :> <<Param("name", TRUE, {"str"}, FALSE, FALSE),
                    Param("factor", FALSE, {"float"}, FALSE, FALSE),
                    Param("extra", FALSE, {"str", "bool", "int", "float", "list"}, FALSE, FALSE),
                    Param("rest", FALSE, {}, FALSE, FALSE)>>)

(* Any line, behind one of the lines that are no call and before a ping.   *)
GivenValues == {"word", "digits", "list_text", "null", "true", "int", "float", "list"}
NoParams == [is |-> "none"]
ByPosition(values) == [is |-> "list", values |-> values]
ByName(values) == [is |-> "object", values |-> values]
Message(m, rid, params) ==
    [shape |-> "object", version |-> TRUE, method |-> m, id |-> rid, params |-> params]
MessageIds == {"absent", NullId, "x"}
CallLines ==
    {Message("cancelled", rid, ByPosition(<<v>>)) : rid \in MessageIds, v \in GivenValues}
    \cup {Message("cancelled", "x", ByPosition(<<"int", v>>)) : v \in GivenValues}
    \cup {Message("call", "y", ByPosition(<<"word", v, w>>)) : v, w \in GivenValues}
    \cup {Message("call", rid, ByName(("name" :> v) @@ (p :> w))) :
             rid \in {"absent", "x"}, v \in {"word", "int"}, p \in {"factor", "rest", "other"},
             w \in {"null", "int"}}
    \cup {Message("call", rid, p) : rid \in MessageIds,
             p \in {NoParams, [is |-> "text"], ByName("rest" :> "int"), ByPosition(<<"word", "word", "word", "word", "word">>)}}
OtherLines ==
    {Message(m, rid, NoParams) : m \in {"ping", "unknown"}, rid \in MessageIds}
    \cup {[shape |-> x] : x \in {"blank", "garbage", "array"}}
    \cup {[Message(m, rid, NoParams) EXCEPT !.version = v] :
             m \in {NullId, "ping"}, rid \in {"absent", "x"}, v \in BOOLEAN}
Ping == Message("ping", "z", NoParams)
InputsDef == {<<x, y, Ping>> : x \in OtherLines, y \in CallLines \cup OtherLines}

(* Databases of four bytes of two values, with instructions that take one  *)
(* to three of them, their operands at the end, at the start or none.      *)
ImagesDef == {[k \in 1..4 |-> v[k]] : v \in [1..4 -> {0, 1}]}
Insn(z, o, w) == [size |-> z, off |-> o, open |-> w]
InsnKinds == {Insn(1, 0, 0), Insn(2, 1, 1), Insn(3, 0, 2)}
TilingsDef ==
    {t \in UNION {[1..k -> InsnKinds] : k \in 1..4} :
        (LET fits[k \in 0..Len(t)] == IF k = 0 THEN 0 ELSE fits[k - 1] + t[k].size
         IN fits[Len(t)]) <= 4}
AsksDef ==
    {[kind |-> "references", wildcards |-> w, longest |-> x, top |-> 2] :
        w \in BOOLEAN, x \in {1, 4}}
    \cup {[kind |-> "range", wildcards |-> TRUE, sites |-> <<x>>, end |-> y] :
             x \in {0, 1}, y \in {0, 2, 4}}
    \cup {[kind |-> "addresses", wildcards |-> TRUE, longest |-> 4, sites |-> <<3, 0>>]}
=============================================================================
