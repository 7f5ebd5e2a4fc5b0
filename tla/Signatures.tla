----------------------------- MODULE Signatures -----------------------------
(***************************************************************************)
(* The signatures of the archived upstream plugin (api_sigmaker.py and the *)
(* engine in _sigmaker.py).  A signature is made from an address on, one   *)
(* instruction after the other, the bytes of operands being left open,     *)
(* until nothing else in the database looks like it; then open bytes at    *)
(* its end are taken off.  Those for the references to an address are      *)
(* sorted by their length; that of a range is just what the range holds.   *)
(***************************************************************************)
EXTENDS Naturals, Sequences, FiniteSets

CONSTANTS
    Images,     \* databases: their bytes, at the addresses from 0 on
    Tilings,    \* the instructions at the start of a database: size, and
                \* offset and number of the bytes of the operand
    Asks        \* what clients ask for

VARIABLES
    image, tiling, ask,
    sites,      \* addresses for which no signature has been made
    growing,    \* the signature so far, of the first of them
    made,       \* the answers
    phase       \* "making" or "answered"

vars == <<image, tiling, ask, sites, growing, made, phase>>

IsAsk(q) ==
    /\ q.wildcards \in BOOLEAN
    /\ \/ q.kind = "references" /\ q.longest \in Nat /\ q.top \in Nat
       \/ q.kind = "addresses" /\ q.longest \in Nat /\ q.sites \in Seq(Nat)
       \/ q.kind = "range" /\ q.sites \in Seq(Nat) /\ q.end \in Nat

(* Every instruction has a byte that is not of an operand.                 *)
SignaturesAssumption ==
    /\ Images \subseteq Seq(Nat)
    /\ Tilings \subseteq Seq([size : Nat, off : Nat, open : Nat])
    /\ \A t \in Tilings : \A k \in DOMAIN t :
           t[k].off + t[k].open <= t[k].size /\ t[k].open < t[k].size
    /\ \A q \in Asks : IsAsk(q)

-----------------------------------------------------------------------------
Size == Len(image)

(* Instructions follow one another: where each of them starts, which is    *)
(* where the one before it ends.                                           *)
Walked(t) ==
    LET walked[k \in 0..Len(t)] == IF k = 0 THEN 0 ELSE walked[k - 1] + t[k].size IN walked
HeadOf(k) == Walked(tiling)[k - 1]
EndOf(k) == Walked(tiling)[k]
Heads == {HeadOf(k) : k \in DOMAIN tiling}
Ends == {EndOf(k) : k \in DOMAIN tiling}
Behind(a) == EndOf(CHOOSE k \in DOMAIN tiling : HeadOf(k) = a)

(* append_instruction_to_sig leaves the bytes of the operand open.         *)
Operand(k) == (HeadOf(k) + tiling[k].off)..(HeadOf(k) + tiling[k].off + tiling[k].open - 1)
Open == IF ask.wildcards THEN UNION {Operand(k) : k \in DOMAIN tiling} ELSE {}

(* idaapi.get_bytes has none when some of them are missing.                *)
BytesAt(from, to, opened) ==
    IF to > Size THEN <<>>
    ELSE [j \in 1..(to - from) |-> [value |-> image[from + j], open |-> from + j - 1 \in opened]]

Matches(sig) ==
    {a \in 0..Size : /\ a + Len(sig) <= Size
                     /\ \A j \in DOMAIN sig : sig[j].open \/ sig[j].value = image[a + j]}
IsUnique(sig) == Cardinality(Matches(sig)) = 1
Least(S) == CHOOSE n \in S : \A m \in S : n <= m
Greatest(S) == CHOOSE n \in S : \A m \in S : m <= n
Trimmed(sig) == SubSeq(sig, 1, Greatest({0} \cup {j \in DOMAIN sig : ~sig[j].open}))

-----------------------------------------------------------------------------
Site == Head(sites)
(* The walk stands behind the bytes it has added.                          *)
Cursor == Site + Len(growing)

(* The next instruction of the signature of an address.  The length is     *)
(* looked at before it is added: a signature may get longer.               *)
Grow ==
    /\ phase = "making" /\ sites # <<>> /\ ask.kind # "range"
    /\ Len(growing) <= ask.longest /\ Cursor \in Heads
    /\ LET sig == growing \o BytesAt(Cursor, Behind(Cursor), Open) IN
       IF IsUnique(sig)
         THEN /\ made' = Append(made, [at |-> Site, sig |-> Trimmed(sig), span |-> Len(sig)])
              /\ sites' = Tail(sites) /\ growing' = <<>>
         ELSE growing' = sig /\ UNCHANGED <<made, sites>>
    /\ UNCHANGED <<image, tiling, ask, phase>>

(* Data, a signature that is too long, or the end of the instructions.  An *)
(* answer says so, but the references of an address just have one less.    *)
GiveUp ==
    /\ phase = "making" /\ sites # <<>> /\ ask.kind # "range"
    /\ Len(growing) > ask.longest \/ Cursor \notin Heads
    /\ made' = IF ask.kind = "references" THEN made
               ELSE Append(made, [at |-> Site, sig |-> <<>>, span |-> 0])
    /\ sites' = Tail(sites) /\ growing' = <<>>
    /\ UNCHANGED <<image, tiling, ask, phase>>

(* From the start of a range to its end: data as it is, and instructions   *)
(* as long as they can be decoded, the last of which may go beyond it.     *)
Stop(end) ==
    LET ends == {e \in Ends : e >= end} IN
    IF ends # {} THEN Least(ends) ELSE IF end <= Size THEN end ELSE EndOf(Len(tiling))
RangeBytes(start, end) ==
    IF start \in Heads THEN BytesAt(start, Stop(end), Open) ELSE BytesAt(start, end, {})

MakeRange ==
    /\ phase = "making" /\ sites # <<>> /\ ask.kind = "range"
    /\ LET bytes == RangeBytes(Site, ask.end) IN
       made' = Append(made, IF ask.end <= Site THEN [at |-> Site, sig |-> <<>>, span |-> 0]
                            ELSE [at |-> Site, span |-> Len(bytes),
                                  sig |-> IF Site \in Heads THEN Trimmed(bytes) ELSE bytes])
    /\ sites' = Tail(sites)
    /\ UNCHANGED <<image, tiling, ask, growing, phase>>

(* Signatures of references are sorted, and the first ones are the answer. *)
Before(j, k) ==
    Len(made[j].sig) < Len(made[k].sig) \/ (Len(made[j].sig) = Len(made[k].sig) /\ j < k)
Orders(S) == {order \in [S -> S] : \A m \in S : \E k \in S : order[k] = m}
Sorted(order) == \A j, k \in DOMAIN made : j < k => Before(order[j], order[k])
Top == IF ask.top < Len(made) THEN ask.top ELSE Len(made)
Answer ==
    /\ phase = "making" /\ sites = <<>>
    /\ IF ask.kind = "references"
         THEN \E order \in Orders(DOMAIN made) :
                 Sorted(order) /\ made' = [k \in 1..Top |-> made[order[k]]]
         ELSE UNCHANGED made
    /\ phase' = "answered"
    /\ UNCHANGED <<image, tiling, ask, sites, growing>>

-----------------------------------------------------------------------------
Init ==
    /\ image \in Images /\ tiling \in Tilings /\ EndOf(Len(tiling)) <= Size
    /\ ask \in Asks
    /\ sites = IF ask.kind = "references" THEN [k \in DOMAIN tiling |-> HeadOf(k)] ELSE ask.sites
    /\ growing = <<>> /\ made = <<>> /\ phase = "making"

Next == Grow \/ GiveUp \/ MakeRange \/ Answer

Spec == Init /\ [][Next]_vars

-----------------------------------------------------------------------------
(* The signature of the instructions from s to e, before open bytes are    *)
(* taken off, and the places where instructions from s on end.             *)
EndsFrom(s) == {e \in Ends : e > s}
Whole(s, e) == RangeBytes(s, e)

(* A signature is found where it was made.  One that was to be unique is   *)
(* found nowhere else, but for the end of the database: there a place may  *)
(* look like it that was too close to the end for the open bytes that were *)
(* taken off.  No fewer instructions would have done.                      *)
SignatureIsGood(r) ==
    /\ r.at \in Matches(r.sig)
    /\ ask.kind # "range" =>
         /\ \A a \in Matches(r.sig) \ {r.at} : a + r.span > Size
         /\ \A e \in EndsFrom(r.at) : e < r.at + r.span => ~IsUnique(Whole(r.at, e))
    /\ ~ask.wildcards => \A j \in DOMAIN r.sig : ~r.sig[j].open

(* There is none only if there is none in the length that was allowed.     *)
NoneFound(s) ==
    s \in Heads => \A e \in EndsFrom(s) : e - s <= ask.longest => ~IsUnique(Whole(s, e))

(* The references that are answered are the shortest: one that is left out *)
(* has no signature, or no shorter one, and there is no room for it.       *)
SignaturesOf(s) ==
    {[at |-> s, sig |-> Trimmed(Whole(s, e)), span |-> e - s] : e \in EndsFrom(s)}
SignaturesAreTrue ==
    /\ \A k \in DOMAIN made :
         IF made[k].sig # <<>> THEN SignatureIsGood(made[k])
         ELSE ask.kind = "range" \/ NoneFound(made[k].at)
    /\ phase = "answered" /\ ask.kind = "references" =>
         /\ \A j, k \in DOMAIN made : j < k => Len(made[j].sig) <= Len(made[k].sig)
         /\ \A s \in Heads : NoneFound(s) \/ \E r \in SignaturesOf(s) :
              /\ SignatureIsGood(r)
              /\ \/ \E k \in DOMAIN made : made[k] = r
                 \/ /\ Len(made) = ask.top
                    /\ \A k \in DOMAIN made : Len(made[k].sig) <= Len(r.sig)
=============================================================================
