----------------------------- MODULE SearchText -----------------------------
(***************************************************************************)
(* search_text (tools/analysis.py) as an agent uses it to go through a     *)
(* whole database: a call scans items from its start address on until it   *)
(* has enough hits, has scanned enough items or has taken too long, and    *)
(* answers with its hits and the address at which to go on.  The agent     *)
(* calls again with that address until it is told that all is done.        *)
(*                                                                         *)
(* A call runs on IDA's main thread as a whole; between two calls the user *)
(* or an agent may edit the database.  Whether an item matches stands for  *)
(* the pattern and for what it is compared with.                           *)
(***************************************************************************)
EXTENDS Integers, Sequences, FiniteSets

CONSTANTS
    Top,       \* addresses are 0 .. Top - 1
    Layouts,   \* sequences of <<start, end>>, the segments that are searched
    Limit,     \* hits of a call
    ScanLimit, \* items scanned by a call; clamp_int makes it 100 at least
    MaxEdits,  \* bound: edits
    NoCursor

Addresses == 0..(Top - 1)

ASSUME LimitAssumption ==
    /\ Top \in Nat
    /\ Limit \in Nat \ {0}
    /\ ScanLimit \in Nat \ {0, 1}
    /\ MaxEdits \in Nat
    /\ NoCursor \notin Int

(* idautils.Segments goes up, and segments do not overlap.                 *)
ASSUME LayoutAssumption ==
    \A layout \in Layouts :
        /\ layout \in Seq(Addresses \X (1..Top))
        /\ \A i \in DOMAIN layout :
               /\ layout[i][1] < layout[i][2]
               /\ \A j \in 1..(i - 1) : layout[j][2] <= layout[i][1]

VARIABLES
    segments,
    heads,      \* start addresses of items
    size,       \* of the item at a head
    matching,   \* heads whose text matches
    edits,
    touched,    \* addresses whose item or text was edited
    state,      \* "ask", "scan" or "done"
    start,      \* the start argument of the call
    segmentIndex, cursor, hits, scanned, nextCursor, \* of search_text
    received    \* hits of all answers

database == <<segments, heads, size, matching, edits, touched>>
callVars == <<segmentIndex, cursor, hits, scanned, nextCursor>>
searchVars == <<database, state, start, callVars, received>>

InSegments(a) == \E i \in DOMAIN segments : segments[i][1] <= a /\ a < segments[i][2]

(* Items lie in a segment and do not overlap.                              *)
ItemsFit(items, length) ==
    \A h \in items : \A a \in h..(h + length[h] - 1) : InSegments(a) /\ (a = h \/ a \notin items)

SearchTypeOK ==
    /\ segments \in Layouts
    /\ heads \subseteq Addresses
    /\ matching \subseteq heads
    /\ size \in [Addresses -> Nat \ {0}] /\ ItemsFit(heads, size)
    /\ edits \in 0..MaxEdits
    /\ touched \subseteq Addresses
    /\ state \in {"ask", "scan", "done"}
    /\ start \in Nat \cup {NoCursor}
    /\ segmentIndex \in 1..(Len(segments) + 1)
    /\ cursor \in Nat
    /\ hits \in Seq(Addresses) /\ Len(hits) <= Limit
    /\ scanned \in 0..ScanLimit
    /\ nextCursor \in Nat \cup {NoCursor}
    /\ received \in Seq(Addresses)

SearchInit ==
    /\ segments \in Layouts
    /\ heads \in SUBSET Addresses
    /\ size \in [Addresses -> 1..2] /\ ItemsFit(heads, size)
    /\ \A a \in Addresses \ heads : size[a] = 1
    /\ matching \in SUBSET heads
    /\ edits = 0
    /\ touched = {}
    /\ state = "ask"
    /\ start = NoCursor
    /\ segmentIndex = 1
    /\ cursor = 0
    /\ hits = <<>>
    /\ scanned = 0
    /\ nextCursor = NoCursor
    /\ received = <<>>

-----------------------------------------------------------------------------
(* Segment i is the first one that ends above an address, or there is none *)
(* and i is beyond the last.                                               *)
SegmentFor(a, i) ==
    /\ \A j \in 1..(i - 1) : segments[j][2] <= a
    /\ i <= Len(segments) => segments[i][2] > a

From == IF start = NoCursor THEN segments[1][1] ELSE start

(* A call begins; without segments it is over at once.                     *)
BeginCall ==
    /\ state = "ask"
    /\ hits' = <<>> /\ scanned' = 0 /\ nextCursor' = NoCursor
    /\ IF segments = <<>>
       THEN state' = "done" /\ UNCHANGED <<segmentIndex, cursor>>
       ELSE \E i \in 1..(Len(segments) + 1) :
               /\ SegmentFor(From, i)
               /\ state' = "scan"
               /\ segmentIndex' = i
               /\ cursor' = IF i <= Len(segments) /\ From < segments[i][1]
                            THEN segments[i][1] ELSE From
    /\ UNCHANGED <<database, start, received>>

Scanning ==
    /\ state = "scan" /\ nextCursor = NoCursor
    /\ segmentIndex <= Len(segments) /\ Len(hits) < Limit

(* What Heads(max(seg_start, ea), seg_end) has still to yield.             *)
HeadsLeft ==
    {h \in heads : cursor <= h /\ segments[segmentIndex][1] <= h /\ h < segments[segmentIndex][2]}
NextHead(h) == h \in HeadsLeft /\ \A a \in HeadsLeft : h <= a

(* Fault: the next call begins with the segment.                           *)
StopAtSegment(h) ==
    /\ scanned' = scanned + 1
    /\ nextCursor' = segments[segmentIndex][1]
    /\ UNCHANGED <<database, state, start, segmentIndex, cursor, hits, received>>

(* The scan limit, or at any item the time limit: the item itself is left  *)
(* to the next call.                                                       *)
StopAt(h) ==
    /\ scanned' = scanned + 1
    /\ nextCursor' = h
    /\ UNCHANGED <<database, state, start, segmentIndex, cursor, hits, received>>

ScanLimitReached ==
    /\ Scanning
    /\ scanned + 1 >= ScanLimit
    /\ \E h \in heads : NextHead(h) /\ StopAt(h)

TimeLimitReached ==
    /\ Scanning
    /\ scanned + 1 < ScanLimit
    /\ \E h \in heads : NextHead(h) /\ StopAt(h)

(* Fault: the next call begins at the last hit.                            *)
ScanStaying(h) ==
    /\ scanned' = scanned + 1
    /\ cursor' = h + size[h]
    /\ hits' = IF h \in matching THEN Append(hits, h) ELSE hits
    /\ nextCursor' = IF h \in matching /\ Len(hits) + 1 >= Limit THEN h ELSE NoCursor

(* Fault: an item is taken to be one byte long, and the next one skipped.  *)
ScanSkipping(h) ==
    /\ scanned' = scanned + 1
    /\ cursor' = h + size[h] + 1
    /\ hits' = IF h \in matching THEN Append(hits, h) ELSE hits
    /\ nextCursor' = IF h \in matching /\ Len(hits) + 1 >= Limit THEN cursor' ELSE NoCursor

(* The item is compared with the pattern; enough hits end the call.        *)
Scan(h) ==
    /\ scanned' = scanned + 1
    /\ cursor' = h + size[h]
    /\ hits' = IF h \in matching THEN Append(hits, h) ELSE hits
    /\ nextCursor' = IF h \in matching /\ Len(hits) + 1 >= Limit THEN cursor' ELSE NoCursor

ScanHead ==
    /\ Scanning
    /\ scanned + 1 < ScanLimit
    /\ \E h \in heads : NextHead(h) /\ Scan(h)
    /\ UNCHANGED <<database, state, start, segmentIndex, received>>

NextSegment ==
    /\ Scanning
    /\ HeadsLeft = {}
    /\ segmentIndex' = segmentIndex + 1
    /\ cursor' = IF segmentIndex < Len(segments) THEN segments[segmentIndex + 1][1] ELSE cursor
    /\ UNCHANGED <<database, state, start, hits, scanned, nextCursor, received>>

(* Fault: an answer that is full counts as partial only if it was cut off. *)
AnswerFullIsDone ==
    /\ state = "scan" /\ ~Scanning
    /\ received' = received \o hits
    /\ start' = nextCursor
    /\ state' = IF nextCursor = NoCursor \/ Len(hits) = Limit THEN "done" ELSE "ask"
    /\ UNCHANGED <<database, callVars>>

(* The answer: {"next": ...} if there is a cursor, {"done": True} if not.  *)
Answer ==
    /\ state = "scan" /\ ~Scanning
    /\ received' = received \o hits
    /\ start' = nextCursor
    /\ state' = IF nextCursor = NoCursor THEN "done" ELSE "ask"
    /\ UNCHANGED <<database, callVars>>

-----------------------------------------------------------------------------
(* Edits of the user or an agent, between two calls.                       *)
Edit(a) ==
    /\ state = "ask" /\ edits < MaxEdits
    /\ edits' = edits + 1
    /\ touched' = touched \cup {a}
    /\ UNCHANGED <<segments, size, state, start, callVars, received>>

UndoItem(a) ==
    /\ a \in heads
    /\ heads' = heads \ {a} /\ matching' = matching \ {a}
    /\ Edit(a)

MakeItem(a) ==
    /\ InSegments(a) /\ a \notin heads
    /\ heads' = heads \cup {a} /\ ItemsFit(heads', size)
    /\ matching' \in {matching, matching \cup {a}}
    /\ Edit(a)

ChangeText(a) ==
    /\ a \in heads
    /\ heads' = heads
    /\ matching' = IF a \in matching THEN matching \ {a} ELSE matching \cup {a}
    /\ Edit(a)

-----------------------------------------------------------------------------
Call ==
    \/ BeginCall \/ ScanHead \/ ScanLimitReached \/ TimeLimitReached
    \/ NextSegment \/ Answer

SearchNext == Call \/ \E a \in Addresses : UndoItem(a) \/ MakeItem(a) \/ ChangeText(a)

SearchSpec == SearchInit /\ [][SearchNext]_searchVars

(* A call goes on, the agent asks again, and no call after call is over    *)
(* before it has looked at one item: the shortest time limit is 250 ms.    *)
SearchFairSpec == SearchSpec /\ WF_searchVars(Call) /\ SF_searchVars(ScanHead)

-----------------------------------------------------------------------------
Ascending(s) == \A i, j \in DOMAIN s : i < j => s[i] < s[j]

(* Whatever ends the single calls and whatever is edited between them, the *)
(* answers never give an address twice, nor out of order.                  *)
NoHitTwice == Ascending(received)

(* A search that is done has given every item that matched all along.      *)
NothingMissed ==
    state = "done" => \A h \in matching \ touched : \E i \in DOMAIN received : received[i] = h

Found == received \o hits

(* What a call has found so far is what matched below its cursor.          *)
FoundSoFar ==
    state = "scan" =>
        \A h \in matching \ touched : h < cursor <=> \E i \in DOMAIN Found : Found[i] = h

(* The inductive invariant of the proofs: a cursor divides the database    *)
(* into what has been given and what is still to come.                     *)
Divides(a, s) ==
    /\ \A i \in DOMAIN s : s[i] < a
    /\ \A h \in matching \ touched : h < a => \E i \in DOMAIN s : s[i] = h

AskInv ==
    state = "ask" => IF start = NoCursor THEN received = <<>> ELSE Divides(start, received)

(* In the segment at hand the cursor is not below its start; in those      *)
(* before it there is nothing left.                                        *)
ScanInv ==
    state = "scan" =>
        /\ Ascending(Found)
        /\ Divides(cursor, Found)
        /\ nextCursor # NoCursor => Divides(nextCursor, Found)
        /\ nextCursor = NoCursor => Len(hits) < Limit /\ scanned < ScanLimit
        /\ segmentIndex <= Len(segments) =>
               /\ segments[segmentIndex][1] <= cursor
               /\ \A i \in DOMAIN Found : Found[i] < segments[segmentIndex][2]
        /\ \A h \in heads, j \in 1..(segmentIndex - 1) : cursor <= h => segments[j][2] <= h

SearchInv == SearchTypeOK /\ NoHitTwice /\ NothingMissed /\ AskInv /\ ScanInv

(* An agent that follows the cursor comes to the end of the database.      *)
SearchEnds == <>(state = "done")
=============================================================================
