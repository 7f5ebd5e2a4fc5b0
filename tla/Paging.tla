------------------------------- MODULE Paging -------------------------------
(***************************************************************************)
(* The list tools of the plugin (tools/analysis.py) and of the upstream    *)
(* plugin (api_core.py, api_analysis.py, api_types.py, utils.py) and a     *)
(* client that reads a list page after page: it sends the cursor of an     *)
(* answer with its next request until the answer says that the list is     *)
(* done.  The database does not change meanwhile.                          *)
(* An item of the database is a number; rows says of each whether the      *)
(* query finds it ("hit"), finds it outside the executable segments        *)
(* ("data"), or does not find it ("miss").                                 *)
(***************************************************************************)
EXTENDS Integers, Sequences, SequencesExt, FiniteSets

CONSTANTS
    MaxRows,     \* items of the database
    Limits,      \* limits, counts and sizes a client asks for
    MaxLimit,    \* what a tool takes for a limit that is too large (or none)
    MaxOffset,   \* the largest offset the plugin takes (1,000,000)
    DefaultLimit,\* what find_regex and search_text take for none
    Scans,       \* values of max_scan_insns
    RefsPerLimit \* references get_callers looks at for each caller it may list

VARIABLES
    tool,        \* the tool
    rows,        \* the database as the query sees it
    limit,       \* what the client asks for
    scan,        \* max_scan_insns of insn_query
    start,       \* the first item of the range of insn_query, the cursor of search_text
    offset,      \* the cursor of the other tools
    got,         \* the items of the pages so far
    state        \* "more", "cut" (the list says it is not complete) or "done"

vars == <<tool, rows, limit, scan, start, offset, got, state>>

(* The plugin gives no page that begins behind MaxOffset: a larger list    *)
(* cannot be read to its end.                                              *)
PagingAssumption ==
    /\ MaxOffset \in Nat /\ MaxRows <= MaxOffset + 1
    /\ MaxRows \in Nat /\ MaxLimit \in Nat \ {0} /\ DefaultLimit \in 1..MaxLimit
    /\ Limits \subseteq Nat /\ Scans \subseteq Nat \ {0} /\ RefsPerLimit \in Nat \ {0}

(* Tools with a cursor, and those that return one list with a flag.        *)
Paged == {"disasm", "find_bytes", "string", "immediate", "data_ref", "code_ref", "blocks", "insns",
          "regex", "text", "funcs", "func_query", "globals", "entities", "imports", "imports_query",
          "xref_query", "types", "profiles", "ida_list_functions", "ida_list_strings",
          "ida_list_imports"}
Flagged == {"callees", "xrefs", "callers", "items", "lines", "some_blocks", "ida_disassemble",
            "ida_xrefs"}

(* With these a limit of nothing is not "all": insn_query stays where it   *)
(* is, and the sections of analyze_batch are empty.  Clients ask for more. *)
NeedsLimit == {"insns", "callers"}

-----------------------------------------------------------------------------
(* How many of the first n items of rows are among kinds, and these items. *)
Upto(kinds, n) == Cardinality({p \in 1..Len(rows) : p <= n /\ rows[p] \in kinds})
All(kinds) ==
    [i \in 1..Upto(kinds, Len(rows)) |->
       CHOOSE p \in 1..Len(rows) : rows[p] \in kinds /\ Upto(kinds, p) = i]

Everything == All({"hit", "miss", "data"})
Anywhere == All({"hit", "data"})
(* The hits from one item on and up to another.                            *)
InCode(from, to) == SubSeq(All({"hit"}), Upto({"hit"}, from - 1) + 1, Upto({"hit"}, to))

(* What there is to be found by the tool, in the order of its list.        *)
Complete ==
    CASE tool \in {"disasm", "blocks", "lines", "some_blocks", "ida_disassemble"} -> Everything
      [] tool \in {"immediate", "insns", "text", "callees"} -> All({"hit"})
      [] OTHER -> Anywhere

(* s[from : from + n]                                                      *)
Slice(s, from, n) == SubSeq(s, from + 1, IF from + n < Len(s) THEN from + n ELSE Len(s))

(* An answer: its items and the cursor for the next ones, none at the end. *)
NoCursor == -1
Answer(page, more, next) == [page |-> page, next |-> IF more THEN next ELSE NoCursor]
(* Fault: the cursor goes on by what was asked for, not by what was given. *)
CountedAsAsked(s, n) == Answer(Slice(s, offset, n), Len(s) > offset + n, offset + limit)
Counted(s, n) == Answer(Slice(s, offset, n), Len(s) > offset + n, offset + n)

Clamped == IF limit = 0 \/ limit > MaxLimit THEN MaxLimit ELSE limit
OrDefault == IF limit = 0 THEN DefaultLimit ELSE IF limit > MaxLimit THEN MaxLimit ELSE limit
Capped == IF limit > MaxLimit THEN MaxLimit ELSE limit
OrAHundred == IF limit = 0 THEN MaxLimit ELSE limit

disasm == Counted(Everything, Clamped)
find_bytes == Counted(Anywhere, Clamped)
find_string == Counted(Anywhere, Clamped)
(* The search stops at the limit and takes it that there is more.          *)
find_immediate ==
    LET page == Slice(All({"hit"}), offset, Clamped)
    IN  Answer(page, Len(page) = Clamped, offset + Clamped)
find_refs ==
    LET matches == Slice(Anywhere, offset, Clamped + 1)
    IN  Answer(Slice(matches, 0, Clamped), Len(matches) > Clamped, offset + Clamped)
basic_blocks == Counted(Everything, Clamped)
find_regex == Counted(Anywhere, OrDefault)

(* Decodes at most scan items of the range; the items behind them are for  *)
(* another request, with the range from next_start on.                     *)
scan_insn_ranges ==
    LET matches == InCode(start, start + scan - 1)
        page == Slice(matches, offset, Capped)
    IN  [page |-> page, more |-> Len(matches) > offset + Capped,
         truncated |-> Len(matches) <= offset + Capped /\ start + scan <= Len(rows)]
insn_query ==
    LET found == scan_insn_ranges IN Answer(found.page, found.more, offset + Capped)

(* Its cursor is the address behind the last hit.                          *)
search_text ==
    LET page == Slice(InCode(start, Len(rows)), 0, OrDefault)
    IN  Answer(page, Len(page) = OrDefault, Last(page) + 1)

(* paginate: no count is the whole list.                                   *)
paginate(s, n) ==
    LET count == IF n = 0 THEN Len(s) ELSE n
    IN  Answer(Slice(s, offset, count), offset + count < Len(s), offset + count)
pattern_filter == Anywhere
list_funcs == paginate(pattern_filter, limit)
func_query == paginate(pattern_filter, limit)
list_globals == paginate(pattern_filter, limit)
entity_query == paginate(pattern_filter, OrAHundred)
imports == paginate(Anywhere, limit)
imports_query == paginate(pattern_filter, limit)
xref_query == paginate(Anywhere, Capped)
type_query == paginate(pattern_filter, OrAHundred)
func_profile == paginate(pattern_filter, Capped)

(* Those of the plugin itself: at least one row, from MaxOffset at most.   *)
clamp_int(value, minimum, maximum) ==
    IF value < minimum THEN minimum ELSE IF value > maximum THEN maximum ELSE value
Rows(s) ==
    LET from == clamp_int(offset, 0, MaxOffset)
        count == clamp_int(limit, 1, MaxLimit)
    IN  Answer(Slice(s, from, count), from + count < Len(s), from + count)
list_functions == Rows(Anywhere)
list_strings == Rows(Anywhere)
list_imports == Rows(Anywhere)

NextPage ==
    CASE tool = "disasm" -> disasm
      [] tool = "find_bytes" -> find_bytes
      [] tool = "string" -> find_string
      [] tool = "immediate" -> find_immediate
      [] tool \in {"data_ref", "code_ref"} -> find_refs
      [] tool = "blocks" -> basic_blocks
      [] tool = "insns" -> insn_query
      [] tool = "regex" -> find_regex
      [] tool = "text" -> search_text
      [] tool = "funcs" -> list_funcs
      [] tool = "func_query" -> func_query
      [] tool = "globals" -> list_globals
      [] tool = "entities" -> entity_query
      [] tool = "imports" -> imports
      [] tool = "imports_query" -> imports_query
      [] tool = "xref_query" -> xref_query
      [] tool = "types" -> type_query
      [] tool = "profiles" -> func_profile
      [] tool = "ida_list_functions" -> list_functions
      [] tool = "ida_list_strings" -> list_strings
      [] tool = "ida_list_imports" -> list_imports

(* Lists without a cursor: their items, and whether they say they are cut. *)
CutList(s, n) == [list |-> Slice(s, 0, n), cut |-> Len(s) > n]

(* The limit is looked at before each instruction, so the list says that   *)
(* it is cut when instructions are left, be there calls among them or not. *)
callees ==
    LET list == Slice(All({"hit"}), 0, Clamped)
    IN  [list |-> list, cut |-> Len(list) = Clamped /\ Last(list) < Len(rows)]
xrefs_to == CutList(Anywhere, Clamped)
limit_items == CutList(Anywhere, Capped)
disasm_lines_limited == CutList(Everything, Capped)
collect_basic_blocks_limited == CutList(Everything, Capped)

(* analyze_batch knows of get_callers only how many it returned, and not   *)
(* that it has stopped before the last reference.                          *)
Looked == Capped * RefsPerLimit - 1
get_callers == Slice(SubSeq(Anywhere, 1, Upto({"hit", "data"}, Looked)), 0, Capped)
callers == [list |-> get_callers, cut |-> Capped > 0 /\ Len(get_callers) >= Capped]

disassemble == CutList(Everything, clamp_int(limit, 1, MaxLimit))
(* References to an address and from it; cut when the list is just full.   *)
xrefs ==
    LET max == clamp_int(limit, 1, MaxLimit)
        list == Slice(Anywhere, 0, max)
    IN  [list |-> list, cut |-> Len(list) >= max]

OneList ==
    CASE tool = "callees" -> callees
      [] tool = "xrefs" -> xrefs_to
      [] tool = "callers" -> callers
      [] tool = "items" -> limit_items
      [] tool = "lines" -> disasm_lines_limited
      [] tool = "some_blocks" -> collect_basic_blocks_limited
      [] tool = "ida_disassemble" -> disassemble
      [] tool = "ida_xrefs" -> xrefs

-----------------------------------------------------------------------------
Init ==
    /\ tool \in Paged \cup Flagged
    /\ rows \in BoundedSeq({"hit", "miss", "data"}, MaxRows)
    /\ limit \in {n \in Limits : tool \in NeedsLimit => n > 0}
    /\ scan \in Scans /\ (tool # "insns" => \A n \in Scans : scan <= n)
    /\ start = 1 /\ offset = 0 /\ got = <<>> /\ state = "more"

(* A page that has a cursor: the next request goes on there.               *)
Continue ==
    /\ state = "more" /\ tool \in Paged /\ NextPage.next # NoCursor
    /\ got' = got \o NextPage.page
    /\ IF tool = "text" THEN start' = NextPage.next /\ UNCHANGED offset
                        ELSE offset' = NextPage.next /\ UNCHANGED start
    /\ UNCHANGED <<tool, rows, limit, scan, state>>

(* insn_query is done with the items it decoded, but not with its range.   *)
Rescope ==
    /\ state = "more" /\ tool = "insns"
    /\ NextPage.next = NoCursor /\ scan_insn_ranges.truncated
    /\ got' = got \o NextPage.page
    /\ start' = start + scan /\ offset' = 0
    /\ UNCHANGED <<tool, rows, limit, scan, state>>

LastPage ==
    /\ state = "more" /\ tool \in Paged /\ NextPage.next = NoCursor
    /\ tool = "insns" => ~scan_insn_ranges.truncated
    /\ got' = got \o NextPage.page
    /\ state' = "done"
    /\ UNCHANGED <<tool, rows, limit, scan, start, offset>>

Whole ==
    /\ state = "more" /\ tool \in Flagged
    /\ got' = OneList.list
    /\ state' = IF OneList.cut THEN "cut" ELSE "done"
    /\ UNCHANGED <<tool, rows, limit, scan, start, offset>>

Next == Continue \/ Rescope \/ LastPage \/ Whole

(* A client that pages goes on to the end of the list.                     *)
Fairness == WF_vars(Next)

Spec == Init /\ [][Next]_vars /\ Fairness

-----------------------------------------------------------------------------
(* The pages of a list, put together, are the list: nothing is missing,    *)
(* nothing comes twice or out of its order, wherever the pages end and     *)
(* whether or not the limit divides the length of the list; and a list     *)
(* that does not say it was cut is complete.  Not so with the callers of a *)
(* function that has more references than get_callers looks at.            *)
PagesAddUp ==
    /\ IsPrefix(got, Complete)
    /\ state = "done" => got = Complete \/ (tool = "callers" /\ Looked < Len(rows))

(* A client that follows the cursors comes to the end of the list.         *)
PagingEnds == <>(state # "more")
=============================================================================
