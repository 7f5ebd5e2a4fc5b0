---------------------------- MODULE UpstreamTools ---------------------------
(***************************************************************************)
(* What the tools of a window of the archived upstream server answer:      *)
(* lists that are read page after page (Paging), batches of changes        *)
(* (Edits), what is written at addresses (Patching), call graphs           *)
(* (CallGraph) and signatures (Signatures).                                *)
(***************************************************************************)
EXTENDS Naturals, FiniteSets

CONSTANTS
    MaxRows, Limits, MaxLimit, MaxOffset, DefaultLimit, ScanLimits, RefsPerLimit,
    Funcs, Data, Identifiers, Fixed, Members, Values, Enums, Types, Lines, EditBatches, MaxTries,
    Mapped, Outside, Base, Sizes, Offsets, Kept, Plans, Starts,
    Subs, Inside, Main, NoSub, Programs, Bounds,
    Images, Tilings, Asks

VARIABLES
    listTool, rows, limit, maxScan, start, offset, got, state,
    names, vibe, locals, frame, types, enums, comments, req, todo, results, beforeBatch, tries,
    mem, notes, code, functions, slots, points, plan, replies, was,
    program, bounds, root, nodes, edges, walk, truncated, per_func_capped,
    image, tiling, ask, sites, growing, made, signPhase

Reading == INSTANCE Paging WITH Scans <- ScanLimits, scan <- maxScan, tool <- listTool
Editing == INSTANCE Edits
             WITH Names <- Identifiers, Requests <- EditBatches, before <- beforeBatch
Writing == INSTANCE Patching
Walking == INSTANCE CallGraph
Signing == INSTANCE Signatures WITH phase <- signPhase

ASSUME ToolsAssumption ==
    /\ Reading!PagingAssumption /\ Editing!EditsAssumption
    /\ Writing!PatchingAssumption /\ Walking!CallGraphAssumption
    /\ Signing!SignaturesAssumption

pagingVars == <<listTool, rows, limit, maxScan, start, offset, got, state>>
editsVars == <<names, vibe, locals, frame, types, enums, comments, req, todo, results,
      beforeBatch, tries>>
patchingVars == <<mem, notes, code, functions, slots, points, plan, replies, was>>
graphVars == <<program, bounds, root, nodes, edges, walk, truncated, per_func_capped>>
signaturesVars == <<image, tiling, ask, sites, growing, made, signPhase>>
=============================================================================
