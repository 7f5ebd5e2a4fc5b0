----------------------------- MODULE ToolServer -----------------------------
(***************************************************************************)
(* A tool call in a window of the archived upstream server: the request    *)
(* that can be cancelled (zeromcp/jsonrpc.py, zeromcp/mcp.py), its run on  *)
(* IDA's main thread in batch mode (sync.py), a debugger session that it   *)
(* starts (api_debug.py), and the record that is kept of it in the         *)
(* database (trace.py).  Requests are served by threads; the main thread   *)
(* runs one thing at a time.                                               *)
(*                                                                         *)
(* Saving a database flushes the records on the main thread.  There it may *)
(* wait for a thread that waits for the main thread; and within a tool it  *)
(* finds the call stack taken, empties it, and the tool waits for ever for *)
(* its own entry.  Then IDA hangs.                                         *)
(***************************************************************************)
EXTENDS Naturals, Sequences, FiniteSets

CONSTANTS
    Requests,     \* requests, numbered in the order in which they come
    Ids,          \* JSON-RPC ids, which every client counts for itself
    BatchRecords, \* _DEFAULT_BATCH_RECORDS
    Nobody

ToolAssumption ==
    /\ Requests \subseteq Nat /\ Nobody \notin Requests
    /\ BatchRecords \in Nat \ {0}

VARIABLES
    stage,    \* where a request stands
    tool,     \* what it calls: "plain", "save" or "debug"
    id,       \* its JSON-RPC id
    event,    \* its cancel event is set
    asked,    \* its client has cancelled it
    shared,   \* history: requests whose id another one under way had
    pending,  \* _pending_requests
    main,     \* the request whose tool runs on the main thread
    batch,    \* IDA is in batch mode
    before,   \* the mode before the tool on the main thread (pre_call_batch)
    own,      \* the mode that the user or the script has chosen
    hook,     \* _dbg_start_batch_hook
    rearmed,  \* history: a debugger was started while another start was pending
    buffer,   \* records that are not in the database
    taken,    \* those that a flush has taken out
    flusher,  \* who has _flush_lock
    stored,   \* records in the database
    recorded, \* history: the order in which calls were recorded
    closed,   \* shutdown() has run
    hung      \* the main thread waits for ever

requestVars == <<stage, tool, id, event, asked, shared, pending>>
modeVars == <<batch, before, own, hook, rearmed>>
traceVars == <<buffer, taken, flusher, stored, recorded, closed>>
vars == <<requestVars, main, modeVars, traceVars, hung>>

Goes(r, from, to) == stage[r] = from /\ stage' = [stage EXCEPT ![r] = to]
MainIsFree == main = Nobody /\ ~hung
UnderWay == {r \in Requests : stage[r] \in {"queued", "running", "started", "saved", "returned"}}
SomeId == CHOOSE i \in Ids : TRUE

-----------------------------------------------------------------------------
(* _mcp_tools_call and the requests that can be cancelled.                 *)
Begin(r, t, i) ==
    /\ \A q \in Requests : q < r => stage[q] # "new"
    /\ Goes(r, "new", "queued")
    /\ tool' = [tool EXCEPT ![r] = t]
    /\ id' = [id EXCEPT ![r] = i]
    /\ pending' = [pending EXCEPT ![i] = r]
    /\ LET same == {q \in UnderWay : id[q] = i}
       IN shared' = shared \cup same \cup {q \in {r} : same # {}}
    /\ UNCHANGED <<event, asked, main, modeVars, traceVars, hung>>

Cancel(r) ==
    /\ r \in UnderWay /\ ~asked[r]
    /\ asked' = [asked EXCEPT ![r] = TRUE]
    /\ event' = [q \in Requests |-> event[q] \/ q = pending[id[r]]]
    /\ UNCHANGED <<stage, tool, id, shared, pending, main, modeVars, traceVars, hung>>

Unregister(r) ==
    /\ Goes(r, "returned", "ended")
    /\ pending' = [pending EXCEPT ![id[r]] = Nobody]
    /\ tool' = [tool EXCEPT ![r] = "plain"]
    /\ id' = [id EXCEPT ![r] = SomeId]
    /\ event' = [event EXCEPT ![r] = FALSE]
    /\ asked' = [asked EXCEPT ![r] = FALSE]
    /\ shared' = shared \ {r}
    /\ UNCHANGED <<main, modeVars, traceVars, hung>>

-----------------------------------------------------------------------------
(* _sync_wrapper: runned() on the main thread.                             *)
Enter(r) ==
    /\ MainIsFree
    /\ Goes(r, "queued", "running")
    /\ main' = r
    /\ before' = batch
    /\ batch' = TRUE
    /\ UNCHANGED <<tool, id, event, asked, shared, pending, own, hook, rearmed, traceVars, hung>>

(* dbg_start: _arm_dbg_start_batch_hook, before start_process.             *)
Arm(r) ==
    /\ main = r /\ tool[r] = "debug" /\ ~hung
    /\ Goes(r, "running", "started")
    /\ batch' = IF hook.armed THEN hook.restore ELSE batch
    /\ rearmed' = (rearmed \/ hook.armed)
    /\ hook' = [armed |-> TRUE, restore |-> before]
    /\ UNCHANGED <<tool, id, event, asked, shared, pending, main, before, own, traceVars, hung>>

(* An event of the debugger, which the main thread sees between two tools  *)
(* or while dbg_start waits for it; or the timer, after 30 seconds.        *)
Restore ==
    /\ hook.armed /\ ~hung
    /\ main # Nobody => stage[main] = "started"
    /\ batch' = hook.restore
    /\ hook' = [hook EXCEPT !.armed = FALSE]
    /\ UNCHANGED <<requestVars, main, before, own, rearmed, traceVars, hung>>

(* The tool returns, fails, runs out of its time or finds itself           *)
(* cancelled.  Only a debugger that has started keeps the batch mode.      *)
Leave(r, completed) ==
    /\ main = r /\ ~hung
    /\ \/ stage[r] = "running" /\ (completed => tool[r] = "plain")
       \/ stage[r] \in {"started", "saved"}
    /\ stage' = [stage EXCEPT ![r] = "returned"]
    /\ batch' = IF completed /\ stage[r] = "started" THEN batch ELSE before
    /\ main' = Nobody /\ before' = own
    /\ UNCHANGED <<tool, id, event, asked, shared, pending, own, hook, rearmed, traceVars, hung>>

(* idb_save within a tool: savebase() flushes.                             *)
SaveInTool(r) ==
    /\ main = r /\ tool[r] = "save" /\ ~hung
    /\ Goes(r, "running", "saved")
    /\ hung' = (~closed /\ (flusher # Nobody \/ buffer # <<>>))
    /\ UNCHANGED <<tool, id, event, asked, shared, pending, main, modeVars, traceVars>>

-----------------------------------------------------------------------------
(* traced(): the record of a call; flush() if there are enough of them.    *)
Record(r) ==
    /\ stage[r] = "ended"
    /\ IF closed
       THEN stage' = [stage EXCEPT ![r] = "done"] /\ UNCHANGED <<buffer, recorded>>
       ELSE /\ buffer' = Append(buffer, r)
            /\ recorded' = Append(recorded, r)
            /\ stage' = [stage EXCEPT ![r] = IF Len(buffer') >= BatchRecords THEN "flush" ELSE "done"]
    /\ UNCHANGED <<tool, id, event, asked, shared, pending, main, modeVars, taken, flusher, stored, closed, hung>>

Flush(r) ==
    /\ stage[r] = "flush" /\ flusher = Nobody
    /\ IF buffer = <<>>
       THEN stage' = [stage EXCEPT ![r] = "done"] /\ UNCHANGED <<buffer, taken, flusher>>
       ELSE /\ stage' = [stage EXCEPT ![r] = "writing"]
            /\ taken' = buffer /\ buffer' = <<>>
            /\ flusher' = r
    /\ UNCHANGED <<tool, id, event, asked, shared, pending, main, modeVars, stored, recorded, closed, hung>>

(* Fault: what could not be written is put behind what came since.         *)
FlushedBehind(r) ==
    /\ MainIsFree
    /\ Goes(r, "writing", "done")
    /\ \/ stored' = stored \o taken /\ UNCHANGED buffer
       \/ buffer' = buffer \o taken /\ UNCHANGED stored
    /\ taken' = <<>> /\ flusher' = Nobody
    /\ UNCHANGED <<tool, id, event, asked, shared, pending, main, modeVars, recorded, closed, hung>>

(* _netnode_flush_segment on the main thread, or its failure.              *)
Flushed(r) ==
    /\ MainIsFree
    /\ Goes(r, "writing", "done")
    /\ \/ stored' = stored \o taken /\ UNCHANGED buffer
       \/ buffer' = taken \o buffer /\ UNCHANGED stored
    /\ taken' = <<>> /\ flusher' = Nobody
    /\ UNCHANGED <<tool, id, event, asked, shared, pending, main, modeVars, recorded, closed, hung>>

(* The user saves or closes the database, or IDA ends.                     *)
FlushOnMain(ending) ==
    /\ MainIsFree /\ ~closed
    /\ closed' = ending
    /\ \/ /\ flusher # Nobody
          /\ hung' = TRUE
          /\ UNCHANGED <<buffer, stored>>
       \/ /\ flusher = Nobody
          /\ \/ stored' = stored \o buffer /\ buffer' = <<>>
             \/ UNCHANGED <<buffer, stored>>
          /\ UNCHANGED hung
    /\ UNCHANGED <<requestVars, main, modeVars, taken, flusher, recorded>>

-----------------------------------------------------------------------------
Init ==
    /\ stage = [r \in Requests |-> "new"]
    /\ tool = [r \in Requests |-> "plain"]
    /\ id = [r \in Requests |-> SomeId] /\ shared = {}
    /\ event = [r \in Requests |-> FALSE] /\ asked = [r \in Requests |-> FALSE]
    /\ pending = [i \in Ids |-> Nobody]
    /\ main = Nobody
    /\ own \in BOOLEAN /\ batch = own
    /\ before = own
    /\ hook = [armed |-> FALSE, restore |-> own] /\ rearmed = FALSE
    /\ buffer = <<>> /\ taken = <<>> /\ flusher = Nobody
    /\ stored = <<>> /\ recorded = <<>>
    /\ closed = FALSE /\ hung = FALSE

Next ==
    \/ \E r \in Requests :
          \/ \E t \in {"plain", "save", "debug"}, i \in Ids : Begin(r, t, i)
          \/ Cancel(r) \/ Unregister(r) \/ Enter(r) \/ Arm(r) \/ SaveInTool(r)
          \/ \E completed \in BOOLEAN : Leave(r, completed)
          \/ Record(r) \/ Flush(r) \/ Flushed(r)
    \/ Restore
    \/ \E ending \in BOOLEAN : FlushOnMain(ending)

Spec == Init /\ [][Next]_vars

-----------------------------------------------------------------------------
(* What is in the database, in the hands of a flush and in the buffer is   *)
(* every recorded call once, in the order in which they were recorded,     *)
(* whichever flushes failed.                                               *)
TraceIsComplete == stored \o taken \o buffer = recorded

(* Between tools IDA is in the mode its user has chosen, unless a debugger *)
(* is starting; but one that is started before the last start was seen     *)
(* takes the mode of that start for the user's.                            *)
BatchModeComesBack == main = Nobody /\ ~hook.armed /\ ~rearmed => batch = own

(* A cancellation finds its request, and stops no other, unless another    *)
(* client's request with the same id has been under way meanwhile.         *)
CancelsFindTheirs ==
    \A r \in UnderWay \ shared : (event[r] => asked[r]) /\ pending[id[r]] = r

ToolsLeaveNoTrouble == TraceIsComplete /\ BatchModeComesBack /\ CancelsFindTheirs
=============================================================================
