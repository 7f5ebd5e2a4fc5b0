----------------------------- MODULE IdaThread -----------------------------
(***************************************************************************)
(* run_on_ida_thread of the plugin (executor/ida_thread.py): a client      *)
(* thread hands a callback to IDA's main thread with execute_sync and gets *)
(* what became of it through a queue of size one, made for this call.      *)
(*                                                                         *)
(* On the main thread the wrapper switches IDA to batch mode and installs  *)
(* a profile function that raises TimeoutError at the first call or return *)
(* after the deadline.  Python removes a profile function that raises, so  *)
(* it raises once; but until the wrapper removes it, that may be anywhere: *)
(* in the callback, in the Python code of results.put, in the handler of   *)
(* an error, or at the call that is to remove it.                          *)
(*                                                                         *)
(* Time is not modelled: the deadline may pass at every step.              *)
(***************************************************************************)
EXTENDS Naturals, FiniteSets

CONSTANTS
    Callers,  \* client threads
    NoCaller

ASSUME CallerAssumption == NoCaller \notin Callers

VARIABLES
    caller,   \* where a client thread stands in run_on_ida_thread
    job,      \* whose wrapper the main thread runs
    step,     \* how far it has come
    hooked,   \* the profile function is installed
    batch,    \* IDA is in batch mode
    oldBatch, \* old_batch of the running wrapper, FALSE when there is none
    slot,     \* content of the caller's queue
    locked    \* the mutex of the caller's queue is taken

idaVars == <<caller, job, step, hooked, batch, oldBatch, slot, locked>>

IdaInit ==
    /\ caller = [w \in Callers |-> "away"]
    /\ job = NoCaller
    /\ step = "free"
    /\ hooked = FALSE
    /\ batch = FALSE
    /\ oldBatch = FALSE
    /\ slot = [w \in Callers |-> "empty"]
    /\ locked = [w \in Callers |-> FALSE]

IdaTypeOK ==
    /\ caller \in [Callers -> {"away", "waiting", "collecting"}]
    /\ job \in Callers \cup {NoCaller}
    /\ step \in {"free", "callback", "put", "locked", "inserted", "recover", "finally"}
    /\ hooked \in BOOLEAN /\ batch \in BOOLEAN /\ oldBatch \in BOOLEAN
    /\ slot \in [Callers -> {"empty", "value", "error"}]
    /\ locked \in [Callers -> BOOLEAN]

-----------------------------------------------------------------------------
(* The caller.                                                             *)

(* A new queue, then execute_sync.                                         *)
Submit(w) ==
    /\ caller[w] = "away"
    /\ caller' = [caller EXCEPT ![w] = "waiting"]
    /\ slot' = [slot EXCEPT ![w] = "empty"]
    /\ locked' = [locked EXCEPT ![w] = FALSE]
    /\ UNCHANGED <<job, step, hooked, batch, oldBatch>>

(* results.get, and raise or return what it holds.                         *)
Collect(w, result) ==
    /\ caller[w] = "collecting"
    /\ slot[w] = result
    /\ result # "empty"
    /\ caller' = [caller EXCEPT ![w] = "away"]
    /\ slot' = [slot EXCEPT ![w] = "empty"]
    /\ UNCHANGED <<job, step, hooked, batch, oldBatch, locked>>

-----------------------------------------------------------------------------
(* The wrapper on the main thread.                                         *)

Enter(w) ==
    /\ step = "free" /\ caller[w] = "waiting"
    /\ job' = w
    /\ step' = "callback"
    /\ hooked' = TRUE
    /\ oldBatch' = batch
    /\ batch' = TRUE
    /\ UNCHANGED <<caller, slot, locked>>

Advance(from, to) == step = from /\ step' = to

CallbackReturns ==
    /\ Advance("callback", "put")
    /\ UNCHANGED <<caller, job, hooked, batch, oldBatch, slot, locked>>

CallbackRaises ==
    /\ Advance("callback", "recover")
    /\ UNCHANGED <<caller, job, hooked, batch, oldBatch, slot, locked>>

(* Queue.put, in three steps: take the mutex, append, notify and release.  *)
TakeMutex ==
    /\ Advance("put", "locked")
    /\ locked' = [locked EXCEPT ![job] = TRUE]
    /\ UNCHANGED <<caller, job, hooked, batch, oldBatch, slot>>

Insert ==
    /\ Advance("locked", "inserted")
    /\ slot' = [slot EXCEPT ![job] = "value"]
    /\ UNCHANGED <<caller, job, hooked, batch, oldBatch, locked>>

ReleaseMutex ==
    /\ Advance("inserted", "finally")
    /\ locked' = [locked EXCEPT ![job] = FALSE]
    /\ UNCHANGED <<caller, job, hooked, batch, oldBatch, slot>>

(* results.put(exc) in the except clause waits for the mutex and for room. *)
PutError ==
    /\ Advance("recover", "finally")
    /\ ~locked[job] /\ slot[job] = "empty"
    /\ slot' = [slot EXCEPT ![job] = "error"]
    /\ UNCHANGED <<caller, job, hooked, batch, oldBatch, locked>>

(* The wrapper is over: execute_sync returns to the caller.                *)
Leave ==
    /\ step' = "free"
    /\ job' = NoCaller
    /\ oldBatch' = FALSE
    /\ caller' = [caller EXCEPT ![job] = "collecting"]

(* Fault: the profile function stays installed.                            *)
RestoreBatchOnly ==
    /\ step = "finally"
    /\ batch' = oldBatch
    /\ Leave
    /\ UNCHANGED <<hooked, slot, locked>>

Restore ==
    /\ step = "finally"
    /\ hooked' = FALSE
    /\ batch' = oldBatch
    /\ Leave
    /\ UNCHANGED <<slot, locked>>

-----------------------------------------------------------------------------
(* The profile function raises.                                            *)
Fire == hooked /\ hooked' = FALSE

(* In the callback the error ends it, or is swallowed by an except clause  *)
(* of its own (collect_metadata, decompile, search_text).                  *)
FireInCallback ==
    /\ Fire
    /\ Advance("callback", "recover") \/ Advance("callback", "put")
    /\ UNCHANGED <<caller, job, batch, oldBatch, slot, locked>>

FireBeforePut ==
    /\ Fire
    /\ Advance("put", "recover")
    /\ UNCHANGED <<caller, job, batch, oldBatch, slot, locked>>

(* Inside the with block its exit releases the mutex; an error at the end  *)
(* of its entry or in its exit leaves the mutex taken.                     *)
FireInPut ==
    /\ Fire
    /\ Advance("locked", "recover") \/ Advance("inserted", "recover")
    /\ \E leaked \in BOOLEAN : locked' = [locked EXCEPT ![job] = leaked]
    /\ UNCHANGED <<caller, job, batch, oldBatch, slot>>

(* While an error of the callback is put into the queue, before or after   *)
(* it is in there: the wrapper ends with the TimeoutError, after finally.  *)
FireInRecover ==
    /\ Fire
    /\ Advance("recover", "finally")
    /\ \/ UNCHANGED slot
       \/ slot[job] = "empty" /\ slot' = [slot EXCEPT ![job] = "error"]
    /\ \E leaked \in BOOLEAN : locked' = [locked EXCEPT ![job] = leaked]
    /\ UNCHANGED <<caller, job, batch, oldBatch>>

(* At the call of sys.setprofile in finally: idc.batch is not reached.     *)
FireInFinally ==
    /\ Fire
    /\ step = "finally"
    /\ Leave
    /\ UNCHANGED <<batch, slot, locked>>

-----------------------------------------------------------------------------
Wrapper ==
    \/ CallbackReturns \/ CallbackRaises
    \/ TakeMutex \/ Insert \/ ReleaseMutex \/ PutError \/ Restore

Timeout ==
    FireInCallback \/ FireBeforePut \/ FireInPut \/ FireInRecover \/ FireInFinally

(* A thread that waits for what cannot come: the main thread for a queue   *)
(* that is full or locked for good, or the caller for a result that was    *)
(* never put or that lies behind a locked mutex.                           *)
Stalled ==
    \/ step = "recover" /\ ~hooked /\ (locked[job] \/ slot[job] # "empty")
    \/ \E w \in Callers : caller[w] = "collecting" /\ (slot[w] = "empty" \/ locked[w])

(* "propagate IDA-side errors to the caller", ida_thread.py:51, and the    *)
(* timeout protection of CHANGELOG.md: whatever happens to the callback,   *)
(* its caller is told and the main thread is given back.                   *)
CallersAreAnswered == ~Stalled

(* Once the wrapper is over, no profile function of it is left that could  *)
(* break off other Python code of the main thread.                         *)
NoHookLeft == step = "free" => ~hooked
============================================================================
