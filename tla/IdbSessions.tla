---------------------------- MODULE IdbSessions -----------------------------
(***************************************************************************)
(* A worker of the archived upstream server (idalib_server.py with         *)
(* idalib_session_manager.py): it keeps a session per database, but idalib *)
(* has one database open at a time, so that every tool call first opens    *)
(* the database of its context.  Requests are served one after the other;  *)
(* SIGTERM closes what is open and ends the program in the middle of one.  *)
(***************************************************************************)
EXTENDS Naturals, FiniteSets

CONSTANTS
    Files,    \* databases
    Ids,      \* session ids
    Contexts, \* contexts of clients; one only without --isolated-contexts
    None

IdbAssumption == None \notin Files \cup Ids \cup Contexts

VARIABLES
    known,  \* _sessions: the file of a session
    active, \* _active_session_id
    bound,  \* _context_bindings
    openDb, \* the database that idalib has open
    phase,  \* where the request under way stands
    task,   \* what it is about
    ended   \* the signal has come

vars == <<known, active, bound, openDb, phase, task, ended>>

NoTask == [op |-> "none", id |-> None, file |-> None, context |-> None]

Idle == phase = "idle" /\ ~ended

Finish == phase' = "idle" /\ task' = NoTask

(* _activate_database_path: what is open is closed first.                  *)
Open(op, id, file, context) ==
    /\ active' = None
    /\ openDb' = IF active # None THEN None ELSE openDb
    /\ phase' = "opening"
    /\ task' = [op |-> op, id |-> id, file |-> file, context |-> context]

(* _activate_session_locked, for a context that is bound to the session.   *)
Activate(op, id, context) ==
    IF active = id
    THEN /\ phase' = IF op = "tool" THEN "running" ELSE "idle"
         /\ task' = IF op = "tool" THEN [NoTask EXCEPT !.op = op, !.context = context] ELSE NoTask
         /\ UNCHANGED <<active, openDb>>
    ELSE Open(op, id, known[id], context)

(* bind_context with activate: the binding stays, whatever comes of the    *)
(* activation.  idalib_switch, and idalib_save, _health and _warmup with a *)
(* session id (then "tool").                                               *)
Bind(op, id, context) ==
    /\ Idle /\ known[id] # None
    /\ bound' = [bound EXCEPT ![context] = id]
    /\ Activate(op, id, context)
    /\ UNCHANGED <<known, ended>>

(* open_binary: a file that has a session gets no second one, and a        *)
(* session id is not given twice.                                          *)
OpenTracked(file, context) ==
    \E id \in Ids : known[id] = file /\ Bind("switch", id, context)

OpenBinary(file, id, context) ==
    /\ Idle
    /\ \A i \in Ids : known[i] # file
    /\ known[id] = None
    /\ Open("open", id, file, context)
    /\ UNCHANGED <<known, bound, ended>>

OpenFails ==
    /\ phase = "opening" /\ ~ended
    /\ Finish
    /\ UNCHANGED <<known, active, bound, openDb, ended>>

OpenSucceeds ==
    /\ phase = "opening" /\ ~ended
    /\ openDb' = task.file
    /\ phase' = "opened"
    /\ UNCHANGED <<known, active, bound, task, ended>>

(* What open_binary and _activate_session_locked do with an open database. *)
NowActive ==
    /\ phase = "opened" /\ ~ended
    /\ active' = task.id
    /\ known' = [known EXCEPT ![task.id] = task.file]
    /\ IF task.op = "switch" THEN Finish
       ELSE /\ phase' = IF task.op = "open" THEN "analysing" ELSE "running"
            /\ UNCHANGED task
    /\ UNCHANGED <<bound, openDb, ended>>

(* auto_wait, and the binding that idalib_open makes after it.             *)
AnalysisEnds ==
    /\ phase = "analysing" /\ ~ended
    /\ bound' = [bound EXCEPT ![task.context] = task.id]
    /\ Finish
    /\ UNCHANGED <<known, active, openDb, ended>>

(* tools_call_with_context and resources_read_with_context, and the        *)
(* management tools that call activate_context.                            *)
CallTool(context) ==
    /\ Idle /\ bound[context] # None
    /\ Activate("tool", bound[context], context)
    /\ UNCHANGED <<known, bound, ended>>

ToolEnds ==
    /\ phase = "running" /\ ~ended
    /\ Finish
    /\ UNCHANGED <<known, active, bound, openDb, ended>>

CloseSession(id) ==
    /\ Idle /\ known[id] # None
    /\ IF active = id THEN active' = None /\ openDb' = None ELSE UNCHANGED <<active, openDb>>
    /\ known' = [known EXCEPT ![id] = None]
    /\ bound' = [c \in Contexts |-> IF bound[c] = id THEN None ELSE bound[c]]
    /\ UNCHANGED <<phase, task, ended>>

UnbindContext(context) ==
    /\ Idle
    /\ bound' = [bound EXCEPT ![context] = None]
    /\ UNCHANGED <<known, active, openDb, phase, task, ended>>

(* cleanup_and_exit: close_all_sessions.                                   *)
Signal ==
    /\ ~ended
    /\ ended' = TRUE
    /\ openDb' = IF active # None THEN None ELSE openDb
    /\ active' = None
    /\ known' = [i \in Ids |-> None]
    /\ bound' = [c \in Contexts |-> None]
    /\ UNCHANGED <<phase, task>>

Init ==
    /\ known = [i \in Ids |-> None]
    /\ bound = [c \in Contexts |-> None]
    /\ active = None /\ openDb = None
    /\ phase = "idle" /\ task = NoTask
    /\ ended = FALSE

idalib_open(context) ==
    \E f \in Files : OpenTracked(f, context) \/ \E i \in Ids : OpenBinary(f, i, context)

idalib_switch(context) == \E i \in Ids : Bind("switch", i, context)

(* idalib_save, idalib_health and idalib_warmup.                           *)
ManageSession(context) == CallTool(context) \/ \E i \in Ids : Bind("tool", i, context)

Next ==
    \/ \E c \in Contexts :
          idalib_open(c) \/ idalib_switch(c) \/ ManageSession(c) \/ UnbindContext(c)
    \/ \E i \in Ids : CloseSession(i)
    \/ OpenFails \/ OpenSucceeds \/ NowActive \/ AnalysisEnds \/ ToolEnds
    \/ Signal

Spec == Init /\ [][Next]_vars

-----------------------------------------------------------------------------
(* A tool runs on the database that its context is bound to, whatever was  *)
(* opened, closed, or failed to open before.                               *)
ToolsSeeTheirDatabase ==
    /\ phase = "running" /\ ~ended =>
          bound[task.context] # None /\ openDb = known[bound[task.context]]
    /\ active # None => openDb = known[active]

(* No two sessions are of one file, no context is bound to a session that  *)
(* was closed, and no database is open that nobody will close; but a       *)
(* signal that comes when a database has just been opened leaves it open.  *)
SessionsAreTidy ==
    /\ \A i, k \in Ids : known[i] = known[k] /\ known[i] # None => i = k
    /\ \A c \in Contexts : bound[c] # None => known[bound[c]] # None
    /\ openDb # None => active # None \/ phase = "opened"

WorkerKeepsDatabases == ToolsSeeTheirDatabase /\ SessionsAreTidy
=============================================================================
