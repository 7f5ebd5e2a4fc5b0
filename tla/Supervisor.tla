----------------------------- MODULE Supervisor -----------------------------
(***************************************************************************)
(* idalib_supervisor.py of the archived upstream server: sessions of       *)
(* databases, each in a worker process of its own or in a window of IDA    *)
(* that has the database open already.  main() serves one request after    *)
(* the other; the class has a lock and its tests let requests overlap, so  *)
(* both are looked at.                                                     *)
(*                                                                         *)
(* A request goes on where the code waits: for a worker that starts (with  *)
(* the lock taken), or for an answer of a worker (without).  A worker may  *)
(* die and a window come and go at any moment; SIGTERM runs shutdown() in  *)
(* the middle of whatever request is served.                               *)
(***************************************************************************)
EXTENDS Naturals, FiniteSets

CONSTANTS
    Paths,      \* input files
    Candidates, \* of a path: itself and, for a binary, its databases
    Names,      \* session ids that a client may ask for
    Contexts,   \* contexts of clients; one only without --isolated-contexts
    Requests,   \* numbers of requests; a generated session id is that of its request
    Procs,      \* numbers of worker processes, in the order in which they start
    MaxWorkers, \* --max-workers
    None

Ids == Names \cup Requests

SupervisorAssumption ==
    /\ Candidates \in [Paths -> SUBSET Paths]
    /\ \A p \in Paths : p \in Candidates[p]
    /\ MaxWorkers \in Nat
    /\ None \notin Ids \cup Procs \cup Paths \cup Contexts
    /\ Names \cap Requests = {} /\ Requests \subseteq Nat /\ Procs \subseteq Nat

VARIABLES
    served,   \* requests are served "one" by one or "all" at once
    gui,      \* databases that are open in a window of IDA
    proc,     \* state of a worker process
    registry, \* sessions, path_to_session and context_bindings
    schema,   \* _schema_worker
    cached,   \* whether _tools_cache is filled
    lockedBy, \* the request that holds the lock while its worker starts
    stage,    \* where a request stands
    job,      \* its arguments, and the session it works for
    worker,   \* the worker it was given
    down      \* shutdown() has run

bookVars == <<registry, schema, cached>>
requestVars == <<stage, job, worker>>
vars == <<served, gui, proc, bookVars, lockedBy, requestVars, down>>

NoSession == [backend |-> "none", proc |-> None, path |-> None, asked |-> None, by |-> None]
WorkerSession(w, p, r) == [backend |-> "worker", proc |-> w, path |-> p, asked |-> p, by |-> r]
GuiSession(p, asked, r) == [backend |-> "gui", proc |-> None, path |-> p, asked |-> asked, by |-> r]
NoJob == [op |-> "none", path |-> None, name |-> None, id |-> None, context |-> None, old |-> NoSession]

-----------------------------------------------------------------------------
(* The registry.                                                           *)
IsAlive(s) ==
    \/ s.backend = "gui" /\ s.path \in gui
    \/ s.backend = "worker" /\ proc[s.proc] = "up"

Registered(reg, id, s, path, context) ==
    [sessions |-> [reg.sessions EXCEPT ![id] = s],
     paths |-> [p \in Paths |-> IF p \in Candidates[path] THEN id ELSE reg.paths[p]],
     bound |-> [c \in Contexts |-> IF c = context THEN id ELSE reg.bound[c]]]

Unregistered(reg, ids) ==
    [sessions |-> [i \in Ids |-> IF i \in ids THEN NoSession ELSE reg.sessions[i]],
     paths |-> [p \in Paths |-> IF reg.paths[p] \in ids THEN None ELSE reg.paths[p]],
     bound |-> [c \in Contexts |-> IF reg.bound[c] \in ids THEN None ELSE reg.bound[c]]]

Bound(reg, context, id) == [reg EXCEPT !.bound[context] = id]

LiveWorkers(reg) ==
    {i \in Ids : reg.sessions[i].backend = "worker" /\ IsAlive(reg.sessions[i])}

Pruned(reg) ==
    Unregistered(reg, {i \in Ids : reg.sessions[i].backend = "worker"} \ LiveWorkers(reg))

SchemaLives == schema # None /\ proc[schema] = "up"

-----------------------------------------------------------------------------
(* Requests.  One that waits for the lock has not begun.                   *)
Working == {r \in Requests : stage[r] \notin {"new", "done"}}

Begins(r) ==
    /\ stage[r] = "new" /\ ~down /\ lockedBy = None
    /\ \A q \in Requests : q < r => stage[q] # "new"
    /\ served = "one" => Working = {}

GoesOn(r, at) == stage[r] = at /\ ~down /\ lockedBy \in {None, r}

Ends(r) ==
    /\ stage' = [stage EXCEPT ![r] = "done"]
    /\ job' = [job EXCEPT ![r] = NoJob]
    /\ worker' = [worker EXCEPT ![r] = None]

GoesTo(r, at) == stage' = [stage EXCEPT ![r] = at] /\ UNCHANGED <<job, worker>>

(* _spawn_worker: the process is started, and then waited for.             *)
Spawn(r) ==
    \E w \in Procs :
        /\ proc[w] = "off" /\ \A v \in Procs : v < w => proc[v] # "off"
        /\ proc' = [proc EXCEPT ![w] = "up"]
        /\ worker' = [worker EXCEPT ![r] = w]
        /\ stage' = [stage EXCEPT ![r] = "spawning"]
        /\ lockedBy' = r

(* _allocate_worker_locked, for a request with the job j: the schema       *)
(* worker, a new one, or an error if there are too many.                   *)
AllocateWorker(r, reg, j) ==
    /\ schema' = None
    /\ UNCHANGED cached
    /\ \/ /\ SchemaLives
          /\ worker' = [worker EXCEPT ![r] = schema]
          /\ stage' = [stage EXCEPT ![r] = "opening"]
          /\ job' = [job EXCEPT ![r] = j]
          /\ registry' = reg
          /\ UNCHANGED <<proc, lockedBy>>
       \/ /\ ~SchemaLives
          /\ registry' = Pruned(reg)
          /\ \/ /\ MaxWorkers = 0 \/ Cardinality(LiveWorkers(reg)) < MaxWorkers
                /\ Spawn(r)
                /\ job' = [job EXCEPT ![r] = j]
             \/ /\ MaxWorkers # 0 /\ Cardinality(LiveWorkers(reg)) >= MaxWorkers
                /\ Ends(r)
                /\ UNCHANGED <<proc, lockedBy>>

(* _wait_worker_ready: the worker answers a ping, or has exited or run out *)
(* of its 120 seconds and is terminated.                                   *)
WorkerReady(r) ==
    /\ GoesOn(r, "spawning") /\ proc[worker[r]] = "up"
    /\ lockedBy' = None
    /\ IF job[r].op = "list"
       THEN schema' = worker[r] /\ stage' = [stage EXCEPT ![r] = "listing"]
       ELSE stage' = [stage EXCEPT ![r] = "opening"] /\ UNCHANGED schema
    /\ UNCHANGED <<served, gui, proc, registry, cached, job, worker, down>>

Terminated(w) == [proc EXCEPT ![w] = "gone"]

WorkerNotReady(r) ==
    /\ GoesOn(r, "spawning")
    /\ lockedBy' = None
    /\ proc' = Terminated(worker[r])
    /\ Ends(r)
    /\ UNCHANGED <<served, gui, bookVars, down>>

-----------------------------------------------------------------------------
(* open_session, up to its request to the worker.  The path is that of an  *)
(* existing file.                                                          *)
IsOpen(reg, path) == reg.paths[path] # None /\ IsAlive(reg.sessions[reg.paths[path]])

OpenKnown(r, path, name, context) ==
    /\ Begins(r) /\ IsOpen(registry, path)
    /\ LET id == registry.paths[path] IN
       registry' = IF name \in {None, id} THEN Bound(registry, context, id) ELSE registry
    /\ Ends(r)
    /\ UNCHANGED <<served, gui, proc, schema, cached, lockedBy, down>>

GuiInstances(path) == gui \cap Candidates[path]

OpenNew(r, path, name, context) ==
    LET reg == Unregistered(registry, {registry.paths[path]})
        id == IF name = None THEN r ELSE name
        j == [NoJob EXCEPT !.op = "open", !.path = path, !.name = name, !.id = id, !.context = context]
    IN
    /\ Begins(r) /\ ~IsOpen(registry, path)
    /\ \/ /\ reg.sessions[id] # NoSession
          /\ registry' = reg
          /\ Ends(r)
          /\ UNCHANGED <<proc, schema, cached, lockedBy>>
       \/ /\ reg.sessions[id] = NoSession
          /\ \E db \in GuiInstances(path) :
                registry' = Registered(reg, id, GuiSession(db, path, r), path, context)
          /\ Ends(r)
          /\ UNCHANGED <<proc, schema, cached, lockedBy>>
       \/ /\ reg.sessions[id] = NoSession
          /\ GuiInstances(path) = {}
          /\ AllocateWorker(r, reg, j)
    /\ UNCHANGED <<served, gui, down>>

(* idalib_open of the worker succeeds, or fails and the worker goes.       *)
WorkerOpens(r) ==
    /\ GoesOn(r, "opening") /\ proc[worker[r]] = "up"
    /\ stage' = [stage EXCEPT ![r] = "opened"]
    /\ UNCHANGED <<served, gui, proc, bookVars, lockedBy, job, worker, down>>

WorkerOpenFails(r) ==
    /\ GoesOn(r, "opening")
    /\ proc' = Terminated(worker[r])
    /\ Ends(r)
    /\ UNCHANGED <<served, gui, bookVars, lockedBy, down>>

(* Fault: the session is registered without another look at the path.      *)
RegisterAtOnce(r) ==
    LET j == job[r] IN
    /\ GoesOn(r, "opened") /\ j.op = "open"
    /\ registry' = Registered(registry, j.id, WorkerSession(worker[r], j.path, r), j.path, j.context)
    /\ Ends(r)
    /\ UNCHANGED <<served, gui, proc, schema, cached, lockedBy, down>>

(* The end of open_session: another request may have opened the same path  *)
(* or taken the session id in the meantime.                                *)
RegisterOpened(r) ==
    LET j == job[r]
        other == registry.paths[j.path]
        reg == IF IsOpen(registry, j.path) THEN registry ELSE Unregistered(registry, {other})
        s == WorkerSession(worker[r], j.path, r)
    IN
    /\ GoesOn(r, "opened") /\ j.op = "open"
    /\ \/ /\ IsOpen(registry, j.path)
          /\ registry' = Bound(registry, j.context, other)
          /\ GoesTo(r, "discarding")
       \/ /\ ~IsOpen(registry, j.path)
          /\ reg.sessions[j.id] # NoSession /\ IsAlive(reg.sessions[j.id])
          /\ registry' = reg
          /\ GoesTo(r, "discarding")
       \/ /\ ~IsOpen(registry, j.path)
          /\ reg.sessions[j.id] = NoSession \/ ~IsAlive(reg.sessions[j.id])
          /\ registry' = Registered(Unregistered(reg, {j.id}), j.id, s, j.path, j.context)
          /\ Ends(r)
    /\ UNCHANGED <<served, gui, proc, schema, cached, lockedBy, down>>

(* _discard_opened_worker_session, and the end of close_session.           *)
DiscardWorker(r) ==
    /\ GoesOn(r, "discarding")
    /\ proc' = Terminated(worker[r])
    /\ Ends(r)
    /\ UNCHANGED <<served, gui, bookVars, lockedBy, down>>

CloseSession(r, id) ==
    LET s == registry.sessions[id] IN
    /\ Begins(r)
    /\ registry' = Unregistered(registry, {id})
    /\ IF s.backend = "worker"
       THEN /\ worker' = [worker EXCEPT ![r] = s.proc]
            /\ stage' = [stage EXCEPT ![r] = "discarding"]
            /\ UNCHANGED job
       ELSE Ends(r)
    /\ UNCHANGED <<served, gui, proc, schema, cached, lockedBy, down>>

-----------------------------------------------------------------------------
(* resolve_session: the sessions that a selector may mean.  A path that is *)
(* no key of path_to_session is looked for among the sessions.             *)
Selected(selector, context) ==
    IF selector \in Ids THEN {i \in {selector} : registry.sessions[i] # NoSession}
    ELSE IF selector \in Paths
    THEN IF registry.paths[selector] # None
         THEN {registry.paths[selector]}
         ELSE {i \in Ids : registry.sessions[i].path = selector}
    ELSE {registry.bound[context]} \ {None}

Resolvable(found) == Cardinality(found) = 1 /\ \A i \in found : registry.sessions[i] # NoSession

(* The session is found: the request goes to its worker, or binds to it.   *)
Found(r, j) ==
    IF j.op = "switch"
    THEN /\ stage' = [stage EXCEPT ![r] = "binding"]
         /\ job' = [job EXCEPT ![r] = j]
         /\ worker' = [worker EXCEPT ![r] = None]
    ELSE Ends(r)

(* A tool call, a resource or a management tool for a database: it is sent *)
(* to the session, whose worker is still there or not, or it is refused.   *)
(* "switch", and idalib_save, _health and _warmup with a session id, bind  *)
(* the context before they go on.                                          *)
UseSession(r, op, selector, context) ==
    LET found == Selected(selector, context) IN
    /\ Begins(r)
    /\ \/ /\ Resolvable(found)
          /\ \E i \in found :
                /\ IsAlive(registry.sessions[i])
                /\ Found(r, [NoJob EXCEPT !.op = op, !.id = i, !.context = context])
          /\ UNCHANGED <<proc, bookVars, lockedBy>>
       \/ /\ Resolvable(found)
          /\ \E i \in found :
                LET s == registry.sessions[i] IN
                /\ ~IsAlive(s) /\ s.backend = "gui"
                /\ \E p \in {s.path, s.asked} :
                      AllocateWorker(r, registry,
                          [NoJob EXCEPT !.op = op, !.path = p, !.id = i, !.context = context, !.old = s])
       \/ /\ \/ ~Resolvable(found)
             \/ \E i \in found : LET s == registry.sessions[i] IN ~IsAlive(s) /\ s.backend = "worker"
          /\ Ends(r)
          /\ UNCHANGED <<proc, bookVars, lockedBy>>
    /\ UNCHANGED <<served, gui, down>>

(* The end of _reopen_gui_session_headless.                                *)
RegisterReopened(r) ==
    LET j == job[r]
        now == registry.sessions[j.id]
    IN
    /\ GoesOn(r, "opened") /\ j.op # "open"
    /\ \/ /\ now = j.old
          /\ registry' = Registered(registry, j.id,
                             [WorkerSession(worker[r], j.path, r) EXCEPT !.asked = j.old.asked], j.path, None)
          /\ Found(r, j)
       \/ /\ now # j.old
          /\ registry' = IF now # NoSession /\ IsAlive(now) THEN registry
                         ELSE Unregistered(registry, {j.id})
          /\ GoesTo(r, "discarding")
    /\ UNCHANGED <<served, gui, proc, schema, cached, lockedBy, down>>

BindContext(r) ==
    /\ GoesOn(r, "binding")
    /\ registry' = Bound(registry, job[r].context, job[r].id)
    /\ Ends(r)
    /\ UNCHANGED <<served, gui, proc, schema, cached, lockedBy, down>>

UnbindContext(r, context) ==
    /\ Begins(r)
    /\ registry' = Bound(registry, context, None)
    /\ Ends(r)
    /\ UNCHANGED <<served, gui, proc, schema, cached, lockedBy, down>>

(* worker_tools and worker_resources: from the cache, or by a worker of a  *)
(* session, the schema worker, or a new one.                               *)
ListTools(r) ==
    LET j == [NoJob EXCEPT !.op = "list"] IN
    /\ Begins(r)
    /\ \/ /\ cached
          /\ Ends(r)
          /\ UNCHANGED <<proc, bookVars, lockedBy>>
       \/ /\ ~cached
          /\ LiveWorkers(registry) # {} \/ SchemaLives
          /\ \E w \in IF LiveWorkers(registry) # {}
                      THEN {registry.sessions[i].proc : i \in LiveWorkers(registry)} ELSE {schema} :
                worker' = [worker EXCEPT ![r] = w]
          /\ stage' = [stage EXCEPT ![r] = "listing"]
          /\ UNCHANGED <<proc, bookVars, lockedBy, job>>
       \/ /\ ~cached /\ LiveWorkers(registry) = {} /\ ~SchemaLives
          /\ Spawn(r)
          /\ job' = [job EXCEPT ![r] = j]
          /\ UNCHANGED bookVars
    /\ UNCHANGED <<served, gui, down>>

Listed(r) ==
    /\ GoesOn(r, "listing")
    /\ cached' \in {cached, proc[worker[r]] = "up" \/ cached}
    /\ Ends(r)
    /\ UNCHANGED <<served, gui, proc, registry, schema, lockedBy, down>>

-----------------------------------------------------------------------------
(* shutdown(), by a signal in the middle of a request or at the end of     *)
(* main(): the exception that ends the program passes the requests by.     *)
Shutdown ==
    /\ ~down /\ (served = "all" => lockedBy = None)
    /\ down' = TRUE
    /\ LET known == {registry.sessions[i].proc : i \in Ids} \cup {schema} IN
       proc' = [w \in Procs |-> IF w \in known /\ proc[w] = "up" THEN "gone" ELSE proc[w]]
    /\ registry' = Unregistered(registry, Ids)
    /\ schema' = None
    /\ UNCHANGED <<served, gui, cached, lockedBy, requestVars>>

WorkerDies(w) ==
    /\ proc[w] = "up"
    /\ proc' = Terminated(w)
    /\ UNCHANGED <<served, gui, bookVars, lockedBy, requestVars, down>>

GuiOpens(p) ==
    /\ p \notin gui
    /\ gui' = gui \cup {p}
    /\ UNCHANGED <<served, proc, bookVars, lockedBy, requestVars, down>>

GuiCloses(p) ==
    /\ p \in gui
    /\ gui' = gui \ {p}
    /\ UNCHANGED <<served, proc, bookVars, lockedBy, requestVars, down>>

Init ==
    /\ served \in {"one", "all"}
    /\ gui = {}
    /\ proc = [w \in Procs |-> "off"]
    /\ registry = [sessions |-> [i \in Ids |-> NoSession], paths |-> [p \in Paths |-> None],
                   bound |-> [c \in Contexts |-> None]]
    /\ schema = None /\ lockedBy = None
    /\ cached = FALSE /\ down = FALSE
    /\ stage = [r \in Requests |-> "new"]
    /\ job = [r \in Requests |-> NoJob]
    /\ worker = [r \in Requests |-> None]

idalib_open(r, c) ==
    \E p \in Paths, name \in Names \cup {None} : OpenKnown(r, p, name, c) \/ OpenNew(r, p, name, c)

idalib_switch(r, c) == \E selector \in Ids \cup Paths : UseSession(r, "switch", selector, c)

(* idalib_save, idalib_health and idalib_warmup.                           *)
ManageSession(r, c) == idalib_switch(r, c) \/ UseSession(r, "use", None, c)

HandleToolsCall(r, c) == \E selector \in Ids \cup Paths : UseSession(r, "use", selector, c)

(* dispatch_supervisor: resources are read without a database, too.        *)
Request(r) ==
    \/ \E c \in Contexts :
          idalib_open(r, c) \/ ManageSession(r, c) \/ HandleToolsCall(r, c) \/ UnbindContext(r, c)
    \/ \E i \in Ids : CloseSession(r, i)
    \/ ListTools(r)

Progress(r) ==
    \/ WorkerReady(r) \/ WorkerNotReady(r) \/ WorkerOpens(r) \/ WorkerOpenFails(r)
    \/ RegisterOpened(r) \/ RegisterReopened(r) \/ DiscardWorker(r) \/ BindContext(r) \/ Listed(r)

Next ==
    \/ \E r \in Requests : Request(r) \/ Progress(r)
    \/ \E w \in Procs : WorkerDies(w)
    \/ \E p \in Paths : GuiOpens(p) \/ GuiCloses(p)
    \/ Shutdown

Spec == Init /\ [][Next]_vars

-----------------------------------------------------------------------------
(* No worker is left behind: one that runs is that of a session, the       *)
(* schema worker, or in the hands of a request under way (which a signal   *)
(* cuts off before it has registered or ended the worker).                 *)
NoWorkerLost ==
    \A w \in Procs : proc[w] = "up" =>
        \/ w = schema
        \/ \E i \in Ids : registry.sessions[i].proc = w
        \/ \E r \in Working : worker[r] = w

(* One worker process serves one session, and one binary (a path that is   *)
(* no database of another) is open in one worker only, although requests   *)
(* overlap.                                                                *)
Binaries == {p \in Paths : \A q \in Paths \ {p} : p \notin Candidates[q]}

OneWorkerPerBinary ==
    \A i, k \in LiveWorkers(registry) : i # k =>
        LET s == registry.sessions[i] t == registry.sessions[k] IN
        s.proc # t.proc /\ (s.path = t.path => s.path \notin Binaries)

(* Served one by one, requests keep the limit of workers and bind contexts *)
(* to sessions that exist.                                                 *)
WithinLimits ==
    served = "one" =>
        /\ MaxWorkers = 0 \/ Cardinality({w \in Procs : proc[w] = "up"}) <= MaxWorkers
        /\ \A c \in Contexts : registry.bound[c] # None =>
              registry.sessions[registry.bound[c]] # NoSession

(* The books of the supervisor agree with the processes that run.          *)
WorkersAccountedFor == NoWorkerLost /\ OneWorkerPerBinary /\ WithinLimits
=============================================================================
