------------------------------ MODULE Windows ------------------------------
(***************************************************************************)
(* IDA windows as mcp-center sees them: the processes it starts and        *)
(* closes (IdaLaunchService, IdaProcessRegistry), the metadata by which    *)
(* they are registered (TargetRegistry.UpsertMetadata, metadata.py), and   *)
(* the tools that the center answers itself with both (LaunchFileAsync and *)
(* CloseTarget of IdaMcpToolHandler).                                      *)
(*                                                                         *)
(* A process gets its process id from the operating system, which gives it *)
(* out again later.  A process may open one database after the other; the  *)
(* plugin makes a client, with an instance id of its own, for each.        *)
(* Connections are reduced to what they do to the registry (TargetHub has  *)
(* the rest): metadata on its way is handled in order and, when its        *)
(* connection ends, thrown away; the answer to an agent's get_metadata is  *)
(* handled by the agent's own task, at any later time.                     *)
(***************************************************************************)
EXTENDS Naturals, Sequences, FiniteSets

CONSTANTS
    Procs,     \* IDA processes, each started once
    Pids,      \* process ids
    Insts,     \* plugin clients, each used for one database
    Files,     \* input files
    Calls,     \* calls of ida_launch_file and ida_close_target
    NoProc, NoPid, NoFile, NoInst,
    FrameRoom  \* bound on metadata frames under way

ASSUME WindowAssumption ==
    /\ NoProc \notin Procs /\ NoPid \notin Pids
    /\ NoFile \notin Files /\ NoInst \notin Insts
    /\ FrameRoom \in Nat \ {0}

VARIABLES
    state,   \* of an IDA process
    pidOf,   \* its process id
    doc,     \* the input file of the database it has open
    opened,  \* all files it has had open
    home,    \* the process a plugin client lives in
    frames,  \* metadata on its way to the center
    late,    \* a metadata answer whose caller has not resumed yet
    targets, \* TargetRegistry._targets
    listed,  \* IdaProcessRegistry._processes
    started, \* processes the center has started
    pc,      \* where a tool call stands
    wanted,  \* the file it launches
    asked,   \* the instance id it closes
    force,   \* its argument force
    hit,     \* the process it was found to close
    report   \* what it has answered

processVars == <<state, pidOf, doc, opened>>
instVars == <<home, frames, late>>
argVars == <<wanted, asked, force>>
callVars == <<pc, argVars, hit, report>>
windowVars == <<processVars, instVars, targets, listed, started, callVars>>

ProcStates == {"off", "up", "gone"}
Names == {"fallback", "real"}
Metadata == [pid : Pids, name : Names, file : Files \cup {NoFile}]
NoMetadata == [pid |-> NoPid, name |-> "fallback", file |-> NoFile]
TargetInfos == Metadata \cup {NoMetadata}
Reports == [kind : {"none", "error", "launched", "closed"},
            target : Insts \cup {NoInst},
            file : Files \cup {NoFile}]
NoReport == [kind |-> "none", target |-> NoInst, file |-> NoFile]
Failed == [NoReport EXCEPT !.kind = "error"]

Registered(i) == targets[i] # NoMetadata

WindowsInit ==
    /\ state = [p \in Procs |-> "off"]
    /\ pidOf = [p \in Procs |-> NoPid]
    /\ doc = [p \in Procs |-> NoFile]
    /\ opened = [p \in Procs |-> {}]
    /\ home = [i \in Insts |-> NoProc]
    /\ frames = [i \in Insts |-> <<>>]
    /\ late = [i \in Insts |-> NoMetadata]
    /\ targets = [i \in Insts |-> NoMetadata]
    /\ listed = [n \in Pids |-> NoProc]
    /\ started = {}
    /\ pc = [k \in Calls |-> "idle"]
    /\ wanted = [k \in Calls |-> NoFile]
    /\ asked = [k \in Calls |-> NoInst]
    /\ force = [k \in Calls |-> FALSE]
    /\ hit = [k \in Calls |-> NoProc]
    /\ report = [k \in Calls |-> NoReport]

-----------------------------------------------------------------------------
(* IDA, its user and the operating system.                                 *)

FreePid(n) == \A p \in Procs : state[p] = "up" => pidOf[p] # n

Spawn(p, n) ==
    /\ state[p] = "off" /\ FreePid(n)
    /\ state' = [state EXCEPT ![p] = "up"]
    /\ pidOf' = [pidOf EXCEPT ![p] = n]

(* The user starts IDA.                                                    *)
StartIda(p) ==
    /\ \E n \in Pids : Spawn(p, n)
    /\ UNCHANGED <<doc, opened, instVars, targets, listed, started, callVars>>

(* A database is opened; the plugin (PLUGIN_KEEP) begins with it.          *)
OpenDatabase(i, p) ==
    /\ state[p] = "up" /\ doc[p] = NoFile /\ home[i] = NoProc
    /\ \E f \in Files :
          /\ doc' = [doc EXCEPT ![p] = f]
          /\ opened' = [opened EXCEPT ![p] = @ \cup {f}]
    /\ home' = [home EXCEPT ![i] = p]
    /\ UNCHANGED <<state, pidOf, frames, late, targets, listed, started, callVars>>

(* It is closed; the client is told to stop and may take its time.         *)
CloseDatabase(p) ==
    /\ state[p] = "up" /\ doc[p] # NoFile
    /\ doc' = [doc EXCEPT ![p] = NoFile]
    /\ UNCHANGED <<state, pidOf, opened, instVars, targets, listed, started, callVars>>

Gone(p) ==
    /\ state' = [state EXCEPT ![p] = "gone"]
    /\ doc' = [doc EXCEPT ![p] = NoFile]

(* The user exits, IDA crashes, or gives in to CloseMainWindow.            *)
ProcessExits(p) ==
    /\ state[p] = "up"
    /\ Gone(p)
    /\ UNCHANGED <<pidOf, opened, instVars, targets, listed, started, callVars>>

-----------------------------------------------------------------------------
(* The plugin: collect_metadata on the main thread of IDA.                 *)

(* Names and paths are those of the open database; until IDA is ready, or  *)
(* when one of its functions raises, they are made up from the process id. *)
(* IDA may know the name of the input file, but not its path.              *)
CollectMetadata(i) ==
    LET here == doc[home[i]] IN
    {[pid |-> pidOf[home[i]], name |-> "fallback", file |-> NoFile]}
        \cup IF here = NoFile THEN {}
             ELSE [pid : {pidOf[home[i]]}, name : {"real"}, file : {here, NoFile}]

Living(i) == home[i] # NoProc /\ state[home[i]] = "up"

(* hello or a heartbeat.                                                   *)
SendMetadata(i) ==
    /\ Living(i) /\ Len(frames[i]) < FrameRoom
    /\ \E m \in CollectMetadata(i) : frames' = [frames EXCEPT ![i] = Append(@, m)]
    /\ UNCHANGED <<processVars, home, late, targets, listed, started, callVars>>

(* target.get_metadata for an agent that found the window registered.      *)
AnswerMetadata(i) ==
    /\ Living(i) /\ Registered(i) /\ late[i] = NoMetadata
    /\ \E m \in CollectMetadata(i) : late' = [late EXCEPT ![i] = m]
    /\ UNCHANGED <<processVars, home, frames, targets, listed, started, callVars>>

-----------------------------------------------------------------------------
(* TargetRegistry.                                                         *)

FirstUseful(file, other) == IF file # NoFile THEN file ELSE other

(* Fault: an update replaces what was known.                               *)
NormalizeNothing(incoming, current) == incoming

(* A path once known is kept; a name made up from the process id never     *)
(* replaces a real one, nor the name of a file whose path is known.        *)
NormalizeMetadata(incoming, current) ==
    LET path == FirstUseful(incoming.file, current.file) IN
    [pid |-> incoming.pid,
     name |-> IF incoming.name = "real" \/ path # NoFile THEN "real" ELSE current.name,
     file |-> path]

UpsertMetadata(i, m) ==
    targets' = [targets EXCEPT ![i] = NormalizeMetadata(m, @)]

(* HandleHello and HandleHeartbeat.                                        *)
HandleMetadata(i) ==
    /\ frames[i] # <<>>
    /\ UpsertMetadata(i, Head(frames[i]))
    /\ frames' = [frames EXCEPT ![i] = Tail(@)]
    /\ UNCHANGED <<processVars, home, late, listed, started, callVars>>

(* The agent's task resumes, perhaps after the window is gone.             *)
RefreshTargetMetadata(i) ==
    /\ late[i] # NoMetadata
    /\ UpsertMetadata(i, late[i])
    /\ late' = [late EXCEPT ![i] = NoMetadata]
    /\ UNCHANGED <<processVars, home, frames, listed, started, callVars>>

(* The client has closed its connection, or died with its process; the     *)
(* center notices and disposes of it.  A client whose connection breaks    *)
(* for another reason comes back under the same id.                        *)
RemoveTarget(i) ==
    /\ home[i] # NoProc
    /\ targets' = [targets EXCEPT ![i] = NoMetadata]
    /\ frames' = [frames EXCEPT ![i] = <<>>]
    /\ UNCHANGED <<processVars, home, late, listed, started, callVars>>

-----------------------------------------------------------------------------
(* IdaMcpToolHandler and IdaLaunchService.                                 *)

Proceed(k, where) == pc' = [pc EXCEPT ![k] = where]

Finish(k, answer) == Proceed(k, "done") /\ report' = [report EXCEPT ![k] = answer]

(* Launch throws: no path, no such file, no executable, no process.        *)
RefuseLaunch(k) ==
    /\ pc[k] = "idle"
    /\ Finish(k, Failed)
    /\ UNCHANGED <<processVars, instVars, targets, listed, started, argVars, hit>>

(* Fault: a process id that is listed already keeps its old entry.         *)
ListOnce(p, n) == listed' = IF listed[n] = NoProc THEN [listed EXCEPT ![n] = p] ELSE listed

(* IdaProcessRegistry.Upsert.                                              *)
ListProcess(p, n) == listed' = [listed EXCEPT ![n] = p]

LaunchedReport(f, i) == [kind |-> "launched", target |-> i, file |-> f]

(* Process.Start, Upsert (a system does not give the process id out again  *)
(* between the two) and, with waitSeconds above 0, the wait for a target.  *)
Launch(k) ==
    /\ pc[k] = "idle"
    /\ \E f \in Files, p \in Procs, n \in Pids :
          /\ Spawn(p, n)
          /\ ListProcess(p, n)
          /\ started' = started \cup {p}
          /\ wanted' = [wanted EXCEPT ![k] = f]
          /\ \/ Proceed(k, "polling") /\ UNCHANGED report
             \/ Finish(k, LaunchedReport(f, NoInst))
    /\ UNCHANGED <<doc, opened, instVars, targets, asked, force, hit>>

(* Fault: whichever window is registered is taken for the launched one.    *)
AnyTarget(f, i) == Registered(i)

SamePath(f, i) == Registered(i) /\ targets[i].file = f

(* One turn of the loop that finds a target with the path launched; which  *)
(* one, when there are several, is up to the dictionary.                   *)
FoundTarget(k) ==
    /\ pc[k] = "polling"
    /\ \E i \in Insts : SamePath(wanted[k], i) /\ Finish(k, LaunchedReport(wanted[k], i))
    /\ UNCHANGED <<processVars, instVars, targets, listed, started, argVars, hit>>

(* The deadline passes, between two turns of the loop.                     *)
WaitIsOver(k) ==
    /\ pc[k] = "polling"
    /\ Finish(k, LaunchedReport(wanted[k], NoInst))
    /\ UNCHANGED <<processVars, instVars, targets, listed, started, argVars, hit>>

(* Fault: the process is looked up in the list of launched processes, by   *)
(* the file it was launched with.                                          *)
ProcessOfFile(i, p) == p \in started /\ state[p] = "up" /\ doc[p] = targets[i].file

(* Process.GetProcessById, with the process id of the registration.        *)
ProcessOf(i, p) == state[p] = "up" /\ pidOf[p] = targets[i].pid

(* TryGetTarget and CloseProcess up to WaitForExit.                        *)
CloseTarget(k) ==
    /\ pc[k] = "idle"
    /\ \E i \in Insts, forced \in BOOLEAN :
          /\ asked' = [asked EXCEPT ![k] = i]
          /\ force' = [force EXCEPT ![k] = forced]
          /\ \/ /\ Registered(i)
                /\ \E p \in Procs : ProcessOf(i, p) /\ hit' = [hit EXCEPT ![k] = p]
                /\ Proceed(k, "closing")
                /\ UNCHANGED report
             \/ /\ ~Registered(i) \/ ~\E p \in Procs : ProcessOf(i, p)
                /\ Finish(k, Failed)
                /\ UNCHANGED hit
    /\ UNCHANGED <<processVars, instVars, targets, listed, started, wanted>>

ClosedReport(k) == [kind |-> "closed", target |-> asked[k], file |-> NoFile]

(* Two seconds have passed, or the process has exited; a forced close      *)
(* kills it.  Kill may be refused by the system and throw.                 *)
EndClose(k) ==
    /\ pc[k] = "closing"
    /\ IF state[hit[k]] = "up" /\ force[k]
         THEN \/ Gone(hit[k]) /\ Finish(k, ClosedReport(k))
              \/ Finish(k, Failed) /\ UNCHANGED <<state, doc>>
         ELSE Finish(k, ClosedReport(k)) /\ UNCHANGED <<state, doc>>
    /\ UNCHANGED <<pidOf, opened, instVars, targets, listed, started, argVars, hit>>

-----------------------------------------------------------------------------
Environment ==
    \/ \E p \in Procs : StartIda(p) \/ CloseDatabase(p) \/ ProcessExits(p)
    \/ \E i \in Insts, p \in Procs : OpenDatabase(i, p)

Registration ==
    \E i \in Insts :
        \/ SendMetadata(i) \/ AnswerMetadata(i)
        \/ HandleMetadata(i) \/ RefreshTargetMetadata(i) \/ RemoveTarget(i)

ToolBegins(k) == RefuseLaunch(k) \/ Launch(k) \/ CloseTarget(k)
ToolGoesOn(k) == FoundTarget(k) \/ WaitIsOver(k) \/ EndClose(k)

WindowsNext ==
    \/ Environment
    \/ Registration
    \/ \E k \in Calls : ToolBegins(k) \/ ToolGoesOn(k)

WindowsSpec == WindowsInit /\ [][WindowsNext]_windowVars

-----------------------------------------------------------------------------
(* The variables hold values of their types.                               *)
WindowsTypeOK ==
    /\ state \in [Procs -> ProcStates]
    /\ pidOf \in [Procs -> Pids \cup {NoPid}]
    /\ doc \in [Procs -> Files \cup {NoFile}]
    /\ opened \in [Procs -> SUBSET Files]
    /\ home \in [Insts -> Procs \cup {NoProc}]
    /\ frames \in [Insts -> Seq(Metadata)]
    /\ late \in [Insts -> TargetInfos]
    /\ targets \in [Insts -> TargetInfos]
    /\ listed \in [Pids -> Procs \cup {NoProc}]
    /\ started \subseteq Procs
    /\ pc \in [Calls -> {"idle", "polling", "closing", "done"}]
    /\ wanted \in [Calls -> Files \cup {NoFile}]
    /\ asked \in [Calls -> Insts \cup {NoInst}]
    /\ force \in [Calls -> BOOLEAN]
    /\ hit \in [Calls -> Procs \cup {NoProc}]
    /\ report \in [Calls -> Reports]

(* A close reaches the process of the window that was asked for, or that   *)
(* process is gone: ids that were given out again, registrations that have *)
(* outlived their window and answers that came late never lead it to       *)
(* another window while the right one is there.                            *)
CloseHitsItsWindow ==
    \A k \in Calls : hit[k] # NoProc =>
        \/ hit[k] = home[asked[k]]
        \/ state[home[asked[k]]] = "gone"

(* The target that a launch reports is a window that has, or has had, the  *)
(* launched file open, whatever fallback metadata and old paths the        *)
(* registry has been given.                                                *)
LaunchReportsItsFile ==
    \A k \in Calls : report[k].target # NoInst /\ report[k].kind = "launched" =>
        report[k].file \in opened[home[report[k].target]]

(* ida_list_launched_processes has every process the center has started    *)
(* and that still runs, under its own process id.                          *)
RunningLaunchesListed ==
    \A p \in started : state[p] = "up" => listed[pidOf[p]] = p

(* While a window stays registered, a path that is known stays known, and  *)
(* its name does not fall back to ida-<pid>: updates from an IDA that is   *)
(* not ready, and answers that come late, take nothing away.               *)
KnownStaysKnown ==
    [][\A i \in Insts : Registered(i) /\ targets'[i] # NoMetadata =>
          /\ targets[i].file # NoFile => targets'[i].file # NoFile
          /\ targets[i].name = "real" => targets'[i].name = "real"]_windowVars

-----------------------------------------------------------------------------
(* The strengthening that makes these inductive.                           *)

(* Processes that run have process ids, and no two the same.               *)
PidsAreUnique ==
    /\ \A p \in Procs : state[p] # "off" => pidOf[p] \in Pids
    /\ \A p, q \in Procs : state[p] = "up" /\ state[q] = "up" /\ pidOf[p] = pidOf[q] => p = q

(* Whatever a window has said of itself came from its own process.         *)
SpeaksOf(i, m) ==
    /\ home[i] \in Procs
    /\ state[home[i]] # "off"
    /\ m.pid = pidOf[home[i]]
    /\ m.file # NoFile => m.file \in opened[home[i]]

MetadataIsOwn ==
    \A i \in Insts :
        /\ \A n \in DOMAIN frames[i] : SpeaksOf(i, frames[i][n])
        /\ late[i] # NoMetadata => SpeaksOf(i, late[i])
        /\ targets[i] # NoMetadata => SpeaksOf(i, targets[i])
        /\ home[i] # NoProc => state[home[i]] # "off"

OpenFilesAreOpened ==
    \A p \in Procs : doc[p] # NoFile => state[p] = "up" /\ doc[p] \in opened[p]

ClosingIsFound ==
    \A k \in Calls :
        /\ pc[k] = "closing" => hit[k] \in Procs
        /\ hit[k] # NoProc => hit[k] \in Procs /\ asked[k] \in Insts /\ home[asked[k]] \in Procs
        /\ pc[k] = "polling" => wanted[k] \in Files
        /\ pc[k] = "idle" => hit[k] = NoProc

ReportsAreReal ==
    \A k \in Calls : report[k].kind = "launched" /\ report[k].target # NoInst =>
        home[report[k].target] \in Procs

(* The inductive invariant of the proofs.                                  *)
WindowInv ==
    /\ WindowsTypeOK
    /\ PidsAreUnique
    /\ MetadataIsOwn
    /\ OpenFilesAreOpened
    /\ ClosingIsFound
    /\ ReportsAreReal
    /\ (\A p \in started : state[p] # "off")
    /\ RunningLaunchesListed
    /\ CloseHitsItsWindow
    /\ LaunchReportsItsFile
=============================================================================
