-------------------------- MODULE UpstreamWorkers -------------------------
(***************************************************************************)
(* Who has a binary open in the archived upstream server: the supervisor   *)
(* of headless workers (Supervisor) and a worker (IdbSessions), the        *)
(* registry of windows (Registry) and the routing of calls to them         *)
(* (Router).                                                               *)
(***************************************************************************)
EXTENDS Naturals, FiniteSets

CONSTANTS
    Paths, Candidates, Names, Contexts, Requests, Procs, MaxWorkers, None,
    Files, SessionIds,
    Windows, Servers, WindowOf, Ports, BasePorts, Scans, MaxStarts, Nobody,
    Targets, TargetNames, NamedTargets, Sessions, Calls, Hosts, MaxSelections

VARIABLES
    served, gui, proc, registry, schema, cached, lockedBy, stage, job, worker, down,
    known, active, bound, openDb, phase, task, ended,
    open, life, portOf, files, beat, posts, targets, alias, scan,
    kind, table, chosen, aged, default, call, last, since

Supervising == INSTANCE Supervisor
Serving == INSTANCE IdbSessions WITH Ids <- SessionIds
Listing == INSTANCE Registry
Routing == INSTANCE Router WITH Names <- TargetNames, Named <- NamedTargets

ASSUME WorkersAssumption ==
    /\ Supervising!SupervisorAssumption /\ Serving!IdbAssumption
    /\ Listing!RegistryAssumption /\ Routing!RouterAssumption

supervisorVars == <<served, gui, proc, registry, schema, cached, lockedBy, stage, job, worker,
      down>>
databasesVars == <<known, active, bound, openDb, phase, task, ended>>
registryVars == <<open, life, portOf, files, beat, posts, targets, alias, scan>>
routerVars == <<kind, table, chosen, aged, default, call, last, since>>
=============================================================================
