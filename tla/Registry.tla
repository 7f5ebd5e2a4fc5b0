------------------------------ MODULE Registry ------------------------------
(***************************************************************************)
(* How the windows of IDA are found in the archived upstream server: the   *)
(* life of the MCP server in a window (ida_mcp.py), the files it leaves    *)
(* for discovery.py, and the registry it reports to (registry_client.py,   *)
(* registry_server.py).                                                    *)
(*                                                                         *)
(* A server is started once, on a port that it gets back to the system     *)
(* when it ends, and that a server of another window may get next.  Posts  *)
(* to the registry are handled by threads of it, in any order, also after  *)
(* the window has stopped waiting for an answer.                           *)
(***************************************************************************)
EXTENDS Naturals, Sequences, FiniteSets, FiniteSetsExt

CONSTANTS
    Windows, Servers,
    WindowOf,  \* the window of a server
    Ports,     \* port numbers
    BasePorts, \* those that a window may be configured to try first
    Scans,     \* runs of discover_instances
    MaxStarts, \* bound: servers that are started
    Nobody

RegistryAssumption ==
    /\ WindowOf \in [Servers -> Windows]
    /\ Ports \subseteq Nat \ {0} /\ IsFiniteSet(Ports) /\ BasePorts \subseteq Ports
    /\ MaxStarts \in Nat
    /\ Nobody \notin Servers \cup Windows \cup Scans \cup Ports

VARIABLES
    open,       \* windows whose process runs
    life,       \* of a server
    portOf,     \* its port
    files,      \* instance_<port>.json: the server that wrote it
    beat,       \* its registration thread
    posts,      \* requests on their way to the registry
    targets,    \* _targets: the server that registered a port
    alias,      \* number of its alias; all binaries have the same name
    scan        \* a run of discover_instances: the file it has read

windowVars == <<open, life, portOf, beat>>
tableVars == <<targets, alias>>
vars == <<windowVars, files, posts, tableVars, scan>>

NoScan == [at |-> "new", port |-> Nobody, read |-> Nobody]

Listening(s) == life[s] \in {"bound", "serving", "leaving", "left"}
Listener(p) == {s \in Servers : Listening(s) /\ portOf[s] = p}

-----------------------------------------------------------------------------
(* A window: run, _unregister_instance and term of the plugin.             *)

(* The first port that is free, from the configured one on.                *)
Start(s, base) ==
    LET free == {p \in Ports : p >= base /\ Listener(p) = {}} IN
    /\ life[s] = "new" /\ WindowOf[s] \in open
    /\ \A t \in Servers : WindowOf[t] = WindowOf[s] => life[t] \in {"new", "gone"}
    /\ Cardinality({t \in Servers : portOf[t] # 0}) < MaxStarts
    /\ free # {}
    /\ portOf' = [portOf EXCEPT ![s] = Min(free)]
    /\ life' = [life EXCEPT ![s] = "bound"]
    /\ UNCHANGED <<open, files, beat, posts, tableVars, scan>>

(* _register_instance: the file is replaced at once, the thread started.   *)
WriteFile(s) ==
    /\ life[s] = "bound"
    /\ files' = [files EXCEPT ![portOf[s]] = s]
    /\ life' = [life EXCEPT ![s] = "serving"]
    /\ beat' = [beat EXCEPT ![s] = "waiting"]
    /\ UNCHANGED <<open, portOf, posts, tableVars, scan>>

Post(s) ==
    /\ beat[s] = "waiting" /\ life[s] = "serving"
    /\ beat' = [beat EXCEPT ![s] = "posting"]
    /\ posts' = posts \cup {<<"register", s>>}
    /\ UNCHANGED <<open, life, portOf, files, tableVars, scan>>

(* Fault: the window reports only once.                                    *)
PostOnce(s) ==
    /\ beat[s] = "posting"
    /\ beat' = [beat EXCEPT ![s] = "over"]
    /\ UNCHANGED <<open, life, portOf, files, posts, tableVars, scan>>

(* The post was answered or has timed out; the thread sees the event.      *)
PostEnds(s) ==
    /\ beat[s] = "posting"
    /\ beat' = [beat EXCEPT ![s] = IF life[s] = "serving" THEN "waiting" ELSE "over"]
    /\ UNCHANGED <<open, life, portOf, files, posts, tableVars, scan>>

(* _stop_registry_registration: the event is set, the thread joined for    *)
(* half a second, and the registration taken back.                         *)
Leave(s) ==
    /\ life[s] = "serving"
    /\ life' = [life EXCEPT ![s] = "leaving"]
    /\ beat' = [beat EXCEPT ![s] = IF beat[s] = "posting" THEN "posting" ELSE "over"]
    /\ posts' = posts \cup {<<"unregister", s>>}
    /\ UNCHANGED <<open, portOf, files, tableVars, scan>>

(* The answer is there, or the second is over.                             *)
RemoveFile(s) ==
    /\ life[s] = "leaving"
    /\ files' = [files EXCEPT ![portOf[s]] = Nobody]
    /\ life' = [life EXCEPT ![s] = "left"]
    /\ UNCHANGED <<open, portOf, beat, posts, tableVars, scan>>

StopServer(s) ==
    /\ life[s] = "left"
    /\ life' = [life EXCEPT ![s] = "gone"]
    /\ UNCHANGED <<open, portOf, files, beat, posts, tableVars, scan>>

(* The process ends: after term, or in the middle of anything.             *)
WindowEnds(w) ==
    /\ w \in open
    /\ open' = open \ {w}
    /\ life' = [s \in Servers |-> IF WindowOf[s] = w THEN "gone" ELSE life[s]]
    /\ beat' = [s \in Servers |-> IF WindowOf[s] = w THEN "over" ELSE beat[s]]
    /\ UNCHANGED <<portOf, files, posts, tableVars, scan>>

-----------------------------------------------------------------------------
(* The registry.  A target id is made of port, process and database.       *)
IdOf(s) == <<WindowOf[s], portOf[s]>>
SameTarget(s, t) == s # Nobody /\ t # Nobody /\ IdOf(s) = IdOf(t)
Taken(p) == {alias[q] : q \in {q \in Ports \ {p} : targets[q] # Nobody}}
UniqueAlias(p) == Min((1 .. Cardinality(Ports)) \ Taken(p))

RegisterTarget(s) ==
    LET p == portOf[s] IN
    /\ <<"register", s>> \in posts
    /\ posts' = posts \ {<<"register", s>>}
    /\ alias' = [alias EXCEPT ![p] = IF SameTarget(targets[p], s) THEN @ ELSE UniqueAlias(p)]
    /\ targets' = [targets EXCEPT ![p] = s]
    /\ UNCHANGED <<windowVars, files, scan>>

DropTarget(p) ==
    /\ targets' = [targets EXCEPT ![p] = Nobody]
    /\ alias' = [alias EXCEPT ![p] = 0]

(* Fault: the port is taken back, whoever has it by now.                   *)
UnregisterPort(s) ==
    /\ <<"unregister", s>> \in posts
    /\ posts' = posts \ {<<"unregister", s>>}
    /\ DropTarget(portOf[s])
    /\ UNCHANGED <<windowVars, files, scan>>

UnregisterTarget(s) ==
    LET p == portOf[s] IN
    /\ <<"unregister", s>> \in posts
    /\ posts' = posts \ {<<"unregister", s>>}
    /\ IF targets[p] # Nobody /\ WindowOf[targets[p]] = WindowOf[s]
       THEN DropTarget(p)
       ELSE UNCHANGED tableVars
    /\ UNCHANGED <<windowVars, files, scan>>

(* _prune_targets_locked: a window that reports every 15 seconds does not  *)
(* come to 60; a post is handled long before.                              *)
Refreshed(s) == beat[s] \in {"waiting", "posting"} \/ <<"register", s>> \in posts

Expire(p) ==
    /\ targets[p] # Nobody
    /\ \A s \in Servers : SameTarget(s, targets[p]) => ~Refreshed(s)
    /\ DropTarget(p)
    /\ UNCHANGED <<windowVars, files, posts, scan>>

-----------------------------------------------------------------------------
(* discover_instances, for one file: read, then probe, then report it or   *)
(* remove what has the name of the file by now.                            *)
ReadInstance(d, p) ==
    /\ scan[d].at = "new" /\ files[p] # Nobody
    /\ scan' = [scan EXCEPT ![d] = [at |-> "read", port |-> p, read |-> files[p]]]
    /\ UNCHANGED <<windowVars, files, posts, tableVars>>

ProbeInstance(d) ==
    /\ scan[d].at = "read"
    /\ scan' = [scan EXCEPT ![d].at =
          IF WindowOf[scan[d].read] \in open /\ Listener(scan[d].port) # {} THEN "found" ELSE "stale"]
    /\ UNCHANGED <<windowVars, files, posts, tableVars>>

RemoveStale(d) ==
    /\ scan[d].at = "stale"
    /\ files' = [files EXCEPT ![scan[d].port] = Nobody]
    /\ scan' = [scan EXCEPT ![d].at = "over"]
    /\ UNCHANGED <<windowVars, posts, tableVars>>

Init ==
    /\ open = Windows
    /\ life = [s \in Servers |-> "new"]
    /\ portOf = [s \in Servers |-> 0]
    /\ beat = [s \in Servers |-> "off"]
    /\ files = [p \in Ports |-> Nobody]
    /\ posts = {}
    /\ targets = [p \in Ports |-> Nobody]
    /\ alias = [p \in Ports |-> 0]
    /\ scan = [d \in Scans |-> NoScan]

Next ==
    \/ \E s \in Servers :
          \/ \E base \in BasePorts : Start(s, base)
          \/ WriteFile(s) \/ Leave(s) \/ RemoveFile(s) \/ StopServer(s)
          \/ Post(s) \/ PostEnds(s) \/ RegisterTarget(s) \/ UnregisterTarget(s)
    \/ \E w \in Windows : WindowEnds(w)
    \/ \E p \in Ports : Expire(p)
    \/ \E d \in Scans : \/ \E p \in Ports : ReadInstance(d, p)
                        \/ ProbeInstance(d) \/ RemoveStale(d)

(* The registration thread reports again and again, the registry handles   *)
(* what arrives, and the next look at its table prunes it.                 *)
Fairness ==
    /\ \A s \in Servers :
          WF_vars(Post(s)) /\ WF_vars(PostEnds(s)) /\ WF_vars(RegisterTarget(s)) /\ WF_vars(UnregisterTarget(s))
    /\ \A p \in Ports : WF_vars(Expire(p))

Spec == Init /\ [][Next]_vars /\ Fairness

-----------------------------------------------------------------------------
(* Two targets never share an alias, and a port is never registered for a  *)
(* window that has not served it.                                          *)
Registered == {p \in Ports : targets[p] # Nobody}

TargetsAreDistinct ==
    /\ \A p, q \in Registered : p # q => alias[p] # alias[q]
    /\ \A p \in Registered : portOf[targets[p]] = p

(* A scan may remove a file that was written after it read the one before. *)
(* Otherwise the file of a server is there as long as it serves.           *)
FilesOfServers ==
    \A s \in Servers : life[s] = "serving" /\ files[portOf[s]] # s =>
        \E d \in Scans : scan[d].at = "over" /\ scan[d].port = portOf[s] /\ scan[d].read # s

RegistryKeepsBooks == TargetsAreDistinct /\ FilesOfServers

(* The registration of a window that reports is taken back by the window   *)
(* only, or replaced by one that listens on its port now.                  *)
OthersKeepTheirs ==
    [][\A p \in Registered : LET s == targets[p] IN
          beat[s] \in {"waiting", "posting"} /\ targets'[p] = Nobody =>
             \E t \in Servers : WindowOf[t] = WindowOf[s] /\ <<"unregister", t>> \in posts]_vars

(* A server that goes on serving is listed for good, whatever posts of     *)
(* servers before it came late, and one that has gone is so no more.       *)
Listed(s) == portOf[s] \in Ports /\ targets[portOf[s]] = s

WindowsAreListed ==
    \A s \in Servers :
        /\ <>[](life[s] = "serving") => <>[]Listed(s)
        /\ <>[](life[s] = "gone") => <>[]~Listed(s)
=============================================================================
