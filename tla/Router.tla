------------------------------- MODULE Router -------------------------------
(***************************************************************************)
(* Tool calls that the archived upstream server passes on to a window of   *)
(* IDA: by the registry (registry_server.py), which knows its targets, or  *)
(* by the server of one window (server.py), which takes any port that      *)
(* answers.  Both keep what a transport session has selected, in order of  *)
(* last use, for a day and up to a number of sessions.                     *)
(***************************************************************************)
EXTENDS Naturals, Sequences, FiniteSets, Functions

CONSTANTS
    Targets,       \* windows, each at its port
    Names,         \* other ways to name them
    Named,         \* what a name stands for
    Sessions,      \* transport sessions
    Calls,         \* requests under way
    Hosts,         \* addresses that the registry tries for a target
    MaxSelections, \* SESSION_TARGET_MAX_SIZE
    Nobody         \* no session, no target

RouterAssumption ==
    /\ Named \in [Names -> SUBSET Targets]
    /\ Hosts \in Nat \ {0} /\ MaxSelections \in Nat \ {0}
    /\ Nobody \notin Targets \cup Names \cup Sessions

VARIABLES
    kind,     \* "registry" or "proxy"
    table,    \* _targets; the proxy has none
    chosen,   \* selections of sessions, that used last at the end
    aged,     \* sessions that were not used for a day
    default,  \* _default_target_id, or IDA_HOST and IDA_PORT
    call,     \* requests
    last,     \* history: what a session has selected last
    since     \* history: sessions that used a selection after it

selectionVars == <<chosen, aged, default, last, since>>
vars == <<kind, table, selectionVars, call>>

Entries == [session : Sessions, target : Targets]
NoCall == [at |-> "idle", session |-> Nobody, goal |-> Nobody, host |-> 0]

-----------------------------------------------------------------------------
(* _prune_session_targets_locked, _get_selected_target_id and              *)
(* _set_selected_target_id, and their like in server.py.                   *)
(* Fault: the sessions used last make room, not those used first.          *)
Oldest(entries, n) == IF Len(entries) > n THEN SubSeq(entries, 1, n) ELSE entries
Newest(entries, n) == IF Len(entries) > n THEN SubSeq(entries, Len(entries) - n + 1, Len(entries)) ELSE entries

(* The entries that are in keep, in their order: SelectSeq, place by place. *)
Filtered(entries, keep) ==
    LET places == {i \in DOMAIN entries : entries[i] \in keep}
        Place(k) == CHOOSE i \in places : Cardinality({j \in places : j <= i}) = k
    IN  [k \in 1 .. Cardinality(places) |-> entries[Place(k)]]

Pruned(entries, old) == Newest(Filtered(entries, {e \in Entries : e.session \notin old}), MaxSelections)
Without(entries, s) == Filtered(entries, {e \in Entries : e.session # s})
Holds(s) == {e \in Range(chosen) : e.session = s}
Alive(s) == Holds(s) # {} /\ s \notin aged
Selection(s) == IF Alive(s) THEN (CHOOSE e \in Holds(s) : TRUE).target ELSE default

Uses(s) ==
    /\ aged' = aged \ {s}
    /\ since' = [t \in Sessions |-> IF t = s THEN {} ELSE since[t] \cup {s}]

GetSelected(s) ==
    /\ chosen' = IF Alive(s)
                 THEN Append(Without(Pruned(chosen, aged), s), [session |-> s, target |-> Selection(s)])
                 ELSE Pruned(chosen, aged)
    /\ IF Alive(s) THEN Uses(s) ELSE UNCHANGED <<aged, since>>
    /\ UNCHANGED <<default, last>>

(* Every request has a session: that of its header or stream,              *)
(* "http:anonymous" or "stdio:default".  The branch for none is dead, and  *)
(* the default stays what it was when the server started.                  *)
SetSelected(s, t) ==
    /\ chosen' = Pruned(Append(Without(chosen, s), [session |-> s, target |-> t]), aged \ {s})
    /\ Uses(s)
    /\ last' = [last EXCEPT ![s] = t]
    /\ UNCHANGED default

ClearSelected(s) ==
    /\ chosen' = IF kind = "registry" THEN Pruned(Without(chosen, s), aged) ELSE Without(chosen, s)
    /\ last' = [last EXCEPT ![s] = Nobody]
    /\ UNCHANGED <<aged, default, since>>

-----------------------------------------------------------------------------
(* _resolve_target: the targets that a request may mean.                   *)
Matches(ref) == IF ref \in Names THEN Named[ref] \cap table ELSE {ref} \cap table

Begins(c, s, at, t) ==
    call' = [call EXCEPT ![c] =
        [at |-> at, session |-> IF at = "selecting" THEN s ELSE Nobody, goal |-> t, host |-> 0]]
Fails == UNCHANGED call
One(found) == CHOOSE t \in found : TRUE

(* A request that names its target.  The registry looks it up; the proxy   *)
(* has no such argument.                                                   *)
CallNamed(c, s, ref, at) ==
    /\ kind = "registry" /\ call[c].at = "idle"
    /\ Cardinality(Matches(ref)) = 1 /\ Begins(c, s, at, One(Matches(ref)))
    /\ UNCHANGED <<kind, table, selectionVars>>

(* One that does not: the selection, if it is still there; else the only   *)
(* target that there is.                                                   *)
CallSelected(c, s) ==
    LET t == Selection(s) IN
    /\ call[c].at = "idle"
    /\ \/ /\ kind = "proxy" \/ t \in table
          /\ GetSelected(s)
          /\ t # Nobody
          /\ Begins(c, s, "sent", t)
       \/ /\ kind = "registry" /\ t \notin table
          /\ IF t # Nobody THEN ClearSelected(s) ELSE GetSelected(s)
          /\ IF Cardinality(table) = 1 THEN Begins(c, s, "sent", One(table)) ELSE Fails
    /\ UNCHANGED <<kind, table>>

(* tools/call, with a target or without; call_target_tool; select_target,  *)
(* whose answer comes back as a call of its own; server.py.                *)
handle_remote_tool_call(c, s) ==
    \/ kind = "registry" /\ CallSelected(c, s)
    \/ \E ref \in Targets \cup Names : CallNamed(c, s, ref, "sent")
call_target_tool(c, s, ref) == CallNamed(c, s, ref, "sent")
select_target(c, s, ref) == CallNamed(c, s, ref, "selecting")
dispatch_proxy(c, s) == kind = "proxy" /\ CallSelected(c, s)

(* select_instance: a port that answers.                                   *)
ProbeInstance(c, s, t) ==
    /\ kind = "proxy" /\ call[c].at = "idle"
    /\ Begins(c, s, "selecting", t)
    /\ UNCHANGED <<kind, table, selectionVars>>

Select(c) ==
    /\ call[c].at = "selecting"
    /\ SetSelected(call[c].session, call[c].goal)
    /\ call' = [call EXCEPT ![c] = NoCall]
    /\ UNCHANGED <<kind, table>>

Clear(c, s) ==
    /\ call[c].at = "idle"
    /\ ClearSelected(s)
    /\ UNCHANGED <<kind, table, call>>

-----------------------------------------------------------------------------
(* _proxy_to_target and _proxy_to_instance.                                *)
Answered(c) ==
    /\ call[c].at = "sent"
    /\ call' = [call EXCEPT ![c] = NoCall]
    /\ UNCHANGED <<kind, table, selectionVars>>

(* The connection is refused or lost, or 30 seconds are over, and the tool *)
(* may have run all the same: the registry tries the next address, the     *)
(* proxy reports it.                                                       *)
NotAnswered(c) ==
    LET next == call[c].host + 1 IN
    /\ call[c].at = "sent"
    /\ call' = [call EXCEPT ![c] =
          IF kind = "registry" /\ next < Hosts THEN [@ EXCEPT !.host = next] ELSE NoCall]
    /\ UNCHANGED <<kind, table, selectionVars>>

-----------------------------------------------------------------------------
Register(t) ==
    /\ kind = "registry" /\ t \notin table
    /\ table' = table \cup {t}
    /\ UNCHANGED <<kind, selectionVars, call>>

(* _unregister_target and _prune_targets_locked.                           *)
Unregister(t) ==
    /\ t \in table
    /\ table' = table \ {t}
    /\ chosen' = Filtered(chosen, {e \in Entries : e.target # t})
    /\ last' = [s \in Sessions |-> IF last[s] = t THEN Nobody ELSE last[s]]
    /\ UNCHANGED <<kind, aged, default, since, call>>

DayPasses(s) ==
    /\ s \notin aged /\ Holds(s) # {}
    /\ aged' = aged \cup {s}
    /\ UNCHANGED <<kind, table, chosen, default, last, since, call>>

Init ==
    /\ kind \in {"registry", "proxy"}
    /\ table = {} /\ chosen = <<>> /\ aged = {}
    /\ IF kind = "registry" THEN default = Nobody ELSE default \in Targets
    /\ call = [c \in Calls |-> NoCall]
    /\ last = [s \in Sessions |-> Nobody]
    /\ since = [s \in Sessions |-> {}]

Next ==
    \/ \E c \in Calls, s \in Sessions :
          \/ handle_remote_tool_call(c, s) \/ dispatch_proxy(c, s)
          \/ \E ref \in Targets \cup Names : call_target_tool(c, s, ref) \/ select_target(c, s, ref)
          \/ \E t \in Targets : ProbeInstance(c, s, t)
          \/ Clear(c, s)
    \/ \E c \in Calls : Select(c) \/ Answered(c) \/ NotAnswered(c)
    \/ \E t \in Targets : Register(t) \/ Unregister(t)
    \/ \E s \in Sessions : DayPasses(s)

Spec == Init /\ [][Next]_vars

-----------------------------------------------------------------------------
(* A session that was used within a day, and not overtaken by as many      *)
(* others as there is room for, still has what it selected last.           *)
SelectionsAreKept ==
    \A s \in Sessions :
        last[s] # Nobody /\ s \notin aged /\ Cardinality(since[s]) < MaxSelections =>
            Selection(s) = last[s]
=============================================================================
