------------------------------ MODULE Settings -----------------------------
(***************************************************************************)
(* Two things that outlive a request in a window of the archived upstream  *)
(* server: the tools that its user has turned off (http.py), which are     *)
(* kept in the database over restarts and new versions of the plugin, and  *)
(* the outputs that were too large for an answer (rpc.py).  Requests are   *)
(* served by threads.                                                      *)
(***************************************************************************)
EXTENDS Naturals, Sequences, FiniteSets, SequencesExt

CONSTANTS
    Tools,      \* tools of all versions of the plugin
    Versions,   \* the tools of a version
    Protected,  \* PROTECTED_TOOLS, which every version has
    Forms,      \* posts of the configuration page
    Calls,      \* tool calls with a large output, numbered; the number is the output id
    MaxOutputs, \* OUTPUT_CACHE_MAX_SIZE
    MaxRestarts \* bound: restarts of IDA

SettingsAssumption ==
    /\ Versions \subseteq SUBSET Tools
    /\ \A v \in Versions : Protected \subseteq v
    /\ Calls \subseteq Nat /\ IsFiniteSet(Calls) /\ MaxOutputs \in Nat \ {0} /\ MaxRestarts \in Nat

VARIABLES
    version,  \* ORIGINAL_TOOLS
    methods,  \* MCP_SERVER.tools.methods: those that can be called
    saved,    \* enabled_tools in the database: "on", "off" or "none"
    form,     \* where a form stands, and what is on in it
    restarts, \* restarts so far
    off,      \* history: tools that were turned off and have not left the plugin since
    mixed,    \* history: forms overlapped, or IDA ended within one
    outputs,  \* _output_cache
    call,     \* where a call stands, and the output that is to go for it
    newer     \* history: calls that took room or stored after an output was stored

configVars == <<version, methods, saved, form, restarts, off, mixed>>
outputVars == <<outputs, call, newer>>
vars == <<configVars, outputVars>>

NoForm == [at |-> "none", on |-> {}]
NoCall == [at |-> "new", oldest |-> 0]

-----------------------------------------------------------------------------
(* Fault: tools that are new are off.                                      *)
LoadedOff(v, s) ==
    [t \in Tools |-> IF t \notin v THEN "none"
                     ELSE IF t \in Protected \/ s[t] = "on" THEN "on" ELSE "off"]

(* handle_enabled_tools, when the plugin is loaded: tools that are new are *)
(* on, those that are gone are forgotten, and protected ones are on.       *)
Loaded(v, s) ==
    [t \in Tools |-> IF t \notin v THEN "none"
                     ELSE IF t \in Protected \/ s[t] = "none" THEN "on" ELSE s[t]]
Enabled(v, s) == {t \in v : s[t] = "on"}

Restart(v) ==
    /\ restarts < MaxRestarts
    /\ restarts' = restarts + 1
    /\ version' = v
    /\ saved' = Loaded(v, saved)
    /\ methods' = Enabled(v, saved')
    /\ form' = [f \in Forms |-> NoForm]
    /\ off' = off \cap v
    /\ mixed' = (mixed \/ \E f \in Forms : form[f].at # "none")
    /\ outputs' = <<>>
    /\ call' = [c \in Calls |-> IF call[c].at = "new" THEN NoCall ELSE [NoCall EXCEPT !.at = "over"]]
    /\ newer' = [c \in Calls |-> {}]

(* _handle_config_post, from the form or from a profile: what can be       *)
(* called is changed first, then saved.                                    *)
Apply(f, on) ==
    /\ form[f].at = "none"
    /\ mixed' = (mixed \/ \E g \in Forms : form[g].at # "none")
    /\ form' = [form EXCEPT ![f] = [at |-> "applied", on |-> (on \cup Protected) \cap version]]
    /\ methods' = form'[f].on
    /\ UNCHANGED <<version, saved, restarts, off, outputVars>>

Save(f) ==
    /\ form[f].at = "applied"
    /\ form' = [form EXCEPT ![f] = NoForm]
    /\ saved' = [t \in Tools |-> IF t \notin version THEN "none"
                                 ELSE IF t \in form[f].on THEN "on" ELSE "off"]
    /\ off' = version \ form[f].on
    /\ UNCHANGED <<version, methods, restarts, mixed, outputVars>>

-----------------------------------------------------------------------------
(* _cache_output: the oldest output is looked up, removed, and the new one *)
(* stored; another thread may come between.                                *)
MakeRoom(c) ==
    /\ call[c].at = "new" /\ \A d \in Calls : d < c => call[d].at # "new"
    /\ IF Len(outputs) >= MaxOutputs
       THEN call' = [call EXCEPT ![c] = [at |-> "full", oldest |-> Head(outputs)]]
       ELSE call' = [call EXCEPT ![c].at = "room"]
    /\ newer' = [d \in Calls |-> IF Contains(outputs, d) THEN newer[d] \cup {c} ELSE newer[d]]
    /\ UNCHANGED <<configVars, outputs>>

(* A KeyError, if it has gone already: the call fails.                     *)
RemoveOldest(c) ==
    /\ call[c].at = "full"
    /\ \/ /\ \E i \in 1 .. Len(outputs) :
                outputs[i] = call[c].oldest /\ outputs' = RemoveAt(outputs, i)
          /\ call' = [call EXCEPT ![c] = [at |-> "room", oldest |-> 0]]
       \/ /\ ~Contains(outputs, call[c].oldest)
          /\ call' = [call EXCEPT ![c] = [at |-> "over", oldest |-> 0]]
          /\ UNCHANGED outputs
    /\ UNCHANGED <<configVars, newer>>

Store(c) ==
    /\ call[c].at = "room"
    /\ outputs' = Append(outputs, c)
    /\ call' = [call EXCEPT ![c] = [NoCall EXCEPT !.at = "over"]]
    /\ newer' = [d \in Calls |-> IF Contains(outputs, d) THEN newer[d] \cup {c} ELSE newer[d]]
    /\ UNCHANGED configVars

Init ==
    /\ version \in Versions
    /\ saved = [t \in Tools |-> IF t \in version THEN "on" ELSE "none"]
    /\ methods = version
    /\ form = [f \in Forms |-> NoForm] /\ restarts = 0
    /\ off = {} /\ mixed = FALSE
    /\ outputs = <<>> /\ call = [c \in Calls |-> NoCall] /\ newer = [c \in Calls |-> {}]

Next ==
    \/ \E v \in Versions : Restart(v)
    \/ \E f \in Forms : (\E on \in SUBSET version : Apply(f, on)) \/ Save(f)
    \/ \E c \in Calls : MakeRoom(c) \/ RemoveOldest(c) \/ Store(c)

Spec == Init /\ [][Next]_vars

-----------------------------------------------------------------------------
(* What the user turned off stays off until the plugin no longer has it,   *)
(* and all else is on, whichever restarts and versions come; unless forms  *)
(* overlapped or IDA ended within one.                                     *)
ToolsAsTurned ==
    ~mixed /\ (\A f \in Forms : form[f].at = "none") => methods = version \ off

(* An output that was stored stays until as many others were stored or     *)
(* made room, and no more are kept than there is room for and threads can  *)
(* have stored at once.                                                    *)
OutputsAreKept ==
    /\ \A c \in Calls : newer[c] # {} /\ ~Contains(outputs, c) => Cardinality(newer[c]) >= MaxOutputs
    /\ Len(outputs) < MaxOutputs + Cardinality(Calls)

SettingsLast == ToolsAsTurned /\ OutputsAreKept
=============================================================================
