---------------------------- MODULE AgentConfig ----------------------------
(***************************************************************************)
(* The configuration file of an MCP client, while AgentConfigService adds  *)
(* the center to it, the client or its user change it too, and any step    *)
(* may be the last.  Codex has a TOML file of sections, Claude Desktop and *)
(* opencode have a JSON object.                                            *)
(*                                                                         *)
(* A file is the set of its entries; `ours' is the entry of the center. A  *)
(* JSON file has the others within mcpServers (or mcp), at the top level,  *)
(* or it has an mcpServers that is no object.                              *)
(***************************************************************************)
EXTENDS Naturals

CONSTANTS
    Agents,    \* of "codex", "claude" and "opencode", those looked at
    Entries,   \* entries of other servers and settings
    OddEntries,\* entries that are an mcpServers that is no object
    ours,
    MaxSecond  \* bound on the clock

(* What the constants have to be; Desktop assumes it.                      *)
ConfigAssumption ==
    /\ Agents \subseteq {"codex", "claude", "opencode"}
    /\ OddEntries \subseteq Entries
    /\ ours \notin Entries
    /\ MaxSecond \in Nat

VARIABLES
    agent,     \* whose file it is
    hasBridge, \* BridgeLaunchCommandResolver finds a bridge to launch
    config,    \* the file
    backups,   \* its copies, by the second in their names
    second,    \* the clock
    pc,        \* the next step of Configure
    text,      \* what it has read
    began      \* what the file held when a Configure began

vars == <<agent, hasBridge, config, backups, second, pc, text, began>>

Items == Entries \cup {ours}
(* Damaged text is not JSON; a text without items and damage is blank.     *)
Texts == [exists : BOOLEAN, items : SUBSET Items, damaged : BOOLEAN]
NoFile == [exists |-> FALSE, items |-> {}, damaged |-> FALSE]
Blank == [exists |-> TRUE, items |-> {}, damaged |-> FALSE]
Whole(items) == [exists |-> TRUE, items |-> items, damaged |-> FALSE]
IsBlank(t) == t.items = {} /\ ~t.damaged

Init ==
    /\ agent \in Agents
    /\ hasBridge \in BOOLEAN
    /\ config \in {NoFile, Blank} \cup [exists : {TRUE}, items : SUBSET Entries, damaged : BOOLEAN]
    /\ backups = [s \in 0..MaxSecond |-> NoFile]
    /\ second = 0
    /\ pc = "idle" /\ text = NoFile
    /\ began = {}

-----------------------------------------------------------------------------
Tick ==
    /\ second < MaxSecond
    /\ second' = second + 1
    /\ UNCHANGED <<agent, hasBridge, config, backups, pc, text, began>>

(* The client, or its user, adds an entry, and may mend the file.          *)
OthersAdd(e) ==
    /\ e \notin config.items
    /\ config' = Whole(config.items \cup {e})
    /\ UNCHANGED <<agent, hasBridge, backups, second, pc, text, began>>

Json == agent # "codex"

(* Configure, the button of the settings page.                             *)
Configure ==
    /\ pc = "idle"
    /\ agent = "claude" => hasBridge
    /\ pc' = IF Json THEN "backup" ELSE "read"
    /\ began' = began \cup {config.items}
    /\ UNCHANGED <<agent, hasBridge, config, backups, second, text>>

(* Fault: a backup of the same second is replaced.                         *)
AnyName == TRUE

(* File.Copy(overwrite: false) throws when the name is taken.              *)
FreeName == ~backups[second].exists

(* Codex has read the text before, and copies no blank one; JSON files are *)
(* copied whenever they exist.                                             *)
NeedsBackup == IF Json THEN config.exists ELSE ~IsBlank(text)

Backup ==
    /\ pc = "backup"
    /\ IF NeedsBackup
         THEN FreeName /\ backups' = [backups EXCEPT ![second] = config]
         ELSE UNCHANGED backups
    /\ pc' = IF Json THEN "read" ELSE "truncate"
    /\ UNCHANGED <<agent, hasBridge, config, second, text, began>>

(* JsonNode.Parse throws on damaged text.                                  *)
Read ==
    /\ pc = "read"
    /\ Json => ~config.damaged
    /\ text' = config
    /\ pc' = IF Json THEN "truncate" ELSE "backup"
    /\ UNCHANGED <<agent, hasBridge, config, backups, second, began>>

(* RemoveTomlSection and the new section; in JSON, the entry is set, in a  *)
(* new object if there was none to set it in.                              *)
NewText ==
    [exists |-> TRUE,
     items |-> (IF Json THEN text.items \ OddEntries ELSE text.items) \cup {ours},
     damaged |-> text.damaged]

(* WriteAllText truncates the file and then writes it.                     *)
Truncate ==
    /\ pc = "truncate"
    /\ config' = Blank
    /\ pc' = "write"
    /\ UNCHANGED <<agent, hasBridge, backups, second, text, began>>

Write ==
    /\ pc = "write"
    /\ config' = NewText
    /\ pc' = "idle" /\ text' = NoFile
    /\ UNCHANGED <<agent, hasBridge, backups, second, began>>

(* A part has been written when the program is killed.                     *)
WritePart ==
    /\ pc = "write"
    /\ \E part \in SUBSET NewText.items :
          config' = [exists |-> TRUE, items |-> part, damaged |-> TRUE]
    /\ pc' = "idle" /\ text' = NoFile
    /\ UNCHANGED <<agent, hasBridge, backups, second, began>>

(* A step throws (and RunAgentConfigureAsync reports it), or the program   *)
(* is killed.                                                              *)
Interrupt ==
    /\ pc # "idle"
    /\ pc' = "idle" /\ text' = NoFile
    /\ UNCHANGED <<agent, hasBridge, config, backups, second, began>>

Next ==
    \/ Tick
    \/ \E e \in Entries : OthersAdd(e)
    \/ Configure \/ Backup \/ Read \/ Truncate \/ Write \/ WritePart
    \/ Interrupt

Spec == Init /\ [][Next]_vars

-----------------------------------------------------------------------------
(* The variables hold values of their types.                               *)
TypeOK ==
    /\ agent \in Agents
    /\ hasBridge \in BOOLEAN
    /\ config \in Texts
    /\ backups \in [0..MaxSecond -> Texts]
    /\ second \in 0..MaxSecond
    /\ pc \in {"idle", "backup", "read", "truncate", "write"}
    /\ text \in Texts
    /\ began \subseteq SUBSET Items

(* What a file held when Configure began is in the file, or in one of its  *)
(* backups, at any time, however many attempts were interrupted, how close *)
(* together, and whatever others did to it in the meantime.                *)
ConfigSurvives ==
    \A items \in began :
        \/ items \ {ours} \subseteq config.items
        \/ \E s \in 0..MaxSecond : items \ {ours} \subseteq backups[s].items
-----------------------------------------------------------------------------
(* The strengthening that makes ConfigSurvives inductive.                  *)

InBackup(items) == \E s \in 0..MaxSecond : items \ {ours} \subseteq backups[s].items

MissingIsEmpty ==
    /\ ~config.exists => config.items = {}
    /\ \A s \in 0..MaxSecond : ~backups[s].exists => backups[s].items = {}

(* Codex: what has been read is still in the file when it is copied.       *)
ReadIsThere ==
    ~Json /\ pc = "backup" =>
        /\ text.items \subseteq config.items
        /\ \A items \in began : items \ {ours} \subseteq text.items \/ InBackup(items)

(* Nothing is overwritten that is not in a backup.                         *)
BackedUp ==
    (Json /\ pc = "read") \/ pc \in {"truncate", "write"} => \A items \in began : InBackup(items)

(* The inductive invariant of the proofs.                                  *)
ConfigInv ==
    /\ TypeOK
    /\ ConfigSurvives
    /\ MissingIsEmpty
    /\ ReadIsThere
    /\ BackedUp
=============================================================================
