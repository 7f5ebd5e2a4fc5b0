----------------------------- MODULE Installer -----------------------------
(***************************************************************************)
(* "ida-pro-mcp --install" and "--uninstall" of the archived upstream      *)
(* server (installer.py): the plugin in the directory of IDA, then one     *)
(* entry in the configuration of every chosen client, which the client     *)
(* itself may write as well.  A run may be killed at any moment.           *)
(***************************************************************************)
EXTENDS Naturals, Sequences, FiniteSets

CONSTANTS
    Clients, \* MCP clients
    FileOf,  \* of a client: two may have theirs in one file, under other keys
    Order,   \* the order of the table of clients
    Others,  \* entries of the user, each under some key
    MaxRuns  \* bound: runs of the installer

ConfigFiles == {FileOf[c] : c \in Clients}

InstallerAssumption ==
    /\ Order \in Seq(Clients) /\ \A c \in Clients : \E i \in 1 .. Len(Order) : Order[i] = c
    /\ MaxRuns \in Nat

VARIABLES
    plugin,  \* what is in the plugin directory: "loader", "package", "old"
    config,  \* of a file: its state, entries of the user, and clients that have ours
             \* under its name or under the old one
    temps,   \* files that have a temporary file beside them
    pc,      \* what the installer does next
    run,     \* whether it uninstalls, for which clients, and how far it is
    seen,    \* the configuration it has read
    runs,    \* runs so far
    raced,   \* history: the client wrote the file at hand after it was read
    kept     \* history: entries that the user has

vars == <<plugin, config, temps, pc, run, seen, runs, raced, kept>>

NoConfig == [state |-> "absent", others |-> {}, ours |-> {}, old |-> {}]
NoRun == [uninstall |-> FALSE, chosen |-> {}, i |-> 0]

Client == Order[run.i]
File == FileOf[Client]

-----------------------------------------------------------------------------
(* run_install_command: the plugin first.  _install_link_or_copy removes   *)
(* what is there before it puts the new one.                               *)
Begin(uninstall, chosen) ==
    /\ pc = "idle" /\ runs < MaxRuns
    /\ runs' = runs + 1
    /\ run' = [uninstall |-> uninstall, chosen |-> chosen, i |-> 1]
    /\ pc' = IF uninstall THEN "no_loader" ELSE "no_old"
    /\ UNCHANGED <<plugin, config, temps, seen, raced, kept>>

PluginStep(from, what, there, to) ==
    /\ pc = from
    /\ plugin' = IF there THEN plugin \cup {what} ELSE plugin \ {what}
    /\ pc' = to
    /\ UNCHANGED <<config, temps, run, seen, runs, raced, kept>>

InstallPlugin ==
    /\ ~run.uninstall
    /\ \/ PluginStep("no_old", "old", FALSE, "unlink_loader")
       \/ PluginStep("unlink_loader", "loader", FALSE, "link_loader")
       \/ PluginStep("link_loader", "loader", TRUE, "unlink_package")
       \/ PluginStep("unlink_package", "package", FALSE, "link_package")
       \/ PluginStep("link_package", "package", TRUE, "client")

(* What is linked to this package already is left alone.                   *)
AlreadyLinked ==
    /\ \/ pc = "unlink_loader" /\ "loader" \in plugin /\ pc' = "unlink_package"
       \/ pc = "unlink_package" /\ "package" \in plugin /\ pc' = "client"
    /\ UNCHANGED <<plugin, config, temps, run, seen, runs, raced, kept>>

UninstallPlugin ==
    /\ run.uninstall
    /\ \/ PluginStep("no_loader", "loader", FALSE, "no_package")
       \/ PluginStep("no_package", "package", FALSE, "no_old")
       \/ PluginStep("no_old", "old", FALSE, "client")

-----------------------------------------------------------------------------
(* install_mcp_servers, client by client.                                  *)
NextClient == pc' = "client" /\ run' = [run EXCEPT !.i = @ + 1]

(* A file that cannot be parsed, or whose directory is not there, is       *)
(* passed over; one that is no UTF-8 ends the run.                         *)
ReadConfig ==
    /\ pc = "client" /\ run.i <= Len(Order) /\ Client \in run.chosen
    /\ CASE config[File].state \in {"invalid", "no_directory"} -> NextClient /\ UNCHANGED seen
         [] config[File].state = "undecodable" -> pc' = "idle" /\ run' = NoRun /\ UNCHANGED seen
         [] OTHER -> seen' = config[File] /\ pc' = "edit" /\ UNCHANGED run
    /\ UNCHANGED <<plugin, config, temps, runs, raced, kept>>

PassClient ==
    /\ pc = "client" /\ run.i <= Len(Order) /\ Client \notin run.chosen
    /\ NextClient
    /\ UNCHANGED <<plugin, config, temps, seen, runs, raced, kept>>

Edited(c, uninstall) ==
    [state |-> "ok", others |-> seen.others,
     ours |-> IF uninstall THEN seen.ours \ {c} ELSE seen.ours \cup {c},
     old |-> seen.old \ {c}]

(* _write_config_file: the temporary file, then os.replace.  What the      *)
(* client wrote meanwhile is lost.                                         *)
WriteTemp ==
    /\ pc = "edit"
    /\ IF run.uninstall /\ Client \notin seen.ours \cup seen.old
       THEN NextClient /\ raced' = FALSE /\ UNCHANGED <<temps, seen>>
       ELSE /\ temps' = temps \cup {File}
            /\ seen' = Edited(Client, run.uninstall)
            /\ pc' = "replace" /\ UNCHANGED <<run, raced>>
    /\ UNCHANGED <<plugin, config, runs, kept>>

Replace ==
    /\ pc = "replace"
    /\ config' = [config EXCEPT ![File] = seen]
    /\ temps' = temps \ {File}
    /\ kept' = IF raced THEN [kept EXCEPT ![File] = seen.others] ELSE kept
    /\ raced' = FALSE
    /\ NextClient
    /\ UNCHANGED <<plugin, seen, runs>>

(* Writing fails: the temporary file is removed, and the run ends.         *)
WriteFails ==
    /\ pc = "replace"
    /\ temps' = temps \ {File}
    /\ pc' = "idle" /\ run' = NoRun /\ raced' = FALSE
    /\ UNCHANGED <<plugin, config, seen, runs, kept>>

Finish ==
    /\ pc = "client" /\ run.i > Len(Order)
    /\ pc' = "idle" /\ run' = NoRun
    /\ UNCHANGED <<plugin, config, temps, seen, runs, raced, kept>>

Killed ==
    /\ pc # "idle"
    /\ pc' = "idle" /\ run' = NoRun /\ raced' = FALSE
    /\ UNCHANGED <<plugin, config, temps, seen, runs, kept>>

-----------------------------------------------------------------------------
(* The client, at the user's wish, adds or removes an entry.               *)
UserEdits(f, o) ==
    LET now == IF o \in config[f].others THEN config[f].others \ {o} ELSE config[f].others \cup {o} IN
    /\ config[f].state \in {"absent", "ok"}
    /\ config' = [config EXCEPT ![f].state = "ok", ![f].others = now]
    /\ kept' = [kept EXCEPT ![f] = now]
    /\ raced' = (raced \/ (pc \in {"edit", "replace"} /\ f = File))
    /\ UNCHANGED <<plugin, temps, pc, run, seen, runs>>

Init ==
    /\ plugin \in {{}, {"old"}}
    /\ config \in [ConfigFiles -> {[NoConfig EXCEPT !.state = st] :
                                st \in {"absent", "no_directory", "invalid", "undecodable"}}
                            \cup {[NoConfig EXCEPT !.state = "ok", !.others = o, !.old = c] :
                                     o \in {{}, Others}, c \in {{}, Clients}}]
    /\ \A f \in ConfigFiles : config[f].old \subseteq {c \in Clients : FileOf[c] = f}
    /\ temps = {} /\ pc = "idle" /\ run = NoRun /\ seen = NoConfig
    /\ runs = 0 /\ raced = FALSE
    /\ kept = [f \in ConfigFiles |-> config[f].others]

Next ==
    \/ \E u \in BOOLEAN, chosen \in SUBSET Clients : Begin(u, chosen)
    \/ InstallPlugin \/ AlreadyLinked \/ UninstallPlugin
    \/ ReadConfig \/ PassClient \/ WriteTemp \/ Replace \/ WriteFails \/ Finish \/ Killed
    \/ \E f \in ConfigFiles, o \in Others : UserEdits(f, o)

Spec == Init /\ [][Next]_vars

-----------------------------------------------------------------------------
(* No entry of the user is lost, and none that was removed comes back, but *)
(* for what a client wrote between the read and the replacement.           *)
EntriesOfOthersStay == \A f \in ConfigFiles : config[f].others = kept[f]

(* A run that comes to its end has done its work: the plugin is complete   *)
(* or gone, and the chosen clients have our entry or have not, once, and   *)
(* not under its old name, in every file that could be read.               *)
WorkIsDone ==
    pc = "client" /\ run.i > Len(Order) =>
        /\ plugin = IF run.uninstall THEN {} ELSE {"loader", "package"}
        /\ \A c \in run.chosen : LET f == config[FileOf[c]] IN
              f.state \notin {"invalid", "no_directory"} => c \notin f.old /\ (c \in f.ours <=> ~run.uninstall)

InstallerKeepsFiles == EntriesOfOthersStay /\ WorkIsDone
=============================================================================
