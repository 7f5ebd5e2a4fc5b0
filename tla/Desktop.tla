------------------------------ MODULE Desktop ------------------------------
(***************************************************************************)
(* What the desktop center does by itself, in three parts that share no    *)
(* state: the plugin directory (PluginInstall), the configuration file of  *)
(* an MCP client (AgentConfig) and the pages of its window (Pages).  A     *)
(* behaviour is one of the part it looks at, the others staying as they    *)
(* are.                                                                    *)
(***************************************************************************)
EXTENDS Naturals, Sequences, FiniteSets

CONSTANTS
    Dirs, DefaultDir, NoDir, Legacy, Contents, NoContent, OldFiles, NewFiles, MaxStamp,
    Agents, Entries, OddEntries, ours, MaxSecond,
    Windows, Operations, LoggedOnly, Processes, NoEntry,
    RecentLogs, RecentRows, PrintedLogs, ListedLogs

VARIABLES
    part,       \* of "plugin", "agent" and "pages"
    picked, dirs, loader, hasPackage, package, legacy, backups, placed, pluginStep, job, todo,
    agent, hasBridge, config, copies, second, step, text, began,
    pageTargets, stage, ok, logs, procs, page, filter, selected, message, dirty, ui, print, last,
    draft, shown

Plugin == INSTANCE PluginInstall WITH pc <- pluginStep
Agent == INSTANCE AgentConfig WITH backups <- copies, pc <- step
Window == INSTANCE Pages WITH targets <- pageTargets

ASSUME DesktopAssumption ==
    Plugin!InstallAssumption /\ Agent!ConfigAssumption /\ Window!PageAssumption

pluginVars == <<picked, dirs, loader, hasPackage, package, legacy, backups, placed, pluginStep, job,
                todo>>
agentVars == <<agent, hasBridge, config, copies, second, step, text, began>>
pageVars == <<pageTargets, stage, ok, logs, procs, page, filter, selected, message, dirty, ui, print,
                last, draft, shown>>
desktopVars == <<part, pluginVars, agentVars, pageVars>>

(* A part that is not looked at is in one of its initial states.           *)
DesktopInit ==
    /\ part \in {"plugin", "agent", "pages"}
    /\ Plugin!Init /\ Agent!Init /\ Window!Init
    /\ part # "plugin" => dirs = {}
    /\ part # "agent" => agent = "codex" /\ ~hasBridge /\ ~config.exists

PluginStep == part = "plugin" /\ Plugin!Next /\ UNCHANGED <<part, agentVars, pageVars>>
AgentStep == part = "agent" /\ Agent!Next /\ UNCHANGED <<part, pluginVars, pageVars>>
WindowStep == part = "pages" /\ Window!Next /\ UNCHANGED <<part, pluginVars, agentVars>>

DesktopNext == PluginStep \/ AgentStep \/ WindowStep

(* That of Pages: the UI thread goes on, and its timer fires.              *)
DesktopFairness ==
    /\ WF_desktopVars(part = "pages" /\ Window!UiThread /\ UNCHANGED <<part, pluginVars, agentVars>>)
    /\ SF_desktopVars(part = "pages" /\ Window!Tick /\ UNCHANGED <<part, pluginVars, agentVars>>)

DesktopSpec == DesktopInit /\ [][DesktopNext]_desktopVars /\ DesktopFairness

-----------------------------------------------------------------------------
(* The variables of all parts hold values of their types.                  *)
DesktopTypeOK == Plugin!TypeOK /\ Agent!TypeOK /\ Window!TypeOK

(* No plugin of the user is lost by archiving it (PluginInstall).          *)
UserPluginsSurvive == Plugin!UserPluginsSurvive

(* Jobs that reach their end have done their work (PluginInstall).         *)
FinishedJobsAreComplete == Plugin!FinishedJobsAreComplete

(* The loader is written last and removed first (PluginInstall).           *)
LoaderComesLast == Plugin!LoaderComesLast

(* No configuration is lost by adding the center to it (AgentConfig).      *)
ConfigSurvives == Agent!ConfigSurvives

(* Pages come to show what the stores have (Pages).                        *)
PagesCatchUp == part = "pages" => Window!PagesCatchUp
=============================================================================
