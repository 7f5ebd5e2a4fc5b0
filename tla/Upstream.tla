------------------------------ MODULE Upstream -----------------------------
(***************************************************************************)
(* The server that this repository was made from, archived under           *)
(* docs/reference/upstream-ida-pro-mcp, in fourteen parts: workers and     *)
(* windows (UpstreamWorkers), what happens in one window (UpstreamServer)  *)
(* and what the tools of a window answer (UpstreamTools).  A behaviour is  *)
(* one of the part it looks at, the others staying as they are.            *)
(***************************************************************************)
EXTENDS UpstreamWorkers, UpstreamServer, UpstreamTools

VARIABLE part    \* the part that is looked at

vars ==
    <<part, supervisorVars, databasesVars, registryVars, routerVars, toolsVars, streamsVars,
      settingsVars, installerVars, pagingVars, editsVars, patchingVars, graphVars,
      dispatchVars, signaturesVars>>

(* A part that is not looked at is in one initial state.                   *)
Init ==
    /\ part \in {"supervisor", "databases", "registry", "router", "tools",
                "streams", "settings", "installer", "paging", "edits", "patching", "graph",
                "dispatch", "signatures"}
    /\ part # "supervisor" => served = "one"
    /\ part # "router" => kind = "registry"
    /\ part # "tools" => own = FALSE
    /\ part # "settings" => version = CHOOSE v \in Versions : TRUE
    /\ part # "installer" => plugin = {} /\ config = [f \in Installing!ConfigFiles |-> Installing!NoConfig]
    /\ part # "paging" => listTool = "disasm" /\ rows = <<>> /\ limit = MaxLimit
    /\ part # "edits" =>
         /\ names = [e \in Editing!Addrs |-> Editing!NoName]
         /\ locals = [f \in Funcs |-> {CHOOSE n \in Identifiers : TRUE}]
         /\ req = CHOOSE r \in EditBatches : TRUE
    /\ part # "patching" =>
         /\ mem = CHOOSE m \in Starts : TRUE
         /\ plan = CHOOSE p \in Plans : TRUE
    /\ part # "graph" =>
         /\ program = CHOOSE p \in Programs : TRUE
         /\ bounds = CHOOSE b \in Bounds : TRUE
         /\ root = Main
    /\ part # "dispatch" => lines = CHOOSE l \in Inputs : TRUE
    /\ part # "signatures" =>
         /\ image = CHOOSE i \in Images : TRUE
         /\ tiling = CHOOSE t \in Tilings : TRUE
         /\ ask = CHOOSE q \in Asks : TRUE
    /\ Supervising!Init /\ Serving!Init
    /\ Listing!Init /\ Routing!Init
    /\ Calling!Init /\ Streaming!Init
    /\ Keeping!Init /\ Installing!Init
    /\ Editing!Init /\ Reading!Init
    /\ Writing!Init /\ Walking!Init /\ Handling!Init
    /\ Signing!Init

SupervisorStep ==
    /\ part = "supervisor" /\ Supervising!Next
    /\ UNCHANGED <<part, databasesVars, registryVars, routerVars, toolsVars,
                   streamsVars, settingsVars, installerVars, pagingVars, editsVars,
                   patchingVars, graphVars, dispatchVars, signaturesVars>>
DatabasesStep ==
    /\ part = "databases" /\ Serving!Next
    /\ UNCHANGED <<part, supervisorVars, registryVars, routerVars, toolsVars,
                   streamsVars, settingsVars, installerVars, pagingVars, editsVars,
                   patchingVars, graphVars, dispatchVars, signaturesVars>>
RegistryStep ==
    /\ part = "registry" /\ Listing!Next
    /\ UNCHANGED <<part, supervisorVars, databasesVars, routerVars, toolsVars,
                   streamsVars, settingsVars, installerVars, pagingVars, editsVars,
                   patchingVars, graphVars, dispatchVars, signaturesVars>>
RouterStep ==
    /\ part = "router" /\ Routing!Next
    /\ UNCHANGED <<part, supervisorVars, databasesVars, registryVars, toolsVars,
                   streamsVars, settingsVars, installerVars, pagingVars, editsVars,
                   patchingVars, graphVars, dispatchVars, signaturesVars>>
ToolsStep ==
    /\ part = "tools" /\ Calling!Next
    /\ UNCHANGED <<part, supervisorVars, databasesVars, registryVars, routerVars,
                   streamsVars, settingsVars, installerVars, pagingVars, editsVars,
                   patchingVars, graphVars, dispatchVars, signaturesVars>>
StreamsStep ==
    /\ part = "streams" /\ Streaming!Next
    /\ UNCHANGED <<part, supervisorVars, databasesVars, registryVars, routerVars,
                   toolsVars, settingsVars, installerVars, pagingVars, editsVars,
                   patchingVars, graphVars, dispatchVars, signaturesVars>>
SettingsStep ==
    /\ part = "settings" /\ Keeping!Next
    /\ UNCHANGED <<part, supervisorVars, databasesVars, registryVars, routerVars,
                   toolsVars, streamsVars, installerVars, pagingVars, editsVars,
                   patchingVars, graphVars, dispatchVars, signaturesVars>>
InstallerStep ==
    /\ part = "installer" /\ Installing!Next
    /\ UNCHANGED <<part, supervisorVars, databasesVars, registryVars, routerVars,
                   toolsVars, streamsVars, settingsVars, pagingVars, editsVars,
                   patchingVars, graphVars, dispatchVars, signaturesVars>>
PagingStep ==
    /\ part = "paging" /\ Reading!Next
    /\ UNCHANGED <<part, supervisorVars, databasesVars, registryVars, routerVars,
                   toolsVars, streamsVars, settingsVars, installerVars, editsVars,
                   patchingVars, graphVars, dispatchVars, signaturesVars>>
EditsStep ==
    /\ part = "edits" /\ Editing!Next
    /\ UNCHANGED <<part, supervisorVars, databasesVars, registryVars, routerVars,
                   toolsVars, streamsVars, settingsVars, installerVars, pagingVars,
                   patchingVars, graphVars, dispatchVars, signaturesVars>>
PatchingStep ==
    /\ part = "patching" /\ Writing!Next
    /\ UNCHANGED <<part, supervisorVars, databasesVars, registryVars, routerVars,
                   toolsVars, streamsVars, settingsVars, installerVars, pagingVars,
                   editsVars, graphVars, dispatchVars, signaturesVars>>
GraphStep ==
    /\ part = "graph" /\ Walking!Next
    /\ UNCHANGED <<part, supervisorVars, databasesVars, registryVars, routerVars,
                   toolsVars, streamsVars, settingsVars, installerVars, pagingVars,
                   editsVars, patchingVars, dispatchVars, signaturesVars>>
DispatchStep ==
    /\ part = "dispatch" /\ Handling!Next
    /\ UNCHANGED <<part, supervisorVars, databasesVars, registryVars, routerVars,
                   toolsVars, streamsVars, settingsVars, installerVars, pagingVars,
                   editsVars, patchingVars, graphVars, signaturesVars>>
SignaturesStep ==
    /\ part = "signatures" /\ Signing!Next
    /\ UNCHANGED <<part, supervisorVars, databasesVars, registryVars, routerVars,
                   toolsVars, streamsVars, settingsVars, installerVars, pagingVars,
                   editsVars, patchingVars, graphVars, dispatchVars>>

Next ==
    \/ SupervisorStep \/ DatabasesStep \/ RegistryStep \/ RouterStep \/ ToolsStep
    \/ StreamsStep \/ SettingsStep \/ InstallerStep \/ PagingStep \/ EditsStep
    \/ PatchingStep \/ GraphStep \/ DispatchStep \/ SignaturesStep

(* That of Registry and of Paging: registration threads report again and   *)
(* again, the registry handles what arrives, and a client reads on.        *)
Fairness ==
    /\ \A s \in Servers :
          /\ WF_registryVars(part = "registry" /\ Listing!Post(s))
          /\ WF_registryVars(part = "registry" /\ Listing!PostEnds(s))
          /\ WF_registryVars(part = "registry" /\ Listing!RegisterTarget(s))
          /\ WF_registryVars(part = "registry" /\ Listing!UnregisterTarget(s))
    /\ \A p \in Ports : WF_registryVars(part = "registry" /\ Listing!Expire(p))
    /\ WF_pagingVars(part = "paging" /\ Reading!Next)

Spec == Init /\ [][Next]_vars /\ Fairness

-----------------------------------------------------------------------------
(* No process that has a database open is lost, and no database that is    *)
(* open: the supervisor accounts for its workers (Supervisor), and the     *)
(* books of a worker for the databases it opened (IdbSessions).            *)
WorkersAreKept ==
    /\ part = "supervisor" => Supervising!WorkersAccountedFor
    /\ part = "databases" => Serving!WorkerKeepsDatabases

(* A window is found under its port and its alias only while it serves     *)
(* there (Registry), and a session keeps the window it selected until it   *)
(* selects another or its selection falls out of the table (Router).       *)
WindowsAreFound ==
    /\ part = "registry" => Listing!RegistryKeepsBooks
    /\ part = "router" => Routing!SelectionsAreKept

(* What a window has registered is taken back by no other (Registry).      *)
OthersKeepTheirs == Listing!OthersKeepTheirs

(* Tool calls leave the mode of IDA, the calls under way and the trace as  *)
(* they should be (ToolServer), an event stream that is open is served by  *)
(* a server that runs (Streams), and a line that asks for an answer has    *)
(* one, and calls its method only with arguments it takes (Dispatch).      *)
CallsLeaveNoTrouble ==
    /\ part = "tools" => Calling!ToolsLeaveNoTrouble
    /\ part = "streams" => Streaming!StreamsAreServed
    /\ part = "dispatch" => Handling!LinesAreAnswered

(* What a user has set stays set (Settings), and what a user has written   *)
(* into the configuration of a client stays there (Installer).             *)
UserDataSurvives ==
    /\ part = "settings" => Keeping!SettingsLast
    /\ part = "installer" => Installing!InstallerKeepsFiles

(* Windows that serve come to be listed and those that went are no more    *)
(* (Registry), and a client that reads on gets to the end of a list        *)
(* (Paging).                                                               *)
ListsSettle ==
    /\ part = "registry" => Listing!WindowsAreListed
    /\ part = "paging" => Reading!PagingEnds

(* The pages of a list are the list (Paging), the answer to a batch says   *)
(* what was done (Edits), and so do the answers to what is written at      *)
(* addresses, where what is read is what was written (Patching); a call    *)
(* graph is that of the program, and all of it if it was not cut           *)
(* (CallGraph); a signature is that of the place it was made for           *)
(* (Signatures).                                                           *)
AnswersAreTrue ==
    /\ part = "paging" => Reading!PagesAddUp
    /\ part = "edits" => Editing!EditsAreTold
    /\ part = "patching" => Writing!PatchesAreTrue
    /\ part = "graph" => Walking!GraphsAreTrue
    /\ part = "signatures" => Signing!SignaturesAreTrue
=============================================================================
