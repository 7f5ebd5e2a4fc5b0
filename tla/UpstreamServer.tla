--------------------------- MODULE UpstreamServer --------------------------
(***************************************************************************)
(* What happens in one window of the archived upstream server: tool calls  *)
(* (ToolServer), event streams (Streams), the requests of JSON-RPC         *)
(* (Dispatch) and what a window keeps (Settings); and the installer        *)
(* (Installer).                                                            *)
(***************************************************************************)
EXTENDS Naturals, FiniteSets

CONSTANTS
    ToolCalls, RpcIds, BatchRecords, NoRequest,
    StreamIds, MaxServes,
    Tools, Versions, Protected, Forms, LargeCalls, MaxOutputs, MaxRestarts,
    Clients, FileOf, Order, Others, MaxRuns,
    Signature, Inputs, NullId

VARIABLES
    toolStage, tool, id, event, asked, shared, pending, main, batch, before, own, hook, rearmed,
    buffer, taken, flusher, stored, recorded, closed, hung,
    running, current, listening, httpServers, halting, connected, thread, alive, left, post, broken,
    late,
    version, methods, saved, form, restarts, off, mixed, outputs, outputCall, newer,
    plugin, config, temps, pc, run, seen, runs, raced, kept,
    lines, lineTaken, called, owed, input, arguments, requestId, output, doing

Calling == INSTANCE ToolServer
             WITH Requests <- ToolCalls, Ids <- RpcIds, Nobody <- NoRequest, stage <- toolStage
Streaming == INSTANCE Streams WITH served <- httpServers
Keeping == INSTANCE Settings WITH Calls <- LargeCalls, call <- outputCall
Installing == INSTANCE Installer
Handling == INSTANCE Dispatch WITH Null <- NullId, taken <- lineTaken, current <- requestId

ASSUME ServerAssumption ==
    /\ Calling!ToolAssumption /\ Streaming!StreamAssumption
    /\ Keeping!SettingsAssumption /\ Installing!InstallerAssumption
    /\ Handling!DispatchAssumption

toolsVars == <<toolStage, tool, id, event, asked, shared, pending, main, batch, before, own,
      hook, rearmed, buffer, taken, flusher, stored, recorded, closed, hung>>
streamsVars == <<running, current, listening, httpServers, halting, connected, thread, alive,
      left, post, broken, late>>
settingsVars == <<version, methods, saved, form, restarts, off, mixed, outputs, outputCall,
      newer>>
installerVars == <<plugin, config, temps, pc, run, seen, runs, raced, kept>>
dispatchVars == <<lines, lineTaken, called, owed, input, arguments, requestId, output, doing>>
=============================================================================
