--------------------------- MODULE UpstreamProofs ---------------------------
(***************************************************************************)
(* Theorems about the archived upstream server, from the lemmas about its  *)
(* parts: a step of one part leaves the invariants of the others alone.    *)
(***************************************************************************)
EXTENDS Upstream, UpstreamServerProofs, UpstreamWorkersProofs, UpstreamToolsProofs,
        UpstreamBytesProofs, TLAPS

UpstreamInv ==
    /\ part = "settings" => SettingsInv
    /\ part = "installer" => InstallerInv
    /\ part = "registry" => RegistryInv
    /\ part = "tools" => CallingInv
    /\ part = "streams" => StreamsInv
    /\ part = "dispatch" => DispatchInv
    /\ part = "databases" => SessionsInv
    /\ part = "supervisor" => SupervisorInv
    /\ part = "router" => RoutingInv
    /\ part = "edits" => EditsInv
    /\ part = "graph" => GraphInv
    /\ part = "paging" => PagingInv
    /\ part = "patching" => PatchInv
    /\ part = "signatures" => SignInv

LEMMA UpstreamInit == ASSUME Init PROVE UpstreamInv
BY SettingsInit, InstallerInit, RegistryInit, CallingInit, StreamsInit, DispatchInit, SessionsInit,
   SupervisorInit, RoutingInit, EditsInit, GraphInit, PagingInit,
   PatchInit, SignInit
   DEF Init, UpstreamInv

LEMMA UpstreamNext == ASSUME UpstreamInv, [Next]_vars PROVE UpstreamInv'
<1> USE DEF UpstreamInv
<1>1. CASE UNCHANGED vars
  <2>1. /\ part' = part /\ UNCHANGED settingsVars /\ UNCHANGED installerVars /\ UNCHANGED registryVars
        /\ UNCHANGED toolsVars /\ UNCHANGED streamsVars /\ UNCHANGED dispatchVars
        /\ UNCHANGED databasesVars /\ UNCHANGED supervisorVars /\ UNCHANGED routerVars
        /\ UNCHANGED editsVars /\ UNCHANGED graphVars /\ UNCHANGED pagingVars
        /\ UNCHANGED patchingVars /\ UNCHANGED signaturesVars
    BY <1>1 DEF vars
  <2> QED BY <2>1, SettingsStay, InstallerStays, RegistryStays, CallingStays, StreamsStay, DispatchStays,
            SessionsStay, SupervisorStays, RoutingStays, EditsStay, GraphStays, PagingStay, PatchStays,
            SignStays
<1>2. CASE SettingsStep
  BY <1>2, SettingsNext DEF SettingsStep
<1>3. CASE InstallerStep
  BY <1>3, InstallerNext DEF InstallerStep
<1>4. CASE RegistryStep
  BY <1>4, RegistryNext DEF RegistryStep
<1>5. CASE ToolsStep
  BY <1>5, CallingNext DEF ToolsStep
<1>6. CASE StreamsStep
  BY <1>6, StreamsNext DEF StreamsStep
<1>7. CASE DispatchStep
  BY <1>7, DispatchNext DEF DispatchStep
<1>8. CASE DatabasesStep
  BY <1>8, SessionsNext DEF DatabasesStep
<1>9. CASE SupervisorStep
  BY <1>9, SupervisorNext DEF SupervisorStep
<1>10. CASE RouterStep
  BY <1>10, RoutingNext DEF RouterStep
<1>11. CASE EditsStep
  BY <1>11, EditsNext DEF EditsStep
<1>12. CASE GraphStep
  BY <1>12, GraphNext DEF GraphStep
<1>13. CASE PagingStep
  BY <1>13, PagingNext DEF PagingStep
<1>14. CASE PatchingStep
  BY <1>14, PatchNext DEF PatchingStep
<1>15. CASE SignaturesStep
  BY <1>15, SignNext DEF SignaturesStep
<1> QED BY <1>1, <1>2, <1>3, <1>4, <1>5, <1>6, <1>7, <1>8, <1>9, <1>10, <1>11, <1>12, <1>13, <1>14,
        <1>15 DEF Next

-----------------------------------------------------------------------------
(* Every part keeps its invariant, whatever the sizes of its sets.         *)
THEOREM UpstreamInvariant == Spec => []UpstreamInv
<1>1. Init => UpstreamInv
  BY UpstreamInit
<1>2. UpstreamInv /\ [Next]_vars => UpstreamInv'
  BY UpstreamNext
<1> QED BY <1>1, <1>2, PTL DEF Spec

(* Tools stay turned off as the user has turned them off and outputs are   *)
(* kept (settings of the server), and the installer changes nothing of a   *)
(* user in the file of a client and finishes what it was asked to do.      *)
THEOREM UserDataIsKept == Spec => []UserDataSurvives
<1>1. UpstreamInv => UserDataSurvives
  BY SettingsSafe, InstallerSafe DEF UpstreamInv, UserDataSurvives
<1> QED BY <1>1, UpstreamInvariant, PTL

(* A tool call leaves the mode of IDA, the calls under way and the trace   *)
(* as they should be, a stream that is open has a server that runs, and    *)
(* each line that asks for one has its answer, in order.                   *)
THEOREM CallsAreSafe == Spec => []CallsLeaveNoTrouble
<1>1. UpstreamInv => CallsLeaveNoTrouble
  BY CallingSafe, StreamsSafe, DispatchSafe DEF UpstreamInv, CallsLeaveNoTrouble
<1> QED BY <1>1, UpstreamInvariant, PTL

(* The supervisor loses no worker process and has one binary open in one   *)
(* worker only, although requests overlap, workers die and windows come    *)
(* and go, and it keeps the limit of workers when requests come one by     *)
(* one; a worker keeps the databases it has analysed, and a tool runs with *)
(* the database of its session open.                                       *)
THEOREM WorkersKept == Spec => []WorkersAreKept
<1>1. UpstreamInv => WorkersAreKept
  BY SupervisorSafe, SessionsSafe DEF UpstreamInv, WorkersAreKept
<1> QED BY <1>1, UpstreamInvariant, PTL

(* The registry has no two windows under one alias, none under the port of *)
(* another, and the file of a server that serves is there unless a scan    *)
(* of discover_instances that was late removed it.  A session that used    *)
(* its selection within a day, and was not overtaken by as many others as  *)
(* there is room for, still has the window it selected last.               *)
THEOREM WindowsFound == Spec => []WindowsAreFound
<1>1. UpstreamInv => WindowsAreFound
  BY RegistrySafe, RoutingSafe DEF UpstreamInv, WindowsAreFound
<1> QED BY <1>1, UpstreamInvariant, PTL

(* The answers of the tools are true of the database: pages put together   *)
(* are the list, a batch of edits and the writes at addresses did what     *)
(* they say and nothing else, a call graph is that of the program, and a   *)
(* signature is that of its place and no shorter one would have done.      *)
THEOREM AnswersTrue == Spec => []AnswersAreTrue
<1>1. UpstreamInv => AnswersAreTrue
  BY EditsSafe, GraphSafe, PagingSafe, PatchSafe, SignSafe DEF UpstreamInv, AnswersAreTrue
<1> QED BY <1>1, UpstreamInvariant, PTL

(* A window that reports is dropped from the table of the registry only if *)
(* it has taken itself back.                                               *)
THEOREM RegistrationsStay == Spec => OthersKeepTheirs
<1>1. ASSUME UpstreamInv, [Next]_vars
      PROVE  [\A p \in Listing!Registered : LET s == targets[p] IN
                 beat[s] \in {"waiting", "posting"} /\ targets'[p] = Nobody =>
                    \E t \in Servers : WindowOf[t] = WindowOf[s] /\ <<"unregister", t>> \in posts
             ]_(Listing!vars)
  <2>1. CASE RegistryStep
    <3>1. RegistryTypeOK /\ Listing!Next
      BY <1>1, <2>1 DEF UpstreamInv, RegistryInv, RegistryStep
    <3> QED BY <3>1, TargetsStay DEF Listing!Registered
  <2>2. CASE UNCHANGED vars
    BY <2>2 DEF vars, registryVars, Listing!vars, Listing!windowVars, Listing!tableVars
  <2>3. CASE Next /\ ~RegistryStep
    <3>1. UNCHANGED registryVars
      BY <2>3 DEF Next, SupervisorStep, DatabasesStep, RouterStep, ToolsStep, StreamsStep,
         SettingsStep, InstallerStep, PagingStep, EditsStep, PatchingStep, GraphStep,
         DispatchStep, SignaturesStep
    <3> QED BY <3>1 DEF registryVars, Listing!vars, Listing!windowVars, Listing!tableVars
  <2> QED BY <1>1, <2>1, <2>2, <2>3
<1> QED BY <1>1, UpstreamInvariant, PTL DEF Spec, OthersKeepTheirs, Listing!OthersKeepTheirs
=============================================================================
