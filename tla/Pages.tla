------------------------------- MODULE Pages -------------------------------
(***************************************************************************)
(* The window of the desktop center (MainWindow), which shows the stores   *)
(* of the center while its servers change them from other threads.         *)
(*                                                                         *)
(* Every second the UI thread takes a fingerprint of what the selected     *)
(* page depends on and, when it is not the one of the last time, builds    *)
(* the page from the stores, reading them one after the other.  Completed  *)
(* actions of the user build the page without taking a fingerprint.  A     *)
(* page is the record of what it shows of the stores; texts, colours and   *)
(* layout are left out.                                                    *)
(***************************************************************************)
EXTENDS Naturals, Sequences, FiniteSets

CONSTANTS
    Windows,     \* IDA windows; the three that the overview has room for
    Operations,  \* tool calls
    LoggedOnly,  \* those that the center answers itself, without a window
    Processes,   \* launched IDA processes
    NoEntry,
    RecentLogs,  \* 8: log entries that the overview reads
    RecentRows,  \* 5: those it shows
    PrintedLogs, \* 200: entries in the fingerprint of the log page
    ListedLogs   \* 500: entries on the log page

(* What the constants have to be; Desktop assumes it.                      *)
PageAssumption ==
    /\ LoggedOnly \subseteq Operations
    /\ NoEntry \notin Operations
    /\ Cardinality(Windows) <= 3
    /\ {RecentLogs, RecentRows, PrintedLogs, ListedLogs} \subseteq Nat \ {0}

VARIABLES
    targets,   \* TargetRegistry: whether a window is there, yet or still
    stage,     \* of an operation
    ok,        \* its outcome
    logs,      \* OperationLogStore, newest first
    procs,     \* IdaProcessRegistry
    page,      \* _selectedPage
    filter,    \* _logFilter
    selected,  \* _selectedLogEntryId
    message,   \* _settingsMessage: the user has been told something
    dirty,     \* _settingsDirty
    ui,        \* what the UI thread is doing
    print,     \* the fingerprint it is taking
    last,      \* _lastPageFingerprint
    draft,     \* the page it is building
    shown      \* _pageHost.Content

storeVars == <<targets, stage, ok, logs, procs>>
settingVars == <<message, dirty>>
logPageVars == <<filter, selected>>
uiVars == <<page, logPageVars, settingVars, ui, print, last, draft, shown>>
vars == <<storeVars, uiVars>>

PageNames == {"overview", "targets", "activity", "processes", "installations", "logs", "settings"}
Nothing == [page |-> "none"]

Newest(n) == SubSeq(logs, 1, IF n < Len(logs) THEN n ELSE Len(logs))
Elements(s) == {s[i] : i \in DOMAIN s}
Active == {o \in Operations \ LoggedOnly : stage[o] \in {"active", "logged"}}
(* The center registers every window as healthy and never says otherwise,  *)
(* so the counts and filters by health have nothing to tell apart.         *)
Registered == {w \in Windows : targets[w] = "here"}

-----------------------------------------------------------------------------
(* Fingerprints.                                                           *)

TargetsFingerprint == Registered

LogsFingerprint(n) == Newest(n)

(* What PageFingerprint reads first ...                                    *)
FirstPrint ==
    CASE page \in {"overview", "targets"} -> <<page, TargetsFingerprint, Active>>
      [] page = "activity" -> <<page, Active>>
      [] page = "processes" -> <<page, procs>>
      [] page = "installations" -> <<page>>
      [] page = "logs" -> <<page, filter>>
      [] page = "settings" -> <<page, message, dirty>>

(* ... and last.                                                           *)
PageFingerprint(first) ==
    CASE page = "overview" -> Append(first, LogsFingerprint(RecentLogs))
      [] page = "logs" -> Append(first, LogsFingerprint(PrintedLogs))
      [] OTHER -> first

-----------------------------------------------------------------------------
(* Pages.                                                                  *)

ServiceSummary == [queue |-> Cardinality(Active)]
MetricGrid == [windows |-> Cardinality(Registered), calls |-> Cardinality(Active)]
ConnectedSummary == Registered

(* BuildOverviewPage reads targets and operations first.                   *)
OverviewStores ==
    [page |-> "overview", service |-> ServiceSummary, metrics |-> MetricGrid,
     connected |-> ConnectedSummary, recent |-> <<>>, errors |-> 0]

LogRow(o) == [entry |-> o, ok |-> ok[o]]
RecentActivity == [i \in 1..(IF RecentRows < Len(Newest(RecentLogs)) THEN RecentRows
                             ELSE Len(Newest(RecentLogs))) |-> LogRow(logs[i])]
OverviewWarning == Cardinality({o \in Elements(Newest(RecentLogs)) : ~ok[o]})

OverviewPage == [draft EXCEPT !.recent = RecentActivity, !.errors = OverviewWarning]

TargetsTable == Registered
TargetsMetrics == [connected |-> Cardinality(Registered), busy |-> Active # {}]
TargetsPage == [page |-> "targets", metrics |-> TargetsMetrics, table |-> TargetsTable]

ActiveOperationsTable == Active
ActivityPage == [page |-> "activity", rows |-> ActiveOperationsTable]
ProcessesPage == [page |-> "processes", rows |-> procs]
InstallationsPage == [page |-> "installations"]

MatchesLogFilter(o) == filter = "error" => ~ok[o]
VisibleLogs == SelectSeq(Newest(ListedLogs), MatchesLogFilter)

(* The entry whose details are shown: the newest while the list is at its  *)
(* top (_logTailEnabled), else the one that was clicked, if it is listed.  *)
SelectVisibleLog(atTop) ==
    IF VisibleLogs = <<>> THEN NoEntry
    ELSE IF ~atTop /\ selected \in Elements(VisibleLogs) THEN selected
    ELSE VisibleLogs[1]

LogSummary == [entries |-> Len(Newest(ListedLogs)),
               errors |-> Cardinality({o \in Elements(Newest(ListedLogs)) : ~ok[o]})]
LogDetailPanel(o) == IF o = NoEntry THEN LogSummary ELSE LogRow(o)
LogStreamCard == [i \in DOMAIN VisibleLogs |-> LogRow(VisibleLogs[i])]
LogsPage(o) == [page |-> "logs", rows |-> LogStreamCard, detail |-> LogDetailPanel(o)]

(* What PluginInstallService and AgentConfigService find is in modules of  *)
(* their own.                                                              *)
SettingsPage == [page |-> "settings", lastAction |-> message]

FirstStores ==
    CASE page = "overview" -> OverviewStores
      [] page = "targets" -> TargetsPage
      [] page = "activity" -> ActivityPage
      [] page = "processes" -> ProcessesPage
      [] page = "installations" -> InstallationsPage
      [] page = "settings" -> SettingsPage
      [] OTHER -> Nothing

Init ==
    /\ targets = [w \in Windows |-> "new"]
    /\ stage = [o \in Operations |-> "new"]
    /\ ok = [o \in Operations |-> TRUE]
    /\ logs = <<>> /\ procs = {}
    /\ page = "overview"
    /\ filter = "all" /\ selected = NoEntry
    /\ message = FALSE /\ dirty = TRUE
    /\ ui = "print" /\ print = <<>> /\ last = <<>>
    /\ draft = Nothing /\ shown = Nothing

-----------------------------------------------------------------------------
(* The servers, on threads of their own.                                   *)

(* An instance id is that of one window, which comes and goes.             *)
WindowChanges(w) ==
    /\ targets[w] # "gone"
    /\ targets' = [targets EXCEPT ![w] = IF @ = "new" THEN "here" ELSE "gone"]
    /\ UNCHANGED <<stage, ok, logs, procs, uiVars>>

(* InvokeTargetToolAsync puts the call into ActiveOperationStore ...       *)
BeginOperation(o) ==
    /\ stage[o] = "new" /\ o \notin LoggedOnly
    /\ stage' = [stage EXCEPT ![o] = "active"]
    /\ UNCHANGED <<targets, ok, logs, procs, uiVars>>

(* ... logs its outcome ...                                                *)
LogOperation(o) ==
    /\ stage[o] = IF o \in LoggedOnly THEN "new" ELSE "active"
    /\ stage' = [stage EXCEPT ![o] = "logged"]
    /\ \E outcome \in BOOLEAN : ok' = [ok EXCEPT ![o] = outcome]
    /\ logs' = <<o>> \o logs
    /\ UNCHANGED <<targets, procs, uiVars>>

(* ... and takes it out, in that order.                                    *)
EndOperation(o) ==
    /\ stage[o] = "logged"
    /\ stage' = [stage EXCEPT ![o] = "ended"]
    /\ UNCHANGED <<targets, ok, logs, procs, uiVars>>

LaunchProcess(p) ==
    /\ p \notin procs
    /\ procs' = procs \cup {p}
    /\ UNCHANGED <<targets, stage, ok, logs, uiVars>>

-----------------------------------------------------------------------------
(* The UI thread.                                                          *)

(* The timer.                                                              *)
Tick ==
    /\ ui = "idle"
    /\ ui' = "print"
    /\ UNCHANGED <<storeVars, page, logPageVars, settingVars, print, last, draft, shown>>

(* Another page is laid out, and a refresh is forced.                      *)
SelectPage(p) ==
    /\ ui = "idle" /\ page # p
    /\ page' = p /\ last' = <<>>
    /\ ui' = "print"
    /\ UNCHANGED <<storeVars, logPageVars, settingVars, print, draft, shown>>

(* The refresh button, and a new language.                                 *)
ForceRefresh ==
    /\ ui = "idle"
    /\ dirty' = TRUE /\ last' = <<>>
    /\ ui' = "print"
    /\ UNCHANGED <<storeVars, page, logPageVars, message, print, draft, shown>>

(* Refresh ...                                                             *)
TakePrint ==
    /\ ui = "print"
    /\ print' = FirstPrint
    /\ ui' = "print_logs"
    /\ UNCHANGED <<storeVars, page, logPageVars, settingVars, last, draft, shown>>

(* ... which asks whether anything has changed.                            *)
ComparePrint ==
    /\ ui = "print_logs"
    /\ IF PageFingerprint(print) # last \/ (page = "settings" /\ dirty)
         THEN ui' = "render" /\ print' = PageFingerprint(print)
         ELSE ui' = "idle" /\ print' = <<>>
    /\ UNCHANGED <<storeVars, page, logPageVars, settingVars, last, draft, shown>>

(* RenderSelectedPage.                                                     *)
RenderStores ==
    /\ ui \in {"render", "rerender"}
    /\ draft' = FirstStores
    /\ ui' = IF ui = "render" THEN "render_logs" ELSE "rerender_logs"
    /\ UNCHANGED <<storeVars, page, logPageVars, settingVars, print, last, shown>>

(* Fault: the fingerprint is taken when the page has been built.           *)
LatePrint == last' = PageFingerprint(FirstPrint)

KeepPrint == last' = print

RenderLogs ==
    /\ ui \in {"render_logs", "rerender_logs"}
    /\ \/ page = "overview" /\ shown' = OverviewPage /\ UNCHANGED selected
       \/ /\ page = "logs"
          /\ \E atTop \in BOOLEAN : selected' = SelectVisibleLog(atTop)
          /\ shown' = LogsPage(selected')
       \/ page \notin {"overview", "logs"} /\ shown' = draft /\ UNCHANGED selected
    /\ IF ui = "render_logs"
         THEN KeepPrint /\ dirty' = (dirty /\ page # "settings")
         ELSE UNCHANGED <<last, dirty>>
    /\ ui' = "idle" /\ print' = <<>> /\ draft' = Nothing
    /\ UNCHANGED <<storeVars, page, filter, message>>

Rerender == ui = "idle" /\ ui' = "rerender"

(* CallTargetToolAsync, CallTargetCloseAsync, OpenTargetInIdaAsync,        *)
(* RunSettingsActionAsync, RunAgentConfigureAsync, CopyTextAsync and       *)
(* BrowsePluginDirectoryAsync end; the page may be another one by then.    *)
ActionEnds ==
    /\ Rerender
    /\ message' = TRUE /\ dirty' = TRUE
    /\ UNCHANGED <<targets, stage, ok, logs, procs, page, logPageVars, print, last, draft, shown>>

ChooseFilter(f) ==
    /\ page = "logs" /\ Rerender
    /\ filter' = f
    /\ UNCHANGED <<storeVars, page, selected, settingVars, print, last, draft, shown>>

ClickLogRow(o) ==
    /\ page = "logs" /\ o \in Elements(VisibleLogs) /\ Rerender
    /\ selected' = o
    /\ UNCHANGED <<storeVars, page, filter, settingVars, print, last, draft, shown>>

ClearLogs ==
    /\ page = "logs" /\ Rerender
    /\ logs' = <<>> /\ selected' = NoEntry
    /\ UNCHANGED <<targets, stage, ok, procs, page, filter, settingVars, print, last,
                   draft, shown>>

-----------------------------------------------------------------------------
Servers ==
    \/ \E w \in Windows : WindowChanges(w)
    \/ \E o \in Operations : BeginOperation(o) \/ LogOperation(o) \/ EndOperation(o)
    \/ \E p \in Processes : LaunchProcess(p)

User ==
    \/ \E p \in PageNames : SelectPage(p)
    \/ ForceRefresh \/ ActionEnds
    \/ \E f \in {"all", "error"} : ChooseFilter(f)
    \/ \E o \in Operations : ClickLogRow(o)
    \/ ClearLogs

UiThread == TakePrint \/ ComparePrint \/ RenderStores \/ RenderLogs

Next == Servers \/ User \/ Tick \/ UiThread

(* The UI thread goes on, and the timer fires.                             *)
Fairness == WF_vars(UiThread) /\ SF_vars(Tick)

Spec == Init /\ [][Next]_vars /\ Fairness

-----------------------------------------------------------------------------
Stages == {"new", "active", "logged", "ended"}

(* The variables hold values of their types.                               *)
TypeOK ==
    /\ targets \in [Windows -> {"new", "here", "gone"}]
    /\ stage \in [Operations -> Stages]
    /\ ok \in [Operations -> BOOLEAN]
    /\ logs \in Seq(Operations)
    /\ procs \subseteq Processes
    /\ page \in PageNames
    /\ filter \in {"all", "error"}
    /\ selected \in Operations \cup {NoEntry}
    /\ {message, dirty} \subseteq BOOLEAN
    /\ ui \in {"idle", "print", "print_logs", "render", "render_logs", "rerender", "rerender_logs"}

(* What the page shows of the log and of the processes, and the answer to  *)
(* the user's last action on the settings page, are those of the stores.   *)
ShowsStores ==
    /\ shown.page = page
    /\ page = "overview" => shown.recent = RecentActivity /\ shown.errors = OverviewWarning
    /\ page = "logs" => shown.rows = LogStreamCard
    /\ page = "processes" => shown.rows = procs
    /\ page = "settings" => shown.lastAction = message

Watched == <<page, filter, stage, logs, procs, message>>

(* When the user stays on a page and the stores come to rest, the page     *)
(* comes to show what they have, whatever changed between its fingerprint  *)
(* and its content, and whichever actions built it in between.             *)
PagesCatchUp == <>[][FALSE]_Watched => <>[]ShowsStores
=============================================================================
