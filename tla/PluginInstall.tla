--------------------------- MODULE PluginInstall ---------------------------
(***************************************************************************)
(* The plugin directory of IDA, as the desktop center                      *)
(* (PluginInstallService) and the scripts install.py and uninstall.py      *)
(* change it: file by file, and any step may be the last, because it       *)
(* throws (IDA holds a file) or the program is killed.  The center works   *)
(* on its UI thread, so there is one job at a time.                        *)
(*                                                                         *)
(* Of a file, its version is kept; of a loader, whether it is ours; of an  *)
(* ida-mcp plugin that was there before, an identity of its content, which *)
(* its owner puts there once.                                              *)
(***************************************************************************)
EXTENDS Naturals, FiniteSets

CONSTANTS
    Dirs,       \* plugin directories
    DefaultDir, \* the one found when none was picked
    NoDir,
    Legacy,     \* ida_mcp.py, ida_mcp and mcp-plugin.py
    Contents,   \* what has been installed under these names
    NoContent,
    OldFiles,   \* files of the package in an earlier version
    NewFiles,   \* and in the one the center brings
    MaxStamp    \* seconds in which a job may begin are 0..MaxStamp

(* What the constants have to be; Desktop assumes it.                      *)
InstallAssumption ==
    /\ DefaultDir \in Dirs /\ NoDir \notin Dirs
    /\ NoContent \notin Contents
    /\ MaxStamp \in Nat
    /\ IsFiniteSet(Contents)

VARIABLES
    picked,     \* AppPreferences.IdaPluginsDirectory
    dirs,       \* the plugin directories that exist
    loader,     \* supper_ida_mcp_plugin.py
    hasPackage, \* the directories that hold a directory supper_ida_plugin
    package,    \* its files
    legacy,     \* plugins in place
    backups,    \* .supper_ida_mcp_legacy_backup
    placed,     \* every content its owner has put in place
    pc,         \* the next step of the job
    job,        \* what it is about
    todo        \* plugins it has still to move

fileVars == <<dirs, loader, hasPackage, package, legacy, backups>>
jobVars == <<pc, job, todo>>
vars == <<picked, fileVars, placed, jobVars>>

Files == OldFiles \cup NewFiles
VersionedFiles == Files \X {"old", "new"}
Places == [dir : Dirs, stamp : 0..MaxStamp, name : Legacy, index : 0..Cardinality(Contents)]
Loaders == {"none", "foreign", "empty", "old", "new"}
Jobs == [kind : {"install", "archive", "uninstall"}, dir : Dirs, stamp : 0..MaxStamp,
         found : SUBSET Contents]
NoJob == [kind |-> "archive", dir |-> DefaultDir, stamp |-> 0, found |-> {}]

(* A directory has our plugin in an earlier version, a loader of the same  *)
(* name that is not ours, or neither.                                      *)
Init ==
    /\ picked = NoDir
    /\ dirs \in SUBSET Dirs
    /\ loader \in [Dirs -> {"none", "foreign", "old"}]
    /\ \A d \in Dirs \ dirs : loader[d] = "none"
    /\ hasPackage = {d \in Dirs : loader[d] = "old"}
    /\ package = [d \in Dirs |-> IF d \in hasPackage THEN OldFiles \X {"old"} ELSE {}]
    /\ legacy = [d \in Dirs |-> [n \in Legacy |-> NoContent]]
    /\ backups = [p \in Places |-> NoContent]
    /\ placed = {}
    /\ pc = "idle" /\ job = NoJob /\ todo = {}

(* The job is over.                                                        *)
Leave == pc' = "idle" /\ job' = NoJob /\ todo' = {}

-----------------------------------------------------------------------------
(* The user.                                                               *)

UserPlaces(d, n, c) ==
    /\ d \in dirs /\ legacy[d][n] = NoContent /\ c \notin placed
    /\ legacy' = [legacy EXCEPT ![d][n] = c]
    /\ placed' = placed \cup {c}
    /\ UNCHANGED <<picked, dirs, loader, hasPackage, package, backups, jobVars>>

(* BrowsePluginDirectoryAsync.  Save truncates the file first: preferences *)
(* that cannot be read are the default ones.                               *)
PickDirectory ==
    /\ pc = "idle"
    /\ picked' \in Dirs \cup {NoDir}
    /\ UNCHANGED <<fileVars, placed, jobVars>>

(* SetLanguage saves preferences that have nothing but the language.       *)
SetLanguage ==
    /\ pc = "idle"
    /\ picked' = NoDir
    /\ UNCHANGED <<fileVars, placed, jobVars>>

ResolvePluginsDirectory == IF picked \in dirs THEN picked ELSE DefaultDir

-----------------------------------------------------------------------------
(* ArchiveLegacyPlugins.                                                   *)

LegacyPluginPaths(d) == {n \in Legacy : legacy[d][n] # NoContent}

BeginArchive(kind, d, keep) ==
    LET names == IF keep THEN {} ELSE LegacyPluginPaths(d) IN
    /\ todo' = names
    /\ \E second \in 0..MaxStamp :
          job' = [kind |-> kind, dir |-> d, stamp |-> second, found |-> {legacy[d][n] : n \in names}]
    /\ pc' = "moving"

Place(n, i) == [dir |-> job.dir, stamp |-> job.stamp, name |-> n, index |-> i]

(* Fault: the name is taken as it is.                                      *)
OwnName(n, i) == i = 0

(* name, name-1, name-2, ...: the first that is free.                      *)
UniqueDestination(n, i) ==
    /\ backups[Place(n, i)] = NoContent
    /\ \A j \in 0..(i - 1) : backups[Place(n, j)] # NoContent

(* A move replaces what is at its destination.                             *)
MoveLegacy(n) ==
    /\ pc = "moving" /\ n \in todo
    /\ \E i \in 0..Cardinality(Contents) :
          /\ UniqueDestination(n, i)
          /\ backups' = [backups EXCEPT ![Place(n, i)] = legacy[job.dir][n]]
    /\ legacy' = [legacy EXCEPT ![job.dir][n] = NoContent]
    /\ todo' = todo \ {n}
    /\ UNCHANGED <<picked, dirs, loader, hasPackage, package, placed, pc, job>>

ArchivingEnds ==
    /\ pc = "moving" /\ todo = {}
    /\ IF job.kind = "install" THEN pc' = "deleting" /\ UNCHANGED <<job, todo>> ELSE Leave
    /\ UNCHANGED <<picked, fileVars, placed>>

(* The button of the settings page.                                        *)
ArchiveLegacyPlugins ==
    /\ pc = "idle"
    /\ BeginArchive("archive", ResolvePluginsDirectory, FALSE)
    /\ UNCHANGED <<picked, fileVars, placed>>

-----------------------------------------------------------------------------
(* InstallOrRepair and main of install.py, which may be given a directory  *)
(* and --keep-legacy.                                                      *)

BeginInstall(d, keep) ==
    /\ pc = "idle"
    /\ dirs' = dirs \cup {d}
    /\ BeginArchive("install", d, keep)
    /\ UNCHANGED <<picked, loader, hasPackage, package, legacy, backups, placed>>

InstallOrRepair == BeginInstall(ResolvePluginsDirectory, FALSE)
InstallScript == \E d \in Dirs, keep \in BOOLEAN : BeginInstall(d, keep)

(* Directory.Delete(path, recursive) removes one file after the other.     *)
DeleteFile(f) ==
    /\ pc = "deleting" /\ f \in package[job.dir]
    /\ package' = [package EXCEPT ![job.dir] = @ \ {f}]
    /\ UNCHANGED <<picked, dirs, loader, hasPackage, legacy, backups, placed, jobVars>>

(* Fault: the directory is not emptied.                                    *)
AlwaysEmptied == TRUE

Emptied == package[job.dir] = {}

DeleteDirectory ==
    /\ pc = "deleting" /\ Emptied
    /\ hasPackage' = hasPackage \ {job.dir}
    /\ IF job.kind = "install" THEN pc' = "creating" /\ UNCHANGED <<job, todo>> ELSE Leave
    /\ UNCHANGED <<picked, dirs, loader, package, legacy, backups, placed>>

CreateDirectory ==
    /\ pc = "creating"
    /\ hasPackage' = hasPackage \cup {job.dir}
    /\ pc' = "copying"
    /\ UNCHANGED <<picked, dirs, loader, package, legacy, backups, placed, job, todo>>

CopyFile(f) ==
    /\ pc = "copying" /\ <<f, "new">> \notin package[job.dir]
    /\ package' = [package EXCEPT ![job.dir] = (@ \ {<<f, "old">>}) \cup {<<f, "new">>}]
    /\ UNCHANGED <<picked, dirs, loader, hasPackage, legacy, backups, placed, jobVars>>

(* Fault: the loader is written while files are still missing.             *)
AlwaysCopied == TRUE

Copied == NewFiles \X {"new"} \subseteq package[job.dir]

(* WriteAllText truncates the loader and then writes it.                   *)
TruncateLoader ==
    /\ pc = "copying" /\ Copied
    /\ loader' = [loader EXCEPT ![job.dir] = "empty"]
    /\ pc' = "loader"
    /\ UNCHANGED <<picked, dirs, hasPackage, package, legacy, backups, placed, job, todo>>

WriteLoader ==
    /\ pc = "loader"
    /\ loader' = [loader EXCEPT ![job.dir] = "new"]
    /\ Leave
    /\ UNCHANGED <<picked, dirs, hasPackage, package, legacy, backups, placed>>

-----------------------------------------------------------------------------
(* Uninstall and uninstall.py.                                             *)

IsOurs(d) == loader[d] \in {"old", "new"}

(* A loader that does not name the package is not removed, nor is          *)
(* anything else then.                                                     *)
DeleteLoader(d) ==
    /\ loader[d] = "none" \/ IsOurs(d)
    /\ loader' = [loader EXCEPT ![d] = "none"]

BeginUninstall(d) ==
    /\ pc = "idle"
    /\ DeleteLoader(d)
    /\ job' = [kind |-> "uninstall", dir |-> d, stamp |-> 0, found |-> {}]
    /\ pc' = "deleting"
    /\ UNCHANGED <<picked, dirs, hasPackage, package, legacy, backups, placed, todo>>

Uninstall == BeginUninstall(ResolvePluginsDirectory)
UninstallScript == \E d \in Dirs : BeginUninstall(d)

(* A step throws, or the program is killed.                                *)
Interrupt ==
    /\ pc # "idle"
    /\ Leave
    /\ UNCHANGED <<picked, fileVars, placed>>

-----------------------------------------------------------------------------
User ==
    \/ \E d \in Dirs, n \in Legacy, c \in Contents : UserPlaces(d, n, c)
    \/ PickDirectory \/ SetLanguage

Begin ==
    \/ ArchiveLegacyPlugins
    \/ InstallOrRepair \/ InstallScript
    \/ Uninstall \/ UninstallScript

Step ==
    \/ \E n \in Legacy : MoveLegacy(n)
    \/ ArchivingEnds
    \/ \E f \in VersionedFiles : DeleteFile(f)
    \/ DeleteDirectory \/ CreateDirectory
    \/ \E f \in NewFiles : CopyFile(f)
    \/ TruncateLoader \/ WriteLoader

Next == User \/ Begin \/ Step \/ Interrupt

Spec == Init /\ [][Next]_vars

-----------------------------------------------------------------------------
(* The variables hold values of their types.                               *)
TypeOK ==
    /\ picked \in Dirs \cup {NoDir}
    /\ dirs \subseteq Dirs
    /\ loader \in [Dirs -> Loaders]
    /\ hasPackage \subseteq Dirs
    /\ package \in [Dirs -> SUBSET VersionedFiles]
    /\ legacy \in [Dirs -> [Legacy -> Contents \cup {NoContent}]]
    /\ backups \in [Places -> Contents \cup {NoContent}]
    /\ placed \subseteq Contents
    /\ pc \in {"idle", "moving", "deleting", "creating", "copying", "loader"}
    /\ job \in Jobs
    /\ todo \subseteq Legacy

InPlace(c) == \E d \in Dirs, n \in Legacy : legacy[d][n] = c
InBackup(c) == \E p \in Places : backups[p] = c

(* The plugins that were there before are moved, never lost: each is where *)
(* its owner put it or in a backup, also when several of the same name are *)
(* archived within a second, and wherever a job stops.                     *)
UserPluginsSurvive == \A c \in placed : InPlace(c) \/ InBackup(c)

Complete(files) == files = NewFiles \X {"new"}

(* A job that reaches its end has done its work, whatever interrupted jobs *)
(* have left behind: an installation has exactly the files of its version, *)
(* a loader, and none of the plugins it found in the way; after the        *)
(* removal of a plugin, nothing of it is left.                             *)
FinishedJobsAreComplete ==
    [][/\ pc = "loader" /\ loader'[job.dir] # loader[job.dir] =>
             /\ job.dir \in hasPackage' /\ Complete(package'[job.dir]) /\ loader'[job.dir] = "new"
             /\ \A c \in job.found, n \in Legacy : legacy'[job.dir][n] # c
       /\ pc = "deleting" /\ job.kind = "uninstall" /\ hasPackage' # hasPackage =>
             loader'[job.dir] = "none" /\ job.dir \notin hasPackage' /\ package'[job.dir] = {}]_vars

(* The loader, from which IDA imports the package, is the last thing that  *)
(* an installation adds and the first that a removal takes away.           *)
LoaderComesLast ==
    [][\A d \in Dirs :
          /\ loader'[d] = "new" /\ loader[d] # "new" => d \in hasPackage /\ Complete(package[d])
          /\ package'[d] # package[d] /\ job.kind = "uninstall" => loader[d] = "none"]_vars
-----------------------------------------------------------------------------
(* The strengthening that makes these inductive.                           *)

LegacyIsPlaced == \A d \in Dirs, n \in Legacy : legacy[d][n] # NoContent => legacy[d][n] \in placed

(* What a job has found in the way is still to be moved, or has been.      *)
FoundIsMoved ==
    /\ job.found \subseteq placed
    /\ pc # "idle" => \A n \in Legacy :
          legacy[job.dir][n] \in job.found => pc = "moving" /\ n \in todo

(* Between the deletion of the old package and the loader.                 *)
PackageIsNew ==
    /\ pc \in {"creating", "copying", "loader"} => job.kind = "install"
    /\ pc = "creating" => package[job.dir] = {}
    /\ pc \in {"copying", "loader"} =>
          job.dir \in hasPackage /\ package[job.dir] \subseteq NewFiles \X {"new"}
    /\ pc = "loader" => Copied

UninstallHasNoLoader ==
    job.kind = "uninstall" => pc = "deleting" /\ loader[job.dir] = "none"

(* The inductive invariant of the proofs.                                  *)
InstallInv ==
    /\ TypeOK
    /\ UserPluginsSurvive
    /\ LegacyIsPlaced
    /\ FoundIsMoved
    /\ PackageIsNew
    /\ UninstallHasNoLoader
=============================================================================
