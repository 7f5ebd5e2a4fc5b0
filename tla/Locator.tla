------------------------------ MODULE Locator ------------------------------
(***************************************************************************)
(* IdaLocator: where IDA is looked for, and which executable is taken.     *)
(* The file system is a constant: a path is an executable, a directory     *)
(* with executables in it, or nothing.  Paths stand for their full,        *)
(* case-insensitive form.                                                  *)
(***************************************************************************)
EXTENDS Naturals, SequencesExt

CONSTANTS
    Executables, \* paths of executable files that exist
    Inside,      \* executables in a directory or .app, the preferred first
    Missing,     \* paths at which there is nothing
    Configured,  \* paths of --ida-path, SUPPER_IDA_PATH and IDA_PATH, in this order
    Platform,    \* directories and apps found in the places of the platform
    NameRank     \* place of an executable's file name in the alphabet

Directories == DOMAIN Inside
Paths == Executables \cup Directories \cup Missing

ASSUME LocatorAssumption ==
    /\ \A d \in Directories : Inside[d] \in Seq(Executables)
    /\ Configured \in Seq(Paths) /\ Platform \in Seq(Directories)
    /\ NameRank \in [Executables \cup Missing -> Nat]

(* A directory stands for what is in it, anything else for itself.         *)
ResolveExecutableCandidates(path) ==
    IF path \in Directories THEN Inside[path] ELSE <<path>>

(* Explicit argument, configuration, environment, platform.                *)
Places(argument) == argument \o Configured \o Platform
FoundIn(argument, n) == ResolveExecutableCandidates(Places(argument)[n])
Candidates(argument) == UNION {ToSet(FoundIn(argument, n)) : n \in DOMAIN Places(argument)}

Exists(path) == path \in Executables

(* Where a candidate is found first (GroupBy, First).                      *)
PlaceOf(argument, path) ==
    Min({n \in DOMAIN Places(argument) : path \in ToSet(FoundIn(argument, n))})
TurnOf(argument, path) ==
    LET found == FoundIn(argument, PlaceOf(argument, path))
    IN Min({k \in DOMAIN found : found[k] = path})

(* Fault: the file name counts more than whether there is such a file.     *)
KeyOfNameFirst(argument, path) ==
    <<NameRank[path], IF Exists(path) THEN 0 ELSE 1, PlaceOf(argument, path), TurnOf(argument, path)>>

(* What exists comes first, in the order of file names; the order in which *)
(* the candidates were found decides only between equal names.             *)
SortKey(argument, path) ==
    <<IF Exists(path) THEN 0 ELSE 1, NameRank[path], PlaceOf(argument, path), TurnOf(argument, path)>>

Before(k, l) == \E i \in 1..4 : k[i] < l[i] /\ \A j \in 1..(i - 1) : k[j] = l[j]

Installs(argument) ==
    {[path |-> path, key |-> SortKey(argument, path)] : path \in Candidates(argument)}

(* OrderByDescending, ThenBy: as many come before the n-th as have to.     *)
FindInstallations(argument) ==
    LET found == Installs(argument)
        Earlier(install) == {other \in found : Before(other.key, install.key)}
    IN [n \in 1..Cardinality(found) |->
           (CHOOSE install \in found : Cardinality(Earlier(install)) = n - 1).path]

(* ResolveExecutablePath of IdaLaunchService: the first that exists, or    *)
(* there is none.                                                          *)
ResolveExecutablePath(argument) ==
    LET found == FindInstallations(argument)
        exist == {n \in DOMAIN found : Exists(found[n])}
    IN IF exist = {} THEN <<>> ELSE <<found[Min(exist)]>>
=============================================================================
