------------------------ MODULE UpstreamWorkersProofs -----------------------
(***************************************************************************)
(* Lemmas about the parts of UpstreamWorkers, for any number of windows,   *)
(* ports, requests, workers and sessions: the registry, the sessions of a  *)
(* worker, the supervisor and the selections of the router.  Each part has *)
(* an inductive invariant, the conjunction of parts that are named after   *)
(* what they say.  The theorems that rest on them are in UpstreamProofs.   *)
(***************************************************************************)
EXTENDS UpstreamWorkers, Sequences, FiniteSetTheorems, SequenceTheorems,
        WellFoundedInduction, TLAPS

-----------------------------------------------------------------------------
(* The registry: what stands for a server is under its port.               *)
RegistryTypeOK ==
    /\ open \subseteq Windows
    /\ life \in [Servers -> {"new", "bound", "serving", "leaving", "left", "gone"}]
    /\ portOf \in [Servers -> Ports \cup {0}]
    /\ beat \in [Servers -> {"off", "waiting", "posting", "over"}]
    /\ files \in [Ports -> Servers \cup {Nobody}]
    /\ posts \subseteq {"register", "unregister"} \X Servers
    /\ targets \in [Ports -> Servers \cup {Nobody}]
    /\ alias \in [Ports -> Nat]
    /\ scan \in [Scans -> [at : {"new", "read", "found", "stale", "over"},
                           port : Ports \cup {Nobody}, read : Servers \cup {Nobody}]]

(* A server listens alone on its port, in a window that is open.           *)
PortsInv ==
    /\ \A s \in Servers : Listing!Listening(s) => portOf[s] \in Ports /\ WindowOf[s] \in open
    /\ \A s, t \in Servers :
          Listing!Listening(s) /\ Listing!Listening(t) /\ portOf[s] = portOf[t] => s = t
    /\ \A m \in posts : life[m[2]] # "new" /\ portOf[m[2]] \in Ports

BooksInv ==
    /\ \A p \in Listing!Registered : portOf[targets[p]] = p /\ life[targets[p]] # "new"
    /\ \A p, q \in Listing!Registered : p # q => alias[p] # alias[q]

(* A file is that of a server that has written it, and a scan that thinks  *)
(* it stale has seen that its server serves no more.                       *)
FilesInv ==
    /\ \A p \in Ports : files[p] # Nobody =>
          portOf[files[p]] = p /\ life[files[p]] \notin {"new", "bound"}
    /\ \A d \in Scans : scan[d].at # "new" =>
          /\ scan[d].read \in Servers /\ scan[d].port \in Ports
          /\ portOf[scan[d].read] = scan[d].port /\ life[scan[d].read] \notin {"new", "bound"}
          /\ scan[d].at = "stale" => life[scan[d].read] # "serving"
    /\ Listing!FilesOfServers

RegistryInv == RegistryTypeOK /\ PortsInv /\ BooksInv /\ FilesInv

LEMMA RegistryConstants ==
    /\ WindowOf \in [Servers -> Windows] /\ Ports \subseteq Nat \ {0} /\ IsFiniteSet(Ports)
    /\ BasePorts \subseteq Ports
    /\ Nobody \notin Servers /\ Nobody \notin Windows /\ Nobody \notin Ports
    /\ Cardinality(Ports) \in Nat
<1>1. Listing!RegistryAssumption
  BY WorkersAssumption
<1>2. IsFiniteSet(Ports)
  BY <1>1 DEF Listing!RegistryAssumption, Listing!IsFiniteSet, IsFiniteSet
<1> QED BY <1>1, <1>2, FS_CardinalityType DEF Listing!RegistryAssumption

LEMMA RegistryInit == ASSUME Listing!Init PROVE RegistryInv
<1>1. RegistryTypeOK
  BY RegistryConstants DEF Listing!Init, RegistryTypeOK, Listing!NoScan
<1>2. \A p \in Ports : files[p] = Nobody /\ targets[p] = Nobody
  BY DEF Listing!Init
<1>3. PortsInv
  BY DEF Listing!Init, PortsInv, Listing!Listening
<1>4. BooksInv
  BY <1>2 DEF BooksInv, Listing!Registered
<1>5. FilesInv
  BY <1>2 DEF Listing!Init, FilesInv, Listing!FilesOfServers, Listing!NoScan
<1> QED BY <1>1, <1>3, <1>4, <1>5 DEF RegistryInv

-----------------------------------------------------------------------------
(* The least number of a set of them, and the number of an alias that is   *)
(* not taken: there are fewer taken than ports.                            *)
LEMMA LeastNumber ==
    ASSUME NEW S, S \subseteq Nat, S # {}
    PROVE  Listing!Min(S) \in S /\ \A n \in S : Listing!Min(S) <= n
<1>1. PICK x \in S : \A y \in S : ~(<<y, x>> \in OpToRel(<, Nat))
  BY NatLessThanWellFounded, WFMin
<1>2. \A y \in S : ~(y < x)
  BY <1>1 DEF OpToRel
<1>3. \A y \in S : x <= y
  BY <1>2
<1> QED BY <1>3 DEF Listing!Min

LEMMA AliasIsFree ==
    ASSUME RegistryTypeOK, NEW p \in Ports
    PROVE  Listing!UniqueAlias(p) \in Nat /\ Listing!UniqueAlias(p) \notin Listing!Taken(p)
<1> DEFINE N == Cardinality(Ports)
           R == {q \in Ports \ {p} : targets[q] # Nobody}
<1>1. N \in Nat /\ IsFiniteSet(Ports)
  BY RegistryConstants
<1>2. IsFiniteSet(Ports \ {p}) /\ Cardinality(Ports \ {p}) = N - 1
  BY <1>1, FS_RemoveElement
<1>3. IsFiniteSet(R) /\ Cardinality(R) <= N - 1 /\ Cardinality(R) \in Nat
  BY <1>2, FS_Subset, FS_CardinalityType
<1>4. Listing!Taken(p) = {alias[q] : q \in R}
  BY DEF Listing!Taken
<1>5. IsFiniteSet(Listing!Taken(p)) /\ Cardinality(Listing!Taken(p)) <= Cardinality(R)
  <2> DEFINE f == [q \in R |-> alias[q]]
  <2>1. f \in Surjection(R, Listing!Taken(p))
    BY <1>4 DEF Surjection
  <2> QED BY <2>1, <1>3, FS_Surjection
<1>6. IsFiniteSet(1 .. N) /\ Cardinality(1 .. N) = N
  BY <1>1, FS_Interval
<1>7. (1 .. N) \ Listing!Taken(p) # {}
  <2>1. SUFFICES ASSUME 1 .. N \subseteq Listing!Taken(p) PROVE FALSE
    OBVIOUS
  <2>2. Cardinality(1 .. N) <= Cardinality(Listing!Taken(p))
    BY <2>1, <1>5, FS_Subset
  <2>3. Cardinality(Listing!Taken(p)) \in Nat
    BY <1>5, FS_CardinalityType
  <2> QED BY <2>2, <2>3, <1>1, <1>3, <1>5, <1>6
<1>8. (1 .. N) \ Listing!Taken(p) \subseteq Nat
  BY <1>1
<1>9. Listing!UniqueAlias(p) = Listing!Min((1 .. N) \ Listing!Taken(p))
  BY DEF Listing!UniqueAlias, Listing!Cardinality, Cardinality, Listing!IsFiniteSet, IsFiniteSet
<1> HIDE DEF N
<1> QED BY <1>7, <1>8, <1>9, LeastNumber

LEMMA StartPort ==
    ASSUME RegistryTypeOK, NEW s \in Servers, NEW base \in BasePorts, Listing!Start(s, base)
    PROVE  /\ portOf'[s] \in Ports /\ Listing!Listener(portOf'[s]) = {}
           /\ portOf' = [portOf EXCEPT ![s] = portOf'[s]]
<1> DEFINE free == {p \in Ports : p >= base /\ Listing!Listener(p) = {}}
<1>1. portOf' = [portOf EXCEPT ![s] = Listing!Min(free)] /\ free # {}
  BY DEF Listing!Start
<1>2. free \subseteq Nat
  BY RegistryConstants
<1>3. Listing!Min(free) \in free
  BY <1>1, <1>2, LeastNumber
<1> HIDE DEF free
<1>4. portOf'[s] = Listing!Min(free)
  BY <1>1 DEF RegistryTypeOK
<1> QED BY <1>1, <1>3, <1>4 DEF free

(* What a run of discover_instances has read stays what it was.            *)
LEMMA ScanNext ==
    ASSUME RegistryTypeOK, NEW d \in Scans
    PROVE  LET Read(at) == [at |-> at, port |-> scan[d].port, read |-> scan[d].read] IN
           /\ Listing!ProbeInstance(d) =>
                 \/ /\ WindowOf[scan[d].read] \in open /\ Listing!Listener(scan[d].port) # {}
                    /\ scan' = [scan EXCEPT ![d] = Read("found")]
                 \/ /\ ~(WindowOf[scan[d].read] \in open /\ Listing!Listener(scan[d].port) # {})
                    /\ scan' = [scan EXCEPT ![d] = Read("stale")]
           /\ Listing!RemoveStale(d) => scan' = [scan EXCEPT ![d] = Read("over")]
<1> DEFINE Runs == [at : {"new", "read", "found", "stale", "over"},
                    port : Ports \cup {Nobody}, read : Servers \cup {Nobody}]
           Read(at) == [at |-> at, port |-> scan[d].port, read |-> scan[d].read]
<1>1. scan[d] \in Runs
  BY DEF RegistryTypeOK
<1>2. \A r \in Runs :
         /\ [r EXCEPT !.at = "found"] = [at |-> "found", port |-> r.port, read |-> r.read]
         /\ [r EXCEPT !.at = "stale"] = [at |-> "stale", port |-> r.port, read |-> r.read]
         /\ [r EXCEPT !.at = "over"] = [at |-> "over", port |-> r.port, read |-> r.read]
  OBVIOUS
<1> HIDE DEF Runs
<1>3. ASSUME Listing!ProbeInstance(d)
      PROVE  \/ /\ WindowOf[scan[d].read] \in open /\ Listing!Listener(scan[d].port) # {}
                /\ scan' = [scan EXCEPT ![d] = Read("found")]
             \/ /\ ~(WindowOf[scan[d].read] \in open /\ Listing!Listener(scan[d].port) # {})
                /\ scan' = [scan EXCEPT ![d] = Read("stale")]
  <2>1. CASE WindowOf[scan[d].read] \in open /\ Listing!Listener(scan[d].port) # {}
    <3>1. scan' = [scan EXCEPT ![d].at = "found"]
      BY <1>3, <2>1 DEF Listing!ProbeInstance
    <3>2. scan' = [scan EXCEPT ![d] = [scan[d] EXCEPT !.at = "found"]]
      BY <3>1, Zenon
    <3>3. scan' = [scan EXCEPT ![d] = Read("found")]
      BY <1>1, <1>2, <3>2, Zenon
    <3> QED BY <2>1, <3>3
  <2>2. CASE ~(WindowOf[scan[d].read] \in open /\ Listing!Listener(scan[d].port) # {})
    <3>1. scan' = [scan EXCEPT ![d].at = "stale"]
      BY <1>3, <2>2 DEF Listing!ProbeInstance
    <3>2. scan' = [scan EXCEPT ![d] = [scan[d] EXCEPT !.at = "stale"]]
      BY <3>1, Zenon
    <3>3. scan' = [scan EXCEPT ![d] = Read("stale")]
      BY <1>1, <1>2, <3>2, Zenon
    <3> QED BY <2>2, <3>3
  <2> QED BY <2>1, <2>2
<1>4. ASSUME Listing!RemoveStale(d) PROVE scan' = [scan EXCEPT ![d] = Read("over")]
  <2>1. scan' = [scan EXCEPT ![d].at = "over"]
    BY <1>4 DEF Listing!RemoveStale
  <2>2. scan' = [scan EXCEPT ![d] = [scan[d] EXCEPT !.at = "over"]]
    BY <2>1, Zenon
  <2> QED BY <1>1, <1>2, <2>2, Zenon
<1> QED BY <1>3, <1>4

LEMMA RegistryTypeNext == ASSUME RegistryTypeOK, PortsInv, Listing!Next PROVE RegistryTypeOK'
<1> USE RegistryConstants DEF RegistryTypeOK, Listing!windowVars, Listing!tableVars
<1>1. ASSUME NEW s \in Servers, NEW base \in BasePorts, Listing!Start(s, base) PROVE RegistryTypeOK'
  <2>1. portOf' \in [Servers -> Ports \cup {0}]
    BY <1>1, StartPort
  <2> QED BY <1>1, <2>1 DEF Listing!Start
<1>2. ASSUME NEW s \in Servers, Listing!WriteFile(s) PROVE RegistryTypeOK'
  BY <1>2 DEF Listing!WriteFile
<1>3. ASSUME NEW s \in Servers, Listing!Leave(s) PROVE RegistryTypeOK'
  BY <1>3 DEF Listing!Leave
<1>4. ASSUME NEW s \in Servers, Listing!RemoveFile(s) PROVE RegistryTypeOK'
  BY <1>4 DEF Listing!RemoveFile
<1>5. ASSUME NEW s \in Servers, Listing!StopServer(s) PROVE RegistryTypeOK'
  BY <1>5 DEF Listing!StopServer
<1>6. ASSUME NEW s \in Servers, Listing!Post(s) PROVE RegistryTypeOK'
  BY <1>6 DEF Listing!Post
<1>7. ASSUME NEW s \in Servers, Listing!PostEnds(s) PROVE RegistryTypeOK'
  BY <1>7 DEF Listing!PostEnds
<1>8. ASSUME NEW s \in Servers, Listing!RegisterTarget(s) PROVE RegistryTypeOK'
  <2>1. portOf[s] \in Ports
    BY <1>8 DEF Listing!RegisterTarget, PortsInv
  <2> QED BY <1>8, <2>1, AliasIsFree DEF Listing!RegisterTarget
<1>9. ASSUME NEW s \in Servers, Listing!UnregisterTarget(s) PROVE RegistryTypeOK'
  BY <1>9 DEF Listing!UnregisterTarget, Listing!DropTarget
<1>10. ASSUME NEW w \in Windows, Listing!WindowEnds(w) PROVE RegistryTypeOK'
  BY <1>10 DEF Listing!WindowEnds
<1>11. ASSUME NEW p \in Ports, Listing!Expire(p) PROVE RegistryTypeOK'
  BY <1>11 DEF Listing!Expire, Listing!DropTarget
<1>12. ASSUME NEW d \in Scans, NEW p \in Ports, Listing!ReadInstance(d, p) PROVE RegistryTypeOK'
  BY <1>12 DEF Listing!ReadInstance
<1>13. ASSUME NEW d \in Scans, Listing!ProbeInstance(d) PROVE RegistryTypeOK'
  <2>1. scan' \in [Scans -> [at : {"new", "read", "found", "stale", "over"},
                             port : Ports \cup {Nobody}, read : Servers \cup {Nobody}]]
    BY <1>13, ScanNext
  <2> QED BY <1>13, <2>1 DEF Listing!ProbeInstance
<1>14. ASSUME NEW d \in Scans, Listing!RemoveStale(d) PROVE RegistryTypeOK'
  <2>1. scan' \in [Scans -> [at : {"new", "read", "found", "stale", "over"},
                             port : Ports \cup {Nobody}, read : Servers \cup {Nobody}]]
    BY <1>14, ScanNext
  <2> QED BY <1>14, <2>1 DEF Listing!RemoveStale
<1> QED BY <1>1, <1>2, <1>3, <1>4, <1>5, <1>6, <1>7, <1>8, <1>9, <1>10, <1>11, <1>12, <1>13, <1>14 DEF Listing!Next

LEMMA PortsNext == ASSUME RegistryTypeOK, PortsInv, Listing!Next PROVE PortsInv'
<1> USE DEF PortsInv, Listing!Listening, Listing!windowVars, Listing!tableVars
<1>1. ASSUME NEW s \in Servers, NEW base \in BasePorts, Listing!Start(s, base) PROVE PortsInv'
  <2>1. /\ portOf'[s] \in Ports /\ portOf' = [portOf EXCEPT ![s] = portOf'[s]]
        /\ \A t \in Servers : Listing!Listening(t) => portOf[t] # portOf'[s]
    BY <1>1, StartPort DEF Listing!Listener
  <2>2. /\ life' = [life EXCEPT ![s] = "bound"] /\ life[s] = "new" /\ WindowOf[s] \in open
        /\ open' = open /\ posts' = posts /\ portOf \in [Servers -> Ports \cup {0}]
        /\ life \in [Servers -> {"new", "bound", "serving", "leaving", "left", "gone"}]
        /\ posts \subseteq {"register", "unregister"} \X Servers
    BY <1>1 DEF Listing!Start, RegistryTypeOK
  <2>3. \A t \in Servers : t # s => portOf'[t] = portOf[t] /\ life'[t] = life[t]
    BY <2>1, <2>2
  <2>4. \A m \in posts : life'[m[2]] # "new" /\ portOf'[m[2]] \in Ports
    BY <2>2, <2>3
  <2> QED BY <2>1, <2>2, <2>3, <2>4
<1>2. ASSUME NEW s \in Servers, Listing!WriteFile(s) PROVE PortsInv'
  BY <1>2 DEF Listing!WriteFile, RegistryTypeOK
<1>3. ASSUME NEW s \in Servers, Listing!Leave(s) PROVE PortsInv'
  BY <1>3 DEF Listing!Leave, RegistryTypeOK
<1>4. ASSUME NEW s \in Servers, Listing!RemoveFile(s) PROVE PortsInv'
  BY <1>4 DEF Listing!RemoveFile, RegistryTypeOK
<1>5. ASSUME NEW s \in Servers, Listing!StopServer(s) PROVE PortsInv'
  BY <1>5 DEF Listing!StopServer, RegistryTypeOK
<1>6. ASSUME NEW s \in Servers, Listing!Post(s) PROVE PortsInv'
  BY <1>6 DEF Listing!Post, RegistryTypeOK
<1>7. ASSUME NEW s \in Servers, Listing!PostEnds(s) PROVE PortsInv'
  BY <1>7 DEF Listing!PostEnds, RegistryTypeOK
<1>8. ASSUME NEW s \in Servers, Listing!RegisterTarget(s) PROVE PortsInv'
  BY <1>8 DEF Listing!RegisterTarget, RegistryTypeOK
<1>9. ASSUME NEW s \in Servers, Listing!UnregisterTarget(s) PROVE PortsInv'
  BY <1>9 DEF Listing!UnregisterTarget, RegistryTypeOK
<1>10. ASSUME NEW w \in Windows, Listing!WindowEnds(w) PROVE PortsInv'
  BY <1>10 DEF Listing!WindowEnds, RegistryTypeOK
<1>11. ASSUME NEW p \in Ports, Listing!Expire(p) PROVE PortsInv'
  BY <1>11 DEF Listing!Expire, RegistryTypeOK
<1>12. ASSUME NEW d \in Scans, NEW p \in Ports, Listing!ReadInstance(d, p) PROVE PortsInv'
  BY <1>12 DEF Listing!ReadInstance, RegistryTypeOK
<1>13. ASSUME NEW d \in Scans, Listing!ProbeInstance(d) PROVE PortsInv'
  BY <1>13 DEF Listing!ProbeInstance, RegistryTypeOK
<1>14. ASSUME NEW d \in Scans, Listing!RemoveStale(d) PROVE PortsInv'
  BY <1>14 DEF Listing!RemoveStale, RegistryTypeOK
<1> QED BY <1>1, <1>2, <1>3, <1>4, <1>5, <1>6, <1>7, <1>8, <1>9, <1>10, <1>11, <1>12, <1>13, <1>14 DEF Listing!Next


LEMMA BooksStay ==
    ASSUME RegistryTypeOK, BooksInv, UNCHANGED <<targets, alias, portOf>>,
           \A t \in Servers : life[t] # "new" => life'[t] # "new"
    PROVE  BooksInv'
<1>1. Listing!Registered' = Listing!Registered
  BY DEF Listing!Registered
<1>2. \A p \in Listing!Registered : targets[p] \in Servers
  BY DEF Listing!Registered, RegistryTypeOK
<1>3. /\ \A p \in Listing!Registered : portOf[targets[p]] = p /\ life[targets[p]] # "new"
      /\ \A p, q \in Listing!Registered : p # q => alias[p] # alias[q]
  BY DEF BooksInv
<1>4. \A p \in Listing!Registered : portOf'[targets'[p]] = p /\ life'[targets'[p]] # "new"
  BY <1>2, <1>3
<1>5. \A p, q \in Listing!Registered : p # q => alias'[p] # alias'[q]
  BY <1>3
<1> QED BY <1>1, <1>4, <1>5, Zenon DEF BooksInv

LEMMA BooksNext == ASSUME RegistryTypeOK, PortsInv, BooksInv, Listing!Next PROVE BooksInv'
<1> USE RegistryConstants DEF BooksInv, Listing!Registered, Listing!windowVars, Listing!tableVars
<1>1. ASSUME NEW s \in Servers, NEW base \in BasePorts, Listing!Start(s, base) PROVE BooksInv'
  <2>1. \A t \in Servers : life[t] # "new" => portOf'[t] = portOf[t] /\ life'[t] = life[t]
    BY <1>1, StartPort DEF Listing!Start, RegistryTypeOK
  <2> QED BY <1>1, <2>1 DEF Listing!Start, RegistryTypeOK
<1>2. ASSUME NEW s \in Servers, Listing!WriteFile(s) PROVE BooksInv'
  <2>1. UNCHANGED <<targets, alias, portOf>> /\ \A t \in Servers : life[t] # "new" => life'[t] # "new"
    BY <1>2 DEF Listing!WriteFile, RegistryTypeOK
  <2> QED BY <2>1, BooksStay
<1>3. ASSUME NEW s \in Servers, Listing!Leave(s) PROVE BooksInv'
  <2>1. UNCHANGED <<targets, alias, portOf>> /\ \A t \in Servers : life[t] # "new" => life'[t] # "new"
    BY <1>3 DEF Listing!Leave, RegistryTypeOK
  <2> QED BY <2>1, BooksStay
<1>4. ASSUME NEW s \in Servers, Listing!RemoveFile(s) PROVE BooksInv'
  <2>1. UNCHANGED <<targets, alias, portOf>> /\ \A t \in Servers : life[t] # "new" => life'[t] # "new"
    BY <1>4 DEF Listing!RemoveFile, RegistryTypeOK
  <2> QED BY <2>1, BooksStay
<1>5. ASSUME NEW s \in Servers, Listing!StopServer(s) PROVE BooksInv'
  <2>1. UNCHANGED <<targets, alias, portOf>> /\ \A t \in Servers : life[t] # "new" => life'[t] # "new"
    BY <1>5 DEF Listing!StopServer, RegistryTypeOK
  <2> QED BY <2>1, BooksStay
<1>6. ASSUME NEW s \in Servers, Listing!Post(s) PROVE BooksInv'
  BY <1>6 DEF Listing!Post, RegistryTypeOK
<1>7. ASSUME NEW s \in Servers, Listing!PostEnds(s) PROVE BooksInv'
  BY <1>7 DEF Listing!PostEnds, RegistryTypeOK
<1>8. ASSUME NEW s \in Servers, Listing!RegisterTarget(s) PROVE BooksInv'
  <2> DEFINE p == portOf[s]
  <2>1. p \in Ports /\ life[s] # "new" /\ targets' = [targets EXCEPT ![p] = s] /\ UNCHANGED <<life, portOf>>
    BY <1>8 DEF Listing!RegisterTarget, PortsInv
  <2>2. \A q \in Ports : q # p => alias'[q] = alias[q] /\ targets'[q] = targets[q]
    BY <1>8 DEF Listing!RegisterTarget, RegistryTypeOK
  <2>3. \A q \in Ports : q # p /\ targets[q] # Nobody => alias'[p] # alias[q]
    <3>1. CASE Listing!SameTarget(targets[p], s)
      <4>1. alias'[p] = alias[p] /\ targets[p] # Nobody
        BY <1>8, <2>1, <3>1 DEF Listing!RegisterTarget, RegistryTypeOK, Listing!SameTarget
      <4> QED BY <2>1, <4>1
    <3>2. CASE ~Listing!SameTarget(targets[p], s)
      <4>1. alias'[p] = Listing!UniqueAlias(p)
        BY <1>8, <2>1, <3>2 DEF Listing!RegisterTarget, RegistryTypeOK
      <4>2. \A q \in Ports : q # p /\ targets[q] # Nobody => alias[q] \in Listing!Taken(p)
        BY DEF Listing!Taken
      <4>3. Listing!UniqueAlias(p) \notin Listing!Taken(p)
        BY <2>1, AliasIsFree
      <4> QED BY <4>1, <4>2, <4>3
    <3> QED BY <3>1, <3>2
  <2>4. targets'[p] = s
    BY <2>1 DEF RegistryTypeOK
  <2> HIDE DEF p
  <2> QED BY <2>1, <2>2, <2>3, <2>4 DEF p
<1>9. ASSUME NEW s \in Servers, Listing!UnregisterTarget(s) PROVE BooksInv'
  <2>1. portOf[s] \in Ports
    BY <1>9 DEF Listing!UnregisterTarget, PortsInv
  <2>2. CASE UNCHANGED <<targets, alias>>
    BY <1>9, <2>2 DEF Listing!UnregisterTarget
  <2>3. CASE Listing!DropTarget(portOf[s])
    BY <1>9, <2>1, <2>3 DEF Listing!UnregisterTarget, Listing!DropTarget, RegistryTypeOK
  <2> QED BY <1>9, <2>2, <2>3 DEF Listing!UnregisterTarget
<1>10. ASSUME NEW w \in Windows, Listing!WindowEnds(w) PROVE BooksInv'
  BY <1>10 DEF Listing!WindowEnds, RegistryTypeOK
<1>11. ASSUME NEW p \in Ports, Listing!Expire(p) PROVE BooksInv'
  BY <1>11 DEF Listing!Expire, Listing!DropTarget, RegistryTypeOK
<1>12. ASSUME NEW d \in Scans, NEW p \in Ports, Listing!ReadInstance(d, p) PROVE BooksInv'
  BY <1>12 DEF Listing!ReadInstance, RegistryTypeOK
<1>13. ASSUME NEW d \in Scans, Listing!ProbeInstance(d) PROVE BooksInv'
  BY <1>13 DEF Listing!ProbeInstance, RegistryTypeOK
<1>14. ASSUME NEW d \in Scans, Listing!RemoveStale(d) PROVE BooksInv'
  BY <1>14 DEF Listing!RemoveStale, RegistryTypeOK
<1> QED BY <1>1, <1>2, <1>3, <1>4, <1>5, <1>6, <1>7, <1>8, <1>9, <1>10, <1>11, <1>12, <1>13, <1>14 DEF Listing!Next

LEMMA FilesNext == ASSUME RegistryTypeOK, PortsInv, FilesInv, Listing!Next PROVE FilesInv'
<1> USE RegistryConstants
    DEF FilesInv, Listing!FilesOfServers, Listing!windowVars, Listing!tableVars
<1>1. ASSUME NEW s \in Servers, NEW base \in BasePorts, Listing!Start(s, base) PROVE FilesInv'
  <2>1. \A t \in Servers : life[t] # "new" => portOf'[t] = portOf[t] /\ life'[t] = life[t]
    BY <1>1, StartPort DEF Listing!Start, RegistryTypeOK
  <2>2. \A t \in Servers : life'[t] = "serving" => life[t] = "serving"
    BY <1>1 DEF Listing!Start, RegistryTypeOK
  <2> QED BY <1>1, <2>1, <2>2 DEF Listing!Start, RegistryTypeOK
<1>2. ASSUME NEW s \in Servers, Listing!WriteFile(s) PROVE FilesInv'
  <2> DEFINE p == portOf[s]
  <2>1. /\ p \in Ports /\ files'[p] = s /\ life[s] = "bound" /\ life'[s] = "serving"
        /\ UNCHANGED <<portOf, scan>>
        /\ \A q \in Ports : q # p => files'[q] = files[q]
        /\ \A t \in Servers : t # s => life'[t] = life[t]
    BY <1>2 DEF Listing!WriteFile, RegistryTypeOK, PortsInv, Listing!Listening
  <2>2. \A t \in Servers : life[t] = "serving" => portOf[t] # p /\ portOf[t] \in Ports
    BY <1>2, <2>1 DEF PortsInv, Listing!Listening
  <2>3. \A d \in Scans : scan[d].at # "new" => scan[d].read # s
    BY <2>1
  <2> HIDE DEF p
  <2>4. \A q \in Ports : files'[q] # Nobody =>
           portOf'[files'[q]] = q /\ life'[files'[q]] \notin {"new", "bound"}
    BY <2>1 DEF p, RegistryTypeOK
  <2>5. \A d \in Scans : scan'[d].at # "new" =>
          /\ scan'[d].read \in Servers /\ scan'[d].port \in Ports
          /\ portOf'[scan'[d].read] = scan'[d].port /\ life'[scan'[d].read] \notin {"new", "bound"}
          /\ scan'[d].at = "stale" => life'[scan'[d].read] # "serving"
    BY <2>1, <2>3
  <2>6. Listing!FilesOfServers'
    <3>1. SUFFICES ASSUME NEW t \in Servers, life'[t] = "serving", files'[portOf[t]] # t
                   PROVE  \E d \in Scans : /\ scan[d].at = "over" /\ scan[d].port = portOf[t]
                                           /\ scan[d].read # t
      BY <2>1
    <3>2. t # s
      BY <2>1, <3>1 DEF p
    <3>3. life[t] = "serving" /\ files[portOf[t]] # t
      BY <2>1, <2>2, <3>1, <3>2
    <3> QED BY <3>3
  <2> QED BY <2>4, <2>5, <2>6
<1>3. ASSUME NEW s \in Servers, Listing!Leave(s) PROVE FilesInv'
  BY <1>3 DEF Listing!Leave, RegistryTypeOK
<1>4. ASSUME NEW s \in Servers, Listing!RemoveFile(s) PROVE FilesInv'
  <2> DEFINE p == portOf[s]
  <2>1. /\ p \in Ports /\ files'[p] = Nobody /\ life[s] = "leaving" /\ life'[s] = "left"
        /\ UNCHANGED <<portOf, scan>>
        /\ \A q \in Ports : q # p => files'[q] = files[q]
        /\ \A t \in Servers : t # s => life'[t] = life[t]
    BY <1>4 DEF Listing!RemoveFile, RegistryTypeOK, PortsInv, Listing!Listening
  <2>2. \A t \in Servers : life[t] = "serving" => portOf[t] # p /\ portOf[t] \in Ports
    BY <1>4, <2>1 DEF PortsInv, Listing!Listening
  <2> HIDE DEF p
  <2>3. \A q \in Ports : files'[q] # Nobody =>
           portOf'[files'[q]] = q /\ life'[files'[q]] \notin {"new", "bound"}
    BY <2>1 DEF RegistryTypeOK
  <2>4. \A d \in Scans : scan'[d].at # "new" =>
          /\ scan'[d].read \in Servers /\ scan'[d].port \in Ports
          /\ portOf'[scan'[d].read] = scan'[d].port /\ life'[scan'[d].read] \notin {"new", "bound"}
          /\ scan'[d].at = "stale" => life'[scan'[d].read] # "serving"
    BY <2>1
  <2>5. Listing!FilesOfServers'
    <3>1. SUFFICES ASSUME NEW t \in Servers, life'[t] = "serving", files'[portOf[t]] # t
                   PROVE  \E d \in Scans : /\ scan[d].at = "over" /\ scan[d].port = portOf[t]
                                           /\ scan[d].read # t
      BY <2>1
    <3>2. life[t] = "serving"
      BY <2>1, <3>1
    <3>3. portOf[t] # p /\ portOf[t] \in Ports
      BY <2>2, <3>2, Zenon
    <3>4. files[portOf[t]] # t
      BY <2>1, <3>1, <3>3, Zenon
    <3> QED BY <3>2, <3>4
  <2> QED BY <2>3, <2>4, <2>5
<1>5. ASSUME NEW s \in Servers, Listing!StopServer(s) PROVE FilesInv'
  BY <1>5 DEF Listing!StopServer, RegistryTypeOK
<1>6. ASSUME NEW s \in Servers, Listing!Post(s) PROVE FilesInv'
  BY <1>6 DEF Listing!Post, RegistryTypeOK
<1>7. ASSUME NEW s \in Servers, Listing!PostEnds(s) PROVE FilesInv'
  BY <1>7 DEF Listing!PostEnds, RegistryTypeOK
<1>8. ASSUME NEW s \in Servers, Listing!RegisterTarget(s) PROVE FilesInv'
  BY <1>8 DEF Listing!RegisterTarget, RegistryTypeOK
<1>9. ASSUME NEW s \in Servers, Listing!UnregisterTarget(s) PROVE FilesInv'
  BY <1>9 DEF Listing!UnregisterTarget, RegistryTypeOK
<1>10. ASSUME NEW w \in Windows, Listing!WindowEnds(w) PROVE FilesInv'
  BY <1>10 DEF Listing!WindowEnds, RegistryTypeOK
<1>11. ASSUME NEW p \in Ports, Listing!Expire(p) PROVE FilesInv'
  BY <1>11 DEF Listing!Expire, RegistryTypeOK
<1>12. ASSUME NEW d \in Scans, NEW p \in Ports, Listing!ReadInstance(d, p) PROVE FilesInv'
  <2>1. /\ UNCHANGED <<life, portOf, files>> /\ scan[d].at = "new"
        /\ files[p] \in Servers /\ portOf[files[p]] = p /\ life[files[p]] \notin {"new", "bound"}
        /\ scan'[d].at = "read" /\ scan'[d].port = p /\ scan'[d].read = files[p]
        /\ \A c \in Scans : c # d => scan'[c] = scan[c]
    BY <1>12 DEF Listing!ReadInstance, Listing!windowVars, RegistryTypeOK
  <2>2. Listing!FilesOfServers'
    <3>1. \A c \in Scans : scan[c].at = "over" => scan'[c] = scan[c]
      BY <2>1
    <3> QED BY <2>1, <3>1
  <2>3. \A c \in Scans : scan'[c].at # "new" =>
          /\ scan'[c].read \in Servers /\ scan'[c].port \in Ports
          /\ portOf'[scan'[c].read] = scan'[c].port /\ life'[scan'[c].read] \notin {"new", "bound"}
          /\ scan'[c].at = "stale" => life'[scan'[c].read] # "serving"
    BY <2>1
  <2> QED BY <2>1, <2>2, <2>3
<1>13. ASSUME NEW d \in Scans, Listing!ProbeInstance(d) PROVE FilesInv'
  <2>1. /\ UNCHANGED <<life, portOf, files>> /\ scan[d].at = "read"
        /\ scan'[d].port = scan[d].port /\ scan'[d].read = scan[d].read
        /\ scan'[d].at = "stale" =>
              ~(WindowOf[scan[d].read] \in open /\ Listing!Listener(scan[d].port) # {})
        /\ scan'[d].at # "over"
        /\ \A c \in Scans : c # d => scan'[c] = scan[c]
    BY <1>13, ScanNext DEF Listing!ProbeInstance, RegistryTypeOK
  <2>2. scan'[d].at = "stale" => life[scan[d].read] # "serving"
    <3>1. scan[d].read \in Servers /\ portOf[scan[d].read] = scan[d].port
      BY <2>1
    <3>2. life[scan[d].read] = "serving" =>
             WindowOf[scan[d].read] \in open /\ scan[d].read \in Listing!Listener(scan[d].port)
      BY <3>1 DEF PortsInv, Listing!Listening, Listing!Listener
    <3> QED BY <2>1, <3>2
  <2>3. Listing!FilesOfServers'
    <3>1. \A c \in Scans : scan[c].at = "over" => scan'[c] = scan[c]
      BY <2>1
    <3> QED BY <2>1, <3>1
  <2>4. \A c \in Scans : scan'[c].at # "new" =>
          /\ scan'[c].read \in Servers /\ scan'[c].port \in Ports
          /\ portOf'[scan'[c].read] = scan'[c].port /\ life'[scan'[c].read] \notin {"new", "bound"}
          /\ scan'[c].at = "stale" => life'[scan'[c].read] # "serving"
    BY <2>1, <2>2
  <2> QED BY <2>1, <2>3, <2>4
<1>14. ASSUME NEW d \in Scans, Listing!RemoveStale(d) PROVE FilesInv'
  <2> DEFINE p == scan[d].port
  <2>1. /\ UNCHANGED <<life, portOf>> /\ scan[d].at = "stale" /\ scan'[d].at = "over"
        /\ scan'[d].port = scan[d].port /\ scan'[d].read = scan[d].read
        /\ \A c \in Scans : c # d => scan'[c] = scan[c]
        /\ files'[p] = Nobody /\ \A q \in Ports : q # p => files'[q] = files[q]
        /\ p \in Ports /\ scan[d].read \in Servers /\ life[scan[d].read] # "serving"
    BY <1>14, ScanNext DEF Listing!RemoveStale, RegistryTypeOK
  <2> HIDE DEF p
  <2>2. \A q \in Ports : files'[q] # Nobody =>
           portOf'[files'[q]] = q /\ life'[files'[q]] \notin {"new", "bound"}
    <3>1. \A q \in Ports : files'[q] # Nobody => files'[q] = files[q]
      BY <2>1
    <3>2. \A q \in Ports : files[q] # Nobody =>
             portOf[files[q]] = q /\ life[files[q]] \notin {"new", "bound"}
      BY DEF FilesInv
    <3> QED BY <2>1, <3>1, <3>2
  <2>3. Listing!FilesOfServers'
    <3>1. SUFFICES ASSUME NEW t \in Servers, life[t] = "serving", files'[portOf[t]] # t
                   PROVE  \E c \in Scans : /\ scan'[c].at = "over" /\ scan'[c].port = portOf[t]
                                           /\ scan'[c].read # t
      BY <2>1
    <3>2. portOf[t] \in Ports
      BY <3>1 DEF PortsInv, Listing!Listening
    <3>3. CASE portOf[t] = p
      BY <2>1, <3>1, <3>3 DEF p
    <3>4. CASE portOf[t] # p
      <4>1. files[portOf[t]] # t
        BY <2>1, <3>1, <3>2, <3>4
      <4> QED BY <2>1, <3>1, <4>1
    <3> QED BY <3>3, <3>4
  <2>4. \A c \in Scans : scan'[c].at # "new" =>
          /\ scan'[c].read \in Servers /\ scan'[c].port \in Ports
          /\ portOf'[scan'[c].read] = scan'[c].port /\ life'[scan'[c].read] \notin {"new", "bound"}
          /\ scan'[c].at = "stale" => life'[scan'[c].read] # "serving"
    BY <2>1
  <2> QED BY <2>2, <2>3, <2>4
<1> QED BY <1>1, <1>2, <1>3, <1>4, <1>5, <1>6, <1>7, <1>8, <1>9, <1>10, <1>11, <1>12, <1>13, <1>14 DEF Listing!Next

LEMMA RegistryNext == ASSUME RegistryInv, Listing!Next PROVE RegistryInv'
BY RegistryTypeNext, PortsNext, BooksNext, FilesNext DEF RegistryInv

LEMMA RegistrySafe == ASSUME RegistryInv PROVE Listing!RegistryKeepsBooks
BY DEF RegistryInv, BooksInv, FilesInv, Listing!RegistryKeepsBooks, Listing!TargetsAreDistinct

LEMMA RegistryStays == ASSUME RegistryInv, UNCHANGED registryVars PROVE RegistryInv'
<1> USE DEF registryVars
<1>1. RegistryTypeOK'
  BY DEF RegistryInv, RegistryTypeOK
<1>2. PortsInv'
  BY DEF RegistryInv, PortsInv, Listing!Listening
<1>3. BooksInv'
  BY DEF RegistryInv, BooksInv, Listing!Registered
<1>4. FilesInv'
  BY DEF RegistryInv, FilesInv, Listing!FilesOfServers
<1> QED BY <1>1, <1>2, <1>3, <1>4 DEF RegistryInv

(* Only the window itself has its registration taken back as long as it    *)
(* reports, for the registry does not let one expire that does.            *)
LEMMA TargetsStay ==
    ASSUME RegistryTypeOK, Listing!Next, NEW p \in Ports, targets[p] # Nobody,
           beat[targets[p]] \in {"waiting", "posting"}, targets'[p] = Nobody
    PROVE  \E t \in Servers : WindowOf[t] = WindowOf[targets[p]] /\ <<"unregister", t>> \in posts
<1>1. targets[p] \in Servers /\ targets \in [Ports -> Servers \cup {Nobody}] /\ Nobody \notin Servers
  BY RegistryConstants DEF RegistryTypeOK
<1>2. targets' # targets
  BY <1>1
<1>3. ~(\E s \in Servers : Listing!RegisterTarget(s))
  BY <1>1 DEF Listing!RegisterTarget
<1>4. ASSUME NEW s \in Servers, Listing!UnregisterTarget(s)
      PROVE  WindowOf[s] = WindowOf[targets[p]] /\ <<"unregister", s>> \in posts
  <2>1. /\ targets[portOf[s]] # Nobody /\ WindowOf[targets[portOf[s]]] = WindowOf[s]
        /\ targets' = [targets EXCEPT ![portOf[s]] = Nobody] /\ <<"unregister", s>> \in posts
    BY <1>2, <1>4 DEF Listing!UnregisterTarget, Listing!DropTarget, Listing!tableVars
  <2>2. portOf[s] = p
    BY <1>1, <2>1
  <2> QED BY <2>1, <2>2
<1>5. ~(\E q \in Ports : Listing!Expire(q))
  <2> SUFFICES ASSUME NEW q \in Ports, Listing!Expire(q) PROVE FALSE
    OBVIOUS
  <2>1. q = p
    BY <1>1 DEF Listing!Expire, Listing!DropTarget
  <2>2. Listing!SameTarget(targets[p], targets[p])
    BY <1>1 DEF Listing!SameTarget
  <2>3. Listing!Refreshed(targets[p])
    BY DEF Listing!Refreshed
  <2> QED BY <1>1, <2>1, <2>2, <2>3 DEF Listing!Expire
<1>6. \E s \in Servers : Listing!UnregisterTarget(s)
  BY <1>2, <1>3, <1>5 DEF Listing!Next, Listing!Start, Listing!WriteFile, Listing!Leave,
     Listing!RemoveFile, Listing!StopServer, Listing!Post, Listing!PostEnds, Listing!WindowEnds,
     Listing!ReadInstance, Listing!ProbeInstance, Listing!RemoveStale, Listing!tableVars
<1> QED BY <1>4, <1>6

-----------------------------------------------------------------------------
(* A worker: its sessions, and the one database that idalib has open.      *)
SessionsTypeOK ==
    /\ known \in [SessionIds -> Files \cup {None}]
    /\ active \in SessionIds \cup {None}
    /\ bound \in [Contexts -> SessionIds \cup {None}]
    /\ openDb \in Files \cup {None}
    /\ phase \in {"idle", "opening", "opened", "analysing", "running"}
    /\ task \in [op : {"none", "open", "switch", "tool"}, id : SessionIds \cup {None},
                 file : Files \cup {None}, context : Contexts \cup {None}]
    /\ ended \in BOOLEAN

(* What is open is the database of the active session, while nothing is    *)
(* being opened.                                                           *)
OneIsOpen ==
    /\ active # None => openDb = known[active] /\ openDb # None
    /\ openDb # None => active # None \/ phase = "opened"

(* The activation under way: nothing else is active, and the file is that  *)
(* of the session, or of no session yet.                                   *)
ActivationFits ==
    phase \in {"opening", "opened"} =>
        /\ active = None /\ task.id \in SessionIds /\ task.file \in Files
        /\ task.op \in {"open", "switch", "tool"} /\ task.context \in Contexts
        /\ phase = "opened" => openDb = task.file
        /\ ~ended =>
              /\ task.op = "open" => known[task.id] = None /\ \A i \in SessionIds : known[i] # task.file
              /\ task.op # "open" => known[task.id] = task.file
              /\ task.op = "tool" => bound[task.context] = task.id

(* What follows an activation: auto_wait, and the tool.                    *)
RequestFits ==
    /\ phase = "analysing" /\ ~ended => active = task.id /\ active # None /\ task.context \in Contexts
    /\ phase = "running" /\ ~ended =>
          task.context \in Contexts /\ active = bound[task.context] /\ active # None

SessionsInv ==
    SessionsTypeOK /\ OneIsOpen /\ ActivationFits /\ RequestFits /\ Serving!SessionsAreTidy

-----------------------------------------------------------------------------
LEMMA SessionsConstants ==
    /\ None \notin Files /\ None \notin SessionIds /\ None \notin Contexts
BY WorkersAssumption DEF Serving!IdbAssumption

LEMMA SessionsInit == ASSUME Serving!Init PROVE SessionsInv
BY SessionsConstants
   DEF Serving!Init, Serving!NoTask, SessionsInv, SessionsTypeOK, OneIsOpen, ActivationFits,
       RequestFits, Serving!SessionsAreTidy

(* _activate_database_path, with what its callers know.                    *)
LEMMA SessionsOpen ==
    ASSUME SessionsInv, phase = "idle", ~ended, NEW op \in {"open", "switch", "tool"},
           NEW i \in SessionIds, NEW f \in Files, NEW c \in Contexts,
           Serving!Open(op, i, f, c), known' = known, ended' = ended,
           bound' \in [Contexts -> SessionIds \cup {None}],
           \A d \in Contexts : bound'[d] # None => known[bound'[d]] # None,
           op = "open" => known[i] = None /\ \A k \in SessionIds : known[k] # f,
           op # "open" => known[i] = f,
           op = "tool" => bound'[c] = i
    PROVE  SessionsInv'
<1> USE SessionsConstants DEF SessionsInv
<1>1. /\ active' = None /\ phase' = "opening" /\ openDb' = None
      /\ task' = [op |-> op, id |-> i, file |-> f, context |-> c]
  BY DEF Serving!Open, OneIsOpen, SessionsTypeOK
<1>2. SessionsTypeOK'
  BY <1>1 DEF SessionsTypeOK
<1>3. OneIsOpen' /\ RequestFits'
  BY <1>1 DEF OneIsOpen, RequestFits
<1>4. ActivationFits'
  BY <1>1 DEF ActivationFits
<1>5. Serving!SessionsAreTidy'
  BY <1>1 DEF Serving!SessionsAreTidy
<1> QED BY <1>2, <1>3, <1>4, <1>5

(* _activate_session_locked, for a session that is there.                  *)
LEMMA SessionsActivate ==
    ASSUME SessionsInv, phase = "idle", ~ended, NEW op \in {"switch", "tool"},
           NEW i \in SessionIds, NEW c \in Contexts, known[i] # None,
           Serving!Activate(op, i, c), known' = known, ended' = ended,
           bound' \in [Contexts -> SessionIds \cup {None}],
           \A d \in Contexts : bound'[d] # None => known[bound'[d]] # None,
           op = "tool" => bound'[c] = i
    PROVE  SessionsInv'
<1>1. known[i] \in Files
  BY DEF SessionsInv, SessionsTypeOK
<1>2. CASE active # i
  <2>1. Serving!Open(op, i, known[i], c)
    BY <1>2 DEF Serving!Activate
  <2> QED BY <1>1, <2>1, SessionsOpen
<1>3. CASE active = i
  <2> USE SessionsConstants DEF SessionsInv
  <2>1. /\ phase' = IF op = "tool" THEN "running" ELSE "idle"
        /\ task' = IF op = "tool" THEN [Serving!NoTask EXCEPT !.op = op, !.context = c] ELSE Serving!NoTask
        /\ active' = active /\ openDb' = openDb
    BY <1>3 DEF Serving!Activate
  <2>2. op = "tool" => task'.context = c
    BY <2>1 DEF Serving!NoTask
  <2>3. SessionsTypeOK'
    BY <2>1 DEF SessionsTypeOK, Serving!NoTask
  <2>4. OneIsOpen' /\ ActivationFits'
    BY <2>1 DEF OneIsOpen, ActivationFits
  <2>5. RequestFits'
    BY <1>3, <2>1, <2>2 DEF RequestFits
  <2>6. Serving!SessionsAreTidy'
    BY <2>1 DEF Serving!SessionsAreTidy
  <2> QED BY <2>3, <2>4, <2>5, <2>6
<1> QED BY <1>2, <1>3

LEMMA SessionsBind ==
    ASSUME SessionsInv, NEW op \in {"switch", "tool"}, NEW i \in SessionIds, NEW c \in Contexts,
           Serving!Bind(op, i, c)
    PROVE  SessionsInv'
<1>1. /\ phase = "idle" /\ ~ended /\ known[i] # None /\ Serving!Activate(op, i, c)
      /\ known' = known /\ ended' = ended /\ bound' = [bound EXCEPT ![c] = i]
  BY DEF Serving!Bind, Serving!Idle
<1>2. bound' \in [Contexts -> SessionIds \cup {None}] /\ bound'[c] = i
  BY <1>1 DEF SessionsInv, SessionsTypeOK
<1>3. \A d \in Contexts : bound'[d] # None => known[bound'[d]] # None
  BY <1>1 DEF SessionsInv, SessionsTypeOK, Serving!SessionsAreTidy
<1> QED BY <1>1, <1>2, <1>3, SessionsActivate

LEMMA SessionsCall ==
    ASSUME SessionsInv, NEW c \in Contexts, Serving!CallTool(c) PROVE SessionsInv'
<1>1. /\ phase = "idle" /\ ~ended /\ bound[c] # None /\ Serving!Activate("tool", bound[c], c)
      /\ known' = known /\ ended' = ended /\ bound' = bound
  BY DEF Serving!CallTool, Serving!Idle
<1>2. bound[c] \in SessionIds /\ known[bound[c]] # None
  BY <1>1 DEF SessionsInv, SessionsTypeOK, Serving!SessionsAreTidy
<1>3. bound' \in [Contexts -> SessionIds \cup {None}] /\ bound'[c] = bound[c]
  BY <1>1 DEF SessionsInv, SessionsTypeOK
<1>4. \A d \in Contexts : bound'[d] # None => known[bound'[d]] # None
  BY <1>1 DEF SessionsInv, Serving!SessionsAreTidy
<1> QED BY <1>1, <1>2, <1>3, <1>4, SessionsActivate

LEMMA SessionsNext == ASSUME SessionsInv, Serving!Next PROVE SessionsInv'
<1> USE SessionsConstants
<1>1. ASSUME NEW f \in Files, NEW i \in SessionIds, NEW c \in Contexts, Serving!OpenBinary(f, i, c)
      PROVE  SessionsInv'
  <2>1. /\ phase = "idle" /\ ~ended /\ known[i] = None /\ \A k \in SessionIds : known[k] # f
        /\ Serving!Open("open", i, f, c) /\ known' = known /\ bound' = bound /\ ended' = ended
    BY <1>1 DEF Serving!OpenBinary, Serving!Idle
  <2>2. bound' \in [Contexts -> SessionIds \cup {None}]
    BY <2>1 DEF SessionsInv, SessionsTypeOK
  <2>3. \A d \in Contexts : bound'[d] # None => known[bound'[d]] # None
    BY <2>1 DEF SessionsInv, Serving!SessionsAreTidy
  <2> QED BY <2>1, <2>2, <2>3, SessionsOpen
<1>2. CASE Serving!OpenFails
  <2> USE <1>2 DEF Serving!OpenFails, Serving!Finish, Serving!NoTask, SessionsInv
  <2>1. SessionsTypeOK' /\ ActivationFits' /\ RequestFits'
    BY DEF SessionsTypeOK, ActivationFits, RequestFits
  <2>2. OneIsOpen' /\ Serving!SessionsAreTidy'
    BY DEF OneIsOpen, ActivationFits, Serving!SessionsAreTidy
  <2> QED BY <2>1, <2>2
<1>3. CASE Serving!OpenSucceeds
  <2> USE <1>3 DEF Serving!OpenSucceeds, SessionsInv
  <2>1. SessionsTypeOK' /\ RequestFits'
    BY DEF SessionsTypeOK, RequestFits, ActivationFits
  <2>2. ActivationFits' /\ OneIsOpen'
    BY DEF OneIsOpen, ActivationFits
  <2>3. Serving!SessionsAreTidy'
    BY DEF Serving!SessionsAreTidy
  <2> QED BY <2>1, <2>2, <2>3
<1>4. CASE Serving!NowActive
  <2> USE DEF SessionsInv
  <2>1. /\ phase = "opened" /\ ~ended /\ active' = task.id /\ bound' = bound /\ openDb' = openDb
        /\ known' = [known EXCEPT ![task.id] = task.file] /\ ended' = ended
        /\ task.id \in SessionIds /\ task.file \in Files /\ task.context \in Contexts
        /\ openDb = task.file
    BY <1>4 DEF Serving!NowActive, ActivationFits
  <2>2. known' \in [SessionIds -> Files \cup {None}] /\ known'[task.id] = task.file
    BY <2>1 DEF SessionsTypeOK
  <2>3. \/ phase' = "idle" /\ task' = Serving!NoTask
        \/ task.op = "open" /\ phase' = "analysing" /\ task' = task
        \/ task.op = "tool" /\ phase' = "running" /\ task' = task
    BY <1>4, <2>1 DEF Serving!NowActive, Serving!Finish, ActivationFits
  <2>4. SessionsTypeOK'
    BY <2>1, <2>2, <2>3 DEF SessionsTypeOK, Serving!NoTask
  <2>5. OneIsOpen' /\ ActivationFits'
    BY <2>1, <2>2, <2>3 DEF OneIsOpen, ActivationFits
  <2>6. RequestFits'
    BY <2>1, <2>3 DEF RequestFits, ActivationFits
  <2>7. \A i, k \in SessionIds : known'[i] = known'[k] /\ known'[i] # None => i = k
    <3>1. CASE task.op = "open"
      BY <2>1, <3>1 DEF ActivationFits, SessionsTypeOK, Serving!SessionsAreTidy
    <3>2. CASE task.op # "open"
      <4>1. known' = known
        BY <2>1, <3>2 DEF ActivationFits, SessionsTypeOK
      <4> QED BY <4>1 DEF Serving!SessionsAreTidy
    <3> QED BY <3>1, <3>2
  <2>8. \A c \in Contexts : bound'[c] # None => known'[bound'[c]] # None
    BY <2>1, <2>2 DEF SessionsTypeOK, Serving!SessionsAreTidy
  <2> QED BY <2>1, <2>4, <2>5, <2>6, <2>7, <2>8 DEF Serving!SessionsAreTidy
<1>5. CASE Serving!AnalysisEnds
  <2> USE DEF SessionsInv
  <2>1. /\ phase = "analysing" /\ active = task.id /\ active # None /\ task.context \in Contexts
        /\ bound' = [bound EXCEPT ![task.context] = task.id] /\ phase' = "idle" /\ task' = Serving!NoTask
        /\ UNCHANGED <<known, active, openDb, ended>>
    BY <1>5 DEF Serving!AnalysisEnds, Serving!Finish, RequestFits
  <2>2. SessionsTypeOK' /\ RequestFits' /\ ActivationFits' /\ OneIsOpen'
    BY <2>1 DEF SessionsTypeOK, RequestFits, ActivationFits, OneIsOpen, Serving!NoTask
  <2>3. \A c \in Contexts : bound'[c] # None => known'[bound'[c]] # None
    BY <2>1 DEF SessionsTypeOK, Serving!SessionsAreTidy, OneIsOpen
  <2> QED BY <2>1, <2>2, <2>3 DEF Serving!SessionsAreTidy
<1>6. CASE Serving!ToolEnds
  <2> USE <1>6 DEF Serving!ToolEnds, Serving!Finish, SessionsInv
  <2>1. SessionsTypeOK' /\ ActivationFits' /\ RequestFits'
    BY DEF SessionsTypeOK, ActivationFits, RequestFits, Serving!NoTask
  <2>2. OneIsOpen' /\ Serving!SessionsAreTidy'
    BY DEF OneIsOpen, RequestFits, Serving!SessionsAreTidy
  <2> QED BY <2>1, <2>2
<1>7. ASSUME NEW i \in SessionIds, Serving!CloseSession(i) PROVE SessionsInv'
  <2> USE DEF SessionsInv
  <2>1. /\ phase = "idle" /\ ~ended /\ UNCHANGED <<phase, task, ended>>
        /\ known' = [known EXCEPT ![i] = None]
        /\ bound' = [c \in Contexts |-> IF bound[c] = i THEN None ELSE bound[c]]
        /\ IF active = i THEN active' = None /\ openDb' = None ELSE active' = active /\ openDb' = openDb
    BY <1>7 DEF Serving!CloseSession, Serving!Idle
  <2>2. SessionsTypeOK'
    BY <2>1 DEF SessionsTypeOK
  <2>3. OneIsOpen' /\ ActivationFits' /\ RequestFits'
    BY <2>1 DEF SessionsTypeOK, OneIsOpen, ActivationFits, RequestFits
  <2>4. Serving!SessionsAreTidy'
    BY <2>1 DEF SessionsTypeOK, Serving!SessionsAreTidy
  <2> QED BY <2>2, <2>3, <2>4
<1>8. ASSUME NEW c \in Contexts, Serving!UnbindContext(c) PROVE SessionsInv'
  <2> USE <1>8 DEF Serving!UnbindContext, Serving!Idle, SessionsInv
  <2>1. SessionsTypeOK' /\ OneIsOpen' /\ ActivationFits' /\ RequestFits'
    BY DEF SessionsTypeOK, OneIsOpen, ActivationFits, RequestFits
  <2>2. Serving!SessionsAreTidy'
    BY DEF SessionsTypeOK, Serving!SessionsAreTidy
  <2> QED BY <2>1, <2>2
<1>9. CASE Serving!Signal
  <2> USE <1>9 DEF Serving!Signal, SessionsInv
  <2>1. SessionsTypeOK' /\ RequestFits'
    BY DEF SessionsTypeOK, RequestFits
  <2>2. ActivationFits' /\ OneIsOpen'
    BY DEF OneIsOpen, ActivationFits
  <2>3. Serving!SessionsAreTidy'
    BY DEF OneIsOpen, Serving!SessionsAreTidy
  <2> QED BY <2>1, <2>2, <2>3
<1> QED BY <1>1, <1>2, <1>3, <1>4, <1>5, <1>6, <1>7, <1>8, <1>9, SessionsBind, SessionsCall
        DEF Serving!Next, Serving!idalib_open, Serving!OpenTracked, Serving!idalib_switch,
            Serving!ManageSession

LEMMA SessionsSafe == ASSUME SessionsInv PROVE Serving!WorkerKeepsDatabases
BY DEF SessionsInv, OneIsOpen, RequestFits, Serving!WorkerKeepsDatabases,
       Serving!ToolsSeeTheirDatabase

LEMMA SessionsStay == ASSUME SessionsInv, UNCHANGED databasesVars PROVE SessionsInv'
BY DEF databasesVars, SessionsInv, SessionsTypeOK, OneIsOpen, ActivationFits, RequestFits,
       Serving!SessionsAreTidy

-----------------------------------------------------------------------------
(* The supervisor: its sessions and their worker processes.                *)
SupIds == Supervising!Ids
Binaries == Supervising!Binaries

(* Entries of the registry of sessions.                                    *)
Entries ==
    {s \in [backend : {"none", "worker", "gui"}, proc : Procs \cup {None}, path : Paths \cup {None},
            asked : Paths \cup {None}, by : Requests \cup {None}] :
        /\ s.backend = "none" => s = Supervising!NoSession
        /\ s.backend = "worker" <=> s.proc \in Procs
        /\ s.backend # "none" => s.path \in Paths /\ s.asked \in Paths}

Books == [sessions : [SupIds -> Entries], paths : [Paths -> SupIds \cup {None}],
          bound : [Contexts -> SupIds \cup {None}]]

(* A path that is no database of another leads to the one session that was *)
(* opened for it.                                                          *)
PathsLead(reg) ==
    \A i \in SupIds : reg.sessions[i].backend # "none" =>
        /\ reg.sessions[i].path \in Binaries => reg.paths[reg.sessions[i].path] = i
        /\ reg.sessions[i].asked \in Binaries => reg.paths[reg.sessions[i].asked] = i

BoundExist(reg) ==
    \A c \in Contexts : reg.bound[c] # None => reg.sessions[reg.bound[c]].backend # "none"

Stages == {"new", "spawning", "opening", "opened", "discarding", "binding", "listing", "done"}
Holding == {r \in Requests : stage[r] \in {"spawning", "opening", "opened", "discarding"}}

Jobs == [op : {"none", "open", "switch", "use", "list"}, path : Paths \cup {None},
         name : Names \cup {None}, id : SupIds \cup {None}, context : Contexts \cup {None},
         old : Entries]

SupervisorTypeOK ==
    /\ served \in {"one", "all"} /\ gui \subseteq Paths
    /\ proc \in [Procs -> {"off", "up", "gone"}]
    /\ registry \in Books
    /\ schema \in Procs \cup {None}
    /\ cached \in BOOLEAN /\ down \in BOOLEAN
    /\ lockedBy \in Requests \cup {None}
    /\ stage \in [Requests -> Stages]
    /\ job \in [Requests -> Jobs]
    /\ worker \in [Requests -> Procs \cup {None}]

(* What a request needs to go on.                                          *)
JobsFit ==
    \A r \in Requests :
        /\ r \in Holding \/ stage[r] = "listing" => worker[r] \in Procs
        /\ stage[r] \in {"opening", "opened"} => job[r].op \in {"open", "switch", "use"}
        /\ stage[r] \in {"spawning", "opening", "opened"} =>
              /\ job[r].op # "none"
              /\ job[r].op # "list" =>
                    job[r].path \in Paths /\ job[r].id \in SupIds /\ job[r].context \in Contexts
              /\ job[r].op \in {"switch", "use"} =>
                    job[r].old.backend = "gui" /\ job[r].path \in {job[r].old.path, job[r].old.asked}
        /\ stage[r] = "binding" => job[r].id \in SupIds /\ job[r].context \in Contexts

(* The lock is held while a worker starts, and there is no schema worker.  *)
LockIsHeld ==
    \A r \in Requests : stage[r] = "spawning" =>
        lockedBy = r /\ (schema # None => proc[schema] # "up")

(* A worker process is that of one session, or the schema worker, or in    *)
(* the hands of one request that is to register or to end it.              *)
OneOwner ==
    /\ schema # None =>
          /\ proc[schema] # "off"
          /\ \A i \in SupIds : registry.sessions[i].proc # schema
          /\ \A r \in Holding : worker[r] # schema
    /\ \A i \in SupIds : registry.sessions[i].proc # None =>
          /\ proc[registry.sessions[i].proc] # "off"
          /\ \A k \in SupIds : registry.sessions[k].proc = registry.sessions[i].proc => k = i
          /\ \A r \in Holding : worker[r] # registry.sessions[i].proc
    /\ \A r \in Holding :
          /\ proc[worker[r]] # "off"
          /\ \A q \in Holding : worker[q] = worker[r] => q = r

AllOwned ==
    \A w \in Procs : proc[w] = "up" =>
        \/ w = schema
        \/ \E i \in SupIds : registry.sessions[i].proc = w
        \/ \E r \in Holding : worker[r] = w

Up == {w \in Procs : proc[w] = "up"}

(* Requests that are served one by one.                                    *)
OneByOne ==
    served = "one" =>
        /\ \A q, r \in Supervising!Working : q = r
        /\ MaxWorkers = 0 \/ Cardinality(Up) <= MaxWorkers
        /\ BoundExist(registry)
        /\ ~down => \A r \in Requests : stage[r] = "binding" =>
              registry.sessions[job[r].id].backend # "none"

SupervisorInv ==
    /\ SupervisorTypeOK /\ JobsFit /\ LockIsHeld /\ OneOwner /\ AllOwned
    /\ PathsLead(registry) /\ IsFiniteSet(Up) /\ OneByOne

-----------------------------------------------------------------------------
LEMMA SupervisorConstants ==
    /\ Candidates \in [Paths -> SUBSET Paths]
    /\ \A p \in Paths : p \in Candidates[p]
    /\ MaxWorkers \in Nat
    /\ None \notin SupIds /\ None \notin Procs /\ None \notin Paths /\ None \notin Contexts
    /\ None \notin Requests /\ None \notin Names
    /\ Requests \subseteq SupIds /\ Names \subseteq SupIds
BY WorkersAssumption DEF Supervising!SupervisorAssumption, Supervising!Ids, SupIds

LEMMA BinaryPath ==
    ASSUME NEW p \in Binaries, NEW q \in Paths, p \in Candidates[q] PROVE p = q
BY DEF Binaries, Supervising!Binaries

LEMMA EntryTypes ==
    /\ Supervising!NoSession \in Entries
    /\ \A w \in Procs, p \in Paths, r \in Requests : Supervising!WorkerSession(w, p, r) \in Entries
    /\ \A p, q \in Paths, r \in Requests : Supervising!GuiSession(p, q, r) \in Entries
    /\ \A w \in Procs, p, q \in Paths, r \in Requests :
          [Supervising!WorkerSession(w, p, r) EXCEPT !.asked = q] \in Entries
BY SupervisorConstants
   DEF Entries, Supervising!NoSession, Supervising!WorkerSession, Supervising!GuiSession

LEMMA EntryParts ==
    ASSUME NEW s \in Entries
    PROVE  /\ s.backend \in {"none", "worker", "gui"} /\ s.proc \in Procs \cup {None}
           /\ s.backend = "none" <=> s = Supervising!NoSession
           /\ s.backend = "worker" <=> s.proc # None
           /\ s.backend = "worker" <=> s.proc \in Procs
           /\ s.backend # "none" => s.path \in Paths /\ s.asked \in Paths
           /\ s.path \in Paths \cup {None} /\ s.asked \in Paths \cup {None}
BY SupervisorConstants DEF Entries, Supervising!NoSession

LEMMA BookParts ==
    ASSUME NEW reg \in Books
    PROVE  /\ reg.sessions \in [SupIds -> Entries] /\ reg.paths \in [Paths -> SupIds \cup {None}]
           /\ reg.bound \in [Contexts -> SupIds \cup {None}]
           /\ \A i \in SupIds : reg.sessions[i] \in Entries
           /\ \A p \in Paths : reg.paths[p] \in SupIds \cup {None}
           /\ \A c \in Contexts : reg.bound[c] \in SupIds \cup {None}
BY DEF Books

-----------------------------------------------------------------------------
(* Operations on the books.                                                *)
LEMMA UnregisterBooks ==
    ASSUME NEW reg \in Books, NEW ids
    PROVE  LET new == Supervising!Unregistered(reg, ids) IN
           /\ new \in Books
           /\ \A i \in SupIds : new.sessions[i] = IF i \in ids THEN Supervising!NoSession
                                                  ELSE reg.sessions[i]
           /\ \A p \in Paths : new.paths[p] = IF reg.paths[p] \in ids THEN None ELSE reg.paths[p]
           /\ PathsLead(reg) => PathsLead(new)
           /\ BoundExist(reg) => BoundExist(new)
<1> DEFINE new == Supervising!Unregistered(reg, ids)
<1>1. new = [sessions |-> [i \in SupIds |-> IF i \in ids THEN Supervising!NoSession ELSE reg.sessions[i]],
             paths |-> [p \in Paths |-> IF reg.paths[p] \in ids THEN None ELSE reg.paths[p]],
             bound |-> [c \in Contexts |-> IF reg.bound[c] \in ids THEN None ELSE reg.bound[c]]]
  BY DEF Supervising!Unregistered, SupIds
<1> HIDE DEF new
<1>2. new \in Books
  BY <1>1, EntryTypes, BookParts DEF Books
<1>3. /\ \A i \in SupIds : new.sessions[i] = IF i \in ids THEN Supervising!NoSession ELSE reg.sessions[i]
      /\ \A p \in Paths : new.paths[p] = IF reg.paths[p] \in ids THEN None ELSE reg.paths[p]
      /\ \A c \in Contexts : new.bound[c] = IF reg.bound[c] \in ids THEN None ELSE reg.bound[c]
  BY <1>1
<1>4. Supervising!NoSession.backend = "none"
  BY DEF Supervising!NoSession
<1>5. PathsLead(reg) => PathsLead(new)
  <2> SUFFICES ASSUME PathsLead(reg), NEW i \in SupIds, new.sessions[i].backend # "none"
               PROVE  /\ new.sessions[i].path \in Binaries => new.paths[new.sessions[i].path] = i
                      /\ new.sessions[i].asked \in Binaries => new.paths[new.sessions[i].asked] = i
    BY DEF PathsLead
  <2>1. i \notin ids /\ new.sessions[i] = reg.sessions[i]
    BY <1>3, <1>4
  <2>2. reg.sessions[i].path \in Paths /\ reg.sessions[i].asked \in Paths
    BY <2>1, EntryParts, BookParts
  <2> QED BY <1>3, <2>1, <2>2 DEF PathsLead
<1>6. BoundExist(reg) => BoundExist(new)
  <2> SUFFICES ASSUME BoundExist(reg), NEW c \in Contexts, new.bound[c] # None
               PROVE  new.sessions[new.bound[c]].backend # "none"
    BY DEF BoundExist
  <2>1. reg.bound[c] \notin ids /\ new.bound[c] = reg.bound[c] /\ reg.bound[c] \in SupIds
    BY <1>3, BookParts
  <2> QED BY <1>3, <2>1 DEF BoundExist
<1> QED BY <1>2, <1>3, <1>5, <1>6 DEF new

LEMMA RegisterBooks ==
    ASSUME NEW reg \in Books, PathsLead(reg), NEW sid \in SupIds, NEW s \in Entries,
           s.backend # "none", NEW path \in Paths, NEW context \in Contexts \cup {None},
           s.path \in Candidates[path] \/ (s.path \in Binaries => reg.paths[s.path] = sid),
           s.asked \in Candidates[path] \/ (s.asked \in Binaries => reg.paths[s.asked] = sid),
           path \in Binaries => reg.paths[path] \in {None, sid}
    PROVE  LET new == Supervising!Registered(reg, sid, s, path, context) IN
           /\ new \in Books
           /\ \A i \in SupIds : new.sessions[i] = IF i = sid THEN s ELSE reg.sessions[i]
           /\ PathsLead(new)
           /\ BoundExist(reg) => BoundExist(new)
<1> DEFINE new == Supervising!Registered(reg, sid, s, path, context)
<1>1. new = [sessions |-> [reg.sessions EXCEPT ![sid] = s],
             paths |-> [p \in Paths |-> IF p \in Candidates[path] THEN sid ELSE reg.paths[p]],
             bound |-> [c \in Contexts |-> IF c = context THEN sid ELSE reg.bound[c]]]
  BY DEF Supervising!Registered
<1> HIDE DEF new
<1>2. new \in Books
  BY <1>1, BookParts DEF Books
<1>3. /\ \A i \in SupIds : new.sessions[i] = IF i = sid THEN s ELSE reg.sessions[i]
      /\ \A p \in Paths : new.paths[p] = IF p \in Candidates[path] THEN sid ELSE reg.paths[p]
      /\ \A c \in Contexts : new.bound[c] = IF c = context THEN sid ELSE reg.bound[c]
  BY <1>1, BookParts
<1>4. PathsLead(new)
  <2>1. s.path \in Paths /\ s.asked \in Paths
    BY EntryParts
  <2>2. /\ s.path \in Binaries => new.paths[s.path] = sid
        /\ s.asked \in Binaries => new.paths[s.asked] = sid
    BY <1>3, <2>1
  <2>3. ASSUME NEW i \in SupIds \ {sid}, NEW p \in Paths, p \in Binaries, reg.paths[p] = i
        PROVE  new.paths[p] = i
    <3>1. p \in Candidates[path] => p = path
      BY <2>3, BinaryPath
    <3>2. p # path
      BY <2>3, SupervisorConstants
    <3> QED BY <1>3, <2>3, <3>1, <3>2
  <2>4. ASSUME NEW i \in SupIds \ {sid}, reg.sessions[i].backend # "none"
        PROVE  /\ reg.sessions[i].path \in Binaries => new.paths[reg.sessions[i].path] = i
               /\ reg.sessions[i].asked \in Binaries => new.paths[reg.sessions[i].asked] = i
    <3>1. reg.sessions[i].path \in Paths /\ reg.sessions[i].asked \in Paths
      BY <2>4, EntryParts, BookParts
    <3> QED BY <2>3, <2>4, <3>1 DEF PathsLead
  <2> QED BY <1>3, <2>2, <2>4 DEF PathsLead
<1>5. BoundExist(reg) => BoundExist(new)
  BY <1>3, BookParts DEF BoundExist
<1> QED BY <1>2, <1>3, <1>4, <1>5 DEF new

LEMMA BindBooks ==
    ASSUME NEW reg \in Books, NEW c \in Contexts, NEW sid \in SupIds \cup {None}
    PROVE  LET new == Supervising!Bound(reg, c, sid) IN
           /\ new \in Books
           /\ new.sessions = reg.sessions /\ new.paths = reg.paths
           /\ PathsLead(reg) => PathsLead(new)
           /\ BoundExist(reg) /\ (sid # None => reg.sessions[sid].backend # "none") => BoundExist(new)
<1> DEFINE new == Supervising!Bound(reg, c, sid)
<1>1. /\ new.sessions = reg.sessions /\ new.paths = reg.paths /\ new \in Books
      /\ \A d \in Contexts : new.bound[d] = IF d = c THEN sid ELSE reg.bound[d]
  BY DEF Supervising!Bound, Books
<1> HIDE DEF new
<1>2. PathsLead(reg) => PathsLead(new)
  BY <1>1 DEF PathsLead
<1>3. BoundExist(reg) /\ (sid # None => reg.sessions[sid].backend # "none") => BoundExist(new)
  BY <1>1 DEF BoundExist
<1> QED BY <1>1, <1>2, <1>3 DEF new

-----------------------------------------------------------------------------
(* Steps of requests that several actions have in common.                  *)
LEMMA NoJobType == Supervising!NoJob \in Jobs
BY EntryTypes DEF Supervising!NoJob, Jobs

LEMMA RequestEnds ==
    ASSUME SupervisorTypeOK, NEW r \in Requests, Supervising!Ends(r)
    PROVE  /\ stage' \in [Requests -> Stages] /\ job' \in [Requests -> Jobs]
           /\ worker' \in [Requests -> Procs \cup {None}]
           /\ stage'[r] = "done"
           /\ \A q \in Requests \ {r} : stage'[q] = stage[q] /\ job'[q] = job[q] /\ worker'[q] = worker[q]
BY NoJobType DEF SupervisorTypeOK, Supervising!Ends, Stages

LEMMA RequestGoes ==
    ASSUME SupervisorTypeOK, NEW r \in Requests, NEW at \in Stages, Supervising!GoesTo(r, at)
    PROVE  /\ stage' \in [Requests -> Stages] /\ stage'[r] = at
           /\ \A q \in Requests \ {r} : stage'[q] = stage[q]
           /\ job' = job /\ worker' = worker
BY DEF SupervisorTypeOK, Supervising!GoesTo

LEMMA RequestSpawns ==
    ASSUME SupervisorTypeOK, NEW r \in Requests, Supervising!Spawn(r)
    PROVE  \E w \in Procs :
              /\ proc[w] = "off" /\ proc' = [proc EXCEPT ![w] = "up"]
              /\ worker' = [worker EXCEPT ![r] = w] /\ stage' = [stage EXCEPT ![r] = "spawning"]
              /\ lockedBy' = r
              /\ worker' \in [Requests -> Procs \cup {None}] /\ stage' \in [Requests -> Stages]
              /\ proc' \in [Procs -> {"off", "up", "gone"}]
<1>1. PICK w \in Procs : /\ proc[w] = "off" /\ proc' = [proc EXCEPT ![w] = "up"]
                         /\ worker' = [worker EXCEPT ![r] = w]
                         /\ stage' = [stage EXCEPT ![r] = "spawning"] /\ lockedBy' = r
  BY DEF Supervising!Spawn
<1>2. worker' \in [Requests -> Procs \cup {None}]
  BY <1>1 DEF SupervisorTypeOK
<1>3. stage' \in [Requests -> Stages]
  BY <1>1 DEF SupervisorTypeOK, Stages
<1>4. proc' \in [Procs -> {"off", "up", "gone"}]
  BY <1>1 DEF SupervisorTypeOK
<1> QED BY <1>1, <1>2, <1>3, <1>4

LEMMA PruneBooks ==
    ASSUME NEW reg \in Books
    PROVE  LET new == Supervising!Pruned(reg) IN
           /\ new \in Books
           /\ \A i \in SupIds : \/ new.sessions[i] = reg.sessions[i]
                                \/ /\ reg.sessions[i].backend = "worker"
                                   /\ proc[reg.sessions[i].proc] # "up"
                                   /\ new.sessions[i] = Supervising!NoSession
           /\ PathsLead(reg) => PathsLead(new)
           /\ BoundExist(reg) => BoundExist(new)
<1> DEFINE ids == {i \in SupIds : reg.sessions[i].backend = "worker"} \ Supervising!LiveWorkers(reg)
<1>1. Supervising!Pruned(reg) = Supervising!Unregistered(reg, ids)
  BY DEF Supervising!Pruned, SupIds
<1>2. \A i \in ids : reg.sessions[i].backend = "worker" /\ proc[reg.sessions[i].proc] # "up"
  BY DEF Supervising!LiveWorkers, Supervising!IsAlive, SupIds
<1> HIDE DEF ids
<1> QED BY <1>1, <1>2, UnregisterBooks

(* The worker of a request: the schema worker, or a new one.               *)
LEMMA AllocateTypes ==
    ASSUME SupervisorTypeOK, NEW r \in Requests, NEW reg \in Books, NEW j \in Jobs,
           Supervising!AllocateWorker(r, reg, j), served' = served, gui' = gui, down' = down
    PROVE  SupervisorTypeOK'
<1>1. Supervising!Pruned(reg) \in Books
  BY PruneBooks
<1>2. CASE Supervising!SchemaLives
  BY <1>2 DEF Supervising!AllocateWorker, Supervising!SchemaLives, SupervisorTypeOK, Stages
<1>3. CASE ~Supervising!SchemaLives /\ Supervising!Spawn(r)
  BY <1>1, <1>3, RequestSpawns DEF Supervising!AllocateWorker, SupervisorTypeOK
<1>4. CASE ~Supervising!SchemaLives /\ ~Supervising!Spawn(r)
  BY <1>1, <1>4, RequestEnds DEF Supervising!AllocateWorker, SupervisorTypeOK
<1> QED BY <1>2, <1>3, <1>4 DEF Supervising!AllocateWorker

LEMMA SelectedIds ==
    ASSUME SupervisorTypeOK, NEW selector \in SupIds \cup Paths \cup {None}, NEW c \in Contexts
    PROVE  Supervising!Selected(selector, c) \subseteq SupIds
<1>1. registry \in Books
  BY DEF SupervisorTypeOK
<1>2. CASE selector \in SupIds
  BY <1>2 DEF Supervising!Selected, SupIds
<1>3. CASE selector \notin SupIds /\ selector \in Paths
  <2>1. registry.paths[selector] \in SupIds \cup {None}
    BY <1>1, <1>3, BookParts
  <2> QED BY <1>3, <2>1 DEF Supervising!Selected, SupIds
<1>4. CASE selector \notin SupIds /\ selector \notin Paths
  <2>1. registry.bound[c] \in SupIds \cup {None}
    BY <1>1, BookParts
  <2> QED BY <1>4, <2>1 DEF Supervising!Selected, SupIds
<1> QED BY <1>2, <1>3, <1>4

LEMMA FoundTypes ==
    ASSUME SupervisorTypeOK, NEW r \in Requests, NEW j \in Jobs, Supervising!Found(r, j)
    PROVE  /\ stage' \in [Requests -> Stages] /\ job' \in [Requests -> Jobs]
           /\ worker' \in [Requests -> Procs \cup {None}]
           /\ \/ stage'[r] = "done"
              \/ stage'[r] = "binding" /\ job'[r] = j
           /\ \A q \in Requests \ {r} : stage'[q] = stage[q] /\ job'[q] = job[q] /\ worker'[q] = worker[q]
<1>1. CASE j.op = "switch"
  BY <1>1 DEF Supervising!Found, SupervisorTypeOK, Stages
<1>2. CASE j.op # "switch"
  BY <1>2, RequestEnds DEF Supervising!Found
<1> QED BY <1>1, <1>2

LEMMA Terminates ==
    ASSUME SupervisorTypeOK, NEW w
    PROVE  /\ Supervising!Terminated(w) \in [Procs -> {"off", "up", "gone"}]
           /\ \A v \in Procs : Supervising!Terminated(w)[v] = IF v = w THEN "gone" ELSE proc[v]
BY DEF SupervisorTypeOK, Supervising!Terminated

-----------------------------------------------------------------------------
(* Who has a worker: an owner keeps it, gives it up when it is dead, or    *)
(* hands it over.                                                          *)
LEMMA OwnersKeep ==
    ASSUME SupervisorTypeOK, SupervisorTypeOK', OneOwner, AllOwned,
           \A w \in Procs : proc[w] # "off" => proc'[w] # "off",
           \A w \in Procs : proc'[w] = "up" => proc[w] = "up",
           schema' = schema \/ (schema' = None /\ (schema # None => proc'[schema] # "up")),
           \A i \in SupIds : \/ registry'.sessions[i].proc = registry.sessions[i].proc
                             \/ /\ registry'.sessions[i].proc = None
                                /\ registry.sessions[i].proc # None =>
                                      proc'[registry.sessions[i].proc] # "up",
           \A r \in Holding' : r \in Holding /\ worker'[r] = worker[r],
           \A r \in Holding : r \notin Holding' => proc'[worker[r]] # "up",
           \A r \in Holding : worker[r] \in Procs
    PROVE  OneOwner' /\ AllOwned'
<1> USE SupervisorConstants
<1>1. /\ registry \in Books /\ registry' \in Books
      /\ schema \in Procs \cup {None}
    BY DEF SupervisorTypeOK
<1>2. \A i \in SupIds : registry.sessions[i].proc \in Procs \cup {None}
  BY <1>1, BookParts, EntryParts
<1>3. OneOwner'
  BY <1>1, <1>2 DEF OneOwner
<1>4. AllOwned'
  BY <1>1, <1>2 DEF AllOwned
<1> QED BY <1>3, <1>4

LEMMA OwnersTake ==
    ASSUME SupervisorTypeOK, SupervisorTypeOK', OneOwner, AllOwned,
           NEW w \in Procs, NEW r \in Requests, proc'[w] # "off",
           \A v \in Procs \ {w} : proc'[v] = proc[v],
           schema' # w,
           schema' = schema \/ (schema' = None /\ (schema \notin {None, w} => proc[schema] # "up")),
           \A i \in SupIds : registry'.sessions[i].proc # w,
           \A i \in SupIds : \/ registry'.sessions[i].proc = registry.sessions[i].proc
                             \/ /\ registry'.sessions[i].proc = None
                                /\ registry.sessions[i].proc \notin {None, w} =>
                                      proc[registry.sessions[i].proc] # "up",
           r \notin Holding, r \in Holding', worker'[r] = w,
           \A q \in Requests \ {r} : (q \in Holding' <=> q \in Holding) /\ worker'[q] = worker[q],
           \A q \in Holding : worker[q] \in Procs /\ worker[q] # w
    PROVE  OneOwner' /\ AllOwned'
<1> USE SupervisorConstants
<1>1. registry \in Books /\ registry' \in Books /\ schema \in Procs \cup {None}
    BY DEF SupervisorTypeOK
<1>2. \A i \in SupIds : registry.sessions[i].proc \in Procs \cup {None}
  BY <1>1, BookParts, EntryParts
<1>3. Holding \subseteq Requests /\ Holding' \subseteq Requests
  BY DEF Holding
<1>4. OneOwner'
  BY <1>1, <1>2, <1>3 DEF OneOwner
<1>5. AllOwned'
  BY <1>1, <1>2, <1>3 DEF AllOwned
<1> QED BY <1>4, <1>5

LEMMA OwnersGive ==
    ASSUME SupervisorTypeOK, SupervisorTypeOK', OneOwner, AllOwned,
           NEW r \in Requests, r \in Holding, proc' = proc,
           \A q \in Requests \ {r} : (q \in Holding' <=> q \in Holding) /\ worker'[q] = worker[q],
           r \notin Holding', \A q \in Holding : worker[q] \in Procs,
           \/ /\ schema' = worker[r] /\ (schema # None => proc[schema] # "up")
              /\ \A i \in SupIds : registry'.sessions[i].proc = registry.sessions[i].proc
           \/ /\ schema' = schema
              /\ \E sid \in SupIds :
                    /\ registry'.sessions[sid].proc = worker[r]
                    /\ registry.sessions[sid].proc # None => proc[registry.sessions[sid].proc] # "up"
                    /\ \A i \in SupIds \ {sid} :
                          \/ registry'.sessions[i].proc = registry.sessions[i].proc
                          \/ /\ registry'.sessions[i].proc = None
                             /\ registry.sessions[i].proc # None =>
                                   proc[registry.sessions[i].proc] # "up"
    PROVE  OneOwner' /\ AllOwned'
<1> USE SupervisorConstants
<1>1. registry \in Books /\ registry' \in Books /\ schema \in Procs \cup {None}
  BY DEF SupervisorTypeOK
<1>2. \A i \in SupIds : registry.sessions[i].proc \in Procs \cup {None}
  BY <1>1, BookParts, EntryParts
<1>3. Holding \subseteq Requests /\ Holding' \subseteq Requests
  BY DEF Holding
<1>4. CASE schema' = worker[r] /\ (schema # None => proc[schema] # "up")
           /\ \A i \in SupIds : registry'.sessions[i].proc = registry.sessions[i].proc
  <2>1. OneOwner'
    BY <1>1, <1>2, <1>3, <1>4 DEF OneOwner
  <2>2. AllOwned'
    BY <1>1, <1>2, <1>3, <1>4 DEF AllOwned
  <2> QED BY <2>1, <2>2
<1>5. ASSUME schema' = schema, NEW sid \in SupIds, registry'.sessions[sid].proc = worker[r],
             registry.sessions[sid].proc # None => proc[registry.sessions[sid].proc] # "up",
             \A i \in SupIds \ {sid} :
                \/ registry'.sessions[i].proc = registry.sessions[i].proc
                \/ /\ registry'.sessions[i].proc = None
                   /\ registry.sessions[i].proc # None => proc[registry.sessions[i].proc] # "up"
      PROVE  OneOwner' /\ AllOwned'
  <2>1. OneOwner'
    <3>1. schema' # None =>
             /\ proc'[schema'] # "off"
             /\ \A i \in SupIds : registry'.sessions[i].proc # schema'
             /\ \A q \in Holding' : worker'[q] # schema'
      BY <1>1, <1>2, <1>3, <1>5 DEF OneOwner
    <3>2. ASSUME NEW i \in SupIds, registry'.sessions[i].proc # None
          PROVE  /\ proc'[registry'.sessions[i].proc] # "off"
                 /\ \A k \in SupIds :
                       registry'.sessions[k].proc = registry'.sessions[i].proc => k = i
                 /\ \A q \in Holding' : worker'[q] # registry'.sessions[i].proc
      BY <1>1, <1>2, <1>3, <1>5, <3>2 DEF OneOwner
    <3>3. \A q \in Holding' : /\ proc'[worker'[q]] # "off"
                              /\ \A q2 \in Holding' : worker'[q2] = worker'[q] => q2 = q
      BY <1>1, <1>2, <1>3, <1>5 DEF OneOwner
    <3> QED BY <3>1, <3>2, <3>3 DEF OneOwner
  <2>2. AllOwned'
    BY <1>1, <1>2, <1>3, <1>5 DEF AllOwned
  <2> QED BY <2>1, <2>2
<1> QED BY <1>4, <1>5

-----------------------------------------------------------------------------
Workers ==
    /\ SupervisorTypeOK /\ JobsFit /\ LockIsHeld /\ OneOwner /\ AllOwned /\ PathsLead(registry)

LEMMA NoneSpawning ==
    ASSUME SupervisorTypeOK, LockIsHeld, NEW r \in Requests, lockedBy \in {None, r}
    PROVE  /\ \A q \in Requests \ {r} : stage[q] # "spawning"
           /\ lockedBy = None => stage[r] # "spawning"
BY SupervisorConstants DEF LockIsHeld

(* A request ends: what it held is dead.                                   *)
LEMMA WorkersEnd ==
    ASSUME Workers, SupervisorTypeOK', PathsLead(registry)', NEW r \in Requests, Supervising!Ends(r),
           lockedBy \in {None, r},
           \A w \in Procs : proc[w] # "off" => proc'[w] # "off",
           \A w \in Procs : proc'[w] = "up" => proc[w] = "up",
           schema' = schema \/ (schema' = None /\ (schema # None => proc'[schema] # "up")),
           \A i \in SupIds : \/ registry'.sessions[i] = registry.sessions[i]
                             \/ /\ registry'.sessions[i].proc = None
                                /\ registry.sessions[i].proc # None =>
                                      proc'[registry.sessions[i].proc] # "up",
           r \in Holding => proc'[worker[r]] # "up"
    PROVE  Workers'
<1> USE DEF Workers
<1>1. /\ stage'[r] = "done"
      /\ \A q \in Requests \ {r} : stage'[q] = stage[q] /\ job'[q] = job[q] /\ worker'[q] = worker[q]
  BY RequestEnds
<1>2. JobsFit'
  <2>1. \A q \in Holding' : q # r /\ q \in Holding
    BY <1>1 DEF Holding
  <2> QED BY <1>1, <2>1 DEF JobsFit
<1>3. LockIsHeld'
  BY <1>1, NoneSpawning DEF LockIsHeld
<1>4. /\ \A q \in Holding' : q \in Holding /\ worker'[q] = worker[q]
      /\ \A q \in Holding : q \notin Holding' => proc'[worker[q]] # "up"
      /\ \A q \in Holding : worker[q] \in Procs
  BY <1>1 DEF Holding, JobsFit
<1>5. OneOwner' /\ AllOwned'
  BY <1>4, OwnersKeep
<1> QED BY <1>2, <1>3, <1>5

(* Nothing changes but the state of processes.                             *)
LEMMA WorkersStay ==
    ASSUME Workers, SupervisorTypeOK', UNCHANGED <<stage, job, worker, lockedBy, registry, schema>>,
           \A w \in Procs : proc[w] # "off" => proc'[w] # "off",
           \A w \in Procs : proc'[w] = "up" => proc[w] = "up"
    PROVE  Workers'
<1> USE DEF Workers
<1>1. JobsFit' /\ PathsLead(registry)' /\ Holding' = Holding
  BY DEF JobsFit, PathsLead, Holding
<1>2. LockIsHeld'
  BY DEF LockIsHeld, SupervisorTypeOK
<1>3. \A q \in Holding : worker[q] \in Procs
  BY DEF Holding, JobsFit
<1>4. OneOwner' /\ AllOwned'
  BY <1>1, <1>3, OwnersKeep
<1> QED BY <1>1, <1>2, <1>4

(* A new request takes a worker: what is off belongs to nobody.            *)
LEMMA OffIsFree ==
    ASSUME Workers, NEW w \in Procs, proc[w] = "off"
    PROVE  /\ schema # w
           /\ \A i \in SupIds : registry.sessions[i].proc # w
           /\ \A q \in Holding : worker[q] # w
BY SupervisorConstants DEF Workers, OneOwner

LEMMA WorkersAllocate ==
    ASSUME Workers, NEW r \in Requests, lockedBy = None, stage[r] = "new",
           NEW reg \in Books, PathsLead(reg),
           \A i \in SupIds : \/ reg.sessions[i] = registry.sessions[i]
                             \/ /\ reg.sessions[i].proc = None
                                /\ registry.sessions[i].proc # None =>
                                      proc[registry.sessions[i].proc] # "up",
           NEW j \in Jobs, j.op \in {"open", "switch", "use"},
           j.path \in Paths /\ j.id \in SupIds /\ j.context \in Contexts,
           j.op # "open" => j.old.backend = "gui" /\ j.path \in {j.old.path, j.old.asked},
           Supervising!AllocateWorker(r, reg, j), served' = served, gui' = gui, down' = down
    PROVE  Workers'
<1> USE SupervisorConstants DEF Workers
<1>1. SupervisorTypeOK'
  BY AllocateTypes
<1>2. /\ Supervising!Pruned(reg) \in Books /\ PathsLead(Supervising!Pruned(reg))
      /\ \A i \in SupIds : \/ Supervising!Pruned(reg).sessions[i] = reg.sessions[i]
                           \/ /\ reg.sessions[i].backend = "worker"
                              /\ proc[reg.sessions[i].proc] # "up"
                              /\ Supervising!Pruned(reg).sessions[i] = Supervising!NoSession
  BY PruneBooks
<1>3. Supervising!NoSession.proc = None
  BY DEF Supervising!NoSession
<1>4. \A q \in Holding : worker[q] \in Procs
  BY DEF Holding, JobsFit
<1>5. \A q \in Requests : stage[q] # "spawning"
  BY NoneSpawning
<1>6. \A i \in SupIds : registry.sessions[i].proc \in Procs \cup {None}
  BY BookParts, EntryParts DEF SupervisorTypeOK
<1>7. \A i \in SupIds : reg.sessions[i].proc \in Procs \cup {None}
  BY BookParts, EntryParts
<1>8. CASE Supervising!SchemaLives
  <2>1. /\ schema \in Procs /\ proc[schema] = "up" /\ schema' = None /\ proc' = proc
        /\ worker' = [worker EXCEPT ![r] = schema] /\ stage' = [stage EXCEPT ![r] = "opening"]
        /\ job' = [job EXCEPT ![r] = j] /\ registry' = reg /\ lockedBy' = lockedBy
    BY <1>8 DEF Supervising!AllocateWorker, Supervising!SchemaLives, SupervisorTypeOK
  <2>2. /\ stage'[r] = "opening" /\ worker'[r] = schema /\ job'[r] = j
        /\ \A q \in Requests \ {r} : stage'[q] = stage[q] /\ job'[q] = job[q] /\ worker'[q] = worker[q]
    BY <2>1 DEF SupervisorTypeOK
  <2>3. JobsFit'
    BY <2>1, <2>2 DEF JobsFit, Holding
  <2>4. LockIsHeld'
    BY <1>5, <2>2 DEF LockIsHeld
  <2>5. /\ r \notin Holding /\ r \in Holding'
        /\ \A q \in Requests \ {r} : (q \in Holding' <=> q \in Holding) /\ worker'[q] = worker[q]
    BY <2>2 DEF Holding
  <2>6. /\ \A i \in SupIds : registry.sessions[i].proc # schema
        /\ \A q \in Holding : worker[q] # schema
    BY <2>1 DEF OneOwner
  <2>7. \A i \in SupIds : registry'.sessions[i].proc # schema
    BY <2>1, <2>6
  <2>8. \A i \in SupIds : \/ registry'.sessions[i].proc = registry.sessions[i].proc
                          \/ /\ registry'.sessions[i].proc = None
                             /\ registry.sessions[i].proc \notin {None, schema} =>
                                   proc[registry.sessions[i].proc] # "up"
    BY <2>1
  <2>9. OneOwner' /\ AllOwned'
    BY <1>1, <1>4, <2>1, <2>2, <2>5, <2>6, <2>7, <2>8, OwnersTake
  <2> QED BY <1>1, <2>1, <2>3, <2>4, <2>9
<1>9. CASE ~Supervising!SchemaLives /\ Supervising!Spawn(r) /\ job' = [job EXCEPT ![r] = j]
  <2>1. PICK w \in Procs : /\ proc[w] = "off" /\ proc' = [proc EXCEPT ![w] = "up"]
                           /\ worker' = [worker EXCEPT ![r] = w]
                           /\ stage' = [stage EXCEPT ![r] = "spawning"] /\ lockedBy' = r
    BY <1>9, RequestSpawns
  <2>2. /\ stage'[r] = "spawning" /\ worker'[r] = w /\ job'[r] = j
        /\ \A q \in Requests \ {r} : stage'[q] = stage[q] /\ job'[q] = job[q] /\ worker'[q] = worker[q]
        /\ proc'[w] = "up" /\ \A v \in Procs \ {w} : proc'[v] = proc[v]
    BY <1>9, <2>1 DEF SupervisorTypeOK
  <2>3. registry' = Supervising!Pruned(reg) /\ schema' = None
    BY <1>9 DEF Supervising!AllocateWorker
  <2>4. JobsFit'
    BY <2>2 DEF JobsFit, Holding
  <2>5. LockIsHeld'
    BY <1>5, <2>1, <2>2, <2>3 DEF LockIsHeld
  <2>6. /\ r \notin Holding /\ r \in Holding'
        /\ \A q \in Requests \ {r} : (q \in Holding' <=> q \in Holding) /\ worker'[q] = worker[q]
    BY <2>2 DEF Holding
  <2>7. /\ schema # w /\ \A i \in SupIds : registry.sessions[i].proc # w
        /\ \A q \in Holding : worker[q] # w
    BY <2>1, OffIsFree
  <2>8. \A i \in SupIds : \/ registry'.sessions[i].proc = registry.sessions[i].proc
                          \/ /\ registry'.sessions[i].proc = None
                             /\ registry.sessions[i].proc \notin {None, w} =>
                                   proc[registry.sessions[i].proc] # "up"
    <3> SUFFICES ASSUME NEW i \in SupIds
                 PROVE  \/ registry'.sessions[i].proc = registry.sessions[i].proc
                        \/ /\ registry'.sessions[i].proc = None
                           /\ registry.sessions[i].proc \notin {None, w} =>
                                 proc[registry.sessions[i].proc] # "up"
      OBVIOUS
    <3>1. CASE Supervising!Pruned(reg).sessions[i] = reg.sessions[i]
      BY <2>3, <3>1
    <3>2. CASE Supervising!Pruned(reg).sessions[i] = Supervising!NoSession
               /\ proc[reg.sessions[i].proc] # "up"
      BY <1>3, <2>3, <3>2
    <3> QED BY <1>2, <3>1, <3>2
  <2>9. \A i \in SupIds : registry'.sessions[i].proc # w
    BY <2>7, <2>8
  <2>10. schema # None => proc[schema] # "up"
    BY <1>9 DEF Supervising!SchemaLives
  <2>11. OneOwner' /\ AllOwned'
    BY <1>1, <1>4, <2>1, <2>2, <2>3, <2>6, <2>7, <2>8, <2>9, <2>10, OwnersTake
  <2>12. PathsLead(registry)'
    BY <1>2, <2>3
  <2> QED BY <1>1, <2>4, <2>5, <2>11, <2>12
<1>10. CASE ~Supervising!SchemaLives /\ Supervising!Ends(r) /\ proc' = proc
  <2>1. /\ registry' = Supervising!Pruned(reg) /\ schema' = None
        /\ schema # None => proc[schema] # "up"
    BY <1>10 DEF Supervising!AllocateWorker, Supervising!SchemaLives
  <2>2. ASSUME NEW i \in SupIds
        PROVE  \/ registry'.sessions[i] = registry.sessions[i]
               \/ /\ registry'.sessions[i].proc = None
                  /\ registry.sessions[i].proc # None => proc[registry.sessions[i].proc] # "up"
    <3>1. CASE Supervising!Pruned(reg).sessions[i] = reg.sessions[i]
      BY <2>1, <3>1
    <3>2. CASE Supervising!Pruned(reg).sessions[i] = Supervising!NoSession
               /\ proc[reg.sessions[i].proc] # "up"
      BY <1>3, <2>1, <3>2
    <3> QED BY <1>2, <3>1, <3>2
  <2>3. PathsLead(registry)' /\ r \notin Holding
    BY <1>2, <2>1 DEF Holding
  <2> QED BY <1>1, <1>10, <2>1, <2>2, <2>3, WorkersEnd
<1> QED BY <1>8, <1>9, <1>10 DEF Supervising!AllocateWorker

(* The entries that a request leaves or takes out of the registry.         *)
LEMMA EntriesStay ==
    ASSUME SupervisorTypeOK, registry' = registry
    PROVE  /\ \A i \in SupIds : registry'.sessions[i] = registry.sessions[i]
           /\ PathsLead(registry) => PathsLead(registry)'
BY DEF PathsLead

LEMMA DeadEntries ==
    ASSUME SupervisorTypeOK, NEW ids, NEW reg, reg = Supervising!Unregistered(registry, ids),
           \A i \in ids \cap SupIds : ~Supervising!IsAlive(registry.sessions[i])
    PROVE  \A i \in SupIds :
              \/ reg.sessions[i] = registry.sessions[i]
              \/ /\ reg.sessions[i].proc = None
                 /\ registry.sessions[i].proc # None => proc[registry.sessions[i].proc] # "up"
<1> SUFFICES ASSUME NEW i \in SupIds, i \in ids
             PROVE  /\ reg.sessions[i].proc = None
                    /\ registry.sessions[i].proc # None => proc[registry.sessions[i].proc] # "up"
  BY UnregisterBooks DEF SupervisorTypeOK
<1>1. reg.sessions[i] = Supervising!NoSession /\ registry.sessions[i] \in Entries
  BY UnregisterBooks, BookParts DEF SupervisorTypeOK
<1>2. registry.sessions[i].proc # None => registry.sessions[i].backend = "worker"
  BY <1>1, EntryParts
<1> QED BY <1>1, <1>2 DEF Supervising!NoSession, Supervising!IsAlive

(* The path of a session that is not open leads nowhere, or to a dead one. *)
LEMMA ClosedPath ==
    ASSUME SupervisorTypeOK, NEW p \in Paths, ~Supervising!IsOpen(registry, p)
    PROVE  \A i \in {registry.paths[p]} \cap SupIds : ~Supervising!IsAlive(registry.sessions[i])
BY SupervisorConstants DEF Supervising!IsOpen

LEMMA OpenKnownKeeps ==
    ASSUME Workers, NEW r \in Requests, NEW p \in Paths, NEW name \in Names \cup {None},
           NEW c \in Contexts, Supervising!OpenKnown(r, p, name, c)
    PROVE  Workers'
<1> USE DEF Workers
<1>1. /\ lockedBy = None /\ stage[r] = "new" /\ Supervising!Ends(r)
      /\ UNCHANGED <<served, gui, proc, schema, cached, lockedBy, down>>
      /\ registry' \in {registry, Supervising!Bound(registry, c, registry.paths[p])}
  BY DEF Supervising!OpenKnown, Supervising!Begins
<1>2. registry \in Books /\ registry.paths[p] \in SupIds \cup {None}
  BY BookParts DEF SupervisorTypeOK
<1>3. registry' \in Books /\ registry'.sessions = registry.sessions /\ PathsLead(registry)'
  BY <1>1, <1>2, BindBooks
<1>4. SupervisorTypeOK'
  BY <1>1, <1>3, RequestEnds DEF SupervisorTypeOK
<1>5. r \notin Holding
  BY <1>1 DEF Holding
<1> QED BY <1>1, <1>3, <1>4, <1>5, WorkersEnd

LEMMA OpenNewKeeps ==
    ASSUME Workers, NEW r \in Requests, NEW p \in Paths, NEW name \in Names \cup {None},
           NEW c \in Contexts, Supervising!OpenNew(r, p, name, c)
    PROVE  Workers'
<1> USE DEF Workers
<1> DEFINE reg == Supervising!Unregistered(registry, {registry.paths[p]})
           sid == IF name = None THEN r ELSE name
           j == [Supervising!NoJob EXCEPT !.op = "open", !.path = p, !.name = name, !.id = sid,
                                          !.context = c]
<1>1. /\ lockedBy = None /\ stage[r] = "new" /\ UNCHANGED <<served, gui, down>>
      /\ ~Supervising!IsOpen(registry, p)
  BY DEF Supervising!OpenNew, Supervising!Begins
<1>2. /\ reg \in Books /\ PathsLead(reg)
      /\ \A q \in Paths : reg.paths[q] = IF registry.paths[q] \in {registry.paths[p]} THEN None
                                         ELSE registry.paths[q]
  BY UnregisterBooks DEF SupervisorTypeOK
<1>3. \A i \in SupIds :
         \/ reg.sessions[i] = registry.sessions[i]
         \/ /\ reg.sessions[i].proc = None
            /\ registry.sessions[i].proc # None => proc[registry.sessions[i].proc] # "up"
  BY <1>1, ClosedPath, DeadEntries
<1>4. sid \in SupIds /\ r \notin Holding
  BY <1>1, SupervisorConstants DEF Holding
<1>5. CASE reg.sessions[sid] # Supervising!NoSession /\ registry' = reg /\ Supervising!Ends(r)
           /\ UNCHANGED <<proc, schema, cached, lockedBy>>
  <2> HIDE DEF reg, sid
  <2>1. SupervisorTypeOK' /\ PathsLead(registry)'
    BY <1>1, <1>2, <1>5, RequestEnds DEF SupervisorTypeOK
  <2> QED BY <1>1, <1>3, <1>4, <1>5, <2>1, WorkersEnd
<1>6. ASSUME NEW db \in Supervising!GuiInstances(p), reg.sessions[sid] = Supervising!NoSession,
             registry' = Supervising!Registered(reg, sid, Supervising!GuiSession(db, p, r), p, c),
             Supervising!Ends(r), UNCHANGED <<proc, schema, cached, lockedBy>>
      PROVE  Workers'
  <2> DEFINE s == Supervising!GuiSession(db, p, r)
  <2> HIDE DEF reg, sid
  <2>1. db \in Paths /\ db \in Candidates[p] /\ p \in Candidates[p]
    BY SupervisorConstants DEF Supervising!GuiInstances, SupervisorTypeOK
  <2>2. s \in Entries /\ s.backend = "gui" /\ s.path = db /\ s.asked = p /\ s.proc = None
    BY <2>1, EntryTypes DEF Supervising!GuiSession
  <2>3. reg.paths[p] = None
    BY <1>2
  <2> HIDE DEF s
  <2>4. /\ registry' \in Books /\ PathsLead(registry')
        /\ \A i \in SupIds : registry'.sessions[i] = IF i = sid THEN s ELSE reg.sessions[i]
    BY <1>2, <1>4, <1>6, <2>1, <2>2, <2>3, RegisterBooks DEF s
  <2>5. \A i \in SupIds :
           \/ registry'.sessions[i] = registry.sessions[i]
           \/ /\ registry'.sessions[i].proc = None
              /\ registry.sessions[i].proc # None => proc[registry.sessions[i].proc] # "up"
    <3>1. reg.sessions[sid].proc = None
      BY <1>6 DEF Supervising!NoSession
    <3> QED BY <1>3, <2>2, <2>4, <3>1
  <2>6. SupervisorTypeOK' /\ PathsLead(registry)'
    BY <1>1, <1>6, <2>4, RequestEnds DEF SupervisorTypeOK
  <2> QED BY <1>1, <1>4, <1>6, <2>5, <2>6, WorkersEnd
<1>7. CASE Supervising!AllocateWorker(r, reg, j)
  <2>1. /\ j \in Jobs /\ j.op = "open" /\ j.path = p /\ j.id = sid /\ j.context = c
    BY <1>4, NoJobType, Zenon DEF Jobs, Supervising!NoJob
  <2> HIDE DEF reg, sid, j
  <2> QED BY <1>1, <1>2, <1>3, <1>4, <1>7, <2>1, WorkersAllocate
<1> QED BY <1>5, <1>6, <1>7 DEF Supervising!OpenNew

LEMMA UseSessionKeeps ==
    ASSUME Workers, NEW r \in Requests, NEW op \in {"switch", "use"},
           NEW selector \in SupIds \cup Paths \cup {None},
           NEW c \in Contexts, Supervising!UseSession(r, op, selector, c)
    PROVE  Workers'
<1> USE DEF Workers
<1> DEFINE found == Supervising!Selected(selector, c)
<1>1. lockedBy = None /\ stage[r] = "new" /\ UNCHANGED <<served, gui, down>> /\ r \notin Holding
  BY DEF Supervising!UseSession, Supervising!Begins, Holding
<1>2. found \subseteq SupIds
  BY SelectedIds
<1>3. registry \in Books
  BY DEF SupervisorTypeOK
<1> HIDE DEF found
<1>4. ASSUME NEW i \in found,
             Supervising!Found(r, [Supervising!NoJob EXCEPT !.op = op, !.id = i, !.context = c]),
             UNCHANGED <<proc, registry, schema, cached, lockedBy>>
      PROVE  Workers'
  <2> DEFINE j == [Supervising!NoJob EXCEPT !.op = op, !.id = i, !.context = c]
  <2>1. j \in Jobs /\ j.op = op /\ j.id = i /\ j.context = c
    BY <1>2, NoJobType DEF Jobs, Supervising!NoJob
  <2>2. Supervising!Found(r, j)
    BY <1>4
  <2> HIDE DEF j
  <2>3. /\ stage' \in [Requests -> Stages] /\ job' \in [Requests -> Jobs]
        /\ worker' \in [Requests -> Procs \cup {None}]
        /\ \/ stage'[r] = "done"
           \/ stage'[r] = "binding" /\ job'[r] = j
        /\ \A q \in Requests \ {r} : stage'[q] = stage[q] /\ job'[q] = job[q] /\ worker'[q] = worker[q]
    BY <2>1, <2>2, FoundTypes
  <2>4. SupervisorTypeOK' /\ PathsLead(registry)'
    BY <1>1, <1>4, <2>3 DEF SupervisorTypeOK
  <2>5. JobsFit'
    BY <1>2, <2>1, <2>3 DEF JobsFit, Holding
  <2>6. LockIsHeld'
    BY <1>1, <2>3, NoneSpawning DEF LockIsHeld
  <2>7. /\ \A q \in Holding' : q \in Holding /\ worker'[q] = worker[q]
        /\ \A q \in Holding : q \in Holding' /\ worker[q] \in Procs
    BY <1>1, <2>3 DEF Holding, JobsFit
  <2>8. OneOwner' /\ AllOwned'
    BY <1>4, <2>4, <2>7, OwnersKeep
  <2> QED BY <2>4, <2>5, <2>6, <2>8
<1>5. ASSUME NEW i \in found, registry.sessions[i].backend = "gui",
             NEW p \in {registry.sessions[i].path, registry.sessions[i].asked},
             Supervising!AllocateWorker(r, registry,
                 [Supervising!NoJob EXCEPT !.op = op, !.path = p, !.id = i, !.context = c,
                                           !.old = registry.sessions[i]])
      PROVE  Workers'
  <2> DEFINE j == [Supervising!NoJob EXCEPT !.op = op, !.path = p, !.id = i, !.context = c,
                                            !.old = registry.sessions[i]]
  <2>1. registry.sessions[i] \in Entries /\ p \in Paths
    BY <1>2, <1>3, <1>5, BookParts, EntryParts
  <2>2. j \in Jobs /\ j.op = op /\ j.id = i /\ j.context = c /\ j.path = p /\ j.old = registry.sessions[i]
    BY <1>2, <2>1, NoJobType DEF Jobs, Supervising!NoJob
  <2>3. Supervising!AllocateWorker(r, registry, j)
    BY <1>5
  <2> HIDE DEF j
  <2> QED BY <1>1, <1>2, <1>3, <1>5, <2>1, <2>2, <2>3, WorkersAllocate
<1>6. CASE Supervising!Ends(r) /\ UNCHANGED <<proc, registry, schema, cached, lockedBy>>
  <2>1. SupervisorTypeOK' /\ PathsLead(registry)'
    BY <1>1, <1>6, RequestEnds DEF SupervisorTypeOK
  <2> QED BY <1>1, <1>6, <2>1, WorkersEnd
<1> QED BY <1>4, <1>5, <1>6 DEF Supervising!UseSession, Supervising!bookVars, found

LEMMA CloseSessionKeeps ==
    ASSUME Workers, NEW r \in Requests, NEW sid \in SupIds, Supervising!CloseSession(r, sid)
    PROVE  Workers'
<1> USE SupervisorConstants DEF Workers
<1> DEFINE reg == Supervising!Unregistered(registry, {sid})
           w == registry.sessions[sid].proc
<1>1. /\ lockedBy = None /\ stage[r] = "new" /\ r \notin Holding /\ registry' = reg
      /\ UNCHANGED <<served, gui, proc, schema, cached, lockedBy, down>>
  BY DEF Supervising!CloseSession, Supervising!Begins, Holding
<1>2. /\ reg \in Books /\ PathsLead(reg)
      /\ \A i \in SupIds : reg.sessions[i] = IF i = sid THEN Supervising!NoSession ELSE registry.sessions[i]
  BY UnregisterBooks DEF SupervisorTypeOK
<1>3. /\ registry.sessions[sid] \in Entries /\ w \in Procs \cup {None}
      /\ registry.sessions[sid].backend = "worker" <=> w # None
  BY BookParts, EntryParts DEF SupervisorTypeOK
<1>4. Supervising!NoSession.proc = None
  BY DEF Supervising!NoSession
<1>5. CASE w = None
  <2>1. Supervising!Ends(r)
    BY <1>3, <1>5 DEF Supervising!CloseSession
  <2> HIDE DEF reg
  <2>2. SupervisorTypeOK' /\ PathsLead(registry)'
    BY <1>1, <1>2, <2>1, RequestEnds DEF SupervisorTypeOK
  <2>3. \A i \in SupIds : registry'.sessions[i] = registry.sessions[i] \/
              (registry'.sessions[i].proc = None /\ registry.sessions[i].proc = None)
    BY <1>1, <1>2, <1>4, <1>5
  <2> QED BY <1>1, <2>1, <2>2, <2>3, WorkersEnd
<1>6. CASE w # None
  <2>1. /\ worker' = [worker EXCEPT ![r] = w] /\ stage' = [stage EXCEPT ![r] = "discarding"]
        /\ job' = job /\ w \in Procs
    BY <1>3, <1>6 DEF Supervising!CloseSession
  <2> HIDE DEF reg, w
  <2>2. /\ worker'[r] = w /\ stage'[r] = "discarding"
        /\ \A q \in Requests \ {r} : stage'[q] = stage[q] /\ job'[q] = job[q] /\ worker'[q] = worker[q]
    BY <2>1 DEF SupervisorTypeOK
  <2>3. SupervisorTypeOK' /\ PathsLead(registry)'
    BY <1>1, <1>2, <2>1 DEF SupervisorTypeOK, Stages
  <2>4. JobsFit'
    BY <2>1, <2>2 DEF JobsFit, Holding
  <2>5. LockIsHeld'
    BY <1>1, <2>2, NoneSpawning DEF LockIsHeld
  <2>6. /\ r \in Holding' /\ \A q \in Holding : worker[q] \in Procs
        /\ \A q \in Requests \ {r} : (q \in Holding' <=> q \in Holding) /\ worker'[q] = worker[q]
    BY <2>2 DEF Holding, JobsFit
  <2>7. /\ proc[w] # "off" /\ schema # w /\ \A q \in Holding : worker[q] # w
        /\ \A i \in SupIds : registry.sessions[i].proc = w => i = sid
    BY <2>1 DEF OneOwner, w
  <2>8. \A i \in SupIds : /\ registry'.sessions[i].proc # w
                          /\ \/ registry'.sessions[i].proc = registry.sessions[i].proc
                             \/ registry'.sessions[i].proc = None /\ registry.sessions[i].proc = w
    BY <1>1, <1>2, <1>4, <2>1, <2>7 DEF w
  <2>9. OneOwner' /\ AllOwned'
    BY <1>1, <2>1, <2>2, <2>3, <2>6, <2>7, <2>8, OwnersTake
  <2> QED BY <2>3, <2>4, <2>5, <2>9
<1> QED BY <1>5, <1>6

LEMMA UnbindKeeps ==
    ASSUME Workers, NEW r \in Requests, NEW c \in Contexts, NEW sid \in SupIds \cup {None},
           Supervising!Ends(r), registry' = Supervising!Bound(registry, c, sid), r \notin Holding,
           lockedBy \in {None, r}, UNCHANGED <<served, gui, proc, schema, cached, lockedBy, down>>
    PROVE  Workers'
<1> USE DEF Workers
<1>1. registry \in Books
  BY DEF SupervisorTypeOK
<1>2. registry' \in Books /\ registry'.sessions = registry.sessions /\ PathsLead(registry)'
  BY <1>1, BindBooks
<1>3. SupervisorTypeOK'
  BY <1>2, RequestEnds DEF SupervisorTypeOK
<1> QED BY <1>2, <1>3, WorkersEnd

LEMMA ListToolsKeeps ==
    ASSUME Workers, NEW r \in Requests, Supervising!ListTools(r) PROVE Workers'
<1> USE SupervisorConstants DEF Workers
<1>1. /\ lockedBy = None /\ stage[r] = "new" /\ UNCHANGED <<served, gui, down>> /\ r \notin Holding
      /\ registry' = registry /\ schema' = schema /\ cached' = cached
  BY DEF Supervising!ListTools, Supervising!Begins, Holding, Supervising!bookVars
<1>2. \A q \in Requests : stage[q] # "spawning"
  BY <1>1, NoneSpawning
<1>3. \A q \in Holding : worker[q] \in Procs
  BY DEF Holding, JobsFit
<1>4. CASE Supervising!Ends(r) /\ UNCHANGED <<proc, lockedBy>>
  <2>1. SupervisorTypeOK' /\ PathsLead(registry)'
    BY <1>1, <1>4, RequestEnds DEF SupervisorTypeOK
  <2> QED BY <1>1, <1>4, <2>1, WorkersEnd
<1>5. ASSUME NEW w \in Procs, worker' = [worker EXCEPT ![r] = w], job' = job,
             stage' = [stage EXCEPT ![r] = "listing"], UNCHANGED <<proc, lockedBy>>
      PROVE  Workers'
  <2>1. /\ worker'[r] = w /\ stage'[r] = "listing"
        /\ \A q \in Requests \ {r} : stage'[q] = stage[q] /\ job'[q] = job[q] /\ worker'[q] = worker[q]
    BY <1>5 DEF SupervisorTypeOK
  <2>2. SupervisorTypeOK' /\ PathsLead(registry)'
    BY <1>1, <1>5 DEF SupervisorTypeOK, Stages
  <2>3. JobsFit'
    BY <2>1 DEF JobsFit, Holding
  <2>4. LockIsHeld'
    BY <1>2, <2>1 DEF LockIsHeld
  <2>5. \A q \in Requests : (q \in Holding' <=> q \in Holding) /\ (q \in Holding => worker'[q] = worker[q])
    BY <1>1, <2>1 DEF Holding
  <2>6. Holding \subseteq Requests /\ Holding' \subseteq Requests
    BY DEF Holding
  <2>7. OneOwner' /\ AllOwned'
    BY <1>1, <1>3, <1>5, <2>2, <2>5, <2>6, OwnersKeep
  <2> QED BY <2>2, <2>3, <2>4, <2>7
<1>6. CASE ~Supervising!SchemaLives /\ Supervising!Spawn(r)
           /\ job' = [job EXCEPT ![r] = [Supervising!NoJob EXCEPT !.op = "list"]]
  <2> DEFINE j == [Supervising!NoJob EXCEPT !.op = "list"]
  <2>1. PICK w \in Procs : /\ proc[w] = "off" /\ proc' = [proc EXCEPT ![w] = "up"]
                           /\ worker' = [worker EXCEPT ![r] = w]
                           /\ stage' = [stage EXCEPT ![r] = "spawning"] /\ lockedBy' = r
                           /\ worker' \in [Requests -> Procs \cup {None}] /\ stage' \in [Requests -> Stages]
                           /\ proc' \in [Procs -> {"off", "up", "gone"}]
    BY <1>6, RequestSpawns
  <2>2. j \in Jobs /\ j.op = "list"
    BY NoJobType DEF Jobs, Supervising!NoJob
  <2> HIDE DEF j
  <2>3. job' = [job EXCEPT ![r] = j]
    BY <1>6 DEF j
  <2>4. SupervisorTypeOK' /\ PathsLead(registry)'
    BY <1>1, <2>1, <2>2, <2>3 DEF SupervisorTypeOK
  <2>5. /\ stage'[r] = "spawning" /\ worker'[r] = w /\ job'[r] = j
        /\ \A q \in Requests \ {r} : stage'[q] = stage[q] /\ job'[q] = job[q] /\ worker'[q] = worker[q]
        /\ proc'[w] = "up" /\ \A v \in Procs \ {w} : proc'[v] = proc[v]
    BY <2>1, <2>3 DEF SupervisorTypeOK
  <2>6. JobsFit'
    BY <2>2, <2>5 DEF JobsFit, Holding
  <2>7. /\ schema # w /\ \A i \in SupIds : registry.sessions[i].proc # w
        /\ \A q \in Holding : worker[q] # w
    BY <2>1, OffIsFree
  <2>8. schema \in Procs \cup {None} /\ (schema # None => proc[schema] # "up")
    BY <1>6 DEF Supervising!SchemaLives, SupervisorTypeOK
  <2>9. LockIsHeld'
    BY <1>1, <1>2, <2>1, <2>5, <2>7, <2>8 DEF LockIsHeld
  <2>10. /\ r \in Holding'
         /\ \A q \in Requests \ {r} : (q \in Holding' <=> q \in Holding) /\ worker'[q] = worker[q]
    BY <2>5 DEF Holding
  <2>11. OneOwner' /\ AllOwned'
    BY <1>1, <1>3, <2>4, <2>5, <2>7, <2>10, OwnersTake
  <2> QED BY <2>4, <2>6, <2>9, <2>11
<1>7. ASSUME NEW i \in Supervising!LiveWorkers(registry) PROVE registry.sessions[i].proc \in Procs
  BY <1>7, BookParts, EntryParts DEF Supervising!LiveWorkers, SupIds, SupervisorTypeOK
<1>8. Supervising!SchemaLives => schema \in Procs
  BY DEF Supervising!SchemaLives, SupervisorTypeOK
<1> QED BY <1>4, <1>5, <1>6, <1>7, <1>8 DEF Supervising!ListTools, Supervising!bookVars

-----------------------------------------------------------------------------
(* A request that goes on, with the worker in its hands.                   *)
LEMMA WorkersGo ==
    ASSUME Workers, SupervisorTypeOK', PathsLead(registry)', NEW r \in Requests, r \in Holding,
           NEW at \in {"opening", "opened", "discarding"}, Supervising!GoesTo(r, at),
           lockedBy \in {None, r}, at = "opening" => job[r].op # "list",
           at = "opened" => stage[r] = "opening",
           proc' = proc, schema' = schema,
           \A i \in SupIds : \/ registry'.sessions[i] = registry.sessions[i]
                             \/ /\ registry'.sessions[i].proc = None
                                /\ registry.sessions[i].proc # None =>
                                      proc[registry.sessions[i].proc] # "up",
           at = "opening" => stage[r] = "spawning"
    PROVE  Workers'
<1> USE DEF Workers
<1>1. /\ stage'[r] = at /\ job' = job /\ worker' = worker
      /\ \A q \in Requests \ {r} : stage'[q] = stage[q]
  BY RequestGoes DEF Stages
<1>2. Holding' = Holding
  BY <1>1 DEF Holding
<1>3. JobsFit'
  <2>1. job[r].op \in {"none", "open", "switch", "use", "list"}
    BY DEF SupervisorTypeOK, Jobs
  <2> QED BY <1>1, <1>2, <2>1 DEF JobsFit
<1>4. LockIsHeld'
  BY <1>1, NoneSpawning DEF LockIsHeld
<1>5. \A q \in Holding : worker[q] \in Procs
  BY DEF Holding, JobsFit
<1>6. OneOwner' /\ AllOwned'
  BY <1>1, <1>2, <1>5, OwnersKeep
<1> QED BY <1>3, <1>4, <1>6

(* It ends its worker.                                                     *)
LEMMA WorkersKill ==
    ASSUME Workers, NEW r \in Requests, r \in Holding, Supervising!Ends(r), lockedBy \in {None, r},
           proc' = Supervising!Terminated(worker[r]), lockedBy' \in {None, lockedBy},
           UNCHANGED <<served, gui, registry, schema, cached, down>>
    PROVE  Workers'
<1> USE DEF Workers
<1>1. worker[r] \in Procs
  BY DEF JobsFit
<1>2. /\ proc' \in [Procs -> {"off", "up", "gone"}]
      /\ \A v \in Procs : proc'[v] = IF v = worker[r] THEN "gone" ELSE proc[v]
  BY Terminates
<1>3. SupervisorTypeOK' /\ PathsLead(registry)'
  BY <1>2, RequestEnds DEF SupervisorTypeOK
<1> QED BY <1>1, <1>2, <1>3, WorkersEnd

(* It registers its worker.                                                *)
LEMMA WorkersGive ==
    ASSUME Workers, SupervisorTypeOK', PathsLead(registry)', NEW r \in Requests, r \in Holding,
           \A q \in Requests \ {r} : stage'[q] = stage[q] /\ job'[q] = job[q] /\ worker'[q] = worker[q],
           stage'[r] = "done" \/
              (stage'[r] = "binding" /\ job'[r].id \in SupIds /\ job'[r].context \in Contexts),
           lockedBy \in {None, r}, proc' = proc, schema' = schema,
           NEW sid \in SupIds, registry'.sessions[sid].proc = worker[r],
           registry.sessions[sid].proc # None => proc[registry.sessions[sid].proc] # "up",
           \A i \in SupIds \ {sid} :
              \/ registry'.sessions[i] = registry.sessions[i]
              \/ /\ registry'.sessions[i].proc = None
                 /\ registry.sessions[i].proc # None => proc[registry.sessions[i].proc] # "up"
    PROVE  Workers'
<1> USE DEF Workers
<1>1. JobsFit'
  BY DEF JobsFit, Holding
<1>2. LockIsHeld'
  BY NoneSpawning DEF LockIsHeld
<1>3. /\ r \notin Holding' /\ \A q \in Holding : worker[q] \in Procs
      /\ \A q \in Requests \ {r} : (q \in Holding' <=> q \in Holding) /\ worker'[q] = worker[q]
  BY DEF Holding, JobsFit
<1>4. OneOwner' /\ AllOwned'
  <2>1. \A i \in SupIds \ {sid} :
           \/ registry'.sessions[i].proc = registry.sessions[i].proc
           \/ /\ registry'.sessions[i].proc = None
              /\ registry.sessions[i].proc # None => proc[registry.sessions[i].proc] # "up"
    OBVIOUS
  <2> QED BY <1>3, <2>1, OwnersGive
<1> QED BY <1>1, <1>2, <1>4

LEMMA WorkerReadyKeeps ==
    ASSUME Workers, NEW r \in Requests, Supervising!WorkerReady(r) PROVE Workers'
<1> USE SupervisorConstants DEF Workers
<1>1. /\ stage[r] = "spawning" /\ lockedBy \in {None, r} /\ lockedBy' = None /\ r \in Holding
      /\ UNCHANGED <<served, gui, proc, registry, cached, job, worker, down>>
  BY DEF Supervising!WorkerReady, Supervising!GoesOn, Holding
<1>2. CASE job[r].op # "list"
  <2>1. stage' = [stage EXCEPT ![r] = "opening"] /\ schema' = schema
    BY <1>2 DEF Supervising!WorkerReady
  <2>2. Supervising!GoesTo(r, "opening")
    BY <1>1, <2>1 DEF Supervising!GoesTo
  <2>3. SupervisorTypeOK' /\ PathsLead(registry)'
    BY <1>1, <2>1 DEF SupervisorTypeOK, Stages
  <2> QED BY <1>1, <1>2, <2>1, <2>2, <2>3, WorkersGo
<1>3. CASE job[r].op = "list"
  <2>1. /\ stage' = [stage EXCEPT ![r] = "listing"] /\ schema' = worker[r]
        /\ worker[r] \in Procs /\ (schema # None => proc[schema] # "up")
    BY <1>1, <1>3 DEF Supervising!WorkerReady, JobsFit, LockIsHeld
  <2>2. stage'[r] = "listing" /\ \A q \in Requests \ {r} : stage'[q] = stage[q]
    BY <2>1 DEF SupervisorTypeOK
  <2>3. SupervisorTypeOK' /\ PathsLead(registry)'
    BY <1>1, <2>1 DEF SupervisorTypeOK, Stages
  <2>4. JobsFit'
    BY <1>1, <2>1, <2>2 DEF JobsFit, Holding
  <2>5. LockIsHeld'
    BY <1>1, <2>2, NoneSpawning DEF LockIsHeld
  <2>6. /\ r \notin Holding' /\ \A q \in Holding : worker[q] \in Procs
        /\ \A q \in Requests \ {r} : (q \in Holding' <=> q \in Holding) /\ worker'[q] = worker[q]
    BY <1>1, <2>2 DEF Holding, JobsFit
  <2>7. OneOwner' /\ AllOwned'
    BY <1>1, <2>1, <2>3, <2>6, OwnersGive
  <2> QED BY <2>3, <2>4, <2>5, <2>7
<1> QED BY <1>2, <1>3

LEMMA WorkerOpensKeeps ==
    ASSUME Workers, NEW r \in Requests, Supervising!WorkerOpens(r) PROVE Workers'
<1> USE DEF Workers
<1>1. /\ stage[r] = "opening" /\ lockedBy \in {None, r} /\ r \in Holding
      /\ stage' = [stage EXCEPT ![r] = "opened"]
      /\ UNCHANGED <<served, gui, proc, registry, schema, cached, lockedBy, job, worker, down>>
  BY DEF Supervising!WorkerOpens, Supervising!GoesOn, Supervising!bookVars, Holding
<1>2. Supervising!GoesTo(r, "opened")
  BY <1>1 DEF Supervising!GoesTo
<1>3. SupervisorTypeOK' /\ PathsLead(registry)'
  BY <1>1 DEF SupervisorTypeOK, Stages
<1> QED BY <1>1, <1>2, <1>3, WorkersGo

(* What open_session finds when its worker has opened the database.        *)
LEMMA RegisterOpenedKeeps ==
    ASSUME Workers, NEW r \in Requests, Supervising!RegisterOpened(r) PROVE Workers'
<1> USE SupervisorConstants DEF Workers
<1> DEFINE p == job[r].path
           sid == job[r].id
           c == job[r].context
           other == registry.paths[p]
           reg == IF Supervising!IsOpen(registry, p) THEN registry
                  ELSE Supervising!Unregistered(registry, {other})
           s == Supervising!WorkerSession(worker[r], p, r)
           new == Supervising!Unregistered(reg, {sid})
<1>1. /\ stage[r] = "opened" /\ lockedBy \in {None, r} /\ r \in Holding
      /\ UNCHANGED <<served, gui, proc, schema, cached, lockedBy, down>>
      /\ p \in Paths /\ sid \in SupIds /\ c \in Contexts /\ worker[r] \in Procs
  BY DEF Supervising!RegisterOpened, Supervising!GoesOn, Holding, JobsFit
<1>2. registry \in Books /\ other \in SupIds \cup {None}
  BY <1>1, BookParts DEF SupervisorTypeOK
<1>3. ASSUME ~Supervising!IsOpen(registry, p)
      PROVE  /\ reg \in Books /\ PathsLead(reg) /\ reg.paths[p] = None
             /\ \A i \in SupIds :
                  \/ reg.sessions[i] = registry.sessions[i]
                  \/ /\ reg.sessions[i].proc = None
                     /\ registry.sessions[i].proc # None => proc[registry.sessions[i].proc] # "up"
  <2>1. reg = Supervising!Unregistered(registry, {other})
    BY <1>3
  <2>2. \A i \in {other} \cap SupIds : ~Supervising!IsAlive(registry.sessions[i])
    BY <1>1, <1>3, ClosedPath
  <2> HIDE DEF reg
  <2>3. reg \in Books /\ PathsLead(reg)
    BY <1>2, <2>1, UnregisterBooks
  <2>4. reg.paths[p] = None
    <3>1. \A q \in Paths : reg.paths[q] = IF registry.paths[q] \in {other} THEN None ELSE registry.paths[q]
      <4> HIDE DEF other
      <4> QED BY <1>2, <2>1, UnregisterBooks
    <3> QED BY <1>1, <3>1
  <2>5. \A i \in SupIds :
           \/ reg.sessions[i] = registry.sessions[i]
           \/ /\ reg.sessions[i].proc = None
              /\ registry.sessions[i].proc # None => proc[registry.sessions[i].proc] # "up"
    <3> HIDE DEF other
    <3> QED BY <2>1, <2>2, DeadEntries
  <2> QED BY <2>3, <2>4, <2>5
<1>4. CASE Supervising!IsOpen(registry, p) /\ registry' = Supervising!Bound(registry, c, other)
           /\ Supervising!GoesTo(r, "discarding")
  <2>1. registry' \in Books /\ registry'.sessions = registry.sessions /\ PathsLead(registry)'
    BY <1>1, <1>2, <1>4, BindBooks
  <2>2. SupervisorTypeOK'
    BY <1>1, <1>4, <2>1, RequestGoes DEF SupervisorTypeOK, Stages
  <2> QED BY <1>1, <1>4, <2>1, <2>2, WorkersGo
<1>5. CASE ~Supervising!IsOpen(registry, p) /\ registry' = reg /\ Supervising!GoesTo(r, "discarding")
  <2> HIDE DEF reg
  <2>1. SupervisorTypeOK' /\ PathsLead(registry)'
    BY <1>1, <1>3, <1>5, RequestGoes DEF SupervisorTypeOK, Stages
  <2> QED BY <1>1, <1>3, <1>5, <2>1, WorkersGo
<1>6. CASE /\ ~Supervising!IsOpen(registry, p)
           /\ reg.sessions[sid] = Supervising!NoSession \/ ~Supervising!IsAlive(reg.sessions[sid])
           /\ registry' = Supervising!Registered(new, sid, s, p, c)
           /\ Supervising!Ends(r)
  <2> HIDE DEF reg, p, sid, c
  <2>1. /\ reg \in Books /\ PathsLead(reg) /\ reg.paths[p] = None
        /\ \A i \in SupIds :
              \/ reg.sessions[i] = registry.sessions[i]
              \/ /\ reg.sessions[i].proc = None
                 /\ registry.sessions[i].proc # None => proc[registry.sessions[i].proc] # "up"
    BY <1>3, <1>6
  <2>2. s \in Entries /\ s.backend = "worker" /\ s.path = p /\ s.asked = p /\ s.proc = worker[r]
    BY <1>1, EntryTypes DEF Supervising!WorkerSession
  <2>3. /\ new \in Books /\ PathsLead(new)
        /\ \A i \in SupIds : new.sessions[i] = IF i \in {sid} THEN Supervising!NoSession ELSE reg.sessions[i]
        /\ new.paths[p] = None
    BY <1>1, <2>1, UnregisterBooks
  <2> HIDE DEF s, new
  <2>4. /\ registry' \in Books /\ PathsLead(registry')
        /\ \A i \in SupIds : registry'.sessions[i] = IF i = sid THEN s ELSE new.sessions[i]
    BY <1>1, <1>6, <2>2, <2>3, RegisterBooks
  <2>5. SupervisorTypeOK' /\ PathsLead(registry)'
    BY <1>1, <1>6, <2>4, RequestEnds DEF SupervisorTypeOK
  <2>6. registry.sessions[sid].proc # None => proc[registry.sessions[sid].proc] # "up"
    <3>1. reg.sessions[sid] \in Entries
      BY <1>1, <2>1, BookParts
    <3>2. reg.sessions[sid].proc # None => proc[reg.sessions[sid].proc] # "up"
      BY <1>6, <3>1, EntryParts DEF Supervising!IsAlive, Supervising!NoSession
    <3> QED BY <1>1, <2>1, <3>2
  <2>7. registry'.sessions[sid].proc = worker[r]
    BY <1>1, <2>2, <2>4
  <2>8. \A i \in SupIds \ {sid} :
           \/ registry'.sessions[i] = registry.sessions[i]
           \/ /\ registry'.sessions[i].proc = None
              /\ registry.sessions[i].proc # None => proc[registry.sessions[i].proc] # "up"
    <3> SUFFICES ASSUME NEW i \in SupIds \ {sid}
                 PROVE  registry'.sessions[i] = reg.sessions[i]
      BY <2>1
    <3> QED BY <2>3, <2>4
  <2>9. /\ stage'[r] = "done"
        /\ \A q \in Requests \ {r} : stage'[q] = stage[q] /\ job'[q] = job[q] /\ worker'[q] = worker[q]
    BY <1>6, RequestEnds
  <2> QED BY <1>1, <2>5, <2>6, <2>7, <2>8, <2>9, WorkersGive
<1> QED BY <1>4, <1>5, <1>6 DEF Supervising!RegisterOpened

(* What _reopen_gui_session_headless finds.                                *)
LEMMA RegisterReopenedKeeps ==
    ASSUME Workers, NEW r \in Requests, Supervising!RegisterReopened(r) PROVE Workers'
<1> USE SupervisorConstants DEF Workers
<1> DEFINE p == job[r].path
           sid == job[r].id
           old == job[r].old
           now == registry.sessions[sid]
           s == [Supervising!WorkerSession(worker[r], p, r) EXCEPT !.asked = old.asked]
<1>1. /\ stage[r] = "opened" /\ lockedBy \in {None, r} /\ r \in Holding
      /\ UNCHANGED <<served, gui, proc, schema, cached, lockedBy, down>>
      /\ p \in Paths /\ sid \in SupIds /\ job[r].context \in Contexts /\ worker[r] \in Procs
      /\ old.backend = "gui" /\ p \in {old.path, old.asked}
  BY DEF Supervising!RegisterReopened, Supervising!GoesOn, Holding, JobsFit
<1>2. registry \in Books /\ job[r] \in Jobs /\ old \in Entries
  BY <1>1 DEF SupervisorTypeOK, Jobs
<1>3. old.path \in Paths /\ old.asked \in Paths /\ old.proc = None
  BY <1>1, <1>2, EntryParts
<1>4. CASE now = old /\ registry' = Supervising!Registered(registry, sid, s, p, None)
           /\ Supervising!Found(r, job[r])
  <2> HIDE DEF p, sid, old
  <2>1. /\ s \in Entries /\ s.backend = "worker" /\ s.path = p /\ s.asked = old.asked
        /\ s.proc = worker[r]
    BY <1>1, <1>3, EntryTypes DEF Supervising!WorkerSession
  <2>2. /\ old.path \in Binaries => registry.paths[old.path] = sid
        /\ old.asked \in Binaries => registry.paths[old.asked] = sid
    BY <1>1, <1>4 DEF PathsLead
  <2>3. p \in Binaries => registry.paths[p] = sid
    BY <1>1, <2>2
  <2> HIDE DEF s
  <2>4. /\ registry' \in Books /\ PathsLead(registry')
        /\ \A i \in SupIds : registry'.sessions[i] = IF i = sid THEN s ELSE registry.sessions[i]
    BY <1>1, <1>2, <1>4, <2>1, <2>2, <2>3, RegisterBooks
  <2>5. /\ stage' \in [Requests -> Stages] /\ job' \in [Requests -> Jobs]
        /\ worker' \in [Requests -> Procs \cup {None}]
        /\ \/ stage'[r] = "done"
           \/ stage'[r] = "binding" /\ job'[r] = job[r]
        /\ \A q \in Requests \ {r} : stage'[q] = stage[q] /\ job'[q] = job[q] /\ worker'[q] = worker[q]
    BY <1>2, <1>4, FoundTypes
  <2>6. SupervisorTypeOK' /\ PathsLead(registry)'
    BY <1>1, <2>4, <2>5 DEF SupervisorTypeOK
  <2>7. registry'.sessions[sid].proc = worker[r] /\ registry.sessions[sid].proc = None
    BY <1>1, <1>3, <1>4, <2>1, <2>4
  <2>8. \A i \in SupIds \ {sid} : registry'.sessions[i] = registry.sessions[i]
    BY <2>4
  <2>9. stage'[r] = "done" \/
           (stage'[r] = "binding" /\ job'[r].id \in SupIds /\ job'[r].context \in Contexts)
    BY <1>1, <2>5 DEF sid
  <2> QED BY <1>1, <2>5, <2>6, <2>7, <2>8, <2>9, WorkersGive
<1>5. CASE registry' = registry /\ Supervising!GoesTo(r, "discarding")
  <2>1. SupervisorTypeOK' /\ PathsLead(registry)'
    BY <1>1, <1>5, RequestGoes DEF SupervisorTypeOK, Stages
  <2> QED BY <1>1, <1>5, <2>1, WorkersGo
<1>6. CASE ~(now # Supervising!NoSession /\ Supervising!IsAlive(now))
           /\ registry' = Supervising!Unregistered(registry, {sid}) /\ Supervising!GoesTo(r, "discarding")
  <2>1. now \in Entries
    BY <1>1, <1>2, BookParts
  <2>2. ~Supervising!IsAlive(now)
    BY <1>6 DEF Supervising!IsAlive, Supervising!NoSession
  <2>3. \A i \in SupIds :
           \/ registry'.sessions[i] = registry.sessions[i]
           \/ /\ registry'.sessions[i].proc = None
              /\ registry.sessions[i].proc # None => proc[registry.sessions[i].proc] # "up"
    BY <1>6, <2>2, DeadEntries
  <2>4. registry' \in Books /\ PathsLead(registry')
    BY <1>2, <1>6, UnregisterBooks
  <2>5. SupervisorTypeOK' /\ PathsLead(registry)'
    BY <1>1, <1>6, <2>4, RequestGoes DEF SupervisorTypeOK, Stages
  <2> QED BY <1>1, <1>6, <2>3, <2>5, WorkersGo
<1> QED BY <1>4, <1>5, <1>6 DEF Supervising!RegisterReopened

(* shutdown() ends the workers it knows of.                                *)
LEMMA ShutdownKeeps == ASSUME Workers, Supervising!Shutdown PROVE Workers'
<1> USE SupervisorConstants DEF Workers
<1> DEFINE stopping == {registry.sessions[i].proc : i \in SupIds} \cup {schema}
<1>1. /\ proc' = [w \in Procs |-> IF w \in stopping /\ proc[w] = "up" THEN "gone" ELSE proc[w]]
      /\ registry' = Supervising!Unregistered(registry, SupIds) /\ schema' = None /\ down' = TRUE
      /\ UNCHANGED <<served, gui, cached, lockedBy, stage, job, worker>>
  BY DEF Supervising!Shutdown, Supervising!requestVars, SupIds
<1>2. /\ registry' \in Books /\ PathsLead(registry)'
      /\ \A i \in SupIds : registry'.sessions[i] = Supervising!NoSession
  BY <1>1, UnregisterBooks DEF SupervisorTypeOK
<1>3. /\ \A i \in SupIds : registry.sessions[i].proc \in stopping
      /\ schema \in stopping
  OBVIOUS
<1> HIDE DEF stopping
<1>4. /\ \A w \in Procs : proc[w] # "off" => proc'[w] # "off"
      /\ \A w \in Procs : proc'[w] = "up" => proc[w] = "up" /\ w \notin stopping
      /\ proc' \in [Procs -> {"off", "up", "gone"}]
  BY <1>1 DEF SupervisorTypeOK
<1>5. SupervisorTypeOK'
  BY <1>1, <1>2, <1>4 DEF SupervisorTypeOK
<1>6. JobsFit' /\ Holding' = Holding
  BY <1>1 DEF JobsFit, Holding
<1>7. LockIsHeld'
  BY <1>1 DEF LockIsHeld
<1>8. \A i \in SupIds : registry.sessions[i].proc \in Procs \cup {None}
  BY BookParts, EntryParts DEF SupervisorTypeOK
<1>9. \A q \in Holding : worker[q] \in Procs
  BY DEF Holding, JobsFit
<1>10. \A i \in SupIds : registry'.sessions[i].proc = None
  BY <1>2 DEF Supervising!NoSession
<1>11. schema # None => proc'[schema] # "up"
  BY <1>3, <1>4 DEF SupervisorTypeOK
<1>12. \A i \in SupIds : registry.sessions[i].proc # None => proc'[registry.sessions[i].proc] # "up"
  BY <1>3, <1>4, <1>8
<1>13. OneOwner' /\ AllOwned'
  BY <1>1, <1>4, <1>5, <1>6, <1>9, <1>10, <1>11, <1>12, OwnersKeep
<1> QED BY <1>2, <1>5, <1>6, <1>7, <1>13

LEMMA WorkersNext == ASSUME Workers, Supervising!Next PROVE Workers'
<1>1. ASSUME NEW r \in Requests, Supervising!Request(r) PROVE Workers'
  <2>1. ASSUME NEW c \in Contexts, Supervising!idalib_open(r, c) PROVE Workers'
    BY <2>1, OpenKnownKeeps, OpenNewKeeps DEF Supervising!idalib_open
  <2>2. ASSUME NEW c \in Contexts, Supervising!ManageSession(r, c) \/ Supervising!HandleToolsCall(r, c)
        PROVE  Workers'
    BY <2>2, UseSessionKeeps
       DEF Supervising!ManageSession, Supervising!HandleToolsCall, Supervising!idalib_switch, SupIds
  <2>3. ASSUME NEW c \in Contexts, Supervising!UnbindContext(r, c) PROVE Workers'
    BY <2>3, UnbindKeeps DEF Supervising!UnbindContext, Supervising!Begins, Holding
  <2> QED BY <1>1, <2>1, <2>2, <2>3, CloseSessionKeeps, ListToolsKeeps
          DEF Supervising!Request, SupIds
<1>2. ASSUME NEW r \in Requests, Supervising!Progress(r) PROVE Workers'
  <2>1. CASE Supervising!BindContext(r)
    BY <2>1, UnbindKeeps DEF Supervising!BindContext, Supervising!GoesOn, Holding, Workers, JobsFit
  <2>2. CASE Supervising!WorkerNotReady(r) \/ Supervising!WorkerOpenFails(r) \/ Supervising!DiscardWorker(r)
    BY <2>2, WorkersKill
       DEF Supervising!WorkerNotReady, Supervising!WorkerOpenFails, Supervising!DiscardWorker,
           Supervising!GoesOn, Supervising!bookVars, Holding
  <2>3. CASE Supervising!Listed(r)
    <3> USE DEF Workers
    <3>1. /\ stage[r] = "listing" /\ lockedBy \in {None, r} /\ Supervising!Ends(r) /\ cached' \in BOOLEAN
          /\ UNCHANGED <<served, gui, proc, registry, schema, lockedBy, down>>
      BY <2>3 DEF Supervising!Listed, Supervising!GoesOn, SupervisorTypeOK
    <3>2. SupervisorTypeOK' /\ PathsLead(registry)' /\ r \notin Holding
      BY <3>1, RequestEnds DEF SupervisorTypeOK, Holding
    <3> QED BY <3>1, <3>2, WorkersEnd
  <2> QED BY <1>2, <2>1, <2>2, <2>3, WorkerReadyKeeps, WorkerOpensKeeps, RegisterOpenedKeeps,
             RegisterReopenedKeeps DEF Supervising!Progress
<1>3. ASSUME NEW w \in Procs, Supervising!WorkerDies(w) PROVE Workers'
  <2>1. /\ UNCHANGED <<stage, job, worker, lockedBy, registry, schema, served, gui, cached, down>>
        /\ proc' = Supervising!Terminated(w) /\ proc[w] = "up"
    BY <1>3 DEF Supervising!WorkerDies, Supervising!bookVars, Supervising!requestVars
  <2>2. /\ proc' \in [Procs -> {"off", "up", "gone"}]
        /\ \A v \in Procs : proc'[v] = IF v = w THEN "gone" ELSE proc[v]
    BY <2>1, Terminates DEF Workers
  <2>3. SupervisorTypeOK'
    BY <2>1, <2>2 DEF SupervisorTypeOK, Workers
  <2> QED BY <2>1, <2>2, <2>3, WorkersStay
<1>4. ASSUME NEW p \in Paths, Supervising!GuiOpens(p) \/ Supervising!GuiCloses(p) PROVE Workers'
  <2>1. /\ UNCHANGED <<stage, job, worker, lockedBy, registry, schema, served, proc, cached, down>>
        /\ gui' \in {gui \cup {p}, gui \ {p}}
    BY <1>4 DEF Supervising!GuiOpens, Supervising!GuiCloses, Supervising!bookVars, Supervising!requestVars
  <2>2. SupervisorTypeOK'
    BY <2>1 DEF SupervisorTypeOK, Workers
  <2> QED BY <2>1, <2>2, WorkersStay
<1> QED BY <1>1, <1>2, <1>3, <1>4, ShutdownKeeps DEF Supervising!Next

-----------------------------------------------------------------------------
(* Requests one by one, and the number of workers.                         *)
Only(r) ==
    /\ \A q \in Requests \ {r} : stage'[q] = stage[q] /\ job'[q] = job[q]
    /\ stage'[r] \in Stages \ {"new"} /\ stage'[r] # stage[r]
    /\ served' = served /\ down' = down

LEMMA AllocateMoves ==
    ASSUME SupervisorTypeOK, NEW r \in Requests, stage[r] = "new", NEW reg \in Books, NEW j \in Jobs,
           Supervising!AllocateWorker(r, reg, j), served' = served, down' = down
    PROVE  Only(r) /\ stage'[r] # "binding"
<1>1. CASE Supervising!SchemaLives
  BY <1>1 DEF Supervising!AllocateWorker, Supervising!SchemaLives, SupervisorTypeOK, Stages, Only
<1>2. CASE ~Supervising!SchemaLives /\ Supervising!Spawn(r) /\ job' = [job EXCEPT ![r] = j]
  BY <1>2, RequestSpawns DEF SupervisorTypeOK, Stages, Only
<1>3. CASE ~Supervising!SchemaLives /\ Supervising!Ends(r)
  BY <1>3, RequestEnds DEF Stages, Only
<1> QED BY <1>1, <1>2, <1>3 DEF Supervising!AllocateWorker

LEMMA RequestMoves ==
    ASSUME SupervisorTypeOK, NEW r \in Requests, Supervising!Request(r)
    PROVE  Supervising!Begins(r) /\ Only(r)
<1> USE SupervisorConstants
<1>1. registry \in Books
  BY DEF SupervisorTypeOK
<1>2. ASSUME NEW c \in Contexts, NEW p \in Paths, NEW name \in Names \cup {None},
             Supervising!OpenKnown(r, p, name, c)
      PROVE  Supervising!Begins(r) /\ Only(r)
  BY <1>2, RequestEnds DEF Supervising!OpenKnown, Supervising!Begins, Only, Stages
<1>3. ASSUME NEW c \in Contexts, NEW p \in Paths, NEW name \in Names \cup {None},
             Supervising!OpenNew(r, p, name, c)
      PROVE  Supervising!Begins(r) /\ Only(r)
  <2> DEFINE reg == Supervising!Unregistered(registry, {registry.paths[p]})
             sid == IF name = None THEN r ELSE name
             j == [Supervising!NoJob EXCEPT !.op = "open", !.path = p, !.name = name, !.id = sid,
                                            !.context = c]
  <2>1. Supervising!Begins(r) /\ stage[r] = "new" /\ served' = served /\ down' = down
    BY <1>3 DEF Supervising!OpenNew, Supervising!Begins
  <2>2. reg \in Books
    BY <1>1, UnregisterBooks
  <2>3. j \in Jobs
    BY NoJobType, Zenon DEF Jobs, Supervising!NoJob
  <2>4. Supervising!Ends(r) \/ Supervising!AllocateWorker(r, reg, j)
    BY <1>3 DEF Supervising!OpenNew
  <2> HIDE DEF reg, j
  <2>5. CASE Supervising!Ends(r)
    BY <2>1, <2>5, RequestEnds DEF Only, Stages
  <2> QED BY <2>1, <2>2, <2>3, <2>4, <2>5, AllocateMoves
<1>4. ASSUME NEW c \in Contexts, NEW op \in {"switch", "use"},
             NEW selector \in SupIds \cup Paths \cup {None},
             Supervising!UseSession(r, op, selector, c)
      PROVE  Supervising!Begins(r) /\ Only(r)
  <2>1. Supervising!Begins(r) /\ stage[r] = "new" /\ served' = served /\ down' = down
    BY <1>4 DEF Supervising!UseSession, Supervising!Begins
  <2>2. CASE Supervising!Ends(r)
    BY <2>1, <2>2, RequestEnds DEF Only, Stages
  <2>3. ASSUME NEW i \in Supervising!Selected(selector, c),
               Supervising!Found(r, [Supervising!NoJob EXCEPT !.op = op, !.id = i, !.context = c])
        PROVE  Only(r)
    <3> DEFINE j == [Supervising!NoJob EXCEPT !.op = op, !.id = i, !.context = c]
    <3>1. i \in SupIds
      BY SelectedIds
    <3>2. j \in Jobs
      BY <3>1, NoJobType DEF Jobs, Supervising!NoJob
    <3>3. Supervising!Found(r, j)
      BY <2>3
    <3> HIDE DEF j
    <3> QED BY <2>1, <3>2, <3>3, FoundTypes DEF Only, Stages
  <2>4. ASSUME NEW i \in Supervising!Selected(selector, c), registry.sessions[i].backend = "gui",
               NEW p \in {registry.sessions[i].path, registry.sessions[i].asked},
               Supervising!AllocateWorker(r, registry,
                   [Supervising!NoJob EXCEPT !.op = op, !.path = p, !.id = i, !.context = c,
                                             !.old = registry.sessions[i]])
        PROVE  Only(r)
    <3> DEFINE j == [Supervising!NoJob EXCEPT !.op = op, !.path = p, !.id = i, !.context = c,
                                              !.old = registry.sessions[i]]
    <3>1. i \in SupIds
      BY SelectedIds
    <3>2. registry.sessions[i] \in Entries /\ p \in Paths
      BY <1>1, <2>4, <3>1, BookParts, EntryParts
    <3>3. j \in Jobs
      BY <3>1, <3>2, NoJobType DEF Jobs, Supervising!NoJob
    <3>4. Supervising!AllocateWorker(r, registry, j)
      BY <2>4
    <3> HIDE DEF j
    <3> QED BY <1>1, <2>1, <3>3, <3>4, AllocateMoves
  <2> QED BY <1>4, <2>1, <2>2, <2>3, <2>4 DEF Supervising!UseSession
<1>5. ASSUME NEW c \in Contexts, Supervising!UnbindContext(r, c) PROVE Supervising!Begins(r) /\ Only(r)
  BY <1>5, RequestEnds DEF Supervising!UnbindContext, Supervising!Begins, Only, Stages
<1>6. ASSUME NEW i \in SupIds, Supervising!CloseSession(r, i) PROVE Supervising!Begins(r) /\ Only(r)
  <2>1. Supervising!Begins(r) /\ stage[r] = "new" /\ served' = served /\ down' = down
    BY <1>6 DEF Supervising!CloseSession, Supervising!Begins
  <2>2. CASE Supervising!Ends(r)
    BY <2>1, <2>2, RequestEnds DEF Only, Stages
  <2>3. CASE stage' = [stage EXCEPT ![r] = "discarding"] /\ job' = job
    BY <2>1, <2>3 DEF Only, Stages, SupervisorTypeOK
  <2> QED BY <1>6, <2>1, <2>2, <2>3 DEF Supervising!CloseSession
<1>7. ASSUME Supervising!ListTools(r) PROVE Supervising!Begins(r) /\ Only(r)
  <2>1. Supervising!Begins(r) /\ stage[r] = "new" /\ served' = served /\ down' = down
    BY <1>7 DEF Supervising!ListTools, Supervising!Begins
  <2>2. CASE Supervising!Ends(r)
    BY <2>1, <2>2, RequestEnds DEF Only, Stages
  <2>3. CASE stage' = [stage EXCEPT ![r] = "listing"] /\ job' = job
    BY <2>1, <2>3 DEF Only, Stages, SupervisorTypeOK
  <2>4. ASSUME NEW j, Supervising!Spawn(r), job' = [job EXCEPT ![r] = j] PROVE Only(r)
    BY <2>1, <2>4, RequestSpawns DEF Only, Stages, SupervisorTypeOK
  <2> QED BY <1>7, <2>1, <2>2, <2>3, <2>4 DEF Supervising!ListTools
<1> QED BY <1>2, <1>3, <1>4, <1>5, <1>6, <1>7
        DEF Supervising!Request, Supervising!idalib_open, Supervising!ManageSession,
            Supervising!HandleToolsCall, Supervising!idalib_switch, SupIds

LEMMA ProgressMoves ==
    ASSUME SupervisorTypeOK, NEW r \in Requests, Supervising!Progress(r)
    PROVE  r \in Supervising!Working /\ Only(r)
<1>1. CASE Supervising!WorkerReady(r)
  BY <1>1 DEF Supervising!WorkerReady, Supervising!GoesOn, Supervising!Working, Only, Stages,
              SupervisorTypeOK
<1>2. CASE Supervising!WorkerOpens(r)
  BY <1>2 DEF Supervising!WorkerOpens, Supervising!GoesOn, Supervising!Working, Only, Stages,
              SupervisorTypeOK
<1>3. CASE \/ Supervising!WorkerNotReady(r) \/ Supervising!WorkerOpenFails(r)
           \/ Supervising!DiscardWorker(r) \/ Supervising!BindContext(r) \/ Supervising!Listed(r)
  BY <1>3, RequestEnds
     DEF Supervising!WorkerNotReady, Supervising!WorkerOpenFails, Supervising!DiscardWorker,
         Supervising!BindContext, Supervising!Listed, Supervising!GoesOn, Supervising!Working, Only,
         Stages
<1>4. CASE Supervising!RegisterOpened(r)
  <2>1. stage[r] = "opened" /\ served' = served /\ down' = down
    BY <1>4 DEF Supervising!RegisterOpened, Supervising!GoesOn
  <2>2. CASE Supervising!Ends(r)
    BY <2>1, <2>2, RequestEnds DEF Only, Stages, Supervising!Working
  <2>3. CASE Supervising!GoesTo(r, "discarding")
    BY <2>1, <2>3, RequestGoes DEF Only, Stages, Supervising!Working
  <2> QED BY <1>4, <2>2, <2>3 DEF Supervising!RegisterOpened
<1>5. CASE Supervising!RegisterReopened(r)
  <2>1. stage[r] = "opened" /\ served' = served /\ down' = down
    BY <1>5 DEF Supervising!RegisterReopened, Supervising!GoesOn
  <2>2. CASE Supervising!Found(r, job[r])
    <3>1. job[r] \in Jobs
      BY DEF SupervisorTypeOK
    <3> QED BY <2>1, <2>2, <3>1, FoundTypes DEF Only, Stages, Supervising!Working
  <2>3. CASE Supervising!GoesTo(r, "discarding")
    BY <2>1, <2>3, RequestGoes DEF Only, Stages, Supervising!Working
  <2> QED BY <1>5, <2>2, <2>3 DEF Supervising!RegisterReopened
<1> QED BY <1>1, <1>2, <1>3, <1>4, <1>5 DEF Supervising!Progress

LEMMA OutsideMoves ==
    ASSUME \/ \E w \in Procs : Supervising!WorkerDies(w)
           \/ \E p \in Paths : Supervising!GuiOpens(p) \/ Supervising!GuiCloses(p)
           \/ Supervising!Shutdown
    PROVE  /\ UNCHANGED <<stage, job, served>>
           /\ down' \/ (registry' = registry /\ down' = down)
BY DEF Supervising!WorkerDies, Supervising!GuiOpens, Supervising!GuiCloses, Supervising!Shutdown,
       Supervising!bookVars, Supervising!requestVars

LEMMA SupervisingCardinality == ASSUME NEW S PROVE Supervising!Cardinality(S) = Cardinality(S)
BY DEF Supervising!Cardinality, Cardinality, Supervising!IsFiniteSet, IsFiniteSet

LEMMA UpShrinks ==
    ASSUME IsFiniteSet(Up), \A w \in Procs : proc'[w] = "up" => proc[w] = "up"
    PROVE  /\ IsFiniteSet(Up)' /\ Cardinality(Up)' <= Cardinality(Up)
           /\ Cardinality(Up)' \in Nat /\ Cardinality(Up) \in Nat
<1>1. Up' \in SUBSET Up
  BY DEF Up
<1>2. IsFiniteSet(Up') /\ Cardinality(Up') <= Cardinality(Up)
  BY <1>1, FS_Subset
<1> QED BY <1>2, FS_CardinalityType

LEMMA UpGrows ==
    ASSUME SupervisorTypeOK, IsFiniteSet(Up), NEW w \in Procs, proc[w] = "off",
           proc' = [proc EXCEPT ![w] = "up"]
    PROVE  /\ IsFiniteSet(Up)' /\ Cardinality(Up)' = Cardinality(Up) + 1 /\ Cardinality(Up) \in Nat
<1>1. Up' = Up \cup {w} /\ w \notin Up
  BY DEF Up, SupervisorTypeOK
<1> QED BY <1>1, FS_AddElement, FS_CardinalityType

(* With no request under way and no schema worker, the workers that run    *)
(* are those of the sessions.                                              *)
LEMMA WorkersCounted ==
    ASSUME Workers, IsFiniteSet(Up), Supervising!Working = {}, ~Supervising!SchemaLives
    PROVE  Cardinality(Supervising!LiveWorkers(registry)) = Cardinality(Up)
<1> USE SupervisorConstants DEF Workers
<1> DEFINE L == Supervising!LiveWorkers(registry)
           f == [i \in L |-> registry.sessions[i].proc]
<1>1. Holding = {}
  BY DEF Holding, Supervising!Working
<1>2. \A w \in Up : \E i \in SupIds : registry.sessions[i].proc = w
  BY <1>1 DEF AllOwned, Up, Supervising!SchemaLives
<1>3. \A i \in SupIds : /\ registry.sessions[i].backend = "worker" <=> registry.sessions[i].proc \in Procs
                        /\ registry.sessions[i].backend = "worker" => registry.sessions[i].backend # "gui"
  BY BookParts, EntryParts DEF SupervisorTypeOK
<1>4. L = {i \in SupIds : registry.sessions[i].proc \in Up}
  BY <1>3 DEF Supervising!LiveWorkers, Supervising!IsAlive, SupIds, Up
<1>5. \A i, k \in L : registry.sessions[i].proc = registry.sessions[k].proc => i = k
  BY <1>4 DEF OneOwner, Up
<1> HIDE DEF L
<1>6. f \in [L -> Up] /\ \A i \in L : f[i] = registry.sessions[i].proc
  BY <1>4
<1>7. \A w \in Up : \E i \in L : f[i] = w
  BY <1>2, <1>4, <1>6
<1> HIDE DEF f
<1>8. f \in Injection(L, Up)
  BY <1>5, <1>6 DEF Injection, IsInjective
<1>9. f \in Surjection(L, Up)
  BY <1>6, <1>7 DEF Surjection
<1>10. Cardinality(L) = Cardinality(Up)
  BY <1>8, <1>9, FS_Injection
<1> QED BY <1>10 DEF L

(* A process starts only for a request that may add one.                   *)
Spawns(r) ==
    /\ Supervising!Begins(r) /\ Supervising!Spawn(r) /\ ~Supervising!SchemaLives
    /\ MaxWorkers = 0 \/ Cardinality(Supervising!LiveWorkers(registry)) < MaxWorkers

LEMMA AllocateSpawns ==
    ASSUME SupervisorTypeOK, NEW r \in Requests, Supervising!Begins(r), NEW reg, NEW j,
           Supervising!LiveWorkers(reg) = Supervising!LiveWorkers(registry),
           Supervising!AllocateWorker(r, reg, j)
    PROVE  proc' = proc \/ Spawns(r)
BY SupervisingCardinality DEF Supervising!AllocateWorker, Spawns

LEMMA LiveStays ==
    ASSUME SupervisorTypeOK, NEW p \in Paths, ~Supervising!IsOpen(registry, p)
    PROVE  Supervising!LiveWorkers(Supervising!Unregistered(registry, {registry.paths[p]})) =
               Supervising!LiveWorkers(registry)
<1> DEFINE reg == Supervising!Unregistered(registry, {registry.paths[p]})
<1>1. \A i \in SupIds : reg.sessions[i] = IF i \in {registry.paths[p]} THEN Supervising!NoSession
                                          ELSE registry.sessions[i]
  BY UnregisterBooks DEF SupervisorTypeOK
<1>2. \A i \in SupIds : i = registry.paths[p] => ~Supervising!IsAlive(registry.sessions[i])
  BY ClosedPath
<1>3. ~Supervising!IsAlive(Supervising!NoSession)
  BY DEF Supervising!IsAlive, Supervising!NoSession
<1> HIDE DEF reg
<1>4. Supervising!LiveWorkers(reg) = Supervising!LiveWorkers(registry)
  BY <1>1, <1>2, <1>3 DEF Supervising!LiveWorkers, SupIds
<1> QED BY <1>4 DEF reg

LEMMA NextSpawns ==
    ASSUME Workers, Supervising!Next
    PROVE  \/ \A w \in Procs : proc'[w] = "up" => proc[w] = "up"
           \/ \E r \in Requests : Spawns(r)
<1> USE SupervisorConstants DEF Workers
<1>1. ASSUME NEW r \in Requests, Supervising!Request(r) PROVE proc' = proc \/ Spawns(r)
  <2>1. ASSUME NEW c \in Contexts, NEW p \in Paths, NEW name \in Names \cup {None},
               Supervising!OpenNew(r, p, name, c)
        PROVE  proc' = proc \/ Spawns(r)
    BY <2>1, LiveStays, AllocateSpawns DEF Supervising!OpenNew
  <2>2. ASSUME NEW c \in Contexts, NEW op, NEW selector, Supervising!UseSession(r, op, selector, c)
        PROVE  proc' = proc \/ Spawns(r)
    BY <2>2, AllocateSpawns DEF Supervising!UseSession
  <2>3. CASE Supervising!ListTools(r)
    <3>1. CASE proc' = proc
      BY <3>1
    <3>2. CASE Supervising!LiveWorkers(registry) = {} /\ ~Supervising!SchemaLives /\ Supervising!Spawn(r)
      <4>1. MaxWorkers = 0 \/ Cardinality({}) < MaxWorkers
        BY FS_EmptySet
      <4> QED BY <2>3, <3>2, <4>1 DEF Supervising!ListTools, Spawns
    <3> QED BY <2>3, <3>1, <3>2 DEF Supervising!ListTools
  <2> QED BY <1>1, <2>1, <2>2, <2>3
          DEF Supervising!Request, Supervising!idalib_open, Supervising!OpenKnown,
              Supervising!ManageSession, Supervising!HandleToolsCall, Supervising!idalib_switch,
              Supervising!UnbindContext, Supervising!CloseSession
<1>2. ASSUME NEW r \in Requests, Supervising!Progress(r)
      PROVE  proc' = proc \/ \E v \in Procs \cup {None} : proc' = Supervising!Terminated(v)
  BY <1>2 DEF Supervising!Progress, Supervising!WorkerReady, Supervising!WorkerNotReady,
              Supervising!WorkerOpens, Supervising!WorkerOpenFails, Supervising!RegisterOpened,
              Supervising!RegisterReopened, Supervising!DiscardWorker, Supervising!BindContext,
              Supervising!Listed, SupervisorTypeOK
<1>3. ASSUME NEW v, proc' = Supervising!Terminated(v)
      PROVE  \A w \in Procs : proc'[w] = "up" => proc[w] = "up"
  BY <1>3, Terminates
<1>4. CASE Supervising!Shutdown
  BY <1>4 DEF Supervising!Shutdown
<1>5. ASSUME NEW p, Supervising!GuiOpens(p) \/ Supervising!GuiCloses(p) PROVE proc' = proc
  BY <1>5 DEF Supervising!GuiOpens, Supervising!GuiCloses
<1>6. ASSUME NEW w, Supervising!WorkerDies(w) PROVE proc' = Supervising!Terminated(w)
  BY <1>6 DEF Supervising!WorkerDies
<1> QED BY <1>1, <1>2, <1>3, <1>4, <1>5, <1>6 DEF Supervising!Next

LEMMA WorkersWithin ==
    ASSUME Workers, IsFiniteSet(Up), served = "one", MaxWorkers = 0 \/ Cardinality(Up) <= MaxWorkers,
           Supervising!Next
    PROVE  IsFiniteSet(Up)' /\ (MaxWorkers = 0 \/ Cardinality(Up)' <= MaxWorkers)
<1>1. CASE \A w \in Procs : proc'[w] = "up" => proc[w] = "up"
  BY <1>1, UpShrinks, SupervisorConstants
<1>2. ASSUME NEW r \in Requests, Spawns(r)
      PROVE  IsFiniteSet(Up)' /\ (MaxWorkers = 0 \/ Cardinality(Up)' <= MaxWorkers)
  <2>1. Supervising!Working = {}
    BY <1>2 DEF Spawns, Supervising!Begins
  <2>2. MaxWorkers = 0 \/ Cardinality(Up) < MaxWorkers
    BY <1>2, <2>1, WorkersCounted DEF Spawns
  <2>3. IsFiniteSet(Up)' /\ Cardinality(Up)' = Cardinality(Up) + 1 /\ Cardinality(Up) \in Nat
    BY <1>2, UpGrows, RequestSpawns DEF Spawns, Workers
  <2> QED BY <2>2, <2>3, SupervisorConstants
<1> QED BY <1>1, <1>2, NextSpawns

LEMMA UpStaysFinite == ASSUME Workers, IsFiniteSet(Up), Supervising!Next PROVE IsFiniteSet(Up)'
<1>1. CASE \A w \in Procs : proc'[w] = "up" => proc[w] = "up"
  BY <1>1, UpShrinks
<1>2. ASSUME NEW r \in Requests, Spawns(r) PROVE IsFiniteSet(Up)'
  BY <1>2, UpGrows, RequestSpawns DEF Spawns, Workers
<1> QED BY <1>1, <1>2, NextSpawns

(* The session that a context is bound to, or is to be bound to, exists.   *)
Binds(r) == stage[r] = "binding" => registry.sessions[job[r].id].backend # "none"

LEMMA RegisterBound ==
    ASSUME NEW reg \in Books, BoundExist(reg), NEW sid \in SupIds, NEW s, s.backend # "none",
           NEW path, NEW context
    PROVE  LET new == Supervising!Registered(reg, sid, s, path, context) IN
           BoundExist(new) /\ new.sessions[sid] = s
<1> DEFINE new == Supervising!Registered(reg, sid, s, path, context)
<1>1. /\ \A i \in SupIds : new.sessions[i] = IF i = sid THEN s ELSE reg.sessions[i]
      /\ \A c \in Contexts : new.bound[c] = IF c = context THEN sid ELSE reg.bound[c]
  BY BookParts DEF Supervising!Registered
<1> HIDE DEF new
<1>2. BoundExist(new)
  BY <1>1, BookParts DEF BoundExist
<1> QED BY <1>1, <1>2 DEF new

LEMMA AliveExists == ASSUME NEW s, Supervising!IsAlive(s) PROVE s.backend # "none"
BY DEF Supervising!IsAlive

LEMMA SameBound == ASSUME registry' = registry, BoundExist(registry) PROVE BoundExist(registry)'
BY DEF BoundExist

LEMMA AllocateBinds ==
    ASSUME SupervisorTypeOK, NEW r \in Requests, stage[r] = "new", NEW reg \in Books, NEW j \in Jobs,
           BoundExist(reg), Supervising!AllocateWorker(r, reg, j), served' = served, down' = down
    PROVE  BoundExist(registry)' /\ Binds(r)'
<1>1. Binds(r)'
  BY AllocateMoves DEF Binds
<1>2. registry' \in {reg, Supervising!Pruned(reg)}
  BY DEF Supervising!AllocateWorker
<1>3. BoundExist(registry')
  BY <1>2, PruneBooks
<1> QED BY <1>1, <1>3 DEF BoundExist

LEMMA OpenBinds ==
    ASSUME SupervisorTypeOK, BoundExist(registry), NEW r \in Requests, NEW p \in Paths,
           NEW name \in Names \cup {None}, NEW c \in Contexts,
           Supervising!OpenKnown(r, p, name, c) \/ Supervising!OpenNew(r, p, name, c)
    PROVE  BoundExist(registry)' /\ Binds(r)'
<1> USE SupervisorConstants
<1>1. registry \in Books
  BY DEF SupervisorTypeOK
<1>2. Supervising!Ends(r) => Binds(r)'
  BY RequestEnds DEF Binds
<1>3. CASE Supervising!OpenKnown(r, p, name, c)
  <2>1. registry.paths[p] \in SupIds /\ registry.sessions[registry.paths[p]].backend # "none"
    BY <1>1, <1>3, BookParts, AliveExists DEF Supervising!OpenKnown, Supervising!IsOpen
  <2>2. BoundExist(Supervising!Bound(registry, c, registry.paths[p]))
    BY <1>1, <2>1, BindBooks
  <2>3. BoundExist(registry')
    BY <1>3, <2>2 DEF Supervising!OpenKnown
  <2> QED BY <1>2, <1>3, <2>3 DEF Supervising!OpenKnown, BoundExist
<1>4. CASE Supervising!OpenNew(r, p, name, c)
  <2> DEFINE reg == Supervising!Unregistered(registry, {registry.paths[p]})
             sid == IF name = None THEN r ELSE name
             j == [Supervising!NoJob EXCEPT !.op = "open", !.path = p, !.name = name, !.id = sid,
                                            !.context = c]
  <2>1. stage[r] = "new" /\ served' = served /\ down' = down
    BY <1>4 DEF Supervising!OpenNew, Supervising!Begins
  <2>2. reg \in Books /\ BoundExist(reg)
    BY <1>1, UnregisterBooks
  <2>3. sid \in SupIds /\ j \in Jobs
    BY NoJobType DEF Jobs, Supervising!NoJob
  <2>4. \/ registry' = reg /\ Supervising!Ends(r)
        \/ /\ \E db \in Supervising!GuiInstances(p) :
                 registry' = Supervising!Registered(reg, sid, Supervising!GuiSession(db, p, r), p, c)
           /\ Supervising!Ends(r)
        \/ Supervising!AllocateWorker(r, reg, j)
    BY <1>4 DEF Supervising!OpenNew
  <2> HIDE DEF reg, sid, j
  <2>5. CASE registry' = reg /\ Supervising!Ends(r)
    BY <1>2, <2>2, <2>5 DEF BoundExist
  <2>6. ASSUME NEW db, registry' = Supervising!Registered(reg, sid, Supervising!GuiSession(db, p, r), p, c),
               Supervising!Ends(r)
        PROVE  BoundExist(registry)' /\ Binds(r)'
    <3>1. Supervising!GuiSession(db, p, r).backend # "none"
      BY DEF Supervising!GuiSession
    <3>2. BoundExist(registry')
      BY <2>2, <2>3, <2>6, <3>1, RegisterBound
    <3> QED BY <1>2, <2>6, <3>2 DEF BoundExist
  <2>7. CASE Supervising!AllocateWorker(r, reg, j)
    BY <2>1, <2>2, <2>3, <2>7, AllocateBinds
  <2> QED BY <2>4, <2>5, <2>6, <2>7
<1> QED BY <1>3, <1>4

LEMMA UseBinds ==
    ASSUME SupervisorTypeOK, BoundExist(registry), NEW r \in Requests, NEW op \in {"switch", "use"},
           NEW selector \in SupIds \cup Paths \cup {None}, NEW c \in Contexts,
           Supervising!UseSession(r, op, selector, c)
    PROVE  BoundExist(registry)' /\ Binds(r)'
<1>1. registry \in Books
  BY DEF SupervisorTypeOK
<1>2. stage[r] = "new" /\ served' = served /\ down' = down
  BY DEF Supervising!UseSession, Supervising!Begins
<1>3. CASE Supervising!Ends(r) /\ registry' = registry
  BY <1>3, RequestEnds, SameBound DEF Binds
<1>4. ASSUME NEW i \in Supervising!Selected(selector, c), Supervising!IsAlive(registry.sessions[i]),
             Supervising!Found(r, [Supervising!NoJob EXCEPT !.op = op, !.id = i, !.context = c]),
             registry' = registry
      PROVE  BoundExist(registry)' /\ Binds(r)'
  <2> DEFINE j == [Supervising!NoJob EXCEPT !.op = op, !.id = i, !.context = c]
  <2>1. i \in SupIds
    BY SelectedIds
  <2>2. j \in Jobs /\ j.id = i
    BY <2>1, NoJobType DEF Jobs, Supervising!NoJob
  <2>3. Supervising!Found(r, j)
    BY <1>4
  <2> HIDE DEF j
  <2>4. stage'[r] = "done" \/ job'[r] = j
    BY <2>2, <2>3, FoundTypes
  <2>5. registry.sessions[i].backend # "none"
    BY <1>4, AliveExists
  <2> QED BY <1>4, <2>2, <2>4, <2>5, SameBound DEF Binds
<1>5. ASSUME NEW i \in Supervising!Selected(selector, c), registry.sessions[i].backend = "gui",
             NEW p \in {registry.sessions[i].path, registry.sessions[i].asked},
             Supervising!AllocateWorker(r, registry,
                 [Supervising!NoJob EXCEPT !.op = op, !.path = p, !.id = i, !.context = c,
                                           !.old = registry.sessions[i]])
      PROVE  BoundExist(registry)' /\ Binds(r)'
  <2> DEFINE j == [Supervising!NoJob EXCEPT !.op = op, !.path = p, !.id = i, !.context = c,
                                            !.old = registry.sessions[i]]
  <2>1. i \in SupIds
    BY SelectedIds
  <2>2. registry.sessions[i] \in Entries /\ p \in Paths
    BY <1>1, <1>5, <2>1, BookParts, EntryParts
  <2>3. j \in Jobs
    BY <2>1, <2>2, NoJobType DEF Jobs, Supervising!NoJob
  <2>4. Supervising!AllocateWorker(r, registry, j)
    BY <1>5
  <2> HIDE DEF j
  <2> QED BY <1>1, <1>2, <2>3, <2>4, AllocateBinds
<1> QED BY <1>3, <1>4, <1>5 DEF Supervising!UseSession, Supervising!bookVars

LEMMA RequestBinds ==
    ASSUME SupervisorTypeOK, BoundExist(registry), NEW r \in Requests, Supervising!Request(r)
    PROVE  BoundExist(registry)' /\ Binds(r)'
<1>1. registry \in Books
  BY DEF SupervisorTypeOK
<1>2. ASSUME NEW c \in Contexts, Supervising!UnbindContext(r, c) PROVE BoundExist(registry)' /\ Binds(r)'
  <2>1. registry' = Supervising!Bound(registry, c, None) /\ Supervising!Ends(r)
    BY <1>2 DEF Supervising!UnbindContext
  <2>2. BoundExist(registry')
    BY <1>1, <2>1, BindBooks
  <2> QED BY <2>1, <2>2, RequestEnds DEF Binds, BoundExist
<1>3. ASSUME NEW i \in SupIds, Supervising!CloseSession(r, i) PROVE BoundExist(registry)' /\ Binds(r)'
  <2>1. /\ registry' = Supervising!Unregistered(registry, {i})
        /\ Supervising!Ends(r) \/ stage' = [stage EXCEPT ![r] = "discarding"]
    BY <1>3 DEF Supervising!CloseSession
  <2>2. BoundExist(registry')
    BY <1>1, <2>1, UnregisterBooks
  <2>3. Binds(r)'
    BY <2>1, RequestEnds DEF Binds, SupervisorTypeOK
  <2> QED BY <2>2, <2>3 DEF BoundExist
<1>4. CASE Supervising!ListTools(r)
  <2>1. /\ registry' = registry
        /\ Supervising!Ends(r) \/ stage' = [stage EXCEPT ![r] = "listing"] \/ Supervising!Spawn(r)
    BY <1>4 DEF Supervising!ListTools, Supervising!bookVars
  <2>2. Binds(r)'
    BY <2>1, RequestEnds, RequestSpawns DEF Binds, SupervisorTypeOK
  <2> QED BY <2>1, <2>2, SameBound
<1> QED BY <1>2, <1>3, <1>4, OpenBinds, UseBinds, SupervisorConstants
        DEF Supervising!Request, Supervising!idalib_open, Supervising!ManageSession,
            Supervising!HandleToolsCall, Supervising!idalib_switch, SupIds

LEMMA ProgressBinds ==
    ASSUME Workers, BoundExist(registry), NEW r \in Requests, Binds(r), Supervising!Progress(r)
    PROVE  BoundExist(registry)' /\ Binds(r)'
<1> USE SupervisorConstants
<1>1. registry \in Books /\ SupervisorTypeOK
  BY DEF Workers, SupervisorTypeOK
<1>2. Supervising!Ends(r) \/ Supervising!GoesTo(r, "discarding") => Binds(r)'
  BY <1>1, RequestEnds, RequestGoes DEF Binds, Stages
<1>3. CASE \/ Supervising!WorkerReady(r) \/ Supervising!WorkerOpens(r) \/ Supervising!WorkerNotReady(r)
           \/ Supervising!WorkerOpenFails(r) \/ Supervising!DiscardWorker(r) \/ Supervising!Listed(r)
  <2>1. /\ registry' = registry
        /\ \/ Supervising!Ends(r)
           \/ \E at \in {"opening", "opened", "listing"} : stage' = [stage EXCEPT ![r] = at]
    BY <1>3 DEF Supervising!WorkerReady, Supervising!WorkerOpens, Supervising!WorkerNotReady,
                Supervising!WorkerOpenFails, Supervising!DiscardWorker, Supervising!Listed,
                Supervising!bookVars
  <2>2. Binds(r)'
    BY <1>1, <1>2, <2>1 DEF Binds, SupervisorTypeOK
  <2> QED BY <2>1, <2>2, SameBound
<1>4. CASE Supervising!BindContext(r)
  <2>1. /\ stage[r] = "binding" /\ Supervising!Ends(r)
        /\ registry' = Supervising!Bound(registry, job[r].context, job[r].id)
    BY <1>4 DEF Supervising!BindContext, Supervising!GoesOn
  <2>2. job[r].id \in SupIds /\ job[r].context \in Contexts
    BY <2>1 DEF Workers, JobsFit
  <2>3. BoundExist(registry')
    BY <1>1, <2>1, <2>2, BindBooks DEF Binds
  <2> QED BY <1>2, <2>1, <2>3 DEF BoundExist
<1>5. CASE Supervising!RegisterOpened(r)
  <2> DEFINE p == job[r].path
             sid == job[r].id
             c == job[r].context
             other == registry.paths[p]
             reg == IF Supervising!IsOpen(registry, p) THEN registry
                    ELSE Supervising!Unregistered(registry, {other})
             s == Supervising!WorkerSession(worker[r], p, r)
             new == Supervising!Unregistered(reg, {sid})
  <2>1. p \in Paths /\ sid \in SupIds /\ c \in Contexts
    BY <1>5 DEF Workers, JobsFit, Supervising!RegisterOpened, Supervising!GoesOn
  <2>2. reg \in Books /\ BoundExist(reg)
    BY <1>1, UnregisterBooks
  <2>3. s.backend # "none"
    BY DEF Supervising!WorkerSession
  <2>4. \/ /\ Supervising!IsOpen(registry, p)
           /\ registry' = Supervising!Bound(registry, c, other) /\ Supervising!GoesTo(r, "discarding")
        \/ registry' = reg /\ Supervising!GoesTo(r, "discarding")
        \/ registry' = Supervising!Registered(new, sid, s, p, c) /\ Supervising!Ends(r)
    BY <1>5 DEF Supervising!RegisterOpened
  <2> HIDE DEF p, sid, c, reg, s
  <2>5. CASE /\ Supervising!IsOpen(registry, p)
             /\ registry' = Supervising!Bound(registry, c, other) /\ Supervising!GoesTo(r, "discarding")
    <3>1. other \in SupIds /\ registry.sessions[other].backend # "none"
      BY <1>1, <2>1, <2>5, BookParts, AliveExists DEF Supervising!IsOpen
    <3>2. BoundExist(registry')
      BY <1>1, <2>1, <2>5, <3>1, BindBooks
    <3> QED BY <1>2, <2>5, <3>2 DEF BoundExist
  <2>6. CASE registry' = reg /\ Supervising!GoesTo(r, "discarding")
    BY <1>2, <2>2, <2>6 DEF BoundExist
  <2>7. CASE registry' = Supervising!Registered(new, sid, s, p, c) /\ Supervising!Ends(r)
    <3>1. new \in Books /\ BoundExist(new)
      BY <2>2, UnregisterBooks
    <3> HIDE DEF new
    <3>2. BoundExist(registry')
      BY <2>1, <2>3, <2>7, <3>1, RegisterBound
    <3> QED BY <1>2, <2>7, <3>2 DEF BoundExist
  <2> QED BY <2>4, <2>5, <2>6, <2>7
<1>6. CASE Supervising!RegisterReopened(r)
  <2> DEFINE p == job[r].path
             sid == job[r].id
             s == [Supervising!WorkerSession(worker[r], p, r) EXCEPT !.asked = job[r].old.asked]
             reg == Supervising!Unregistered(registry, {sid})
  <2>1. stage[r] = "opened" /\ job[r].op # "open"
    BY <1>6 DEF Supervising!RegisterReopened, Supervising!GoesOn
  <2>2. sid \in SupIds /\ job[r] \in Jobs
    BY <1>1, <2>1 DEF Workers, JobsFit, SupervisorTypeOK
  <2>3. s.backend # "none"
    BY DEF Supervising!WorkerSession
  <2>4. \/ registry' = Supervising!Registered(registry, sid, s, p, None) /\ Supervising!Found(r, job[r])
        \/ registry' \in {registry, reg} /\ Supervising!GoesTo(r, "discarding")
    BY <1>6 DEF Supervising!RegisterReopened
  <2>5. BoundExist(reg)
    BY <1>1, UnregisterBooks
  <2> HIDE DEF s, reg
  <2>6. CASE registry' = Supervising!Registered(registry, sid, s, p, None) /\ Supervising!Found(r, job[r])
    <3>1. BoundExist(registry') /\ registry'.sessions[sid] = s
      BY <1>1, <2>2, <2>3, <2>6, RegisterBound
    <3>2. stage'[r] = "done" \/ job'[r] = job[r]
      BY <1>1, <2>2, <2>6, FoundTypes
    <3> QED BY <2>3, <3>1, <3>2 DEF Binds, BoundExist
  <2>7. CASE registry' \in {registry, reg} /\ Supervising!GoesTo(r, "discarding")
    BY <1>2, <2>5, <2>7 DEF BoundExist
  <2> QED BY <2>4, <2>6, <2>7
<1> QED BY <1>3, <1>4, <1>5, <1>6 DEF Supervising!Progress

-----------------------------------------------------------------------------
LEMMA OneByOneNext == ASSUME SupervisorInv, Supervising!Next PROVE OneByOne'
<1> USE DEF SupervisorInv
<1>1. Workers
  BY DEF Workers
<1>2. ASSUME NEW r \in Requests, Only(r), served = "one",
             \A q \in Supervising!Working : q = r, BoundExist(registry)', Binds(r)',
             MaxWorkers = 0 \/ Cardinality(Up)' <= MaxWorkers
      PROVE  OneByOne'
  <2>1. \A q \in Requests \ {r} : q \notin Supervising!Working /\ stage'[q] = stage[q]
    BY <1>2 DEF Only
  <2>2. \A q \in Requests \ {r} : stage'[q] \in {"new", "done"}
    BY <2>1 DEF Supervising!Working
  <2> QED BY <1>2, <2>2 DEF OneByOne, Supervising!Working, Binds
<1>3. served = "one" => MaxWorkers = 0 \/ Cardinality(Up)' <= MaxWorkers
  BY <1>1, WorkersWithin DEF OneByOne
<1>4. ASSUME NEW r \in Requests, Supervising!Request(r) PROVE OneByOne'
  <2>1. Supervising!Begins(r) /\ Only(r)
    BY <1>4, RequestMoves
  <2>2. CASE served = "one"
    <3>1. BoundExist(registry)' /\ Binds(r)'
      BY <1>4, <2>2, RequestBinds DEF OneByOne
    <3> QED BY <1>2, <1>3, <2>1, <2>2, <3>1 DEF Supervising!Begins
  <2> QED BY <2>1, <2>2 DEF Only, OneByOne
<1>5. ASSUME NEW r \in Requests, Supervising!Progress(r) PROVE OneByOne'
  <2>1. r \in Supervising!Working /\ Only(r)
    BY <1>5, ProgressMoves
  <2>2. CASE served = "one"
    <3>1. ~down
      BY <1>5 DEF Supervising!Progress, Supervising!WorkerReady, Supervising!WorkerNotReady,
                  Supervising!WorkerOpens, Supervising!WorkerOpenFails, Supervising!RegisterOpened,
                  Supervising!RegisterReopened, Supervising!DiscardWorker, Supervising!BindContext,
                  Supervising!Listed, Supervising!GoesOn
    <3>2. BoundExist(registry)' /\ Binds(r)'
      BY <1>1, <1>5, <2>2, <3>1, ProgressBinds DEF OneByOne, Binds
    <3> QED BY <1>2, <1>3, <2>1, <2>2, <3>2 DEF OneByOne
  <2> QED BY <2>1, <2>2 DEF Only, OneByOne
<1>6. CASE \/ \E w \in Procs : Supervising!WorkerDies(w)
           \/ \E p \in Paths : Supervising!GuiOpens(p) \/ Supervising!GuiCloses(p)
           \/ Supervising!Shutdown
  <2>1. /\ UNCHANGED <<stage, job, served>>
        /\ down' \/ (registry' = registry /\ down' = down)
    BY <1>6, OutsideMoves
  <2>2. served = "one" => BoundExist(registry)'
    <3>1. CASE registry' = registry
      BY <3>1, SameBound DEF OneByOne
    <3>2. CASE Supervising!Shutdown
      <4>1. registry' = Supervising!Unregistered(registry, SupIds)
        BY <3>2 DEF Supervising!Shutdown, SupIds
      <4>2. BoundExist(registry) => BoundExist(registry')
        BY <4>1, UnregisterBooks DEF SupervisorTypeOK
      <4> QED BY <4>2 DEF OneByOne, BoundExist
    <3> QED BY <1>6, <3>1, <3>2
            DEF Supervising!WorkerDies, Supervising!GuiOpens, Supervising!GuiCloses,
                Supervising!bookVars
  <2> QED BY <1>3, <2>1, <2>2 DEF OneByOne, Supervising!Working
<1> QED BY <1>4, <1>5, <1>6 DEF Supervising!Next

LEMMA SupervisorNext == ASSUME SupervisorInv, Supervising!Next PROVE SupervisorInv'
<1>1. Workers /\ IsFiniteSet(Up)
  BY DEF SupervisorInv, Workers
<1>2. Workers'
  BY <1>1, WorkersNext
<1>3. IsFiniteSet(Up)'
  BY <1>1, UpStaysFinite
<1> QED BY <1>2, <1>3, OneByOneNext DEF SupervisorInv, Workers

LEMMA SupervisorInit == ASSUME Supervising!Init PROVE SupervisorInv
<1> USE SupervisorConstants DEF Supervising!Init
<1>1. registry \in Books
  BY EntryTypes DEF Books, SupIds
<1>2. SupervisorTypeOK
  BY <1>1, NoJobType DEF SupervisorTypeOK, Stages
<1>3. /\ \A r \in Requests : stage[r] = "new"
      /\ \A w \in Procs : proc[w] = "off"
      /\ \A i \in SupIds : registry.sessions[i] = Supervising!NoSession
      /\ \A c \in Contexts : registry.bound[c] = None
      /\ schema = None
  BY DEF SupIds
<1>4. Holding = {} /\ Supervising!Working = {} /\ Up = {}
  BY <1>3 DEF Holding, Supervising!Working, Up
<1>5. Supervising!NoSession.backend = "none" /\ Supervising!NoSession.proc = None
  BY DEF Supervising!NoSession
<1>6. JobsFit
  BY <1>3 DEF JobsFit, Holding
<1>7. LockIsHeld
  BY <1>3 DEF LockIsHeld
<1>8. OneOwner
  BY <1>3, <1>4, <1>5 DEF OneOwner
<1>9. AllOwned
  BY <1>3 DEF AllOwned
<1>10. PathsLead(registry) /\ BoundExist(registry)
  BY <1>3, <1>5 DEF PathsLead, BoundExist
<1>11. IsFiniteSet(Up) /\ (MaxWorkers = 0 \/ Cardinality(Up) <= MaxWorkers)
  BY <1>4, FS_EmptySet
<1>12. OneByOne
  BY <1>3, <1>4, <1>10, <1>11 DEF OneByOne
<1> QED BY <1>2, <1>6, <1>7, <1>8, <1>9, <1>10, <1>11, <1>12 DEF SupervisorInv

LEMMA SupervisorStays == ASSUME SupervisorInv, UNCHANGED supervisorVars PROVE SupervisorInv'
<1>1. UNCHANGED <<served, gui, proc, registry, schema, cached, lockedBy, stage, job, worker, down>>
  BY DEF supervisorVars
<1>2. Workers'
  BY <1>1 DEF SupervisorInv, Workers, SupervisorTypeOK, JobsFit, LockIsHeld, OneOwner, AllOwned,
              PathsLead, Holding
<1>3. Up' = Up /\ OneByOne'
  BY <1>1 DEF SupervisorInv, OneByOne, Up, BoundExist, Supervising!Working
<1> QED BY <1>2, <1>3 DEF SupervisorInv, Workers

LEMMA SupervisorSafe == ASSUME SupervisorInv PROVE Supervising!WorkersAccountedFor
<1> USE SupervisorConstants DEF SupervisorInv
<1>1. Supervising!NoWorkerLost
  BY DEF AllOwned, Holding, Supervising!Working, Supervising!NoWorkerLost, SupIds
<1>2. Supervising!OneWorkerPerBinary
  <2> SUFFICES ASSUME NEW i \in Supervising!LiveWorkers(registry),
                      NEW k \in Supervising!LiveWorkers(registry), i # k
               PROVE  /\ registry.sessions[i].proc # registry.sessions[k].proc
                      /\ registry.sessions[i].path = registry.sessions[k].path =>
                            registry.sessions[i].path \notin Binaries
    BY DEF Supervising!OneWorkerPerBinary, Binaries
  <2>1. /\ i \in SupIds /\ registry.sessions[i].backend = "worker"
        /\ k \in SupIds /\ registry.sessions[k].backend = "worker"
    BY DEF Supervising!LiveWorkers, SupIds
  <2>2. registry.sessions[i].proc # None
    BY <2>1, BookParts, EntryParts DEF SupervisorTypeOK
  <2> QED BY <2>1, <2>2 DEF OneOwner, PathsLead
<1>3. Supervising!WithinLimits
  <2>1. Supervising!Cardinality({w \in Procs : proc[w] = "up"}) = Cardinality(Up)
    BY SupervisingCardinality DEF Up
  <2>2. Supervising!NoSession.backend = "none"
    BY DEF Supervising!NoSession
  <2> QED BY <2>1, <2>2 DEF OneByOne, BoundExist, Supervising!WithinLimits
<1> QED BY <1>1, <1>2, <1>3 DEF Supervising!WorkersAccountedFor

-----------------------------------------------------------------------------
(* Router: what a session has selected, in the order of last use.          *)
LEMMA RoutingConstants == Routing!RouterAssumption
BY WorkersAssumption

LEMMA RoutingCardinality == ASSUME NEW S PROVE Routing!Cardinality(S) = Cardinality(S)
BY DEF Routing!Cardinality, Cardinality, Routing!IsFiniteSet, IsFiniteSet

(* The places kept are counted from the first: the count is a bijection.   *)
LEMMA RanksCount ==
    ASSUME NEW n \in Nat, NEW P \in SUBSET (1 .. n)
    PROVE  LET Rank(i) == Routing!Cardinality({j \in P : j <= i})
               m == Routing!Cardinality(P)
           IN  /\ m \in Nat
               /\ \A i \in P : Rank(i) \in 1 .. m
               /\ \A i, j \in P : i < j => Rank(i) < Rank(j)
               /\ \A k \in 1 .. m : \E i \in P : Rank(i) = k
<1> DEFINE Below(i) == {j \in P : j <= i}
           Rank(i) == Cardinality(Below(i))
           f == [i \in P |-> Rank(i)]
<1> HIDE DEF f, Rank
<1>1. IsFiniteSet(P) /\ Cardinality(P) \in Nat
  <2>1. IsFiniteSet(1 .. n)
    BY FS_Interval
  <2> QED BY <2>1, FS_Subset, FS_CardinalityType
<1> USE DEF Rank
<1>2. ASSUME NEW i \in P
      PROVE  IsFiniteSet(Below(i)) /\ Rank(i) \in 1 .. Cardinality(P)
  <2>1. Below(i) \in SUBSET P /\ i \in Below(i)
    OBVIOUS
  <2>2. IsFiniteSet(Below(i)) /\ Rank(i) <= Cardinality(P) /\ Rank(i) \in Nat
    BY <1>1, <2>1, FS_Subset, FS_CardinalityType
  <2>3. Rank(i) # 0
    BY <2>1, <2>2, FS_EmptySet
  <2> HIDE DEF Rank
  <2> QED BY <1>1, <2>2, <2>3
<1>3. ASSUME NEW i \in P, NEW j \in P, i < j
      PROVE  Rank(i) < Rank(j)
  <2>1. i \in Nat /\ j \in Nat
    OBVIOUS
  <2>2. \A k \in P : k \in Nat
    OBVIOUS
  <2>3. Below(i) \in SUBSET Below(j) /\ j \in Below(j) /\ j \notin Below(i)
    <3>1. \A k \in P : k <= i => k <= j
      BY <1>3, <2>1, <2>2
    <3>2. ~(j <= i) /\ j <= j
      BY <1>3, <2>1
    <3> QED BY <3>1, <3>2, Zenon DEF Below
  <2> HIDE DEF Below
  <2>4. Rank(i) <= Rank(j) /\ Rank(i) # Rank(j)
    BY <1>2, <2>3, FS_Subset
  <2>5. Rank(i) \in Nat /\ Rank(j) \in Nat
    BY <1>2, FS_CardinalityType
  <2> HIDE DEF Rank
  <2> QED BY <2>4, <2>5
<1> HIDE DEF Rank, Below
<1>4. f \in [P -> 1 .. Cardinality(P)]
  BY <1>2 DEF f
<1>5. \A i, j \in P : f[i] = f[j] => i = j
  <2> SUFFICES ASSUME NEW i \in P, NEW j \in P, i # j PROVE Rank(i) # Rank(j)
    BY DEF f
  <2>1. i < j \/ j < i
    OBVIOUS
  <2>2. Rank(i) \in Nat /\ Rank(j) \in Nat
    BY <1>1, <1>2
  <2> QED BY <1>3, <2>1, <2>2
<1>6. f \in Injection(P, 1 .. Cardinality(P))
  BY <1>4, <1>5 DEF Injection, IsInjective
<1>7. IsFiniteSet(1 .. Cardinality(P)) /\ Cardinality(1 .. Cardinality(P)) = Cardinality(P)
  BY <1>1, FS_Interval
<1>8. f \in Surjection(P, 1 .. Cardinality(P))
  BY <1>6, <1>7, FS_Injection
<1>9. \A k \in 1 .. Cardinality(P) : \E i \in P : Rank(i) = k
  BY <1>8 DEF Surjection, f
<1>10. \A i \in P : Rank(i) \in 1 .. Cardinality(P)
  BY <1>2
<1>11. \A i, j \in P : i < j => Rank(i) < Rank(j)
  BY <1>3
<1>12. Cardinality(P) = Routing!Cardinality(P)
       /\ \A i \in P : Rank(i) = Routing!Cardinality({j \in P : j <= i})
  BY RoutingCardinality DEF Rank, Below
<1> DEFINE Counted(i) == Routing!Cardinality({j \in P : j <= i})
           m == Routing!Cardinality(P)
<1>13. m = Cardinality(P) /\ \A i \in P : Counted(i) = Rank(i)
  BY <1>12
<1> HIDE DEF Counted, m
<1>14. /\ m \in Nat
       /\ \A i \in P : Counted(i) \in 1 .. m
       /\ \A i, j \in P : i < j => Counted(i) < Counted(j)
       /\ \A k \in 1 .. m : \E i \in P : Counted(i) = k
  BY <1>1, <1>9, <1>10, <1>11, <1>13, Zenon
<1> QED BY <1>14 DEF Counted, m

(* What Filtered returns: the entries that are in keep, in their order.        *)
LEMMA FilteredEmbeds ==
    ASSUME NEW q \in Seq(Routing!Entries), NEW keep
    PROVE  /\ Routing!Filtered(q, keep) \in Seq(Routing!Entries)
           /\ \E p \in [1 .. Len(Routing!Filtered(q, keep)) -> 1 .. Len(q)] :
                /\ \A k \in 1 .. Len(Routing!Filtered(q, keep)) :
                      Routing!Filtered(q, keep)[k] = q[p[k]] /\ q[p[k]] \in keep
                /\ \A k, l \in 1 .. Len(Routing!Filtered(q, keep)) : k < l => p[k] < p[l]
                /\ \A i \in 1 .. Len(q) : q[i] \in keep =>
                      \E k \in 1 .. Len(Routing!Filtered(q, keep)) : p[k] = i
<1> DEFINE P == {i \in DOMAIN q : q[i] \in keep}
           Rank(i) == Routing!Cardinality({j \in P : j <= i})
           n == Routing!Cardinality(P)
           Place(k) == CHOOSE i \in P : Rank(i) = k
           p == [k \in 1 .. n |-> Place(k)]
           r == Routing!Filtered(q, keep)
<1>1. Len(q) \in Nat /\ DOMAIN q = 1 .. Len(q) /\ P \in SUBSET (1 .. Len(q))
  OBVIOUS
<1>2. /\ n \in Nat
      /\ \A i \in P : Rank(i) \in 1 .. n
      /\ \A i, j \in P : i < j => Rank(i) < Rank(j)
      /\ \A k \in 1 .. n : \E i \in P : Rank(i) = k
  <2> HIDE DEF P
  <2> QED BY <1>1, RanksCount, Zenon
<1>3. r = [k \in 1 .. n |-> q[Place(k)]]
  BY Zenon DEF Routing!Filtered
<1> HIDE DEF r, n, Rank
<1>4. ASSUME NEW k \in 1 .. n
      PROVE  Place(k) \in P /\ Rank(Place(k)) = k
  <2> HIDE DEF P
  <2> QED BY <1>2, Zenon
<1> HIDE DEF Place
<1>5. ASSUME NEW k \in 1 .. n
      PROVE  Place(k) \in 1 .. Len(q) /\ q[Place(k)] \in keep /\ q[Place(k)] \in Routing!Entries
  BY <1>1, <1>4
<1>6. r \in Seq(Routing!Entries) /\ Len(r) = n
  BY <1>2, <1>3, <1>5
<1>7. p \in [1 .. n -> 1 .. Len(q)]
  BY <1>5
<1>8. ASSUME NEW k \in 1 .. n, NEW l \in 1 .. n, k < l
      PROVE  Place(k) < Place(l)
  <2>1. Place(k) \in P /\ Place(l) \in P /\ Rank(Place(k)) = k /\ Rank(Place(l)) = l
    BY <1>4
  <2>2. Place(k) \in Nat /\ Place(l) \in Nat
    BY <1>5
  <2>3. ~(Place(l) < Place(k)) /\ Place(k) # Place(l)
    <3> HIDE DEF P
    <3>1. ~(l < k) /\ k # l
      BY <1>2, <1>8
    <3> QED BY <1>2, <2>1, <3>1, Zenon
  <2> QED BY <2>2, <2>3
<1>9. ASSUME NEW i \in 1 .. Len(q), q[i] \in keep
      PROVE  Rank(i) \in 1 .. n /\ Place(Rank(i)) = i
  <2>1. i \in P
    BY <1>1, <1>9
  <2>2. Rank(i) \in 1 .. n
    BY <1>2, <2>1
  <2>3. Place(Rank(i)) \in P /\ Rank(Place(Rank(i))) = Rank(i)
    BY <1>4, <2>2
  <2>4. ~(i < Place(Rank(i))) /\ ~(Place(Rank(i)) < i)
    <3> HIDE DEF P
    <3>1. ~(Rank(i) < Rank(i))
      BY <1>2, <2>2
    <3> QED BY <1>2, <2>1, <2>3, <3>1, Zenon
  <2>5. i \in Nat /\ Place(Rank(i)) \in Nat
    BY <1>5, <2>2
  <2> QED BY <2>2, <2>4, <2>5
<1>10. /\ \A k \in 1 .. n : r[k] = q[p[k]] /\ q[p[k]] \in keep
       /\ \A k, l \in 1 .. n : k < l => p[k] < p[l]
       /\ \A i \in 1 .. Len(q) : q[i] \in keep => \E k \in 1 .. n : p[k] = i
  BY <1>3, <1>5, <1>8, <1>9
<1> HIDE DEF p
<1> QED BY <1>6, <1>7, <1>10, Zenon DEF r
-----------------------------------------------------------------------------
(* Selections in order: each session once, at what it has picked, and      *)
(* those behind it have used theirs later.                                 *)
InOrder(q, later, picked) ==
    /\ q \in Seq(Routing!Entries)
    /\ \A i, j \in 1 .. Len(q) : i < j =>
          q[i].session # q[j].session /\ q[j].session \in later[q[i].session]
    /\ \A i \in 1 .. Len(q) : q[i].target = picked[q[i].session]

Has(q, s) == \E i \in 1 .. Len(q) : q[i].session = s

LEMMA EntriesAre ==
    ASSUME NEW q \in Seq(Routing!Entries), NEW i \in 1 .. Len(q)
    PROVE  q[i] \in Routing!Entries /\ q[i].session \in Sessions /\ q[i].target \in Targets
<1>1. q[i] \in Routing!Entries
  OBVIOUS
<1> QED BY <1>1 DEF Routing!Entries

LEMMA FilteredInOrder ==
    ASSUME NEW q, NEW later, NEW picked, InOrder(q, later, picked), NEW keep
    PROVE  /\ InOrder(Routing!Filtered(q, keep), later, picked)
           /\ \A k \in 1 .. Len(Routing!Filtered(q, keep)) :
                 /\ Routing!Filtered(q, keep)[k] \in keep
                 /\ \E i \in 1 .. Len(q) : Routing!Filtered(q, keep)[k] = q[i]
           /\ \A i \in 1 .. Len(q) : q[i] \in keep => Has(Routing!Filtered(q, keep), q[i].session)
<1> DEFINE r == Routing!Filtered(q, keep)
<1>1. q \in Seq(Routing!Entries)
  BY DEF InOrder
<1>2. r \in Seq(Routing!Entries)
  BY <1>1, FilteredEmbeds
<1>3. PICK p \in [1 .. Len(r) -> 1 .. Len(q)] :
         /\ \A k \in 1 .. Len(r) : r[k] = q[p[k]] /\ q[p[k]] \in keep
         /\ \A k, l \in 1 .. Len(r) : k < l => p[k] < p[l]
         /\ \A i \in 1 .. Len(q) : q[i] \in keep => \E k \in 1 .. Len(r) : p[k] = i
  BY <1>1, FilteredEmbeds
<1> HIDE DEF r
<1>4. ASSUME NEW k \in 1 .. Len(r), NEW l \in 1 .. Len(r), k < l
      PROVE  r[k].session # r[l].session /\ r[l].session \in later[r[k].session]
  <2>1. p[k] \in 1 .. Len(q) /\ p[l] \in 1 .. Len(q) /\ p[k] < p[l] /\ r[k] = q[p[k]] /\ r[l] = q[p[l]]
    BY <1>3, <1>4
  <2> QED BY <2>1 DEF InOrder
<1>5. ASSUME NEW k \in 1 .. Len(r)
      PROVE  /\ r[k].target = picked[r[k].session] /\ r[k] \in keep
             /\ \E i \in 1 .. Len(q) : r[k] = q[i]
  <2>1. p[k] \in 1 .. Len(q) /\ r[k] = q[p[k]] /\ q[p[k]] \in keep
    BY <1>3
  <2> QED BY <2>1 DEF InOrder
<1>6. ASSUME NEW i \in 1 .. Len(q), q[i] \in keep
      PROVE  Has(r, q[i].session)
  <2>1. PICK k \in 1 .. Len(r) : p[k] = i
    BY <1>3, <1>6
  <2>2. r[k] = q[i]
    BY <1>3, <2>1
  <2> QED BY <2>2 DEF Has
<1>7. InOrder(r, later, picked)
  BY <1>2, <1>4, <1>5 DEF InOrder
<1> QED BY <1>5, <1>6, <1>7 DEF r

LEMMA NewestInOrder ==
    ASSUME NEW q, NEW later, NEW picked, InOrder(q, later, picked),
           NEW n \in Nat \ {0}, \A s \in Sessions : IsFiniteSet(later[s])
    PROVE  /\ InOrder(Routing!Newest(q, n), later, picked)
           /\ \A s \in Sessions : Has(q, s) /\ Cardinality(later[s]) < n => Has(Routing!Newest(q, n), s)
<1> DEFINE r == Routing!Newest(q, n)
           m == Len(q) - n
<1>1. q \in Seq(Routing!Entries) /\ Len(q) \in Nat
  BY DEF InOrder
<1>2. CASE ~(Len(q) > n)
  BY <1>2 DEF Routing!Newest
<1>3. CASE Len(q) > n
  <2>1. m \in Nat \ {0}
    BY <1>1, <1>3
  <2>2. r = SubSeq(q, m + 1, Len(q))
    BY <1>3 DEF Routing!Newest
  <2>3. /\ r \in Seq(Routing!Entries) /\ Len(r) = n
        /\ \A k \in 1 .. n : r[k] = q[m + k] /\ m + k \in 1 .. Len(q)
    BY <1>1, <2>1, <2>2
  <2> HIDE DEF r
  <2>4. ASSUME NEW k \in 1 .. Len(r), NEW l \in 1 .. Len(r), k < l
        PROVE  r[k].session # r[l].session /\ r[l].session \in later[r[k].session]
    <3>1. m + k \in 1 .. Len(q) /\ m + l \in 1 .. Len(q) /\ m + k < m + l
      BY <2>1, <2>3, <2>4
    <3>2. r[k] = q[m + k] /\ r[l] = q[m + l]
      BY <2>3
    <3> HIDE DEF m
    <3> QED BY <3>1, <3>2 DEF InOrder
  <2>5. ASSUME NEW k \in 1 .. Len(r)
        PROVE  r[k].target = picked[r[k].session]
    <3>1. m + k \in 1 .. Len(q) /\ r[k] = q[m + k]
      BY <2>3
    <3> HIDE DEF m
    <3> QED BY <3>1 DEF InOrder
  <2>6. ASSUME NEW s \in Sessions, Has(q, s), Cardinality(later[s]) < n
        PROVE  Has(r, s)
    <3>1. PICK i \in 1 .. Len(q) : q[i].session = s
      BY <2>6 DEF Has
    <3>2. CASE i > m
      <4>1. i - m \in 1 .. n /\ m + (i - m) = i
        BY <1>1, <2>1, <3>2
      <4>2. r[i - m] = q[i]
        BY <2>3, <4>1
      <4> QED BY <2>3, <3>1, <4>1, <4>2 DEF Has
    <3>3. CASE ~(i > m)
      <4> DEFINE f == [k \in 1 .. n |-> r[k].session]
      <4>1. ASSUME NEW k \in 1 .. n
            PROVE  r[k].session \in later[s]
        <5>1. m + k \in 1 .. Len(q) /\ i < m + k /\ r[k] = q[m + k]
          BY <1>1, <2>1, <2>3, <3>3
        <5> HIDE DEF m
        <5> QED BY <3>1, <5>1 DEF InOrder
      <4>2. \A k, l \in 1 .. n : r[k].session = r[l].session => k = l
        <5> SUFFICES ASSUME NEW k \in 1 .. n, NEW l \in 1 .. n, k # l
                     PROVE  r[k].session # r[l].session
          OBVIOUS
        <5>1. k < l \/ l < k
          OBVIOUS
        <5> QED BY <2>3, <2>4, <5>1
      <4>3. f \in Injection(1 .. n, later[s])
        BY <4>1, <4>2 DEF Injection, IsInjective
      <4>4. Cardinality(1 .. n) <= Cardinality(later[s])
        BY <4>3, FS_Injection
      <4>5. Cardinality(1 .. n) = n
        BY FS_Interval
      <4>6. Cardinality(later[s]) \in Nat
        BY FS_CardinalityType
      <4> QED BY <2>6, <4>4, <4>5, <4>6
    <3> QED BY <3>2, <3>3
  <2>7. InOrder(r, later, picked)
    BY <2>3, <2>4, <2>5 DEF InOrder
  <2> QED BY <2>6, <2>7 DEF r
<1> QED BY <1>2, <1>3

LEMMA AppendInOrder ==
    ASSUME NEW q, NEW later, NEW picked, InOrder(q, later, picked),
           NEW s \in Sessions, NEW t \in Targets, ~Has(q, s), NEW later2, NEW picked2,
           \A u \in Sessions \ {s} : later[u] \cup {s} \subseteq later2[u] /\ picked2[u] = picked[u],
           picked2[s] = t
    PROVE  LET r == Append(q, [session |-> s, target |-> t]) IN
           /\ InOrder(r, later2, picked2) /\ Has(r, s)
           /\ \A u \in Sessions : Has(q, u) => Has(r, u)
<1> DEFINE e == [session |-> s, target |-> t]
           r == Append(q, e)
<1>1. q \in Seq(Routing!Entries) /\ Len(q) \in Nat
  BY DEF InOrder
<1>2. e \in Routing!Entries /\ e.session = s /\ e.target = t
  BY DEF Routing!Entries
<1> HIDE DEF e
<1>3. /\ r \in Seq(Routing!Entries) /\ Len(r) = Len(q) + 1 /\ r[Len(q) + 1] = e
      /\ \A i \in 1 .. Len(q) : r[i] = q[i] /\ i \in 1 .. Len(r)
  BY <1>1, <1>2
<1> HIDE DEF r
<1>4. ASSUME NEW i \in 1 .. Len(q)
      PROVE  q[i].session \in Sessions \ {s}
  BY <1>1, EntriesAre DEF Has
<1>5. ASSUME NEW i \in 1 .. Len(r), NEW j \in 1 .. Len(r), i < j
      PROVE  r[i].session # r[j].session /\ r[j].session \in later2[r[i].session]
  <2>1. i \in 1 .. Len(q)
    BY <1>1, <1>3, <1>5
  <2>2. r[i] = q[i] /\ later[q[i].session] \cup {s} \subseteq later2[q[i].session]
    BY <1>3, <1>4, <2>1
  <2>3. CASE j \in 1 .. Len(q)
    <3>1. r[j] = q[j] /\ q[i].session # q[j].session /\ q[j].session \in later[q[i].session]
      BY <1>3, <1>5, <2>1, <2>3 DEF InOrder
    <3> QED BY <2>2, <3>1
  <2>4. CASE j = Len(q) + 1
    BY <1>2, <1>3, <1>4, <2>1, <2>2, <2>4
  <2> QED BY <1>1, <1>3, <2>3, <2>4
<1>6. ASSUME NEW i \in 1 .. Len(r)
      PROVE  r[i].target = picked2[r[i].session]
  <2>1. CASE i \in 1 .. Len(q)
    BY <1>3, <1>4, <2>1 DEF InOrder
  <2>2. CASE i = Len(q) + 1
    BY <1>2, <1>3, <2>2
  <2> QED BY <1>1, <1>3, <2>1, <2>2
<1>7. Has(r, s)
  BY <1>1, <1>2, <1>3 DEF Has
<1>8. \A u \in Sessions : Has(q, u) => Has(r, u)
  BY <1>3 DEF Has
<1>9. InOrder(r, later2, picked2)
  BY <1>3, <1>5, <1>6 DEF InOrder
<1> QED BY <1>7, <1>8, <1>9 DEF r, e
-----------------------------------------------------------------------------
(* The selections of sessions: a session that is young, and was not        *)
(* overtaken by as many as there is room for, has its own.                 *)
SelectionTypeOK ==
    /\ default \in Targets \cup {Nobody}
    /\ last \in [Sessions -> Targets \cup {Nobody}]
    /\ since \in [Sessions -> SUBSET Sessions]
    /\ \A s \in Sessions : IsFiniteSet(since[s])

SelectionsStay ==
    \A s \in Sessions :
        last[s] # Nobody /\ s \notin aged /\ Cardinality(since[s]) < MaxSelections => Has(chosen, s)

SelectionsInv == SelectionTypeOK /\ InOrder(chosen, since, last) /\ SelectionsStay

RoutingTypeOK ==
    /\ table \subseteq Targets
    /\ call \in [Calls -> [at : {"idle", "sent", "selecting"}, session : Sessions \cup {Nobody},
                           goal : Targets \cup {Nobody}, host : Nat]]
    /\ \A c \in Calls : call[c].at = "selecting" => call[c].session \in Sessions /\ call[c].goal \in Targets

RoutingInv == RoutingTypeOK /\ SelectionsInv

LEMMA RoomForSelections == MaxSelections \in Nat \ {0} /\ Nobody \notin Targets /\ Nobody \notin Sessions
BY RoutingConstants DEF Routing!RouterAssumption

(* What pruning leaves: the order, and those that are young and not        *)
(* overtaken.                                                              *)
LEMMA PrunedInOrder ==
    ASSUME NEW q, NEW later, NEW picked, InOrder(q, later, picked), NEW old,
           \A s \in Sessions : IsFiniteSet(later[s])
    PROVE  /\ InOrder(Routing!Pruned(q, old), later, picked)
           /\ \A s \in Sessions :
                 Has(q, s) /\ s \notin old /\ Cardinality(later[s]) < MaxSelections =>
                     Has(Routing!Pruned(q, old), s)
<1> DEFINE keep == {e \in Routing!Entries : e.session \notin old}
           r == Routing!Filtered(q, keep)
<1>1. InOrder(r, later, picked)
  BY FilteredInOrder
<1>2. \A i \in 1 .. Len(q) : q[i] \in keep => Has(r, q[i].session)
  BY FilteredInOrder
<1>3. Routing!Pruned(q, old) = Routing!Newest(r, MaxSelections)
  BY DEF Routing!Pruned
<1> HIDE DEF r
<1>4. ASSUME NEW s \in Sessions, Has(q, s), s \notin old
      PROVE  Has(r, s)
  <2>1. PICK i \in 1 .. Len(q) : q[i].session = s
    BY <1>4 DEF Has
  <2>2. q[i] \in Routing!Entries
    BY EntriesAre DEF InOrder
  <2> QED BY <1>2, <1>4, <2>1, <2>2
<1>5. /\ InOrder(Routing!Newest(r, MaxSelections), later, picked)
      /\ \A s \in Sessions : Has(r, s) /\ Cardinality(later[s]) < MaxSelections =>
            Has(Routing!Newest(r, MaxSelections), s)
  BY <1>1, NewestInOrder, RoomForSelections
<1> QED BY <1>3, <1>4, <1>5

LEMMA WithoutInOrder ==
    ASSUME NEW q, NEW later, NEW picked, InOrder(q, later, picked), NEW s
    PROVE  /\ InOrder(Routing!Without(q, s), later, picked)
           /\ ~Has(Routing!Without(q, s), s)
           /\ \A u \in Sessions \ {s} : Has(q, u) => Has(Routing!Without(q, s), u)
<1> DEFINE keep == {e \in Routing!Entries : e.session # s}
           r == Routing!Filtered(q, keep)
<1>1. InOrder(r, later, picked) /\ \A k \in 1 .. Len(r) : r[k] \in keep
  BY FilteredInOrder
<1>2. \A i \in 1 .. Len(q) : q[i] \in keep => Has(r, q[i].session)
  BY FilteredInOrder
<1> HIDE DEF r
<1>3. ~Has(r, s)
  BY <1>1 DEF Has
<1>4. ASSUME NEW u \in Sessions \ {s}, Has(q, u)
      PROVE  Has(r, u)
  <2>1. PICK i \in 1 .. Len(q) : q[i].session = u
    BY <1>4 DEF Has
  <2>2. q[i] \in Routing!Entries
    BY EntriesAre DEF InOrder
  <2> QED BY <1>2, <2>1, <2>2
<1> QED BY <1>1, <1>3, <1>4 DEF Routing!Without, r

(* A session that has a selection has the one it made last.                *)
LEMMA SelectionIsLast ==
    ASSUME SelectionsInv, NEW s \in Sessions
    PROVE  /\ Has(chosen, s) /\ s \notin aged => Routing!Alive(s)
           /\ Routing!Alive(s) => Routing!Selection(s) = last[s] /\ last[s] \in Targets
           /\ Routing!Selection(s) \in Targets \cup {Nobody}
<1>1. chosen \in Seq(Routing!Entries) /\ DOMAIN chosen = 1 .. Len(chosen)
  BY DEF SelectionsInv, InOrder
<1>2. Routing!Holds(s) = {e \in {chosen[i] : i \in 1 .. Len(chosen)} : e.session = s}
  BY <1>1, Zenon DEF Routing!Holds, Routing!Range
<1>3. ASSUME Has(chosen, s), s \notin aged
      PROVE  Routing!Alive(s)
  <2>1. PICK i \in 1 .. Len(chosen) : chosen[i].session = s
    BY <1>3 DEF Has
  <2>2. chosen[i] \in Routing!Holds(s)
    BY <1>2, <2>1
  <2> QED BY <1>3, <2>2 DEF Routing!Alive
<1>4. ASSUME Routing!Alive(s)
      PROVE  Routing!Selection(s) = last[s] /\ last[s] \in Targets
  <2> DEFINE e == CHOOSE x \in Routing!Holds(s) : TRUE
  <2>1. e \in Routing!Holds(s)
    BY <1>4 DEF Routing!Alive
  <2>2. Routing!Selection(s) = e.target
    BY <1>4, Zenon DEF Routing!Selection
  <2> HIDE DEF e
  <2>3. PICK i \in 1 .. Len(chosen) : e = chosen[i] /\ chosen[i].session = s
    BY <1>2, <2>1
  <2>4. e.target = last[s]
    BY <2>3 DEF SelectionsInv, InOrder
  <2>5. e.target \in Targets
    BY <1>1, <2>3, EntriesAre
  <2> QED BY <2>2, <2>4, <2>5
<1>5. ~Routing!Alive(s) => Routing!Selection(s) = default
  BY Zenon DEF Routing!Selection
<1>6. default \in Targets \cup {Nobody}
  BY DEF SelectionsInv, SelectionTypeOK
<1> QED BY <1>3, <1>4, <1>5, <1>6

LEMMA SelectionUsed ==
    ASSUME SelectionsInv, NEW s \in Sessions, Routing!Uses(s), last' \in [Sessions -> Targets \cup {Nobody}],
           \A u \in Sessions \ {s} : last'[u] = last[u]
    PROVE  /\ since' \in [Sessions -> SUBSET Sessions]
           /\ \A u \in Sessions : IsFiniteSet(since'[u])
           /\ \A u \in Sessions \ {s} : since[u] \cup {s} \subseteq since'[u] /\ last'[u] = last[u]
           /\ \A u \in Sessions \ {s} :
                 last'[u] # Nobody /\ u \notin aged' /\ Cardinality(since'[u]) < MaxSelections =>
                     Has(chosen, u) /\ u \notin aged /\ Cardinality(since[u]) < MaxSelections
           /\ s \notin aged'
<1>1. since \in [Sessions -> SUBSET Sessions] /\ \A u \in Sessions : IsFiniteSet(since[u])
  BY DEF SelectionsInv, SelectionTypeOK
<1>2. since' = [u \in Sessions |-> IF u = s THEN {} ELSE since[u] \cup {s}] /\ aged' = aged \ {s}
  BY DEF Routing!Uses
<1>3. \A u \in Sessions : since'[u] \in SUBSET Sessions /\ (u = s => since'[u] = {})
                          /\ (u # s => since'[u] = since[u] \cup {s})
  BY <1>1, <1>2
<1>4. ASSUME NEW u \in Sessions
      PROVE  IsFiniteSet(since'[u])
  <2>1. CASE u = s
    BY <1>3, <2>1, FS_EmptySet
  <2>2. CASE u # s
    <3>1. since'[u] = since[u] \cup {s} /\ IsFiniteSet(since[u])
      BY <1>1, <1>3, <2>2
    <3> QED BY <3>1, FS_AddElement
  <2> QED BY <2>1, <2>2
<1>5. ASSUME NEW u \in Sessions \ {s}, last'[u] # Nobody, u \notin aged', Cardinality(since'[u]) < MaxSelections
      PROVE  Has(chosen, u) /\ u \notin aged /\ Cardinality(since[u]) < MaxSelections
  <2>1. since'[u] = since[u] \cup {s} /\ IsFiniteSet(since'[u]) /\ IsFiniteSet(since[u])
    BY <1>1, <1>3, <1>4
  <2>2. /\ Cardinality(since[u]) <= Cardinality(since'[u])
        /\ Cardinality(since[u]) \in Nat /\ Cardinality(since'[u]) \in Nat
    BY <2>1, FS_Subset, FS_CardinalityType
  <2>3. Cardinality(since[u]) < MaxSelections
    BY <1>5, <2>2, RoomForSelections
  <2>4. u \notin aged /\ last[u] # Nobody
    BY <1>2, <1>5
  <2> QED BY <2>3, <2>4 DEF SelectionsInv, SelectionsStay
<1>6. since' \in [Sessions -> SUBSET Sessions]
  BY <1>1, <1>2
<1>7. \A u \in Sessions \ {s} : since[u] \cup {s} \subseteq since'[u] /\ last'[u] = last[u]
  BY <1>3
<1>8. s \notin aged'
  BY <1>2
<1> QED BY <1>4, <1>5, <1>6, <1>7, <1>8

LEMMA GetSelectedKeeps ==
    ASSUME SelectionsInv, NEW s \in Sessions, Routing!GetSelected(s)
    PROVE  SelectionsInv'
<1> DEFINE pruned == Routing!Pruned(chosen, aged)
<1>1. /\ InOrder(chosen, since, last) /\ SelectionTypeOK /\ SelectionsStay
      /\ \A u \in Sessions : IsFiniteSet(since[u])
  BY DEF SelectionsInv, SelectionTypeOK
<1>2. /\ InOrder(pruned, since, last)
      /\ \A u \in Sessions : Has(chosen, u) /\ u \notin aged /\ Cardinality(since[u]) < MaxSelections =>
            Has(pruned, u)
  BY <1>1, PrunedInOrder
<1>3. default' = default /\ last' = last
  BY DEF Routing!GetSelected
<1>4. CASE Routing!Alive(s)
  <2> DEFINE rest == Routing!Without(pruned, s)
  <2>1. chosen' = Append(rest, [session |-> s, target |-> Routing!Selection(s)]) /\ Routing!Uses(s)
    BY <1>4 DEF Routing!GetSelected
  <2> HIDE DEF pruned
  <2>2. Routing!Selection(s) = last[s] /\ last[s] \in Targets
    BY <1>4, SelectionIsLast
  <2>3. /\ InOrder(rest, since, last) /\ ~Has(rest, s)
        /\ \A u \in Sessions \ {s} : Has(pruned, u) => Has(rest, u)
    BY <1>2, WithoutInOrder
  <2> HIDE DEF rest
  <2>4. /\ since' \in [Sessions -> SUBSET Sessions]
        /\ \A u \in Sessions : IsFiniteSet(since'[u])
        /\ \A u \in Sessions \ {s} : since[u] \cup {s} \subseteq since'[u] /\ last'[u] = last[u]
        /\ \A u \in Sessions \ {s} :
              last'[u] # Nobody /\ u \notin aged' /\ Cardinality(since'[u]) < MaxSelections =>
                  Has(chosen, u) /\ u \notin aged /\ Cardinality(since[u]) < MaxSelections
    BY <1>1, <1>3, <2>1, SelectionUsed DEF SelectionTypeOK
  <2>5. last'[s] = Routing!Selection(s) /\ Routing!Selection(s) \in Targets
    BY <1>3, <2>2
  <2>6. /\ InOrder(chosen', since', last') /\ Has(chosen', s)
        /\ \A u \in Sessions : Has(rest, u) => Has(chosen', u)
    BY <2>1, <2>3, <2>4, <2>5, AppendInOrder
  <2>7. SelectionTypeOK'
    BY <1>1, <1>3, <2>4 DEF SelectionTypeOK
  <2>8. SelectionsStay'
    BY <1>2, <2>3, <2>4, <2>6 DEF SelectionsStay
  <2> QED BY <2>6, <2>7, <2>8 DEF SelectionsInv
<1>5. CASE ~Routing!Alive(s)
  <2>1. chosen' = pruned /\ aged' = aged /\ since' = since
    BY <1>5 DEF Routing!GetSelected
  <2> HIDE DEF pruned
  <2>2. SelectionTypeOK' /\ InOrder(chosen', since', last')
    BY <1>1, <1>2, <1>3, <2>1 DEF SelectionTypeOK
  <2>3. SelectionsStay'
    BY <1>1, <1>2, <1>3, <2>1 DEF SelectionsStay
  <2> QED BY <2>2, <2>3 DEF SelectionsInv
<1> QED BY <1>4, <1>5

LEMMA SetSelectedKeeps ==
    ASSUME SelectionsInv, NEW s \in Sessions, NEW t \in Targets, Routing!SetSelected(s, t)
    PROVE  SelectionsInv'
<1> DEFINE rest == Routing!Without(chosen, s)
           added == Append(rest, [session |-> s, target |-> t])
<1>1. /\ InOrder(chosen, since, last) /\ SelectionTypeOK /\ SelectionsStay
  BY DEF SelectionsInv
<1>2. /\ InOrder(rest, since, last) /\ ~Has(rest, s)
      /\ \A u \in Sessions \ {s} : Has(chosen, u) => Has(rest, u)
  BY <1>1, WithoutInOrder
<1>3. /\ chosen' = Routing!Pruned(added, aged \ {s}) /\ Routing!Uses(s)
      /\ last' = [last EXCEPT ![s] = t] /\ default' = default
  BY RoomForSelections DEF Routing!SetSelected
<1> HIDE DEF rest
<1>4. last' \in [Sessions -> Targets \cup {Nobody}] /\ last'[s] = t /\ \A u \in Sessions \ {s} : last'[u] = last[u]
  BY <1>1, <1>3 DEF SelectionTypeOK
<1>5. /\ since' \in [Sessions -> SUBSET Sessions]
      /\ \A u \in Sessions : IsFiniteSet(since'[u])
      /\ \A u \in Sessions \ {s} : since[u] \cup {s} \subseteq since'[u] /\ last'[u] = last[u]
      /\ \A u \in Sessions \ {s} :
            last'[u] # Nobody /\ u \notin aged' /\ Cardinality(since'[u]) < MaxSelections => Has(chosen, u)
      /\ s \notin aged'
  BY <1>3, <1>4, SelectionUsed
<1>6. /\ InOrder(added, since', last') /\ Has(added, s)
      /\ \A u \in Sessions : Has(rest, u) => Has(added, u)
  BY <1>2, <1>4, <1>5, AppendInOrder
<1> HIDE DEF added
<1>7. aged' = aged \ {s}
  BY <1>3 DEF Routing!Uses
<1>8. /\ InOrder(chosen', since', last')
      /\ \A u \in Sessions : Has(added, u) /\ u \notin aged' /\ Cardinality(since'[u]) < MaxSelections =>
            Has(chosen', u)
  BY <1>3, <1>5, <1>6, <1>7, PrunedInOrder
<1>9. SelectionTypeOK'
  BY <1>1, <1>3, <1>4, <1>5 DEF SelectionTypeOK
<1>10. SelectionsStay'
  BY <1>2, <1>5, <1>6, <1>8 DEF SelectionsStay
<1> QED BY <1>8, <1>9, <1>10 DEF SelectionsInv

LEMMA ClearSelectedKeeps ==
    ASSUME SelectionsInv, NEW s \in Sessions, Routing!ClearSelected(s)
    PROVE  SelectionsInv'
<1> DEFINE rest == Routing!Without(chosen, s)
<1>1. /\ InOrder(chosen, since, last) /\ SelectionTypeOK /\ SelectionsStay
      /\ \A u \in Sessions : IsFiniteSet(since[u])
  BY DEF SelectionsInv, SelectionTypeOK
<1>2. /\ InOrder(rest, since, last) /\ ~Has(rest, s)
      /\ \A u \in Sessions \ {s} : Has(chosen, u) => Has(rest, u)
  BY <1>1, WithoutInOrder
<1>3. /\ chosen' = Routing!Pruned(rest, aged) \/ chosen' = rest
      /\ last' = [last EXCEPT ![s] = Nobody] /\ aged' = aged /\ default' = default /\ since' = since
  BY RoomForSelections DEF Routing!ClearSelected
<1> HIDE DEF rest
<1>4. /\ last' \in [Sessions -> Targets \cup {Nobody}] /\ last'[s] = Nobody
      /\ \A u \in Sessions \ {s} : last'[u] = last[u]
  BY <1>1, <1>3 DEF SelectionTypeOK
<1>5. InOrder(rest, since, last')
  <2>1. \A i \in 1 .. Len(rest) : rest[i].session \in Sessions \ {s}
    BY <1>2, EntriesAre DEF InOrder, Has
  <2> QED BY <1>2, <1>4, <2>1 DEF InOrder
<1>6. /\ InOrder(chosen', since, last')
      /\ \A u \in Sessions : Has(rest, u) /\ u \notin aged /\ Cardinality(since[u]) < MaxSelections =>
            Has(chosen', u)
  BY <1>1, <1>3, <1>5, PrunedInOrder
<1>7. SelectionTypeOK'
  BY <1>1, <1>3, <1>4 DEF SelectionTypeOK
<1>8. SelectionsStay'
  BY <1>1, <1>2, <1>3, <1>4, <1>6 DEF SelectionsStay
<1> QED BY <1>3, <1>6, <1>7, <1>8 DEF SelectionsInv

LEMMA UnregisterKeeps ==
    ASSUME SelectionsInv, NEW t \in Targets, Routing!Unregister(t)
    PROVE  SelectionsInv'
<1> DEFINE keep == {e \in Routing!Entries : e.target # t}
           rest == Routing!Filtered(chosen, keep)
<1>1. /\ InOrder(chosen, since, last) /\ SelectionTypeOK /\ SelectionsStay
  BY DEF SelectionsInv
<1>2. /\ InOrder(rest, since, last) /\ \A k \in 1 .. Len(rest) : rest[k] \in keep
      /\ \A i \in 1 .. Len(chosen) : chosen[i] \in keep => Has(rest, chosen[i].session)
  BY <1>1, FilteredInOrder
<1>3. /\ chosen' = rest /\ last' = [s \in Sessions |-> IF last[s] = t THEN Nobody ELSE last[s]]
      /\ aged' = aged /\ default' = default /\ since' = since
  BY DEF Routing!Unregister
<1> HIDE DEF rest
<1>4. /\ last' \in [Sessions -> Targets \cup {Nobody}]
      /\ \A s \in Sessions : last[s] # t => last'[s] = last[s]
      /\ \A s \in Sessions : last[s] = t => last'[s] = Nobody
  BY <1>1, <1>3 DEF SelectionTypeOK
<1>5. InOrder(rest, since, last')
  <2>1. \A k \in 1 .. Len(rest) : rest[k].session \in Sessions /\ last[rest[k].session] # t
    BY <1>2, EntriesAre DEF InOrder
  <2> QED BY <1>2, <1>4, <2>1 DEF InOrder
<1>6. ASSUME NEW s \in Sessions, Has(chosen, s), last[s] # t
      PROVE  Has(rest, s)
  <2>1. PICK i \in 1 .. Len(chosen) : chosen[i].session = s
    BY <1>6 DEF Has
  <2>2. chosen[i] \in Routing!Entries
    BY <1>1, EntriesAre DEF InOrder
  <2>3. chosen[i].target = last[s]
    BY <1>1, <2>1 DEF InOrder
  <2> QED BY <1>2, <1>6, <2>1, <2>2, <2>3
<1>7. SelectionTypeOK'
  BY <1>1, <1>3, <1>4 DEF SelectionTypeOK
<1>8. SelectionsStay'
  BY <1>1, <1>3, <1>4, <1>6 DEF SelectionsStay
<1> QED BY <1>3, <1>5, <1>7, <1>8 DEF SelectionsInv

LEMMA SelectionsUnchanged ==
    ASSUME SelectionsInv, UNCHANGED Routing!selectionVars
    PROVE  SelectionsInv'
BY DEF SelectionsInv, SelectionTypeOK, SelectionsStay, Routing!selectionVars, InOrder, Has

LEMMA DayPassesKeeps ==
    ASSUME SelectionsInv, NEW s \in Sessions, Routing!DayPasses(s)
    PROVE  SelectionsInv'
BY DEF SelectionsInv, SelectionTypeOK, SelectionsStay, Routing!DayPasses, InOrder, Has

-----------------------------------------------------------------------------
(* What a request means is one of the targets that there are.              *)
LEMMA OneIsFound ==
    ASSUME NEW found, Routing!Cardinality(found) = 1
    PROVE  Routing!One(found) \in found
<1>1. found # {}
  BY FS_EmptySet, RoutingCardinality
<1> QED BY <1>1 DEF Routing!One

LEMMA BeginsFits ==
    ASSUME RoutingTypeOK, NEW c \in Calls, NEW s \in Sessions, NEW at \in {"sent", "selecting"},
           NEW t \in Targets \cup {Nobody}, at = "selecting" => t \in Targets,
           Routing!Begins(c, s, at, t), table' = table
    PROVE  RoutingTypeOK'
<1> DEFINE row == [at |-> at, session |-> IF at = "selecting" THEN s ELSE Nobody, goal |-> t, host |-> 0]
           Rows == [at : {"idle", "sent", "selecting"}, session : Sessions \cup {Nobody},
                    goal : Targets \cup {Nobody}, host : Nat]
<1>1. call' = [call EXCEPT ![c] = row]
  BY DEF Routing!Begins, Routing!NoCall
<1>2. row \in Rows /\ row.at = at /\ row.goal = t /\ (at = "selecting" => row.session = s)
  OBVIOUS
<1> HIDE DEF row, Rows
<1>3. call \in [Calls -> Rows] /\ table \subseteq Targets
      /\ \A d \in Calls : call[d].at = "selecting" => call[d].session \in Sessions /\ call[d].goal \in Targets
  BY Zenon DEF RoutingTypeOK, Rows
<1>4. call' \in [Calls -> Rows]
  BY <1>1, <1>2, <1>3
<1>5. \A d \in Calls : call'[d] = IF d = c THEN row ELSE call[d]
  BY <1>1, <1>3
<1>6. \A d \in Calls : call'[d].at = "selecting" => call'[d].session \in Sessions /\ call'[d].goal \in Targets
  BY <1>2, <1>3, <1>5
<1> QED BY <1>3, <1>4, <1>6 DEF RoutingTypeOK, Rows

LEMMA CallNamedKeeps ==
    ASSUME RoutingInv, NEW c \in Calls, NEW s \in Sessions, NEW ref, NEW at \in {"sent", "selecting"},
           Routing!CallNamed(c, s, ref, at)
    PROVE  RoutingInv'
<1>1. /\ Routing!Cardinality(Routing!Matches(ref)) = 1
      /\ Routing!Begins(c, s, at, Routing!One(Routing!Matches(ref)))
      /\ table' = table /\ UNCHANGED Routing!selectionVars
  BY DEF Routing!CallNamed
<1>2. Routing!One(Routing!Matches(ref)) \in Routing!Matches(ref)
  BY <1>1, OneIsFound
<1>3. Routing!Matches(ref) \subseteq Targets
  BY DEF Routing!Matches, RoutingInv, RoutingTypeOK
<1>4. RoutingTypeOK'
  BY <1>1, <1>2, <1>3, BeginsFits DEF RoutingInv
<1> QED BY <1>1, <1>4, SelectionsUnchanged DEF RoutingInv

LEMMA CallSelectedKeeps ==
    ASSUME RoutingInv, NEW c \in Calls, NEW s \in Sessions, Routing!CallSelected(c, s)
    PROVE  RoutingInv'
<1> DEFINE t == Routing!Selection(s)
<1>1. t \in Targets \cup {Nobody} /\ table \subseteq Targets
  BY SelectionIsLast DEF RoutingInv, RoutingTypeOK
<1>2. table' = table
  BY DEF Routing!CallSelected
<1>3. CASE Routing!GetSelected(s) /\ Routing!Begins(c, s, "sent", t)
  <2> HIDE DEF t
  <2>1. SelectionsInv'
    BY <1>3, GetSelectedKeeps DEF RoutingInv
  <2>2. RoutingTypeOK'
    BY <1>1, <1>2, <1>3, BeginsFits DEF RoutingInv
  <2> QED BY <2>1, <2>2 DEF RoutingInv
<1>4. CASE /\ Routing!ClearSelected(s) \/ Routing!GetSelected(s)
           /\ IF Routing!Cardinality(table) = 1 THEN Routing!Begins(c, s, "sent", Routing!One(table)) ELSE Routing!Fails
  <2>1. SelectionsInv'
    BY <1>4, GetSelectedKeeps, ClearSelectedKeeps DEF RoutingInv
  <2>2. CASE Routing!Cardinality(table) = 1
    <3>1. Routing!One(table) \in Targets
      BY <1>1, <2>2, OneIsFound
    <3>2. RoutingTypeOK'
      BY <1>2, <1>4, <2>2, <3>1, BeginsFits DEF RoutingInv
    <3> QED BY <2>1, <3>2 DEF RoutingInv
  <2>3. CASE Routing!Cardinality(table) # 1
    <3>1. call' = call
      BY <1>4, <2>3 DEF Routing!Fails
    <3> QED BY <1>2, <2>1, <3>1 DEF RoutingInv, RoutingTypeOK
  <2> QED BY <2>2, <2>3
<1> QED BY <1>3, <1>4 DEF Routing!CallSelected

LEMMA SelectKeeps ==
    ASSUME RoutingInv, NEW c \in Calls, Routing!Select(c)
    PROVE  RoutingInv'
<1>1. call[c].session \in Sessions /\ call[c].goal \in Targets
  BY DEF Routing!Select, RoutingInv, RoutingTypeOK
<1>2. SelectionsInv'
  BY <1>1, SetSelectedKeeps DEF Routing!Select, RoutingInv
<1>3. RoutingTypeOK'
  BY RoomForSelections DEF Routing!Select, RoutingInv, RoutingTypeOK, Routing!NoCall
<1> QED BY <1>2, <1>3 DEF RoutingInv

LEMMA ProbeKeeps ==
    ASSUME RoutingInv, NEW c \in Calls, NEW s \in Sessions, NEW t \in Targets, Routing!ProbeInstance(c, s, t)
    PROVE  RoutingInv'
<1>1. Routing!Begins(c, s, "selecting", t) /\ table' = table /\ UNCHANGED Routing!selectionVars
  BY DEF Routing!ProbeInstance
<1>2. RoutingTypeOK'
  BY <1>1, BeginsFits DEF RoutingInv
<1> QED BY <1>1, <1>2, SelectionsUnchanged DEF RoutingInv

LEMMA AnsweredKeeps ==
    ASSUME RoutingInv, NEW c \in Calls, Routing!Answered(c) \/ Routing!NotAnswered(c)
    PROVE  RoutingInv'
<1> DEFINE Rows == [at : {"idle", "sent", "selecting"}, session : Sessions \cup {Nobody},
                    goal : Targets \cup {Nobody}, host : Nat]
<1>1. /\ call[c].at = "sent" /\ UNCHANGED <<table, Routing!selectionVars>>
      /\ \/ call' = [call EXCEPT ![c] = Routing!NoCall]
         \/ call' = [call EXCEPT ![c] = [call[c] EXCEPT !.host = call[c].host + 1]]
  BY DEF Routing!Answered, Routing!NotAnswered
<1>2. Routing!NoCall \in Rows /\ Routing!NoCall.at = "idle"
  BY DEF Routing!NoCall
<1>3. call \in [Calls -> Rows] /\ table \subseteq Targets
      /\ \A d \in Calls : call[d].at = "selecting" => call[d].session \in Sessions /\ call[d].goal \in Targets
  BY Zenon DEF RoutingInv, RoutingTypeOK
<1> DEFINE row == [call[c] EXCEPT !.host = call[c].host + 1]
<1>4. row \in Rows /\ row.at = "sent"
  BY <1>1, <1>3
<1> HIDE DEF row, Rows
<1>5. PICK r \in {row, Routing!NoCall} : call' = [call EXCEPT ![c] = r]
  BY <1>1 DEF row
<1>6. r \in Rows /\ r.at # "selecting"
  BY <1>2, <1>4, <1>5
<1>7. call' \in [Calls -> Rows] /\ \A d \in Calls : call'[d] = IF d = c THEN r ELSE call[d]
  BY <1>3, <1>5, <1>6
<1>8. \A d \in Calls : call'[d].at = "selecting" => call'[d].session \in Sessions /\ call'[d].goal \in Targets
  BY <1>3, <1>6, <1>7
<1>9. RoutingTypeOK'
  BY <1>1, <1>3, <1>7, <1>8 DEF RoutingTypeOK, Rows
<1> QED BY <1>1, <1>9, SelectionsUnchanged DEF RoutingInv

LEMMA RoutingNext ==
    ASSUME RoutingInv, Routing!Next
    PROVE  RoutingInv'
<1>1. CASE \E c \in Calls, s \in Sessions :
              Routing!handle_remote_tool_call(c, s) \/ Routing!dispatch_proxy(c, s)
  BY <1>1, CallNamedKeeps, CallSelectedKeeps DEF Routing!handle_remote_tool_call, Routing!dispatch_proxy
<1>2. CASE \E c \in Calls, s \in Sessions : \E ref \in Targets \cup TargetNames :
              Routing!call_target_tool(c, s, ref) \/ Routing!select_target(c, s, ref)
  BY <1>2, CallNamedKeeps DEF Routing!call_target_tool, Routing!select_target
<1>3. CASE \E c \in Calls, s \in Sessions : \E t \in Targets : Routing!ProbeInstance(c, s, t)
  BY <1>3, ProbeKeeps
<1>4. CASE \E c \in Calls, s \in Sessions : Routing!Clear(c, s)
  <2>1. PICK s \in Sessions : Routing!ClearSelected(s) /\ table' = table /\ call' = call
    BY <1>4 DEF Routing!Clear
  <2>2. SelectionsInv'
    BY <2>1, ClearSelectedKeeps DEF RoutingInv
  <2> QED BY <2>1, <2>2 DEF RoutingInv, RoutingTypeOK
<1>5. CASE \E c \in Calls : Routing!Select(c)
  BY <1>5, SelectKeeps
<1>6. CASE \E c \in Calls : Routing!Answered(c) \/ Routing!NotAnswered(c)
  BY <1>6, AnsweredKeeps
<1>7. CASE \E t \in Targets : Routing!Register(t)
  <2>1. table' \subseteq Targets /\ call' = call /\ UNCHANGED Routing!selectionVars
    BY <1>7 DEF Routing!Register, RoutingInv, RoutingTypeOK
  <2> QED BY <2>1, SelectionsUnchanged DEF RoutingInv, RoutingTypeOK
<1>8. CASE \E t \in Targets : Routing!Unregister(t)
  <2>1. SelectionsInv'
    BY <1>8, UnregisterKeeps DEF RoutingInv
  <2>2. table' \subseteq Targets /\ call' = call
    BY <1>8 DEF Routing!Unregister, RoutingInv, RoutingTypeOK
  <2> QED BY <2>1, <2>2 DEF RoutingInv, RoutingTypeOK
<1>9. CASE \E s \in Sessions : Routing!DayPasses(s)
  <2>1. SelectionsInv'
    BY <1>9, DayPassesKeeps DEF RoutingInv
  <2>2. table' = table /\ call' = call
    BY <1>9 DEF Routing!DayPasses
  <2> QED BY <2>1, <2>2 DEF RoutingInv, RoutingTypeOK
<1> QED BY <1>1, <1>2, <1>3, <1>4, <1>5, <1>6, <1>7, <1>8, <1>9, Zenon DEF Routing!Next

LEMMA RoutingInit ==
    ASSUME Routing!Init
    PROVE  RoutingInv
<1>1. RoutingTypeOK
  BY RoomForSelections DEF Routing!Init, RoutingTypeOK, Routing!NoCall
<1>2. SelectionTypeOK /\ SelectionsStay
  BY FS_EmptySet DEF Routing!Init, SelectionTypeOK, SelectionsStay
<1>3. InOrder(chosen, since, last)
  BY DEF Routing!Init, InOrder
<1> QED BY <1>1, <1>2, <1>3 DEF RoutingInv, SelectionsInv

(* A session has what it selected last, for as long as it may stay.        *)
LEMMA RoutingSafe ==
    ASSUME RoutingInv
    PROVE  Routing!SelectionsAreKept
<1> SUFFICES ASSUME NEW s \in Sessions, last[s] # Nobody, s \notin aged,
                    Routing!Cardinality(since[s]) < MaxSelections
             PROVE  Routing!Selection(s) = last[s]
  BY DEF Routing!SelectionsAreKept
<1>1. Has(chosen, s)
  BY RoutingCardinality DEF RoutingInv, SelectionsInv, SelectionsStay
<1> QED BY <1>1, SelectionIsLast DEF RoutingInv

LEMMA RoutingStays ==
    ASSUME RoutingInv, UNCHANGED routerVars
    PROVE  RoutingInv'
<1>1. UNCHANGED Routing!selectionVars /\ table' = table /\ call' = call
  BY DEF routerVars, Routing!selectionVars
<1> QED BY <1>1, SelectionsUnchanged DEF RoutingInv, RoutingTypeOK
=============================================================================
