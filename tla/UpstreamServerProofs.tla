------------------------- MODULE UpstreamServerProofs -----------------------
(***************************************************************************)
(* Lemmas about the parts of UpstreamServer, for any number of calls,      *)
(* streams, tools, clients and lines: the settings, the installer, tool    *)
(* calls, event streams and the lines of JSON-RPC.  Each part has an       *)
(* inductive invariant, the conjunction of parts that are named after what *)
(* they say.  The theorems that rest on them are in UpstreamProofs.        *)
(***************************************************************************)
EXTENDS UpstreamServer, Sequences, FiniteSetTheorems, SequenceTheorems,
        WellFoundedInduction, TLAPS

-----------------------------------------------------------------------------
(* Settings: what the user has turned off, and the outputs that are kept.  *)
SettingsTypeOK ==
    /\ version \in Versions
    /\ saved \in [Tools -> {"on", "off", "none"}]
    /\ form \in [Forms -> [at : {"none", "applied"}, on : SUBSET Tools]]
    /\ mixed \in BOOLEAN
    /\ outputs \in Seq(LargeCalls)
    /\ outputCall \in [LargeCalls -> [at : {"new", "full", "room", "over"}, oldest : LargeCalls \cup {0}]]
    /\ newer \in [LargeCalls -> SUBSET LargeCalls]

(* What is saved is what the user has turned off, one form at a time.      *)
ToolsInv ==
    ~mixed =>
        /\ saved = [t \in Tools |-> IF t \notin version THEN "none"
                                     ELSE IF t \in off THEN "off" ELSE "on"]
        /\ off \cap Protected = {} /\ off \subseteq version
        /\ (\A f \in Forms : form[f].at = "none") => methods = version \ off
        /\ \A f \in Forms : form[f].at = "applied" =>
              /\ methods = form[f].on /\ form[f].on \subseteq version /\ Protected \subseteq form[f].on
              /\ \A g \in Forms : form[g].at = "applied" => g = f

(* An output has seen those behind it come, and one that a call is to      *)
(* remove as many as there is room for.                                    *)
OutputsInv ==
    /\ \A i, j \in 1 .. Len(outputs) : i < j =>
          outputs[i] # outputs[j] /\ outputs[j] \in newer[outputs[i]]
    /\ \A i \in 1 .. Len(outputs) : outputCall[outputs[i]].at = "over"
    /\ \A c \in LargeCalls : outputCall[c].at = "full" =>
          /\ outputCall[c].oldest \in LargeCalls
          /\ Cardinality(newer[outputCall[c].oldest]) >= MaxOutputs
    /\ \A c \in LargeCalls : newer[c] # {} /\ ~Keeping!Contains(outputs, c) =>
          Cardinality(newer[c]) >= MaxOutputs

SettingsInv == SettingsTypeOK /\ ToolsInv /\ OutputsInv

-----------------------------------------------------------------------------
LEMMA SettingsConstants == Keeping!SettingsAssumption
BY ServerAssumption

LEMMA SettingsFinite ==
    ASSUME NEW S \in SUBSET LargeCalls
    PROVE  /\ IsFiniteSet(S) /\ Cardinality(S) \in Nat
           /\ Cardinality(S) <= Cardinality(LargeCalls) /\ Cardinality(LargeCalls) \in Nat
<1>1. IsFiniteSet(LargeCalls)
  BY SettingsConstants DEF Keeping!SettingsAssumption, Keeping!IsFiniteSet, IsFiniteSet
<1> QED BY <1>1, FS_Subset, FS_CardinalityType

LEMMA KeepingCardinality == ASSUME NEW S PROVE Keeping!Cardinality(S) = Cardinality(S)
BY DEF Keeping!Cardinality, Cardinality, Keeping!IsFiniteSet, IsFiniteSet

LEMMA SettingsTypeInit == ASSUME Keeping!Init PROVE SettingsTypeOK
<1>1. <<>> \in Seq(LargeCalls)
  BY EmptySeq
<1>2. /\ Keeping!NoForm \in [at : {"none", "applied"}, on : SUBSET Tools]
      /\ Keeping!NoCall \in [at : {"new", "full", "room", "over"}, oldest : LargeCalls \cup {0}]
  BY DEF Keeping!NoForm, Keeping!NoCall
<1> QED BY <1>1, <1>2 DEF Keeping!Init, SettingsTypeOK

LEMMA SettingsInit == ASSUME Keeping!Init PROVE SettingsInv
<1>1. off = {} /\ form = [f \in Forms |-> Keeping!NoForm] /\ methods = version
  BY DEF Keeping!Init
<1>2. ToolsInv
  BY <1>1 DEF Keeping!Init, ToolsInv, Keeping!NoForm
<1>3. OutputsInv
  BY DEF Keeping!Init, OutputsInv, Keeping!NoCall
<1> QED BY <1>2, <1>3, SettingsTypeInit DEF SettingsInv

(* A sequence without the element at one place.                            *)
LEMMA KeepingRemoveAt ==
    ASSUME NEW S, NEW s \in Seq(S), NEW i \in 1 .. Len(s)
    PROVE  LET t == Keeping!RemoveAt(s, i) IN
           /\ t \in Seq(S) /\ Len(t) = Len(s) - 1
           /\ \A k \in 1 .. Len(t) : t[k] = IF k < i THEN s[k] ELSE s[k + 1]
<1> DEFINE a == SubSeq(s, 1, i - 1)
           b == SubSeq(s, i + 1, Len(s))
<1>1. /\ a \in Seq(S) /\ Len(a) = i - 1 /\ \A k \in 1 .. i - 1 : a[k] = s[k]
  <2>1. \A k \in 1 .. i - 1 : s[k] \in S
    BY ElementOfSeq
  <2> QED BY <2>1, SubSeqProperties
<1>2. /\ b \in Seq(S) /\ Len(b) = Len(s) - i /\ \A k \in 1 .. Len(s) - i : b[k] = s[i + k]
  <2>1. \A k \in i + 1 .. Len(s) : s[k] \in S
    BY ElementOfSeq
  <2> QED BY <2>1, SubSeqProperties
<1> HIDE DEF a, b
<1>3. /\ a \o b \in Seq(S) /\ Len(a \o b) = Len(s) - 1
      /\ \A k \in 1 .. Len(s) - 1 : (a \o b)[k] = IF k <= Len(a) THEN a[k] ELSE b[k - Len(a)]
  <2>1. /\ a \o b \in Seq(S) /\ Len(a \o b) = Len(a) + Len(b)
        /\ \A k \in 1 .. Len(a) + Len(b) : (a \o b)[k] = IF k <= Len(a) THEN a[k] ELSE b[k - Len(a)]
    BY <1>1, <1>2, ConcatProperties
  <2>2. Len(a) + Len(b) = Len(s) - 1
    BY <1>1, <1>2
  <2> QED BY <2>1, <2>2
<1>4. \A k \in 1 .. Len(s) - 1 : (a \o b)[k] = IF k < i THEN s[k] ELSE s[k + 1]
  BY <1>1, <1>2, <1>3
<1>5. Keeping!RemoveAt(s, i) = a \o b
  BY DEF Keeping!RemoveAt, a, b
<1> QED BY <1>3, <1>4, <1>5

LEMMA SettingsTypeNext == ASSUME SettingsTypeOK, Keeping!Next PROVE SettingsTypeOK'
<1> USE SettingsConstants DEF SettingsTypeOK, Keeping!SettingsAssumption
<1>1. ASSUME NEW v \in Versions, Keeping!Restart(v) PROVE SettingsTypeOK'
  <2>1. /\ saved' \in [Tools -> {"on", "off", "none"}]
        /\ mixed' \in BOOLEAN /\ form' \in [Forms -> [at : {"none", "applied"}, on : SUBSET Tools]]
    BY <1>1 DEF Keeping!Restart, Keeping!Loaded, Keeping!NoForm
  <2>2. /\ outputs' \in Seq(LargeCalls) /\ newer' \in [LargeCalls -> SUBSET LargeCalls]
        /\ outputCall' \in [LargeCalls -> [at : {"new", "full", "room", "over"},
                                           oldest : LargeCalls \cup {0}]]
    BY <1>1 DEF Keeping!Restart, Keeping!NoCall
  <2> QED BY <1>1, <2>1, <2>2 DEF Keeping!Restart
<1>2. ASSUME NEW f \in Forms, NEW on \in SUBSET version, Keeping!Apply(f, on) PROVE SettingsTypeOK'
  <2>1. (on \cup Protected) \cap version \in SUBSET Tools
    OBVIOUS
  <2> QED BY <1>2, <2>1 DEF Keeping!Apply, Keeping!outputVars
<1>3. ASSUME NEW f \in Forms, Keeping!Save(f) PROVE SettingsTypeOK'
  BY <1>3 DEF Keeping!Save, Keeping!NoForm, Keeping!outputVars
<1>4. ASSUME NEW c \in LargeCalls, Keeping!MakeRoom(c) PROVE SettingsTypeOK'
  <2>1. Len(outputs) >= MaxOutputs => Head(outputs) \in LargeCalls
    BY HeadTailProperties, EmptySeq
  <2>2. outputCall' \in [LargeCalls -> [at : {"new", "full", "room", "over"},
                                       oldest : LargeCalls \cup {0}]]
    <3>1. CASE Len(outputs) >= MaxOutputs
      <4>1. outputCall' = [outputCall EXCEPT ![c] = [at |-> "full", oldest |-> Head(outputs)]]
        BY <1>4, <3>1 DEF Keeping!MakeRoom
      <4> QED BY <2>1, <3>1, <4>1
    <3>2. CASE ~(Len(outputs) >= MaxOutputs)
      <4>1. outputCall' = [outputCall EXCEPT ![c] = [at |-> "room", oldest |-> outputCall[c].oldest]]
        BY <1>4, <3>2 DEF Keeping!MakeRoom
      <4> QED BY <4>1
    <3> QED BY <3>1, <3>2
  <2>3. newer' \in [LargeCalls -> SUBSET LargeCalls]
    BY <1>4 DEF Keeping!MakeRoom
  <2> QED BY <1>4, <2>2, <2>3 DEF Keeping!MakeRoom, Keeping!configVars
<1>5. ASSUME NEW c \in LargeCalls, Keeping!RemoveOldest(c) PROVE SettingsTypeOK'
  BY <1>5, KeepingRemoveAt DEF Keeping!RemoveOldest, Keeping!configVars
<1>6. ASSUME NEW c \in LargeCalls, Keeping!Store(c) PROVE SettingsTypeOK'
  BY <1>6, AppendProperties DEF Keeping!Store, Keeping!configVars, Keeping!NoCall
<1> QED BY <1>1, <1>2, <1>3, <1>4, <1>5, <1>6 DEF Keeping!Next

LEMMA ToolsNext == ASSUME SettingsTypeOK, ToolsInv, Keeping!Next PROVE ToolsInv'
<1> USE SettingsConstants DEF Keeping!SettingsAssumption
<1>1. ASSUME NEW v \in Versions, Keeping!Restart(v), ~mixed' PROVE ToolsInv'
  <2>1. /\ \A f \in Forms : form[f].at = "none"
        /\ saved = [t \in Tools |-> IF t \notin version THEN "none"
                                    ELSE IF t \in off THEN "off" ELSE "on"]
        /\ off \cap Protected = {} /\ off \subseteq version
    BY <1>1 DEF Keeping!Restart, ToolsInv, SettingsTypeOK
  <2>2. v \subseteq Tools /\ version \subseteq Tools /\ Protected \subseteq v
    BY DEF SettingsTypeOK
  <2>3. saved' = [t \in Tools |-> IF t \notin v THEN "none" ELSE IF t \in off \cap v THEN "off" ELSE "on"]
    <3>1. saved' = [t \in Tools |-> IF t \notin v THEN "none"
                     ELSE IF t \in Protected \/ saved[t] = "none" THEN "on" ELSE saved[t]]
      BY <1>1 DEF Keeping!Restart, Keeping!Loaded
    <3>2. ASSUME NEW t \in Tools PROVE saved'[t] = IF t \notin v THEN "none"
                                       ELSE IF t \in off \cap v THEN "off" ELSE "on"
      <4>1. saved[t] = IF t \notin version THEN "none" ELSE IF t \in off THEN "off" ELSE "on"
        BY <2>1
      <4> QED BY <2>1, <3>1, <4>1
    <3> QED BY <3>1, <3>2
  <2> QED BY <1>1, <2>1, <2>2, <2>3 DEF Keeping!Restart, ToolsInv, Keeping!NoForm, Keeping!Enabled
<1>2. ASSUME NEW f \in Forms, NEW on \in SUBSET version, Keeping!Apply(f, on), ~mixed'
      PROVE  ToolsInv'
  <2>1. ~mixed /\ \A g \in Forms : form[g].at = "none"
    BY <1>2 DEF Keeping!Apply, SettingsTypeOK
  <2> DEFINE new == (on \cup Protected) \cap version
  <2>2. new \subseteq version /\ Protected \subseteq new
    BY DEF SettingsTypeOK
  <2>3. /\ form' = [form EXCEPT ![f] = [at |-> "applied", on |-> new]] /\ methods' = new
        /\ UNCHANGED <<version, saved, off>>
    BY <1>2 DEF Keeping!Apply, SettingsTypeOK
  <2>4. \A g \in Forms : form'[g].at = "applied" => g = f /\ form'[g].on = new
    BY <2>1, <2>3 DEF SettingsTypeOK
  <2>5. form'[f].at = "applied"
    BY <2>3 DEF SettingsTypeOK
  <2> QED BY <2>1, <2>2, <2>3, <2>4, <2>5 DEF ToolsInv
<1>3. ASSUME NEW f \in Forms, Keeping!Save(f), ~mixed' PROVE ToolsInv'
  <2>1. ~mixed /\ form[f].at = "applied"
    BY <1>3 DEF Keeping!Save
  <2>2. /\ methods = form[f].on /\ form[f].on \subseteq version /\ Protected \subseteq form[f].on
        /\ \A g \in Forms : form[g].at = "applied" => g = f
    BY <2>1 DEF ToolsInv
  <2>3. \A g \in Forms : form'[g].at = "none"
    BY <1>3, <2>2 DEF Keeping!Save, Keeping!NoForm, SettingsTypeOK
  <2>4. /\ saved' = [t \in Tools |-> IF t \notin version THEN "none"
                                     ELSE IF t \in version \ form[f].on THEN "off" ELSE "on"]
        /\ off' = version \ form[f].on /\ UNCHANGED <<version, methods>>
    BY <1>3 DEF Keeping!Save
  <2> QED BY <2>2, <2>3, <2>4 DEF ToolsInv
<1>4. ASSUME UNCHANGED Keeping!configVars PROVE ToolsInv'
  BY <1>4 DEF ToolsInv, Keeping!configVars
<1>5. mixed' => ToolsInv'
  BY DEF ToolsInv
<1>6. CASE \E c \in LargeCalls : Keeping!MakeRoom(c) \/ Keeping!RemoveOldest(c) \/ Keeping!Store(c)
  BY <1>4, <1>6 DEF Keeping!MakeRoom, Keeping!RemoveOldest, Keeping!Store
<1> QED BY <1>1, <1>2, <1>3, <1>5, <1>6 DEF Keeping!Next

LEMMA OutputsNext == ASSUME SettingsTypeOK, OutputsInv, Keeping!Next PROVE OutputsInv'
<1>a. /\ outputs \in Seq(LargeCalls) /\ Len(outputs) \in Nat
      /\ \A i \in 1 .. Len(outputs) : outputs[i] \in LargeCalls
      /\ newer \in [LargeCalls -> SUBSET LargeCalls]
      /\ outputCall \in [LargeCalls -> [at : {"new", "full", "room", "over"},
                                        oldest : LargeCalls \cup {0}]]
  BY DEF SettingsTypeOK
<1>b. MaxOutputs \in Nat /\ MaxOutputs >= 1
  BY SettingsConstants DEF Keeping!SettingsAssumption
<1>c. \A S \in SUBSET LargeCalls : IsFiniteSet(S) /\ Cardinality(S) \in Nat
  BY SettingsFinite
<1>d. \A S, T \in SUBSET LargeCalls : S \subseteq T => Cardinality(S) <= Cardinality(T)
  BY <1>c, FS_Subset
<1>1. ASSUME NEW v \in Versions, Keeping!Restart(v) PROVE OutputsInv'
  BY <1>1 DEF Keeping!Restart, OutputsInv, Keeping!NoCall
<1>2. ASSUME UNCHANGED Keeping!outputVars PROVE OutputsInv'
  BY <1>2 DEF Keeping!outputVars, OutputsInv, Keeping!Contains
<1>3. ASSUME NEW c \in LargeCalls, Keeping!MakeRoom(c) PROVE OutputsInv'
  <2>1. /\ newer' = [d \in LargeCalls |-> IF Keeping!Contains(outputs, d) THEN newer[d] \cup {c}
                                          ELSE newer[d]]
        /\ outputs' = outputs /\ outputCall[c].at = "new"
    BY <1>3 DEF Keeping!MakeRoom
  <2>2. \A d \in LargeCalls : newer[d] \subseteq newer'[d] /\ newer'[d] \in SUBSET LargeCalls
    BY <1>a, <2>1
  <2>3. \A d \in LargeCalls : Cardinality(newer'[d]) >= Cardinality(newer[d])
    BY <1>a, <1>d, <2>2
  <2>4. \A i \in 1 .. Len(outputs) : outputs[i] # c
    BY <1>a, <2>1 DEF OutputsInv
  <2>5. Len(outputs) >= MaxOutputs => Cardinality(newer'[Head(outputs)]) >= MaxOutputs
    <3> SUFFICES ASSUME Len(outputs) >= MaxOutputs
                 PROVE  Cardinality(newer'[Head(outputs)]) >= MaxOutputs
      OBVIOUS
    <3> DEFINE d == outputs[1]
               others == {outputs[i] : i \in 2 .. Len(outputs)}
    <3>0. Len(outputs) >= 1 /\ 1 \in 1 .. Len(outputs)
      BY <1>a, <1>b
    <3>1. Head(outputs) = d /\ d \in LargeCalls /\ Keeping!Contains(outputs, d)
      BY <1>a, <3>0 DEF Keeping!Contains
    <3>2. others \cup {c} \subseteq newer'[d]
      BY <1>a, <2>1, <3>0, <3>1 DEF OutputsInv
    <3>3. Cardinality(others) = Len(outputs) - 1
      <4> DEFINE f == [i \in 2 .. Len(outputs) |-> outputs[i]]
      <4>1. f \in Bijection(2 .. Len(outputs), others)
        BY <1>a DEF Bijection, Injection, Surjection, IsInjective, OutputsInv
      <4>2. IsFiniteSet(2 .. Len(outputs)) /\ Cardinality(2 .. Len(outputs)) = Len(outputs) - 1
        BY <1>a, <3>0, FS_Interval
      <4> QED BY <4>1, <4>2, FS_Bijection
    <3>4. Cardinality(others \cup {c}) = Len(outputs)
      <4>1. c \notin others /\ others \in SUBSET LargeCalls
        BY <1>a, <2>4
      <4> HIDE DEF others
      <4>2. IsFiniteSet(others)
        BY <1>c, <4>1
      <4>3. Cardinality(others \cup {c}) = Cardinality(others) + 1
        BY <4>1, <4>2, FS_AddElement
      <4> QED BY <1>a, <3>3, <4>3
    <3>5. Cardinality(newer'[d]) >= Len(outputs) /\ Cardinality(newer'[d]) \in Nat
      <4>1. newer'[d] \in SUBSET LargeCalls /\ others \cup {c} \in SUBSET LargeCalls
        BY <2>2, <3>1, <3>2
      <4> HIDE DEF others
      <4> QED BY <1>a, <1>c, <1>d, <3>2, <3>4, <4>1
    <3> QED BY <1>a, <1>b, <3>1, <3>5
  <2>6. \A d \in LargeCalls : outputCall'[d].at = "full" =>
           \/ outputCall[d].at = "full" /\ outputCall'[d] = outputCall[d]
           \/ d = c /\ Len(outputs) >= MaxOutputs /\ outputCall'[d].oldest = Head(outputs)
    BY <1>3, <1>a DEF Keeping!MakeRoom
  <2>7. \A d \in LargeCalls : d # c => outputCall'[d] = outputCall[d]
    BY <1>3, <1>a DEF Keeping!MakeRoom
  <2>8. Len(outputs) >= MaxOutputs => Head(outputs) \in LargeCalls
    BY <1>a, <1>b
  <2>9. \A d \in LargeCalls : outputCall'[d].at = "full" =>
           /\ outputCall'[d].oldest \in LargeCalls
           /\ Cardinality(newer'[outputCall'[d].oldest]) >= MaxOutputs
    <3> SUFFICES ASSUME NEW d \in LargeCalls, outputCall'[d].at = "full"
                 PROVE  /\ outputCall'[d].oldest \in LargeCalls
                        /\ Cardinality(newer'[outputCall'[d].oldest]) >= MaxOutputs
      OBVIOUS
    <3>1. CASE outputCall[d].at = "full" /\ outputCall'[d] = outputCall[d]
      <4> DEFINE old == outputCall[d].oldest
      <4>1. old \in LargeCalls /\ Cardinality(newer[old]) >= MaxOutputs
        BY <3>1 DEF OutputsInv
      <4>2. Cardinality(newer'[old]) >= Cardinality(newer[old])
        BY <2>3, <4>1
      <4>3. Cardinality(newer'[old]) \in Nat /\ Cardinality(newer[old]) \in Nat
        BY <1>a, <1>c, <2>2, <4>1
      <4>4. outputCall'[d].oldest = old
        BY <3>1
      <4> HIDE DEF old
      <4> QED BY <1>b, <4>1, <4>2, <4>3, <4>4
    <3> QED BY <2>5, <2>6, <2>8, <3>1
  <2>10. \A d \in LargeCalls : newer'[d] # {} /\ ~Keeping!Contains(outputs, d) =>
            Cardinality(newer'[d]) >= MaxOutputs
    BY <1>a, <2>1 DEF OutputsInv
  <2>11. \A i, j \in 1 .. Len(outputs) : i < j =>
            outputs[i] # outputs[j] /\ outputs[j] \in newer'[outputs[i]]
    BY <1>a, <2>2 DEF OutputsInv
  <2>12. \A i \in 1 .. Len(outputs) : outputCall'[outputs[i]].at = "over"
    BY <1>a, <2>4, <2>7 DEF OutputsInv
  <2> QED BY <2>1, <2>9, <2>10, <2>11, <2>12 DEF OutputsInv
<1>4. ASSUME NEW c \in LargeCalls, Keeping!RemoveOldest(c) PROVE OutputsInv'
  <2>1. newer' = newer /\ outputCall[c].at = "full"
    BY <1>4 DEF Keeping!RemoveOldest
  <2>2. /\ \A d \in LargeCalls : d # c => outputCall'[d] = outputCall[d]
        /\ outputCall'[c].at \in {"room", "over"}
    BY <1>4, <1>a DEF Keeping!RemoveOldest
  <2>3. \A d \in LargeCalls : outputCall'[d].at = "full" =>
           /\ outputCall'[d].oldest \in LargeCalls
           /\ Cardinality(newer'[outputCall'[d].oldest]) >= MaxOutputs
    BY <2>1, <2>2 DEF OutputsInv
  <2>4. \A d \in LargeCalls : outputCall[d].at = "over" => outputCall'[d].at = "over"
    BY <2>1, <2>2
  <2>5. CASE UNCHANGED outputs
    <3>1. \A i \in 1 .. Len(outputs) : outputCall'[outputs[i]].at = "over"
      BY <1>a, <2>4 DEF OutputsInv
    <3> QED BY <2>1, <2>3, <2>5, <3>1 DEF OutputsInv, Keeping!Contains
  <2>6. ASSUME NEW k \in 1 .. Len(outputs), outputs[k] = outputCall[c].oldest,
               outputs' = Keeping!RemoveAt(outputs, k)
        PROVE  OutputsInv'
    <3>1. /\ Len(outputs') = Len(outputs) - 1
          /\ \A i \in 1 .. Len(outputs') : outputs'[i] = IF i < k THEN outputs[i] ELSE outputs[i + 1]
      BY <1>a, <2>6, KeepingRemoveAt
    <3>2. \A i, j \in 1 .. Len(outputs') : i < j =>
             outputs'[i] # outputs'[j] /\ outputs'[j] \in newer'[outputs'[i]]
      <4> SUFFICES ASSUME NEW i \in 1 .. Len(outputs'), NEW j \in 1 .. Len(outputs'), i < j
                   PROVE  outputs'[i] # outputs'[j] /\ outputs'[j] \in newer[outputs'[i]]
        BY <2>1
      <4>1. PICK x \in 1 .. Len(outputs), y \in 1 .. Len(outputs) :
               x < y /\ outputs'[i] = outputs[x] /\ outputs'[j] = outputs[y]
        <5>1. \A x \in 1 .. Len(outputs') :
                 x \in 1 .. Len(outputs) /\ x + 1 \in 1 .. Len(outputs)
          BY <1>a, <3>1
        <5> QED BY <1>a, <3>1, <5>1
      <4> QED BY <4>1 DEF OutputsInv
    <3>3. \A i \in 1 .. Len(outputs') : outputCall'[outputs'[i]].at = "over"
      <4>1. \A i \in 1 .. Len(outputs) : outputCall'[outputs[i]].at = "over"
        BY <1>a, <2>4 DEF OutputsInv
      <4>2. \A i \in 1 .. Len(outputs') : i \in 1 .. Len(outputs) /\ i + 1 \in 1 .. Len(outputs)
        BY <1>a, <3>1
      <4> QED BY <3>1, <4>1, <4>2
    <3>4. \A d \in LargeCalls : newer'[d] # {} /\ ~Keeping!Contains(outputs', d) =>
             Cardinality(newer'[d]) >= MaxOutputs
      <4> SUFFICES ASSUME NEW d \in LargeCalls, newer[d] # {}, ~Keeping!Contains(outputs', d)
                   PROVE  Cardinality(newer[d]) >= MaxOutputs
        BY <2>1
      <4>1. CASE d = outputCall[c].oldest
        BY <1>a, <2>1, <4>1 DEF OutputsInv
      <4>2. CASE d # outputCall[c].oldest
        <5>1. ~Keeping!Contains(outputs, d)
          <6> SUFFICES ASSUME NEW i \in 1 .. Len(outputs), outputs[i] = d PROVE FALSE
            BY DEF Keeping!Contains
          <6>1. i # k
            BY <2>6, <4>2
          <6>2. CASE i < k
            BY <1>a, <3>1, <6>2 DEF Keeping!Contains
          <6>3. CASE i > k
            <7>1. i - 1 \in 1 .. Len(outputs') /\ outputs'[i - 1] = d
              BY <1>a, <3>1, <6>3
            <7> QED BY <7>1 DEF Keeping!Contains
          <6> QED BY <1>a, <6>1, <6>2, <6>3
        <5> QED BY <5>1 DEF OutputsInv
      <4> QED BY <4>1, <4>2
    <3> QED BY <2>3, <3>2, <3>3, <3>4 DEF OutputsInv
  <2> QED BY <1>4, <2>5, <2>6 DEF Keeping!RemoveOldest
<1>5. ASSUME NEW c \in LargeCalls, Keeping!Store(c) PROVE OutputsInv'
  <2>1. /\ newer' = [d \in LargeCalls |-> IF Keeping!Contains(outputs, d) THEN newer[d] \cup {c}
                                          ELSE newer[d]]
        /\ outputs' = Append(outputs, c) /\ outputCall[c].at = "room"
        /\ outputCall' = [outputCall EXCEPT ![c] = [at |-> "over", oldest |-> 0]]
    <3>1. [Keeping!NoCall EXCEPT !.at = "over"] = [at |-> "over", oldest |-> 0]
      BY DEF Keeping!NoCall
    <3> QED BY <1>5, <3>1 DEF Keeping!Store
  <2>2. \A d \in LargeCalls : newer[d] \subseteq newer'[d] /\ newer'[d] \in SUBSET LargeCalls
    BY <1>a, <2>1
  <2>3. \A d \in LargeCalls : Cardinality(newer'[d]) >= Cardinality(newer[d])
    BY <1>a, <1>d, <2>2
  <2>4. \A i \in 1 .. Len(outputs) : outputs[i] # c
    BY <1>a, <2>1 DEF OutputsInv
  <2>5. /\ Len(outputs') = Len(outputs) + 1 /\ outputs'[Len(outputs) + 1] = c
        /\ \A i \in 1 .. Len(outputs) : outputs'[i] = outputs[i]
    BY <1>a, <2>1, AppendProperties
  <2>6. \A i, j \in 1 .. Len(outputs') : i < j =>
           outputs'[i] # outputs'[j] /\ outputs'[j] \in newer'[outputs'[i]]
    <3> SUFFICES ASSUME NEW i \in 1 .. Len(outputs'), NEW j \in 1 .. Len(outputs'), i < j
                 PROVE  outputs'[i] # outputs'[j] /\ outputs'[j] \in newer'[outputs'[i]]
      OBVIOUS
    <3>1. i \in 1 .. Len(outputs) /\ outputs[i] \in LargeCalls /\ outputs'[i] = outputs[i]
      BY <1>a, <2>5
    <3>2. CASE j \in 1 .. Len(outputs)
      BY <2>2, <2>5, <3>1, <3>2 DEF OutputsInv
    <3>3. CASE j = Len(outputs) + 1
      BY <2>1, <2>4, <2>5, <3>1, <3>3 DEF Keeping!Contains
    <3> QED BY <1>a, <2>5, <3>2, <3>3
  <2>7. \A i \in 1 .. Len(outputs') : outputCall'[outputs'[i]].at = "over"
    BY <1>a, <2>1, <2>5 DEF OutputsInv
  <2>8. \A d \in LargeCalls : outputCall'[d].at = "full" =>
           /\ outputCall'[d].oldest \in LargeCalls
           /\ Cardinality(newer'[outputCall'[d].oldest]) >= MaxOutputs
    <3> SUFFICES ASSUME NEW d \in LargeCalls, outputCall'[d].at = "full"
                 PROVE  /\ outputCall'[d].oldest \in LargeCalls
                        /\ Cardinality(newer'[outputCall'[d].oldest]) >= MaxOutputs
      OBVIOUS
    <3> DEFINE old == outputCall[d].oldest
    <3>1. outputCall'[d] = outputCall[d]
      BY <1>a, <2>1
    <3>2. old \in LargeCalls /\ Cardinality(newer[old]) >= MaxOutputs
      BY <3>1 DEF OutputsInv
    <3>3. Cardinality(newer'[old]) >= Cardinality(newer[old])
      BY <2>3, <3>2
    <3>4. Cardinality(newer'[old]) \in Nat /\ Cardinality(newer[old]) \in Nat
      BY <1>a, <1>c, <2>2, <3>2
    <3>5. outputCall'[d].oldest = old
      BY <3>1
    <3> HIDE DEF old
    <3> QED BY <1>b, <3>2, <3>3, <3>4, <3>5
  <2>9. \A d \in LargeCalls : Keeping!Contains(outputs, d) => Keeping!Contains(outputs', d)
    BY <1>a, <2>5 DEF Keeping!Contains
  <2>10. \A d \in LargeCalls : newer'[d] # {} /\ ~Keeping!Contains(outputs', d) =>
            Cardinality(newer'[d]) >= MaxOutputs
    BY <1>a, <2>1, <2>9 DEF OutputsInv
  <2> QED BY <2>6, <2>7, <2>8, <2>10 DEF OutputsInv
<1>6. CASE \E f \in Forms : (\E on \in SUBSET version : Keeping!Apply(f, on)) \/ Keeping!Save(f)
  BY <1>2, <1>6 DEF Keeping!Apply, Keeping!Save
<1> QED BY <1>1, <1>3, <1>4, <1>5, <1>6 DEF Keeping!Next

LEMMA SettingsNext == ASSUME SettingsInv, Keeping!Next PROVE SettingsInv'
BY SettingsTypeNext, ToolsNext, OutputsNext DEF SettingsInv

LEMMA SettingsSafe == ASSUME SettingsInv PROVE Keeping!SettingsLast
<1> USE DEF SettingsInv
<1>1. Keeping!ToolsAsTurned
  BY DEF Keeping!ToolsAsTurned, ToolsInv
<1>2. \A c \in LargeCalls : newer[c] # {} /\ ~Keeping!Contains(outputs, c) =>
         Keeping!Cardinality(newer[c]) >= MaxOutputs
  BY KeepingCardinality DEF OutputsInv
<1>3. Len(outputs) < MaxOutputs + Keeping!Cardinality(LargeCalls)
  <2>1. Len(outputs) \in Nat /\ outputs \in [1 .. Len(outputs) -> LargeCalls]
    BY DEF SettingsTypeOK
  <2>2. outputs \in Injection(1 .. Len(outputs), LargeCalls)
    BY <2>1 DEF OutputsInv, Injection, IsInjective
  <2>3. Cardinality(1 .. Len(outputs)) <= Cardinality(LargeCalls) /\ Cardinality(LargeCalls) \in Nat
    BY <2>2, FS_Injection, SettingsFinite
  <2>4. Len(outputs) <= Cardinality(LargeCalls)
    BY <2>1, <2>3, FS_Interval
  <2> QED BY <2>1, <2>3, <2>4, SettingsConstants, KeepingCardinality DEF Keeping!SettingsAssumption
<1> QED BY <1>1, <1>2, <1>3 DEF Keeping!SettingsLast, Keeping!OutputsAreKept

-----------------------------------------------------------------------------
(* The installer: a client that was passed has been dealt with, and what   *)
(* was read for the one at hand is what its file has.                      *)
ConfigStates == {"absent", "ok", "no_directory", "invalid", "undecodable"}
Configs ==
    [state : ConfigStates, others : SUBSET Others, ours : SUBSET Clients, old : SUBSET Clients]
InstallerSteps ==
    {"idle", "no_old", "unlink_loader", "link_loader", "unlink_package", "link_package",
     "no_loader", "no_package", "client", "edit", "replace"}

InstallerTypeOK ==
    /\ plugin \subseteq {"loader", "package", "old"}
    /\ config \in [Installing!ConfigFiles -> Configs]
    /\ kept \in [Installing!ConfigFiles -> SUBSET Others]
    /\ seen \in Configs /\ raced \in BOOLEAN
    /\ pc \in InstallerSteps
    /\ run \in [uninstall : BOOLEAN, chosen : SUBSET Clients, i : Nat]

PluginInv ==
    /\ ~run.uninstall =>
          /\ pc \notin {"idle", "no_old"} => "old" \notin plugin
          /\ pc \in {"unlink_package", "link_package", "client", "edit", "replace"} =>
                "loader" \in plugin
          /\ pc \in {"client", "edit", "replace"} => "package" \in plugin
          /\ pc \notin {"no_loader", "no_package"}
    /\ run.uninstall =>
          /\ pc \in {"no_package", "no_old", "client", "edit", "replace"} => "loader" \notin plugin
          /\ pc \in {"no_old", "client", "edit", "replace"} => "package" \notin plugin
          /\ pc \in {"client", "edit", "replace"} => "old" \notin plugin
          /\ pc \notin {"unlink_loader", "link_loader", "unlink_package", "link_package"}

Done(c) ==
    LET f == config[FileOf[c]] IN
    f.state \notin {"invalid", "no_directory"} => c \notin f.old /\ (c \in f.ours <=> ~run.uninstall)

SeenInv ==
    pc \in {"edit", "replace"} =>
        /\ run.i \in 1 .. Len(Order)
        /\ config[Installing!File].state \notin {"invalid", "no_directory"}
        /\ ~raced => seen.others = config[Installing!File].others
        /\ pc = "edit" => /\ seen.ours = config[Installing!File].ours
                          /\ seen.old = config[Installing!File].old
        /\ pc = "replace" =>
              /\ seen.old = config[Installing!File].old \ {Installing!Client}
              /\ seen.ours = IF run.uninstall
                             THEN config[Installing!File].ours \ {Installing!Client}
                             ELSE config[Installing!File].ours \cup {Installing!Client}

ClientsInv ==
    /\ pc \in {"client", "edit", "replace"} => run.i >= 1
    /\ pc \in {"client", "edit", "replace"} =>
          \A j \in 1 .. Len(Order) : j < run.i /\ Order[j] \in run.chosen => Done(Order[j])
    /\ pc \notin {"client", "edit", "replace", "idle"} => run.i = 1

InstallerInv ==
    InstallerTypeOK /\ PluginInv /\ SeenInv /\ ClientsInv /\ Installing!EntriesOfOthersStay

LEMMA InstallerConstants ==
    /\ Order \in Seq(Clients) /\ Len(Order) \in Nat
    /\ \A j \in 1 .. Len(Order) : Order[j] \in Clients /\ FileOf[Order[j]] \in Installing!ConfigFiles
    /\ \A c \in Clients : FileOf[c] \in Installing!ConfigFiles /\ \E j \in 1 .. Len(Order) : Order[j] = c
<1>1. Installing!InstallerAssumption
  BY ServerAssumption
<1>2. Order \in Seq(Clients) /\ \A c \in Clients : \E j \in 1 .. Len(Order) : Order[j] = c
  BY <1>1 DEF Installing!InstallerAssumption
<1>3. Len(Order) \in Nat /\ \A j \in 1 .. Len(Order) : Order[j] \in Clients
  BY <1>2
<1>4. \A c \in Clients : FileOf[c] \in Installing!ConfigFiles
  BY DEF Installing!ConfigFiles
<1> QED BY <1>2, <1>3, <1>4

LEMMA InstallerInit == ASSUME Installing!Init PROVE InstallerInv
<1>1. config \in [Installing!ConfigFiles -> Configs]
  <2>2. \A st \in {"absent", "no_directory", "invalid", "undecodable"} :
           [Installing!NoConfig EXCEPT !.state = st] \in Configs
    BY DEF Installing!NoConfig, Configs, ConfigStates
  <2>3. \A o \in {{}, Others}, c \in {{}, Clients} :
           [Installing!NoConfig EXCEPT !.state = "ok", !.others = o, !.old = c] \in Configs
    BY DEF Installing!NoConfig, Configs, ConfigStates
  <2>4. {[Installing!NoConfig EXCEPT !.state = st] :
             st \in {"absent", "no_directory", "invalid", "undecodable"}} \subseteq Configs
    BY <2>2
  <2>5. {[Installing!NoConfig EXCEPT !.state = "ok", !.others = o, !.old = c] :
             o \in {{}, Others}, c \in {{}, Clients}} \subseteq Configs
    BY <2>3
  <2> QED BY <2>4, <2>5 DEF Installing!Init
<1>2. InstallerTypeOK
  <2>1. Installing!NoConfig \in Configs /\ Installing!NoRun \in [uninstall : BOOLEAN, chosen : SUBSET Clients, i : Nat]
    BY DEF Installing!NoConfig, Configs, ConfigStates, Installing!NoRun
  <2>2. kept \in [Installing!ConfigFiles -> SUBSET Others]
    BY <1>1 DEF Installing!Init, Configs
  <2>3. plugin \in {{}, {"old"}} /\ raced = FALSE /\ pc = "idle"
    BY DEF Installing!Init
  <2>4. seen = Installing!NoConfig /\ run = Installing!NoRun
    BY DEF Installing!Init
  <2> QED BY <1>1, <2>1, <2>2, <2>3, <2>4 DEF InstallerTypeOK, InstallerSteps
<1>3. Installing!EntriesOfOthersStay
  BY DEF Installing!Init, Installing!EntriesOfOthersStay
<1> QED BY <1>2, <1>3
        DEF Installing!Init, InstallerInv, PluginInv, SeenInv, ClientsInv, Installing!NoRun

(* The run is at another step and nothing but the plugin has changed.      *)
LEMMA PluginNext ==
    ASSUME InstallerInv,
           \/ \E u \in BOOLEAN, C \in SUBSET Clients : Installing!Begin(u, C)
           \/ Installing!InstallPlugin \/ Installing!AlreadyLinked \/ Installing!UninstallPlugin
    PROVE  InstallerInv'
<1> USE DEF InstallerInv, InstallerTypeOK, InstallerSteps
<1>1. ASSUME NEW u \in BOOLEAN, NEW C \in SUBSET Clients, Installing!Begin(u, C)
      PROVE  InstallerInv'
  <2>1. InstallerTypeOK'
    BY <1>1 DEF Installing!Begin
  <2>2. run'.i = 1 /\ pc' \in {"no_loader", "no_old"} /\ (pc' = "no_loader" <=> run'.uninstall)
    BY <1>1 DEF Installing!Begin
  <2>3. PluginInv' /\ SeenInv' /\ ClientsInv'
    BY <2>2 DEF PluginInv, SeenInv, ClientsInv
  <2> QED BY <1>1, <2>1, <2>3 DEF Installing!Begin, Installing!EntriesOfOthersStay
<1>2. CASE Installing!InstallPlugin
  <2>1. /\ UNCHANGED <<config, temps, run, seen, runs, raced, kept>> /\ ~run.uninstall
        /\ InstallerTypeOK' /\ pc \notin {"client", "edit", "replace", "idle"}
        /\ pc' \in {"unlink_loader", "link_loader", "unlink_package", "link_package", "client"}
    BY <1>2 DEF Installing!InstallPlugin, Installing!PluginStep
  <2>2. PluginInv'
    BY <1>2 DEF Installing!InstallPlugin, Installing!PluginStep, PluginInv
  <2>3. SeenInv' /\ Installing!EntriesOfOthersStay'
    BY <2>1 DEF SeenInv, Installing!EntriesOfOthersStay
  <2>4. ClientsInv'
    <3>1. run'.i = 1
      BY <2>1 DEF ClientsInv
    <3>2. \A j \in 1 .. Len(Order) : ~(j < 1)
      BY InstallerConstants
    <3> QED BY <2>1, <3>1, <3>2 DEF ClientsInv
  <2> QED BY <2>1, <2>2, <2>3, <2>4
<1>3. CASE Installing!AlreadyLinked
  <2>1. /\ UNCHANGED <<config, temps, run, seen, runs, raced, kept>>
        /\ InstallerTypeOK' /\ pc \notin {"client", "edit", "replace", "idle"}
        /\ pc' \in {"unlink_package", "client"}
    BY <1>3 DEF Installing!AlreadyLinked
  <2>2. PluginInv'
    BY <1>3 DEF Installing!AlreadyLinked, PluginInv
  <2>3. SeenInv' /\ Installing!EntriesOfOthersStay'
    BY <2>1 DEF SeenInv, Installing!EntriesOfOthersStay
  <2>4. ClientsInv'
    <3>1. run'.i = 1
      BY <2>1 DEF ClientsInv
    <3>2. \A j \in 1 .. Len(Order) : ~(j < 1)
      BY InstallerConstants
    <3> QED BY <2>1, <3>1, <3>2 DEF ClientsInv
  <2> QED BY <2>1, <2>2, <2>3, <2>4
<1>4. CASE Installing!UninstallPlugin
  <2>1. /\ UNCHANGED <<config, temps, run, seen, runs, raced, kept>> /\ run.uninstall
        /\ InstallerTypeOK' /\ pc \notin {"client", "edit", "replace", "idle"}
        /\ pc' \in {"no_package", "no_old", "client"}
    BY <1>4 DEF Installing!UninstallPlugin, Installing!PluginStep
  <2>2. PluginInv'
    BY <1>4 DEF Installing!UninstallPlugin, Installing!PluginStep, PluginInv
  <2>3. SeenInv' /\ Installing!EntriesOfOthersStay'
    BY <2>1 DEF SeenInv, Installing!EntriesOfOthersStay
  <2>4. ClientsInv'
    <3>1. run'.i = 1
      BY <2>1 DEF ClientsInv
    <3>2. \A j \in 1 .. Len(Order) : ~(j < 1)
      BY InstallerConstants
    <3> QED BY <2>1, <3>1, <3>2 DEF ClientsInv
  <2> QED BY <2>1, <2>2, <2>3, <2>4
<1> QED BY <1>1, <1>2, <1>3, <1>4

LEMMA NextRun ==
    ASSUME InstallerInv, Installing!NextClient
    PROVE  /\ run' \in [uninstall : BOOLEAN, chosen : SUBSET Clients, i : Nat]
           /\ run'.uninstall = run.uninstall /\ run'.chosen = run.chosen /\ run'.i = run.i + 1
           /\ run.i \in Nat /\ pc' = "client" /\ pc' \in InstallerSteps
BY DEF Installing!NextClient, InstallerInv, InstallerTypeOK, InstallerSteps

(* A client has been dealt with, and the next one's turn comes.            *)
LEMMA ClientPassed ==
    ASSUME InstallerInv, pc \in {"client", "edit", "replace"}, Installing!NextClient,
           run.i \in 1 .. Len(Order), UNCHANGED plugin, InstallerTypeOK',
           \A j \in 1 .. Len(Order) : j <= run.i /\ Order[j] \in run.chosen => Done(Order[j])'
    PROVE  PluginInv' /\ SeenInv' /\ ClientsInv'
<1>1. pc' = "client" /\ run' = [run EXCEPT !.i = run.i + 1]
  BY DEF Installing!NextClient
<1>2. /\ run'.uninstall = run.uninstall /\ run'.chosen = run.chosen /\ run'.i = run.i + 1
      /\ run.i \in Nat
  BY <1>1 DEF InstallerInv, InstallerTypeOK
<1>3. PluginInv'
  BY <1>1, <1>2 DEF InstallerInv, PluginInv
<1>4. ClientsInv'
  <2>1. \A j \in 1 .. Len(Order) : j < run'.i => j <= run.i
    BY <1>2
  <2> QED BY <1>1, <1>2, <2>1 DEF ClientsInv
<1> QED BY <1>1, <1>3, <1>4 DEF SeenInv

LEMMA PassClientNext ==
    ASSUME InstallerInv, Installing!ReadConfig \/ Installing!PassClient PROVE InstallerInv'
<1> USE DEF InstallerInv
<1>1. CASE Installing!PassClient
  <2>1. /\ UNCHANGED <<plugin, config, temps, seen, runs, raced, kept>> /\ Installing!NextClient
        /\ pc = "client" /\ run.i <= Len(Order) /\ Order[run.i] \notin run.chosen
    BY <1>1 DEF Installing!PassClient, Installing!Client
  <2>2. InstallerTypeOK' /\ run.i \in 1 .. Len(Order) /\ run'.uninstall = run.uninstall
    <3>1. run.i \in Nat /\ run.i >= 1 /\ Len(Order) \in Nat
      BY <2>1, InstallerConstants DEF ClientsInv, InstallerTypeOK
    <3>2. InstallerTypeOK'
      BY <2>1, NextRun DEF InstallerTypeOK
    <3> QED BY <2>1, <3>1, <3>2, NextRun
  <2>3. \A j \in 1 .. Len(Order) : j <= run.i /\ Order[j] \in run.chosen => Done(Order[j])'
    <3>1. \A j \in 1 .. Len(Order) : j <= run.i /\ Order[j] \in run.chosen => j < run.i
      BY <2>1, <2>2, InstallerConstants
    <3> QED BY <2>1, <2>2, <3>1 DEF ClientsInv, Done
  <2>4. PluginInv' /\ SeenInv' /\ ClientsInv'
    BY <2>1, <2>2, <2>3, ClientPassed
  <2> QED BY <2>1, <2>2, <2>4 DEF Installing!EntriesOfOthersStay
<1>2. CASE Installing!ReadConfig
  <2>1. /\ UNCHANGED <<plugin, config, temps, runs, raced, kept>>
        /\ pc = "client" /\ run.i \in 1 .. Len(Order)
    <3>1. run.i <= Len(Order) /\ pc = "client"
      BY <1>2 DEF Installing!ReadConfig
    <3>2. run.i \in Nat /\ run.i >= 1 /\ Len(Order) \in Nat
      BY <3>1, InstallerConstants DEF ClientsInv, InstallerTypeOK
    <3> QED BY <1>2, <3>1, <3>2 DEF Installing!ReadConfig
  <2>2. Installing!EntriesOfOthersStay'
    BY <2>1 DEF Installing!EntriesOfOthersStay
  <2>3. Installing!File \in Installing!ConfigFiles /\ config[Installing!File] \in Configs
    BY <2>1, InstallerConstants DEF Installing!File, Installing!Client, InstallerTypeOK
  <2>4. CASE config[Installing!File].state \in {"invalid", "no_directory"}
    <3>1. Installing!NextClient /\ seen' = seen
      BY <1>2, <2>4 DEF Installing!ReadConfig
    <3>2. InstallerTypeOK' /\ run'.uninstall = run.uninstall
      BY <2>1, <3>1, NextRun DEF InstallerTypeOK
    <3>3. \A j \in 1 .. Len(Order) : j <= run.i /\ Order[j] \in run.chosen => Done(Order[j])'
      <4>1. \A j \in 1 .. Len(Order) : j = run.i => Done(Order[j])'
        BY <2>1, <2>4 DEF Done, Installing!File, Installing!Client
      <4>2. \A j \in 1 .. Len(Order) : j < run.i /\ Order[j] \in run.chosen => Done(Order[j])'
        BY <2>1, <3>2 DEF ClientsInv, Done
      <4>3. \A j \in 1 .. Len(Order) : j <= run.i => j < run.i \/ j = run.i
        BY <2>1, InstallerConstants
      <4> QED BY <4>1, <4>2, <4>3
    <3> QED BY <2>1, <2>2, <3>1, <3>2, <3>3, ClientPassed
  <2>5. CASE config[Installing!File].state = "undecodable"
    <3>1. pc' = "idle" /\ run' = Installing!NoRun /\ seen' = seen
      BY <1>2, <2>5 DEF Installing!ReadConfig
    <3>2. InstallerTypeOK'
      BY <2>1, <3>1 DEF InstallerTypeOK, InstallerSteps, Installing!NoRun
    <3> QED BY <2>2, <3>1, <3>2 DEF PluginInv, SeenInv, ClientsInv, Installing!NoRun
  <2>6. CASE config[Installing!File].state \notin {"invalid", "no_directory", "undecodable"}
    <3>1. pc' = "edit" /\ run' = run /\ seen' = config[Installing!File]
      BY <1>2, <2>6 DEF Installing!ReadConfig
    <3>2. InstallerTypeOK'
      BY <2>1, <2>3, <3>1 DEF InstallerTypeOK, InstallerSteps
    <3>3. SeenInv'
      BY <2>1, <2>6, <3>1 DEF SeenInv, Installing!File, Installing!Client
    <3>4. PluginInv' /\ ClientsInv'
      BY <2>1, <3>1 DEF PluginInv, ClientsInv, Done
    <3> QED BY <2>2, <3>2, <3>3, <3>4
  <2> QED BY <2>4, <2>5, <2>6
<1> QED BY <1>1, <1>2

LEMMA WriteTempNext == ASSUME InstallerInv, Installing!WriteTemp PROVE InstallerInv'
<1> USE DEF InstallerInv
<1>1. /\ UNCHANGED <<plugin, config, runs, kept>> /\ pc = "edit" /\ run.i \in 1 .. Len(Order)
      /\ config[Installing!File].state \notin {"invalid", "no_directory"}
      /\ ~raced => seen.others = config[Installing!File].others
      /\ seen.ours = config[Installing!File].ours /\ seen.old = config[Installing!File].old
  BY DEF Installing!WriteTemp, SeenInv
<1>2. Installing!EntriesOfOthersStay'
  BY <1>1 DEF Installing!EntriesOfOthersStay
<1>3. CASE run.uninstall /\ Installing!Client \notin seen.ours \cup seen.old
  <2>1. Installing!NextClient /\ raced' = FALSE /\ seen' = seen
    BY <1>3 DEF Installing!WriteTemp
  <2>2. InstallerTypeOK' /\ run'.uninstall = run.uninstall
    BY <1>1, <2>1, NextRun DEF InstallerTypeOK
  <2>3. \A j \in 1 .. Len(Order) : j = run.i => Done(Order[j])'
    <3>1. /\ Order[run.i] \notin config[FileOf[Order[run.i]]].ours
          /\ Order[run.i] \notin config[FileOf[Order[run.i]]].old
      BY <1>1, <1>3 DEF Installing!File, Installing!Client
    <3> QED BY <1>1, <1>3, <2>2, <3>1 DEF Done
  <2>4. \A j \in 1 .. Len(Order) : j <= run.i /\ Order[j] \in run.chosen => Done(Order[j])'
    <3>1. \A j \in 1 .. Len(Order) : j < run.i /\ Order[j] \in run.chosen => Done(Order[j])'
      BY <1>1, <2>2 DEF ClientsInv, Done
    <3>2. \A j \in 1 .. Len(Order) : j <= run.i => j < run.i \/ j = run.i
      BY <1>1, InstallerConstants
    <3> QED BY <2>3, <3>1, <3>2
  <2> QED BY <1>1, <1>2, <2>1, <2>2, <2>4, ClientPassed
<1>4. CASE ~(run.uninstall /\ Installing!Client \notin seen.ours \cup seen.old)
  <2>1. /\ pc' = "replace" /\ UNCHANGED <<run, raced>>
        /\ seen' = Installing!Edited(Installing!Client, run.uninstall)
    BY <1>4 DEF Installing!WriteTemp
  <2>2. Installing!Client \in Clients
    BY <1>1, InstallerConstants DEF Installing!Client
  <2>3. seen' \in Configs
    BY <2>1, <2>2 DEF Installing!Edited, Configs, ConfigStates, InstallerTypeOK
  <2>4. InstallerTypeOK'
    BY <1>1, <2>1, <2>3 DEF InstallerTypeOK, InstallerSteps
  <2>5. SeenInv'
    BY <1>1, <2>1 DEF SeenInv, Installing!Edited, Installing!File, Installing!Client
  <2>6. PluginInv' /\ ClientsInv'
    BY <1>1, <2>1 DEF PluginInv, ClientsInv, Done
  <2> QED BY <1>2, <2>4, <2>5, <2>6
<1> QED BY <1>3, <1>4

LEMMA ReplaceNext == ASSUME InstallerInv, Installing!Replace PROVE InstallerInv'
<1> USE DEF InstallerInv
<1>0. PICK c, f : c = Order[run.i] /\ f = FileOf[c]
  OBVIOUS
<1>1. /\ UNCHANGED <<plugin, seen, runs>> /\ pc = "replace" /\ Installing!NextClient /\ raced' = FALSE
      /\ config' = [config EXCEPT ![f] = seen]
      /\ kept' = IF raced THEN [kept EXCEPT ![f] = seen.others] ELSE kept
  BY <1>0 DEF Installing!Replace, Installing!File, Installing!Client
<1>2. /\ run.i \in 1 .. Len(Order) /\ f \in Installing!ConfigFiles /\ c \in Clients
      /\ config[f].state \notin {"invalid", "no_directory"}
      /\ ~raced => seen.others = config[f].others
      /\ seen.old = config[f].old \ {c}
      /\ seen.ours = IF run.uninstall THEN config[f].ours \ {c} ELSE config[f].ours \cup {c}
  BY <1>0, <1>1, InstallerConstants DEF SeenInv, Installing!File, Installing!Client
<1>3. InstallerTypeOK' /\ run'.uninstall = run.uninstall
  <2>1. seen.others \in SUBSET Others
    BY DEF InstallerTypeOK, Configs
  <2>2. /\ config' \in [Installing!ConfigFiles -> Configs]
        /\ kept' \in [Installing!ConfigFiles -> SUBSET Others]
    BY <1>1, <1>2, <2>1 DEF InstallerTypeOK
  <2> QED BY <1>1, <2>2, NextRun DEF InstallerTypeOK
<1>4. Installing!EntriesOfOthersStay'
  BY <1>1, <1>2 DEF Installing!EntriesOfOthersStay, InstallerTypeOK
<1>5. \A d \in Clients : Done(d) => Done(d)'
  BY <1>1, <1>2, <1>3, InstallerConstants DEF Done, InstallerTypeOK
<1>6. Done(c)'
  <2>1. config'[f] = seen
    BY <1>1, <1>2 DEF InstallerTypeOK
  <2>2. c \notin seen.old /\ (c \in seen.ours <=> ~run.uninstall)
    BY <1>2
  <2> QED BY <1>0, <1>3, <2>1, <2>2 DEF Done
<1>7. \A j \in 1 .. Len(Order) : j <= run.i /\ Order[j] \in run.chosen => Done(Order[j])'
  <2>0. run.i \in Int
    BY <1>2
  <2>1. \A j \in Int : j <= run.i => j < run.i \/ j = run.i
    <3> HIDE DEF InstallerInv
    <3> QED BY <2>0, Z3
  <2>2. \A j \in 1 .. Len(Order) : j < run.i /\ Order[j] \in run.chosen => Done(Order[j])'
    BY <1>1, <1>5, InstallerConstants DEF ClientsInv
  <2>3. \A j \in 1 .. Len(Order) : j = run.i => Done(Order[j])'
    BY <1>0, <1>6
  <2> QED BY <2>1, <2>2, <2>3
<1> QED BY <1>1, <1>2, <1>3, <1>4, <1>7, ClientPassed

LEMMA RunEnds ==
    ASSUME InstallerInv, pc' = "idle", run' = Installing!NoRun, raced' \in BOOLEAN,
           UNCHANGED <<plugin, config, seen, kept>>
    PROVE  InstallerInv'
<1>1. InstallerTypeOK'
  BY DEF InstallerInv, InstallerTypeOK, InstallerSteps, Installing!NoRun
<1> QED BY <1>1 DEF InstallerInv, PluginInv, SeenInv, ClientsInv, Installing!EntriesOfOthersStay,
           Installing!NoRun

LEMMA UserEditsNext ==
    ASSUME InstallerInv, NEW f \in Installing!ConfigFiles, NEW o \in Others, Installing!UserEdits(f, o)
    PROVE  InstallerInv'
<1> USE DEF InstallerInv
<1> DEFINE now == IF o \in config[f].others THEN config[f].others \ {o} ELSE config[f].others \cup {o}
<1>1. /\ config[f].state \in {"absent", "ok"}
      /\ config' = [config EXCEPT ![f] = [config[f] EXCEPT !.state = "ok", !.others = now]]
      /\ kept' = [kept EXCEPT ![f] = now]
      /\ raced' = (raced \/ (pc \in {"edit", "replace"} /\ f = Installing!File))
      /\ UNCHANGED <<plugin, temps, pc, run, seen, runs>>
  BY DEF Installing!UserEdits
<1>2. config[f] \in Configs /\ now \in SUBSET Others
  BY DEF InstallerTypeOK, Configs
<1> HIDE DEF now
<1>3. /\ config'[f] \in Configs /\ config'[f].state = "ok" /\ config'[f].others = now
      /\ config'[f].ours = config[f].ours /\ config'[f].old = config[f].old
      /\ \A g \in Installing!ConfigFiles : g # f => config'[g] = config[g]
  BY <1>1, <1>2 DEF Configs, ConfigStates, InstallerTypeOK
<1>4. InstallerTypeOK'
  <2>1. config' \in [Installing!ConfigFiles -> Configs]
    BY <1>1, <1>3 DEF InstallerTypeOK
  <2> QED BY <1>1, <1>2, <2>1 DEF InstallerTypeOK
<1>5. Installing!EntriesOfOthersStay'
  BY <1>1, <1>3 DEF Installing!EntriesOfOthersStay, InstallerTypeOK
<1>6. PluginInv'
  BY <1>1 DEF PluginInv
<1>7. SeenInv'
  <2>1. pc \in {"edit", "replace"} => Installing!File \in Installing!ConfigFiles
    BY InstallerConstants DEF SeenInv, Installing!File, Installing!Client
  <2>2. Installing!File' = Installing!File /\ Installing!Client' = Installing!Client
    BY <1>1 DEF Installing!File, Installing!Client
  <2> QED BY <1>1, <1>3, <2>1, <2>2 DEF SeenInv
<1>8. \A c \in Clients : Done(c) => Done(c)'
  BY <1>1, <1>3, InstallerConstants DEF Done
<1>9. ClientsInv'
  BY <1>1, <1>8, InstallerConstants DEF ClientsInv
<1> QED BY <1>4, <1>5, <1>6, <1>7, <1>9

LEMMA InstallerNext == ASSUME InstallerInv, Installing!Next PROVE InstallerInv'
<1>1. ASSUME Installing!WriteFails \/ Installing!Finish \/ Installing!Killed PROVE InstallerInv'
  BY <1>1, RunEnds DEF Installing!WriteFails, Installing!Finish, Installing!Killed,
     InstallerInv, InstallerTypeOK
<1> QED BY <1>1, PluginNext, PassClientNext, WriteTempNext, ReplaceNext, UserEditsNext
        DEF Installing!Next

LEMMA InstallerSafe == ASSUME InstallerInv PROVE Installing!InstallerKeepsFiles
<1> USE DEF InstallerInv
<1>1. ASSUME pc = "client", run.i > Len(Order)
      PROVE  /\ plugin = IF run.uninstall THEN {} ELSE {"loader", "package"}
             /\ \A c \in run.chosen : Done(c)
  <2>1. plugin = IF run.uninstall THEN {} ELSE {"loader", "package"}
    BY <1>1 DEF PluginInv, InstallerTypeOK
  <2>2. ASSUME NEW c \in run.chosen PROVE Done(c)
    <3>1. PICK j \in 1 .. Len(Order) : Order[j] = c
      BY InstallerConstants DEF InstallerTypeOK
    <3>2. j < run.i
      BY <1>1, InstallerConstants DEF InstallerTypeOK
    <3> QED BY <1>1, <3>1, <3>2 DEF ClientsInv
  <2> QED BY <2>1, <2>2
<1> QED BY <1>1 DEF Installing!InstallerKeepsFiles, Installing!WorkIsDone, Done

-----------------------------------------------------------------------------
(* Tool calls: the main thread runs the tool of one call.                  *)
ToolStages ==
    {"new", "queued", "running", "started", "saved", "returned", "ended", "flush", "writing", "done"}

CallingTypeOK ==
    /\ toolStage \in [ToolCalls -> ToolStages]
    /\ id \in [ToolCalls -> RpcIds \cup {Calling!SomeId}]
    /\ event \in [ToolCalls -> BOOLEAN] /\ asked \in [ToolCalls -> BOOLEAN]
    /\ pending \in [RpcIds -> ToolCalls \cup {NoRequest}]
    /\ main \in ToolCalls \cup {NoRequest}
    /\ main # NoRequest => toolStage[main] \in {"running", "started", "saved"}
    /\ hook \in [armed : BOOLEAN, restore : BOOLEAN]
    /\ batch \in BOOLEAN /\ before \in BOOLEAN /\ own \in BOOLEAN
    /\ stored \in Seq(ToolCalls) /\ taken \in Seq(ToolCalls) /\ buffer \in Seq(ToolCalls)

TraceInv ==
    /\ Calling!TraceIsComplete
    /\ flusher = NoRequest => taken = <<>>
    /\ \A r \in ToolCalls : toolStage[r] = "writing" => flusher = r

(* As long as no debugger was started while another start was pending, it  *)
(* is the user's mode that comes back.                                     *)
ModeInv ==
    /\ main = NoRequest => before = own
    /\ ~rearmed =>
          /\ hook.armed => hook.restore = own
          /\ ~hook.armed /\ main = NoRequest => batch = own
          /\ main # NoRequest /\ (~hook.armed \/ toolStage[main] = "started") => before = own
          /\ main # NoRequest /\ ~hook.armed /\ toolStage[main] = "started" => batch = own

(* A request that is pending under an id is under way with it, and one     *)
(* that shares its id with no other is.                                    *)
CancelInv ==
    /\ \A r \in Calling!UnderWay : id[r] \in RpcIds
    /\ \A i \in RpcIds : pending[i] # NoRequest =>
          pending[i] \in Calling!UnderWay /\ id[pending[i]] = i
    /\ \A r \in Calling!UnderWay \ shared : \A q \in Calling!UnderWay : id[q] = id[r] => q = r
    /\ \A r \in ToolCalls : toolStage[r] = "new" => ~event[r]
    /\ Calling!CancelsFindTheirs

CallingInv == CallingTypeOK /\ TraceInv /\ ModeInv /\ CancelInv

LEMMA ToolConstants == NoRequest \notin ToolCalls
BY ServerAssumption DEF Calling!ToolAssumption

LEMMA CallingInit == ASSUME Calling!Init PROVE CallingInv
<1>1. CallingTypeOK
  BY EmptySeq DEF Calling!Init, CallingTypeOK, ToolStages
<1>2. TraceInv
  BY EmptySeq, ConcatEmptySeq DEF Calling!Init, TraceInv, Calling!TraceIsComplete
<1>3. ModeInv
  BY DEF Calling!Init, ModeInv
<1>4. CancelInv
  BY ToolConstants DEF Calling!Init, CancelInv, Calling!CancelsFindTheirs, Calling!UnderWay
<1> QED BY <1>1, <1>2, <1>3, <1>4 DEF CallingInv

LEMMA CallingTypeNext == ASSUME CallingTypeOK, Calling!Next PROVE CallingTypeOK'
<1> USE ToolConstants
    DEF CallingTypeOK, ToolStages, Calling!Goes, Calling!MainIsFree, Calling!requestVars,
        Calling!modeVars, Calling!traceVars
<1>1. ASSUME NEW r \in ToolCalls, NEW t \in {"plain", "save", "debug"}, NEW i \in RpcIds, Calling!Begin(r, t, i) PROVE CallingTypeOK'
  BY <1>1 DEF Calling!Begin
<1>2. ASSUME NEW r \in ToolCalls, Calling!Cancel(r) PROVE CallingTypeOK'
  BY <1>2 DEF Calling!Cancel
<1>3. ASSUME NEW r \in ToolCalls, Calling!Unregister(r) PROVE CallingTypeOK'
  BY <1>3 DEF Calling!Unregister
<1>4. ASSUME NEW r \in ToolCalls, Calling!Enter(r) PROVE CallingTypeOK'
  BY <1>4 DEF Calling!Enter
<1>5. ASSUME NEW r \in ToolCalls, Calling!Arm(r) PROVE CallingTypeOK'
  BY <1>5 DEF Calling!Arm
<1>6. ASSUME NEW r \in ToolCalls, Calling!SaveInTool(r) PROVE CallingTypeOK'
  BY <1>6 DEF Calling!SaveInTool
<1>7. ASSUME NEW r \in ToolCalls, NEW completed \in BOOLEAN, Calling!Leave(r, completed) PROVE CallingTypeOK'
  BY <1>7 DEF Calling!Leave
<1>8. ASSUME NEW r \in ToolCalls, Calling!Record(r) PROVE CallingTypeOK'
  <2>1. buffer' \in Seq(ToolCalls)
    <3>1. Append(buffer, r) \in Seq(ToolCalls)
      BY AppendProperties
    <3> QED BY <1>8, <3>1 DEF Calling!Record
  <2> QED BY <1>8, <2>1 DEF Calling!Record
<1>9. ASSUME NEW r \in ToolCalls, Calling!Flush(r) PROVE CallingTypeOK'
  <2>1. taken' \in Seq(ToolCalls) /\ buffer' \in Seq(ToolCalls)
    <3>1. <<>> \in Seq(ToolCalls)
      BY EmptySeq
    <3> QED BY <1>9, <3>1 DEF Calling!Flush
  <2> QED BY <1>9, <2>1 DEF Calling!Flush
<1>10. ASSUME NEW r \in ToolCalls, Calling!Flushed(r) PROVE CallingTypeOK'
  <2>1. stored' \in Seq(ToolCalls) /\ taken' \in Seq(ToolCalls) /\ buffer' \in Seq(ToolCalls)
    <3>1. stored \o taken \in Seq(ToolCalls) /\ taken \o buffer \in Seq(ToolCalls) /\ <<>> \in Seq(ToolCalls)
      BY EmptySeq, ConcatProperties
    <3> QED BY <1>10, <3>1 DEF Calling!Flushed
  <2> QED BY <1>10, <2>1 DEF Calling!Flushed
<1>11. CASE Calling!Restore
  BY <1>11 DEF Calling!Restore
<1>12. ASSUME NEW ending \in BOOLEAN, Calling!FlushOnMain(ending) PROVE CallingTypeOK'
  <2>1. stored' \in Seq(ToolCalls) /\ buffer' \in Seq(ToolCalls)
    <3>1. stored \o buffer \in Seq(ToolCalls) /\ <<>> \in Seq(ToolCalls)
      BY EmptySeq, ConcatProperties
    <3> QED BY <1>12, <3>1 DEF Calling!FlushOnMain
  <2> QED BY <1>12, <2>1 DEF Calling!FlushOnMain
<1> QED BY <1>1, <1>2, <1>3, <1>4, <1>5, <1>6, <1>7, <1>8, <1>9, <1>10, <1>11, <1>12 DEF Calling!Next

(* Records go from the buffer to the database in the order they have.      *)
LEMMA TraceMoves ==
    ASSUME NEW s \in Seq(ToolCalls), NEW t \in Seq(ToolCalls), NEW b \in Seq(ToolCalls)
    PROVE  /\ (s \o b) \o <<>> = (s \o <<>>) \o b
           /\ ((s \o t) \o <<>>) \o b = (s \o t) \o b
           /\ (s \o <<>>) \o (t \o b) = (s \o t) \o b
           /\ ((s \o b) \o <<>>) \o <<>> = (s \o <<>>) \o b
<1>1. s \o b \in Seq(ToolCalls) /\ s \o t \in Seq(ToolCalls)
  BY ConcatProperties
<1>2. /\ (s \o b) \o <<>> = s \o b /\ s \o <<>> = s /\ (s \o t) \o <<>> = s \o t
  BY <1>1, ConcatEmptySeq
<1>3. (s \o t) \o b = s \o (t \o b)
  BY ConcatAssociative
<1> QED BY <1>2, <1>3

LEMMA TraceAppend ==
    ASSUME NEW s \in Seq(ToolCalls), NEW t \in Seq(ToolCalls), NEW b \in Seq(ToolCalls), NEW r \in ToolCalls
    PROVE  (s \o t) \o Append(b, r) = Append((s \o t) \o b, r)
<1>1. s \o t \in Seq(ToolCalls) /\ (s \o t) \o b \in Seq(ToolCalls) /\ <<r>> \in Seq(ToolCalls)
  BY ConcatProperties
<1>2. Append(b, r) = b \o <<r>> /\ Append((s \o t) \o b, r) = ((s \o t) \o b) \o <<r>>
  BY <1>1, AppendIsConcat
<1>3. (s \o t) \o (b \o <<r>>) = ((s \o t) \o b) \o <<r>>
  BY <1>1, ConcatAssociative
<1> QED BY <1>2, <1>3

LEMMA TraceNext == ASSUME CallingTypeOK, TraceInv, Calling!Next PROVE TraceInv'
<1> USE ToolConstants
    DEF TraceInv, Calling!TraceIsComplete, Calling!Goes, Calling!traceVars, Calling!requestVars
<1>1. ASSUME NEW r \in ToolCalls, NEW t \in {"plain", "save", "debug"}, NEW i \in RpcIds, Calling!Begin(r, t, i) PROVE TraceInv'
  BY <1>1 DEF Calling!Begin, CallingTypeOK
<1>2. ASSUME NEW r \in ToolCalls, Calling!Cancel(r) PROVE TraceInv'
  BY <1>2 DEF Calling!Cancel, CallingTypeOK
<1>3. ASSUME NEW r \in ToolCalls, Calling!Unregister(r) PROVE TraceInv'
  BY <1>3 DEF Calling!Unregister, CallingTypeOK
<1>4. ASSUME NEW r \in ToolCalls, Calling!Enter(r) PROVE TraceInv'
  BY <1>4 DEF Calling!Enter, CallingTypeOK
<1>5. ASSUME NEW r \in ToolCalls, Calling!Arm(r) PROVE TraceInv'
  BY <1>5 DEF Calling!Arm, CallingTypeOK
<1>6. ASSUME NEW r \in ToolCalls, Calling!SaveInTool(r) PROVE TraceInv'
  BY <1>6 DEF Calling!SaveInTool, CallingTypeOK
<1>7. ASSUME NEW r \in ToolCalls, NEW completed \in BOOLEAN, Calling!Leave(r, completed) PROVE TraceInv'
  BY <1>7 DEF Calling!Leave, CallingTypeOK
<1>8. ASSUME NEW r \in ToolCalls, Calling!Record(r) PROVE TraceInv'
  <2>1. CASE closed
    BY <1>8, <2>1 DEF Calling!Record, CallingTypeOK
  <2>2. CASE ~closed
    <3>1. /\ buffer' = Append(buffer, r) /\ recorded' = Append(recorded, r)
          /\ UNCHANGED <<stored, taken, flusher>>
      BY <1>8, <2>2 DEF Calling!Record
    <3>2. (stored \o taken) \o Append(buffer, r) = Append((stored \o taken) \o buffer, r)
      <4>1. stored \in Seq(ToolCalls) /\ taken \in Seq(ToolCalls) /\ buffer \in Seq(ToolCalls)
        BY DEF CallingTypeOK
      <4> QED BY <4>1, TraceAppend
    <3>3. \A q \in ToolCalls : toolStage'[q] = "writing" => toolStage[q] = "writing"
      BY <1>8, <2>2 DEF Calling!Record, CallingTypeOK
    <3> QED BY <3>1, <3>2, <3>3
  <2> QED BY <2>1, <2>2
<1>9. ASSUME NEW r \in ToolCalls, Calling!Flush(r) PROVE TraceInv'
  <2>1. CASE buffer = <<>>
    BY <1>9, <2>1 DEF Calling!Flush, CallingTypeOK
  <2>2. CASE buffer # <<>>
    <3>1. /\ taken' = buffer /\ buffer' = <<>> /\ flusher' = r /\ UNCHANGED <<stored, recorded>>
          /\ flusher = NoRequest /\ taken = <<>>
      BY <1>9, <2>2 DEF Calling!Flush
    <3>2. (stored \o buffer) \o <<>> = (stored \o <<>>) \o buffer
      <4>1. stored \in Seq(ToolCalls) /\ taken \in Seq(ToolCalls) /\ buffer \in Seq(ToolCalls)
        BY DEF CallingTypeOK
      <4> QED BY <4>1, TraceMoves, Zenon
    <3>3. \A q \in ToolCalls : toolStage'[q] = "writing" => q = r
      BY <1>9, <2>2, <3>1 DEF Calling!Flush, CallingTypeOK
    <3> QED BY <3>1, <3>2, <3>3
  <2> QED BY <2>1, <2>2
<1>10. ASSUME NEW r \in ToolCalls, Calling!Flushed(r) PROVE TraceInv'
  <2>1. /\ taken' = <<>> /\ flusher' = NoRequest /\ recorded' = recorded
        /\ \/ stored' = stored \o taken /\ buffer' = buffer
           \/ buffer' = taken \o buffer /\ stored' = stored
    BY <1>10 DEF Calling!Flushed
  <2>2. /\ ((stored \o taken) \o <<>>) \o buffer = (stored \o taken) \o buffer
        /\ (stored \o <<>>) \o (taken \o buffer) = (stored \o taken) \o buffer
    <3>1. stored \in Seq(ToolCalls) /\ taken \in Seq(ToolCalls) /\ buffer \in Seq(ToolCalls)
      BY DEF CallingTypeOK
    <3> QED BY <3>1, TraceMoves
  <2>3. \A q \in ToolCalls : toolStage'[q] # "writing"
    BY <1>10 DEF Calling!Flushed, CallingTypeOK
  <2> QED BY <2>1, <2>2, <2>3
<1>11. CASE Calling!Restore
  BY <1>11 DEF Calling!Restore, CallingTypeOK
<1>12. ASSUME NEW ending \in BOOLEAN, Calling!FlushOnMain(ending) PROVE TraceInv'
  <2>1. /\ UNCHANGED <<toolStage, taken, flusher, recorded>>
        /\ \/ UNCHANGED <<buffer, stored>>
           \/ flusher = NoRequest /\ stored' = stored \o buffer /\ buffer' = <<>>
    BY <1>12 DEF Calling!FlushOnMain
  <2>2. ((stored \o buffer) \o <<>>) \o <<>> = (stored \o <<>>) \o buffer
    <3>1. stored \in Seq(ToolCalls) /\ taken \in Seq(ToolCalls) /\ buffer \in Seq(ToolCalls)
      BY DEF CallingTypeOK
    <3> QED BY <3>1, TraceMoves
  <2> QED BY <2>1, <2>2
<1> QED BY <1>1, <1>2, <1>3, <1>4, <1>5, <1>6, <1>7, <1>8, <1>9, <1>10, <1>11, <1>12 DEF Calling!Next

LEMMA ModeNext == ASSUME CallingTypeOK, ModeInv, Calling!Next PROVE ModeInv'
<1> USE ToolConstants
    DEF ModeInv, Calling!Goes, Calling!MainIsFree, Calling!modeVars, Calling!requestVars
<1>1. ASSUME NEW r \in ToolCalls, NEW t \in {"plain", "save", "debug"}, NEW i \in RpcIds, Calling!Begin(r, t, i) PROVE ModeInv'
  BY <1>1 DEF Calling!Begin, CallingTypeOK
<1>2. ASSUME NEW r \in ToolCalls, Calling!Cancel(r) PROVE ModeInv'
  BY <1>2 DEF Calling!Cancel, CallingTypeOK
<1>3. ASSUME NEW r \in ToolCalls, Calling!Unregister(r) PROVE ModeInv'
  BY <1>3 DEF Calling!Unregister, CallingTypeOK
<1>4. ASSUME NEW r \in ToolCalls, Calling!Enter(r) PROVE ModeInv'
  BY <1>4 DEF Calling!Enter, CallingTypeOK
<1>5. ASSUME NEW r \in ToolCalls, Calling!Arm(r) PROVE ModeInv'
  BY <1>5 DEF Calling!Arm, CallingTypeOK
<1>6. ASSUME NEW r \in ToolCalls, Calling!SaveInTool(r) PROVE ModeInv'
  BY <1>6 DEF Calling!SaveInTool, CallingTypeOK
<1>7. ASSUME NEW r \in ToolCalls, NEW completed \in BOOLEAN, Calling!Leave(r, completed) PROVE ModeInv'
  BY <1>7 DEF Calling!Leave, CallingTypeOK
<1>8. ASSUME NEW r \in ToolCalls, Calling!Record(r) PROVE ModeInv'
  BY <1>8 DEF Calling!Record, CallingTypeOK
<1>9. ASSUME NEW r \in ToolCalls, Calling!Flush(r) PROVE ModeInv'
  BY <1>9 DEF Calling!Flush, CallingTypeOK
<1>10. ASSUME NEW r \in ToolCalls, Calling!Flushed(r) PROVE ModeInv'
  BY <1>10 DEF Calling!Flushed, CallingTypeOK
<1>11. CASE Calling!Restore
  BY <1>11 DEF Calling!Restore, CallingTypeOK
<1>12. ASSUME NEW ending \in BOOLEAN, Calling!FlushOnMain(ending) PROVE ModeInv'
  BY <1>12 DEF Calling!FlushOnMain, CallingTypeOK
<1> QED BY <1>1, <1>2, <1>3, <1>4, <1>5, <1>6, <1>7, <1>8, <1>9, <1>10, <1>11, <1>12 DEF Calling!Next

LEMMA CancelNext == ASSUME CallingTypeOK, CancelInv, Calling!Next PROVE CancelInv'
<1> USE ToolConstants
    DEF CancelInv, Calling!CancelsFindTheirs, Calling!UnderWay, Calling!Goes, Calling!requestVars
<1>1. ASSUME NEW r \in ToolCalls, NEW t \in {"plain", "save", "debug"}, NEW i \in RpcIds, Calling!Begin(r, t, i) PROVE CancelInv'
  BY <1>1 DEF Calling!Begin, CallingTypeOK
<1>2. ASSUME NEW r \in ToolCalls, Calling!Cancel(r) PROVE CancelInv'
  <2>1. /\ asked' = [asked EXCEPT ![r] = TRUE] /\ UNCHANGED <<toolStage, id, pending, shared>>
        /\ \A q \in ToolCalls : event'[q] <=> event[q] \/ q = pending[id[r]]
        /\ r \in Calling!UnderWay /\ id[r] \in RpcIds
    BY <1>2 DEF Calling!Cancel
  <2>2. \A q \in Calling!UnderWay \ shared : q = pending[id[r]] => q = r
    BY <2>1
  <2>3. \A q \in Calling!UnderWay \ shared : event'[q] => asked'[q]
    BY <2>1, <2>2 DEF CallingTypeOK
  <2>4. \A q \in ToolCalls : toolStage[q] = "new" => q # pending[id[r]]
    BY <2>1
  <2> QED BY <2>1, <2>3, <2>4
<1>3. ASSUME NEW r \in ToolCalls, Calling!Unregister(r) PROVE CancelInv'
  BY <1>3 DEF Calling!Unregister, CallingTypeOK
<1>4. ASSUME NEW r \in ToolCalls, Calling!Enter(r) PROVE CancelInv'
  BY <1>4 DEF Calling!Enter, CallingTypeOK
<1>5. ASSUME NEW r \in ToolCalls, Calling!Arm(r) PROVE CancelInv'
  BY <1>5 DEF Calling!Arm, CallingTypeOK
<1>6. ASSUME NEW r \in ToolCalls, Calling!SaveInTool(r) PROVE CancelInv'
  BY <1>6 DEF Calling!SaveInTool, CallingTypeOK
<1>7. ASSUME NEW r \in ToolCalls, NEW completed \in BOOLEAN, Calling!Leave(r, completed) PROVE CancelInv'
  BY <1>7 DEF Calling!Leave, CallingTypeOK
<1>8. ASSUME NEW r \in ToolCalls, Calling!Record(r) PROVE CancelInv'
  <2>1. PICK st \in {"flush", "done"} : toolStage' = [toolStage EXCEPT ![r] = st]
    BY <1>8 DEF Calling!Record
  <2>2. /\ toolStage'[r] = st /\ toolStage[r] = "ended"
        /\ \A q \in ToolCalls : q # r => toolStage'[q] = toolStage[q]
        /\ UNCHANGED <<id, pending, shared, event, asked>>
    BY <1>8, <2>1 DEF Calling!Record, CallingTypeOK
  <2>3. \A q \in ToolCalls : /\ toolStage'[q] = "new" <=> toolStage[q] = "new"
                             /\ q \in Calling!UnderWay' <=> q \in Calling!UnderWay
    BY <2>2
  <2>4. Calling!UnderWay' = Calling!UnderWay
    <3>1. Calling!UnderWay' \subseteq ToolCalls /\ Calling!UnderWay \subseteq ToolCalls
      OBVIOUS
    <3> HIDE DEF Calling!UnderWay
    <3> QED BY <2>3, <3>1
  <2> HIDE DEF Calling!UnderWay
  <2> QED BY <2>2, <2>3, <2>4
<1>9. ASSUME NEW r \in ToolCalls, Calling!Flush(r) PROVE CancelInv'
  <2>1. PICK st \in {"writing", "done"} : toolStage' = [toolStage EXCEPT ![r] = st]
    BY <1>9 DEF Calling!Flush
  <2>2. /\ toolStage'[r] = st /\ toolStage[r] = "flush"
        /\ \A q \in ToolCalls : q # r => toolStage'[q] = toolStage[q]
        /\ UNCHANGED <<id, pending, shared, event, asked>>
    BY <1>9, <2>1 DEF Calling!Flush, CallingTypeOK
  <2>3. \A q \in ToolCalls : /\ toolStage'[q] = "new" <=> toolStage[q] = "new"
                             /\ q \in Calling!UnderWay' <=> q \in Calling!UnderWay
    BY <2>2
  <2>4. Calling!UnderWay' = Calling!UnderWay
    <3>1. Calling!UnderWay' \subseteq ToolCalls /\ Calling!UnderWay \subseteq ToolCalls
      OBVIOUS
    <3> HIDE DEF Calling!UnderWay
    <3> QED BY <2>3, <3>1
  <2> HIDE DEF Calling!UnderWay
  <2> QED BY <2>2, <2>3, <2>4
<1>10. ASSUME NEW r \in ToolCalls, Calling!Flushed(r) PROVE CancelInv'
  BY <1>10 DEF Calling!Flushed, CallingTypeOK
<1>11. CASE Calling!Restore
  BY <1>11 DEF Calling!Restore, CallingTypeOK
<1>12. ASSUME NEW ending \in BOOLEAN, Calling!FlushOnMain(ending) PROVE CancelInv'
  BY <1>12 DEF Calling!FlushOnMain, CallingTypeOK
<1> QED BY <1>1, <1>2, <1>3, <1>4, <1>5, <1>6, <1>7, <1>8, <1>9, <1>10, <1>11, <1>12 DEF Calling!Next

LEMMA CallingNext == ASSUME CallingInv, Calling!Next PROVE CallingInv'
BY CallingTypeNext, TraceNext, ModeNext, CancelNext DEF CallingInv

LEMMA CallingSafe == ASSUME CallingInv PROVE Calling!ToolsLeaveNoTrouble
BY DEF CallingInv, TraceInv, ModeInv, CancelInv, Calling!ToolsLeaveNoTrouble, Calling!BatchModeComesBack

-----------------------------------------------------------------------------
(* Event streams: those that a stop has passed over came while it cleared. *)
StreamsInv ==
    /\ thread \in [StreamIds -> {"new", "serving", "ending", "over"}]
    /\ connected \subseteq StreamIds /\ alive \subseteq StreamIds
    /\ halting \in {"no", "marking", "clearing", "closing"}
    /\ running => halting = "no"
    /\ \A s \in connected : thread[s] \in {"serving", "ending"}
    /\ \A s \in alive : thread[s] = "serving" => s \in connected \cup late
    /\ halting = "clearing" => \A s \in alive : thread[s] = "serving" => s \in late
    /\ ~broken => listening = IF running \/ halting # "no" THEN {current} ELSE {}

LEMMA StreamsInit == ASSUME Streaming!Init PROVE StreamsInv
BY DEF Streaming!Init, StreamsInv

LEMMA StreamsNext == ASSUME StreamsInv, Streaming!Next PROVE StreamsInv'
<1> USE DEF StreamsInv, Streaming!serverVars, Streaming!streamVars, Streaming!Joins, Streaming!Forgets
<1>1. CASE Streaming!Serve
  BY <1>1 DEF Streaming!Serve
<1>2. CASE Streaming!BeginStop
  BY <1>2 DEF Streaming!BeginStop
<1>3. CASE Streaming!MarkStreams
  BY <1>3 DEF Streaming!MarkStreams
<1>4. CASE Streaming!ClearStreams
  BY <1>4 DEF Streaming!ClearStreams
<1>5. CASE Streaming!CloseServer
  BY <1>5 DEF Streaming!CloseServer
<1>6. CASE Streaming!Answer
  BY <1>6 DEF Streaming!Answer
<1>7. ASSUME NEW s \in StreamIds, Streaming!Connect(s) PROVE StreamsInv'
  BY <1>7 DEF Streaming!Connect
<1>8. ASSUME NEW s \in StreamIds, Streaming!LeaveLoop(s) PROVE StreamsInv'
  BY <1>8 DEF Streaming!LeaveLoop
<1>9. ASSUME NEW s \in StreamIds, Streaming!Forget(s) PROVE StreamsInv'
  BY <1>9 DEF Streaming!Forget
<1>10. ASSUME NEW s \in StreamIds, Streaming!ClientLeaves(s) PROVE StreamsInv'
  BY <1>10 DEF Streaming!ClientLeaves
<1>11. ASSUME NEW s \in StreamIds, Streaming!StopBreaks(s) PROVE StreamsInv'
  BY <1>11 DEF Streaming!StopBreaks
<1>12. ASSUME NEW s \in StreamIds, Streaming!Post(s) PROVE StreamsInv'
  BY <1>12 DEF Streaming!Post
<1> QED BY <1>1, <1>2, <1>3, <1>4, <1>5, <1>6, <1>7, <1>8, <1>9, <1>10, <1>11, <1>12 DEF Streaming!Next

LEMMA StreamsSafe == ASSUME StreamsInv PROVE Streaming!StreamsAreServed
<1>1. Streaming!ServedStreamsAreKnown
  BY DEF StreamsInv, Streaming!ServedStreamsAreKnown
<1>2. Cardinality({current}) = 1 /\ Cardinality({}) = 0
  BY FS_Singleton, FS_EmptySet
<1>3. Streaming!Cardinality(listening) = Cardinality(listening)
  BY DEF Streaming!Cardinality, Cardinality, Streaming!IsFiniteSet, IsFiniteSet
<1>4. Streaming!OneServerListens
  BY <1>2, <1>3 DEF StreamsInv, Streaming!OneServerListens
<1> QED BY <1>1, <1>4 DEF Streaming!StreamsAreServed

-----------------------------------------------------------------------------
(* Lines of JSON-RPC.                                                      *)
AnswerIds == {NullId} \cup {x.id : x \in {y \in Handling!InputLines : y.shape = "object"}}
Answers == [id : AnswerIds, code : Nat]

AnsweredInv ==
    /\ lines \in Seq(Handling!InputLines) /\ lineTaken \in Seq(Handling!InputLines)
    /\ called \in Seq(BOOLEAN) /\ Len(called) = Len(lineTaken)
    /\ owed \in Seq(AnswerIds) /\ output \in Seq(Answers)
    /\ doing = "calling" =>
          input \in Handling!InputLines /\ input.shape = "object" /\ Handling!Invalid(input) = 0
    /\ Handling!AnsweredInOrder

Ids(o) == [k \in DOMAIN o |-> o[k].id]
DispatchInv == AnsweredInv /\ Handling!CallsAreChecked

LEMMA DispatchConstants ==
    /\ \A m \in DOMAIN Signature : Signature[m] \in Seq(Handling!ParameterType)
    /\ Inputs \subseteq Seq(Handling!InputLines)
    /\ \A line \in Handling!InputLines :
          /\ line.shape \in {"blank", "garbage", "array", "object"}
          /\ line.shape = "object" /\ line.params.is = "list" => line.params.values \in Seq(Handling!Kinds)
          /\ line.shape = "object" /\ line.params.is = "object" =>
                \A n \in DOMAIN line.params.values : line.params.values[n] \in Handling!Kinds
<1>1. Handling!DispatchAssumption
  BY ServerAssumption
<1> QED BY <1>1 DEF Handling!DispatchAssumption

LEMMA DispatchInit == ASSUME Handling!Init PROVE DispatchInv
<1>1. lines \in Seq(Handling!InputLines)
  BY DispatchConstants DEF Handling!Init
<1>2. /\ <<>> \in Seq(Handling!InputLines) /\ <<>> \in Seq(BOOLEAN) /\ <<>> \in Seq(AnswerIds)
      /\ <<>> \in Seq(Answers) /\ Len(<<>>) = 0
  BY EmptySeq
<1>3. Handling!AnsweredInOrder
  <2>1. [k \in DOMAIN output |-> output[k].id] = <<>>
    BY DEF Handling!Init
  <2>2. <<>> \o <<>> = <<>>
    BY <1>2, ConcatEmptySeq
  <2> QED BY <2>1, <2>2 DEF Handling!Init, Handling!AnsweredInOrder
<1>4. Handling!CallsAreChecked
  BY <1>2 DEF Handling!Init, Handling!CallsAreChecked, Handling!ArgumentsFit, Handling!LinesAreJudged
<1> QED BY <1>1, <1>2, <1>3, <1>4 DEF Handling!Init, DispatchInv, AnsweredInv

(* What a value is taken for fits, and one that fits is taken, but for a   *)
(* text that is parsed first.                                              *)
LEMMA ValidatedFits ==
    ASSUME NEW p \in Handling!ParameterType, NEW v \in Handling!Kinds
    PROVE  LET w == Handling!Validated(p, v) IN
           /\ w # Handling!Refused => Handling!Fits(p, w)
           /\ w # Handling!Refused => Handling!Fits(p, v) \/ (p.union /\ Handling!Loads(v) # v)
           /\ w = Handling!Refused => ~Handling!Fits(p, v) \/ (p.union /\ Handling!Loads(v) # v)
<1> USE DEF Handling!Refused
<1>1. /\ p.hint \in BOOLEAN /\ p.union \in BOOLEAN /\ p.null \in BOOLEAN
  BY DEF Handling!ParameterType
<1>2. /\ Handling!Loads(v) \in {v, "int", "list"}
      /\ Handling!Loads("null") = "null" /\ v # "null" => Handling!Loads(v) # "null"
      /\ v # "refused" /\ Handling!Loads(v) # "refused"
  BY DEF Handling!Loads, Handling!Kinds, Handling!Texts
<1>3. /\ Handling!Class("float") = {"float"} /\ Handling!Class("int") = {"int"}
      /\ "int" \in Handling!Class("true")
      /\ "int" \in Handling!Class(v) => v \in {"int", "true"}
  BY DEF Handling!Class, Handling!Kinds, Handling!Texts
<1>4. CASE ~p.hint
  <2>1. Handling!Validated(p, v) = v
    BY <1>1, <1>4 DEF Handling!Validated
  <2> QED BY <1>2, <1>4, <2>1 DEF Handling!Fits
<1>5. CASE p.hint /\ v = "null"
  <2>1. Handling!Validated(p, v) = IF p.null THEN v ELSE "refused"
    BY <1>1, <1>5 DEF Handling!Validated
  <2> QED BY <1>1, <1>5, <2>1 DEF Handling!Fits
<1>6. CASE p.hint /\ v # "null" /\ p.union
  <2>1. Handling!Validated(p, v) =
           IF Handling!Matches(p, Handling!Loads(v)) THEN Handling!Loads(v) ELSE "refused"
    BY <1>1, <1>6 DEF Handling!Validated
  <2> QED BY <1>1, <1>2, <1>6, <2>1 DEF Handling!Fits
<1>7. CASE p.hint /\ v # "null" /\ ~p.union
  <2>1. Handling!Validated(p, v) =
           IF p.classes = {"float"} /\ "int" \in Handling!Class(v) THEN "float"
           ELSE IF Handling!Matches(p, v) THEN v ELSE "refused"
    BY <1>1, <1>7 DEF Handling!Validated
  <2>2. p.classes = {"float"} => Handling!Matches(p, "float")
    BY <1>3 DEF Handling!Matches
  <2> QED BY <1>1, <1>2, <1>3, <1>7, <2>1, <2>2 DEF Handling!Fits
<1> QED BY <1>1, <1>4, <1>5, <1>6, <1>7

LEMMA ParameterOf ==
    ASSUME NEW m \in DOMAIN Signature, NEW n \in Handling!Parameters(m)
    PROVE  Handling!Parameter(m, n) \in Handling!ParameterType
<1>1. Signature[m] \in Seq(Handling!ParameterType)
  BY DispatchConstants
<1>2. \A k \in DOMAIN Signature[m] : Signature[m][k] \in Handling!ParameterType
  BY <1>1, ElementOfSeq
<1>3. \E p \in Handling!Range(Signature[m]) : p.name = n
  BY DEF Handling!Parameters, Handling!Range
<1>4. Handling!Parameter(m, n) \in Handling!Range(Signature[m])
  BY <1>3 DEF Handling!Parameter
<1> QED BY <1>2, <1>4 DEF Handling!Range

(* Fewer values than a method requires do not name all that it requires.   *)
LEMMA TooFewValues ==
    ASSUME NEW line \in Handling!InputLines, line.shape = "object", line.params.is = "list",
           line.method \in DOMAIN Signature,
           Handling!Required(line.method) \subseteq DOMAIN Handling!Named(line),
           Len(line.params.values) <= Len(Signature[line.method])
    PROVE  Len(line.params.values) \in
              Handling!Cardinality(Handling!Required(line.method)) .. Len(Signature[line.method])
<1> DEFINE V == line.params.values
           m == line.method
           given == DOMAIN Handling!Named(line)
<1>1. V \in Seq(Handling!Kinds) /\ Len(V) \in Nat /\ DOMAIN V = 1 .. Len(V)
      /\ Len(Signature[m]) \in Nat
  BY DispatchConstants, LenProperties
<1>2. given = {Signature[m][k].name : k \in DOMAIN V}
  BY DEF Handling!Named
<1>3. IsFiniteSet(1 .. Len(V)) /\ Cardinality(1 .. Len(V)) = Len(V)
  <2>1. IsFiniteSet(1 .. Len(V)) /\ Cardinality(1 .. Len(V)) = IF 1 > Len(V) THEN 0 ELSE Len(V) - 1 + 1
    <3>1. Len(V) \in Int /\ 1 \in Int
      BY <1>1
    <3> HIDE DEF V
    <3> QED BY <3>1, FS_Interval
  <2> QED BY <1>1, <2>1
<1>4. IsFiniteSet(given) /\ Cardinality(given) <= Len(V) /\ Cardinality(given) \in Nat
  <2> DEFINE f == [k \in 1 .. Len(V) |-> Signature[m][k].name]
  <2>1. f \in Surjection(1 .. Len(V), given)
    BY <1>1, <1>2 DEF Surjection
  <2> HIDE DEF f, given, V
  <2>2. IsFiniteSet(given) /\ Cardinality(given) <= Cardinality(1 .. Len(V))
    BY <2>1, <1>3, FS_Surjection
  <2> QED BY <2>2, <1>3, FS_CardinalityType
<1>5. Cardinality(Handling!Required(m)) <= Cardinality(given) /\ Cardinality(Handling!Required(m)) \in Nat
  BY <1>4, FS_Subset, FS_CardinalityType
<1>6. Handling!Cardinality(Handling!Required(m)) = Cardinality(Handling!Required(m))
  BY DEF Handling!Cardinality, Cardinality, Handling!IsFiniteSet, IsFiniteSet
<1> QED BY <1>1, <1>4, <1>5, <1>6

LEMMA GivenValues ==
    ASSUME NEW line \in Handling!InputLines, line.shape = "object",
           NEW n \in DOMAIN Handling!Named(line)
    PROVE  Handling!Named(line)[n] \in Handling!Kinds
<1>1. CASE line.params.is = "list"
  <2> DEFINE V == line.params.values
             K(x) == CHOOSE k \in DOMAIN V : Signature[line.method][k].name = x
  <2>1. V \in Seq(Handling!Kinds) /\ \A k \in DOMAIN V : V[k] \in Handling!Kinds
    BY <1>1, DispatchConstants, ElementOfSeq
  <2>2. Handling!Named(line) =
           [x \in {Signature[line.method][k].name : k \in DOMAIN V} |-> V[K(x)]]
    BY <1>1 DEF Handling!Named
  <2> HIDE DEF V
  <2>3. \E k \in DOMAIN V : Signature[line.method][k].name = n
    BY <2>2
  <2>4. K(n) \in DOMAIN V
    BY <2>3
  <2>5. Handling!Named(line)[n] = V[K(n)]
    BY <2>2
  <2> HIDE DEF K
  <2> QED BY <2>1, <2>4, <2>5
<1>2. CASE line.params.is = "object"
  <2>1. Handling!Named(line) = line.params.values
    BY <1>2 DEF Handling!Named
  <2> QED BY <1>2, <2>1, DispatchConstants
<1>3. CASE line.params.is \notin {"list", "object"}
  BY <1>3 DEF Handling!Named, Handling!NoArguments
<1> QED BY <1>1, <1>2, <1>3

(* A line is handed to its method if and only if it is proper, but for a   *)
(* text that is parsed first.                                              *)
LEMMA AllowedLines ==
    ASSUME NEW line \in Handling!InputLines, line.shape = "object"
    PROVE  LET m == line.method
               given == Handling!Named(line) IN
           /\ Handling!Allowed(line) = 0 =>
                 /\ m \in DOMAIN Signature
                 /\ Handling!Required(m) \subseteq DOMAIN given
                 /\ DOMAIN given \subseteq Handling!Parameters(m)
                 /\ \A n \in DOMAIN given :
                       Handling!Validated(Handling!Parameter(m, n), given[n]) # Handling!Refused
                 /\ Handling!Proper(line) \/ Handling!Ambiguous(line)
           /\ Handling!Allowed(line) # 0 /\ m \in DOMAIN Signature =>
                 ~Handling!Proper(line) \/ Handling!Ambiguous(line)
<1> DEFINE m == line.method
           given == Handling!Named(line)
           V(n) == Handling!Validated(Handling!Parameter(m, n), given[n])
           Taken == /\ Handling!Required(m) \subseteq DOMAIN given
                    /\ DOMAIN given \subseteq Handling!Parameters(m)
                    /\ \A n \in DOMAIN given : V(n) # Handling!Refused
           TooMany == Len(line.params.values) \notin
                         Handling!Cardinality(Handling!Required(m)) .. Len(Signature[m])
<1>1. CASE m \notin DOMAIN Signature
  <2>1. Handling!Allowed(line) = 32601
    BY <1>1 DEF Handling!Allowed
  <2> QED BY <1>1, <2>1
<1>2. ASSUME m \in DOMAIN Signature, DOMAIN given \subseteq Handling!Parameters(m),
             NEW n \in DOMAIN given
      PROVE  /\ V(n) # Handling!Refused => Handling!Fits(Handling!Parameter(m, n), given[n])
                                           \/ Handling!Ambiguous(line)
             /\ V(n) = Handling!Refused => ~Handling!Fits(Handling!Parameter(m, n), given[n])
                                           \/ Handling!Ambiguous(line)
  <2>1. Handling!Parameter(m, n) \in Handling!ParameterType /\ given[n] \in Handling!Kinds
    BY <1>2, ParameterOf, GivenValues
  <2>2. Handling!Parameter(m, n).union /\ Handling!Loads(given[n]) # given[n] => Handling!Ambiguous(line)
    BY <1>2 DEF Handling!Ambiguous
  <2> HIDE DEF m, given
  <2> QED BY <2>1, <2>2, ValidatedFits
<1>3. CASE m \in DOMAIN Signature /\ line.params.is = "none"
  <2>1. Handling!Allowed(line) = IF Handling!Required(m) = {} THEN 0 ELSE 32602
    BY <1>3 DEF Handling!Allowed
  <2>2. DOMAIN given = {}
    BY <1>3 DEF Handling!Named, Handling!NoArguments
  <2>3. Handling!Proper(line) <=> Handling!Required(m) = {}
    BY <1>3, <2>2 DEF Handling!Proper
  <2> QED BY <1>3, <2>1, <2>2, <2>3
<1>4. CASE m \in DOMAIN Signature /\ line.params.is = "text"
  <2>1. Handling!Allowed(line) = 32602
    BY <1>4 DEF Handling!Allowed
  <2> QED BY <1>4, <2>1 DEF Handling!Proper
<1>5. CASE m \in DOMAIN Signature /\ line.params.is = "list" /\ TooMany
  <2>1. Handling!Allowed(line) = 32602
    BY <1>5 DEF Handling!Allowed
  <2>2. ~Handling!Proper(line)
    BY <1>5, TooFewValues DEF Handling!Proper
  <2> QED BY <2>1, <2>2
<1>6. CASE /\ m \in DOMAIN Signature /\ line.params.is \notin {"none", "text"}
           /\ line.params.is = "list" => ~TooMany
  <2>1. Handling!Allowed(line) = IF Taken THEN 0 ELSE 32602
    BY <1>6 DEF Handling!Allowed
  <2>2. line.params.is = "list" => Len(line.params.values) <= Len(Signature[m])
    <3>1. CASE line.params.is = "list"
      <4>1. Len(line.params.values) \in Nat /\ Len(Signature[m]) \in Nat
        BY <1>6, <3>1, DispatchConstants, LenProperties
      <4> QED BY <1>6, <3>1, <4>1
    <3> QED BY <3>1
  <2>3. Handling!Proper(line) <=>
           /\ Handling!Required(m) \subseteq DOMAIN given /\ DOMAIN given \subseteq Handling!Parameters(m)
           /\ \A n \in DOMAIN given : Handling!Fits(Handling!Parameter(m, n), given[n])
    BY <1>6, <2>2 DEF Handling!Proper
  <2>4. Taken => Handling!Proper(line) \/ Handling!Ambiguous(line)
    BY <1>2, <1>6, <2>3
  <2>5. ~Taken => ~Handling!Proper(line) \/ Handling!Ambiguous(line)
    BY <1>2, <1>6, <2>3
  <2> QED BY <1>6, <2>1, <2>4, <2>5
<1> QED BY <1>1, <1>3, <1>4, <1>5, <1>6

-----------------------------------------------------------------------------
LEMMA AnswerAppended ==
    ASSUME NEW o \in Seq(Answers), NEW i \in AnswerIds, NEW c \in Nat
    PROVE  LET p == Append(o, Handling!Response(i, c)) IN
           p \in Seq(Answers) /\ Ids(p) = Ids(o) \o <<i>>
<1> DEFINE a == Handling!Response(i, c)
           p == Append(o, a)
<1>1. a \in Answers /\ a.id = i
  BY DEF Handling!Response, Answers
<1>2. /\ p \in Seq(Answers) /\ DOMAIN p = 1 .. Len(o) + 1 /\ DOMAIN o = 1 .. Len(o) /\ Len(o) \in Nat
      /\ p[Len(o) + 1] = a /\ \A k \in 1 .. Len(o) : p[k] = o[k]
  <2> HIDE DEF a
  <2> QED BY <1>1, AppendProperties, LenProperties
<1>3. Ids(o) \in Seq(AnswerIds) /\ Len(Ids(o)) = Len(o)
  <2>1. \A k \in 1 .. Len(o) : o[k].id \in AnswerIds
    <3>1. \A k \in 1 .. Len(o) : o[k] \in Answers
      BY ElementOfSeq
    <3> QED BY <3>1 DEF Answers
  <2>2. Ids(o) = [k \in 1 .. Len(o) |-> o[k].id]
    BY <1>2 DEF Ids
  <2>3. Ids(o) \in [1 .. Len(o) -> AnswerIds]
    BY <2>1, <2>2
  <2> QED BY <1>2, <2>3, SeqDef, LenProperties
<1>4. <<i>> \in Seq(AnswerIds) /\ Len(<<i>>) = 1 /\ <<i>>[1] = i
  OBVIOUS
<1>5. /\ DOMAIN (Ids(o) \o <<i>>) = 1 .. Len(o) + 1 /\ (Ids(o) \o <<i>>)[Len(o) + 1] = i
      /\ \A k \in 1 .. Len(o) : (Ids(o) \o <<i>>)[k] = Ids(o)[k]
  <2>1. /\ Ids(o) \o <<i>> \in Seq(AnswerIds) /\ Len(Ids(o) \o <<i>>) = Len(o) + 1
        /\ \A k \in 1 .. Len(o) + 1 : (Ids(o) \o <<i>>)[k] =
               IF k <= Len(o) THEN Ids(o)[k] ELSE <<i>>[k - Len(o)]
    BY <1>3, <1>4, ConcatProperties
  <2>2. DOMAIN (Ids(o) \o <<i>>) = 1 .. Len(o) + 1
    BY <2>1, LenProperties
  <2>3. Len(o) + 1 \in 1 .. Len(o) + 1 /\ ~(Len(o) + 1 <= Len(o)) /\ Len(o) + 1 - Len(o) = 1
    BY <1>2
  <2>4. \A k \in 1 .. Len(o) : k \in 1 .. Len(o) + 1 /\ k <= Len(o)
    BY <1>2
  <2> QED BY <1>4, <2>1, <2>2, <2>3, <2>4
<1>6. /\ Ids(p) = [k \in 1 .. Len(o) + 1 |-> p[k].id]
      /\ \A k \in 1 .. Len(o) : Ids(o)[k] = o[k].id
  BY <1>2 DEF Ids
<1>7. Ids(o) \o <<i>> = [k \in 1 .. Len(o) + 1 |-> (Ids(o) \o <<i>>)[k]]
  <2>1. Ids(o) \o <<i>> \in Seq(AnswerIds) /\ Len(Ids(o) \o <<i>>) = Len(o) + 1
    BY <1>3, <1>4, ConcatProperties
  <2>2. Ids(o) \o <<i>> \in [1 .. Len(o) + 1 -> AnswerIds]
    BY <2>1, LenProperties
  <2> QED BY <2>2
<1>8. \A k \in 1 .. Len(o) + 1 : p[k].id = (Ids(o) \o <<i>>)[k]
  <2>1. \A k \in 1 .. Len(o) + 1 : k \in 1 .. Len(o) \/ k = Len(o) + 1
    BY <1>2
  <2> QED BY <1>1, <1>2, <1>5, <1>6, <2>1
<1>9. Ids(p) = Ids(o) \o <<i>>
  <2> DEFINE q == Ids(o) \o <<i>>
  <2>1. \A k \in 1 .. Len(o) + 1 : p[k].id = q[k]
    BY <1>8
  <2>2. Ids(p) = [k \in 1 .. Len(o) + 1 |-> p[k].id] /\ q = [k \in 1 .. Len(o) + 1 |-> q[k]]
    BY <1>6, <1>7
  <2> HIDE DEF p, q
  <2>3. [k \in 1 .. Len(o) + 1 |-> p[k].id] = [k \in 1 .. Len(o) + 1 |-> q[k]]
    BY <2>1
  <2> QED BY <2>2, <2>3 DEF q
<1> QED BY <1>2, <1>9

LEMMA IdsOfAnswers == ASSUME NEW o \in Seq(Answers) PROVE Ids(o) \o <<>> = Ids(o)
<1>1. DOMAIN o = 1 .. Len(o) /\ Len(o) \in Nat /\ \A k \in 1 .. Len(o) : o[k].id \in AnswerIds
  <2>1. \A k \in 1 .. Len(o) : o[k] \in Answers
    BY ElementOfSeq
  <2> QED BY <2>1, LenProperties DEF Answers
<1>2. Ids(o) \in [1 .. Len(o) -> AnswerIds]
  BY <1>1 DEF Ids
<1>3. Ids(o) \in Seq(AnswerIds)
  BY <1>1, <1>2, SeqDef
<1> QED BY <1>3, ConcatEmptySeq

LEMMA AllowedCodes == ASSUME NEW line PROVE Handling!Allowed(line) \in Nat
BY DEF Handling!Allowed

(* A line that is taken is one of those that were to come.                 *)
LEMMA LineTaken ==
    ASSUME AnsweredInv, Handling!Reading, NEW handed \in BOOLEAN, Handling!Take(Head(lines), handed)
    PROVE  /\ Head(lines) \in Handling!InputLines
           /\ lines' \in Seq(Handling!InputLines) /\ lineTaken' \in Seq(Handling!InputLines)
           /\ called' \in Seq(BOOLEAN) /\ Len(called') = Len(lineTaken') /\ owed' \in Seq(AnswerIds)
           /\ owed' = owed \o IF Handling!WantsAnswer(Head(lines))
                              THEN <<Handling!IdOf(Head(lines))>> ELSE <<>>
           /\ Head(lines).shape = "object" => Head(lines).id \in AnswerIds
           /\ NullId \in AnswerIds
<1> DEFINE line == Head(lines)
<1>1. line \in Handling!InputLines /\ Tail(lines) \in Seq(Handling!InputLines)
  BY HeadTailProperties DEF AnsweredInv, Handling!Reading
<1>2. /\ line.shape = "object" => line.id \in AnswerIds
      /\ NullId \in AnswerIds
      /\ Handling!WantsAnswer(line) => Handling!IdOf(line) \in AnswerIds
  <2>1. line.shape = "object" => line.id \in AnswerIds
    BY <1>1 DEF AnswerIds
  <2>2. NullId \in AnswerIds
    BY DEF AnswerIds
  <2>3. line.shape \in {"blank", "garbage", "array", "object"}
    BY <1>1, DispatchConstants
  <2>4. Handling!WantsAnswer(line) /\ Handling!Invalid(line) = 0 => line.shape = "object"
    BY <2>3 DEF Handling!WantsAnswer, Handling!Invalid
  <2> QED BY <2>1, <2>2, <2>4 DEF Handling!IdOf
<1>3. /\ lineTaken' = Append(lineTaken, line) /\ called' = Append(called, handed) /\ lines' = Tail(lines)
      /\ owed' = IF Handling!WantsAnswer(line) THEN Append(owed, Handling!IdOf(line)) ELSE owed
  BY DEF Handling!Take
<1>4. /\ lineTaken \in Seq(Handling!InputLines) /\ called \in Seq(BOOLEAN) /\ owed \in Seq(AnswerIds)
      /\ Len(called) = Len(lineTaken)
  BY DEF AnsweredInv
<1> HIDE DEF line
<1>5. /\ lineTaken' \in Seq(Handling!InputLines) /\ called' \in Seq(BOOLEAN)
      /\ Len(called') = Len(lineTaken')
  BY <1>1, <1>3, <1>4, AppendProperties
<1>6. /\ Handling!WantsAnswer(line) =>
            /\ Append(owed, Handling!IdOf(line)) = owed \o <<Handling!IdOf(line)>>
            /\ Append(owed, Handling!IdOf(line)) \in Seq(AnswerIds)
      /\ owed \o <<>> = owed
  BY <1>2, <1>4, AppendIsConcat, ConcatEmptySeq, AppendProperties
<1> QED BY <1>1, <1>2, <1>3, <1>4, <1>5, <1>6 DEF line

LEMMA JudgedNext ==
    ASSUME AnsweredInv, Handling!LinesAreJudged, Handling!Reading,
           NEW handed \in BOOLEAN, Handling!Take(Head(lines), handed),
           Head(lines).shape = "object" /\ Handling!Invalid(Head(lines)) = 0 =>
              (handed <=> Handling!Allowed(Head(lines)) = 0)
    PROVE  Handling!LinesAreJudged'
<1> DEFINE line == Head(lines)
           Judged(x, c) ==
              x.shape = "object" /\ Handling!Invalid(x) = 0 =>
                 /\ c => x.method \in DOMAIN Signature
                 /\ (x.method \in DOMAIN Signature /\ ~c) => ~Handling!Proper(x) \/ Handling!Ambiguous(x)
                 /\ c => Handling!Proper(x) \/ Handling!Ambiguous(x)
<1>1. line \in Handling!InputLines /\ lineTaken' = Append(lineTaken, line) /\ called' = Append(called, handed)
  BY LineTaken DEF Handling!Take
<1>2. Judged(line, handed)
  <2>1. CASE line.shape = "object" /\ Handling!Invalid(line) = 0
    BY <1>1, <2>1, AllowedLines
  <2> QED BY <2>1
<1>3. \A k \in DOMAIN lineTaken : Judged(lineTaken[k], called[k])
  BY DEF Handling!LinesAreJudged
<1>4. /\ lineTaken \in Seq(Handling!InputLines) /\ called \in Seq(BOOLEAN)
      /\ Len(called) = Len(lineTaken) /\ DOMAIN lineTaken = 1 .. Len(lineTaken)
      /\ Len(lineTaken) \in Nat
  BY LenProperties DEF AnsweredInv
<1> HIDE DEF line
<1>5. /\ DOMAIN lineTaken' = 1 .. Len(lineTaken) + 1
      /\ lineTaken'[Len(lineTaken) + 1] = line /\ called'[Len(lineTaken) + 1] = handed
      /\ \A k \in 1 .. Len(lineTaken) : lineTaken'[k] = lineTaken[k] /\ called'[k] = called[k]
  BY <1>1, <1>4, AppendProperties, LenProperties
<1> HIDE DEF Judged
<1>6. \A k \in 1 .. Len(lineTaken) + 1 : k \in 1 .. Len(lineTaken) \/ k = Len(lineTaken) + 1
  BY <1>4
<1>7. \A k \in DOMAIN lineTaken' : Judged(lineTaken'[k], called'[k])
  BY <1>2, <1>3, <1>4, <1>5, <1>6
<1> QED BY <1>7 DEF Judged, Handling!LinesAreJudged

LEMMA LinesNext ==
    ASSUME DispatchInv, Handling!SkipBlank \/ Handling!RefuseInvalid \/ Handling!RefuseCall
    PROVE  DispatchInv'
<1> DEFINE line == Head(lines)
<1>1. /\ Handling!Reading /\ Handling!Take(line, FALSE) /\ UNCHANGED <<input, arguments, requestId, doing>>
  BY DEF Handling!SkipBlank, Handling!RefuseInvalid, Handling!RefuseCall
<1>2. /\ line \in Handling!InputLines /\ NullId \in AnswerIds
      /\ line.shape = "object" => line.id \in AnswerIds
      /\ lines' \in Seq(Handling!InputLines) /\ lineTaken' \in Seq(Handling!InputLines)
      /\ called' \in Seq(BOOLEAN) /\ Len(called') = Len(lineTaken') /\ owed' \in Seq(AnswerIds)
      /\ owed' = owed \o IF Handling!WantsAnswer(line) THEN <<Handling!IdOf(line)>> ELSE <<>>
  BY <1>1, LineTaken DEF DispatchInv
<1>3. Handling!LinesAreJudged'
  <2>1. line.shape = "object" /\ Handling!Invalid(line) = 0 => Handling!Allowed(line) # 0
    BY DEF Handling!SkipBlank, Handling!RefuseInvalid, Handling!RefuseCall
  <2> QED BY <1>1, <2>1, JudgedNext DEF DispatchInv, Handling!CallsAreChecked
<1>4. doing = "reading" /\ doing' = "reading" /\ requestId' = NullId
      /\ owed \in Seq(AnswerIds) /\ output \in Seq(Answers)
  BY <1>1 DEF Handling!Reading, DispatchInv, AnsweredInv, Handling!AnsweredInOrder
<1>5. Ids(output) = owed
  <2>1. Ids(output) \o <<>> = owed
    BY <1>4 DEF DispatchInv, AnsweredInv, Handling!AnsweredInOrder, Ids
  <2> QED BY <2>1, IdsOfAnswers, <1>4
<1>6. output' \in Seq(Answers) /\ Ids(output') = owed'
  <2>1. CASE Handling!SkipBlank
    <3>1. output' = output /\ ~Handling!WantsAnswer(line)
      BY <2>1 DEF Handling!SkipBlank, Handling!WantsAnswer
    <3>2. owed \o <<>> = owed
      BY <1>4, ConcatEmptySeq
    <3> QED BY <1>2, <1>4, <1>5, <3>1, <3>2
  <2>2. CASE Handling!RefuseInvalid
    <3>1. /\ output' = Append(output, Handling!Response(NullId, Handling!Invalid(line)))
          /\ Handling!WantsAnswer(line) /\ Handling!IdOf(line) = NullId /\ Handling!Invalid(line) \in Nat
      BY <2>2 DEF Handling!RefuseInvalid, Handling!WantsAnswer, Handling!IdOf, Handling!Invalid
    <3> HIDE DEF line
    <3> QED BY <1>2, <1>4, <1>5, <3>1, AnswerAppended
  <2>3. CASE Handling!RefuseCall
    <3>1. /\ Handling!Respond(line, Handling!Allowed(line)) /\ Handling!Allowed(line) \in Nat
          /\ Handling!WantsAnswer(line) <=> Handling!HasId(line)
          /\ Handling!IdOf(line) = line.id /\ line.id \in AnswerIds
      BY <2>3, AllowedCodes, <1>2 DEF Handling!RefuseCall, Handling!WantsAnswer, Handling!IdOf
    <3>2. owed \o <<>> = owed
      BY <1>4, ConcatEmptySeq
    <3> HIDE DEF line
    <3>3. CASE Handling!HasId(line)
      BY <1>2, <1>4, <1>5, <3>1, <3>3, AnswerAppended DEF Handling!Respond
    <3>4. CASE ~Handling!HasId(line)
      BY <1>2, <1>4, <1>5, <3>1, <3>2, <3>4 DEF Handling!Respond
    <3> QED BY <3>3, <3>4
  <2> QED BY <2>1, <2>2, <2>3
<1>7. Handling!AnsweredInOrder'
  <2>1. Ids(output') \o <<>> = owed'
    BY <1>2, <1>6, ConcatEmptySeq
  <2> QED BY <1>4, <2>1 DEF Handling!AnsweredInOrder, Ids
<1> QED BY <1>2, <1>3, <1>4, <1>6, <1>7
        DEF DispatchInv, AnsweredInv, Handling!CallsAreChecked, Handling!ArgumentsFit

(* The arguments that a method gets are those that were validated.         *)
LEMMA ArgumentsNext ==
    ASSUME AnsweredInv, Handling!Call
    PROVE  Handling!ArgumentsFit'
<1> DEFINE line == Head(lines)
           m == line.method
           given == Handling!Named(line)
<1>1. /\ Handling!Reading /\ line.shape = "object" /\ Handling!Allowed(line) = 0 /\ input' = line
      /\ arguments' = [n \in DOMAIN given |-> Handling!Validated(Handling!Parameter(m, n), given[n])]
  BY DEF Handling!Call
<1>2. line \in Handling!InputLines
  BY <1>1, HeadTailProperties DEF AnsweredInv, Handling!Reading
<1>3. /\ m \in DOMAIN Signature
      /\ Handling!Required(m) \subseteq DOMAIN given /\ DOMAIN given \subseteq Handling!Parameters(m)
      /\ \A n \in DOMAIN given : Handling!Validated(Handling!Parameter(m, n), given[n]) # Handling!Refused
  BY <1>1, <1>2, AllowedLines
<1>4. \A n \in DOMAIN given :
         Handling!Fits(Handling!Parameter(m, n), Handling!Validated(Handling!Parameter(m, n), given[n]))
  <2> SUFFICES ASSUME NEW n \in DOMAIN given
               PROVE  Handling!Fits(Handling!Parameter(m, n),
                                    Handling!Validated(Handling!Parameter(m, n), given[n]))
    OBVIOUS
  <2>1. Handling!Parameter(m, n) \in Handling!ParameterType
    BY <1>3, ParameterOf
  <2>2. given[n] \in Handling!Kinds
    BY <1>1, <1>2, GivenValues
  <2> HIDE DEF m, given
  <2> QED BY <1>3, <2>1, <2>2, ValidatedFits
<1> HIDE DEF given
<1>5. /\ DOMAIN arguments' = DOMAIN given
      /\ \A n \in DOMAIN arguments' : Handling!Fits(Handling!Parameter(m, n), arguments'[n])
  BY <1>1, <1>4
<1>6. input'.method = m
  BY <1>1
<1> HIDE DEF m
<1> QED BY <1>3, <1>5, <1>6 DEF Handling!ArgumentsFit

LEMMA CallNext == ASSUME DispatchInv, Handling!Call PROVE DispatchInv'
<1> DEFINE line == Head(lines)
<1>1. /\ Handling!Reading /\ Handling!Take(line, TRUE) /\ line.shape = "object"
      /\ Handling!Invalid(line) = 0 /\ Handling!Allowed(line) = 0
      /\ input' = line /\ doing' = "calling" /\ output' = output
  BY DEF Handling!Call
<1>2. /\ line \in Handling!InputLines
      /\ lines' \in Seq(Handling!InputLines) /\ lineTaken' \in Seq(Handling!InputLines)
      /\ called' \in Seq(BOOLEAN) /\ Len(called') = Len(lineTaken') /\ owed' \in Seq(AnswerIds)
      /\ owed' = owed \o IF Handling!WantsAnswer(line) THEN <<Handling!IdOf(line)>> ELSE <<>>
  BY <1>1, LineTaken DEF DispatchInv
<1>3. Handling!LinesAreJudged'
  BY <1>1, JudgedNext DEF DispatchInv, Handling!CallsAreChecked
<1>4. Handling!ArgumentsFit'
  BY ArgumentsNext DEF DispatchInv
<1>5. output \in Seq(Answers) /\ doing = "reading"
  BY <1>1 DEF DispatchInv, AnsweredInv, Handling!Reading
<1>6. Ids(output) = owed
  <2>1. Ids(output) \o <<>> = owed
    BY <1>5 DEF DispatchInv, AnsweredInv, Handling!AnsweredInOrder, Ids
  <2> QED BY <2>1, IdsOfAnswers, <1>5
<1> HIDE DEF line
<1>7. Handling!AnsweredInOrder'
  <2>1. Ids(output') = Ids(output)
    BY <1>1
  <2>2. Ids(output') \o (IF doing' = "calling" /\ Handling!WantsAnswer(input')
                           THEN <<Handling!IdOf(input')>> ELSE <<>>) = owed'
    BY <1>1, <1>2, <1>6, <2>1
  <2> QED BY <1>1, <2>2 DEF Handling!AnsweredInOrder, Ids
<1> QED BY <1>1, <1>2, <1>3, <1>4, <1>5, <1>7
        DEF DispatchInv, AnsweredInv, Handling!CallsAreChecked, Handling!Invalid

LEMMA ReturnNext == ASSUME DispatchInv, Handling!Return PROVE DispatchInv'
<1>1. PICK answer \in Nat : Handling!Respond(input, answer)
  <2>1. \E answer \in {0, 32601, 32800, 32603} : Handling!Respond(input, answer)
    BY DEF Handling!Return
  <2> QED BY <2>1
<1>2. /\ doing = "calling" /\ doing' = "reading" /\ requestId' = NullId /\ owed' = owed
      /\ lines' = lines /\ lineTaken' = lineTaken /\ called' = called
  BY DEF Handling!Return
<1>3. /\ input \in Handling!InputLines /\ input.shape = "object" /\ Handling!Invalid(input) = 0
      /\ output \in Seq(Answers) /\ owed \in Seq(AnswerIds)
  BY <1>2 DEF DispatchInv, AnsweredInv
<1>4. /\ input.id \in AnswerIds /\ Handling!IdOf(input) = input.id
      /\ Handling!WantsAnswer(input) <=> Handling!HasId(input)
  BY <1>3 DEF AnswerIds, Handling!IdOf, Handling!WantsAnswer
<1>5. /\ Handling!HasId(input) => Ids(output) \o <<input.id>> = owed
      /\ ~Handling!HasId(input) => Ids(output) \o <<>> = owed
  <2>1. Handling!AnsweredInOrder
    BY DEF DispatchInv, AnsweredInv
  <2>2. CASE Handling!HasId(input)
    <3>1. Handling!WantsAnswer(input)
      BY <1>4, <2>2
    <3>2. Ids(output) \o <<Handling!IdOf(input)>> = owed
      BY <1>2, <2>1, <3>1, Zenon DEF Handling!AnsweredInOrder, Ids
    <3> QED BY <1>4, <2>2, <3>2
  <2>3. CASE ~Handling!HasId(input)
    <3>1. ~Handling!WantsAnswer(input)
      BY <1>4, <2>3
    <3> QED BY <1>2, <2>1, <2>3, <3>1 DEF Handling!AnsweredInOrder, Ids
  <2> QED BY <2>2, <2>3
<1>6. output' \in Seq(Answers) /\ Ids(output') = owed
  <2>1. CASE Handling!HasId(input)
    <3>1. output' = Append(output, Handling!Response(input.id, answer)) /\ answer \in Nat
      BY <1>1, <2>1 DEF Handling!Respond
    <3>2. owed = Ids(output) \o <<input.id>>
      BY <1>5, <2>1
    <3> QED BY <1>3, <1>4, <3>1, <3>2, AnswerAppended
  <2>2. CASE ~Handling!HasId(input)
    <3>1. output' = output
      BY <1>1, <2>2 DEF Handling!Respond
    <3> QED BY <1>3, <1>5, <2>2, <3>1, IdsOfAnswers
  <2> QED BY <2>1, <2>2
<1>7. Handling!AnsweredInOrder'
  <2>1. Ids(output') \o <<>> = owed'
    BY <1>2, <1>6, IdsOfAnswers
  <2> QED BY <1>2, <2>1 DEF Handling!AnsweredInOrder, Ids
<1>8. Handling!CallsAreChecked'
  BY <1>2 DEF DispatchInv, Handling!CallsAreChecked, Handling!ArgumentsFit, Handling!LinesAreJudged
<1> QED BY <1>2, <1>6, <1>7, <1>8 DEF DispatchInv, AnsweredInv

LEMMA EndNext == ASSUME DispatchInv, Handling!End PROVE DispatchInv'
<1> USE DEF Handling!End
<1>1. doing = "reading" /\ doing' = "ended"
  OBVIOUS
<1>2. Handling!AnsweredInOrder'
  BY <1>1 DEF DispatchInv, AnsweredInv, Handling!AnsweredInOrder
<1>3. Handling!CallsAreChecked'
  BY <1>1 DEF DispatchInv, Handling!CallsAreChecked, Handling!ArgumentsFit, Handling!LinesAreJudged
<1> QED BY <1>1, <1>2, <1>3 DEF DispatchInv, AnsweredInv

LEMMA DispatchNext == ASSUME DispatchInv, Handling!Next PROVE DispatchInv'
BY LinesNext, CallNext, ReturnNext, EndNext DEF Handling!Next

LEMMA DispatchSafe == ASSUME DispatchInv PROVE Handling!LinesAreAnswered
BY DEF DispatchInv, AnsweredInv, Handling!LinesAreAnswered

-----------------------------------------------------------------------------
(* A part in which nothing changes keeps its invariant.                    *)
LEMMA SettingsStay == ASSUME SettingsInv, UNCHANGED settingsVars PROVE SettingsInv'
<1> USE DEF settingsVars
<1>1. SettingsTypeOK'
  BY DEF SettingsInv, SettingsTypeOK
<1>2. ToolsInv'
  BY DEF SettingsInv, ToolsInv
<1>3. OutputsInv'
  BY DEF SettingsInv, OutputsInv, Keeping!Contains
<1> QED BY <1>1, <1>2, <1>3 DEF SettingsInv

LEMMA InstallerStays == ASSUME InstallerInv, UNCHANGED installerVars PROVE InstallerInv'
<1> USE DEF installerVars
<1>1. InstallerTypeOK' /\ PluginInv'
  BY DEF InstallerInv, InstallerTypeOK, PluginInv
<1>2. SeenInv'
  BY DEF InstallerInv, SeenInv, Installing!File, Installing!Client
<1>3. ClientsInv'
  BY DEF InstallerInv, ClientsInv, Done
<1>4. Installing!EntriesOfOthersStay'
  BY DEF InstallerInv, Installing!EntriesOfOthersStay
<1> QED BY <1>1, <1>2, <1>3, <1>4 DEF InstallerInv

LEMMA CallingStays == ASSUME CallingInv, UNCHANGED toolsVars PROVE CallingInv'
<1> USE DEF toolsVars
<1>1. CallingTypeOK'
  BY DEF CallingInv, CallingTypeOK
<1>2. TraceInv'
  BY DEF CallingInv, TraceInv, Calling!TraceIsComplete
<1>3. ModeInv'
  BY DEF CallingInv, ModeInv
<1>4. CancelInv'
  BY DEF CallingInv, CancelInv, Calling!UnderWay, Calling!CancelsFindTheirs
<1> QED BY <1>1, <1>2, <1>3, <1>4 DEF CallingInv

LEMMA StreamsStay == ASSUME StreamsInv, UNCHANGED streamsVars PROVE StreamsInv'
BY DEF StreamsInv, streamsVars

LEMMA DispatchStays == ASSUME DispatchInv, UNCHANGED dispatchVars PROVE DispatchInv'
<1> USE DEF dispatchVars
<1>1. Handling!AnsweredInOrder'
  BY DEF DispatchInv, AnsweredInv, Handling!AnsweredInOrder
<1>2. Handling!CallsAreChecked'
  BY DEF DispatchInv, Handling!CallsAreChecked, Handling!ArgumentsFit, Handling!LinesAreJudged
<1>3. AnsweredInv'
  BY <1>1 DEF DispatchInv, AnsweredInv
<1> QED BY <1>2, <1>3 DEF DispatchInv
=============================================================================
