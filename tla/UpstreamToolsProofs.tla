------------------------- MODULE UpstreamToolsProofs ------------------------
(***************************************************************************)
(* Lemmas about the parts of UpstreamTools that list, page and change what *)
(* a database says: batches of changes, the call graph and pages, for any  *)
(* lists, batches, addresses and databases.  The theorems that rest on     *)
(* them are in UpstreamProofs.                                             *)
(***************************************************************************)
EXTENDS UpstreamTools, Sequences, FiniteSetTheorems, SequenceTheorems,
        WellFoundedInduction, TLAPS

-----------------------------------------------------------------------------
(* Batches of changes.  The items of an answer are those of the request;   *)
(* a global that was found by its name has its address there.              *)
ItemsOf(r) == {r.items[k] : k \in DOMAIN r.items}
Globals(r) == {i \in ItemsOf(r) : i.kind = "data"}
AnswersTo(r) ==
    ItemsOf(r) \cup {[i EXCEPT !.at = e] : i \in Globals(r), e \in Editing!Addrs}
Answered == UNION {AnswersTo(r) : r \in EditBatches}

BatchTypes ==
    /\ req \in EditBatches
    /\ todo \in Seq(ItemsOf(req))
    /\ results \in Seq([item : Answered, ok : BOOLEAN])
DatabaseTypes ==
    /\ names \in [Editing!Addrs -> Identifiers \cup {Editing!NoName, Editing!Numbered}]
    /\ DOMAIN locals = Funcs /\ DOMAIN frame = Funcs /\ DOMAIN types = Editing!Addrs
    /\ DOMAIN enums = Enums
    /\ \A e \in Enums : enums[e] = [is |-> enums[e].is, bitfield |-> enums[e].bitfield,
                                    members |-> enums[e].members]
    /\ comments \in [Editing!Addrs -> [func : Seq(Lines), line : Seq(Lines)]]
EditsTypes == BatchTypes /\ DatabaseTypes

(* Items wait in their order, unless an error ended the batch.             *)
BatchGoesOn ==
    /\ \/ Len(results) + Len(todo) = Len(req.items)
       \/ todo = <<>> /\ results # <<>> /\ ~results[Len(results)].ok
    /\ req.stop => \A k \in 1..Len(results) :
          results[k].ok \/ (k = Len(results) /\ todo = <<>>)

DryRunsLeaveAll == req.dry => Editing!Now = beforeBatch

(* What was done is at a place of the database.                            *)
Placed(i) ==
    /\ i.kind \in {"func", "data", "type", "comment"} => i.at \in Editing!Addrs
    /\ i.kind \in {"local", "stack"} => i.at \in Funcs
    /\ i.kind \in {"enum", "member"} => i.at \in Enums
DoneOrRedone(k) ==
    results[k].ok =>
       \/ Placed(results[k].item) /\ Editing!Done(results[k].item)
       \/ \E l \in (k + 1)..Len(results) : Editing!SameMark(results[k].item, results[l].item)
AllDoneOrRedone ==
    ~req.dry /\ ~req.overwrite => \A k \in 1..Len(results) : DoneOrRedone(k)

CommentsComeOnce ==
    (\A k \in DOMAIN req.items : req.items[k].kind = "comment" => req.items[k].dedupe) =>
       \A e \in Editing!Addrs :
          /\ Editing!IsInjective(comments[e].func)
          /\ Editing!IsInjective(comments[e].line)
EnumsOnlyGrow ==
    \A e \in Enums : \A m \in DOMAIN beforeBatch.enums[e].members :
       Editing!IsMember(e, m, beforeBatch.enums[e].members[m])
MembersAreUnique ==
    /\ \A d, e \in Enums : d # e =>
          DOMAIN Editing!MembersOf(d) \cap DOMAIN Editing!MembersOf(e) = {}
    /\ \A e \in Enums : Editing!IsInjective(Editing!MembersOf(e))
NamesAreUnique ==
    \A d, e \in Editing!Addrs :
       names[d] = names[e] => d = e \/ names[d] \in {Editing!NoName, Editing!Numbered}

EditsInv ==
    /\ EditsTypes /\ BatchGoesOn /\ DryRunsLeaveAll /\ AllDoneOrRedone
    /\ CommentsComeOnce /\ EnumsOnlyGrow /\ MembersAreUnique /\ NamesAreUnique

LEMMA EditsSafe == ASSUME EditsInv PROVE Editing!EditsAreTold
<1>1. Editing!ResultsTellTheTruth
  <2>1. DOMAIN results = 1..Len(results) /\ Len(results) \in Nat /\ Len(todo) \in Nat
    BY DEF EditsInv, EditsTypes, BatchTypes
  <2>2. req.stop => \A k \in 1..(Len(results) - 1) : results[k].ok
    <3>1. SUFFICES ASSUME req.stop, NEW k \in 1..(Len(results) - 1) PROVE results[k].ok
      OBVIOUS
    <3>3. Len(results) \in Nat
      BY <2>1
    <3>2. k \in 1..Len(results) /\ k # Len(results)
      BY <3>3
    <3> QED BY <3>1, <3>2, Zenon DEF EditsInv, BatchGoesOn
  <2>3. todo = <<>> => Len(todo) = 0
    OBVIOUS
  <2>4. ASSUME todo = <<>>, Len(results) < Len(req.items) PROVE ~Editing!Last(results).ok
    <3>1. Len(todo) = 0 /\ Len(results) \in Nat
      BY <2>1, <2>3, <2>4
    <3>2. Len(results) + Len(todo) # Len(req.items)
      BY <3>1, <2>4
    <3> QED BY <3>2, Zenon DEF EditsInv, BatchGoesOn, Editing!Last
  <2> QED
    BY <2>1, <2>2, <2>4
    DEF EditsInv, DryRunsLeaveAll, AllDoneOrRedone, DoneOrRedone, Editing!ResultsTellTheTruth
<1>2. Editing!RepeatsDoNoHarm
  BY DEF EditsInv, CommentsComeOnce, EnumsOnlyGrow, MembersAreUnique, NamesAreUnique,
     Editing!RepeatsDoNoHarm
<1> QED BY <1>1, <1>2 DEF Editing!EditsAreTold
LEMMA EditsConstants ==
    /\ Editing!NoName \notin Identifiers /\ Editing!Numbered \notin Identifiers
    /\ Editing!NoName # Editing!Numbered
    /\ \A r \in EditBatches :
          /\ r.items \in Seq(ItemsOf(r)) /\ Len(r.items) \in Nat
          /\ \A i \in ItemsOf(r) :
                /\ i.kind \in Editing!Kinds
                /\ r.dry \/ r.overwrite => i.kind \in Editing!Renames
                /\ r.stop => i.kind \in Editing!Renames \cup {"type"}
                /\ i.kind \in Editing!Renames =>
                      /\ i = [kind |-> i.kind, at |-> i.at, old |-> i.old, new |-> i.new]
                      /\ i.new \in Identifiers
                /\ i.kind \in {"enum", "member"} => i.at \in Enums
                /\ i.kind = "comment" => i.new \in Lines
<1>1. Editing!EditsAssumption
  BY ToolsAssumption
<1>2. \A r \in EditBatches : r.items \in Seq(ItemsOf(r))
  BY <1>1 DEF Editing!EditsAssumption, ItemsOf
<1>3. ASSUME NEW r \in EditBatches, NEW i \in ItemsOf(r)
      PROVE  /\ i.kind \in Editing!Kinds
             /\ r.dry \/ r.overwrite => i.kind \in Editing!Renames
             /\ r.stop => i.kind \in Editing!Renames \cup {"type"}
             /\ i.kind \in Editing!Renames =>
                   /\ i = [kind |-> i.kind, at |-> i.at, old |-> i.old, new |-> i.new]
                   /\ i.new \in Identifiers
             /\ i.kind \in {"enum", "member"} => i.at \in Enums
             /\ i.kind = "comment" => i.new \in Lines
  <2>1. PICK k \in DOMAIN r.items : i = r.items[k]
    BY DEF ItemsOf
  <2> QED BY <1>1, <2>1, Zenon DEF Editing!EditsAssumption
<1>4. \A r \in EditBatches : Len(r.items) \in Nat
  BY <1>2
<1>5. /\ Editing!NoName \notin Identifiers /\ Editing!Numbered \notin Identifiers
      /\ Editing!NoName # Editing!Numbered
  BY <1>1 DEF Editing!EditsAssumption, Editing!NoName, Editing!Numbered
<1> QED BY <1>2, <1>3, <1>4, <1>5

LEMMA AnsweredKinds == \A x \in Answered : x.kind \in Editing!Kinds
<1>1. SUFFICES ASSUME NEW x \in Answered PROVE x.kind \in Editing!Kinds
  OBVIOUS
<1>2. \/ \E r \in EditBatches : x \in ItemsOf(r)
      \/ \E r \in EditBatches : \E i \in Globals(r) : \E e \in Editing!Addrs : x = [i EXCEPT !.at = e]
  <2>1. PICK r \in EditBatches : x \in AnswersTo(r)
    BY <1>1 DEF Answered
  <2> QED BY <2>1 DEF AnswersTo
<1>3. CASE \E r \in EditBatches : x \in ItemsOf(r)
  BY <1>3, EditsConstants, Zenon
<1>4. ASSUME NEW r \in EditBatches, NEW i \in Globals(r), NEW e \in Editing!Addrs, x = [i EXCEPT !.at = e]
      PROVE  x.kind \in Editing!Kinds
  <2>1. i.kind = "data" /\ i = [kind |-> i.kind, at |-> i.at, old |-> i.old, new |-> i.new]
    BY EditsConstants, Zenon DEF Globals, Editing!Renames
  <2> QED BY <1>4, <2>1 DEF Editing!Kinds, Editing!Renames
<1> QED BY <1>2, <1>3, <1>4

LEMMA EditsInit == ASSUME Editing!Init PROVE EditsInv
<1>1. EditsTypes
  BY EditsConstants DEF Editing!Init, EditsTypes, BatchTypes, DatabaseTypes, Editing!NoEnum
<1>2. Len(todo) = Len(req.items) /\ Len(results) = 0 /\ Len(req.items) \in Nat
  BY EditsConstants DEF Editing!Init
<1>3. BatchGoesOn /\ AllDoneOrRedone
  BY <1>2 DEF BatchGoesOn, AllDoneOrRedone
<1>4. DryRunsLeaveAll
  BY DEF Editing!Init, DryRunsLeaveAll
<1>5. CommentsComeOnce
  BY DEF Editing!Init, CommentsComeOnce, Editing!IsInjective
<1>6. EnumsOnlyGrow /\ MembersAreUnique
  <2>1. \A e \in Enums : enums[e].members = <<>>
    BY DEF Editing!Init, Editing!NoEnum
  <2>2. beforeBatch.enums = enums
    BY DEF Editing!Init, Editing!Now
  <2> QED BY <2>1, <2>2 DEF EnumsOnlyGrow, MembersAreUnique, Editing!IsMember, Editing!MembersOf,
       Editing!IsInjective
<1>7. NamesAreUnique
  BY DEF Editing!Init, NamesAreUnique
<1> QED BY <1>1, <1>3, <1>4, <1>5, <1>6, <1>7 DEF EditsInv

LEMMA EditsStay == ASSUME EditsInv, UNCHANGED editsVars PROVE EditsInv'
<1>1. /\ names' = names /\ locals' = locals /\ frame' = frame /\ types' = types
      /\ enums' = enums /\ comments' = comments /\ beforeBatch' = beforeBatch
  BY DEF editsVars
<1>2. req' = req /\ todo' = todo /\ results' = results
  BY DEF editsVars
<1>3. BatchTypes'
  BY <1>2 DEF EditsInv, EditsTypes, BatchTypes
<1>4. DatabaseTypes'
  BY <1>1 DEF EditsInv, EditsTypes, DatabaseTypes
<1>5. BatchGoesOn'
  BY <1>2 DEF EditsInv, BatchGoesOn
<1>6. DryRunsLeaveAll'
  BY <1>1, <1>2 DEF EditsInv, DryRunsLeaveAll, Editing!Now
<1>7. AllDoneOrRedone'
  BY <1>1, <1>2 DEF EditsInv, AllDoneOrRedone, DoneOrRedone, Editing!Done, Editing!IsMember,
     Editing!MembersOf
<1>8. CommentsComeOnce'
  BY <1>1, <1>2 DEF EditsInv, CommentsComeOnce
<1>9. EnumsOnlyGrow'
  BY <1>1 DEF EditsInv, EnumsOnlyGrow, Editing!IsMember, Editing!MembersOf
<1>10. MembersAreUnique' /\ NamesAreUnique'
  BY <1>1 DEF EditsInv, MembersAreUnique, NamesAreUnique, Editing!MembersOf
<1> QED BY <1>3, <1>4, <1>5, <1>6, <1>7, <1>8, <1>9, <1>10 DEF EditsInv, EditsTypes

(* What a step of a batch comes to: the answer of an item, and marks that  *)
(* stay unless the item is to leave the same ones.                         *)
AnswerIs(j, ok) ==
    /\ results' = Append(results, [item |-> j, ok |-> ok])
    /\ UNCHANGED <<req, beforeBatch>>
    /\ \/ todo' = Tail(todo) /\ (ok \/ ~req.stop)
       \/ todo' = <<>> /\ ~ok
MarksStay(j, ok) ==
    ~req.dry /\ ~req.overwrite =>
       /\ \A x \in Answered :
             Placed(x) /\ Editing!Done(x) => Editing!Done(x)' \/ Editing!SameMark(x, j)
       /\ ok => Placed(j) /\ Editing!Done(j)'

LEMMA AnswerNext ==
    ASSUME EditsInv, todo # <<>>, NEW j \in Answered, NEW ok \in BOOLEAN, AnswerIs(j, ok)
    PROVE  /\ BatchTypes' /\ BatchGoesOn' /\ Len(results) \in Nat
           /\ Len(results') = Len(results) + 1
           /\ \A k \in 1..Len(results) : results'[k] = results[k]
           /\ results'[Len(results) + 1] = [item |-> j, ok |-> ok]
<1> DEFINE A == [item : Answered, ok : BOOLEAN]
           S == ItemsOf(req)
<1>1. /\ todo \in Seq(S) /\ results \in Seq(A) /\ req \in EditBatches
  BY DEF EditsInv, EditsTypes, BatchTypes
<1>2. [item |-> j, ok |-> ok] \in A
  OBVIOUS
<1> HIDE DEF A, S
<1>3. /\ Len(results) \in Nat
      /\ results' \in Seq(A) /\ Len(results') = Len(results) + 1
      /\ \A k \in 1..Len(results) : results'[k] = results[k]
      /\ results'[Len(results) + 1] = [item |-> j, ok |-> ok]
  BY <1>1, <1>2 DEF AnswerIs
<1>4. /\ Len(todo) \in Nat /\ Len(todo) > 0
      /\ Tail(todo) \in Seq(S) /\ Len(Tail(todo)) = Len(todo) - 1
  BY <1>1
<1>5. todo' \in Seq(S)
  <2>1. <<>> \in Seq(S)
    OBVIOUS
  <2> QED BY <2>1, <1>4, Zenon DEF AnswerIs
<1>6. BatchTypes'
  BY <1>1, <1>3, <1>5 DEF BatchTypes, AnswerIs, A, S
<1>7. Len(results) + Len(todo) = Len(req.items)
  BY Zenon DEF EditsInv, BatchGoesOn
<1>8. results' # <<>>
  BY <1>3
<1>9. CASE todo' = Tail(todo) /\ (ok \/ ~req.stop)
  <2>1. Len(results') + Len(todo') = Len(req.items)
    <3>1. Len(results) \in Nat /\ Len(results') = Len(results) + 1 /\ todo' = Tail(todo)
      BY <1>3, <1>9
    <3> QED BY <3>1, <1>4, <1>7
  <2>2. ASSUME req.stop, NEW k \in 1..Len(results') PROVE results'[k].ok
    <3>1. CASE k = Len(results) + 1
      BY <3>1, <1>3, <1>9, <2>2
    <3>2. CASE k # Len(results) + 1
      <4>1. k \in 1..Len(results)
        BY <3>2, <1>3
      <4>2. results[k].ok
        BY <4>1, <2>2, Zenon DEF EditsInv, BatchGoesOn
      <4>3. results'[k] = results[k]
        BY <4>1, <1>3
      <4> QED BY <4>2, <4>3
    <3> QED BY <3>1, <3>2
  <2>3. BatchGoesOn'
    BY <2>1, <2>2, Zenon DEF BatchGoesOn, AnswerIs
  <2> QED BY <2>3, <1>3, <1>6, Zenon
<1>10. CASE todo' = <<>> /\ ~ok
  <2>1. ~results'[Len(results')].ok
    BY <1>3, <1>10
  <2>2. ASSUME req.stop, NEW k \in 1..Len(results'), k # Len(results') PROVE results'[k].ok
    <3>1. k \in 1..Len(results)
      BY <2>2, <1>3
    <3>2. results[k].ok
      BY <3>1, <2>2, Zenon DEF EditsInv, BatchGoesOn
    <3>3. results'[k] = results[k]
      BY <3>1, <1>3
    <3> QED BY <3>2, <3>3
  <2>3. BatchGoesOn'
    BY <2>1, <2>2, <1>8, <1>10, Zenon DEF BatchGoesOn, AnswerIs
  <2> QED BY <2>3, <1>3, <1>6, Zenon
<1> QED BY <1>3, <1>6, <1>9, <1>10 DEF AnswerIs

LEMMA MarksNext ==
    ASSUME EditsInv, todo # <<>>, NEW j \in Answered, NEW ok \in BOOLEAN, AnswerIs(j, ok),
           MarksStay(j, ok)
    PROVE  AllDoneOrRedone'
<1>1. /\ Len(results) \in Nat /\ Len(results') = Len(results) + 1
      /\ \A k \in 1..Len(results) : results'[k] = results[k]
      /\ results'[Len(results) + 1] = [item |-> j, ok |-> ok]
  BY AnswerNext
<1>2. req' = req
  BY DEF AnswerIs
<1>3. SUFFICES ASSUME ~req.dry, ~req.overwrite, NEW k \in 1..Len(results') PROVE DoneOrRedone(k)'
  BY <1>2, Zenon DEF AllDoneOrRedone
<1>4. CASE k = Len(results) + 1
  <2>1. results'[k] = [item |-> j, ok |-> ok]
    BY <1>1, <1>4
  <2>2. results'[k].item = j /\ results'[k].ok = ok
    BY <2>1
  <2>3. ok => Placed(j) /\ Editing!Done(j)'
    BY <1>3, Zenon DEF MarksStay
  <2>4. Placed(j) /\ Editing!Done(j)' /\ results'[k].item = j =>
           (Placed(results[k].item) /\ Editing!Done(results[k].item))'
    BY DEF Placed, Editing!Done, Editing!IsMember, Editing!MembersOf
  <2> QED BY <2>2, <2>3, <2>4, Zenon DEF DoneOrRedone
<1>5. CASE k # Len(results) + 1
  <2>1. k \in 1..Len(results) /\ Len(results') \in (k + 1)..Len(results')
    BY <1>1, <1>5
  <2>2. results'[k] = results[k] /\ results[k] \in [item : Answered, ok : BOOLEAN]
    <3> DEFINE A == [item : Answered, ok : BOOLEAN]
    <3>1. results \in Seq(A)
      BY DEF EditsInv, EditsTypes, BatchTypes
    <3> HIDE DEF A
    <3>2. results[k] \in A
      BY <3>1, <2>1
    <3> QED BY <3>2, <1>1, <2>1 DEF A
  <2> DEFINE x == results[k].item
  <2>3. x \in Answered /\ results'[k].item = x
    BY <2>2
  <2>4. DoneOrRedone(k)
    BY <1>3, <2>1, Zenon DEF EditsInv, AllDoneOrRedone
  <2>5. results'[Len(results')].item = j
    BY <1>1
  <2>6. CASE ~results[k].ok
    BY <2>6, <2>2 DEF DoneOrRedone
  <2>7. CASE Placed(x) /\ Editing!Done(x)
    <3>1. \/ Editing!SameMark(x, j)
          \/ (Placed(results[k].item) /\ Editing!Done(results[k].item))'
      <4>1. \A y \in Answered : y = x => \/ Editing!Done(y)' \/ Editing!SameMark(x, j)
        BY <2>7, <1>3, Zenon DEF MarksStay
      <4>2. PICK y \in Answered : y = x
        BY <2>3
      <4>3. Placed(y) /\ Editing!Done(y)' /\ y = results'[k].item =>
              (Placed(results[k].item) /\ Editing!Done(results[k].item))'
        BY DEF Placed, Editing!Done, Editing!IsMember, Editing!MembersOf
      <4> QED BY <4>1, <4>2, <4>3, <2>3, <2>7, Zenon
    <3>2. Editing!SameMark(x, j) => Editing!SameMark(results[k].item, results[Len(results)].item)'
      BY <2>3, <2>5, Zenon DEF Editing!SameMark
    <3> QED BY <3>1, <3>2, <2>1, Zenon DEF DoneOrRedone
  <2>8. CASE \E l \in (k + 1)..Len(results) : Editing!SameMark(results[k].item, results[l].item)
    <3>1. PICK l \in (k + 1)..Len(results) : Editing!SameMark(results[k].item, results[l].item)
      BY <2>8
    <3>2. l \in (k + 1)..Len(results') /\ l \in 1..Len(results)
      BY <1>1, <2>1
    <3>3. results'[l] = results[l]
      BY <3>2, <1>1
    <3>4. Editing!SameMark(results[k].item, results[l].item)'
      BY <3>1, <3>3, <2>2 DEF Editing!SameMark
    <3> QED BY <3>2, <3>4, Zenon DEF DoneOrRedone
  <2> QED BY <2>4, <2>6, <2>7, <2>8, Zenon DEF DoneOrRedone
<1> QED BY <1>4, <1>5

LEMMA LeaveAll ==
    ASSUME EditsInv, todo # <<>>, NEW j \in Answered, NEW ok \in BOOLEAN, AnswerIs(j, ok),
           UNCHANGED Editing!db,
           ok /\ ~req.dry /\ ~req.overwrite => Placed(j) /\ Editing!Done(j)
    PROVE  EditsInv'
<1>1. /\ names' = names /\ locals' = locals /\ frame' = frame /\ types' = types
      /\ enums' = enums /\ comments' = comments /\ req' = req /\ beforeBatch' = beforeBatch
  BY DEF Editing!db, AnswerIs
<1>2. \A x : Editing!Done(x)' <=> Editing!Done(x)
  BY <1>1 DEF Editing!Done, Editing!IsMember, Editing!MembersOf
<1>3. MarksStay(j, ok)
  BY <1>2, Zenon DEF MarksStay
<1>4. BatchTypes' /\ BatchGoesOn' /\ AllDoneOrRedone'
  BY <1>3, AnswerNext, MarksNext
<1>5. DatabaseTypes'
  BY <1>1 DEF EditsInv, EditsTypes, DatabaseTypes
<1>6. DryRunsLeaveAll'
  BY <1>1 DEF EditsInv, DryRunsLeaveAll, Editing!Now
<1>7. CommentsComeOnce' /\ NamesAreUnique'
  BY <1>1 DEF EditsInv, CommentsComeOnce, NamesAreUnique
<1>8. EnumsOnlyGrow' /\ MembersAreUnique'
  BY <1>1 DEF EditsInv, EnumsOnlyGrow, MembersAreUnique, Editing!IsMember, Editing!MembersOf
<1> QED BY <1>4, <1>5, <1>6, <1>7, <1>8 DEF EditsInv, EditsTypes

LEMMA ChangeNext ==
    ASSUME EditsInv, todo # <<>>, NEW j \in Answered, AnswerIs(j, TRUE), ~req.dry,
           DatabaseTypes', MarksStay(j, TRUE), CommentsComeOnce', EnumsOnlyGrow',
           MembersAreUnique', NamesAreUnique'
    PROVE  EditsInv'
<1>1. BatchTypes' /\ BatchGoesOn' /\ AllDoneOrRedone'
  BY AnswerNext, MarksNext
<1>2. DryRunsLeaveAll'
  BY DEF DryRunsLeaveAll, AnswerIs
<1> QED BY <1>1, <1>2 DEF EditsInv, EditsTypes

(* The item at the head of a batch, and the answer to it.                  *)
LEMMA HeadOfBatch ==
    ASSUME EditsInv, todo # <<>>
    PROVE  LET i == Head(todo) IN
           /\ i \in ItemsOf(req) /\ i \in Answered
           /\ i.kind = "data" => \A e \in Editing!Addrs : [i EXCEPT !.at = e] \in Answered
           /\ i.kind \in Editing!Kinds
           /\ req.dry \/ req.overwrite => i.kind \in Editing!Renames
           /\ i.kind \in Editing!Renames =>
                 /\ i = [kind |-> i.kind, at |-> i.at, old |-> i.old, new |-> i.new]
                 /\ i.new \in Identifiers
           /\ i.kind \in {"enum", "member"} => i.at \in Enums
           /\ i.kind = "comment" => i.new \in Lines
<1> DEFINE i == Head(todo)
<1>1. req \in EditBatches /\ i \in ItemsOf(req)
  BY DEF EditsInv, EditsTypes, BatchTypes
<1> HIDE DEF i
<1>2. /\ i \in Answered
      /\ i.kind = "data" => \A e \in Editing!Addrs : [i EXCEPT !.at = e] \in Answered
  <2>0. \A x \in AnswersTo(req) : x \in Answered
    BY <1>1 DEF Answered
  <2>1. i \in Answered
    BY <1>1, <2>0 DEF AnswersTo
  <2>2. ASSUME i.kind = "data", NEW e \in Editing!Addrs PROVE [i EXCEPT !.at = e] \in Answered
    <3>1. i \in Globals(req)
      BY <1>1, <2>2 DEF Globals
    <3>2. [i EXCEPT !.at = e] \in AnswersTo(req)
      BY <3>1 DEF AnswersTo
    <3> QED BY <3>2, <2>0
  <2> QED BY <2>1, <2>2
<1>3. /\ i.kind \in Editing!Kinds
      /\ req.dry \/ req.overwrite => i.kind \in Editing!Renames
      /\ i.kind \in Editing!Renames =>
            /\ i = [kind |-> i.kind, at |-> i.at, old |-> i.old, new |-> i.new]
            /\ i.new \in Identifiers
      /\ i.kind \in {"enum", "member"} => i.at \in Enums
      /\ i.kind = "comment" => i.new \in Lines
  BY <1>1, EditsConstants, Zenon
<1> QED BY <1>1, <1>2, <1>3 DEF i

LEMMA AnswersOfBatch ==
    ASSUME NEW i, UNCHANGED <<req, beforeBatch>>
    PROVE  /\ Editing!Succeed(i) => AnswerIs(i, TRUE)
           /\ Editing!Fail(i) => AnswerIs(i, FALSE)
BY DEF Editing!Succeed, Editing!Fail, Editing!Result, AnswerIs

LEMMA FailNext ==
    ASSUME EditsInv, todo # <<>>, NEW i, i = Head(todo), Editing!Fail(i),
           UNCHANGED <<req, beforeBatch>>
    PROVE  EditsInv'
<1>1. i \in Answered
  BY HeadOfBatch
<1>2. AnswerIs(i, FALSE) /\ UNCHANGED Editing!db
  BY AnswersOfBatch DEF Editing!Fail
<1> QED BY <1>1, <1>2, LeaveAll

(* A name goes to one address, unless it is forced upon a second.          *)
LEMMA SetNameNext ==
    ASSUME EditsInv, todo # <<>>, NEW j \in Answered, j.kind \in {"func", "data"},
           j.at \in Editing!Addrs, j.new \in Identifiers, ~req.dry,
           ~Editing!Conflict(j.at, j.new), Editing!SetName(j.at, j.new), AnswerIs(j, TRUE),
           UNCHANGED <<locals, frame, types, enums, comments>>
    PROVE  EditsInv'
<1> DEFINE n == Editing!Named(j.at, j.new)
<1>1. names \in [Editing!Addrs -> Identifiers \cup {Editing!NoName, Editing!Numbered}]
  BY DEF EditsInv, EditsTypes, DatabaseTypes
<1>2. n = j.new \/ n = Editing!Numbered
  BY DEF Editing!Named
<1>3. n # Editing!Numbered => \A e \in Editing!Addrs \ {j.at} : names[e] # n
  BY <1>2 DEF Editing!Named
<1>4. ~req.overwrite => n = j.new
  BY DEF Editing!Named, Editing!Conflict
<1>5. names' = [names EXCEPT ![j.at] = n]
  BY DEF Editing!SetName
<1> HIDE DEF n
<1>6. /\ names' \in [Editing!Addrs -> Identifiers \cup {Editing!NoName, Editing!Numbered}]
      /\ names'[j.at] = n
      /\ \A e \in Editing!Addrs : e # j.at => names'[e] = names[e]
  BY <1>1, <1>2, <1>5
<1>7. DatabaseTypes'
  BY <1>6 DEF EditsInv, EditsTypes, DatabaseTypes
<1>8. NamesAreUnique'
  BY <1>3, <1>6 DEF EditsInv, NamesAreUnique
<1>9. MarksStay(j, TRUE)
  <2>1. SUFFICES ASSUME ~req.overwrite
                 PROVE  /\ \A x \in Answered : Placed(x) /\ Editing!Done(x) =>
                              Editing!Done(x)' \/ Editing!SameMark(x, j)
                        /\ Placed(j) /\ Editing!Done(j)'
    BY DEF MarksStay
  <2>2. Placed(j) /\ Editing!Done(j)'
    BY <1>4, <1>6, <2>1 DEF Placed, Editing!Done
  <2>3. ASSUME NEW x \in Answered, Placed(x), Editing!Done(x), ~Editing!SameMark(x, j)
        PROVE  Editing!Done(x)'
    <3>1. CASE x.kind \in {"func", "data"}
      BY <3>1, <2>3, <1>6 DEF Placed, Editing!Done, Editing!SameMark
    <3>2. CASE x.kind \notin {"func", "data"}
      BY <3>2, <2>3, AnsweredKinds
         DEF Editing!Kinds, Editing!Renames, Editing!Done, Editing!IsMember, Editing!MembersOf
    <3> QED BY <3>1, <3>2
  <2> QED BY <2>2, <2>3
<1>10. CommentsComeOnce'
  BY DEF EditsInv, CommentsComeOnce, AnswerIs
<1>11. EnumsOnlyGrow' /\ MembersAreUnique'
  BY DEF EditsInv, EnumsOnlyGrow, MembersAreUnique, Editing!IsMember, Editing!MembersOf, AnswerIs
<1> QED BY <1>7, <1>8, <1>9, <1>10, <1>11, ChangeNext

LEMMA RenameFuncNext ==
    ASSUME EditsInv, todo # <<>>, NEW i, i = Head(todo), UNCHANGED <<req, beforeBatch>>,
           Editing!RenameFunc(i)
    PROVE  EditsInv'
<1>1. CASE Editing!Fail(i)
  BY <1>1, FailNext
<1>2. CASE ~Editing!Fail(i)
  <2>1. /\ i.kind = "func" /\ i.at \in Funcs /\ ~Editing!Conflict(i.at, i.new)
        /\ req.dry => UNCHANGED <<names, vibe>>
        /\ ~req.dry => Editing!SetName(i.at, i.new)
        /\ Editing!Succeed(i)
        /\ UNCHANGED <<locals, frame, types, enums, comments>>
    BY <1>2 DEF Editing!RenameFunc
  <2>2. AnswerIs(i, TRUE) /\ i \in Answered /\ i.new \in Identifiers
    BY <2>1, AnswersOfBatch, HeadOfBatch DEF Editing!Renames
  <2>3. CASE req.dry
    BY <2>1, <2>2, <2>3, LeaveAll DEF Editing!db
  <2>4. CASE ~req.dry
    <3>1. i.at \in Editing!Addrs
      BY <2>1 DEF Editing!Addrs
    <3> QED BY <2>1, <2>2, <2>4, <3>1, SetNameNext
  <2> QED BY <2>3, <2>4
<1> QED BY <1>1, <1>2

LEMMA RenameGlobalNext ==
    ASSUME EditsInv, todo # <<>>, NEW i, i = Head(todo), UNCHANGED <<req, beforeBatch>>,
           Editing!RenameGlobal(i)
    PROVE  EditsInv'
<1>1. CASE Editing!Fail(i)
  BY <1>1, FailNext
<1>2. CASE ~Editing!Fail(i)
  <2>1. PICK ea \in Editing!Target(i) :
          /\ ~Editing!Conflict(ea, i.new)
          /\ req.dry => UNCHANGED names
          /\ ~req.dry => ea \in Editing!Addrs /\ Editing!SetName(ea, i.new)
          /\ Editing!Succeed([i EXCEPT !.at = ea])
          /\ UNCHANGED <<vibe, locals, frame, types, enums, comments>>
    BY <1>2 DEF Editing!RenameGlobal
  <2>2. /\ i.kind = "data" /\ i \in Answered /\ i.new \in Identifiers
        /\ i = [kind |-> i.kind, at |-> i.at, old |-> i.old, new |-> i.new]
        /\ \A e \in Editing!Addrs : [i EXCEPT !.at = e] \in Answered
    BY HeadOfBatch DEF Editing!RenameGlobal, Editing!Renames
  <2> DEFINE j == [i EXCEPT !.at = ea]
  <2>3. j.kind = "data" /\ j.at = ea /\ j.new = i.new
    BY <2>2
  <2>4. j \in Answered
    <3>1. CASE ea = i.at
      <4>1. j = i
        BY <2>2, <3>1
      <4> QED BY <4>1, <2>2
    <3>2. CASE ea \in Editing!Addrs
      BY <3>2, <2>2
    <3> QED BY <3>1, <3>2 DEF Editing!Target
  <2>5. AnswerIs(j, TRUE)
    BY <2>1, AnswersOfBatch
  <2> HIDE DEF j
  <2>6. CASE req.dry
    BY <2>1, <2>4, <2>5, <2>6, LeaveAll DEF Editing!db
  <2>7. CASE ~req.dry
    BY <2>1, <2>2, <2>3, <2>4, <2>5, <2>7, SetNameNext
  <2> QED BY <2>6, <2>7
<1> QED BY <1>1, <1>2

(* A variable that has another name loses the one it had.                  *)
LEMMA RenameLocalNext ==
    ASSUME EditsInv, todo # <<>>, NEW i, i = Head(todo), UNCHANGED <<req, beforeBatch>>,
           Editing!RenameLocal(i)
    PROVE  EditsInv'
<1>1. CASE Editing!Fail(i)
  BY <1>1, FailNext
<1>2. CASE ~Editing!Fail(i)
  <2>1. /\ i.kind = "local" /\ i.at \in Funcs
        /\ req.dry => UNCHANGED locals
        /\ ~req.dry => locals' = [locals EXCEPT ![i.at] = Editing!Renamed(@, i.old, i.new)]
        /\ Editing!Succeed(i)
        /\ UNCHANGED <<names, vibe, frame, types, enums, comments>>
    BY <1>2 DEF Editing!RenameLocal
  <2>2. AnswerIs(i, TRUE) /\ i \in Answered
    BY <2>1, AnswersOfBatch, HeadOfBatch
  <2>3. CASE req.dry
    BY <2>1, <2>2, <2>3, LeaveAll DEF Editing!db
  <2>4. CASE ~req.dry
    <3>1. /\ DOMAIN locals' = Funcs
          /\ locals'[i.at] = (locals[i.at] \ {i.old}) \cup {i.new}
          /\ \A f \in Funcs : f # i.at => locals'[f] = locals[f]
      BY <2>1, <2>4 DEF EditsInv, EditsTypes, DatabaseTypes, Editing!Renamed
    <3>2. DatabaseTypes'
      BY <2>1, <3>1 DEF EditsInv, EditsTypes, DatabaseTypes
    <3>3. MarksStay(i, TRUE)
      <4>1. Placed(i) /\ Editing!Done(i)'
        BY <2>1, <3>1 DEF Placed, Editing!Done
      <4>2. ASSUME NEW x \in Answered, Placed(x), Editing!Done(x), ~Editing!SameMark(x, i)
            PROVE  Editing!Done(x)'
        <5>1. CASE x.kind = "local"
          BY <2>1, <4>2, <5>1, <3>1 DEF Placed, Editing!Done, Editing!SameMark
        <5>2. CASE x.kind # "local"
          BY <2>1, <4>2, <5>2, AnsweredKinds
             DEF Editing!Kinds, Editing!Renames, Editing!Done, Editing!IsMember, Editing!MembersOf
        <5> QED BY <5>1, <5>2
      <4> QED BY <4>1, <4>2 DEF MarksStay
    <3>4. CommentsComeOnce' /\ NamesAreUnique'
      BY <2>1 DEF EditsInv, CommentsComeOnce, NamesAreUnique
    <3>5. EnumsOnlyGrow' /\ MembersAreUnique'
      BY <2>1 DEF EditsInv, EnumsOnlyGrow, MembersAreUnique, Editing!IsMember, Editing!MembersOf
    <3> QED BY <2>2, <2>4, <3>2, <3>3, <3>4, <3>5, ChangeNext
  <2> QED BY <2>3, <2>4
<1> QED BY <1>1, <1>2

LEMMA RenameStackNext ==
    ASSUME EditsInv, todo # <<>>, NEW i, i = Head(todo), UNCHANGED <<req, beforeBatch>>,
           Editing!RenameStack(i)
    PROVE  EditsInv'
<1>1. CASE Editing!Fail(i)
  BY <1>1, FailNext
<1>2. CASE ~Editing!Fail(i)
  <2>1. /\ i.kind = "stack" /\ i.at \in Funcs
        /\ req.dry => UNCHANGED frame
        /\ ~req.dry => frame' = [frame EXCEPT ![i.at] = Editing!Renamed(@, i.old, i.new)]
        /\ Editing!Succeed(i)
        /\ UNCHANGED <<names, vibe, locals, types, enums, comments>>
    BY <1>2 DEF Editing!RenameStack
  <2>2. AnswerIs(i, TRUE) /\ i \in Answered
    BY <2>1, AnswersOfBatch, HeadOfBatch
  <2>3. CASE req.dry
    BY <2>1, <2>2, <2>3, LeaveAll DEF Editing!db
  <2>4. CASE ~req.dry
    <3>1. /\ DOMAIN frame' = Funcs
          /\ frame'[i.at] = (frame[i.at] \ {i.old}) \cup {i.new}
          /\ \A f \in Funcs : f # i.at => frame'[f] = frame[f]
      BY <2>1, <2>4 DEF EditsInv, EditsTypes, DatabaseTypes, Editing!Renamed
    <3>2. DatabaseTypes'
      BY <2>1, <3>1 DEF EditsInv, EditsTypes, DatabaseTypes
    <3>3. MarksStay(i, TRUE)
      <4>1. Placed(i) /\ Editing!Done(i)'
        BY <2>1, <3>1 DEF Placed, Editing!Done
      <4>2. ASSUME NEW x \in Answered, Placed(x), Editing!Done(x), ~Editing!SameMark(x, i)
            PROVE  Editing!Done(x)'
        <5>1. CASE x.kind = "stack"
          BY <2>1, <4>2, <5>1, <3>1 DEF Placed, Editing!Done, Editing!SameMark
        <5>2. CASE x.kind # "stack"
          BY <2>1, <4>2, <5>2, AnsweredKinds
             DEF Editing!Kinds, Editing!Renames, Editing!Done, Editing!IsMember, Editing!MembersOf
        <5> QED BY <5>1, <5>2
      <4> QED BY <4>1, <4>2 DEF MarksStay
    <3>4. CommentsComeOnce' /\ NamesAreUnique'
      BY <2>1 DEF EditsInv, CommentsComeOnce, NamesAreUnique
    <3>5. EnumsOnlyGrow' /\ MembersAreUnique'
      BY <2>1 DEF EditsInv, EnumsOnlyGrow, MembersAreUnique, Editing!IsMember, Editing!MembersOf
    <3> QED BY <2>2, <2>4, <3>2, <3>3, <3>4, <3>5, ChangeNext
  <2> QED BY <2>3, <2>4
<1> QED BY <1>1, <1>2

LEMMA ApplyTypeNext ==
    ASSUME EditsInv, todo # <<>>, NEW i, i = Head(todo), UNCHANGED <<req, beforeBatch>>,
           Editing!ApplyType(i)
    PROVE  EditsInv'
<1>1. CASE Editing!Fail(i)
  BY <1>1, FailNext
<1>2. CASE ~Editing!Fail(i)
  <2>1. /\ i.kind = "type" /\ i.at \in Editing!Addrs
        /\ types' = [types EXCEPT ![i.at] = i.new]
        /\ Editing!Succeed(i)
        /\ UNCHANGED <<names, vibe, locals, frame, enums, comments>>
    BY <1>2 DEF Editing!ApplyType
  <2>2. AnswerIs(i, TRUE) /\ i \in Answered /\ ~req.dry
    BY <2>1, AnswersOfBatch, HeadOfBatch DEF Editing!Renames
  <2>3. /\ DOMAIN types' = Editing!Addrs
        /\ types'[i.at] = i.new
        /\ \A e \in Editing!Addrs : e # i.at => types'[e] = types[e]
    BY <2>1 DEF EditsInv, EditsTypes, DatabaseTypes
  <2>4. DatabaseTypes'
    BY <2>1, <2>3 DEF EditsInv, EditsTypes, DatabaseTypes
  <2>5. MarksStay(i, TRUE)
    <3>1. Placed(i) /\ Editing!Done(i)'
      BY <2>1, <2>3 DEF Placed, Editing!Done
    <3>2. ASSUME NEW x \in Answered, Placed(x), Editing!Done(x), ~Editing!SameMark(x, i)
          PROVE  Editing!Done(x)'
      <4>1. CASE x.kind = "type"
        BY <2>1, <3>2, <4>1, <2>3 DEF Placed, Editing!Done, Editing!SameMark
      <4>2. CASE x.kind # "type"
        BY <2>1, <3>2, <4>2, AnsweredKinds
           DEF Editing!Kinds, Editing!Renames, Editing!Done, Editing!IsMember, Editing!MembersOf
      <4> QED BY <4>1, <4>2
    <3> QED BY <3>1, <3>2 DEF MarksStay
  <2>6. CommentsComeOnce' /\ NamesAreUnique'
    BY <2>1 DEF EditsInv, CommentsComeOnce, NamesAreUnique
  <2>7. EnumsOnlyGrow' /\ MembersAreUnique'
    BY <2>1 DEF EditsInv, EnumsOnlyGrow, MembersAreUnique, Editing!IsMember, Editing!MembersOf
  <2> QED BY <2>2, <2>4, <2>5, <2>6, <2>7, ChangeNext
<1> QED BY <1>1, <1>2

(* An enum that is there keeps what it is; its members are not touched.    *)
LEMMA UpsertEnumNext ==
    ASSUME EditsInv, todo # <<>>, NEW i, i = Head(todo), UNCHANGED <<req, beforeBatch>>,
           Editing!UpsertEnum(i)
    PROVE  EditsInv'
<1>1. i.kind = "enum" /\ i \in Answered /\ i.at \in Enums /\ ~req.dry
  BY HeadOfBatch DEF Editing!UpsertEnum, Editing!Renames
<1>2. CASE /\ results' = Append(results, Editing!Result(i, FALSE)) /\ todo' = <<>>
           /\ UNCHANGED Editing!db
  <2>1. AnswerIs(i, FALSE)
    BY <1>2 DEF AnswerIs, Editing!Result
  <2> QED BY <1>1, <1>2, <2>1, LeaveAll
<1>3. CASE /\ enums[i.at].is => enums[i.at].bitfield = i.bitfield
           /\ enums' = [enums EXCEPT ![i.at].is = TRUE, ![i.at].bitfield = i.bitfield]
           /\ Editing!Succeed(i)
           /\ UNCHANGED <<names, vibe, locals, frame, types, comments>>
  <2>1. AnswerIs(i, TRUE)
    BY <1>3, AnswersOfBatch
  <2>2. /\ DOMAIN enums = Enums
        /\ \A e \in Enums : enums[e] = [is |-> enums[e].is, bitfield |-> enums[e].bitfield,
                                        members |-> enums[e].members]
    BY DEF EditsInv, EditsTypes, DatabaseTypes
  <2>3. /\ DOMAIN enums' = Enums
        /\ enums'[i.at] = [is |-> TRUE, bitfield |-> i.bitfield, members |-> enums[i.at].members]
        /\ \A e \in Enums : e # i.at => enums'[e] = enums[e]
    <3>1. PICK a, b, c, d, e : /\ a = enums[i.at].is /\ b = enums[i.at].bitfield
                               /\ c = enums[i.at].members /\ d = i.bitfield /\ e = enums[i.at]
      OBVIOUS
    <3>2. e = [is |-> a, bitfield |-> b, members |-> c]
      BY <1>1, <2>2, <3>1
    <3>3. PICK r : r = [e EXCEPT !.is = TRUE]
      OBVIOUS
    <3>4. r = [is |-> TRUE, bitfield |-> b, members |-> c]
      BY <3>2, <3>3
    <3>5. PICK s : s = [r EXCEPT !.bitfield = d]
      OBVIOUS
    <3>6. s = [is |-> TRUE, bitfield |-> d, members |-> c]
      BY <3>4, <3>5
    <3>7. [[enums[i.at] EXCEPT !.is = TRUE] EXCEPT !.bitfield = i.bitfield]
            = [is |-> TRUE, bitfield |-> i.bitfield, members |-> enums[i.at].members]
      BY <3>1, <3>3, <3>5, <3>6, Zenon
    <3> QED BY <1>1, <1>3, <2>2, <3>7
  <2>4. \A e \in Enums : enums'[e] = [is |-> enums'[e].is, bitfield |-> enums'[e].bitfield,
                                      members |-> enums'[e].members]
    BY <2>2, <2>3, Zenon
  <2>5. \A e \in Enums : /\ enums'[e].members = enums[e].members
                         /\ e = i.at => enums'[e].is /\ enums'[e].bitfield = i.bitfield
                         /\ e # i.at => enums'[e].is = enums[e].is
                                        /\ enums'[e].bitfield = enums[e].bitfield
    BY <2>3
  <2>6. DatabaseTypes'
    BY <1>3, <2>3, <2>4, Zenon DEF EditsInv, EditsTypes, DatabaseTypes
  <2> HIDE <1>3
  <2>7. names' = names /\ locals' = locals /\ frame' = frame /\ types' = types
        /\ comments' = comments /\ (enums[i.at].is => enums[i.at].bitfield = i.bitfield)
    BY <1>3
  <2>8. MarksStay(i, TRUE)
    <3>1. Placed(i) /\ Editing!Done(i)'
      BY <1>1, <2>5 DEF Placed, Editing!Done
    <3>2. ASSUME NEW x \in Answered, Placed(x), Editing!Done(x) PROVE Editing!Done(x)'
      <4>1. CASE x.kind = "enum"
        <5>1. x.at \in Enums /\ enums[x.at].is /\ enums[x.at].bitfield = x.bitfield
          BY <3>2, <4>1 DEF Placed, Editing!Done
        <5>2. enums'[x.at].is /\ enums'[x.at].bitfield = x.bitfield
          BY <5>1, <2>5, <2>7, Zenon
        <5> QED BY <4>1, <5>2 DEF Editing!Done
      <4>2. CASE x.kind = "member"
        <5>1. x.at \in Enums
          BY <3>2, <4>2 DEF Placed
        <5>2. Editing!MembersOf(x.at)' = Editing!MembersOf(x.at)
          BY <5>1, <2>5 DEF Editing!MembersOf
        <5> QED BY <3>2, <4>2, <5>2 DEF Editing!Done, Editing!IsMember
      <4>3. CASE x.kind \notin {"enum", "member"}
        BY <2>7, <3>2, <4>3, AnsweredKinds DEF Editing!Kinds, Editing!Renames, Editing!Done
      <4> QED BY <4>1, <4>2, <4>3
    <3> QED BY <3>1, <3>2 DEF MarksStay
  <2>9. CommentsComeOnce' /\ NamesAreUnique'
    BY <2>7 DEF EditsInv, CommentsComeOnce, NamesAreUnique
  <2>10. EnumsOnlyGrow' /\ MembersAreUnique'
    <3>1. \A e \in Enums : Editing!MembersOf(e)' = Editing!MembersOf(e)
      BY <2>5 DEF Editing!MembersOf
    <3> QED BY <3>1 DEF EditsInv, EnumsOnlyGrow, MembersAreUnique, Editing!IsMember, Editing!IsInjective
  <2> QED BY <1>1, <2>1, <2>6, <2>8, <2>9, <2>10, ChangeNext
<1> QED BY <1>2, <1>3 DEF Editing!UpsertEnum

(* A new member has a name that no enum has, and a value its enum has not. *)
LEMMA UpsertMemberNext ==
    ASSUME EditsInv, todo # <<>>, NEW i, i = Head(todo), UNCHANGED <<req, beforeBatch>>,
           Editing!UpsertMember(i)
    PROVE  EditsInv'
<1>1. i.kind = "member" /\ i \in Answered /\ i.at \in Enums /\ ~req.dry
  BY HeadOfBatch DEF Editing!UpsertMember, Editing!Renames
<1>2. CASE Editing!Fail(i)
  BY <1>2, FailNext
<1>3. CASE Editing!IsMember(i.at, i.new, i.value) /\ Editing!Succeed(i) /\ UNCHANGED Editing!db
  <2>1. AnswerIs(i, TRUE) /\ Placed(i) /\ Editing!Done(i)
    BY <1>1, <1>3, AnswersOfBatch DEF Placed, Editing!Done
  <2> QED BY <1>1, <1>3, <2>1, LeaveAll
<1>4. CASE /\ ~Editing!Taken(i.new) /\ ~Editing!HasValue(i.at, i.value)
           /\ enums' = [enums EXCEPT ![i.at].members = Editing!Added(i.at, i.new, i.value)]
           /\ Editing!Succeed(i)
           /\ UNCHANGED <<names, vibe, locals, frame, types, comments>>
  <2> DEFINE added == Editing!Added(i.at, i.new, i.value)
  <2>1. AnswerIs(i, TRUE)
    BY <1>4, AnswersOfBatch
  <2>2. /\ DOMAIN enums = Enums
        /\ \A e \in Enums : enums[e] = [is |-> enums[e].is, bitfield |-> enums[e].bitfield,
                                        members |-> enums[e].members]
    BY DEF EditsInv, EditsTypes, DatabaseTypes
  <2>3. /\ DOMAIN added = DOMAIN Editing!MembersOf(i.at) \cup {i.new}
        /\ added[i.new] = i.value
        /\ \A m \in DOMAIN Editing!MembersOf(i.at) :
              m # i.new => added[m] = Editing!MembersOf(i.at)[m]
    BY DEF Editing!Added
  <2>4. enums' = [enums EXCEPT ![i.at].members = added]
    BY <1>4
  <2>5. /\ names' = names /\ locals' = locals /\ frame' = frame /\ types' = types
        /\ comments' = comments
        /\ \A e \in Enums : i.new \notin DOMAIN Editing!MembersOf(e)
        /\ \A m \in DOMAIN Editing!MembersOf(i.at) : Editing!MembersOf(i.at)[m] # i.value
    BY <1>4 DEF Editing!Taken, Editing!HasValue
  <2> HIDE <1>4 DEF added
  <2>6. /\ DOMAIN enums' = Enums
        /\ enums'[i.at] = [is |-> enums[i.at].is, bitfield |-> enums[i.at].bitfield, members |-> added]
        /\ \A e \in Enums : e # i.at => enums'[e] = enums[e]
    <3>1. enums[i.at] = [is |-> enums[i.at].is, bitfield |-> enums[i.at].bitfield,
                         members |-> enums[i.at].members]
      BY <1>1, <2>2
    <3>2. [enums[i.at] EXCEPT !.members = added]
            = [is |-> enums[i.at].is, bitfield |-> enums[i.at].bitfield, members |-> added]
      BY <3>1
    <3> QED BY <1>1, <2>2, <2>4, <3>2
  <2>7. \A e \in Enums : enums'[e] = [is |-> enums'[e].is, bitfield |-> enums'[e].bitfield,
                                      members |-> enums'[e].members]
    BY <2>2, <2>6, Zenon
  <2>8. /\ \A e \in Enums : /\ enums'[e].is = enums[e].is
                            /\ enums'[e].bitfield = enums[e].bitfield
                            /\ e # i.at => Editing!MembersOf(e)' = Editing!MembersOf(e)
        /\ Editing!MembersOf(i.at)' = added
    BY <1>1, <2>6 DEF Editing!MembersOf
  <2>9. DatabaseTypes'
    BY <2>5, <2>6, <2>7, Zenon DEF EditsInv, EditsTypes, DatabaseTypes
  <2>10. \A e \in Enums : \A m, v : Editing!IsMember(e, m, v) => Editing!IsMember(e, m, v)'
    <3>1. SUFFICES ASSUME NEW e \in Enums, NEW m, NEW v, Editing!IsMember(e, m, v)
                   PROVE  Editing!IsMember(e, m, v)'
      OBVIOUS
    <3>2. m \in DOMAIN Editing!MembersOf(e) /\ Editing!MembersOf(e)[m] = v
      BY <3>1 DEF Editing!IsMember
    <3>3. m \in DOMAIN Editing!MembersOf(e)' /\ Editing!MembersOf(e)'[m] = v
      <4>1. CASE e = i.at
        BY <3>2, <4>1, <2>3, <2>5, <2>8
      <4>2. CASE e # i.at
        BY <3>2, <4>2, <2>8
      <4> QED BY <4>1, <4>2
    <3> QED BY <3>3 DEF Editing!IsMember
  <2>11. MarksStay(i, TRUE)
    <3>1. Placed(i)
      BY <1>1 DEF Placed
    <3>2. Editing!IsMember(i.at, i.new, i.value)'
      BY <2>3, <2>8 DEF Editing!IsMember
    <3>3. Editing!Done(i)'
      BY <1>1, <3>2 DEF Editing!Done
    <3>4. ASSUME NEW x \in Answered, Placed(x), Editing!Done(x) PROVE Editing!Done(x)'
      <4>1. CASE x.kind = "enum"
        BY <2>8, <3>4, <4>1 DEF Placed, Editing!Done
      <4>2. CASE x.kind = "member"
        <5>1. x.at \in Enums /\ Editing!IsMember(x.at, x.new, x.value)
          BY <3>4, <4>2 DEF Placed, Editing!Done
        <5>2. Editing!IsMember(x.at, x.new, x.value)'
          BY <5>1, <2>10
        <5> QED BY <4>2, <5>2 DEF Editing!Done
      <4>3. CASE x.kind \notin {"enum", "member"}
        BY <2>5, <3>4, <4>3, AnsweredKinds DEF Editing!Kinds, Editing!Renames, Editing!Done
      <4> QED BY <4>1, <4>2, <4>3
    <3> QED BY <3>1, <3>3, <3>4 DEF MarksStay
  <2>12. CommentsComeOnce' /\ NamesAreUnique'
    BY <2>5 DEF EditsInv, CommentsComeOnce, NamesAreUnique, AnswerIs, Editing!IsInjective
  <2>13. EnumsOnlyGrow'
    <3>1. beforeBatch' = beforeBatch
      OBVIOUS
    <3> QED BY <2>10, <3>1 DEF EditsInv, EnumsOnlyGrow
  <2>14. MembersAreUnique'
    <3>1. ASSUME NEW d \in Enums, NEW e \in Enums, d # e
          PROVE  DOMAIN Editing!MembersOf(d)' \cap DOMAIN Editing!MembersOf(e)' = {}
      <4>1. DOMAIN Editing!MembersOf(d) \cap DOMAIN Editing!MembersOf(e) = {}
        BY <3>1 DEF EditsInv, MembersAreUnique
      <4>2. CASE d = i.at
        BY <4>1, <4>2, <3>1, <2>3, <2>5, <2>8
      <4>3. CASE e = i.at
        BY <4>1, <4>3, <3>1, <2>3, <2>5, <2>8
      <4>4. CASE d # i.at /\ e # i.at
        BY <4>1, <4>4, <2>8
      <4> QED BY <4>2, <4>3, <4>4
    <3>2. ASSUME NEW e \in Enums PROVE Editing!IsInjective(Editing!MembersOf(e)')
      <4>1. Editing!IsInjective(Editing!MembersOf(e))
        BY DEF EditsInv, MembersAreUnique
      <4>2. CASE e = i.at
        <5>1. \A a, b \in DOMAIN Editing!MembersOf(e) :
                 Editing!MembersOf(e)[a] = Editing!MembersOf(e)[b] => a = b
          BY <4>1 DEF Editing!IsInjective
        <5>2. \A a, b \in DOMAIN added : added[a] = added[b] => a = b
          BY <5>1, <4>2, <2>3, <2>5
        <5> QED BY <5>2, <4>2, <2>8 DEF Editing!IsInjective
      <4>3. CASE e # i.at
        BY <4>1, <4>3, <2>8
      <4> QED BY <4>2, <4>3
    <3> QED BY <3>1, <3>2 DEF MembersAreUnique
  <2> QED BY <1>1, <2>1, <2>9, <2>11, <2>12, <2>13, <2>14, ChangeNext
<1> QED BY <1>2, <1>3, <1>4 DEF Editing!UpsertMember

(* A comment that is asked for once is there once: the lines are looked at *)
(* in the scope that the comment goes to.                                  *)
LEMMA AppendCommentNext ==
    ASSUME EditsInv, todo # <<>>, NEW i, i = Head(todo), UNCHANGED <<req, beforeBatch>>,
           Editing!AppendComment(i)
    PROVE  EditsInv'
<1> DEFINE s == Editing!Scope(i)
<1>1. i.kind = "comment" /\ i \in Answered /\ i.new \in Lines /\ ~req.dry
  BY HeadOfBatch DEF Editing!AppendComment, Editing!Renames
<1>2. s \in {"func", "line"}
  BY DEF Editing!Scope
<1>3. CASE Editing!Fail(i)
  BY <1>3, FailNext
<1>4. CASE /\ Editing!HasPlace(i) /\ Editing!Skipped(i)
           /\ comments' = comments /\ Editing!Succeed(i)
           /\ UNCHANGED <<names, vibe, locals, frame, types, enums>>
  <2>1. AnswerIs(i, TRUE) /\ UNCHANGED Editing!db
    BY <1>4, AnswersOfBatch DEF Editing!db
  <2>2. Placed(i) /\ Editing!Done(i)
    BY <1>1, <1>4 DEF Placed, Editing!Done, Editing!Skipped, Editing!HasPlace, Editing!Addrs
  <2> QED BY <1>1, <2>1, <2>2, LeaveAll
<1>5. CASE /\ Editing!HasPlace(i) /\ ~Editing!Skipped(i)
           /\ comments' = [comments EXCEPT ![i.at][s] = Append(@, i.new)] /\ Editing!Succeed(i)
           /\ UNCHANGED <<names, vibe, locals, frame, types, enums>>
  <2> DEFINE longer == Append(comments[i.at][s], i.new)
  <2>1. AnswerIs(i, TRUE)
    BY <1>5, AnswersOfBatch
  <2>2. i.at \in Editing!Addrs
    BY <1>5 DEF Editing!HasPlace, Editing!Addrs
  <2>3. i.dedupe => \A k \in DOMAIN comments[i.at][s] : comments[i.at][s][k] # i.new
    BY <1>5 DEF Editing!Skipped, Editing!ToSet
  <2>4. comments' = [comments EXCEPT ![i.at] = [comments[i.at] EXCEPT ![s] = longer]]
    BY <1>5
  <2>5. names' = names /\ locals' = locals /\ frame' = frame /\ types' = types /\ enums' = enums
    BY <1>5
  <2> HIDE <1>5 DEF s
  <2>6. comments \in [Editing!Addrs -> [func : Seq(Lines), line : Seq(Lines)]]
    BY DEF EditsInv, EditsTypes, DatabaseTypes
  <2>7. /\ comments[i.at].func \in Seq(Lines) /\ comments[i.at].line \in Seq(Lines)
        /\ comments[i.at] = [func |-> comments[i.at].func, line |-> comments[i.at].line]
    BY <2>2, <2>6
  <2>8. comments[i.at][s] \in Seq(Lines)
    BY <1>2, <2>7
  <2>9. /\ longer \in Seq(Lines) /\ Len(longer) = Len(comments[i.at][s]) + 1
        /\ Len(comments[i.at][s]) \in Nat
        /\ \A k \in 1..Len(comments[i.at][s]) : longer[k] = comments[i.at][s][k]
        /\ longer[Len(longer)] = i.new
        /\ DOMAIN longer = 1..Len(longer)
        /\ DOMAIN comments[i.at][s] = 1..Len(comments[i.at][s])
    BY <1>1, <2>8
  <2> HIDE DEF longer
  <2>10. /\ comments'[i.at] = [comments[i.at] EXCEPT ![s] = longer]
         /\ DOMAIN comments' = Editing!Addrs
         /\ \A e \in Editing!Addrs : e # i.at => comments'[e] = comments[e]
    BY <2>2, <2>4, <2>6
  <2>11. /\ comments'[i.at] \in [func : Seq(Lines), line : Seq(Lines)]
         /\ comments'[i.at][s] = longer
         /\ s # "func" => comments'[i.at].func = comments[i.at].func
         /\ s # "line" => comments'[i.at].line = comments[i.at].line
    <3>1. CASE s = "func"
      <4>1. comments'[i.at] = [func |-> longer, line |-> comments[i.at].line]
        BY <3>1, <2>7, <2>10
      <4>2. comments'[i.at].func = longer /\ comments'[i.at].line = comments[i.at].line
        BY <4>1
      <4>3. comments'[i.at] \in [func : Seq(Lines), line : Seq(Lines)]
        <5>1. longer \in Seq(Lines) /\ comments[i.at].line \in Seq(Lines)
          BY <2>7, <2>9, Zenon
        <5>2. \A c, d \in Seq(Lines) : [func |-> c, line |-> d] \in [func : Seq(Lines), line : Seq(Lines)]
          OBVIOUS
        <5> QED BY <4>1, <5>1, <5>2, Zenon
      <4>4. comments'[i.at][s] = longer
        BY <3>1, <4>2, Zenon
      <4> QED BY <3>1, <4>2, <4>3, <4>4, Zenon
    <3>2. CASE s = "line"
      <4>1. comments'[i.at] = [func |-> comments[i.at].func, line |-> longer]
        BY <3>2, <2>7, <2>10
      <4>2. comments'[i.at].func = comments[i.at].func /\ comments'[i.at].line = longer
        BY <4>1
      <4>3. comments'[i.at] \in [func : Seq(Lines), line : Seq(Lines)]
        <5>1. comments[i.at].func \in Seq(Lines) /\ longer \in Seq(Lines)
          BY <2>7, <2>9, Zenon
        <5>2. \A c, d \in Seq(Lines) : [func |-> c, line |-> d] \in [func : Seq(Lines), line : Seq(Lines)]
          OBVIOUS
        <5> QED BY <4>1, <5>1, <5>2, Zenon
      <4>4. comments'[i.at][s] = longer
        BY <3>2, <4>2, Zenon
      <4> QED BY <3>2, <4>2, <4>3, <4>4, Zenon
    <3> QED BY <1>2, <3>1, <3>2
  <2>12. DatabaseTypes'
    <3>1. comments' \in [Editing!Addrs -> [func : Seq(Lines), line : Seq(Lines)]]
      <4>1. comments' = [comments EXCEPT ![i.at] = comments'[i.at]]
        BY <2>2, <2>4, <2>6
      <4> QED BY <2>6, <2>11, <4>1
    <3> QED BY <2>5, <3>1 DEF EditsInv, EditsTypes, DatabaseTypes
  <2>13. \A x : Editing!Scope(x)' = Editing!Scope(x)
    BY DEF Editing!Scope
  <2>14. Placed(i) /\ Editing!Done(i)'
    <3>1. Placed(i)
      BY <1>1, <2>2 DEF Placed
    <3>2. comments'[i.at][Editing!Scope(i)'] = longer
      BY <2>11, <2>13 DEF s
    <3>3. i.new \in Editing!ToSet(longer)
      <4>1. Len(longer) \in 1..Len(longer)
        <5>1. Len(longer) = Len(comments[i.at][s]) + 1 /\ Len(comments[i.at][s]) \in Nat
          BY <2>9, Zenon
        <5> QED BY <5>1
      <4>2. Len(longer) \in DOMAIN longer /\ longer[Len(longer)] = i.new
        BY <2>9, <4>1, Zenon
      <4> QED BY <4>2, Zenon DEF Editing!ToSet
    <3>4. Editing!Done(i)'
      BY <1>1, <3>2, <3>3 DEF Editing!Done
    <3> QED BY <3>1, <3>4
  <2>15. ASSUME NEW x \in Answered, Placed(x), Editing!Done(x) PROVE Editing!Done(x)'
    <3>1. CASE x.kind = "comment"
      <4> DEFINE r == Editing!Scope(x)
      <4>1. x.at \in Editing!Addrs /\ r \in {"func", "line"} /\ r' = r
        BY <2>15, <3>1, <2>13 DEF Placed, Editing!Scope
      <4>2. x.new \in Editing!ToSet(comments[x.at][r])
        BY <2>15, <3>1 DEF Editing!Done
      <4> HIDE DEF r
      <4>3. x.new \in Editing!ToSet(comments'[x.at][r])
        <5>1. CASE x.at = i.at /\ r = s
          <6>1. PICK k \in DOMAIN comments[i.at][s] : comments[i.at][s][k] = x.new
            BY <4>2, <5>1 DEF Editing!ToSet
          <6>2. k \in DOMAIN longer /\ longer[k] = x.new
            <7>1. k \in 1..Len(comments[i.at][s]) /\ longer[k] = x.new
              BY <6>1, <2>9, Zenon
            <7>2. Len(longer) = Len(comments[i.at][s]) + 1 /\ Len(comments[i.at][s]) \in Nat
              BY <2>9, Zenon
            <7>3. k \in 1..Len(longer)
              BY <7>1, <7>2
            <7> QED BY <7>1, <7>3, <2>9, Zenon
          <6> QED BY <5>1, <6>2, <2>11 DEF Editing!ToSet
        <5>2. CASE x.at # i.at
          BY <4>1, <4>2, <5>2, <2>10
        <5>3. CASE x.at = i.at /\ r # s
          <6>1. comments'[x.at][r] = comments[x.at][r]
            BY <4>1, <5>3, <1>2, <2>11
          <6> QED BY <4>2, <6>1
        <5> QED BY <5>1, <5>2, <5>3
      <4> QED BY <3>1, <4>1, <4>3 DEF Editing!Done, r
    <3>2. CASE x.kind # "comment"
      BY <2>5, <2>15, <3>2, AnsweredKinds
         DEF Editing!Kinds, Editing!Renames, Editing!Done, Editing!IsMember, Editing!MembersOf
    <3> QED BY <3>1, <3>2
  <2>16. MarksStay(i, TRUE)
    BY <2>14, <2>15 DEF MarksStay
  <2>17. CommentsComeOnce'
    <3>1. SUFFICES ASSUME \A k \in DOMAIN req.items : req.items[k].kind = "comment" => req.items[k].dedupe,
                          NEW e \in Editing!Addrs
                   PROVE  /\ Editing!IsInjective(comments'[e].func)
                          /\ Editing!IsInjective(comments'[e].line)
      BY DEF CommentsComeOnce
    <3>2. \A f \in Editing!Addrs : /\ Editing!IsInjective(comments[f].func)
                                  /\ Editing!IsInjective(comments[f].line)
      BY <3>1 DEF EditsInv, CommentsComeOnce
    <3>3. i.dedupe
      <4>1. i \in ItemsOf(req)
        BY HeadOfBatch
      <4> QED BY <4>1, <3>1, <1>1 DEF ItemsOf
    <3>4. Editing!IsInjective(comments[i.at][s])
      BY <3>2, <2>2, <1>2
    <3>5. Editing!IsInjective(longer)
      <4>1. \A a, b \in 1..Len(comments[i.at][s]) :
               comments[i.at][s][a] = comments[i.at][s][b] => a = b
        BY <3>4, <2>9 DEF Editing!IsInjective
      <4>2. \A k \in 1..Len(comments[i.at][s]) : comments[i.at][s][k] # i.new
        BY <3>3, <2>3, <2>9
      <4>3. ASSUME NEW a \in 1..Len(longer), NEW b \in 1..Len(longer), longer[a] = longer[b]
            PROVE  a = b
        <5>1. Len(comments[i.at][s]) \in Nat /\ Len(longer) = Len(comments[i.at][s]) + 1
          BY <2>9
        <5>2. /\ a = Len(longer) \/ a \in 1..Len(comments[i.at][s])
              /\ b = Len(longer) \/ b \in 1..Len(comments[i.at][s])
          BY <5>1
        <5>3. longer[Len(longer)] = i.new
          BY <2>9, Zenon
        <5>4. \A k \in 1..Len(comments[i.at][s]) : longer[k] # i.new
          BY <2>9, <4>2, Zenon
        <5>5. CASE a = Len(longer)
          BY <4>3, <5>2, <5>3, <5>4, <5>5, Zenon
        <5>6. CASE b = Len(longer)
          BY <4>3, <5>2, <5>3, <5>4, <5>6, Zenon
        <5>7. CASE a # Len(longer) /\ b # Len(longer)
          <6>1. /\ a \in 1..Len(comments[i.at][s]) /\ b \in 1..Len(comments[i.at][s])
            BY <5>2, <5>7, Zenon
          <6>2. longer[a] = comments[i.at][s][a] /\ longer[b] = comments[i.at][s][b]
            BY <2>9, <6>1, Zenon
          <6> QED BY <4>1, <4>3, <6>1, <6>2, Zenon
        <5> QED BY <5>5, <5>6, <5>7
      <4> QED BY <4>3, <2>9 DEF Editing!IsInjective
    <3>6. CASE e # i.at
      BY <3>2, <3>6, <2>10
    <3>7. CASE e = i.at
      BY <3>2, <3>5, <3>7, <1>2, <2>11
    <3> QED BY <3>6, <3>7
  <2>18. NamesAreUnique'
    BY <2>5 DEF EditsInv, NamesAreUnique
  <2>19. EnumsOnlyGrow' /\ MembersAreUnique'
    BY <2>5 DEF EditsInv, EnumsOnlyGrow, MembersAreUnique, Editing!IsMember, Editing!MembersOf
  <2> QED BY <1>1, <2>1, <2>12, <2>16, <2>17, <2>18, <2>19, ChangeNext
<1> QED BY <1>3, <1>4, <1>5 DEF Editing!AppendComment

(* A request that is sent again starts from the database as it is.         *)
LEMMA RetryNext == ASSUME EditsInv, Editing!Retry PROVE EditsInv'
<1>1. /\ names' = names /\ locals' = locals /\ frame' = frame /\ types' = types
      /\ enums' = enums /\ comments' = comments /\ req' = req
      /\ todo' = req.items /\ results' = <<>> /\ beforeBatch' = Editing!Now
  BY DEF Editing!Retry, Editing!db
<1>2. req \in EditBatches /\ req.items \in Seq(ItemsOf(req)) /\ Len(req.items) \in Nat
  BY EditsConstants DEF EditsInv, EditsTypes, BatchTypes
<1>3. BatchTypes'
  BY <1>1, <1>2 DEF BatchTypes
<1>4. DatabaseTypes'
  BY <1>1 DEF EditsInv, EditsTypes, DatabaseTypes
<1>5. Len(todo') = Len(req.items) /\ Len(results') = 0
  BY <1>1
<1>6. BatchGoesOn'
  <2>1. Len(results') + Len(todo') = Len(req.items)
    BY <1>2, <1>5
  <2> QED BY <1>1, <1>5, <2>1 DEF BatchGoesOn
<1>7. DryRunsLeaveAll' /\ AllDoneOrRedone'
  BY <1>1, <1>5 DEF DryRunsLeaveAll, AllDoneOrRedone, Editing!Now
<1>8. CommentsComeOnce' /\ NamesAreUnique'
  BY <1>1 DEF EditsInv, CommentsComeOnce, NamesAreUnique
<1>9. EnumsOnlyGrow'
  <2>1. beforeBatch'.enums = enums
    BY <1>1 DEF Editing!Now
  <2> QED BY <1>1, <2>1 DEF EnumsOnlyGrow, Editing!IsMember, Editing!MembersOf
<1>10. MembersAreUnique'
  BY <1>1 DEF EditsInv, MembersAreUnique, Editing!MembersOf
<1> QED BY <1>3, <1>4, <1>6, <1>7, <1>8, <1>9, <1>10 DEF EditsInv, EditsTypes

LEMMA EditsNext == ASSUME EditsInv, Editing!Next PROVE EditsInv'
<1>1. CASE Editing!Step
  <2>1. PICK i : /\ i = Head(todo) /\ todo # <<>> /\ UNCHANGED <<req, beforeBatch>>
                 /\ \/ Editing!RenameFunc(i) \/ Editing!RenameGlobal(i) \/ Editing!RenameLocal(i)
                    \/ Editing!RenameStack(i) \/ Editing!ApplyType(i) \/ Editing!UpsertEnum(i)
                    \/ Editing!UpsertMember(i) \/ Editing!AppendComment(i)
    BY <1>1 DEF Editing!Step, Editing!Item
  <2> QED BY <2>1, RenameFuncNext, RenameGlobalNext, RenameLocalNext, RenameStackNext,
             ApplyTypeNext, UpsertEnumNext, UpsertMemberNext, AppendCommentNext, Zenon
<1> QED BY <1>1, RetryNext DEF Editing!Next

-----------------------------------------------------------------------------
(* Call graphs.  Every address of the walk stands for one function, and    *)
(* its place in the function is where the calls that it has made end.      *)
Places == Subs \cup {Inside}
GraphFrames == [at : Places, depth : Nat, insn : Nat \ {0}, ref : Nat \ {0}, added : Nat]
GraphTypes ==
    /\ program \in Programs /\ bounds \in Bounds /\ root \in {Main, Inside}
    /\ DOMAIN nodes \subseteq Places /\ root \in DOMAIN nodes
    /\ nodes \in [DOMAIN nodes -> Nat]
    /\ edges \in Seq(Places \X Subs)
    /\ walk \in Seq(GraphFrames)
    /\ truncated \in BOOLEAN
    /\ truncated => walk = <<>>

FrameFits(t) ==
    LET f == Walking!SubOf(t.at) IN
    /\ t.at \in DOMAIN nodes /\ t.depth = nodes[t.at]
    /\ t.insn <= Len(program[f]) + 1
    /\ t.insn <= Len(program[f]) => t.ref <= Len(program[f][t.insn]) + 1
    /\ t.added = Cardinality(Walking!EdgesOf(t.at))
    /\ t.added = Cardinality(Walking!CallsBefore(f, t.insn, t.ref))
WalkFits ==
    /\ \A m \in 1..Len(walk) : FrameFits(walk[m])
    /\ \A m, n \in 1..Len(walk) : walk[m].at = walk[n].at => m = n

NodesAreTrue ==
    \A a \in DOMAIN nodes :
       /\ nodes[a] <= bounds.depth /\ nodes[a] < Cardinality(DOMAIN nodes)
       /\ Walking!Reached(Walking!SubOf(a), nodes[a])
       /\ Cardinality(Walking!EdgesOf(a)) <= bounds.per
EdgeIsTrue(k) ==
    \E a \in DOMAIN nodes :
       edges[k][1] = a /\ \E c \in Walking!CallsOf(Walking!SubOf(a)) : Walking!IsEdge(a, k, c)
EdgesAreTrue == \A k \in 1..Len(edges) : EdgeIsTrue(k)
LimitsAreKept == Cardinality(DOMAIN nodes) <= bounds.nodes /\ Len(edges) <= bounds.edges

(* What the walk has left is finished, and what it came by is a node.      *)
Finished(a) ==
    \/ Cardinality(Walking!EdgesOf(a)) >= bounds.per
    \/ Cardinality(Walking!EdgesOf(a)) = Cardinality(Walking!CallsOf(Walking!SubOf(a)))
Followed(k) == edges[k][2] \in DOMAIN nodes \/ nodes[edges[k][1]] >= bounds.depth
NothingIsLeft ==
    ~truncated =>
       /\ \A a \in DOMAIN nodes : Finished(a) \/ \E m \in 1..Len(walk) : walk[m].at = a
       /\ \A k \in 1..Len(edges) : Followed(k)

GraphInv ==
    /\ GraphTypes /\ WalkFits /\ NodesAreTrue /\ EdgesAreTrue /\ LimitsAreKept /\ NothingIsLeft

LEMMA GraphConstants ==
    /\ IsFiniteSet(Subs) /\ Main \in Subs /\ Inside \notin Subs /\ NoSub \notin Subs
    /\ \A p \in Programs : p \in [Subs -> Seq(Seq(Subs \cup {NoSub}))]
    /\ \A b \in Bounds : b.depth \in Nat /\ b.nodes \in Nat \ {0} /\ b.edges \in Nat \ {0} /\ b.per \in Nat \ {0}
    /\ \A a \in Places : Walking!SubOf(a) \in Subs
    /\ IsFiniteSet(Places) /\ Cardinality(Places) = Cardinality(Subs) + 1
    /\ Cardinality(Subs) \in Nat
<1>1. Walking!CallGraphAssumption
  BY ToolsAssumption
<1>2. IsFiniteSet(Subs) /\ Main \in Subs /\ Inside \notin Subs /\ NoSub \notin Subs
  BY <1>1, Zenon DEF Walking!CallGraphAssumption, Walking!IsFiniteSet, IsFiniteSet
<1>3. \A p \in Programs : p \in [Subs -> Seq(Seq(Subs \cup {NoSub}))]
  BY <1>1 DEF Walking!CallGraphAssumption
<1>4. \A b \in Bounds : b.depth \in Nat /\ b.nodes \in Nat \ {0} /\ b.edges \in Nat \ {0} /\ b.per \in Nat \ {0}
  BY <1>1 DEF Walking!CallGraphAssumption
<1>5. \A a \in Places : Walking!SubOf(a) \in Subs
  BY <1>2 DEF Places, Walking!SubOf
<1>6. IsFiniteSet(Places) /\ Cardinality(Places) = Cardinality(Subs) + 1
  BY <1>2, FS_AddElement DEF Places
<1>7. Cardinality(Subs) \in Nat
  BY <1>2, FS_CardinalityType
<1> QED BY <1>2, <1>3, <1>4, <1>5, <1>6, <1>7

(* The calls of a function, and those before one of its places.            *)
LEMMA CallPlaces ==
    ASSUME program \in Programs, NEW f \in Subs
    PROVE  /\ \A c \in Walking!CallsOf(f) :
                 /\ c = <<c[1], c[2]>> /\ c[1] \in Nat /\ c[2] \in Nat
                 /\ c[1] \in 1..Len(program[f]) /\ c[2] \in 1..Len(program[f][c[1]])
                 /\ program[f][c[1]][c[2]] # NoSub
           /\ \A i \in 1..Len(program[f]) : \A j \in 1..Len(program[f][i]) :
                 program[f][i][j] # NoSub => <<i, j>> \in Walking!CallsOf(f)
           /\ IsFiniteSet(Walking!CallsOf(f))
<1>1. program[f] \in Seq(Seq(Subs \cup {NoSub}))
  BY GraphConstants
<1>2. DOMAIN program[f] = 1..Len(program[f]) /\ Len(program[f]) \in Nat
  BY <1>1
<1>3. ASSUME NEW i \in 1..Len(program[f])
      PROVE  DOMAIN program[f][i] = 1..Len(program[f][i]) /\ Len(program[f][i]) \in Nat
  <2>1. program[f][i] \in Seq(Subs \cup {NoSub})
    BY <1>1
  <2> QED BY <2>1
<1>4. ASSUME NEW c \in Walking!CallsOf(f)
      PROVE  /\ c = <<c[1], c[2]>> /\ c[1] \in Nat /\ c[2] \in Nat
             /\ c[1] \in 1..Len(program[f]) /\ c[2] \in 1..Len(program[f][c[1]])
             /\ program[f][c[1]][c[2]] # NoSub
  <2>1. PICK i \in 1..Len(program[f]) : c \in Walking!InsnCalls(f, i)
    BY <1>2 DEF Walking!CallsOf
  <2>2. PICK j \in 1..Len(program[f][i]) : c = <<i, j>> /\ program[f][i][j] # NoSub
    BY <1>3, <2>1 DEF Walking!InsnCalls
  <2> QED BY <2>2
<1>5. ASSUME NEW i \in 1..Len(program[f]), NEW j \in 1..Len(program[f][i]), program[f][i][j] # NoSub
      PROVE  <<i, j>> \in Walking!CallsOf(f)
  <2>1. <<i, j>> \in Walking!InsnCalls(f, i)
    BY <1>3, <1>5 DEF Walking!InsnCalls
  <2> QED BY <2>1, <1>2 DEF Walking!CallsOf
<1>6. IsFiniteSet(Walking!CallsOf(f))
  <2> DEFINE R(i) == Walking!InsnCalls(f, i)
             S == {R(i) : i \in 1..Len(program[f])}
  <2>1. ASSUME NEW i \in 1..Len(program[f]) PROVE IsFiniteSet(R(i))
    <3> DEFINE T == 1..Len(program[f][i])
               g == [k \in T |-> <<i, k>>]
    <3>1. Len(program[f][i]) \in Int /\ 1 \in Int
      BY <1>3
    <3>2. IsFiniteSet(T)
      BY <3>1, FS_Interval
    <3>3. g \in Surjection(T, {<<i, k>> : k \in T})
      BY DEF Surjection
    <3>4. IsFiniteSet({<<i, k>> : k \in T})
      BY <3>2, <3>3, FS_Surjection
    <3>5. R(i) \in SUBSET {<<i, k>> : k \in T}
      BY <1>3 DEF Walking!InsnCalls
    <3> QED BY <3>4, <3>5, FS_Subset
  <2>2. IsFiniteSet(S)
    <3> DEFINE T == 1..Len(program[f])
               g == [i \in T |-> R(i)]
    <3>1. IsFiniteSet(T)
      BY <1>2, FS_Interval
    <3>2. g \in Surjection(T, S)
      BY DEF Surjection
    <3> QED BY <3>1, <3>2, FS_Surjection
  <2>3. \A T \in S : IsFiniteSet(T)
    BY <2>1
  <2>4. Walking!CallsOf(f) = UNION S
    BY <1>2 DEF Walking!CallsOf
  <2> HIDE DEF S
  <2> QED BY <2>2, <2>3, <2>4, FS_UNION
<1> QED BY <1>4, <1>5, <1>6

LEMMA CallsPassed ==
    ASSUME program \in Programs, NEW f \in Subs, NEW i \in Nat \ {0}, NEW j \in Nat \ {0}
    PROVE  /\ IsFiniteSet(Walking!CallsBefore(f, i, j))
           /\ Walking!CallsBefore(f, 1, 1) = {}
           /\ i > Len(program[f]) => Walking!CallsBefore(f, i, j) = Walking!CallsOf(f)
           /\ i <= Len(program[f]) /\ j > Len(program[f][i]) =>
                 Walking!CallsBefore(f, i + 1, 1) = Walking!CallsBefore(f, i, j)
<1>1. /\ program[f] \in Seq(Seq(Subs \cup {NoSub})) /\ Len(program[f]) \in Nat
      /\ \A k \in 1..Len(program[f]) : Len(program[f][k]) \in Nat
  BY GraphConstants
<1>2. \A c \in Walking!CallsOf(f) :
         /\ c = <<c[1], c[2]>> /\ c[1] \in Nat /\ c[2] \in Nat
         /\ c[1] \in 1..Len(program[f]) /\ c[2] \in 1..Len(program[f][c[1]])
         /\ program[f][c[1]][c[2]] # NoSub
  BY CallPlaces
<1>3. IsFiniteSet(Walking!CallsBefore(f, i, j))
  <2>1. Walking!CallsBefore(f, i, j) \in SUBSET Walking!CallsOf(f)
    BY DEF Walking!CallsBefore
  <2> QED BY <2>1, CallPlaces, FS_Subset
<1>4. Walking!CallsBefore(f, 1, 1) = {}
  BY <1>2 DEF Walking!CallsBefore
<1>5. i > Len(program[f]) => Walking!CallsBefore(f, i, j) = Walking!CallsOf(f)
  BY <1>1, <1>2 DEF Walking!CallsBefore
<1>6. ASSUME i <= Len(program[f]), j > Len(program[f][i])
      PROVE  Walking!CallsBefore(f, i + 1, 1) = Walking!CallsBefore(f, i, j)
  <2>1. ASSUME NEW c \in Walking!CallsOf(f)
        PROVE  (c[1] < i + 1 \/ (c[1] = i + 1 /\ c[2] < 1)) <=> (c[1] < i \/ (c[1] = i /\ c[2] < j))
    <3>1. /\ c[1] \in Nat /\ c[2] \in Nat /\ c[2] >= 1
          /\ c[1] = i => c[2] <= Len(program[f][i])
      BY <1>2, <1>1
    <3>2. Len(program[f][i]) \in Nat
      BY <1>1, <1>6
    <3> QED BY <3>1, <3>2, <1>6
  <2> QED BY <2>1 DEF Walking!CallsBefore
<1> QED BY <1>3, <1>4, <1>5, <1>6

LEMMA ReferencePassed ==
    ASSUME program \in Programs, NEW f \in Subs,
           NEW i \in 1..Len(program[f]), NEW j \in 1..Len(program[f][i])
    PROVE  /\ program[f][i][j] = NoSub =>
                 Walking!CallsBefore(f, i, j + 1) = Walking!CallsBefore(f, i, j)
           /\ program[f][i][j] # NoSub =>
                 /\ <<i, j>> \in Walking!CallsOf(f)
                 /\ <<i, j>> \notin Walking!CallsBefore(f, i, j)
                 /\ Walking!CallsBefore(f, i, j + 1) = Walking!CallsBefore(f, i, j) \cup {<<i, j>>}
<1>1. Len(program[f]) \in Nat /\ Len(program[f][i]) \in Nat
  BY GraphConstants
<1>2. \A c \in Walking!CallsOf(f) :
         /\ c = <<c[1], c[2]>> /\ c[1] \in Nat /\ c[2] \in Nat
         /\ program[f][c[1]][c[2]] # NoSub
  BY CallPlaces
<1>3. i \in Nat /\ j \in Nat
  BY <1>1
<1>4. ASSUME NEW c \in Walking!CallsOf(f)
      PROVE  (c[1] < i \/ (c[1] = i /\ c[2] < j + 1))
               <=> (c[1] < i \/ (c[1] = i /\ c[2] < j)) \/ c = <<i, j>>
  BY <1>2, <1>3
<1>5. CASE program[f][i][j] = NoSub
  <2>1. <<i, j>> \notin Walking!CallsOf(f)
    BY <1>2, <1>5
  <2> QED BY <1>4, <1>5, <2>1 DEF Walking!CallsBefore
<1>6. CASE program[f][i][j] # NoSub
  <2>1. <<i, j>> \in Walking!CallsOf(f)
    BY <1>6, CallPlaces
  <2>2. <<i, j>> \notin Walking!CallsBefore(f, i, j)
    BY <1>3 DEF Walking!CallsBefore
  <2>3. Walking!CallsBefore(f, i, j + 1) = Walking!CallsBefore(f, i, j) \cup {<<i, j>>}
    BY <1>4, <2>1 DEF Walking!CallsBefore
  <2> QED BY <1>6, <2>1, <2>2, <2>3
<1> QED BY <1>5, <1>6

LEMMA EdgesAreFinite ==
    ASSUME NEW a, NEW k \in Nat
    PROVE  IsFiniteSet(Walking!EdgesBefore(a, k)) /\ Cardinality(Walking!EdgesBefore(a, k)) \in Nat
<1>1. Walking!EdgesBefore(a, k) \in SUBSET (1..(k - 1)) /\ IsFiniteSet(1..(k - 1))
  BY FS_Interval DEF Walking!EdgesBefore
<1> QED BY <1>1, FS_Subset, FS_CardinalityType

LEMMA WalkingCardinality == \A S : Walking!Cardinality(S) = Cardinality(S)
BY DEF Walking!Cardinality, Cardinality, Walking!IsFiniteSet, IsFiniteSet

(* A path that goes on to a function which the last one refers to.         *)
LEMMA ReachedNext ==
    ASSUME NEW f \in Subs, NEW g \in Subs, NEW n \in Nat, Walking!Reached(f, n), Walking!Refers(f, g)
    PROVE  Walking!Reached(g, n + 1)
<1>1. PICK path \in [0..n -> Subs] :
         /\ path[0] = Walking!SubOf(root) /\ path[n] = f
         /\ \A k \in 1..n : path[k] = path[k - 1] \/ Walking!Refers(path[k - 1], path[k])
  BY DEF Walking!Reached
<1> DEFINE longer == [k \in 0..(n + 1) |-> IF k <= n THEN path[k] ELSE g]
<1>2. /\ longer \in [0..(n + 1) -> Subs]
      /\ longer[0] = Walking!SubOf(root) /\ longer[n + 1] = g
  BY <1>1
<1>3. ASSUME NEW k \in 1..(n + 1)
      PROVE  longer[k] = longer[k - 1] \/ Walking!Refers(longer[k - 1], longer[k])
  <2>1. CASE k \in 1..n
    <3>1. longer[k] = path[k] /\ longer[k - 1] = path[k - 1]
      BY <2>1
    <3> QED BY <1>1, <2>1, <3>1
  <2>2. CASE k = n + 1
    <3>1. longer[k] = g /\ longer[k - 1] = f
      BY <1>1, <2>2
    <3> QED BY <3>1
  <2> QED BY <2>1, <2>2
<1> HIDE DEF longer
<1> QED BY <1>2, <1>3 DEF Walking!Reached

LEMMA GraphInit == ASSUME Walking!Init PROVE GraphInv
<1> DEFINE f == Walking!SubOf(root)
<1>1. /\ program \in Programs /\ bounds \in Bounds /\ root \in {Main, Inside}
      /\ nodes = [a \in {root} |-> 0] /\ edges = <<>> /\ walk = <<Walking!Frame(root, 0)>>
      /\ truncated = FALSE
  BY DEF Walking!Init
<1>2. root \in Places /\ f \in Subs
  BY <1>1, GraphConstants DEF Places
<1>3. Walking!Frame(root, 0) \in GraphFrames
  BY <1>2 DEF Walking!Frame, GraphFrames
<1>4. GraphTypes
  <2> DEFINE G == GraphFrames
  <2>1. Walking!Frame(root, 0) \in G
    BY <1>3
  <2> HIDE DEF G
  <2>2. <<Walking!Frame(root, 0)>> \in Seq(G)
    BY <2>1
  <2>3. <<>> \in Seq(Places \X Subs)
    OBVIOUS
  <2>4. /\ DOMAIN nodes = {root} /\ nodes \in [{root} -> Nat] /\ truncated \in BOOLEAN /\ ~truncated
        /\ {root} \subseteq Places
    BY <1>1, <1>2
  <2> QED BY <1>1, <2>2, <2>3, <2>4 DEF GraphTypes, G
<1>5. DOMAIN nodes = {root} /\ nodes[root] = 0 /\ Cardinality(DOMAIN nodes) = 1
  BY <1>1, FS_Singleton
<1>6. Len(edges) = 0 /\ \A a : Walking!EdgesOf(a) = {}
  BY <1>1 DEF Walking!EdgesOf, Walking!EdgesBefore
<1>7. Cardinality({}) = 0
  BY FS_EmptySet
<1>8. Walking!CallsBefore(f, 1, 1) = {}
  <2> HIDE DEF f
  <2>1. 1 \in Nat \ {0}
    OBVIOUS
  <2> QED BY <1>1, <1>2, <2>1, CallsPassed
<1>9. /\ Len(program[f]) \in Nat
      /\ 1 <= Len(program[f]) => Len(program[f][1]) \in Nat
  BY <1>1, <1>2, GraphConstants
<1>10. WalkFits
  <2> DEFINE t == Walking!Frame(root, 0)
  <2>1. t.at = root /\ t.depth = 0 /\ t.insn = 1 /\ t.ref = 1 /\ t.added = 0
    BY DEF Walking!Frame
  <2> HIDE DEF t
  <2>2. FrameFits(t)
    <3>1. Walking!SubOf(t.at) = f
      BY <2>1
    <3> HIDE DEF f
    <3>2. 1 <= Len(program[f]) + 1 /\ (1 <= Len(program[f]) => 1 <= Len(program[f][1]) + 1)
      BY <1>9
    <3>3. Cardinality(Walking!EdgesOf(root)) = 0 /\ Cardinality(Walking!CallsBefore(f, 1, 1)) = 0
      BY <1>6, <1>7, <1>8
    <3> QED BY <2>1, <1>5, <3>1, <3>2, <3>3 DEF FrameFits
  <2>3. Len(walk) = 1 /\ walk[1] = t
    BY <1>1 DEF t
  <2> QED BY <2>2, <2>3 DEF WalkFits
<1>11. NodesAreTrue
  <2>1. Walking!Reached(f, 0)
    <3> DEFINE path == [k \in 0..0 |-> f]
    <3>1. path \in [0..0 -> Subs] /\ path[0] = f
      BY <1>2
    <3> HIDE DEF path
    <3> QED BY <3>1 DEF Walking!Reached
  <2>2. bounds.depth \in Nat /\ bounds.per \in Nat
    BY <1>1, GraphConstants
  <2> QED BY <2>1, <2>2, <1>5, <1>6, <1>7 DEF NodesAreTrue
<1>12. EdgesAreTrue /\ LimitsAreKept
  <2>1. bounds.nodes \in Nat \ {0} /\ bounds.edges \in Nat
    BY <1>1, GraphConstants
  <2> QED BY <2>1, <1>5, <1>6 DEF EdgesAreTrue, LimitsAreKept
<1>13. NothingIsLeft
  <2>1. Len(walk) = 1 /\ walk[1].at = root
    BY <1>1 DEF Walking!Frame
  <2> QED BY <2>1, <1>5, <1>6 DEF NothingIsLeft
<1> QED BY <1>4, <1>10, <1>11, <1>12, <1>13 DEF GraphInv

LEMMA GraphStays == ASSUME GraphInv, UNCHANGED graphVars PROVE GraphInv'
<1>1. /\ program' = program /\ bounds' = bounds /\ root' = root /\ nodes' = nodes /\ edges' = edges
      /\ walk' = walk /\ truncated' = truncated
  BY DEF graphVars
<1>2. /\ \A a : Walking!EdgesOf(a)' = Walking!EdgesOf(a)
      /\ \A a, k : Walking!EdgesBefore(a, k)' = Walking!EdgesBefore(a, k)
      /\ \A f : Walking!CallsOf(f)' = Walking!CallsOf(f)
      /\ \A f, i, j : Walking!CallsBefore(f, i, j)' = Walking!CallsBefore(f, i, j)
  BY <1>1 DEF Walking!EdgesOf, Walking!EdgesBefore, Walking!CallsBefore, Walking!CallsOf,
     Walking!InsnCalls
<1>3. GraphTypes'
  BY <1>1 DEF GraphInv, GraphTypes
<1>4. WalkFits'
  BY <1>1, <1>2 DEF GraphInv, WalkFits, FrameFits
<1>5. NodesAreTrue'
  BY <1>1, <1>2 DEF GraphInv, NodesAreTrue, Walking!Reached, Walking!Refers
<1>6. EdgesAreTrue'
  BY <1>1, <1>2 DEF GraphInv, EdgesAreTrue, EdgeIsTrue, Walking!IsEdge
<1>7. LimitsAreKept' /\ NothingIsLeft'
  BY <1>1, <1>2 DEF GraphInv, LimitsAreKept, NothingIsLeft, Finished, Followed
<1> QED BY <1>3, <1>4, <1>5, <1>6, <1>7 DEF GraphInv

(* The innermost call of the walk.                                         *)
LEMMA TopOfWalk ==
    ASSUME GraphInv, walk # <<>>
    PROVE  /\ Len(walk) \in Nat /\ Len(walk) >= 1 /\ Walking!Top \in GraphFrames
           /\ Walking!Top = walk[Len(walk)] /\ FrameFits(Walking!Top)
           /\ Walking!Return \in Seq(GraphFrames) /\ Len(Walking!Return) = Len(walk) - 1
           /\ \A m \in 1..(Len(walk) - 1) :
                 /\ Walking!Return[m] = walk[m] /\ FrameFits(walk[m])
                 /\ walk[m].at # Walking!Top.at
           /\ ~truncated
<1> DEFINE G == GraphFrames
<1>1. walk \in Seq(G) /\ walk # <<>>
  BY DEF GraphInv, GraphTypes
<1> HIDE DEF G
<1>2. Len(walk) \in Nat /\ Len(walk) >= 1 /\ walk[Len(walk)] \in G
  BY <1>1
<1>3. /\ SubSeq(walk, 1, Len(walk) - 1) \in Seq(G) /\ Len(SubSeq(walk, 1, Len(walk) - 1)) = Len(walk) - 1
      /\ \A m \in 1..(Len(walk) - 1) : SubSeq(walk, 1, Len(walk) - 1)[m] = walk[m]
  <2> DEFINE n == Len(walk) - 1
  <2>2. n \in Nat /\ n <= Len(walk)
    BY <1>2
  <2> HIDE DEF n
  <2>3. /\ SubSeq(walk, 1, n) \in Seq(G) /\ Len(SubSeq(walk, 1, n)) = n
        /\ \A m \in 1..n : SubSeq(walk, 1, n)[m] = walk[m]
    BY <1>1, <2>2
  <2> QED BY <2>3 DEF n
<1>4. /\ FrameFits(walk[Len(walk)])
      /\ \A m \in 1..(Len(walk) - 1) : FrameFits(walk[m]) /\ walk[m].at # walk[Len(walk)].at
  <2>1. Len(walk) \in 1..Len(walk) /\ \A m \in 1..(Len(walk) - 1) : m \in 1..Len(walk) /\ m # Len(walk)
    BY <1>2
  <2> QED BY <2>1, Zenon DEF GraphInv, WalkFits
<1>5. ~truncated
  BY DEF GraphInv, GraphTypes
<1> QED BY <1>2, <1>3, <1>4, <1>5 DEF Walking!Top, Walking!Return, G

(* A step within a function, or out of one that is finished.               *)
LEMMA GraphSame ==
    ASSUME UNCHANGED <<program, root, edges>>
    PROVE  /\ \A a : Walking!EdgesOf(a)' = Walking!EdgesOf(a)
           /\ \A f : Walking!CallsOf(f)' = Walking!CallsOf(f)
           /\ \A f, i, j : Walking!CallsBefore(f, i, j)' = Walking!CallsBefore(f, i, j)
           /\ \A f, n : Walking!Reached(f, n)' <=> Walking!Reached(f, n)
           /\ \A a, k, c : Walking!IsEdge(a, k, c)' <=> Walking!IsEdge(a, k, c)
BY DEF Walking!EdgesOf, Walking!EdgesBefore, Walking!CallsBefore, Walking!CallsOf, Walking!InsnCalls,
   Walking!Reached, Walking!Refers, Walking!IsEdge

LEMMA WalkOnly ==
    ASSUME GraphInv, UNCHANGED <<program, bounds, root, nodes, edges>>
    PROVE  NodesAreTrue' /\ EdgesAreTrue' /\ LimitsAreKept'
<1>1. NodesAreTrue'
  BY GraphSame DEF GraphInv, NodesAreTrue
<1>2. EdgesAreTrue'
  BY GraphSame DEF GraphInv, EdgesAreTrue, EdgeIsTrue
<1>3. LimitsAreKept'
  BY DEF GraphInv, LimitsAreKept
<1> QED BY <1>1, <1>2, <1>3

LEMMA TopMoves ==
    ASSUME GraphInv, walk # <<>>, UNCHANGED <<program, bounds, root, nodes, edges, truncated>>,
           NEW t \in GraphFrames, t.at = Walking!Top.at, FrameFits(t),
           walk' = Append(Walking!Return, t)
    PROVE  GraphInv'
<1> DEFINE G == GraphFrames
<1>1. /\ Len(walk) \in Nat /\ Len(walk) >= 1 /\ Walking!Return \in Seq(G) /\ t \in G
      /\ Len(Walking!Return) = Len(walk) - 1 /\ Walking!Top.at = walk[Len(walk)].at
      /\ \A m \in 1..(Len(walk) - 1) :
            Walking!Return[m] = walk[m] /\ FrameFits(walk[m]) /\ walk[m].at # Walking!Top.at
      /\ ~truncated
  BY TopOfWalk
<1> HIDE DEF G
<1>2. /\ walk' \in Seq(G) /\ Len(walk') = Len(walk) /\ walk'[Len(walk)] = t
      /\ \A m \in 1..(Len(walk) - 1) : walk'[m] = walk[m]
  BY <1>1
<1>3. GraphTypes'
  BY <1>1, <1>2 DEF GraphInv, GraphTypes, G
<1>4. \A x : FrameFits(x) => FrameFits(x)'
  <2>1. \A a : Walking!EdgesOf(a)' = Walking!EdgesOf(a)
    BY GraphSame
  <2>2. \A f, i, j : Walking!CallsBefore(f, i, j)' = Walking!CallsBefore(f, i, j)
    BY GraphSame
  <2> QED BY <2>1, <2>2 DEF FrameFits
<1>5. \A m \in 1..Len(walk) : walk'[m].at = walk[m].at
  <2>1. \A m \in 1..Len(walk) : m = Len(walk) \/ m \in 1..(Len(walk) - 1)
    BY <1>1
  <2> QED BY <2>1, <1>1, <1>2
<1>6. WalkFits'
  <2>1. ASSUME NEW m \in 1..Len(walk) PROVE FrameFits(walk[m])'
    <3>1. CASE m = Len(walk)
      <4>1. FrameFits(t)'
        BY <1>4
      <4> QED BY <4>1, <3>1, <1>2 DEF FrameFits
    <3>2. CASE m # Len(walk)
      <4>1. m \in 1..(Len(walk) - 1)
        BY <3>2, <1>1
      <4>2. PICK x : x = walk[m]
        OBVIOUS
      <4>3. FrameFits(x) /\ walk'[m] = x
        BY <4>1, <4>2, <1>1, <1>2
      <4>4. FrameFits(x)'
        BY <4>3, <1>4
      <4> QED BY <4>3, <4>4 DEF FrameFits
    <3> QED BY <3>1, <3>2
  <2>2. \A m, n \in 1..Len(walk) : walk[m].at = walk[n].at => m = n
    BY DEF GraphInv, WalkFits
  <2>3. \A m, n \in 1..Len(walk) : walk'[m].at = walk'[n].at => m = n
    BY <2>2, <1>5, Zenon
  <2>4. Len(walk') = Len(walk)
    BY <1>2
  <2>5. \A m \in 1..Len(walk') : FrameFits(walk[m])'
    BY <2>1, <2>4
  <2> QED BY <2>3, <2>4, <2>5, Zenon DEF WalkFits
<1>7. NothingIsLeft'
  <2>1. ASSUME NEW a \in DOMAIN nodes, ~Finished(a) PROVE \E m \in 1..Len(walk') : walk'[m].at = a
    <3>1. PICK m \in 1..Len(walk) : walk[m].at = a
      BY <1>1, <2>1 DEF GraphInv, NothingIsLeft
    <3> QED BY <3>1, <1>2, <1>5
  <2>2. \A k \in 1..Len(edges) : Followed(k)
    BY <1>1 DEF GraphInv, NothingIsLeft
  <2> QED BY <2>1, <2>2, GraphSame DEF NothingIsLeft, Finished, Followed
<1> QED BY <1>3, <1>6, <1>7, WalkOnly DEF GraphInv

LEMMA TopReturns ==
    ASSUME GraphInv, walk # <<>>, UNCHANGED <<program, bounds, root, nodes, edges, truncated>>,
           Finished(Walking!Top.at), walk' = Walking!Return
    PROVE  GraphInv'
<1>1. /\ Len(walk) \in Nat /\ Len(walk) >= 1 /\ walk' \in Seq(GraphFrames)
      /\ Len(walk') = Len(walk) - 1 /\ Walking!Top.at = walk[Len(walk)].at
      /\ \A m \in 1..(Len(walk) - 1) : walk'[m] = walk[m] /\ FrameFits(walk[m])
      /\ ~truncated
  BY TopOfWalk
<1>2. GraphTypes'
  BY <1>1 DEF GraphInv, GraphTypes
<1>3. \A m \in 1..Len(walk') : m \in 1..Len(walk) /\ m \in 1..(Len(walk) - 1)
  BY <1>1
<1>4. WalkFits'
  <2>1. ASSUME NEW m \in 1..Len(walk') PROVE FrameFits(walk[m])'
    <3>1. FrameFits(walk[m]) /\ walk'[m] = walk[m]
      BY <1>1, <1>3
    <3> QED BY <3>1, GraphSame DEF FrameFits
  <2>2. \A m, n \in 1..Len(walk') : walk'[m].at = walk'[n].at => m = n
    <3>1. \A m, n \in 1..Len(walk) : walk[m].at = walk[n].at => m = n
      BY DEF GraphInv, WalkFits
    <3> QED BY <3>1, <1>1, <1>3
  <2> QED BY <2>1, <2>2, Zenon DEF WalkFits
<1>5. NothingIsLeft'
  <2>1. ASSUME NEW a \in DOMAIN nodes, ~Finished(a) PROVE \E m \in 1..Len(walk') : walk'[m].at = a
    <3>1. PICK m \in 1..Len(walk) : walk[m].at = a
      BY <1>1, <2>1 DEF GraphInv, NothingIsLeft
    <3>2. m # Len(walk)
      BY <2>1, <3>1, <1>1
    <3>3. m \in 1..Len(walk') /\ m \in 1..(Len(walk) - 1)
      BY <1>1, <3>2
    <3> QED BY <3>1, <3>3, <1>1
  <2> QED BY <2>1, GraphSame DEF GraphInv, NothingIsLeft, Finished, Followed
<1> QED BY <1>2, <1>4, <1>5, WalkOnly DEF GraphInv

LEMMA FunctionTypes ==
    ASSUME GraphInv, NEW t \in GraphFrames
    PROVE  LET f == Walking!SubOf(t.at) IN
           /\ f \in Subs /\ program \in Programs
           /\ program[f] \in Seq(Seq(Subs \cup {NoSub})) /\ Len(program[f]) \in Nat
           /\ t.insn \in Nat \ {0} /\ t.ref \in Nat \ {0} /\ t.at \in Places /\ t.depth \in Nat
           /\ t = [at |-> t.at, depth |-> t.depth, insn |-> t.insn, ref |-> t.ref, added |-> t.added]
           /\ \A i \in 1..Len(program[f]) : Len(program[f][i]) \in Nat
<1> DEFINE f == Walking!SubOf(t.at)
<1>1. /\ t.insn \in Nat \ {0} /\ t.ref \in Nat \ {0} /\ t.at \in Places /\ t.depth \in Nat
      /\ t = [at |-> t.at, depth |-> t.depth, insn |-> t.insn, ref |-> t.ref, added |-> t.added]
  BY DEF GraphFrames
<1>2. f \in Subs /\ program \in Programs
  BY <1>1, GraphConstants DEF GraphInv, GraphTypes
<1> HIDE DEF f
<1>3. program[f] \in Seq(Seq(Subs \cup {NoSub}))
  BY <1>2, GraphConstants
<1>4. Len(program[f]) \in Nat /\ \A i \in 1..Len(program[f]) : program[f][i] \in Seq(Subs \cup {NoSub})
  BY <1>3
<1>5. \A i \in 1..Len(program[f]) : Len(program[f][i]) \in Nat
  BY <1>4
<1> QED BY <1>1, <1>2, <1>3, <1>4, <1>5 DEF f

LEMMA NextInstructionNext == ASSUME GraphInv, Walking!NextInstruction PROVE GraphInv'
<1> DEFINE t == Walking!Top
           f == Walking!SubOf(t.at)
<1>1. /\ walk # <<>> /\ UNCHANGED <<program, bounds, root, nodes, edges, truncated>>
      /\ ~Walking!AtReference
  BY DEF Walking!NextInstruction, Walking!Going
<1>2. t \in GraphFrames /\ FrameFits(t)
  BY <1>1, TopOfWalk
<1>3. /\ f \in Subs /\ program \in Programs /\ Len(program[f]) \in Nat
      /\ t.insn \in Nat \ {0} /\ t.ref \in Nat \ {0}
      /\ \A i \in 1..Len(program[f]) : Len(program[f][i]) \in Nat
  BY <1>2, FunctionTypes
<1>4. CASE Walking!Ended
  <2>1. t.insn > Len(program[f])
    BY <1>4 DEF Walking!Ended, Walking!Insns
  <2>2. Walking!CallsBefore(f, t.insn, t.ref) = Walking!CallsOf(f)
    <3> HIDE DEF t, f
    <3> QED BY <2>1, <1>3, CallsPassed
  <2>3. Finished(t.at)
    BY <1>2, <2>2 DEF FrameFits, Finished
  <2>4. walk' = Walking!Return
    BY <1>4 DEF Walking!NextInstruction
  <2> QED BY <1>1, <2>3, <2>4, TopReturns
<1>5. CASE Walking!Full
  <2>1. Finished(t.at)
    BY <1>2, <1>5 DEF FrameFits, Finished, Walking!Full
  <2>2. walk' = Walking!Return
    BY <1>5 DEF Walking!NextInstruction
  <2> QED BY <1>1, <2>1, <2>2, TopReturns
<1>6. CASE ~Walking!Ended /\ ~Walking!Full
  <2> DEFINE u == [t EXCEPT !.insn = @ + 1, !.ref = 1]
  <2>1. walk' = Append(Walking!Return, u)
    BY <1>6 DEF Walking!NextInstruction
  <2>2. t = [at |-> t.at, depth |-> t.depth, insn |-> t.insn, ref |-> t.ref, added |-> t.added]
    BY <1>2 DEF GraphFrames
  <2>3. u = [at |-> t.at, depth |-> t.depth, insn |-> t.insn + 1, ref |-> 1, added |-> t.added]
    <3> HIDE DEF t
    <3>1. PICK w : w = [t EXCEPT !.insn = t.insn + 1]
      OBVIOUS
    <3>2. w = [at |-> t.at, depth |-> t.depth, insn |-> t.insn + 1, ref |-> t.ref, added |-> t.added]
      BY <2>2, <3>1
    <3>3. [w EXCEPT !.ref = 1]
            = [at |-> t.at, depth |-> t.depth, insn |-> t.insn + 1, ref |-> 1, added |-> t.added]
      BY <3>2
    <3> QED BY <3>1, <3>3
  <2>4. /\ t.insn <= Len(program[f]) /\ t.ref > Len(program[f][t.insn])
    <3>1. t.insn <= Len(program[f])
      BY <1>6, <1>3 DEF Walking!Ended, Walking!Insns
    <3>2. t.insn \in 1..Len(program[f])
      BY <3>1, <1>3
    <3>3. Len(program[f][t.insn]) \in Nat
      BY <3>2, <1>3
    <3>4. ~(t.ref <= Len(program[f][t.insn]))
      BY <1>1, <1>6 DEF Walking!AtReference, Walking!Insns
    <3> QED BY <3>1, <3>3, <3>4, <1>3
  <2>5. u \in GraphFrames /\ u.at = t.at
    BY <2>3, <1>2 DEF GraphFrames
  <2>6. Walking!CallsBefore(f, t.insn + 1, 1) = Walking!CallsBefore(f, t.insn, t.ref)
    <3> HIDE DEF t, f
    <3> QED BY <2>4, <1>3, CallsPassed
  <2>7. FrameFits(u)
    <3>1. u.at = t.at /\ u.depth = t.depth /\ u.insn = t.insn + 1 /\ u.ref = 1 /\ u.added = t.added
      BY <2>3
    <3>2. t.insn + 1 <= Len(program[f]) => 1 <= Len(program[f][t.insn + 1]) + 1
      BY <1>3
    <3>3. t.insn + 1 <= Len(program[f]) + 1
      BY <2>4, <1>3
    <3> HIDE DEF u, t
    <3> QED BY <3>1, <3>2, <3>3, <2>6, <1>2 DEF FrameFits
  <2> HIDE DEF u
  <2> QED BY <1>1, <2>1, <2>5, <2>7, TopMoves
<1> QED BY <1>4, <1>5, <1>6

LEMMA CapFunctionNext == ASSUME GraphInv, Walking!CapFunction PROVE GraphInv'
<1>1. /\ walk # <<>> /\ UNCHANGED <<program, bounds, root, nodes, edges, truncated>>
      /\ Walking!Full /\ walk' = Walking!Return
  BY DEF Walking!CapFunction, Walking!Going
<1>2. FrameFits(Walking!Top)
  BY <1>1, TopOfWalk
<1>3. Finished(Walking!Top.at)
  BY <1>1, <1>2 DEF FrameFits, Finished, Walking!Full
<1> QED BY <1>1, <1>3, TopReturns

LEMMA CutEdgesNext == ASSUME GraphInv, Walking!CutEdges PROVE GraphInv'
<1>1. /\ UNCHANGED <<program, bounds, root, nodes, edges>> /\ truncated' = TRUE /\ walk' = <<>>
  BY DEF Walking!CutEdges, Walking!Going
<1>2. GraphTypes' /\ WalkFits' /\ NothingIsLeft'
  BY <1>1 DEF GraphInv, GraphTypes, WalkFits, NothingIsLeft
<1> QED BY <1>1, <1>2, WalkOnly DEF GraphInv

(* The reference that the walk has come to.                                *)
LEMMA ReferenceIsPlace ==
    ASSUME GraphInv, walk # <<>>, Walking!AtReference
    PROVE  LET t == Walking!Top
               f == Walking!SubOf(t.at) IN
           /\ t.insn \in 1..Len(program[f]) /\ t.ref \in 1..Len(program[f][t.insn])
           /\ Walking!Reference = program[f][t.insn][t.ref]
           /\ Walking!Reference \in Subs \cup {NoSub}
           /\ Walking!Past = [at |-> t.at, depth |-> t.depth, insn |-> t.insn, ref |-> t.ref + 1,
                             added |-> t.added]
<1> DEFINE t == Walking!Top
           f == Walking!SubOf(t.at)
<1>1. t \in GraphFrames
  BY TopOfWalk
<1>2. /\ f \in Subs /\ program[f] \in Seq(Seq(Subs \cup {NoSub})) /\ Len(program[f]) \in Nat
      /\ t.insn \in Nat \ {0} /\ t.ref \in Nat \ {0}
      /\ t = [at |-> t.at, depth |-> t.depth, insn |-> t.insn, ref |-> t.ref, added |-> t.added]
      /\ \A i \in 1..Len(program[f]) : Len(program[f][i]) \in Nat
  BY <1>1, FunctionTypes
<1>3. ~(t.insn > Len(program[f])) /\ t.ref <= Len(program[f][t.insn])
  BY DEF Walking!AtReference, Walking!Ended, Walking!Insns
<1>4. Walking!Reference = program[f][t.insn][t.ref] /\ Walking!Past = [t EXCEPT !.ref = t.ref + 1]
  BY DEF Walking!Reference, Walking!Insns, Walking!Past
<1> HIDE DEF t, f
<1>5. t.insn \in 1..Len(program[f])
  BY <1>2, <1>3
<1>6. t.ref \in 1..Len(program[f][t.insn])
  BY <1>2, <1>3, <1>5
<1>7. program[f][t.insn] \in Seq(Subs \cup {NoSub})
  BY <1>2, <1>5
<1>8. program[f][t.insn][t.ref] \in Subs \cup {NoSub}
  BY <1>6, <1>7
<1>9. [t EXCEPT !.ref = t.ref + 1]
        = [at |-> t.at, depth |-> t.depth, insn |-> t.insn, ref |-> t.ref + 1, added |-> t.added]
  BY <1>2
<1> QED BY <1>4, <1>5, <1>6, <1>8, <1>9 DEF t, f

LEMMA PassReferenceNext == ASSUME GraphInv, Walking!PassReference PROVE GraphInv'
<1> DEFINE t == Walking!Top
           f == Walking!SubOf(t.at)
           u == Walking!Past
<1>1. /\ walk # <<>> /\ UNCHANGED <<program, bounds, root, nodes, edges, truncated>>
      /\ Walking!AtReference /\ Walking!Reference = NoSub
      /\ walk' = Append(Walking!Return, Walking!Past)
  BY DEF Walking!PassReference, Walking!Going
<1>2. t \in GraphFrames /\ FrameFits(t)
  BY <1>1, TopOfWalk
<1>3. /\ f \in Subs /\ program \in Programs
      /\ t.insn \in Nat \ {0} /\ t.ref \in Nat \ {0} /\ t.at \in Places /\ t.depth \in Nat
      /\ Len(program[f]) \in Nat
      /\ \A i \in 1..Len(program[f]) : Len(program[f][i]) \in Nat
  BY <1>2, FunctionTypes
<1>4. /\ t.insn \in 1..Len(program[f]) /\ t.ref \in 1..Len(program[f][t.insn])
      /\ program[f][t.insn][t.ref] = NoSub
      /\ u = [at |-> t.at, depth |-> t.depth, insn |-> t.insn, ref |-> t.ref + 1, added |-> t.added]
  BY <1>1, ReferenceIsPlace
<1>5. t.added \in Nat
  BY <1>2 DEF GraphFrames
<1> HIDE DEF t, f, u
<1>6. Walking!CallsBefore(f, t.insn, t.ref + 1) = Walking!CallsBefore(f, t.insn, t.ref)
  <2>1. PICK o, i, j : o = f /\ i = t.insn /\ j = t.ref
    OBVIOUS
  <2>2. program \in Programs /\ o \in Subs
    BY <1>3, <2>1
  <2>3. i \in 1..Len(program[o]) /\ j \in 1..Len(program[o][i]) /\ program[o][i][j] = NoSub
    BY <1>4, <2>1
  <2>4. Walking!CallsBefore(o, i, j + 1) = Walking!CallsBefore(o, i, j)
    BY <2>2, <2>3, ReferencePassed, Zenon
  <2> QED BY <2>1, <2>4, Zenon
<1>7. u \in GraphFrames
  BY <1>3, <1>4, <1>5 DEF GraphFrames
<1>8. FrameFits(u)
  <2>1. u.at = t.at /\ u.depth = t.depth /\ u.insn = t.insn /\ u.ref = t.ref + 1 /\ u.added = t.added
    BY <1>4
  <2>2. Len(program[f][t.insn]) \in Nat
    BY <1>3, <1>4
  <2>3. t.ref + 1 <= Len(program[f][t.insn]) + 1 /\ t.insn <= Len(program[f]) + 1
    <3>1. t.insn \in Nat /\ t.ref \in Nat /\ Len(program[f]) \in Nat
      BY <1>3
    <3>2. t.insn \in 1..Len(program[f]) /\ t.ref \in 1..Len(program[f][t.insn])
      BY <1>4
    <3>3. PICK l, m, q, z : l = Len(program[f]) /\ m = Len(program[f][t.insn]) /\ q = t.ref /\ z = t.insn
      OBVIOUS
    <3>4. l \in Nat /\ m \in Nat /\ q \in 1..m /\ z \in 1..l
      BY <2>2, <3>1, <3>2, <3>3, Zenon
    <3>5. q + 1 <= m + 1 /\ z <= l + 1
      BY <3>4
    <3> QED BY <3>3, <3>5, Zenon
  <2>4. Walking!SubOf(u.at) = f
    BY <2>1 DEF f
  <2>5. /\ t.at \in DOMAIN nodes /\ t.depth = nodes[t.at] /\ t.added = Cardinality(Walking!EdgesOf(t.at))
        /\ t.added = Cardinality(Walking!CallsBefore(f, t.insn, t.ref))
    BY <1>2 DEF FrameFits, f
  <2> QED BY <2>1, <2>3, <2>4, <2>5, <1>6 DEF FrameFits
<1>9. u.at = t.at
  BY <1>4
<1> QED BY <1>1, <1>7, <1>8, <1>9, TopMoves DEF t, u

(* A new edge is the last of those from the top of the walk.               *)
LEMMA EdgeAdded ==
    ASSUME edges \in Seq(Places \X Subs), NEW x \in Places, NEW g \in Subs,
           edges' = Append(edges, <<x, g>>), UNCHANGED <<program, root>>
    PROVE  /\ Len(edges) \in Nat /\ edges' \in Seq(Places \X Subs) /\ Len(edges') = Len(edges) + 1
           /\ edges'[Len(edges) + 1] = <<x, g>>
           /\ \A k \in 1..Len(edges) : edges'[k] = edges[k]
           /\ \A a : a # x => Walking!EdgesOf(a)' = Walking!EdgesOf(a)
           /\ Cardinality(Walking!EdgesOf(x)') = Cardinality(Walking!EdgesOf(x)) + 1
           /\ \A k : k = Len(edges) + 1 => Walking!EdgesBefore(x, k)' = Walking!EdgesOf(x)
           /\ \A k \in 1..Len(edges) : \A a, c : Walking!IsEdge(a, k, c) => Walking!IsEdge(a, k, c)'
<1>0. PICK n : n = Len(edges)
  OBVIOUS
<1>1. /\ n \in Nat /\ edges' \in Seq(Places \X Subs) /\ Len(edges') = n + 1
      /\ edges'[n + 1] = <<x, g>>
      /\ \A k \in 1..n : edges'[k] = edges[k]
  <2> DEFINE P == Places \X Subs
  <2>1. <<x, g>> \in P /\ edges \in Seq(P)
    OBVIOUS
  <2> HIDE DEF P
  <2> QED BY <2>1, <1>0 DEF P
<1>2. edges'[n + 1][1] = x
  BY <1>1
<1>3. \A a : \A k \in 1..(n + 1) : Walking!EdgesBefore(a, k)' = Walking!EdgesBefore(a, k)
  <2>1. ASSUME NEW a, NEW k \in 1..(n + 1)
        PROVE  {l \in 1..(k - 1) : edges'[l][1] = a} = {l \in 1..(k - 1) : edges[l][1] = a}
    <3>1. \A l \in 1..(k - 1) : l \in 1..n
      BY <1>1
    <3> QED BY <3>1, <1>1
  <2> QED BY <2>1 DEF Walking!EdgesBefore
<1>4. \A a : Walking!EdgesOf(a) = Walking!EdgesBefore(a, n + 1)
  BY <1>0 DEF Walking!EdgesOf
<1>5. \A a : Walking!EdgesOf(a)' = {l \in 1..(n + 1) : edges'[l][1] = a}
  BY <1>1 DEF Walking!EdgesOf, Walking!EdgesBefore
<1>6. \A a : Walking!EdgesOf(a) = {l \in 1..n : edges'[l][1] = a}
  <2>1. ASSUME NEW a PROVE {l \in 1..n : edges[l][1] = a} = {l \in 1..n : edges'[l][1] = a}
    BY <1>1
  <2> QED BY <2>1, <1>1, <1>4 DEF Walking!EdgesBefore
<1>7. \A a : a # x => Walking!EdgesOf(a)' = Walking!EdgesOf(a)
  <2>1. ASSUME NEW a, a # x
        PROVE  {l \in 1..(n + 1) : edges'[l][1] = a} = {l \in 1..n : edges'[l][1] = a}
    <3>1. \A l \in 1..(n + 1) : l \in 1..n \/ l = n + 1
      BY <1>1
    <3>2. \A l \in 1..n : l \in 1..(n + 1)
      BY <1>1
    <3> QED BY <2>1, <3>1, <3>2, <1>2
  <2> QED BY <2>1, <1>5, <1>6
<1>8. Walking!EdgesOf(x)' = Walking!EdgesOf(x) \cup {n + 1} /\ n + 1 \notin Walking!EdgesOf(x)
  BY <1>1, <1>2, <1>5, <1>6
<1>9. Cardinality(Walking!EdgesOf(x)') = Cardinality(Walking!EdgesOf(x)) + 1
  <2>1. IsFiniteSet(Walking!EdgesOf(x))
    BY <1>1, <1>4, EdgesAreFinite
  <2> QED BY <2>1, <1>8, FS_AddElement
<1>10. ASSUME NEW k \in 1..n, NEW a, NEW c, Walking!IsEdge(a, k, c) PROVE Walking!IsEdge(a, k, c)'
  <2>1. edges'[k] = edges[k] /\ k \in 1..(n + 1)
    BY <1>1
  <2>2. Walking!EdgesBefore(a, k)' = Walking!EdgesBefore(a, k)
    BY <2>1, <1>3
  <2>3. \A f, i, j : Walking!CallsBefore(f, i, j)' = Walking!CallsBefore(f, i, j)
    BY DEF Walking!CallsBefore, Walking!CallsOf, Walking!InsnCalls
  <2> QED BY <1>10, <2>1, <2>2, <2>3 DEF Walking!IsEdge
<1>11. \A k : k = n + 1 => Walking!EdgesBefore(x, k)' = Walking!EdgesOf(x)
  <2>1. n + 1 \in 1..(n + 1)
    BY <1>1
  <2> QED BY <2>1, <1>3, <1>4
<1> QED BY <1>0, <1>1, <1>7, <1>9, <1>10, <1>11

(* What a followed reference leaves, whether or not its function is        *)
(* visited: the edges are true, and the top of the walk has one more.      *)
LEMMA ReferenceFollowed ==
    ASSUME GraphInv, Walking!FollowReference
    PROVE  LET t == Walking!Top
               g == Walking!Reference
               u == [Walking!Past EXCEPT !.added = @ + 1] IN
           /\ walk # <<>> /\ UNCHANGED <<program, bounds, root>>
           /\ t \in GraphFrames /\ g \in Subs /\ Walking!Refers(Walking!SubOf(t.at), g)
           /\ t.at \in DOMAIN nodes /\ t.depth = nodes[t.at] /\ t.depth \in Nat
           /\ Walking!Visit(g, t.depth + 1, Append(Walking!Return, u))
           /\ u \in GraphFrames /\ u.at = t.at
           /\ edges' \in Seq(Places \X Subs) /\ Len(edges) \in Nat /\ Len(edges') = Len(edges) + 1
           /\ Len(edges') <= bounds.edges
           /\ edges'[Len(edges) + 1] = <<t.at, g>>
           /\ \A k \in 1..Len(edges) : edges'[k] = edges[k]
           /\ \A a : a # t.at => Walking!EdgesOf(a)' = Walking!EdgesOf(a)
           /\ Cardinality(Walking!EdgesOf(t.at)) < bounds.per
           /\ \A a : a = t.at => Cardinality(Walking!EdgesOf(a)') = Cardinality(Walking!EdgesOf(a)) + 1
           /\ (\A a \in DOMAIN nodes : a \in DOMAIN nodes' /\ nodes'[a] = nodes[a]) =>
                 \A v : v = u => FrameFits(v)'
           /\ DOMAIN nodes \subseteq DOMAIN nodes' => EdgesAreTrue'
<1> DEFINE t == Walking!Top
           f == Walking!SubOf(t.at)
           g == Walking!Reference
           u == [Walking!Past EXCEPT !.added = @ + 1]
<1>1. /\ walk # <<>> /\ UNCHANGED <<program, bounds, root>> /\ Walking!AtReference
      /\ ~Walking!Full /\ g # NoSub /\ Len(edges) < bounds.edges
      /\ edges' = Append(edges, <<t.at, g>>)
      /\ Walking!Visit(g, t.depth + 1, Append(Walking!Return, u))
  BY DEF Walking!FollowReference, Walking!Going
<1>2. t \in GraphFrames /\ FrameFits(t)
  BY <1>1, TopOfWalk
<1>3. /\ f \in Subs /\ program \in Programs
      /\ t.insn \in Nat \ {0} /\ t.ref \in Nat \ {0} /\ t.at \in Places /\ t.depth \in Nat
      /\ program[f] \in Seq(Seq(Subs \cup {NoSub})) /\ Len(program[f]) \in Nat
      /\ \A i \in 1..Len(program[f]) : Len(program[f][i]) \in Nat
  BY <1>2, FunctionTypes
<1>4. /\ t.insn \in 1..Len(program[f]) /\ t.ref \in 1..Len(program[f][t.insn])
      /\ g = program[f][t.insn][t.ref] /\ g \in Subs
      /\ Walking!Past = [at |-> t.at, depth |-> t.depth, insn |-> t.insn, ref |-> t.ref + 1,
                         added |-> t.added]
  BY <1>1, ReferenceIsPlace
<1>5. t.added \in Nat /\ t.added < bounds.per
  <2>1. ~(t.added >= bounds.per)
    BY <1>1 DEF Walking!Full
  <2>2. t.added \in Nat /\ bounds.per \in Nat
    BY <1>2, GraphConstants DEF GraphFrames, GraphInv, GraphTypes
  <2> QED BY <2>1, <2>2
<1>6. u = [at |-> t.at, depth |-> t.depth, insn |-> t.insn, ref |-> t.ref + 1, added |-> t.added + 1]
  <2>1. PICK w : w = Walking!Past
    OBVIOUS
  <2>2. u = [w EXCEPT !.added = w.added + 1]
    BY <2>1
  <2>3. w = [at |-> t.at, depth |-> t.depth, insn |-> t.insn, ref |-> t.ref + 1, added |-> t.added]
    BY <1>4, <2>1
  <2> HIDE DEF u, t
  <2> QED BY <2>2, <2>3
<1>7. /\ t.at \in DOMAIN nodes /\ t.depth = nodes[t.at] /\ t.added = Cardinality(Walking!EdgesOf(t.at))
      /\ t.added = Cardinality(Walking!CallsBefore(f, t.insn, t.ref))
  BY <1>2 DEF FrameFits
<1>8. Walking!Refers(f, g)
  <2> HIDE DEF t, f, g
  <2>1. program[f][t.insn] \in Seq(Subs \cup {NoSub})
    BY <1>3, <1>4
  <2>2. DOMAIN program[f] = 1..Len(program[f]) /\ DOMAIN program[f][t.insn] = 1..Len(program[f][t.insn])
    BY <1>3, <2>1
  <2> QED BY <1>4, <2>2 DEF Walking!Refers
<1>9. PICK x, y, c, d, h : x = t.at /\ y = t /\ c = <<t.insn, t.ref>> /\ d = f /\ h = g
  OBVIOUS
<1> HIDE DEF t, f, g, u
<1>10. /\ Walking!CallsBefore(f, t.insn, t.ref + 1)
            = Walking!CallsBefore(f, t.insn, t.ref) \cup {<<t.insn, t.ref>>}
       /\ <<t.insn, t.ref>> \in Walking!CallsOf(f)
       /\ <<t.insn, t.ref>> \notin Walking!CallsBefore(f, t.insn, t.ref)
       /\ IsFiniteSet(Walking!CallsBefore(f, t.insn, t.ref))
  <2>1. t.insn <= Len(program[f]) /\ t.ref <= Len(program[f][t.insn])
    BY <1>3, <1>4
  <2>2. IF program[f][t.insn][t.ref] = NoSub
          THEN Walking!CallsBefore(f, t.insn, t.ref + 1) = Walking!CallsBefore(f, t.insn, t.ref)
          ELSE /\ <<t.insn, t.ref>> \in Walking!CallsOf(f)
               /\ <<t.insn, t.ref>> \notin Walking!CallsBefore(f, t.insn, t.ref)
               /\ Walking!CallsBefore(f, t.insn, t.ref + 1)
                    = Walking!CallsBefore(f, t.insn, t.ref) \cup {<<t.insn, t.ref>>}
    <3>1. program \in Programs /\ f \in Subs /\ t.insn \in Nat \ {0} /\ t.ref \in Nat \ {0}
      BY <1>3
    <3>2. PICK o, i, j : o = f /\ i = t.insn /\ j = t.ref
      OBVIOUS
    <3>3. program \in Programs /\ o \in Subs
      BY <3>1, <3>2
    <3>4. i \in 1..Len(program[o]) /\ j \in 1..Len(program[o][i])
      BY <1>4, <3>2
    <3>5. /\ program[o][i][j] = NoSub =>
                Walking!CallsBefore(o, i, j + 1) = Walking!CallsBefore(o, i, j)
          /\ program[o][i][j] # NoSub =>
                /\ <<i, j>> \in Walking!CallsOf(o)
                /\ <<i, j>> \notin Walking!CallsBefore(o, i, j)
                /\ Walking!CallsBefore(o, i, j + 1) = Walking!CallsBefore(o, i, j) \cup {<<i, j>>}
      BY <3>3, <3>4, ReferencePassed, Zenon
    <3> QED BY <3>2, <3>5, Zenon
  <2>3. IsFiniteSet(Walking!CallsBefore(f, t.insn, t.ref))
    BY <1>3, CallsPassed
  <2> QED BY <1>1, <1>4, <2>2, <2>3
<1>11. Cardinality(Walking!CallsBefore(f, t.insn, t.ref + 1)) = t.added + 1
  BY <1>7, <1>10, FS_AddElement
<1>12. edges \in Seq(Places \X Subs)
  BY DEF GraphInv, GraphTypes
<1>13. /\ Len(edges) \in Nat /\ edges' \in Seq(Places \X Subs) /\ Len(edges') = Len(edges) + 1
       /\ edges'[Len(edges) + 1] = <<x, h>>
       /\ \A k \in 1..Len(edges) : edges'[k] = edges[k]
       /\ \A a : a # x => Walking!EdgesOf(a)' = Walking!EdgesOf(a)
       /\ Cardinality(Walking!EdgesOf(x)') = Cardinality(Walking!EdgesOf(x)) + 1
       /\ \A k : k = Len(edges) + 1 => Walking!EdgesBefore(x, k)' = Walking!EdgesOf(x)
       /\ \A k \in 1..Len(edges) : \A a, e : Walking!IsEdge(a, k, e) => Walking!IsEdge(a, k, e)'
  BY <1>1, <1>3, <1>4, <1>9, <1>12, EdgeAdded
<1>14. \A k, i, j : Walking!CallsBefore(k, i, j)' = Walking!CallsBefore(k, i, j)
  BY <1>1 DEF Walking!CallsBefore, Walking!CallsOf, Walking!InsnCalls
<1>15. \A k : Walking!CallsOf(k)' = Walking!CallsOf(k)
  BY <1>1 DEF Walking!CallsOf, Walking!InsnCalls
<1>16. Len(edges') <= bounds.edges
  <2>1. bounds.edges \in Nat
    BY GraphConstants DEF GraphInv, GraphTypes
  <2> QED BY <1>1, <1>13, <2>1
<1>17. \A k \in 1..Len(edges') : k \in 1..Len(edges) \/ k = Len(edges) + 1
  BY <1>13
<1>18. (\A a \in DOMAIN nodes : a \in DOMAIN nodes' /\ nodes'[a] = nodes[a]) =>
          \A v : v = u => FrameFits(v)'
  <2>1. SUFFICES ASSUME x \in DOMAIN nodes' /\ nodes'[x] = nodes[x], NEW v, v = u
                 PROVE  FrameFits(v)'
    BY <1>7, <1>9
  <2>3. /\ v.at = x /\ v.depth = y.depth /\ v.insn = y.insn /\ v.ref = y.ref + 1
        /\ v.added = y.added + 1 /\ Walking!SubOf(v.at) = d
    BY <1>6, <1>9, <2>1 DEF f
  <2>4. FrameFits(v)'
    <3>1. v.at \in DOMAIN nodes' /\ v.depth = nodes'[v.at]
      BY <2>1, <2>3, <1>7, <1>9
    <3>2. v.insn <= Len(program[d]) + 1 /\ v.ref <= Len(program[d][v.insn]) + 1
      <4>1. Len(program[d]) \in Nat /\ Len(program[d][y.insn]) \in Nat
        BY <1>3, <1>4, <1>9
      <4>2. y.insn \in 1..Len(program[d]) /\ y.ref \in 1..Len(program[d][y.insn])
        BY <1>4, <1>9
      <4> QED BY <4>1, <4>2, <2>3
    <3>3. v.added = Cardinality(Walking!EdgesOf(v.at)')
      BY <1>7, <1>9, <1>13, <2>3
    <3>4. v.added = Cardinality(Walking!CallsBefore(d, v.insn, v.ref)')
      BY <1>9, <1>11, <1>14, <2>3
    <3>5. program' = program /\ Walking!SubOf(v.at) = d
      BY <1>1, <2>3
    <3> QED BY <3>1, <3>2, <3>3, <3>4, <3>5 DEF FrameFits
  <2> QED BY <2>4
<1>19. DOMAIN nodes \subseteq DOMAIN nodes' => EdgesAreTrue'
  <2>1. SUFFICES ASSUME DOMAIN nodes \subseteq DOMAIN nodes', NEW k \in 1..Len(edges')
                 PROVE  \E a \in DOMAIN nodes' :
                           /\ edges'[k][1] = a
                           /\ \E e \in Walking!CallsOf(Walking!SubOf(a)) : Walking!IsEdge(a, k, e)'
    BY <1>15, Zenon DEF EdgesAreTrue, EdgeIsTrue
  <2>2. CASE k \in 1..Len(edges)
    <3>1. PICK a \in DOMAIN nodes : /\ edges[k][1] = a
                                   /\ \E e \in Walking!CallsOf(Walking!SubOf(a)) : Walking!IsEdge(a, k, e)
      BY <2>2, Zenon DEF GraphInv, EdgesAreTrue, EdgeIsTrue
    <3>2. edges'[k][1] = a /\ a \in DOMAIN nodes'
      BY <3>1, <2>1, <2>2, <1>13
    <3>3. \E e \in Walking!CallsOf(Walking!SubOf(a)) : Walking!IsEdge(a, k, e)'
      BY <3>1, <2>2, <1>13
    <3> QED BY <3>2, <3>3
  <2>3. CASE k = Len(edges) + 1
    <3>1. edges'[k] = <<x, h>>
      BY <2>3, <1>13
    <3>2. edges'[k][1] = x /\ edges'[k][2] = h /\ x \in DOMAIN nodes'
      BY <3>1, <2>1, <1>7, <1>9
    <3>3. c \in Walking!CallsOf(Walking!SubOf(x)) /\ Walking!SubOf(x) = d
      BY <1>9, <1>10 DEF f
    <3>4. Walking!IsEdge(x, k, c)'
      <4>1. c[1] = y.insn /\ c[2] = y.ref
        BY <1>9
      <4>2. program'[d][c[1]][c[2]] = edges'[k][2]
        BY <4>1, <3>2, <1>1, <1>4, <1>9
      <4>3. Cardinality(Walking!CallsBefore(d, c[1], c[2])') = Cardinality(Walking!EdgesBefore(x, k)')
        <5>1. Walking!CallsBefore(d, c[1], c[2])' = Walking!CallsBefore(d, y.insn, y.ref)
          BY <4>1, <1>14
        <5>2. Walking!EdgesBefore(x, k)' = Walking!EdgesOf(x)
          BY <2>3, <1>13
        <5> QED BY <5>1, <5>2, <1>7, <1>9
      <4> QED BY <4>2, <4>3, <3>3, WalkingCardinality DEF Walking!IsEdge
    <3> QED BY <3>2, <3>3, <3>4
  <2> QED BY <2>2, <2>3, <1>17
<1>20. /\ u.at = t.at /\ u \in GraphFrames
  BY <1>3, <1>5, <1>6 DEF GraphFrames
<1>21. Cardinality(Walking!EdgesOf(t.at)) < bounds.per
  BY <1>5, <1>7
<1>22. edges'[Len(edges) + 1] = <<t.at, g>> /\ \A a : a # t.at => Walking!EdgesOf(a)' = Walking!EdgesOf(a)
  BY <1>9, <1>13
<1>23. \A a : a = t.at => Cardinality(Walking!EdgesOf(a)') = Cardinality(Walking!EdgesOf(a)) + 1
  BY <1>9, <1>13
<1>24. Walking!Refers(Walking!SubOf(t.at), g)
  BY <1>8 DEF f
<1>25. Walking!Visit(g, t.depth + 1, Append(Walking!Return, u))
  BY <1>1
<1> QED BY <1>1, <1>2, <1>3, <1>4, <1>7, <1>13, <1>16, <1>18, <1>19, <1>20, <1>21, <1>22, <1>23, <1>24, <1>25, Zenon
        DEF t, g, u

(* The edge at hand is followed, refused or cuts the graph off.            *)
LEMMA FollowReferenceNext == ASSUME GraphInv, Walking!FollowReference PROVE GraphInv'
<1>1. PICK t, g, u, x :
         /\ t = Walking!Top /\ x = t.at
         /\ walk # <<>> /\ UNCHANGED <<program, bounds, root>>
         /\ t \in GraphFrames /\ g \in Subs /\ Walking!Refers(Walking!SubOf(x), g)
         /\ x \in DOMAIN nodes /\ t.depth = nodes[x] /\ t.depth \in Nat
         /\ Walking!Visit(g, t.depth + 1, Append(Walking!Return, u))
         /\ u \in GraphFrames /\ u.at = x
         /\ edges' \in Seq(Places \X Subs) /\ Len(edges) \in Nat /\ Len(edges') = Len(edges) + 1
         /\ Len(edges') <= bounds.edges
         /\ edges'[Len(edges) + 1] = <<x, g>>
         /\ \A k \in 1..Len(edges) : edges'[k] = edges[k]
         /\ \A a : a # x => Walking!EdgesOf(a)' = Walking!EdgesOf(a)
         /\ Cardinality(Walking!EdgesOf(x)) < bounds.per
         /\ Cardinality(Walking!EdgesOf(x)') = Cardinality(Walking!EdgesOf(x)) + 1
         /\ (\A a \in DOMAIN nodes : a \in DOMAIN nodes' /\ nodes'[a] = nodes[a]) => FrameFits(u)'
         /\ DOMAIN nodes \subseteq DOMAIN nodes' => EdgesAreTrue'
  <2>1. PICK t, g, u : /\ t = Walking!Top /\ g = Walking!Reference
                       /\ u = [Walking!Past EXCEPT !.added = @ + 1]
    OBVIOUS
  <2> QED BY <2>1, ReferenceFollowed
<1>2. /\ Len(walk) \in Nat /\ Len(walk) >= 1 /\ Walking!Return \in Seq(GraphFrames)
      /\ Len(Walking!Return) = Len(walk) - 1
      /\ \A m \in 1..(Len(walk) - 1) :
            Walking!Return[m] = walk[m] /\ FrameFits(walk[m]) /\ walk[m].at # x
      /\ x = walk[Len(walk)].at /\ ~truncated
  BY <1>1, TopOfWalk
<1>3. PICK w : w = Append(Walking!Return, u)
  OBVIOUS
<1>4. /\ w \in Seq(GraphFrames) /\ Len(w) = Len(walk) /\ w[Len(walk)] = u
      /\ \A m \in 1..(Len(walk) - 1) : w[m] = walk[m]
  <2> DEFINE G == GraphFrames
  <2>1. u \in G /\ Walking!Return \in Seq(G)
    BY <1>1, <1>2
  <2> HIDE DEF G
  <2>2. w \in Seq(G)
    BY <1>3, <2>1
  <2> QED BY <1>2, <1>3, <2>1, <2>2 DEF G
<1>5. \A m \in 1..Len(walk) : m = Len(walk) \/ m \in 1..(Len(walk) - 1)
  BY <1>2
<1>6. \A m \in 1..Len(walk) : w[m].at = walk[m].at
  BY <1>1, <1>2, <1>4, <1>5
<1>7. /\ program \in Programs /\ bounds \in Bounds /\ root \in {Main, Inside}
      /\ DOMAIN nodes \subseteq Places /\ root \in DOMAIN nodes /\ nodes \in [DOMAIN nodes -> Nat]
      /\ bounds.depth \in Nat /\ bounds.per \in Nat /\ bounds.nodes \in Nat
      /\ Cardinality(DOMAIN nodes) <= bounds.nodes /\ Cardinality(DOMAIN nodes) \in Nat
      /\ IsFiniteSet(DOMAIN nodes)
  <2>1. IsFiniteSet(DOMAIN nodes) /\ Cardinality(DOMAIN nodes) \in Nat
    BY GraphConstants, FS_Subset, FS_CardinalityType DEF GraphInv, GraphTypes
  <2> QED BY <2>1, GraphConstants DEF GraphInv, GraphTypes, LimitsAreKept
<1>8. g \in Places /\ Walking!SubOf(g) = g /\ Walking!SubOf(x) \in Subs
  BY <1>1, <1>7, GraphConstants DEF Places, Walking!SubOf
<1>9. \A a \in Places : \A k : Walking!Reached(Walking!SubOf(a), k)' <=> Walking!Reached(Walking!SubOf(a), k)
  BY <1>1 DEF Walking!Reached, Walking!Refers
<1>10. \A k \in 1..Len(edges') : k \in 1..Len(edges) \/ k = Len(edges) + 1
  BY <1>1
<1>11. \A a : Cardinality(Walking!EdgesOf(a)) \in Nat
  <2>1. Len(edges) + 1 \in Nat
    BY <1>1
  <2> QED BY <2>1, EdgesAreFinite DEF Walking!EdgesOf
<1>15. ASSUME NEW v, FrameFits(v), v.at # x, v.at \in DOMAIN nodes', nodes'[v.at] = nodes[v.at]
       PROVE  FrameFits(v)'
  <2>1. \A f, i, j : Walking!CallsBefore(f, i, j)' = Walking!CallsBefore(f, i, j)
    BY <1>1 DEF Walking!CallsBefore, Walking!CallsOf, Walking!InsnCalls
  <2>2. Walking!EdgesOf(v.at)' = Walking!EdgesOf(v.at)
    BY <1>1, <1>15
  <2> QED BY <1>1, <1>15, <2>1, <2>2 DEF FrameFits
<1>16. ASSUME NEW a \in DOMAIN nodes PROVE Cardinality(Walking!EdgesOf(a)') <= bounds.per
  <2>1. CASE a = x
    BY <2>1, <1>1, <1>7, <1>11
  <2>2. CASE a # x
    BY <2>2, <1>1 DEF GraphInv, NodesAreTrue
  <2> QED BY <2>1, <2>2
<1>17. ASSUME NEW a, a # x PROVE Finished(a)' <=> Finished(a)
  <2>1. \A f : Walking!CallsOf(f)' = Walking!CallsOf(f)
    BY <1>1 DEF Walking!CallsOf, Walking!InsnCalls
  <2>2. Walking!EdgesOf(a)' = Walking!EdgesOf(a)
    BY <1>1, <1>17
  <2> QED BY <2>1, <2>2, <1>1 DEF Finished
<1>12. CASE /\ t.depth + 1 > bounds.depth \/ g \in DOMAIN nodes
            /\ walk' = w /\ UNCHANGED <<nodes, truncated>>
  <2>1. GraphTypes' /\ EdgesAreTrue' /\ LimitsAreKept'
    <3>1. walk' \in Seq(GraphFrames) /\ ~truncated' /\ truncated' \in BOOLEAN
      BY <1>2, <1>4, <1>12 DEF GraphInv, GraphTypes
    <3>2. GraphTypes'
      BY <3>1, <1>1, <1>7, <1>12, Zenon DEF GraphTypes
    <3>3. EdgesAreTrue' /\ LimitsAreKept'
      BY <1>1, <1>7, <1>12 DEF LimitsAreKept
    <3> QED BY <3>2, <3>3
  <2>2. WalkFits'
    <3>1. ASSUME NEW m \in 1..Len(walk) PROVE FrameFits(walk[m])'
      <4>1. PICK v : v = w[m]
        OBVIOUS
      <4>2. FrameFits(v)'
        <5>1. CASE m = Len(walk)
          <6>1. FrameFits(u)'
            BY <1>1, <1>12
          <6> QED BY <6>1, <5>1, <4>1, <1>4
        <5>2. CASE m # Len(walk)
          <6>1. FrameFits(v) /\ v.at # x
            BY <5>2, <4>1, <1>2, <1>4, <1>5
          <6>2. v.at \in DOMAIN nodes
            BY <6>1 DEF FrameFits
          <6>3. v.at \in DOMAIN nodes' /\ nodes'[v.at] = nodes[v.at]
            BY <6>2, <1>12
          <6> QED BY <6>1, <6>3, <1>15
        <5> QED BY <5>1, <5>2
      <4> QED BY <4>1, <4>2, <1>12 DEF FrameFits
    <3>2. \A m, n \in 1..Len(walk') : walk'[m].at = walk'[n].at => m = n
      BY <1>4, <1>6, <1>12, Zenon DEF GraphInv, WalkFits
    <3> QED BY <3>1, <3>2, <1>4, <1>12, Zenon DEF WalkFits
  <2>3. NodesAreTrue'
    BY <1>16, <1>7, <1>9, <1>12, <1>1 DEF GraphInv, NodesAreTrue
  <2>4. NothingIsLeft'
    <3>1. ASSUME NEW k \in 1..Len(edges') PROVE Followed(k)'
      <4>1. CASE k \in 1..Len(edges)
        BY <4>1, <1>1, <1>2, <1>12 DEF GraphInv, NothingIsLeft, Followed
      <4>2. CASE k = Len(edges) + 1
        BY <4>2, <1>1, <1>7, <1>12 DEF Followed
      <4> QED BY <4>1, <4>2, <1>10
    <3>2. ASSUME NEW a \in DOMAIN nodes', ~Finished(a)' PROVE \E m \in 1..Len(walk') : walk'[m].at = a
      <4>1. CASE a = x
        BY <4>1, <1>2, <1>4, <1>6, <1>12
      <4>2. CASE a # x
        <5>1. a \in DOMAIN nodes /\ ~Finished(a)
          BY <4>2, <3>2, <1>12, <1>17
        <5>2. PICK m \in 1..Len(walk) : walk[m].at = a
          BY <5>1, <1>2 DEF GraphInv, NothingIsLeft
        <5> QED BY <5>2, <1>4, <1>6, <1>12
      <4> QED BY <4>1, <4>2
    <3> QED BY <3>1, <3>2, Zenon DEF NothingIsLeft
  <2> QED BY <2>1, <2>2, <2>3, <2>4 DEF GraphInv
<1>13. CASE truncated' = TRUE /\ walk' = <<>> /\ UNCHANGED nodes
  <2>1. GraphTypes' /\ WalkFits' /\ NothingIsLeft'
    BY <1>1, <1>7, <1>13 DEF GraphTypes, WalkFits, NothingIsLeft
  <2>2. EdgesAreTrue' /\ LimitsAreKept'
    BY <1>1, <1>7, <1>13 DEF LimitsAreKept
  <2>3. NodesAreTrue'
    BY <1>1, <1>7, <1>9, <1>13, <1>16 DEF GraphInv, NodesAreTrue
  <2> QED BY <2>1, <2>2, <2>3 DEF GraphInv
<1>14. CASE /\ ~(t.depth + 1 > bounds.depth) /\ g \notin DOMAIN nodes
            /\ ~(Cardinality(DOMAIN nodes) >= bounds.nodes)
            /\ nodes' = [b \in DOMAIN nodes \cup {g} |-> IF b = g THEN t.depth + 1 ELSE nodes[b]]
            /\ walk' = Append(w, Walking!Frame(g, t.depth + 1)) /\ UNCHANGED truncated
  <2>1. PICK v : v = Walking!Frame(g, t.depth + 1)
    OBVIOUS
  <2>2. /\ v.at = g /\ v.depth = t.depth + 1 /\ v.insn = 1 /\ v.ref = 1 /\ v.added = 0
        /\ v \in GraphFrames
    BY <1>1, <1>8, <2>1 DEF Walking!Frame, GraphFrames
  <2>3. /\ walk' \in Seq(GraphFrames) /\ Len(walk') = Len(walk) + 1 /\ walk'[Len(walk) + 1] = v
        /\ \A m \in 1..Len(walk) : walk'[m] = w[m]
    <3> DEFINE G == GraphFrames
    <3>1. w \in Seq(G) /\ Len(w) = Len(walk) /\ v \in G
      BY <1>4, <2>2
    <3> HIDE DEF G
    <3>2. walk' = Append(w, v)
      BY <1>14, <2>1
    <3> QED BY <3>1, <3>2 DEF G
  <2>4. /\ DOMAIN nodes' = DOMAIN nodes \cup {g} /\ nodes'[g] = t.depth + 1
        /\ \A a \in DOMAIN nodes : a \in DOMAIN nodes' /\ nodes'[a] = nodes[a]
        /\ nodes' \in [DOMAIN nodes' -> Nat]
    <3>1. PICK o, e : o = nodes /\ e = t.depth + 1
      OBVIOUS
    <3>2. o \in [DOMAIN o -> Nat] /\ e \in Nat /\ g \notin DOMAIN o
      BY <1>1, <1>7, <1>14, <3>1
    <3>3. nodes' = [b \in DOMAIN o \cup {g} |-> IF b = g THEN e ELSE o[b]]
      BY <1>14, <3>1
    <3> HIDE <1>14
    <3>4. /\ DOMAIN nodes' = DOMAIN o \cup {g} /\ nodes'[g] = e
          /\ \A a \in DOMAIN o : a \in DOMAIN nodes' /\ nodes'[a] = o[a]
      BY <3>2, <3>3
    <3>5. nodes' \in [DOMAIN nodes' -> Nat]
      BY <3>2, <3>3
    <3> QED BY <3>1, <3>4, <3>5, Zenon
  <2>5. Cardinality(DOMAIN nodes') = Cardinality(DOMAIN nodes) + 1
    BY <1>7, <1>14, <2>4, FS_AddElement
  <2>6. g # x
    BY <1>1, <1>14
  <2>7. Walking!EdgesOf(g)' = {} /\ Cardinality(Walking!EdgesOf(g)') = 0
    <3>1. Walking!EdgesOf(g) = {}
      <4>1. ASSUME NEW k \in 1..Len(edges), edges[k][1] = g PROVE FALSE
        BY <4>1, <1>14 DEF GraphInv, EdgesAreTrue, EdgeIsTrue
      <4>2. Len(edges) + 1 - 1 = Len(edges)
        BY <1>1
      <4> QED BY <4>1, <4>2 DEF Walking!EdgesOf, Walking!EdgesBefore
    <3>2. Walking!EdgesOf(g)' = Walking!EdgesOf(g)
      BY <1>1, <2>6
    <3> QED BY <3>1, <3>2, FS_EmptySet
  <2>8. GraphTypes'
    <3>1. ~truncated' /\ truncated' \in BOOLEAN
      BY <1>2, <1>14 DEF GraphInv, GraphTypes
    <3>2. DOMAIN nodes' \subseteq Places /\ root \in DOMAIN nodes'
      BY <1>7, <1>8, <2>4
    <3> QED BY <3>1, <3>2, <1>1, <1>7, <2>3, <2>4, Zenon DEF GraphTypes
  <2>9. EdgesAreTrue' /\ LimitsAreKept'
    BY <1>1, <1>7, <1>14, <2>4, <2>5 DEF LimitsAreKept
  <2>10. FrameFits(v)'
    <3>1. Cardinality(Walking!CallsBefore(g, 1, 1)') = 0
      <4>1. Walking!CallsBefore(g, 1, 1) = {}
        <5>1. 1 \in Nat \ {0}
          OBVIOUS
        <5> QED BY <5>1, <1>1, <1>7, CallsPassed
      <4>2. Walking!CallsBefore(g, 1, 1)' = Walking!CallsBefore(g, 1, 1)
        BY <1>1 DEF Walking!CallsBefore, Walking!CallsOf, Walking!InsnCalls
      <4> QED BY <4>1, <4>2, FS_EmptySet
    <3>2. 1 <= Len(program[g]) + 1 /\ (1 <= Len(program[g]) => 1 <= Len(program[g][1]) + 1)
      <4>1. program[g] \in Seq(Seq(Subs \cup {NoSub}))
        BY <1>1, <1>7, GraphConstants
      <4>2. Len(program[g]) \in Nat
        BY <4>1
      <4>3. 1 <= Len(program[g]) => program[g][1] \in Seq(Subs \cup {NoSub})
        BY <4>1, <4>2
      <4> QED BY <4>2, <4>3
    <3> QED BY <3>1, <3>2, <2>2, <2>4, <2>7, <1>1, <1>8 DEF FrameFits
  <2>11. \A m \in 1..Len(walk') : m \in 1..Len(walk) \/ m = Len(walk) + 1
    BY <1>2, <2>3
  <2>12. ASSUME NEW m \in 1..Len(walk) PROVE walk'[m].at \in DOMAIN nodes /\ walk'[m].at = walk[m].at
    <3>1. FrameFits(walk[m])
      BY Zenon DEF GraphInv, WalkFits
    <3> QED BY <3>1, <2>3, <1>6 DEF FrameFits
  <2>13. WalkFits'
    <3>1. ASSUME NEW m \in 1..Len(walk') PROVE FrameFits(walk[m])'
      <4>1. PICK z : z = walk'[m]
        OBVIOUS
      <4>2. FrameFits(z)'
        <5>1. CASE m = Len(walk) + 1
          BY <5>1, <4>1, <2>3, <2>10
        <5>2. CASE m = Len(walk)
          <6>1. FrameFits(u)'
            BY <1>1, <2>4
          <6>2. z = u
            BY <5>2, <4>1, <1>2, <1>4, <2>3
          <6> QED BY <6>1, <6>2
        <5>3. CASE m # Len(walk) + 1 /\ m # Len(walk)
          <6>1. m \in 1..(Len(walk) - 1) /\ m \in 1..Len(walk)
            BY <5>3, <2>11, <1>5
          <6>2. FrameFits(z) /\ z.at # x
            BY <6>1, <4>1, <1>2, <1>4, <2>3
          <6>3. z.at \in DOMAIN nodes' /\ nodes'[z.at] = nodes[z.at]
            BY <6>1, <4>1, <2>4, <2>12
          <6> QED BY <6>2, <6>3, <1>15
        <5> QED BY <5>1, <5>2, <5>3
      <4> QED BY <4>1, <4>2 DEF FrameFits
    <3>2. ASSUME NEW m \in 1..Len(walk'), NEW n \in 1..Len(walk'), walk'[m].at = walk'[n].at PROVE m = n
      <4>1. CASE m \in 1..Len(walk) /\ n \in 1..Len(walk)
        BY <4>1, <3>2, <2>12, Zenon DEF GraphInv, WalkFits
      <4>2. walk'[Len(walk) + 1].at = g
        BY <2>2, <2>3
      <4>3. \A k \in 1..Len(walk) : walk'[k].at # g
        BY <2>12, <1>14
      <4> QED BY <4>1, <4>2, <4>3, <3>2, <2>11
    <3> QED BY <3>1, <3>2, Zenon DEF WalkFits
  <2>14. NodesAreTrue'
    <3>1. ASSUME NEW a \in DOMAIN nodes
          PROVE  /\ nodes'[a] <= bounds.depth /\ nodes'[a] < Cardinality(DOMAIN nodes')
                 /\ Walking!Reached(Walking!SubOf(a), nodes'[a])
                 /\ Cardinality(Walking!EdgesOf(a)') <= bounds.per
      <4>1. nodes'[a] = nodes[a] /\ nodes[a] \in Nat
        BY <1>7, <2>4
      <4>2. /\ nodes[a] <= bounds.depth /\ nodes[a] < Cardinality(DOMAIN nodes)
            /\ Walking!Reached(Walking!SubOf(a), nodes[a])
        BY DEF GraphInv, NodesAreTrue
      <4>3. nodes[a] < Cardinality(DOMAIN nodes')
        BY <4>1, <4>2, <2>5, <1>7
      <4> QED BY <4>1, <4>2, <4>3, <1>16
    <3>2. nodes'[g] <= bounds.depth /\ nodes'[g] < Cardinality(DOMAIN nodes')
      <4>1. nodes[x] < Cardinality(DOMAIN nodes)
        BY <1>1 DEF GraphInv, NodesAreTrue
      <4> QED BY <4>1, <2>4, <2>5, <1>1, <1>7, <1>14
    <3>3. Walking!Reached(g, nodes'[g])
      <4>1. Walking!Reached(Walking!SubOf(x), nodes[x])
        BY <1>1 DEF GraphInv, NodesAreTrue
      <4> QED BY <4>1, <1>1, <1>8, <2>4, ReachedNext
    <3>4. \A a \in Places : \A k : Walking!Reached(Walking!SubOf(a), k) => Walking!Reached(Walking!SubOf(a), k)'
      BY <1>9
    <3>5. ASSUME NEW a \in DOMAIN nodes', NEW k, k = nodes'[a]
          PROVE  /\ k <= bounds.depth /\ k < Cardinality(DOMAIN nodes')
                 /\ Walking!Reached(Walking!SubOf(a), k)'
                 /\ Cardinality(Walking!EdgesOf(a)') <= bounds.per
      <4>1. CASE a = g
        BY <4>1, <3>2, <3>3, <3>4, <3>5, <2>7, <1>7, <1>8
      <4>2. CASE a # g
        <5>1. a \in DOMAIN nodes /\ a \in Places
          BY <4>2, <2>4, <1>7
        <5> QED BY <5>1, <3>1, <3>4, <3>5
      <4> QED BY <4>1, <4>2
    <3> QED BY <3>5, <1>1 DEF NodesAreTrue
  <2>15. NothingIsLeft'
    <3>1. ASSUME NEW k \in 1..Len(edges') PROVE Followed(k)'
      <4>1. CASE k \in 1..Len(edges)
        <5>1. edges[k][2] \in DOMAIN nodes \/ nodes[edges[k][1]] >= bounds.depth
          BY <4>1, <1>2 DEF GraphInv, NothingIsLeft, Followed
        <5>2. edges[k][1] \in DOMAIN nodes
          BY <4>1 DEF GraphInv, EdgesAreTrue, EdgeIsTrue
        <5> QED BY <5>1, <5>2, <4>1, <2>4, <1>1 DEF Followed
      <4>2. CASE k = Len(edges) + 1
        BY <4>2, <2>4, <1>1 DEF Followed
      <4> QED BY <4>1, <4>2, <1>10
    <3>2. ASSUME NEW a \in DOMAIN nodes', ~Finished(a)' PROVE \E m \in 1..Len(walk') : walk'[m].at = a
      <4>1. CASE a = g
        <5>1. Len(walk) + 1 \in 1..Len(walk')
          BY <1>2, <2>3
        <5> QED BY <5>1, <4>1, <2>2, <2>3
      <4>2. CASE a = x
        <5>1. Len(walk) \in 1..Len(walk') /\ Len(walk) \in 1..Len(walk)
          BY <1>2, <2>3
        <5> QED BY <5>1, <4>2, <1>2, <2>12
      <4>3. CASE a # x /\ a # g
        <5>1. a \in DOMAIN nodes /\ ~Finished(a)
          BY <4>3, <3>2, <2>4, <1>17
        <5>2. PICK m \in 1..Len(walk) : walk[m].at = a
          BY <5>1, <1>2 DEF GraphInv, NothingIsLeft
        <5>3. m \in 1..Len(walk')
          BY <1>2, <2>3
        <5> QED BY <5>2, <5>3, <2>12
      <4> QED BY <4>1, <4>2, <4>3
    <3> QED BY <3>1, <3>2, Zenon DEF NothingIsLeft
  <2> QED BY <2>8, <2>9, <2>13, <2>14, <2>15 DEF GraphInv
<1> QED BY <1>1, <1>3, <1>12, <1>13, <1>14, WalkingCardinality DEF Walking!Visit

LEMMA GraphNext == ASSUME GraphInv, Walking!Next PROVE GraphInv'
BY NextInstructionNext, CapFunctionNext, PassReferenceNext, CutEdgesNext, FollowReferenceNext
   DEF Walking!Next

(* A path may wait where it is.                                            *)
LEMMA ReachedLater ==
    ASSUME NEW f \in Subs, NEW m \in Nat, NEW n \in Nat, m <= n, Walking!Reached(f, m)
    PROVE  Walking!Reached(f, n)
<1>1. PICK path \in [0..m -> Subs] :
         /\ path[0] = Walking!SubOf(root) /\ path[m] = f
         /\ \A k \in 1..m : path[k] = path[k - 1] \/ Walking!Refers(path[k - 1], path[k])
  BY DEF Walking!Reached
<1> DEFINE longer == [k \in 0..n |-> IF k <= m THEN path[k] ELSE f]
<1>2. /\ longer \in [0..n -> Subs] /\ longer[0] = Walking!SubOf(root) /\ longer[n] = f
  <2>1. \A k \in 0..n : k <= m => k \in 0..m
    OBVIOUS
  <2>2. longer \in [0..n -> Subs]
    BY <1>1, <2>1
  <2>3. 0 \in 0..n /\ n \in 0..n /\ (n <= m => n = m)
    OBVIOUS
  <2> QED BY <1>1, <2>2, <2>3
<1>3. ASSUME NEW k \in 1..n
      PROVE  longer[k] = longer[k - 1] \/ Walking!Refers(longer[k - 1], longer[k])
  <2>1. CASE k <= m
    <3>1. longer[k] = path[k] /\ longer[k - 1] = path[k - 1] /\ k \in 1..m
      BY <2>1
    <3> QED BY <1>1, <3>1
  <2>2. CASE k > m
    <3>1. longer[k] = f /\ longer[k - 1] = f
      BY <1>1, <2>2
    <3> QED BY <3>1
  <2> QED BY <2>1, <2>2
<1> HIDE DEF longer
<1> QED BY <1>2, <1>3 DEF Walking!Reached

(* The functions of a set that has the root, and what its functions refer  *)
(* to, are all that are reached.                                           *)
LEMMA ReachedStays ==
    ASSUME NEW N, Walking!SubOf(root) \in N,
           \A f \in N : \A g \in Subs : Walking!Refers(f, g) => g \in N,
           NEW f \in Subs, NEW n \in Nat, Walking!Reached(f, n)
    PROVE  f \in N
<1>1. PICK path \in [0..n -> Subs] :
         /\ path[0] = Walking!SubOf(root) /\ path[n] = f
         /\ \A k \in 1..n : path[k] = path[k - 1] \/ Walking!Refers(path[k - 1], path[k])
  BY DEF Walking!Reached
<1> DEFINE S == {k \in 0..n : path[k] \notin N}
<1>2. ASSUME S # {} PROVE FALSE
  <2>1. S \subseteq Nat
    OBVIOUS
  <2>2. PICK k \in S : \A y \in S : ~(<<y, k>> \in OpToRel(<, Nat))
    BY <1>2, <2>1, NatLessThanWellFounded, WFMin
  <2>3. \A y \in S : ~(y < k)
    BY <2>1, <2>2 DEF OpToRel
  <2>4. k \in 0..n /\ path[k] \notin N
    OBVIOUS
  <2>5. k # 0
    BY <1>1, <2>4
  <2>6. k - 1 \in 0..n /\ k \in 1..n /\ k - 1 < k
    BY <2>4, <2>5
  <2>7. path[k - 1] \in N
    BY <2>3, <2>6
  <2> QED BY <1>1, <2>4, <2>6, <2>7
<1>3. n \in 0..n
  OBVIOUS
<1> QED BY <1>1, <1>2, <1>3

(* A node that has as many edges as its function has calls has them all.   *)
LEMMA EveryCallIsEdge ==
    ASSUME GraphInv, NEW a \in DOMAIN nodes,
           Cardinality(Walking!EdgesOf(a)) = Cardinality(Walking!CallsOf(Walking!SubOf(a))),
           NEW c \in Walking!CallsOf(Walking!SubOf(a))
    PROVE  \E k \in 1..Len(edges) : edges[k][1] = a /\ Walking!IsEdge(a, k, c)
<1> DEFINE f == Walking!SubOf(a)
           E == Walking!EdgesOf(a)
           C == Walking!CallsOf(f)
           F == [k \in E |-> CHOOSE d \in C : Walking!IsEdge(a, k, d)]
<1>1. Len(edges) \in Nat /\ E = {k \in 1..Len(edges) : edges[k][1] = a}
  BY DEF GraphInv, GraphTypes, Walking!EdgesOf, Walking!EdgesBefore
<1>2. \A k \in E : \E d \in C : Walking!IsEdge(a, k, d)
  BY <1>1 DEF GraphInv, EdgesAreTrue, EdgeIsTrue
<1>3. \A k \in E : F[k] \in C /\ Walking!IsEdge(a, k, F[k])
  BY <1>2
<1>4. IsFiniteSet(C)
  <2>1. program \in Programs /\ f \in Subs
    BY GraphConstants DEF GraphInv, GraphTypes
  <2> QED BY <2>1, CallPlaces
<1> HIDE DEF F, E, C
<1>5. F \in [E -> C]
  BY <1>3 DEF F
<1>6. ASSUME NEW k \in E, NEW l \in E, k < l PROVE F[k] # F[l]
  <2>1. k \in 1..Len(edges) /\ l \in 1..Len(edges) /\ edges[k][1] = a
    BY <1>1
  <2> DEFINE K == Walking!EdgesBefore(a, k)
             L == Walking!EdgesBefore(a, l)
  <2>2. K \cup {k} \subseteq L /\ k \notin K
    BY <1>1, <1>6, <2>1 DEF Walking!EdgesBefore
  <2>3. IsFiniteSet(K) /\ IsFiniteSet(L) /\ Cardinality(K) \in Nat /\ Cardinality(L) \in Nat
    BY <1>1, <2>1, EdgesAreFinite
  <2> HIDE DEF K, L
  <2>4. Cardinality(K \cup {k}) = Cardinality(K) + 1
    BY <2>2, <2>3, FS_AddElement
  <2>5. Cardinality(K \cup {k}) <= Cardinality(L)
    BY <2>2, <2>3, FS_Subset
  <2>6. Cardinality(K) # Cardinality(L)
    BY <2>3, <2>4, <2>5
  <2>7. SUFFICES ASSUME F[k] = F[l] PROVE Cardinality(K) = Cardinality(L)
    BY <2>6
  <2>8. Walking!IsEdge(a, k, F[k]) /\ Walking!IsEdge(a, l, F[k])
    BY <1>3, <2>7
  <2> QED BY <2>8, WalkingCardinality DEF Walking!IsEdge, K, L
<1>7. \A k, l \in E : k # l => k < l \/ l < k
  BY <1>1
<1>8. F \in Injection(E, C)
  <2>1. \A k, l \in E : F[k] = F[l] => k = l
    BY <1>6, <1>7
  <2>2. DOMAIN F = E
    BY <1>5
  <2> QED BY <1>5, <2>1, <2>2 DEF Injection, IsInjective
<1>9. F \in Surjection(E, C)
  BY <1>4, <1>8, FS_Injection DEF E, C
<1>10. PICK k \in E : F[k] = c
  BY <1>9 DEF Surjection, C
<1> QED BY <1>1, <1>3, <1>10

LEMMA GraphSafe == ASSUME GraphInv PROVE Walking!GraphsAreTrue
<1>1. /\ edges \in Seq(Places \X Subs) /\ Len(edges) \in Nat /\ DOMAIN edges = 1..Len(edges)
      /\ program \in Programs /\ root \in DOMAIN nodes /\ root \in {Main, Inside}
      /\ DOMAIN nodes \subseteq Places /\ nodes \in [DOMAIN nodes -> Nat]
      /\ Cardinality(Subs) \in Nat
      /\ \A a \in DOMAIN nodes : Walking!SubOf(a) \in Subs
  BY GraphConstants DEF GraphInv, GraphTypes
<1>2. Walking!GraphIsTrue
  BY <1>1, WalkingCardinality
     DEF GraphInv, NodesAreTrue, EdgesAreTrue, EdgeIsTrue, LimitsAreKept, Walking!GraphIsTrue
<1>3. ASSUME walk = <<>>, ~truncated,
             \A a \in DOMAIN nodes : nodes[a] < bounds.depth /\ Cardinality(Walking!EdgesOf(a)) < bounds.per
      PROVE  /\ {Walking!SubOf(a) : a \in DOMAIN nodes}
                   = {f \in Subs : Walking!Reached(f, Cardinality(Subs))}
             /\ \A a \in DOMAIN nodes :
                   Cardinality(Walking!EdgesOf(a)) = Cardinality(Walking!CallsOf(Walking!SubOf(a)))
  <2> DEFINE N == {Walking!SubOf(a) : a \in DOMAIN nodes}
  <2>1. Len(walk) = 0
    BY <1>3
  <2>2. \A a : Cardinality(Walking!EdgesOf(a)) \in Nat
    <3>1. Len(edges) + 1 \in Nat
      BY <1>1
    <3> QED BY <3>1, EdgesAreFinite DEF Walking!EdgesOf
  <2>3. bounds.per \in Nat /\ bounds.depth \in Nat
    BY GraphConstants DEF GraphInv, GraphTypes
  <2>4. ASSUME NEW a \in DOMAIN nodes
        PROVE  Cardinality(Walking!EdgesOf(a)) = Cardinality(Walking!CallsOf(Walking!SubOf(a)))
    <3>1. Finished(a)
      BY <1>3, <2>1 DEF GraphInv, NothingIsLeft
    <3>2. ~(Cardinality(Walking!EdgesOf(a)) >= bounds.per)
      BY <1>3, <2>2, <2>3
    <3> QED BY <3>1, <3>2 DEF Finished
  <2>5. ASSUME NEW a \in DOMAIN nodes, NEW g \in Subs, Walking!Refers(Walking!SubOf(a), g) PROVE g \in N
    <3> DEFINE f == Walking!SubOf(a)
    <3>1. f \in Subs /\ program[f] \in Seq(Seq(Subs \cup {NoSub})) /\ NoSub \notin Subs
      BY <1>1, GraphConstants
    <3>2. PICK i \in DOMAIN program[f] : \E j \in DOMAIN program[f][i] : program[f][i][j] = g
      BY <2>5 DEF Walking!Refers
    <3>3. PICK j \in DOMAIN program[f][i] : program[f][i][j] = g
      BY <3>2
    <3> HIDE DEF f
    <3>4. i \in 1..Len(program[f]) /\ program[f][i] \in Seq(Subs \cup {NoSub})
      BY <3>1, <3>2
    <3>5. j \in 1..Len(program[f][i])
      BY <3>3, <3>4
    <3>6. <<i, j>> \in Walking!CallsOf(f)
      BY <1>1, <3>1, <3>3, <3>4, <3>5, CallPlaces
    <3>7. PICK k \in 1..Len(edges) : edges[k][1] = a /\ Walking!IsEdge(a, k, <<i, j>>)
      BY <2>4, <3>6, EveryCallIsEdge DEF f
    <3>8. edges[k][2] = g
      BY <3>3, <3>7 DEF Walking!IsEdge, f
    <3>9. g \in DOMAIN nodes
      <4>1. Followed(k)
        BY <1>3 DEF GraphInv, NothingIsLeft
      <4>2. ~(nodes[a] >= bounds.depth)
        BY <1>1, <1>3, <2>3
      <4> QED BY <3>7, <3>8, <4>1, <4>2 DEF Followed
    <3>10. Walking!SubOf(g) = g
      BY GraphConstants DEF Walking!SubOf
    <3> QED BY <3>9, <3>10
  <2>6. ASSUME NEW f \in Subs, Walking!Reached(f, Cardinality(Subs)) PROVE f \in N
    <3>1. Walking!SubOf(root) \in N
      BY <1>1
    <3>2. \A h \in N : \A g \in Subs : Walking!Refers(h, g) => g \in N
      BY <2>5
    <3> HIDE DEF N
    <3> QED BY <3>1, <3>2, <2>6, <1>1, ReachedStays
  <2>7. ASSUME NEW a \in DOMAIN nodes PROVE Walking!Reached(Walking!SubOf(a), Cardinality(Subs))
    <3>1. IsFiniteSet(DOMAIN nodes) /\ Cardinality(DOMAIN nodes) <= Cardinality(Subs) + 1
          /\ Cardinality(DOMAIN nodes) \in Nat
      BY <1>1, GraphConstants, FS_Subset, FS_CardinalityType
    <3>2. nodes[a] < Cardinality(DOMAIN nodes) /\ Walking!Reached(Walking!SubOf(a), nodes[a])
      BY DEF GraphInv, NodesAreTrue
    <3>3. nodes[a] \in Nat /\ nodes[a] <= Cardinality(Subs)
      BY <1>1, <3>1, <3>2
    <3> QED BY <1>1, <3>2, <3>3, ReachedLater
  <2>8. N = {f \in Subs : Walking!Reached(f, Cardinality(Subs))}
    BY <1>1, <2>6, <2>7
  <2> QED BY <2>4, <2>8
<1>4. Walking!GraphIsComplete
  BY <1>3, WalkingCardinality DEF Walking!GraphIsComplete
<1> QED BY <1>2, <1>4 DEF Walking!GraphsAreTrue

-----------------------------------------------------------------------------
(***************************************************************************)
(* Lists that are read page after page (Paging).                           *)
(***************************************************************************)
ItemKinds == {"hit", "miss", "data"}

LEMMA PagingConstants ==
    /\ MaxOffset \in Nat /\ MaxRows \in Nat /\ MaxRows <= MaxOffset + 1
    /\ MaxLimit \in Nat \ {0} /\ DefaultLimit \in Nat \ {0}
    /\ Limits \subseteq Nat /\ ScanLimits \subseteq Nat \ {0} /\ RefsPerLimit \in Nat \ {0}
BY ToolsAssumption DEF Reading!PagingAssumption

LEMMA ReadingCardinality == ASSUME NEW S PROVE Reading!Cardinality(S) = Cardinality(S)
BY DEF Reading!Cardinality, Cardinality, Reading!IsFiniteSet, IsFiniteSet

-----------------------------------------------------------------------------
(* How many of the first items a query finds.                              *)
HitsUpto(K, n) == {p \in 1..Len(rows) : p <= n /\ rows[p] \in K}

LEMMA HitsAreFinite ==
    ASSUME rows \in Seq(ItemKinds), NEW K, NEW n \in Int
    PROVE  /\ IsFiniteSet(HitsUpto(K, n)) /\ Reading!Upto(K, n) = Cardinality(HitsUpto(K, n))
           /\ Reading!Upto(K, n) \in Nat /\ Reading!Upto(K, n) <= Len(rows)
<1>1. Len(rows) \in Nat
  BY LenProperties
<1>2. IsFiniteSet(1 .. Len(rows)) /\ Cardinality(1 .. Len(rows)) = Len(rows)
  <2>1. 1 \in Int /\ Len(rows) \in Int
    BY <1>1
  <2>2. /\ IsFiniteSet(1 .. Len(rows))
        /\ Cardinality(1 .. Len(rows)) = IF 1 > Len(rows) THEN 0 ELSE Len(rows) - 1 + 1
    BY <2>1, FS_Interval, Zenon
  <2>3. (IF 1 > Len(rows) THEN 0 ELSE Len(rows) - 1 + 1) = Len(rows)
    BY <1>1
  <2> QED BY <2>2, <2>3
<1>3. HitsUpto(K, n) \subseteq 1 .. Len(rows)
  BY DEF HitsUpto
<1>4. /\ IsFiniteSet(HitsUpto(K, n)) /\ Cardinality(HitsUpto(K, n)) \in Nat
      /\ Cardinality(HitsUpto(K, n)) <= Len(rows)
  BY <1>2, <1>3, FS_Subset, FS_CardinalityType
<1>5. Reading!Upto(K, n) = Cardinality(HitsUpto(K, n))
  BY ReadingCardinality DEF Reading!Upto, HitsUpto
<1> QED BY <1>4, <1>5

LEMMA UptoGrows ==
    ASSUME rows \in Seq(ItemKinds), NEW K, NEW m \in Int, NEW n \in Int, m <= n
    PROVE  Reading!Upto(K, m) <= Reading!Upto(K, n)
<1>1. HitsUpto(K, m) \subseteq HitsUpto(K, n)
  <2>1. SUFFICES ASSUME NEW p \in HitsUpto(K, m) PROVE p \in HitsUpto(K, n)
    OBVIOUS
  <2>2. p \in 1 .. Len(rows) /\ p <= m /\ rows[p] \in K
    BY DEF HitsUpto
  <2>3. p <= n
    BY <2>2
  <2> QED BY <2>2, <2>3 DEF HitsUpto
<1> QED BY <1>1, HitsAreFinite, FS_Subset

LEMMA UptoEnds ==
    ASSUME rows \in Seq(ItemKinds), NEW K, NEW n \in Int
    PROVE  /\ Reading!Upto(K, n) <= Reading!Upto(K, Len(rows))
           /\ n >= Len(rows) => Reading!Upto(K, n) = Reading!Upto(K, Len(rows))
           /\ n <= 0 => Reading!Upto(K, n) = 0
<1>1. Len(rows) \in Nat
  BY LenProperties
<1>2. ASSUME n >= Len(rows) PROVE HitsUpto(K, n) = HitsUpto(K, Len(rows))
  <2>1. \A p \in 1 .. Len(rows) : p <= n /\ p <= Len(rows)
    BY <1>1, <1>2
  <2> QED BY <2>1 DEF HitsUpto
<1>3. ASSUME n <= 0 PROVE HitsUpto(K, n) = {}
  <2>1. \A p \in 1 .. Len(rows) : ~(p <= n)
    BY <1>1, <1>3
  <2> QED BY <2>1 DEF HitsUpto
<1>4. CASE n <= Len(rows)
  BY <1>1, <1>3, <1>4, UptoGrows, HitsAreFinite, FS_EmptySet, <1>2
<1>5. CASE n >= Len(rows)
  BY <1>1, <1>2, <1>3, <1>5, HitsAreFinite, FS_EmptySet
<1> QED BY <1>1, <1>4, <1>5

LEMMA UptoStep ==
    ASSUME rows \in Seq(ItemKinds), NEW K, NEW n \in 1 .. Len(rows)
    PROVE  /\ rows[n] \in K => Reading!Upto(K, n) = Reading!Upto(K, n - 1) + 1
           /\ rows[n] \notin K => Reading!Upto(K, n) = Reading!Upto(K, n - 1)
<1>1. n \in Int /\ n - 1 \in Int /\ Len(rows) \in Nat
  BY LenProperties
<1>2. ASSUME rows[n] \in K PROVE Reading!Upto(K, n) = Reading!Upto(K, n - 1) + 1
  <2>1. HitsUpto(K, n) = HitsUpto(K, n - 1) \cup {n} /\ n \notin HitsUpto(K, n - 1)
    <3>1. \A p \in 1 .. Len(rows) : p <= n <=> (p <= n - 1 \/ p = n)
      BY <1>1
    <3>2. ~(n <= n - 1)
      BY <1>1
    <3> QED BY <1>2, <3>1, <3>2 DEF HitsUpto
  <2> QED BY <1>1, <2>1, HitsAreFinite, FS_AddElement
<1>3. ASSUME rows[n] \notin K PROVE Reading!Upto(K, n) = Reading!Upto(K, n - 1)
  <2>1. HitsUpto(K, n) = HitsUpto(K, n - 1)
    <3>1. \A p \in 1 .. Len(rows) : p <= n <=> (p <= n - 1 \/ p = n)
      BY <1>1
    <3> QED BY <1>3, <3>1 DEF HitsUpto
  <2> QED BY <1>1, <2>1, HitsAreFinite
<1> QED BY <1>2, <1>3

(* The item that is found as the i-th.                                     *)
LEMMA ItemOfRank ==
    ASSUME rows \in Seq(ItemKinds), NEW K, NEW i \in 1 .. Reading!Upto(K, Len(rows))
    PROVE  \E p \in 1 .. Len(rows) : rows[p] \in K /\ Reading!Upto(K, p) = i
<1> DEFINE U(n) == Reading!Upto(K, n)
           Reach == {n \in Nat : n <= Len(rows) /\ i <= U(n)}
<1>1. Len(rows) \in Nat /\ U(Len(rows)) \in Nat /\ i \in Nat \ {0} /\ i <= U(Len(rows))
  BY LenProperties, HitsAreFinite
<1>2. Len(rows) \in Reach
  BY <1>1
<1>3. PICK n \in Reach : \A m \in Reach : ~(<<m, n>> \in OpToRel(<, Nat))
  BY <1>2, NatLessThanWellFounded, WFMin
<1>4. n \in Nat /\ n <= Len(rows) /\ i <= U(n) /\ U(n) \in Nat
  <2>1. n \in Reach
    BY <1>3
  <2>2. n \in Nat /\ n <= Len(rows) /\ i <= U(n)
    BY <2>1, Zenon
  <2>3. n \in Int
    BY <2>2
  <2> QED BY <2>2, <2>3, HitsAreFinite
<1>5. n # 0
  BY <1>1, <1>4, UptoEnds
<1>6. n - 1 \in Nat /\ n - 1 < n /\ n - 1 <= Len(rows) /\ n \in 1 .. Len(rows)
  BY <1>1, <1>4, <1>5
<1>7. n - 1 \notin Reach
  BY <1>3, <1>4, <1>6 DEF OpToRel
<1>8. U(n - 1) < i /\ U(n - 1) \in Nat
  BY <1>1, <1>6, <1>7, HitsAreFinite
<1>9. /\ rows[n] \in K => U(n) = U(n - 1) + 1
      /\ rows[n] \notin K => U(n) = U(n - 1)
  BY <1>6, UptoStep
<1> HIDE DEF U, Reach
<1>10. rows[n] \in K /\ U(n) = i
  BY <1>1, <1>4, <1>8, <1>9
<1> QED BY <1>6, <1>10 DEF U

LEMMA ListOfAll ==
    ASSUME rows \in Seq(ItemKinds), NEW K
    PROVE  /\ Reading!All(K) \in Seq(Nat \ {0}) /\ Len(Reading!All(K)) = Reading!Upto(K, Len(rows))
           /\ Len(Reading!All(K)) <= Len(rows)
           /\ \A i \in 1 .. Len(Reading!All(K)) :
                 /\ Reading!All(K)[i] \in 1 .. Len(rows)
                 /\ Reading!Upto(K, Reading!All(K)[i]) = i
<1> DEFINE N == Reading!Upto(K, Len(rows))
           s == Reading!All(K)
<1>1. N \in Nat /\ Len(rows) \in Nat /\ N <= Len(rows)
  BY HitsAreFinite, LenProperties
<1>2. s = [i \in 1 .. N |-> CHOOSE p \in 1 .. Len(rows) : rows[p] \in K /\ Reading!Upto(K, p) = i]
  BY DEF Reading!All
<1>3. \A i \in 1 .. N : s[i] \in 1 .. Len(rows) /\ Reading!Upto(K, s[i]) = i
  BY <1>2, ItemOfRank
<1>4. DOMAIN s = 1 .. N
  BY <1>2
<1>5. s = [i \in 1 .. N |-> s[i]]
  BY <1>2
<1>6. \A i \in 1 .. N : s[i] \in Nat \ {0}
  BY <1>1, <1>3
<1> HIDE DEF s, N
<1>7. s \in Seq(Nat \ {0}) /\ Len(s) = N
  <2>1. s \in [1 .. N -> Nat \ {0}]
    BY <1>5, <1>6
  <2>2. s \in Seq(Nat \ {0})
    BY <1>1, <2>1, SeqDef
  <2> QED BY <1>1, <1>4, <2>2, LenProperties
<1> QED BY <1>1, <1>3, <1>7 DEF s, N

-----------------------------------------------------------------------------
LEMMA Joined ==
    ASSUME NEW s, s \in Seq(Nat \ {0}), NEW k \in Nat, NEW m \in Nat, k <= m, m <= Len(s)
    PROVE  SubSeq(s, 1, k) \o SubSeq(s, k + 1, m) = SubSeq(s, 1, m)
<1>0. Len(s) \in Nat /\ s \in [1 .. Len(s) -> Nat \ {0}]
  BY LenProperties
<1> DEFINE a == SubSeq(s, 1, k)
           b == SubSeq(s, k + 1, m)
           c == SubSeq(s, 1, m)
<1>1. a \in Seq(Nat \ {0}) /\ Len(a) = k /\ \A i \in 1 .. k : a[i] = s[i]
  BY <1>0, SubSeqProperties
<1>2. b \in Seq(Nat \ {0}) /\ Len(b) = m - k /\ \A i \in 1 .. m - k : b[i] = s[k + i]
  BY <1>0, SubSeqProperties
<1>3. c \in Seq(Nat \ {0}) /\ Len(c) = m /\ \A i \in 1 .. m : c[i] = s[i]
  BY <1>0, SubSeqProperties
<1> HIDE DEF a, b, c
<1>4. /\ a \o b \in Seq(Nat \ {0}) /\ Len(a \o b) = Len(a) + Len(b)
      /\ \A i \in 1 .. Len(a) + Len(b) : (a \o b)[i] = IF i <= Len(a) THEN a[i] ELSE b[i - Len(a)]
  <2>1. a \in Seq(Nat \ {0}) /\ b \in Seq(Nat \ {0})
    BY <1>1, <1>2
  <2> QED BY <2>1, ConcatProperties, Zenon
<1>5. Len(a) + Len(b) = m
  BY <1>1, <1>2
<1>6. \A i \in 1 .. m : (a \o b)[i] = c[i]
  <2>1. SUFFICES ASSUME NEW i \in 1 .. m PROVE (a \o b)[i] = c[i]
    OBVIOUS
  <2>2. (a \o b)[i] = IF i <= k THEN a[i] ELSE b[i - k]
    BY <1>1, <1>4, <1>5
  <2>3. CASE i <= k
    BY <1>1, <1>3, <2>2, <2>3
  <2>4. CASE ~(i <= k)
    <3>1. i - k \in 1 .. m - k /\ k + (i - k) = i
      BY <2>4
    <3>2. b[i - k] = s[k + (i - k)]
      BY <1>2, <3>1
    <3> QED BY <1>3, <2>2, <2>4, <3>1, <3>2
  <2> QED BY <2>3, <2>4
<1> QED BY <1>3, <1>4, <1>5, <1>6, SeqEqual DEF a, b, c

(* A page that begins where the last one ended.                            *)
LEMMA PageFollows ==
    ASSUME NEW s, s \in Seq(Nat \ {0}), NEW k \in Nat, k <= Len(s), NEW n \in Nat
    PROVE  /\ k + n <= Len(s) => SubSeq(s, 1, k) \o Reading!Slice(s, k, n) = SubSeq(s, 1, k + n)
           /\ k + n >= Len(s) => SubSeq(s, 1, k) \o Reading!Slice(s, k, n) = s
<1>1. Len(s) \in Nat /\ s \in [1 .. Len(s) -> Nat \ {0}]
  BY LenProperties
<1>2. ASSUME NEW m \in Nat, k <= m, m <= Len(s)
      PROVE  SubSeq(s, 1, k) \o SubSeq(s, k + 1, m) = SubSeq(s, 1, m)
  BY <1>2, Joined, Zenon
<1>3. SubSeq(s, 1, Len(s)) = s
  BY <1>1, SubSeqProperties, SeqEqual
<1>4. ASSUME k + n <= Len(s)
      PROVE  SubSeq(s, 1, k) \o Reading!Slice(s, k, n) = SubSeq(s, 1, k + n)
  <2>1. Reading!Slice(s, k, n) = SubSeq(s, k + 1, k + n)
    <3>1. (IF k + n < Len(s) THEN k + n ELSE Len(s)) = k + n
      BY <1>1, <1>4
    <3> QED BY <3>1 DEF Reading!Slice
  <2>2. k + n \in Nat /\ k <= k + n
    OBVIOUS
  <2> QED BY <1>2, <1>4, <2>1, <2>2
<1>5. ASSUME k + n >= Len(s)
      PROVE  SubSeq(s, 1, k) \o Reading!Slice(s, k, n) = s
  <2>1. Reading!Slice(s, k, n) = SubSeq(s, k + 1, Len(s))
    <3>1. ~(k + n < Len(s))
      BY <1>1, <1>5
    <3> QED BY <3>1 DEF Reading!Slice
  <2>2. SubSeq(s, 1, k) \o SubSeq(s, k + 1, Len(s)) = SubSeq(s, 1, Len(s))
    <3>1. Len(s) <= Len(s)
      BY <1>1
    <3> QED BY <1>1, <1>2, <3>1
  <2> QED BY <1>3, <2>1, <2>2
<1> QED BY <1>4, <1>5

LEMMA BeginningIsPrefix ==
    ASSUME NEW s, s \in Seq(Nat \ {0}), NEW k \in Nat, k <= Len(s)
    PROVE  /\ Reading!IsPrefix(SubSeq(s, 1, k), s) /\ Reading!IsPrefix(s, s)
           /\ SubSeq(s, 1, Len(s)) = s /\ Len(SubSeq(s, 1, k)) = k
<1>1. Len(s) \in Nat /\ SubSeq(s, 1, k) \in Seq(Nat \ {0}) /\ Len(SubSeq(s, 1, k)) = k
  BY LenProperties, SubSeqProperties
<1>2. SubSeq(s, 1, Len(s)) = s
  BY <1>1, SubSeqProperties, SeqEqual
<1>3. SubSeq(SubSeq(s, 1, k), 1, k) = SubSeq(s, 1, k)
  <2> DEFINE t == SubSeq(s, 1, k)
  <2>1. t \in Seq(Nat \ {0}) /\ Len(t) = k
    BY <1>1
  <2> HIDE DEF t
  <2>2. SubSeq(t, 1, Len(t)) = t
    BY <1>1, <2>1, SubSeqProperties, SeqEqual
  <2> QED BY <2>1, <2>2 DEF t
<1> QED BY <1>1, <1>2, <1>3 DEF Reading!IsPrefix

-----------------------------------------------------------------------------
(* What the requests before this one have read: as far as the cursor, and  *)
(* for the tools that go on at an item, all before that item.              *)
Read ==
    IF listTool \in {"text", "insns"} THEN Reading!Upto({"hit"}, start - 1) + offset ELSE offset
OwnTools == {"ida_list_functions", "ida_list_strings", "ida_list_imports"}

PagingTypeOK ==
    /\ listTool \in Reading!Paged \cup Reading!Flagged
    /\ rows \in Seq(ItemKinds) /\ Len(rows) <= MaxRows
    /\ limit \in Nat /\ (listTool \in Reading!NeedsLimit => limit > 0)
    /\ maxScan \in Nat \ {0} /\ start \in Nat \ {0} /\ offset \in Nat

PagingInv ==
    /\ PagingTypeOK
    /\ state = "more" =>
         /\ got = SubSeq(Reading!Complete, 1, Read) /\ Read <= Len(Reading!Complete)
         /\ listTool = "text" => offset = 0
         /\ listTool = "insns" => Read <= Reading!Upto({"hit"}, start + maxScan - 1)
         /\ listTool \in OwnTools => offset <= MaxOffset
         /\ listTool \in Reading!Flagged => offset = 0
    /\ state # "more" => Reading!PagesAddUp

LEMMA CompleteIsList ==
    ASSUME PagingTypeOK
    PROVE  /\ Reading!Complete \in Seq(Nat \ {0}) /\ Len(Reading!Complete) \in Nat
           /\ Len(Reading!Complete) <= Len(rows) /\ Len(rows) \in Nat
<1>1. rows \in Seq(ItemKinds)
  BY DEF PagingTypeOK
<1>2. \E K : Reading!Complete = Reading!All(K)
  BY Zenon DEF Reading!Complete, Reading!Everything, Reading!Anywhere
<1> QED BY <1>1, <1>2, ListOfAll, LenProperties

(* Tools whose cursor counts what was read.                                *)
CountedRead(s, n) == Reading!Answer(Reading!Slice(s, offset, n), offset + n < Len(s), offset + n)

LEMMA CountedPage ==
    ASSUME PagingTypeOK, NEW s, s \in Seq(Nat \ {0}), NEW n \in Nat,
           offset <= Len(s), got = SubSeq(s, 1, offset)
    PROVE  LET a == CountedRead(s, n) IN
           /\ a.next # -1 =>
                /\ a.next \in Nat /\ a.next < Len(s)
                /\ got \o a.page = SubSeq(s, 1, a.next)
           /\ a.next = -1 => got \o a.page = s
<1>1. Len(s) \in Nat /\ offset \in Nat
  BY LenProperties DEF PagingTypeOK
<1>2. /\ offset + n <= Len(s) => got \o Reading!Slice(s, offset, n) = SubSeq(s, 1, offset + n)
      /\ offset + n >= Len(s) => got \o Reading!Slice(s, offset, n) = s
  BY <1>1, PageFollows
<1>3. CASE offset + n < Len(s)
  <2>1. CountedRead(s, n).page = Reading!Slice(s, offset, n) /\ CountedRead(s, n).next = offset + n
    BY <1>3 DEF CountedRead, Reading!Answer
  <2>2. offset + n \in Nat /\ offset + n # -1 /\ offset + n <= Len(s)
    BY <1>1, <1>3
  <2> QED BY <1>2, <1>3, <2>1, <2>2, Zenon
<1>4. CASE ~(offset + n < Len(s))
  <2>1. CountedRead(s, n).page = Reading!Slice(s, offset, n) /\ CountedRead(s, n).next = -1
    BY <1>4 DEF CountedRead, Reading!Answer, Reading!NoCursor
  <2>2. offset + n >= Len(s)
    BY <1>1, <1>4
  <2> QED BY <1>2, <2>1, <2>2, Zenon
<1> QED BY <1>3, <1>4

(* All but those that search on, those that go on at an item, and the two  *)
(* that look one item ahead.                                               *)
Otherwise == {"immediate", "data_ref", "code_ref", "text", "insns"}

LEMMA LimitsAreCounts ==
    ASSUME PagingTypeOK
    PROVE  /\ Reading!Clamped \in Nat \ {0} /\ Reading!OrDefault \in Nat \ {0}
           /\ Reading!Capped \in Nat /\ Reading!OrAHundred \in Nat
           /\ Reading!clamp_int(limit, 1, MaxLimit) \in Nat \ {0}
           /\ offset <= MaxOffset => Reading!clamp_int(offset, 0, MaxOffset) = offset
           /\ limit > 0 => Reading!Capped > 0
BY PagingConstants DEF PagingTypeOK, Reading!Clamped, Reading!OrDefault, Reading!Capped,
   Reading!OrAHundred, Reading!clamp_int

LEMMA PagesCount ==
    ASSUME PagingInv, state = "more", listTool \in Reading!Paged \ Otherwise
    PROVE  \E n \in Nat : Reading!NextPage = CountedRead(Reading!Complete, n)
<1> DEFINE S == Reading!Complete
<1>1. PagingTypeOK /\ offset \in Nat /\ Len(S) \in Nat
  BY CompleteIsList DEF PagingInv, PagingTypeOK
<1>2. \A s : \A n \in Nat : s = S => Reading!Counted(s, n) = CountedRead(S, n)
  <2>1. \A n \in Nat : Len(S) > offset + n <=> offset + n < Len(S)
    BY <1>1
  <2> QED BY <2>1 DEF Reading!Counted, CountedRead
<1>3. \A s : \A n \in Nat : s = S => \E m \in Nat : Reading!paginate(s, n) = CountedRead(S, m)
  BY <1>1 DEF Reading!paginate, CountedRead
<1>4. CASE listTool \in {"disasm", "blocks"}
  <2>1. S = Reading!Everything
    BY <1>4 DEF Reading!Complete
  <2>2. Reading!NextPage = Reading!Counted(Reading!Everything, Reading!Clamped)
    BY <1>4 DEF Reading!NextPage, Reading!disasm, Reading!basic_blocks
  <2> HIDE DEF S
  <2> QED BY <1>1, <1>2, <2>1, <2>2, LimitsAreCounts DEF S
<1>5. CASE listTool \in {"find_bytes", "string", "regex"}
  <2>1. S = Reading!Anywhere
    BY <1>5 DEF Reading!Complete
  <2>2. \/ Reading!NextPage = Reading!Counted(Reading!Anywhere, Reading!Clamped)
        \/ Reading!NextPage = Reading!Counted(Reading!Anywhere, Reading!OrDefault)
    BY <1>5 DEF Reading!NextPage, Reading!find_bytes, Reading!find_string, Reading!find_regex
  <2> HIDE DEF S
  <2> QED BY <1>1, <1>2, <2>1, <2>2, LimitsAreCounts DEF S
<1>6. CASE listTool \in {"funcs", "func_query", "globals", "entities", "imports", "imports_query",
                         "xref_query", "types", "profiles"}
  <2>1. S = Reading!Anywhere
    BY <1>6 DEF Reading!Complete
  <2>2. \E n \in {limit, Reading!OrAHundred, Reading!Capped} :
           Reading!NextPage = Reading!paginate(Reading!Anywhere, n)
    BY <1>6 DEF Reading!NextPage, Reading!list_funcs, Reading!func_query, Reading!list_globals,
       Reading!entity_query, Reading!imports, Reading!imports_query, Reading!xref_query,
       Reading!type_query, Reading!func_profile, Reading!pattern_filter
  <2>3. \A n \in {limit, Reading!OrAHundred, Reading!Capped} : n \in Nat
    BY <1>1, LimitsAreCounts DEF PagingTypeOK
  <2>4. PICK n \in {limit, Reading!OrAHundred, Reading!Capped} :
           Reading!NextPage = Reading!paginate(Reading!Anywhere, n)
    BY <2>2
  <2>5. n \in Nat
    BY <2>3
  <2> HIDE DEF S
  <2>6. \E m \in Nat : Reading!paginate(Reading!Anywhere, n) = CountedRead(S, m)
    BY <1>3, <2>1, <2>5
  <2> QED BY <2>4, <2>6 DEF S
<1>7. CASE listTool \in OwnTools
  <2>1. S = Reading!Anywhere
    BY <1>7 DEF Reading!Complete, OwnTools
  <2>2. Reading!NextPage = Reading!Rows(Reading!Anywhere)
    BY <1>7 DEF OwnTools, Reading!NextPage, Reading!list_functions, Reading!list_strings,
       Reading!list_imports
  <2>3. offset <= MaxOffset
    BY <1>7 DEF PagingInv
  <2> HIDE DEF S
  <2> QED BY <1>1, <2>1, <2>2, <2>3, LimitsAreCounts DEF S, Reading!Rows, CountedRead
<1> QED BY <1>4, <1>5, <1>6, <1>7 DEF Reading!Paged, Otherwise, OwnTools

LEMMA PartOfList ==
    ASSUME NEW s, s \in Seq(Nat \ {0}), NEW k \in Nat, NEW m \in Nat, k <= m, m <= Len(s)
    PROVE  /\ SubSeq(s, k + 1, m) \in Seq(Nat \ {0}) /\ Len(SubSeq(s, k + 1, m)) = m - k
           /\ \A i \in 1 .. m - k : SubSeq(s, k + 1, m)[i] = s[k + i]
<1>1. Len(s) \in Nat /\ s \in [1 .. Len(s) -> Nat \ {0}]
  BY LenProperties
<1>2. k + 1 \in Int /\ m \in Int /\ \A i \in k + 1 .. m : s[i] \in Nat \ {0}
  <2>1. \A i \in k + 1 .. m : i \in 1 .. Len(s)
    BY <1>1
  <2> QED BY <1>1, <2>1
<1>3. PICK b : b = k + 1
  OBVIOUS
<1>4. b \in Int /\ \A i \in b .. m : s[i] \in Nat \ {0}
  BY <1>2, <1>3
<1>5. /\ SubSeq(s, b, m) \in Seq(Nat \ {0})
      /\ Len(SubSeq(s, b, m)) = IF b <= m THEN m - b + 1 ELSE 0
      /\ \A i \in 1 .. m - b + 1 : SubSeq(s, b, m)[i] = s[b + i - 1]
  BY <1>2, <1>4, SubSeqProperties
<1>6. m - b + 1 = m - k /\ (IF b <= m THEN m - b + 1 ELSE 0) = m - k /\ \A i \in Int : b + i - 1 = k + i
  BY <1>3
<1>7. Len(SubSeq(s, b, m)) = m - k
  BY <1>5, <1>6, Zenon
<1>8. ASSUME NEW i \in 1 .. m - k PROVE SubSeq(s, b, m)[i] = s[k + i]
  <2>1. i \in 1 .. m - b + 1 /\ i \in Int
    BY <1>3
  <2>2. SubSeq(s, b, m)[i] = s[b + i - 1]
    BY <1>5, <2>1, Zenon
  <2>3. b + i - 1 = k + i
    BY <1>6, <2>1, Zenon
  <2> QED BY <2>2, <2>3, Zenon
<1> QED BY <1>3, <1>5, <1>7, <1>8, Zenon

LEMMA FirstLess ==
    ASSUME NEW s, s \in Seq(Nat \ {0}), NEW n \in Nat \ {0}, NEW k \in Nat, k <= Len(s)
    PROVE  /\ Reading!Slice(s, k, n) \in Seq(Nat \ {0})
           /\ Len(Reading!Slice(s, k, n)) = (IF k + n < Len(s) THEN n ELSE Len(s) - k)
           /\ \A i \in 1 .. Len(Reading!Slice(s, k, n)) : Reading!Slice(s, k, n)[i] = s[k + i]
<1> DEFINE m == IF k + n < Len(s) THEN k + n ELSE Len(s)
<1>1. Len(s) \in Nat /\ s \in [1 .. Len(s) -> Nat \ {0}]
  BY LenProperties
<1>2. m \in Nat /\ m <= Len(s) /\ k <= m /\ m - k = (IF k + n < Len(s) THEN n ELSE Len(s) - k)
  BY <1>1
<1>3. Reading!Slice(s, k, n) = SubSeq(s, k + 1, m)
  BY DEF Reading!Slice
<1> HIDE DEF m
<1>4. /\ SubSeq(s, k + 1, m) \in Seq(Nat \ {0}) /\ Len(SubSeq(s, k + 1, m)) = m - k
      /\ \A i \in 1 .. m - k : SubSeq(s, k + 1, m)[i] = s[k + i]
  <2>1. m \in Nat /\ k <= m /\ m <= Len(s)
    BY <1>2
  <2> QED BY <2>1, PartOfList, Zenon
<1> QED BY <1>2, <1>3, <1>4

(* The next items of a part of a list.                                     *)
LEMMA SliceOfPart ==
    ASSUME NEW s, s \in Seq(Nat \ {0}), NEW k \in Nat, NEW m \in Nat, k <= m, m <= Len(s),
           NEW o \in Nat, o <= m - k, NEW n \in Nat
    PROVE  /\ Reading!Slice(SubSeq(s, k + 1, m), o, n)
                = SubSeq(s, k + o + 1, IF k + o + n < m THEN k + o + n ELSE m)
           /\ Len(SubSeq(s, k + 1, m)) = m - k
<1> DEFINE t == SubSeq(s, k + 1, m)
           e == IF o + n < m - k THEN o + n ELSE m - k
           d == IF k + o + n < m THEN k + o + n ELSE m
           a == SubSeq(t, o + 1, e)
           b == SubSeq(s, (k + o) + 1, d)
<1>1. Len(s) \in Nat
  BY LenProperties
<1>2. t \in Seq(Nat \ {0}) /\ Len(t) = m - k /\ \A i \in 1 .. m - k : t[i] = s[k + i]
  BY PartOfList, Zenon
<1> HIDE DEF t
<1>3. Reading!Slice(t, o, n) = a
  BY <1>2 DEF Reading!Slice
<1>4. e \in Nat /\ o <= e /\ e <= m - k /\ d = k + e /\ d \in Nat /\ k + o <= d /\ d <= Len(s)
  BY <1>1
<1> HIDE DEF e, d
<1>5. e <= Len(t) /\ k + o \in Nat
  BY <1>2, <1>4
<1>6. a \in Seq(Nat \ {0}) /\ Len(a) = e - o /\ \A i \in 1 .. e - o : a[i] = t[o + i]
  <2>1. t \in Seq(Nat \ {0}) /\ e \in Nat /\ o <= e /\ e <= Len(t)
    BY <1>2, <1>4, <1>5
  <2> QED BY <2>1, PartOfList, Zenon DEF a
<1>7. /\ b \in Seq(Nat \ {0}) /\ Len(b) = d - (k + o)
      /\ \A i \in 1 .. d - (k + o) : b[i] = s[(k + o) + i]
  <2>1. k + o \in Nat /\ d \in Nat /\ k + o <= d /\ d <= Len(s)
    BY <1>4, <1>5
  <2> QED BY <2>1, PartOfList, Zenon DEF b
<1> HIDE DEF a, b
<1>8. d - (k + o) = e - o
  BY <1>4
<1>9. \A i \in 1 .. e - o : a[i] = b[i]
  <2>1. SUFFICES ASSUME NEW i \in 1 .. e - o PROVE a[i] = b[i]
    OBVIOUS
  <2>2. o + i \in 1 .. m - k /\ k + (o + i) = (k + o) + i
    BY <1>4
  <2> QED BY <1>2, <1>6, <1>7, <1>8, <2>2
<1>10. a = b
  BY <1>6, <1>7, <1>8, <1>9, SeqEqual
<1> QED BY <1>2, <1>3, <1>10 DEF b, t, d

LEMMA FirstOfPart ==
    ASSUME NEW s, s \in Seq(Nat \ {0}), NEW k \in Nat, NEW m \in Nat, k <= m, m <= Len(s),
           NEW n \in Nat
    PROVE  Reading!Slice(SubSeq(s, k + 1, m), 0, n) = SubSeq(s, k + 1, IF k + n < m THEN k + n ELSE m)
<1>1. PICK o \in Nat : o = 0
  OBVIOUS
<1>2. o <= m - k
  BY <1>1
<1>3. Reading!Slice(SubSeq(s, k + 1, m), o, n)
        = SubSeq(s, k + o + 1, IF k + o + n < m THEN k + o + n ELSE m)
  BY <1>2, SliceOfPart
<1>4. k + o = k
  BY <1>1
<1> QED BY <1>1, <1>3, <1>4

LEMMA PageOfSearch ==
    ASSUME PagingInv, state = "more", listTool = "immediate"
    PROVE  LET a == Reading!NextPage
               S == Reading!Complete IN
           /\ a.next # -1 =>
                /\ a.next \in Nat /\ a.next <= Len(S)
                /\ got \o a.page = SubSeq(S, 1, a.next)
           /\ a.next = -1 => got \o a.page = S
<1> DEFINE S == Reading!Complete
           n == Reading!Clamped
           page == Reading!Slice(S, offset, n)
<1>1. /\ PagingTypeOK /\ offset \in Nat /\ Len(S) \in Nat /\ S \in Seq(Nat \ {0}) /\ n \in Nat \ {0}
      /\ offset <= Len(S) /\ got = SubSeq(S, 1, offset)
  BY CompleteIsList, LimitsAreCounts DEF PagingInv, PagingTypeOK, Read
<1>2. S = Reading!All({"hit"})
  BY DEF Reading!Complete
<1>3. Reading!NextPage = Reading!Answer(page, Len(page) = n, offset + n)
  BY <1>2 DEF Reading!NextPage, Reading!find_immediate
<1> HIDE DEF S, n
<1>4. Len(page) = (IF offset + n < Len(S) THEN n ELSE Len(S) - offset)
  BY <1>1, FirstLess
<1>5. /\ offset + n <= Len(S) => got \o page = SubSeq(S, 1, offset + n)
      /\ offset + n >= Len(S) => got \o page = S
  BY <1>1, PageFollows
<1> HIDE DEF page
<1>6. CASE Len(page) = n
  <2>1. Reading!NextPage.page = page /\ Reading!NextPage.next = offset + n
    BY <1>3, <1>6 DEF Reading!Answer
  <2>2. offset + n \in Nat /\ offset + n # -1 /\ offset + n <= Len(S)
    BY <1>1, <1>4, <1>6
  <2> QED BY <1>5, <2>1, <2>2, Zenon DEF S
<1>7. CASE Len(page) # n
  <2>1. Reading!NextPage.page = page /\ Reading!NextPage.next = -1
    BY <1>3, <1>7 DEF Reading!Answer, Reading!NoCursor
  <2>2. offset + n >= Len(S)
    BY <1>1, <1>4, <1>7
  <2> QED BY <1>5, <2>1, <2>2, Zenon DEF S
<1> QED BY <1>6, <1>7

LEMMA PageOfReferences ==
    ASSUME PagingInv, state = "more", listTool \in {"data_ref", "code_ref"}
    PROVE  LET a == Reading!NextPage
               S == Reading!Complete IN
           /\ a.next # -1 =>
                /\ a.next \in Nat /\ a.next <= Len(S)
                /\ got \o a.page = SubSeq(S, 1, a.next)
           /\ a.next = -1 => got \o a.page = S
<1> DEFINE S == Reading!Complete
           n == Reading!Clamped
           more == Reading!Slice(S, offset, n + 1)
           page == Reading!Slice(more, 0, n)
<1>1. /\ PagingTypeOK /\ offset \in Nat /\ Len(S) \in Nat /\ S \in Seq(Nat \ {0}) /\ n \in Nat \ {0}
      /\ offset <= Len(S) /\ got = SubSeq(S, 1, offset)
  BY CompleteIsList, LimitsAreCounts DEF PagingInv, PagingTypeOK, Read
<1>2. S = Reading!Anywhere
  BY DEF Reading!Complete
<1>3. Reading!NextPage = Reading!Answer(page, Len(more) > n, offset + n)
  BY <1>2 DEF Reading!NextPage, Reading!find_refs
<1> HIDE DEF S, n
<1>4. n + 1 \in Nat \ {0}
  BY <1>1
<1>5. /\ more \in Seq(Nat \ {0}) /\ Len(more) = (IF offset + (n + 1) < Len(S) THEN n + 1 ELSE Len(S) - offset)
      /\ \A i \in 1 .. Len(more) : more[i] = S[offset + i]
  BY <1>1, <1>4, FirstLess
<1> DEFINE plain == Reading!Slice(S, offset, n)
           m == IF offset + (n + 1) < Len(S) THEN offset + (n + 1) ELSE Len(S)
<1>6. /\ offset + n <= Len(S) => got \o plain = SubSeq(S, 1, offset + n)
      /\ offset + n >= Len(S) => got \o plain = S
  BY <1>1, PageFollows
<1>7. more = SubSeq(S, offset + 1, m)
  BY DEF Reading!Slice
<1>8. /\ m \in Nat /\ offset <= m /\ m <= Len(S) /\ n \in Nat
      /\ (IF offset + n < m THEN offset + n ELSE m)
            = (IF offset + n < Len(S) THEN offset + n ELSE Len(S))
  BY <1>1
<1> HIDE DEF m
<1>9. Reading!Slice(SubSeq(S, offset + 1, m), 0, n)
        = SubSeq(S, offset + 1, IF offset + n < m THEN offset + n ELSE m)
  <2>1. /\ S \in Seq(Nat \ {0}) /\ offset \in Nat /\ m \in Nat /\ offset <= m /\ m <= Len(S)
        /\ n \in Nat
    BY <1>1, <1>8
  <2> QED BY <2>1, FirstOfPart, Zenon
<1>10. page = plain
  <2>1. plain = SubSeq(S, offset + 1, IF offset + n < Len(S) THEN offset + n ELSE Len(S))
    BY DEF Reading!Slice
  <2> QED BY <1>7, <1>8, <1>9, <2>1, Zenon
<1> HIDE DEF plain, page, more
<1>11. CASE Len(more) > n
  <2>1. Reading!NextPage.page = plain /\ Reading!NextPage.next = offset + n
    BY <1>3, <1>10, <1>11 DEF Reading!Answer
  <2>2. offset + n \in Nat /\ offset + n # -1 /\ offset + n <= Len(S)
    <3>1. offset \in Nat /\ Len(S) \in Nat /\ n \in Nat
      BY <1>1
    <3>2. Len(more) = (IF offset + (n + 1) < Len(S) THEN n + 1 ELSE Len(S) - offset)
      BY <1>5
    <3>3. PICK l, q, z : l = Len(S) /\ q = Len(more) /\ z = offset
      OBVIOUS
    <3>4. z + n \in Nat /\ z + n # -1 /\ z + n <= l
      BY <3>1, <3>2, <3>3, <1>11
    <3> QED BY <3>3, <3>4, Zenon
  <2> QED BY <1>6, <2>1, <2>2, Zenon DEF S
<1>12. CASE ~(Len(more) > n)
  <2>1. Reading!NextPage.page = plain /\ Reading!NextPage.next = -1
    BY <1>3, <1>10, <1>12 DEF Reading!Answer, Reading!NoCursor
  <2>2. offset + n >= Len(S)
    BY <1>1, <1>5, <1>12
  <2> QED BY <1>6, <2>1, <2>2, Zenon DEF S
<1> QED BY <1>11, <1>12

(* search_text goes on behind its last hit.                                *)
LEMMA PageOfText ==
    ASSUME PagingInv, state = "more", listTool = "text"
    PROVE  LET a == Reading!NextPage
               S == Reading!Complete IN
           /\ a.next # -1 =>
                /\ a.next \in Nat \ {0}
                /\ Reading!Upto({"hit"}, a.next - 1) <= Len(S)
                /\ got \o a.page = SubSeq(S, 1, Reading!Upto({"hit"}, a.next - 1))
           /\ a.next = -1 => got \o a.page = S
<1> DEFINE S == Reading!Complete
           n == Reading!OrDefault
           k == Reading!Upto({"hit"}, start - 1)
           rest == SubSeq(S, k + 1, Len(S))
           page == Reading!Slice(rest, 0, n)
           plain == Reading!Slice(S, k, n)
<1>1. /\ PagingTypeOK /\ start \in Nat \ {0} /\ offset = 0 /\ rows \in Seq(ItemKinds)
      /\ start - 1 \in Int
  BY DEF PagingInv, PagingTypeOK
<1>2. k \in Nat
  BY <1>1, HitsAreFinite
<1>3. Read = k /\ Read = Reading!Upto({"hit"}, start - 1)
  BY <1>1, <1>2 DEF Read
<1>4. /\ Len(S) \in Nat /\ S \in Seq(Nat \ {0}) /\ n \in Nat \ {0}
      /\ k <= Len(S) /\ got = SubSeq(S, 1, k)
  BY <1>1, <1>3, CompleteIsList, LimitsAreCounts DEF PagingInv
<1>5. S = Reading!All({"hit"})
  BY DEF Reading!Complete
<1>6. /\ Len(S) = Reading!Upto({"hit"}, Len(rows))
      /\ \A i \in 1 .. Len(S) : S[i] \in 1 .. Len(rows) /\ Reading!Upto({"hit"}, S[i]) = i
  BY <1>1, <1>5, ListOfAll
<1>7. Reading!InCode(start, Len(rows)) = rest
  BY <1>5, <1>6 DEF Reading!InCode
<1>8. Reading!NextPage = Reading!Answer(page, Len(page) = n, page[Len(page)] + 1)
  BY <1>7 DEF Reading!NextPage, Reading!search_text, Reading!Last
<1> HIDE DEF S, n, k
<1>9. /\ k + n <= Len(S) => got \o plain = SubSeq(S, 1, k + n)
      /\ k + n >= Len(S) => got \o plain = S
  BY <1>2, <1>4, PageFollows
<1>10. /\ plain \in Seq(Nat \ {0}) /\ Len(plain) = (IF k + n < Len(S) THEN n ELSE Len(S) - k)
       /\ \A i \in 1 .. Len(plain) : plain[i] = S[k + i]
  BY <1>2, <1>4, FirstLess
<1>11. page = plain
  <2>1. /\ S \in Seq(Nat \ {0}) /\ k \in Nat /\ Len(S) \in Nat /\ k <= Len(S) /\ Len(S) <= Len(S)
        /\ n \in Nat
    BY <1>2, <1>4
  <2>2. page = SubSeq(S, k + 1, IF k + n < Len(S) THEN k + n ELSE Len(S))
    BY <2>1, FirstOfPart, Zenon
  <2>3. plain = SubSeq(S, k + 1, IF k + n < Len(S) THEN k + n ELSE Len(S))
    BY DEF Reading!Slice
  <2> HIDE DEF rest, page, plain
  <2> QED BY <2>2, <2>3
<1> HIDE DEF rest, page, plain
<1>12. CASE Len(page) = n
  <2>1. Reading!NextPage.page = plain /\ Reading!NextPage.next = plain[n] + 1
    BY <1>8, <1>11, <1>12 DEF Reading!Answer
  <2>2. k + n <= Len(S) /\ n \in 1 .. Len(plain) /\ k + n \in 1 .. Len(S)
    BY <1>2, <1>4, <1>10, <1>11, <1>12
  <2>3. plain[n] = S[k + n]
    BY <1>10, <2>2
  <2>4. S[k + n] \in 1 .. Len(rows) /\ Reading!Upto({"hit"}, S[k + n]) = k + n
    BY <1>6, <2>2
  <2>5. plain[n] + 1 \in Nat \ {0} /\ (plain[n] + 1) - 1 = S[k + n] /\ plain[n] + 1 # -1
    BY <2>3, <2>4
  <2> QED BY <1>9, <2>1, <2>2, <2>4, <2>5, Zenon DEF S
<1>13. CASE Len(page) # n
  <2>1. Reading!NextPage.page = plain /\ Reading!NextPage.next = -1
    BY <1>8, <1>11, <1>13 DEF Reading!Answer, Reading!NoCursor
  <2>2. k + n >= Len(S)
    BY <1>2, <1>4, <1>10, <1>11, <1>13
  <2> QED BY <1>9, <2>1, <2>2, Zenon DEF S
<1> QED BY <1>12, <1>13

(* insn_query lists what it has decoded.                                   *)
LEMMA PageOfInstructions ==
    ASSUME PagingInv, state = "more", listTool = "insns"
    PROVE  LET a == Reading!NextPage
               S == Reading!Complete
               k == Reading!Upto({"hit"}, start - 1)
               m == Reading!Upto({"hit"}, start + maxScan - 1) IN
           /\ m \in Nat /\ k \in Nat /\ m <= Len(S)
           /\ a.next # -1 =>
                /\ a.next \in Nat /\ k + a.next <= m
                /\ got \o a.page = SubSeq(S, 1, k + a.next)
           /\ a.next = -1 =>
                /\ got \o a.page = SubSeq(S, 1, m)
                /\ ~Reading!scan_insn_ranges.truncated => m = Len(S)
<1> DEFINE S == Reading!Complete
           c == Reading!Capped
           k == Reading!Upto({"hit"}, start - 1)
           m == Reading!Upto({"hit"}, start + maxScan - 1)
           at == k + offset
           to == IF at + c < m THEN at + c ELSE m
           page == Reading!Slice(SubSeq(S, k + 1, m), offset, c)
<1>1. /\ PagingTypeOK /\ start \in Nat \ {0} /\ maxScan \in Nat \ {0} /\ offset \in Nat
      /\ rows \in Seq(ItemKinds) /\ start - 1 \in Int /\ start + maxScan - 1 \in Int
      /\ start - 1 <= start + maxScan - 1 /\ start + maxScan - 1 \in Nat
  BY DEF PagingInv, PagingTypeOK
<1>2. k \in Nat /\ m \in Nat /\ k <= m
  BY <1>1, HitsAreFinite, UptoGrows
<1>3. S = Reading!All({"hit"})
  BY DEF Reading!Complete
<1>4. Len(S) = Reading!Upto({"hit"}, Len(rows))
  BY <1>1, <1>3, ListOfAll
<1>5. m <= Len(S)
  BY <1>1, <1>4, UptoEnds
<1>6. /\ Len(S) \in Nat /\ S \in Seq(Nat \ {0}) /\ c \in Nat /\ Len(rows) \in Nat
  BY <1>1, CompleteIsList, LimitsAreCounts
<1>7. at \in Nat /\ at <= m /\ got = SubSeq(S, 1, at)
  <2>1. Read = at
    BY DEF Read
  <2> QED BY <1>1, <1>2, <2>1 DEF PagingInv
<1>8. start + maxScan > Len(rows) => m = Len(S)
  <2>1. start + maxScan > Len(rows) => start + maxScan - 1 >= Len(rows)
    BY <1>1, <1>6
  <2> QED BY <1>1, <1>4, <2>1, UptoEnds
<1>9. /\ Reading!scan_insn_ranges.page = page
      /\ Reading!scan_insn_ranges.more = (Len(SubSeq(S, k + 1, m)) > offset + c)
      /\ Reading!scan_insn_ranges.truncated
            = (Len(SubSeq(S, k + 1, m)) <= offset + c /\ start + maxScan <= Len(rows))
  BY <1>3 DEF Reading!scan_insn_ranges, Reading!InCode
<1> HIDE DEF S, c, k, m
<1>10. /\ page = SubSeq(S, k + offset + 1, IF k + offset + c < m THEN k + offset + c ELSE m)
       /\ Len(SubSeq(S, k + 1, m)) = m - k
  <2>1. offset <= m - k
    BY <1>1, <1>2, <1>7
  <2> QED BY <1>1, <1>2, <1>5, <1>6, <2>1, SliceOfPart
<1>11. page = SubSeq(S, at + 1, to)
  BY <1>10
<1>12. to \in Nat /\ at <= to /\ to <= Len(S) /\ to <= m
  BY <1>2, <1>5, <1>6, <1>7
<1>13. got \o page = SubSeq(S, 1, to)
  <2> HIDE DEF at, to, page
  <2> QED BY <1>6, <1>7, <1>11, <1>12, Joined
<1>14. Len(SubSeq(S, k + 1, m)) > offset + c <=> at + c < m
  BY <1>1, <1>2, <1>6, <1>10
<1>15. Reading!NextPage = Reading!Answer(page, Len(SubSeq(S, k + 1, m)) > offset + c, offset + c)
  BY <1>9 DEF Reading!NextPage, Reading!insn_query, c
<1>16. CASE at + c < m
  <2>1. Reading!NextPage.page = page /\ Reading!NextPage.next = offset + c
    BY <1>14, <1>15, <1>16 DEF Reading!Answer
  <2>2. /\ offset + c \in Nat /\ offset + c # -1 /\ to = k + (offset + c)
        /\ k + (offset + c) <= m
    BY <1>1, <1>2, <1>6, <1>16
  <2> HIDE DEF at, to, page
  <2> QED BY <1>2, <1>5, <1>13, <2>1, <2>2, Zenon DEF S, k, m
<1>17. CASE ~(at + c < m)
  <2>1. Reading!NextPage.page = page /\ Reading!NextPage.next = -1
    BY <1>14, <1>15, <1>17 DEF Reading!Answer, Reading!NoCursor
  <2>2. to = m
    BY <1>17
  <2>3. ~Reading!scan_insn_ranges.truncated => m = Len(S)
    <3>1. Len(SubSeq(S, k + 1, m)) <= offset + c
      BY <1>1, <1>2, <1>6, <1>10, <1>14, <1>17
    <3>2. ~(start + maxScan <= Len(rows)) => start + maxScan > Len(rows)
      BY <1>1, <1>6
    <3> QED BY <1>8, <1>9, <3>1, <3>2
  <2> HIDE DEF at, to, page
  <2> QED BY <1>2, <1>5, <1>13, <2>1, <2>2, <2>3, Zenon DEF S, k, m
<1> QED BY <1>16, <1>17

-----------------------------------------------------------------------------
(* Lists with a flag.                                                      *)
LEMMA BeginningOfList ==
    ASSUME NEW s, s \in Seq(Nat \ {0}), NEW n \in Nat
    PROVE  /\ Reading!IsPrefix(Reading!Slice(s, 0, n), s)
           /\ ~(Len(s) > n) => Reading!Slice(s, 0, n) = s
           /\ Len(Reading!Slice(s, 0, n)) = (IF n < Len(s) THEN n ELSE Len(s))
           /\ Reading!Slice(s, 0, n) = SubSeq(s, 1, IF n < Len(s) THEN n ELSE Len(s))
<1> DEFINE m == IF n < Len(s) THEN n ELSE Len(s)
<1>1. Len(s) \in Nat
  BY LenProperties
<1>2. m \in Nat /\ m <= Len(s) /\ (~(Len(s) > n) => m = Len(s))
  BY <1>1
<1>3. Reading!Slice(s, 0, n) = SubSeq(s, 1, m)
  BY DEF Reading!Slice
<1> HIDE DEF m
<1>4. /\ Reading!IsPrefix(SubSeq(s, 1, m), s) /\ SubSeq(s, 1, Len(s)) = s
      /\ Len(SubSeq(s, 1, m)) = m
  BY <1>2, BeginningIsPrefix
<1> QED BY <1>2, <1>3, <1>4 DEF m

LEMMA WholeList ==
    ASSUME PagingInv, state = "more", listTool \in Reading!Flagged
    PROVE  LET a == Reading!OneList IN
           /\ Reading!IsPrefix(a.list, Reading!Complete)
           /\ ~a.cut => a.list = Reading!Complete \/ (listTool = "callers" /\ Reading!Looked < Len(rows))
<1> DEFINE S == Reading!Complete
<1>1. /\ PagingTypeOK /\ Len(S) \in Nat /\ S \in Seq(Nat \ {0}) /\ limit \in Nat
      /\ Len(rows) \in Nat /\ rows \in Seq(ItemKinds)
  BY CompleteIsList DEF PagingInv, PagingTypeOK
<1>2. /\ Reading!Clamped \in Nat \ {0} /\ Reading!Capped \in Nat
      /\ Reading!clamp_int(limit, 1, MaxLimit) \in Nat \ {0}
      /\ limit > 0 => Reading!Capped > 0
  BY <1>1, LimitsAreCounts
<1>3. CASE listTool \in {"xrefs", "items", "lines", "some_blocks", "ida_disassemble"}
  <2>1. \E n \in {Reading!Clamped, Reading!Capped, Reading!clamp_int(limit, 1, MaxLimit)} :
           Reading!OneList = Reading!CutList(S, n)
    BY <1>3 DEF Reading!OneList, Reading!xrefs_to, Reading!limit_items,
       Reading!disasm_lines_limited, Reading!collect_basic_blocks_limited, Reading!disassemble,
       Reading!Complete
  <2>2. PICK n \in {Reading!Clamped, Reading!Capped, Reading!clamp_int(limit, 1, MaxLimit)} :
           Reading!OneList = Reading!CutList(S, n)
    BY <2>1
  <2>3. n \in Nat
    BY <1>2
  <2>4. Reading!OneList.list = Reading!Slice(S, 0, n) /\ Reading!OneList.cut = (Len(S) > n)
    BY <2>2 DEF Reading!CutList
  <2> HIDE DEF S
  <2> QED BY <1>1, <2>3, <2>4, BeginningOfList DEF S
<1>4. CASE listTool = "ida_xrefs"
  <2> DEFINE n == Reading!clamp_int(limit, 1, MaxLimit)
             list == Reading!Slice(S, 0, n)
  <2>1. Reading!OneList.list = list /\ (Reading!OneList.cut <=> Len(list) >= n)
    BY <1>4 DEF Reading!OneList, Reading!xrefs, Reading!Complete
  <2>2. n \in Nat
    BY <1>2
  <2> HIDE DEF S, n
  <2>3. /\ Reading!IsPrefix(list, S) /\ (~(Len(S) > n) => list = S)
        /\ Len(list) = (IF n < Len(S) THEN n ELSE Len(S))
    BY <1>1, <2>2, BeginningOfList
  <2>4. ~(Len(list) >= n) => ~(Len(S) > n)
    BY <1>1, <2>2, <2>3
  <2> HIDE DEF list
  <2>5. ASSUME ~Reading!OneList.cut PROVE list = S
    <3>1. ~(Len(list) >= n)
      BY <2>1, <2>5
    <3> QED BY <2>3, <2>4, <3>1
  <2> QED BY <2>1, <2>3, <2>5 DEF S
<1>5. CASE listTool = "callees"
  <2> DEFINE n == Reading!Clamped
             list == Reading!Slice(S, 0, n)
  <2>0. S = Reading!All({"hit"})
    BY <1>5 DEF Reading!Complete
  <2>1. Reading!OneList.list = list
        /\ (Reading!OneList.cut <=> Len(list) = n /\ list[Len(list)] < Len(rows))
    BY <1>5, <2>0 DEF Reading!OneList, Reading!callees, Reading!Last
  <2>2. n \in Nat \ {0} /\ n \in Nat
    BY <1>2
  <2>3. /\ Len(S) = Reading!Upto({"hit"}, Len(rows))
        /\ \A i \in 1 .. Len(S) : S[i] \in 1 .. Len(rows) /\ Reading!Upto({"hit"}, S[i]) = i
    BY <1>1, <2>0, ListOfAll
  <2> HIDE DEF S, n
  <2>4. /\ Reading!IsPrefix(list, S) /\ (~(Len(S) > n) => list = S)
        /\ Len(list) = (IF n < Len(S) THEN n ELSE Len(S))
    BY <1>1, <2>2, BeginningOfList
  <2>5. ASSUME Len(S) > n PROVE Len(list) = n /\ list[Len(list)] < Len(rows)
    <3>1. Len(list) = n
      BY <1>1, <2>2, <2>4, <2>5
    <3>2. list[n] = S[n]
      <4>1. list = SubSeq(S, 1, n)
        BY <1>1, <2>2, <2>5 DEF Reading!Slice
      <4>2. \A i \in 1 .. n : i \in 1 .. Len(S)
        BY <1>1, <2>2, <2>5
      <4> HIDE DEF list
      <4>3. n \in 1 .. n /\ n <= Len(S) /\ 0 + n = n /\ n - 0 = n
        BY <1>1, <2>2, <2>5
      <4> QED BY <1>1, <2>2, <4>1, <4>2, <4>3
    <3>3. n \in 1 .. Len(S)
      BY <1>1, <2>2, <2>5
    <3>4. S[n] \in 1 .. Len(rows) /\ Reading!Upto({"hit"}, S[n]) = n
      BY <2>3, <3>3
    <3>5. S[n] # Len(rows)
      BY <1>1, <2>2, <2>3, <2>5, <3>4
    <3> QED BY <1>1, <3>1, <3>2, <3>4, <3>5
  <2> HIDE DEF list
  <2>6. ASSUME ~(Len(list) = n /\ list[Len(list)] < Len(rows)) PROVE list = S
    <3>1. ~(Len(S) > n)
      BY <2>5, <2>6, Zenon
    <3> QED BY <2>4, <3>1, Zenon
  <2>7. ~Reading!OneList.cut => list = S
    BY <2>1, <2>6
  <2> QED BY <2>1, <2>4, <2>7 DEF S
<1>6. CASE listTool = "callers"
  <2> DEFINE n == Reading!Capped
             K == {"hit", "data"}
             m == Reading!Upto(K, Reading!Looked)
             looked == SubSeq(S, 1, m)
             list == Reading!Slice(looked, 0, n)
  <2>0. S = Reading!All(K) /\ S = Reading!Anywhere
    BY <1>6 DEF Reading!Complete, Reading!Anywhere
  <2>1. Reading!OneList.list = list /\ (Reading!OneList.cut <=> n > 0 /\ Len(list) >= n)
    BY <1>6, <2>0 DEF Reading!OneList, Reading!callers, Reading!get_callers
  <2>2. n \in Nat \ {0} /\ n \in Nat
    BY <1>1, <1>2, <1>6 DEF PagingTypeOK, Reading!NeedsLimit
  <2>3. Reading!Looked \in Int
    BY <2>2, PagingConstants DEF Reading!Looked
  <2>4. Len(S) = Reading!Upto(K, Len(rows))
    BY <1>1, <2>0, ListOfAll
  <2>5. m \in Nat /\ m <= Len(S) /\ (Reading!Looked >= Len(rows) => m = Len(S))
    BY <1>1, <2>3, <2>4, UptoEnds, HitsAreFinite
  <2> HIDE DEF S, n, m
  <2>6. list = SubSeq(S, 1, IF n < m THEN n ELSE m)
    <3>1. PICK z \in Nat : z = 0
      OBVIOUS
    <3>2. z <= m /\ z + 1 = 1 /\ z + n = n
      BY <2>2, <2>5, <3>1
    <3>3. Reading!Slice(SubSeq(S, z + 1, m), 0, n) = SubSeq(S, z + 1, IF z + n < m THEN z + n ELSE m)
      <4>1. S \in Seq(Nat \ {0}) /\ m \in Nat /\ m <= Len(S) /\ z <= m /\ n \in Nat
        BY <1>1, <2>2, <2>5, <3>2
      <4> QED BY <4>1, FirstOfPart, Zenon
    <3> QED BY <3>2, <3>3
  <2>7. /\ (IF n < m THEN n ELSE m) \in Nat /\ (IF n < m THEN n ELSE m) <= Len(S)
    BY <1>1, <2>2, <2>5
  <2>8. Reading!IsPrefix(list, S) /\ Len(list) = (IF n < m THEN n ELSE m) /\ SubSeq(S, 1, Len(S)) = S
    BY <1>1, <2>6, <2>7, BeginningIsPrefix
  <2> HIDE DEF list, looked
  <2>9. ASSUME ~(n > 0 /\ Len(list) >= n) PROVE list = S \/ Reading!Looked < Len(rows)
    <3>1. Len(list) = m /\ ~(n < m)
      <4>1. Len(list) = (IF n < m THEN n ELSE m) /\ n \in Nat \ {0} /\ m \in Nat
        BY <2>2, <2>5, <2>8
      <4>2. ~(n > 0 /\ Len(list) >= n)
        BY <2>9
      <4> QED BY <4>1, <4>2
    <3>2. CASE Reading!Looked >= Len(rows)
      BY <2>5, <2>6, <2>8, <3>1, <3>2
    <3> QED BY <1>1, <2>3, <3>2
  <2> QED BY <1>6, <2>1, <2>8, <2>9, Zenon DEF S
<1> QED BY <1>3, <1>4, <1>5, <1>6 DEF Reading!Flagged

-----------------------------------------------------------------------------
LEMMA ListStays ==
    ASSUME UNCHANGED <<listTool, rows, limit>>
    PROVE  /\ Reading!Complete' = Reading!Complete /\ Reading!Looked' = Reading!Looked
           /\ \A K, n : Reading!Upto(K, n)' = Reading!Upto(K, n)
<1>1. \A K, n : Reading!Upto(K, n)' = Reading!Upto(K, n)
  BY DEF Reading!Upto
<1>2. \A K : Reading!All(K)' = Reading!All(K)
  BY <1>1 DEF Reading!All
<1>3. Reading!Complete' = Reading!Complete
  BY <1>2 DEF Reading!Complete, Reading!Everything, Reading!Anywhere
<1>4. Reading!Looked' = Reading!Looked
  BY DEF Reading!Looked, Reading!Capped
<1> QED BY <1>1, <1>3, <1>4

LEMMA PagingStay == ASSUME PagingInv, UNCHANGED pagingVars PROVE PagingInv'
<1>1. /\ UNCHANGED <<listTool, rows, limit, maxScan, start, offset, got, state>>
      /\ UNCHANGED <<listTool, rows, limit>>
  BY DEF pagingVars
<1>2. PagingTypeOK'
  BY <1>1 DEF PagingInv, PagingTypeOK
<1>3. /\ Reading!Complete' = Reading!Complete /\ Reading!Looked' = Reading!Looked
      /\ \A K, n : Reading!Upto(K, n)' = Reading!Upto(K, n)
  BY <1>1, ListStays
<1>4. Read' = Read
  <2>1. Reading!Upto({"hit"}, start - 1)' = Reading!Upto({"hit"}, start - 1)
    BY <1>1 DEF Reading!Upto
  <2> QED BY <1>1, <2>1 DEF Read
<1>5. Reading!Upto({"hit"}, start + maxScan - 1)' = Reading!Upto({"hit"}, start + maxScan - 1)
  BY <1>1 DEF Reading!Upto
<1>6. Reading!PagesAddUp' <=> Reading!PagesAddUp
  BY <1>1, <1>3 DEF Reading!PagesAddUp, Reading!IsPrefix
<1> QED BY <1>1, <1>2, <1>3, <1>4, <1>5, <1>6 DEF PagingInv

LEMMA PagingInit == ASSUME Reading!Init PROVE PagingInv
<1>1. rows \in Seq(ItemKinds) /\ Len(rows) <= MaxRows
  <2> DEFINE Lists(n) == [1 .. n -> ItemKinds]
  <2>0. rows \in UNION {Lists(n) : n \in 0 .. MaxRows}
    BY DEF Reading!Init, Reading!BoundedSeq, Reading!SeqOf, ItemKinds
  <2>1. PICK n \in 0 .. MaxRows : rows \in Lists(n)
    <3> HIDE DEF Lists
    <3> QED BY <2>0
  <2>2. n \in Nat /\ n <= MaxRows
    BY PagingConstants
  <2>3. rows \in Seq(ItemKinds) /\ Len(rows) = n
    BY <2>1, <2>2, SeqDef, LenProperties
  <2> QED BY <2>2, <2>3
<1>2. PagingTypeOK
  BY <1>1, PagingConstants DEF Reading!Init, PagingTypeOK
<1>3. Reading!Complete \in Seq(Nat \ {0}) /\ Len(Reading!Complete) \in Nat
  BY <1>2, CompleteIsList
<1>4. start = 1 /\ offset = 0 /\ got = <<>> /\ state = "more" /\ maxScan \in Nat \ {0}
  BY PagingConstants DEF Reading!Init
<1>5. Reading!Upto({"hit"}, start - 1) = 0 /\ Reading!Upto({"hit"}, start + maxScan - 1) \in Nat
  BY <1>1, <1>4, UptoEnds, HitsAreFinite
<1>6. Read = 0
  BY <1>4, <1>5 DEF Read
<1>7. SubSeq(Reading!Complete, 1, 0) = <<>>
  BY SubSeqEmpty
<1>8. MaxOffset \in Nat
  BY PagingConstants
<1> QED BY <1>2, <1>3, <1>4, <1>5, <1>6, <1>7, <1>8 DEF PagingInv

LEMMA PagingNext == ASSUME PagingInv, Reading!Next PROVE PagingInv'
<1> DEFINE S == Reading!Complete
           a == Reading!NextPage
           k == Reading!Upto({"hit"}, start - 1)
           m == Reading!Upto({"hit"}, start + maxScan - 1)
<1>1. /\ PagingTypeOK /\ Len(S) \in Nat /\ S \in Seq(Nat \ {0}) /\ Len(S) <= Len(rows)
      /\ Len(rows) <= MaxRows /\ Len(rows) \in Nat /\ rows \in Seq(ItemKinds)
      /\ start \in Nat \ {0} /\ offset \in Nat /\ maxScan \in Nat \ {0}
  BY CompleteIsList DEF PagingInv, PagingTypeOK
<1>2. UNCHANGED <<listTool, rows, limit, maxScan>> /\ state = "more"
  BY DEF Reading!Next, Reading!Continue, Reading!Rescope, Reading!LastPage, Reading!Whole
<1>3. S' = S /\ Reading!Looked' = Reading!Looked /\ UNCHANGED <<listTool, rows, limit>>
  BY <1>2, ListStays
<1>4. start' \in Nat \ {0} /\ offset' \in Nat => PagingTypeOK'
  BY <1>1, <1>2 DEF PagingTypeOK
<1>5. got = SubSeq(S, 1, Read) /\ Read <= Len(S)
  BY <1>2 DEF PagingInv
<1>6. \A n : (n = start' - 1) => Reading!Upto({"hit"}, start - 1)' = Reading!Upto({"hit"}, n)
  BY <1>2 DEF Reading!Upto
<1>7. \A n : (n = start' + maxScan' - 1) =>
                Reading!Upto({"hit"}, start + maxScan - 1)' = Reading!Upto({"hit"}, n)
  BY <1>2 DEF Reading!Upto
<1>8. CASE Reading!Continue
  <2>1. /\ listTool \in Reading!Paged /\ listTool \notin Reading!Flagged
        /\ a.next # -1 /\ got' = got \o a.page /\ state' = "more"
    BY <1>8, <1>2 DEF Reading!Continue, Reading!NoCursor, Reading!Paged, Reading!Flagged
  <2>2. CASE listTool = "text"
    <3>1. start' = a.next /\ offset' = offset /\ offset = 0
      BY <1>8, <1>2, <2>2 DEF Reading!Continue, PagingInv
    <3>2. /\ a.next \in Nat \ {0}
          /\ Reading!Upto({"hit"}, a.next - 1) <= Len(S)
          /\ got \o a.page = SubSeq(S, 1, Reading!Upto({"hit"}, a.next - 1))
      BY <1>2, <2>1, <2>2, PageOfText
    <3>3. Reading!Upto({"hit"}, start - 1)' = Reading!Upto({"hit"}, a.next - 1)
      BY <1>6, <3>1
    <3>4. Reading!Upto({"hit"}, a.next - 1) \in Nat
      <4>1. a.next - 1 \in Int
        BY <3>2
      <4> QED BY <1>1, <4>1, HitsAreFinite
    <3>5. Read' = Reading!Upto({"hit"}, a.next - 1)
      BY <1>2, <2>2, <3>1, <3>3, <3>4 DEF Read
    <3>6. PagingTypeOK'
      BY <1>1, <1>4, <3>1, <3>2
    <3> HIDE DEF a, S
    <3>7. got' = SubSeq(S', 1, Read') /\ Read' <= Len(S')
      BY <1>3, <2>1, <3>2, <3>5
    <3>8. listTool' = "text" /\ offset' = 0
      BY <1>2, <2>2, <3>1
    <3> QED BY <2>1, <3>6, <3>7, <3>8 DEF PagingInv, OwnTools, Reading!Flagged, S
  <2>3. CASE listTool = "insns"
    <3>1. offset' = a.next /\ start' = start
      BY <1>8, <2>3 DEF Reading!Continue
    <3>2. /\ m \in Nat /\ k \in Nat /\ m <= Len(S)
          /\ a.next \in Nat /\ k + a.next <= m
          /\ got \o a.page = SubSeq(S, 1, k + a.next)
      BY <1>2, <2>1, <2>3, PageOfInstructions
    <3>3. k' = k /\ m' = m
      BY <1>2, <1>6, <1>7, <3>1
    <3>4. Read' = k + a.next
      BY <1>2, <2>3, <3>1, <3>3 DEF Read
    <3>5. PagingTypeOK'
      BY <1>1, <1>4, <3>1, <3>2
    <3>6. k + a.next <= Len(S) /\ k + a.next <= m
      BY <1>1, <3>2
    <3> HIDE DEF a, S, k, m
    <3>7. got' = SubSeq(S', 1, Read') /\ Read' <= Len(S') /\ Read' <= m'
      BY <1>3, <2>1, <3>2, <3>3, <3>4, <3>6
    <3>8. listTool' = "insns"
      BY <1>2, <2>3
    <3> QED BY <2>1, <3>5, <3>7, <3>8 DEF PagingInv, OwnTools, Reading!Flagged, S, m
  <2>4. CASE listTool \notin {"text", "insns"}
    <3>1. offset' = a.next /\ start' = start
      BY <1>8, <2>4 DEF Reading!Continue
    <3>2. offset = Read /\ Read' = offset'
      BY <1>2, <2>4 DEF Read
    <3>3. /\ a.next \in Nat /\ a.next <= Len(S)
          /\ got \o a.page = SubSeq(S, 1, a.next)
          /\ listTool \in OwnTools => a.next < Len(S)
      <4>1. CASE listTool = "immediate"
        BY <1>2, <2>1, <4>1, PageOfSearch DEF OwnTools
      <4>2. CASE listTool \in {"data_ref", "code_ref"}
        BY <1>2, <2>1, <4>2, PageOfReferences DEF OwnTools
      <4>3. CASE listTool \notin Otherwise
        <5>1. PICK n \in Nat : a = CountedRead(S, n)
          BY <1>2, <2>1, <4>3, PagesCount
        <5> HIDE DEF a, S
        <5>2. a.next \in Nat /\ a.next < Len(S) /\ got \o a.page = SubSeq(S, 1, a.next)
          BY <1>1, <1>5, <2>1, <3>2, <5>1, CountedPage
        <5>3. a.next <= Len(S)
          BY <1>1, <5>2
        <5> QED BY <5>2, <5>3
      <4> QED BY <2>4, <4>1, <4>2, <4>3 DEF Otherwise
    <3>4. PagingTypeOK'
      BY <1>1, <1>4, <3>1, <3>3
    <3>5. listTool' \in OwnTools => offset' <= MaxOffset
      <4>1. MaxRows <= MaxOffset + 1 /\ MaxRows \in Nat /\ MaxOffset \in Nat
        BY PagingConstants
      <4> HIDE DEF a, S
      <4> QED BY <1>1, <1>2, <3>1, <3>3, <4>1
    <3> HIDE DEF a, S
    <3>6. got' = SubSeq(S', 1, Read') /\ Read' <= Len(S')
      BY <1>3, <2>1, <3>1, <3>2, <3>3
    <3>7. listTool' \notin {"text", "insns"} /\ listTool' \notin Reading!Flagged
      BY <1>2, <2>1, <2>4
    <3> QED BY <2>1, <3>4, <3>5, <3>6, <3>7 DEF PagingInv, S
  <2> QED BY <2>2, <2>3, <2>4
<1>9. CASE Reading!Rescope
  <2>1. /\ listTool = "insns" /\ a.next = -1 /\ got' = got \o a.page /\ state' = "more"
        /\ start' = start + maxScan /\ offset' = 0
    BY <1>9, <1>2 DEF Reading!Rescope, Reading!NoCursor
  <2>2. m \in Nat /\ m <= Len(S) /\ got \o a.page = SubSeq(S, 1, m)
    BY <1>2, <2>1, PageOfInstructions
  <2>3. start + maxScan \in Nat \ {0} /\ start' - 1 = start + maxScan - 1 /\ start' + maxScan' - 1 \in Int
        /\ start + maxScan - 1 \in Int /\ start + maxScan - 1 <= start' + maxScan' - 1
    BY <1>1, <1>2, <2>1
  <2>4. k' = m /\ m' = Reading!Upto({"hit"}, start' + maxScan' - 1)
    BY <1>6, <1>7, <2>3
  <2>5. m <= m' /\ m' \in Nat
    BY <1>1, <2>3, <2>4, UptoGrows, HitsAreFinite
  <2>6. Read' = m
    BY <1>2, <2>1, <2>2, <2>4 DEF Read
  <2>7. PagingTypeOK'
    BY <1>4, <2>1, <2>3
  <2> HIDE DEF a, S, m
  <2>8. got' = SubSeq(S', 1, Read') /\ Read' <= Len(S') /\ Read' <= m'
    BY <1>3, <2>1, <2>2, <2>5, <2>6
  <2>9. listTool' = "insns"
    BY <1>2, <2>1
  <2> QED BY <2>1, <2>7, <2>8, <2>9 DEF PagingInv, OwnTools, Reading!Flagged, S, m
<1>10. CASE Reading!LastPage
  <2>1. /\ listTool \in Reading!Paged /\ listTool # "callers" /\ a.next = -1
        /\ got' = got \o a.page /\ state' = "done" /\ start' = start /\ offset' = offset
        /\ listTool = "insns" => ~Reading!scan_insn_ranges.truncated
    BY <1>10, <1>2 DEF Reading!LastPage, Reading!NoCursor, Reading!Paged
  <2>2. got \o a.page = S
    <3>1. CASE listTool = "text"
      BY <1>2, <2>1, <3>1, PageOfText
    <3>2. CASE listTool = "insns"
      <4>1. got \o a.page = SubSeq(S, 1, m) /\ m = Len(S)
        BY <1>2, <2>1, <3>2, PageOfInstructions
      <4>2. SubSeq(S, 1, Len(S)) = S
        <5> HIDE DEF S
        <5>1. Len(S) <= Len(S)
          BY <1>1
        <5> QED BY <1>1, <5>1, BeginningIsPrefix
      <4> QED BY <4>1, <4>2
    <3>3. CASE listTool = "immediate"
      BY <1>2, <2>1, <3>3, PageOfSearch
    <3>4. CASE listTool \in {"data_ref", "code_ref"}
      BY <1>2, <2>1, <3>4, PageOfReferences
    <3>5. CASE listTool \notin Otherwise
      <4>1. PICK n \in Nat : a = CountedRead(S, n)
        BY <1>2, <2>1, <3>5, PagesCount
      <4>2. offset = Read
        BY <3>5 DEF Read, Otherwise
      <4> HIDE DEF a, S
      <4> QED BY <1>1, <1>5, <2>1, <4>1, <4>2, CountedPage
    <3> QED BY <3>1, <3>2, <3>3, <3>4, <3>5 DEF Otherwise
  <2>3. PagingTypeOK'
    BY <1>1, <1>4, <2>1
  <2> HIDE DEF a, S
  <2>4. got' = S'
    BY <1>3, <2>1, <2>2
  <2>5. Reading!IsPrefix(S, S)
    <3>1. Len(S) <= Len(S)
      BY <1>1
    <3> QED BY <1>1, <3>1, BeginningIsPrefix
  <2>6. Reading!IsPrefix(got, S)'
    BY <1>3, <2>4, <2>5 DEF Reading!IsPrefix
  <2> QED BY <2>1, <2>3, <2>4, <2>6 DEF PagingInv, Reading!PagesAddUp, S
<1>11. CASE Reading!Whole
  <2> DEFINE l == Reading!OneList
  <2>1. /\ listTool \in Reading!Flagged /\ got' = l.list /\ start' = start /\ offset' = offset
        /\ state' = (IF l.cut THEN "cut" ELSE "done")
    BY <1>11 DEF Reading!Whole
  <2>2. /\ Reading!IsPrefix(l.list, S)
        /\ ~l.cut => l.list = S \/ (listTool = "callers" /\ Reading!Looked < Len(rows))
    BY <1>2, <2>1, WholeList
  <2>3. PagingTypeOK'
    BY <1>1, <1>4, <2>1
  <2> HIDE DEF S, l
  <2>4. Reading!IsPrefix(got, S)'
    BY <1>3, <2>1, <2>2 DEF Reading!IsPrefix
  <2>5. state' # "more" /\ (state' = "done" => ~l.cut)
    BY <2>1
  <2>6. state' = "done" => got' = S' \/ (listTool' = "callers" /\ Reading!Looked' < Len(rows'))
    BY <1>2, <1>3, <2>1, <2>2, <2>5
  <2> QED BY <2>3, <2>4, <2>5, <2>6 DEF PagingInv, Reading!PagesAddUp, S
<1> QED BY <1>8, <1>9, <1>10, <1>11 DEF Reading!Next

LEMMA PagingSafe == PagingInv => Reading!PagesAddUp
<1>1. ASSUME PagingInv, state = "more" PROVE Reading!PagesAddUp
  <2>1. Reading!Complete \in Seq(Nat \ {0}) /\ Len(Reading!Complete) \in Nat /\ PagingTypeOK
    BY <1>1, CompleteIsList DEF PagingInv
  <2>2. Read \in Nat
    <3>1. start - 1 \in Int /\ rows \in Seq(ItemKinds) /\ offset \in Nat
      BY <2>1 DEF PagingTypeOK
    <3>2. Reading!Upto({"hit"}, start - 1) \in Nat
      BY <3>1, HitsAreFinite
    <3> QED BY <3>1, <3>2 DEF Read
  <2>3. got = SubSeq(Reading!Complete, 1, Read) /\ Read <= Len(Reading!Complete)
    BY <1>1 DEF PagingInv
  <2> QED BY <1>1, <2>1, <2>2, <2>3, BeginningIsPrefix DEF Reading!PagesAddUp
<1>2. ASSUME PagingInv, state # "more" PROVE Reading!PagesAddUp
  BY <1>2 DEF PagingInv
<1> QED BY <1>1, <1>2
=============================================================================
