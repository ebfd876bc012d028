-------------------------- MODULE NamedListsProofs --------------------------
(***************************************************************************)
(* NamedLists for every set of calls, lists, names and entries: what an    *)
(* edit answers is so, nothing is emptied that may not be, and a standing  *)
(* name is not given again.                                                *)
(***************************************************************************)
EXTENDS NamedLists, TLAPS

(***************************************************************************)
(* The inductive invariant behind them.                                    *)
(***************************************************************************)
(* Where a call is with the lock of its list is what its step says.        *)
PlaceInv ==
  \A c \in Calls :
    /\ pc[c] = "asked"   => place[c] = "asked" /\ asks[c] = {on[c]}
    /\ pc[c] \in Inside  => place[c] = "in" /\ asks[c] = {on[c]}
    /\ pc[c] \notin Inside \cup {"asked"} => place[c] = "out"

(* The steps of each operation, and the list each is about.                *)
OpOf(c) ==
  /\ pc[c] \in Inside \cup {"asked"} => req[c].op = "edit" /\ on[c] \in Of(req[c].kind)
  /\ pc[c] = "names" => req[c].op \in {"create", "copy"}
  /\ pc[c] \in {"names", "create"} /\ req[c].op = "create" => want[c] \in Names
  /\ pc[c] = "create" => req[c].op = "create"
  /\ pc[c] = "names" /\ req[c].op = "copy" => on[c] \in Ids
  /\ pc[c] \in {"copy", "rename"} => req[c].op = "copy" /\ on[c] \in Ids
  /\ pc[c] \in {"delete", "deletion"} => on[c] \in Ids
  /\ pc[c] = "delete" => deleting

OpInv == \A c \in Calls : OpOf(c)

(* An id is given once, so the list a call found is never another's.       *)
BornInv ==
  /\ \A i \in Ids : lists[i] # None => i \in born
  /\ \A c \in Calls : on[c] # None => on[c] \in born

(* The lists that have kept their names are there, and a call that is to   *)
(* give a name found none of them to bear it, but for the list it renames. *)
Giving(c) == pc[c] \in {"create", "copy", "rename"} \/ (pc[c] = "change" /\ want[c] # None)

Others(c) == stood[c] \ (IF pc[c] \in {"change", "rename"} THEN {on[c]} ELSE {})

NameOf(c) ==
  /\ stood[c] \subseteq Live(req[c].kind)
  /\ Giving(c) => \A j \in Others(c) : lists[j].name # want[c]

NameInv == \A c \in Calls : NameOf(c)

(* What an edit has judged once it held its list.                          *)
WorkOf(c) ==
  /\ pc[c] \in {"idle", "asked", "held", "plan"} => done[c] = {}
  /\ pc[c] \in Inside \cup {"asked"} => want[c] = req[c].name
  /\ pc[c] \in {"change", "readback"} => req[c].add \cap req[c].remove = {} /\ MayEmpty(c)
  /\ pc[c] = "readback" => Add(c) = {} \/ "add" \in done[c]

WorkInv == \A c \in Calls : WorkOf(c)

(* What a call plans from is what its list holds.                          *)
PlanInv ==
  \A c \in Calls : pc[c] = "plan" /\ Unspoilt(c) => lists[on[c]].entries = seen[c]

(* After a removal a list holds what it did, or less by what was to go.    *)
ReadBackInv ==
  \A c \in Calls : pc[c] = "readback" /\ Unspoilt(c) =>
    /\ Told(c) \ Remove(c) \subseteq lists[on[c]].entries
    /\ lists[on[c]].entries \subseteq Told(c)

ListsInv ==
  /\ TypeOK /\ Locks!Exclusion /\ PlaceInv
  /\ OpInv /\ BornInv /\ NameInv /\ WorkInv
  /\ PlanInv /\ HeldListIsCurrent /\ ReadBackInv

-----------------------------------------------------------------------------
LEMMA TypedRequests ==
  ASSUME NEW r \in TurnRequests
  PROVE  /\ r \in Request
         /\ r.op \in {"create", "copy", "edit", "delete"}
         /\ r.kind \in {"collection", "playlist"}
         /\ r.name \in Names \cup {None}
         /\ r.add \subseteq Entries /\ r.remove \subseteq Entries
         /\ r.op = "create" => r.name \in Names
         /\ r.op = "copy" => r.kind = "playlist"
  BY ListsAssumption DEF Request

LEMMA TypedLists ==
  ASSUME TypeOK, NEW i \in Ids
  PROVE  /\ lists[i] # None => lists[i] \in List
         /\ lists[i] # None => lists[i].name \in Names /\ lists[i].entries \subseteq Entries
  BY DEF TypeOK, States, List

LEMMA OfIds ==
  ASSUME NEW kind
  PROVE  Of(kind) \subseteq Ids /\ Live(kind) \subseteq Ids
  BY DEF Of, Live, Ids

LEMMA ResolvedIds ==
  ASSUME NEW r, NEW i \in Ids, Resolved(r) = {i}
  PROVE  /\ lists[i] # None
         /\ r.op # "copy" => i \in Of(r.kind)
  BY DEF Resolved, Live, Named

LEMMA StandingTypes ==
  ASSUME TypeOK, Standing
  PROVE  stood' \in [Calls -> SUBSET Ids]
<1>1. \A c \in Calls : Live(req[c].kind)' \subseteq Ids
  BY DEF Live, Of, Ids
<1>2. \A c \in Calls : {i \in stood[c] : KeepsName(i)} \subseteq Ids
  BY DEF TypeOK
<1>3. QED
  BY <1>1, <1>2 DEF Standing

LEMMA FinishTypes ==
  ASSUME TypeOK, NEW c \in Calls, NEW how \in Steps, Finish(c, how)
  PROVE  pc' \in [Calls -> Steps] /\ Locks!TypeOK'
<1>1. pc' \in [Calls -> Steps]
  BY DEF TypeOK, Finish, Go
<1>2. CASE UNCHANGED locks
  BY <1>1, <1>2 DEF TypeOK, Locks!TypeOK, locks
<1>3. CASE Locks!Gone(c)
  BY <1>1, <1>3 DEF TypeOK, Locks!TypeOK, Locks!Gone, Locks!Requests
<1>4. QED
  BY <1>2, <1>3 DEF Finish

(* What each request does to a list leaves it a list.                      *)
LEMMA PutTypes ==
  ASSUME TypeOK, NEW i \in Ids, NEW l \in List \cup {None}, Put(i, l)
  PROVE  lists' \in States /\ born' = born
  BY DEF TypeOK, States, Put

LEMMA RenamedTypes ==
  ASSUME TypeOK, NEW i \in Ids, NEW n \in Names \cup {None}, Renamed(i, n)
  PROVE  lists' \in States /\ born' = born
<1>1. lists[i] \in List
  BY TypedLists DEF Renamed
<1>2. [lists[i] EXCEPT !.name = IF n = None THEN @ ELSE n] \in List
  BY <1>1 DEF List
<1>3. QED
  BY <1>2, PutTypes DEF Renamed

LEMMA AddedTypes ==
  ASSUME TypeOK, NEW i \in Ids, NEW some \in SUBSET Entries, Added(i, some)
  PROVE  lists' \in States /\ born' = born
<1>1. lists[i] \in List
  BY TypedLists DEF Added
<1>2. [lists[i] EXCEPT !.entries = @ \cup some] \in List
  BY <1>1 DEF List
<1>3. QED
  BY <1>2, PutTypes DEF Added

LEMMA RemovedTypes ==
  ASSUME TypeOK, NEW i \in Ids, NEW some \in SUBSET Entries, Removed(i, some)
  PROVE  lists' \in States /\ born' = born
<1>1. lists[i] \in List
  BY TypedLists DEF Removed
<1>2. [lists[i] EXCEPT !.entries = @ \ some] \in List
  BY <1>1 DEF List
<1>3. QED
  BY <1>2, PutTypes DEF Removed

LEMMA MakeTypes ==
  ASSUME TypeOK, NEW c \in Calls, NEW l \in List, Make(c, l)
  PROVE  lists' \in States /\ born' \subseteq Ids /\ on' \in [Calls -> Ids \cup {None}]
<1>1. PICK i \in Of(req[c].kind) \ born :
        /\ lists' = [lists EXCEPT ![i] = l]
        /\ born'  = born \cup {i}
        /\ Found(c, i)
  BY DEF Make
<1>2. i \in Ids
  BY OfIds
<1>3. QED
  BY <1>1, <1>2 DEF TypeOK, States, Found

LEMMA WorkTypes ==
  ASSUME TypeOK, NEW c \in Calls
  PROVE  /\ req[c] \in TurnRequests
         /\ Add(c) \subseteq Entries /\ Remove(c) \subseteq Entries
         /\ seen[c] \subseteq Entries
         /\ want[c] \in Names \cup {None}
  BY TypedRequests DEF TypeOK, Add, Remove

LEMMA StartTypes ==
  ASSUME TypeOK, NEW c \in Calls,
         StartEdit(c) \/ StartDelete(c) \/ StartCopy(c) \/ StartCreate(c)
  PROVE  TypeOK'
<1>0. stood' \in [Calls -> SUBSET Ids]
  BY StandingTypes DEF StartEdit, StartDelete, StartCopy, StartCreate, Beside
<1>00. USE DEF TypeOK, Steps, Inside, Ended, server, fixed, web, Beside, Go, Found, Wants
<1>1. CASE StartEdit(c)
  <2>1. Locks!TypeOK'
    BY <1>1 DEF StartEdit, Locks!TypeOK, Locks!Ask, Locks!Requests, Holds
  <2>2. want' \in [Calls -> Names \cup {None}]
    BY <1>1, WorkTypes, TypedRequests DEF StartEdit
  <2>3. QED
    BY <1>0, <1>1, <2>1, <2>2 DEF StartEdit
<1>2. CASE StartDelete(c)
  BY <1>0, <1>2 DEF StartDelete, Locks!TypeOK, locks
<1>3. CASE StartCopy(c)
  <2>1. want' \in [Calls -> Names \cup {None}]
    <3>1. PICK i \in Ids :
            /\ Resolved(req[c]) = {i}
            /\ Wants(c, IF req[c].name = None THEN lists[i].name ELSE req[c].name)
      BY <1>3 DEF StartCopy
    <3>2. lists[i].name \in Names
      BY <3>1, ResolvedIds, TypedLists
    <3>3. req[c].name \in Names \cup {None}
      BY WorkTypes, TypedRequests
    <3>4. QED
      BY <3>1, <3>2, <3>3
  <2>2. QED
    BY <1>0, <1>3, <2>1 DEF StartCopy, Locks!TypeOK, locks
<1>4. CASE StartCreate(c)
  <2>1. want' \in [Calls -> Names \cup {None}]
    BY <1>4, WorkTypes, TypedRequests DEF StartCreate
  <2>2. QED
    BY <1>0, <1>4, <2>1 DEF StartCreate, Locks!TypeOK, locks
<1>5. QED
  BY <1>1, <1>2, <1>3, <1>4

LEMMA EditTypes ==
  ASSUME TypeOK, OpInv, NEW c \in Calls,
         \/ Update(c) \/ AddBatch(c) \/ AddBatchShort(c) \/ RemoveBooks(c)
         \/ RemoveEntries(c) \/ ChangeFails(c)
  PROVE  TypeOK'
<1>0. stood' \in [Calls -> SUBSET Ids]
  BY StandingTypes DEF Update, AddBatch, AddBatchShort, RemoveBooks, RemoveEntries,
     ChangeFails, Beside
<1>1. pc[c] = "change"
  BY DEF Update, AddBatch, AddBatchShort, RemoveBooks, RemoveEntries, ChangeFails, Due
<1>2. on[c] \in Ids /\ req[c].name \in Names \cup {None}
  BY <1>1, WorkTypes, TypedRequests, OfIds DEF OpInv, OpOf, Inside
<1>3. lists' \in States /\ born' = born
  <2>1. CASE Update(c)
    BY <1>2, <2>1, RenamedTypes DEF Update
  <2>2. CASE AddBatch(c) \/ AddBatchShort(c)
    BY <1>2, <2>2, AddedTypes, WorkTypes DEF AddBatch, AddBatchShort
  <2>3. CASE RemoveBooks(c) \/ RemoveEntries(c)
    BY <1>2, <2>3, RemovedTypes, WorkTypes DEF RemoveBooks, RemoveEntries
  <2>4. CASE ChangeFails(c)
    BY <1>2, <2>4, RenamedTypes, AddedTypes, RemovedTypes, WorkTypes
    DEF ChangeFails, server, TypeOK
  <2>5. QED
    BY <2>1, <2>2, <2>3, <2>4
<1>4. pc' \in [Calls -> Steps] /\ Locks!TypeOK'
  <2>1. CASE AddBatchShort(c) \/ RemoveBooks(c) \/ ChangeFails(c)
    BY <2>1, FinishTypes DEF AddBatchShort, RemoveBooks, ChangeFails, Steps, Ended
  <2>2. CASE Update(c) \/ AddBatch(c) \/ RemoveEntries(c)
    BY <2>2 DEF Update, AddBatch, RemoveEntries, Go, TypeOK, Steps, Inside, locks,
       Locks!TypeOK
  <2>3. QED
    BY <2>1, <2>2
<1>5. /\ on' = on /\ want' = want /\ seen' = seen
      /\ deleting' = deleting /\ req' = req /\ touched' = touched /\ budget' = budget
  BY DEF Update, AddBatch, AddBatchShort, RemoveBooks, RemoveEntries, ChangeFails,
     work, fixed, web, Beside
<1>6. done' \in [Calls -> SUBSET {"update", "add"}]
  BY DEF Update, AddBatch, AddBatchShort, RemoveBooks, RemoveEntries, ChangeFails,
     work, Did, TypeOK
<1>7. QED
  BY <1>0, <1>3, <1>4, <1>5, <1>6 DEF TypeOK

LEMMA ListTypes ==
  ASSUME TypeOK, OpInv, NEW c \in Calls,
         Create(c) \/ Copy(c) \/ Rename(c) \/ Delete(c)
  PROVE  TypeOK'
<1>0. stood' \in [Calls -> SUBSET Ids]
  BY StandingTypes DEF Create, Copy, Rename, Delete, Beside
<1>1. /\ deleting' = deleting /\ req' = req /\ touched' = touched /\ budget' = budget
      /\ seen' = seen /\ done' = done
  BY DEF Create, Copy, Rename, Delete, work, fixed, web, Beside
<1>2. CASE Create(c)
  <2>1. NewList(c) \in List
    BY <1>2, WorkTypes, TypedRequests DEF Create, NewList, List, OpInv, OpOf
  <2>2. QED
    BY <1>0, <1>1, <1>2, <2>1, MakeTypes, FinishTypes DEF Create, Steps, Ended, TypeOK
<1>3. CASE Copy(c)
  <2>1. lists[on[c]] \in List /\ lists[on[c]].name \in Names
    BY <1>3, TypedLists DEF Copy, OpInv, OpOf
  <2>2. lists' \in States /\ born' \subseteq Ids /\ on' \in [Calls -> Ids \cup {None}]
    BY <1>3, <2>1, MakeTypes DEF Copy
  <2>3. want' \in [Calls -> Names \cup {None}]
    BY <1>3, <2>1, WorkTypes DEF Copy, Wants, TypeOK
  <2>4. pc' \in [Calls -> Steps] /\ Locks!TypeOK'
    BY <1>3, FinishTypes DEF Copy, Steps, Ended
  <2>5. QED
    BY <1>0, <1>1, <2>2, <2>3, <2>4 DEF TypeOK
<1>4. CASE Rename(c)
  BY <1>0, <1>1, <1>4, RenamedTypes, FinishTypes, WorkTypes
  DEF Rename, Steps, Ended, TypeOK, OpInv, OpOf, work
<1>5. CASE Delete(c)
  <2>1. on[c] \in Ids
    BY <1>5 DEF Delete, OpInv, OpOf
  <2>2. lists' \in States /\ born' = born
    BY <1>5, <2>1, PutTypes DEF Delete, server, TypeOK
  <2>3. pc' \in [Calls -> Steps] /\ Locks!TypeOK' /\ on' = on /\ want' = want
    BY <1>5 DEF Delete, Go, TypeOK, Steps, Ended, locks, Locks!TypeOK, work
  <2>4. QED
    BY <1>0, <1>1, <2>2, <2>3 DEF TypeOK
<1>6. QED
  BY <1>2, <1>3, <1>4, <1>5

LEMMA StepTypes ==
  ASSUME TypeOK, OpInv, NEW c \in Calls, Step(c)
  PROVE  TypeOK'
<1>1. CASE StartEdit(c) \/ StartDelete(c) \/ StartCopy(c) \/ StartCreate(c)
  BY <1>1, StartTypes
<1>2. CASE \/ Update(c) \/ AddBatch(c) \/ AddBatchShort(c) \/ RemoveBooks(c)
           \/ RemoveEntries(c) \/ ChangeFails(c)
  BY <1>2, EditTypes
<1>3. CASE Create(c) \/ Copy(c) \/ Rename(c) \/ Delete(c)
  BY <1>3, ListTypes
<1>4. CASE Enter(c)
  BY <1>4, StandingTypes
  DEF Enter, Locks!Enter, Locks!TypeOK, TypeOK, Steps, Inside, Go, server, work,
      fixed, web, Beside
<1>5. CASE Read(c)
  <2>1. lists[on[c]].entries \subseteq Entries \/ on[c] \notin Ids
    BY <1>5, TypedLists DEF Read
  <2>2. on[c] \in Ids
    BY <1>5, OfIds DEF Read, OpInv, OpOf, Inside
  <2>3. QED
    BY <1>5, <2>1, <2>2, StandingTypes
    DEF Read, Locks!TypeOK, TypeOK, Steps, Inside, Go, server, locks, fixed, web, Beside
<1>6. CASE LookForName(c) \/ Plan(c)
  <2>1. req[c].op \in {"create", "copy"} \/ pc[c] = "plan"
    BY <1>6 DEF LookForName, Plan, OpInv, OpOf
  <2>2. pc' \in [Calls -> Steps]
    BY <1>6, <2>1 DEF LookForName, Plan, Go, TypeOK, Steps, Inside
  <2>3. QED
    BY <1>6, <2>2, StandingTypes
    DEF LookForName, Plan, Locks!TypeOK, TypeOK, server, locks, work, fixed, web, Beside
<1>7. CASE \/ Refuse(c) \/ ReadBack(c) \/ ReadBackGone(c) \/ ReadBackFails(c)
           \/ EditEnds(c) \/ Deleted(c) \/ RequestFails(c)
  <2>1. pc' \in [Calls -> Steps] /\ Locks!TypeOK'
    BY <1>7, FinishTypes
    DEF Refuse, ReadBack, ReadBackGone, ReadBackFails, EditEnds, Deleted, RequestFails,
        Steps, Ended
  <2>2. UNCHANGED <<server, work>> /\ Beside
    BY <1>7 DEF Refuse, ReadBack, ReadBackGone, ReadBackFails, EditEnds, Deleted,
       RequestFails
  <2>3. QED
    BY <2>1, <2>2, StandingTypes DEF TypeOK, server, work, fixed, web, Beside
<1>8. QED
  BY <1>1, <1>2, <1>3, <1>4, <1>5, <1>6, <1>7 DEF Step

LEMMA WebTypes ==
  ASSUME TypeOK, NEW i \in Ids, WebChange(i)
  PROVE  TypeOK'
<1>1. lists' \in States /\ born' \subseteq Ids
  <2>1. CASE \E n \in Names : Renamed(i, n)
    BY <2>1, RenamedTypes DEF TypeOK
  <2>2. CASE \E e \in Entries : Added(i, {e}) \/ Removed(i, {e})
    BY <2>2, AddedTypes, RemovedTypes DEF TypeOK
  <2>3. CASE Put(i, None)
    BY <2>3, PutTypes DEF TypeOK
  <2>4. CASE /\ \E n \in Names : lists' = [lists EXCEPT ![i] = [name |-> n, entries |-> {}]]
             /\ born' = born \cup {i}
    BY <2>4 DEF TypeOK, States, List
  <2>5. QED
    BY <2>1, <2>2, <2>3, <2>4 DEF WebChange
<1>2. touched' \subseteq Ids /\ budget' \in 0..MaxOutside
  BY ListsAssumption DEF WebChange, TypeOK
<1>3. QED
  BY <1>1, <1>2, StandingTypes
  DEF WebChange, TypeOK, Locks!TypeOK, locks, work, fixed
-----------------------------------------------------------------------------
(* Step(c) moves c alone: it asks for its list, is let in, goes on inside,  *)
(* lets go, or goes on with nothing held.                                  *)
Moves(c) ==
  \/ /\ pc[c] = "idle" /\ Go(c, "asked")
     /\ Locks!Ask(c, {on'[c]})
  \/ /\ pc[c] = "asked" /\ Go(c, "held")
     /\ Locks!Enter(c) /\ on' = on
  \/ /\ pc[c] \in Inside /\ pc'[c] \in Inside /\ Go(c, pc'[c])
     /\ UNCHANGED locks /\ on' = on
  \/ /\ pc[c] \in Inside /\ pc'[c] \in Ended /\ Go(c, pc'[c])
     /\ Locks!Gone(c) /\ on' = on
  \/ /\ pc[c] \notin Inside \cup {"asked"} /\ Go(c, pc'[c])
     /\ pc'[c] \notin Inside \cup {"asked", "idle"}
     /\ UNCHANGED locks

LEMMA FinishMoves ==
  ASSUME TypeOK, NEW c \in Calls, NEW how \in Ended \cup {"rename"}, Finish(c, how),
         pc[c] # "asked", pc[c] \in Inside => on' = on /\ how # "rename"
  PROVE  Moves(c)
  BY DEF TypeOK, Finish, Moves, Go, Inside, Ended

LEMMA StepMoves ==
  ASSUME TypeOK, OpInv, NEW c \in Calls, Step(c)
  PROVE  Moves(c) /\ req' = req /\ deleting' = deleting /\ touched' = touched
<1>1. Beside
  BY DEF Step, StartEdit, StartDelete, StartCopy, StartCreate, Enter, Read, LookForName,
     Plan, Refuse, Update, AddBatch, AddBatchShort, RemoveBooks, RemoveEntries, ReadBack,
     ReadBackGone, ReadBackFails, ChangeFails, EditEnds, Create, Copy, Rename, Delete,
     Deleted, RequestFails
<1>2. Moves(c)
  <2>0. USE DEF TypeOK, Inside, Ended
  <2>1. CASE StartEdit(c)
    BY <2>1 DEF StartEdit, Moves, Go, Found, Holds
  <2>2. CASE StartDelete(c) \/ StartCopy(c) \/ StartCreate(c)
    BY <2>2 DEF StartDelete, StartCopy, StartCreate, Moves, Go
  <2>3. CASE Enter(c)
    BY <2>3 DEF Enter, Moves, work
  <2>4. CASE Read(c) \/ Plan(c) \/ Update(c) \/ AddBatch(c) \/ RemoveEntries(c)
    BY <2>4 DEF Read, Plan, Update, AddBatch, RemoveEntries, Due, Moves, Go, work
  <2>5. CASE LookForName(c)
    <3>1. req[c].op \in {"create", "copy"}
      BY <2>5 DEF LookForName, OpInv, OpOf
    <3>2. QED
      BY <2>5, <3>1 DEF LookForName, Moves, Go
  <2>6. CASE \/ Refuse(c) \/ AddBatchShort(c) \/ RemoveBooks(c) \/ ReadBack(c)
             \/ ReadBackGone(c) \/ ReadBackFails(c) \/ ChangeFails(c) \/ EditEnds(c)
    <3>1. on' = on /\ pc[c] # "asked" /\ \E how \in Ended : Finish(c, how)
      BY <2>6 DEF Refuse, AddBatchShort, RemoveBooks, ReadBack, ReadBackGone,
         ReadBackFails, ChangeFails, EditEnds, Due, work
    <3>2. QED
      BY <3>1, FinishMoves
  <2>7. CASE Create(c) \/ Copy(c) \/ Rename(c) \/ Deleted(c) \/ RequestFails(c)
    <3>1. pc[c] \in {"create", "copy", "rename", "delete", "deletion"}
      BY <2>7 DEF Create, Copy, Rename, Deleted, RequestFails
    <3>2. \E how \in Ended \cup {"rename"} : Finish(c, how)
      BY <2>7 DEF Create, Copy, Rename, Deleted, RequestFails
    <3>3. QED
      BY <3>1, <3>2, FinishMoves
  <2>8. CASE Delete(c)
    BY <2>8 DEF Delete, Moves, Go
  <2>9. QED
    BY <2>1, <2>2, <2>3, <2>4, <2>5, <2>6, <2>7, <2>8 DEF Step
<1>3. QED
  BY <1>1, <1>2 DEF Beside, fixed, web

(* What the others work from, Step(c) leaves alone.                        *)
Alone(d) ==
  /\ pc'[d] = pc[d] /\ place'[d] = place[d] /\ asks'[d] = asks[d]
  /\ on'[d] = on[d] /\ want'[d] = want[d] /\ seen'[d] = seen[d] /\ done'[d] = done[d]

LEMMA StepFrame ==
  ASSUME TypeOK, OpInv, NEW c \in Calls, Step(c), NEW d \in Calls, d # c
  PROVE  Alone(d)
<1>1. pc'[d] = pc[d] /\ place'[d] = place[d] /\ asks'[d] = asks[d]
  <2>1. Moves(c)
    BY StepMoves
  <2>2. \E step : pc' = [pc EXCEPT ![c] = step]
    BY <2>1 DEF Moves, Go
  <2>3. (\E r : Locks!Ask(c, r)) \/ Locks!Enter(c) \/ Locks!Gone(c) \/ UNCHANGED locks
    BY <2>1 DEF Moves
  <2>4. place'[d] = place[d] /\ asks'[d] = asks[d]
    BY <2>3 DEF TypeOK, Locks!TypeOK, Locks!Ask, Locks!Enter, Locks!Gone, locks
  <2>5. QED
    BY <2>2, <2>4 DEF TypeOK
<1>2. on'[d] = on[d]
  BY DEF TypeOK, Step, work, Found, Make, StartEdit, StartDelete, StartCopy, StartCreate,
     Enter, Read, LookForName, Plan, Refuse, Update, AddBatch, AddBatchShort,
     RemoveBooks, RemoveEntries, ReadBack, ReadBackGone, ReadBackFails, ChangeFails,
     EditEnds, Create, Copy, Rename, Delete, Deleted, RequestFails
<1>3. want'[d] = want[d]
  BY DEF TypeOK, Step, work, Wants, StartEdit, StartDelete, StartCopy, StartCreate,
     Enter, Read, LookForName, Plan, Refuse, Update, AddBatch, AddBatchShort,
     RemoveBooks, RemoveEntries, ReadBack, ReadBackGone, ReadBackFails, ChangeFails,
     EditEnds, Create, Copy, Rename, Delete, Deleted, RequestFails
<1>4. seen'[d] = seen[d] /\ done'[d] = done[d]
  BY DEF TypeOK, Step, work, Did, StartEdit, StartDelete, StartCopy, StartCreate,
     Enter, Read, LookForName, Plan, Refuse, Update, AddBatch, AddBatchShort,
     RemoveBooks, RemoveEntries, ReadBack, ReadBackGone, ReadBackFails, ChangeFails,
     EditEnds, Create, Copy, Rename, Delete, Deleted, RequestFails
<1>5. QED
  BY <1>1, <1>2, <1>3, <1>4 DEF Alone

LEMMA StepPlaces ==
  ASSUME TypeOK, OpInv, PlaceInv, Locks!Exclusion, NEW c \in Calls, Step(c)
  PROVE  PlaceInv' /\ Locks!Exclusion'
<1>0. Moves(c) /\ \A d \in Calls \ {c} : Alone(d)
  BY StepMoves, StepFrame
<1>1. USE DEF TypeOK, Locks!TypeOK, Inside, Ended, Go
<1>2. PlaceInv'
  <2>1. ASSUME NEW d \in Calls, d # c
        PROVE  /\ pc'[d] = "asked"   => place'[d] = "asked" /\ asks'[d] = {on'[d]}
               /\ pc'[d] \in Inside  => place'[d] = "in" /\ asks'[d] = {on'[d]}
               /\ pc'[d] \notin Inside \cup {"asked"} => place'[d] = "out"
    BY <1>0, <2>1 DEF Alone, PlaceInv
  <2>2. /\ pc'[c] = "asked"   => place'[c] = "asked" /\ asks'[c] = {on'[c]}
        /\ pc'[c] \in Inside  => place'[c] = "in" /\ asks'[c] = {on'[c]}
        /\ pc'[c] \notin Inside \cup {"asked"} => place'[c] = "out"
    BY <1>0 DEF Moves, PlaceInv, Locks!Ask, Locks!Enter, Locks!Gone, locks
  <2>3. QED
    BY <2>1, <2>2 DEF PlaceInv
<1>3. Locks!Exclusion'
  <2>1. CASE Locks!Enter(c)
    BY <2>1 DEF Locks!Exclusion, Locks!Enter, Locks!MayEnter, Locks!Conflict
  <2>2. CASE (\E r : Locks!Ask(c, r)) \/ Locks!Gone(c)
    BY <2>2 DEF Locks!Exclusion, Locks!Ask, Locks!Gone
  <2>3. CASE UNCHANGED locks
    BY <2>3 DEF Locks!Exclusion, locks, Locks!Conflict
  <2>4. QED
    BY <1>0, <2>1, <2>2, <2>3 DEF Moves
<1>4. QED
  BY <1>2, <1>3

(* A list is held by one call at a time.                                   *)
LEMMA HeldAlone ==
  ASSUME PlaceInv, Locks!Exclusion, NEW c \in Calls, NEW d \in Calls,
         pc[c] \in Inside, pc[d] \in Inside, on[c] = on[d]
  PROVE  c = d
<1>1. /\ place[c] = "in" /\ on[c] \in asks[c]
      /\ place[d] = "in" /\ on[c] \in asks[d]
  BY DEF PlaceInv
<1>2. QED
  BY <1>1 DEF Locks!Exclusion, Locks!Conflict
-----------------------------------------------------------------------------
(* What Step(c) does to the lists: nothing, one change to the list it      *)
(* holds, a list of a new id, another name for the copy it made, or a      *)
(* deletion.                                                               *)
Nothing == lists' = lists /\ born' = born

Edits(c) ==
  /\ pc[c] = "change" /\ born' = born
  /\ \/ Renamed(on[c], req[c].name)
     \/ \E some \in SUBSET Add(c) : Added(on[c], some)
     \/ /\ Remove(c) # {}
        /\ Add(c) = {} \/ "add" \in done[c]
        /\ \E some \in SUBSET Remove(c) : Removed(on[c], some)

Makes(c) ==
  /\ pc[c] \in {"create", "copy"}
  /\ \E l \in List : /\ Make(c, l)
                    /\ l.name = IF pc[c] = "create" THEN want[c] ELSE lists[on[c]].name

Renames(c) == pc[c] = "rename" /\ Renamed(on[c], want[c]) /\ born' = born

Deletes(c) == pc[c] = "delete" /\ Put(on[c], None)

LEMMA DueToRemove ==
  ASSUME NEW c \in Calls, Due(c, "remove")
  PROVE  /\ pc[c] = "change" /\ Remove(c) # {}
         /\ Add(c) = {} \/ "add" \in done[c]
  BY DEF Due, Asked

LEMMA StepEffect ==
  ASSUME TypeOK, OpInv, NEW c \in Calls, Step(c)
  PROVE  Nothing \/ Edits(c) \/ Makes(c) \/ Renames(c) \/ Deletes(c)
<1>1. CASE Update(c) \/ AddBatch(c) \/ AddBatchShort(c)
  BY <1>1 DEF Update, AddBatch, AddBatchShort, Due, Edits, Renamed, Added, Put
<1>2. CASE RemoveBooks(c) \/ RemoveEntries(c)
  BY <1>2, DueToRemove DEF RemoveBooks, RemoveEntries, Edits, Removed, Put
<1>3. CASE ChangeFails(c)
  <2>1. CASE UNCHANGED server
    BY <2>1 DEF Nothing, server
  <2>2. CASE Due(c, "update") /\ Renamed(on[c], req[c].name)
    BY <2>2 DEF Due, Edits, Renamed, Put
  <2>3. CASE Due(c, "add") /\ Added(on[c], Add(c))
    BY <2>3 DEF Due, Edits, Added, Put
  <2>4. CASE Due(c, "remove") /\ Removed(on[c], Remove(c))
    BY <2>4, DueToRemove DEF Edits, Removed, Put
  <2>5. QED
    BY <1>3, <2>1, <2>2, <2>3, <2>4 DEF ChangeFails
<1>4. CASE Create(c)
  <2>1. NewList(c) \in List
    BY <1>4, WorkTypes, TypedRequests DEF Create, NewList, List, OpInv, OpOf
  <2>2. NewList(c).name = want[c] /\ pc[c] = "create"
    BY <1>4 DEF Create, NewList
  <2>3. QED
    BY <1>4, <2>1, <2>2 DEF Create, Makes
<1>5. CASE Copy(c)
  <2>1. lists[on[c]] \in List
    BY <1>5, TypedLists DEF Copy, OpInv, OpOf
  <2>2. QED
    BY <1>5, <2>1 DEF Copy, Makes
<1>6. CASE Rename(c)
  BY <1>6 DEF Rename, Renames, Renamed, Put
<1>7. CASE Delete(c)
  BY <1>7 DEF Delete, Deletes, Nothing, server
<1>8. CASE \/ StartEdit(c) \/ StartDelete(c) \/ StartCopy(c) \/ StartCreate(c)
           \/ Enter(c) \/ Read(c) \/ LookForName(c) \/ Plan(c) \/ Refuse(c)
           \/ ReadBack(c) \/ ReadBackGone(c) \/ ReadBackFails(c)
           \/ EditEnds(c) \/ Deleted(c) \/ RequestFails(c)
  BY <1>8
  DEF StartEdit, StartDelete, StartCopy, StartCreate, Enter, Read, LookForName, Plan,
      Refuse, ReadBack, ReadBackGone, ReadBackFails, EditEnds, Deleted, RequestFails,
      Nothing, server
<1>9. QED
  BY <1>1, <1>2, <1>3, <1>4, <1>5, <1>6, <1>7, <1>8 DEF Step

(* A list of another id it leaves as it is.                                *)
LEMMA EditChanges ==
  ASSUME TypeOK, NEW c \in Calls, Edits(c)
  PROVE  /\ lists[on[c]] # None
         /\ \A i \in Ids \ {on[c]} : lists'[i] = lists[i]
  BY DEF Edits, Renamed, Added, Removed, Put, TypeOK, States

LEMMA MakeChanges ==
  ASSUME TypeOK, NEW c \in Calls, Makes(c)
  PROVE  \E i \in Ids \ born :
           /\ lists'[i] \in List /\ on'[c] = i
           /\ born' = born \cup {i}
           /\ \A j \in Ids \ {i} : lists'[j] = lists[j]
  BY OfIds DEF Makes, Make, Found, TypeOK, States

LEMMA RenameChanges ==
  ASSUME TypeOK, NEW i \in Ids, NEW n, Renamed(i, n)
  PROVE  /\ lists[i] # None /\ lists'[i].entries = lists[i].entries
         /\ n = None => lists'[i].name = lists[i].name
         /\ n # None => lists'[i].name = n
         /\ \A j \in Ids \ {i} : lists'[j] = lists[j]
  BY TypedLists DEF Renamed, Put, TypeOK, States, List

LEMMA AddChanges ==
  ASSUME TypeOK, NEW i \in Ids, NEW some, Added(i, some)
  PROVE  /\ lists[i] # None /\ lists'[i].entries = lists[i].entries \cup some
         /\ lists'[i].name = lists[i].name
         /\ \A j \in Ids \ {i} : lists'[j] = lists[j]
  BY TypedLists DEF Added, Put, TypeOK, States, List

LEMMA RemoveChanges ==
  ASSUME TypeOK, NEW i \in Ids, NEW some, Removed(i, some)
  PROVE  /\ lists[i] # None
         /\ \/ /\ lists'[i].entries = lists[i].entries \ some
               /\ lists'[i].name = lists[i].name
            \/ /\ lists'[i] = None /\ i \in Playlists
               /\ lists[i].entries \subseteq some
         /\ i \notin Playlists => lists'[i].entries = lists[i].entries \ some
         /\ \A j \in Ids \ {i} : lists'[j] = lists[j]
<1>1. lists[i] \in List /\ lists[i] # None
  BY TypedLists DEF Removed
<1>2. [lists[i] EXCEPT !.entries = @ \ some].entries = lists[i].entries \ some
      /\ [lists[i] EXCEPT !.entries = @ \ some].name = lists[i].name
  BY <1>1 DEF List
<1>3. QED
  BY <1>1, <1>2 DEF Removed, Put, TypeOK, States

(* The list of a call that is not the one to move stays, but for its name. *)
LEMMA OthersKeepLists ==
  ASSUME TypeOK, OpInv, BornInv, PlaceInv, Locks!Exclusion,
         NEW c \in Calls, Step(c), NEW d \in Calls, d # c,
         pc[d] \in Inside, Unspoilt(d)'
  PROVE  Unspoilt(d) /\ lists'[on[d]].entries = lists[on[d]].entries
<1>1. /\ Alone(d) /\ touched' = touched /\ on[d] \in Ids /\ on[d] \in born
      /\ on[d] \notin touched /\ lists'[on[d]] # None
  <2>1. on[d] \in Ids /\ on[d] # None
    BY OfIds, ListsAssumption DEF OpInv, OpOf
  <2>2. QED
    BY <2>1, StepFrame, StepMoves DEF BornInv, Alone, Unspoilt
<1>2. CASE Nothing
  BY <1>1, <1>2 DEF Nothing, Unspoilt
<1>3. CASE Edits(c)
  <2>1. on[c] # on[d]
    BY <1>3, HeldAlone DEF Edits, Inside
  <2>2. QED
    BY <1>1, <1>3, <2>1, EditChanges DEF Unspoilt
<1>4. CASE Makes(c)
  BY <1>1, <1>4, MakeChanges DEF Unspoilt
<1>5. CASE Renames(c)
  <2>1. on[c] \in Ids
    BY <1>5 DEF Renames, OpInv, OpOf
  <2>2. CASE on[c] = on[d]
    BY <1>1, <1>5, <2>1, <2>2, RenameChanges DEF Renames, Unspoilt
  <2>3. CASE on[c] # on[d]
    BY <1>1, <1>5, <2>1, <2>3, RenameChanges DEF Renames, Unspoilt
  <2>4. QED
    BY <2>2, <2>3
<1>6. CASE Deletes(c)
  <2>1. on[c] \in Ids
    BY <1>6 DEF Deletes, OpInv, OpOf
  <2>2. QED
    BY <1>1, <1>6, <2>1 DEF Deletes, Put, TypeOK, States, Unspoilt
<1>7. QED
  BY <1>2, <1>3, <1>4, <1>5, <1>6, StepEffect
-----------------------------------------------------------------------------
LEMMA StepOp ==
  ASSUME TypeOK, OpInv, NEW c \in Calls, Step(c)
  PROVE  OpInv'
<1>1. Moves(c) /\ req' = req /\ deleting' = deleting
  BY StepMoves
<1>2. \A d \in Calls \ {c} : Alone(d)
  BY StepFrame
<1>3. OpOf(c)
  BY DEF OpInv
<1>4. ASSUME NEW d \in Calls \ {c} PROVE OpOf(d)'
  <2>1. OpOf(d)
    BY DEF OpInv
  <2>2. QED
    BY <1>1, <1>2, <2>1 DEF Alone, Of, OpOf
<1>5. ASSUME pc'[c] \in Ended PROVE OpOf(c)'
  BY <1>5 DEF Ended, Inside, OpOf
<1> SUFFICES OpOf(c)'
  BY <1>4 DEF OpInv
<1>6. CASE pc[c] \in Inside \cup {"asked"}
  BY <1>1, <1>3, <1>5, <1>6 DEF Moves, Go, TypeOK, Of, Inside, Ended, OpOf
<1>7. CASE StartEdit(c)
  <2>1. req[c].op = "edit" /\ pc'[c] = "asked"
    BY <1>7 DEF StartEdit, Go, TypeOK
  <2>2. on'[c] \in Of(req[c].kind)
    BY <1>7, ResolvedIds DEF StartEdit, Found, TypeOK
  <2>3. QED
    BY <1>1, <2>1, <2>2 DEF Of, OpOf
<1>8. CASE StartDelete(c)
  BY <1>1, <1>8 DEF StartDelete, Go, Found, TypeOK, Inside, OpOf
<1>9. CASE StartCopy(c)
  BY <1>1, <1>9 DEF StartCopy, Go, Found, TypeOK, Inside, OpOf
<1>10. CASE StartCreate(c)
  <2>1. req[c].name \in Names
    BY <1>10, WorkTypes, TypedRequests DEF StartCreate
  <2>2. QED
    BY <1>1, <1>10, <2>1 DEF StartCreate, Go, Wants, TypeOK, Inside, OpOf
<1>11. CASE LookForName(c)
  BY <1>1, <1>3, <1>11 DEF LookForName, Go, work, TypeOK, Inside, OpOf
<1>12. CASE Copy(c)
  <2>1. on'[c] \in Ids /\ req[c].op = "copy"
    BY <1>12, <1>3, OfIds DEF Copy, Make, Found, TypeOK, OpOf
  <2>2. pc'[c] \in Ended \cup {"rename"}
    BY <1>12 DEF Copy, Finish, Go, TypeOK, Ended
  <2>3. QED
    BY <1>1, <1>5, <2>1, <2>2 DEF Inside, OpOf
<1>13. CASE Delete(c)
  BY <1>1, <1>3, <1>13 DEF Delete, Go, work, TypeOK, Inside, OpOf
<1>14. CASE Refuse(c) \/ Create(c) \/ Rename(c) \/ Deleted(c) \/ RequestFails(c)
  <2>1. pc'[c] \in Ended
    BY <1>14 DEF Refuse, Create, Rename, Deleted, RequestFails, Finish, Go, TypeOK, Ended
  <2>2. QED
    BY <1>5, <2>1
<1>15. QED
  BY <1>6, <1>7, <1>8, <1>9, <1>10, <1>11, <1>12, <1>13, <1>14
  DEF Step, Enter, Read, Plan, Update, AddBatch, AddBatchShort, RemoveBooks,
      RemoveEntries, ReadBack, ReadBackGone, ReadBackFails, ChangeFails, EditEnds, Due,
      Inside

LEMMA StepBorn ==
  ASSUME TypeOK, OpInv, BornInv, NEW c \in Calls, Step(c)
  PROVE  BornInv'
<1>1. \A d \in Calls \ {c} : on'[d] = on[d]
  BY StepFrame DEF Alone
<1>2. born \subseteq born'
  BY StepEffect DEF Nothing, Edits, Makes, Make, Renames, Deletes, Put
<1>3. ASSUME NEW i \in Ids, lists'[i] # None PROVE i \in born'
  <2>1. lists[i] # None => i \in born'
    BY <1>2 DEF BornInv
  <2>2. CASE Nothing
    BY <1>3, <2>1, <2>2 DEF Nothing
  <2>3. CASE Edits(c)
    BY <1>3, <2>1, <2>3, EditChanges
  <2>4. CASE Makes(c)
    BY <1>3, <2>1, <2>4, MakeChanges
  <2>5. CASE Renames(c)
    <3>1. on[c] \in Ids
      BY <2>5 DEF Renames, OpInv, OpOf
    <3>2. QED
      BY <1>3, <2>1, <2>5, <3>1, RenameChanges DEF Renames
  <2>6. CASE Deletes(c)
    BY <1>3, <2>1, <2>6 DEF Deletes, Put, TypeOK, States, OpInv, OpOf
  <2>7. QED
    BY <2>2, <2>3, <2>4, <2>5, <2>6, StepEffect
<1>4. on'[c] # None => on'[c] \in born'
  <2>1. CASE on'[c] = on[c]
    BY <1>2, <2>1 DEF BornInv
  <2>2. CASE StartEdit(c) \/ StartDelete(c) \/ StartCopy(c)
    <3>1. \E i \in Ids : Resolved(req[c]) = {i} /\ Found(c, i)
      BY <2>2 DEF StartEdit, StartDelete, StartCopy
    <3>2. on'[c] \in born
      BY <3>1, ResolvedIds DEF BornInv, Found, TypeOK
    <3>3. QED
      BY <1>2, <3>2
  <2>3. CASE Create(c) \/ Copy(c)
    BY <2>3 DEF Create, Copy, Make, Found, TypeOK
  <2>4. QED
    BY <2>1, <2>2, <2>3
    DEF Step, work, StartCreate, Enter, Read, LookForName, Plan, Refuse, Update, AddBatch,
        AddBatchShort, RemoveBooks, RemoveEntries, ReadBack, ReadBackGone, ReadBackFails,
        ChangeFails, EditEnds, Rename, Delete, Deleted, RequestFails
<1>5. QED
  BY <1>1, <1>2, <1>3, <1>4 DEF BornInv

(* The lists that have stood only grow fewer, and keep their names.        *)
LEMMA StoodShrinks ==
  ASSUME TypeOK, Standing, NEW c \in Calls, pc[c] # "idle", NEW j \in stood'[c]
  PROVE  j \in stood[c] /\ lists'[j] # None /\ lists'[j].name = lists[j].name
  BY DEF TypeOK, Standing, KeepsName

LEMMA StoodStand ==
  ASSUME TypeOK, Standing, req' = req, NEW c \in Calls, NameOf(c)
  PROVE  stood'[c] \subseteq Live(req[c].kind)'
<1>1. CASE pc[c] = "idle"
  BY <1>1 DEF Standing
<1>2. CASE pc[c] # "idle"
  BY <1>2, StoodShrinks DEF NameOf, Live, Of
<1>3. QED
  BY <1>1, <1>2

(* A call that goes on to give the name it was to give may do so still.    *)
LEMMA StillGiving ==
  ASSUME TypeOK, Standing, req' = req, NEW c \in Calls, NameOf(c), Giving(c),
         pc'[c] = pc[c], on'[c] = on[c], want'[c] = want[c]
  PROVE  NameOf(c)'
<1>1. pc[c] # "idle"
  BY DEF Giving
<1>2. \A j \in Others(c)' : lists'[j].name # want'[c]
  BY <1>1, StoodShrinks DEF NameOf, Others
<1>3. QED
  BY <1>2, StoodStand DEF NameOf

LEMMA StepName ==
  ASSUME TypeOK, OpInv, WorkInv, NameInv, NEW c \in Calls, Step(c)
  PROVE  NameInv'
<1>0. Standing
  BY DEF Step, Beside, StartEdit, StartDelete, StartCopy, StartCreate, Enter, Read,
     LookForName, Plan, Refuse, Update, AddBatch, AddBatchShort, RemoveBooks,
     RemoveEntries, ReadBack, ReadBackGone, ReadBackFails, ChangeFails, EditEnds, Create,
     Copy, Rename, Delete, Deleted, RequestFails
<1>1. Moves(c) /\ req' = req
  BY StepMoves
<1>2. ASSUME NEW d \in Calls PROVE stood'[d] \subseteq Live(req[d].kind)'
  BY <1>0, <1>1, StoodStand DEF NameInv
<1>3. ASSUME NEW d \in Calls \ {c} PROVE NameOf(d)'
  <2>1. pc'[d] = pc[d] /\ on'[d] = on[d] /\ want'[d] = want[d]
    BY StepFrame DEF Alone
  <2>2. CASE Giving(d)
    BY <1>0, <1>1, <2>1, <2>2, StillGiving DEF NameInv
  <2>3. CASE ~Giving(d)
    BY <1>2, <2>1, <2>3 DEF NameOf, Giving
  <2>4. QED
    BY <2>2, <2>3
<1>4. ASSUME Giving(c)' PROVE NameOf(c)'
  <2>1. CASE LookForName(c)
    <3>1. /\ req[c].op # "edit" /\ want' = want /\ lists' = lists /\ pc[c] = "names"
      BY <2>1 DEF LookForName, OpInv, OpOf, work, server
    <3>2. stood[c] \cap Named(req[c].kind, want[c]) = {}
      BY <2>1, <3>1 DEF LookForName, Taken
    <3>3. \A j \in stood[c] : lists[j].name # want[c]
      BY <3>2 DEF NameInv, NameOf, Named
    <3>4. \A j \in stood'[c] : lists'[j].name # want'[c]
      BY <1>0, <3>1, <3>3, StoodShrinks
    <3>5. QED
      BY <1>2, <3>4 DEF NameOf, Others
  <2>2. CASE Plan(c)
    <3>1. /\ req[c].op = "edit" /\ on' = on /\ want' = want /\ lists' = lists
          /\ pc[c] = "plan" /\ pc'[c] = "change" /\ want[c] # None
      BY <1>4, <2>2 DEF Plan, OpInv, OpOf, work, server, Inside, Go, TypeOK, Giving
    <3>2. Named(req[c].kind, want[c]) \subseteq {on[c]}
      BY <2>2, <3>1 DEF Plan, Taken
    <3>3. \A j \in stood[c] \ {on[c]} : lists[j].name # want[c]
      BY <3>2 DEF NameInv, NameOf, Named
    <3>4. \A j \in Others(c)' : lists'[j].name # want'[c]
      BY <1>0, <3>1, <3>3, StoodShrinks DEF Others
    <3>5. QED
      BY <1>2, <3>4 DEF NameOf
  <2>3. CASE Update(c) \/ AddBatch(c)
    <3>1. pc'[c] = pc[c] /\ on'[c] = on[c] /\ want'[c] = want[c] /\ Giving(c)
      BY <1>4, <2>3 DEF Update, AddBatch, Giving
    <3>2. QED
      BY <1>0, <1>1, <3>1, StillGiving DEF NameInv
  <2>4. CASE Copy(c)
    <3>1. /\ pc[c] = "copy" /\ Giving(c)
          /\ want'[c] = IF lists[on[c]].name = want[c] THEN None ELSE want[c]
      BY <2>4 DEF Copy, Wants, Giving, TypeOK
    <3>2. ASSUME NEW j \in stood'[c] PROVE lists'[j].name # want'[c]
      <4>1. /\ j \in stood[c] /\ lists[j].name # want[c]
            /\ lists'[j].name = lists[j].name
        BY <1>0, <3>1, <3>2, StoodShrinks DEF NameInv, NameOf, Others
      <4>2. lists[j].name \in Names
        BY <4>1, TypedLists, OfIds DEF NameInv, NameOf, Live
      <4>3. QED
        BY <3>1, <4>1, <4>2, ListsAssumption
    <3>3. QED
      BY <1>2, <3>2 DEF NameOf, Others
  <2>5. CASE pc'[c] \in Ended \cup {"asked", "delete", "deletion", "names", "held", "plan", "readback"}
    BY <1>4, <2>5 DEF Ended, Giving
  <2>6. CASE \/ StartEdit(c) \/ StartDelete(c) \/ StartCopy(c) \/ StartCreate(c)
             \/ Enter(c) \/ Read(c) \/ RemoveEntries(c) \/ Delete(c)
    BY <2>5, <2>6 DEF StartEdit, StartDelete, StartCopy, StartCreate, Enter, Read,
       RemoveEntries, Delete, Go, TypeOK, Ended
  <2>7. CASE \/ Refuse(c) \/ AddBatchShort(c) \/ RemoveBooks(c) \/ ReadBack(c)
             \/ ReadBackGone(c) \/ ReadBackFails(c) \/ ChangeFails(c) \/ EditEnds(c)
             \/ Create(c) \/ Rename(c) \/ Deleted(c) \/ RequestFails(c)
    <3>1. pc'[c] \in Ended
      BY <2>7 DEF Refuse, AddBatchShort, RemoveBooks, ReadBack, ReadBackGone,
         ReadBackFails, ChangeFails, EditEnds, Create, Rename, Deleted, RequestFails,
         Finish, Go, TypeOK, Ended
    <3>2. QED
      BY <2>5, <3>1
  <2>8. QED
    BY <2>1, <2>2, <2>3, <2>4, <2>6, <2>7 DEF Step
<1>5. NameOf(c)'
  BY <1>2, <1>4 DEF NameOf
<1>6. QED
  BY <1>3, <1>5 DEF NameInv
-----------------------------------------------------------------------------
(* The steps that bring a call to each step inside, and to its answers.    *)
LEMMA StepInto ==
  ASSUME TypeOK, OpInv, NEW c \in Calls, Step(c)
  PROVE  /\ pc'[c] # "idle"
         /\ pc'[c] = "asked"    => StartEdit(c)
         /\ pc'[c] = "held"     => Enter(c)
         /\ pc'[c] = "plan"     => Read(c)
         /\ pc'[c] = "change"   => Plan(c) \/ Update(c) \/ AddBatch(c)
         /\ pc'[c] = "readback" => RemoveEntries(c)
         /\ pc'[c] = "ok"       => \/ RemoveBooks(c) \/ ReadBack(c) \/ EditEnds(c)
                                  \/ Create(c) \/ Copy(c) \/ Rename(c)
         /\ pc'[c] = "deleted"  => RemoveBooks(c) \/ ReadBackGone(c) \/ Deleted(c)
<1>0. USE DEF TypeOK, Go, Finish
<1>1. CASE StartEdit(c) \/ StartDelete(c) \/ StartCopy(c) \/ StartCreate(c)
  BY <1>1 DEF StartEdit, StartDelete, StartCopy, StartCreate
<1>2. CASE Enter(c) \/ Read(c) \/ Plan(c) \/ Update(c) \/ AddBatch(c) \/ RemoveEntries(c)
  BY <1>2 DEF Enter, Read, Plan, Update, AddBatch, RemoveEntries, Due
<1>3. CASE LookForName(c)
  BY <1>3 DEF LookForName, OpInv, OpOf
<1>4. CASE Refuse(c) \/ AddBatchShort(c) \/ ReadBackFails(c) \/ ChangeFails(c)
             \/ RequestFails(c) \/ Delete(c)
  BY <1>4 DEF Refuse, AddBatchShort, ReadBackFails, ChangeFails, RequestFails, Delete
<1>5. CASE RemoveBooks(c) \/ ReadBack(c) \/ ReadBackGone(c) \/ EditEnds(c) \/ Deleted(c)
  BY <1>5 DEF RemoveBooks, ReadBack, ReadBackGone, EditEnds, Deleted
<1>6. CASE Create(c) \/ Copy(c) \/ Rename(c)
  BY <1>6 DEF Create, Copy, Rename
<1>7. QED
  BY <1>1, <1>2, <1>3, <1>4, <1>5, <1>6 DEF Step

LEMMA SameWork ==
  ASSUME NEW d \in Calls, seen'[d] = seen[d], req' = req, deleting' = deleting
  PROVE  Add(d)' = Add(d) /\ Remove(d)' = Remove(d) /\ MayEmpty(d)' = MayEmpty(d)
  BY DEF Add, Remove, MayEmpty

LEMMA StepWork ==
  ASSUME TypeOK, OpInv, WorkInv, NEW c \in Calls, Step(c)
  PROVE  WorkInv'
<1>1. req' = req /\ deleting' = deleting
  BY StepMoves
<1>2. ASSUME NEW d \in Calls, d # c PROVE WorkOf(d)'
  <2>1. Alone(d) /\ WorkOf(d)
    BY <1>2, StepFrame DEF WorkInv
  <2>2. Add(d)' = Add(d) /\ MayEmpty(d)' = MayEmpty(d)
    BY <1>1, <2>1, SameWork DEF Alone
  <2>3. QED
    BY <1>1, <2>1, <2>2 DEF WorkOf, Alone
<1> SUFFICES WorkOf(c)'
  BY <1>2 DEF WorkInv
<1>3. WorkOf(c)
  BY DEF WorkInv
<1>4. CASE pc'[c] \in {"asked", "held", "plan"}
  <2>1. CASE StartEdit(c)
    BY <1>1, <1>3, <2>1 DEF StartEdit, WorkOf, Wants, Go, TypeOK, Inside
  <2>2. CASE Enter(c)
    BY <1>1, <1>3, <2>2 DEF Enter, WorkOf, work, Go, TypeOK, Inside
  <2>3. CASE Read(c)
    BY <1>1, <1>3, <2>3 DEF Read, WorkOf, Go, TypeOK, Inside
  <2>4. QED
    BY <1>4, <2>1, <2>2, <2>3, StepInto
<1>5. CASE pc'[c] \in {"change", "readback"}
  <2>1. Plan(c) \/ Update(c) \/ AddBatch(c) \/ RemoveEntries(c)
    BY <1>5, StepInto
  <2>2. seen' = seen /\ want' = want /\ pc[c] \in {"plan", "change"}
    BY <2>1 DEF Plan, Update, AddBatch, RemoveEntries, work, Due
  <2>3. Add(c)' = Add(c) /\ MayEmpty(c)' = MayEmpty(c)
    BY <1>1, <2>2, SameWork
  <2>4. req[c].add \cap req[c].remove = {} /\ MayEmpty(c)
    BY <1>3, <2>1 DEF Plan, Update, AddBatch, RemoveEntries, Due, WorkOf
  <2>5. pc'[c] = "readback" => done' = done /\ (Add(c) = {} \/ "add" \in done[c])
    BY DueToRemove, StepInto DEF RemoveEntries, work
  <2>6. want'[c] = req[c].name
    BY <1>3, <2>2 DEF WorkOf, Inside
  <2>7. QED
    BY <1>1, <1>5, <2>3, <2>4, <2>5, <2>6 DEF WorkOf
<1>6. CASE pc'[c] \notin {"asked", "held", "plan", "change", "readback"}
  BY <1>6, StepInto DEF WorkOf, Inside
<1>7. QED
  BY <1>4, <1>5, <1>6

(* What a call has read is what its list holds until it changes it, and    *)
(* then what it was told.                                                  *)
KeptInv == PlanInv /\ HeldListIsCurrent /\ ReadBackInv

KeptOf(c) ==
  Unspoilt(c) =>
    /\ pc[c] = "plan"   => lists[on[c]].entries = seen[c]
    /\ pc[c] = "change" => lists[on[c]].entries = Told(c)
    /\ pc[c] = "readback" =>
         /\ Told(c) \ Remove(c) \subseteq lists[on[c]].entries
         /\ lists[on[c]].entries \subseteq Told(c)

LEMMA KeptByCall == KeptInv <=> \A c \in Calls : KeptOf(c)
  BY DEF KeptInv, KeptOf, PlanInv, HeldListIsCurrent, ReadBackInv

LEMMA StepKept ==
  ASSUME ListsInv, NEW c \in Calls, Step(c)
  PROVE  KeptInv'
<1>0. /\ TypeOK /\ Locks!Exclusion /\ PlaceInv /\ OpInv /\ BornInv /\ WorkInv
      /\ \A d \in Calls : KeptOf(d)
  BY KeptByCall DEF ListsInv, KeptInv
<1>1. req' = req /\ deleting' = deleting /\ touched' = touched
  BY <1>0, StepMoves
<1>2. ASSUME NEW d \in Calls, d # c PROVE KeptOf(d)'
  <2>1. Alone(d)
    BY <1>0, <1>2, StepFrame
  <2>2. Told(d)' = Told(d) /\ Remove(d)' = Remove(d)
    BY <1>1, <2>1 DEF Alone, Told, Add, Remove
  <2>3. CASE pc[d] \in Inside /\ Unspoilt(d)'
    <3>1. Unspoilt(d) /\ lists'[on[d]].entries = lists[on[d]].entries
      BY <1>0, <1>2, <2>3, OthersKeepLists
    <3>2. QED
      BY <1>0, <2>1, <2>2, <3>1 DEF KeptOf, Alone
  <2>4. QED
    BY <2>1, <2>3 DEF KeptOf, Alone, Inside
<1>3. ASSUME Unspoilt(c)', pc'[c] = "plan" PROVE lists'[on'[c]].entries = seen'[c]
  BY <1>0, <1>3, StepInto DEF Read, server, TypeOK
<1>4. ASSUME Unspoilt(c)', pc'[c] = "change" PROVE lists'[on'[c]].entries = Told(c)'
  <2>1. on' = on /\ seen' = seen /\ (Plan(c) \/ Update(c) \/ AddBatch(c))
    BY <1>0, <1>4, StepInto DEF Plan, Update, AddBatch, work
  <2>2. Add(c)' = Add(c)
    BY <1>0, <1>1, <2>1, SameWork
  <2>3. CASE Plan(c)
    <3>1. lists' = lists /\ done' = done /\ done[c] = {} /\ pc[c] = "plan"
      BY <1>0, <2>3 DEF Plan, server, work, WorkInv, WorkOf
    <3>2. Unspoilt(c)
      BY <1>1, <1>4, <2>1, <3>1 DEF Unspoilt
    <3>3. QED
      BY <1>0, <2>1, <3>1, <3>2 DEF KeptOf, Told
  <2>4. CASE Update(c) \/ AddBatch(c)
    <3>1. pc[c] = "change" /\ on[c] \in Ids /\ lists[on[c]] # None
      BY <1>0, <2>4, OfIds
      DEF Update, AddBatch, Due, Renamed, Added, OpInv, OpOf, Inside
    <3>2. lists[on[c]].entries = Told(c)
      BY <1>0, <1>1, <1>4, <2>1, <3>1 DEF Unspoilt, KeptOf
    <3>3. CASE Update(c)
      <4>1. lists'[on[c]].entries = lists[on[c]].entries
        BY <1>0, <3>1, <3>3, RenameChanges DEF Update
      <4>2. "add" \in done'[c] <=> "add" \in done[c]
        BY <1>0, <3>3 DEF Update, Did, TypeOK
      <4>3. QED
        BY <2>1, <2>2, <3>2, <4>1, <4>2 DEF Told
    <3>4. CASE AddBatch(c)
      <4>1. PICK some \in SUBSET Add(c) : Added(on[c], some)
        BY <3>4 DEF AddBatch
      <4>2. lists'[on[c]].entries = lists[on[c]].entries \cup some
        BY <1>0, <3>1, <4>1, AddChanges
      <4>3. Add(c) \subseteq lists'[on[c]].entries /\ "add" \in done'[c]
        BY <1>0, <3>4 DEF AddBatch, Did, TypeOK
      <4>4. QED
        BY <2>1, <2>2, <3>2, <4>2, <4>3 DEF Told
    <3>5. QED
      BY <2>4, <3>3, <3>4
  <2>5. QED
    BY <2>1, <2>3, <2>4
<1>5. ASSUME Unspoilt(c)', pc'[c] = "readback"
      PROVE  /\ Told(c)' \ Remove(c)' \subseteq lists'[on'[c]].entries
             /\ lists'[on'[c]].entries \subseteq Told(c)'
  <2>1. RemoveEntries(c) /\ on' = on /\ seen' = seen /\ done' = done
    BY <1>0, <1>5, StepInto DEF RemoveEntries, work
  <2>2. Told(c)' = Told(c) /\ Remove(c)' = Remove(c)
    BY <1>0, <1>1, <2>1, SameWork DEF Told
  <2>3. PICK some \in SUBSET Remove(c) : Removed(on[c], some)
    BY <2>1 DEF RemoveEntries
  <2>4. pc[c] = "change" /\ on[c] \in Ids
    BY <1>0, <2>1, OfIds DEF RemoveEntries, Due, OpInv, OpOf, Inside
  <2>5. /\ lists[on[c]] # None /\ lists'[on[c]] # None
        /\ lists'[on[c]].entries = lists[on[c]].entries \ some
    BY <1>0, <1>5, <2>1, <2>3, <2>4, RemoveChanges DEF Unspoilt
  <2>6. lists[on[c]].entries = Told(c)
    BY <1>0, <1>1, <1>5, <2>1, <2>4, <2>5 DEF Unspoilt, KeptOf
  <2>7. QED
    BY <2>1, <2>2, <2>5, <2>6
<1>6. KeptOf(c)'
  BY <1>3, <1>4, <1>5 DEF KeptOf
<1>7. \A d \in Calls : KeptOf(d)'
  BY <1>2, <1>6
<1>8. QED
  BY <1>7 DEF KeptInv, KeptOf, PlanInv, HeldListIsCurrent, ReadBackInv
-----------------------------------------------------------------------------
(* The web app moves no call; a list it changes is spoilt for them.        *)
LEMMA WebInv ==
  ASSUME ListsInv, NEW i \in Ids, WebChange(i)
  PROVE  ListsInv'
<1>1. /\ TypeOK /\ Locks!Exclusion /\ PlaceInv /\ OpInv /\ BornInv /\ NameInv /\ WorkInv
      /\ \A d \in Calls : KeptOf(d)
  BY KeptByCall DEF ListsInv, KeptInv
<1>2. /\ UNCHANGED <<place, asks, pc, on, want, seen, done, deleting, req>>
      /\ Standing /\ touched' = touched \cup {i}
  BY DEF WebChange, locks, work, fixed
<1>3. /\ born \subseteq born'
      /\ \A j \in Ids \ {i} : lists'[j] = lists[j]
      /\ lists'[i] # None => i \in born'
  <2>1. CASE (\E n \in Names : Renamed(i, n)) \/ (\E e \in Entries : Added(i, {e}) \/ Removed(i, {e}))
    <3>1. lists[i] # None /\ born' = born
      BY <2>1 DEF Renamed, Added, Removed, Put
    <3>2. \A j \in Ids \ {i} : lists'[j] = lists[j]
      BY <1>1, <2>1, RenameChanges, AddChanges, RemoveChanges
    <3>3. QED
      BY <1>1, <3>1, <3>2 DEF BornInv
  <2>2. CASE lists[i] # None /\ Put(i, None)
    BY <1>1, <2>2 DEF Put, TypeOK, States, BornInv
  <2>3. CASE /\ \E n \in Names : lists' = [lists EXCEPT ![i] = [name |-> n, entries |-> {}]]
             /\ born' = born \cup {i}
    BY <1>1, <2>3 DEF TypeOK, States
  <2>4. QED
    BY <2>1, <2>2, <2>3 DEF WebChange
<1>4. TypeOK' /\ Locks!Exclusion' /\ PlaceInv' /\ OpInv'
  <2>1. TypeOK'
    BY <1>1, WebTypes
  <2>2. Locks!Exclusion' /\ PlaceInv'
    BY <1>1, <1>2 DEF Locks!Exclusion, Locks!Conflict, PlaceInv
  <2>3. OpInv'
    BY <1>1, <1>2 DEF OpInv, OpOf, Of
  <2>4. QED
    BY <2>1, <2>2, <2>3
<1>5. BornInv'
  BY <1>1, <1>2, <1>3 DEF BornInv
<1>6. NameInv'
  <2>1. ASSUME NEW d \in Calls PROVE NameOf(d)'
    <3>1. CASE Giving(d)
      BY <1>1, <1>2, <3>1, StillGiving DEF NameInv
    <3>2. CASE ~Giving(d)
      BY <1>1, <1>2, <3>2, StoodStand DEF NameInv, NameOf, Giving
    <3>3. QED
      BY <3>1, <3>2
  <2>2. QED
    BY <2>1 DEF NameInv
<1>7. WorkInv'
  BY <1>1, <1>2, SameWork DEF WorkInv, WorkOf
<1>8. ASSUME NEW d \in Calls PROVE KeptOf(d)'
  <2>1. Told(d)' = Told(d) /\ Remove(d)' = Remove(d)
    BY <1>2 DEF Told, Add, Remove
  <2>2. CASE pc[d] \in Inside /\ Unspoilt(d)'
    <3>1. on[d] \in Ids /\ on[d] # i /\ on[d] \notin touched
      BY <1>1, <1>2, <2>2, OfIds DEF OpInv, OpOf, Unspoilt
    <3>2. lists'[on[d]] = lists[on[d]] /\ Unspoilt(d)
      BY <1>2, <1>3, <2>2, <3>1 DEF Unspoilt
    <3>3. QED
      BY <1>1, <1>2, <2>1, <3>2 DEF KeptOf
  <2>3. QED
    BY <1>2, <2>2 DEF KeptOf, Inside
<1>9. KeptInv'
  BY <1>8 DEF KeptInv, KeptOf, PlanInv, HeldListIsCurrent, ReadBackInv
<1>10. QED
  BY <1>4, <1>5, <1>6, <1>7, <1>9 DEF ListsInv, KeptInv

LEMMA StepInv ==
  ASSUME ListsInv, NEW c \in Calls, Step(c)
  PROVE  ListsInv'
<1>1. /\ TypeOK /\ Locks!Exclusion /\ PlaceInv /\ OpInv /\ BornInv /\ NameInv /\ WorkInv
  BY DEF ListsInv
<1>2. TypeOK' /\ PlaceInv' /\ Locks!Exclusion'
  BY <1>1, StepTypes, StepPlaces
<1>3. OpInv' /\ BornInv'
  BY <1>1, StepOp, StepBorn
<1>4. NameInv' /\ WorkInv'
  BY <1>1, StepName, StepWork
<1>5. KeptInv'
  BY StepKept
<1>6. QED
  BY <1>2, <1>3, <1>4, <1>5 DEF ListsInv, KeptInv

LEMMA StutterInv ==
  ASSUME ListsInv, UNCHANGED vars
  PROVE  ListsInv'
<1>1. UNCHANGED <<place, asks, lists, born, deleting, pc, req, on, want, seen, done,
                  stood, touched, budget>>
  BY DEF vars, locks, server, work, fixed, web
<1>2. TypeOK' /\ Locks!Exclusion' /\ PlaceInv'
  BY <1>1 DEF ListsInv, TypeOK, Locks!TypeOK, Locks!Exclusion, Locks!Conflict, PlaceInv
<1>3. OpInv' /\ BornInv' /\ NameInv' /\ WorkInv'
  BY <1>1, SameWork DEF ListsInv, OpInv, OpOf, Of, BornInv, NameInv, NameOf, Giving, Others,
     Live, WorkInv, WorkOf
<1>4. PlanInv' /\ HeldListIsCurrent' /\ ReadBackInv'
  BY <1>1 DEF ListsInv, PlanInv, HeldListIsCurrent, ReadBackInv, Unspoilt, Told, Add, Remove
<1>5. QED
  BY <1>2, <1>3, <1>4 DEF ListsInv

LEMMA FirstInv ==
  ASSUME Init
  PROVE  ListsInv
<1>0. USE DEF Init, Inside, Ended, Steps
<1>1. TypeOK
  BY ListsAssumption DEF TypeOK, Locks!TypeOK, Locks!Init, Locks!Requests
<1>2. Locks!Exclusion /\ PlaceInv
  BY DEF Locks!Exclusion, Locks!Init, PlaceInv
<1>3. OpInv /\ BornInv /\ NameInv /\ WorkInv
  BY DEF OpInv, OpOf, BornInv, NameInv, NameOf, Giving, WorkInv, WorkOf
<1>4. PlanInv /\ HeldListIsCurrent /\ ReadBackInv
  BY DEF PlanInv, HeldListIsCurrent, ReadBackInv
<1>5. QED
  BY <1>1, <1>2, <1>3, <1>4 DEF ListsInv

(* The lists' invariant holds all along, for every set of calls, lists and *)
(* names, and whatever the web app does.                                   *)
THEOREM Invariance == Spec => []ListsInv
<1>1. Init => ListsInv
  BY FirstInv
<1>2. ListsInv /\ [Next]_vars => ListsInv'
  BY StepInv, WebInv, StutterInv DEF Next
<1>3. QED
  BY <1>1, <1>2, PTL DEF Spec

(* Every variable of collections.go's and playlists.go's edits has its     *)
(* type.                                                                   *)
THEOREM TypeCorrect == Spec => []TypeOK
<1>1. ListsInv => TypeOK
  BY DEF ListsInv
<1>2. QED
  BY <1>1, Invariance, PTL

(* A list a call is changing holds what the call read and what it added    *)
(* since: no other call changes it, since one call holds it at a time      *)
(* (collections.go and playlists.go take the list's lock before they read  *)
(* it).                                                                    *)
THEOREM HeldListsAreCurrent == Spec => []HeldListIsCurrent
<1>1. ListsInv => HeldListIsCurrent
  BY DEF ListsInv
<1>2. QED
  BY <1>1, Invariance, PTL
-----------------------------------------------------------------------------
(* The steps of the web app end no call.                                   *)
LEMMA EndingSteps ==
  ASSUME ListsInv, [Next]_vars, NEW d \in Calls, <<pc[d], done[d]>>' # <<pc[d], done[d]>>
  PROVE  Step(d)
<1>1. \E c \in Calls : Step(c)
  BY DEF Next, WebChange, vars, work
<1>2. PICK c \in Calls : Step(c)
  BY <1>1
<1>3. c = d
  BY <1>2, StepFrame DEF ListsInv, Alone
<1>4. QED
  BY <1>2, <1>3

(* What is left of the entries is what was asked for.                      *)
LEMMA AllOfIt ==
  ASSUME NEW c \in Calls, req[c].add \cap req[c].remove = {},
         NEW left, Told(c) \ Remove(c) \subseteq left, left \subseteq Told(c),
         Remove(c) \cap left = {},
         Add(c) = {} \/ "add" \in done[c]
  PROVE  left = (seen[c] \cup req[c].add) \ req[c].remove
<1>1. Told(c) = seen[c] \cup req[c].add
  BY DEF Told, Add
<1>2. (seen[c] \cup req[c].add) \ Remove(c) = (seen[c] \cup req[c].add) \ req[c].remove
  BY DEF Remove
<1>3. left = Told(c) \ Remove(c)
  OBVIOUS
<1>4. QED
  BY <1>1, <1>2, <1>3

LEMMA EditAnswers ==
  ASSUME ListsInv, NEW c \in Calls, Step(c), pc'[c] = "ok", req[c].op = "edit",
         Unspoilt(c)'
  PROVE  lists'[on[c]].entries = (seen[c] \cup req[c].add) \ req[c].remove
<1>1. /\ TypeOK /\ OpInv /\ WorkOf(c) /\ KeptOf(c) /\ touched' = touched
  BY KeptByCall, StepMoves DEF ListsInv, KeptInv, WorkInv
<1>2. RemoveBooks(c) \/ ReadBack(c) \/ EditEnds(c)
  <2>1. RemoveBooks(c) \/ ReadBack(c) \/ EditEnds(c) \/ Create(c) \/ Copy(c) \/ Rename(c)
    BY <1>1, StepInto
  <2>2. ~(Create(c) \/ Copy(c) \/ Rename(c))
    BY <1>1 DEF Create, Copy, Rename, OpInv, OpOf
  <2>3. QED
    BY <2>1, <2>2
<1>3. on' = on
  BY <1>2 DEF RemoveBooks, ReadBack, EditEnds, work
<1>4. pc[c] \in {"change", "readback"} /\ req[c].add \cap req[c].remove = {}
  BY <1>1, <1>2 DEF RemoveBooks, ReadBack, EditEnds, Due, WorkOf
<1>5. on[c] \in Ids /\ on[c] \in Of(req[c].kind)
  BY <1>1, <1>4, OfIds DEF OpInv, OpOf, Inside
<1>6. CASE RemoveBooks(c)
  <2>1. PICK some \in SUBSET Remove(c) : Removed(on[c], some)
    BY <1>6 DEF RemoveBooks
  <2>2. on[c] \notin Playlists
    BY <1>5, <1>6, ListsAssumption DEF RemoveBooks, Of
  <2>3. lists[on[c]] # None /\ lists'[on[c]].entries = lists[on[c]].entries \ some
    BY <1>1, <1>5, <2>1, <2>2, RemoveChanges
  <2>4. pc[c] = "change" /\ (Add(c) = {} \/ "add" \in done[c])
    BY <1>6, DueToRemove DEF RemoveBooks
  <2>5. lists[on[c]].entries = Told(c)
    BY <1>1, <1>3, <2>3, <2>4 DEF KeptOf, Unspoilt
  <2>6. Remove(c) \cap lists'[on[c]].entries = {}
    BY <1>1, <1>6 DEF RemoveBooks, Finish, Go, TypeOK
  <2>7. QED
    BY <1>4, <2>1, <2>3, <2>4, <2>5, <2>6, AllOfIt
<1>7. CASE ReadBack(c)
  <2>1. /\ lists' = lists /\ pc[c] = "readback" /\ lists[on[c]] # None
        /\ Remove(c) \cap lists[on[c]].entries = {}
    BY <1>1, <1>7 DEF ReadBack, Finish, Go, TypeOK, server
  <2>2. Unspoilt(c)
    BY <1>1, <1>3, <2>1 DEF Unspoilt
  <2>3. /\ Told(c) \ Remove(c) \subseteq lists[on[c]].entries
        /\ lists[on[c]].entries \subseteq Told(c)
        /\ Add(c) = {} \/ "add" \in done[c]
    BY <1>1, <2>1, <2>2 DEF KeptOf, WorkOf
  <2>4. QED
    BY <1>4, <2>1, <2>3, AllOfIt
<1>8. CASE EditEnds(c)
  <2>1. lists' = lists /\ pc[c] = "change" /\ Asked(c) \subseteq done[c]
    BY <1>8 DEF EditEnds, server
  <2>2. "remove" \notin done[c]
    BY <1>1 DEF TypeOK
  <2>3. Remove(c) = {} /\ (Add(c) = {} \/ "add" \in done[c])
    BY <2>1, <2>2 DEF Asked
  <2>4. lists[on[c]].entries = Told(c)
    BY <1>1, <1>3, <2>1 DEF KeptOf, Unspoilt
  <2>5. QED
    BY <1>4, <2>1, <2>3, <2>4, AllOfIt
<1>9. QED
  BY <1>2, <1>6, <1>7, <1>8

LEMMA DeletedAnswers ==
  ASSUME ListsInv, NEW c \in Calls, Step(c), pc'[c] = "deleted"
  PROVE  lists'[on[c]] = None
<1>1. TypeOK /\ OpInv
  BY DEF ListsInv
<1>2. RemoveBooks(c) \/ ReadBackGone(c) \/ Deleted(c)
  BY <1>1, StepInto
<1>3. ~RemoveBooks(c)
  BY <1>1 DEF RemoveBooks, Finish, Go, TypeOK
<1>4. QED
  BY <1>2, <1>3 DEF ReadBackGone, Deleted, server

(* An edit that is answered with its list holds all it was to hold and     *)
(* nothing it was to lose, though the server leaves out entries without a  *)
(* word, and a list that is said to be deleted is (collections.go's and    *)
(* playlists.go's look at each answer, and the playlist read back).        *)
THEOREM AnswersAreTrue == Spec => AnswerIsTrue
<1> DEFINE Answer(c) ==
      /\ Ends(c, "ok") /\ req[c].op = "edit" /\ Unspoilt(c)' =>
           lists'[on[c]].entries = (seen[c] \cup req[c].add) \ req[c].remove
      /\ Ends(c, "deleted") => lists'[on[c]] = None
<1>1. ASSUME ListsInv, [Next]_vars, NEW c \in Calls PROVE Answer(c)
  <2>1. ASSUME NEW how, Ends(c, how) PROVE Step(c) /\ pc'[c] = how
    BY <1>1, <2>1, EndingSteps DEF Ends
  <2>2. QED
    BY <1>1, <2>1, EditAnswers, DeletedAnswers
<1>2. ListsInv /\ [Next]_vars => [\A c \in Calls : Answer(c)]_vars
  BY <1>1
<1>3. QED
  BY <1>2, Invariance, PTL DEF Spec, AnswerIsTrue

(* An edit that may not empty its list does not, unless it was spoilt.     *)
LEMMA EditKeepsList ==
  ASSUME ListsInv, NEW c \in Calls, Edits(c), ~deleting,
         on[c] \notin touched
  PROVE  lists'[on[c]] # None
<1>1. /\ TypeOK /\ pc[c] = "change" /\ WorkOf(c) /\ KeptOf(c)
      /\ on[c] \in Ids /\ on[c] \in Of(req[c].kind)
  BY KeptByCall, OfIds DEF Edits, ListsInv, KeptInv, WorkInv, OpInv, OpOf, Inside
<1>2. CASE Renamed(on[c], req[c].name)
  <2>1. lists' \in States /\ lists[on[c]] \in List
    BY <1>1, <1>2, RenamedTypes, WorkTypes, TypedRequests, TypedLists DEF Renamed
  <2>2. [lists[on[c]] EXCEPT !.name = IF req[c].name = None THEN @ ELSE req[c].name] \in List
    BY <1>1, <2>1, WorkTypes, TypedRequests DEF List
  <2>3. QED
    BY <1>1, <1>2, <2>2, ListsAssumption DEF Renamed, Put, TypeOK, States
<1>3. ASSUME NEW some \in SUBSET Add(c), Added(on[c], some) PROVE lists'[on[c]] # None
  <2>1. lists[on[c]] \in List /\ some \subseteq Entries
    BY <1>1, <1>3, TypedLists, WorkTypes DEF Added
  <2>2. [lists[on[c]] EXCEPT !.entries = @ \cup some] \in List
    BY <2>1 DEF List
  <2>3. QED
    BY <1>1, <1>3, <2>2, ListsAssumption DEF Added, Put, TypeOK, States
<1>4. ASSUME NEW some \in SUBSET Remove(c), Removed(on[c], some), Remove(c) # {},
             Add(c) = {} \/ "add" \in done[c]
      PROVE  lists'[on[c]] # None
  <2>1. lists[on[c]] # None /\ lists[on[c]] \in List
    BY <1>1, <1>4, TypedLists DEF Removed
  <2>2. lists[on[c]].entries = seen[c] \cup Add(c)
    BY <1>1, <1>4, <2>1 DEF KeptOf, Unspoilt, Told
  <2>3. req[c].kind = "collection" \/ (seen[c] \cup Add(c)) \ Remove(c) # {}
    BY <1>1, <1>4 DEF WorkOf, MayEmpty
  <2>4. on[c] \notin Playlists \/ lists[on[c]].entries \ some # {}
    BY <1>1, <1>4, <2>2, <2>3, ListsAssumption DEF Of
  <2>5. [lists[on[c]] EXCEPT !.entries = @ \ some] \in List
        /\ [lists[on[c]] EXCEPT !.entries = @ \ some].entries = lists[on[c]].entries \ some
    BY <2>1 DEF List
  <2>6. QED
    BY <1>1, <1>4, <2>4, <2>5, ListsAssumption DEF Removed, Put, TypeOK, States
<1>5. QED
  BY <1>2, <1>3, <1>4 DEF Edits

(* Without the delete tools no call takes a list away: an edit that would  *)
(* leave its playlist empty is refused before anything is sent, and no     *)
(* other call shortens the list between that look and the removal          *)
(* (playlists.go: "emptying one is a delete").                             *)
THEOREM NothingGoes == Spec => NothingIsEmptied
<1> DEFINE Kept == ~deleting => \A i \in Ids : lists[i] # None /\ lists'[i] = None => i \in touched'
<1>1. ASSUME ListsInv, NEW c \in Calls, Step(c), ~deleting, NEW i \in Ids,
             lists[i] # None, lists'[i] = None
      PROVE  i \in touched'
  <2>1. TypeOK /\ OpInv /\ BornInv /\ touched' = touched
    BY <1>1, StepMoves DEF ListsInv
  <2>2. CASE Nothing
    BY <1>1, <2>2 DEF Nothing
  <2>3. CASE Edits(c)
    BY <1>1, <2>1, <2>3, EditChanges, EditKeepsList
  <2>4. CASE Makes(c)
    BY <1>1, <2>1, <2>4, MakeChanges DEF BornInv
  <2>5. CASE Renames(c)
    <3>1. on[c] \in Ids /\ Renamed(on[c], want[c])
      BY <2>1, <2>5 DEF Renames, OpInv, OpOf
    <3>2. lists[on[c]] \in List
      BY <2>1, <3>1, TypedLists DEF Renamed
    <3>3. [lists[on[c]] EXCEPT !.name = IF want[c] = None THEN @ ELSE want[c]] \in List
      BY <2>1, <3>2, WorkTypes DEF List
    <3>4. lists'[on[c]] # None
      BY <2>1, <3>1, <3>3, ListsAssumption DEF Renamed, Put, TypeOK, States
    <3>5. QED
      BY <1>1, <2>1, <3>1, <3>4, RenameChanges
  <2>6. CASE Deletes(c)
    BY <1>1, <2>1, <2>6 DEF Deletes, OpInv, OpOf
  <2>7. QED
    BY <1>1, <2>1, <2>2, <2>3, <2>4, <2>5, <2>6, StepEffect
<1>2. ASSUME ListsInv, NEW j \in Ids, WebChange(j), NEW i \in Ids,
             lists[i] # None, lists'[i] = None
      PROVE  i \in touched'
  <2>1. TypeOK /\ touched' = touched \cup {j}
    BY <1>2 DEF ListsInv, WebChange
  <2>2. lists' = [lists EXCEPT ![j] = lists'[j]]
    BY <1>2, <2>1 DEF WebChange, Renamed, Added, Removed, Put, TypeOK, States
  <2>3. i = j
    BY <1>2, <2>1, <2>2 DEF TypeOK, States
  <2>4. QED
    BY <2>1, <2>3
<1>3. ListsInv /\ [Next]_vars => [Kept]_vars
  <2>1. SUFFICES ASSUME ListsInv, Next, ~deleting, NEW i \in Ids,
                        lists[i] # None, lists'[i] = None
                 PROVE  i \in touched'
    OBVIOUS
  <2>2. QED
    BY <1>1, <1>2, <2>1 DEF Next
<1>4. QED
  BY <1>3, Invariance, PTL DEF Spec, NothingIsEmptied

(* A name a call gives is the one it was to give, and is no other list's.  *)
LEMMA GivingSteps ==
  ASSUME ListsInv, NEW c \in Calls, Step(c), NEW i \in Ids, Gives(c, i), ~Unsought(c),
         NEW j \in stood[c] \ {i}
  PROVE  lists[j].name # lists'[i].name
<1>1. TypeOK /\ OpInv /\ BornInv /\ WorkOf(c) /\ NameOf(c)
  BY DEF ListsInv, WorkInv, NameInv
<1>2. lists'[i] # None /\ (lists[i] # None => lists'[i].name # lists[i].name)
  BY DEF Gives
<1>3. CASE Nothing
  BY <1>2, <1>3 DEF Nothing
<1>4. CASE Edits(c)
  <2>1. i = on[c] /\ lists[i] # None
    BY <1>1, <1>2, <1>4, EditChanges
  <2>2. Renamed(i, req[c].name)
    BY <1>1, <1>2, <1>4, <2>1, AddChanges, RemoveChanges DEF Edits
  <2>3. req[c].name # None /\ lists'[i].name = req[c].name
    BY <1>1, <1>2, <2>1, <2>2, RenameChanges
  <2>4. QED
    BY <1>1, <1>4, <2>1, <2>3 DEF Edits, WorkOf, Inside, NameOf, Giving, Others
<1>5. CASE Makes(c)
  <2>1. PICK l \in List : /\ Make(c, l)
                         /\ l.name = IF pc[c] = "create" THEN want[c] ELSE lists[on[c]].name
    BY <1>5 DEF Makes
  <2>2. lists'[i] = l
    BY <1>1, <1>2, <2>1, OfIds DEF Make, TypeOK, States
  <2>3. l.name = want[c]
    BY <1>5, <2>1 DEF Makes, Unsought
  <2>4. QED
    BY <1>1, <1>5, <2>2, <2>3 DEF Makes, NameOf, Giving, Others
<1>6. CASE Renames(c)
  <2>1. on[c] \in Ids /\ pc[c] = "rename" /\ Renamed(on[c], want[c])
    BY <1>1, <1>6 DEF Renames, OpInv, OpOf
  <2>2. i = on[c] /\ lists'[i].name = want[c]
    BY <1>1, <1>2, <2>1, RenameChanges
  <2>3. QED
    BY <1>1, <2>1, <2>2 DEF NameOf, Giving, Others
<1>7. CASE Deletes(c)
  BY <1>1, <1>2, <1>7 DEF Deletes, Put, TypeOK, States, OpInv, OpOf
<1>8. QED
  BY <1>1, <1>3, <1>4, <1>5, <1>6, <1>7, StepEffect

(* A name that another list has borne ever since a call began is not given *)
(* by it, but for a copy's first name where it is to be called otherwise:  *)
(* the listing each call looks in shows that list, though nothing is held  *)
(* between the look and the request that gives the name (collections.go:   *)
(* "a collection named ... already exists").                               *)
THEOREM StandingNamesStay == Spec => TakenNameIsRefused
<1> DEFINE Refused == \A c \in Calls, i \in Ids :
       Gives(c, i) /\ ~Unsought(c) =>
         \A j \in stood[c] \ {i} : lists[j].name # lists'[i].name
<1>1. ASSUME ListsInv, [Next]_vars, NEW c \in Calls, NEW i \in Ids, Gives(c, i), ~Unsought(c)
      PROVE  \A j \in stood[c] \ {i} : lists[j].name # lists'[i].name
  <2>1. Step(c)
    BY <1>1, EndingSteps DEF Gives
  <2>2. QED
    BY <1>1, <2>1, GivingSteps
<1>2. ListsInv /\ [Next]_vars => [Refused]_vars
  BY <1>1
<1>3. QED
  BY <1>2, Invariance, PTL DEF Spec, TakenNameIsRefused
=============================================================================
