--------------------------- MODULE BookmarkProofs ---------------------------
(***************************************************************************)
(* BookmarkEdits for every set of calls, items, positions and requests: no *)
(* bookmark is lost to another call, and none is left on an item           *)
(* item_delete took away.                                                  *)
(***************************************************************************)
EXTENDS BookmarkEdits, TLAPS

(***************************************************************************)
(* The inductive invariant behind NoBookmarkLost and NoOrphans, and with   *)
(* AnswerInv behind AnswerIsTrue.                                          *)
(***************************************************************************)
(* A call is where its step says with the locks, and holds what its        *)
(* request needs: there is never more than one inside.                     *)
PlaceInv ==
  \A c \in Calls :
    /\ pc[c] \in Ended \cup {"idle"}   => place[c] = "out"
    /\ pc[c] = "asked"                => place[c] = "asked"
    /\ pc[c] \in Inside               => place[c] = "in"
    /\ pc[c] \in Inside \cup {"asked"} => asks[c] = Holds(req[c])

(* What is left of a request is part of it, and what was sent to the server*)
(* is the first of what is left.                                           *)
WorkOf(c) ==
  /\ pc[c] \in {"add", "rename", "creating", "renaming"} => req[c].kind = "edit"
  /\ pc[c] \in {"rename", "creating", "renaming"} => adds[c] # <<>>
  /\ pc[c] \in {"creating", "renaming"} => at[c] = Head(adds[c]).time
  /\ pc[c] \in {"remove", "removing"} => req[c].kind # "preview"
  /\ pc[c] = "removing" => at[c] \in off[c]
  /\ req[c].kind = "edit" =>
       /\ off[c] \subseteq req[c].remove
       /\ \A n \in DOMAIN adds[c] :
            \E m \in DOMAIN req[c].add : req[c].add[m] = adds[c][n]

WorkInv == \A c \in Calls : WorkOf(c)

(* The list the server works on is the account's, but for what the web app *)
(* changed.                                                                *)
LoadedInv ==
  \A c \in Calls : pc[c] \in AtServer =>
    \A s \in Slots \ touched : loaded[c][s] = marks[s]

(* What a delete has still to take off its item is all that is on it.      *)
ToClearInv ==
  \A c \in Calls : pc[c] \in {"remove", "removing"} /\ req[c].kind = "delete" =>
    \A t \in Times : <<req[c].item, t>> \in touched \/ t \in off[c]
                       \/ marks[<<req[c].item, t>>] = None

(* What a call says it changed is so, and what changed since it read the   *)
(* bookmarks it says, but for a create that failed and may have landed.    *)
AnswerOf(c) ==
  /\ pc[c] \in {"idle", "asked", "held"} => told[c] = {}
  /\ pc[c] = "rename" => at[c] = Head(adds[c]).time
  /\ pc[c] \in Inside \ {"held"} =>
       \A s \in Slots \ touched :
         /\ Says(c, s) => AskedOf(req[c], s, marks[s])
         /\ \/ marks[s] = seen[c][s]
            \/ Says(c, s)
            \/ pc[c] \in {"rename", "renaming"} /\ s = Slot(c)

AnswerInv == \A c \in Calls : AnswerOf(c)

BookmarkInv ==
  /\ TypeOK
  /\ Locks!Exclusion
  /\ PlaceInv
  /\ WorkInv
  /\ LoadedInv
  /\ ToClearInv
  /\ gone \cap exists = {}
  /\ NoOrphans

-----------------------------------------------------------------------------
LEMMA TypedRequests ==
  ASSUME NEW r \in TurnRequests
  PROVE  /\ r \in Request
         /\ r.item \in Items /\ r.remove \subseteq Times /\ r.add \in Seq(Additions)
         /\ Holds(r) \in Locks!Requests
  BY BookmarkAssumption DEF Request, Holds, Locks!Requests, Records

LEMMA TypedCalls ==
  ASSUME TypeOK, NEW c \in Calls
  PROVE  /\ req[c] \in TurnRequests
         /\ Slot(c) \in Slots
         /\ \A t \in Times : <<req[c].item, t>> \in Slots
  BY TypedRequests DEF TypeOK, Slot, Slots

(* The first of the additions left, and the rest.                          *)
LEMMA FirstAddition ==
  ASSUME TypeOK, NEW c \in Calls, adds[c] # <<>>
  PROVE  /\ Head(adds[c]) \in Additions
         /\ Head(adds[c]) = adds[c][1] /\ 1 \in DOMAIN adds[c]
         /\ Tail(adds[c]) \in Seq(Additions)
         /\ \A n \in DOMAIN Tail(adds[c]) :
              n + 1 \in DOMAIN adds[c] /\ Tail(adds[c])[n] = adds[c][n + 1]
  BY DEF TypeOK

LEMMA FinishTypes ==
  ASSUME TypeOK, NEW c \in Calls, NEW how \in Ended, Finish(c, how)
  PROVE  pc' \in [Calls -> Steps] /\ Locks!TypeOK'
  BY DEF TypeOK, Finish, Go, Steps, Locks!TypeOK, Locks!Gone, Locks!Requests

LEMMA SendTypes ==
  ASSUME TypeOK, NEW c \in Calls, NEW t \in Times, NEW step \in Steps,
         Send(c, t, step)
  PROVE  TypeOK'
  BY DEF TypeOK, Send, Go, Locks!TypeOK, locks, server, work, web

(* What is saved is a list, changed in the one slot.                       *)
LEMMA SaveTypes ==
  ASSUME TypeOK, WorkInv, NEW c \in Calls, pc[c] \in AtServer, Save(c)
  PROVE  /\ marks' \in Lists
         /\ marks'[Slot(c)] = Title(c)
         /\ \A s \in Slots \ {Slot(c)} : marks'[s] = loaded[c][s]
<1>1. Title(c) \in Titles \cup {None}
  <2>1. CASE pc[c] = "removing"
    BY <2>1 DEF Title
  <2>2. CASE pc[c] \in {"creating", "renaming"}
    BY <2>2, FirstAddition DEF Title, WorkInv, WorkOf, Additions
  <2>3. QED
    BY <2>1, <2>2 DEF AtServer
<1>2. loaded[c] \in Lists
  BY DEF TypeOK
<1>3. QED
  BY <1>1, <1>2, TypedCalls DEF Save, Lists

LEMMA StartTypes ==
  ASSUME TypeOK, NEW c \in Calls, Start(c)
  PROVE  TypeOK'
  BY TypedCalls, TypedRequests
  DEF Start, Go, TypeOK, Steps, Locks!TypeOK, Locks!Ask, server, sent, work, web

LEMMA StepTypes ==
  ASSUME TypeOK, WorkInv, NEW c \in Calls, Step(c)
  PROVE  TypeOK'
<1>0. USE DEF TypeOK, Steps, Ended, Inside, AtServer, server, sent, work, web, locks, Go
<1>1. CASE Enter(c)
  BY <1>1 DEF Enter, Locks!Enter, Locks!TypeOK
<1>2. CASE ReadToEdit(c)
  BY <1>2, TypedCalls, TypedRequests DEF ReadToEdit, Locks!TypeOK
<1>3. CASE ReadToDelete(c)
  BY <1>3 DEF ReadToDelete, Locks!TypeOK
<1>4. CASE Preview(c) \/ GiveUp(c) \/ ReadBackFails(c)
             \/ AllAdded(c) \/ DeleteFails(c)
  BY <1>4, FinishTypes DEF Preview, GiveUp, ReadBackFails, AllAdded,
     DeleteFails
<1>5. CASE SendRemove(c)
  BY <1>5, SendTypes DEF SendRemove
<1>6. CASE SendCreate(c)
  BY <1>6, SendTypes, FirstAddition DEF SendCreate, Additions
<1>7. CASE SendRename(c)
  BY <1>7, SendTypes, FirstAddition DEF SendRename, Additions
<1>8. CASE Removed(c)
  BY <1>8, SaveTypes DEF Removed, Locks!TypeOK
<1>9. CASE SaveFails(c)
  BY <1>9, SaveTypes, FinishTypes DEF SaveFails, FailedSave
<1>10. CASE ReadBack(c)
  BY <1>10 DEF ReadBack, Locks!TypeOK
<1>11. CASE FoundStillThere(c)
  BY <1>11, FinishTypes DEF FoundStillThere
<1>12. CASE Added(c)
  <2>1. adds[c] # <<>>
    BY <1>12 DEF Added, WorkInv, WorkOf
  <2>2. adds' \in [Calls -> Seq(Additions)]
    BY <1>12, <2>1, FirstAddition DEF Added
  <2>3. marks' \in Lists
    BY <1>12, SaveTypes DEF Added
  <2>4. QED
    BY <1>12, <2>2, <2>3 DEF Added, Locks!TypeOK
<1>13. CASE CreateFails(c)
  BY <1>13, SaveTypes DEF CreateFails, FailedSave, Locks!TypeOK
<1>14. CASE Delete(c)
  BY <1>14, FinishTypes, TypedCalls, TypedRequests DEF Delete
<1>15. QED
  BY <1>1, <1>2, <1>3, <1>4, <1>5, <1>6, <1>7, <1>8, <1>9, <1>10, <1>11, <1>12,
     <1>13, <1>14 DEF Step
-----------------------------------------------------------------------------
(* Step(c) moves c alone: into its locks, on inside them, or out.          *)
Moves(c) ==
  \/ /\ pc[c] = "asked"
     /\ Locks!Enter(c)
     /\ Go(c, "held")
  \/ /\ pc[c] \in Inside
     /\ UNCHANGED locks
     /\ \E step \in Inside : Go(c, step)
  \/ /\ pc[c] \in Inside
     /\ Locks!Gone(c)
     /\ \E how \in Ended : Go(c, how)

LEMMA StepMoves ==
  ASSUME NEW c \in Calls, Step(c)
  PROVE  Moves(c) /\ req' = req
<1>0. USE DEF Moves, Inside, AtServer, Ended, Finish
<1>1. CASE Enter(c)
  BY <1>1 DEF Enter
<1>2. CASE ReadToEdit(c) \/ ReadToDelete(c) \/ ReadBack(c) \/ CreateFails(c)
             \/ Removed(c) \/ Added(c)
  BY <1>2 DEF ReadToEdit, ReadToDelete, ReadBack, AllRemoved, CreateFails, Removed,
     Added
<1>3. CASE SendRemove(c) \/ SendCreate(c) \/ SendRename(c)
  BY <1>3 DEF SendRemove, SendCreate, SendRename, Send
<1>4. CASE Preview(c) \/ GiveUp(c) \/ AllAdded(c)
  BY <1>4 DEF Preview, GiveUp, AllAdded
<1>5. CASE SaveFails(c) \/ ReadBackFails(c) \/ FoundStillThere(c)
  BY <1>5 DEF SaveFails, ReadBackFails, FoundStillThere, AllRemoved
<1>6. CASE Delete(c) \/ DeleteFails(c)
  BY <1>6 DEF Delete, DeleteFails
<1>7. QED
  BY <1>1, <1>2, <1>3, <1>4, <1>5, <1>6 DEF Step

(* What the others work from, Step(c) leaves alone.                        *)
LEMMA StepFrame ==
  ASSUME TypeOK, NEW c \in Calls, Step(c), NEW d \in Calls, d # c
  PROVE  /\ pc'[d] = pc[d] /\ place'[d] = place[d] /\ asks'[d] = asks[d]
         /\ loaded'[d] = loaded[d] /\ at'[d] = at[d]
         /\ off'[d] = off[d] /\ adds'[d] = adds[d]
<1>1. pc'[d] = pc[d] /\ place'[d] = place[d] /\ asks'[d] = asks[d]
  <2>1. Moves(c)
    BY StepMoves
  <2>2. \E step : pc' = [pc EXCEPT ![c] = step]
    BY <2>1 DEF Moves, Go
  <2>3. Locks!Enter(c) \/ Locks!Gone(c) \/ UNCHANGED locks
    BY <2>1 DEF Moves
  <2>4. place'[d] = place[d] /\ asks'[d] = asks[d]
    BY <2>3 DEF TypeOK, Locks!TypeOK, Locks!Enter, Locks!Gone, locks
  <2>5. QED
    BY <2>2, <2>4 DEF TypeOK
<1>2. loaded'[d] = loaded[d] /\ at'[d] = at[d]
  BY DEF TypeOK, Step, sent, Enter, ReadToEdit, ReadToDelete, Preview,
     GiveUp, SendRemove, Removed, SaveFails, ReadBack, ReadBackFails,
     FoundStillThere, SendCreate, SendRename, Send, Added, CreateFails,      AllAdded, Delete, DeleteFails
<1>3. off'[d] = off[d] /\ adds'[d] = adds[d]
  BY DEF TypeOK, Step, work, Enter, ReadToEdit, ReadToDelete, Preview,
     GiveUp, SendRemove, Removed, SaveFails, ReadBack, ReadBackFails,
     FoundStillThere, SendCreate, SendRename, Send, Added, CreateFails,      AllAdded, Delete, DeleteFails
<1>4. QED
  BY <1>1, <1>2, <1>3

LEMMA StepPlaces ==
  ASSUME TypeOK, PlaceInv, Locks!Exclusion, NEW c \in Calls, Step(c)
  PROVE  PlaceInv' /\ Locks!Exclusion'
<1>0. Moves(c) /\ req' = req
  BY StepMoves
<1>1. CASE pc[c] = "asked" /\ Locks!Enter(c) /\ Go(c, "held")
  <2>1. PlaceInv'
    BY <1>0, <1>1
    DEF PlaceInv, Go, TypeOK, Locks!TypeOK, Locks!Enter, Inside, AtServer, Ended
  <2>2. Locks!Exclusion'
    BY <1>1
    DEF Locks!Exclusion, TypeOK, Locks!TypeOK, Locks!Enter, Locks!MayEnter,
        Locks!Conflict
  <2>3. QED
    BY <2>1, <2>2
<1>2. ASSUME pc[c] \in Inside, UNCHANGED locks, NEW step \in Inside, Go(c, step)
      PROVE  PlaceInv' /\ Locks!Exclusion'
  BY <1>0, <1>2
  DEF PlaceInv, Go, TypeOK, locks, Inside, AtServer, Ended, Locks!Exclusion
<1>3. ASSUME pc[c] \in Inside, Locks!Gone(c), NEW how \in Ended, Go(c, how)
      PROVE  PlaceInv' /\ Locks!Exclusion'
  BY <1>0, <1>3
  DEF PlaceInv, Go, TypeOK, Locks!TypeOK, Locks!Gone, Inside, AtServer, Ended,
      Locks!Exclusion
<1>4. QED
  BY <1>0, <1>1, <1>2, <1>3 DEF Moves

LEMMA StartPlaces ==
  ASSUME TypeOK, PlaceInv, Locks!Exclusion, NEW c \in Calls, Start(c)
  PROVE  PlaceInv' /\ Locks!Exclusion'
  BY DEF Start, Go, PlaceInv, TypeOK, Locks!TypeOK, Locks!Exclusion, Locks!Ask,
         Inside, AtServer, Ended

(* Every call holds the bookmarks, so one call is inside at a time.        *)
LEMMA InsideAlone ==
  ASSUME PlaceInv, Locks!Exclusion, NEW c \in Calls, NEW d \in Calls,
         pc[c] \in Inside, pc[d] \in Inside
  PROVE  c = d
<1>1. /\ place[c] = "in" /\ Bookmarks \in asks[c]
      /\ place[d] = "in" /\ Bookmarks \in asks[d]
  BY DEF PlaceInv, Holds
<1>2. QED
  BY <1>1 DEF Locks!Exclusion, Locks!Conflict

(* A step that changes a bookmark or an item is of a call inside.          *)
LEMMA OthersAreOutside ==
  ASSUME TypeOK, PlaceInv, Locks!Exclusion, NEW c \in Calls, Step(c),
         pc[c] \in Inside, NEW d \in Calls, d # c
  PROVE  pc'[d] = pc[d] /\ pc[d] \notin Inside
  BY StepFrame, InsideAlone
-----------------------------------------------------------------------------
(* Removing the first addition leaves the rest of those asked for.         *)
LEMMA StepWork ==
  ASSUME TypeOK, WorkInv, PlaceInv, NEW c \in Calls, Step(c)
  PROVE  WorkInv'
<1>1. req' = req
  BY StepMoves
<1>2. ASSUME NEW d \in Calls, d # c PROVE WorkOf(d)'
  <2>1. /\ pc'[d] = pc[d] /\ at'[d] = at[d]
        /\ off'[d] = off[d] /\ adds'[d] = adds[d]
    BY <1>2, StepFrame
  <2>2. WorkOf(d)
    BY DEF WorkInv
  <2>3. QED
    BY <1>1, <2>1, <2>2 DEF WorkOf
<1>0. USE DEF TypeOK, Go, sent, work, AtServer
<1>3. SUFFICES WorkOf(c)'
  BY <1>2 DEF WorkInv
<1>4. CASE ReadToEdit(c)
  BY <1>1, <1>4 DEF ReadToEdit, WorkOf
<1>5. CASE ReadToDelete(c)
  BY <1>1, <1>5 DEF ReadToDelete, WorkInv, WorkOf
<1>6. CASE SendRemove(c)
  <2>1. PICK t \in off[c] : Send(c, t, "removing")
    BY <1>6 DEF SendRemove
  <2>2. /\ pc'[c] = "removing" /\ at'[c] = t
        /\ off' = off /\ adds' = adds
    BY <2>1 DEF Send
  <2>3. WorkOf(c) /\ pc[c] = "remove"
    BY <1>6 DEF SendRemove, WorkInv
  <2>4. QED
    BY <1>1, <2>2, <2>3 DEF WorkOf
<1>7. CASE SendCreate(c) \/ SendRename(c)
  BY <1>1, <1>7 DEF SendCreate, SendRename, Send, WorkInv, WorkOf
<1>8. CASE Removed(c)
  BY <1>1, <1>8 DEF Removed, WorkInv, WorkOf
<1>9. CASE Added(c)
  <2>1. adds[c] # <<>> /\ adds'[c] = Tail(adds[c]) /\ off' = off /\ pc'[c] = "add"
    BY <1>1, <1>9 DEF Added, WorkInv, WorkOf
  <2>2. req[c].kind = "edit"
    BY <1>1, <1>9 DEF Added, WorkInv, WorkOf
  <2>3. ASSUME NEW n \in DOMAIN adds'[c]
        PROVE  \E m \in DOMAIN req[c].add : req[c].add[m] = adds'[c][n]
    <3>1. n + 1 \in DOMAIN adds[c] /\ adds'[c][n] = adds[c][n + 1]
      BY <2>1, FirstAddition
    <3>2. QED
      BY <2>2, <3>1 DEF WorkInv, WorkOf
  <2>4. off[c] \subseteq req[c].remove
    BY <2>2 DEF WorkInv, WorkOf
  <2>5. QED
    BY <1>1, <2>1, <2>2, <2>3, <2>4 DEF WorkOf
<1>10. CASE ReadBack(c)
  <2>1. WorkOf(c)
    BY DEF WorkInv
  <2>2. /\ pc'[c] = "add" /\ req[c].kind = "edit"
        /\ off'[c] = off[c] /\ adds'[c] = adds[c]
    BY <1>10 DEF ReadBack, AllRemoved
  <2>3. QED
    BY <1>1, <2>1, <2>2 DEF WorkOf
<1>11. CASE CreateFails(c)
  BY <1>1, <1>11 DEF CreateFails, WorkInv, WorkOf
<1>12. ASSUME UNCHANGED <<off, adds>>, pc'[c] \in Ended \cup {"held"} PROVE WorkOf(c)'
  <2>1. WorkOf(c)
    BY DEF WorkInv
  <2>2. pc'[c] \notin {"add", "rename", "creating", "renaming", "remove", "removing"}
    BY <1>12 DEF Ended
  <2>3. off'[c] = off[c] /\ adds'[c] = adds[c]
    BY <1>12
  <2>4. QED
    BY <1>1, <2>1, <2>2, <2>3 DEF WorkOf
<1>13. CASE Enter(c) \/ Preview(c) \/ GiveUp(c) \/ SaveFails(c)
  BY <1>12, <1>13
  DEF Enter, Preview, GiveUp, SaveFails, Finish, Ended
<1>14. CASE ReadBackFails(c) \/ FoundStillThere(c) \/ AllAdded(c)
              \/ Delete(c) \/ DeleteFails(c)
  BY <1>12, <1>14
  DEF ReadBackFails, FoundStillThere, AllAdded, Delete, DeleteFails,
      Finish, Ended
<1>15. QED
  BY <1>4, <1>5, <1>6, <1>7, <1>8, <1>9, <1>10, <1>11, <1>13, <1>14 DEF Step

(* The steps that change a bookmark save the request that is out.          *)
LEMMA ChangesAreSaves ==
  ASSUME NEW c \in Calls, Step(c), marks' # marks
  PROVE  /\ pc[c] \in AtServer /\ Save(c) /\ exists' = exists /\ gone' = gone
         /\ touched' = touched
  BY DEF Step, AtServer, server, web, FailedSave, Enter, ReadToEdit,
     ReadToDelete, Preview, GiveUp, SendRemove, Removed, SaveFails, ReadBack,
     ReadBackFails, FoundStillThere, SendCreate, SendRename, Send, Added, CreateFails,
     AllAdded, Delete, DeleteFails

LEMMA WebUntouched ==
  ASSUME NEW c \in Calls, Step(c) \/ Start(c)
  PROVE  touched' = touched /\ budget' = budget
  BY DEF Step, web, Start, Enter, ReadToEdit,
     ReadToDelete, Preview, GiveUp, SendRemove, Removed, SaveFails, ReadBack,
     ReadBackFails, FoundStillThere, SendCreate, SendRename, Send, Added, CreateFails,
     AllAdded, Delete, DeleteFails

(* What a save makes of the bookmark it is about is what was asked.        *)
LEMMA SaveIsAsked ==
  ASSUME BookmarkInv, NEW c \in Calls, pc[c] \in AtServer, Save(c)
  PROVE  AskedOf(req[c], Slot(c), marks'[Slot(c)])
<1>1. TypeOK /\ WorkInv
  BY DEF BookmarkInv
<1>2. marks'[Slot(c)] = Title(c)
  BY <1>1, SaveTypes
<1>3. Slot(c)[1] = req[c].item /\ Slot(c)[2] = at[c]
  BY DEF Slot
<1>4. CASE pc[c] = "removing"
  <2>1. Title(c) = None /\ at[c] \in off[c] /\ req[c].kind # "preview"
    BY <1>1, <1>4 DEF Title, WorkInv, WorkOf
  <2>2. req[c].kind \in {"edit", "delete", "preview"}
    BY <1>1, TypedCalls, TypedRequests DEF Request
  <2>3. req[c].kind = "edit" => at[c] \in req[c].remove
    BY <1>1, <2>1 DEF WorkInv, WorkOf
  <2>4. QED
    BY <1>2, <1>3, <2>1, <2>2, <2>3 DEF AskedOf
<1>5. CASE pc[c] \in {"creating", "renaming"}
  <2>1. /\ adds[c] # <<>> /\ at[c] = Head(adds[c]).time
        /\ Title(c) = Head(adds[c]).title /\ req[c].kind = "edit"
    BY <1>1, <1>5 DEF Title, WorkInv, WorkOf
  <2>2. /\ Head(adds[c]) \in Additions
        /\ Head(adds[c]) = adds[c][1] /\ 1 \in DOMAIN adds[c]
    BY <1>1, <2>1, FirstAddition
  <2>3. \E m \in DOMAIN req[c].add : req[c].add[m] = Head(adds[c])
    BY <1>1, <2>1, <2>2 DEF WorkInv, WorkOf
  <2>4. Head(adds[c]) = [time |-> at[c], title |-> Title(c)]
    BY <2>1, <2>2 DEF Additions
  <2>5. QED
    BY <1>2, <1>3, <2>3, <2>4 DEF AskedOf
<1>6. QED
  BY <1>4, <1>5 DEF AtServer

(* Of the bookmarks the web app left alone it changes no other.            *)
LEMMA SaveKeepsOthers ==
  ASSUME BookmarkInv, NEW c \in Calls, pc[c] \in AtServer, Save(c),
         NEW s \in Slots \ touched, s # Slot(c)
  PROVE  marks'[s] = marks[s]
  BY SaveTypes DEF BookmarkInv, LoadedInv

LEMMA SavesChangeOne ==
  ASSUME BookmarkInv, NEW c \in Calls, Step(c),
         NEW s \in Slots \ touched, marks'[s] # marks[s]
  PROVE  /\ pc[c] \in AtServer
         /\ s = Slot(c)
         /\ req[c].item \in exists
         /\ AskedOf(req[c], s, marks'[s])
  BY ChangesAreSaves, SaveIsAsked, SaveKeepsOthers DEF Save, Serves
-----------------------------------------------------------------------------
(* A list the server has loaded is not changed under its hands.            *)
LEMMA StepLoaded ==
  ASSUME BookmarkInv, NEW c \in Calls, Step(c)
  PROVE  LoadedInv'
<1>1. TypeOK /\ PlaceInv /\ Locks!Exclusion /\ LoadedInv
  BY DEF BookmarkInv
<1>2. touched' = touched
  BY WebUntouched
<1>3. ASSUME NEW d \in Calls, pc'[d] \in AtServer, d # c, NEW s \in Slots \ touched
      PROVE  loaded'[d][s] = marks'[s]
  <2>1. pc'[d] = pc[d] /\ loaded'[d] = loaded[d]
    BY <1>1, <1>3, StepFrame
  <2>2. pc[c] \notin Inside
    BY <1>1, <1>3, <2>1, InsideAlone DEF Inside
  <2>3. marks' = marks
    BY <2>2, ChangesAreSaves DEF Inside
  <2>4. QED
    BY <1>1, <1>3, <2>1, <2>3 DEF LoadedInv
<1>4. ASSUME pc'[c] \in AtServer PROVE loaded'[c] = marks' /\ marks' = marks
  <2>1. CASE SendRemove(c) \/ SendCreate(c) \/ SendRename(c)
    BY <1>1, <2>1 DEF SendRemove, SendCreate, SendRename, Send, server, TypeOK
  <2>2. CASE Enter(c) \/ ReadToEdit(c) \/ ReadToDelete(c) \/ ReadBack(c)
              \/ CreateFails(c) \/ Removed(c) \/ Added(c)
    BY <1>1, <1>4, <2>2
    DEF Enter, ReadToEdit, ReadToDelete, ReadBack, CreateFails, Removed, Added, Go,
        TypeOK, AtServer
  <2>3. CASE Preview(c) \/ GiveUp(c) \/ AllAdded(c)
              \/ SaveFails(c) \/ ReadBackFails(c)
              \/ FoundStillThere(c) \/ Delete(c) \/ DeleteFails(c)
    BY <1>1, <1>4, <2>3
    DEF Preview, GiveUp, AllAdded, SaveFails,
        ReadBackFails, FoundStillThere, Delete, DeleteFails, Finish, Go, TypeOK,
        AtServer, Ended
  <2>4. QED
    BY <2>1, <2>2, <2>3 DEF Step
<1>5. QED
  BY <1>2, <1>3, <1>4 DEF LoadedInv

(* Nothing is put on an item while a delete of it clears it, and nothing   *)
(* on an item that is gone.                                                *)
LEMMA StepClears ==
  ASSUME BookmarkInv, NEW c \in Calls, Step(c)
  PROVE  ToClearInv'
<1>1. TypeOK /\ PlaceInv /\ Locks!Exclusion /\ LoadedInv /\ ToClearInv /\ WorkInv
  BY DEF BookmarkInv
<1>2. touched' = touched /\ req' = req
  BY WebUntouched, StepMoves
<1>3. SUFFICES ASSUME NEW d \in Calls, pc'[d] \in {"remove", "removing"},
                      req[d].kind = "delete", NEW t \in Times,
                      <<req[d].item, t>> \notin touched,
                      marks'[<<req[d].item, t>>] # None
               PROVE  t \in off'[d]
  BY <1>2 DEF ToClearInv
<1>4. <<req[d].item, t>> \in Slots \ touched
  BY <1>1, <1>3, TypedCalls
<1>5. CASE d # c
  <2>1. pc'[d] = pc[d] /\ off'[d] = off[d]
    BY <1>1, <1>5, StepFrame
  <2>2. pc[c] \notin Inside
    BY <1>1, <1>3, <1>5, <2>1, InsideAlone DEF Inside, AtServer
  <2>3. marks' = marks
    BY <2>2, ChangesAreSaves DEF Inside
  <2>4. QED
    BY <1>1, <1>3, <2>1, <2>3 DEF ToClearInv
<1>6. CASE d = c
  <2>1. CASE ReadToDelete(c)
    BY <1>1, <1>3, <1>6, <2>1 DEF ReadToDelete, server, TypeOK
  <2>2. CASE SendRemove(c)
    <3>1. pc[c] = "remove" /\ UNCHANGED <<marks, off>>
      BY <2>2 DEF SendRemove, Send, server, work
    <3>2. QED
      BY <1>1, <1>3, <1>6, <3>1 DEF ToClearInv
  <2>3. CASE Removed(c)
    <3>1. /\ pc[c] = "removing" /\ Save(c)
          /\ off'[c] = off[c] \ {at[c]}
      BY <1>1, <2>3 DEF Removed, TypeOK
    <3>2. t # at[c]
      BY <1>1, <1>3, <1>6, <3>1, SaveTypes DEF AtServer, Slot, Title
    <3>3. marks'[<<req[d].item, t>>] = marks[<<req[d].item, t>>]
      BY <1>1, <1>4, <1>6, <3>1, <3>2, SaveTypes DEF LoadedInv, AtServer, Slot
    <3>4. t \in off[c]
      BY <1>1, <1>3, <1>6, <3>1, <3>3 DEF ToClearInv
    <3>5. QED
      BY <1>6, <3>1, <3>2, <3>4
  <2>4. CASE Enter(c) \/ ReadToEdit(c) \/ ReadBack(c) \/ CreateFails(c) \/ Added(c)
              \/ SendCreate(c) \/ SendRename(c)
    BY <1>1, <1>3, <1>6, <2>4
    DEF Enter, ReadToEdit, ReadBack, CreateFails, Added, SendCreate, SendRename,
        Send, Go, TypeOK
  <2>5. CASE Preview(c) \/ GiveUp(c) \/ AllAdded(c)
              \/ SaveFails(c) \/ ReadBackFails(c)
              \/ FoundStillThere(c) \/ Delete(c) \/ DeleteFails(c)
    BY <1>1, <1>3, <1>6, <2>5
    DEF Preview, GiveUp, AllAdded, SaveFails,
        ReadBackFails, FoundStillThere, Delete, DeleteFails, Finish, Go, TypeOK,
        Ended
  <2>6. QED
    BY <2>1, <2>2, <2>3, <2>4, <2>5 DEF Step
<1>7. QED
  BY <1>5, <1>6

(* An item goes once nothing is on it, and stays away.                     *)
LEMMA StepOrphans ==
  ASSUME BookmarkInv, NEW c \in Calls, Step(c)
  PROVE  gone' \cap exists' = {} /\ NoOrphans'
<1>1. TypeOK /\ NoOrphans /\ gone \cap exists = {} /\ touched' = touched
  BY WebUntouched DEF BookmarkInv
<1>2. CASE Delete(c)
  <2>1. /\ pc[c] = "remove" /\ req[c].kind = "delete" /\ off[c] = {}
        /\ exists' = exists \ {req[c].item} /\ gone' = gone \cup {req[c].item}
        /\ marks' = marks
    BY <1>2 DEF Delete
  <2>2. \A t \in Times : <<req[c].item, t>> \in touched
                           \/ marks[<<req[c].item, t>>] = None
    BY <2>1 DEF BookmarkInv, ToClearInv
  <2>3. \A s \in Slots : s[1] = req[c].item =>
          \E t \in Times : s = <<req[c].item, t>>
    BY DEF Slots
  <2>4. QED
    BY <1>1, <2>1, <2>2, <2>3 DEF NoOrphans
<1>3. CASE ~Delete(c)
  <2>1. gone' = gone /\ exists' = exists
    BY <1>3
    DEF Step, server, Enter, ReadToEdit, ReadToDelete, Preview, GiveUp,
        SendRemove, Removed, SaveFails, ReadBack, ReadBackFails, FoundStillThere,
        SendCreate, SendRename, Send, Added, CreateFails, AllAdded,
        DeleteFails
  <2>2. ASSUME NEW s \in Slots \ touched, s[1] \in gone PROVE marks'[s] = None
    <3>1. marks[s] = None
      BY <1>1, <2>2 DEF NoOrphans
    <3>2. ASSUME marks'[s] # marks[s] PROVE FALSE
      <4>1. s = Slot(c) /\ req[c].item \in exists
        BY <3>2, SavesChangeOne
      <4>2. QED
        BY <1>1, <2>2, <4>1 DEF Slot
    <3>3. QED
      BY <3>1, <3>2
  <2>3. QED
    BY <1>1, <2>1, <2>2 DEF NoOrphans
<1>4. QED
  BY <1>2, <1>3
-----------------------------------------------------------------------------
LEMMA StepKeeps ==
  ASSUME BookmarkInv, NEW c \in Calls, Step(c)
  PROVE  BookmarkInv'
  BY StepTypes, StepPlaces, StepWork, StepLoaded, StepClears, StepOrphans
  DEF BookmarkInv

LEMMA StartKeeps ==
  ASSUME BookmarkInv, NEW c \in Calls, Start(c)
  PROVE  BookmarkInv'
<1>1. TypeOK' /\ PlaceInv' /\ Locks!Exclusion'
  BY StartTypes, StartPlaces DEF BookmarkInv
<1>2. /\ UNCHANGED <<server, req, sent, work, web>>
      /\ pc'[c] = "asked"
      /\ \A d \in Calls : d # c => pc'[d] = pc[d]
  BY DEF Start, Go, BookmarkInv, TypeOK
<1>3. WorkInv'
  BY <1>2 DEF BookmarkInv, WorkInv, WorkOf, sent, work
<1>4. LoadedInv' /\ ToClearInv' /\ (gone \cap exists = {})' /\ NoOrphans'
  BY <1>2
  DEF BookmarkInv, LoadedInv, ToClearInv, NoOrphans, server, sent, work, web, AtServer
<1>5. QED
  BY <1>1, <1>3, <1>4 DEF BookmarkInv

(* The web app can spoil a loaded list, but not without being noticed.     *)
LEMMA WebKeeps ==
  ASSUME BookmarkInv,
         (\E s \in Slots : WebMark(s)) \/ (\E i \in Items : WebDelete(i))
  PROVE  BookmarkInv' /\ WebStep
<1>1. /\ UNCHANGED <<locks, gone, pc, req, sent, work, told>>
      /\ budget > 0 /\ budget' = budget - 1
      /\ exists' \subseteq exists /\ touched \subseteq touched'
  BY DEF WebMark, WebDelete
<1>2. TypeOK /\ budget \in Nat
  BY BookmarkAssumption DEF BookmarkInv, TypeOK
<1>3. WebStep /\ budget' \in 0..MaxOutside
  BY <1>1, <1>2, BookmarkAssumption DEF WebStep, TypeOK
<1>4. /\ marks' \in Lists /\ touched' \subseteq Slots
      /\ \A s \in Slots \ touched' : marks'[s] = marks[s]
  <2>1. CASE \E s \in Slots : WebMark(s)
    <3>1. PICK s \in Slots, title \in Titles \cup {None} :
            marks' = [marks EXCEPT ![s] = title] /\ touched' = touched \cup {s}
      BY <2>1 DEF WebMark
    <3>2. QED
      BY <1>2, <3>1 DEF TypeOK, Lists
  <2>2. CASE \E i \in Items : WebDelete(i)
    BY <1>2, <2>2 DEF WebDelete, TypeOK
  <2>3. QED
    BY <2>1, <2>2
<1>5. TypeOK'
  BY <1>1, <1>2, <1>3, <1>4 DEF TypeOK, locks, sent, work, Locks!TypeOK
<1>6. PlaceInv' /\ Locks!Exclusion'
  BY <1>1 DEF BookmarkInv, PlaceInv, Locks!Exclusion, locks
<1>7. WorkInv'
  BY <1>1 DEF BookmarkInv, WorkInv, WorkOf, sent, work
<1>8. LoadedInv' /\ NoOrphans' /\ gone' \cap exists' = {}
  BY <1>1, <1>4 DEF BookmarkInv, LoadedInv, NoOrphans, sent
<1>9. ToClearInv'
  BY <1>1, <1>2, <1>4, TypedCalls DEF BookmarkInv, ToClearInv, work
<1>10. QED
  BY <1>3, <1>5, <1>6, <1>7, <1>8, <1>9 DEF BookmarkInv

LEMMA InitHolds ==
  ASSUME Init
  PROVE  BookmarkInv
<1>1. Locks!TypeOK /\ Locks!Exclusion
  BY DEF Init, Locks!Init, Locks!TypeOK, Locks!Exclusion, Locks!Requests
<1>2. (CHOOSE t \in Times : TRUE) \in Times
  BY BookmarkAssumption
<1>3. NoMarks \in Lists
  BY DEF NoMarks, Lists
<1>4. TypeOK
  BY <1>1, <1>2, <1>3, BookmarkAssumption DEF Init, TypeOK, Steps
<1>5. PlaceInv /\ WorkInv
  BY DEF Init, Locks!Init, PlaceInv, WorkInv, WorkOf, Inside, AtServer, Ended
<1>6. LoadedInv /\ ToClearInv /\ NoOrphans /\ gone \cap exists = {}
  BY DEF Init, LoadedInv, ToClearInv, NoOrphans, AtServer
<1>7. QED
  BY <1>1, <1>4, <1>5, <1>6 DEF BookmarkInv

LEMMA StutterKeeps ==
  ASSUME BookmarkInv, UNCHANGED vars
  PROVE  BookmarkInv'
<1>0. USE DEF BookmarkInv, vars, locks, server, sent, work, web
<1>1. TypeOK' /\ Locks!Exclusion'
  BY DEF TypeOK, Locks!TypeOK, Locks!Exclusion
<1>2. PlaceInv' /\ WorkInv'
  BY DEF PlaceInv, WorkInv, WorkOf
<1>3. LoadedInv' /\ ToClearInv' /\ NoOrphans' /\ gone' \cap exists' = {}
  BY DEF LoadedInv, ToClearInv, NoOrphans
<1>4. QED
  BY <1>1, <1>2, <1>3

THEOREM Invariance == Spec => []BookmarkInv
<1>1. Init => BookmarkInv
  BY InitHolds
<1>2. BookmarkInv /\ [Next]_vars => BookmarkInv'
  BY StepKeeps, StartKeeps, WebKeeps, StutterKeeps DEF Next
<1>3. QED
  BY <1>1, <1>2, PTL DEF Spec

(* The variables keep their types.                                         *)
THEOREM TypeCorrect == Spec => []TypeOK
<1>1. BookmarkInv => TypeOK
  BY DEF BookmarkInv
<1>2. QED
  BY <1>1, Invariance, PTL

(* item_delete leaves no bookmark of the account on the item it took away, *)
(* whatever other calls do to the account's bookmarks meanwhile.           *)
THEOREM DeleteClears == Spec => []NoOrphans
<1>1. BookmarkInv => NoOrphans
  BY DEF BookmarkInv
<1>2. QED
  BY <1>1, Invariance, PTL

(* A bookmark changes only as the call that holds the bookmarks was asked, *)
(* or by the web app: no call takes another's with it.                     *)
THEOREM NoLostBookmark == Spec => NoBookmarkLost
<1>1. ASSUME BookmarkInv, [Next]_vars, NEW s \in Slots \ touched, marks'[s] # marks[s]
      PROVE  WebStep \/ \E c \in Calls : ChangedBy(c, s)
  <2>1. ASSUME NEW c \in Calls, Step(c) PROVE ChangedBy(c, s)
    <3>1. pc[c] \in Inside
      BY <1>1, <2>1, ChangesAreSaves DEF Inside
    <3>2. place[c] = "in" /\ Bookmarks \in asks[c]
      BY <1>1, <3>1 DEF BookmarkInv, PlaceInv, Holds
    <3>3. QED
      BY <1>1, <2>1, <3>2, SavesChangeOne DEF ChangedBy
  <2>2. CASE \E c \in Calls : Start(c)
    BY <1>1, <2>2 DEF Start, server
  <2>3. CASE (\E t \in Slots : WebMark(t)) \/ (\E i \in Items : WebDelete(i))
    BY <1>1, <2>3, WebKeeps
  <2>4. CASE UNCHANGED vars
    BY <1>1, <2>4 DEF vars, server
  <2>5. QED
    BY <1>1, <2>1, <2>2, <2>3, <2>4 DEF Next
<1>2. BookmarkInv /\ [Next]_vars =>
        [\A s \in Slots \ touched : marks'[s] # marks[s] =>
           WebStep \/ \E c \in Calls : ChangedBy(c, s)]_vars
  BY <1>1
<1>3. QED
  BY <1>2, Invariance, PTL DEF Spec, NoBookmarkLost
-----------------------------------------------------------------------------
LEMMA AnswerFrame ==
  ASSUME TypeOK, NEW c \in Calls, Step(c), NEW d \in Calls, d # c
  PROVE  told'[d] = told[d] /\ seen'[d] = seen[d]
  BY DEF TypeOK, Step, work, Enter, ReadToEdit, ReadToDelete, Preview,
     GiveUp, SendRemove, Removed, SaveFails, ReadBack, ReadBackFails,
     FoundStillThere, SendCreate, SendRename, Send, Added, CreateFails,      AllAdded, Delete, DeleteFails

(* A request that was served is added to the answer.                       *)
LEMMA ServedIsSaid ==
  ASSUME BookmarkInv, AnswerInv, NEW c \in Calls, pc[c] \in AtServer, Save(c),
         UNCHANGED <<req, seen, touched, at>>,
         told' = [told EXCEPT ![c] = @ \cup {at[c]}],
         pc'[c] \in {"remove", "add"}
  PROVE  AnswerOf(c)'
<1>1. TypeOK /\ AnswerOf(c) /\ pc[c] \in Inside \ {"held"}
  BY DEF BookmarkInv, AnswerInv, Inside, AtServer
<1>2. told'[c] = told[c] \cup {at[c]}
  BY <1>1 DEF TypeOK
<1>3. ASSUME NEW s \in Slots \ touched
      PROVE  /\ Says(c, s)' => AskedOf(req[c], s, marks'[s])
             /\ marks'[s] = seen[c][s] \/ Says(c, s)'
  <2>1. CASE s = Slot(c)
    <3>1. Says(c, s)'
      BY <1>2, <2>1 DEF Says, Slot
    <3>2. QED
      BY <2>1, <3>1, SaveIsAsked
  <2>2. CASE s # Slot(c)
    <3>1. marks'[s] = marks[s]
      BY <2>2, SaveKeepsOthers
    <3>2. Says(c, s)' <=> Says(c, s)
      BY <1>2, <2>2 DEF Says, Slot, Slots
    <3>3. QED
      BY <1>1, <2>2, <3>1, <3>2 DEF AnswerOf
  <2>3. QED
    BY <2>1, <2>2
<1>4. QED
  BY <1>3 DEF AnswerOf

LEMMA OwnAnswer ==
  ASSUME BookmarkInv, AnswerInv, NEW c \in Calls, Step(c)
  PROVE  AnswerOf(c)'
<1>1. TypeOK /\ AnswerOf(c) /\ WorkOf(c)
  BY DEF BookmarkInv, AnswerInv, WorkInv
<1>2. req' = req /\ touched' = touched
  BY StepMoves, WebUntouched
<1>3. CASE Enter(c)
  BY <1>1, <1>3 DEF Enter, Go, TypeOK, AnswerOf
<1>4. CASE ReadToEdit(c) \/ ReadToDelete(c)
  <2>1. /\ pc'[c] = "remove" /\ seen'[c] = marks /\ marks' = marks /\ told' = told
        /\ told[c] = {}
    BY <1>1, <1>4 DEF ReadToEdit, ReadToDelete, Go, TypeOK, server, AnswerOf
  <2>2. QED
    BY <2>1 DEF AnswerOf, Says
<1>5. CASE SendRemove(c) \/ SendCreate(c) \/ SendRename(c)
  <2>1. /\ pc[c] \in {"remove", "add", "rename"}
        /\ pc'[c] \in AtServer
        /\ pc[c] = "rename" => pc'[c] = "renaming" /\ at'[c] = Head(adds[c]).time
        /\ UNCHANGED <<marks, seen, told>>
    BY <1>1, <1>5
    DEF SendRemove, SendCreate, SendRename, Send, Go, TypeOK, server, work, AtServer
  <2>2. ASSUME NEW s \in Slots \ touched
        PROVE  /\ Says(c, s)' => AskedOf(req[c], s, marks'[s])
               /\ \/ marks'[s] = seen'[c][s]
                  \/ Says(c, s)'
                  \/ pc'[c] \in {"rename", "renaming"} /\ s = Slot(c)'
    BY <1>1, <1>2, <2>1 DEF AnswerOf, Says, Slot, Inside
  <2>3. pc'[c] \notin {"idle", "asked", "held", "rename"}
    BY <2>1 DEF AtServer
  <2>4. QED
    BY <1>2, <2>2, <2>3 DEF AnswerOf
<1>6. CASE Removed(c)
  BY <1>1, <1>2, <1>6, ServedIsSaid DEF Removed, Go, TypeOK, sent, AtServer
<1>7. CASE Added(c)
  BY <1>1, <1>2, <1>7, ServedIsSaid DEF Added, Go, TypeOK, sent, AtServer
<1>8. CASE ReadBack(c)
  <2>1. pc[c] = "remove" /\ pc'[c] = "add" /\ UNCHANGED <<marks, seen, told>>
    BY <1>1, <1>8 DEF ReadBack, AllRemoved, Go, TypeOK, server, work
  <2>2. QED
    BY <1>1, <1>2, <2>1 DEF AnswerOf, Says, Inside
<1>9. CASE CreateFails(c)
  <2>1. /\ pc[c] = "creating" /\ pc'[c] = "rename" /\ FailedSave(c)
        /\ UNCHANGED <<seen, told, at, adds>> /\ at[c] = Head(adds[c]).time
    BY <1>1, <1>9 DEF CreateFails, Go, TypeOK, sent, work, WorkOf
  <2>2. ASSUME NEW s \in Slots \ touched
        PROVE  /\ Says(c, s)' => AskedOf(req[c], s, marks'[s])
               /\ marks'[s] = seen'[c][s] \/ Says(c, s)' \/ s = Slot(c)'
    <3>1. /\ Says(c, s)' <=> Says(c, s)
          /\ Slot(c)' = Slot(c)
      BY <1>2, <2>1 DEF Says, Slot
    <3>2. \/ marks'[s] = marks[s]
          \/ s = Slot(c) /\ AskedOf(req[c], s, marks'[s])
      BY <2>1, SaveIsAsked, SaveKeepsOthers DEF FailedSave, AtServer
    <3>3. /\ Says(c, s) => AskedOf(req[c], s, marks[s])
          /\ marks[s] = seen[c][s] \/ Says(c, s)
      BY <1>1, <2>1 DEF AnswerOf, Inside, AtServer
    <3>4. QED
      BY <2>1, <3>1, <3>2, <3>3
  <2>3. QED
    BY <1>2, <2>1, <2>2 DEF AnswerOf
<1>10. ASSUME pc'[c] \in Ended PROVE AnswerOf(c)'
  BY <1>10 DEF AnswerOf, Ended, Inside, AtServer
<1>11. CASE Preview(c) \/ GiveUp(c) \/ AllAdded(c)
               \/ SaveFails(c) \/ ReadBackFails(c)
               \/ FoundStillThere(c) \/ Delete(c) \/ DeleteFails(c)
  BY <1>1, <1>10, <1>11
  DEF Preview, GiveUp, AllAdded, SaveFails,
      ReadBackFails, FoundStillThere, Delete, DeleteFails, Finish, Go, TypeOK, Ended
<1>12. QED
  BY <1>3, <1>4, <1>5, <1>6, <1>7, <1>8, <1>9, <1>11 DEF Step

LEMMA StepAnswers ==
  ASSUME BookmarkInv, AnswerInv, NEW c \in Calls, Step(c)
  PROVE  AnswerInv'
<1>1. ASSUME NEW d \in Calls, d # c PROVE AnswerOf(d)'
  <2>1. /\ pc'[d] = pc[d] /\ at'[d] = at[d] /\ adds'[d] = adds[d]
        /\ told'[d] = told[d] /\ seen'[d] = seen[d]
        /\ req' = req /\ touched' = touched
    BY <1>1, StepFrame, AnswerFrame, StepMoves, WebUntouched DEF BookmarkInv
  <2>2. pc[d] \in Inside => marks' = marks
    BY <1>1, InsideAlone, ChangesAreSaves DEF BookmarkInv, Inside
  <2>3. AnswerOf(d)
    BY DEF AnswerInv
  <2>4. QED
    BY <2>1, <2>2, <2>3 DEF AnswerOf, Says, Slot
<1>2. QED
  BY <1>1, OwnAnswer DEF AnswerInv

LEMMA StartAnswers ==
  ASSUME TypeOK, AnswerInv, NEW c \in Calls, Start(c)
  PROVE  AnswerInv'
<1>1. /\ pc[c] = "idle" /\ pc'[c] = "asked"
      /\ \A d \in Calls : d # c => pc'[d] = pc[d]
      /\ UNCHANGED <<marks, req, at, adds, told, seen, touched>>
  BY DEF Start, Go, TypeOK, server, sent, work, web
<1>2. ASSUME NEW d \in Calls, AnswerOf(d) PROVE AnswerOf(d)'
  BY <1>1, <1>2 DEF AnswerOf, Says, Slot, Inside, AtServer
<1>3. QED
  BY <1>2 DEF AnswerInv

LEMMA WebAnswers ==
  ASSUME TypeOK, AnswerInv,
         (\E s \in Slots : WebMark(s)) \/ (\E i \in Items : WebDelete(i))
  PROVE  AnswerInv'
<1>1. /\ UNCHANGED <<pc, req, at, adds, told, seen>>
      /\ touched \subseteq touched'
      /\ \A s \in Slots \ touched' : marks'[s] = marks[s]
  BY DEF WebMark, WebDelete, sent, work, TypeOK, Lists
<1>2. ASSUME NEW d \in Calls, AnswerOf(d) PROVE AnswerOf(d)'
  BY <1>1, <1>2 DEF AnswerOf, Says, Slot
<1>3. QED
  BY <1>2 DEF AnswerInv

THEOREM AnswersInvariant == Spec => []AnswerInv
<1>1. Init => AnswerInv
  BY DEF Init, AnswerInv, AnswerOf, Inside, AtServer
<1>2. BookmarkInv /\ AnswerInv /\ [Next]_vars => AnswerInv'
  <2>1. ASSUME AnswerInv, UNCHANGED vars PROVE AnswerInv'
    BY <2>1
    DEF vars, server, sent, work, web, AnswerInv, AnswerOf, Says, Slot
  <2>2. QED
    BY <2>1, StepAnswers, StartAnswers, WebAnswers DEF Next, BookmarkInv
<1>3. QED
  BY <1>1, <1>2, Invariance, PTL DEF Spec

(* What a call says it changed is so, and what it changed it says, but for *)
(* the request that failed, and the removals of one found still there.     *)
THEOREM AnswersAreTrue == Spec => AnswerIsTrue
<1>1. ASSUME BookmarkInv, AnswerInv, [Next]_vars, NEW c \in Calls, Ends(c)
      PROVE  AnswerIsSo(c) /\ (told'[c] = told[c] => AnswerCovers(c))
  <2>1. TypeOK /\ AnswerOf(c) /\ pc[c] \in Inside \ {"held"} /\ pc'[c] \in Ended
    BY <1>1 DEF BookmarkInv, AnswerInv, Ends
  <2>2. pc'[c] # pc[c]
    BY <2>1 DEF Inside, AtServer, Ended
  <2>3. PICK d \in Calls : Start(d) \/ Step(d)
    BY <1>1, <2>2 DEF Next, vars, WebMark, WebDelete
  <2>4. ~Start(d)
    BY <2>1, <2>2 DEF Start, Go, TypeOK, Inside, AtServer, Ended
  <2>5. Step(c)
    BY <2>1, <2>2, <2>3, <2>4, StepFrame
  <2>6. req' = req /\ (told'[c] = {} \/ told'[c] = told[c]) /\ pc[c] # "rename"
    BY <2>1, <2>5
    DEF Step, Enter, ReadToEdit, ReadToDelete, Preview, GiveUp,
        SendRemove, Removed, SaveFails, ReadBack, ReadBackFails, FoundStillThere,
        SendCreate, SendRename, Send, Added, CreateFails, AllAdded,
        Delete, DeleteFails, AllRemoved, Finish, Go, TypeOK, Inside, AtServer, Ended
  <2>7. ASSUME NEW s \in Slots \ touched
        PROVE  /\ Says(c, s)' => AskedOf(req[c], s, marks'[s])
               /\ told'[c] = told[c] /\ marks'[s] # seen[c][s]
                    => Says(c, s)' \/ Failed(c, s)
    <3>1. Says(c, s)' => Says(c, s)
      BY <2>6 DEF Says
    <3>2. told'[c] = told[c] => (Says(c, s)' <=> Says(c, s))
      BY <2>6 DEF Says
    <3>3. \/ marks'[s] = marks[s]
          \/ Failed(c, s) /\ AskedOf(req[c], s, marks'[s])
      BY <1>1, <2>5, SavesChangeOne DEF Failed
    <3>4. /\ Says(c, s) => AskedOf(req[c], s, marks[s])
          /\ marks[s] = seen[c][s] \/ Says(c, s) \/ Failed(c, s)
      BY <2>1, <2>6 DEF AnswerOf, Failed, AtServer
    <3>5. QED
      BY <3>1, <3>2, <3>3, <3>4
  <2>8. QED
    BY <2>7 DEF AnswerIsSo, AnswerCovers
<1>2. BookmarkInv /\ AnswerInv /\ [Next]_vars =>
        [\A c \in Calls : Ends(c) =>
           AnswerIsSo(c) /\ (told'[c] = told[c] => AnswerCovers(c))]_vars
  BY <1>1
<1>3. QED
  BY <1>2, Invariance, AnswersInvariant, PTL DEF Spec, AnswerIsTrue
=============================================================================
