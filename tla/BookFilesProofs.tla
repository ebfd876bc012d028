--------------------------- MODULE BookFilesProofs ---------------------------
(***************************************************************************)
(* BookFiles for every set of calls, tracks and ebooks, and every order of *)
(* the tracks: what its calls answer of the book's files is so.            *)
(***************************************************************************)
EXTENDS BookFiles, SequenceTheorems, TLAPS

(***************************************************************************)
(* The inductive invariant behind them.                                    *)
(***************************************************************************)
Merging == {"start", "waiting", "settling", "reading"}
Editing == {"change", "flipped"}
Erasing == {"erase", "look"}

(* A call is with the lock of the book where its step says, and at a step  *)
(* of what it was asked.                                                   *)
PlaceInv ==
  \A c \in Calls :
    /\ pc[c] \in Inside => place[c] = "in" /\ asks[c] = {Book}
    /\ pc[c] = "asked"  => place[c] = "asked" /\ asks[c] = {Book}
    /\ pc[c] \notin Inside \cup {"asked"} => place[c] = "out"

OpInv ==
  \A c \in Calls :
    /\ pc[c] \in Merging => req[c].op = "merge"
    /\ pc[c] \in Editing => req[c].op = "edit"
    /\ pc[c] \in Erasing => req[c].op = "file"
    /\ pc[c] \in {"asked", "held"} => req[c].op \in {"merge", "edit", "file"}
    /\ pc[c] = "set" => req[c].op \in {"fit", "chapters"}

(* The m4b is on disk while the book plays it or the watcher holds it, and *)
(* the files have the tags a scan found in them.                           *)
DiskInv ==
  /\ watched \/ plays = <<M4b>> => M4b \in folder
  /\ known => tagged

(* While one call waits for a merge no other starts one; what a merge began*)
(* with is neither its m4b nor nothing, and once it is read back either the*)
(* m4b was not made or that is what plays.                                 *)
EncodeInv ==
  /\ encoding # <<>> =>
       \E d \in Calls : req[d].op = "merge" /\ pc[d] \in {"waiting", "gaveup", "failed"}
  /\ \A c \in Calls :
       /\ pc[c] \in Merging => seen[c].plays \notin {<<>>, <<M4b>>}
       /\ pc[c] \in {"settling", "reading"} => encoding = <<>>
       /\ pc[c] = "reading" /\ M4b \in folder => plays \in {<<>>, <<M4b>>}

(* An edit does the steps it planned, in their order, and the book is as it*)
(* planned or as its own steps have made it.                               *)
Playing(c) == IF "tracks" \in done[c] THEN req[c].order ELSE seen[c].plays

EditInv ==
  \A c \in Calls :
    /\ pc[c] \in {"idle", "asked", "held"} => done[c] = {}
    /\ pc[c] \in Editing =>
         /\ seen[c].plays \in Orders
         /\ ToSet(seen[c].plays) = ToSet(req[c].order)
         /\ done[c] \subseteq Asked(c)
         /\ ~touched /\ M4b \notin folder => plays = Playing(c)
    /\ pc[c] = "change" => "ebook" \notin done[c] /\ (~touched => main = seen[c].main)
    /\ pc[c] = "flipped" => Asked(c) \subseteq done[c]

EraseInv ==
  \A c \in Calls : pc[c] = "look" => req[c].ebook \notin library

(* As long as nothing has disturbed the book its chapters are in the order *)
(* of its tracks, but between the two steps of an edit.                    *)
Undisturbed ==
  /\ ~touched /\ M4b \notin folder
  /\ \A c \in Calls :
       /\ pc[c] # "failed"
       /\ req[c].op \in {"fit", "chapters"} => pc[c] \in {"idle", "set", "refused"}

ChaptersInv ==
  Undisturbed =>
    /\ \A c \in Calls : pc[c] \in Editing =>
         /\ seen[c].chapters = seen[c].plays
         /\ chapters = IF "chapters" \in done[c] THEN req[c].order ELSE seen[c].plays
    /\ (\A c \in Calls : pc[c] \notin Editing) => chapters = plays

FilesInv ==
  /\ TypeOK /\ Locks!Exclusion /\ PlaceInv /\ OpInv
  /\ DiskInv /\ EncodeInv
  /\ EditInv /\ EraseInv /\ ChaptersInv

-----------------------------------------------------------------------------
(* UNCHANGED names the variables by the tuples they are in.                *)
USE DEF locks, record, disk, tags, work, web

(* A play order is a sequence of tracks that names none of them twice; the *)
(* m4b is none.                                                            *)
LEMMA OrderIsSeq ==
  ASSUME NEW o \in Orders
  PROVE  /\ o \in Seq(Tracks) /\ IsInjective(o)
         /\ Len(o) \in 0..Len(FirstOrder) /\ DOMAIN o = 1..Len(o)
         /\ o \in [1..Len(o) -> Tracks]
         /\ ToSet(o) \subseteq Tracks
         /\ o # <<M4b>>
         /\ ToSet(o) = {} => o = <<>>
<1>1. Len(FirstOrder) \in Nat
  BY FilesAssumption, LenProperties
<1>2. PICK m \in 0..Len(FirstOrder) : o \in [1..m -> Tracks]
  BY DEF Orders, SeqOf
<1>3. o \in Seq(Tracks) /\ Len(o) = m
  BY <1>1, <1>2, SeqDef
<1>4. DOMAIN o = 1..Len(o) /\ Len(o) \in 0..Len(FirstOrder) /\ o \in [1..Len(o) -> Tracks]
  BY <1>2, <1>3
<1>5. ToSet(o) \subseteq Tracks
  BY <1>2 DEF ToSet
<1>6. o # <<M4b>>
  <2>1. CASE o = <<M4b>>
    <3>1. M4b \in ToSet(o)
      BY <2>1 DEF ToSet
    <3>2. QED
      BY <1>5, <3>1, FilesAssumption
  <2>2. QED
    BY <2>1
<1>7. ASSUME ToSet(o) = {} PROVE o = <<>>
  <2>1. \A n \in 1..Len(o) : o[n] \in ToSet(o)
    BY <1>4 DEF ToSet
  <2>2. Len(o) = 0
    BY <1>1, <1>4, <1>7, <2>1
  <2>3. QED
    BY <1>3, <2>2, EmptySeq
<1>8. QED
  BY <1>3, <1>4, <1>5, <1>6, <1>7 DEF Orders

LEMMA SomeOrders ==
  <<>> \in Orders /\ FirstOrder \in Orders
<1>1. Len(FirstOrder) \in Nat /\ FirstOrder \in [1..Len(FirstOrder) -> Tracks]
  BY FilesAssumption, LenProperties
<1>2. <<>> \in [1..0 -> Tracks]
  OBVIOUS
<1>3. <<>> \in SeqOf(Tracks, Len(FirstOrder)) /\ FirstOrder \in SeqOf(Tracks, Len(FirstOrder))
  BY <1>1, <1>2 DEF SeqOf
<1>4. IsInjective(<<>>)
  BY DEF IsInjective
<1>5. QED
  BY <1>3, <1>4, FilesAssumption DEF Orders

(* An order of a single track is no other than that track's.               *)
LEMMA OneTrack ==
  ASSUME NEW o \in Orders, NEW p \in Orders, Len(p) = 1, ToSet(o) = ToSet(p)
  PROVE  o = p
<1>1. ToSet(p) = {p[1]} /\ p \in Seq(Tracks)
  BY OrderIsSeq DEF ToSet
<1>2. \A n \in 1..Len(o) : o[n] = p[1]
  BY <1>1, OrderIsSeq DEF ToSet
<1>3. Len(o) \in Nat /\ DOMAIN o = 1..Len(o) /\ o \in Seq(Tracks)
  BY OrderIsSeq, FilesAssumption, LenProperties
<1>4. Len(o) # 0
  <2>1. CASE Len(o) = 0
    <3>1. ToSet(o) = {}
      BY <1>3, <2>1 DEF ToSet
    <3>2. QED
      BY <1>1, <3>1
  <2>2. QED
    BY <2>1
<1>5. ~(Len(o) >= 2)
  <2>1. CASE Len(o) >= 2
    <3>1. o[1] = o[2] /\ 1 \in DOMAIN o /\ 2 \in DOMAIN o
      BY <1>2, <1>3, <2>1
    <3>2. QED
      BY <3>1, OrderIsSeq DEF IsInjective
  <2>2. QED
    BY <2>1
<1>6. Len(o) = 1
  BY <1>3, <1>4, <1>5
<1>7. QED
  BY <1>1, <1>2, <1>3, <1>6, SeqEqual

(* What chaptersMoved makes of chapters cut along the tracks: each moves   *)
(* with its track, and none is lost.                                       *)
Moved(order, was, chaps) ==
  [n \in DOMAIN order |-> chaps[CHOOSE m \in DOMAIN was : was[m] = order[n]]]

LEMMA MovedTypes ==
  ASSUME NEW order \in Orders, NEW was \in Orders, NEW chaps \in Orders,
         ToSet(was) = ToSet(order), Len(chaps) = Len(was)
  PROVE  Moved(order, was, chaps) \in Orders
<1> DEFINE at(n) == CHOOSE m \in DOMAIN was : was[m] = order[n]
<1>1. \A n \in DOMAIN order : at(n) \in DOMAIN was /\ was[at(n)] = order[n]
  BY DEF ToSet
<1>2. /\ DOMAIN order = 1..Len(order) /\ Len(order) \in 0..Len(FirstOrder)
      /\ DOMAIN chaps = DOMAIN was /\ chaps \in [DOMAIN was -> Tracks]
      /\ IsInjective(order) /\ IsInjective(chaps)
  BY OrderIsSeq
<1>3. Moved(order, was, chaps) \in [1..Len(order) -> Tracks]
  BY <1>1, <1>2 DEF Moved
<1>4. IsInjective(Moved(order, was, chaps))
  <2>1. SUFFICES ASSUME NEW a \in DOMAIN order, NEW b \in DOMAIN order,
                        chaps[at(a)] = chaps[at(b)]
                 PROVE  a = b
    BY DEF IsInjective, Moved
  <2>2. at(a) = at(b)
    BY <1>1, <1>2, <2>1 DEF IsInjective
  <2>3. order[a] = order[b]
    BY <1>1, <2>2
  <2>4. QED
    BY <1>2, <2>3 DEF IsInjective
<1>5. Moved(order, was, chaps) \in SeqOf(Tracks, Len(FirstOrder))
  BY <1>2, <1>3 DEF SeqOf
<1>6. QED
  BY <1>4, <1>5 DEF Orders

(* Chapters in the order of the tracks are so afterwards.                  *)
LEMMA MovedAlong ==
  ASSUME NEW order \in Orders, NEW was, ToSet(was) = ToSet(order)
  PROVE  Moved(order, was, was) = order
<1>1. \A n \in DOMAIN order :
        was[CHOOSE m \in DOMAIN was : was[m] = order[n]] = order[n]
  BY DEF ToSet
<1>2. order = [n \in DOMAIN order |-> order[n]]
  BY OrderIsSeq
<1>3. QED
  BY <1>1, <1>2 DEF Moved
-----------------------------------------------------------------------------
(* A step of a call.                                                       *)
CallStep(c) == Works(c) \/ EditFails(c) \/ RequestFails(c)

LEMMA FinishTypes ==
  ASSUME TypeOK, NEW c \in Calls, NEW how \in Ended, Finish(c, how)
  PROVE  pc' \in [Calls -> Steps] /\ Locks!TypeOK'
  BY DEF TypeOK, Finish, Go, Steps, Locks!TypeOK, Locks!Gone, Locks!Requests

LEMMA ReorderedTypes ==
  ASSUME TypeOK, NEW c \in Calls, Reordered(c)
  PROVE  plays' \in Audio /\ UNCHANGED <<chapters, main, library>>
<1>1. req[c].order \in Orders
  BY FilesAssumption DEF TypeOK, Request
<1>2. QED
  BY <1>1 DEF Reordered, Audio

(* An edit moves chapters that are cut along the tracks and no others: one *)
(* that is not is no longer than a single track, which has no other order. *)
LEMMA ChaptersAreCut ==
  ASSUME TypeOK, EditInv, NEW c \in Calls, pc[c] \in Editing,
         Len(seen[c].chapters) = Len(seen[c].plays), req[c].order # seen[c].plays
  PROVE  /\ seen[c].chapters \in Orders
         /\ Moved(req[c].order, seen[c].plays, seen[c].chapters) \in Orders
<1>1. /\ seen[c].plays \in Orders /\ ToSet(seen[c].plays) = ToSet(req[c].order)
      /\ req[c].order \in Orders /\ seen[c].chapters \in Chapters
  BY FilesAssumption DEF EditInv, TypeOK, Seen, Request
<1>2. seen[c].chapters # <<New>>
  <2>1. CASE seen[c].chapters = <<New>>
    <3>1. Len(seen[c].plays) = 1
      BY <2>1
    <3>2. QED
      BY <1>1, <3>1, OneTrack
  <2>2. QED
    BY <2>1
<1>3. QED
  BY <1>1, <1>2, MovedTypes DEF Chapters

LEMMA MovedChapters ==
  ASSUME TypeOK, EditInv, NEW c \in Calls, Due(c, "chapters"), ChaptersMoved(c)
  PROVE  /\ chapters' = Moved(req[c].order, seen[c].plays, seen[c].chapters)
         /\ chapters' \in Orders
         /\ UNCHANGED <<plays, main, library>>
<1>1. chapters' = Moved(req[c].order, seen[c].plays, seen[c].chapters)
  BY DEF ChaptersMoved, Moved
<1>2. /\ Len(seen[c].chapters) = Len(seen[c].plays)
      /\ req[c].order # seen[c].plays
      /\ pc[c] \in Editing
  BY DEF Due, Asked, Editing
<1>3. QED
  BY <1>1, <1>2, ChaptersAreCut DEF ChaptersMoved

LEMMA FlipTypes ==
  ASSUME TypeOK, NEW file, Flips(file)
  PROVE  main' \in library' \cup {None} /\ UNCHANGED <<plays, chapters, library>>
  BY DEF Flips

LEMMA StepTypes ==
  ASSUME TypeOK, EditInv, NEW c \in Calls, CallStep(c)
  PROVE  TypeOK'
<1>0. USE DEF TypeOK, Go, See, Did
<1>1. Look \in Seen
  BY DEF Look, Seen
<1>2. CASE StartMerge(c) \/ StartHeld(c)
  BY <1>2 DEF StartMerge, StartHeld, Locks!Ask, Locks!TypeOK, Locks!Requests, Holds,
              Steps, Unheld
<1>3. CASE Enter(c)
  BY <1>3 DEF Enter, Locks!Enter, Locks!TypeOK, Steps, Inside
<1>4. CASE StartCancel(c) \/ WaitOver(c) \/ ScanAgain(c) \/ PlanErase(c)
  BY <1>4 DEF StartCancel, WaitOver, ScanAgain, Unsettled, PlanErase, Steps, Inside,
              Unheld, Locks!TypeOK
<1>18. CASE PlanMerge(c) \/ StartSet(c) \/ PlanEdit(c)
  <2>1. pc' \in [Calls -> Steps] /\ seen' = [seen EXCEPT ![c] = Look]
    BY <1>18 DEF PlanMerge, StartSet, PlanEdit, Steps, Inside, Unheld
  <2>2. seen' \in [Calls -> Seen]
    BY <1>1, <2>1
  <2>3. QED
    BY <1>18, <2>1, <2>2 DEF PlanMerge, StartSet, PlanEdit, Locks!TypeOK
<1>5. CASE SeenRunning(c) \/ Refuse(c) \/ GiveUpWaiting(c) \/ Merged(c)
             \/ Unmerged(c) \/ SettleEnds(c) \/ EditEnds(c) \/ RequestFails(c)
  BY <1>5, FinishTypes
  DEF SeenRunning, Refuse, GiveUpWaiting, Merged, Unmerged, SettleEnds, EditEnds,
      RequestFails, Ended
<1>6. CASE TagRead(c) \/ ReadEbook(c) \/ LookOnDisk(c)
  BY <1>6, FinishTypes DEF TagRead, ReadEbook, LookOnDisk, Ended
<1>7. CASE CancelEncode(c)
  BY <1>7, FinishTypes DEF CancelEncode, Ended, Audio
<1>8. CASE StartEncode(c)
  <2>1. pc' \in [Calls -> Steps] /\ Locks!TypeOK'
    BY <1>8, FinishTypes DEF StartEncode, Ended, Steps, Inside, Locks!TypeOK
  <2>2. QED
    BY <1>8, <2>1 DEF StartEncode, Encodes
<1>9. CASE ScanBack(c)
  <2>1. pc' \in [Calls -> Steps] /\ Locks!TypeOK' /\ plays' \in Audio
    BY <1>9 DEF ScanBack, Scanned, Audio, Steps, Inside, Unheld, Locks!TypeOK
  <2>2. QED
    BY <1>9, <2>1 DEF ScanBack
<1>10. CASE StartEmbed(c)
  BY <1>10 DEF StartEmbed, Steps, Ended, Unheld, Locks!TypeOK
<1>11. CASE Reorder(c)
  <2>1. pc' \in [Calls -> Steps] /\ Locks!TypeOK'
    BY <1>11, FinishTypes DEF Reorder, Ended, Locks!TypeOK
  <2>2. QED
    BY <1>11, <2>1, ReorderedTypes DEF Reorder
<1>12. CASE MoveChapters(c)
  BY <1>12, MovedChapters DEF MoveChapters, Chapters, Locks!TypeOK
<1>13. CASE FlipEbook(c)
  BY <1>13, FlipTypes DEF FlipEbook, Flip, Steps, Inside, Locks!TypeOK
<1>14. CASE EditFails(c)
  <2>1. pc' \in [Calls -> Steps] /\ Locks!TypeOK'
    BY <1>14, FinishTypes DEF EditFails, Ended
  <2>2. plays' \in Audio /\ chapters' \in Chapters /\ main' \in library' \cup {None}
        /\ library' = library
    BY <1>14, ReorderedTypes, MovedChapters, FlipTypes DEF EditFails, Flip, Chapters
  <2>3. QED
    BY <1>14, <2>1, <2>2 DEF EditFails
<1>15. CASE SetChapters(c)
  BY <1>15, FinishTypes DEF SetChapters, Ended, Seen, Chapters
<1>16. CASE Erase(c)
  <2>1. pc' \in [Calls -> Steps] /\ Locks!TypeOK'
    BY <1>16, FinishTypes DEF Erase, Ended, Steps, Inside, Locks!TypeOK
  <2>2. QED
    BY <1>16, <2>1 DEF Erase
<1>17. QED
  BY <1>2, <1>3, <1>4, <1>5, <1>6, <1>7, <1>8, <1>9, <1>10, <1>11, <1>12, <1>13,
     <1>14, <1>15, <1>16, <1>18
  DEF CallStep, Works
-----------------------------------------------------------------------------
(* A step moves its call alone: into the book's lock, on inside it, out of *)
(* it, or on without it.                                                   *)
Moves(c) ==
  \/ /\ pc[c] = "idle"
     /\ Locks!Ask(c, {Book})
     /\ pc' = [pc EXCEPT ![c] = "asked"]
  \/ /\ pc[c] = "asked"
     /\ Locks!Enter(c)
     /\ pc' = [pc EXCEPT ![c] = "held"]
  \/ /\ pc[c] \in Inside
     /\ UNCHANGED locks
     /\ \E step \in Inside : pc' = [pc EXCEPT ![c] = step]
  \/ /\ pc[c] \in Inside
     /\ Locks!Gone(c)
     /\ \E how \in Ended : pc' = [pc EXCEPT ![c] = how]
  \/ /\ pc[c] \in Unheld \ {"asked"}
     /\ UNCHANGED locks
     /\ \E step \in (Unheld \cup Ended) \ {"idle", "asked"} : pc' = [pc EXCEPT ![c] = step]

LEMMA FinishMoves ==
  ASSUME NEW c \in Calls, NEW how \in Ended, Finish(c, how),
         pc[c] \in (Inside \cup Unheld) \ {"asked"}
  PROVE  Moves(c)
  BY DEF Finish, Go, Moves, Inside, Unheld, Ended

LEMMA StepMoves ==
  ASSUME TypeOK, NEW c \in Calls, CallStep(c)
  PROVE  Moves(c) /\ UNCHANGED <<req, web>>
<1>0. USE DEF Go
<1>1. CASE StartMerge(c) \/ StartHeld(c) \/ Enter(c)
  BY <1>1 DEF StartMerge, StartHeld, Enter, Holds, Moves
<1>2. CASE StartCancel(c) \/ PlanMerge(c) \/ WaitOver(c) \/ ScanBack(c) \/ ScanAgain(c)
             \/ StartEmbed(c) \/ StartSet(c) \/ PlanErase(c) \/ PlanEdit(c) \/ FlipEbook(c)
  BY <1>2 DEF StartCancel, PlanMerge, WaitOver, ScanBack, ScanAgain, Unsettled, StartEmbed,
              StartSet, PlanErase, PlanEdit, FlipEbook, Due, Moves, Inside, Unheld, Ended
<1>3. CASE SeenRunning(c) \/ Refuse(c) \/ GiveUpWaiting(c) \/ Merged(c)
             \/ Unmerged(c) \/ SettleEnds(c) \/ EditEnds(c) \/ RequestFails(c)
  BY <1>3, FinishMoves
  DEF SeenRunning, Refuse, GiveUpWaiting, Merged, Unmerged, SettleEnds, Unsettled,
      EditEnds, RequestFails, Ended, Inside, Unheld
<1>4. CASE TagRead(c) \/ ReadEbook(c) \/ LookOnDisk(c) \/ CancelEncode(c) \/ EditFails(c)
             \/ SetChapters(c)
  BY <1>4, FinishMoves
  DEF TagRead, ReadEbook, LookOnDisk, CancelEncode, EditFails, Due, SetChapters, Ended,
      Inside, Unheld
<1>5. CASE StartEncode(c) \/ Erase(c)
  <2>1. CASE UNCHANGED locks /\ \E step \in Inside : pc' = [pc EXCEPT ![c] = step]
    BY <1>5, <2>1 DEF StartEncode, Erase, Moves, Inside
  <2>2. CASE \E how \in Ended : Finish(c, how)
    BY <1>5, <2>2, FinishMoves DEF StartEncode, Erase, Inside
  <2>3. QED
    BY <1>5, <2>1, <2>2 DEF StartEncode, Erase, Inside, Ended
<1>6. CASE Reorder(c) \/ MoveChapters(c)
  <2>1. CASE UNCHANGED <<locks, pc>>
    <3>1. pc[c] = "change" /\ pc' = [pc EXCEPT ![c] = "change"]
      BY <1>6, <2>1 DEF Reorder, MoveChapters, Due, TypeOK
    <3>2. QED
      BY <1>6, <2>1, <3>1 DEF Reorder, MoveChapters, Moves, Inside
  <2>2. CASE Finish(c, "failed")
    BY <1>6, <2>2, FinishMoves DEF Reorder, MoveChapters, Due, Inside, Ended
  <2>3. QED
    BY <1>6, <2>1, <2>2 DEF Reorder, MoveChapters
<1>7. QED
  BY <1>1, <1>2, <1>3, <1>4, <1>5, <1>6 DEF CallStep, Works

LEMMA StepLands ==
  ASSUME TypeOK, NEW c \in Calls, CallStep(c)
  PROVE  /\ pc[c] \notin Ended
         /\ pc'[c] \in Steps \ {"idle"}
         /\ pc' = [pc EXCEPT ![c] = pc'[c]]
         /\ pc'[c] \in {"asked", "held"} =>
              pc[c] \in {"idle", "asked"} \cup Inside
  BY StepMoves DEF Moves, TypeOK, Steps, Ended, Inside, Unheld

(* What the others work from, a step of c leaves alone.                    *)
LEMMA StepFrame ==
  ASSUME TypeOK, NEW c \in Calls, CallStep(c), NEW d \in Calls, d # c
  PROVE  /\ pc'[d] = pc[d] /\ place'[d] = place[d] /\ asks'[d] = asks[d]
         /\ seen'[d] = seen[d] /\ done'[d] = done[d] /\ req'[d] = req[d]
<1>1. pc'[d] = pc[d] /\ req'[d] = req[d]
  BY StepLands, StepMoves DEF TypeOK
<1>2. place'[d] = place[d] /\ asks'[d] = asks[d]
  BY StepMoves
  DEF Moves, TypeOK, Locks!TypeOK, Locks!Ask, Locks!Enter, Locks!Gone
<1>3. seen'[d] = seen[d] /\ done'[d] = done[d]
  <2>1. CASE PlanMerge(c) \/ PlanEdit(c) \/ StartSet(c)
    BY <2>1 DEF PlanMerge, PlanEdit, StartSet, See, TypeOK
  <2>2. CASE Reorder(c) \/ MoveChapters(c) \/ FlipEbook(c)
    BY <2>2 DEF Reorder, MoveChapters, FlipEbook, Did, TypeOK
  <2>3. CASE UNCHANGED work
    BY <2>3
  <2>4. QED
    BY <2>1, <2>2, <2>3
    DEF CallStep, Works, StartMerge, SeenRunning, StartCancel, CancelEncode, StartHeld,
        Enter, Refuse, StartEncode, WaitOver, GiveUpWaiting, ScanBack, Merged, Unmerged,
        ScanAgain, SettleEnds, StartEmbed, TagRead, ReadEbook, EditEnds, SetChapters,
        PlanErase, Erase, LookOnDisk, EditFails, RequestFails
<1>4. QED
  BY <1>1, <1>2, <1>3

LEMMA StepPlaces ==
  ASSUME TypeOK, PlaceInv, Locks!Exclusion, NEW c \in Calls, CallStep(c)
  PROVE  PlaceInv' /\ Locks!Exclusion'
<1>1. PlaceInv'
  <2>1. SUFFICES ASSUME NEW e \in Calls
                 PROVE  /\ pc'[e] \in Inside => place'[e] = "in" /\ asks'[e] = {Book}
                        /\ pc'[e] = "asked"  => place'[e] = "asked" /\ asks'[e] = {Book}
                        /\ pc'[e] \notin Inside \cup {"asked"} => place'[e] = "out"
    BY DEF PlaceInv
  <2>2. CASE e # c
    BY <2>2, StepFrame DEF PlaceInv
  <2>3. CASE e = c
    BY <2>3, StepMoves
    DEF PlaceInv, Moves, TypeOK, Locks!TypeOK, Locks!Ask, Locks!Enter, Locks!Gone,
        Inside, Unheld, Ended
  <2>4. QED
    BY <2>2, <2>3
<1>2. Locks!Exclusion'
  BY StepMoves
  DEF Moves, Locks!Exclusion, TypeOK, Locks!TypeOK, Locks!Ask, Locks!Enter, Locks!Gone,
      Locks!MayEnter, Locks!Conflict
<1>3. QED
  BY <1>1, <1>2

(* One call at a time has the book.                                        *)
LEMMA OneInside ==
  ASSUME PlaceInv, Locks!Exclusion, NEW c \in Calls, NEW d \in Calls,
         pc[c] \in Inside, pc[d] \in Inside
  PROVE  c = d
  BY DEF PlaceInv, Locks!Exclusion, Locks!Conflict

(* What a step of a call may do to the book, and from where.               *)
LEMMA StepEffects ==
  ASSUME FilesInv, NEW c \in Calls, CallStep(c)
  PROVE  /\ watched' = watched /\ tagged' = tagged /\ (known' => tagged')
         /\ M4b \in folder' <=> M4b \in folder
         /\ library' \subseteq library
         /\ main' # main => pc[c] \in {"change", "erase"}
         /\ \/ encoding' \in {encoding, <<>>}
            \/ pc[c] = "start" /\ pc'[c] \in {"waiting", "failed"}
         /\ \/ plays' \in {plays, Scanned}
            \/ Due(c, "tracks") /\ Reordered(c)
         /\ \/ chapters' = chapters
            \/ pc[c] = "set" /\ pc'[c] \in Ended
            \/ Due(c, "chapters") /\ ChaptersMoved(c)
<1>0. USE DEF FilesInv, TypeOK, Go
<1>1. CASE StartMerge(c) \/ StartHeld(c) \/ Enter(c) \/ StartCancel(c) \/ PlanMerge(c)
             \/ WaitOver(c) \/ ScanAgain(c) \/ StartSet(c) \/ PlanErase(c) \/ PlanEdit(c)
             \/ SeenRunning(c) \/ Refuse(c) \/ GiveUpWaiting(c)
  BY <1>1 DEF StartMerge, StartHeld, Enter, StartCancel, PlanMerge, WaitOver, ScanAgain,
              StartSet, PlanErase, PlanEdit, SeenRunning, Refuse, GiveUpWaiting, DiskInv
<1>2. CASE Merged(c) \/ Unmerged(c) \/ SettleEnds(c) \/ EditEnds(c) \/ RequestFails(c)
             \/ TagRead(c) \/ ReadEbook(c) \/ LookOnDisk(c) \/ CancelEncode(c)
             \/ StartEmbed(c)
  BY <1>2 DEF Merged, Unmerged, SettleEnds, EditEnds, RequestFails, TagRead, ReadEbook,
              LookOnDisk, CancelEncode, StartEmbed, DiskInv
<1>3. CASE StartEncode(c)
  BY <1>3 DEF StartEncode, Finish, DiskInv
<1>4. CASE ScanBack(c)
  BY <1>4 DEF ScanBack
<1>5. CASE Reorder(c) \/ MoveChapters(c) \/ EditFails(c)
  <2>1. Reordered(c) => UNCHANGED <<chapters, main, library>>
    BY DEF Reordered
  <2>2. ChaptersMoved(c) => UNCHANGED <<plays, main, library>>
    BY DEF ChaptersMoved
  <2>3. Flip(c) => UNCHANGED <<plays, chapters, library>>
    BY DEF Flip, Flips
  <2>4. \A step : Due(c, step) => pc[c] = "change"
    BY DEF Due
  <2>5. UNCHANGED <<disk, tags>>
    BY <1>5 DEF Reorder, MoveChapters, EditFails
  <2>6. \/ UNCHANGED record
        \/ Due(c, "tracks") /\ Reordered(c)
        \/ Due(c, "chapters") /\ ChaptersMoved(c)
        \/ Due(c, "ebook") /\ Flip(c)
    BY <1>5 DEF Reorder, MoveChapters, EditFails
  <2>7. QED
    BY <2>1, <2>2, <2>3, <2>4, <2>5, <2>6 DEF DiskInv
<1>6. CASE FlipEbook(c)
  BY <1>6 DEF FlipEbook, Flip, Flips, Due, DiskInv
<1>7. CASE SetChapters(c)
  BY <1>7 DEF SetChapters, Finish, Ended, DiskInv
<1>8. CASE Erase(c)
  <2>1. req[c].ebook # M4b
    BY <1>8, FilesAssumption DEF Erase
  <2>2. QED
    BY <1>8, <2>1 DEF Erase, DiskInv
<1>9. QED
  BY <1>1, <1>2, <1>3, <1>4, <1>5, <1>6, <1>7, <1>8 DEF CallStep, Works
-----------------------------------------------------------------------------
(* By which steps a call comes where the invariants and the properties look*)
(* at it.                                                                  *)
Into(c) ==
  /\ pc'[c] \in {"asked", "held", "waiting", "settling", "reading"} => UNCHANGED work
  /\ pc'[c] = "asked"    => pc[c] = "idle" /\ req[c].op \in {"merge", "edit", "file"}
  /\ pc'[c] = "held"     => pc[c] = "asked"
  /\ pc'[c] = "start"    => PlanMerge(c)
  /\ pc'[c] = "waiting"  => StartEncode(c)
  /\ pc'[c] = "settling" => UNCHANGED disk
                            /\ pc[c] \in {"waiting", "reading"}
                            /\ (pc[c] = "waiting" => encoding = <<>>)
  /\ pc'[c] = "reading"  => ScanBack(c) /\ pc[c] = "settling"
  /\ pc'[c] = "change"   => PlanEdit(c) \/ (Reorder(c) /\ plays' = req[c].order)
                            \/ MoveChapters(c)
  /\ pc'[c] = "flipped"  => FlipEbook(c)
  /\ pc'[c] = "set"      => StartSet(c)
  /\ pc'[c] = "erase"    => PlanErase(c)
  /\ pc'[c] = "look"     => Erase(c)
  /\ pc'[c] = "merged"   => Merged(c)
  /\ pc'[c] = "unmerged" => Unmerged(c) \/ SettleEnds(c)
  /\ pc'[c] = "embedded" => TagRead(c) /\ known
  /\ pc'[c] = "erased"   => LookOnDisk(c) /\ req[c].ebook \notin folder
  /\ pc'[c] = "refused"  => pc[c] \in {"idle", "held"}
  /\ pc'[c] = "ok"       => EditEnds(c) \/ (ReadEbook(c) /\ main = req[c].ebook)
                            \/ SetChapters(c)
  /\ pc[c] = "waiting"   => pc'[c] \in {"gaveup", "failed", "settling"}
  /\ pc[c] \in Editing   => pc'[c] \in Editing \cup {"ok", "failed"}
  /\ pc[c] = "set"       => pc'[c] \in {"ok", "failed"}

LEMMA StepInto ==
  ASSUME FilesInv, NEW c \in Calls, CallStep(c)
  PROVE  Into(c)
<1>0. USE DEF Into, FilesInv, TypeOK, Go, Finish, Editing
<1>1. CASE StartMerge(c) \/ StartHeld(c) \/ StartCancel(c) \/ Refuse(c)
  BY <1>1 DEF StartMerge, StartHeld, StartCancel, Refuse
<1>2. CASE Enter(c) \/ SeenRunning(c) \/ CancelEncode(c) \/ GiveUpWaiting(c)
  BY <1>2 DEF Enter, SeenRunning, CancelEncode, GiveUpWaiting
<1>3. CASE PlanMerge(c) \/ StartEncode(c) \/ WaitOver(c) \/ ScanBack(c)
  <2>1. CASE PlanMerge(c)
    BY <2>1 DEF PlanMerge
  <2>2. CASE StartEncode(c)
    BY <2>2 DEF StartEncode
  <2>3. CASE WaitOver(c)
    BY <2>3 DEF WaitOver
  <2>4. CASE ScanBack(c)
    BY <2>4 DEF ScanBack
  <2>5. QED
    BY <1>3, <2>1, <2>2, <2>3, <2>4
<1>4. CASE Merged(c) \/ Unmerged(c) \/ ScanAgain(c) \/ SettleEnds(c)
  BY <1>4 DEF Merged, Unmerged, ScanAgain, SettleEnds, Unsettled
<1>5. CASE StartEmbed(c) \/ TagRead(c) \/ StartSet(c) \/ SetChapters(c)
  BY <1>5 DEF StartEmbed, TagRead, StartSet, SetChapters
<1>6. CASE PlanEdit(c) \/ Reorder(c) \/ MoveChapters(c) \/ FlipEbook(c)
  <2>1. CASE PlanEdit(c)
    BY <2>1 DEF PlanEdit
  <2>2. CASE Reorder(c)
    BY <2>2 DEF Reorder, Due
  <2>3. CASE MoveChapters(c)
    BY <2>3 DEF MoveChapters, Due
  <2>4. CASE FlipEbook(c)
    BY <2>4 DEF FlipEbook, Due
  <2>5. QED
    BY <1>6, <2>1, <2>2, <2>3, <2>4
<1>7. CASE ReadEbook(c) \/ EditEnds(c) \/ EditFails(c)
  BY <1>7 DEF ReadEbook, EditEnds, EditFails
<1>8. CASE PlanErase(c) \/ Erase(c) \/ LookOnDisk(c) \/ RequestFails(c)
  BY <1>8 DEF PlanErase, Erase, LookOnDisk, RequestFails
<1>9. QED
  BY <1>1, <1>2, <1>3, <1>4, <1>5, <1>6, <1>7, <1>8 DEF CallStep, Works

LEMMA StepOps ==
  ASSUME FilesInv, NEW c \in Calls, CallStep(c)
  PROVE  OpInv'
<1>1. SUFFICES /\ pc'[c] \in Merging => req[c].op = "merge"
               /\ pc'[c] \in Editing => req[c].op = "edit"
               /\ pc'[c] \in Erasing => req[c].op = "file"
               /\ pc'[c] \in {"asked", "held"} => req[c].op \in {"merge", "edit", "file"}
               /\ pc'[c] = "set" => req[c].op \in {"fit", "chapters"}
  BY StepFrame, StepMoves DEF OpInv, FilesInv
<1>2. QED
  BY StepInto
  DEF Into, FilesInv, OpInv, Merging, Editing, Erasing, PlanMerge, StartEncode, ScanBack,
      PlanEdit, Reorder, MoveChapters, Due, FlipEbook, StartSet, PlanErase, Erase

LEMMA StepDisk ==
  ASSUME FilesInv, NEW c \in Calls, CallStep(c)
  PROVE  DiskInv'
<1>1. Reordered(c) => plays' # <<M4b>>
  <2>1. req[c].order \in Orders
    BY FilesAssumption DEF FilesInv, TypeOK, Request
  <2>2. req[c].order # <<M4b>> /\ <<>> # <<M4b>>
    BY <2>1, SomeOrders, OrderIsSeq
  <2>3. QED
    BY <2>2 DEF Reordered
<1>2. QED
  BY <1>1, StepEffects DEF FilesInv, DiskInv, Scanned

LEMMA StepErase ==
  ASSUME FilesInv, NEW c \in Calls, CallStep(c)
  PROVE  EraseInv'
<1>1. ASSUME NEW e \in Calls, pc'[e] = "look" PROVE req'[e].ebook \notin library'
  <2>1. CASE pc[e] = "look"
    BY <2>1, StepEffects, StepMoves DEF FilesInv, EraseInv
  <2>2. CASE pc[e] # "look"
    <3>1. e = c
      BY <1>1, <2>2, StepFrame DEF FilesInv
    <3>2. Erase(c)
      BY <1>1, <2>2, <3>1, StepInto DEF Into, FilesInv
    <3>3. QED
      BY <3>1, <3>2, StepMoves DEF Erase
  <2>3. QED
    BY <2>1, <2>2
<1>2. QED
  BY <1>1 DEF EraseInv

(* A merge that is started is the only one at its step.                    *)
LEMMA StepEncode ==
  ASSUME FilesInv, NEW c \in Calls, CallStep(c)
  PROVE  EncodeInv'
<1>0. USE DEF FilesInv, EncodeInv
<1>1. ASSUME encoding' # <<>>
      PROVE  \E d \in Calls : req'[d].op = "merge" /\ pc'[d] \in {"waiting", "gaveup", "failed"}
  <2>1. CASE pc[c] = "start" /\ pc'[c] \in {"waiting", "failed"}
    BY <2>1, StepMoves DEF OpInv, Merging
  <2>2. CASE encoding' = encoding
    <3>1. PICK d \in Calls : req[d].op = "merge" /\ pc[d] \in {"waiting", "gaveup", "failed"}
      BY <1>1, <2>2
    <3>2. CASE d # c
      BY <3>1, <3>2, StepFrame
    <3>3. CASE d = c
      <4>1. pc[c] = "waiting"
        BY <3>1, <3>3, StepLands DEF Ended
      <4>2. pc'[c] \in {"gaveup", "failed"}
        BY <1>1, <2>2, <4>1, StepInto DEF Into
      <4>3. QED
        BY <3>1, <3>3, <4>2, StepMoves
    <3>4. QED
      BY <3>2, <3>3
  <2>3. QED
    BY <1>1, <2>1, <2>2, StepEffects
<1>2. ASSUME NEW e \in Calls, pc'[e] \in Merging PROVE seen'[e].plays \notin {<<>>, <<M4b>>}
  <2>1. CASE e # c
    BY <1>2, <2>1, StepFrame
  <2>2. CASE e = c /\ pc'[c] = "start"
    BY <2>2, StepInto DEF Into, PlanMerge, See, Look, TypeOK
  <2>3. CASE e = c /\ pc'[c] # "start"
    <3>1. pc[c] \in Merging /\ UNCHANGED work
      BY <1>2, <2>3, StepInto DEF Into, StartEncode, Merging
    <3>2. QED
      BY <2>3, <3>1
  <2>4. QED
    BY <2>1, <2>2, <2>3
<1>3. ASSUME NEW e \in Calls, pc'[e] \in {"settling", "reading"} PROVE encoding' = <<>>
  <2>1. CASE e = c
    BY <1>3, <2>1, StepInto DEF Into, ScanBack
  <2>2. CASE e # c
    <3>1. pc[e] \in Inside /\ encoding = <<>>
      BY <1>3, <2>2, StepFrame DEF Inside
    <3>2. pc[c] # "start"
      BY <2>2, <3>1, OneInside DEF Inside
    <3>3. QED
      BY <3>1, <3>2, StepEffects
  <2>3. QED
    BY <2>1, <2>2
<1>4. ASSUME NEW e \in Calls, pc'[e] = "reading", M4b \in folder'
      PROVE  plays' \in {<<>>, <<M4b>>}
  <2>1. M4b \in folder
    BY <1>4, StepEffects
  <2>2. CASE e = c
    BY <1>4, <2>1, <2>2, StepInto DEF Into, ScanBack, Scanned
  <2>3. CASE e # c
    <3>1. pc[e] \in Inside /\ plays \in {<<>>, <<M4b>>}
      BY <1>4, <2>1, <2>3, StepFrame DEF Inside
    <3>2. pc[c] # "change"
      BY <2>3, <3>1, OneInside DEF Inside
    <3>3. plays' \in {plays, Scanned}
      BY <3>2, StepEffects DEF Due
    <3>4. QED
      BY <2>1, <3>1, <3>3 DEF Scanned
  <2>4. QED
    BY <2>2, <2>3
<1>5. QED
  BY <1>1, <1>2, <1>3, <1>4

LEMMA StepEdit ==
  ASSUME FilesInv, NEW c \in Calls, CallStep(c)
  PROVE  EditInv'
<1>0. USE DEF FilesInv
<1>1. req' = req /\ touched' = touched
  BY StepMoves
<1>2. ASSUME NEW e \in Calls, e # c
      PROVE  /\ pc'[e] \in {"idle", "asked", "held"} => done'[e] = {}
             /\ pc'[e] \in Editing =>
                  /\ seen'[e].plays \in Orders
                  /\ ToSet(seen'[e].plays) = ToSet(req'[e].order)
                  /\ done'[e] \subseteq Asked(e)'
                  /\ ~touched' /\ M4b \notin folder' => plays' = Playing(e)'
             /\ pc'[e] = "change" => "ebook" \notin done'[e] /\ (~touched' => main' = seen'[e].main)
             /\ pc'[e] = "flipped" => Asked(e)' \subseteq done'[e]
  <2>1. /\ pc'[e] = pc[e] /\ seen'[e] = seen[e] /\ done'[e] = done[e]
        /\ Asked(e)' = Asked(e) /\ Playing(e)' = Playing(e)
    BY <1>1, <1>2, StepFrame DEF Asked, Playing
  <2>2. ASSUME pc[e] \in Editing
        PROVE  main' = main /\ (M4b \notin folder => plays' = plays)
    <3>1. pc[c] \notin {"change", "erase"}
      BY <1>2, <2>2, OneInside DEF Inside, Editing
    <3>2. QED
      BY <3>1, StepEffects DEF Due, Scanned
  <2>3. M4b \in folder' <=> M4b \in folder
    BY StepEffects
  <2>4. QED
    BY <1>1, <2>1, <2>2, <2>3 DEF EditInv, Editing
<1>3. /\ pc'[c] \in {"idle", "asked", "held"} => done'[c] = {}
      /\ pc'[c] \in Editing =>
           /\ seen'[c].plays \in Orders
           /\ ToSet(seen'[c].plays) = ToSet(req'[c].order)
           /\ done'[c] \subseteq Asked(c)'
           /\ ~touched' /\ M4b \notin folder' => plays' = Playing(c)'
      /\ pc'[c] = "change" => "ebook" \notin done'[c] /\ (~touched' => main' = seen'[c].main)
      /\ pc'[c] = "flipped" => Asked(c)' \subseteq done'[c]
  <2>1. CASE pc'[c] \notin Editing
    BY <2>1, StepInto, StepLands DEF Into, EditInv, Editing
  <2>2. CASE PlanEdit(c) /\ pc'[c] = "change"
    <3>1. seen'[c] = Look /\ done'[c] = {} /\ UNCHANGED <<record, disk>>
      BY <2>2 DEF PlanEdit, See, EditInv, TypeOK
    <3>2. req[c].order \in Orders /\ plays \in Audio /\ ToSet(plays) = ToSet(req[c].order)
      BY <2>2, FilesAssumption DEF PlanEdit, TypeOK, Request
    <3>3. plays \in Orders
      <4>1. plays # <<M4b>>
        BY <3>2, OrderIsSeq, FilesAssumption DEF ToSet
      <4>2. QED
        BY <3>2, <4>1, SomeOrders DEF Audio
    <3>4. QED
      BY <1>1, <2>2, <3>1, <3>2, <3>3 DEF Look, Playing, Editing
  <2>3. CASE Reorder(c) /\ pc'[c] = "change" /\ plays' = req[c].order
    <3>1. /\ pc[c] = "change" /\ "tracks" \in Asked(c)
          /\ done'[c] = done[c] \cup {"tracks"} /\ seen' = seen
          /\ UNCHANGED <<main, disk>>
      BY <2>3 DEF Reorder, Reordered, Due, Did, TypeOK
    <3>2. Asked(c)' = Asked(c)
      BY <1>1, <3>1 DEF Asked
    <3>3. QED
      BY <1>1, <2>3, <3>1, <3>2 DEF EditInv, Playing, Editing
  <2>4. CASE MoveChapters(c) /\ pc'[c] = "change"
    <3>1. /\ pc[c] = "change" /\ "chapters" \in Asked(c)
          /\ done'[c] = done[c] \cup {"chapters"} /\ seen' = seen
          /\ UNCHANGED <<plays, main, disk>>
      BY <2>4 DEF MoveChapters, ChaptersMoved, Due, Did, TypeOK
    <3>2. Asked(c)' = Asked(c)
      BY <1>1, <3>1 DEF Asked
    <3>3. QED
      BY <1>1, <2>4, <3>1, <3>2 DEF EditInv, Playing, Editing
  <2>5. CASE FlipEbook(c) /\ pc'[c] = "flipped"
    <3>1. /\ pc[c] = "change" /\ "ebook" \in Asked(c)
          /\ "tracks" \notin Asked(c) \ done[c] /\ "chapters" \notin Asked(c) \ done[c]
          /\ done'[c] = done[c] \cup {"ebook"} /\ seen' = seen
          /\ UNCHANGED <<plays, disk>>
      BY <2>5 DEF FlipEbook, Flip, Flips, Due, Did, TypeOK
    <3>2. Asked(c)' = Asked(c) /\ Asked(c) \subseteq {"tracks", "chapters", "ebook"}
      BY <1>1, <3>1 DEF Asked
    <3>3. QED
      BY <1>1, <2>5, <3>1, <3>2 DEF EditInv, Playing, Editing
  <2>6. QED
    BY <2>1, <2>2, <2>3, <2>4, <2>5, StepInto DEF Into, Editing
<1>4. QED
  BY <1>2, <1>3 DEF EditInv

(* What is undisturbed after a step was so before it.                      *)
LEMMA StaysUndisturbed ==
  ASSUME FilesInv, NEW c \in Calls, CallStep(c), Undisturbed'
  PROVE  /\ Undisturbed
         /\ (Due(c, "chapters") /\ ChaptersMoved(c)) \/ chapters' = chapters
<1>0. USE DEF FilesInv
<1>1. ~touched /\ M4b \notin folder
  BY StepMoves, StepEffects DEF Undisturbed
<1>2. ASSUME NEW d \in Calls
      PROVE  /\ pc[d] # "failed"
             /\ req[d].op \in {"fit", "chapters"} => pc[d] \in {"idle", "set", "refused"}
  <2>1. CASE d # c
    BY <2>1, StepFrame DEF Undisturbed
  <2>2. CASE d = c
    BY <2>2, StepInto, StepLands, StepMoves DEF Into, Undisturbed, Ended, OpInv, StartSet
  <2>3. QED
    BY <2>1, <2>2
<1>3. ~(pc[c] = "set" /\ pc'[c] \in Ended)
  BY StepInto, StepMoves DEF Into, Undisturbed, OpInv, Ended
<1>4. QED
  BY <1>1, <1>2, <1>3, StepEffects DEF Undisturbed

(* An edit that does all it planned leaves the chapters as it leaves the   *)
(* tracks.                                                                 *)
LEMMA EditIsWhole ==
  ASSUME FilesInv, Undisturbed, NEW c \in Calls, pc[c] \in Editing,
         Asked(c) \subseteq done[c]
  PROVE  chapters = plays
<1>0. USE DEF FilesInv
<1>1. done[c] = Asked(c) /\ plays = Playing(c) /\ seen[c].chapters = seen[c].plays
      /\ chapters = IF "chapters" \in done[c] THEN req[c].order ELSE seen[c].plays
  BY DEF EditInv, ChaptersInv, Undisturbed
<1>2. "tracks" \in done[c] <=> "chapters" \in done[c]
  BY <1>1 DEF Asked
<1>3. QED
  BY <1>1, <1>2 DEF Playing

LEMMA StepChapters ==
  ASSUME FilesInv, NEW c \in Calls, CallStep(c)
  PROVE  ChaptersInv'
<1>0. USE DEF FilesInv
<1>1. SUFFICES ASSUME Undisturbed'
               PROVE  /\ \A e \in Calls : pc'[e] \in Editing =>
                           /\ seen'[e].chapters = seen'[e].plays
                           /\ chapters' = IF "chapters" \in done'[e] THEN req'[e].order
                                          ELSE seen'[e].plays
                      /\ (\A e \in Calls : pc'[e] \notin Editing) => chapters' = plays'
  BY DEF ChaptersInv
<1>2. /\ Undisturbed /\ M4b \notin folder
      /\ (Due(c, "chapters") /\ ChaptersMoved(c)) \/ chapters' = chapters
  BY <1>1, StaysUndisturbed DEF Undisturbed
<1>3. ASSUME NEW e \in Calls, e # c, pc'[e] \in Editing
      PROVE  /\ seen'[e].chapters = seen'[e].plays
             /\ chapters' = IF "chapters" \in done'[e] THEN req'[e].order ELSE seen'[e].plays
  <2>1. /\ pc[e] \in Editing /\ seen'[e] = seen[e] /\ done'[e] = done[e]
        /\ req'[e] = req[e]
    BY <1>3, StepFrame
  <2>2. pc[c] # "change"
    BY <1>3, <2>1, OneInside DEF Inside, Editing
  <2>3. chapters' = chapters
    BY <1>2, <2>2 DEF Due
  <2>4. QED
    BY <1>2, <2>1, <2>3 DEF ChaptersInv
<1>4. ASSUME pc'[c] \in Editing
      PROVE  /\ seen'[c].chapters = seen'[c].plays
             /\ chapters' = IF "chapters" \in done'[c] THEN req'[c].order ELSE seen'[c].plays
  <2>1. CASE PlanEdit(c)
    <3>1. \A e \in Calls : pc[e] \notin Editing
      BY <2>1, OneInside DEF PlanEdit, Inside, Editing
    <3>2. chapters = plays
      BY <1>2, <3>1 DEF ChaptersInv
    <3>3. seen'[c] = Look /\ done'[c] = {} /\ chapters' = chapters
      BY <2>1 DEF PlanEdit, See, EditInv, TypeOK
    <3>4. QED
      BY <3>2, <3>3 DEF Look
  <2>2. CASE MoveChapters(c)
    <3>1. /\ pc[c] = "change" /\ seen' = seen /\ req' = req /\ "chapters" \in done'[c]
          /\ ToSet(seen[c].plays) = ToSet(req[c].order) /\ seen[c].chapters = seen[c].plays
          /\ req[c].order \in Orders
      BY <1>2, <2>2, FilesAssumption
      DEF MoveChapters, Due, Did, TypeOK, EditInv, ChaptersInv, Editing, Request
    <3>2. chapters' = Moved(req[c].order, seen[c].plays, seen[c].plays)
      BY <2>2, <3>1, MovedChapters DEF MoveChapters
    <3>3. QED
      BY <3>1, <3>2, MovedAlong
  <2>3. CASE Reorder(c) \/ FlipEbook(c)
    <3>1. /\ pc[c] = "change" /\ seen' = seen /\ req' = req /\ chapters' = chapters
          /\ "chapters" \in done'[c] <=> "chapters" \in done[c]
      BY <2>3 DEF Reorder, Reordered, FlipEbook, Flip, Flips, Due, Did, TypeOK
    <3>2. QED
      BY <1>2, <3>1 DEF ChaptersInv, Editing
  <2>4. QED
    BY <1>4, <2>1, <2>2, <2>3, StepInto DEF Into, Editing
<1>5. ASSUME \A e \in Calls : pc'[e] \notin Editing
      PROVE  chapters' = plays'
  <2>1. CASE pc[c] \in Editing
    <3>1. pc'[c] = "ok"
      BY <1>1, <1>5, <2>1, StepInto DEF Into, Undisturbed
    <3>2. EditEnds(c) \/ ReadEbook(c)
      BY <2>1, <3>1, StepInto DEF Into, SetChapters, Editing
    <3>3. Asked(c) \subseteq done[c] /\ UNCHANGED record
      BY <3>2 DEF EditEnds, ReadEbook, EditInv
    <3>4. QED
      BY <1>2, <2>1, <3>3, EditIsWhole
  <2>2. CASE pc[c] \notin Editing
    <3>1. chapters = plays
      BY <1>2, <1>5, <2>2, StepFrame DEF ChaptersInv
    <3>2. pc[c] # "change"
      BY <2>2 DEF Editing
    <3>3. chapters' = chapters /\ plays' = plays
      BY <1>2, <3>2, StepEffects DEF Due, Scanned
    <3>4. QED
      BY <3>1, <3>3
  <2>3. QED
    BY <2>1, <2>2
<1>6. QED
  BY <1>3, <1>4, <1>5

LEMMA StepInv ==
  ASSUME FilesInv, NEW c \in Calls, CallStep(c)
  PROVE  FilesInv'
<1>1. TypeOK' /\ PlaceInv' /\ Locks!Exclusion'
  BY StepTypes, StepPlaces DEF FilesInv
<1>2. QED
  BY <1>1, StepOps, StepDisk, StepEncode, StepEdit, StepErase, StepChapters DEF FilesInv
-----------------------------------------------------------------------------
(* The server and the web app leave the calls where they are.              *)
LEMMA CallsStay ==
  ASSUME FilesInv, UNCHANGED <<locks, pc, req, work, library>>, TypeOK'
  PROVE  /\ PlaceInv' /\ Locks!Exclusion' /\ OpInv' /\ EraseInv'
         /\ \A c \in Calls : Asked(c)' = Asked(c) /\ Playing(c)' = Playing(c)
  BY DEF FilesInv, PlaceInv, Locks!Exclusion, Locks!Conflict, OpInv, EraseInv, Asked, Playing

LEMMA ServerInv ==
  ASSUME FilesInv, EncodeEnds \/ WatcherScans \/ TaggingEnds
  PROVE  FilesInv'
<1>0. USE DEF FilesInv
<1>1. TypeOK'
  BY DEF EncodeEnds, WatcherScans, TaggingEnds, TypeOK, Audio, Locks!TypeOK
<1>2. /\ PlaceInv' /\ Locks!Exclusion' /\ OpInv' /\ EraseInv'
      /\ \A c \in Calls : Asked(c)' = Asked(c) /\ Playing(c)' = Playing(c)
  BY <1>1, CallsStay DEF EncodeEnds, WatcherScans, TaggingEnds
<1>3. UNCHANGED <<pc, req, work, web, chapters, main>>
  BY DEF EncodeEnds, WatcherScans, TaggingEnds
<1>4. (M4b \in folder => M4b \in folder') /\ (M4b \notin folder' => plays' = plays)
  <2>1. CASE EncodeEnds
    BY <2>1 DEF EncodeEnds
  <2>2. CASE WatcherScans
    BY <2>2 DEF WatcherScans, DiskInv
  <2>3. CASE TaggingEnds
    BY <2>3 DEF TaggingEnds
  <2>4. QED
    BY <2>1, <2>2, <2>3
<1>5. DiskInv'
  <2>1. CASE EncodeEnds
    BY <2>1 DEF EncodeEnds, DiskInv
  <2>2. CASE WatcherScans
    BY <2>2 DEF WatcherScans, DiskInv
  <2>3. CASE TaggingEnds
    <3>1. tagged => tagged'
      BY <2>3, Zenon DEF TaggingEnds
    <3>2. QED
      BY <2>3, <3>1 DEF TaggingEnds, DiskInv
  <2>4. QED
    BY <2>1, <2>2, <2>3
<1>6. EncodeInv'
  <2>1. CASE EncodeEnds
    BY <2>1 DEF EncodeEnds, EncodeInv
  <2>2. CASE WatcherScans
    BY <2>2 DEF WatcherScans, EncodeInv
  <2>3. CASE TaggingEnds
    BY <2>3 DEF TaggingEnds, EncodeInv
  <2>4. QED
    BY <2>1, <2>2, <2>3
<1>7. EditInv'
  BY <1>2, <1>3, <1>4 DEF EditInv, Editing
<1>8. ChaptersInv'
  BY <1>3, <1>4 DEF ChaptersInv, Undisturbed
<1>9. QED
  BY <1>1, <1>2, <1>5, <1>6, <1>7, <1>8

LEMMA WebInv ==
  ASSUME FilesInv, WebChange
  PROVE  FilesInv'
<1>0. USE DEF FilesInv
<1>1. TypeOK'
  BY FilesAssumption
  DEF WebChange, Flips, TypeOK, Audio, Chapters, Locks!TypeOK
<1>2. /\ PlaceInv' /\ Locks!Exclusion' /\ OpInv' /\ EraseInv'
      /\ \A c \in Calls : Asked(c)' = Asked(c) /\ Playing(c)' = Playing(c)
  BY <1>1, CallsStay DEF WebChange, Flips
<1>3. UNCHANGED <<disk, tags, pc, req, work>> /\ touched'
  BY DEF WebChange
<1>4. \/ plays' = plays
      \/ plays' \in Orders /\ ToSet(plays') = ToSet(plays)
  BY DEF WebChange, Flips
<1>5. plays' \in {plays, <<>>} \/ plays \notin {<<>>, <<M4b>>}
  <2>1. ASSUME plays' \in Orders, ToSet(plays') = ToSet(plays), plays = <<>>
        PROVE  plays' = <<>>
    BY <2>1, OrderIsSeq DEF ToSet
  <2>2. ASSUME plays' \in Orders, ToSet(plays') = ToSet(plays), plays = <<M4b>>
        PROVE  FALSE
    <3>1. M4b \in ToSet(<<M4b>>)
      BY DEF ToSet
    <3>2. QED
      BY <2>2, <3>1, OrderIsSeq, FilesAssumption
  <2>3. QED
    BY <1>4, <2>1, <2>2
<1>6. DiskInv'
  BY <1>3, <1>4, OrderIsSeq DEF DiskInv
<1>7. EncodeInv'
  BY <1>3, <1>5 DEF EncodeInv
<1>8. EditInv' /\ ChaptersInv'
  BY <1>2, <1>3 DEF EditInv, ChaptersInv, Undisturbed, Editing
<1>9. QED
  BY <1>1, <1>2, <1>6, <1>7, <1>8

LEMMA InitInv == Init => FilesInv
<1> SUFFICES ASSUME Init PROVE FilesInv
  OBVIOUS
<1>2. TypeOK
  <2>1. Locks!TypeOK
    BY DEF Init, Locks!Init, Locks!TypeOK, Locks!Requests
  <2>2. plays \in Audio /\ chapters \in Chapters /\ encoding \in Audio /\ Look \in Seen
    BY SomeOrders DEF Init, Audio, Chapters, Look, Seen
  <2>3. seen \in [Calls -> Seen]
    BY <2>2 DEF Init
  <2>4. pc \in [Calls -> Steps] /\ done \in [Calls -> SUBSET {"tracks", "chapters", "ebook"}]
        /\ budget \in 0..MaxOutside
    BY FilesAssumption DEF Init, Steps, Unheld
  <2>5. main \in library \cup {None} /\ library \subseteq Ebooks
        /\ folder \subseteq Tracks \cup Ebooks \cup {M4b}
        /\ <<watched, tagging, tagged, known>> \in BOOLEAN \X BOOLEAN \X BOOLEAN \X BOOLEAN
        /\ touched \in BOOLEAN /\ req \in [Calls -> TurnRequests]
    BY DEF Init
  <2>6. QED
    BY <2>1, <2>2, <2>3, <2>4, <2>5 DEF TypeOK
<1>3. FirstOrder # <<M4b>>
  BY SomeOrders, OrderIsSeq
<1>4. PlaceInv /\ Locks!Exclusion /\ OpInv /\ DiskInv /\ EncodeInv /\ EditInv /\ EraseInv
  BY <1>3, FilesAssumption
  DEF Init, Locks!Init, PlaceInv, Locks!Exclusion, OpInv, DiskInv, EncodeInv, EditInv,
      EraseInv, Inside, Merging, Editing, Erasing
<1>5. ChaptersInv
  BY DEF Init, ChaptersInv, Editing
<1>6. QED
  BY <1>2, <1>4, <1>5 DEF FilesInv

LEMMA NextInv == FilesInv /\ [Next]_vars => FilesInv'
<1> SUFFICES ASSUME FilesInv, [Next]_vars PROVE FilesInv'
  OBVIOUS
<1>2. CASE \E c \in Calls : CallStep(c)
  BY <1>2, StepInv
<1>3. CASE EncodeEnds \/ WatcherScans \/ TaggingEnds
  BY <1>3, ServerInv
<1>4. CASE WebChange
  BY <1>4, WebInv
<1>5. CASE UNCHANGED vars
  <2>1. TypeOK' /\ PlaceInv' /\ Locks!Exclusion' /\ OpInv' /\ DiskInv'
    BY <1>5 DEF FilesInv, vars, TypeOK, Locks!TypeOK, PlaceInv, Locks!Exclusion, OpInv,
                DiskInv
  <2>2. EncodeInv' /\ EditInv' /\ EraseInv' /\ ChaptersInv'
    BY <1>5 DEF FilesInv, vars, EncodeInv, EditInv, EraseInv, ChaptersInv, Undisturbed,
                Asked, Playing
  <2>3. QED
    BY <2>1, <2>2 DEF FilesInv
<1>6. QED
  BY <1>2, <1>3, <1>4, <1>5 DEF Next, CallStep
-----------------------------------------------------------------------------
(* The inductive invariant holds of every reachable state.                 *)
THEOREM Invariance == Spec => []FilesInv
<1>1. Init => FilesInv
  BY InitInv
<1>2. FilesInv /\ [Next]_vars => FilesInv'
  BY NextInv
<1>3. QED
  BY <1>1, <1>2, PTL DEF Spec

(* Every variable has its type; the chapters an edit moves are the book's, *)
(* one for each of its tracks.                                             *)
THEOREM TypeCorrect == Spec => []TypeOK
<1>1. FilesInv => TypeOK
  BY DEF FilesInv
<1>2. QED
  BY <1>1, Invariance, PTL

(* When all calls have ended, none failed and none set chapters, the       *)
(* chapters are in the order of the tracks (chaptersMoved).                *)
THEOREM ChaptersFollow == Spec => []HeldChaptersFollow
<1>1. FilesInv => HeldChaptersFollow
  <2>1. SUFFICES ASSUME FilesInv, Quiet, \A c \in Calls : ~SetsChapters(c)
                 PROVE  chapters = plays
    BY DEF HeldChaptersFollow
  <2>2. Undisturbed
    BY <2>1 DEF Quiet, SetsChapters, Undisturbed, Ended
  <2>3. \A c \in Calls : pc[c] \notin Editing
    BY <2>1 DEF Quiet, Ended, Editing
  <2>4. QED
    BY <2>1, <2>2, <2>3 DEF FilesInv, ChaptersInv
<1>2. QED
  BY <1>1, Invariance, PTL

(* A step that ends a call one way is that call's.                         *)
LEMMA EndsIsStep ==
  ASSUME FilesInv, Next, NEW c \in Calls, NEW how, Ends(c, how)
  PROVE  CallStep(c) /\ Into(c)
<1>1. pc'[c] # pc[c]
  BY DEF Ends
<1>2. \E d \in Calls : CallStep(d)
  BY <1>1 DEF Next, CallStep, EncodeEnds, WatcherScans, TaggingEnds, WebChange
<1>3. PICK d \in Calls : CallStep(d)
  BY <1>2
<1>4. d = c
  BY <1>1, <1>3, StepFrame DEF FilesInv
<1>5. QED
  BY <1>3, <1>4, StepInto

(* A merge told as one that failed has made no m4b: the files merged still *)
(* play, or the watcher has let go and a scan has found none.              *)
THEOREM NoMergeIsTakenForFailed == Spec => NoFalseFailure
<1>1. ASSUME FilesInv, [Next]_vars, NEW c \in Calls, Ends(c, "unmerged")
      PROVE  M4b \notin folder
  <2>0. USE <1>1
  <2>1. Next
    BY DEF vars, Ends
  <2>2. CASE Unmerged(c)
    BY <2>2 DEF Unmerged, FilesInv, EncodeInv, Merging
  <2>3. CASE SettleEnds(c)
    BY <2>3 DEF SettleEnds, Unsettled, Scanned
  <2>4. QED
    BY <2>1, <2>2, <2>3, EndsIsStep DEF Into, Ends
<1>2. FilesInv /\ [Next]_vars =>
        [\A c \in Calls : Ends(c, "unmerged") => M4b \notin folder]_vars
  BY <1>1
<1>3. QED
  BY <1>2, Invariance, PTL DEF Spec, NoFalseFailure

(* The server is told to merge a book it is merging only after another     *)
(* call's wait for that merge was given up or failed.                      *)
THEOREM MergesTakeTurns == Spec => OneMergeAtATime
<1>1. ASSUME FilesInv, [Next]_vars, NEW c \in Calls, Ends(c, "waiting"), encoding # <<>>
      PROVE  \E d \in Calls : req[d].op = "merge" /\ pc[d] \in {"gaveup", "failed"}
  <2>0. USE <1>1
  <2>1. pc[c] = "start"
    BY EndsIsStep DEF vars, Ends, Into, StartEncode
  <2>2. PICK d \in Calls : req[d].op = "merge" /\ pc[d] \in {"waiting", "gaveup", "failed"}
    BY DEF FilesInv, EncodeInv
  <2>3. pc[d] # "waiting"
    BY <2>1, OneInside DEF FilesInv, Inside
  <2>4. QED
    BY <2>2, <2>3
<1>2. FilesInv /\ [Next]_vars =>
        [\A c \in Calls : Ends(c, "waiting") /\ encoding # <<>> =>
           \E d \in Calls : req[d].op = "merge" /\ pc[d] \in {"gaveup", "failed"}]_vars
  BY <1>1
<1>3. QED
  BY <1>2, Invariance, PTL DEF Spec, OneMergeAtATime

(* An edit told done left the ebook and the order asked for, unless the web*)
(* app changed the book or a merge replaced its tracks.                    *)
LEMMA DoneEdits ==
  ASSUME FilesInv, NEW c \in Calls, Into(c), pc'[c] = "ok", req[c].op = "edit", ~touched
  PROVE  /\ req[c].ebook \in {Keep, main}
         /\ M4b \notin folder => plays = req[c].order
<1>0. USE DEF FilesInv
<1>1. EditEnds(c) \/ (ReadEbook(c) /\ main = req[c].ebook)
  BY DEF Into, SetChapters, OpInv
<1>2. pc[c] \in Editing /\ Asked(c) \subseteq done[c]
  BY <1>1 DEF EditEnds, ReadEbook, Editing, EditInv
<1>3. req[c].ebook \in {Keep, main}
  <2>1. CASE EditEnds(c)
    <3>1. "ebook" \notin Asked(c) /\ main = seen[c].main
      BY <1>2, <2>1 DEF EditEnds, EditInv
    <3>2. QED
      BY <3>1 DEF Asked
  <2>2. QED
    BY <1>1, <2>1
<1>4. ASSUME M4b \notin folder PROVE plays = req[c].order
  <2>1. plays = Playing(c)
    BY <1>2, <1>4 DEF EditInv
  <2>2. "tracks" \in done[c] \/ req[c].order = seen[c].plays
    BY <1>2 DEF Asked
  <2>3. QED
    BY <2>1, <2>2 DEF Playing
<1>5. QED
  BY <1>3, <1>4

(* What a call answers of the book's files is so when it answers.          *)
THEOREM FilesAreAsAnswered == Spec => AnswersAreSo
<1> DEFINE So(c) ==
       /\ Ends(c, "merged")   => plays = <<M4b>> /\ M4b \in folder
       /\ Ends(c, "embedded") => tagged
       /\ Ends(c, "erased")   => req[c].ebook \notin folder \cup library
       /\ Ends(c, "ok") /\ req[c].op = "edit" /\ ~touched =>
            /\ req[c].ebook \in {Keep, main}
            /\ M4b \notin folder => plays = req[c].order
<1>1. ASSUME FilesInv, [Next]_vars, NEW c \in Calls PROVE So(c)
  <2>0. USE <1>1
  <2>1. ASSUME NEW how, Ends(c, how) PROVE Into(c)
    BY <2>1, EndsIsStep DEF vars, Ends
  <2>2. Ends(c, "merged") => plays = <<M4b>> /\ M4b \in folder
    BY <2>1 DEF Ends, Into, Merged, FilesInv, DiskInv
  <2>3. Ends(c, "embedded") => tagged
    BY <2>1 DEF Ends, Into, FilesInv, DiskInv
  <2>4. Ends(c, "erased") => req[c].ebook \notin folder \cup library
    BY <2>1 DEF Ends, Into, LookOnDisk, FilesInv, EraseInv
  <2>5. Ends(c, "ok") /\ req[c].op = "edit" /\ ~touched =>
          /\ req[c].ebook \in {Keep, main}
          /\ M4b \notin folder => plays = req[c].order
    BY <2>1, DoneEdits DEF Ends
  <2>6. QED
    BY <2>2, <2>3, <2>4, <2>5
<1>2. FilesInv /\ [Next]_vars => [\A c \in Calls : So(c)]_vars
  BY <1>1
<1>3. QED
  BY <1>2, Invariance, PTL DEF Spec, AnswersAreSo
=============================================================================
