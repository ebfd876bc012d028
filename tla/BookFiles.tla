----------------------------- MODULE BookFiles -----------------------------
(***************************************************************************)
(* The tool calls of one turn that change the files of one book: a merge   *)
(* of its audio into one m4b, its cancelling and the embedding of tags     *)
(* (item_embed_metadata), the order of its tracks and its main ebook       *)
(* (item_edit), its chapters (item_chapters_set) and one file erased       *)
(* (item_delete with file), from tools/items.go and tools/item_files.go.   *)
(*                                                                         *)
(* The server merges and tags in the background and lists a task only      *)
(* while it runs, so a call waits, scans the book and reads it back to     *)
(* learn how it went.  For some seconds after a merge the server's file    *)
(* watcher holds the new file, and a scan finds no audio at all.           *)
(***************************************************************************)
EXTENDS Naturals, Sequences, SequencesExt

CONSTANTS
  Calls,        (* the calls of a turn                                     *)
  Tracks,       (* the audio files of the book                             *)
  M4b,          (* the file a merge makes of them                          *)
  Ebooks,       (* the ebook files beside them                             *)
  None,         (* no main ebook                                           *)
  Keep,         (* an edit that leaves the main ebook alone                *)
  New,          (* a chapter not cut along the files                       *)
  FirstOrder,   (* the tracks as they play at first                        *)
  TurnRequests, (* what the calls of a turn may ask                        *)
  MaxOutside,   (* bound: how often the web app changes the book           *)
  Book,         (* the lock of the book                                    *)
  Everything    (* what locks.All asks for                                 *)

Orders == {o \in SeqOf(Tracks, Len(FirstOrder)) : IsInjective(o)}

Request == [op : {"merge", "cancel", "embed", "edit", "fit", "chapters", "file"},
            order : Orders, ebook : Ebooks \cup {None, Keep}]

ASSUME FilesAssumption ==
  /\ FirstOrder \in Seq(Tracks) /\ IsInjective(FirstOrder)
  /\ ToSet(FirstOrder) = Tracks /\ Tracks # {}
  /\ M4b \notin Tracks \cup Ebooks
  /\ Tracks \cap Ebooks = {}
  /\ {None, Keep} \cap Ebooks = {} /\ None # Keep
  /\ New \notin Tracks
  /\ TurnRequests \subseteq Request
  /\ \A r \in TurnRequests : r.op = "file" => r.ebook \in Ebooks
  /\ Everything \notin SUBSET {Book}
  /\ MaxOutside \in Nat

VARIABLES
  place, asks,  (* the locks: see RecordLocks                              *)
  plays,        (* the audio of the book's record, in play order           *)
  chapters,     (* its chapters, each by the track it is cut along         *)
  main,         (* its main ebook                                          *)
  library,      (* the ebook files of its record                           *)
  folder,       (* the files on disk                                       *)
  encoding,     (* the tracks a running merge was given                    *)
  watched,      (* whether the file watcher holds the m4b                  *)
  tagging,      (* whether an embed runs or is queued                      *)
  tagged,       (* whether the files carry the book's metadata             *)
  known,        (* whether they did when the record was last scanned       *)
  pc,           (* the step each call is at                                *)
  req,          (* what it was asked                                       *)
  seen,         (* the book as it read it                                  *)
  done,         (* the changes an error of its would name                  *)
  touched,      (* whether the web app changed the book                    *)
  budget        (* how often it may still do so                            *)

locks  == <<place, asks>>
record == <<plays, chapters, main, library>>
disk   == <<folder, encoding, watched>>
tags   == <<tagging, tagged, known>>
work   == <<seen, done>>
web    == <<touched, budget>>
vars   == <<locks, record, disk, tags, pc, req, work, web>>

Locks == INSTANCE RecordLocks WITH Callers <- Calls, Keys <- {Book}

Ended    == {"ok", "merged", "unmerged", "running", "gaveup", "cancelled",
             "embedded", "differs", "erased", "unchecked", "refused", "failed"}
Inside   == {"held", "start", "waiting", "settling", "reading", "change", "flipped",
             "erase", "look"}
Unheld   == {"idle", "asked", "cancel", "tagwait", "tagscan", "tagread", "set"}
Steps    == Ended \cup Inside \cup Unheld
Audio    == {<<>>, <<M4b>>} \cup Orders
Chapters == {<<New>>} \cup Orders
Seen     == [plays : Audio, chapters : Chapters, main : Ebooks \cup {None}]

TypeOK ==
  /\ Locks!TypeOK
  /\ plays    \in Audio
  /\ chapters \in Chapters
  /\ main     \in library \cup {None}
  /\ library  \subseteq Ebooks
  /\ folder   \subseteq Tracks \cup Ebooks \cup {M4b}
  /\ encoding \in Audio
  /\ <<watched, tagging, tagged, known>> \in BOOLEAN \X BOOLEAN \X BOOLEAN \X BOOLEAN
  /\ pc       \in [Calls -> Steps]
  /\ req      \in [Calls -> TurnRequests]
  /\ seen     \in [Calls -> Seen]
  /\ done     \in [Calls -> SUBSET {"tracks", "chapters", "ebook"}]
  /\ touched  \in BOOLEAN
  /\ budget   \in 0..MaxOutside

(* What a call reads of the book.                                          *)
Look == [plays |-> plays, chapters |-> chapters, main |-> main]

Init ==
  /\ Locks!Init
  /\ plays    = FirstOrder
  /\ chapters = FirstOrder
  /\ main     \in Ebooks \cup {None}
  /\ library  = Ebooks
  /\ folder   = Tracks \cup Ebooks
  /\ encoding = <<>>
  /\ watched  = FALSE
  /\ tagging  = FALSE
  /\ tagged   = FALSE
  /\ known    = FALSE
  /\ pc       = [c \in Calls |-> "idle"]
  /\ req      \in [Calls -> TurnRequests]
  /\ seen     = [c \in Calls |-> Look]
  /\ done     = [c \in Calls |-> {}]
  /\ touched  = FALSE
  /\ budget   = MaxOutside

Go(c, step)  == pc' = [pc EXCEPT ![c] = step]
See(c)       == seen' = [seen EXCEPT ![c] = Look]
Did(c, what) == done' = [done EXCEPT ![c] = @ \cup {what}]

(* A call that ends lets go of the book, if it holds it.                   *)
Finish(c, how) ==
  /\ Go(c, how)
  /\ IF pc[c] \in Inside THEN Locks!Gone(c) ELSE UNCHANGED locks

-----------------------------------------------------------------------------
(* Mutant: a call holds nothing of the book.                               *)
HoldsNothing == {}

Holds == {Book}

(* Whether a merge runs is looked at first, with nothing held.             *)
StartMerge(c) ==
  /\ pc[c] = "idle"
  /\ req[c].op = "merge"
  /\ encoding = <<>>
  /\ Locks!Ask(c, Holds)
  /\ Go(c, "asked")
  /\ UNCHANGED <<record, disk, tags, req, work, web>>

SeenRunning(c) ==
  /\ pc[c] = "idle"
  /\ req[c].op = "merge"
  /\ encoding # <<>>
  /\ Finish(c, "running")
  /\ UNCHANGED <<record, disk, tags, req, work, web>>

StartCancel(c) ==
  /\ pc[c] = "idle"
  /\ req[c].op = "cancel"
  /\ encoding # <<>>
  /\ Go(c, "cancel")
  /\ UNCHANGED <<locks, record, disk, tags, req, work, web>>

(* A cancel that finds no merge any more is refused by the server.         *)
CancelEncode(c) ==
  /\ pc[c] = "cancel"
  /\ encoding' = <<>>
  /\ \/ encoding # <<>> /\ Finish(c, "cancelled")
     \/ Finish(c, "failed")
  /\ UNCHANGED <<record, folder, watched, tags, req, work, web>>

(* An edit, and the erasing of a file, hold the book before they read it.  *)
StartHeld(c) ==
  /\ pc[c] = "idle"
  /\ req[c].op \in {"edit", "file"}
  /\ Locks!Ask(c, Holds)
  /\ Go(c, "asked")
  /\ UNCHANGED <<record, disk, tags, req, work, web>>

Enter(c) ==
  /\ pc[c] = "asked"
  /\ Locks!Enter(c)
  /\ Go(c, "held")
  /\ UNCHANGED <<record, disk, tags, req, work, web>>

(* There is nothing of the kind, a read fails, or the plan is refused.     *)
Refuse(c) ==
  /\ pc[c] \in {"idle", "held"}
  /\ Finish(c, "refused")
  /\ UNCHANGED <<record, disk, tags, req, work, web>>

-----------------------------------------------------------------------------
(* A merge of what plays, unless that is the one m4b already.              *)
PlanMerge(c) ==
  /\ pc[c] = "held"
  /\ req[c].op = "merge"
  /\ plays \notin {<<>>, <<M4b>>}
  /\ See(c)
  /\ Go(c, "start")
  /\ UNCHANGED <<locks, record, disk, tags, req, done, web>>

(* The server merges what the record plays.  One told to merge a book it   *)
(* is merging does not end the merge it runs.                              *)
Encodes == encoding' = IF encoding = <<>> THEN plays ELSE encoding

StartEncode(c) ==
  /\ pc[c] = "start"
  /\ Encodes
  /\ \/ Go(c, "waiting") /\ UNCHANGED locks
     \/ Finish(c, "failed")
  /\ UNCHANGED <<record, folder, watched, tags, req, work, web>>

(* The task is listed no more.                                             *)
WaitOver(c) ==
  /\ \/ pc[c] = "waiting" /\ encoding = <<>> /\ Go(c, "settling")
     \/ pc[c] = "tagwait" /\ ~tagging /\ Go(c, "tagscan")
  /\ UNCHANGED <<locks, record, disk, tags, req, work, web>>

(* Mutant: only the wait for an embed has an end.                          *)
WaitsForMerge(c) ==
  /\ pc[c] = "tagwait" /\ tagging
  /\ Finish(c, "gaveup")
  /\ UNCHANGED <<record, disk, tags, req, work, web>>

(* Two minutes are up, and the task still runs.                            *)
GiveUpWaiting(c) ==
  /\ \/ pc[c] = "waiting" /\ encoding # <<>>
     \/ pc[c] = "tagwait" /\ tagging
  /\ Finish(c, "gaveup")
  /\ UNCHANGED <<record, disk, tags, req, work, web>>

(* What a scan makes of the audio on disk.                                 *)
Scanned ==
  IF M4b \notin folder THEN plays ELSE IF watched THEN <<>> ELSE <<M4b>>

ScanBack(c) ==
  /\ \/ pc[c] = "settling" /\ Go(c, "reading")
     \/ pc[c] = "tagscan" /\ Go(c, "tagread")
  /\ plays' = Scanned
  /\ known' = tagged
  /\ UNCHANGED <<locks, chapters, main, library, disk, tagging, tagged, req, work, web>>

(* The book plays the one m4b; or the files merged still play, and the     *)
(* merge failed; or it is scanned again.                                   *)
Merged(c) ==
  /\ pc[c] = "reading"
  /\ plays = <<M4b>>
  /\ Finish(c, "merged")
  /\ UNCHANGED <<record, disk, tags, req, work, web>>

(* Mutant: whatever the book plays but the m4b is a merge that failed.     *)
UnmergedAtOnce(c) ==
  /\ pc[c] = "reading"
  /\ plays # <<M4b>>
  /\ Finish(c, "unmerged")
  /\ UNCHANGED <<record, disk, tags, req, work, web>>

Unmerged(c) ==
  /\ pc[c] = "reading"
  /\ plays = seen[c].plays
  /\ Finish(c, "unmerged")
  /\ UNCHANGED <<record, disk, tags, req, work, web>>

Unsettled(c) == pc[c] = "reading" /\ plays \notin {<<M4b>>, seen[c].plays}

ScanAgain(c) ==
  /\ Unsettled(c)
  /\ Go(c, "settling")
  /\ UNCHANGED <<locks, record, disk, tags, req, work, web>>

(* Half a minute is up: by then the watcher, whose own scan runs ten       *)
(* seconds after the merge, has let go of the file and the book has been   *)
(* read since.                                                             *)
SettleEnds(c) ==
  /\ Unsettled(c)
  /\ ~watched
  /\ plays = Scanned
  /\ Finish(c, "unmerged")
  /\ UNCHANGED <<record, disk, tags, req, work, web>>

-----------------------------------------------------------------------------
(* The embedding of tags holds nothing.                                    *)
StartEmbed(c) ==
  /\ pc[c] = "idle"
  /\ req[c].op = "embed"
  /\ tagging' = TRUE
  /\ \E step \in {"tagwait", "failed"} : Go(c, step)
  /\ UNCHANGED <<locks, record, disk, tagged, known, req, work, web>>

(* Mutant: the tags are judged as they were before the scan.               *)
TagReadEarly(c) ==
  /\ pc[c] = "tagscan"
  /\ Finish(c, "embedded")
  /\ UNCHANGED <<record, disk, tags, req, work, web>>

TagRead(c) ==
  /\ pc[c] = "tagread"
  /\ Finish(c, IF known THEN "embedded" ELSE "differs")
  /\ UNCHANGED <<record, disk, tags, req, work, web>>

-----------------------------------------------------------------------------
(* item_edit: the order names every track once, and an ebook is one of the *)
(* book's; both are planned before anything is sent.                       *)
PlanEdit(c) ==
  /\ pc[c] = "held"
  /\ req[c].op = "edit"
  /\ ToSet(plays) = ToSet(req[c].order)
  /\ req[c].ebook \in library \cup {None, Keep}
  /\ See(c)
  /\ Go(c, "change")
  /\ UNCHANGED <<locks, record, disk, tags, req, done, web>>

(* The steps of an edit that have something to do.  Chapters cut along the *)
(* files move with them.                                                   *)
Asked(c) ==
  {s \in {"tracks", "chapters", "ebook"} :
     \/ s \in {"tracks", "chapters"} /\ req[c].order # seen[c].plays
          /\ (s = "chapters" => Len(seen[c].chapters) = Len(seen[c].plays))
     \/ s = "ebook" /\ req[c].ebook \notin {Keep, seen[c].main}}

Due(c, step) ==
  /\ pc[c] = "change"
  /\ step \in Asked(c) \ done[c]
  /\ step # "tracks" => "tracks" \notin Asked(c) \ done[c]
  /\ step = "ebook"  => "chapters" \notin Asked(c) \ done[c]

(* The server plays those of the files it is given that the record has:    *)
(* all of them, or none once a merge has put its m4b in their place.       *)
Reordered(c) ==
  /\ plays' = IF ToSet(req[c].order) \subseteq ToSet(plays) THEN req[c].order ELSE <<>>
  /\ UNCHANGED <<chapters, main, library>>

(* Each chapter goes where its track goes.                                 *)
ChaptersMoved(c) ==
  /\ chapters' = [n \in DOMAIN req[c].order |->
       seen[c].chapters[CHOOSE m \in DOMAIN seen[c].plays :
                          seen[c].plays[m] = req[c].order[n]]]
  /\ UNCHANGED <<plays, main, library>>

(* The ebook route flips the file it is given between main and not.        *)
Flips(file) ==
  /\ file \in library
  /\ main' = IF main = file THEN None ELSE file
  /\ UNCHANGED <<plays, chapters, library>>

Flip(c) == Flips(IF req[c].ebook = None THEN seen[c].main ELSE req[c].ebook)

(* The answer to the order is looked at.                                   *)
Reorder(c) ==
  /\ Due(c, "tracks")
  /\ Reordered(c)
  /\ Did(c, "tracks")
  /\ IF plays' = req[c].order THEN UNCHANGED <<locks, pc>> ELSE Finish(c, "failed")
  /\ UNCHANGED <<disk, tags, req, seen, web>>

(* Mutant: the chapters are left where they were.                          *)
LeaveChapters(c) ==
  /\ Due(c, "chapters")
  /\ Did(c, "chapters")
  /\ UNCHANGED <<locks, pc, record, disk, tags, req, seen, web>>

MoveChapters(c) ==
  /\ Due(c, "chapters")
  /\ ChaptersMoved(c)
  /\ Did(c, "chapters")
  /\ UNCHANGED <<locks, pc, disk, tags, req, seen, web>>

FlipEbook(c) ==
  /\ Due(c, "ebook")
  /\ Flip(c)
  /\ Did(c, "ebook")
  /\ Go(c, "flipped")
  /\ UNCHANGED <<locks, disk, tags, req, seen, web>>

ReadEbook(c) ==
  /\ pc[c] = "flipped"
  /\ Finish(c, IF main = req[c].ebook THEN "ok" ELSE "failed")
  /\ UNCHANGED <<record, disk, tags, req, work, web>>

EditEnds(c) ==
  /\ pc[c] = "change"
  /\ Asked(c) \subseteq done[c]
  /\ Finish(c, "ok")
  /\ UNCHANGED <<record, disk, tags, req, work, web>>

(* A request that fails may have landed; nothing after it is sent.         *)
EditFails(c) ==
  /\ \/ UNCHANGED record /\ \E step \in Asked(c) : Due(c, step)
     \/ Due(c, "tracks") /\ Reordered(c)
     \/ Due(c, "chapters") /\ ChaptersMoved(c)
     \/ Due(c, "ebook") /\ Flip(c)
  /\ Finish(c, "failed")
  /\ UNCHANGED <<disk, tags, req, work, web>>

-----------------------------------------------------------------------------
(* item_chapters_set holds nothing: the book's own chapters fitted to its  *)
(* audio, or a list of others.                                             *)
StartSet(c) ==
  /\ pc[c] = "idle"
  /\ req[c].op \in {"fit", "chapters"}
  /\ See(c)
  /\ Go(c, "set")
  /\ UNCHANGED <<locks, record, disk, tags, req, done, web>>

SetChapters(c) ==
  /\ pc[c] = "set"
  /\ chapters' = IF req[c].op = "fit" THEN seen[c].chapters ELSE <<New>>
  /\ \E how \in {"ok", "failed"} : Finish(c, how)
  /\ UNCHANGED <<plays, main, library, disk, tags, req, work, web>>

(* item_delete with file: the server takes the file off the book, whether  *)
(* or not it can take it off the disk; then the disk is looked at, by an   *)
(* account that may.                                                       *)
PlanErase(c) ==
  /\ pc[c] = "held"
  /\ req[c].op = "file"
  /\ req[c].ebook \in library
  /\ Go(c, "erase")
  /\ UNCHANGED <<locks, record, disk, tags, req, work, web>>

Erase(c) ==
  /\ pc[c] = "erase"
  /\ req[c].ebook \in library
  /\ library' = library \ {req[c].ebook}
  /\ main'    = IF main = req[c].ebook THEN None ELSE main
  /\ folder'  \in {folder, folder \ {req[c].ebook}}
  /\ \/ Go(c, "look") /\ UNCHANGED locks
     \/ \E how \in {"unchecked", "failed"} : Finish(c, how)
  /\ UNCHANGED <<plays, chapters, encoding, watched, tags, req, work, web>>

LookOnDisk(c) ==
  /\ pc[c] = "look"
  /\ Finish(c, IF req[c].ebook \in folder THEN "failed" ELSE "erased")
  /\ UNCHANGED <<record, disk, tags, req, work, web>>

(* A request that did not land, or a read of what a call waits for.        *)
RequestFails(c) ==
  /\ pc[c] \in {"start", "waiting", "settling", "reading", "cancel", "tagwait", "tagscan",
               "tagread", "flipped", "set", "erase", "look"}
  /\ Finish(c, "failed")
  /\ UNCHANGED <<record, disk, tags, req, work, web>>

-----------------------------------------------------------------------------
(* The server's own work.  A merge needs the files it was given, moves     *)
(* them out of the folder, and its task goes whether it worked or not.     *)
EncodeEnds ==
  /\ encoding # <<>>
  /\ \/ /\ ToSet(encoding) \subseteq folder
        /\ folder'  = (folder \ ToSet(encoding)) \cup {M4b}
        /\ watched' = TRUE
     \/ UNCHANGED <<folder, watched>>
  /\ encoding' = <<>>
  /\ UNCHANGED <<locks, record, tags, pc, req, work, web>>

WatcherScans ==
  /\ watched
  /\ watched' = FALSE
  /\ plays' = <<M4b>>
  /\ UNCHANGED <<locks, chapters, main, library, folder, encoding, tags, pc, req, work, web>>

TaggingEnds ==
  /\ tagging
  /\ tagging' = FALSE
  /\ tagged' \in {tagged, TRUE}
  /\ UNCHANGED <<locks, record, disk, known, pc, req, work, web>>

(* The web app holds no lock.                                              *)
WebChange ==
  /\ budget > 0
  /\ \/ \E o \in Orders : ToSet(o) = ToSet(plays) /\ plays' = o
                            /\ UNCHANGED <<chapters, main, library>>
     \/ chapters' = <<New>> /\ UNCHANGED <<plays, main, library>>
     \/ \E e \in Ebooks : Flips(e)
  /\ touched' = TRUE
  /\ budget'  = budget - 1
  /\ UNCHANGED <<locks, disk, tags, pc, req, work>>

(* What a call does when nothing fails.                                    *)
Works(c) ==
  \/ StartMerge(c) \/ SeenRunning(c) \/ StartCancel(c) \/ CancelEncode(c)
  \/ StartHeld(c) \/ Enter(c) \/ Refuse(c)
  \/ PlanMerge(c) \/ StartEncode(c) \/ WaitOver(c) \/ GiveUpWaiting(c)
  \/ ScanBack(c) \/ Merged(c) \/ Unmerged(c) \/ ScanAgain(c) \/ SettleEnds(c)
  \/ StartEmbed(c) \/ TagRead(c)
  \/ PlanEdit(c) \/ Reorder(c) \/ MoveChapters(c) \/ FlipEbook(c) \/ ReadEbook(c)
  \/ EditEnds(c)
  \/ StartSet(c) \/ SetChapters(c)
  \/ PlanErase(c) \/ Erase(c) \/ LookOnDisk(c)

Next ==
  \/ \E c \in Calls : Works(c) \/ EditFails(c) \/ RequestFails(c)
  \/ EncodeEnds \/ WatcherScans \/ TaggingEnds
  \/ WebChange

Spec == Init /\ [][Next]_vars

(* A call goes on, though no request of it need ever fail; the watcher     *)
(* scans what it holds; and the half minute passes however often the book  *)
(* is read.  The server need never end a task.                             *)
Fairness ==
  /\ \A c \in Calls : WF_vars(Works(c)) /\ SF_vars(SettleEnds(c))
  /\ WF_vars(WatcherScans)

FairSpec == Spec /\ Fairness

-----------------------------------------------------------------------------
Ends(c, how) == pc[c] # how /\ pc'[c] = how

(* A merge that made its m4b is never told as one that failed, though for  *)
(* some seconds after it the book reads as holding no audio (items.go:     *)
(* "The files merged still playing is a merge that failed; anything else   *)
(* is waited out").                                                        *)
NoFalseFailure ==
  [][\A c \in Calls : Ends(c, "unmerged") => M4b \notin folder]_vars

(* The server is told to merge a book it is merging only after another     *)
(* call's wait for that merge was given up or failed: whether one runs is  *)
(* looked at before the book is held, so only the book's lock, kept until  *)
(* the merge is read back, and a plan made once it is held, tell two calls *)
(* apart.                                                                  *)
OneMergeAtATime ==
  [][\A c \in Calls : Ends(c, "waiting") /\ encoding # <<>> =>
       \E d \in Calls : req[d].op = "merge" /\ pc[d] \in {"gaveup", "failed"}]_vars

(* What a call answers is so when it answers: a book told merged plays the *)
(* one m4b, tags told embedded are in the files, a file told erased is off *)
(* the disk, an edit told done left the ebook and the order asked for.     *)
AnswersAreSo ==
  [][\A c \in Calls :
       /\ Ends(c, "merged")   => plays = <<M4b>> /\ M4b \in folder
       /\ Ends(c, "embedded") => tagged
       /\ Ends(c, "erased")   => req[c].ebook \notin folder \cup library
       /\ Ends(c, "ok") /\ req[c].op = "edit" /\ ~touched =>
            /\ req[c].ebook \in {Keep, main}
            /\ M4b \notin folder => plays = req[c].order]_vars

(* When all calls have ended and none of them failed or set chapters, the  *)
(* chapters of a book whose tracks were reordered, by one call or by       *)
(* several, are in the order of the tracks (chaptersMoved).                *)
Quiet ==
  /\ ~touched
  /\ M4b \notin folder
  /\ \A c \in Calls : pc[c] \in Ended \ {"failed"}

SetsChapters(c) == req[c].op \in {"fit", "chapters"} /\ pc[c] # "refused"

HeldChaptersFollow ==
  Quiet /\ (\A c \in Calls : ~SetsChapters(c)) => chapters = plays

(* The same of a book whose own chapters are fitted to its audio as well:  *)
(* locks.go says that every edit of an item locks it by id, and reads it   *)
(* again once it has the lock.                                             *)
ChaptersFollowTracks ==
  Quiet /\ (\A c \in Calls : req[c].op # "chapters") => chapters = plays

(* Every call comes to an end, though the server never finish a merge or   *)
(* an embed, nor ever show the book settled: the waits are bounded, and    *)
(* who waits for the book gets it when they are over.                      *)
EveryCallEnds == \A c \in Calls : <>(pc[c] \in Ended)
=============================================================================
