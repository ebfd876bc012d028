--------------------------- MODULE BookmarkEdits ---------------------------
(***************************************************************************)
(* The tool calls of one turn that change the bookmarks of the account the *)
(* program acts as: user_bookmark_edit (tools/users.go), and item_delete   *)
(* (tools/items.go), which takes an item's bookmarks off the account       *)
(* before the item goes, since the server will not afterwards.             *)
(*                                                                         *)
(* The server keeps an account's bookmarks as one list, loaded and saved   *)
(* whole by every request that changes one: two requests at once lose a    *)
(* bookmark, on whatever item.  So these calls share one lock of           *)
(* RecordLocks; the web app and the account's players do not.              *)
(***************************************************************************)
EXTENDS Naturals, Sequences

CONSTANTS
  Calls,        (* the calls of a turn                                     *)
  Items,        (* the items of the server                                 *)
  Times,        (* positions in an item, in seconds                        *)
  Titles,       (* names of bookmarks                                      *)
  None,         (* no bookmark                                             *)
  TurnRequests, (* what the calls of a turn may ask                        *)
  MaxOutside,   (* bound: how often the web app changes something          *)
  Bookmarks,    (* the bookmarksLock                                       *)
  Everything    (* what locks.All asks for                                 *)

Records == Items \cup {Bookmarks}
Slots   == Items \X Times
Lists   == [Slots -> Titles \cup {None}]

(* A request: to take bookmarks off an item and put others on it (edit), to*)
(* delete it (delete), or to say what that would take (preview).           *)
Additions == [time : Times, title : Titles]

Request == [kind : {"edit", "delete", "preview"}, item : Items,
            remove : SUBSET Times, add : Seq(Additions)]

(* An edit names no position twice, nor both ways.                         *)
ASSUME BookmarkAssumption ==
  /\ Times \subseteq Nat /\ Times # {}
  /\ None \notin Titles
  /\ TurnRequests \subseteq Request
  /\ \A r \in TurnRequests : \A m, n \in DOMAIN r.add :
       r.add[m].time \notin r.remove /\ (r.add[m].time = r.add[n].time => m = n)
  /\ MaxOutside \in Nat
  /\ Bookmarks \notin Items
  /\ Everything \notin SUBSET Records

VARIABLES
  place, asks,  (* the locks: see RecordLocks                              *)
  exists,       (* the items the server has                                *)
  marks,        (* the account's bookmarks on the server                   *)
  pc,           (* the step each call is at                                *)
  req,          (* what it was asked                                       *)
  seen,         (* the bookmarks as it read them                           *)
  loaded,       (* the list the server works on for the request it sent    *)
  at,           (* the position that request is about                      *)
  off,          (* the positions it has still to clear                     *)
  adds,         (* the bookmarks it has still to add                       *)
  told,         (* the positions its answer says it changed                *)
  gone,         (* the items item_delete took off the server               *)
  touched,      (* the bookmarks the web app changed                       *)
  budget        (* how often it may still do so                            *)

locks  == <<place, asks>>
server == <<exists, marks, gone>>
sent   == <<loaded, at>>
work   == <<seen, off, adds>>
web    == <<touched, budget>>
vars   == <<locks, server, pc, req, sent, work, told, web>>

Locks == INSTANCE RecordLocks WITH Callers <- Calls, Keys <- Records

Ended    == {"ok", "failed"}
AtServer == {"removing", "creating", "renaming"}
Inside   == AtServer \cup {"held", "remove", "add", "rename"}
Steps    == Ended \cup Inside \cup {"idle", "asked"}

TypeOK ==
  /\ Locks!TypeOK
  /\ exists  \subseteq Items
  /\ marks   \in Lists
  /\ gone    \subseteq Items
  /\ pc      \in [Calls -> Steps]
  /\ req     \in [Calls -> TurnRequests]
  /\ seen    \in [Calls -> Lists]
  /\ loaded  \in [Calls -> Lists]
  /\ at      \in [Calls -> Times]
  /\ off     \in [Calls -> SUBSET Times]
  /\ adds    \in [Calls -> Seq(Additions)]
  /\ told    \in [Calls -> SUBSET Times]
  /\ touched \subseteq Slots
  /\ budget  \in 0..MaxOutside

NoMarks == [s \in Slots |-> None]

Init ==
  /\ Locks!Init
  /\ exists  = Items
  /\ marks   \in Lists
  /\ gone    = {}
  /\ pc      = [c \in Calls |-> "idle"]
  /\ req     \in [Calls -> TurnRequests]
  /\ seen    = [c \in Calls |-> NoMarks]
  /\ loaded  = [c \in Calls |-> NoMarks]
  /\ at      = [c \in Calls |-> CHOOSE t \in Times : TRUE]
  /\ off     = [c \in Calls |-> {}]
  /\ adds    = [c \in Calls |-> <<>>]
  /\ told    = [c \in Calls |-> {}]
  /\ touched = {}
  /\ budget  = MaxOutside

Go(c, step) == pc' = [pc EXCEPT ![c] = step]

(* The bookmark a request is about, and what it makes of it.               *)
Slot(c)  == <<req[c].item, at[c]>>
Title(c) == IF pc[c] = "removing" THEN None ELSE Head(adds[c]).title

MarkAt(c, t) == seen[c][<<req[c].item, t>>]

-----------------------------------------------------------------------------
(* Mutants: a call holds the item alone; a delete does.                    *)
HoldsTheItem(r) == {r.item}

DeleteHoldsTheItem(r) == IF r.kind = "edit" THEN {Bookmarks} ELSE {r.item}

(* An edit holds the account's bookmarks, a delete the item as well.       *)
Holds(r) == IF r.kind = "edit" THEN {Bookmarks} ELSE {r.item, Bookmarks}

(* The item is resolved before the hold, and not looked at again.          *)
Start(c) ==
  /\ pc[c] = "idle"
  /\ req[c].item \in exists
  /\ Go(c, "asked")
  /\ Locks!Ask(c, Holds(req[c]))
  /\ UNCHANGED <<server, req, sent, work, told, web>>

Enter(c) ==
  /\ pc[c] = "asked"
  /\ Locks!Enter(c)
  /\ Go(c, "held")
  /\ UNCHANGED <<server, req, sent, work, told, web>>

(* A call returns, and with it the locks go.                               *)
Finish(c, how) ==
  /\ Go(c, how)
  /\ Locks!Gone(c)

(* An edit reads the bookmarks now they are held; one to remove that is    *)
(* not there ends the call before anything is sent.                        *)
CanRemove(c) ==
  \A t \in req[c].remove : marks[<<req[c].item, t>>] # None

ReadToEdit(c) ==
  /\ pc[c] = "held"
  /\ req[c].kind = "edit"
  /\ CanRemove(c)
  /\ seen' = [seen EXCEPT ![c] = marks]
  /\ off'  = [off EXCEPT ![c] = req[c].remove]
  /\ adds' = [adds EXCEPT ![c] = req[c].add]
  /\ Go(c, "remove")
  /\ UNCHANGED <<locks, server, req, sent, told, web>>

(* A delete that is confirmed takes every bookmark on its item off.        *)
ReadToDelete(c) ==
  /\ pc[c] = "held"
  /\ req[c].kind = "delete"
  /\ seen' = [seen EXCEPT ![c] = marks]
  /\ off'  = [off EXCEPT ![c] = {t \in Times : marks[<<req[c].item, t>>] # None}]
  /\ Go(c, "remove")
  /\ UNCHANGED <<locks, server, req, sent, adds, told, web>>

Preview(c) ==
  /\ pc[c] = "held"
  /\ req[c].kind = "preview"
  /\ Finish(c, "ok")
  /\ UNCHANGED <<server, req, sent, work, told, web>>

(* The read fails, a bookmark to remove is not there, or the account may   *)
(* not delete.                                                             *)
GiveUp(c) ==
  /\ pc[c] = "held"
  /\ Finish(c, "failed")
  /\ UNCHANGED <<server, req, sent, work, told, web>>

-----------------------------------------------------------------------------
(* A request to the server: the server loads the account's list, and saves *)
(* it with the one bookmark changed.                                       *)
Send(c, t, step) ==
  /\ at'     = [at EXCEPT ![c] = t]
  /\ loaded' = [loaded EXCEPT ![c] = marks]
  /\ Go(c, step)
  /\ UNCHANGED <<locks, server, req, work, told, web>>

(* It refuses one for an item it no longer has, and to remove or rename a  *)
(* bookmark that is not there.                                             *)
Serves(c) ==
  /\ req[c].item \in exists
  /\ pc[c] # "creating" => loaded[c][Slot(c)] # None

Save(c) ==
  /\ Serves(c)
  /\ marks' = [loaded[c] EXCEPT ![Slot(c)] = Title(c)]

(* A request that fails may have landed: a proxy gave up on it first.      *)
FailedSave(c) == Save(c) \/ UNCHANGED marks

(* Mutant: nothing is said of a removal.                                   *)
RemovedUntold(c) ==
  /\ pc[c] = "removing"
  /\ Save(c)
  /\ off' = [off EXCEPT ![c] = @ \ {at[c]}]
  /\ Go(c, "remove")
  /\ UNCHANGED <<locks, exists, gone, req, sent, seen, adds, told, web>>

(* The removals, an edit's in order of position.                           *)
SendRemove(c) ==
  /\ pc[c] = "remove"
  /\ \E t \in off[c] :
       /\ req[c].kind = "edit" => \A u \in off[c] : t <= u
       /\ Send(c, t, "removing")

Removed(c) ==
  /\ pc[c] = "removing"
  /\ Save(c)
  /\ off'  = [off EXCEPT ![c] = @ \ {at[c]}]
  /\ told' = [told EXCEPT ![c] = @ \cup {at[c]}]
  /\ Go(c, "remove")
  /\ UNCHANGED <<locks, exists, gone, req, sent, seen, adds, web>>

(* A removal that fails ends the call, and so does a rename.               *)
SaveFails(c) ==
  /\ pc[c] \in {"removing", "renaming"}
  /\ FailedSave(c)
  /\ Finish(c, "failed")
  /\ UNCHANGED <<exists, gone, req, sent, work, told, web>>

(* What was removed is read back before anything is added.                 *)
AllRemoved(c) == pc[c] = "remove" /\ req[c].kind = "edit" /\ off[c] = {}

StillThere(c) == \E t \in told[c] : marks[<<req[c].item, t>>] # None

ReadBack(c) ==
  /\ AllRemoved(c)
  /\ ~StillThere(c)
  /\ Go(c, "add")
  /\ UNCHANGED <<locks, server, req, sent, work, told, web>>

ReadBackFails(c) ==
  /\ AllRemoved(c)
  /\ told[c] # {}
  /\ Finish(c, "failed")
  /\ UNCHANGED <<server, req, sent, work, told, web>>

(* One that is still there ends the call with an error that names it alone *)
(* and none of the others.                                                 *)
FoundStillThere(c) ==
  /\ AllRemoved(c)
  /\ StillThere(c)
  /\ told' = [told EXCEPT ![c] = {}]
  /\ Finish(c, "failed")
  /\ UNCHANGED <<server, req, sent, work, web>>

-----------------------------------------------------------------------------
(* The additions, in the order given: a new bookmark, or a rename of the   *)
(* one that was there when the bookmarks were read.                        *)
SendCreate(c) ==
  /\ pc[c] = "add"
  /\ adds[c] # <<>>
  /\ MarkAt(c, Head(adds[c]).time) = None
  /\ Send(c, Head(adds[c]).time, "creating")

SendRename(c) ==
  /\ adds[c] # <<>>
  /\ \/ pc[c] = "add" /\ MarkAt(c, Head(adds[c]).time) # None
     \/ pc[c] = "rename"
  /\ Send(c, Head(adds[c]).time, "renaming")

Added(c) ==
  /\ pc[c] \in {"creating", "renaming"}
  /\ Save(c)
  /\ adds' = [adds EXCEPT ![c] = Tail(@)]
  /\ told' = [told EXCEPT ![c] = @ \cup {at[c]}]
  /\ Go(c, "add")
  /\ UNCHANGED <<locks, exists, gone, req, sent, seen, off, web>>

(* A bookmark that could not be added was made meanwhile by another client *)
(* and is renamed.                                                         *)
CreateFails(c) ==
  /\ pc[c] = "creating"
  /\ FailedSave(c)
  /\ Go(c, "rename")
  /\ UNCHANGED <<locks, exists, gone, req, sent, work, told, web>>

AllAdded(c) ==
  /\ pc[c] = "add"
  /\ adds[c] = <<>>
  /\ Finish(c, "ok")
  /\ UNCHANGED <<server, req, sent, work, told, web>>

(* item_delete: the item, once its bookmarks are off the account.          *)
Delete(c) ==
  /\ pc[c] = "remove"
  /\ req[c].kind = "delete"
  /\ off[c] = {}
  /\ req[c].item \in exists
  /\ exists' = exists \ {req[c].item}
  /\ gone'   = gone \cup {req[c].item}
  /\ \E how \in Ended : Finish(c, how)
  /\ UNCHANGED <<marks, req, sent, work, told, web>>

DeleteFails(c) ==
  /\ pc[c] = "remove"
  /\ req[c].kind = "delete"
  /\ off[c] = {}
  /\ Finish(c, "failed")
  /\ UNCHANGED <<server, req, sent, work, told, web>>

-----------------------------------------------------------------------------
(* The web app and the account's players hold no lock.                     *)
WebMark(s) ==
  /\ budget > 0
  /\ \E title \in Titles \cup {None} : marks' = [marks EXCEPT ![s] = title]
  /\ touched' = touched \cup {s}
  /\ budget'  = budget - 1
  /\ UNCHANGED <<locks, exists, gone, pc, req, sent, work, told>>

WebDelete(i) ==
  /\ budget > 0
  /\ i \in exists
  /\ exists' = exists \ {i}
  /\ budget' = budget - 1
  /\ UNCHANGED <<locks, marks, gone, pc, req, sent, work, told, touched>>

Step(c) ==
  \/ Enter(c)
  \/ ReadToEdit(c)
  \/ ReadToDelete(c)
  \/ Preview(c)
  \/ GiveUp(c)
  \/ SendRemove(c)
  \/ Removed(c)
  \/ SaveFails(c)
  \/ ReadBack(c)
  \/ ReadBackFails(c)
  \/ FoundStillThere(c)
  \/ SendCreate(c)
  \/ SendRename(c)
  \/ Added(c)
  \/ CreateFails(c)
  \/ AllAdded(c)
  \/ Delete(c)
  \/ DeleteFails(c)

Next ==
  \/ \E c \in Calls : Start(c) \/ Step(c)
  \/ \E s \in Slots : WebMark(s)
  \/ \E i \in Items : WebDelete(i)

Spec == Init /\ [][Next]_vars

-----------------------------------------------------------------------------
(* A bookmark changes only as a call that holds the account's bookmarks    *)
(* was asked to change it, or by the web app: no save of a list another    *)
(* request has changed meanwhile takes a bookmark with it (users.go: "the  *)
(* server keeps an account's bookmarks as one list, read and saved whole   *)
(* by every add and removal").                                             *)
WebStep == budget' # budget

AskedOf(r, s, value) ==
  /\ s[1] = r.item
  /\ \/ value = None /\ (r.kind = "delete" \/ s[2] \in r.remove)
     \/ \E n \in DOMAIN r.add : r.add[n] = [time |-> s[2], title |-> value]

ChangedBy(c, s) ==
  /\ place[c] = "in"
  /\ Bookmarks \in asks[c]
  /\ AskedOf(req[c], s, marks'[s])

NoBookmarkLost ==
  [][\A s \in Slots \ touched : marks'[s] # marks[s] =>
       WebStep \/ \E c \in Calls : ChangedBy(c, s)]_vars

(* An item item_delete took away leaves no bookmark of the account behind, *)
(* where nothing could remove it (docs/README.md: "Deleting an item leaves *)
(* them there"), unless the web app put one there.                         *)
NoOrphans ==
  \A s \in Slots \ touched : s[1] \in gone => marks[s] = None

(* However a call ends, what it says it changed is so, and what it changed *)
(* it says, but for the request that failed.                               *)
Ends(c) == pc[c] \in Inside \ {"held"} /\ pc'[c] \in Ended

Failed(c, s) == pc[c] \in AtServer /\ s = Slot(c)

Says(c, s) == s[1] = req[c].item /\ s[2] \in told[c]

AnswerCovers(c) ==
  \A s \in Slots \ touched :
    marks'[s] # seen[c][s] => Says(c, s)' \/ Failed(c, s)

AnswerIsSo(c) ==
  \A s \in Slots \ touched : Says(c, s)' => AskedOf(req[c], s, marks'[s])

AnswerIsTrue ==
  [][\A c \in Calls : Ends(c) =>
       AnswerIsSo(c) /\ (told'[c] = told[c] => AnswerCovers(c))]_vars
=============================================================================
