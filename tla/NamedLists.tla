----------------------------- MODULE NamedLists -----------------------------
(***************************************************************************)
(* The tool calls of one turn that change the collections and playlists of *)
(* one library: collection_create, _edit and _delete (collections.go),     *)
(* playlist_create, also from a collection, _edit and _delete              *)
(* (playlists.go).                                                         *)
(*                                                                         *)
(* Only an edit holds a lock of RecordLocks, the list's own.  A name is    *)
(* looked for in a listing before it is given, with nothing held.  The     *)
(* server takes a batch of entries in one request, leaves out what it      *)
(* cannot use without a word, and deletes a playlist it empties.           *)
(***************************************************************************)
EXTENDS Naturals, FiniteSets

CONSTANTS
  Calls,        (* the calls of a turn                                     *)
  Collections,  (* ids of collections                                      *)
  Playlists,    (* ids of the account's playlists                          *)
  Names,        (* what a list may be called                               *)
  Entries,      (* books and episodes, resolved                            *)
  None,         (* no list, no name                                        *)
  TurnRequests, (* what the calls of a turn may ask                        *)
  FirstLists,   (* the lists as a turn may find them                       *)
  MaxOutside,   (* bound: how often the web app changes a list             *)
  Everything    (* what locks.All asks for                                 *)

Ids    == Collections \cup Playlists
List   == [name : Names, entries : SUBSET Entries]
States == [Ids -> List \cup {None}]

(* To create a list, to make a playlist of a collection (copy), to edit or *)
(* to delete one, named by id or by name.                                  *)
Request == [op : {"create", "copy", "edit", "delete"},
            kind : {"collection", "playlist"}, list : Ids \cup Names \cup {None},
            name : Names \cup {None}, describe : BOOLEAN,
            add : SUBSET Entries, remove : SUBSET Entries]

ASSUME ListsAssumption ==
  /\ Collections \cap Playlists = {}
  /\ None \notin Names \cup List \cup Ids
  /\ Ids \cap Names = {}
  /\ TurnRequests \subseteq Request
  /\ \A r \in TurnRequests : r.op = "create" => r.name # None
  /\ \A r \in TurnRequests : r.op = "copy" => r.kind = "playlist"
  /\ FirstLists \subseteq States
  /\ MaxOutside \in Nat
  /\ Everything \notin SUBSET Ids

VARIABLES
  place, asks,  (* the locks: see RecordLocks                              *)
  lists,        (* the lists on the server                                 *)
  born,         (* the ids it has given                                    *)
  deleting,     (* whether the delete tools are switched on                *)
  pc,           (* the step each call is at                                *)
  req,          (* what it was asked                                       *)
  on,           (* the list it found or made                               *)
  want,         (* the name it is to give                                  *)
  seen,         (* the entries it read once it held the list               *)
  done,         (* the changes an error of its would name                  *)
  stood,        (* the lists that have kept their names since it began     *)
  touched,      (* the lists the web app changed                           *)
  budget        (* how often it may still do so                            *)

locks  == <<place, asks>>
server == <<lists, born>>
work   == <<on, want, seen, done>>
fixed  == <<deleting, req>>
web    == <<touched, budget>>
vars   == <<locks, server, pc, work, fixed, web, stood>>

Locks == INSTANCE RecordLocks WITH Callers <- Calls, Keys <- Ids

Ended  == {"ok", "deleted", "refused", "failed"}
Inside == {"held", "plan", "change", "readback"}
Steps  == Ended \cup Inside
            \cup {"idle", "asked", "names", "create", "copy", "rename", "delete", "deletion"}

TypeOK ==
  /\ Locks!TypeOK
  /\ lists    \in States
  /\ born     \subseteq Ids
  /\ deleting \in BOOLEAN
  /\ pc       \in [Calls -> Steps]
  /\ req      \in [Calls -> TurnRequests]
  /\ on       \in [Calls -> Ids \cup {None}]
  /\ want     \in [Calls -> Names \cup {None}]
  /\ seen     \in [Calls -> SUBSET Entries]
  /\ done     \in [Calls -> SUBSET {"update", "add"}]
  /\ stood    \in [Calls -> SUBSET Ids]
  /\ touched  \subseteq Ids
  /\ budget   \in 0..MaxOutside

Init ==
  /\ Locks!Init
  /\ lists    \in FirstLists
  /\ born     = {i \in Ids : lists[i] # None}
  /\ deleting \in BOOLEAN
  /\ pc       = [c \in Calls |-> "idle"]
  /\ req      \in [Calls -> TurnRequests]
  /\ on       = [c \in Calls |-> None]
  /\ want     = [c \in Calls |-> None]
  /\ seen     = [c \in Calls |-> {}]
  /\ done     = [c \in Calls |-> {}]
  /\ stood    = [c \in Calls |-> {}]
  /\ touched  = {}
  /\ budget   = MaxOutside

Of(kind)   == IF kind = "collection" THEN Collections ELSE Playlists
Live(kind) == {i \in Of(kind) : lists[i] # None}
Go(c, step) == pc' = [pc EXCEPT ![c] = step]
Found(c, i) == on' = [on EXCEPT ![c] = i]
Wants(c, n) == want' = [want EXCEPT ![c] = n]
Did(c, step) == done' = [done EXCEPT ![c] = @ \cup {step}]

Named(kind, n) == {i \in Live(kind) : lists[i].name = n}

(* The lists of a call's kind that have had one name ever since it began: a*)
(* history, which no step depends on.                                      *)
KeepsName(i) == lists'[i] # None /\ lists'[i].name = lists[i].name

Standing ==
  stood' = [c \in Calls |-> IF pc[c] = "idle" THEN Live(req[c].kind)'
                            ELSE {i \in stood[c] : KeepsName(i)}]

(* What every step of a call leaves as it is.                              *)
Beside == UNCHANGED <<fixed, web>> /\ Standing

(* Once it holds a list a call ends by letting go of it.                   *)
Finish(c, how) ==
  /\ Go(c, how)
  /\ IF pc[c] \in Inside THEN Locks!Gone(c) ELSE UNCHANGED locks

-----------------------------------------------------------------------------
(* The list a call is about: an id the server knows, or the only list of a *)
(* name.  A copy is about a collection.                                    *)
Resolved(r) ==
  LET kind == IF r.op = "copy" THEN "collection" ELSE r.kind IN
    IF r.list \in Ids THEN Live(kind) \cap {r.list} ELSE Named(kind, r.list)

(* Mutant: nothing is held while a list is edited.                         *)
HoldsNothing(i) == {}

Holds(i) == {i}

StartEdit(c) ==
  /\ pc[c] = "idle"
  /\ req[c].op = "edit"
  /\ \E i \in Ids :
       /\ Resolved(req[c]) = {i}
       /\ Found(c, i)
       /\ Locks!Ask(c, Holds(i))
  /\ Wants(c, req[c].name)
  /\ Go(c, "asked")
  /\ UNCHANGED <<server, seen, done>>
  /\ Beside

StartDelete(c) ==
  /\ pc[c] = "idle"
  /\ req[c].op = "delete"
  /\ deleting
  /\ \E i \in Ids : Resolved(req[c]) = {i} /\ Found(c, i)
  /\ Go(c, "delete")
  /\ UNCHANGED <<locks, server, want, seen, done>>
  /\ Beside

(* A copy that is given no name is looked for by its collection's.         *)
StartCopy(c) ==
  /\ pc[c] = "idle"
  /\ req[c].op = "copy"
  /\ \E i \in Ids :
       /\ Resolved(req[c]) = {i}
       /\ Found(c, i)
       /\ Wants(c, IF req[c].name = None THEN lists[i].name ELSE req[c].name)
  /\ Go(c, "names")
  /\ UNCHANGED <<locks, server, seen, done>>
  /\ Beside

StartCreate(c) ==
  /\ pc[c] = "idle"
  /\ req[c].op = "create"
  /\ req[c].kind = "collection" => req[c].add # {}
  /\ Wants(c, req[c].name)
  /\ Go(c, "names")
  /\ UNCHANGED <<locks, server, on, seen, done>>
  /\ Beside

Enter(c) ==
  /\ pc[c] = "asked"
  /\ Locks!Enter(c)
  /\ Go(c, "held")
  /\ UNCHANGED <<server, work>>
  /\ Beside

(* What a list holds is judged once it is held.                            *)
Read(c) ==
  /\ pc[c] = "held"
  /\ lists[on[c]] # None
  /\ seen' = [seen EXCEPT ![c] = lists[on[c]].entries]
  /\ Go(c, "plan")
  /\ UNCHANGED <<locks, server, on, want, done>>
  /\ Beside

(* Mutant: an edit does not look whether its name is another list's.       *)
TakenByNone(c) ==
  IF req[c].op = "edit" THEN {} ELSE Named(req[c].kind, want[c])

(* The other lists that bear the name a call is to give, as a listing shows*)
(* them.                                                                   *)
Taken(c) ==
  Named(req[c].kind, want[c]) \ (IF req[c].op = "edit" THEN {on[c]} ELSE {})

LookForName(c) ==
  /\ pc[c] = "names"
  /\ Taken(c) = {}
  /\ Go(c, req[c].op)
  /\ UNCHANGED <<locks, server, work>>
  /\ Beside

(* What there is to do: entries it holds are not added again, nor removed  *)
(* where it holds none.                                                    *)
Add(c)    == req[c].add \ seen[c]
Remove(c) == req[c].remove \cap seen[c]

(* Mutant: an edit may empty a playlist whatever the program was started   *)
(* with.                                                                   *)
MayAlways(c) == TRUE

(* To empty a playlist is to delete it.                                    *)
MayEmpty(c) ==
  \/ deleting
  \/ req[c].kind = "collection"
  \/ Remove(c) = {}
  \/ (seen[c] \cup Add(c)) \ Remove(c) # {}

(* The name and every entry are looked up before anything is sent.         *)
Plan(c) ==
  /\ pc[c] = "plan"
  /\ want[c] # None => Taken(c) = {}
  /\ req[c].add \cap req[c].remove = {}
  /\ MayEmpty(c)
  /\ Go(c, "change")
  /\ UNCHANGED <<locks, server, work>>
  /\ Beside

(* What was named is not found or is no one list, a name is taken, a read  *)
(* fails, or there is nothing the call may do.                             *)
Refuse(c) ==
  /\ pc[c] \in {"idle", "held", "names", "plan"}
  /\ Finish(c, "refused")
  /\ UNCHANGED <<server, work>>
  /\ Beside

-----------------------------------------------------------------------------
(* What is left of an edit: the name or the description, then the entries  *)
(* to add, then those to remove.                                           *)
Asked(c) ==
  {s \in {"update", "add", "remove"} :
     \/ s = "update" /\ (req[c].name # None \/ req[c].describe)
     \/ s = "add"    /\ Add(c) # {}
     \/ s = "remove" /\ Remove(c) # {}}

Due(c, step) ==
  /\ pc[c] = "change"
  /\ step \in Asked(c) \ done[c]
  /\ step # "update" => "update" \notin Asked(c) \ done[c]
  /\ step = "remove" => "add" \notin Asked(c) \ done[c]

(* What the server does of a request, where it still has the list.         *)
Put(i, list) == lists' = [lists EXCEPT ![i] = list] /\ UNCHANGED born

Renamed(i, n) ==
  /\ lists[i] # None
  /\ Put(i, [lists[i] EXCEPT !.name = IF n = None THEN @ ELSE n])

Added(i, some) ==
  /\ lists[i] # None
  /\ Put(i, [lists[i] EXCEPT !.entries = @ \cup some])

Removed(i, some) ==
  /\ lists[i] # None
  /\ LET left == [lists[i] EXCEPT !.entries = @ \ some] IN
       Put(i, IF i \in Playlists /\ left.entries = {} THEN None ELSE left)

Update(c) ==
  /\ Due(c, "update")
  /\ Renamed(on[c], req[c].name)
  /\ Did(c, "update")
  /\ UNCHANGED <<locks, pc, on, want, seen>>
  /\ Beside

AddBatch(c) ==
  /\ Due(c, "add")
  /\ \E some \in SUBSET Add(c) : Added(on[c], some)
  /\ Add(c) \subseteq lists'[on[c]].entries
  /\ Did(c, "add")
  /\ UNCHANGED <<locks, pc, on, want, seen>>
  /\ Beside

(* The server took the batch, and an entry is not there afterwards.        *)
AddBatchShort(c) ==
  /\ Due(c, "add")
  /\ \E some \in SUBSET Add(c) : Added(on[c], some)
  /\ ~(Add(c) \subseteq lists'[on[c]].entries)
  /\ Finish(c, "failed")
  /\ UNCHANGED <<work>>
  /\ Beside

(* A collection's answer is looked at; a playlist is read back, since its  *)
(* answer is the playlist before the server deleted it.                    *)
RemoveBooks(c) ==
  /\ Due(c, "remove")
  /\ req[c].kind = "collection"
  /\ \E some \in SUBSET Remove(c) : Removed(on[c], some)
  /\ Finish(c, IF Remove(c) \cap lists'[on[c]].entries = {} THEN "ok" ELSE "failed")
  /\ UNCHANGED <<work>>
  /\ Beside

RemoveEntries(c) ==
  /\ Due(c, "remove")
  /\ req[c].kind = "playlist"
  /\ \E some \in SUBSET Remove(c) : Removed(on[c], some)
  /\ Go(c, "readback")
  /\ UNCHANGED <<locks, work>>
  /\ Beside

(* Mutant: a removal the server accepted is taken to be done.              *)
ReadBackUnchecked(c) ==
  /\ pc[c] = "readback"
  /\ Finish(c, "ok")
  /\ UNCHANGED <<server, work>>
  /\ Beside

ReadBack(c) ==
  /\ pc[c] = "readback"
  /\ lists[on[c]] # None
  /\ Finish(c, IF Remove(c) \cap lists[on[c]].entries = {} THEN "ok" ELSE "failed")
  /\ UNCHANGED <<server, work>>
  /\ Beside

ReadBackGone(c) ==
  /\ pc[c] = "readback"
  /\ lists[on[c]] = None
  /\ Finish(c, "deleted")
  /\ UNCHANGED <<server, work>>
  /\ Beside

ReadBackFails(c) ==
  /\ pc[c] = "readback"
  /\ Finish(c, "failed")
  /\ UNCHANGED <<server, work>>
  /\ Beside

(* A request that fails may have landed; nothing after it is sent.         *)
ChangeFails(c) ==
  /\ \/ UNCHANGED server /\ \E step \in Asked(c) : Due(c, step)
     \/ Due(c, "update") /\ Renamed(on[c], req[c].name)
     \/ Due(c, "add") /\ Added(on[c], Add(c))
     \/ Due(c, "remove") /\ Removed(on[c], Remove(c))
  /\ Finish(c, "failed")
  /\ UNCHANGED <<work>>
  /\ Beside

EditEnds(c) ==
  /\ pc[c] = "change"
  /\ Asked(c) \subseteq done[c]
  /\ Finish(c, "ok")
  /\ UNCHANGED <<server, work>>
  /\ Beside

-----------------------------------------------------------------------------
(* A new list has an id of its own.                                        *)
Make(c, list) ==
  \E i \in Of(req[c].kind) \ born :
    /\ lists' = [lists EXCEPT ![i] = list]
    /\ born'  = born \cup {i}
    /\ Found(c, i)

NewList(c) == [name |-> want[c], entries |-> req[c].add]

Create(c) ==
  /\ pc[c] = "create"
  /\ Make(c, NewList(c))
  /\ \E how \in {"ok", "failed"} : Finish(c, how)
  /\ UNCHANGED <<want, seen, done>>
  /\ Beside

(* The copy has its collection's name, and its books; a name or description*)
(* asked for is set afterwards, the name where it is not that already.     *)
Copy(c) ==
  /\ pc[c] = "copy"
  /\ lists[on[c]] # None
  /\ Make(c, lists[on[c]])
  /\ Wants(c, IF lists[on[c]].name = want[c] THEN None ELSE want[c])
  /\ \/ Finish(c, "failed")
     \/ Finish(c, IF want'[c] # None \/ req[c].describe THEN "rename" ELSE "ok")
  /\ UNCHANGED <<seen, done>>
  /\ Beside

Rename(c) ==
  /\ pc[c] = "rename"
  /\ Renamed(on[c], want[c])
  /\ \E how \in {"ok", "failed"} : Finish(c, how)
  /\ UNCHANGED <<work>>
  /\ Beside

(* The request is answered, or not, or accepted and nothing done.          *)
Delete(c) ==
  /\ pc[c] = "delete"
  /\ lists[on[c]] # None
  /\ Put(on[c], None) \/ UNCHANGED server
  /\ Go(c, "deletion") \/ Go(c, "failed")
  /\ UNCHANGED <<locks, work>>
  /\ Beside

(* A list deleted is looked for in the listing.                            *)
Deleted(c) ==
  /\ pc[c] = "deletion"
  /\ lists[on[c]] = None
  /\ Finish(c, "deleted")
  /\ UNCHANGED <<server, work>>
  /\ Beside

(* A create or a rename does not land, or a deletion is not seen done.     *)
RequestFails(c) ==
  /\ pc[c] \in {"create", "copy", "rename", "delete", "deletion"}
  /\ Finish(c, "failed")
  /\ UNCHANGED <<server, work>>
  /\ Beside

-----------------------------------------------------------------------------
(* The web app holds no lock.  It may do to a list what a call may.        *)
WebChange(i) ==
  /\ budget > 0
  /\ \/ \E n \in Names : Renamed(i, n)
     \/ \E e \in Entries : Added(i, {e}) \/ Removed(i, {e})
     \/ lists[i] # None /\ Put(i, None)
     \/ /\ i \notin born
        /\ \E n \in Names : lists' = [lists EXCEPT ![i] = [name |-> n, entries |-> {}]]
        /\ born' = born \cup {i}
  /\ touched' = touched \cup {i}
  /\ budget'  = budget - 1
  /\ UNCHANGED <<locks, pc, work, fixed>>
  /\ Standing

Step(c) ==
  \/ StartEdit(c) \/ StartDelete(c) \/ StartCopy(c) \/ StartCreate(c)
  \/ Enter(c)
  \/ Read(c)
  \/ LookForName(c)
  \/ Plan(c)
  \/ Refuse(c)
  \/ Update(c)
  \/ AddBatch(c) \/ AddBatchShort(c)
  \/ RemoveBooks(c) \/ RemoveEntries(c)
  \/ ReadBack(c) \/ ReadBackGone(c) \/ ReadBackFails(c)
  \/ ChangeFails(c)
  \/ EditEnds(c)
  \/ Create(c)
  \/ Copy(c)
  \/ Rename(c)
  \/ Delete(c) \/ Deleted(c)
  \/ RequestFails(c)

Next ==
  \/ \E c \in Calls : Step(c)
  \/ \E i \in Ids : WebChange(i)

Spec == Init /\ [][Next]_vars

-----------------------------------------------------------------------------
(* While a call changes a list it holds, the list holds what the call read *)
(* and what it added since, whatever the other calls do: two adds of one   *)
(* book at once do not both say they added it (collections.go: "what it    *)
(* holds is judged once held").                                            *)
Told(c) == seen[c] \cup (IF "add" \in done[c] THEN Add(c) ELSE {})

Unspoilt(c) == on[c] \notin touched /\ lists[on[c]] # None

HeldListIsCurrent ==
  \A c \in Calls : pc[c] = "change" /\ Unspoilt(c) => lists[on[c]].entries = Told(c)

(* The list an edit answers with holds all that was asked to be in it, and *)
(* nothing that was to be taken out, though the server leaves out entries  *)
(* without a word; and one it says is deleted is.                          *)
Ends(c, how) == pc[c] # how /\ pc'[c] = how

AnswerIsTrue ==
  [][\A c \in Calls :
       /\ Ends(c, "ok") /\ req[c].op = "edit" /\ Unspoilt(c)' =>
            lists'[on[c]].entries = (seen[c] \cup req[c].add) \ req[c].remove
       /\ Ends(c, "deleted") => lists'[on[c]] = None]_vars

(* Without the delete tools no call takes a list away, neither one asked to*)
(* empty it nor one whose additions the server left out (playlists.go:     *)
(* "emptying one is a delete, and is only done where deleting is switched  *)
(* on").                                                                   *)
NothingIsEmptied ==
  [][~deleting => \A i \in Ids : lists[i] # None /\ lists'[i] = None => i \in touched']_vars

(* A step by which a call puts a list under a name it did not have.        *)
Gives(c, i) ==
  /\ <<pc[c], done[c]>>' # <<pc[c], done[c]>>
  /\ lists'[i] # None
  /\ lists[i] # None => lists'[i].name # lists[i].name

(* The server makes a copy under its collection's own name, which nobody   *)
(* has looked for when another name was asked for.                         *)
Unsought(c) == pc[c] = "copy" /\ lists[on[c]].name # want[c]

(* A name that another list of the kind bears, and has borne ever since a  *)
(* call began, is not given to a list by it.  The first name of a copy that*)
(* is to be called otherwise is left out: it is given though it is taken,  *)
(* and is kept if the rename fails, against playlist_create's own word (a  *)
(* name already in use is refused).                                        *)
TakenNameIsRefused ==
  [][\A c \in Calls, i \in Ids :
       Gives(c, i) /\ ~Unsought(c) =>
         \A j \in stood[c] \ {i} : lists[j].name # lists'[i].name]_vars
=============================================================================
