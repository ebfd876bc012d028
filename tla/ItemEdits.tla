----------------------------- MODULE ItemEdits -----------------------------
(***************************************************************************)
(* The tool calls of one turn that change a list kept whole on an item:    *)
(* item_edit, metadata_rename, series_merge, item_match_tag,               *)
(* item_match_apply, its batch form and item_delete, running at once       *)
(* against one Audiobookshelf server, with the web app changing items      *)
(* beside them.                                                            *)
(*                                                                         *)
(* The server takes such a list whole, so each call reads it, works out    *)
(* the new one and sends it back; the locks of tools/locks.go (RecordLocks,*)
(* which LockSet implements) are what keeps two calls from undoing each    *)
(* other.  One list stands for an item's tags or for its series: they are  *)
(* edited alike.                                                           *)
(***************************************************************************)
EXTENDS Integers, Sequences, FiniteSets

CONSTANTS
  Calls,        (* the calls of a turn                                     *)
  Items,        (* the items of the server                                 *)
  Podcasts,     (* those of them that are podcasts                         *)
  Plain,        (* tags a person puts on an item                           *)
  Stores,       (* provider tags: zz-provider:audible and so on            *)
  TurnRequests, (* what the calls of a turn may ask                        *)
  BatchSize,    (* sweepBatchSize                                          *)
  MaxOutside,   (* bound: how often the web app changes something          *)
  Bookmarks,    (* the bookmarksLock                                       *)
  Everything    (* what locks.All asks for                                 *)

Tags    == Plain \cup Stores
Records == Items \cup {Bookmarks}

(***************************************************************************)
(* A request: its kind, the items it names, the values it adds and drops.  *)
(*   edit      item_edit with add_ and remove_ arguments                   *)
(*   set       item_edit with a list given whole                           *)
(*   rename    metadata_rename through the server's own rename or delete   *)
(*   split     metadata_rename that splits or moves a value: a sweep       *)
(*   merge     series_merge: a sweep                                       *)
(*   tag       item_match_tag, for one book of its window                  *)
(*   fill, override, keep                                                  *)
(*             item_match_apply, or for one row its batch form: by         *)
(*             default, with override_details, and with keep: [tags]       *)
(*   delete    item_delete of the whole item                               *)
(* "flag" is, of an edit, that it removes a series: one the item is not in *)
(* is an error, where a tag it lacks is not; of a tag, overwrite; of a     *)
(* match, that it is a row of a batch.                                     *)
(***************************************************************************)
Lists   == {"edit", "set"}
Sweeps  == {"split", "merge"}
Matches == {"fill", "override", "keep"}
Kinds   == Lists \cup Sweeps \cup Matches \cup {"rename", "tag", "delete"}

Request == [kind : Kinds, items : Seq(Items), add : SUBSET Tags,
            drop : SUBSET Tags, flag : BOOLEAN]

SetOf(s) == {s[n] : n \in DOMAIN s}

ASSUME ItemAssumption ==
  /\ IsFiniteSet(Items)
  /\ Podcasts \subseteq Items
  /\ \A r \in TurnRequests : r \in Request
  /\ BatchSize \in Nat \ {0}
  /\ MaxOutside \in Nat
  /\ Everything \notin SUBSET Records
  /\ Bookmarks \notin Items

(* A tag, a match and a delete are of one item, and a list names none twice.*)
ASSUME RequestAssumption ==
  \A r \in TurnRequests :
    /\ r.kind \in Matches \cup {"tag", "delete"} => Len(r.items) = 1
    /\ \A m, n \in DOMAIN r.items : r.items[m] = r.items[n] => m = n

VARIABLES
  place, asks,  (* the locks: see RecordLocks                              *)
  exists,       (* the items the server has                                *)
  tags,         (* the list of each                                        *)
  pc,           (* the step each call is at                                *)
  req,          (* what it was asked                                       *)
  seen,         (* the lists it works from, as it read them                *)
  left,         (* the items it has still to send                          *)
  landed,       (* the items its change reached                            *)
  report,       (* what a failed send says of itself                       *)
  outside,      (* the items the web app changed since the call read them  *)
  budget        (* how often it may still do so                            *)

locks  == <<place, asks>>
server == <<exists, tags>>
own    == <<req, seen, left, landed, report>>
web    == <<outside, budget>>
vars   == <<locks, server, pc, own, web>>

Locks == INSTANCE RecordLocks WITH Callers <- Calls, Keys <- Records

NoRequest == [kind |-> "edit", items |-> <<>>, add |-> {}, drop |-> {}, flag |-> FALSE]
NoReport  == [from |-> 0, to |-> 0]

Ended == {"ok", "warned", "failed", "alone"}
Steps == Ended \cup {"idle", "asked", "held", "send", "match", "restore",
                     "record", "salvage"}

TypeOK ==
  /\ Locks!TypeOK
  /\ exists  \subseteq Items
  /\ tags    \in [Items -> SUBSET Tags]
  /\ pc      \in [Calls -> Steps]
  /\ req     \in [Calls -> Request]
  /\ seen    \in [Calls -> [Items -> SUBSET Tags]]
  /\ left    \in [Calls -> SUBSET Items]
  /\ landed  \in [Calls -> SUBSET Items]
  /\ report  \in [Calls -> [from : Int, to : Int]]
  /\ outside \in [Calls -> SUBSET Items]
  /\ budget  \in 0..MaxOutside

Init ==
  /\ Locks!Init
  /\ exists  = Items
  /\ tags    \in [Items -> SUBSET Plain]
  /\ pc      = [c \in Calls |-> "idle"]
  /\ req     = [c \in Calls |-> NoRequest]
  /\ seen    = [c \in Calls |-> [i \in Items |-> {}]]
  /\ left    = [c \in Calls |-> {}]
  /\ landed  = [c \in Calls |-> {}]
  /\ report  = [c \in Calls |-> NoReport]
  /\ outside = [c \in Calls |-> {}]
  /\ budget  = MaxOutside

-----------------------------------------------------------------------------
(* What a call makes of a list it read.  editTagList adds first and        *)
(* removes last, as editSeriesList does; a sweep takes the value out and   *)
(* puts its parts in; the provider tag replaces any other.                 *)
Edited(r, have)          == (have \cup r.add) \ r.drop
Swept(r, have)           == (have \ r.drop) \cup r.add
WithProviderTag(r, have) == (have \ Stores) \cup r.add

Payload(r, have) ==
  CASE r.kind = "edit"                  -> Edited(r, have)
    [] r.kind = "set"                   -> r.add
    [] r.kind \in Sweeps \cup {"rename"} -> Swept(r, have)
    [] OTHER                            -> WithProviderTag(r, have)

Carries(r, have) == r.drop \cap have # {}

(* Mutants: an edit locks nothing; a sweep does not.                       *)
EditHoldsNothing(r) == IF r.kind \in Sweeps \cup {"rename"} THEN Everything ELSE {}

SweepHoldsNothing(r) == IF r.kind \in Sweeps \cup {"rename"} THEN {} ELSE SetOf(r.items)

(* What a request locks: a sweep everything, an edit its items, a delete   *)
(* the account's bookmarks as well, which go with the item.                *)
Holds(r) ==
  CASE r.kind \in Sweeps \cup {"rename"} -> Everything
    [] r.kind = "delete"                -> SetOf(r.items) \cup {Bookmarks}
    [] OTHER                            -> SetOf(r.items)

(* The next request of updateMany: up to BatchSize books, in the order the *)
(* call lists them, and once the books are sent one podcast.               *)
Before(s, i, j) == \E m, n \in DOMAIN s : m < n /\ s[m] = i /\ s[n] = j

Kin(rest) == IF rest \subseteq Podcasts THEN rest ELSE rest \ Podcasts

Size(rest) ==
  IF rest \subseteq Podcasts THEN 1
  ELSE IF Cardinality(Kin(rest)) < BatchSize THEN Cardinality(Kin(rest))
  ELSE BatchSize

Chunks(s, rest) ==
  {chunk \in SUBSET Kin(rest) :
     /\ Cardinality(chunk) = Size(rest)
     /\ \A i \in chunk, j \in Kin(rest) \ chunk : ~Before(s, j, i)}

-----------------------------------------------------------------------------
(* A call resolves the items it names and asks for its locks.  What it     *)
(* read so far is from before the hold.  item_match_tag leaves a book its  *)
(* listing shows with a store alone, unless overwrite is set.              *)
Start(c, r) ==
  /\ pc[c] = "idle"
  /\ SetOf(r.items) \subseteq exists
  /\ req'  = [req EXCEPT ![c] = r]
  /\ IF r.kind = "tag" /\ ~r.flag /\ tags[r.items[1]] \cap Stores # {}
       THEN /\ pc' = [pc EXCEPT ![c] = "alone"]
            /\ UNCHANGED locks
       ELSE /\ pc' = [pc EXCEPT ![c] = "asked"]
            /\ Locks!Ask(c, Holds(r))
  /\ UNCHANGED <<server, seen, left, landed, report, web>>

Enter(c) ==
  /\ pc[c] = "asked"
  /\ Locks!Enter(c)
  /\ pc' = [pc EXCEPT ![c] = "held"]
  /\ UNCHANGED <<server, own, web>>

(* Mutant: a call returns and keeps its locks.                             *)
FinishHolding(c, how) ==
  /\ pc' = [pc EXCEPT ![c] = how]
  /\ UNCHANGED locks

(* A call returns, and with it the locks go.                               *)
Finish(c, how) ==
  /\ pc' = [pc EXCEPT ![c] = how]
  /\ Locks!Gone(c)

Fail(c) ==
  /\ Finish(c, "failed")
  /\ UNCHANGED <<server, own, web>>

(* The items are read again now they are held.                             *)
See(c) ==
  /\ seen'    = [seen EXCEPT ![c] = tags]
  /\ outside' = [outside EXCEPT ![c] = {}]
  /\ UNCHANGED budget

(* item_edit: an item gone meanwhile ends the call with nothing changed,   *)
(* and so does a series to remove that an item is not in.                  *)
CanEdit(c) ==
  LET r == req[c] IN
    /\ SetOf(r.items) \subseteq exists
    /\ r.flag => \A i \in SetOf(r.items) : r.drop \subseteq tags[i] \cup r.add

ReadToEdit(c) ==
  /\ pc[c] = "held"
  /\ req[c].kind = "edit"
  /\ CanEdit(c)
  /\ See(c)
  /\ left' = [left EXCEPT ![c] = SetOf(req[c].items)]
  /\ pc'   = [pc EXCEPT ![c] = "send"]
  /\ UNCHANGED <<locks, server, req, landed, report>>

RefuseToEdit(c) ==
  /\ pc[c] = "held"
  /\ req[c].kind = "edit"
  /\ ~CanEdit(c)
  /\ Fail(c)

(* A list given whole replaces the item's: there is nothing to read.       *)
ReplaceWhole(c) ==
  /\ pc[c] = "held"
  /\ req[c].kind = "set"
  /\ left' = [left EXCEPT ![c] = SetOf(req[c].items)]
  /\ pc'   = [pc EXCEPT ![c] = "send"]
  /\ UNCHANGED <<locks, server, req, seen, landed, report, web>>

(* A sweep reads every item that carries the value; a series with no books *)
(* is nothing to merge.                                                    *)
ReadToSweep(c) ==
  /\ pc[c] = "held"
  /\ req[c].kind \in Sweeps
  /\ req[c].kind = "merge" => \E i \in exists : Carries(req[c], tags[i])
  /\ See(c)
  /\ left' = [left EXCEPT ![c] = {i \in exists : Carries(req[c], tags[i])}]
  /\ pc'   = [pc EXCEPT ![c] = "send"]
  /\ UNCHANGED <<locks, server, req, landed, report>>

(* tagOne, item_match_apply and applyRow read the one book again.          *)
ReadOne(c) ==
  /\ pc[c] = "held"
  /\ req[c].kind \in Matches \cup {"tag"}
  /\ SetOf(req[c].items) \subseteq exists
  /\ See(c)
  /\ left' = [left EXCEPT ![c] = SetOf(req[c].items)]
  /\ pc'   = [pc EXCEPT ![c] = IF req[c].kind = "tag" THEN "record" ELSE "match"]
  /\ UNCHANGED <<locks, server, req, landed, report>>

(* A read that fails, of the items or of what the call needs besides, ends *)
(* the call.                                                               *)
GiveUp(c) ==
  /\ pc[c] \in {"held", "match"}
  /\ Fail(c)

-----------------------------------------------------------------------------
(* The server writes the lists it is sent of the items it still has.       *)
Write(c, sent) ==
  tags' = [i \in Items |-> IF i \in sent \cap exists
                           THEN Payload(req[c], seen[c][i])
                           ELSE tags[i]]

Land(c, sent) == landed' = [landed EXCEPT ![c] = @ \cup (sent \cap exists)]

Changed(c, sent) == {i \in sent \cap exists : tags[i] # Payload(req[c], seen[c][i])}

(* One request of updateMany, or of the batches series_merge sends; the    *)
(* server answers for what it found, and series_merge stops at a batch the *)
(* server changed fewer books of than it was sent.                         *)
Send(c) ==
  /\ pc[c] = "send"
  /\ \E chunk \in Chunks(req[c].items, left[c]) :
       /\ chunk \cap exists # {}
       /\ Write(c, chunk)
       /\ Land(c, chunk)
       /\ left' = [left EXCEPT ![c] = @ \ chunk]
       /\ IF req[c].kind = "merge" /\ Changed(c, chunk) # chunk
            THEN Finish(c, "failed")
            ELSE UNCHANGED <<pc, locks>>
  /\ UNCHANGED <<exists, req, seen, report, web>>

(* Mutant: the items are counted from 0.                                   *)
SendErrorFromZero(c, chunk) ==
  LET sent == Len(req[c].items) - Cardinality(left[c])
  IN  IF req[c].kind \notin Lists THEN NoReport
      ELSE [from |-> sent, to |-> sent + Cardinality(chunk)]

(* A request that fails may have landed in part: a proxy times out on it,  *)
(* the server goes on.  The error counts the items from 1 and says which   *)
(* of them it was, unless it was the only request there was.               *)
SendError(c, chunk) ==
  LET of == Len(req[c].items)
      sent == of - Cardinality(left[c])
  IN  IF req[c].kind \notin Lists \/ (sent = 0 /\ Cardinality(chunk) = of)
      THEN NoReport
      ELSE [from |-> sent + 1, to |-> sent + Cardinality(chunk)]

(* Mutant: the failure of a request is not the call's.                     *)
SendFailsUnsaid(c) ==
  /\ pc[c] = "send"
  /\ \E chunk \in Chunks(req[c].items, left[c]) :
       \E part \in SUBSET chunk : Write(c, part) /\ Land(c, part)
  /\ Finish(c, "ok")
  /\ UNCHANGED <<exists, req, seen, left, report, web>>

SendFails(c) ==
  /\ pc[c] = "send"
  /\ left[c] # {}
  /\ \E chunk \in Chunks(req[c].items, left[c]) :
       /\ \E part \in SUBSET chunk : Write(c, part) /\ Land(c, part)
       /\ report' = [report EXCEPT ![c] = SendError(c, chunk)]
  /\ Finish(c, "failed")
  /\ UNCHANGED <<exists, req, seen, left, web>>

(* series_merge then reads the series back, which may fail.                *)
AllSent(c) ==
  /\ pc[c] = "send"
  /\ left[c] = {}
  /\ \E how \in IF req[c].kind = "merge" THEN {"ok", "failed"} ELSE {"ok"} :
       Finish(c, how)
  /\ UNCHANGED <<server, own, web>>

(* The server's own rename or delete of a value: one request, which it     *)
(* works through item by item.                                             *)
ServerRename(c, whole) ==
  /\ pc[c] = "held"
  /\ req[c].kind = "rename"
  /\ LET carry == {i \in exists : Carries(req[c], tags[i])} IN
       \E part \in SUBSET carry :
         /\ whole => part = carry
         /\ tags' = [i \in Items |-> IF i \in part THEN Swept(req[c], tags[i])
                                     ELSE tags[i]]
  /\ Finish(c, IF whole THEN "ok" ELSE "failed")
  /\ UNCHANGED <<exists, own, web>>

Rename(c)      == ServerRename(c, TRUE)
RenameFails(c) == ServerRename(c, FALSE)

-----------------------------------------------------------------------------
(* The server's match of a book: it fills a list that is empty, and with   *)
(* override_details replaces any, by what the provider offers.  tagsAfter  *)
(* takes the list from the answer, unless the tags are kept.  A match that *)
(* found nothing ends the call, and so does one that fails, landed or not. *)
Matched(c, i) ==
  \E offered \in SUBSET Plain :
    tags' = [tags EXCEPT ![i] =
      IF offered # {} /\ (@ = {} \/ req[c].kind # "fill") THEN offered ELSE @]

(* Mutant: the store is added to the tags as they were before the match.   *)
MatchFromBefore(c) ==
  /\ pc[c] = "match"
  /\ \E i \in left[c] \cap exists : Matched(c, i)
  /\ pc' = [pc EXCEPT ![c] = IF req[c].kind = "keep" THEN "restore" ELSE "record"]
  /\ UNCHANGED <<locks, exists, own, web>>

Match(c) ==
  /\ pc[c] = "match"
  /\ \E i \in left[c] \cap exists : Matched(c, i)
  /\ IF req[c].kind = "keep"
       THEN /\ pc' = [pc EXCEPT ![c] = "restore"]
            /\ UNCHANGED <<seen, web>>
       ELSE /\ pc' = [pc EXCEPT ![c] = "record"]
            /\ seen' = [seen EXCEPT ![c] = tags']
            /\ outside' = [outside EXCEPT ![c] = {}]
            /\ UNCHANGED budget
  /\ UNCHANGED <<locks, exists, req, left, landed, report>>

MatchFoundNothing(c) ==
  /\ pc[c] = "match"
  /\ Finish(c, "ok")
  /\ UNCHANGED <<server, own, web>>

MatchFails(c) ==
  /\ pc[c] = "match"
  /\ \E i \in left[c] \cap exists : Matched(c, i)
  /\ Finish(c, "failed")
  /\ UNCHANGED <<exists, own, web>>

(* Mutant: nothing is put back.                                            *)
PutBackNothing(c) == left[c] \subseteq Items /\ UNCHANGED tags

(* restoreKept sends the list as it was before the match.                  *)
PutBack(c) == tags' = [i \in Items |-> IF i \in left[c] \cap exists
                                       THEN seen[c][i] ELSE tags[i]]

RestoreKept(c) ==
  /\ pc[c] = "restore"
  /\ left[c] \subseteq exists
  /\ PutBack(c)
  /\ pc' = [pc EXCEPT ![c] = "record"]
  /\ UNCHANGED <<locks, exists, own, web>>

(* When that fails item_match_apply returns the error; a row of a batch    *)
(* notes it and still records the store.                                   *)
RestoreFails(c) ==
  /\ pc[c] = "restore"
  /\ PutBack(c) \/ UNCHANGED tags
  /\ IF req[c].flag
       THEN /\ pc' = [pc EXCEPT ![c] = "salvage"]
            /\ UNCHANGED locks
       ELSE Finish(c, "failed")
  /\ UNCHANGED <<exists, own, web>>

(* tagProvider: the list with the store in it, unless it is so already.    *)
(* What is left of item_match_apply is a read, which may fail.             *)
Outcomes(c) ==
  IF pc[c] = "salvage" THEN {"failed"}
  ELSE IF req[c].kind # "tag" /\ ~req[c].flag THEN {"ok", "failed"}
  ELSE {"ok"}

Recorded(c) == \A i \in left[c] : WithProviderTag(req[c], seen[c][i]) = seen[c][i]

Record(c) ==
  /\ pc[c] \in {"record", "salvage"}
  /\ IF Recorded(c) THEN UNCHANGED tags
     ELSE left[c] \subseteq exists /\ Write(c, left[c])
  /\ \E how \in Outcomes(c) : Finish(c, how)
  /\ UNCHANGED <<exists, own, web>>

(* To a match a store that could not be recorded is a warning.             *)
RecordFails(c) ==
  /\ pc[c] \in {"record", "salvage"}
  /\ ~Recorded(c)
  /\ Write(c, left[c]) \/ UNCHANGED tags
  /\ Finish(c, IF pc[c] = "salvage" \/ req[c].kind = "tag" THEN "failed"
               ELSE "warned")
  /\ UNCHANGED <<exists, own, web>>

(* item_delete: the bookmarks, then the item.                              *)
Delete(c) ==
  /\ pc[c] = "held"
  /\ req[c].kind = "delete"
  /\ SetOf(req[c].items) \subseteq exists
  /\ exists' = exists \ SetOf(req[c].items)
  /\ \E how \in {"ok", "failed"} : Finish(c, how)
  /\ UNCHANGED <<tags, own, web>>

-----------------------------------------------------------------------------
(* The web app, or another abs-mcp, holds none of the locks.               *)
Outside(i) ==
  /\ budget > 0
  /\ i \in exists
  /\ budget'  = budget - 1
  /\ outside' = [c \in Calls |-> outside[c] \cup {i}]
  /\ UNCHANGED <<locks, pc, own>>

WebEdit(i) ==
  /\ Outside(i)
  /\ \E new \in SUBSET Plain : tags' = [tags EXCEPT ![i] = new]
  /\ UNCHANGED exists

WebDelete(i) ==
  /\ Outside(i)
  /\ exists' = exists \ {i}
  /\ UNCHANGED tags

Step(c) ==
  \/ Enter(c)
  \/ ReadToEdit(c)
  \/ RefuseToEdit(c)
  \/ ReplaceWhole(c)
  \/ ReadToSweep(c)
  \/ ReadOne(c)
  \/ GiveUp(c)
  \/ Send(c)
  \/ SendFails(c)
  \/ AllSent(c)
  \/ Rename(c)
  \/ RenameFails(c)
  \/ Match(c)
  \/ MatchFoundNothing(c)
  \/ MatchFails(c)
  \/ RestoreKept(c)
  \/ RestoreFails(c)
  \/ Record(c)
  \/ RecordFails(c)
  \/ Delete(c)

Next ==
  \/ \E c \in Calls : Step(c) \/ \E r \in TurnRequests : Start(c, r)
  \/ \E i \in Items : WebEdit(i) \/ WebDelete(i)

Spec == Init /\ [][Next]_vars

(***************************************************************************)
(* A call that can go on does: every request to the server is answered or  *)
(* times out.  A call whose records are free again and again gets them:    *)
(* LockSet keeps EveryCallerGetsIn.  Nobody has to call, and the web app   *)
(* has to do nothing.                                                      *)
(***************************************************************************)
Fairness == \A c \in Calls : WF_vars(Step(c)) /\ SF_vars(Enter(c))

FairSpec == Spec /\ Fairness

-----------------------------------------------------------------------------
(* The items a call is still to write from the lists it read: of a sweep   *)
(* or an edit the unsent ones, of a match the book, but for the time       *)
(* between the match and the restoring of what is kept.                    *)
Pending(c) ==
  CASE pc[c] = "send" /\ req[c].kind # "set" -> left[c]
    [] pc[c] \in {"match", "record"}         -> left[c]
    [] OTHER                                 -> {}

(* What a call is about to send back whole was worked out from the list as *)
(* it is now: no other call has changed it since the read.  Only the web   *)
(* app may have (locks.go: "the Audiobookshelf web app, or another         *)
(* abs-mcp, is not held back").                                            *)
HeldReadsAreCurrent ==
  \A c \in Calls : \A i \in Pending(c) \ outside[c] : seen[c][i] = tags[i]

(* So every write is, at the moment it lands, the whole of the call's own  *)
(* request and nothing more: it is made by a call that holds the item, it  *)
(* adds and drops what that call was asked, and keeps everything the calls *)
(* before it left there (locks.go: "eight item_edit calls each adding a    *)
(* tag to one book ... and one tag stayed").                               *)
Held(c, i) == place[c] = "in" /\ (asks[c] = Everything \/ i \in asks[c])

MadeBy(c, i) ==
  /\ Held(c, i)
  /\ \/ req[c].kind \in Matches
     \/ i \in outside[c]
     \/ /\ tags'[i] = Payload(req[c], tags[i])
        /\ req[c].kind \in Sweeps \cup {"rename"} => Carries(req[c], tags[i])

WebStep == budget' # budget

EveryWriteIsOneRequest ==
  [][\A i \in Items : tags'[i] # tags[i] => WebStep \/ \E c \in Calls : MadeBy(c, i)]_vars

(* A match with keep: [tags] that reports success leaves the book with the *)
(* tags it had when the call read it, its store apart, whatever the server *)
(* made of them in between (match_keep.go: "restores the named fields to   *)
(* what the item held before the match").                                  *)
Ends(c, how) == pc[c] \notin Ended /\ pc'[c] = how

KeptIsKept ==
  [][\A c \in Calls : pc[c] = "record" /\ Ends(c, "ok") /\ req[c].kind = "keep" =>
       \A i \in left[c] \ outside[c] : tags'[i] = WithProviderTag(req[c], seen[c][i])]_vars

(* A match by default replaces nothing: a person's tag it found on the     *)
(* book is there when the call ends, however it ends (item_match_apply:    *)
(* "By default only empty fields are filled").                             *)
FillOnlyAdds ==
  [][\A c \in Calls : pc[c] \in {"match", "record"} /\ req[c].kind = "fill" =>
       \A i \in left[c] \ outside'[c] : tags[i] \ tags'[i] \subseteq Stores]_vars

(* A sweep or rename that reports success has left no item with the value, *)
(* but for those the web app touched while it ran (series_merge: "Move     *)
(* every book of one series into another").                                *)
SweepLeavesNone ==
  [][\A c \in Calls : Ends(c, "ok") /\ req[c].kind \in Sweeps \cup {"rename"} =>
       \A i \in exists' \ outside[c] : (req[c].drop \ req[c].add) \cap tags'[i] = {}]_vars

(* An edit that reports success has made its change on every item it       *)
(* named, though it took many requests to send and other calls ran between *)
(* them; so has item_match_tag, which may find nothing to send.  Only what *)
(* the web app changed or deleted meanwhile may be otherwise.              *)
EditsAreDone ==
  [][\A c \in Calls : Ends(c, "ok") /\ req[c].kind \in Lists \cup {"tag"} =>
       \A i \in (SetOf(req[c].items) \cap exists) \ outside[c] :
         tags'[i] = Payload(req[c], seen[c][i])]_vars

(* An edit that fails part way says how far it got: counted in the order   *)
(* they are sent, the items before its batch all reached the server, and   *)
(* of the items after it none did (sendError: "%d items before it were     *)
(* updated, and the %d after it were not sent").                           *)
SendReportIsTrue ==
  \A c \in Calls : report[c] # NoReport =>
    /\ Cardinality(landed[c]) <= report[c].to
    /\ SetOf(req[c].items) \subseteq exists => Cardinality(landed[c]) >= report[c].from - 1
    /\ left[c] \cap landed[c] = {} => Cardinality(left[c]) = Len(req[c].items) - report[c].from + 1

(* Every call ends: no two of a turn wait on each other for ever, and none *)
(* waits for ever on a sweep.                                              *)
EveryCallEnds == \A c \in Calls : (pc[c] = "asked") ~> (pc[c] \in Ended)
=============================================================================
