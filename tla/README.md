# abs-mcp, in TLA+

abs-mcp is an MCP server in front of an Audiobookshelf server.  A client asks
for a turn's tool calls at once; each call is a goroutine that reads records of
the server over HTTP, works something out, and writes back.  The server takes
many things whole (a list of tags, an account's bookmarks), so what makes the
program correct is mostly who may read and write when, and what is left when one
of several requests fails.  That is what these modules are about.

Line numbers below and in PROJECT.json are those of `src/`.

## The system

| part | where | state | operations | what is hard | what makes it correct |
|---|---|---|---|---|---|
| lock set | `vendor/.../go-kt/lock`, `tools/locks.go` | an RWMutex, a map from key to lock, a count per lock | `By`, `All`, their unlocks | two levels of locks, locks forgotten and made anew, two orders of waiting | no two callers on one record; the map is exact; nobody waits for ever |
| item edits, sweeps, matches | `tools/items.go`, `spelling.go`, `catalog.go`, `match_*.go` | lists kept whole on items (the server's) | `item_edit`, `metadata_rename`, `series_merge`, `item_match_tag`, `item_match_apply`, `item_match_batch`, `item_delete` | read-decide-write of several calls and the web app; batches that fail half way; a match that writes what must be put back | no update lost; what is kept is kept; a sweep leaves nothing; errors say what became of the items |
| merge of missing records | `tools/issues_merge.go` | accounts, feeds and plans as read; keys made to act as others | `library_issues_merge` | a dozen writes as several accounts, then a delete; any may fail, or land though it failed | nothing is deleted that has not arrived; no key outlives the call unsaid; the answer is true |
| bookmarks | `tools/users.go`, `items.go` 1332-1384 | the account's one list of bookmarks | `user_bookmark_edit`, `item_delete` | a list the server saves whole; removals and adds one by one; create that falls back to rename | no bookmark lost; none left on a deleted item; a failure names what was changed |
| progress, sessions | `tools/users.go` | the server's | `user_progress_set`, histories | little | the answer is what is read back |
| files of a book | `tools/items.go` 446-545, 966-1315, `tools/item_files.go` | tasks of the server; the order of tracks, chapters, the main ebook | `item_embed_metadata`, `item_edit` tracks/ebook, `item_chapters_set`, `item_delete` of a file | polling with deadlines, a result told only by reading the book back, a book that reads as empty meanwhile; chapters that follow tracks; a setter that holds no lock | a merge that worked is not told as failed, one merge at a time; chapters keep to their track; what is said done is |
| collections, playlists | `tools/collections.go`, `playlists.go` | named lists (the server's) | create, edit, delete | a name looked for, then given; batches the server takes in part unsaid; a playlist it deletes when emptied | the answer is the list as it is; nothing goes that may not; a standing name is given to no other list, but to a copy before its rename |
| podcasts | `tools/podcasts.go`, `feeds.go` | shows, episodes, the download queue (the server's) | add, download, check, edit, delete | no lock at all; downloads end and feeds publish between any two requests | what is held is not fetched again; what is said queued or deleted is |
| unplayable files | `tools/audit_unplayable.go`, `lib/audiosample`, go-kt `parallel` | workers and their slots, a proxy, ffmpeg processes | `audit_unplayable` | the first error ends a batch; what a read meets is the file's, the server's, the proxy's or the caller's | a file is judged by what it is; all workers end; the audit ends, unless the server holds back a file for ever and the caller stays |
| authors, series | `tools/catalog.go`, `series_*.go` | the server's | list, edit, merge | batches | as the sweeps |
| libraries, server, accounts | `tools/libraries.go`, `server.go`, `accounts.go` | the server's | one request a call, mostly | little | the answer is the server's |
| other audits, duplicates, spelling, matching | `tools/audit*.go`, `duplicate_*.go`, `spelling_detect.go`, `match_score.go` | none | read-only reports | heuristics on strings and sound | examples, in the tests |
| comparing audio | `tools/compare_audio.go`, `lib/` | none of its own | `item_compare_audio` | signal processing in floating point | examples, in the tests |
| registry, CLI, transport | `tools/all_tools.go`, `visible.go`, `cli/`, go-kt `mcp` | a table fixed at start | select, serve | little | only what is selected is served |
| HTTP client | go-kt `httpc`, pandorest `client` | a count of tries and two time limits a request | `Execute`, `Fetch`, `RoundTrip` | what is lost before and within an answer is sent again in two places; a copy given up on may still land | a write is done once at most; an answer is told of what was done; the call ends |
| API client and its generator | `sdk/` | none | a function a route | generated | - |

How they meet: most tools that change something go through the registry's one
`lock.Set` (`r.locks`); creating a list, setting chapters, embedding tags and the
podcast tools hold nothing.  An edit of known records asks for those (`By`), a sweep
and the merge for everything (`All`); what a call read before it held is read
again after (`items.go:269`, `match_provider_tag.go:226`).  The locks hold back
nothing outside the process: the web app, a listener's player and another
abs-mcp write whenever they like.  Requests to the server are independent: one
that fails may have landed, and one that carries many items may have landed in
part.

## Modules

`RecordLocks` is what `lock.Set` promises: a caller asks for some records or for
everything, is let in when nobody inside conflicts, leaves.  Nothing of how.

`LockSet` is `set.go`, one action for each step another goroutine can see.
`CallBy`..`LeaveBy` are `By` and the function it returns: the read lock
(`RLock`, parked when a writer has announced itself), for each key first to
last the section under `mu` (`Register`: find or make the key's lock and count
in) and `k.Lock()` (`LockKey`), then last to first `k.Unlock()` (`UnlockKey`) and
the section that counts out and forgets (`DropKey`).  `CallAll`, `Announce`,
`LockAll`, `UnlockAll` are `All`: Go's RWMutex, with its queue of writers, its
parked readers, and the readers it wakes before the next writer.  `Locks ==
INSTANCE RecordLocks WITH ...` maps it to the specification above it: *in* is
from the return of `By` or `All` to the first unlock.

`ItemEdits` is the calls of one turn that change a list kept whole on items, over
the locks of `RecordLocks` (which `LockSet` implements, so each acquisition is one
step).  One list stands for tags and series, which are edited alike.  A request is
a record: its kind, the items it names, what it adds and drops.  `Start` resolves
and asks (`Holds` is what each kind locks); `Enter` gets the locks; `ReadToEdit`,
`ReadToSweep`, `ReadOne` read again under them; `Send`/`SendFails`/`AllSent` are
`updateMany` and the batches of a sweep, each request landing in whole, in part or
not; `Rename` is the server's own rename; `Match`, `RestoreKept`, `Record` are the
three writes of a match, with every way each can fail (a row of a batch goes on
where `item_match_apply` stops: `flag`); `Delete` is `item_delete`.  `WebEdit` and
`WebDelete` are the web app, at any moment.

`IssuesMerge` is one `library_issues_merge`.  What hangs on a record is seven kinds
of *thing*, each on every record a set of facts: details, chapters, cover,
collections are the record's own; progress, bookmarks, playlists are an account's.
`Pair`, `ReadAccounts`, `Plan`, the carry (`Carry`, `MakeKey`, `TryKey` and their
failures, `CannotAct`, `PassOver`), `ReRead`, `RePlan`, `Delete`, `Count`,
`CloseKey` follow `run` line by line; `ReadFails` is every `return err` of it.
`Lacks` and `Carried` are what the plan compares and what the write makes, by
kind; `Was` is where the carried value comes from: details and chapters from the
record as it was read at pairing, progress and bookmarks from `m.users`, a cover and
another account's playlists from the server as it is.  The call holds everything
(it is a `split` to `ItemEdits`), so no other call runs beside it; `Touch` and
`Publish` are players and the web app.  Pairs that are done in the order of a list
are done here in any order.

`BookmarkEdits` is the calls of one turn that change the account's bookmarks, over
`RecordLocks` again.  A bookmark is a slot (an item and a position) with a title.
A request to the server is two steps, since the server loads the account's list
(`Send`, into `loaded`) and saves it whole with one slot changed (`Save`): what
another request changed in between is lost.  `ReadToEdit`, `SendRemove`, `Removed`,
`ReadBack`, `SendCreate`, `SendRename`, `Added`, `CreateFails` (and the rename that
answers it) follow `user_bookmark_edit`; `ReadToDelete`, the same removals and
`Delete` are `item_delete`.  `told` is what the answer or the error says was
changed: a call's `out.Removed`, `out.Added` and `out.Renamed` together, or
`BookmarksRemoved`.  Creating at a position that has a bookmark may fail or rename
it: the code is written for both.  `WebMark` and `WebDelete` are the web app and
the players.

`NamedLists` is the calls of one turn on collections and playlists, over
`RecordLocks`.  `StartEdit` resolves a list by id or name and asks for it; `Read`
reads it again once held; `Plan` is every look-up before the first request, with
`MayEmpty`, the arithmetic by which an edit that would empty a playlist is refused;
`Update`, `AddBatch`, `RemoveBooks` / `RemoveEntries`, `ReadBack` are its requests, in
that order (`Due`).  The server takes any part of a batch and answers 200
(`AddBatchShort` is the code's own look at the answer), and deletes a playlist it
empties (`Removed`).  `StartCreate`, `StartCopy`, `LookForName`, `Create`, `Copy`,
`Rename` hold nothing, nor do `Delete` and `Deleted`.  `stood` is a history: the lists
that have kept their names ever since a call began.  `TakenNameIsRefused` compares
every name a call gives with theirs.  It leaves out one, by name (`Unsought`): the first
name of a copy that is to be called otherwise, which nobody looked for (see the findings).

`BookFiles` is the calls of one turn on the files of one book, over `RecordLocks`
with the book for only key.  The book is what it plays, its chapters (each named by
the track it is cut along), its main ebook and its ebooks, apart from the folder on
disk.  `StartMerge`..`SettleEnds` follow `mergeM4B`: the look at the tasks before the
lock, the plan under it, the start, the wait, the scan and the reading of what came
of it; `StartEmbed`..`TagRead` are `item_embed_metadata`; `PlanEdit`, `Reorder`,
`MoveChapters`, `FlipEbook`, `ReadEbook` are the files part of `item_edit`; `StartSet`
and `SetChapters` are `item_chapters_set`, which holds nothing; `PlanErase`, `Erase`,
`LookOnDisk` are `deleteFile`.  `EncodeEnds`, `WatcherScans` and `TaggingEnds` are the
server's own work: a merge that ends leaves a file its watcher holds for a while,
and a scan meanwhile finds no audio at all (`Scanned`).

`Podcasts` is the calls of one turn on podcasts.  Nothing holds a lock, so every
request is a step with the server's downloads (`DownloadEnds`, `DownloadFails`), the
feeds (`Publish`) and the web app between any two.  An episode has an entry in its feed
(the guid and audio `heldEpisode` knows it by) and a title, which an edit changes.
`came` and `stood` are histories.

`ParallelEach` is go-kt's `parallel.Each`: the loop (`TakeSlot` or `SeeDone`, `Start` or
`Break`), a job's goroutine after its function returns (`KeepError`, `Cancel`,
`NotFirst`, `FreeSlot`, `Gone`: the `sync.Once` and the slot), `Return` and `Answer`.
`AudioSweep` EXTENDS it: `audit_unplayable` runs a batch of probes, then one of plays,
for each chunk (`FetchChunk`, `PlayChunk`, `NextChunk`), and a play is an ffmpeg that
reads through the sampler's proxy (`StartFFmpeg`, `AskProxy`, `PlayFile`,
`NoteFailure`, `ReplyEnds`, `Kill`).  `Heard` is the order in which a decode asks what
went wrong, `ServerFailure` what of it ends the audit.  `truth` is what each file is.

`Exchange` is what all these modules take a request to be: done once at most if it
changes something, told to have worked only if it was done, and possibly done though
it is told to have failed, then or later.  `HttpRequest` is how the client keeps that:
`Execute` for an answer read whole, `stream` for a file.  `Send`, `NotSent`, `Answered`,
`NoAnswer` are one attempt, `Retry`, `PassOn`, `Rested`, `RestCut` are
`RetryTransport.RoundTrip`, `ReadEnds`, `ReadCut`, `ReadStopped`, `AskAgain`, `LeaveCut`,
`Paused`, `PauseCut` are `Fetch` and what `Execute` makes of its answer.  `late` is the time
limit of one `Do`, which `RoundTrip` sees in its request and `Fetch` does not; `n` is the
count both share.  The server acts on a copy when it likes (`Acts`), one the client no
longer waits for included (`ActsLate`).  `Promise == INSTANCE Exchange WITH ...` maps a
file handed back unread to a call still waiting: what is in it is its caller's to judge.

`MC*` modules give the constants values.  `LockSetProofs`, `ItemEditsProofs`,
`IssuesMergeProofs`, `BookmarkProofs`, `NamedListsProofs`, `BookFilesProofs`,
`UnlockedProofs` (the audit and the podcast tools, which hold no lock) and
`HttpRequestProofs` hold the theorems.  Each begins with the inductive invariant its
proofs rest on, which TLC found to hold on the run's instance before it was proved.

A definition commented *Mutant* is used by no specification.  It is a plausible
bug in the definition after it (a dropped guard, a missing reset), and PROJECT.json
pairs it with the property that catches it.

## Runs

| run | bounds | what it shows |
|---|---|---|
| `locks` | 3 callers, 2 records, as many locks | exclusion, the exact map, the refinement of `RecordLocks`, that callers never all wait on each other, and that every caller gets in |
| `item_edits` | 2 calls out of twelve requests, a book and a podcast, 2 tags, 2 stores, one change of the web app | the safety of `ItemEdits`, on every pair of requests: no update lost, what is kept kept, edits and sweeps that end well done throughout, failures told as they are |
| `item_edits_end` | 3 calls of three requests | every call ends |
| `issues_merge` | 2 missing records, 1 new, 2 accounts, 5 worlds, one change beside the call | the safety of the merge and that it ends |
| `merge_lost_places` | 1 pair, another account's playlist | a finding |
| `bookmarks` | 2 calls out of five requests, 2 items, 2 positions, 2 titles, any bookmarks to start from, one change of the web app | the safety of `BookmarkEdits` |
| `named_lists` | 2 calls out of ten requests, a collection and a playlist and room for two more of each, 2 names, 2 entries, one change of the web app | the safety of `NamedLists`, with the delete tools on and off; the collection and the playlist bear one name, so that a copy is made beside a playlist of that name |
| `book_files` | 2 calls out of nine requests, a book of 2 tracks and 2 ebooks, one change of the web app | the safety of `BookFiles`, and that every call ends |
| `chapters_follow` | an edit of the tracks and a fit of the chapters | a finding |
| `podcasts` | 2 calls out of ten requests, 2 folders, 2 feeds of up to 3 episodes, 4 ids, one change of the web app | that what is held is not asked for, and that what is answered is so |
| `http_request` | one request of each kind, 3 tries (the program's own number) | the shared count, the refinement of `Exchange`, and that the call ends |
| `audio_sweep` | chunks of 3 and 1 files, 2 workers, ten mixes of kinds of file | the workers, that a batch without an error ran every job, that what was read of a file stands, the judgement of each file, and that the audit ends unless the server holds back a file |

Why the bounds are enough.  In `LockSet`, what can go wrong with a key needs one
caller holding, one waiting and one arriving; what can go wrong with an order needs
two keys; a third caller in `All` meets both.  Locks are made afresh, so two
objects for two keys already let one be reused.  In `ItemEdits` every property is
about one call against whatever comes between its read and its write, which is
one other call or the web app; batches of one item (`BatchSize = 1`) over two items
give a first batch, a last, and a podcast after a book; the proofs cover any
number.  `IssuesMerge` needs two old records for one pair
to be affected by what an earlier did to keys, accounts and the shared new record,
and two accounts for one to be another's.  The worlds are chosen so that each kind
of thing is carried, differs from what is there, is blocked, or is another
account's that can or cannot be acted as; the proofs cover any records and accounts, and
every world to start from.  In `BookmarkEdits` one call holds the bookmarks at a time, so two calls are
every overlap there is; two items because the list is one for both, two positions
for a second removal or addition after the first; the proofs cover the rest.
In `NamedLists` two calls meet every window there is, since a window is between two
requests of one call; two names let a name be freed and given again, two entries let
a batch land in part, and a list of one entry be emptied; the proofs cover the rest.  In `BookFiles` two calls are
a merge beside each other thing, a second merge included; a merge that is over and
one that runs on are both there, and two tracks are an order and its other; the
proofs cover any number.
`Podcasts` has an episode that is held, one that is not, one that comes; a second
folder for a feed to be subscribed to twice; the proofs cover any number.  In `AudioSweep` three files for two
workers are a job that waits for a slot, and the chunk after them is what must not be
judged once the first has failed; the proofs cover any number.
In `HttpRequest` three
tries are one lost in each place and one more; the proofs cover any number.
`MaxOutside` bounds how often something
outside interferes: each property speaks of the things interfered with one by one,
so one interference already meets each.  `MaxFeed` bounds a feed, `Ids` the episodes
ever made, `MaxJobs` the longest batch.  No other counter needs a bound.

Deadlock is checked in `locks`, where a caller can always call again.  In the others
it is not: a turn and a call really end.

## Fairness

*LockSet*: a goroutine that can run does (WF of its steps).  `sync.Mutex` hands
itself to a waiter that has waited more than a millisecond, so one who finds it
free again and again is not passed over for ever: SF of `LockKey`, and of `Announce`,
which is the mutex writers queue on inside the RWMutex.  RWMutex needs no more:
parked readers are let in by `UnlockAll` itself.  Nobody has to call; whoever is
inside has to leave, which the tools do with `defer` and a request timeout.

*ItemEdits*: every request is answered or times out, so a call that can go on does
(WF of its step).  SF of `Enter` is what `EveryCallerGetsIn` of `LockSet` gives: a
caller is not passed over for ever.  The web app has to do nothing.

*IssuesMerge*: WF of the call.

*BookFiles*: WF of what a call does when nothing fails, so `EveryCallEnds` does not rest
on failures.  The server need never end a merge or an embed: the two minutes pass
(`GiveUpWaiting` is what a call can then do).  SF of `SettleEnds`: the half minute of
settling passes however often the book is read meanwhile.  WF of `WatcherScans`: the
watcher scans about ten seconds after the merge, which is why the half minute is
enough.

*AudioSweep*: WF of the audit's goroutines, of the loop and of each job, and of the
proxy's own goroutine noting that it stopped; a listing and a chunk are answered or given
up (`EveryRequestEnds`).  A job that reads a file is another thing (`AwaitsServer`): the
file comes through `stream`, whose client has no time limit (`request.go:234`), neither the
probe's read nor the proxy's copy has one (`abs.go:57`, `sample.go:533`), and ffmpeg is
given none.  So nothing makes the server send it, and such a job is fair only once the
context of its batch has ended (`Goes`).  `AuditEnds` says what is left: the audit ends, or
the server for ever holds back one file while the caller stays and no job has failed.
The proxy need not die, nor the caller go.

*HttpRequest*: WF of the program's steps, of the time limit of a `Do` passing, and of the
wait for an answer's header ending (`ResponseHeaderTimeout`).  The server need never
answer nor finish an answer, and the caller need not leave, so a refusal of a file,
which is read under no time limit (`request.go:243`), ends only with its caller's context:
`EveryRequestEnds` says so.

## Proofs

TLAPS proves, for any number of callers, records, locks, items and calls:

* `LockSetProofs!MutualExclusion` (`NoTwoInside`), `MapAccounted`
  (`MapIsWhatIsUsed`), `DeadlockFree` (`NoDeadlock`), `Refinement` (every behaviour of
  `LockSet` is one of `RecordLocks`) and `TypeCorrect`.
* `ItemEditsProofs!NoLostUpdate` (`HeldReadsAreCurrent`), `WritesAreRequests`
  (`EveryWriteIsOneRequest`), `KeepsWhatItSays` (`KeptIsKept`), `MatchesOnlyAdd`
  (`FillOnlyAdds`), `SweepsAreWhole` (`SweepLeavesNone`), `EditsAreWhole`
  (`EditsAreDone`), `ReportsAreTrue` (`SendReportIsTrue`) and `TypeCorrect`.
* `IssuesMergeProofs!NothingIsLost` (`NothingLost`), `AnswersAsItIs` (`ReportedAsIs`),
  `KeysAreAccountedFor` (`KeysAccountedFor`), `PublishedRecordsStay` (`PublishedStay`) and
  `TypeCorrect`.
* `BookmarkProofs!NoLostBookmark` (`NoBookmarkLost`), `DeleteClears` (`NoOrphans`),
  `AnswersAreTrue` (`AnswerIsTrue`) and `TypeCorrect`.
* `NamedListsProofs!AnswersAreTrue` (`AnswerIsTrue`), `NothingGoes`
  (`NothingIsEmptied`), `StandingNamesStay` (`TakenNameIsRefused`),
  `HeldListsAreCurrent` (`HeldListIsCurrent`) and `TypeCorrect`.
* `BookFilesProofs!ChaptersFollow` (`HeldChaptersFollow`), `NoMergeIsTakenForFailed`
  (`NoFalseFailure`), `MergesTakeTurns` (`OneMergeAtATime`), `FilesAreAsAnswered`
  (`AnswersAreSo`) and `TypeCorrect`.
* `UnlockedProofs!AnswersTrue` (`AnswersByTheFiles`), `WorkersBound`
  (`AtMostWorkers`), `NilIsAll` (`NilMeansAll`), `WrittenInTime` (`VerdictsStand`),
  `JobsJoined` and `TypeCorrect`, of the audit; `NoneAskedForTwice`
  (`HeldIsNotAskedFor`), `AnswersSo` (`AnswersAreSo`) and `PodcastsTypeCorrect`, of the
  podcast tools.
* `HttpRequestProofs!Refinement` (`ImplementsExchange`), `TriesAreCounted`
  (`TriesCounted`), `PromiseKept` (`Exchange!OnceAndSo`) and `TypeCorrect`.

The type invariants of the modules with a run are proved, and so are in no run.
The theorems assume what the modules name as assumptions: callers and items are finite, keys
are numbers of which any set has a first and a last, memory has room for a lock of each,
the model values are distinct,
a request is one of its type, a world of `IssuesMerge` holds facts of the right kinds,
and the tracks of `BookFiles` start in an order that names each of them once.

*LockSet.*  Exclusion is not inductive: that two callers do not hold one key says
nothing of one about to take it.  `LockInv` adds where each caller is against the
RWMutex (`DoorInv`), what it has still to take and has taken (`ListInv`), that its
pointers are the map's (`RefInv`: the heart, since a lock forgotten while pointed to
is what would let two in), that the map counts them (`CountInv`) and that it owns
what it holds (`OwnerInv`).  Dropping a lock keeps `RefInv` because the count is the
number of pointers, so zero means none.  `NoDeadlock` needs three facts more (`WaitInv`):
the parked wait for a writer that is there, a caller waits for a key after all those it
holds, and a mutex that is taken is on its owner's list.  Then if all who read wait, the
one that waits for the last of the keys finds it free, since whoever had it would wait
for a later; if none reads, the writer goes on, and with no writer whoever is next.

*ItemEdits.*  A call's read stays current because only a holder writes: `EditInv`
adds to `HeldReadsAreCurrent` the exclusion of the locks, that each call's place with
them is what its step says and it asks for what its request needs (`PlaceInv`), and
that what it has left to write is what it holds (`WorkInv`).  Every write is then the
holder's own, and disturbs no other's read.  Three more stand on it.  A list is sent in
its order, so of the items it named those no longer left have changed, unless one was
gone (`SentInv`); the report of a failure counts what was left then, and the numbers it
gives bound what landed by cardinalities alone (`ReportInv`).  What a sweep no longer has
left to send is without the value (`SweptInv`): it holds everything, so from its reading
on only the web app could give it back.  So for an edit: what it has no longer left to
send is as it was asked (`DoneInv`), and no other holder can have changed it since; a
match that has only its provider's tag left to send has sent nothing yet (`OneInv`).

*IssuesMerge.*  `MergeInv` follows one pair at a time.  It was blocked by nothing when it
was taken up, and is kept or merged once (`PairInv`, `AnswerInv`).  What is written to the
new record was read from the old one, or from the account, at one moment and is compared
at another: `ReadInv` says the two are one unless something else wrote there.  So what the
plan did not name is there already, and what it named is there once its carry is through;
covers and the playlists of other accounts, which nothing reads back, rest on that alone
(`CarryInv`), the rest on the second plan, which is empty when the record is deleted
(`ReadBackInv`).  An account passed over is one that could not be acted as, which is the
exception `NothingLost` makes and the finding is about.  A key the call can act with is
one it knows of until it is closed or named (`KeyInv`).

*BookmarkEdits.*  Every request holds the bookmarks, so `PlaceInv` and the exclusion
of the locks leave one call inside (`InsideAlone`).  Then the list the server has
loaded is the account's but for what the web app touched (`LoadedInv`), a save
changes one slot, and as it was asked (`WorkInv`: what is left of a request is part
of it).  What a delete has still to clear is all there is on its item
(`ToClearInv`), which is why nothing is on it when it goes; and a request for an
item that is gone is refused, which is why nothing comes to be.  `AnswerInv`, on
top of these, ties what has changed since the call read the bookmarks to what it
has noted, but for a create that failed and may have landed.

*NamedLists.*  A held list is written by its holder (`PlaceInv` and the exclusion of the
locks, `HeldAlone`), and by nothing else: what holds no lock makes a list of an id never
given before (`BornInv`), renames one, which leaves its entries, or deletes it, which the
holder then sees.  So what a call read holds while it plans (`PlanInv`), and while it
changes the list what it read and what the look at the answer of the batch let pass
(`HeldListIsCurrent`); a removal takes away no more than was to go (`ReadBackInv`).  With
what the plan has judged (`WorkInv`) that bounds what is left, which is both
`AnswerIsTrue` and `NothingIsEmptied`: the arithmetic of `MayEmpty` is on entries nobody
else takes out.  A call about to give a name has found that no list that stood bears it
(`NameInv`), but for the one it renames; those that stood only grow fewer, and keep their
names.

*BookFiles.*  One call is inside at a time (`PlaceInv` and the exclusion of the locks), but
a merge is the server's, and runs on when the call that began it has given up.
`EncodeInv` says whose it is: a call that still waits, or one that gave up or failed, so
a second merge starts only beside those; and that a call has seen it end before it asks
what came of it.  What plays then is the m4b, or nothing at all while the watcher holds
it, if there is an m4b (`DiskInv`): the files merged still playing mean there is none,
whatever the web app reordered meanwhile.  An edit is at a step it planned, and the
book as it read it or as its own steps have made it (`EditInv`, `Playing`); its chapters go
from the order of the tracks it read to the order it was asked for, and between these two
steps it holds the book (`ChaptersInv`), which is what `item_chapters_set` does not, and
why `HeldChaptersFollow` leaves it out.

*AudioSweep.*  `EachInv` is the runner's: which jobs have started (`StartedInv`), that
there is an error once the `sync.Once` is taken (`FirstInv`), that every holder has a
slot, and so has the job about to start (`SlotInv`: at most `Workers` of them), and
that none lives outside a run.  On it stands `SweepInv`.  What was read of a file is
true of it, or the audit is already bound to fail (`GotInv`, `Doomed`): an error that
is not the file's ends the batch, and a batch that failed is never answered.  The case
that makes this hold is a decode (`DecodeInv`): it asks the ended context and the
proxy's note before it believes ffmpeg, and a proxy that died unsaid is caught by
`Close` at the end.  `BatchInv` and `ChunkInv` say which files have been read: a batch
that returned no error ran every job (`NilIsAll`), so what a chunk leaves is judged
whole.  That nothing else writes it (`WrittenInTime`) needs that the file of a job still
to read has not been read but by the probe before it (`UnreadInv`), since a batch names
no file twice (`BatchOnce`).

*Podcasts.*  With nothing held, a call can rely only on what nobody takes back.  What a
call read as held covers what the podcast holds still, but for what came since
(`HeldInv`), and what it picked is none of that (`PickInv`); this is why the episode is
known by its guid and not its title, which another call may change in between.  A feed
that was subscribed to all the while was there to be seen in the look through the library
(`StoodInv`).  `ShowInv` and `OnInv` say that a call's podcast and episode are those it
looked up.  That what is told as queued waits rests on every finite set being the set of
some sequence's elements (`SeqOfSet`, from the library's facts on bijections).

*HttpRequest.*  That a write lands once is inductive with where its copies are
(`WriteInv`): what is about to be sent has not landed and has no stray, because only a
429 sends a write again, and that a copy still unacted on was refused.  `CountInv` ties
the tries to the count by the step the call is at: every retry follows a sending.

Only model-checked: liveness (`EveryCallerGetsIn`, `EveryCallEnds`, `CallEnds`,
`AuditEnds`, `EveryRequestEnds`), which the provers do not reach.  And the two findings,
which are counterexamples.

## Findings

* **A place in a playlist lost unsaid** (`merge_lost_places`).  When a key to act as
  another account cannot be made, its playlists are passed over, the old record is
  deleted and the account named nowhere: only a refused key is.
* **Chapters written over** (`chapters_follow`).  `item_chapters_set` holds nothing: an
  edit that reorders the tracks and moves the chapters with them between its read and
  its write has its chapters put back in the order of before.

Read in the code while modelling, and not run here: `podcast_episode_download` reads what
a podcast holds, then its feed, then the queue (`podcasts.go:517`-528), so a download that
ends in between is in neither list and the episode is fetched twice, where the queue
read first would miss nothing; a refusal of a file is read with no time limit
(`request.go:243`), and so is a file itself (`request.go:234`), so a server that stops
sending one holds an audit until its caller leaves (`sample.go:533`, `abs.go:57`: the
exception of `AuditEnds`); `playlist_create` from a collection that is to have another name
looks only for that name (`playlists.go:276`), while the server makes the copy under the
collection's (`:279`), so beside a playlist of that name there are two until the rename,
and for good if the rename fails (`:290`), though "a name the API key's user already has a
playlist by in the library is refused" (`:262`): TLC finds it in four steps when
`TakenNameIsRefused` is stated without `Unsought`; `item_match_tag` looks at a listing
made before any lock for books that carry a store, and `tagOne` does not look again
(`match_provider_tag.go:308`); `updateMany` sends books first and podcasts after, and
the numbers in its error count in that order (`items.go:1500`); the second plan of a
pair of `library_issues_merge` reads the share link again and nothing looks at it
(`issues_merge.go:276`); `user_bookmark_edit` that finds one removed bookmark still there
says nothing of the others (`users.go:778`), and one whose create fails renames whatever is
there then, another client's bookmark included, or its own that had landed, and tells it as
a rename (`users.go:791`); two creates of one name at once make two
lists of it (`collections.go:203`), since nothing is held.

## Not modelled, and why

Most of the repository's lines are `sdk/`: a client generated from the server's routes,
a function a route, and the program that generates it.  The models name the requests;
there is no state in the client to model.  Of `tools/`, most tools are one request
whose answer is given back, and most audits, scores, duplicates and spelling
detection are functions on strings and pictures with no state, which tests with
examples judge better.  Signal processing is floating point.  The registry is a table
fixed at start; flags and transport are other people's protocols.  In
`HttpRequest` how long a wait is, cookies, tracing and the words of errors are left out, a
redirect is one that is refused, as all but a documented one are, and what Go's own
transport sends again on a connection it finds closed counts with the attempt it is in:
it does so for what is safe to repeat, or has not been written.
Inside the modules that are here: pairing by
audio is an input of `IssuesMerge`, a request that failed on the way to creating a
key is known to nobody (`MakeKeyFails` leaves it behind), time is not modelled (keys
that expire, deadlines), and the plain fields of `item_edit`, which are sent as given
and need no read, are left out.  A request that failed has landed by then or never
does, which is less than `Exchange` allows: one still at work at the server after its call has given up could save a stale
list under the next call, and nothing in the program could tell.  That the server
refuses to add to an item it no longer has is taken from its refusing to remove
(`docs/README.md:49`).  `item_delete` of one file is in `BookFiles`
for an ebook; an audio file and the cover are refused before anything is sent
(`item_files.go:279`), and any other file goes the same way as an ebook.  In
`BookmarkEdits` a bookmark added and one renamed are told alike (`told`), and what the web
app touched is left out of what must not be lost, so neither a rename told for an add nor
the rename of another client's bookmark is caught.  In `BookFiles` time is not there:
that the watcher has let go within the half minute is `SettleEnds`' guard.  `HeldIsNotAskedFor` of
`Podcasts` leaves out what came while the call ran, which is the finding above; `Podcasts`
leaves out an episode's other fields, the settings of a show, clearing the queue and the
RSS feeds of `feeds.go`, each one request.  In `AudioSweep` the stretches of a file are
one play, and a container is read as what it is; a listing is given.

## Plan

In the order of what matters most.

1. *Done*: `RecordLocks`, `LockSet`, `ItemEdits`, `IssuesMerge`, `BookmarkEdits`,
   `NamedLists`, `BookFiles`, `Podcasts`, `ParallelEach`, `AudioSweep`, `Exchange`,
   `HttpRequest`; proofs of all of their safety.
2. That `ItemEdits` refines each request applied at once: `EveryWriteIsOneRequest` and
   `EditsAreDone` are the two halves of it.
3. The grouping of duplicate candidates, and the registry's selection, as pure modules.
