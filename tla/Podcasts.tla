------------------------------ MODULE Podcasts ------------------------------
(***************************************************************************)
(* The tool calls of one turn that change podcasts and their episodes:     *)
(* podcast_add, podcast_episode_download, podcast_check_new,               *)
(* podcast_episode_edit and podcast_episode_delete (podcasts.go).          *)
(*                                                                         *)
(* None of them holds a lock.  The server downloads in the background, one *)
(* episode at a time.  It drops a request for one that waits already, but  *)
(* downloads one the podcast holds a second time, as another episode, so   *)
(* the program looks at what is held and what waits before it asks.        *)
(***************************************************************************)
EXTENDS Naturals, Sequences, FiniteSets, SequencesExt

CONSTANTS
  Calls,        (* the calls of a turn                                     *)
  Shows,        (* the podcasts a library may have, each by its folder     *)
  Feeds,        (* the feeds there are                                     *)
  MaxFeed,      (* bound: how many episodes a feed comes to list           *)
  Ids,          (* bound: the ids the server may give to episodes          *)
  Nothing,      (* no podcast, no episode                                  *)
  TurnRequests, (* what the calls of a turn may ask                        *)
  FirstShows,   (* the feed of each podcast as a turn finds them           *)
  FirstEpisodes,(* the episodes as a turn finds them                       *)
  FirstFeeds,   (* how many episodes each feed lists then                  *)
  MaxOutside    (* bound: how often the web app changes something          *)

(* The first episode a feed published is 1.  An episode is titled as its   *)
(* feed has it, until it is edited.                                        *)
Entries == 1..MaxFeed
Episode == [show : Shows, entry : Entries, title : Entries]

Request == [op : {"add", "download", "check", "retitle", "delete"}, show : Shows,
            feed : Feeds, indexes : SUBSET (0..MaxFeed), latest : 0..MaxFeed,
            which : Ids \cup Entries, title : Entries]

ASSUME PodcastsAssumption ==
  /\ MaxFeed \in Nat
  /\ Ids \cap Entries = {}
  /\ Nothing \notin Feeds \cup Episode
  /\ TurnRequests \subseteq Request
  /\ FirstShows \in [Shows -> Feeds \cup {Nothing}]
  /\ FirstEpisodes \in [Ids -> Episode \cup {Nothing}]
  /\ FirstFeeds \in [Feeds -> 0..MaxFeed]
  /\ MaxOutside \in Nat

VARIABLES
  shows,        (* the feed each podcast subscribes to                     *)
  episodes,     (* the episodes the server has                             *)
  born,         (* the ids it has given                                    *)
  queue,        (* what downloads (the first) and what waits               *)
  published,    (* how many episodes each feed lists                       *)
  checked,      (* how many it listed when a podcast was last checked      *)
  pc,           (* the step each call is at                                *)
  req,          (* what it was asked                                       *)
  held,         (* the episodes of the podcast it read                     *)
  listed,       (* how many episodes of the feed it read                   *)
  pick,         (* what it is to ask for                                   *)
  on,           (* the episode it is about                                 *)
  came,         (* what has come to be held since a call read the podcast  *)
  stood,        (* the podcasts that had its feed since it began           *)
  budget        (* how often the web app may still change something        *)

server       == <<shows, episodes, born, queue, published, checked>>
work         == <<held, listed, pick, on>>
history      == <<came, stood>>
podcastsVars == <<server, pc, req, work, history, budget>>

Answers == {"ok", "warned", "deleted", "refused", "failed"}
Steps == Answers \cup {"idle", "feed", "queue", "send", "check", "subscribed", "create",
                     "latest", "update", "delete", "deletion"}

PodcastsTypeOK ==
  /\ shows     \in [Shows -> Feeds \cup {Nothing}]
  /\ episodes  \in [Ids -> Episode \cup {Nothing}]
  /\ born      \subseteq Ids
  /\ queue     \in Seq(Shows \X Entries)
  /\ published \in [Feeds -> 0..MaxFeed]
  /\ checked   \in [Shows -> 0..MaxFeed]
  /\ pc        \in [Calls -> Steps]
  /\ req       \in [Calls -> TurnRequests]
  /\ held      \in [Calls -> SUBSET Episode]
  /\ listed    \in [Calls -> 0..MaxFeed]
  /\ pick      \in [Calls -> SUBSET Entries]
  /\ on        \in [Calls -> Ids \cup {Nothing}]
  /\ came      \in [Calls -> SUBSET (Shows \X Entries)]
  /\ stood     \in [Calls -> SUBSET Shows]
  /\ budget    \in 0..MaxOutside

PodcastsInit ==
  /\ shows     = FirstShows
  /\ episodes  = FirstEpisodes
  /\ born      = {i \in Ids : FirstEpisodes[i] # Nothing}
  /\ \/ queue = <<>>
     \/ \E s \in Shows, n \in Entries :
          /\ shows[s] # Nothing /\ n <= FirstFeeds[shows[s]]
          /\ \A i \in born : episodes[i].entry # n
          /\ queue = << <<s, n>> >>
  /\ published = FirstFeeds
  /\ checked   = [s \in Shows |-> 0]
  /\ pc        = [c \in Calls |-> "idle"]
  /\ req       \in [Calls -> TurnRequests]
  /\ held      = [c \in Calls |-> {}]
  /\ listed    = [c \in Calls |-> 0]
  /\ pick      = [c \in Calls |-> {}]
  /\ on        = [c \in Calls |-> Nothing]
  /\ came      = [c \in Calls |-> {}]
  /\ stood     = [c \in Calls |-> {s \in Shows : shows[s] = req[c].feed}]
  /\ budget    = MaxOutside

Go(c, step) == pc' = [pc EXCEPT ![c] = step]
Set(f, c, x) == [f EXCEPT ![c] = x]

Of(s)      == {i \in Ids : episodes[i] # Nothing /\ episodes[i].show = s}
Here(s)    == {episodes[i] : i \in Of(s)}
HeldOf(s)  == {e.entry : e \in Here(s)}
Waiting(s) == {n \in Entries : <<s, n>> \in ToSet(queue)}

(* What a step of a call leaves alone, and the history it makes.           *)
Keeps(some) == UNCHANGED <<req, budget>> /\ UNCHANGED some

Subscribed(c) == {s \in Shows : shows[s] = req[c].feed}

Standing ==
  stood' = [c \in Calls |->
    {s \in Shows : shows'[s] = req[c].feed /\ (pc[c] = "idle" \/ s \in stood[c])}]

(* The server drops a request for what waits already.                      *)
Queued(s, some) ==
  queue' = queue \o SetToSeq({s} \X (some \ Waiting(s)))

-----------------------------------------------------------------------------
(* A call reads the podcast whose episodes it is to fetch, then its feed,  *)
(* then the download queue.                                                *)
ReadShow(c) ==
  /\ pc[c] = "idle"
  /\ req[c].op \in {"download", "check"}
  /\ shows[req[c].show] # Nothing
  /\ held' = Set(held, c, Here(req[c].show))
  /\ came' = Set(came, c, {})
  /\ Go(c, IF req[c].op = "download" THEN "feed" ELSE "check")
  /\ Keeps(<<server, listed, pick, on, stood>>)

ReadFeed(c) ==
  /\ pc[c] = "feed"
  /\ listed' = Set(listed, c, published[shows[req[c].show]])
  /\ Go(c, "queue")
  /\ Keeps(<<server, held, pick, on, history>>)

(* The feed is listed newest first, and its indexes count from 0.          *)
Chosen(c) == {listed[c] - i : i \in req[c].indexes}

(* Mutant: an episode is known again by its title.                         *)
HeldByTitle(c) == {e.title : e \in held[c]}

(* An episode is known again by its guid or its audio, not by its title,   *)
(* which an edit changes.                                                  *)
HeldEntries(c) == {e.entry : e \in held[c]}

(* What is held or waits is not asked for.                                 *)
ReadQueue(c) ==
  /\ pc[c] = "queue"
  /\ \A i \in req[c].indexes : i < listed[c]
  /\ LET some == Chosen(c) \ (HeldEntries(c) \cup Waiting(req[c].show)) IN
       /\ pick' = Set(pick, c, some)
       /\ Go(c, IF some = {} THEN "ok" ELSE "send")
  /\ Keeps(<<server, held, listed, on, history>>)

Send(c) ==
  /\ pc[c] = "send"
  /\ Queued(req[c].show, pick[c])
  /\ \E how \in {"ok", "failed"} : Go(c, how)
  /\ Keeps(<<shows, episodes, born, published, checked, work, history>>)

(* The server looks the feed over for what it lists since it last did and  *)
(* the podcast does not hold, and queues it.                               *)
CheckNew(c) ==
  /\ pc[c] = "check"
  /\ LET s == req[c].show  last == published[shows[s]] IN
       /\ Queued(s, ((checked[s] + 1)..last) \ HeldOf(s))
       /\ checked' = [checked EXCEPT ![s] = last]
  /\ \E how \in {"ok", "failed"} : Go(c, how)
  /\ Keeps(<<shows, episodes, born, published, work, history>>)

-----------------------------------------------------------------------------
(* The episode of an id, or those of a title.                              *)
Named(c) ==
  LET s == req[c].show IN
    IF req[c].which \in Ids THEN Of(s) \cap {req[c].which}
    ELSE {i \in Of(s) : episodes[i].title = req[c].which}

(* An edit or a delete reads the podcast and finds its one episode there.  *)
(* A title the episode has already is not sent.                            *)
FindEpisode(c) ==
  /\ pc[c] = "idle"
  /\ req[c].op \in {"retitle", "delete"}
  /\ shows[req[c].show] # Nothing
  /\ \E i \in Ids :
       /\ Named(c) = {i}
       /\ on' = Set(on, c, i)
       /\ Go(c, CASE req[c].op = "delete" -> "delete"
                  [] episodes[i].title = req[c].title -> "ok"
                  [] OTHER -> "update")
  /\ Keeps(<<server, held, listed, pick, history>>)

Retitle(c) ==
  /\ pc[c] = "update"
  /\ episodes[on[c]] # Nothing
  /\ episodes' = [episodes EXCEPT ![on[c]].title = req[c].title]
  /\ \E how \in {"ok", "failed"} : Go(c, how)
  /\ Keeps(<<shows, born, queue, published, checked, work, history>>)

(* The delete is answered, or not; an answer is not the episode gone.      *)
Delete(c) ==
  /\ pc[c] = "delete"
  /\ episodes' \in {episodes, [episodes EXCEPT ![on[c]] = Nothing]}
  /\ \E step \in {"deletion", "failed"} : Go(c, step)
  /\ Keeps(<<shows, born, queue, published, checked, work, history>>)

(* Mutant: an accepted delete is a delete.                                 *)
DeletedAtOnce(c) ==
  /\ pc[c] = "deletion"
  /\ Go(c, "deleted")
  /\ Keeps(<<server, work, history>>)

Deleted(c) ==
  /\ pc[c] = "deletion"
  /\ episodes[on[c]] = Nothing
  /\ Go(c, "deleted")
  /\ Keeps(<<server, work, history>>)

-----------------------------------------------------------------------------
(* podcast_add parses the feed, looks whether a podcast of the library has *)
(* it, makes one, and queues the newest the feed listed.                   *)
ParseFeed(c) ==
  /\ pc[c] = "idle"
  /\ req[c].op = "add"
  /\ listed' = Set(listed, c, published[req[c].feed])
  /\ Go(c, "subscribed")
  /\ stood' = Set(stood, c, Subscribed(c))
  /\ Keeps(<<server, held, pick, on, came>>)

LookThrough(c) ==
  /\ pc[c] = "subscribed"
  /\ Subscribed(c) = {}
  /\ Go(c, "create")
  /\ Keeps(<<server, work, history>>)

(* The server refuses only a folder that holds a podcast.                  *)
Subscribe(s, feed) ==
  /\ shows[s] = Nothing
  /\ shows'   = [shows EXCEPT ![s] = feed]
  /\ checked' = [checked EXCEPT ![s] = published[feed]]
  /\ Standing

Newest(c) == {n \in 1..listed[c] : n + req[c].latest > listed[c]}

Create(c) ==
  /\ pc[c] = "create"
  /\ Subscribe(req[c].show, req[c].feed)
  /\ \/ pick' = Set(pick, c, Newest(c)) /\ Go(c, IF Newest(c) = {} THEN "ok" ELSE "latest")
     \/ Go(c, "failed") /\ UNCHANGED pick
  /\ Keeps(<<episodes, born, queue, published, held, listed, on, came>>)

(* A queueing that fails, landed or not, is a warning.                     *)
QueueLatest(c) ==
  /\ pc[c] = "latest"
  /\ \/ Queued(req[c].show, pick[c]) /\ \E how \in {"ok", "warned"} : Go(c, how)
     \/ UNCHANGED queue /\ Go(c, "warned")
  /\ Keeps(<<shows, episodes, born, published, checked, work, history>>)

(* What was named is not found or is not one, an index is past the feed's  *)
(* end, the feed has a podcast, a read fails, or nothing is confirmed.     *)
Refuse(c) ==
  /\ pc[c] \in {"idle", "feed", "queue", "subscribed"}
  /\ Go(c, "refused")
  /\ Keeps(<<server, work, came>>)
  /\ Standing

(* A request does not land, or a deletion is not seen done.                *)
RequestFails(c) ==
  /\ pc[c] \in {"send", "check", "update", "delete", "deletion", "create"}
  /\ Go(c, "failed")
  /\ Keeps(<<server, work, history>>)

-----------------------------------------------------------------------------
(* The server's own work: a download ends, and what came is an episode,    *)
(* though one of it be held; or it fails.                                  *)
DownloadEnds ==
  /\ queue # <<>>
  /\ queue' = Tail(queue)
  /\ \E i \in Ids \ born :
       LET s == Head(queue)[1]  n == Head(queue)[2] IN
         /\ born' = born \cup {i}
         /\ episodes' = [episodes EXCEPT ![i] = [show |-> s, entry |-> n, title |-> n]]
         /\ came' = [c \in Calls |-> came[c] \cup {<<s, n>>}]
  /\ UNCHANGED <<shows, published, checked, pc, req, work, stood, budget>>

DownloadFails ==
  /\ queue # <<>>
  /\ queue' = Tail(queue)
  /\ UNCHANGED <<shows, episodes, born, published, checked, pc, req, work, history, budget>>

Publish(f) ==
  /\ published[f] < MaxFeed
  /\ published' = [published EXCEPT ![f] = @ + 1]
  /\ UNCHANGED <<shows, episodes, born, queue, checked, pc, req, work, history, budget>>

(* The web app does what a call may do.                                    *)
WebChange ==
  /\ budget > 0
  /\ budget' = budget - 1
  /\ \/ \E i \in Ids : episodes[i] # Nothing /\ episodes' = [episodes EXCEPT ![i] = Nothing]
          /\ UNCHANGED <<shows, checked, queue, stood>>
     \/ \E s \in Shows, f \in Feeds : Subscribe(s, f) /\ UNCHANGED <<episodes, queue>>
     \/ \E s \in Shows : shows[s] # Nothing
          /\ \E n \in 1..published[shows[s]] : Queued(s, {n})
          /\ UNCHANGED <<shows, checked, episodes, stood>>
  /\ UNCHANGED <<born, published, pc, req, work, came>>

Step(c) ==
  \/ ReadShow(c) \/ ReadFeed(c) \/ ReadQueue(c) \/ Send(c) \/ CheckNew(c)
  \/ FindEpisode(c) \/ Retitle(c) \/ Delete(c) \/ Deleted(c)
  \/ ParseFeed(c) \/ LookThrough(c) \/ Create(c) \/ QueueLatest(c)
  \/ Refuse(c) \/ RequestFails(c)

PodcastsNext ==
  \/ \E c \in Calls : Step(c)
  \/ DownloadEnds \/ DownloadFails
  \/ \E f \in Feeds : Publish(f)
  \/ WebChange

PodcastsSpec == PodcastsInit /\ [][PodcastsNext]_podcastsVars

-----------------------------------------------------------------------------
(* A download call asks for an episode the podcast holds only where that   *)
(* episode came while the call ran: whatever the held ones are titled now, *)
(* and whatever is published, renamed or deleted beside it.                *)
Sends(c) == pc[c] = "send" /\ pc'[c] # "send"

HeldIsNotAskedFor ==
  [][\A c \in Calls : Sends(c) =>
       \A n \in pick[c] \cap HeldOf(req[c].show) : <<req[c].show, n>> \in came[c]]_podcastsVars

(* What a call answers is so: the episodes it says are queued wait, though *)
(* the server drops some of them without a word; the one it says is deleted*)
(* is gone, though the server accepts a delete it does not do; and the feed*)
(* it subscribes to is none some podcast had all the while it ran ("A feed *)
(* the library already subscribes to is refused").                         *)
Ends(c, how) == pc[c] # how /\ pc'[c] = how

Subscribes(c) ==
  /\ pc[c] = "create" /\ pc'[c] # "create"
  /\ \E s \in Shows : shows[s] = Nothing /\ shows'[s] # Nothing

AnswersAreSo ==
  [][\A c \in Calls :
       /\ Ends(c, "ok") /\ pc[c] \in {"send", "latest"} =>
            \A n \in pick[c] : <<req[c].show, n>> \in ToSet(queue')
       /\ Ends(c, "deleted") => episodes[on[c]] = Nothing
       /\ Subscribes(c) => stood[c] = {}]_podcastsVars
=============================================================================
