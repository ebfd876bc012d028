----------------------------- MODULE MCPodcasts -----------------------------
(* Podcasts on two folders and two feeds, one of them subscribed to.       *)
EXTENDS Podcasts, TLC

CONSTANTS s1, s2, f1, f2, i1, i2, i3, i4

Ask(op, show, indexes, which) ==
  [op |-> op, show |-> show, feed |-> f1, indexes |-> indexes, latest |-> 0,
   which |-> which, title |-> 1]

Add(show, feed, latest) ==
  [op |-> "add", show |-> show, feed |-> feed, indexes |-> {}, latest |-> latest,
   which |-> 1, title |-> 1]

OneShow  == s1 :> f1 @@ s2 :> Nothing
TwoFeeds == f1 :> 2 @@ f2 :> 1

(* Two episodes are held, the newer under the older's title.               *)
TwoHeld == [i \in Ids |-> CASE i = i1 -> [show |-> s1, entry |-> 1, title |-> 1]
                            [] i = i2 -> [show |-> s1, entry |-> 2, title |-> 1]
                            [] OTHER -> Nothing]

(* Downloads of the newest and of two, a check, an edit to another's title,*)
(* deletes by id and by title, and adds of either feed.                    *)
AllRequests ==
  { Ask("download", s1, {0}, 1), Ask("download", s1, {0, 1}, 1), Ask("download", s2, {0, 1}, 1),
    Ask("check", s1, {}, 1), Ask("retitle", s1, {}, 2),
    Ask("delete", s1, {}, i1), Ask("delete", s1, {}, 1),
    Add(s2, f1, 0), Add(s2, f2, 1), Add(s1, f2, 0) }

Symmetry == Permutations(Calls) \cup Permutations({i3, i4})
=============================================================================
