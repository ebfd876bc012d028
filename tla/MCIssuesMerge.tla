--------------------------- MODULE MCIssuesMerge ---------------------------
(* IssuesMerge on two missing records and the one that took their place,   *)
(* an admin and another listener.                                          *)
EXTENDS IssuesMerge

CONSTANTS o1, o2, f, kt, ann, x, y

Of(kind, who) == [kind |-> kind, of |-> who]

Both == [o \in Old |-> f]

(* The old records say x of the things given, the new one has of them; and *)
(* what stands in the call's way.                                          *)
World(things, has, pairs, feeds_, shares_, refused_) ==
  [val     |-> [t \in Things |->
                 [r \in Records |-> CASE t \notin things -> {}
                                      [] r \in Old       -> {x}
                                      [] OTHER           -> has]],
   pair    |-> pairs,
   feeds   |-> feeds_,
   shares  |-> shares_,
   refused |-> refused_]

Own     == {Of("details", kt), Of("cover", kt)}
Theirs  == {Of("progress", ann), Of("playlists", ann)}
Shelves == {Of("collections", kt), Of("bookmarks", kt), Of("playlists", kt)}

(* Both records paired with the one new, which already says something of   *)
(* the listener; an account no key can act as; a feed on one, a share on   *)
(* the other; one record nothing took the place of.                        *)
AllWorlds ==
  { World(Own,     {y}, Both, {}, {}, {}),
    World(Theirs,  {y}, Both, {}, {}, {}),
    World(Theirs,  {},  Both, {}, {}, {ann}),
    World(Shelves, {},  [Both EXCEPT ![o2] = None], {}, {}, {ann}),
    World(Own,     {},  Both, {o1}, {o2}, {}) }

AllLive == {Of("details", kt), Of("chapters", kt), Of("progress", ann)}

OneWorld ==
  { World({Of("playlists", ann)}, {}, [Both EXCEPT ![o2] = None], {}, {}, {}) }

NoneLive == {}
=============================================================================
