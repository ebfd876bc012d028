-------------------------- MODULE MCBookmarkEdits --------------------------
(* BookmarkEdits on two items and two positions, with the requests that    *)
(* meet.                                                                   *)
EXTENDS BookmarkEdits, TLC

CONSTANTS b1, b2, old, new

Ask(kind, item, remove, add) ==
  [kind |-> kind, item |-> item, remove |-> remove, add |-> add]

Mark(time) == [time |-> time, title |-> new]

(* Edits of both items, one that removes and adds, one that removes two and*)
(* one that adds two, beside a delete of an item they edit.                *)
AllRequests ==
  { Ask("edit",    b1, {1},    <<Mark(0)>>),
    Ask("edit",    b1, {},     <<Mark(1), Mark(0)>>),
    Ask("edit",    b2, {0, 1}, <<>>),
    Ask("delete",  b1, {},     <<>>),
    Ask("preview", b1, {},     <<>>) }

Symmetry == Permutations(Calls)
=============================================================================
