----------------------------- MODULE MCNamedLists -----------------------------
(* NamedLists on one collection and one playlist, and room for four more.  *)
EXTENDS NamedLists, TLC

CONSTANTS k1, k2, k3, p1, p2, p3, a, b, e1, e2

Ask(op, kind, list, name, describe, add, remove) ==
  [op |-> op, kind |-> kind, list |-> list, name |-> name, describe |-> describe,
   add |-> add, remove |-> remove]

Lists(first, second) ==
  [i \in Ids |-> CASE i = k1 -> first [] i = p1 -> second [] OTHER -> None]

(* The collection holds a book; the playlist holds it as well, or both.    *)
BothLists ==
  { Lists([name |-> a, entries |-> {e1}], [name |-> a, entries |-> some]) :
      some \in {{e1}, {e1, e2}} }

(* Creates, a copy under another name, edits that rename, add and remove,  *)
(* by id and by name, and deletes.                                         *)
AllRequests ==
  { Ask("create", "collection", None, b, FALSE, {e1}, {}),
    Ask("create", "playlist", None, b, FALSE, {}, {}),
    Ask("copy", "playlist", a, b, FALSE, {}, {}),
    Ask("copy", "playlist", k1, None, TRUE, {}, {}),
    Ask("edit", "collection", a, b, FALSE, {e2}, {e1}),
    Ask("edit", "collection", k1, None, FALSE, {e1, e2}, {}),
    Ask("edit", "playlist", p1, b, FALSE, {e2}, {e1}),
    Ask("edit", "playlist", a, None, TRUE, {}, {e1, e2}),
    Ask("delete", "collection", k1, None, FALSE, {}, {}),
    Ask("delete", "playlist", p1, None, FALSE, {}, {}) }

Symmetry == Permutations(Calls) \cup Permutations({k2, k3}) \cup Permutations({p2, p3})
=============================================================================
