----------------------------- MODULE MCBookFiles -----------------------------
(* BookFiles on a book of two tracks and two ebooks.                       *)
EXTENDS BookFiles, TLC

CONSTANTS t1, t2, e1, e2

Told == <<t1, t2>>

Ask(op, order, ebook) == [op |-> op, order |-> order, ebook |-> ebook]

Plain(op) == Ask(op, Told, Keep)

(* Merge, cancel, embed; three edits, of the tracks, of the main ebook and *)
(* of both; chapters fitted or set; the first ebook erased.                *)
AllRequests ==
  { Plain(op) : op \in {"merge", "cancel", "embed", "fit", "chapters"} } \cup
  { Ask("edit", <<t2, t1>>, Keep), Ask("edit", <<t2, t1>>, e2), Ask("edit", Told, None),
    Ask("file", Told, e1) }

(* An edit of the tracks beside a fitting of the chapters.                 *)
FitRequests == { Ask("edit", <<t2, t1>>, Keep), Plain("fit") }
=============================================================================
