---------------------------- MODULE MCItemEdits ----------------------------
(* ItemEdits on a few items and calls, with the requests that meet.        *)
EXTENDS ItemEdits, TLC

CONSTANTS b1, show, p, q, audible, google

Ask(kind, items, add, drop, flag) ==
  [kind |-> kind, items |-> items, add |-> add, drop |-> drop, flag |-> flag]

(* Every kind of request, on books and a podcast, in the orders that cross:*)
(* edits and sweeps of more items than one request to the server carries,  *)
(* matches of a book and edits of it.                                      *)
AllRequests ==
  { Ask("edit",     <<show, b1>>,     {q},       {p}, FALSE),
    Ask("edit",     <<b1, show>>,     {},        {p}, TRUE),
    Ask("set",      <<b1, show>>,     {q},       {},  FALSE),
    Ask("split",    <<>>,             {q},       {p}, FALSE),
    Ask("merge",    <<>>,             {q},       {p}, FALSE),
    Ask("rename",   <<>>,             {q},       {p}, FALSE),
    Ask("tag",      <<b1>>,           {audible}, {},  TRUE),
    Ask("fill",     <<b1>>,           {audible}, {},  FALSE),
    Ask("override", <<b1>>,           {audible}, {},  TRUE),
    Ask("keep",     <<b1>>,           {audible}, {},  FALSE),
    Ask("keep",     <<b1>>,           {google},  {},  TRUE),
    Ask("delete",   <<b1>>,           {},        {},  FALSE) }

(* One item, two, and everything: what calls wait for each other on.       *)
LiveRequests ==
  { Ask("tag",   <<b1>>,       {audible}, {}, TRUE),
    Ask("edit",  <<show, b1>>, {audible}, {}, FALSE),
    Ask("merge", <<>>,         {audible}, {p}, FALSE) }

Symmetry == Permutations(Calls)
=============================================================================
