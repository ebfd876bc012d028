---------------------------- MODULE RecordLocks ----------------------------
(***************************************************************************)
(* What lock.Set promises its callers, with nothing of how it does it.  A  *)
(* caller asks for a set of records (By) or for everything (All), is let   *)
(* in once nobody inside conflicts with it, and leaves.  A caller on its   *)
(* way out no longer holds anybody up in the eyes of this specification;   *)
(* LockSet may keep it waiting longer and still implement it.              *)
(***************************************************************************)
CONSTANTS
  Callers,      (* the goroutines: one per tool call of a turn             *)
  Keys,         (* the records a By call may name                          *)
  Everything    (* what All asks for                                       *)

VARIABLES
  place,        (* where each caller is: "out", "asked", "in", "leaving"   *)
  asks          (* what it asks for while it is not out                    *)

vars == <<place, asks>>

Requests == (SUBSET Keys) \cup {Everything}

(* All conflicts with every request, two By calls when they share a record. *)
Conflict(r, s) ==
  \/ r = Everything
  \/ s = Everything
  \/ r \cap s # {}

TypeOK ==
  /\ place \in [Callers -> {"out", "asked", "in", "leaving"}]
  /\ asks  \in [Callers -> Requests]

Init ==
  /\ place = [c \in Callers |-> "out"]
  /\ asks  = [c \in Callers |-> {}]

Ask(c, r) ==
  /\ place[c] = "out"
  /\ place' = [place EXCEPT ![c] = "asked"]
  /\ asks'  = [asks EXCEPT ![c] = r]

MayEnter(c, r) ==
  \A d \in Callers \ {c} : place[d] = "in" => ~Conflict(r, asks[d])

Enter(c) ==
  /\ place[c] = "asked"
  /\ MayEnter(c, asks[c])
  /\ place' = [place EXCEPT ![c] = "in"]
  /\ UNCHANGED asks

Leave(c) ==
  /\ place[c] = "in"
  /\ place' = [place EXCEPT ![c] = "leaving"]
  /\ UNCHANGED asks

Gone(c) ==
  /\ place[c] \in {"in", "leaving"}
  /\ place' = [place EXCEPT ![c] = "out"]
  /\ asks'  = [asks EXCEPT ![c] = {}]

Next ==
  \E c \in Callers :
    \/ \E r \in Requests : Ask(c, r)
    \/ Enter(c)
    \/ Leave(c)
    \/ Gone(c)

Spec == Init /\ [][Next]_vars

(* No two callers inside conflict: a record is held by one call at a time, *)
(* and while All holds nobody else is inside.                              *)
Exclusion ==
  \A c, d \in Callers :
    c # d /\ place[c] = "in" /\ place[d] = "in" => ~Conflict(asks[c], asks[d])

(* Everyone who asks is let in: two callers never wait on each other for   *)
(* ever, and nobody is passed over for ever.                               *)
EveryoneGetsIn == \A c \in Callers : (place[c] = "asked") ~> (place[c] = "in")
=============================================================================
