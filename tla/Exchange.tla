------------------------------ MODULE Exchange ------------------------------
(***************************************************************************)
(* What the tools rely on of a request to the server, with nothing of how  *)
(* it is sent: a request that changes something does it once at most, an   *)
(* answer is given only for what was done, and a request that failed may   *)
(* have been done all the same, before the failure is told or after it.    *)
(***************************************************************************)
EXTENDS Naturals

VARIABLES
  safe,         (* whether doing it again changes nothing                  *)
  told,         (* what the caller was told                                *)
  landed        (* how often the server did it                             *)

vars == <<safe, told, landed>>

TypeOK ==
  /\ safe   \in BOOLEAN
  /\ told   \in {"waiting", "ok", "failed"}
  /\ landed \in Nat

Init ==
  /\ safe \in BOOLEAN
  /\ told   = "waiting"
  /\ landed = 0

Land ==
  /\ safe \/ landed = 0
  /\ landed' = landed + 1
  /\ UNCHANGED <<safe, told>>

Succeed ==
  /\ told = "waiting"
  /\ landed > 0
  /\ told' = "ok"
  /\ UNCHANGED <<safe, landed>>

Fail ==
  /\ told = "waiting"
  /\ told' = "failed"
  /\ UNCHANGED <<safe, landed>>

Next == Land \/ Succeed \/ Fail

Spec == Init /\ [][Next]_vars

(* A request that changes something is done once at most, and one told to  *)
(* have worked was done: every tool that counts what it changed by the     *)
(* answers it got counts on it.                                            *)
OnceAndSo ==
  /\ ~safe => landed <= 1
  /\ told = "ok" => landed > 0
=============================================================================
