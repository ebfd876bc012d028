---------------------------- MODULE ParallelEach ----------------------------
(***************************************************************************)
(* parallel.Each: a batch of jobs run a few at a time, the first error of  *)
(* which ends the run.  Each step of its loop and of a job's goroutine is  *)
(* an action; what the job itself does is its user's, who says when it     *)
(* ends and with what error.                                               *)
(***************************************************************************)
EXTENDS Naturals, FiniteSets

CONSTANTS
  MaxJobs,      (* bound: the longest batch                                *)
  Workers,      (* how many jobs run at once                               *)
  Caller,       (* the cause of a context its caller ended                 *)
  None          (* no error                                                *)

Jobs   == 1..MaxJobs
Errors == Jobs \cup {Caller}

ASSUME EachAssumption ==
  /\ MaxJobs \in Nat
  /\ Workers \in Nat \ {0}
  /\ None \notin Errors
  /\ Caller \notin Jobs

VARIABLES
  at,           (* where the loop is; "out" outside a call                 *)
  size,         (* the jobs of the batch: 1..size                          *)
  next,         (* the job to start next                                   *)
  slots,        (* the slots taken                                         *)
  job,          (* where each job's goroutine is                           *)
  cause,        (* why the context ended, if it did                        *)
  once,         (* the sync.Once of the first error                        *)
  first         (* that error                                              *)

vars == <<at, size, next, slots, job, cause, once, first>>

(* A goroutine keeps its slot until it leaves.                             *)
Holding == {"running", "failing", "cancelling", "leaving"}
Alive   == Holding \cup {"freed"}

TypeOK ==
  /\ at    \in {"out", "select", "check", "wait"}
  /\ size  \in 0..MaxJobs
  /\ next  \in 1..(MaxJobs + 1)
  /\ slots \in 0..Workers
  /\ job   \in [Jobs -> {"new", "done"} \cup Alive]
  /\ cause \in Errors \cup {None}
  /\ once  \in {"new", "busy", "done"}
  /\ first \in Errors \cup {None}

Init ==
  /\ at    = "out"
  /\ size  = 0
  /\ next  = 1
  /\ slots = 0
  /\ job   = [i \in Jobs |-> "new"]
  /\ cause = None
  /\ once  = "new"
  /\ first = None

Holders == {i \in Jobs : job[i] \in Holding}

Becomes(i, step) == job' = [job EXCEPT ![i] = step]

(* A call makes a context of its own, ended already when its caller's is.  *)
Begin(n, ended) ==
  /\ at = "out"
  /\ at'    = "select"
  /\ size'  = n
  /\ next'  = 1
  /\ slots' = 0
  /\ job'   = [i \in Jobs |-> "new"]
  /\ cause' = ended
  /\ once'  = "new"
  /\ first' = None

(* Mutant: as many at once as the batch has jobs.                          *)
TakeUncounted ==
  /\ at = "select"
  /\ next <= size
  /\ at' = "check"
  /\ UNCHANGED <<size, next, slots, job, cause, once, first>>

(* Of a free slot and an ended context a select takes either.              *)
TakeSlot ==
  /\ at = "select"
  /\ next <= size
  /\ slots < Workers
  /\ slots' = slots + 1
  /\ at' = "check"
  /\ UNCHANGED <<size, next, job, cause, once, first>>

SeeDone ==
  /\ at = "select"
  /\ next <= size
  /\ cause # None
  /\ at' = "check"
  /\ UNCHANGED <<size, next, slots, job, cause, once, first>>

Start ==
  /\ at = "check"
  /\ cause = None
  /\ Becomes(next, "running")
  /\ next' = next + 1
  /\ at' = "select"
  /\ UNCHANGED <<size, slots, cause, once, first>>

Break ==
  /\ \/ at = "check" /\ cause # None
     \/ at = "select" /\ next > size
  /\ at' = "wait"
  /\ UNCHANGED <<size, next, slots, job, cause, once, first>>

(* A job ends well, or with an error.                                      *)
EndsWell(i) ==
  /\ job[i] = "running"
  /\ Becomes(i, "leaving")
  /\ UNCHANGED <<at, size, next, slots, cause, once, first>>

EndsBadly(i) ==
  /\ job[i] = "running"
  /\ Becomes(i, "failing")
  /\ UNCHANGED <<at, size, next, slots, cause, once, first>>

(* The first to fail keeps its error, the ended context's if that is what  *)
(* it met, and ends the context; who fails meanwhile waits for it.         *)
KeepError(i) ==
  /\ job[i] = "failing"
  /\ once = "new"
  /\ once'  = "busy"
  /\ first' \in {i} \cup ({cause} \ {None})
  /\ Becomes(i, "cancelling")
  /\ UNCHANGED <<at, size, next, slots, cause>>

Cancel(i) ==
  /\ job[i] = "cancelling"
  /\ cause' = IF cause = None THEN first ELSE cause
  /\ once'  = "done"
  /\ Becomes(i, "leaving")
  /\ UNCHANGED <<at, size, next, slots, first>>

NotFirst(i) ==
  /\ job[i] = "failing"
  /\ once = "done"
  /\ Becomes(i, "leaving")
  /\ UNCHANGED <<at, size, next, slots, cause, once, first>>

(* Mutant: a goroutine goes and its slot stays taken.                      *)
FreeNothing(i) ==
  /\ job[i] = "leaving"
  /\ Becomes(i, "freed")
  /\ UNCHANGED <<at, size, next, slots, cause, once, first>>

FreeSlot(i) ==
  /\ job[i] = "leaving"
  /\ slots' = slots - 1
  /\ Becomes(i, "freed")
  /\ UNCHANGED <<at, size, next, cause, once, first>>

Gone(i) ==
  /\ job[i] = "freed"
  /\ Becomes(i, "done")
  /\ UNCHANGED <<at, size, next, slots, cause, once, first>>

Return ==
  /\ at = "wait"
  /\ \A i \in Jobs : job[i] \in {"new", "done"}
  /\ at' = "out"
  /\ UNCHANGED <<size, next, slots, job, cause, once, first>>

(* Mutant: only a job's error is one.                                      *)
FirstOnly == first

(* The first error, or why the context ended.                              *)
Answer == IF first # None THEN first ELSE cause

(* The caller's context ends.                                              *)
CallerEnds ==
  /\ at # "out"
  /\ cause = None
  /\ cause' = Caller
  /\ UNCHANGED <<at, size, next, slots, job, once, first>>

Inner(i) ==
  \/ KeepError(i) \/ Cancel(i) \/ NotFirst(i)
  \/ FreeSlot(i) \/ Gone(i)

Loop == TakeSlot \/ SeeDone \/ Start \/ Break

-----------------------------------------------------------------------------
(* No more than Workers jobs hold a slot at once, though an ended context  *)
(* may leave a slot taken by nobody.                                       *)
AtMostWorkers == Cardinality(Holders) <= Workers

(* No job outlives its run: what its jobs wrote may be read without a lock *)
(* once Each has returned.                                                 *)
NoneOutlives == at = "out" => \A i \in Jobs : job[i] \notin Alive

(* A run that returns no error ran every job of its batch, and none of     *)
(* them failed ("A run the caller's context cut short returns that cause,  *)
(* never nil").                                                            *)
NilMeansAll ==
  at = "out" /\ Answer = None =>
    (\A i \in 1..size : job[i] = "done") /\ once = "new"
=============================================================================
