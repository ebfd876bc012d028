---------------------------- MODULE HttpRequest ----------------------------
(***************************************************************************)
(* One call of the generated client: Execute sends a request through Fetch *)
(* and RetryTransport.RoundTrip, or a request for a file through Do alone, *)
(* to a server that may act on a copy of it at any time, answer, break the *)
(* answer off or say nothing.  What is sent again, and how often, is       *)
(* decided in two places that share a count.  One attempt is one call of   *)
(* the transport below.                                                    *)
(***************************************************************************)
EXTENDS Naturals

CONSTANTS
  Tries,        (* Retry.Tries: the most a request is sent                 *)
  Kinds         (* the kinds of request the program sends                  *)

(* A GET, a write whose body is held (Marshal) or absent, one whose body   *)
(* is a reader (SetBody), and a GET of a file, handed back unread.         *)
AllKinds == {"read", "write", "upload", "file"}

ASSUME RequestAssumption ==
  /\ Tries \in Nat \ {0}
  /\ Kinds \subseteq AllKinds

VARIABLES
  kind,         (* the request's                                           *)
  at,           (* where the call is                                       *)
  came,         (* what came of the last attempt                           *)
  n,            (* again.n: the times it was sent again                    *)
  late,         (* whether the time its Do has is over                     *)
  gone,         (* whether the caller's context is                         *)
  copy,         (* the copy of the request the attempt put on its way      *)
  strays,       (* copies the call no longer waits for                     *)
  landed,       (* how often the server acted on it                        *)
  asked         (* how often it was sent                                   *)

client == <<kind, at, came, n, late, gone, asked>>
server == <<copy, strays, landed>>
vars   == <<client, server>>

(* What an answer may be: a status the operation documents, one with a web *)
(* page for body, a 502 to 504, a 429, a redirect, any other.              *)
Answers == {"fine", "page", "busy", "later", "moved", "refused"}

(* What may come instead: a connection that was working went away          *)
(* (Dropped), or any other failure, a time limit among them.               *)
Failures == {"dropped", "lost"}

Over == {"ok", "failed", "handed"}

TypeOK ==
  /\ kind   \in Kinds
  /\ at     \in {"send", "sent", "came", "rest", "reading", "cut", "pause"} \cup Over
  /\ came   \in {"nothing"} \cup Answers \cup Failures
  /\ n      \in 0..(Tries - 1)
  /\ late   \in BOOLEAN
  /\ gone   \in BOOLEAN
  /\ copy   \in {"none", "sent", "acted"}
  /\ strays \in Nat
  /\ landed \in Nat
  /\ asked  \in Nat

Init ==
  /\ kind \in Kinds
  /\ at     = "send"
  /\ came   = "nothing"
  /\ n      = 0
  /\ late   = FALSE
  /\ gone   = FALSE
  /\ copy   = "none"
  /\ strays = 0
  /\ landed = 0
  /\ asked  = 0

-----------------------------------------------------------------------------
(* Mutant: any request is worth sending again.                             *)
AnythingIsSafe == TRUE

RetrySafe == kind \in {"read", "file"}

Rewinds == kind # "upload"

Left == n < Tries - 1

(* The context RoundTrip sees ends with its Do's time; Fetch's is its      *)
(* caller's alone.                                                         *)
DoEnded == gone \/ late

Send ==
  /\ at = "send"
  /\ ~DoEnded
  /\ at'    = "sent"
  /\ copy'  = "sent"
  /\ asked' = asked + 1
  /\ UNCHANGED <<kind, came, n, late, gone, strays, landed>>

(* The server cannot be reached, or the context is over.                   *)
NotSent ==
  /\ at = "send"
  /\ at'   = "came"
  /\ came' = "lost"
  /\ UNCHANGED <<kind, n, late, gone, asked, server>>

(* A copy nobody waits for may still be acted on.                          *)
LetGo ==
  /\ copy'   = "none"
  /\ strays' = strays + (IF copy = "sent" THEN 1 ELSE 0)
  /\ UNCHANGED landed

(* A documented status answers what was done; a 429 what will not be.  Any *)
(* other may come from something in front of the server.                   *)
Answered(answer) ==
  /\ at = "sent"
  /\ answer = "fine"  => copy = "acted"
  /\ answer = "later" => copy = "sent"
  /\ at'   = "came"
  /\ came' = answer
  /\ IF answer = "later" THEN copy' = "none" /\ UNCHANGED <<strays, landed>> ELSE LetGo
  /\ UNCHANGED <<kind, n, late, gone, asked>>

(* No answer came, or none before the time for its header was over.        *)
NoAnswer(failure) ==
  /\ at = "sent"
  /\ at'   = "came"
  /\ came' = failure
  /\ LetGo
  /\ UNCHANGED <<kind, n, late, gone, asked>>

-----------------------------------------------------------------------------
(* RoundTrip decides.                                                      *)

GoesAgain ==
  /\ Left
  /\ \/ came = "dropped" /\ RetrySafe /\ ~DoEnded
     \/ came = "later" /\ Rewinds
     \/ came = "busy" /\ RetrySafe

Retry ==
  /\ at = "came"
  /\ GoesAgain
  /\ n'  = n + 1
  /\ at' = "rest"
  /\ UNCHANGED <<kind, came, late, gone, asked, server>>

(* An error, and a redirect, which is refused, end the call; a file is     *)
(* handed back; any other answer is read.                                  *)
PassOn ==
  /\ at = "came"
  /\ ~GoesAgain
  /\ at' = CASE came \in Failures \cup {"moved"}           -> "failed"
             [] kind = "file" /\ came \in {"fine", "page"} -> "handed"
             [] OTHER                                      -> "reading"
  /\ UNCHANGED <<kind, came, n, late, gone, asked, server>>

Rested ==
  /\ at = "rest"
  /\ at' = "send"
  /\ UNCHANGED <<kind, came, n, late, gone, asked, server>>

RestCut ==
  /\ at = "rest"
  /\ DoEnded
  /\ at' = "failed"
  /\ UNCHANGED <<kind, came, n, late, gone, asked, server>>

-----------------------------------------------------------------------------
(* The answer is read: by Fetch, or, when it refuses a file, by stream.    *)

(* What was read whole may be too long; reading may fail for good.         *)
ReadEnds ==
  /\ at = "reading"
  /\ \/ at' = "failed"
     \/ at' = "ok" /\ came = "fine"
  /\ UNCHANGED <<kind, came, n, late, gone, asked, server>>

(* The answer stops part way; what there is of a refusal is enough.        *)
ReadCut ==
  /\ at = "reading"
  /\ at' = IF kind = "file" THEN "failed" ELSE "cut"
  /\ UNCHANGED <<kind, came, n, late, gone, asked, server>>

(* Its Do's time is over, or the caller's context: the read fails.         *)
ReadStopped ==
  /\ at = "reading"
  /\ DoEnded
  /\ at' = "failed"
  /\ UNCHANGED <<kind, came, n, late, gone, asked, server>>

(* Mutant: Fetch starts a count of its own.                                *)
AskUncounted ==
  /\ at = "cut"
  /\ RetrySafe
  /\ ~gone
  /\ at' = "pause"
  /\ n'  = 0
  /\ UNCHANGED <<kind, came, late, gone, asked, server>>

AskAgain ==
  /\ at = "cut"
  /\ Left
  /\ RetrySafe
  /\ ~gone
  /\ n'  = n + 1
  /\ at' = "pause"
  /\ UNCHANGED <<kind, came, late, gone, asked, server>>

LeaveCut ==
  /\ at = "cut"
  /\ ~(Left /\ RetrySafe /\ ~gone)
  /\ at' = "failed"
  /\ UNCHANGED <<kind, came, n, late, gone, asked, server>>

(* Each time Fetch asks again is a Do of its own, with its own time.       *)
Paused ==
  /\ at = "pause"
  /\ at'   = "send"
  /\ late' = FALSE
  /\ UNCHANGED <<kind, came, n, gone, asked, server>>

PauseCut ==
  /\ at = "pause"
  /\ gone
  /\ at' = "failed"
  /\ UNCHANGED <<kind, came, n, late, gone, asked, server>>

-----------------------------------------------------------------------------
(* Time, the caller and the server.                                        *)

(* Mutant: a Do's time is over when its answer begins.                     *)
TimeTillAnswer ==
  /\ kind # "file"
  /\ at \in {"send", "sent", "came", "rest"}
  /\ ~late
  /\ late' = TRUE
  /\ UNCHANGED <<kind, at, came, n, gone, asked, server>>

(* The time a Do has covers its tries, its waits and the reading of its    *)
(* answer; that of a file has none.                                        *)
TimeIsOver ==
  /\ kind # "file"
  /\ at \in {"send", "sent", "came", "rest", "reading"}
  /\ ~late
  /\ late' = TRUE
  /\ UNCHANGED <<kind, at, came, n, gone, asked, server>>

CallerLeaves ==
  /\ at \notin Over
  /\ ~gone
  /\ gone' = TRUE
  /\ UNCHANGED <<kind, at, came, n, late, asked, server>>

Acts ==
  /\ copy = "sent"
  /\ copy'   = "acted"
  /\ landed' = landed + 1
  /\ UNCHANGED <<client, strays>>

(* A copy the client gave up on is acted on, the call over or not.         *)
ActsLate ==
  /\ strays > 0
  /\ strays' = strays - 1
  /\ landed' = landed + 1
  /\ UNCHANGED <<client, copy>>

-----------------------------------------------------------------------------
Decide == Retry \/ PassOn \/ Rested \/ RestCut

Fetch == ReadEnds \/ ReadCut \/ ReadStopped \/ AskAgain \/ LeaveCut \/ Paused \/ PauseCut

Next ==
  \/ Send \/ NotSent
  \/ \E answer \in Answers : Answered(answer)
  \/ \E failure \in Failures : NoAnswer(failure)
  \/ Decide
  \/ Fetch
  \/ TimeIsOver \/ CallerLeaves
  \/ Acts \/ ActsLate

Spec == Init /\ [][Next]_vars

(* The program's own steps are taken, time passes, and the wait for the    *)
(* header of an answer has an end (ResponseHeaderTimeout).  The server and *)
(* the caller need do nothing, and an answer may come byte by byte.        *)
Fairness ==
  /\ WF_vars(Send \/ NotSent)
  /\ WF_vars(NoAnswer("lost"))
  /\ WF_vars(Decide)
  /\ WF_vars(ReadStopped)
  /\ WF_vars(AskAgain \/ LeaveCut)
  /\ WF_vars(Paused \/ PauseCut)
  /\ WF_vars(TimeIsOver)

FairSpec == Spec /\ Fairness

-----------------------------------------------------------------------------
(* A request is sent Tries times at most however its tries are lost,       *)
(* before the answer (RoundTrip) or within it (Fetch), and what an answer  *)
(* says of how often it was sent (httpc.Tries) is how often it was.        *)
TriesCounted ==
  /\ asked <= Tries
  /\ at \in {"reading", "handed", "ok"} => asked = n + 1

(* A write is what must not be done twice.                                 *)
Writes == kind \in {"write", "upload"}

(* A file handed back is its caller's to read and judge.                   *)
Told == IF at \in {"ok", "failed"} THEN at ELSE "waiting"

Promise == INSTANCE Exchange WITH safe <- ~Writes, told <- Told, landed <- landed

(* Whatever is retried, a write lands once at most, an answer is told only *)
(* for what was done, and a failure may be of what lands later: what every *)
(* tool's account of its requests starts from.                             *)
ImplementsExchange == Promise!Spec

(* Whatever the server does, a call whose answer is read whole ends; a     *)
(* file's ends, is handed back, or is being refused by a server that does  *)
(* not finish, which ends with its caller's context.                       *)
EveryRequestEnds ==
  <>[](at \in Over \/ (kind = "file" /\ at = "reading" /\ ~gone))
=============================================================================
