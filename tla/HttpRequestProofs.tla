------------------------- MODULE HttpRequestProofs -------------------------
(***************************************************************************)
(* Proofs about a request to the server, for any number of tries: what it  *)
(* promises the tools, and that sending it again keeps the promise.        *)
(***************************************************************************)
EXTENDS HttpRequest, TLAPS

(***************************************************************************)
(* The inductive invariant behind them.                                    *)
(***************************************************************************)
(* Every retry follows a request that was sent: what is about to be sent   *)
(* was sent n times, what came of a sending n + 1 times.                   *)
CountInv ==
  /\ asked <= n + 1
  /\ at \in {"send", "rest", "pause"} => asked = n
  /\ at \in {"sent", "reading", "cut", "handed", "ok"} => asked = n + 1
  /\ at = "came" /\ came # "lost" => asked = n + 1

(* A write that is to be sent, or may be sent again after a 429, has not   *)
(* landed and cannot; on its way it lands once.                            *)
WriteInv ==
  Writes =>
    /\ landed + strays <= 1
    /\ copy = "sent" => landed + strays = 0
    /\ at \in {"send", "rest"} => landed + strays = 0
    /\ at = "came" /\ came = "later" => landed + strays = 0
    /\ at # "pause"

(* Only what waits for an answer has a copy on its way, and a documented   *)
(* status answers for one that landed.                                     *)
AnswerInv ==
  /\ copy # "none" => at = "sent"
  /\ copy = "acted" => landed > 0
  /\ came = "fine"  => landed > 0
  /\ at = "came"    => came # "nothing"
  /\ at = "ok"      => came = "fine"

RequestInv == TypeOK /\ CountInv /\ WriteInv /\ AnswerInv

-----------------------------------------------------------------------------
(* The call's next steps, the server's and the caller's apart.             *)
Elsewhere == TimeIsOver \/ CallerLeaves \/ Acts \/ ActsLate

LEMMA TypeStep ==
  ASSUME TypeOK, Next
  PROVE  TypeOK'
  <1> USE RequestAssumption DEF TypeOK, Over, server, client
  <1>1. CASE Send
    BY <1>1 DEF Send
  <1>2. CASE NotSent
    BY <1>2 DEF NotSent, Failures
  <1>3. ASSUME NEW answer \in Answers, Answered(answer)
        PROVE  TypeOK'
    BY <1>3 DEF Answered, LetGo
  <1>4. ASSUME NEW failure \in Failures, NoAnswer(failure)
        PROVE  TypeOK'
    BY <1>4 DEF NoAnswer, LetGo
  <1>5. CASE Retry
    BY <1>5 DEF Retry, GoesAgain, Left
  <1>6. CASE PassOn
    BY <1>6 DEF PassOn
  <1>7. CASE Rested \/ RestCut
    BY <1>7 DEF Rested, RestCut
  <1>8. CASE ReadEnds \/ ReadCut \/ ReadStopped
    BY <1>8 DEF ReadEnds, ReadCut, ReadStopped
  <1>9. CASE AskAgain
    BY <1>9 DEF AskAgain, Left
  <1>10. CASE LeaveCut \/ Paused \/ PauseCut
    BY <1>10 DEF LeaveCut, Paused, PauseCut
  <1>11. CASE TimeIsOver
    BY <1>11 DEF TimeIsOver
  <1>12. CASE CallerLeaves
    BY <1>12 DEF CallerLeaves
  <1>13. CASE Acts
    BY <1>13 DEF Acts
  <1>14. CASE ActsLate
    BY <1>14 DEF ActsLate
  <1> QED BY <1>1, <1>2, <1>3, <1>4, <1>5, <1>6, <1>7, <1>8, <1>9, <1>10, <1>11, <1>12, <1>13, <1>14
      DEF Next, Decide, Fetch

LEMMA CountStep ==
  ASSUME TypeOK, CountInv, AnswerInv, Next
  PROVE  CountInv'
  <1> USE DEF TypeOK, Over, CountInv, server, client
  <1>1. CASE Send
    BY <1>1 DEF Send
  <1>2. CASE NotSent
    BY <1>2 DEF NotSent
  <1>3. ASSUME NEW answer \in Answers, Answered(answer)
        PROVE  CountInv'
    BY <1>3 DEF Answered, Answers
  <1>4. ASSUME NEW failure \in Failures, NoAnswer(failure)
        PROVE  CountInv'
    BY <1>4 DEF NoAnswer, Failures
  <1>5. CASE Retry
    BY <1>5 DEF Retry, GoesAgain
  <1>6. CASE PassOn
    BY <1>6 DEF PassOn, Failures
  <1>7. CASE Rested \/ RestCut
    BY <1>7 DEF Rested, RestCut
  <1>8. CASE ReadEnds \/ ReadCut \/ ReadStopped
    BY <1>8 DEF ReadEnds, ReadCut, ReadStopped
  <1>9. CASE AskAgain
    BY <1>9 DEF AskAgain
  <1>10. CASE LeaveCut \/ Paused \/ PauseCut
    BY <1>10 DEF LeaveCut, Paused, PauseCut
  <1>11. CASE Elsewhere
    BY <1>11 DEF Elsewhere, TimeIsOver, CallerLeaves, Acts, ActsLate
  <1> QED BY <1>1, <1>2, <1>3, <1>4, <1>5, <1>6, <1>7, <1>8, <1>9, <1>10, <1>11
      DEF Next, Decide, Fetch, Elsewhere

(* Only a 429 sends a write again, and only what reads is asked for again. *)
LEMMA WriteStep ==
  ASSUME TypeOK, WriteInv, AnswerInv, Next
  PROVE  WriteInv'
  <1> USE DEF TypeOK, Over, WriteInv, Writes, server, client
  <1>1. CASE Send
    BY <1>1 DEF Send
  <1>2. CASE NotSent
    BY <1>2 DEF NotSent, AnswerInv
  <1>3. ASSUME NEW answer \in Answers, Answered(answer)
        PROVE  WriteInv'
    BY <1>3 DEF Answered, Answers, LetGo
  <1>4. ASSUME NEW failure \in Failures, NoAnswer(failure)
        PROVE  WriteInv'
    BY <1>4 DEF NoAnswer, Failures, LetGo
  <1>5. CASE Retry
    BY <1>5 DEF Retry, GoesAgain, RetrySafe
  <1>6. CASE PassOn
    BY <1>6 DEF PassOn
  <1>7. CASE Rested \/ RestCut
    BY <1>7 DEF Rested, RestCut
  <1>8. CASE ReadEnds \/ ReadCut \/ ReadStopped
    BY <1>8 DEF ReadEnds, ReadCut, ReadStopped
  <1>9. CASE AskAgain
    BY <1>9 DEF AskAgain, RetrySafe
  <1>10. CASE LeaveCut \/ Paused \/ PauseCut
    BY <1>10 DEF LeaveCut, Paused, PauseCut
  <1>11. CASE TimeIsOver \/ CallerLeaves
    BY <1>11 DEF TimeIsOver, CallerLeaves
  <1>12. CASE Acts
    BY <1>12 DEF Acts, AnswerInv
  <1>13. CASE ActsLate
    BY <1>13 DEF ActsLate
  <1> QED BY <1>1, <1>2, <1>3, <1>4, <1>5, <1>6, <1>7, <1>8, <1>9, <1>10, <1>11, <1>12, <1>13
      DEF Next, Decide, Fetch

LEMMA AnswerStep ==
  ASSUME TypeOK, AnswerInv, Next
  PROVE  AnswerInv'
  <1> USE DEF TypeOK, Over, AnswerInv, server, client
  <1>1. CASE Send
    BY <1>1 DEF Send
  <1>2. CASE NotSent
    BY <1>2 DEF NotSent
  <1>3. ASSUME NEW answer \in Answers, Answered(answer)
        PROVE  AnswerInv'
    BY <1>3 DEF Answered, Answers, LetGo
  <1>4. ASSUME NEW failure \in Failures, NoAnswer(failure)
        PROVE  AnswerInv'
    BY <1>4 DEF NoAnswer, Failures, LetGo
  <1>5. CASE Retry
    BY <1>5 DEF Retry
  <1>6. CASE PassOn
    BY <1>6 DEF PassOn
  <1>7. CASE Rested \/ RestCut
    BY <1>7 DEF Rested, RestCut
  <1>8. CASE ReadEnds \/ ReadCut \/ ReadStopped
    BY <1>8 DEF ReadEnds, ReadCut, ReadStopped
  <1>9. CASE AskAgain \/ LeaveCut \/ Paused \/ PauseCut
    BY <1>9 DEF AskAgain, LeaveCut, Paused, PauseCut
  <1>10. CASE Elsewhere
    BY <1>10 DEF Elsewhere, TimeIsOver, CallerLeaves, Acts, ActsLate
  <1> QED BY <1>1, <1>2, <1>3, <1>4, <1>5, <1>6, <1>7, <1>8, <1>9, <1>10
      DEF Next, Decide, Fetch, Elsewhere

THEOREM Invariance == Spec => []RequestInv
<1>1. Init => RequestInv
  <2>1. Init => TypeOK
    <3>1. 0 \in 0..(Tries - 1)
      BY RequestAssumption
    <3>2. 0 \in Nat
      OBVIOUS
    <3> QED BY <3>1, <3>2, Zenon DEF Init, TypeOK
  <2>2. Init => CountInv
    BY DEF Init, CountInv
  <2>3. Init => WriteInv
    BY DEF Init, WriteInv
  <2>4. Init => AnswerInv
    BY DEF Init, AnswerInv
  <2> QED BY <2>1, <2>2, <2>3, <2>4 DEF RequestInv
<1>2. RequestInv /\ [Next]_vars => RequestInv'
  <2> SUFFICES ASSUME RequestInv, [Next]_vars
               PROVE  RequestInv'
    OBVIOUS
  <2>1. CASE Next
    BY <2>1, TypeStep, CountStep, WriteStep, AnswerStep DEF RequestInv
  <2>2. CASE UNCHANGED vars
    BY <2>2 DEF vars, client, server, RequestInv, TypeOK, CountInv, WriteInv, AnswerInv, Writes
  <2> QED BY <2>1, <2>2
<1>3. QED
  BY <1>1, <1>2, PTL DEF Spec

(* Every variable of a call keeps its type: the count of retries never     *)
(* reaches Tries.                                                          *)
THEOREM TypeCorrect == Spec => []TypeOK
  BY Invariance, PTL DEF RequestInv

(* However its tries are lost, in RoundTrip or in Fetch, a request is sent *)
(* Tries times at most, and an answer says how often it was.               *)
THEOREM TriesAreCounted == Spec => []TriesCounted
<1>1. RequestInv => TriesCounted
  BY RequestAssumption DEF RequestInv, TypeOK, CountInv, TriesCounted
<1>2. QED
  BY <1>1, Invariance, PTL

(* Every step of a call is one of the exchange the tools rely on, or none. *)
LEMMA StepImplements ==
  ASSUME RequestInv, Next
  PROVE  [Promise!Next]_(Promise!vars)
  <1> USE DEF Promise!vars, Promise!Next, Told, Writes, Over, server, client
  <1> DEFINE Same == UNCHANGED Promise!vars
  <1>1. CASE Acts \/ ActsLate
    <2>1. landed' = landed + 1 /\ UNCHANGED <<kind, at>>
      BY <1>1 DEF Acts, ActsLate
    <2>2. ~Writes \/ landed = 0
      BY <1>1 DEF Acts, ActsLate, RequestInv, WriteInv, TypeOK
    <2> QED BY <2>1, <2>2 DEF Promise!Land
  <1>2. CASE ReadEnds /\ at' = "ok"
    BY <1>2 DEF ReadEnds, RequestInv, AnswerInv, Promise!Succeed
  <1>3. CASE /\ RestCut \/ ReadStopped \/ LeaveCut \/ PauseCut \/ ReadEnds \/ ReadCut \/ PassOn
             /\ at' = "failed"
    BY <1>3 DEF RestCut, ReadStopped, LeaveCut, PauseCut, ReadEnds, ReadCut, PassOn, Promise!Fail
  <1>4. CASE Send \/ NotSent \/ Retry \/ Rested \/ AskAgain \/ Paused
    BY <1>4 DEF Send, NotSent, Retry, Rested, AskAgain, Paused
  <1>5. ASSUME NEW answer \in Answers, Answered(answer)
        PROVE  Same
    BY <1>5 DEF Answered, LetGo
  <1>6. ASSUME NEW failure \in Failures, NoAnswer(failure)
        PROVE  Same
    BY <1>6 DEF NoAnswer, LetGo
  <1>7. CASE (ReadCut \/ PassOn) /\ at' # "failed"
    BY <1>7 DEF ReadCut, PassOn
  <1>8. CASE TimeIsOver \/ CallerLeaves
    BY <1>8 DEF TimeIsOver, CallerLeaves
  <1>9. RestCut \/ ReadStopped \/ LeaveCut \/ PauseCut => at' = "failed"
    BY DEF RestCut, ReadStopped, LeaveCut, PauseCut
  <1>10. ReadEnds => at' \in {"ok", "failed"}
    BY DEF ReadEnds
  <1> QED BY <1>1, <1>2, <1>3, <1>4, <1>5, <1>6, <1>7, <1>8, <1>9, <1>10 DEF Next, Decide, Fetch

(* Every behaviour of a call is one of Exchange: a write lands once at     *)
(* most, and only what was done is told to have been.                      *)
THEOREM Refinement == Spec => ImplementsExchange
<1>1. Init => Promise!Init
  BY DEF Init, Promise!Init, Told, Writes
<1>2. RequestInv /\ [Next]_vars => [Promise!Next]_(Promise!vars)
  <2>1. ASSUME UNCHANGED vars
        PROVE  UNCHANGED Promise!vars
    BY <2>1 DEF vars, client, server, Promise!vars, Told, Writes
  <2> QED BY <2>1, StepImplements
<1>3. QED
  BY <1>1, <1>2, Invariance, PTL DEF Spec, ImplementsExchange, Promise!Spec

(* Whatever became of its tries: a write is done once at most, and what is *)
(* told to have worked was done.                                           *)
THEOREM PromiseKept == Spec => []Promise!OnceAndSo
<1>1. RequestInv => Promise!OnceAndSo
  BY DEF RequestInv, TypeOK, WriteInv, AnswerInv, Told, Promise!OnceAndSo
<1>2. QED
  BY <1>1, Invariance, PTL
=============================================================================
