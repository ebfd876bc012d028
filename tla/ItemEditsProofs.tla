-------------------------- MODULE ItemEditsProofs --------------------------
(***************************************************************************)
(* ItemEdits for every set of calls, items, tags and requests: what a call *)
(* sends back whole is what the server has, every write is one request's,  *)
(* a sweep leaves nothing and a report of failure counts right.            *)
(***************************************************************************)
EXTENDS ItemEdits, FiniteSetTheorems, TLAPS

(***************************************************************************)
(* The inductive invariant behind HeldReadsAreCurrent.                     *)
(***************************************************************************)
(* A call is where its step says with the locks, and holds what its        *)
(* request needs.                                                          *)
Inside == {"held", "send", "match", "restore", "record", "salvage"}

PlaceInv ==
  \A c \in Calls :
    /\ pc[c] \in Ended \cup {"idle"}    => place[c] = "out"
    /\ pc[c] = "asked"                 => place[c] = "asked"
    /\ pc[c] \in Inside                => place[c] = "in"
    /\ pc[c] \in Inside \cup {"asked"} => asks[c] = Holds(req[c])

(* What it works on is what it holds, and what a sweep still has to send   *)
(* carries the value.                                                      *)
WorkInv ==
  \A c \in Calls :
    /\ pc[c] = "send" => req[c].kind \in Lists \cup Sweeps
    /\ pc[c] = "record" => req[c].kind \in Matches \cup {"tag"}
    /\ pc[c] \in {"match", "restore", "salvage"} => req[c].kind \in Matches
    /\ pc[c] \in Inside \ {"held"} /\ req[c].kind \notin Sweeps
         => left[c] \subseteq SetOf(req[c].items)
    /\ pc[c] = "send" /\ req[c].kind \in Sweeps
         => \A i \in left[c] \ outside[c] : Carries(req[c], seen[c][i])

EditInv ==
  TypeOK /\ Locks!Exclusion /\ PlaceInv /\ WorkInv /\ HeldReadsAreCurrent

(***************************************************************************)
(* The inductive invariant behind SendReportIsTrue: a list is sent in its  *)
(* order, so what is no longer left has landed unless the item was gone,   *)
(* and a report counts what was left when its request failed.              *)
(***************************************************************************)
SentInv ==
  \A c \in Calls :
    /\ req[c] \in TurnRequests \cup {NoRequest}
    /\ pc[c] \in {"idle", "asked", "held"} => landed[c] = {}
    /\ pc[c] = "send" /\ req[c].kind \in Lists =>
         /\ landed[c] \subseteq SetOf(req[c].items) \ left[c]
         /\ SetOf(req[c].items) \subseteq exists => SetOf(req[c].items) \ left[c] \subseteq landed[c]

ReportInv ==
  \A c \in Calls : report[c] # NoReport =>
    /\ pc[c] = "failed"
    /\ Cardinality(left[c]) = Len(req[c].items) - report[c].from + 1
    /\ Cardinality(landed[c]) <= report[c].to
    /\ SetOf(req[c].items) \subseteq exists => Cardinality(landed[c]) >= report[c].from - 1

(* The one behind SweepLeavesNone: what a sweep has not left to send no    *)
(* longer has the value.                                                   *)
SweptInv ==
  \A c \in Calls : pc[c] = "send" /\ req[c].kind \in Sweeps =>
    \A i \in exists \ (left[c] \cup outside[c]) : (req[c].drop \ req[c].add) \cap tags[i] = {}

(* And the one behind EditsAreDone: the same of an edit, whose items have  *)
(* what it sent for as long as it holds them.                              *)
DoneInv ==
  \A c \in Calls : pc[c] = "send" /\ req[c].kind \in Lists =>
    \A i \in (SetOf(req[c].items) \cap exists) \ (left[c] \cup outside[c]) :
      tags[i] = Payload(req[c], seen[c][i])

OneInv ==
  \A c \in Calls : pc[c] = "record" /\ req[c].kind = "tag" => left[c] = SetOf(req[c].items)

-----------------------------------------------------------------------------
LEMMA TypedRequests ==
  ASSUME NEW r \in Request
  PROVE  /\ SetOf(r.items) \subseteq Items
         /\ Holds(r) \in Locks!Requests
         /\ \A have \in SUBSET Tags : /\ Payload(r, have) \in SUBSET Tags
                                      /\ Swept(r, have) \in SUBSET Tags
<1>1. SetOf(r.items) \subseteq Items
  BY DEF Request, SetOf
<1>2. Holds(r) \in Locks!Requests
  BY <1>1 DEF Holds, Locks!Requests, Records
<1>3. \A have \in SUBSET Tags : /\ Payload(r, have) \in SUBSET Tags
                                /\ Swept(r, have) \in SUBSET Tags
  BY DEF Payload, Request, Edited, Swept, WithProviderTag
<1>4. QED
  BY <1>1, <1>2, <1>3

(* What Write, Finish and the rest of a step's parts leave well typed.     *)
LEMMA FinishTypes ==
  ASSUME TypeOK, NEW c \in Calls, NEW how \in Steps, Finish(c, how)
  PROVE  pc' \in [Calls -> Steps] /\ Locks!TypeOK'
  BY DEF TypeOK, Finish, Locks!TypeOK, Locks!Gone, Locks!Requests

LEMMA WriteTypes ==
  ASSUME TypeOK, NEW c \in Calls, NEW sent, Write(c, sent)
  PROVE  tags' \in [Items -> SUBSET Tags]
  BY TypedRequests DEF TypeOK, Write

LEMMA MatchedTypes ==
  ASSUME TypeOK, NEW c \in Calls, NEW i \in Items, Matched(c, i)
  PROVE  tags' \in [Items -> SUBSET Tags]
<1>1. PICK offered \in SUBSET Plain :
        tags' = [tags EXCEPT ![i] =
          IF offered # {} /\ (@ = {} \/ req[c].kind # "fill") THEN offered ELSE @]
  BY DEF Matched
<1>2. offered \in SUBSET Tags
  BY DEF Tags
<1>3. QED
  BY <1>1, <1>2 DEF TypeOK

LEMMA PutBackTypes ==
  ASSUME TypeOK, NEW c \in Calls, PutBack(c)
  PROVE  tags' \in [Items -> SUBSET Tags]
  BY DEF TypeOK, PutBack

LEMMA ChunkTypes ==
  ASSUME TypeOK, NEW c \in Calls, NEW chunk \in Chunks(req[c].items, left[c])
  PROVE  /\ chunk \subseteq left[c]
         /\ SendError(c, chunk) \in [from : Int, to : Int]
<1>1. chunk \subseteq left[c] /\ left[c] \subseteq Items
  BY DEF Chunks, Kin, TypeOK
<1>2. Cardinality(chunk) \in Int /\ Cardinality(left[c]) \in Int
  BY <1>1, ItemAssumption, FS_Subset, FS_CardinalityType
<1>3. Len(req[c].items) \in Int
  BY DEF TypeOK, Request
<1>4. QED
  BY <1>1, <1>2, <1>3 DEF SendError, NoReport

LEMMA StartTypes ==
  ASSUME TypeOK, NEW c \in Calls, NEW r \in TurnRequests, Start(c, r)
  PROVE  TypeOK'
<1>1. r \in Request
  BY ItemAssumption
<1>2. Locks!TypeOK' /\ pc' \in [Calls -> Steps]
  <2>1. CASE pc' = [pc EXCEPT ![c] = "alone"] /\ UNCHANGED locks
    BY <2>1 DEF TypeOK, Locks!TypeOK, locks, Steps, Ended
  <2>2. CASE pc' = [pc EXCEPT ![c] = "asked"] /\ Locks!Ask(c, Holds(r))
    BY <1>1, <2>2, TypedRequests DEF TypeOK, Locks!TypeOK, Locks!Ask, Steps
  <2>3. QED
    BY <2>1, <2>2 DEF Start
<1>3. req' \in [Calls -> Request]
  BY <1>1 DEF Start, TypeOK
<1>4. QED
  BY <1>2, <1>3 DEF Start, TypeOK, server, web

LEMMA StepTypes ==
  ASSUME TypeOK, NEW c \in Calls, Step(c)
  PROVE  TypeOK'
<1>0. USE DEF TypeOK, Steps, Ended, server, web, own, locks
<1>1. CASE Enter(c)
  BY <1>1 DEF Enter, Locks!Enter, Locks!TypeOK
<1>2. CASE ReadToEdit(c)
  BY <1>2, TypedRequests DEF ReadToEdit, See, Locks!TypeOK
<1>3. ASSUME Fail(c) PROVE TypeOK'
  BY <1>3, FinishTypes DEF Fail
<1>4. CASE ReplaceWhole(c)
  BY <1>4, TypedRequests DEF ReplaceWhole, Locks!TypeOK
<1>5. CASE ReadToSweep(c)
  BY <1>5 DEF ReadToSweep, See, Locks!TypeOK
<1>6. CASE ReadOne(c)
  BY <1>6, TypedRequests DEF ReadOne, See, Locks!TypeOK
<1>7. CASE Send(c)
  <2>1. PICK chunk \in Chunks(req[c].items, left[c]) :
          /\ Write(c, chunk)
          /\ Land(c, chunk)
          /\ left' = [left EXCEPT ![c] = @ \ chunk]
          /\ Finish(c, "failed") \/ UNCHANGED <<pc, locks>>
    BY <1>7 DEF Send
  <2>2. tags' \in [Items -> SUBSET Tags]
    BY <2>1, WriteTypes
  <2>3. Locks!TypeOK' /\ pc' \in [Calls -> Steps]
    BY <2>1, FinishTypes DEF Locks!TypeOK
  <2>4. landed' \in [Calls -> SUBSET Items] /\ left' \in [Calls -> SUBSET Items]
    BY <2>1 DEF Land
  <2>5. QED
    BY <1>7, <2>2, <2>3, <2>4 DEF Send
<1>8. CASE SendFails(c)
  <2>1. PICK chunk \in Chunks(req[c].items, left[c]) :
          /\ \E part \in SUBSET chunk : Write(c, part) /\ Land(c, part)
          /\ report' = [report EXCEPT ![c] = SendError(c, chunk)]
    BY <1>8 DEF SendFails
  <2>2. PICK part \in SUBSET chunk : Write(c, part) /\ Land(c, part)
    BY <2>1
  <2>3. tags' \in [Items -> SUBSET Tags]
    BY <2>2, WriteTypes
  <2>4. Locks!TypeOK' /\ pc' \in [Calls -> Steps]
    BY <1>8, FinishTypes DEF SendFails
  <2>5. landed' \in [Calls -> SUBSET Items]
    BY <2>2 DEF Land
  <2>6. report' \in [Calls -> [from : Int, to : Int]]
    BY <2>1, ChunkTypes
  <2>7. QED
    BY <1>8, <2>3, <2>4, <2>5, <2>6 DEF SendFails
<1>9. CASE AllSent(c)
  BY <1>9, FinishTypes DEF AllSent
<1>10. ASSUME NEW whole \in BOOLEAN, ServerRename(c, whole) PROVE TypeOK'
  <2>1. PICK part \in SUBSET {i \in exists : Carries(req[c], tags[i])} :
          tags' = [i \in Items |-> IF i \in part THEN Swept(req[c], tags[i])
                                  ELSE tags[i]]
    BY <1>10 DEF ServerRename
  <2>2. tags' \in [Items -> SUBSET Tags]
    BY <2>1, TypedRequests
  <2>3. Locks!TypeOK' /\ pc' \in [Calls -> Steps]
    BY <1>10, FinishTypes DEF ServerRename
  <2>4. QED
    BY <1>10, <2>2, <2>3 DEF ServerRename
<1>11. CASE Match(c)
  <2>1. tags' \in [Items -> SUBSET Tags]
    BY <1>11, MatchedTypes DEF Match
  <2>2. seen' \in [Calls -> [Items -> SUBSET Tags]]
    BY <1>11, <2>1 DEF Match
  <2>3. Locks!TypeOK' /\ pc' \in [Calls -> Steps]
    BY <1>11 DEF Match, Locks!TypeOK
  <2>4. outside' \in [Calls -> SUBSET Items] /\ budget' = budget
    BY <1>11 DEF Match
  <2>5. QED
    BY <1>11, <2>1, <2>2, <2>3, <2>4 DEF Match
<1>12. CASE MatchFoundNothing(c)
  BY <1>12, FinishTypes DEF MatchFoundNothing
<1>13. CASE MatchFails(c)
  BY <1>13, FinishTypes, MatchedTypes DEF MatchFails
<1>14. CASE RestoreKept(c)
  BY <1>14, PutBackTypes DEF RestoreKept, Locks!TypeOK
<1>15. CASE RestoreFails(c)
  <2>1. tags' \in [Items -> SUBSET Tags]
    BY <1>15, PutBackTypes DEF RestoreFails
  <2>2. Locks!TypeOK' /\ pc' \in [Calls -> Steps]
    BY <1>15, FinishTypes DEF RestoreFails, Locks!TypeOK
  <2>3. QED
    BY <1>15, <2>1, <2>2 DEF RestoreFails
<1>16. CASE Record(c)
  <2>1. tags' \in [Items -> SUBSET Tags]
    BY <1>16, WriteTypes DEF Record
  <2>2. Locks!TypeOK' /\ pc' \in [Calls -> Steps]
    BY <1>16, FinishTypes DEF Record, Outcomes
  <2>3. QED
    BY <1>16, <2>1, <2>2 DEF Record
<1>17. CASE RecordFails(c)
  <2>1. tags' \in [Items -> SUBSET Tags]
    BY <1>17, WriteTypes DEF RecordFails
  <2>2. Locks!TypeOK' /\ pc' \in [Calls -> Steps]
    BY <1>17, FinishTypes DEF RecordFails
  <2>3. QED
    BY <1>17, <2>1, <2>2 DEF RecordFails
<1>18. CASE Delete(c)
  BY <1>18, FinishTypes DEF Delete
<1>19. QED
  BY <1>1, <1>2, <1>3, <1>4, <1>5, <1>6, <1>7, <1>8, <1>9, <1>10, <1>11, <1>12,
     <1>13, <1>14, <1>15, <1>16, <1>17, <1>18
  DEF Step, RefuseToEdit, GiveUp, Rename, RenameFails
-----------------------------------------------------------------------------
(* Step(c) moves c alone: into its locks, on inside them, or out.          *)
Moves(c) ==
  \/ /\ pc[c] = "asked"
     /\ Locks!Enter(c)
     /\ pc' = [pc EXCEPT ![c] = "held"]
  \/ /\ pc[c] \in Inside
     /\ UNCHANGED locks
     /\ \E step \in Inside : pc' = [pc EXCEPT ![c] = step]
  \/ /\ pc[c] \in Inside
     /\ Locks!Gone(c)
     /\ \E how \in Ended : pc' = [pc EXCEPT ![c] = how]

LEMMA StepMoves ==
  ASSUME TypeOK, NEW c \in Calls, Step(c)
  PROVE  Moves(c) /\ req' = req
<1>0. USE DEF Moves, Inside, Ended, Finish, own
<1>1. CASE Enter(c)
  BY <1>1 DEF Enter
<1>2. CASE ReadToEdit(c) \/ ReplaceWhole(c) \/ ReadToSweep(c) \/ ReadOne(c)
  BY <1>2 DEF ReadToEdit, ReplaceWhole, ReadToSweep, ReadOne
<1>3. CASE RefuseToEdit(c) \/ GiveUp(c)
  BY <1>3 DEF RefuseToEdit, GiveUp, Fail
<1>4. CASE Send(c)
  <2>1. Finish(c, "failed") \/ UNCHANGED <<pc, locks>>
    BY <1>4 DEF Send
  <2>2. CASE UNCHANGED <<pc, locks>>
    BY <1>4, <2>2 DEF Send, TypeOK
  <2>3. QED
    BY <1>4, <2>1, <2>2 DEF Send
<1>5. CASE SendFails(c) \/ AllSent(c)
  BY <1>5 DEF SendFails, AllSent
<1>6. CASE Rename(c) \/ RenameFails(c)
  BY <1>6 DEF Rename, RenameFails, ServerRename
<1>7. CASE Match(c) \/ MatchFoundNothing(c) \/ MatchFails(c)
  BY <1>7 DEF Match, MatchFoundNothing, MatchFails
<1>8. CASE RestoreKept(c) \/ RestoreFails(c)
  BY <1>8 DEF RestoreKept, RestoreFails
<1>9. CASE Record(c) \/ RecordFails(c)
  BY <1>9 DEF Record, RecordFails, Outcomes
<1>10. CASE Delete(c)
  BY <1>10 DEF Delete
<1>11. QED
  BY <1>1, <1>2, <1>3, <1>4, <1>5, <1>6, <1>7, <1>8, <1>9, <1>10 DEF Step

(* What the others work from, Step(c) leaves alone.                        *)
LEMMA StepFrame ==
  ASSUME TypeOK, NEW c \in Calls, Step(c), NEW d \in Calls, d # c
  PROVE  /\ pc'[d] = pc[d] /\ place'[d] = place[d] /\ asks'[d] = asks[d]
         /\ seen'[d] = seen[d] /\ left'[d] = left[d] /\ outside'[d] = outside[d]
<1>1. pc'[d] = pc[d] /\ place'[d] = place[d] /\ asks'[d] = asks[d]
  <2>1. Moves(c)
    BY StepMoves
  <2>2. \E step \in Steps : pc' = [pc EXCEPT ![c] = step]
    BY <2>1 DEF Moves, Inside, Ended, Steps
  <2>3. pc'[d] = pc[d]
    BY <2>2 DEF TypeOK
  <2>4. Locks!Enter(c) \/ Locks!Gone(c) \/ UNCHANGED locks
    BY <2>1 DEF Moves
  <2>5. place'[d] = place[d] /\ asks'[d] = asks[d]
    BY <2>4 DEF TypeOK, Locks!TypeOK, Locks!Enter, Locks!Gone, locks
  <2>6. QED
    BY <2>3, <2>5
<1>2. seen'[d] = seen[d] /\ left'[d] = left[d] /\ outside'[d] = outside[d]
  <2>0. USE DEF own, web, TypeOK
  <2>1. CASE ReadToEdit(c) \/ ReadToSweep(c) \/ ReadOne(c)
    BY <2>1 DEF ReadToEdit, ReadToSweep, ReadOne, See
  <2>2. CASE Send(c)
    BY <2>2 DEF Send
  <2>3. CASE Match(c)
    BY <2>3 DEF Match
  <2>4. CASE ReplaceWhole(c) \/ SendFails(c) \/ AllSent(c)
    BY <2>4 DEF ReplaceWhole, SendFails, AllSent
  <2>5. CASE Enter(c) \/ RefuseToEdit(c) \/ GiveUp(c) \/ Rename(c)
              \/ RenameFails(c) \/ Delete(c)
    BY <2>5 DEF Enter, RefuseToEdit, GiveUp, Fail, Rename, RenameFails,
                ServerRename, Delete
  <2>6. CASE MatchFoundNothing(c) \/ MatchFails(c) \/ RestoreKept(c)
              \/ RestoreFails(c) \/ Record(c) \/ RecordFails(c)
    BY <2>6 DEF MatchFoundNothing, MatchFails, RestoreKept, RestoreFails, Record,
                RecordFails
  <2>7. QED
    BY <2>1, <2>2, <2>3, <2>4, <2>5, <2>6 DEF Step
<1>3. QED
  BY <1>1, <1>2

LEMMA StepPlaces ==
  ASSUME TypeOK, PlaceInv, Locks!Exclusion, NEW c \in Calls, Step(c)
  PROVE  PlaceInv' /\ Locks!Exclusion'
<1>1. PlaceInv'
  BY StepMoves, StepFrame
  DEF PlaceInv, Moves, TypeOK, Locks!TypeOK, locks, Locks!Enter, Locks!Gone,
      Inside, Ended, Steps
<1>2. Locks!Exclusion'
  BY StepMoves
  DEF Moves, Locks!Exclusion, TypeOK, Locks!TypeOK, locks, Locks!Enter,
      Locks!Gone, Locks!MayEnter, Locks!Conflict
<1>3. QED
  BY <1>1, <1>2

LEMMA StartPlaces ==
  ASSUME TypeOK, PlaceInv, Locks!Exclusion, NEW c \in Calls,
         NEW r \in TurnRequests, Start(c, r)
  PROVE  PlaceInv' /\ Locks!Exclusion'
<1>1. CASE pc' = [pc EXCEPT ![c] = "alone"] /\ UNCHANGED locks
  BY <1>1 DEF Start, PlaceInv, TypeOK, Locks!TypeOK, Locks!Exclusion, locks,
              Inside, Ended
<1>2. CASE pc' = [pc EXCEPT ![c] = "asked"] /\ Locks!Ask(c, Holds(r))
  BY <1>2 DEF Start, PlaceInv, TypeOK, Locks!TypeOK, Locks!Exclusion, Locks!Ask,
              Inside, Ended
<1>3. QED
  BY <1>1, <1>2 DEF Start
-----------------------------------------------------------------------------
(* A call inside holds what it works on.                                   *)
LEMMA WorkIsHeld ==
  ASSUME EditInv, NEW c \in Calls, pc[c] \in Inside \ {"held"}, NEW i \in left[c]
  PROVE  Held(c, i) /\ i \in Items
<1>1. place[c] = "in" /\ asks[c] = Holds(req[c]) /\ i \in Items
  BY DEF EditInv, PlaceInv, TypeOK, Inside
<1>2. CASE req[c].kind \in Sweeps
  <2>1. Holds(req[c]) = Everything
    BY <1>2 DEF Holds, Sweeps
  <2>2. QED
    BY <1>1, <2>1 DEF Held
<1>3. CASE req[c].kind \notin Sweeps
  <2>1. i \in SetOf(req[c].items)
    BY <1>3 DEF EditInv, WorkInv
  <2>2. req[c].kind \in Lists \cup Matches \cup {"tag"}
    BY <1>3 DEF EditInv, WorkInv, Inside
  <2>3. asks[c] = SetOf(req[c].items)
    BY <1>1, <2>2, <1>3 DEF Holds, Lists, Matches, Sweeps
  <2>4. QED
    BY <1>1, <2>1, <2>3 DEF Held
<1>4. QED
  BY <1>2, <1>3

LEMMA HeldByOne ==
  ASSUME Locks!Exclusion, NEW c \in Calls, NEW d \in Calls, c # d,
         NEW i, Held(c, i), Held(d, i)
  PROVE  FALSE
  BY DEF Held, Locks!Exclusion, Locks!Conflict

(* A call writes only items it holds.                                      *)
LEMMA WritesAreHeld ==
  ASSUME EditInv, NEW c \in Calls, Step(c), NEW i \in Items, tags'[i] # tags[i]
  PROVE  Held(c, i)
<1>1. ASSUME NEW sent \in SUBSET left[c], Write(c, sent) PROVE i \in left[c]
  BY <1>1 DEF Write, EditInv, TypeOK
<1>2. ASSUME PutBack(c) PROVE i \in left[c]
  BY <1>2 DEF PutBack, EditInv, TypeOK
<1>3. ASSUME NEW j \in left[c], Matched(c, j) PROVE i \in left[c]
  BY <1>3 DEF Matched, EditInv, TypeOK
<1>4. CASE Send(c)
  <2>1. PICK chunk \in Chunks(req[c].items, left[c]) : Write(c, chunk)
    BY <1>4 DEF Send
  <2>2. i \in left[c]
    BY <2>1, <1>1, ChunkTypes DEF EditInv
  <2>3. QED
    BY <1>4, <2>2, WorkIsHeld DEF Send, Inside
<1>5. CASE SendFails(c)
  <2>0. PICK chunk \in Chunks(req[c].items, left[c]) :
          \E part \in SUBSET chunk : Write(c, part)
    BY <1>5 DEF SendFails
  <2>1. PICK part \in SUBSET chunk : Write(c, part)
    BY <2>0
  <2>2. i \in left[c]
    BY <2>1, <1>1, ChunkTypes DEF EditInv
  <2>3. QED
    BY <1>5, <2>2, WorkIsHeld DEF SendFails, Inside
<1>6. CASE Rename(c) \/ RenameFails(c)
  <2>1. pc[c] = "held" /\ req[c].kind = "rename"
    BY <1>6 DEF Rename, RenameFails, ServerRename
  <2>2. place[c] = "in" /\ asks[c] = Everything
    BY <2>1 DEF EditInv, PlaceInv, Inside, Holds
  <2>3. QED
    BY <2>2 DEF Held
<1>7. CASE Match(c) \/ MatchFails(c)
  <2>1. i \in left[c] /\ pc[c] = "match"
    BY <1>7, <1>3 DEF Match, MatchFails
  <2>2. QED
    BY <2>1, WorkIsHeld DEF Inside
<1>8. CASE RestoreKept(c) \/ RestoreFails(c)
  <2>1. i \in left[c] /\ pc[c] = "restore"
    BY <1>8, <1>2 DEF RestoreKept, RestoreFails
  <2>2. QED
    BY <2>1, WorkIsHeld DEF Inside
<1>9. CASE Record(c) \/ RecordFails(c)
  <2>1. i \in left[c] /\ pc[c] \in {"record", "salvage"}
    BY <1>9, <1>1 DEF Record, RecordFails
  <2>2. QED
    BY <2>1, WorkIsHeld DEF Inside
<1>10. CASE UNCHANGED tags
  BY <1>10
<1>11. QED
  BY <1>4, <1>5, <1>6, <1>7, <1>8, <1>9, <1>10
  DEF Step, Enter, ReadToEdit, RefuseToEdit, ReplaceWhole, ReadToSweep, ReadOne,
      GiveUp, Fail, AllSent, MatchFoundNothing, Delete, server

(* What is pending of other calls stays current.                           *)
LEMMA OthersStayCurrent ==
  ASSUME EditInv, NEW c \in Calls, Step(c), NEW d \in Calls, d # c
  PROVE  \A i \in Pending(d)' \ outside'[d] : seen'[d][i] = tags'[i]
<1>1. TypeOK
  BY DEF EditInv
<1>2. Pending(d)' = Pending(d) /\ outside'[d] = outside[d] /\ seen'[d] = seen[d]
  BY <1>1, StepFrame, StepMoves DEF Pending
<1>3. ASSUME NEW i \in Pending(d) \ outside[d] PROVE tags'[i] = tags[i]
  <2>1. i \in left[d] /\ pc[d] \in Inside \ {"held"}
    BY <1>3 DEF Pending, Inside
  <2>2. Held(d, i) /\ i \in Items
    BY <2>1, WorkIsHeld
  <2>3. QED
    BY <2>2, HeldByOne, WritesAreHeld DEF EditInv
<1>4. QED
  BY <1>2, <1>3 DEF EditInv, HeldReadsAreCurrent
(* Its own reads are current too: it sends each item once, from a read     *)
(* nobody has written over since.                                          *)
LEMMA OwnStaysCurrent ==
  ASSUME EditInv, NEW c \in Calls, Step(c)
  PROVE  \A i \in Pending(c)' \ outside'[c] : seen'[c][i] = tags'[i]
<1>0. USE DEF EditInv, TypeOK
<1>1. ASSUME pc'[c] \notin {"send", "match", "record"}
      PROVE  Pending(c)' = {}
  BY <1>1 DEF Pending
<1>2. CASE ReadToEdit(c) \/ ReadToSweep(c) \/ ReadOne(c)
  <2>1. seen'[c] = tags /\ tags' = tags
    BY <1>2 DEF ReadToEdit, ReadToSweep, ReadOne, See, server
  <2>2. QED
    BY <2>1
<1>3. CASE ReplaceWhole(c)
  <2>1. Pending(c)' = {}
    BY <1>3 DEF ReplaceWhole, Pending
  <2>2. QED
    BY <2>1
<1>4. CASE Send(c)
  <2>1. PICK chunk \in Chunks(req[c].items, left[c]) :
          /\ Write(c, chunk)
          /\ left' = [left EXCEPT ![c] = @ \ chunk]
          /\ Finish(c, "failed") \/ UNCHANGED <<pc, locks>>
    BY <1>4 DEF Send
  <2>2. CASE Finish(c, "failed")
    BY <2>2, <1>1 DEF Finish
  <2>3. CASE UNCHANGED <<pc, locks>>
    <3>1. Pending(c)' \subseteq Pending(c) \ chunk
      BY <1>4, <2>1, <2>3 DEF Send, Pending
    <3>2. \A i \in Items \ chunk : tags'[i] = tags[i]
      BY <2>1 DEF Write
    <3>3. Pending(c) \subseteq Items
      BY DEF Pending
    <3>4. seen' = seen /\ outside' = outside
      BY <1>4 DEF Send, web
    <3>5. QED
      BY <3>1, <3>2, <3>3, <3>4 DEF HeldReadsAreCurrent
  <2>4. QED
    BY <2>1, <2>2, <2>3
<1>5. CASE Match(c)
  <2>1. CASE req[c].kind = "keep"
    BY <1>5, <2>1, <1>1 DEF Match
  <2>2. CASE req[c].kind # "keep"
    <3>1. seen'[c] = tags'
      BY <1>5, <2>2 DEF Match
    <3>2. QED
      BY <3>1
  <2>3. QED
    BY <2>1, <2>2
<1>6. CASE RestoreKept(c)
  <2>1. Pending(c)' \subseteq left[c] /\ seen' = seen
    BY <1>6 DEF RestoreKept, Pending, own
  <2>2. \A i \in left[c] : tags'[i] = seen[c][i]
    BY <1>6 DEF RestoreKept, PutBack
  <2>3. QED
    BY <2>1, <2>2
<1>7. CASE Enter(c)
  BY <1>7, <1>1 DEF Enter
<1>8. CASE RestoreFails(c)
  BY <1>8, <1>1 DEF RestoreFails, Finish
<1>9. ASSUME NEW how \in Ended, Finish(c, how)
      PROVE  Pending(c)' = {}
  BY <1>9, <1>1 DEF Finish, Ended
<1>10. CASE RefuseToEdit(c) \/ GiveUp(c) \/ SendFails(c) \/ AllSent(c)
               \/ Rename(c) \/ RenameFails(c)
  BY <1>10, <1>9 DEF RefuseToEdit, GiveUp, Fail, SendFails, AllSent, Rename,
                     RenameFails, ServerRename, Ended
<1>11. CASE MatchFoundNothing(c) \/ MatchFails(c) \/ Record(c)
               \/ RecordFails(c) \/ Delete(c)
  BY <1>11, <1>9 DEF MatchFoundNothing, MatchFails, Record, RecordFails, Delete,
                     Outcomes, Ended
<1>12. QED
  BY <1>2, <1>3, <1>4, <1>5, <1>6, <1>7, <1>8, <1>10, <1>11 DEF Step

LEMMA StepWork ==
  ASSUME EditInv, NEW c \in Calls, Step(c)
  PROVE  WorkInv'
<1>0. USE DEF EditInv, TypeOK
<1>1. req' = req
  BY StepMoves
<1>2. ASSUME NEW d \in Calls, d # c
      PROVE  pc'[d] = pc[d] /\ seen'[d] = seen[d] /\ left'[d] = left[d]
                /\ outside'[d] = outside[d]
  BY <1>2, StepFrame
<1>3. ASSUME pc'[c] \in Ended \cup {"held"}
      PROVE  WorkInv'
  BY <1>1, <1>2, <1>3 DEF WorkInv, Inside, Ended
<1>4. CASE ReadToEdit(c) \/ ReplaceWhole(c)
  BY <1>1, <1>2, <1>4 DEF ReadToEdit, ReplaceWhole, WorkInv, Lists, Sweeps
<1>5. CASE ReadToSweep(c)
  <2>1. /\ left'[c] = {i \in exists : Carries(req[c], tags[i])}
        /\ seen'[c] = tags
        /\ pc'[c] = "send"
    BY <1>5 DEF ReadToSweep, See
  <2>2. QED
    BY <1>1, <1>2, <1>5, <2>1 DEF ReadToSweep, WorkInv, Sweeps, Inside
<1>6. CASE ReadOne(c)
  BY <1>1, <1>2, <1>6 DEF ReadOne, WorkInv, Matches, Sweeps
<1>7. CASE Send(c)
  <2>1. PICK chunk :
          /\ left' = [left EXCEPT ![c] = @ \ chunk]
          /\ Finish(c, "failed") \/ UNCHANGED <<pc, locks>>
    BY <1>7 DEF Send
  <2>2. CASE Finish(c, "failed")
    BY <2>2, <1>3 DEF Finish, Ended
  <2>3. CASE UNCHANGED <<pc, locks>>
    BY <1>1, <1>2, <1>7, <2>1, <2>3 DEF Send, WorkInv, web
  <2>4. QED
    BY <2>1, <2>2, <2>3
<1>8. CASE Match(c)
  BY <1>1, <1>2, <1>8 DEF Match, WorkInv, Matches, Sweeps, Inside
<1>9. CASE RestoreKept(c)
  BY <1>1, <1>2, <1>9 DEF RestoreKept, WorkInv, own, web, Matches, Sweeps, Inside
<1>10. CASE RestoreFails(c)
  <2>1. CASE req[c].flag
    BY <1>1, <1>2, <1>10, <2>1
    DEF RestoreFails, WorkInv, own, web, Matches, Sweeps, Inside
  <2>2. CASE ~req[c].flag
    BY <1>3, <1>10, <2>2 DEF RestoreFails, Finish, Ended
  <2>3. QED
    BY <2>1, <2>2
<1>11. ASSUME NEW how \in Ended, Finish(c, how)
      PROVE  WorkInv'
  BY <1>11, <1>3 DEF Finish
<1>12. CASE Enter(c)
  BY <1>12, <1>3 DEF Enter
<1>13. CASE RefuseToEdit(c) \/ GiveUp(c) \/ SendFails(c) \/ AllSent(c)
               \/ Rename(c) \/ RenameFails(c)
  BY <1>13, <1>11 DEF RefuseToEdit, GiveUp, Fail, SendFails, AllSent, Rename,
                     RenameFails, ServerRename, Ended
<1>14. CASE MatchFoundNothing(c) \/ MatchFails(c) \/ Record(c)
               \/ RecordFails(c) \/ Delete(c)
  BY <1>14, <1>11 DEF MatchFoundNothing, MatchFails, Record, RecordFails, Delete,
                     Outcomes, Ended
<1>15. QED
  BY <1>4, <1>5, <1>6, <1>7, <1>8, <1>9, <1>10, <1>12, <1>13, <1>14 DEF Step
-----------------------------------------------------------------------------
LEMMA StepKeeps ==
  ASSUME EditInv, NEW c \in Calls, Step(c)
  PROVE  EditInv'
<1>1. TypeOK'
  BY StepTypes DEF EditInv
<1>2. PlaceInv' /\ Locks!Exclusion'
  BY StepPlaces DEF EditInv
<1>3. WorkInv'
  BY StepWork
<1>4. HeldReadsAreCurrent'
  BY OwnStaysCurrent, OthersStayCurrent DEF HeldReadsAreCurrent
<1>5. QED
  BY <1>1, <1>2, <1>3, <1>4 DEF EditInv

LEMMA StartKeeps ==
  ASSUME EditInv, NEW c \in Calls, NEW r \in TurnRequests, Start(c, r)
  PROVE  EditInv'
<1>0. USE DEF EditInv, TypeOK, Start
<1>1. TypeOK'
  BY StartTypes
<1>2. PlaceInv' /\ Locks!Exclusion'
  BY StartPlaces
<1>3. /\ pc'[c] \in {"alone", "asked"}
      /\ UNCHANGED <<tags, seen, left, outside>>
      /\ \A d \in Calls : d # c => pc'[d] = pc[d] /\ req'[d] = req[d]
  BY DEF server, web
<1>4. WorkInv'
  BY <1>3 DEF WorkInv, Inside
<1>5. \A d \in Calls : Pending(d)' \subseteq Pending(d)
  BY <1>3 DEF Pending
<1>6. HeldReadsAreCurrent'
  BY <1>3, <1>5 DEF HeldReadsAreCurrent
<1>7. QED
  BY <1>1, <1>2, <1>4, <1>6

(* The web app can spoil a read, but not without being noticed.            *)
LEMMA WebKeeps ==
  ASSUME EditInv, NEW i \in Items, WebEdit(i) \/ WebDelete(i)
  PROVE  EditInv'
<1>0. USE DEF EditInv, TypeOK
<1>1. /\ UNCHANGED <<locks, pc, own>>
      /\ outside' = [c \in Calls |-> outside[c] \cup {i}]
      /\ budget' = budget - 1 /\ budget > 0
  BY DEF WebEdit, WebDelete, Outside
<1>2. tags' = tags \/ \E new \in SUBSET Tags : tags' = [tags EXCEPT ![i] = new]
  BY DEF WebEdit, WebDelete, Tags
<1>3. exists' \subseteq Items
  BY DEF WebEdit, WebDelete
<1>4. budget' \in 0..MaxOutside
  BY <1>1, ItemAssumption
<1>5. TypeOK'
  BY <1>1, <1>2, <1>3, <1>4 DEF own, locks, Locks!TypeOK
<1>6. PlaceInv' /\ Locks!Exclusion'
  BY <1>1 DEF PlaceInv, Locks!Exclusion, own, locks
<1>7. WorkInv'
  BY <1>1 DEF WorkInv, own
<1>8. HeldReadsAreCurrent'
  BY <1>1, <1>2 DEF HeldReadsAreCurrent, Pending, own
<1>9. QED
  BY <1>5, <1>6, <1>7, <1>8

LEMMA InitHolds ==
  ASSUME Init
  PROVE  EditInv
<1>1. Locks!TypeOK /\ Locks!Exclusion
  BY DEF Init, Locks!Init, Locks!TypeOK, Locks!Exclusion, Locks!Requests
<1>2. NoRequest \in Request
  BY DEF NoRequest, Request, Kinds, Lists
<1>3. TypeOK
  BY <1>1, <1>2, ItemAssumption
  DEF Init, TypeOK, Steps, NoReport, Tags
<1>4. PlaceInv /\ WorkInv
  BY DEF Init, Locks!Init, PlaceInv, WorkInv, Inside, Ended
<1>5. HeldReadsAreCurrent
  BY DEF Init, HeldReadsAreCurrent, Pending
<1>6. QED
  BY <1>1, <1>3, <1>4, <1>5 DEF EditInv

LEMMA StutterKeeps ==
  ASSUME EditInv, UNCHANGED vars
  PROVE  EditInv'
  BY DEF EditInv, vars, locks, server, own, web, TypeOK, PlaceInv, WorkInv,
         HeldReadsAreCurrent, Pending, Locks!TypeOK, Locks!Exclusion

THEOREM Invariance == Spec => []EditInv
<1>1. Init => EditInv
  BY InitHolds
<1>2. EditInv /\ [Next]_vars => EditInv'
  BY StepKeeps, StartKeeps, WebKeeps, StutterKeeps DEF Next
<1>3. QED
  BY <1>1, <1>2, PTL DEF Spec

(* The variables keep their types.                                         *)
THEOREM TypeCorrect == Spec => []TypeOK
<1>1. EditInv => TypeOK
  BY DEF EditInv
<1>2. QED
  BY <1>1, Invariance, PTL

(* No call sends back a list another call has changed since it read it,    *)
(* however many calls, items and requests there are.                       *)
THEOREM NoLostUpdate == Spec => []HeldReadsAreCurrent
<1>1. EditInv => HeldReadsAreCurrent
  BY DEF EditInv
<1>2. QED
  BY <1>1, Invariance, PTL
-----------------------------------------------------------------------------
(* A list sent from "send" is what the request makes of the list as it is. *)
LEMMA SentIsCurrent ==
  ASSUME EditInv, NEW c \in Calls, pc[c] = "send", NEW sent \in SUBSET left[c],
         Write(c, sent), NEW i \in Items, tags'[i] # tags[i], i \notin outside[c]
  PROVE  /\ tags'[i] = Payload(req[c], tags[i])
         /\ req[c].kind \in Sweeps => Carries(req[c], tags[i])
<1>1. i \in sent /\ tags'[i] = Payload(req[c], seen[c][i])
  BY DEF Write
<1>2. CASE req[c].kind = "set"
  BY <1>1, <1>2 DEF Payload, Sweeps
<1>3. CASE req[c].kind # "set"
  <2>1. seen[c][i] = tags[i]
    BY <1>1, <1>3 DEF EditInv, HeldReadsAreCurrent, Pending
  <2>2. req[c].kind \in Sweeps => Carries(req[c], seen[c][i])
    BY <1>1 DEF EditInv, WorkInv
  <2>3. QED
    BY <1>1, <2>1, <2>2
<1>4. QED
  BY <1>2, <1>3

LEMMA StepIsOneRequest ==
  ASSUME EditInv, NEW c \in Calls, Step(c), NEW i \in Items, tags'[i] # tags[i]
  PROVE  MadeBy(c, i)
<1>1. Held(c, i)
  BY WritesAreHeld
<1>2. CASE req[c].kind \in Matches \/ i \in outside[c]
  BY <1>1, <1>2 DEF MadeBy
<1>3. CASE req[c].kind \notin Matches /\ i \notin outside[c]
  <2>1. CASE Send(c)
    <3>1. PICK chunk \in Chunks(req[c].items, left[c]) : Write(c, chunk)
      BY <2>1 DEF Send
    <3>2. chunk \subseteq left[c] /\ pc[c] = "send"
      BY <2>1, ChunkTypes DEF EditInv, Send
    <3>3. req[c].kind # "rename"
      BY <3>2 DEF EditInv, WorkInv, Lists, Sweeps
    <3>4. QED
      BY <1>1, <1>3, <3>1, <3>2, <3>3, SentIsCurrent DEF MadeBy
  <2>2. CASE SendFails(c)
    <3>0. PICK chunk \in Chunks(req[c].items, left[c]) :
            \E part \in SUBSET chunk : Write(c, part)
      BY <2>2 DEF SendFails
    <3>1. PICK part \in SUBSET chunk : Write(c, part)
      BY <3>0
    <3>2. part \subseteq left[c] /\ pc[c] = "send"
      BY <2>2, ChunkTypes DEF EditInv, SendFails
    <3>3. req[c].kind # "rename"
      BY <3>2 DEF EditInv, WorkInv, Lists, Sweeps
    <3>4. QED
      BY <1>1, <1>3, <3>1, <3>2, <3>3, SentIsCurrent DEF MadeBy
  <2>3. CASE Rename(c) \/ RenameFails(c)
    <3>1. /\ req[c].kind = "rename"
          /\ \E part \in SUBSET {j \in exists : Carries(req[c], tags[j])} :
               tags' = [j \in Items |-> IF j \in part THEN Swept(req[c], tags[j])
                                       ELSE tags[j]]
      BY <2>3 DEF Rename, RenameFails, ServerRename
    <3>2. tags'[i] = Swept(req[c], tags[i]) /\ Carries(req[c], tags[i])
      BY <3>1
    <3>3. QED
      BY <1>1, <3>1, <3>2 DEF MadeBy, Payload
  <2>4. CASE Record(c) \/ RecordFails(c)
    <3>1. Write(c, left[c]) /\ pc[c] \in {"record", "salvage"}
      BY <2>4 DEF Record, RecordFails
    <3>2. pc[c] = "record" /\ req[c].kind = "tag"
      BY <1>3, <3>1 DEF EditInv, WorkInv
    <3>3. i \in left[c] /\ tags'[i] = Payload(req[c], seen[c][i])
      BY <3>1 DEF Write
    <3>4. seen[c][i] = tags[i]
      BY <1>3, <3>2, <3>3 DEF EditInv, HeldReadsAreCurrent, Pending
    <3>5. QED
      BY <1>1, <3>2, <3>3, <3>4 DEF MadeBy, Sweeps
  <2>5. CASE Match(c) \/ MatchFails(c) \/ RestoreKept(c) \/ RestoreFails(c)
    BY <1>3, <2>5 DEF Match, MatchFails, RestoreKept, RestoreFails, EditInv, WorkInv
  <2>6. CASE UNCHANGED tags
    BY <2>6
  <2>7. QED
    BY <2>1, <2>2, <2>3, <2>4, <2>5, <2>6
    DEF Step, Enter, ReadToEdit, RefuseToEdit, ReplaceWhole, ReadToSweep, ReadOne,
        GiveUp, Fail, AllSent, MatchFoundNothing, Delete, server
<1>4. QED
  BY <1>2, <1>3

(* Every change of a list is the whole of one request of a call that holds *)
(* it, applied to the list as it is, or the web app's.                     *)
THEOREM WritesAreRequests == Spec => EveryWriteIsOneRequest
<1>1. ASSUME EditInv, [Next]_vars, NEW i \in Items, tags'[i] # tags[i]
      PROVE  WebStep \/ \E c \in Calls : MadeBy(c, i)
  <2>1. CASE \E c \in Calls : Step(c)
    BY <1>1, <2>1, StepIsOneRequest
  <2>2. CASE \E c \in Calls, r \in TurnRequests : Start(c, r)
    BY <1>1, <2>2 DEF Start, server
  <2>3. CASE \E j \in Items : WebEdit(j) \/ WebDelete(j)
    <3>1. budget' = budget - 1 /\ budget \in Int
      BY <1>1, <2>3, ItemAssumption
      DEF WebEdit, WebDelete, Outside, EditInv, TypeOK
    <3>2. QED
      BY <3>1 DEF WebStep
  <2>4. CASE UNCHANGED vars
    BY <1>1, <2>4 DEF vars, server
  <2>5. QED
    BY <1>1, <2>1, <2>2, <2>3, <2>4 DEF Next
<1>2. EditInv /\ [Next]_vars =>
        [\A i \in Items : tags'[i] # tags[i] => WebStep \/ \E c \in Calls : MadeBy(c, i)]_vars
  BY <1>1
<1>3. QED
  BY <1>2, Invariance, PTL DEF Spec, EveryWriteIsOneRequest

(* What a match was told to keep is kept when it reports success.          *)
THEOREM KeepsWhatItSays == Spec => KeptIsKept
<1>1. ASSUME EditInv, [Next]_vars, NEW c \in Calls, pc[c] = "record",
             Ends(c, "ok"), req[c].kind = "keep", NEW i \in left[c] \ outside[c]
      PROVE  tags'[i] = WithProviderTag(req[c], seen[c][i])
  <2>1. pc'[c] # pc[c] /\ TypeOK /\ i \in Items
    BY <1>1 DEF Ends, EditInv, TypeOK
  <2>2. ASSUME NEW d \in Calls, NEW r \in TurnRequests, Start(d, r) PROVE FALSE
    BY <1>1, <2>1, <2>2 DEF Start, TypeOK, Ends
  <2>3. ASSUME NEW j \in Items, WebEdit(j) \/ WebDelete(j) PROVE FALSE
    BY <2>1, <2>3 DEF WebEdit, WebDelete, Outside
  <2>4. PICK d \in Calls : Step(d)
    BY <1>1, <2>1, <2>2, <2>3 DEF Next, vars
  <2>5. Step(c)
    BY <2>1, <2>4, StepFrame
  <2>6. Record(c) \/ RecordFails(c)
    BY <1>1, <2>5
    DEF Step, Enter, ReadToEdit, RefuseToEdit, ReplaceWhole, ReadToSweep, ReadOne,
        GiveUp, Send, SendFails, AllSent, Rename, RenameFails, ServerRename,
        Match, MatchFoundNothing, MatchFails, RestoreKept, RestoreFails, Delete
  <2>7. ~RecordFails(c)
    BY <1>1, <2>1 DEF RecordFails, Finish, Ends, TypeOK
  <2>8. seen[c][i] = tags[i]
    BY <1>1 DEF EditInv, HeldReadsAreCurrent, Pending
  <2>9. \/ tags' = tags /\ Recorded(c)
        \/ left[c] \subseteq exists /\ Write(c, left[c])
    BY <2>6, <2>7 DEF Record
  <2>10. CASE tags' = tags /\ Recorded(c)
    BY <1>1, <2>8, <2>10 DEF Recorded
  <2>11. CASE left[c] \subseteq exists /\ Write(c, left[c])
    BY <1>1, <2>1, <2>11 DEF Write, Payload, Lists, Sweeps
  <2>12. QED
    BY <2>9, <2>10, <2>11
<1>2. EditInv /\ [Next]_vars =>
        [\A c \in Calls : pc[c] = "record" /\ Ends(c, "ok") /\ req[c].kind = "keep" =>
           \A i \in left[c] \ outside[c] : tags'[i] = WithProviderTag(req[c], seen[c][i])]_vars
  BY <1>1
<1>3. QED
  BY <1>2, Invariance, PTL DEF Spec, KeptIsKept
-----------------------------------------------------------------------------
(* A list that names no item twice has as many items as places.            *)
LEMMA ListSize ==
  ASSUME NEW r \in TurnRequests \cup {NoRequest}
  PROVE  /\ IsFiniteSet(SetOf(r.items))
         /\ Len(r.items) \in Nat
         /\ Cardinality(SetOf(r.items)) = Len(r.items)
<1> DEFINE s == r.items
<1>1. s \in Seq(Items) /\ \A m, n \in DOMAIN s : s[m] = s[n] => m = n
  <2>1. CASE r \in TurnRequests
    BY <2>1, ItemAssumption, RequestAssumption DEF Request
  <2>2. CASE r = NoRequest
    BY <2>2 DEF NoRequest
  <2>3. QED
    BY <2>1, <2>2
<1>2. Len(s) \in Nat /\ DOMAIN s = 1..Len(s)
  BY <1>1
<1>3. s \in Bijection(1..Len(s), SetOf(s))
  <2>1. s \in [1..Len(s) -> SetOf(s)]
    BY <1>1, <1>2 DEF SetOf
  <2>2. \A i \in SetOf(s) : \E n \in 1..Len(s) : s[n] = i
    BY <1>2 DEF SetOf
  <2>3. QED
    BY <1>1, <1>2, <2>1, <2>2 DEF Bijection, Injection, Surjection, IsInjective
<1>4. IsFiniteSet(1..Len(s)) /\ Cardinality(1..Len(s)) = Len(s)
  BY <1>2, FS_Interval
<1>5. ExistsBijection(1..Len(s), SetOf(s))
  BY <1>3 DEF ExistsBijection
<1>6. QED
  BY <1>2, <1>4, <1>5, FS_Bijection

(* What has been sent of a list, and the request being sent, count up to   *)
(* what has landed.                                                        *)
LEMMA Landings ==
  ASSUME NEW S, IsFiniteSet(S), NEW rest \in SUBSET S, NEW chunk \in SUBSET rest,
         NEW had \in SUBSET (S \ rest), NEW now, now \subseteq had \cup chunk,
         had \subseteq now
  PROVE  /\ Cardinality(now) <= Cardinality(S) - Cardinality(rest) + Cardinality(chunk)
         /\ S \ rest \subseteq had => Cardinality(now) >= Cardinality(S) - Cardinality(rest)
<1>1. /\ IsFiniteSet(rest) /\ IsFiniteSet(chunk) /\ IsFiniteSet(S \ rest)
      /\ IsFiniteSet((S \ rest) \cup chunk) /\ IsFiniteSet(now)
  <2>1. rest \in SUBSET S /\ chunk \in SUBSET S /\ S \ rest \in SUBSET S
        /\ (S \ rest) \cup chunk \in SUBSET S /\ now \in SUBSET S
    OBVIOUS
  <2>2. QED
    BY <2>1, FS_Subset
<1>2. /\ Cardinality(S) \in Nat /\ Cardinality(rest) \in Nat /\ Cardinality(chunk) \in Nat
      /\ Cardinality(now) \in Nat /\ Cardinality(S \ rest) \in Nat
  BY <1>1, FS_CardinalityType
<1>3. Cardinality(S \ rest) = Cardinality(S) - Cardinality(rest)
  <2>1. S \cap rest = rest
    OBVIOUS
  <2>2. QED
    BY <2>1, FS_Difference
<1>4. Cardinality((S \ rest) \cup chunk) = Cardinality(S \ rest) + Cardinality(chunk)
  <2>1. Cardinality((S \ rest) \cap chunk) = 0
    <3>1. (S \ rest) \cap chunk = {}
      OBVIOUS
    <3>2. QED
      BY <3>1, FS_EmptySet
  <2>2. Cardinality((S \ rest) \cup chunk)
          = Cardinality(S \ rest) + Cardinality(chunk) - Cardinality((S \ rest) \cap chunk)
    BY <1>1, FS_Union
  <2>3. QED
    BY <1>2, <2>1, <2>2
<1>5. Cardinality(now) <= Cardinality((S \ rest) \cup chunk)
  <2>1. now \in SUBSET ((S \ rest) \cup chunk)
    OBVIOUS
  <2>2. QED
    BY <1>1, <2>1, FS_Subset
<1>6. ASSUME S \ rest \subseteq had PROVE Cardinality(S \ rest) <= Cardinality(now)
  <2>1. S \ rest \in SUBSET now
    BY <1>6
  <2>2. QED
    BY <1>1, <2>1, FS_Subset
<1>7. QED
  BY <1>2, <1>3, <1>4, <1>5, <1>6

(* No step of another call touches what a call has sent, and no item comes *)
(* back.                                                                   *)
LEMMA StepSends ==
  ASSUME TypeOK, NEW c \in Calls, Step(c)
  PROVE  /\ req' = req /\ exists' \subseteq exists
         /\ \A d \in Calls \ {c} : /\ pc'[d] = pc[d] /\ left'[d] = left[d]
                                   /\ landed'[d] = landed[d] /\ report'[d] = report[d]
         /\ \/ Send(c)
            \/ SendFails(c)
            \/ /\ landed' = landed /\ report' = report
               /\ pc[c] \notin Ended /\ pc'[c] \in Steps \ {"idle", "asked"}
               /\ pc'[c] = "held" => pc[c] = "asked"
               /\ pc'[c] = "send" => /\ pc[c] = "held"
                                     /\ req[c].kind \in Lists => left'[c] = SetOf(req[c].items)
<1>1. req' = req /\ pc[c] \notin Ended
  BY StepMoves DEF Moves, Ended, Inside
<1>2. exists' \subseteq exists
  BY DEF Step, Enter, ReadToEdit, RefuseToEdit, ReplaceWhole, ReadToSweep, ReadOne, GiveUp,
         Fail, Send, SendFails, AllSent, Rename, RenameFails, ServerRename, Match,
         MatchFoundNothing, MatchFails, RestoreKept, RestoreFails, Record, RecordFails,
         Delete, server
<1>3. ASSUME NEW d \in Calls \ {c}
      PROVE  /\ pc'[d] = pc[d] /\ left'[d] = left[d]
             /\ landed'[d] = landed[d] /\ report'[d] = report[d]
  <2>1. pc'[d] = pc[d] /\ left'[d] = left[d]
    BY StepFrame
  <2>2. CASE Send(c)
    BY <2>1, <2>2 DEF Send, Land, TypeOK
  <2>3. CASE SendFails(c)
    BY <2>1, <2>3 DEF SendFails, Land, TypeOK
  <2>4. CASE landed' = landed /\ report' = report
    BY <2>1, <2>4
  <2>5. QED
    BY <2>1, <2>2, <2>3, <2>4
    DEF Step, Enter, ReadToEdit, RefuseToEdit, ReplaceWhole, ReadToSweep, ReadOne, GiveUp,
        Fail, AllSent, Rename, RenameFails, ServerRename, Match, MatchFoundNothing,
        MatchFails, RestoreKept, RestoreFails, Record, RecordFails, Delete, own
<1>4. CASE ReadToEdit(c) \/ ReplaceWhole(c) \/ ReadToSweep(c)
  BY <1>1, <1>2, <1>3, <1>4
  DEF ReadToEdit, ReplaceWhole, ReadToSweep, TypeOK, Steps, Lists, Sweeps
<1>5. CASE Enter(c) \/ ReadOne(c)
  BY <1>1, <1>2, <1>3, <1>5 DEF Enter, ReadOne, TypeOK, Steps, own
<1>6. CASE ~Send(c) /\ ~SendFails(c) /\ ~ReadToEdit(c) /\ ~ReplaceWhole(c)
           /\ ~ReadToSweep(c) /\ ~Enter(c) /\ ~ReadOne(c)
  <2>1. landed' = landed /\ report' = report
    BY <1>6
    DEF Step, RefuseToEdit, GiveUp, Fail, AllSent, Rename, RenameFails, ServerRename, Match,
        MatchFoundNothing, MatchFails, RestoreKept, RestoreFails, Record, RecordFails,
        Delete, own
  <2>2. pc'[c] \in Ended \cup {"record", "restore", "salvage"}
    BY <1>6
    DEF Step, RefuseToEdit, GiveUp, Fail, Finish, AllSent, Rename, RenameFails,
        ServerRename, Match, MatchFoundNothing, MatchFails, RestoreKept, RestoreFails,
        Record, RecordFails, Outcomes, Delete, TypeOK, Ended
  <2>3. QED
    BY <1>1, <1>2, <1>3, <2>1, <2>2 DEF Steps, Ended
<1>7. QED
  BY <1>1, <1>2, <1>3, <1>4, <1>5, <1>6

(* A request of a list is for items left of it, and its report counts them.*)
LEMMA StepSent ==
  ASSUME EditInv, SentInv, NEW c \in Calls, Step(c)
  PROVE  SentInv'
<1>0. TypeOK
  BY DEF EditInv
<1>1. ASSUME NEW d \in Calls, d # c
      PROVE  /\ req'[d] \in TurnRequests \cup {NoRequest}
             /\ pc'[d] \in {"idle", "asked", "held"} => landed'[d] = {}
             /\ pc'[d] = "send" /\ req'[d].kind \in Lists =>
                  /\ landed'[d] \subseteq SetOf(req'[d].items) \ left'[d]
                  /\ SetOf(req'[d].items) \subseteq exists'
                       => SetOf(req'[d].items) \ left'[d] \subseteq landed'[d]
  BY <1>0, <1>1, StepSends DEF SentInv
<1>2. /\ req'[c] \in TurnRequests \cup {NoRequest}
      /\ pc'[c] \in {"idle", "asked", "held"} => landed'[c] = {}
      /\ pc'[c] = "send" /\ req'[c].kind \in Lists =>
           /\ landed'[c] \subseteq SetOf(req'[c].items) \ left'[c]
           /\ SetOf(req'[c].items) \subseteq exists'
                => SetOf(req'[c].items) \ left'[c] \subseteq landed'[c]
  <2>1. CASE Send(c)
    <3>1. PICK chunk \in Chunks(req[c].items, left[c]) :
            /\ Land(c, chunk)
            /\ left' = [left EXCEPT ![c] = @ \ chunk]
      BY <2>1 DEF Send
    <3>2. /\ chunk \subseteq left[c]
          /\ landed'[c] = landed[c] \cup (chunk \cap exists)
          /\ left'[c] = left[c] \ chunk
      BY <1>0, <3>1, ChunkTypes DEF Land, TypeOK
    <3>3. pc[c] = "send" /\ exists' = exists /\ req' = req /\ pc'[c] \in {"send", "failed"}
      BY <1>0, <2>1 DEF Send, Finish, TypeOK
    <3>4. req[c].kind \in Lists => left[c] \subseteq SetOf(req[c].items)
      BY <3>3 DEF EditInv, WorkInv, Inside, Lists, Sweeps
    <3>5. QED
      BY <3>2, <3>3, <3>4 DEF SentInv
  <2>2. CASE SendFails(c)
    <3>1. pc'[c] = "failed" /\ req' = req
      BY <1>0, <2>2 DEF SendFails, Finish, TypeOK
    <3>2. QED
      BY <3>1 DEF SentInv
  <2>3. CASE ~Send(c) /\ ~SendFails(c)
    BY <1>0, <2>3, StepSends DEF SentInv
  <2>4. QED
    BY <2>1, <2>2, <2>3
<1>3. QED
  BY <1>1, <1>2 DEF SentInv

LEMMA StepReports ==
  ASSUME EditInv, SentInv, ReportInv, NEW c \in Calls, Step(c)
  PROVE  ReportInv'
<1>0. TypeOK /\ req' = req /\ exists' \subseteq exists
  BY StepSends DEF EditInv
<1>1. SUFFICES ASSUME report'[c] # NoReport
               PROVE  /\ pc'[c] = "failed"
                      /\ Cardinality(left'[c]) = Len(req[c].items) - report'[c].from + 1
                      /\ Cardinality(landed'[c]) <= report'[c].to
                      /\ SetOf(req[c].items) \subseteq exists'
                           => Cardinality(landed'[c]) >= report'[c].from - 1
  BY <1>0, StepSends DEF ReportInv
<1>2. SendFails(c)
  <2>1. report[c] = NoReport
    BY <1>0, StepMoves DEF ReportInv, Moves, Inside
  <2>2. CASE Send(c)
    BY <1>1, <2>1, <2>2 DEF Send
  <2>3. QED
    BY <1>0, <1>1, <2>1, <2>2, StepSends
<1>3. PICK chunk \in Chunks(req[c].items, left[c]) :
        /\ \E part \in SUBSET chunk : Land(c, part)
        /\ report' = [report EXCEPT ![c] = SendError(c, chunk)]
  BY <1>2 DEF SendFails
<1>4. PICK part \in SUBSET chunk : Land(c, part)
  BY <1>3
<1>5. /\ landed'[c] = landed[c] \cup (part \cap exists)
      /\ report'[c] = SendError(c, chunk)
      /\ chunk \subseteq left[c]
  BY <1>0, <1>3, <1>4, ChunkTypes DEF Land, TypeOK
<1>6. pc[c] = "send" /\ pc'[c] = "failed" /\ left' = left /\ exists' = exists
  BY <1>0, <1>2 DEF SendFails, Finish, TypeOK
<1>7. /\ req[c].kind \in Lists
      /\ SendError(c, chunk) =
           [from |-> Len(req[c].items) - Cardinality(left[c]) + 1,
            to   |-> Len(req[c].items) - Cardinality(left[c]) + Cardinality(chunk)]
  BY <1>1, <1>5 DEF SendError
<1>8. /\ left[c] \subseteq SetOf(req[c].items)
      /\ landed[c] \subseteq SetOf(req[c].items) \ left[c]
      /\ SetOf(req[c].items) \subseteq exists
           => SetOf(req[c].items) \ left[c] \subseteq landed[c]
  BY <1>6, <1>7 DEF EditInv, WorkInv, SentInv, Inside, Lists, Sweeps
<1>9. /\ IsFiniteSet(SetOf(req[c].items)) /\ Len(req[c].items) \in Nat
      /\ Cardinality(SetOf(req[c].items)) = Len(req[c].items)
  BY ListSize DEF SentInv
<1>10. /\ Cardinality(landed'[c])
            <= Len(req[c].items) - Cardinality(left[c]) + Cardinality(chunk)
       /\ SetOf(req[c].items) \subseteq exists
            => Cardinality(landed'[c]) >= Len(req[c].items) - Cardinality(left[c])
  <2>1. /\ left[c] \in SUBSET SetOf(req[c].items)
        /\ chunk \in SUBSET left[c]
        /\ landed[c] \in SUBSET (SetOf(req[c].items) \ left[c])
        /\ landed'[c] \subseteq landed[c] \cup chunk
        /\ landed[c] \subseteq landed'[c]
    BY <1>5, <1>8
  <2>2. Cardinality(landed'[c])
          <= Cardinality(SetOf(req[c].items)) - Cardinality(left[c]) + Cardinality(chunk)
    BY <1>9, <2>1, Landings
  <2>3. SetOf(req[c].items) \ left[c] \subseteq landed[c] =>
          Cardinality(landed'[c]) >= Cardinality(SetOf(req[c].items)) - Cardinality(left[c])
    BY <1>9, <2>1, Landings
  <2>4. QED
    BY <1>8, <1>9, <2>2, <2>3
<1>11. Cardinality(left[c]) \in Nat
  BY <1>8, <1>9, FS_Subset, FS_CardinalityType
<1>12. QED
  BY <1>5, <1>6, <1>7, <1>9, <1>10, <1>11

LEMMA OtherSends ==
  ASSUME EditInv, SentInv, ReportInv,
         \/ \E c \in Calls, r \in TurnRequests : Start(c, r)
         \/ \E i \in Items : WebEdit(i) \/ WebDelete(i)
         \/ UNCHANGED vars
  PROVE  SentInv' /\ ReportInv'
<1>0. TypeOK
  BY DEF EditInv
<1>1. ASSUME NEW c \in Calls, NEW r \in TurnRequests, Start(c, r)
      PROVE  SentInv' /\ ReportInv'
  <2>1. /\ UNCHANGED <<exists, left, landed, report>>
        /\ pc[c] = "idle" /\ pc'[c] \in {"asked", "alone"} /\ req'[c] = r
        /\ \A d \in Calls \ {c} : pc'[d] = pc[d] /\ req'[d] = req[d]
    BY <1>0, <1>1 DEF Start, TypeOK, server
  <2>2. SentInv'
    BY <2>1 DEF SentInv
  <2>3. ReportInv'
    BY <2>1 DEF ReportInv
  <2>4. QED
    BY <2>2, <2>3
<1>2. ASSUME \/ \E i \in Items : WebEdit(i) \/ WebDelete(i)
             \/ UNCHANGED vars
      PROVE  SentInv' /\ ReportInv'
  <2>1. UNCHANGED <<pc, own>> /\ exists' \subseteq exists
    BY <1>2 DEF WebEdit, WebDelete, Outside, vars, server
  <2>2. SentInv'
    BY <2>1 DEF SentInv, own
  <2>3. ReportInv'
    BY <2>1 DEF ReportInv, own
  <2>4. QED
    BY <2>2, <2>3
<1>3. QED
  BY <1>1, <1>2

(* What an edit that failed part way says of how far it got is so: the     *)
(* items before its batch reached the server, those after it did not.      *)
THEOREM ReportsAreTrue == Spec => []SendReportIsTrue
<1>1. Init => SentInv /\ ReportInv
  BY DEF Init, SentInv, ReportInv
<1>2. EditInv /\ SentInv /\ ReportInv /\ [Next]_vars => SentInv' /\ ReportInv'
  BY StepSent, StepReports, OtherSends DEF Next
<1>3. ReportInv => SendReportIsTrue
  BY DEF ReportInv, SendReportIsTrue
<1>4. QED
  BY <1>1, <1>2, <1>3, Invariance, PTL DEF Spec
-----------------------------------------------------------------------------
(* What a call holds only it and the web app change.                       *)
LEMMA HeldIsLeftAlone ==
  ASSUME EditInv, Next, NEW c \in Calls, NEW i \in Items, Held(c, i), ~Step(c),
         i \notin outside'[c]
  PROVE  tags'[i] = tags[i]
<1>1. CASE \E d \in Calls : Step(d)
  <2>1. PICK d \in Calls : Step(d)
    BY <1>1
  <2>2. d # c
    BY <2>1
  <2>3. QED
    BY <2>1, <2>2, WritesAreHeld, HeldByOne DEF EditInv
<1>2. CASE \E d \in Calls, r \in TurnRequests : Start(d, r)
  BY <1>2 DEF Start, server
<1>3. CASE \E j \in Items : WebEdit(j) \/ WebDelete(j)
  <2>1. PICK j \in Items : WebEdit(j) \/ WebDelete(j)
    BY <1>3
  <2>2. j # i
    BY <2>1 DEF WebEdit, WebDelete, Outside
  <2>3. QED
    BY <2>1, <2>2 DEF WebEdit, WebDelete, EditInv, TypeOK
<1>4. QED
  BY <1>1, <1>2, <1>3 DEF Next

(* A match by default takes no person's tag off the book.                  *)
THEOREM MatchesOnlyAdd == Spec => FillOnlyAdds
<1>1. ASSUME EditInv, [Next]_vars, NEW c \in Calls, pc[c] \in {"match", "record"},
             req[c].kind = "fill", NEW i \in left[c] \ outside'[c]
      PROVE  tags[i] \ tags'[i] \subseteq Stores
  <2>0. USE <1>1
  <2>1. i \in Items /\ Held(c, i)
    BY WorkIsHeld DEF Inside
  <2>2. CASE tags'[i] = tags[i]
    BY <2>2
  <2>3. CASE Step(c) /\ tags'[i] # tags[i]
    <3>1. CASE Match(c) \/ MatchFails(c)
      <4>1. PICK j \in left[c] \cap exists : Matched(c, j)
        BY <3>1 DEF Match, MatchFails
      <4>2. tags[i] = {}
        BY <2>1, <2>3, <4>1 DEF Matched, EditInv, TypeOK
      <4>3. QED
        BY <4>2
    <3>2. CASE Record(c) \/ RecordFails(c)
      <4>1. Write(c, left[c]) /\ pc[c] = "record" /\ outside'[c] = outside[c]
        BY <2>3, <3>2 DEF Record, RecordFails, web
      <4>2. seen[c][i] = tags[i]
        BY <4>1 DEF EditInv, HeldReadsAreCurrent, Pending
      <4>3. tags'[i] = WithProviderTag(req[c], tags[i])
        BY <2>1, <2>3, <4>1, <4>2 DEF Write, Payload, Sweeps
      <4>4. QED
        BY <4>3 DEF WithProviderTag
    <3>3. QED
      BY <2>3, <3>1, <3>2
      DEF Step, Enter, ReadToEdit, RefuseToEdit, ReplaceWhole, ReadToSweep, ReadOne, GiveUp,
          Fail, Send, SendFails, AllSent, Rename, RenameFails, ServerRename,
          MatchFoundNothing, RestoreKept, RestoreFails, Delete, server
  <2>4. CASE ~Step(c) /\ Next
    BY <2>1, <2>4, HeldIsLeftAlone
  <2>5. QED
    BY <2>2, <2>3, <2>4 DEF vars, server
<1>2. EditInv /\ [Next]_vars =>
        [\A c \in Calls : pc[c] \in {"match", "record"} /\ req[c].kind = "fill" =>
           \A i \in left[c] \ outside'[c] : tags[i] \ tags'[i] \subseteq Stores]_vars
  BY <1>1
<1>3. QED
  BY <1>2, Invariance, PTL DEF Spec, FillOnlyAdds
-----------------------------------------------------------------------------
(* A sweep at its sending has everything to itself but the web app.        *)
LEMMA SweepHoldsAll ==
  ASSUME EditInv, NEW c \in Calls, pc[c] = "send", req[c].kind \in Sweeps, NEW i
  PROVE  Held(c, i)
<1>1. place[c] = "in" /\ asks[c] = Holds(req[c])
  BY DEF EditInv, PlaceInv, Inside
<1>2. Holds(req[c]) = Everything
  BY DEF Holds, Sweeps
<1>3. QED
  BY <1>1, <1>2 DEF Held

LEMMA SweepStep ==
  ASSUME EditInv, SweptInv, Next
  PROVE  SweptInv'
<1>0. TypeOK
  BY DEF EditInv
<1>1. SUFFICES ASSUME NEW c \in Calls, pc'[c] = "send", req'[c].kind \in Sweeps,
                      NEW i \in exists' \ (left'[c] \cup outside'[c])
               PROVE  (req'[c].drop \ req'[c].add) \cap tags'[i] = {}
  BY DEF SweptInv
<1>2. CASE Step(c)
  <2>1. req' = req /\ exists' \subseteq exists
    BY <1>0, <1>2, StepSends
  <2>2. CASE ReadToSweep(c)
    <3>1. i \in exists /\ tags' = tags /\ left'[c] = {j \in exists : Carries(req[c], tags[j])}
      BY <1>0, <1>1, <2>2 DEF ReadToSweep, TypeOK, server
    <3>2. QED
      BY <1>1, <2>1, <3>1 DEF Carries
  <2>3. CASE Send(c)
    <3>1. PICK chunk \in Chunks(req[c].items, left[c]) :
            /\ Write(c, chunk)
            /\ left' = [left EXCEPT ![c] = @ \ chunk]
      BY <2>3 DEF Send
    <3>2. pc[c] = "send" /\ outside' = outside /\ exists' = exists /\ i \in Items
          /\ left'[c] = left[c] \ chunk
      BY <1>0, <1>1, <2>3, <3>1 DEF Send, web, TypeOK
    <3>3. CASE i \in chunk
      <4>1. tags'[i] = Swept(req[c], seen[c][i])
        BY <1>1, <2>1, <3>1, <3>2, <3>3 DEF Write, Payload, Lists, Sweeps
      <4>2. QED
        BY <2>1, <4>1 DEF Swept
    <3>4. CASE i \notin chunk
      BY <1>1, <2>1, <3>1, <3>2, <3>4 DEF SweptInv, Write
    <3>5. QED
      BY <3>3, <3>4
  <2>4. QED
    <3>1. ReadToSweep(c) \/ Send(c)
      BY <1>0, <1>1, <1>2, <2>1
      DEF Step, Enter, ReadToEdit, RefuseToEdit, ReplaceWhole, ReadOne, GiveUp, Fail, Finish,
          SendFails, AllSent, Rename, RenameFails, ServerRename, Match, MatchFoundNothing,
          MatchFails, RestoreKept, RestoreFails, Record, RecordFails, Outcomes, Delete,
          TypeOK, Sweeps
    <3>2. QED
      BY <2>2, <2>3, <3>1
<1>3. CASE ~Step(c)
  <2>1. /\ pc[c] = "send" /\ req'[c] = req[c] /\ left'[c] = left[c]
        /\ exists' \subseteq exists /\ outside[c] \subseteq outside'[c]
    <3>1. CASE \E d \in Calls : Step(d)
      BY <1>0, <1>1, <1>3, <3>1, StepSends, StepFrame
    <3>2. CASE \E d \in Calls, r \in TurnRequests : Start(d, r)
      BY <1>0, <1>1, <3>2 DEF Start, TypeOK, server, web
    <3>3. CASE \E j \in Items : WebEdit(j) \/ WebDelete(j)
      BY <1>1, <3>3 DEF WebEdit, WebDelete, Outside, own
    <3>4. QED
      BY <3>1, <3>2, <3>3 DEF Next
  <2>2. Held(c, i) /\ i \in Items
    BY <1>0, <1>1, <2>1, SweepHoldsAll DEF TypeOK
  <2>3. tags'[i] = tags[i]
    BY <1>1, <1>3, <2>2, HeldIsLeftAlone
  <2>4. QED
    BY <1>1, <2>1, <2>3 DEF SweptInv
<1>4. QED
  BY <1>2, <1>3

(* A sweep or rename that ends well has left no item with the value, but   *)
(* for those the web app touched while it ran.                             *)
THEOREM SweepsAreWhole == Spec => SweepLeavesNone
<1>1. Init => SweptInv
  BY DEF Init, SweptInv
<1>2. EditInv /\ SweptInv /\ [Next]_vars => SweptInv'
  <2>1. UNCHANGED vars /\ SweptInv => SweptInv'
    BY DEF vars, SweptInv, own, server, web
  <2>2. QED
    BY <2>1, SweepStep
<1>3. ASSUME EditInv, SweptInv, [Next]_vars, NEW c \in Calls, Ends(c, "ok"),
             req[c].kind \in Sweeps \cup {"rename"}, NEW i \in exists' \ outside[c]
      PROVE  (req[c].drop \ req[c].add) \cap tags'[i] = {}
  <2>0. USE <1>3
  <2>1. TypeOK /\ pc'[c] # pc[c] /\ pc'[c] = "ok"
    BY DEF Ends, EditInv, Ended
  <2>2. Step(c)
    <3>1. ASSUME NEW d \in Calls, NEW r \in TurnRequests, Start(d, r) PROVE FALSE
      BY <2>1, <3>1 DEF Start, TypeOK, Ends
    <3>2. ASSUME NEW j \in Items, WebEdit(j) \/ WebDelete(j) PROVE FALSE
      BY <2>1, <3>2 DEF WebEdit, WebDelete, Outside
    <3>3. PICK d \in Calls : Step(d)
      BY <2>1, <3>1, <3>2 DEF Next, vars
    <3>4. QED
      BY <2>1, <3>3, StepFrame
  <2>3. Rename(c) \/ AllSent(c)
    BY <2>1, <2>2
    DEF Step, Enter, ReadToEdit, RefuseToEdit, ReplaceWhole, ReadToSweep, ReadOne, GiveUp,
        Fail, Finish, Send, SendFails, RenameFails, ServerRename, Match, MatchFoundNothing,
        MatchFails, RestoreKept, RestoreFails, Record, RecordFails, Outcomes, Delete,
        TypeOK, EditInv, WorkInv, Sweeps, Matches, Lists
  <2>4. CASE Rename(c)
    <3>1. /\ exists' = exists /\ i \in Items
          /\ tags' = [j \in Items |->
                        IF j \in {k \in exists : Carries(req[c], tags[k])}
                        THEN Swept(req[c], tags[j]) ELSE tags[j]]
      BY <2>1, <2>4 DEF Rename, ServerRename, TypeOK
    <3>2. QED
      BY <3>1 DEF Swept, Carries
  <2>5. CASE AllSent(c)
    <3>1. /\ pc[c] = "send" /\ left[c] = {} /\ exists' = exists /\ tags' = tags
          /\ req[c].kind \in Sweeps
      BY <2>5 DEF AllSent, server, EditInv, WorkInv, Lists, Sweeps
    <3>2. QED
      BY <3>1 DEF SweptInv
  <2>6. QED
    BY <2>3, <2>4, <2>5
<1>4. EditInv /\ SweptInv /\ [Next]_vars =>
        [\A c \in Calls : Ends(c, "ok") /\ req[c].kind \in Sweeps \cup {"rename"} =>
           \A i \in exists' \ outside[c] : (req[c].drop \ req[c].add) \cap tags'[i] = {}]_vars
  BY <1>3
<1>5. QED
  BY <1>1, <1>2, <1>4, Invariance, PTL DEF Spec, SweepLeavesNone
-----------------------------------------------------------------------------
(* An edit at its sending has all its items to itself but the web app.     *)
LEMMA ListHoldsItems ==
  ASSUME EditInv, NEW c \in Calls, pc[c] = "send", req[c].kind \in Lists,
         NEW i \in SetOf(req[c].items)
  PROVE  Held(c, i)
<1>1. place[c] = "in" /\ asks[c] = Holds(req[c])
  BY DEF EditInv, PlaceInv, Inside
<1>2. Holds(req[c]) = SetOf(req[c].items)
  BY DEF Holds, Lists, Sweeps
<1>3. QED
  BY <1>1, <1>2 DEF Held

LEMMA DoneStep ==
  ASSUME EditInv, DoneInv, Next
  PROVE  DoneInv'
<1>0. TypeOK
  BY DEF EditInv
<1>1. SUFFICES ASSUME NEW c \in Calls, pc'[c] = "send", req'[c].kind \in Lists,
                      NEW i \in (SetOf(req'[c].items) \cap exists') \ (left'[c] \cup outside'[c])
               PROVE  tags'[i] = Payload(req'[c], seen'[c][i])
  BY DEF DoneInv, Payload, Edited, Swept, WithProviderTag
<1>2. CASE Step(c)
  <2>1. req' = req /\ exists' \subseteq exists
    BY <1>0, <1>2, StepSends
  <2>2. CASE ReadToEdit(c) \/ ReplaceWhole(c)
    <3>1. left'[c] = SetOf(req[c].items)
      BY <1>0, <2>2 DEF ReadToEdit, ReplaceWhole, TypeOK
    <3>2. QED
      BY <1>1, <2>1, <3>1
  <2>3. CASE Send(c)
    <3>1. PICK chunk \in Chunks(req[c].items, left[c]) :
            /\ Write(c, chunk)
            /\ left' = [left EXCEPT ![c] = @ \ chunk]
      BY <2>3 DEF Send
    <3>2. /\ pc[c] = "send" /\ outside' = outside /\ exists' = exists /\ seen' = seen
          /\ i \in Items /\ left'[c] = left[c] \ chunk
      BY <1>0, <1>1, <2>3, <3>1 DEF Send, web, TypeOK
    <3>3. CASE i \in chunk
      BY <1>1, <2>1, <3>1, <3>2, <3>3 DEF Write
    <3>4. CASE i \notin chunk
      <4>1. tags'[i] = tags[i]
        BY <3>1, <3>2, <3>4 DEF Write
      <4>2. i \in (SetOf(req[c].items) \cap exists) \ (left[c] \cup outside[c])
        BY <1>1, <2>1, <3>2, <3>4
      <4>3. tags[i] = Payload(req[c], seen[c][i])
        BY <1>1, <2>1, <3>2, <4>2 DEF DoneInv
      <4>4. QED
        BY <2>1, <3>2, <4>1, <4>3
    <3>5. QED
      BY <3>3, <3>4
  <2>4. QED
    <3>1. ReadToEdit(c) \/ ReplaceWhole(c) \/ Send(c)
      BY <1>0, <1>1, <1>2, <2>1
      DEF Step, Enter, RefuseToEdit, ReadToSweep, ReadOne, GiveUp, Fail, Finish,
          SendFails, AllSent, Rename, RenameFails, ServerRename, Match, MatchFoundNothing,
          MatchFails, RestoreKept, RestoreFails, Record, RecordFails, Outcomes, Delete,
          TypeOK, Sweeps, Lists
    <3>2. QED
      BY <2>2, <2>3, <3>1
<1>3. CASE ~Step(c)
  <2>1. /\ pc[c] = "send" /\ req'[c] = req[c] /\ left'[c] = left[c] /\ seen'[c] = seen[c]
        /\ exists' \subseteq exists /\ outside[c] \subseteq outside'[c]
    <3>1. CASE \E d \in Calls : Step(d)
      BY <1>0, <1>1, <1>3, <3>1, StepSends, StepFrame
    <3>2. CASE \E d \in Calls, r \in TurnRequests : Start(d, r)
      BY <1>0, <1>1, <3>2 DEF Start, TypeOK, server, web
    <3>3. CASE \E j \in Items : WebEdit(j) \/ WebDelete(j)
      BY <1>1, <3>3 DEF WebEdit, WebDelete, Outside, own
    <3>4. QED
      BY <3>1, <3>2, <3>3 DEF Next
  <2>2. i \in (SetOf(req[c].items) \cap exists) \ (left[c] \cup outside[c])
    BY <1>1, <2>1
  <2>3. Held(c, i) /\ i \in Items
    BY <1>0, <1>1, <2>1, <2>2, ListHoldsItems DEF TypeOK
  <2>4. tags'[i] = tags[i]
    BY <1>1, <1>3, <2>3, HeldIsLeftAlone
  <2>5. tags[i] = Payload(req[c], seen[c][i])
    BY <1>1, <2>1, <2>2 DEF DoneInv
  <2>6. QED
    BY <2>1, <2>4, <2>5
<1>4. QED
  BY <1>2, <1>3

(* What item_match_tag records on is the book it was asked of.             *)
LEMMA OneStep ==
  ASSUME EditInv, OneInv, Next
  PROVE  OneInv'
<1>0. TypeOK
  BY DEF EditInv
<1>1. SUFFICES ASSUME NEW c \in Calls, pc'[c] = "record", req'[c].kind = "tag"
               PROVE  left'[c] = SetOf(req'[c].items)
  BY DEF OneInv
<1>2. CASE Step(c)
  <2>1. req' = req
    BY <1>0, <1>2, StepSends
  <2>2. ReadOne(c)
    BY <1>0, <1>1, <1>2, <2>1
    DEF Step, Enter, ReadToEdit, RefuseToEdit, ReplaceWhole, ReadToSweep, GiveUp, Fail, Finish,
        Send, SendFails, AllSent, Rename, RenameFails, ServerRename, Match, MatchFoundNothing,
        MatchFails, RestoreKept, RestoreFails, Record, RecordFails, Outcomes, Delete,
        TypeOK, EditInv, WorkInv, Matches
  <2>3. QED
    BY <1>0, <2>1, <2>2 DEF ReadOne, TypeOK
<1>3. CASE ~Step(c)
  <2>1. pc[c] = "record" /\ req'[c] = req[c] /\ left'[c] = left[c]
    <3>1. CASE \E d \in Calls : Step(d)
      BY <1>0, <1>1, <1>3, <3>1, StepSends, StepFrame
    <3>2. CASE \E d \in Calls, r \in TurnRequests : Start(d, r)
      BY <1>0, <1>1, <3>2 DEF Start, TypeOK, server, web
    <3>3. CASE \E j \in Items : WebEdit(j) \/ WebDelete(j)
      BY <1>1, <3>3 DEF WebEdit, WebDelete, Outside, own
    <3>4. QED
      BY <3>1, <3>2, <3>3 DEF Next
  <2>2. QED
    BY <1>1, <2>1 DEF OneInv
<1>4. QED
  BY <1>2, <1>3

(* An edit that ends well has changed every item it named, but for those   *)
(* the web app touched while it ran, however many requests it took.        *)
THEOREM EditsAreWhole == Spec => EditsAreDone
<1>1. Init => DoneInv /\ OneInv
  BY DEF Init, DoneInv, OneInv
<1>2. EditInv /\ DoneInv /\ OneInv /\ [Next]_vars => DoneInv' /\ OneInv'
  <2>1. UNCHANGED vars /\ DoneInv => DoneInv'
    BY DEF vars, DoneInv, own, server, web, Payload, Edited, Swept, WithProviderTag
  <2>2. UNCHANGED vars /\ OneInv => OneInv'
    BY DEF vars, OneInv, own
  <2>3. QED
    BY <2>1, <2>2, DoneStep, OneStep
<1>3. ASSUME EditInv, DoneInv, OneInv, [Next]_vars, NEW c \in Calls, Ends(c, "ok"),
             req[c].kind \in Lists \cup {"tag"},
             NEW i \in (SetOf(req[c].items) \cap exists) \ outside[c]
      PROVE  tags'[i] = Payload(req[c], seen[c][i])
  <2>0. USE <1>3
  <2>1. TypeOK /\ pc'[c] # pc[c] /\ pc'[c] = "ok"
    BY DEF Ends, EditInv, Ended
  <2>2. Step(c)
    <3>1. ASSUME NEW d \in Calls, NEW r \in TurnRequests, Start(d, r) PROVE FALSE
      BY <2>1, <3>1 DEF Start, TypeOK, Ends
    <3>2. ASSUME NEW j \in Items, WebEdit(j) \/ WebDelete(j) PROVE FALSE
      BY <2>1, <3>2 DEF WebEdit, WebDelete, Outside
    <3>3. PICK d \in Calls : Step(d)
      BY <2>1, <3>1, <3>2 DEF Next, vars
    <3>4. QED
      BY <2>1, <3>3, StepFrame
  <2>3. AllSent(c) \/ Record(c)
    BY <2>1, <2>2
    DEF Step, Enter, ReadToEdit, RefuseToEdit, ReplaceWhole, ReadToSweep, ReadOne, GiveUp,
        Fail, Finish, Send, SendFails, Rename, RenameFails, ServerRename, Match, MatchFoundNothing,
        MatchFails, RestoreKept, RestoreFails, RecordFails, Delete,
        TypeOK, EditInv, WorkInv, Sweeps, Matches, Lists
  <2>4. CASE AllSent(c)
    <3>1. pc[c] = "send" /\ left[c] = {} /\ tags' = tags /\ req[c].kind \in Lists
      BY <2>4 DEF AllSent, server, EditInv, WorkInv, Lists, Sweeps
    <3>2. QED
      BY <3>1 DEF DoneInv
  <2>5. CASE Record(c)
    <3>1. pc[c] = "record" /\ req[c].kind = "tag" /\ i \in Items
      <4>1. pc[c] \in {"record", "salvage"} /\ i \in Items
        BY <2>1, <2>5 DEF Record, TypeOK
      <4>2. req[c].kind = "tag" /\ pc[c] = "record"
        BY <4>1 DEF EditInv, WorkInv, Lists, Matches
      <4>3. QED
        BY <4>1, <4>2
    <3>2. i \in left[c] /\ seen[c][i] = tags[i]
      BY <3>1 DEF OneInv, EditInv, HeldReadsAreCurrent, Pending
    <3>3. Payload(req[c], seen[c][i]) = WithProviderTag(req[c], seen[c][i])
      BY <3>1 DEF Payload, Sweeps
    <3>4. QED
      BY <2>5, <3>1, <3>2, <3>3 DEF Record, Recorded, Write
  <2>6. QED
    BY <2>3, <2>4, <2>5
<1>4. EditInv /\ DoneInv /\ OneInv /\ [Next]_vars =>
        [\A c \in Calls : Ends(c, "ok") /\ req[c].kind \in Lists \cup {"tag"} =>
           \A i \in (SetOf(req[c].items) \cap exists) \ outside[c] :
             tags'[i] = Payload(req[c], seen[c][i])]_vars
  BY <1>3
<1>5. QED
  BY <1>1, <1>2, <1>4, Invariance, PTL DEF Spec, EditsAreDone
=============================================================================
