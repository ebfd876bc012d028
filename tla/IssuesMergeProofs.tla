-------------------------- MODULE IssuesMergeProofs --------------------------
(***************************************************************************)
(* IssuesMerge for every set of records, accounts and facts, and from      *)
(* every world it may start at: what hung on a record that goes is on the  *)
(* other, and what the call answers is so.                                 *)
(***************************************************************************)
EXTENDS IssuesMerge, TLAPS

(***************************************************************************)
(* The inductive invariant behind them.                                    *)
(***************************************************************************)
AtPair  == {"carry", "reread", "replan", "delete"}
AtFirst == {"start", "accounts"}

(* A pair that is carried is one of those still to come, each with the     *)
(* record that took its place, and was asked for and not blocked when it   *)
(* was planned; a feed or share on it has been opened since.               *)
PairInv ==
  /\ \A o \in todo : o \in exists /\ pair[o] \in Fresh
  /\ step \in AtPair =>
       now \in todo /\ confirm /\ now \notin fed /\ now \notin shares \ opened
  /\ step \in AtPair \cup {"plan"} => feeds \subseteq fed \cup opened

(* A pair is kept or merged once.                                          *)
AnswerInv ==
  /\ step \in AtFirst => kept = {} /\ merged = {}
  /\ todo \cap (kept \cup merged) = {}

(* A key the call could act with is one it knows of, or has named.         *)
KeyInv ==
  /\ \A u \in keys :
       acting[u] \in {"made", "yes"} \/ u \in unreached => u \in made \cup keysLeft
  /\ \A u \in unreached : acting[u] = "nil"
  /\ step = "done" => made = {}

(* What was read of an old record, and of the accounts, is as it was read. *)
ReadInv ==
  /\ \A t \in Things, o \in Old :
       t.kind \in {"details", "chapters", "cover"} /\ <<t, o>> \notin touched
         => listed[t][o] = val[t][o]
  /\ step \in {"replan", "delete"} =>
       \A t \in Things, r \in Records :
         t.kind \in {"progress", "bookmarks"} /\ <<t, r>> \notin touched
           => accounts[t][r] = val[t][r]

(* A thing is where it was to go, unless something else changed it since.  *)
There(t) == Arrived(t, now) \/ ~Untouched(t, now)

(* Covers and the playlists of other accounts are not read back: each is   *)
(* there once the carry is through with it.                                *)
CarryInv ==
  /\ step \in AtPair =>
       \A t \in Things :
         /\ t.kind = "cover" /\ (t \in plan => t \in done) => There(t)
         /\ Foreign(t) /\ t \in done => There(t) \/ acting[t.of] = "nil"
  /\ step \in AtPair \ {"carry"} => Tasks = {}

(* The rest is read back, and found there.                                 *)
ReadBackInv ==
  step = "delete" =>
    \A t \in Things : t.kind # "cover" /\ ~Foreign(t) => There(t)

MergeInv ==
  /\ TypeOK /\ PairInv
  /\ AnswerInv /\ ReportedAsIs
  /\ KeyInv
  /\ ReadInv /\ CarryInv /\ ReadBackInv

-----------------------------------------------------------------------------
(* UNCHANGED names the variables by the tuples they are in.                *)
USE DEF server, args, reads, answer, outside

LEMMA ThingTypes ==
  ASSUME NEW t \in Things
  PROVE  /\ t.kind \in {"details", "chapters", "cover", "collections", "progress",
                        "bookmarks", "playlists"}
         /\ t.of \in Accounts
         /\ Foreign(t) <=> t.kind = "playlists" /\ t.of # Me
  BY MergeAssumption DEF Things, RecordKinds, AccountKinds, Foreign

(* What is read of a record, and what is written to one, is facts.         *)
LEMMA WasTypes ==
  ASSUME TypeOK, NEW t \in Things, NEW o \in Records
  PROVE  Was(t, o) \subseteq Facts
  BY DEF TypeOK, Was

LEMMA WriteTypes ==
  ASSUME TypeOK, NEW t \in Things, now \in Old, pair[now] \in Fresh, WriteIt(t)
  PROVE  val' \in [Things -> [Records -> SUBSET Facts]]
<1>1. now \in Records /\ pair[now] \in Records
  BY DEF Records
<1>2. Carried(t, Was(t, now), val[t][pair[now]]) \subseteq Facts
  BY <1>1, WasTypes DEF Carried, TypeOK
<1>3. QED
  BY <1>1, <1>2 DEF WriteIt, TypeOK

LEMMA PartTypes ==
  ASSUME TypeOK, NEW t \in Things, now \in Old, pair[now] \in Fresh, PartOf(t)
  PROVE  val' \in [Things -> [Records -> SUBSET Facts]]
<1>1. now \in Records /\ pair[now] \in Records
  BY DEF Records
<1>2. PICK new \in SUBSET (val[t][pair[now]] \cup Was(t, now)) :
        val' = [val EXCEPT ![t][pair[now]] = new]
  BY DEF PartOf
<1>3. new \subseteq Facts
  BY <1>1, WasTypes DEF TypeOK
<1>4. QED
  BY <1>1, <1>2, <1>3 DEF TypeOK

LEMMA TouchTypes ==
  ASSUME TypeOK, NEW t \in Things, NEW r \in Records, Touch(t, r)
  PROVE  TypeOK'
<1>1. PICK new \in SUBSET Facts : val' = [val EXCEPT ![t][r] = new]
  BY DEF Touch
<1>2. val' \in [Things -> [Records -> SUBSET Facts]]
  BY <1>1 DEF TypeOK
<1>3. budget' \in 0..MaxOutside
  BY MergeAssumption DEF Touch, Outside, TypeOK
<1>4. touched' \subseteq Things \X Records
  BY DEF Touch, TypeOK
<1>5. QED
  BY <1>2, <1>3, <1>4 DEF Touch, Outside, TypeOK

LEMMA PublishTypes ==
  ASSUME TypeOK, NEW o \in Old, Publish(o)
  PROVE  TypeOK'
<1>1. budget' \in 0..MaxOutside
  BY MergeAssumption DEF Publish, Outside, TypeOK
<1>2. QED
  BY <1>1 DEF Publish, Outside, TypeOK

LEMMA MoveTypes ==
  ASSUME TypeOK, NEW o, Move(o)
  PROVE  todo' \subseteq Old /\ now' \in Old \cup {None} /\ step' \in Steps
  BY DEF Move, Go, Steps, TypeOK

LEMMA KeepTypes ==
  ASSUME TypeOK, NEW o \in Old, Keep(o)
  PROVE  /\ todo' \subseteq Old /\ now' \in Old \cup {None} /\ step' \in Steps
         /\ kept' \subseteq Old
         /\ UNCHANGED <<unreached, merged, keysLeft, erred>>
  BY MoveTypes DEF Keep, TypeOK

LEMMA RelistedTypes ==
  ASSUME TypeOK
  PROVE  Relisted \in [Things -> [Records -> SUBSET Facts]]
  BY DEF Relisted, TypeOK

LEMMA CarryTypes ==
  ASSUME TypeOK, PairInv, NEW t \in Things,
         \/ Carry(t) \/ CarryFails(t) \/ CannotAct(t) \/ PassOver(t)
         \/ MakeKey(t) \/ MakeKeyFails(t) \/ TryKey(t) \/ TryKeyFails(t)
  PROVE  TypeOK'
<1>0. USE ThingTypes
<1>1. now \in Old /\ pair[now] \in Fresh
  BY DEF Carry, CarryFails, CannotAct, PassOver, MakeKey, MakeKeyFails, TryKey,
         TryKeyFails, PairInv, AtPair, TypeOK
<1>2. CASE Carry(t)
  <2>1. val' \in [Things -> [Records -> SUBSET Facts]]
    BY <1>1, <1>2, WriteTypes DEF Carry
  <2>2. QED
    BY <1>2, <2>1 DEF Carry, TypeOK
<1>3. CASE CarryFails(t)
  <2>1. val' \in [Things -> [Records -> SUBSET Facts]]
    BY <1>1, <1>3, PartTypes DEF CarryFails
  <2>2. QED
    BY <1>1, <1>3, <2>1, KeepTypes DEF CarryFails, TypeOK
<1>4. CASE CannotAct(t)
  BY <1>1, <1>4, KeepTypes DEF CannotAct, TypeOK
<1>5. CASE PassOver(t)
  BY <1>5 DEF PassOver, TypeOK
<1>6. CASE MakeKey(t) \/ MakeKeyFails(t)
  BY <1>6 DEF MakeKey, MakeKeyFails, TypeOK
<1>7. CASE TryKey(t) \/ TryKeyFails(t)
  BY <1>7 DEF TryKey, TryKeyFails, TypeOK
<1>8. QED
  BY <1>2, <1>3, <1>4, <1>5, <1>6, <1>7

LEMMA CallTypes ==
  ASSUME TypeOK, PairInv, Call
  PROVE  TypeOK'
<1>1. CASE ReadFails
  BY <1>1 DEF ReadFails, Err, Go, TypeOK, Steps
<1>2. CASE Pair
  BY <1>2 DEF Pair, Go, TypeOK, Steps
<1>3. CASE ReadAccounts
  BY <1>3 DEF ReadAccounts, Go, TypeOK, Steps
<1>4. ASSUME NEW o \in Old, Plan(o) PROVE TypeOK'
  <2>1. /\ plan' \subseteq Things /\ done' = {}
        /\ listed' \in [Things -> [Records -> SUBSET Facts]]
    BY <1>4, RelistedTypes DEF Plan, PlanOf
  <2>2. /\ todo' \subseteq Old /\ now' \in Old \cup {None} /\ step' \in Steps
        /\ kept' \subseteq Old
        /\ UNCHANGED <<unreached, merged, keysLeft, erred>>
    BY <1>4, MoveTypes, KeepTypes DEF Plan, Go, Steps, TypeOK
  <2>3. QED
    BY <1>4, <2>1, <2>2 DEF Plan, TypeOK
<1>5. CASE CarryStep
  <2>1. CASE CarryDone
    BY <2>1 DEF CarryDone, Go, TypeOK, Steps
  <2>2. QED
    BY <1>5, <2>1, CarryTypes DEF CarryStep
<1>6. CASE ReRead
  BY <1>6 DEF ReRead, Go, TypeOK, Steps
<1>7. CASE RePlan
  <2>1. now \in Old
    BY <1>7 DEF RePlan, PairInv, AtPair, TypeOK
  <2>2. /\ todo' \subseteq Old /\ now' \in Old \cup {None} /\ step' \in Steps
        /\ kept' \subseteq Old
        /\ UNCHANGED <<unreached, merged, keysLeft, erred>>
    BY <1>7, <2>1, KeepTypes DEF RePlan, Go, Steps, TypeOK
  <2>3. QED
    BY <1>7, <2>2, RelistedTypes DEF RePlan, TypeOK
<1>8. CASE Delete \/ DeleteFails
  <2>1. now \in Old
    BY <1>8 DEF Delete, DeleteFails, PairInv, AtPair, TypeOK
  <2>2. QED
    BY <1>8, <2>1, MoveTypes, KeepTypes DEF Delete, DeleteFails, TypeOK
<1>9. CASE Count \/ Return
  BY <1>9 DEF Count, Return, Go, TypeOK, Steps
<1>10. ASSUME NEW u \in Accounts, CloseKey(u) PROVE TypeOK'
  BY <1>10 DEF CloseKey, TypeOK
<1>11. QED
  BY <1>1, <1>2, <1>3, <1>4, <1>5, <1>6, <1>7, <1>8, <1>9, <1>10 DEF Call
-----------------------------------------------------------------------------
(* The steps of the carrying: most go on with the pair at hand, two leave  *)
(* it.                                                                     *)
CarryOn(t) ==
  Carry(t) \/ PassOver(t) \/ MakeKey(t) \/ MakeKeyFails(t) \/ TryKey(t) \/ TryKeyFails(t)

CarryEnds(t) == CarryFails(t) \/ CannotAct(t)

LEMMA CarryOnStays ==
  ASSUME NEW t \in Things, CarryOn(t)
  PROVE  /\ step = "carry" /\ step' = step
         /\ UNCHANGED <<exists, todo, now, confirm, pair, kept, merged, erred>>
         /\ UNCHANGED <<feeds, shares, fed, opened, touched, listed, accounts, plan>>
  BY DEF CarryOn, Carry, PassOver, MakeKey, MakeKeyFails, TryKey, TryKeyFails

LEMMA CarryEndsKeeps ==
  ASSUME NEW t \in Things, CarryEnds(t)
  PROVE  /\ step = "carry" /\ Keep(now)
         /\ UNCHANGED <<exists, confirm, pair, feeds, shares, fed, opened, touched,
                        listed, accounts, plan, done, keys, acting, made>>
  BY DEF CarryEnds, CarryFails, CannotAct

LEMMA CarryStepCases ==
  ASSUME CarryStep
  PROVE  (\E t \in Things : CarryOn(t) \/ CarryEnds(t)) \/ CarryDone
  BY DEF CarryStep, CarryOn, CarryEnds

(* A pair that is left is not to come again, and none is at hand.          *)
LEMMA MovePair ==
  ASSUME TypeOK, PairInv, NEW o \in Old, o \in todo, Move(o),
         UNCHANGED <<pair, confirm, fed, feeds, opened>>, exists \ {o} \subseteq exists',
         step \in AtPair \cup {"plan"}
  PROVE  PairInv'
  BY DEF Move, Go, PairInv, AtPair, TypeOK

LEMMA PairStep ==
  ASSUME TypeOK, PairInv, Call
  PROVE  PairInv'
<1>0. USE DEF PairInv, AtPair
<1>1. CASE ReadFails
  BY <1>1 DEF ReadFails, Err, Go
<1>2. CASE Pair
  BY <1>2 DEF Pair, Go, TypeOK
<1>3. CASE ReadAccounts
  BY <1>3 DEF ReadAccounts, Go
<1>4. ASSUME NEW o \in Old, Plan(o) PROVE PairInv'
  <2>1. CASE Blocked(o) \/ ~confirm
    BY <1>4, <2>1, MovePair DEF Plan, Keep
  <2>2. CASE ~Blocked(o) /\ confirm
    BY <1>4, <2>2 DEF Plan, Go, Blocked
  <2>3. QED
    BY <2>1, <2>2
<1>5. CASE CarryStep
  <2>1. ASSUME NEW t \in Things, CarryOn(t) PROVE PairInv'
    BY <2>1, CarryOnStays
  <2>2. ASSUME NEW t \in Things, CarryEnds(t) PROVE PairInv'
    <3>1. now \in todo /\ now \in Old
      BY <2>2, CarryEndsKeeps DEF TypeOK
    <3>2. QED
      BY <2>2, <3>1, CarryEndsKeeps, MovePair DEF Keep
  <2>3. CASE CarryDone
    BY <2>3 DEF CarryDone, Go
  <2>4. QED
    BY <1>5, <2>1, <2>2, <2>3, CarryStepCases
<1>6. CASE ReRead
  BY <1>6 DEF ReRead, Go
<1>7. CASE RePlan
  <2>1. now \in todo /\ now \in Old
    BY <1>7 DEF RePlan, TypeOK
  <2>2. CASE Keep(now)
    BY <1>7, <2>1, <2>2, MovePair DEF RePlan, Keep
  <2>3. CASE Go("delete") /\ UNCHANGED <<todo, now, answer>>
    BY <1>7, <2>3 DEF RePlan, Go
  <2>4. QED
    BY <1>7, <2>2, <2>3 DEF RePlan
<1>8. CASE Delete \/ DeleteFails
  <2>1. now \in todo /\ now \in Old
    BY <1>8 DEF Delete, DeleteFails, TypeOK
  <2>2. QED
    BY <1>8, <2>1, MovePair DEF Delete, DeleteFails, Keep
<1>9. CASE Count \/ Return
  BY <1>9 DEF Count, Return, Go
<1>10. ASSUME NEW u \in Accounts, CloseKey(u) PROVE PairInv'
  BY <1>10 DEF CloseKey
<1>11. QED
  BY <1>1, <1>2, <1>3, <1>4, <1>5, <1>6, <1>7, <1>8, <1>9, <1>10 DEF Call

LEMMA PairOutside ==
  ASSUME TypeOK, PairInv,
         \/ \E t \in Things, r \in Records : Touch(t, r)
         \/ \E o \in Old : Publish(o)
  PROVE  PairInv'
  BY DEF PairInv, Touch, Publish, Outside
-----------------------------------------------------------------------------
(* A pair kept or merged is one that was still to come.                    *)
LEMMA AnswerMoves ==
  ASSUME AnswerInv, NEW o \in todo, Move(o),
         kept' \cup merged' = kept \cup merged \/ kept' \cup merged' = kept \cup merged \cup {o}
  PROVE  AnswerInv'
  BY DEF AnswerInv, Move, Go, AtFirst

LEMMA AnswerStep ==
  ASSUME TypeOK, PairInv, AnswerInv, ReportedAsIs, Call
  PROVE  AnswerInv' /\ ReportedAsIs'
<1>0. USE DEF AnswerInv, ReportedAsIs, AtFirst
<1>1. ASSUME UNCHANGED <<todo, kept, merged, exists>>, step' \in AtFirst => step \in AtFirst
      PROVE  AnswerInv' /\ ReportedAsIs'
  BY <1>1
<1>2. ASSUME NEW o \in todo, Keep(o), exists \ {o} \subseteq exists', exists' \subseteq exists
      PROVE  AnswerInv' /\ ReportedAsIs'
  BY <1>2 DEF Keep, Move, Go
<1>3. ASSUME NEW o \in Old, Plan(o) PROVE AnswerInv' /\ ReportedAsIs'
  <2>1. CASE Blocked(o)
    BY <1>2, <1>3, <2>1 DEF Plan
  <2>2. CASE ~Blocked(o)
    BY <1>3, <2>2 DEF Plan, Move, Go
  <2>3. QED
    BY <2>1, <2>2
<1>4. CASE CarryStep
  <2>1. ASSUME NEW t \in Things, CarryEnds(t) PROVE AnswerInv' /\ ReportedAsIs'
    BY <1>2, <2>1, CarryEndsKeeps DEF PairInv, AtPair
  <2>2. ASSUME NEW t \in Things, CarryOn(t) PROVE AnswerInv' /\ ReportedAsIs'
    BY <1>1, <2>2, CarryOnStays
  <2>3. CASE CarryDone
    BY <1>1, <2>3 DEF CarryDone, Go
  <2>4. QED
    BY <1>4, <2>1, <2>2, <2>3, CarryStepCases
<1>5. CASE RePlan
  <2>1. CASE Keep(now)
    BY <1>2, <1>5, <2>1 DEF RePlan, PairInv, AtPair
  <2>2. CASE Go("delete") /\ UNCHANGED <<todo, now, answer>>
    BY <1>1, <1>5, <2>2 DEF RePlan, Go
  <2>3. QED
    BY <1>5, <2>1, <2>2 DEF RePlan
<1>6. CASE Delete
  BY <1>6 DEF Delete, Move, Go, PairInv, AtPair
<1>7. CASE DeleteFails
  BY <1>2, <1>7 DEF DeleteFails, PairInv, AtPair
<1>8. CASE Pair
  BY <1>8 DEF Pair, Go
<1>9. CASE ReadFails \/ ReadAccounts \/ ReRead \/ Count \/ Return
  BY <1>1, <1>9 DEF ReadFails, Err, ReadAccounts, ReRead, Count, Return, Go
<1>10. ASSUME NEW u \in Accounts, CloseKey(u) PROVE AnswerInv' /\ ReportedAsIs'
  BY <1>1, <1>10 DEF CloseKey
<1>11. QED
  BY <1>3, <1>4, <1>5, <1>6, <1>7, <1>8, <1>9, <1>10 DEF Call
-----------------------------------------------------------------------------
(* Only the carry makes keys and only the end of the call deletes them.    *)
LEMMA KeyStep ==
  ASSUME TypeOK, KeyInv, Call
  PROVE  KeyInv'
<1>0. USE DEF KeyInv
<1>1. ASSUME UNCHANGED <<keys, acting, made, unreached, keysLeft>>, step' = "done" => made = {}
      PROVE  KeyInv'
  BY <1>1
<1>2. CASE CarryStep
  <2>1. ASSUME NEW t \in Things, MakeKey(t) \/ MakeKeyFails(t) PROVE KeyInv'
    BY <2>1, ThingTypes DEF MakeKey, MakeKeyFails, TypeOK
  <2>2. ASSUME NEW t \in Things, TryKey(t) \/ TryKeyFails(t) PROVE KeyInv'
    BY <2>2, ThingTypes DEF TryKey, TryKeyFails, TypeOK
  <2>3. ASSUME NEW t \in Things, Carry(t) \/ PassOver(t) PROVE KeyInv'
    BY <1>1, <2>3 DEF Carry, PassOver
  <2>4. ASSUME NEW t \in Things, CarryEnds(t) PROVE KeyInv'
    BY <1>1, <2>4, CarryEndsKeeps DEF Keep, Move, Go
  <2>5. CASE CarryDone
    BY <1>1, <2>5 DEF CarryDone, Go
  <2>6. QED
    BY <1>2, <2>1, <2>2, <2>3, <2>4, <2>5 DEF CarryStep, CarryEnds
<1>3. ASSUME NEW o \in Old, Plan(o) PROVE KeyInv'
  BY <1>1, <1>3 DEF Plan, Keep, Move, Go
<1>4. CASE ReadFails \/ Pair \/ ReadAccounts
  BY <1>1, <1>4 DEF ReadFails, Err, Pair, ReadAccounts, Go
<1>5. CASE ReRead \/ RePlan \/ Delete \/ DeleteFails \/ Count
  BY <1>1, <1>5 DEF ReRead, RePlan, Delete, DeleteFails, Count, Keep, Move, Go
<1>6. CASE Return
  BY <1>6 DEF Return
<1>7. ASSUME NEW u \in Accounts, CloseKey(u) PROVE KeyInv'
  BY <1>7 DEF CloseKey
<1>8. QED
  BY <1>2, <1>3, <1>4, <1>5, <1>6, <1>7 DEF Call
-----------------------------------------------------------------------------
(* A write is to the pair's new record, and of one thing.                  *)
LEMMA WritesFresh ==
  ASSUME TypeOK, PairInv, NEW t \in Things, CarryOn(t) \/ CarryEnds(t)
  PROVE  /\ \A s \in Things : s # t => val'[s] = val[s]
         /\ \A s \in Things, r \in Records : r # pair[now] => val'[s][r] = val[s][r]
         /\ \A s \in Things, o \in Old : val'[s][o] = val[s][o]
<1>1. now \in Old /\ pair[now] \in Fresh /\ pair[now] \notin Old
  BY CarryOnStays, CarryEndsKeeps, MergeAssumption DEF PairInv, AtPair, TypeOK
<1>2. \/ val' = val
      \/ \E new : val' = [val EXCEPT ![t][pair[now]] = new]
  BY DEF CarryOn, CarryEnds, Carry, CarryFails, CannotAct, PassOver, MakeKey,
         MakeKeyFails, TryKey, TryKeyFails, WriteIt, PartOf
<1>3. /\ \A s \in Things : s # t => val'[s] = val[s]
      /\ \A s \in Things, r \in Records : r # pair[now] => val'[s][r] = val[s][r]
  <2>1. CASE val' = val
    BY <2>1
  <2>2. ASSUME NEW new, val' = [val EXCEPT ![t][pair[now]] = new]
        PROVE  /\ \A s \in Things : s # t => val'[s] = val[s]
               /\ \A s \in Things, r \in Records : r # pair[now] => val'[s][r] = val[s][r]
    BY <2>2 DEF TypeOK
  <2>3. QED
    BY <1>2, <2>1, <2>2
<1>4. QED
  BY <1>1, <1>3 DEF Records

(* What the call holds of the old records and of the accounts is as it     *)
(* read it: it writes neither itself before it has read the accounts again.*)
LEMMA ReadStep ==
  ASSUME TypeOK, PairInv, ReadInv, Call
  PROVE  ReadInv'
<1>0. USE DEF ReadInv
<1>1. ASSUME UNCHANGED <<val, touched, accounts>>,
             step' \in {"replan", "delete"} => step \in {"replan", "delete"},
             \A t \in Things, o \in Old :
               t.kind \in {"details", "chapters", "cover"} => listed'[t][o] = listed[t][o]
      PROVE  ReadInv'
  BY <1>1
<1>2. \A t \in Things, o \in Old :
        t.kind \in {"details", "chapters", "cover"} => Relisted[t][o] = listed[t][o]
  BY DEF Relisted, Listings
<1>3. CASE CarryStep
  <2>1. ASSUME NEW t \in Things, CarryOn(t) \/ CarryEnds(t) PROVE ReadInv'
    <3>1. UNCHANGED <<touched, listed>> /\ step' \notin {"replan", "delete"}
      BY <2>1, CarryOnStays, CarryEndsKeeps DEF Keep, Move, Go
    <3>2. QED
      BY <2>1, <3>1, WritesFresh
  <2>2. CASE CarryDone
    BY <1>1, <2>2 DEF CarryDone, Go
  <2>3. QED
    BY <1>3, <2>1, <2>2, CarryStepCases
<1>4. ASSUME NEW o \in Old, Plan(o) PROVE ReadInv'
  <2>1. step' \notin {"replan", "delete"}
    BY <1>4 DEF Plan, Keep, Move, Go
  <2>2. QED
    BY <1>1, <1>2, <1>4, <2>1 DEF Plan
<1>5. CASE ReadFails \/ Count \/ Return
  BY <1>1, <1>5 DEF ReadFails, Err, Count, Return, Go
<1>6. CASE Pair \/ ReadAccounts
  BY <1>6 DEF Pair, ReadAccounts, Go
<1>7. CASE ReRead
  BY <1>7 DEF ReRead, Go
<1>8. CASE RePlan
  <2>1. \A t \in Things, r \in Records :
          /\ t.kind \in {"progress", "bookmarks"} \/ (t.kind \in {"details", "chapters", "cover"} /\ r \in Old)
          /\ <<t, r>> \in touched
          => <<t, r>> \in touched'
    BY <1>8, MergeAssumption DEF RePlan, ReadAgain, Listings
  <2>2. UNCHANGED <<val, accounts>> /\ listed' = Relisted
    BY <1>8 DEF RePlan
  <2>3. step \in {"replan", "delete"}
    BY <1>8 DEF RePlan
  <2>4. QED
    BY <1>2, <2>1, <2>2, <2>3 DEF Records
<1>9. CASE Delete \/ DeleteFails
  BY <1>1, <1>9 DEF Delete, DeleteFails, Keep, Move, Go
<1>10. ASSUME NEW u \in Accounts, CloseKey(u) PROVE ReadInv'
  BY <1>1, <1>10 DEF CloseKey
<1>11. QED
  BY <1>3, <1>4, <1>5, <1>6, <1>7, <1>8, <1>9, <1>10 DEF Call
-----------------------------------------------------------------------------
(* What is there stays there while nothing writes it and what something    *)
(* else changed of it is not read again.                                   *)
LEMMA ThereStays ==
  ASSUME NEW t \in Things, There(t), UNCHANGED <<now, pair>>, val'[t] = val[t],
         \A r : <<t, r>> \in touched => <<t, r>> \in touched'
  PROVE  There(t)'
  BY DEF There, Arrived, Untouched

(* What the carry writes arrives.                                          *)
LEMMA CarriedArrives ==
  ASSUME TypeOK, PairInv, NEW t \in Things, Carry(t), t.kind = "cover" \/ Foreign(t)
  PROVE  There(t)'
<1>1. now \in Old /\ pair[now] \in Fresh /\ pair[now] # now
  BY MergeAssumption DEF Carry, PairInv, AtPair, TypeOK
<1>2. now \in Records /\ pair[now] \in Records
  BY <1>1 DEF Records
<1>3. Was(t, now) = val[t][now]
  BY ThingTypes DEF Was, Foreign
<1>4. /\ val'[t][pair[now]] = Carried(t, val[t][now], val[t][pair[now]])
      /\ val'[t][now] = val[t][now]
  BY <1>1, <1>2, <1>3 DEF Carry, WriteIt, TypeOK
<1>5. ~Lacks(t, val'[t][now], val'[t][pair[now]])
  <2>1. CASE t.kind = "cover"
    BY <1>4, <2>1 DEF Carried, Lacks, Added
  <2>2. CASE t.kind = "playlists"
    BY <1>4, <2>2 DEF Carried, Lacks, Added
  <2>3. QED
    BY <2>1, <2>2 DEF Foreign
<1>6. UNCHANGED <<now, pair>>
  BY DEF Carry
<1>7. QED
  BY <1>5, <1>6 DEF There, Arrived

(* A cover the plan leaves out is one the old record does not have.        *)
LEMMA NoCoverToCarry ==
  ASSUME TypeOK, ReadInv, NEW o \in Old, NEW t \in Things, t.kind = "cover",
         t \notin PlanOf(o)
  PROVE  Arrived(t, o) \/ <<t, o>> \in touched
<1>1. ~Planned(t, o)
  BY DEF PlanOf
<1>2. listed[t][o] = {}
  BY <1>1 DEF Planned, Foreign
<1>3. val[t][o] = {} \/ <<t, o>> \in touched
  BY <1>2 DEF ReadInv
<1>4. QED
  BY <1>3 DEF Arrived, Lacks, Added

LEMMA CarryOnInv ==
  ASSUME TypeOK, PairInv, CarryInv, NEW t \in Things, CarryOn(t)
  PROVE  CarryInv'
<1>1. /\ step = "carry" /\ step' = "carry"
      /\ UNCHANGED <<now, pair, touched, plan>>
  BY CarryOnStays
<1>2. ASSUME NEW s \in Things, There(s), s # t \/ ~Carry(t) PROVE There(s)'
  <2>1. val'[s] = val[s]
    BY <1>2, WritesFresh DEF CarryOn, PassOver, MakeKey, MakeKeyFails, TryKey, TryKeyFails
  <2>2. QED
    BY <1>1, <1>2, <2>1, ThereStays
<1>3. \A s \in Things : acting[s.of] = "nil" => acting'[s.of] = "nil"
  BY ThingTypes
  DEF CarryOn, Carry, PassOver, MakeKey, MakeKeyFails, TryKey, TryKeyFails, TypeOK
<1>4. done' = done \/ (done' = done \cup {t} /\ (Carry(t) \/ (acting[t.of] = "nil" /\ Foreign(t))))
  <2>1. CASE Carry(t)
    BY <2>1 DEF Carry
  <2>2. CASE PassOver(t)
    BY <2>2 DEF PassOver
  <2>3. CASE MakeKey(t) \/ MakeKeyFails(t) \/ TryKey(t) \/ TryKeyFails(t)
    BY <2>3 DEF MakeKey, MakeKeyFails, TryKey, TryKeyFails
  <2>4. QED
    BY <2>1, <2>2, <2>3 DEF CarryOn
<1>5. ASSUME NEW s \in Things
      PROVE  /\ s.kind = "cover" /\ (s \in plan' => s \in done') => There(s)'
             /\ Foreign(s) /\ s \in done' => There(s)' \/ acting'[s.of] = "nil"
  <2>1. CASE s = t /\ Carry(t)
    BY <2>1, CarriedArrives
  <2>2. CASE s # t \/ ~Carry(t)
    <3>1. s \in done' => s \in done \/ (acting[s.of] = "nil" /\ Foreign(s))
      BY <1>4, <2>2
    <3>2. Foreign(s) => s.kind # "cover"
      BY DEF Foreign
    <3>3. QED
      BY <1>1, <1>2, <1>3, <2>2, <3>1, <3>2 DEF CarryInv, AtPair
  <2>3. QED
    BY <2>1, <2>2
<1>6. \A s \in Things : Foreign(s)' <=> Foreign(s)
  BY DEF Foreign
<1>7. QED
  BY <1>1, <1>5, <1>6 DEF CarryInv, AtPair

LEMMA CarryInvStep ==
  ASSUME TypeOK, PairInv, ReadInv, CarryInv, Call
  PROVE  CarryInv'
<1>1. ASSUME step' \notin AtPair PROVE CarryInv'
  BY <1>1 DEF CarryInv, AtPair
<1>2. ASSUME step \in AtPair, step' \in AtPair,
             UNCHANGED <<now, pair, val, plan, done, acting>>,
             \A t \in Things : \A r : t.kind = "cover" \/ Foreign(t) =>
               (<<t, r>> \in touched => <<t, r>> \in touched'),
             step' # "carry" => Tasks = {}
      PROVE  CarryInv'
  <2>1. \A t \in Things : (t.kind = "cover" \/ Foreign(t)) /\ There(t) => There(t)'
    BY <1>2, ThereStays
  <2>2. Tasks' = Tasks /\ \A t \in Things : Foreign(t)' <=> Foreign(t)
    BY <1>2 DEF Tasks, Foreign
  <2>3. QED
    BY <1>2, <2>1, <2>2 DEF CarryInv, AtPair
<1>3. CASE CarryStep
  <2>1. ASSUME NEW t \in Things, CarryOn(t) PROVE CarryInv'
    BY <2>1, CarryOnInv
  <2>2. ASSUME NEW t \in Things, CarryEnds(t) PROVE CarryInv'
    BY <1>1, <2>2, CarryEndsKeeps DEF Keep, Move, Go, AtPair
  <2>3. CASE CarryDone
    BY <1>2, <2>3 DEF CarryDone, Go, AtPair
  <2>4. QED
    BY <1>3, <2>1, <2>2, <2>3, CarryStepCases
<1>4. ASSUME NEW o \in Old, Plan(o) PROVE CarryInv'
  <2>1. CASE step' \notin AtPair
    BY <1>1, <2>1
  <2>2. CASE step' \in AtPair
    <3>1. /\ step' = "carry" /\ now' = o /\ plan' = PlanOf(o) /\ done' = {}
          /\ UNCHANGED <<val, pair, touched>>
      BY <1>4, <2>2 DEF Plan, Keep, Move, Go, AtPair
    <3>2. ASSUME NEW t \in Things, t.kind = "cover", t \notin plan' PROVE There(t)'
      <4>1. Arrived(t, o) \/ <<t, o>> \in touched
        BY <3>1, <3>2, NoCoverToCarry
      <4>2. QED
        BY <3>1, <4>1 DEF There, Arrived, Untouched
    <3>3. QED
      BY <3>1, <3>2 DEF CarryInv, AtPair
  <2>3. QED
    BY <2>1, <2>2
<1>5. CASE ReadFails \/ Pair \/ ReadAccounts \/ Count \/ Return
  BY <1>1, <1>5 DEF ReadFails, Err, Pair, ReadAccounts, Count, Return, Go, AtPair
<1>6. CASE ReRead
  <2>1. \A t \in Things : \A r : t.kind = "cover" \/ Foreign(t) =>
          (<<t, r>> \in touched => <<t, r>> \in touched')
    BY <1>6 DEF ReRead, Foreign
  <2>2. Tasks = {}
    BY <1>6 DEF ReRead, CarryInv, AtPair
  <2>3. QED
    BY <1>2, <1>6, <2>1, <2>2 DEF ReRead, Go, AtPair
<1>7. CASE RePlan
  <2>1. CASE Keep(now)
    BY <1>1, <2>1 DEF Keep, Move, Go, AtPair
  <2>2. CASE Go("delete") /\ UNCHANGED <<todo, now, answer>>
    <3>1. \A t \in Things : \A r : t.kind = "cover" \/ Foreign(t) =>
            (<<t, r>> \in touched => <<t, r>> \in touched')
      BY <1>7 DEF RePlan, ReadAgain, Listings, Foreign
    <3>2. Tasks = {}
      BY <1>7 DEF RePlan, CarryInv, AtPair
    <3>3. QED
      BY <1>2, <1>7, <2>2, <3>1, <3>2 DEF RePlan, Go, AtPair
  <2>3. QED
    BY <1>7, <2>1, <2>2 DEF RePlan
<1>8. CASE Delete \/ DeleteFails
  BY <1>1, <1>8 DEF Delete, DeleteFails, Keep, Move, Go, AtPair
<1>9. ASSUME NEW u \in Accounts, CloseKey(u) PROVE CarryInv'
  BY <1>1, <1>9 DEF CloseKey, AtPair
<1>10. QED
  BY <1>3, <1>4, <1>5, <1>6, <1>7, <1>8, <1>9 DEF Call
-----------------------------------------------------------------------------
(* A thing the second plan does not name is there, but for what something  *)
(* else changed since the call read that.                                  *)
LEMMA UnplannedIsThere ==
  ASSUME TypeOK, PairInv, ReadInv, step = "replan", NEW t \in Things,
         t.kind # "cover", ~Foreign(t), t \notin PlanOf(now)
  PROVE  \/ Arrived(t, now)
         \/ t.kind \in {"progress", "bookmarks"} /\ ~Untouched(t, now)
         \/ t.kind \in {"details", "chapters"} /\ <<t, now>> \in touched
<1>1. ~Planned(t, now)
  BY DEF PlanOf
<1>2. now \in Old /\ now \in Records /\ pair[now] \in Records
  BY DEF PairInv, AtPair, TypeOK, Records
<1>3. CASE t.kind \in {"progress", "bookmarks"}
  <2>1. ~Lacks(t, accounts[t][now], accounts[t][pair[now]])
    BY <1>1, <1>3 DEF Planned
  <2>2. Untouched(t, now) =>
          /\ accounts[t][now] = val[t][now]
          /\ accounts[t][pair[now]] = val[t][pair[now]]
    BY <1>2, <1>3 DEF ReadInv, Untouched
  <2>3. QED
    BY <1>3, <2>1, <2>2 DEF Arrived
<1>4. CASE t.kind \in {"details", "chapters"}
  <2>1. ~Lacks(t, listed[t][now], val[t][pair[now]])
    BY <1>1, <1>4 DEF Planned, Foreign
  <2>2. <<t, now>> \notin touched => listed[t][now] = val[t][now]
    BY <1>2, <1>4 DEF ReadInv
  <2>3. QED
    BY <1>4, <2>1, <2>2 DEF Arrived
<1>5. CASE t.kind \in {"collections", "playlists"}
  BY <1>1, <1>5 DEF Planned, Arrived
<1>6. QED
  BY <1>3, <1>4, <1>5, ThingTypes

LEMMA ReadBackStep ==
  ASSUME TypeOK, PairInv, ReadInv, ReadBackInv, Call
  PROVE  ReadBackInv'
<1>1. ASSUME step' # "delete" PROVE ReadBackInv'
  BY <1>1 DEF ReadBackInv
<1>2. CASE CarryStep
  BY <1>1, <1>2, CarryStepCases, CarryOnStays, CarryEndsKeeps
  DEF CarryDone, Keep, Move, Go
<1>3. ASSUME NEW o \in Old, Plan(o) PROVE ReadBackInv'
  BY <1>1, <1>3 DEF Plan, Keep, Move, Go
<1>4. CASE ReadFails \/ Pair \/ ReadAccounts \/ ReRead \/ Count \/ Return
  BY <1>1, <1>4 DEF ReadFails, Err, Pair, ReadAccounts, ReRead, Count, Return, Go
<1>5. CASE RePlan
  <2>1. CASE Keep(now)
    BY <1>1, <2>1 DEF Keep, Move, Go
  <2>2. CASE ~(\E t \in PlanOf(now) : t.kind # "cover")
    <3>1. step = "replan" /\ UNCHANGED <<val, pair, now>>
      BY <1>5, <2>2 DEF RePlan
    <3>2. ASSUME NEW t \in Things, t.kind # "cover", ~Foreign(t) PROVE There(t)'
      <4>1. t \notin PlanOf(now)
        BY <2>2, <3>2
      <4>2. now \notin Fresh
        BY <3>1, MergeAssumption DEF PairInv, AtPair, TypeOK
      <4>3. \A r : <<t, r>> \in touched /\ ~ReadAgain(t, r) => <<t, r>> \in touched'
        BY <1>5 DEF RePlan
      <4>4. CASE Arrived(t, now)
        BY <3>1, <4>4 DEF There, Arrived
      <4>5. CASE t.kind \in {"progress", "bookmarks"} /\ ~Untouched(t, now)
        BY <3>1, <4>3, <4>5 DEF There, Untouched, ReadAgain, Listings
      <4>6. CASE t.kind \in {"details", "chapters"} /\ <<t, now>> \in touched
        BY <3>1, <4>2, <4>3, <4>6 DEF There, Untouched, ReadAgain, Listings
      <4>7. QED
        BY <3>1, <3>2, <4>1, <4>4, <4>5, <4>6, UnplannedIsThere
    <3>3. QED
      BY <3>2 DEF ReadBackInv, Foreign
  <2>3. QED
    BY <1>5, <2>1, <2>2 DEF RePlan
<1>6. CASE Delete \/ DeleteFails
  BY <1>1, <1>6 DEF Delete, DeleteFails, Keep, Move, Go
<1>7. ASSUME NEW u \in Accounts, CloseKey(u) PROVE ReadBackInv'
  BY <1>1, <1>7 DEF CloseKey
<1>8. QED
  BY <1>2, <1>3, <1>4, <1>5, <1>6, <1>7 DEF Call
-----------------------------------------------------------------------------
(* What something else changes it is known to have changed.                *)
LEMMA TouchInv ==
  ASSUME TypeOK, ReadInv, CarryInv, ReadBackInv, NEW t \in Things, NEW r \in Records,
         Touch(t, r)
  PROVE  ReadInv' /\ CarryInv' /\ ReadBackInv'
<1>1. /\ touched' = touched \cup {<<t, r>>}
      /\ UNCHANGED <<step, now, pair, listed, accounts, plan, done, acting>>
  BY DEF Touch, Outside
<1>2. PICK new \in SUBSET Facts : val' = [val EXCEPT ![t][r] = new]
  BY DEF Touch
<1>3. \A s \in Things, q \in Records : <<s, q>> \notin touched' => val'[s][q] = val[s][q]
  BY <1>1, <1>2 DEF TypeOK
<1>4. \A s \in Things, q \in Records : <<s, q>> \notin touched' => <<s, q>> \notin touched
  BY <1>1
<1>5. ReadInv'
  BY <1>1, <1>3, <1>4 DEF ReadInv, Records
<1>6. ASSUME NEW s \in Things, There(s) PROVE There(s)'
  <2>1. CASE s = t /\ r \in {now, pair[now]}
    BY <1>1, <2>1 DEF There, Untouched
  <2>2. CASE s # t \/ r \notin {now, pair[now]}
    <3>1. val'[s][now] = val[s][now] /\ val'[s][pair[now]] = val[s][pair[now]]
      BY <1>2, <2>2 DEF TypeOK
    <3>2. QED
      BY <1>1, <1>6, <3>1 DEF There, Arrived, Untouched
  <2>3. QED
    BY <2>1, <2>2
<1>7. Tasks' = Tasks /\ \A s \in Things : Foreign(s)' <=> Foreign(s)
  BY <1>1 DEF Tasks, Foreign
<1>8. CarryInv' /\ ReadBackInv'
  BY <1>1, <1>6, <1>7 DEF CarryInv, ReadBackInv
<1>9. QED
  BY <1>5, <1>8

LEMMA PublishInv ==
  ASSUME ReadInv, CarryInv, ReadBackInv, NEW o \in Old, Publish(o)
  PROVE  ReadInv' /\ CarryInv' /\ ReadBackInv'
  BY DEF Publish, Outside, ReadInv, CarryInv, ReadBackInv, There, Arrived, Untouched,
         Tasks, Foreign

LEMMA OutsideInv ==
  ASSUME AnswerInv, ReportedAsIs, KeyInv,
         \/ \E t \in Things, r \in Records : Touch(t, r)
         \/ \E o \in Old : Publish(o)
  PROVE  AnswerInv' /\ ReportedAsIs' /\ KeyInv'
  BY DEF AnswerInv, ReportedAsIs, KeyInv, Touch, Publish, Outside
-----------------------------------------------------------------------------
(* The invariant holds at the start, of every step, and so always.         *)
LEMMA InitInv ==
  ASSUME Init
  PROVE  MergeInv
<1>1. PICK w \in Worlds :
        /\ val = w.val /\ feeds = w.feeds /\ shares = w.shares
        /\ refused = w.refused /\ pair = w.pair
  BY DEF Init
<1>2. w \in [val     : [Things -> [Records -> SUBSET Facts]],
             feeds   : SUBSET Old,
             shares  : SUBSET Old,
             refused : SUBSET (Accounts \ {Me}),
             pair    : [Old -> Fresh \cup {None}]]
  BY MergeAssumption
<1>3. TypeOK
  <2>1. /\ val \in [Things -> [Records -> SUBSET Facts]]
        /\ feeds \subseteq Old /\ shares \subseteq Old /\ refused \subseteq Accounts
        /\ pair \in [Old -> Fresh \cup {None}]
    BY <1>1, <1>2
  <2>2. /\ listed = val /\ accounts = val
        /\ exists = Records /\ step = "start" /\ confirm \in BOOLEAN /\ now = None
        /\ keys = {} /\ todo = {} /\ fed = {} /\ plan = {} /\ done = {} /\ made = {}
        /\ unreached = {} /\ kept = {} /\ merged = {} /\ keysLeft = {} /\ erred = FALSE
        /\ touched = {} /\ opened = {} /\ budget = MaxOutside
        /\ acting = [u \in Accounts |-> IF u = Me THEN "yes" ELSE "unasked"]
    BY DEF Init
  <2>3. budget \in 0..MaxOutside
    BY <2>2, MergeAssumption
  <2>4. QED
    BY <2>1, <2>2, <2>3 DEF TypeOK, Steps
<1>4. PairInv /\ AnswerInv /\ KeyInv
  BY DEF Init, PairInv, AnswerInv, KeyInv, AtPair, AtFirst
<1>5. ReportedAsIs
  BY DEF Init, ReportedAsIs, Records
<1>6. ReadInv /\ CarryInv /\ ReadBackInv
  BY DEF Init, ReadInv, CarryInv, ReadBackInv, AtPair
<1>7. QED
  BY <1>3, <1>4, <1>5, <1>6 DEF MergeInv

LEMMA StepInv ==
  ASSUME MergeInv, [Next]_vars
  PROVE  MergeInv'
<1>0. USE DEF MergeInv
<1>1. CASE Call
  BY <1>1, CallTypes, PairStep, AnswerStep, KeyStep, ReadStep, CarryInvStep, ReadBackStep
<1>2. ASSUME NEW t \in Live, NEW r \in Records, Touch(t, r) PROVE MergeInv'
  <2>1. t \in Things
    BY MergeAssumption
  <2>2. QED
    BY <1>2, <2>1, TouchTypes, PairOutside, OutsideInv, TouchInv
<1>3. ASSUME NEW o \in Old, Publish(o) PROVE MergeInv'
  BY <1>3, PublishTypes, PairOutside, OutsideInv, PublishInv
<1>4. CASE UNCHANGED vars
  BY <1>4
  DEF vars, TypeOK, PairInv, AnswerInv, ReportedAsIs, KeyInv, ReadInv, CarryInv,
      ReadBackInv, There, Arrived, Untouched, Tasks, Foreign
<1>5. QED
  BY <1>1, <1>2, <1>3, <1>4 DEF Next

(* Everything MergeInv says of the call holds in every state.              *)
THEOREM Invariance == Spec => []MergeInv
<1>1. Init => MergeInv
  BY InitInv
<1>2. MergeInv /\ [Next]_vars => MergeInv'
  BY StepInv
<1>3. QED
  BY <1>1, <1>2, PTL DEF Spec

THEOREM TypeCorrect == Spec => []TypeOK
<1>1. MergeInv => TypeOK
  BY DEF MergeInv
<1>2. QED
  BY <1>1, Invariance, PTL

(* The answer names every key of another account's that the call could act *)
(* with and that is still there, however its pairs fared.                  *)
THEOREM KeysAreAccountedFor == Spec => []KeysAccountedFor
<1>1. MergeInv => KeysAccountedFor
  BY DEF MergeInv, KeyInv, KeysAccountedFor
<1>2. QED
  BY <1>1, Invariance, PTL

(* A record reported merged is gone, and one that is gone is reported.     *)
THEOREM AnswersAsItIs == Spec => []ReportedAsIs
<1>1. MergeInv => ReportedAsIs
  BY DEF MergeInv
<1>2. QED
  BY <1>1, Invariance, PTL

(* Only the pair at hand is deleted, and only once it was read back.       *)
LEMMA DeletesNow ==
  ASSUME MergeInv, [Next]_vars, NEW o \in Old, Deletes(o)
  PROVE  step = "delete" /\ o = now
<1>1. CASE Call
  <2>1. CASE Delete \/ DeleteFails
    BY <2>1 DEF Delete, DeleteFails, Deletes
  <2>2. CASE CarryStep
    BY <2>2, CarryStepCases, CarryOnStays, CarryEndsKeeps DEF CarryDone, Deletes
  <2>3. CASE \E p \in Old : Plan(p)
    BY <2>3 DEF Plan, Deletes
  <2>4. CASE ReadFails \/ Pair \/ ReadAccounts \/ ReRead \/ RePlan \/ Count \/ Return
               \/ \E u \in Accounts : CloseKey(u)
    BY <2>4 DEF ReadFails, Err, Pair, ReadAccounts, ReRead, RePlan, Count, Return,
                CloseKey, Deletes
  <2>5. QED
    BY <1>1, <2>1, <2>2, <2>3, <2>4 DEF Call
<1>2. CASE ~Call
  BY <1>2 DEF Next, Touch, Publish, Outside, Deletes, vars
<1>3. QED
  BY <1>1, <1>2

(* What hung on an old record is on the new one when the old one goes, but *)
(* for what something else changed and the playlists of an account that no *)
(* key could act as.                                                       *)
THEOREM NothingIsLost == Spec => NothingLost
<1>1. ASSUME MergeInv, [Next]_vars, NEW o \in Old, Deletes(o), NEW t \in Things
      PROVE  Arrived(t, o) \/ ~Untouched(t, o) \/ (Foreign(t) /\ acting[t.of] # "yes")
  <2>1. step = "delete" /\ o = now
    BY <1>1, DeletesNow
  <2>2. CASE t.kind = "cover" \/ Foreign(t)
    <3>1. Tasks = {}
      BY <1>1, <2>1 DEF MergeInv, CarryInv, AtPair
    <3>2. (t \in plan \/ Foreign(t)) => t \in done
      BY <3>1 DEF Tasks
    <3>3. There(t) \/ (Foreign(t) /\ acting[t.of] = "nil")
      BY <1>1, <2>1, <2>2, <3>2 DEF MergeInv, CarryInv, AtPair
    <3>4. QED
      BY <2>1, <3>3 DEF There
  <2>3. CASE t.kind # "cover" /\ ~Foreign(t)
    BY <1>1, <2>1, <2>3 DEF MergeInv, ReadBackInv, There
  <2>4. QED
    BY <2>2, <2>3
<1>2. MergeInv /\ [Next]_vars =>
        [\A o \in Old : Deletes(o) =>
           \A t \in Things :
             \/ Arrived(t, o)
             \/ ~Untouched(t, o)
             \/ Foreign(t) /\ acting[t.of] # "yes"]_vars
  BY <1>1
<1>3. QED
  BY <1>2, Invariance, PTL DEF Spec, NothingLost

(* A record whose feed or share was open when the call read them stays, and*)
(* so does every record of a call that was not confirmed.                  *)
THEOREM PublishedRecordsStay == Spec => PublishedStay
<1>1. ASSUME MergeInv, [Next]_vars, NEW o \in Old, Deletes(o)
      PROVE  confirm /\ o \notin (feeds \cup shares) \ opened
  <2>1. step = "delete" /\ o = now
    BY <1>1, DeletesNow
  <2>2. QED
    BY <1>1, <2>1 DEF MergeInv, PairInv, AtPair
<1>2. MergeInv /\ [Next]_vars =>
        [\A o \in Old : Deletes(o) => confirm /\ o \notin (feeds \cup shares) \ opened]_vars
  BY <1>1
<1>3. QED
  BY <1>2, Invariance, PTL DEF Spec, PublishedStay
=============================================================================
