--------------------------- MODULE LockSetProofs ---------------------------
(***************************************************************************)
(* LockSet for every set of callers, keys and locks: its inductive         *)
(* invariant, and from it its types, mutual exclusion, the accounting of   *)
(* the map, that it implements RecordLocks, and that it never deadlocks.   *)
(***************************************************************************)
EXTENDS LockSet, FiniteSetTheorems, TLAPS

(***************************************************************************)
(* The inductive invariant behind the three safety properties.             *)
(***************************************************************************)
(* The keys a caller is counted on, and those of them it has the mutex of. *)
Registered(c) == held[c] \cup (IF pc[c] = "wait" THEN {First(todo[c])} ELSE {})
Locked(c)     == held[c] \ (IF pc[c] = "drop" THEN {Last(held[c])} ELSE {})

(* Where a caller is says what it has of the RWMutex, and what of its keys. *)
DoorInv ==
  \A c \in Callers :
    /\ pc[c] \in BySteps <=> c \in readers
    /\ pc[c] = "blocked" <=> c \in blocked
    /\ pc[c] \in {"drain", "all"} <=> writer = c
    /\ pc[c] = "all" => readers = {}

ListInv ==
  \A c \in Callers :
    /\ pc[c] \notin BySteps => held[c] = {}
    /\ held[c] \cap todo[c] = {}
    /\ pc[c] \in {"call", "blocked", "take", "wait", "in"}
         => held[c] \cup todo[c] = things[c]
    /\ pc[c] \in {"idle", "queue", "drain", "all"} => things[c] = {}
    /\ pc[c] = "wait" => todo[c] # {}
    /\ pc[c] \notin {"call", "blocked", "take", "wait"} => todo[c] = {}
    /\ pc[c] = "drop" => held[c] # {}

RefInv ==
  \A c \in Callers, k \in Keys :
    /\ ref[c][k] # None <=> k \in Registered(c)
    /\ ref[c][k] # None => ref[c][k] = keys[k]

CountInv ==
  /\ \A j, k \in Keys : keys[j] = keys[k] /\ keys[k] # None => j = k
  /\ \A k \in Keys : keys[k] # None => /\ Users(k) # {}
                                       /\ holders[keys[k]] = Cardinality(Users(k))

OwnerInv == \A c \in Callers : \A k \in Locked(c) : owner[keys[k]] = c

LockInv == TypeOK /\ DoorInv /\ ListInv /\ RefInv /\ CountInv /\ OwnerInv

(* The one behind NoDeadlock, on top of it: who is parked is parked behind *)
(* a writer, who waits for a key waits for one after all it holds, and who *)
(* owns the mutex of a key in the map has it of its list.                  *)
WaitInv ==
  /\ blocked # {} => writer # None
  /\ \A c \in Callers : \A h \in held[c], k \in todo[c] : h < k
  /\ \A c \in Callers, k \in Keys :
       keys[k] # None /\ owner[keys[k]] = c => k \in Locked(c)

-----------------------------------------------------------------------------
(* Some of the keys have a first and a last of them.                       *)
LEMMA EndsAreMembers ==
  ASSUME NEW S \in SUBSET Keys, S # {}
  PROVE  First(S) \in S /\ Last(S) \in S
  BY KeysAssumption DEF First, Last

(* A step that leaves the keys alone, and nobody registering or dropping   *)
(* one, keeps the three parts of the invariant about keys.                 *)
LEMMA DoorStep ==
  ASSUME LockInv, UNCHANGED <<held, keyVars>>,
         \A c \in Callers : /\ pc'[c] = "wait" <=> pc[c] = "wait"
                            /\ pc[c] = "wait" => todo'[c] = todo[c]
                            /\ pc'[c] = "drop" <=> pc[c] = "drop"
  PROVE  RefInv' /\ CountInv' /\ OwnerInv'
<1>1. \A c \in Callers : Registered(c)' = Registered(c)
  BY DEF Registered
<1>2. \A c \in Callers : Locked(c)' = Locked(c)
  BY DEF Locked
<1>3. RefInv'
  BY <1>1 DEF LockInv, RefInv, keyVars
<1>4. CountInv'
  BY DEF LockInv, CountInv, keyVars, Users
<1>5. OwnerInv'
  BY <1>2 DEF LockInv, OwnerInv, keyVars
<1>6. QED
  BY <1>3, <1>4, <1>5

LEMMA CallByKeeps ==
  ASSUME LockInv, NEW c \in Callers, NEW S \in SUBSET Keys, CallBy(c, S)
  PROVE  LockInv'
<1>0. USE DEF LockInv, CallBy, Goto, TypeOK, Steps, BySteps, rwVars
<1>1. TypeOK'
  BY DEF keyVars
<1>2. DoorInv'
  BY DEF DoorInv
<1>3. ListInv'
  BY DEF ListInv
<1>4. RefInv' /\ CountInv' /\ OwnerInv'
  BY DoorStep
<1>5. QED
  BY <1>1, <1>2, <1>3, <1>4

LEMMA RLockKeeps ==
  ASSUME LockInv, NEW c \in Callers, RLock(c)
  PROVE  LockInv'
<1>0. USE DEF LockInv, RLock, Goto, TypeOK, Steps, BySteps
<1>1. TypeOK'
  BY DEF keyVars
<1>2. DoorInv'
  BY LockAssumption DEF DoorInv
<1>3. ListInv'
  BY DEF ListInv
<1>4. RefInv' /\ CountInv' /\ OwnerInv'
  BY DoorStep
<1>5. QED
  BY <1>1, <1>2, <1>3, <1>4

LEMMA ReturnByKeeps ==
  ASSUME LockInv, NEW c \in Callers, ReturnBy(c)
  PROVE  LockInv'
<1>0. USE DEF LockInv, ReturnBy, Goto, TypeOK, Steps, BySteps, rwVars
<1>1. TypeOK'
  BY DEF keyVars
<1>2. DoorInv'
  BY DEF DoorInv
<1>3. ListInv'
  BY DEF ListInv
<1>4. RefInv' /\ CountInv' /\ OwnerInv'
  BY DoorStep
<1>5. QED
  BY <1>1, <1>2, <1>3, <1>4

LEMMA LeaveByKeeps ==
  ASSUME LockInv, NEW c \in Callers, LeaveBy(c)
  PROVE  LockInv'
<1>0. USE DEF LockInv, LeaveBy, Goto, TypeOK, Steps, BySteps
<1>1. TypeOK'
  BY DEF keyVars
<1>2. DoorInv'
  BY DEF DoorInv
<1>3. ListInv'
  BY DEF ListInv
<1>4. RefInv' /\ CountInv' /\ OwnerInv'
  BY DoorStep
<1>5. QED
  BY <1>1, <1>2, <1>3, <1>4

LEMMA CallAllKeeps ==
  ASSUME LockInv, NEW c \in Callers, CallAll(c)
  PROVE  LockInv'
<1>0. USE DEF LockInv, CallAll, Goto, TypeOK, Steps, BySteps, rwVars
<1>1. TypeOK'
  BY DEF keyVars
<1>2. DoorInv'
  BY DEF DoorInv
<1>3. ListInv'
  BY DEF ListInv
<1>4. RefInv' /\ CountInv' /\ OwnerInv'
  BY DoorStep
<1>5. QED
  BY <1>1, <1>2, <1>3, <1>4

LEMMA AnnounceKeeps ==
  ASSUME LockInv, NEW c \in Callers, Announce(c)
  PROVE  LockInv'
<1>0. USE DEF LockInv, Announce, Goto, TypeOK, Steps, BySteps
<1>1. TypeOK'
  BY DEF keyVars
<1>2. DoorInv'
  BY LockAssumption DEF DoorInv
<1>3. ListInv'
  BY DEF ListInv
<1>4. RefInv' /\ CountInv' /\ OwnerInv'
  BY DoorStep
<1>5. QED
  BY <1>1, <1>2, <1>3, <1>4

LEMMA LockAllKeeps ==
  ASSUME LockInv, NEW c \in Callers, LockAll(c)
  PROVE  LockInv'
<1>0. USE DEF LockInv, LockAll, Goto, TypeOK, Steps, BySteps, rwVars
<1>1. TypeOK'
  BY DEF keyVars
<1>2. DoorInv'
  BY DEF DoorInv
<1>3. ListInv'
  BY DEF ListInv
<1>4. RefInv' /\ CountInv' /\ OwnerInv'
  BY DoorStep
<1>5. QED
  BY <1>1, <1>2, <1>3, <1>4

(* The readers parked behind a writer come in as it leaves; with it gone   *)
(* nobody is at "all" whom they could disturb.                             *)
LEMMA UnlockAllKeeps ==
  ASSUME LockInv, NEW c \in Callers, UnlockAll(c)
  PROVE  LockInv'
<1>0. USE DEF LockInv, UnlockAll, TypeOK, Steps, BySteps
<1>1. TypeOK'
  BY DEF keyVars
<1>2. \A d \in Callers \ {c} : pc[d] \notin {"drain", "all"}
  BY DEF DoorInv
<1>3. DoorInv'
  BY <1>2, LockAssumption DEF DoorInv
<1>4. \A d \in blocked : pc[d] = "blocked"
  BY DEF DoorInv
<1>5. ListInv'
  BY <1>4 DEF ListInv
<1>6. RefInv' /\ CountInv' /\ OwnerInv'
  BY <1>4, DoorStep
<1>7. QED
  BY <1>1, <1>3, <1>5, <1>6

(* The users of a key are finitely many, so their number grows by one with *)
(* each that comes and shrinks by one with each that goes.                 *)
LEMMA UsersFinite ==
  ASSUME NEW k \in Keys
  PROVE  IsFiniteSet(Users(k)) /\ Cardinality(Users(k)) \in Nat
  BY LockAssumption, FS_Subset, FS_CardinalityType DEF Users

(* What a caller points to is in the map, so what it has locked is too.    *)
LEMMA PointersAreKeys ==
  ASSUME LockInv, NEW d \in Callers, NEW j \in Registered(d)
  PROVE  /\ j \in Keys
         /\ ref[d][j] = keys[j]
         /\ keys[j] \in Mutexes
<1>1. j \in Keys
  BY EndsAreMembers DEF LockInv, TypeOK, Registered, ListInv
<1>2. ref[d][j] # None /\ ref[d][j] = keys[j]
  BY <1>1 DEF LockInv, RefInv
<1>3. QED
  BY <1>1, <1>2 DEF LockInv, TypeOK

LEMMA RegisterKeeps ==
  ASSUME LockInv, NEW c \in Callers, Register(c)
  PROVE  LockInv'
<1>0. PICK k \in Keys : k = First(todo[c]) /\ k \in todo[c]
  BY EndsAreMembers DEF LockInv, TypeOK, Register
<1>1. k \in todo[c] /\ k \in Keys /\ pc[c] = "take" /\ k \notin held[c]
  BY <1>0 DEF LockInv, TypeOK, Register, ListInv
<1>2. ref[c][k] = None
  BY <1>1 DEF LockInv, RefInv, Registered
<1>3. PICK m \in Mutexes :
        /\ IF keys[k] = None
             THEN /\ Fresh(m)
                  /\ keys'    = [keys EXCEPT ![k] = m]
                  /\ holders' = [holders EXCEPT ![m] = 1]
                  /\ owner'   = [owner EXCEPT ![m] = None]
             ELSE /\ m = keys[k]
                  /\ holders' = [holders EXCEPT ![m] = @ + 1]
                  /\ UNCHANGED <<keys, owner>>
        /\ ref' = [ref EXCEPT ![c][k] = m]
  BY <1>0 DEF Register
<1>4. pc' = [pc EXCEPT ![c] = "wait"] /\ UNCHANGED <<things, todo, held, rwVars>>
  BY DEF Register, Goto
<1>5. m # None
  BY LockAssumption
<1>6. TypeOK'
  <2>1. holders' \in [Mutexes -> Nat]
    <3>1. holders \in [Mutexes -> Nat]
      BY DEF LockInv, TypeOK
    <3>2. \A n \in Nat : [holders EXCEPT ![m] = n] \in [Mutexes -> Nat]
      BY <3>1
    <3>3. holders[m] + 1 \in Nat
      BY <3>1
    <3>4. QED
      BY <3>2, <3>3, <1>3
  <2>2. keys' \in [Keys -> Mutexes \cup {None}] /\ owner' \in [Mutexes -> Callers \cup {None}]
    BY <1>3 DEF LockInv, TypeOK
  <2>3. ref' \in [Callers -> [Keys -> Mutexes \cup {None}]]
    BY <1>1, <1>3 DEF LockInv, TypeOK
  <2>4. QED
    BY <2>1, <2>2, <2>3, <1>4 DEF LockInv, TypeOK, Steps, BySteps, rwVars
<1>7. DoorInv'
  BY <1>1, <1>4 DEF LockInv, TypeOK, DoorInv, BySteps, rwVars
<1>8. ListInv'
  BY <1>1, <1>4 DEF LockInv, TypeOK, ListInv, BySteps
<1>9. keys'[k] = m /\ ref'[c][k] = m /\ (\A j \in Keys \ {k} : keys'[j] = keys[j])
  BY <1>1, <1>3 DEF LockInv, TypeOK
<1>10. \A d \in Callers, j \in Keys : d # c \/ j # k => ref'[d][j] = ref[d][j]
  BY <1>1, <1>3 DEF LockInv, TypeOK
<1>11. \A d \in Callers : ref[d][k] # None => keys[k] # None /\ ref[d][k] = m
  BY <1>1, <1>3 DEF LockInv, RefInv
<1>12. Registered(c)' = held[c] \cup {k} /\ Registered(c) = held[c]
  BY <1>0, <1>1, <1>4 DEF Registered, LockInv, TypeOK
<1>13. \A d \in Callers \ {c} : Registered(d)' = Registered(d)
  BY <1>4 DEF Registered, LockInv, TypeOK
<1>14. RefInv'
  <2>1. ASSUME NEW d \in Callers, NEW j \in Keys
        PROVE  /\ ref'[d][j] # None <=> j \in Registered(d)'
               /\ ref'[d][j] # None => ref'[d][j] = keys'[j]
    <3>1. CASE d = c /\ j = k
      BY <3>1, <1>5, <1>9, <1>12
    <3>2. CASE d = c /\ j # k
      BY <3>2, <1>9, <1>10, <1>12 DEF LockInv, RefInv
    <3>3. CASE d # c /\ j = k
      BY <3>3, <1>9, <1>10, <1>11, <1>13 DEF LockInv, RefInv
    <3>4. CASE d # c /\ j # k
      BY <3>4, <1>9, <1>10, <1>13 DEF LockInv, RefInv
    <3>5. QED
      BY <3>1, <3>2, <3>3, <3>4
  <2>2. QED
    BY <2>1 DEF RefInv
<1>15. CountInv'
  <2>1. \A j \in Keys \ {k} : Users(j)' = Users(j)
    BY <1>10 DEF Users
  <2>2. Users(k)' = Users(k) \cup {c} /\ c \notin Users(k)
    BY <1>2, <1>5, <1>9, <1>10, <1>1 DEF Users
  <2>3. Cardinality(Users(k)') = Cardinality(Users(k)) + 1
    BY <2>2, <1>1, UsersFinite, FS_AddElement
  <2>4. \A j \in Keys \ {k} : keys[j] # None => keys[j] # m
    BY <1>1, <1>3 DEF Fresh, LockInv, CountInv
  <2>5. \A j \in Keys \ {k} : keys[j] # None => holders'[keys[j]] = holders[keys[j]]
    BY <2>4, <1>3 DEF LockInv, TypeOK
  <2>6. holders'[m] = Cardinality(Users(k)')
    <3>1. CASE keys[k] = None
      <4>1. Users(k) = {}
        BY <3>1, <1>11 DEF Users
      <4>2. QED
        BY <3>1, <4>1, <2>3, <1>3, FS_EmptySet DEF LockInv, TypeOK
    <3>2. CASE keys[k] # None
      BY <3>2, <1>1, <1>3, <2>3 DEF LockInv, TypeOK, CountInv
    <3>3. QED
      BY <3>1, <3>2
  <2>7. \A j, i \in Keys : keys'[j] = keys'[i] /\ keys'[i] # None => j = i
    BY <1>9, <2>4, <1>5 DEF LockInv, CountInv
  <2>8. \A j \in Keys \ {k} : keys'[j] # None =>
          Users(j)' # {} /\ holders'[keys'[j]] = Cardinality(Users(j)')
    BY <1>9, <2>1, <2>5 DEF LockInv, CountInv
  <2>9. Users(k)' # {} /\ holders'[keys'[k]] = Cardinality(Users(k)')
    BY <1>9, <2>2, <2>6
  <2>10. \A j \in Keys : keys'[j] # None =>
           Users(j)' # {} /\ holders'[keys'[j]] = Cardinality(Users(j)')
    BY <2>8, <2>9
  <2>11. QED
    BY <2>7, <2>10 DEF CountInv
<1>16. OwnerInv'
  <2>1. \A d \in Callers : Locked(d)' = Locked(d)
    BY <1>1, <1>4 DEF Locked, LockInv, TypeOK
  <2>2. ASSUME NEW d \in Callers, NEW j \in Locked(d)
        PROVE  owner'[keys'[j]] = d
    <3>1. j \in Registered(d)
      BY <2>2 DEF Locked, Registered
    <3>2. j \in Keys /\ ref[d][j] = keys[j] /\ keys[j] \in Mutexes
      BY <3>1, PointersAreKeys
    <3>3. keys'[j] = keys[j] /\ owner'[keys[j]] = owner[keys[j]]
      BY <3>2, <1>3, <1>9, <1>5, LockAssumption DEF Fresh, LockInv, TypeOK
    <3>4. QED
      BY <3>3, <2>2 DEF LockInv, OwnerInv
  <2>3. QED
    BY <2>1, <2>2 DEF OwnerInv
<1>17. QED
  BY <1>6, <1>7, <1>8, <1>14, <1>15, <1>16 DEF LockInv

LEMMA LockKeyKeeps ==
  ASSUME LockInv, NEW c \in Callers, LockKey(c)
  PROVE  LockInv'
<1>1. PICK k \in Keys : k = First(todo[c]) /\ k \in todo[c]
  BY EndsAreMembers DEF LockInv, TypeOK, LockKey, ListInv
<1>2. pc[c] = "wait" /\ k \notin held[c]
  BY <1>1 DEF LockInv, LockKey, ListInv
<1>3. PICK m \in Mutexes : m = ref[c][k] /\ m = keys[k]
  BY <1>1, <1>2, PointersAreKeys DEF Registered
<1>4. /\ owner[m] = None
      /\ owner' = [owner EXCEPT ![m] = c]
      /\ held'  = [held EXCEPT ![c] = @ \cup {k}]
      /\ todo'  = [todo EXCEPT ![c] = @ \ {k}]
      /\ pc'    = [pc EXCEPT ![c] = "take"]
      /\ UNCHANGED <<things, ref, keys, holders, rwVars>>
  BY <1>1, <1>3 DEF LockKey, Goto
<1>5. TypeOK'
  BY <1>1, <1>4 DEF LockInv, TypeOK, Steps, BySteps, rwVars
<1>6. DoorInv'
  BY <1>2, <1>4 DEF LockInv, TypeOK, DoorInv, BySteps, rwVars
<1>7. ListInv'
  BY <1>1, <1>2, <1>4 DEF LockInv, TypeOK, ListInv, BySteps
<1>8. \A d \in Callers : Registered(d)' = Registered(d)
  BY <1>1, <1>2, <1>4 DEF Registered, LockInv, TypeOK
<1>9. RefInv'
  BY <1>4, <1>8 DEF LockInv, RefInv
<1>10. CountInv'
  BY <1>4 DEF LockInv, CountInv, Users
<1>11. OwnerInv'
  <2>1. ASSUME NEW d \in Callers, NEW j \in Locked(d)'
        PROVE  owner'[keys'[j]] = d
    <3>1. CASE d = c /\ j = k
      BY <3>1, <1>3, <1>4 DEF LockInv, TypeOK
    <3>2. CASE ~(d = c /\ j = k)
      <4>1. j \in Locked(d)
        BY <3>2, <2>1, <1>2, <1>4 DEF Locked, LockInv, TypeOK
      <4>2. owner[keys[j]] = d
        BY <4>1 DEF LockInv, OwnerInv
      <4>3. keys[j] \in Mutexes
        BY <4>1, PointersAreKeys DEF Locked, Registered
      <4>4. keys[j] # m
        BY <4>2, <1>4, LockAssumption
      <4>5. QED
        BY <4>2, <4>3, <4>4, <1>4 DEF LockInv, TypeOK
    <3>3. QED
      BY <3>1, <3>2
  <2>2. QED
    BY <2>1 DEF OwnerInv
<1>12. QED
  BY <1>5, <1>6, <1>7, <1>9, <1>10, <1>11 DEF LockInv

LEMMA UnlockKeyKeeps ==
  ASSUME LockInv, NEW c \in Callers, UnlockKey(c)
  PROVE  LockInv'
<1>1. PICK k \in Keys : k = Last(held[c]) /\ k \in held[c]
  BY EndsAreMembers DEF LockInv, TypeOK, UnlockKey
<1>2. pc[c] \in {"in", "unlock"} /\ k \in Locked(c)
  BY <1>1 DEF UnlockKey, Locked
<1>3. PICK m \in Mutexes : m = ref[c][k] /\ m = keys[k]
  BY <1>1, PointersAreKeys DEF Registered
<1>4. /\ owner' = [owner EXCEPT ![m] = None]
      /\ pc'    = [pc EXCEPT ![c] = "drop"]
      /\ UNCHANGED <<things, todo, held, ref, keys, holders, rwVars>>
  BY <1>1, <1>3 DEF UnlockKey, Goto
<1>5. TypeOK'
  BY <1>4 DEF LockInv, TypeOK, Steps, BySteps, rwVars
<1>6. DoorInv'
  BY <1>2, <1>4 DEF LockInv, TypeOK, DoorInv, BySteps, rwVars
<1>7. ListInv'
  BY <1>1, <1>2, <1>4 DEF LockInv, TypeOK, ListInv, BySteps
<1>8. \A d \in Callers : Registered(d)' = Registered(d)
  BY <1>2, <1>4 DEF Registered, LockInv, TypeOK
<1>9. RefInv'
  BY <1>4, <1>8 DEF LockInv, RefInv
<1>10. CountInv'
  BY <1>4 DEF LockInv, CountInv, Users
<1>11. OwnerInv'
  <2>1. ASSUME NEW d \in Callers, NEW j \in Locked(d)'
        PROVE  owner'[keys'[j]] = d
    <3>1. j \in Locked(d) /\ ~(d = c /\ j = k)
      BY <2>1, <1>1, <1>2, <1>4 DEF Locked, LockInv, TypeOK
    <3>2. owner[keys[j]] = d /\ owner[m] = c
      BY <3>1, <1>2, <1>3 DEF LockInv, OwnerInv
    <3>3. keys[j] \in Mutexes /\ j \in Keys
      BY <3>1, PointersAreKeys DEF Locked, Registered
    <3>4. keys[j] # m
      BY <3>1, <3>2, <3>3, <1>3, LockAssumption DEF LockInv, CountInv
    <3>5. QED
      BY <3>2, <3>3, <3>4, <1>4 DEF LockInv, TypeOK
  <2>2. QED
    BY <2>1 DEF OwnerInv
<1>12. QED
  BY <1>5, <1>6, <1>7, <1>9, <1>10, <1>11 DEF LockInv

LEMMA DropKeyKeeps ==
  ASSUME LockInv, NEW c \in Callers, DropKey(c)
  PROVE  LockInv'
<1>1. PICK k \in Keys : k = Last(held[c]) /\ k \in held[c]
  BY EndsAreMembers DEF LockInv, TypeOK, DropKey, ListInv
<1>2. pc[c] = "drop"
  BY DEF DropKey
<1>3. PICK m \in Mutexes : m = ref[c][k] /\ m = keys[k]
  BY <1>1, PointersAreKeys DEF Registered
<1>4. /\ holders' = [holders EXCEPT ![m] = @ - 1]
      /\ keys' = IF holders[m] = 1 THEN [keys EXCEPT ![k] = None] ELSE keys
      /\ ref'  = [ref EXCEPT ![c][k] = None]
      /\ held' = [held EXCEPT ![c] = @ \ {k}]
      /\ pc'   = [pc EXCEPT ![c] = "unlock"]
      /\ UNCHANGED <<things, todo, owner, rwVars>>
  BY <1>1, <1>3 DEF DropKey, Goto
<1>5. m # None /\ c \in Users(k)
  BY <1>3, LockAssumption DEF Users
<1>6. holders[m] = Cardinality(Users(k)) /\ holders[m] \in Nat /\ holders[m] # 0
  <2>1. holders[m] = Cardinality(Users(k))
    BY <1>3, <1>5 DEF LockInv, CountInv
  <2>2. IsFiniteSet(Users(k)) /\ Cardinality(Users(k)) \in Nat
    BY UsersFinite
  <2>3. Cardinality(Users(k)) # 0
    BY <1>5, <2>2, FS_EmptySet
  <2>4. QED
    BY <2>1, <2>2, <2>3
<1>7. Users(k)' = Users(k) \ {c}
  BY <1>4 DEF Users, LockInv, TypeOK
<1>8. Cardinality(Users(k)') = holders[m] - 1
  BY <1>5, <1>6, <1>7, UsersFinite, FS_RemoveElement
<1>9. holders[m] = 1 => Users(k)' = {}
  <2>1. IsFiniteSet(Users(k)')
    BY <1>7, UsersFinite, FS_RemoveElement
  <2>2. QED
    BY <2>1, <1>6, <1>8, FS_EmptySet
<1>10. TypeOK'
  <2>1. holders[m] - 1 \in Nat
    BY <1>6
  <2>2. QED
    BY <2>1, <1>1, <1>4 DEF LockInv, TypeOK, Steps, BySteps, rwVars
<1>11. DoorInv'
  BY <1>2, <1>4 DEF LockInv, TypeOK, DoorInv, BySteps, rwVars
<1>12. ListInv'
  BY <1>1, <1>2, <1>4 DEF LockInv, TypeOK, ListInv, BySteps
<1>13. Registered(c)' = Registered(c) \ {k} /\ \A d \in Callers \ {c} : Registered(d)' = Registered(d)
  BY <1>2, <1>4 DEF Registered, LockInv, TypeOK
<1>14. \A j \in Keys \ {k} : keys'[j] = keys[j]
  BY <1>4 DEF LockInv, TypeOK
<1>15. RefInv'
  <2>1. ASSUME NEW d \in Callers, NEW j \in Keys
        PROVE  /\ ref'[d][j] # None <=> j \in Registered(d)'
               /\ ref'[d][j] # None => ref'[d][j] = keys'[j]
    <3>1. CASE d = c /\ j = k
      BY <3>1, <1>4, <1>13 DEF LockInv, TypeOK
    <3>2. CASE ~(d = c /\ j = k)
      <4>1. ref'[d][j] = ref[d][j]
        BY <3>2, <1>4 DEF LockInv, TypeOK
      <4>2. j \in Registered(d)' <=> j \in Registered(d)
        BY <3>2, <1>13
      <4>3. ref'[d][j] # None => keys'[j] = keys[j]
        BY <1>4, <1>9, <1>14 DEF Users
      <4>4. QED
        BY <4>1, <4>2, <4>3 DEF LockInv, RefInv
    <3>3. QED
      BY <3>1, <3>2
  <2>2. QED
    BY <2>1 DEF RefInv
<1>16. CountInv'
  <2>1. \A j \in Keys \ {k} : Users(j)' = Users(j)
    BY <1>4 DEF Users, LockInv, TypeOK
  <2>2. \A j \in Keys \ {k} : keys[j] # None => keys[j] # m /\ holders'[keys[j]] = holders[keys[j]]
    BY <1>3, <1>4 DEF LockInv, TypeOK, CountInv
  <2>3. \A j, i \in Keys : keys'[j] = keys'[i] /\ keys'[i] # None => j = i
    BY <1>4 DEF LockInv, TypeOK, CountInv
  <2>4. ASSUME NEW j \in Keys, keys'[j] # None
        PROVE  Users(j)' # {} /\ holders'[keys'[j]] = Cardinality(Users(j)')
    <3>1. CASE j = k
      <4>1. holders[m] # 1 /\ keys'[k] = m
        BY <3>1, <2>4, <1>3, <1>4 DEF LockInv, TypeOK
      <4>2. holders'[m] = Cardinality(Users(k)') /\ Cardinality(Users(k)') # 0
        BY <4>1, <1>4, <1>6, <1>8 DEF LockInv, TypeOK
      <4>3. Users(k)' # {}
        BY <4>2, FS_EmptySet
      <4>4. QED
        BY <3>1, <4>1, <4>2, <4>3
    <3>2. CASE j # k
      BY <3>2, <2>1, <2>2, <2>4, <1>14 DEF LockInv, CountInv
    <3>3. QED
      BY <3>1, <3>2
  <2>5. QED
    BY <2>3, <2>4 DEF CountInv
<1>17. OwnerInv'
  <2>1. ASSUME NEW d \in Callers, NEW j \in Locked(d)'
        PROVE  owner'[keys'[j]] = d
    <3>1. j \in Locked(d) /\ ~(d = c /\ j = k)
      BY <2>1, <1>1, <1>2, <1>4 DEF Locked, LockInv, TypeOK
    <3>2. j \in Registered(d) /\ j \in Keys
      BY <3>1, PointersAreKeys DEF Locked, Registered
    <3>3. ref'[d][j] = ref[d][j] /\ ref[d][j] # None /\ ref[d][j] = keys[j]
      BY <3>1, <3>2, <1>4 DEF LockInv, TypeOK, RefInv
    <3>4. keys'[j] = keys[j]
      BY <3>2, <3>3, <1>15 DEF RefInv
    <3>5. QED
      BY <3>1, <3>4, <1>4 DEF LockInv, OwnerInv
  <2>2. QED
    BY <2>1 DEF OwnerInv
<1>18. QED
  BY <1>10, <1>11, <1>12, <1>15, <1>16, <1>17 DEF LockInv

-----------------------------------------------------------------------------
LEMMA StepKeeps ==
  ASSUME LockInv, [Next]_vars
  PROVE  LockInv'
<1>1. ASSUME NEW c \in Callers, Call(c) PROVE LockInv'
  BY <1>1, CallByKeeps, CallAllKeeps DEF Call
<1>2. ASSUME NEW c \in Callers, Step(c) PROVE LockInv'
  BY <1>2, RLockKeeps, RegisterKeeps, LockKeyKeeps, ReturnByKeeps, UnlockKeyKeeps,
     DropKeyKeeps, LeaveByKeeps, AnnounceKeeps, LockAllKeeps, UnlockAllKeeps DEF Step
<1>3. CASE UNCHANGED vars
  <2>1. TypeOK' /\ DoorInv' /\ ListInv'
    BY <1>3 DEF LockInv, TypeOK, DoorInv, ListInv, vars, keyVars, rwVars
  <2>2. RefInv' /\ CountInv' /\ OwnerInv'
    BY <1>3, DoorStep DEF vars
  <2>3. QED
    BY <2>1, <2>2 DEF LockInv
<1>4. QED
  BY <1>1, <1>2, <1>3 DEF Next

LEMMA InitHolds == Init => LockInv
<1>1. ASSUME Init PROVE LockInv
  <2>1. TypeOK
    BY <1>1, LockAssumption DEF Init, TypeOK, Steps, BySteps
  <2>2. DoorInv /\ ListInv
    BY <1>1, LockAssumption DEF Init, DoorInv, ListInv, BySteps
  <2>3. RefInv /\ CountInv /\ OwnerInv
    BY <1>1 DEF Init, RefInv, CountInv, OwnerInv, Registered, Locked
  <2>4. QED
    BY <2>1, <2>2, <2>3 DEF LockInv
<1>2. QED
  BY <1>1

(* The inductive invariant of the lock set.                                *)
THEOREM Invariance == Spec => []LockInv
  BY InitHolds, StepKeeps, PTL DEF Spec

(* Every variable keeps its type, for any callers, keys and locks.         *)
THEOREM TypeCorrect == Spec => []TypeOK
<1>1. LockInv => TypeOK
  BY DEF LockInv
<1>2. QED
  BY <1>1, Invariance, PTL

LEMMA InsideApart ==
  ASSUME LockInv, NEW c \in Callers, NEW d \in Callers, c # d,
         pc[c] = "in", pc[d] = "in"
  PROVE  things[c] \cap things[d] = {}
<1>1. things[c] = Locked(c) /\ things[d] = Locked(d)
  BY DEF LockInv, ListInv, Locked
<1>2. QED
  BY <1>1 DEF LockInv, OwnerInv

LEMMA AllAlone ==
  ASSUME LockInv, NEW c \in Callers, NEW d \in Callers, c # d, pc[c] = "all"
  PROVE  pc[d] \notin {"in", "all"}
  BY DEF LockInv, DoorInv, BySteps

LEMMA RequestsAreSets ==
  ASSUME LockInv, NEW c \in Callers
  PROVE  things[c] \in SUBSET Keys /\ things[c] # Everything
  BY LockAssumption DEF LockInv, TypeOK

LEMMA ExclusionHolds == LockInv => NoTwoInside
<1>1. ASSUME LockInv, NEW c \in Callers, NEW d \in Callers, c # d,
             pc[c] \in {"in", "all"}, pc[d] \in {"in", "all"}
      PROVE  pc[c] = "in" /\ pc[d] = "in"
  BY <1>1, AllAlone
<1>2. ASSUME LockInv, NEW c \in Callers, NEW d \in Callers, c # d,
             Place(pc[c]) = "in", Place(pc[d]) = "in"
      PROVE  /\ pc[c] = "in" /\ pc[d] = "in"
             /\ ~Locks!Conflict(things[c], things[d])
  <2>1. pc[c] \in {"in", "all"} /\ pc[d] \in {"in", "all"}
    BY <1>2 DEF Place, LockInv, TypeOK, Steps, BySteps
  <2>2. pc[c] = "in" /\ pc[d] = "in"
    BY <1>1, <1>2, <2>1
  <2>3. QED
    BY <1>2, <2>2, InsideApart, RequestsAreSets DEF Locks!Conflict
<1>3. QED
  BY <1>2 DEF NoTwoInside, Locks!Exclusion

(* No two callers are inside with a record in common, and All is inside    *)
(* alone.                                                                  *)
THEOREM MutualExclusion == Spec => []NoTwoInside
  BY Invariance, ExclusionHolds, PTL

(* The map holds exactly the locks someone holds or awaits, each counted   *)
(* right and each the only lock of its key.                                *)
THEOREM MapAccounted == Spec => []MapIsWhatIsUsed
<1>1. LockInv => MapIsWhatIsUsed
  BY DEF LockInv, RefInv, CountInv, MapIsWhatIsUsed, Users
<1>2. QED
  BY <1>1, Invariance, PTL

-----------------------------------------------------------------------------
(***************************************************************************)
(* The refinement.  Most steps move a caller within one place of           *)
(* RecordLocks and so are stutters of it; the others are its actions.      *)
(***************************************************************************)
places == [c \in Callers |-> Place(pc[c])]
asked  == [c \in Callers |-> IF pc[c] \in {"queue", "drain", "all"}
                             THEN Everything
                             ELSE things[c]]

LEMMA InnerStep ==
  ASSUME LockInv, NEW c \in Callers,
         \/ RLock(c) \/ Register(c) \/ LockKey(c)
         \/ DropKey(c) \/ Announce(c) \/ UNCHANGED vars
  PROVE  UNCHANGED <<places, asked>>
  BY DEF LockInv, TypeOK, places, asked, Place, Steps, BySteps, Goto, RLock,
         Register, LockKey, DropKey, Announce, vars

LEMMA CallByAsks ==
  ASSUME LockInv, NEW c \in Callers, NEW S \in SUBSET Keys, CallBy(c, S)
  PROVE  Locks!Ask(c, S)
  BY DEF LockInv, TypeOK, CallBy, Goto, Locks!Ask, Place, Steps, BySteps

LEMMA CallAllAsks ==
  ASSUME LockInv, NEW c \in Callers, CallAll(c)
  PROVE  Locks!Ask(c, Everything)
  BY DEF LockInv, TypeOK, CallAll, Goto, Locks!Ask, Place, Steps, BySteps

LEMMA UnlockKeyLeaves ==
  ASSUME LockInv, NEW c \in Callers, UnlockKey(c)
  PROVE  Locks!Leave(c) \/ UNCHANGED <<places, asked>>
  BY DEF LockInv, TypeOK, UnlockKey, Goto, Locks!Leave, Place, Steps, BySteps, places, asked

LEMMA LeaveByGoes ==
  ASSUME LockInv, NEW c \in Callers, LeaveBy(c)
  PROVE  Locks!Gone(c)
  BY DEF LockInv, TypeOK, LeaveBy, Goto, Locks!Gone, Place, Steps, BySteps

LEMMA UnlockAllGoes ==
  ASSUME LockInv, NEW c \in Callers, UnlockAll(c)
  PROVE  Locks!Gone(c)
<1>1. \A d \in blocked : pc[d] = "blocked"
  BY DEF LockInv, TypeOK, DoorInv
<1>2. \A d \in Callers \ {c} :
        /\ Place(pc'[d]) = Place(pc[d])
        /\ pc'[d] \in {"queue", "drain", "all"} <=> pc[d] \in {"queue", "drain", "all"}
  BY <1>1 DEF UnlockAll, LockInv, TypeOK, Place, Steps, BySteps
<1>3. things[c] = {} /\ things' = things /\ pc[c] = "all" /\ pc'[c] = "idle"
  BY DEF UnlockAll, LockInv, ListInv
<1>4. Place(pc[c]) = "in" /\ Place(pc'[c]) = "out"
  BY <1>3 DEF Place
<1>5. places' = [places EXCEPT ![c] = "out"]
  BY <1>2, <1>4 DEF places
<1>6. asked' = [asked EXCEPT ![c] = {}]
  BY <1>2, <1>3 DEF asked
<1>7. QED
  BY <1>4, <1>5, <1>6 DEF Locks!Gone, places, asked

LEMMA ReturnByEnters ==
  ASSUME LockInv, NEW c \in Callers, ReturnBy(c)
  PROVE  Locks!Enter(c)
<1>1. pc[c] = "take" /\ todo[c] = {} /\ things[c] = Locked(c)
  BY DEF ReturnBy, LockInv, ListInv, Locked
<1>2. ASSUME NEW d \in Callers \ {c}, Place(pc[d]) = "in"
      PROVE  /\ pc[d] = "in"
             /\ ~Locks!Conflict(things[c], things[d])
  <2>1. pc[d] \in {"in", "all"}
    BY <1>2 DEF Place, LockInv, TypeOK, Steps, BySteps
  <2>2. pc[d] = "in"
    BY <1>1, <2>1 DEF LockInv, DoorInv, BySteps
  <2>3. things[d] = Locked(d)
    BY <2>2 DEF LockInv, ListInv, Locked
  <2>4. things[c] \cap things[d] = {}
    BY <1>1, <2>3 DEF LockInv, OwnerInv
  <2>5. QED
    BY <2>2, <2>4, RequestsAreSets DEF Locks!Conflict
<1>3. Locks!MayEnter(c, things[c])
  BY <1>2 DEF Locks!MayEnter
<1>4. pc' = [pc EXCEPT ![c] = "in"] /\ things' = things
  BY DEF ReturnBy, Goto
<1>5. QED
  BY <1>1, <1>3, <1>4 DEF Locks!Enter, LockInv, TypeOK, Place, Steps, BySteps

LEMMA LockAllEnters ==
  ASSUME LockInv, NEW c \in Callers, LockAll(c)
  PROVE  Locks!Enter(c)
<1>1. pc[c] = "drain" /\ readers = {} /\ pc' = [pc EXCEPT ![c] = "all"] /\ things' = things
  BY DEF LockAll, Goto
<1>2. \A d \in Callers \ {c} : pc[d] \notin {"in", "all"}
  BY <1>1 DEF LockInv, DoorInv, BySteps
<1>3. \A d \in Callers \ {c} : Place(pc[d]) # "in"
  BY <1>2 DEF LockInv, TypeOK, Place, Steps, BySteps
<1>4. QED
  BY <1>1, <1>3 DEF Locks!Enter, Locks!MayEnter, LockInv, TypeOK, Place, Steps, BySteps

LEMMA StepImplements ==
  ASSUME LockInv, [Next]_vars
  PROVE  [Locks!Next]_<<places, asked>>
<1>1. ASSUME NEW c \in Callers, Call(c) PROVE Locks!Next
  BY <1>1, CallByAsks, CallAllAsks DEF Call, Locks!Next, Locks!Requests
<1>2. ASSUME NEW c \in Callers, Step(c)
      PROVE  Locks!Next \/ UNCHANGED <<places, asked>>
  <2>1. CASE RLock(c) \/ Register(c) \/ LockKey(c) \/ DropKey(c) \/ Announce(c)
    BY <2>1, InnerStep
  <2>2. CASE ReturnBy(c)
    BY <2>2, ReturnByEnters DEF Locks!Next
  <2>3. CASE UnlockKey(c)
    BY <2>3, UnlockKeyLeaves DEF Locks!Next
  <2>4. CASE LeaveBy(c)
    BY <2>4, LeaveByGoes DEF Locks!Next
  <2>5. CASE LockAll(c)
    BY <2>5, LockAllEnters DEF Locks!Next
  <2>6. CASE UnlockAll(c)
    BY <2>6, UnlockAllGoes DEF Locks!Next
  <2>7. QED
    BY <1>2, <2>1, <2>2, <2>3, <2>4, <2>5, <2>6 DEF Step
<1>3. UNCHANGED vars => UNCHANGED <<places, asked>>
  BY DEF vars, places, asked
<1>4. CASE Next
  <2>1. PICK c \in Callers : Call(c) \/ Step(c)
    BY <1>4 DEF Next
  <2>2. QED
    BY <2>1, <1>1, <1>2
<1>5. QED
  BY <1>3, <1>4

(* The set of locks implements what its documentation promises: every step *)
(* of it is one of RecordLocks or changes nothing RecordLocks can see.     *)
THEOREM Refinement == Spec => ImplementsRecordLocks
<1>1. Init => Locks!Init
  BY DEF Init, Locks!Init, Place
<1>2. LockInv /\ [Next]_vars => [Locks!Next]_(Locks!vars)
  BY StepImplements DEF Locks!vars, places, asked
<1>3. QED
  BY <1>1, <1>2, Invariance, PTL DEF Spec, ImplementsRecordLocks, Locks!Spec

-----------------------------------------------------------------------------
(***************************************************************************)
(* No deadlock.  The parts of WaitInv are kept by every step that takes    *)
(* and gives no key; the four that do come one by one.                     *)
(***************************************************************************)
ParkedInv == blocked # {} => writer # None
OrderInv  == \A c \in Callers : \A h \in held[c], k \in todo[c] : h < k
OwnedInv  == \A c \in Callers, k \in Keys :
               keys[k] # None /\ owner[keys[k]] = c => k \in Locked(c)

LEMMA WaitParts == WaitInv <=> ParkedInv /\ OrderInv /\ OwnedInv
  BY DEF WaitInv, ParkedInv, OrderInv, OwnedInv

LEMMA FirstIsLeast ==
  ASSUME NEW S \in SUBSET Keys, S # {}
  PROVE  First(S) \in S /\ \A k \in S : First(S) <= k
  BY KeysAssumption DEF First

LEMMA LocksAloneWait ==
  ASSUME LockInv, OwnedInv, UNCHANGED <<held, keys, owner>>,
         \A c \in Callers : pc'[c] = "drop" <=> pc[c] = "drop"
  PROVE  OwnedInv'
<1>1. \A c \in Callers : Locked(c)' = Locked(c)
  BY DEF Locked
<1>2. QED
  BY <1>1 DEF OwnedInv

LEMMA DoorKeepsWait ==
  ASSUME LockInv, WaitInv, NEW c \in Callers,
         \/ \E S \in SUBSET Keys : CallBy(c, S)
         \/ CallAll(c) \/ RLock(c) \/ ReturnBy(c) \/ LeaveBy(c)
         \/ Announce(c) \/ LockAll(c) \/ UnlockAll(c) \/ UNCHANGED vars
  PROVE  WaitInv'
<1>1. ParkedInv /\ OrderInv /\ OwnedInv
  BY WaitParts
<1>2. UNCHANGED <<held, keys, owner>>
  BY DEF CallBy, CallAll, RLock, ReturnBy, LeaveBy, Announce, LockAll, UnlockAll,
         keyVars, vars
<1>3. ParkedInv'
  BY <1>1, LockAssumption DEF ParkedInv, CallBy, CallAll, RLock, ReturnBy, LeaveBy,
     Announce, LockAll, UnlockAll, rwVars, vars, LockInv, TypeOK
<1>4. OrderInv'
  <2>1. CASE \E S \in SUBSET Keys : CallBy(c, S)
    <3>1. held[c] = {} /\ \A d \in Callers \ {c} : todo'[d] = todo[d]
      BY <2>1 DEF CallBy, LockInv, TypeOK, ListInv, BySteps
    <3>2. QED
      BY <3>1, <1>1, <1>2 DEF OrderInv
  <2>2. CASE ~ \E S \in SUBSET Keys : CallBy(c, S)
    <3>1. UNCHANGED todo
      BY <2>2 DEF CallAll, RLock, ReturnBy, LeaveBy, Announce, LockAll, UnlockAll, vars
    <3>2. QED
      BY <3>1, <1>1, <1>2 DEF OrderInv
  <2>3. QED
    BY <2>1, <2>2
<1>5. \A d \in Callers : pc'[d] = "drop" <=> pc[d] = "drop"
  BY DEF CallBy, CallAll, RLock, ReturnBy, LeaveBy, Announce, LockAll, UnlockAll, Goto,
         vars, LockInv, TypeOK, DoorInv
<1>6. OwnedInv'
  BY <1>1, <1>2, <1>5, LocksAloneWait
<1>7. QED
  BY <1>3, <1>4, <1>6, WaitParts DEF WaitInv, ParkedInv, OrderInv, OwnedInv

(* A lock just made is nobody's.                                           *)
LEMMA RegisterKeepsWait ==
  ASSUME LockInv, WaitInv, NEW c \in Callers, Register(c)
  PROVE  WaitInv'
<1>1. PICK k \in Keys, m \in Mutexes :
        /\ pc[c] = "take"
        /\ IF keys[k] = None
             THEN /\ keys'  = [keys EXCEPT ![k] = m]
                  /\ owner' = [owner EXCEPT ![m] = None]
             ELSE UNCHANGED <<keys, owner>>
  BY EndsAreMembers DEF LockInv, TypeOK, Register
<1>2. UNCHANGED <<held, todo, blocked, writer>> /\ pc' = [pc EXCEPT ![c] = "wait"]
  BY DEF Register, rwVars, Goto
<1>3. \A d \in Callers : Locked(d)' = Locked(d)
  BY <1>1, <1>2 DEF Locked, LockInv, TypeOK
<1>4. OwnedInv'
  <2>1. ASSUME NEW d \in Callers, NEW j \in Keys, keys'[j] # None, owner'[keys'[j]] = d
        PROVE  keys[j] # None /\ owner[keys[j]] = d
    BY <2>1, <1>1, LockAssumption DEF LockInv, TypeOK
  <2>2. QED
    BY <2>1, <1>3 DEF OwnedInv, WaitInv
<1>5. QED
  BY <1>2, <1>4 DEF WaitInv, OwnedInv

(* The key taken is the first of those left, and so after all it has.      *)
LEMMA LockKeyKeepsWait ==
  ASSUME LockInv, WaitInv, NEW c \in Callers, LockKey(c)
  PROVE  WaitInv'
<1>1. PICK k \in Keys : k = First(todo[c]) /\ k \in todo[c] /\ \A j \in todo[c] : k <= j
  BY FirstIsLeast DEF LockInv, TypeOK, LockKey, ListInv
<1>2. pc[c] = "wait"
  BY DEF LockKey
<1>3. PICK m \in Mutexes : m = ref[c][k] /\ m = keys[k]
  BY <1>1, <1>2, PointersAreKeys DEF Registered
<1>4. /\ owner' = [owner EXCEPT ![m] = c]
      /\ held'  = [held EXCEPT ![c] = @ \cup {k}]
      /\ todo'  = [todo EXCEPT ![c] = @ \ {k}]
      /\ pc'    = [pc EXCEPT ![c] = "take"]
      /\ UNCHANGED <<keys, blocked, writer>>
  BY <1>1, <1>3 DEF LockKey, Goto, rwVars
<1>5. OrderInv'
  <2>1. ASSUME NEW d \in Callers, NEW h \in held'[d], NEW j \in todo'[d]
        PROVE  h < j
    <3>1. j \in todo[d] /\ (d = c => j # k)
      BY <1>4 DEF LockInv, TypeOK
    <3>2. CASE h \in held[d]
      BY <3>1, <3>2 DEF WaitInv
    <3>3. CASE d = c /\ h = k
      <4>1. j \in todo[c] /\ j # k /\ k <= j
        BY <3>1, <3>3, <1>1
      <4>2. k \in Nat /\ j \in Nat
        BY <4>1, <1>1, KeysAssumption DEF LockInv, TypeOK
      <4>3. QED
        BY <4>1, <4>2, <3>3
    <3>4. QED
      BY <3>2, <3>3, <1>4 DEF LockInv, TypeOK
  <2>2. QED
    BY <2>1 DEF OrderInv
<1>6. OwnedInv'
  <2>1. ASSUME NEW d \in Callers, NEW j \in Keys, keys[j] # None, owner'[keys[j]] = d
        PROVE  j \in Locked(d)'
    <3>1. CASE keys[j] = m
      <4>1. j = k
        BY <3>1, <1>3, LockAssumption DEF LockInv, CountInv
      <4>2. d = c
        BY <3>1, <2>1, <1>4 DEF LockInv, TypeOK
      <4>3. QED
        BY <4>1, <4>2, <1>4 DEF Locked, LockInv, TypeOK
    <3>2. CASE keys[j] # m
      <4>1. j \in Locked(d)
        BY <3>2, <2>1, <1>4 DEF WaitInv, LockInv, TypeOK
      <4>2. QED
        BY <4>1, <1>2, <1>4 DEF Locked, LockInv, TypeOK
    <3>3. QED
      BY <3>1, <3>2
  <2>2. QED
    BY <2>1, <1>4 DEF OwnedInv
<1>7. QED
  BY <1>4, <1>5, <1>6 DEF WaitInv, OrderInv, OwnedInv

LEMMA UnlockKeyKeepsWait ==
  ASSUME LockInv, WaitInv, NEW c \in Callers, UnlockKey(c)
  PROVE  WaitInv'
<1>1. PICK k \in Keys : k = Last(held[c]) /\ k \in held[c]
  BY EndsAreMembers DEF LockInv, TypeOK, UnlockKey
<1>2. pc[c] \in {"in", "unlock"}
  BY DEF UnlockKey
<1>3. PICK m \in Mutexes : m = ref[c][k] /\ m = keys[k]
  BY <1>1, PointersAreKeys DEF Registered
<1>4. /\ owner' = [owner EXCEPT ![m] = None]
      /\ pc'    = [pc EXCEPT ![c] = "drop"]
      /\ UNCHANGED <<held, todo, keys, blocked, writer>>
  BY <1>1, <1>3 DEF UnlockKey, Goto, rwVars
<1>5. OwnedInv'
  <2>1. ASSUME NEW d \in Callers, NEW j \in Keys, keys[j] # None, owner'[keys[j]] = d
        PROVE  j \in Locked(d)'
    <3>1. keys[j] # m /\ owner[keys[j]] = d
      BY <2>1, <1>4, LockAssumption DEF LockInv, TypeOK
    <3>2. j \in Locked(d)
      BY <2>1, <3>1 DEF WaitInv
    <3>3. d = c => j # k
      BY <3>1, <1>3
    <3>4. QED
      BY <3>2, <3>3, <1>1, <1>2, <1>4 DEF Locked, LockInv, TypeOK
  <2>2. QED
    BY <2>1, <1>4 DEF OwnedInv
<1>6. QED
  BY <1>4, <1>5 DEF WaitInv, OwnedInv

LEMMA DropKeyKeepsWait ==
  ASSUME LockInv, WaitInv, NEW c \in Callers, DropKey(c)
  PROVE  WaitInv'
<1>1. PICK k \in Keys : k = Last(held[c]) /\ k \in held[c]
  BY EndsAreMembers DEF LockInv, TypeOK, DropKey, ListInv
<1>2. /\ pc[c] = "drop"
      /\ held' = [held EXCEPT ![c] = @ \ {k}]
      /\ pc'   = [pc EXCEPT ![c] = "unlock"]
      /\ \A j \in Keys : keys'[j] # None => keys'[j] = keys[j]
      /\ UNCHANGED <<todo, owner, blocked, writer>>
  BY <1>1 DEF DropKey, Goto, rwVars, LockInv, TypeOK
<1>3. \A d \in Callers : Locked(d)' = Locked(d)
  BY <1>1, <1>2 DEF Locked, LockInv, TypeOK
<1>4. OwnedInv'
  BY <1>2, <1>3 DEF OwnedInv, WaitInv
<1>5. OrderInv'
  BY <1>2 DEF OrderInv, WaitInv, LockInv, TypeOK
<1>6. QED
  BY <1>2, <1>4, <1>5 DEF WaitInv, OrderInv, OwnedInv

LEMMA StepKeepsWait ==
  ASSUME LockInv, WaitInv, [Next]_vars
  PROVE  WaitInv'
<1>1. ASSUME NEW c \in Callers, Call(c) PROVE WaitInv'
  BY <1>1, DoorKeepsWait DEF Call
<1>2. ASSUME NEW c \in Callers, Step(c) PROVE WaitInv'
  BY <1>2, DoorKeepsWait, RegisterKeepsWait, LockKeyKeepsWait, UnlockKeyKeepsWait,
     DropKeyKeepsWait DEF Step
<1>3. CASE UNCHANGED vars
  BY <1>3 DEF WaitInv, Locked, vars, keyVars, rwVars
<1>4. QED
  BY <1>1, <1>2, <1>3 DEF Next

(* A caller that waits for a key, and cannot have it, waits for one that   *)
(* holds it and itself waits for a later: the last key waited for is free. *)
LEMMA LastWaiterGoesOn ==
  ASSUME LockInv, WaitInv, readers # {}, \A c \in readers : pc[c] = "wait"
  PROVE  \E c \in Callers : CanGoOn(c)
<1> DEFINE Awaited == {First(todo[c]) : c \in readers}
<1>1. readers \subseteq Callers /\ \A c \in readers : todo[c] \in SUBSET Keys /\ todo[c] # {}
  BY DEF LockInv, TypeOK, ListInv
<1>2. \A c \in readers : First(todo[c]) \in todo[c] /\ First(todo[c]) \in Keys
  BY <1>1, FirstIsLeast
<1>3. Awaited \in SUBSET Keys /\ Awaited # {}
  BY <1>2
<1>4. PICK c \in readers : \A d \in readers : First(todo[d]) <= First(todo[c])
  <2>1. PICK k \in Awaited : \A j \in Awaited : j <= k
    BY <1>3, KeysAssumption
  <2>2. QED
    BY <2>1
<1>5. PICK k \in Keys : k = First(todo[c]) /\ k \in todo[c]
  BY <1>2
<1>6. ref[c][k] = keys[k] /\ keys[k] \in Mutexes /\ keys[k] # None
  BY <1>1, <1>5, PointersAreKeys, LockAssumption DEF Registered
<1>7. owner[keys[k]] = None
  <2>1. SUFFICES ASSUME NEW d \in Callers, owner[keys[k]] = d PROVE FALSE
    BY <1>6 DEF LockInv, TypeOK
  <2>2. k \in held[d]
    BY <2>1, <1>6 DEF WaitInv, Locked
  <2>3. d \in readers
    BY <2>2 DEF LockInv, ListInv, DoorInv
  <2>4. k < First(todo[d])
    BY <2>2, <2>3, <1>2 DEF WaitInv
  <2>5. First(todo[d]) <= k /\ First(todo[d]) \in Nat /\ k \in Nat
    BY <2>3, <1>2, <1>4, <1>5, KeysAssumption
  <2>6. QED
    BY <2>4, <2>5
<1>8. CanGoOn(c)
  BY <1>1, <1>5, <1>6, <1>7 DEF CanGoOn
<1>9. QED
  BY <1>1, <1>8

(* There is memory for the lock of a key that has none.                    *)
LEMMA RoomForOne ==
  ASSUME LockInv, NEW k \in Keys, keys[k] = None
  PROVE  \E m \in Mutexes : Fresh(m)
<1>1. PICK m \in Mutexes : \A j \in Keys : keys[j] # m
  BY RoomAssumption DEF LockInv, TypeOK
<1>2. \A c \in Callers, j \in Keys : ref[c][j] # m
  BY <1>1, LockAssumption DEF LockInv, RefInv
<1>3. QED
  BY <1>1, <1>2 DEF Fresh

LEMMA ReadersGoOn ==
  ASSUME LockInv, WaitInv, readers # {}
  PROVE  \E c \in Callers : CanGoOn(c)
<1>1. CASE \A c \in readers : pc[c] = "wait"
  BY <1>1, LastWaiterGoesOn
<1>2. CASE \E c \in readers : pc[c] # "wait"
  <2>1. PICK c \in Callers : c \in readers /\ pc[c] \in BySteps \ {"wait"}
    BY <1>2 DEF LockInv, TypeOK, DoorInv
  <2>2. todo[c] # {} => First(todo[c]) \in Keys
    BY EndsAreMembers DEF LockInv, TypeOK
  <2>3. CanGoOn(c)
    BY <2>1, <2>2, RoomForOne DEF CanGoOn, BySteps
  <2>4. QED
    BY <2>3
<1>3. QED
  BY <1>1, <1>2

(* Who does not read waits for the writer, if at all, and the writer waits *)
(* for the readers.                                                        *)
LEMMA NoDeadlockHolds ==
  ASSUME LockInv, WaitInv
  PROVE  NoDeadlock
<1>1. SUFFICES ASSUME NEW c \in Callers, pc[c] # "idle"
               PROVE  \E d \in Callers : CanGoOn(d)
  BY DEF NoDeadlock
<1>2. CASE readers # {}
  BY <1>2, ReadersGoOn
<1>3. CASE readers = {} /\ writer # None
  <2>1. writer \in Callers /\ pc[writer] \in {"drain", "all"}
    BY <1>3, LockAssumption DEF LockInv, TypeOK, DoorInv
  <2>2. CanGoOn(writer)
    BY <2>1, <1>3 DEF CanGoOn
  <2>3. QED
    BY <2>1, <2>2
<1>4. CASE readers = {} /\ writer = None
  <2>1. pc[c] \in {"call", "queue"}
    BY <1>1, <1>4, LockAssumption DEF LockInv, TypeOK, DoorInv, WaitInv, Steps, BySteps
  <2>2. CanGoOn(c)
    BY <2>1, <1>4 DEF CanGoOn
  <2>3. QED
    BY <2>2
<1>5. QED
  BY <1>2, <1>3, <1>4

(* However many callers there are and whatever records they name, they     *)
(* never all wait on each other: while one is under way, one can go on.    *)
THEOREM DeadlockFree == Spec => []NoDeadlock
<1>1. Init => WaitInv
  BY LockAssumption DEF Init, WaitInv
<1>2. LockInv /\ WaitInv /\ [Next]_vars => WaitInv'
  BY StepKeepsWait
<1>3. LockInv /\ WaitInv => NoDeadlock
  BY NoDeadlockHolds
<1>4. QED
  BY <1>1, <1>2, <1>3, Invariance, PTL DEF Spec
=============================================================================
