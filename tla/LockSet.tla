------------------------------ MODULE LockSet ------------------------------
(***************************************************************************)
(* go-kt lock.Set, the locks the tools of abs-mcp hold from the read of a  *)
(* record to its write: one RWMutex (By reads it, All writes it), a map    *)
(* from the key of a record to its lock, and a count on each lock of who   *)
(* holds or waits for it, so the map forgets a lock nobody needs.          *)
(*                                                                         *)
(* Every step of the code another goroutine can see is an action.  The     *)
(* sections under Set.mu are straight-line code around the map and the     *)
(* count, so each is one action.                                           *)
(***************************************************************************)
EXTENDS Naturals, FiniteSets

CONSTANTS
  Callers,      (* the goroutines that call By and All                     *)
  Keys,         (* the keys of records; numbers, for the order of By       *)
  Mutexes,      (* the keyLock objects memory has room for                 *)
  None,         (* a nil pointer                                           *)
  Everything    (* what RecordLocks calls the request of All               *)

ASSUME LockAssumption ==
  /\ IsFiniteSet(Callers)
  /\ None \notin Callers
  /\ None \notin Mutexes
  /\ Everything \notin SUBSET Keys

(* Keys are finitely many and in a line: some of them have a first and a   *)
(* last.                                                                   *)
ASSUME KeysAssumption ==
  /\ Keys \subseteq Nat
  /\ \A S \in SUBSET Keys :
       S # {} => /\ \E k \in S : \A j \in S : k <= j
                 /\ \E k \in S : \A j \in S : j <= k

(* However many of the keys have a lock, memory has room for another's.    *)
ASSUME RoomAssumption ==
  \A made \in [Keys -> Mutexes \cup {None}] : \A k \in Keys :
    made[k] = None => \E m \in Mutexes : \A j \in Keys : made[j] # m

VARIABLES
  pc,           (* the step each caller is at                              *)
  things,       (* what it named: a set of keys                            *)
  todo,         (* the keys of By not locked yet                           *)
  held,         (* the keys of By locked and not dropped yet               *)
  ref,          (* the keyLock it holds a pointer to, by key               *)
  keys,         (* Set.keys: the map from a key to its keyLock             *)
  holders,      (* keyLock.holders                                         *)
  owner,        (* who has keyLock.Mutex                                   *)
  readers,      (* who has Set.all read-locked                             *)
  blocked,      (* who is parked in RLock behind a writer                  *)
  writer        (* who has Set.all locked, or has announced it will        *)

keyVars  == <<ref, keys, holders, owner>>
rwVars   == <<readers, blocked, writer>>
vars     == <<pc, things, todo, held, keyVars, rwVars>>

BySteps  == {"take", "wait", "in", "drop", "unlock"}
Steps    == BySteps \cup {"idle", "call", "blocked", "queue", "drain", "all"}

TypeOK ==
  /\ pc      \in [Callers -> Steps]
  /\ things  \in [Callers -> SUBSET Keys]
  /\ todo    \in [Callers -> SUBSET Keys]
  /\ held    \in [Callers -> SUBSET Keys]
  /\ ref     \in [Callers -> [Keys -> Mutexes \cup {None}]]
  /\ keys    \in [Keys -> Mutexes \cup {None}]
  /\ holders \in [Mutexes -> Nat]
  /\ owner   \in [Mutexes -> Callers \cup {None}]
  /\ readers \subseteq Callers
  /\ blocked \subseteq Callers
  /\ writer  \in Callers \cup {None}

Init ==
  /\ pc      = [c \in Callers |-> "idle"]
  /\ things  = [c \in Callers |-> {}]
  /\ todo    = [c \in Callers |-> {}]
  /\ held    = [c \in Callers |-> {}]
  /\ ref     = [c \in Callers |-> [k \in Keys |-> None]]
  /\ keys    = [k \in Keys |-> None]
  /\ holders = [m \in Mutexes |-> 0]
  /\ owner   = [m \in Mutexes |-> None]
  /\ readers = {}
  /\ blocked = {}
  /\ writer  = None

Goto(c, step) == pc' = [pc EXCEPT ![c] = step]

(***************************************************************************)
(* By sorts the keys and drops repeats, then takes them first to last and  *)
(* gives them back last to first.                                          *)
(***************************************************************************)
First(S) == CHOOSE k \in S : \A j \in S : k <= j
Last(S)  == CHOOSE k \in S : \A j \in S : j <= k

(* A keyLock is fresh when nothing points to it: the map's old ones are    *)
(* collected once the last caller has let go of its pointer.               *)
Fresh(m) ==
  /\ \A k \in Keys : keys[k] # m
  /\ \A c \in Callers, k \in Keys : ref[c][k] # m

CallBy(c, S) ==
  /\ pc[c] = "idle"
  /\ things' = [things EXCEPT ![c] = S]
  /\ todo'   = [todo EXCEPT ![c] = S]
  /\ Goto(c, "call")
  /\ UNCHANGED <<held, keyVars, rwVars>>

(* s.all.RLock(): a reader goes straight in unless a writer has announced  *)
(* itself, and is then parked until that writer unlocks.                   *)
RLock(c) ==
  /\ pc[c] = "call"
  /\ IF writer = None
       THEN /\ readers' = readers \cup {c}
            /\ Goto(c, "take")
            /\ UNCHANGED blocked
       ELSE /\ blocked' = blocked \cup {c}
            /\ Goto(c, "blocked")
            /\ UNCHANGED readers
  /\ UNCHANGED <<things, todo, held, keyVars, writer>>

(* The section under s.mu: find or make the key's lock, and count us in.   *)
Register(c) ==
  /\ pc[c] = "take"
  /\ todo[c] # {}
  /\ LET k == First(todo[c]) IN
       \E m \in Mutexes :
         /\ IF keys[k] = None
              THEN /\ Fresh(m)
                   /\ keys'    = [keys EXCEPT ![k] = m]
                   /\ holders' = [holders EXCEPT ![m] = 1]
                   /\ owner'   = [owner EXCEPT ![m] = None]
              ELSE /\ m = keys[k]
                   /\ holders' = [holders EXCEPT ![m] = @ + 1]
                   /\ UNCHANGED <<keys, owner>>
         /\ ref' = [ref EXCEPT ![c][k] = m]
  /\ Goto(c, "wait")
  /\ UNCHANGED <<things, todo, held, rwVars>>

(* k.Lock() *)
LockKey(c) ==
  /\ pc[c] = "wait"
  /\ LET k == First(todo[c])
         m == ref[c][k]
     IN  /\ owner[m] = None
         /\ owner' = [owner EXCEPT ![m] = c]
         /\ held'  = [held EXCEPT ![c] = @ \cup {k}]
         /\ todo'  = [todo EXCEPT ![c] = @ \ {k}]
  /\ Goto(c, "take")
  /\ UNCHANGED <<things, ref, keys, holders, rwVars>>

(* By returns its unlock: the caller is in.                                *)
ReturnBy(c) ==
  /\ pc[c] = "take"
  /\ todo[c] = {}
  /\ Goto(c, "in")
  /\ UNCHANGED <<things, todo, held, keyVars, rwVars>>

(* Mutant: a key is counted out, and its mutex never given back.           *)
UnlockNothing(c) ==
  /\ pc[c] \in {"in", "unlock"}
  /\ held[c] # {}
  /\ Goto(c, "drop")
  /\ UNCHANGED <<things, todo, held, keyVars, rwVars>>

(* The function By returned: k.Unlock() of the last key still held.        *)
UnlockKey(c) ==
  /\ pc[c] \in {"in", "unlock"}
  /\ held[c] # {}
  /\ owner' = [owner EXCEPT ![ref[c][Last(held[c])]] = None]
  /\ Goto(c, "drop")
  /\ UNCHANGED <<things, todo, held, ref, keys, holders, rwVars>>

(* Mutant: the lock is forgotten though others wait for it.                *)
DropKeyAlways(c) ==
  /\ pc[c] = "drop"
  /\ LET k == Last(held[c])
     IN  /\ holders' = [holders EXCEPT ![ref[c][k]] = @ - 1]
         /\ keys'    = [keys EXCEPT ![k] = None]
         /\ ref'     = [ref EXCEPT ![c][k] = None]
         /\ held'    = [held EXCEPT ![c] = @ \ {k}]
  /\ Goto(c, "unlock")
  /\ UNCHANGED <<things, todo, owner, rwVars>>

(* The section under s.mu that follows: count us out, forget the lock when *)
(* nobody is left.                                                         *)
DropKey(c) ==
  /\ pc[c] = "drop"
  /\ LET k == Last(held[c])
         m == ref[c][k]
     IN  /\ holders' = [holders EXCEPT ![m] = @ - 1]
         /\ keys'    = IF holders[m] = 1 THEN [keys EXCEPT ![k] = None] ELSE keys
         /\ ref'     = [ref EXCEPT ![c][k] = None]
         /\ held'    = [held EXCEPT ![c] = @ \ {k}]
  /\ Goto(c, "unlock")
  /\ UNCHANGED <<things, todo, owner, rwVars>>

(* Mutant: the key's lock is given back, the read lock is not.             *)
LeaveByReading(c) ==
  /\ pc[c] \in {"in", "unlock"}
  /\ held[c] = {}
  /\ things'  = [things EXCEPT ![c] = {}]
  /\ Goto(c, "idle")
  /\ UNCHANGED <<todo, held, keyVars, rwVars>>

(* s.all.RUnlock() *)
LeaveBy(c) ==
  /\ pc[c] \in {"in", "unlock"}
  /\ held[c] = {}
  /\ readers' = readers \ {c}
  /\ things'  = [things EXCEPT ![c] = {}]
  /\ Goto(c, "idle")
  /\ UNCHANGED <<todo, held, keyVars, blocked, writer>>

(* s.all.Lock(): writers queue on the RWMutex's own mutex,                 *)
CallAll(c) ==
  /\ pc[c] = "idle"
  /\ Goto(c, "queue")
  /\ UNCHANGED <<things, todo, held, keyVars, rwVars>>

(* the first of them announces itself, which parks the readers to come,    *)
Announce(c) ==
  /\ pc[c] = "queue"
  /\ writer = None
  /\ writer' = c
  /\ Goto(c, "drain")
  /\ UNCHANGED <<things, todo, held, keyVars, readers, blocked>>

(* Mutant: All does not wait for those inside.                             *)
LockAllAtOnce(c) ==
  /\ pc[c] = "drain"
  /\ Goto(c, "all")
  /\ UNCHANGED <<things, todo, held, keyVars, rwVars>>

(* and has the lock when the readers already inside have left.             *)
LockAll(c) ==
  /\ pc[c] = "drain"
  /\ readers = {}
  /\ Goto(c, "all")
  /\ UNCHANGED <<things, todo, held, keyVars, rwVars>>

(* s.all.Unlock() lets every parked reader in before the next writer.      *)
UnlockAll(c) ==
  /\ pc[c] = "all"
  /\ writer'  = None
  /\ readers' = readers \cup blocked
  /\ blocked' = {}
  /\ pc' = [d \in Callers |-> IF d = c THEN "idle"
                              ELSE IF d \in blocked THEN "take"
                              ELSE pc[d]]
  /\ UNCHANGED <<things, todo, held, keyVars>>

-----------------------------------------------------------------------------
Step(c) ==
  \/ RLock(c)
  \/ Register(c)
  \/ LockKey(c)
  \/ ReturnBy(c)
  \/ UnlockKey(c)
  \/ DropKey(c)
  \/ LeaveBy(c)
  \/ Announce(c)
  \/ LockAll(c)
  \/ UnlockAll(c)

Call(c) ==
  \/ \E S \in SUBSET Keys : CallBy(c, S)
  \/ CallAll(c)

Next == \E c \in Callers : Call(c) \/ Step(c)

Spec == Init /\ [][Next]_vars

(***************************************************************************)
(* A goroutine that can run does (weak fairness).  sync.Mutex hands itself *)
(* to a waiter that has waited too long, so nobody who finds it free again *)
(* and again is passed over for ever (strong fairness on LockKey, and on   *)
(* Announce, which is the mutex the writers queue on).  Nobody has to call.*)
(***************************************************************************)
Fairness ==
  \A c \in Callers :
    /\ WF_vars(Step(c))
    /\ SF_vars(LockKey(c))
    /\ SF_vars(Announce(c))

FairSpec == Spec /\ Fairness

-----------------------------------------------------------------------------
(* LockSet seen as RecordLocks: in from the return of By or All until the  *)
(* first unlock, on the way in before, on the way out after.               *)
Place(step) ==
  CASE step = "idle"                 -> "out"
    [] step \in {"in", "all"}        -> "in"
    [] step \in {"drop", "unlock"}   -> "leaving"
    [] OTHER                         -> "asked"

Locks == INSTANCE RecordLocks WITH
  place <- [c \in Callers |-> Place(pc[c])],
  asks  <- [c \in Callers |-> IF pc[c] \in {"queue", "drain", "all"}
                                THEN Everything
                                ELSE things[c]]

(* The set of locks keeps what RecordLocks promises: step for step, a      *)
(* caller is let in only when nobody inside conflicts with what it named   *)
(* (lock.go: "All waits for every other lock to go, and none is granted    *)
(* until it is unlocked").                                                 *)
ImplementsRecordLocks == Locks!Spec

(* While one caller has a record, no other conflicts: the two-level lock   *)
(* (RWMutex, then one mutex per key, forgotten and made anew) never lets   *)
(* two edits of a record overlap.                                          *)
NoTwoInside == Locks!Exclusion

(* Callers with overlapping records never wait on each other for ever, an  *)
(* All is not starved by the By calls, nor a By by the All calls.          *)
EveryCallerGetsIn == Locks!EveryoneGetsIn

(* A lock is in the map exactly while someone holds it or waits for it,    *)
(* and its count says how many (set.go: "A lock is kept only while held or *)
(* waited for").  Nobody is left with a pointer to a lock the map forgot,  *)
(* which the next caller for the key would not see.                        *)
Users(k) == {c \in Callers : ref[c][k] # None}

MapIsWhatIsUsed ==
  \A k \in Keys :
    /\ keys[k] = None => Users(k) = {}
    /\ keys[k] # None => /\ \A c \in Users(k) : ref[c][k] = keys[k]
                         /\ Users(k) # {}
                         /\ holders[keys[k]] = Cardinality(Users(k))

(* However the calls overlap, those under way never all wait on each other:*)
(* while any is, some call can take its next step, or is in and can leave. *)
(* The keys are taken first to last (lock.go: "taken in one order so two   *)
(* callers cannot each hold what the other waits for"), a writer that      *)
(* waits for the readers parks only those to come, and every mutex taken   *)
(* is given back.                                                          *)
CanGoOn(c) ==
  /\ pc[c] \notin {"idle", "blocked"}
  /\ pc[c] = "take"  => \/ todo[c] = {}
                        \/ keys[First(todo[c])] # None
                        \/ \E m \in Mutexes : Fresh(m)
  /\ pc[c] = "wait"  => owner[ref[c][First(todo[c])]] = None
  /\ pc[c] = "queue" => writer = None
  /\ pc[c] = "drain" => readers = {}

NoDeadlock ==
  (\E c \in Callers : pc[c] # "idle") => \E c \in Callers : CanGoOn(c)
=============================================================================
