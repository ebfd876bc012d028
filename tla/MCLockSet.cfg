SPECIFICATION FairSpec
CONSTANTS
  Callers = {c1, c2, c3}
  Keys    = {1, 2}
  Mutexes = {m1, m2}
  None    = None
  Everything = {0}
INVARIANTS NoTwoInside MapIsWhatIsUsed NoDeadlock
PROPERTIES ImplementsRecordLocks EveryCallerGetsIn
