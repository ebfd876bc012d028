SPECIFICATION FairSpec
CONSTANTS
  Tries = 3
  Kinds <- EveryKind
INVARIANTS TriesCounted
PROPERTIES ImplementsExchange EveryRequestEnds
CHECK_DEADLOCK FALSE
