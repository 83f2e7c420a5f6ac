\* The threads may all have returned from their functions.
SPECIFICATION FairSpec
CONSTANTS
  N = 2
  Handles = {h1, h2, h3, h4}
  NULL = NULL
INVARIANTS TypeOK OneOwner HandleIsForItsThread
PROPERTIES JoinComesBack
CHECK_DEADLOCK FALSE
