CONSTANTS
  N = 3
  Threads = 2
  Main = Main
  Ghost = Ghost
  None = None
SPECIFICATION FairSpec
INVARIANTS PoolAndLock ResultsAreOwn NothingIsLeftBehind
PROPERTIES FinishedIsKept NoAdmissionAfterCancel ReturnsUnlessLockIsLost
CHECK_DEADLOCK FALSE
