CONSTANTS
  N = 2
  Threads = 2
  Main = Main
  Ghost = Ghost
  None = None
SPECIFICATION FairSpec
PROPERTIES BatchReturns
CHECK_DEADLOCK FALSE
