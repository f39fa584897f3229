CONSTANTS
  Co = {c1, c2, c3}
  Main = Main
  NULL = NULL
  Fd = {f1}
  NoEpoll = {}
  Timeout = {0, 1, 3}
  eMaxTimeout = 2
  iItemSize = 4
  EpollSize = 1
  MaxLag = 1
  ClockSteps = FALSE
  PollsRefused = FALSE
  Signallers = {Main}
  Interrupt = TRUE
  Exclusive = TRUE
SPECIFICATION FairSpec
INVARIANTS PollWatches
PROPERTIES PollReturns TimedWaitReturns ListsKept
