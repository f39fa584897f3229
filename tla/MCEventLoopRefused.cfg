CONSTANTS
  Co = {c1, c2}
  Main = Main
  NULL = NULL
  Fd = {f1, f2}
  NoEpoll = {f2}
  Timeout = {1}
  eMaxTimeout = 2
  iItemSize = 4
  EpollSize = 1
  MaxLag = 1
  ClockSteps = TRUE
  PollsRefused = TRUE
  Signallers = {}
  Interrupt = FALSE
  Exclusive = TRUE
SPECIFICATION Spec
INVARIANT EntriesOwned
