CONSTANTS
  Co = {c1, c2, c3}
  Main = Main
  NULL = NULL
  Fd = {f1, f2}
  NoEpoll = {}
  Timeout = {0, 1, 3}
  eMaxTimeout = 2
  iItemSize = 5
  EpollSize = 2
  MaxLag = 2
  ClockSteps = TRUE
  PollsRefused = FALSE
  Signallers = {c1, c2, c3, Main}
  Interrupt = TRUE
  Exclusive = FALSE
SPECIFICATION Spec
SYMMETRY Symmetry
INVARIANTS ResumesBlocked BlockedReachable EntriesOwned EventOrTimeout
