CONSTANTS
  Client = {k1, k2}
  Worker = {w1, w2}
  MaxBacklog = 2
  NULL = NULL
SPECIFICATION FairSpec
INVARIANTS PoolIsIdle ServedByOne AnswerIsToLast
PROPERTIES ClosesOnlyDead Accepted ResetIsSeen
