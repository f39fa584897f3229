CONSTANTS
  Item = {t1, t2}
  iItemSize = 3
  IntHalf = 16
  Delay <- MCDelay
  MaxStall = 6
  MaxTime = 7
SPECIFICATION FairSpec
INVARIANTS TypeOK LinkInv SlotInv SweepCoversDue
PROPERTIES QueueSpec DueIsTaken
