SPECIFICATION FairSpec
CONSTANTS
  Threads = {t1, t2, t3, t4}
  NoThread = NoThread
INVARIANT AssertionsHold
INVARIANT MutualExclusion
INVARIANT IdleUnlocked
INVARIANT Listening
PROPERTY ImplementsMonitor
PROPERTY Served
