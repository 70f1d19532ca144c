SPECIFICATION FairSpec
CONSTANTS
  NumWorkers = 2
  Clients = {c1}
  Owner = Owner
  NoThread = NoThread
  NoJob = NoJob
  Jobs <- ChainJobs
  Parent <- ChainParent
  ActiveInit <- Static
  Drained = TRUE
  c1 = c1
  a = a
  a1 = a1
  a2 = a2
  b = b
  b1 = b1
INVARIANT TypeOK
INVARIANT ActiveCount
INVARIANT NoLostWakeup
INVARIANT SaturationWitness
INVARIANT NotAllBlocked
PROPERTY SaturatedRunsInline
PROPERTY ImplementsJobService
PROPERTY JobsComplete
