SPECIFICATION Spec
CONSTANTS
  NumWorkers = 2
  Clients = {c1}
  Owner = Owner
  NoThread = NoThread
  NoJob = NoJob
  Jobs <- ForkJobs
  Parent <- ForkParent
  ActiveInit <- Garbage
  Drained = TRUE
  c1 = c1
  a = a
  a1 = a1
  a2 = a2
  b = b
  b1 = b1
PROPERTY SaturatedRunsInline
