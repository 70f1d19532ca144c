SPECIFICATION Spec
CONSTANTS
  a = a
  b = b
  p = p
  Addresses = {a, b}
  Clients = {p}
  names <- Tried
  Resolved <- Listened
  Conns <- Made
  Parent = parent
  Listeners = {l}
  ParentThreads = {t, u}
  Nobody = nobody
INVARIANT Isolated
INVARIANT OneSocket
INVARIANT OnceBuilt
PROPERTY Answered
CHECK_DEADLOCK FALSE
