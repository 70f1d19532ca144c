SPECIFICATION Spec
CONSTANTS
  Arrays = {a, c}
  Objects = {o1, o2, o3}
  NULL = NULL
  Wild = Wild
  Step = 1
  Large = 2
  MaxLen = 3
SYMMETRY Interchangeable
PROPERTY BoundsKept
PROPERTY OwnershipKept
PROPERTY OrderKept
