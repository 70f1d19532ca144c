SPECIFICATION Spec
CONSTANTS
  Tables = {t1, t2}
  Keys = {k0, k1, k2, k3}
  Loner = k0
  Values = {v0, v1}
  Default = v0
  NoKey = NoKey
  Absent = Absent
  buckets = 2
  MaxElems = 4
  Hash <- Collide
SYMMETRY Interchangeable
INVARIANT LookupsAgree
INVARIANT WalkExact
PROPERTY ImplementsKeyMap
