SPECIFICATION Spec
CONSTANTS
  Arrays = {x, y}
  Values = {0, 1}
  First = 1
  Large = 3
  Wide = 2
  MaxMax = 3
PROPERTY ListKept
