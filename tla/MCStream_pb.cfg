SPECIFICATION Spec
CONSTANTS
  Half = 4
  Args <- Two
  Proto = "pb"
  BufSize = 6
  Sizes = {3, 6, 12}
  Ars = 2
  MaxRaise = 0
INVARIANT HandledInOrder
CHECK_DEADLOCK FALSE
