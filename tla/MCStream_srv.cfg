SPECIFICATION FairSpec
CONSTANTS
  Half = 4
  Args <- Posts
  Proto = "srv"
  BufSize = 6
  Sizes = {3, 6, 12}
  Ars = 2
  MaxRaise = 2
INVARIANTS TypeOK HandledInOrder ArgsArrive
PROPERTY AllHandled
CHECK_DEADLOCK FALSE
