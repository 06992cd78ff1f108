SPECIFICATION Spec
CONSTANTS
  Outsider = Outsider
  None = None
  Requests = {p1}
  Users = {ann, bob, eve}
  Board = {ann, bob, eve}
  Deletable = {}
  Workers = {w1}
INVARIANT RequesterNeverApproves
CHECK_DEADLOCK FALSE
