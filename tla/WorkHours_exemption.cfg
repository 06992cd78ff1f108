SPECIFICATION Spec
CONSTANTS
  None = None
  Members = {ann}
  Parcels = {p1}
  Roles = {board, treasurer}
  Sponsorships = {x1}
  Hours = {1}
INVARIANT ExemptionIsEvaluated
