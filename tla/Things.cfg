SPECIFICATION MCSpec
CONSTANTS
  q1 = q1
  q2 = q2
  ann = ann
  bob = bob
  eve = eve
  w1 = w1
  p1 = p1
  m1 = m1
  m2 = m2
  f1 = f1
  f2 = f2
  Outsider = Outsider
  None = None
  Requests = {q1, q2}
  Users = {ann, bob, eve}
  Board = {ann, bob}
  Deletable = {ann, bob, eve}
  Workers = {w1}
  Points = {p1}
  Meters = {m1, m2}
  Years = {2024, 2025, 2026}
  Values = {0, 1, 2, 3}
  Initials = {1}
  Fitters = {f1, f2}
  Items = {p1}
  Categories = {p1}
  Loans = {m1, m2}
  Totals = {1, 2}
  Clerks = {f1, f2}
  Parcels = {p1}
  Packages = {p1}
  Amounts = {0, 1}
  Persons = {p1}
  Agents = {f1, f2}
INVARIANTS FourEyes TwoApprovalsDecide
INVARIANTS ReadingsGrow OneActiveMeter BillsFitTogether LentWithinStock RowsAreWhole
PROPERTIES DecisionsStay ApprovalsStay
SYMMETRY ThingSymmetry
CHECK_DEADLOCK FALSE
