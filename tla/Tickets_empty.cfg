SPECIFICATION Spec
CONSTANTS
  None = None
  t1 = t1
  t2 = t2
  t3 = t3
  ann = ann
  leak = leak
  w1 = w1
  w2 = w2
  Tickets = {t1, t2}
  Users = {ann}
  Topics = {leak}
  MaxUid = 2
  LastDay = 1
  Workers = {w1}
INVARIANT NewMailProcessed
SYMMETRY TicketSymmetry
