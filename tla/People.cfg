SPECIFICATION MCSpec
CONSTANTS
  p1 = p1
  ann = ann
  bob = bob
  f1 = f1
  f2 = f2
  o1 = o1
  o2 = o2
  None = None
  Absent = Absent
  Parcels = {p1}
  Members = {ann, bob}
  Folders = {f1, f2}
  Officers = {o1, o2}
  MaxTurnovers = 2
  Invoices = {ann, bob}
  Clerks = {o1, o2}
  MaxMails = 2
  Sessions = {f1, f2}
  Households = {{ann, bob}}
  Limits = {1}
  Marks = {"REGISTERED", "NO_SHOW"}
  Tasks = {p1}
  Desks = {o1, o2}
  Roles = {p1}
  Sponsorships = {p1}
  Hours = {1, 2}
INVARIANTS FolderEndsWithTenancy RecordIsTrue TaskOnOwnSession StandingsComparable
PROPERTIES TenantsKeepTheirFolder MailedOnce SignupKeepsItsWord
SYMMETRY PeopleSymmetry
