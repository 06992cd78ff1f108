SPECIFICATION Spec
CONSTANTS
  None = None
  ann = ann
  bob = bob
  eve = eve
  g1 = g1
  g2 = g2
  i1 = i1
  i2 = i2
  w1 = w1
  w2 = w2
  Users = {ann, bob, eve}
  Groups = {g1, g2}
  Invitations = {i1, i2}
  Workers = {w1}
INVARIANTS AdminRemains OnePendingPerAddress
PROPERTIES JoiningUsesUpInvitations DeletionLosesNoMembership
SYMMETRY AccessSymmetry
