SPECIFICATION FairSpec
CONSTANTS
  ann = ann
  bob = bob
  eve = eve
  s1 = s1
  s2 = s2
  People = {ann, bob, eve}
  Sends = {s1, s2}
  BatchSize = 2
  Overlapping = FALSE
INVARIANTS RosterMailedOnce StuckOnlyWhenCutOff SentReachedSomeone DeletionStopsTheSend
PROPERTY SendEnds
