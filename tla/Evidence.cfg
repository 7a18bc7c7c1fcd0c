SPECIFICATION Spec
CONSTANTS
  a = a
  b = b
  c = c
  h = h
  Checklets = {"change_scope", "test_adequacy"}
  PathReaders = {"change_scope"}
  TestReaders = {"test_adequacy"}
  Tasks = {a, b, c, h}
  GroupOf <- MCGroupOf
  Tampered = tampered
  Unseen = unseen
  MinDeterminate = 2
  MinDescriptive = 1
  Submissions <- MCSubmissions
  Profiles <- MCProfiles
  Replayed = {a}
  MaxRecords = 3
INVARIANTS  LowRiskIsWaived SealedStaysSealed FixturesDoNotUnblock ReplayVouches
PROPERTY AppendsAreAdmissible
