\* Two replicas, the three files of the repository, two crashes.
CONSTANTS
  Replica = {b1, b2}
  Files = 3
  Idempotent = {2}
  MaxFaults = 2
SPECIFICATION FairSpec
CHECK_DEADLOCK FALSE
INVARIANT RecordedIsApplied
INVARIANT AppliedInOrder
INVARIANT ServingIsMigrated
PROPERTY ServesUnlessWedged
