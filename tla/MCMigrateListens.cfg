\* One replica and one crash, against the promise to come up.
CONSTANTS
  Replica = {b1}
  Files = 3
  Idempotent = {2}
  MaxFaults = 1
SPECIFICATION FairSpec
CHECK_DEADLOCK FALSE
PROPERTY AppliesAndListens
