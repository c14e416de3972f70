\* Three requests of a user or an administrator, two minutes of two ticks.
CONSTANTS
  Writing = {w1, w2}
  Reading = {q1}
  Request <- MCRequest
  Address = {a1}
  Limits = {0, 2}
  Minute = 2
  MaxTime = 2
  NoKey = NoKey
  Text <- MCText
  Rules = 3
  Score <- MCScore
  ScamThreshold = 240
  SuspiciousThreshold = 135
  Grain = 3
  User = {u1, adm}
  Admin = {adm}
  NoOne = NoOne
  NoText = NoText
  Day = 1
  DefaultDays = 1
  MaxDays = 1
  Threats = 1
  DefaultLimit = 1
  MaxLimit = 2
SYMMETRY Symmetry
ACTION_CONSTRAINT Apart
SPECIFICATION Spec
CHECK_DEADLOCK FALSE
INVARIANT CategoryIsForemost
INVARIANT WithinLimit
INVARIANT RefusedIsOverLimit
INVARIANT CountersEnd
INVARIANT ListIsCurrent
INVARIANT SummaryAgrees
INVARIANT OverviewAgrees
INVARIANT ScamRaisesAlert
