\* Two messages, checked in one batch or by two requests, and two reports.  Two
\* scam verdicts are over the maximum score, two reports are not.
CONSTANTS
  Check = {c1, c2}
  Feedback = {f1, f2}
  User = {u1, u2}
  Number = {n1}
  NoNumber = NoNumber
  NoRow = NoRow
  MaxItems = 2
  ScamIncrement = 4
  ReportStep = 3
  MaxRisk = 7
SYMMETRY Symmetry
SPECIFICATION Spec
CHECK_DEADLOCK FALSE
INVARIANT TypeOK
INVARIANT RaisesAreBacked
INVARIANT RiskIsEarned
INVARIANT ScamsAreCounted
INVARIANT ReportsByOwners
INVARIANT AnswersAreComplete
