\* A call of the app and one of the isolate, two accounts, three token pairs.
CONSTANTS
  Call = {c1, b1}
  Background = {b1}
  Phone = {1, 2}
  Jti = {1, 2, 3}
  NoOne = NoOne
  NoToken = NoToken
  Faulty = TRUE
SPECIFICATION FairSpec
CHECK_DEADLOCK FALSE
INVARIANT SessionKept
INVARIANT OneAccount
PROPERTY LeavesHome
