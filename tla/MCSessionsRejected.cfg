\* One registration and one refresh are enough for the counterexample.
CONSTANTS
  Request = {r1, r2}
  Phone = {p1}
  AdminPhone = {}
  Jti = {j1, j2}
  NoOne = NoOne
  NoToken = NoToken
SPECIFICATION Spec
CHECK_DEADLOCK FALSE
INVARIANT RejectedOnlyWhenGone
