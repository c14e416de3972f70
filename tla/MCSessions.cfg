\* Four requests, two phones of which one is an administrator's, three tokens.
CONSTANTS
  Request = {r1, r2, r3, r4}
  Phone = {p1, p2}
  AdminPhone = {p1}
  Jti = {j1, j2, j3}
  NoOne = NoOne
  NoToken = NoToken
SYMMETRY Symmetry
SPECIFICATION Spec
CHECK_DEADLOCK FALSE
INVARIANT OneRegistrationPerPhone
INVARIANT RotatedTokenIsDead
INVARIANT SessionsBelongToAccounts
INVARIANT ClaimedRoleIsHeld
PROPERTY NoReplay
PROPERTY ImplementsLedger
