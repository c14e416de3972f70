\* Two calls of the app and a server and a network that never fail.
CONSTANTS
  Call = {c1, c2}
  Background = {}
  Phone = {1}
  Jti = {1, 2, 3}
  NoOne = NoOne
  NoToken = NoToken
  Faulty = FALSE
SPECIFICATION Spec
CHECK_DEADLOCK FALSE
PROPERTY EndsOnlyWhenGone
