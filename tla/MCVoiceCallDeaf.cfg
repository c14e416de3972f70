\* One start is enough for the microphone to come on after a sign-out.
CONSTANTS
  Stream = {s1}
  Stop = {p1}
  Restart = {r1}
  User = {a}
  NoUser = NoUser
  NoStream = NoStream
  MaxFragments = 1
SPECIFICATION Spec
CHECK_DEADLOCK FALSE
INVARIANT SignedOutIsDeaf
