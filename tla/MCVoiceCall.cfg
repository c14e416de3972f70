\* Two starts, a stop and one restart, two accounts, two fragments a stream.
CONSTANTS
  Stream = {s1, s2}
  Stop = {p1}
  Restart = {r1}
  User = {a, b}
  NoUser = NoUser
  NoStream = NoStream
  MaxFragments = 2
SPECIFICATION Spec
SYMMETRY Symmetry
CHECK_DEADLOCK FALSE
INVARIANT ActiveIsConnected
INVARIANT DismissedStaysQuiet
INVARIANT AlertsAreOwn
