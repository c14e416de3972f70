\* Two scans of up to three messages in batches of two, an incoming message,
\* two checks, two accounts.
CONSTANTS
  User = {u1, u2}
  NoUser = NoUser
  Scan = {s1, s2}
  Incoming = {m1}
  Watch = {w1}
  Restore = {r1, r2}
  BatchSize = 2
  Limit = 3
  Check = {c1, c2}
  MaxCurrent = 4
SPECIFICATION Spec
CHECK_DEADLOCK FALSE
INVARIANT StatusIsTrue
INVARIANT ScreenShowsLatest
INVARIANT ShownIsOwn
INVARIANT AnsweredIsListed
CONSTRAINT Apart
SYMMETRY Symmetry
PROPERTY FindingsStay
