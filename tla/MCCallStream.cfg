\* One stream, three fragments that fit a window of four runes or do not.
CONSTANTS
  Stream = {s1}
  User = {a}
  NoUser = NoUser
  Fragment = {1, 4}
  MaxFragments = 3
  MaxRunes = 4
  MaxLevel = 2
  Threshold = 2
SPECIFICATION Spec
CHECK_DEADLOCK FALSE
INVARIANT WindowHoldsLatest
INVARIANT SessionsAreWhole
INVARIANT AnswersAreOnFile
PROPERTY StreamsEnd
PROPERTY ImplementsPeer
