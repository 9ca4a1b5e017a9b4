SPECIFICATION Spec
CONSTANTS
  a = a
  b = b
  s1 = s1
  s2 = s2
  Profiles = {a, b}
  Statuses = {s1, s2}
  Settable <- MCSettable
  Failing = {b}
  Unfit <- MCUnfit
INVARIANTS TypeOK RequestIsTold StatusIsCurrent
PROPERTY OnlyFriendsSee
CHECK_DEADLOCK FALSE
