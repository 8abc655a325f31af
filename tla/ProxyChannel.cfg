CONSTANTS
  Sh = sh
  Agent = {a1, a2}
  Loud = {a2}
  INPUT_BUF_SIZE = 4
  LINE = 5
  OUT = 2
  Results <- SomeResults
  Keys <- SomeKeys
  CALLS = 2
  MAXKILLS = 1
SPECIFICATION Spec
CHECK_DEADLOCK FALSE
INVARIANT RequestsWhole
INVARIANT GenuineAnswer
PROPERTY Answered
