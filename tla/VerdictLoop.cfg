CONSTANTS
  Text <- MCText
  Number <- MCNumber
SPECIFICATION LoopSpec
INVARIANT VerdictIsSafety
INVARIANT ThreeCorrections
\* A proposal that was passed needs no further correction.
CHECK_DEADLOCK FALSE
