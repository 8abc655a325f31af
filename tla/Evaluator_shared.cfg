\* Two evaluators and another program share the checkpoint slot.
CONSTANTS
  Text <- MCText
  Agent = {1, 2}
  Foreign = {3}
  Entry <- MCEntry
  MAX_RETRIES = 3
SPECIFICATION FairSpec
INVARIANT RollsBackToSafe
INVARIANT AcceptsOnlySafe
PROPERTY LineSettles
CHECK_DEADLOCK FALSE
