\* Two evaluators share the slot: one checkpoints between the other's commit and rollback.
CONSTANTS
  Text <- MCText
  Agent = {1, 2}
  Foreign = {}
  Entry <- MCEntry
  MAX_RETRIES = 3
SPECIFICATION Spec
INVARIANT RollsBackToLastAccepted
CHECK_DEADLOCK FALSE
