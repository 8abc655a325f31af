CONSTANTS
  Sh = sh
  Child = {c1, c2, c3, c4}
  NFILE = 5
  NOFILE = 7
  NPIPE = 2
  PIPESIZE = 2
  UINT = 4
  MAXARGS = 3
  Lines <- SomeLines
  Runs <- SomeRuns
  Commands <- SomeCommands
  Inputs <- SomeInputs
  TriageInputs <- ShortInputs
  Parse <- parsecmd
  STAGES = 3
  Victims = {c3}
  MAXKILLS = 1
SPECIFICATION PipeSpec
CHECK_DEADLOCK FALSE
INVARIANT PipeHeld
INVARIANT ForegroundDone
INVARIANT ParsesTheGrammar
PROPERTY ImplementsStream
PROPERTY PromptsAgain
