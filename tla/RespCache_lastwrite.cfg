\* Two agents miss the same query; later a paraphrase of it is asked.
CONSTANTS
  Agent = {a1, a2}
  Query <- TwoQueries
  Words <- PromptWords
  Answers = 2
  NSLOT = 2
  MAXREC = 2
SPECIFICATION CacheSpec
SYMMETRY AgentSymmetry
INVARIANT LastWriteWins
