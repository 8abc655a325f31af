\* Two slots, a file of three records, three queries.
CONSTANTS
  Agent = {a1, a2}
  Query <- ThreeQueries
  Words <- PromptWords
  Answers = 2
  NSLOT = 2
  MAXREC = 3
SPECIFICATION CacheSpec
SYMMETRY AgentSymmetry
INVARIANT GenuineHit
INVARIANT RamIsOnDisk
