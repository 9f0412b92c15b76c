\* A search of three round trips with two calls each, and a repository three levels deep, two items each.
SPECIFICATION FairSkills
CONSTANTS
  maxAgentSteps = 3
  MaxCalls = 2
  Urls = {"u1", "u2"}
  NoUrl = ""
  maxSkillFiles = 3
  maxSkillDepth = 2
  MaxItems = 2
INVARIANTS TranscriptSound WalkWithinLimits
PROPERTIES CallsEnd
