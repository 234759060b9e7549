SPECIFICATION FairSpec
CONSTANTS
  Calls <- MCCalls
  Results <- MCResults
  Domain <- MCDomain
  Pdf <- MCPdf
  Disallowed <- MCDisallowed
  PoolSize = 2
  Gap = 2
INVARIANTS RobotsOnce RateKept AskedOnce
PROPERTIES FetchEnds
