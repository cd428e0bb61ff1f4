CONSTANTS
  Conns = {c1, c2}
  MaxGen = 4
  MaxFailures = 2
  EarlyEof = FALSE
SPECIFICATION FairLeaseSpec
INVARIANTS OneChild AgentFenced NoChildUnderLease
PROPERTIES SomeAgentReturns OneOwner
CHECK_DEADLOCK FALSE
