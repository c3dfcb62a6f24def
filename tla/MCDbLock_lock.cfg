SPECIFICATION FairSpec
CONSTANTS
  c1 = c1
  c2 = c2
  c3 = c3
  NoCaller = NoCaller
  Callers <- ThreeCallers
  MaxCalls = 2
  MaxStmts = 2
  BeginFails = TRUE
PROPERTIES NoOvertaking ImplementsAtomic AnsweredUnlessLeaked
CHECK_DEADLOCK FALSE
