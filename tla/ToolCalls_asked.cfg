SPECIFICATION FairSpec
CONSTANTS
  s1 = s1  s2 = s2  c1 = c1  c2 = c2  c3 = c3  key = key
  Callers <- ThreeCalls
  Maximum = 1
  Sessions <- TwoSessions
  OnChannel <- TheChannel
  SessionOf <- Session
  KeyOf <- Key
  Forced <- ForcedCalls
  Limited <- ThreeCalls
INVARIANTS TypeOK OperatorDecides RequestsAreAwaited
PROPERTIES KeepsSlots ServedInOrder DecisionIsFinal EveryCallReturns
