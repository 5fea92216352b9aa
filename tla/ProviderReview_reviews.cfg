SPECIFICATION Spec
CONSTANTS
  BatchBytes = 20
  MinChunk = 2
  Fixed = 10
  Slack = 4
  Frame = 1
  MaxText = 9
  s1 = s1
  s2 = s2
  Scans = {s1, s2}
  LastGate = {s1}
  Assignments <- MCAssignments
  Targets = {t1}
  Digests = {d1, d2}
  MaxMoves = 1
INVARIANT  NobodyElseUnloads NoProviderOutlivesItsReview
PROPERTY EveryReviewReturns
CHECK_DEADLOCK FALSE
