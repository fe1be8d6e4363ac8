SPECIFICATION FairSpec
CONSTANTS
  Sessions = {s1,s2}
  Releasers = {r1}
  PowerCalls = {p1, p2}
  MaxGeneration = 2
CHECK_DEADLOCK FALSE
INVARIANTS
  HolderIsActive
  QuarantineExact
  ReservationIsWaiter
PROPERTIES
  ImplementsLease
  TakeoverResolves
  IdleAgentExpires
  DrainReleases
