SPECIFICATION Spec
CONSTANTS
  s1 = s1
  s2 = s2
  Searches <- MCSearches
  Profiles <- MCAllProfiles
  MaxRetries = 3
  TimeoutMs = 6500
  RateLimitRPS = 2
  RedisTimeoutMs = 2000
  RedisMaxRetries = 1
  TickMs = 500
  MaxFaults = 2
SYMMETRY Symmetry
INVARIANTS
  TypeOK
  LateByOneCommand
  GrantsBounded
  RetriesFitTimeout
PROPERTIES
  RefusedOnlyAtLimit
  SearchesAdvance
