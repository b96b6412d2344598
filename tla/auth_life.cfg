CONSTANTS
  Service = {s1}
  Key = {k1}
  Challenge = {c1}
  Token = {t1}
  Request = {r1}
  ChallengeTTL = 1
  TokenTTL = 2
  MaxTime = 4
  MaxGen = 1
  DbFails = TRUE
  None = None
SPECIFICATION FairSpec
INVARIANTS GrantLapseBounded
PROPERTIES TokenLivesOutItsTTL ExpiredSwept
