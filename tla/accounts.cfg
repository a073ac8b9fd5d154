\* Two clients race for an address and for a project; sessions overflow the look-up.
CONSTANTS
  Client = {c1, c2}
  Email = {e1, e2}
  c1 = c1
  c2 = c2
  e1 = e1
  e2 = e2
  Uses <- TwoForOne
  Shares <- TwoTabs
  NULL = NULL
  Window = 1
  MaxSessions = 2
  MaxAccess = 2
  Project = {p1}
  acme = acme
  Org <- OneOrg
SPECIFICATION FairSpec
INVARIANTS TenancyTypeOK RegistrationIsKept RefreshStopsAtLogout ProjectHasAdmin CreatedIsMine
PROPERTIES LogoutTakesEffect ProjectsAnswered
CHECK_DEADLOCK FALSE
