SPECIFICATION FairSpec
CONSTANTS
  Parts = {"accounts", "two_factor", "external_identity", "oauth_flow", "session", "startup", "migrations"}
  Root <- TheRoot
  Emails <- TheEmails
  Orgs = {"o1", "o2"}
  Invs = {"i1"}
  Given = {"member"}
  MaxCalls = 2
  MaxCrashes = 1
  Calls = {"c1", "c2"}
  Gateways = {"g1", "g2"}
  MaxSecrets = 2
  MaxTotpCalls = 6
  Reqs = {r1, r2}
  MaxRunOuts = 1
  MaxDbFaults = 1
  Flows = {1, 2}
  MaxLost = 2
  MaxDown = 1
  Me = Me
  MaxExpiries = 2
  MaxFaults = 3
  Runners = {u1, u2}
  Last = 3
  Split = {2}
  MaxStatements = 2
 
INVARIANT SignInSound
 
 
INVARIANT MigrationsSound
PROPERTY RevokedGivesNothing
 
\* Most components come to rest when everything asked of them is done.
CHECK_DEADLOCK FALSE
