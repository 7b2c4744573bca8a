SPECIFICATION CeremonySpec
CONSTANTS
  t1 = t1 t2 = t2 k1 = k1 k2 = k2 d1 = d1 d2 = d2 d3 = d3
  i1 = i1 i2 = i2 i3 = i3 c1 = c1 c2 = c2 h1 = h1 h2 = h2
  None = None
  Trusts = {t1}
  Keys = {k1}
  Digests = {d1, d2}
  Invites = {i1, i2}
  Clients = {c1, c2}
  Handlers = {h1, h2}
  MaxCredentials = 2
  MaxInvitations = 3
  MaxAuthorizerInvites = 2
  MaxSessions = 2
  MaxTrustSessions = 1
  InvitationLifetime = 3
  ReservationLifetime = 2
  FreshLifetime = 1
  Lifetimes = {3}
  MaxClock = 2
  MaxStarts = 1
  MaxFailures = 0
  maxAttempts = 2
  maxSignInCeremonies = 1
  maxReauthCeremonies = 1
  maxTrustCeremonies = 1
  MaxBegins = 3
INVARIANTS
    CeremoniesAgree
    FinishesKeepTheirCeremony
    ChallengesAreSingleUse
PROPERTIES
    AttemptWindowsHold
SYMMETRY Symmetry
CHECK_DEADLOCK FALSE
