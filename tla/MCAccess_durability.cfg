SPECIFICATION Spec
CONSTANTS
  t1 = t1 t2 = t2 k1 = k1 k2 = k2 d1 = d1 d2 = d2 d3 = d3
  i1 = i1 i2 = i2 c1 = c1 c2 = c2 h1 = h1 h2 = h2
  None = None
  Trusts = {t1, t2}
  Keys = {k1, k2}
  Digests = {d1, d2}
  Invites = {i1, i2}
  Clients = {c1, c2}
  Handlers = {h1, h2}
  MaxCredentials = 2
  MaxInvitations = 2
  MaxAuthorizerInvites = 1
  MaxSessions = 2
  MaxTrustSessions = 1
  InvitationLifetime = 2
  ReservationLifetime = 1
  FreshLifetime = 1
  Lifetimes = {2}
  MaxClock = 2
  MaxStarts = 2
  MaxFailures = 1
INVARIANTS TypeOK ValidationNeverRefuses RetiredStaysRetired InvitationsAreSingleUse
PROPERTIES FinalTrustRemains
SYMMETRY Symmetry
CHECK_DEADLOCK FALSE
