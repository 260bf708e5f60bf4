SPECIFICATION Spec
CONSTANTS
  Agents = {a1, a2, a3}
  Starting = {a1, a2}
  Registered = {a1, a2}
  NoAgent = NoAgent
  Phones = {p1, p2}
  NoPhone = NoPhone
  Clients = {c1}
  Handlers = {h1, h2}
  MaxApplications = 2
  MaxUpdates = 3
SYMMETRY Symmetry
INVARIANT TreeShowsDownline
INVARIANT PhoneOwnedOnce
INVARIANT InnFollowsFormat
PROPERTY UplineKept
CHECK_DEADLOCK FALSE
