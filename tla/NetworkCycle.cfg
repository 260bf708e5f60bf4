SPECIFICATION Spec
CONSTANTS
  Agents = {a1, a2}
  Starting = {a1, a2}
  Registered = {a1, a2}
  NoAgent = NoAgent
  Phones = {p1, p2}
  NoPhone = NoPhone
  Clients = {}
  Handlers = {h1}
  MaxApplications = 2
  MaxUpdates = 2
SYMMETRY Symmetry
INVARIANT DownlineEnds
CHECK_DEADLOCK FALSE
