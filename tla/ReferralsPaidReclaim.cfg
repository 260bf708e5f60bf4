SPECIFICATION Spec
CONSTANTS
  Agents = {a1, a2}
  Phones = {p1}
  Requests = {r1}
  ExpiryDays = 1
  MaxDay = 5
  MaxSubmissions = 4
  MaxDeaths = 0
SYMMETRY Symmetry
INVARIANT FixedForeverOncePaid
CHECK_DEADLOCK FALSE
