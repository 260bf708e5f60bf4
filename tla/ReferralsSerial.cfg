SPECIFICATION FairSpec
CONSTANTS
  Agents = {a1, a2}
  Phones = {p1}
  Requests = {r1}
  ExpiryDays = 1
  MaxDay = 4
  MaxSubmissions = 3
  MaxDeaths = 1
INVARIANT OneFixation
PROPERTY DeliverySettles
PROPERTY ImplementsFixation
CHECK_DEADLOCK FALSE
