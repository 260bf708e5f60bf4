SPECIFICATION Spec
CONSTANTS
  Agents = {a1}
  Phones = {p1}
  Requests = {r1, r2}
  ExpiryDays = 1
  MaxDay = 4
  MaxSubmissions = 3
  MaxDeaths = 1
SYMMETRY Symmetry
INVARIANT ClaimsOnlyExpired
INVARIANT PaidClaimedOnlyBehindUnpaid
INVARIANT SentMeansOneLead
INVARIANT PendingIsOwned
CHECK_DEADLOCK FALSE
