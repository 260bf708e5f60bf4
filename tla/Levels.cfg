SPECIFICATION Spec
CONSTANTS
  a1 = a1
  a2 = a2
  d1 = d1
  d2 = d2
  d3 = d3
  Agents = {a1, a2}
  Deals = {d1, d2, d3}
  Owner <- OwnerOfThree
  Priced <- AllLevels
  BonusThreshold = 2
  FirstMonth = 2
  MaxMonth = 4
  MaxRuns = 2
  MaxEdits = 1
  HandLevels <- OneLevel
SYMMETRY SwapDeals
INVARIANT ClosedLevelsMatchContracts
INVARIANT CountedPartnersPriced
INVARIANT MainsPricedByClosedLevel
INVARIANT QuarterBonusSettled
CHECK_DEADLOCK FALSE
PROPERTY CorrectionsLostInRaceOnly
