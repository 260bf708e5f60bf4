SPECIFICATION Spec
CONSTANTS
  Agents = {a1, a2}
  Owner = a1
  NoAgent = NoAgent
  Endpoints = {e1}
  Shown = {"C2:NEW", "C2:PREPARATION"}
  Hidden = {"C2:OTHER"}
  Sales = {"NEW"}
  NoStage = "no stage"
  RewardTypes = {"advance", "override"}
  Noticed = {"advance"}
  Handlers = {h1, h2}
  MaxMoves = 2
  MaxUpdates = 3
  MaxSubscribes = 2
  MaxDeaths = 1
SYMMETRY Symmetry
INVARIANT NothingSilent
INVARIANT RepeatsBounded
INVARIANT StageFollowsCrm
INVARIANT SubscribedHears
CHECK_DEADLOCK FALSE
