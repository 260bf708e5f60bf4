SPECIFICATION BackOfficeSpec
CONSTANTS
  Agents = {1, 2}
  Viewers = {1}
  Apps = {1, 2}
  Rewards = {1, 2}
  Types = {"ADVANCE", "MAIN", "OVERRIDE", "QUARTERLY_BONUS"}
  Stages = {"UC_4FX5NE"}
  Delay = 1
  Entries = {1, 2, 3, 4, 5}
  Created <- CreatedTimes
  Starting = {1, 2, 3, 4}
  PageSize = 2
  MaxPage = 3
  MaxEdits = 4
  MaxContracts = 7
  MaxDay = 3
  MaxChanges = 5
  Admins = {h1}
  Ids = {1, 2, 3}
  Texts = {"x"}
  Senders = {"h1", "h2"}
  Reasons = {"r1", "r2", " "}
  Notes = {"n1", " "}
  Blank = " "
  Statuses = {"NEW", "IN_PROGRESS", "CLOSED"}
  New = "NEW"
  People = {"a1", "a2"}
  AdminIds = {"a1"}
  Amounts <- RatesEntered
  MaxForms = 3
INVARIANT CabinetAddsUp
INVARIANT PayoutsCoverClients
INVARIANT CalendarAgrees
INVARIANT ListsComplete
INVARIANT TrackAgrees
INVARIANT AnswersHold
PROPERTY ImplementsList
CHECK_DEADLOCK FALSE
