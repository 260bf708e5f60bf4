SPECIFICATION FairSpec
CONSTANTS
  Rewards = {r1}
  Handlers = {h1, h2}
  Chats = 2
  DelayInputs = {0, 1, 2}
  MaxOverdueDays = 2
  DefaultDelay = 1
  AlertAfter = 1
  MaxDay = 4
  MaxCrashes = 1
  MaxFailures = 1
INVARIANT ConfirmationsBounded
INVARIANT RepeatsExplained
INVARIANT StampMeansDelivered
PROPERTY NoReminderOncePaid
PROPERTY ApprovedIsAnnounced
CHECK_DEADLOCK FALSE
