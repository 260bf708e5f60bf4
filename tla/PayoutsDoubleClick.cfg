SPECIFICATION Spec
CONSTANTS
  Rewards = {r1}
  Handlers = {h1, h2}
  Chats = 1
  DelayInputs = {0}
  MaxOverdueDays = 1
  DefaultDelay = 1
  AlertAfter = 1
  MaxDay = 2
  MaxCrashes = 0
  MaxFailures = 0
INVARIANT ConfirmedOnce
CHECK_DEADLOCK FALSE
