SPECIFICATION Spec
CONSTANTS
  e1 = e1
  e2 = e2
  s1 = s1
  NoEmail = NoEmail
  Browsers = {b1, b2}
  Emails = {e1, e2}
  AdminEmails = {e2}
  Subjects = {s1}
  EmailOf <- EmailOfOne
  CodeTries = 1
  MaxAgents = 2
  MaxCodes = 2
SYMMETRY Symmetry
INVARIANT CodesSpentOnce
INVARIANT CodesReplacedByNewer
INVARIANT NoStrandedAgents
PROPERTY IdentityKept
CHECK_DEADLOCK FALSE
