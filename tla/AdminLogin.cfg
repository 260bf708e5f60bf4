SPECIFICATION Spec
CONSTANTS
  Keys = {a1}
  Tabs = {t1, t2}
  Nobody = Nobody
  Limit = 2
  Window = 1
  MaxTime = 4
  MaxHits = 4
  MaxSecrets = 3
SYMMETRY Symmetry
INVARIANT AtMostLimit
INVARIANT SessionsProven
INVARIANT SecretWritesBounded
INVARIANT EnabledIsProven
CHECK_DEADLOCK FALSE
