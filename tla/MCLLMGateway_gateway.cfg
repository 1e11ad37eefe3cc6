CONSTANTS
  Calls = {c1, c2}
  Hour = 2
  Day = 3
  PerHour = 2
  DailyBudget = 2
  Estimates = {None}
  Costs = {None, 1}
  None = None
  MaxTime = 3
  MaxWork = 7
  Credentials = {cred}
  Workers = {w1}
  Tests = {t1}
  Keys = {k1, k2}
  Responses = {"answer", "malformed"}
  Absent = Absent
  Subjects = {s1}
  Evidence = {e1}
  Outputs <- MCOutputs
SYMMETRY Symmetry
SPECIFICATION Spec
CHECK_DEADLOCK FALSE
INVARIANTS HourlyLimitWithinDay EveryCallAccounted AsLastAsked RunsAreHonest
