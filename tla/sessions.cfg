SPECIFICATION Spec
CONSTANTS
  Loggers = {a, b}
  Active = {a}
  MaxTasks = 2
  MaxSessions = 3
  MaxStarts = 2
  MaxTroubles = 1
INVARIANTS SessionsAccounted LeftoversAccounted
CHECK_DEADLOCK FALSE
