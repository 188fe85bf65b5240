CONSTANTS
  None = None
  Workers = {w1, w2}
  Clients = {c1}
  Tasks = {t1}
SPECIFICATION Spec
CHECK_DEADLOCK FALSE
PROPERTIES
  ShutdownReturns
