CONSTANTS
  None = None
  Workers = {w1, w2, w3}
  Clients = {c1, c2}
  Tasks = {t1, t2, t3}
SPECIFICATION Spec
CHECK_DEADLOCK FALSE
INVARIANTS
  TypeOK
  FrontExists
  NoSleepOverWork
  DownIsQuiet
PROPERTIES
  ImplementsService
  DrainsOnShutdown
