SPECIFICATION Spec
CONSTANTS
  Tasks = {t1, t2}
  MaxTx = 1
  MaxSessions = 1
  MaxFaults = 1
  MaxOperations = 2
PROPERTIES JournalSurvivesLock
CHECK_DEADLOCK FALSE
