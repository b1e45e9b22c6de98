SPECIFICATION FairSpec
CONSTANTS
  Controllers = {c1}
  ScheduleIds = {s1, s2}
  Templates = {t1}
  Specs = {daily, broken}
  BadSpecs = {broken}
  CronFields = 5
  MaxEdits = 3
  MaxRestarts = 1
  None = None
INVARIANTS EntriesAreTracked NextRunIsOwn JobsWereScheduled
PROPERTIES RetiredStopsFiring AcceptedIsRegistered
