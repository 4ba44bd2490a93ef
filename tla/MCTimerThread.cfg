SPECIFICATION FairSpec
CONSTANTS
  sender = sender
  system = system
  startTest = startTest
  endTest = endTest
  propTimer = propTimer
  Actors = {sender, system}
  Timers = {startTest, endTest, propTimer}
  Periodic = {startTest, propTimer}
  Owner <- MCOwner
  Interval <- MCInterval
  Exiter = system
  TimerThread = TimerThread
  NoTimer = NoTimer
  Nobody = Nobody
  MaxEntries = 3
  MaxLate = 1
CHECK_DEADLOCK FALSE
INVARIANTS
  TypeOK
  NeverEarly
  OneShotFiresOnce
  SleepsForEarliest
PROPERTIES
  ServiceSpec
  DueFires
  ExitCompletes
