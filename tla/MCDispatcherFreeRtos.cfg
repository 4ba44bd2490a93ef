SPECIFICATION Spec
CONSTANTS
  Threads = {t1, t2}
  Senders = {s1, s2}
  Actors = {a1, a2}
  NoActor = NoActor
  NoThread = NoThread
  Throughput = 2
  Bounded = TRUE
  MailboxSize = 1
  WorkQueueSize = 2
  MaxTells = 4
CHECK_DEADLOCK FALSE
SYMMETRY DispatcherSymmetry
INVARIANTS
  NoStrandedMailbox
  ScheduledIsQueued
  WorkQueueHasRoom
