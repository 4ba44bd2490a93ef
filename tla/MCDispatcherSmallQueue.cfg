SPECIFICATION Spec
CONSTANTS
  Threads = {t1, t2}
  Senders = {s1, s2}
  Actors = {a1, a2}
  NoActor = NoActor
  NoThread = NoThread
  Throughput = 2
  Bounded = TRUE
  MailboxSize = 2
  WorkQueueSize = 1
  MaxTells = 2
CHECK_DEADLOCK FALSE
INVARIANT ScheduledIsQueued
