SPECIFICATION FairSpec
CONSTANTS
  Threads = {t1, t2}
  Senders = {s1}
  Actors = {a1, a2}
  NoActor = NoActor
  NoThread = NoThread
  Throughput = 2
  Bounded = FALSE
  MailboxSize = 15
  WorkQueueSize = 20
  MaxTells = 3
CHECK_DEADLOCK FALSE
INVARIANTS
  TypeOK
  SingleThreaded
  OneToken
  HandlerContext
  NoStrandedMailbox
PROPERTIES
  ActorsSpec
  ActorsLiveSpec
