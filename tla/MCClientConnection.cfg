\* Two client threads; a subject and the inboxes of requests.
CONSTANTS
  app = app
  worker = worker
  mesh = mesh
  prices = prices
  Threads <- MCThreads
  Dispatcher = app
  Mesh = mesh
  Subjects <- MCSubjects
  UninitialisedIDs <- MCUninitialisedIDs
  Limits <- MCLimits
  MaxCallbacks = 2
  MaxMessages = 2
SPECIFICATION FairSpec
INVARIANTS
  TypeOK
  NothingIsMissed
  CacheIsFresh
  OwnReply
PROPERTIES
  QueuedIsProcessed
  ReplyEndsTheWait
CHECK_DEADLOCK FALSE
