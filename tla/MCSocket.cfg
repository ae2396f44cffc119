\* Two writers, two messages and an ACK, in three sizes; one move.
SPECIFICATION FairSpec
CONSTANTS
  SIZE_SIZE = 2
  ID_SIZE = 1
  SMALL_MESSAGE_SEND_BUFFER_SIZE = 6
  ByteValues = 6
  Writers = {w1, w2}
  Drafts <- MCDrafts
  Inbound <- MCInbound
  AckSize = 3
  ReadSizes = {5}
  MaxWrites = 2
  MaxConnects = 2
INVARIANTS TypeOK SentOnceAndInOrder ReadAsSent OneLoopAtATime MovedWhileAlive OpenHandles
PROPERTIES EverythingIsSent MoveCompletes HandleIsClosed
CHECK_DEADLOCK FALSE
