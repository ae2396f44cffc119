CONSTANTS
  Threads = {creator, writer}
  Keys = {socket}
  NoKey = NoKey
  Destructor = Destructor
  Throwing = {creator}
  MaxRequests = 2

SPECIFICATION FairSpec

INVARIANT TypeOK
INVARIANT NoRequestIsForgotten
INVARIANT NoLostWakeUp
INVARIANT EventsRunInOrder
PROPERTY EveryRequestIsServed
PROPERTY DestructorReturns
