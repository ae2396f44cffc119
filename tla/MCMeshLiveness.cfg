CONSTANTS
  gw1 = gw1
  gw2 = gw2
  alice = alice
  bob = bob
  Gateways = {gw1, gw2}
  Clients = {alice, bob}
  Home <- MCHome
  NETClients = {bob}
  SubjectNames <- TwoSubjects
  Topics <- OneSubject
  Publications <- OneToAlice
  MaxSubscriptions <- TwoToBob
  MaxQueued = 9
  MayFail = {}
  MeshFirst = TRUE

SPECIFICATION FairSpec
CHECK_DEADLOCK FALSE

INVARIANT DeliveredToItsSubject
INVARIANT FirstSubscriptionIsKnown
PROPERTY EveryDueMessageIsReceived
 
