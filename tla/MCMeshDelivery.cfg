CONSTANTS
  gw1 = gw1
  gw2 = gw2
  alice = alice
  bob = bob
  Gateways = {gw1, gw2}
  Clients = {alice, bob}
  Home <- MCHome
  NETClients = {bob}
  SubjectNames <- TwoSubjects
  Topics <- TwoSubjects
  Publications <- TwoToAlice
  MaxSubscriptions <- OneEach
  MaxQueued = 9
  MayFail = {}
  MeshFirst = TRUE

SPECIFICATION Spec
CHECK_DEADLOCK FALSE

INVARIANT InOrderAndOnce
INVARIANT PeerInterestComesFromClients
INVARIANT SoleInterestReachesTheMesh
