SPECIFICATION FairSpec
CONSTANTS
  Gateways <- MCGateways
  Services <- MCServices
  Subjects <- MCSubjects
  BadSubjects <- MCBadSubjects
  TopItems = 1
  Clients = {c1, c2}
  MaxInTransit = 1
  MaxEvents = 4
INVARIANTS TypeOK DetailsAddUp NothingLeftBehind
PROPERTY DetailsReachThePage
