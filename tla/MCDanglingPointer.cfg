CONSTANTS
  Sockets = {s1, s2}
  Peers = {p}
  SubscriptionIDs = {1}
  SubjectNames <- MCSubjectNames
  Topics <- MCTopics
  LocalMessages = {own}
  RemoteMessages = {other}
  MaxQueued = 1

SPECIFICATION Spec

INVARIANT NoDanglingPointer
