CONSTANTS
  Sockets = {s1, s2}
  SubscriptionIDs = {1, 2}
  SubjectNames <- MCSubjectNames
  Topics <- MCTopics
  MaxInfos = 2

SPECIFICATION Spec

INVARIANT TypeOK
INVARIANT LookupFollowsTheRules
PROPERTY ImplementsTable
