\* Two threads, two clients, one AcceptEx at a time, one fatal error.
CONSTANTS
  Workers = {w1, w2}
  Clients = {c1, c2}
  Contexts = {x1}
  Talks <- OneTalks
  MaxErrors = 1
SPECIFICATION FairSpec
INVARIANT DeletedOnce
INVARIANT AnswersInOrder
INVARIANT NothingIsStuck
INVARIANT OwnRequestsInOrder
PROPERTY ConnectionsAreTaken
CHECK_DEADLOCK FALSE
