SPECIFICATION FairSpec
CONSTANTS
  Clients = {"c1", "c2"}
  Asked <- MCAsked
  MaxReq <- MCMaxReq
  MaxSubs = 2
  MaxEvents = 2
INVARIANTS PendingExact
PROPERTIES Answers Served
CHECK_DEADLOCK FALSE
