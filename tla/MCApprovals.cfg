SPECIFICATION ApprovalsSpec
CONSTANTS
  Release = {"r1", "r2"}
  Url = {"u1", "u2"}
  DemoUrl <- MCDemoUrl
  Body <- MCBody
  Look = {"coral"}
  DefaultLook = "coral"
  MaxDrafts = 3
  MaxApproved = 2
  MaxActivations = 3
  MaxPublications = 1
INVARIANT
  PublishedWasApproved
  FactsFollowRoute
  PublicationFollowsRoute
CHECK_DEADLOCK FALSE
