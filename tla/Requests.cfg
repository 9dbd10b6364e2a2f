CONSTANTS
  c1 = c1
  c2 = c2
  Creds = {c1, c2}
  MaxResults = 2
  Schemes = {"ble", "softap"}
  Builds = {{0, 1, 2}, {0, 1}}
  Asked = {0, 1, 2, 3}
  NameLens = {0, 26, 40}
  DataLens = {0, 3, 29}
  MaxStarts = 2
  MaxCreated = 1
  Follow <- Followed
SPECIFICATION Spec
SYMMETRY Symmetric
INVARIANTS EndpointsAreSecured BlocksOutliveRequests IdleHoldsNothing ServedAsAsked
  AppliedAsSet ConnectedIsOwn ToldResultsAreThere LostOnlyWhenShort
CHECK_DEADLOCK FALSE
