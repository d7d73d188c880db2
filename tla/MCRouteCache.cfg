SPECIFICATION FairCacheSpec
CONSTANTS
  a1 = a1
  a2 = a2
  Admins <- TwoAdmins
  Edited = {"routes", "carriers", "templates"}
  MaxEdits = 3
  MaxFaults = 1
INVARIANTS
  FreshAtRest
  RoutesHaveCarriers
PROPERTIES
  EditsReachDispatch
\* Nothing happens once every edit is made and installed.
CHECK_DEADLOCK FALSE
