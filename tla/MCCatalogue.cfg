SPECIFICATION MCSpec
CONSTANTS
  a1 = a1
  a2 = a2
  g1 = g1
  k1 = k1
  c1 = c1
  r1 = r1
  i1 = i1
  i2 = i2
  q1 = q1
  q2 = q2
  s1 = s1
  s2 = s2
  l1 = l1
  l2 = l2
  l3 = l3
  x1 = x1
  x2 = x2
  y1 = y1
  y2 = y2
  z1 = z1
  z2 = z2
  SenderIds <- MCSenderIds
  LinkIds <- MCLinkIds
  Clerks <- MCAdmins
  RateGroups <- MCRateGroups
  Carriers <- MCCarriers
  Clients <- MCClients
  RoutingGroups <- MCRoutingGroups
  EntryIds <- MCEntryIds
  RouteIds <- MCRouteIds
  Prefixes = {"any"}
  Admins <- MCAdmins
  None = None
  ApiClients <- MCApiClients
  ApiKeys <- MCApiKeys
  Operators <- MCAdmins
  Callers <- MCCallers
  Limiters = {1, 2, 3, 4, 5}
  Conns = 3
  Limits = {1}
  IdleFor = 1
SYMMETRY Symmetry
INVARIANTS
  RecordsInv
  KeysInv
PROPERTIES
  ChecksHold
  InUseStaysActive
