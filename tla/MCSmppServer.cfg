SPECIFICATION FairSpec
CONSTANTS
  c1 = c1
  c2 = c2
  k1 = k1
  Conns <- MCConns
  Clients <- MCClients
  MaxBinds <- MCMaxBinds
  Modes = {"tx", "trx"}
  MaxAttempts = 2
  Window = 1
  BlockFor = 3
  MaxClock = 3
INVARIANTS
  RegistryInv
PROPERTIES
  SessionsEnd
\* Every connection comes once, and the server may have stopped.
CHECK_DEADLOCK FALSE
