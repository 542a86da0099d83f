SPECIFICATION FairSpec
CONSTANTS
  Users = {u1, u2, u3}
  Clients = {c1, c2, c3, c4}
  MaxClients = 2
  Tasks = {t1, t2}
  NoClient = NoClient
  NoUser = NoUser
INVARIANTS TypeOK PooledOpen NoLeak ClosedUnderPressure
PROPERTIES ClosedPoolDrains
CHECK_DEADLOCK FALSE
