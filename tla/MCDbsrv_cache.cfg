SPECIFICATION FairSpec
CONSTANTS
  g1 = g1  g2 = g2  u1 = u1  t1 = t1  t2 = t2
  Uids = {u1}
  Games = {g1, g2}
  Tables = {t1, t2}
  Configs <- SomeConfigs
  Asked <- SomeTables
  None = None
  MaxReq = 4
  MaxQueue = 2
  MaxSqlFail = 1
  MaxRefuse = 1
  MaxBreak = 1
INVARIANTS TypeOK AckedIsDurable
PROPERTIES LoadIsWhole StoreKept RequestsHandled
CHECK_DEADLOCK FALSE
