SPECIFICATION FairSpec
CONSTANTS
  Tcp = {t1, t2}
  Udp = {u1}
  Bytes = {0, 1}
  Skip = 2
  ZERO_D_CNT = 2
  ZERO_Q_CNT = 2
  Ceil = 6
  Cmn = 5
  KShort = 2
  KLong = 2
INVARIANTS TypeOK CountsIdle LinkShared
PROPERTIES QueueIdleReported IdleSplitsEvenly
