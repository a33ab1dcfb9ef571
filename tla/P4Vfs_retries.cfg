CONSTANTS
  BUF_SZ = 8
  RBUF_SZ = 4
  ALIGN = 2
  HDR = 2
  IN_HDR = 1
  OutSz <- MCOutSz
  STATFS_SZ = 2
  DIRENT_SZ = 2
  LinkSizes = {4}
  ReadSizes = {3}
  DirBytes = {0}
  ReqLens = {1}
  Ops <- MCSharedOps
  PreadFails = TRUE
  MaxReqs = 5
  MaxId = 3
  FirstTotal = 2
  LongNames <- MCShort
  ArenaSz = 1
  Depot <- MCShared
  RunsMayFail = TRUE
  Overlong <- MCShort
  MaxHandles = 6
SPECIFICATION Spec
INVARIANTS
  CountedOnce ReadsOpen SyncedOnce
CHECK_DEADLOCK FALSE
