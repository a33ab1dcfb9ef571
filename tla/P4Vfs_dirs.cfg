CONSTANTS
  BUF_SZ = 40
  RBUF_SZ = 4
  ALIGN = 2
  HDR = 2
  IN_HDR = 1
  OutSz <- MCOutSz
  STATFS_SZ = 2
  DIRENT_SZ = 2
  LinkSizes = {2, 4}
  ReadSizes = {3}
  DirBytes = {2}
  ReqLens = {1}
  Ops <- MCDirOps
  PreadFails = TRUE
  MaxReqs = 4
  MaxId = 3
  FirstTotal = 2
  LongNames <- MCShort
  ArenaSz = 1
  Depot <- MCDirs
  RunsMayFail = TRUE
  Overlong <- MCShort
  MaxHandles = 4
SPECIFICATION FairSpec
PROPERTIES
  EveryRequestReplied
CHECK_DEADLOCK FALSE
