CONSTANTS
  BUF_SZ = 6
  RBUF_SZ = 6
  ALIGN = 2
  HDR = 2
  IN_HDR = 1
  OutSz <- MCOutSz
  STATFS_SZ = 3
  DIRENT_SZ = 2
  LinkSizes = {2}
  ReadSizes = {1}
  DirBytes = {2}
  ReqLens = {1, 2}
  Ops <- MCRingOps
  PreadFails = FALSE
  MaxReqs = 4
SPECIFICATION FairSpec
PROPERTIES
  EveryRequestReplied
CHECK_DEADLOCK FALSE
