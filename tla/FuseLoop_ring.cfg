CONSTANTS
  BUF_SZ = 8
  RBUF_SZ = 6
  ALIGN = 2
  HDR = 2
  IN_HDR = 1
  OutSz <- MCOutSz
  STATFS_SZ = 3
  DIRENT_SZ = 2
  LinkSizes = {4}
  ReadSizes = {5}
  DirBytes = {2}
  ReqLens = {1, 2}
  Ops <- MCRingOps
  PreadFails = TRUE
  MaxReqs = 4
SPECIFICATION FairSpec
INVARIANTS
  RingIntact OneRead
PROPERTIES
  ServesWholeRequests StallLifted
CHECK_DEADLOCK FALSE
