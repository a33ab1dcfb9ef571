CONSTANTS
  BUF_SZ = 40
  RBUF_SZ = 6
  ALIGN = 2
  HDR = 2
  IN_HDR = 1
  OutSz <- MCOutSz
  STATFS_SZ = 3
  DIRENT_SZ = 2
  LinkSizes = {2, 4}
  ReadSizes = {1, 5}
  DirBytes = {0, 3}
  ReqLens = {2}
  Ops = {"OPEN", "READ"}
  PreadFails = TRUE
  MaxReqs = 3
SPECIFICATION FairSpec
PROPERTIES
  EveryRequestReplied
CHECK_DEADLOCK FALSE
