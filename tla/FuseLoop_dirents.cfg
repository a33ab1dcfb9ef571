CONSTANTS
  BUF_SZ = 20
  RBUF_SZ = 6
  ALIGN = 2
  HDR = 2
  IN_HDR = 1
  OutSz <- MCOutSz
  STATFS_SZ = 3
  DIRENT_SZ = 2
  LinkSizes = {2, 4}
  ReadSizes = {1, 5}
  DirBytes = {0, 3}
  ReqLens = {2}
  Ops = {"RELEASE", "READDIR"}
  PreadFails = FALSE
  MaxReqs = 3
SPECIFICATION Spec
INVARIANTS
  RecordsAligned
CHECK_DEADLOCK FALSE
