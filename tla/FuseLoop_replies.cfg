CONSTANTS
  BUF_SZ = 8
  RBUF_SZ = 6
  ALIGN = 2
  HDR = 2
  IN_HDR = 1
  OutSz <- MCOutSz
  STATFS_SZ = 3
  DIRENT_SZ = 2
  LinkSizes = {2, 4}
  ReadSizes = {1, 5}
  DirBytes = {0, 3}
  ReqLens = {1, 2}
  Ops <- MCAllOps
  PreadFails = TRUE
  MaxReqs = 3
SPECIFICATION Spec
INVARIANTS
  TypeOK NumRqsExact RepliesIntact StallHasReply RepliedOnce IdleIsListening
PROPERTIES
  ImplementsServer
CHECK_DEADLOCK FALSE
