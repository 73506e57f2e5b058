SPECIFICATION Spec
CONSTANTS
  c1 = c1
  c2 = c2
  a = a
  b = b
  old = old
  f1 = f1
  f2 = f2
  h1 = h1
  h2 = h2
  NoSession = NoSession
  NoFile = NoFile
  NoDatagram = NoDatagram
  NoPayload = NoPayload
  Clients = {c1}
  FileNames = {f1, f2}
  Chunks = {a, b, old}
  Host <- OwnHost
  Name <- OneName
  File <- OneFile
  OldContents <- Leftover
  Capacity = 3
  MaxTimeouts <- NeverGiveUp
  RtoMillis = 2000
  Faults = {"loss", "duplicate", "corrupt", "badsize", "delay", "interrupt",
            "stop", "restart"}
INVARIANTS
  TypeOK
  SuccessMeansStored
  UploadIsPrefix
  ConfirmedAbortFreesServer
  IInv
PROPERTIES
  OnlyOwnerEndsUpload
  ImplementsUploadService
CHECK_DEADLOCK FALSE
