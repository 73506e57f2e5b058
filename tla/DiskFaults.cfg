SPECIFICATION Spec
CONSTANTS
  c1 = c1
  c2 = c2
  a = a
  b = b
  old = old
  f1 = f1
  f2 = f2
  h1 = h1
  h2 = h2
  NoSession = NoSession
  NoFile = NoFile
  NoDatagram = NoDatagram
  NoPayload = NoPayload
  Clients = {c1, c2}
  FileNames = {f1, f2}
  Chunks = {a, b, old}
  Host <- OwnHosts
  Name <- SameName
  File <- TwoFiles
  OldContents <- Leftover
  Capacity = 1
  MaxTimeouts = 1
  RtoMillis = 2000
  Faults = {"loss", "interrupt", "disk", "restart", "instant"}
INVARIANTS
  NoHoles
CHECK_DEADLOCK FALSE
