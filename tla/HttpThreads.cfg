SPECIFICATION FairSpec
CONSTANTS
  c1 = c1
  c2 = c2
  c3 = c3
  NoConnection = NoConnection
  Connections = {c1, c2, c3}
INVARIANTS
  TypeOK
  ReturnsAfterWork
  OnlyFailuresLinger
  MainWaitsForTheLiving
  ThreadInv
PROPERTIES
  MainIteratesAlone
  ImplementsHttpService
  ShutdownCompletes
  EveryConnectionCloses
CHECK_DEADLOCK FALSE
