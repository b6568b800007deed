SPECIFICATION ControlSpec
CONSTANTS
  CountMax = 1
  MaxRequests = 2
  MaxSent = 1
  MaxUnread = 1
  Profiles = {"Realtime"}
  Baseline <- CommandLine
  Hellos <- SomeHellos
  Device <- Tablet
  ProfileRequests <- SomeProfileRequests
  RefreshRequests <- SomeRefreshRequests
INVARIANTS
  PolicyAgrees CleanupCarried DebtCarried OneAnswerEach ReferenceServed HelloAgreed
PROPERTIES
  ReportsTrue
