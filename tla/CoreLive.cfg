CONSTANTS
  CountMax = 0
  Tiles = {t1}
  Pixels = {w, b}
  White = w
  Classes = {"TextUi"}
  Configs <- MCMotion
  Planes = {"menu", "peer"}
  InkWaveform = "Fastest"
  Budget <- MCBudget
  MaxFrameId = 2
  MaxSubmissions = 1
  FrameInterval = 1
  SettledDeadline = 1
  IdleRetry = 1
  IdleCap = 1
  DamageMax = 2
SPECIFICATION StreamSpec
PROPERTIES
  CleanupHonoured PendingResolves EarnedCleanupRuns
