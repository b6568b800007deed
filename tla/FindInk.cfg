CONSTANTS
  CountMax = 0
  Tiles = {t1, t2}
  Pixels = {w, b}
  White = w
  Classes = {"TextUi"}
  Configs <- MCMotion
  Planes = {"ink"}
  InkWaveform = "Fastest"
  Budget <- MCBudget
  MaxFrameId = 2
  MaxSubmissions = 1
  FrameInterval = 0
  SettledDeadline = 0
  IdleRetry = 0
  IdleCap = 0
  DamageMax = 0
SPECIFICATION Spec
INVARIANTS
  ClearedInkDisappears
SYMMETRY TileSymmetry
