CONSTANTS
  CountMax = 2
  Tiles = {t1, t2}
  Pixels = {w, b}
  White = w
  Classes = {"TextUi"}
  Configs <- MCPolicies
  Planes = {}
  InkWaveform = "Fastest"
  Budget <- MCBudget
  MaxFrameId = 3
  MaxSubmissions = 1
  FrameInterval = 1
  SettledDeadline = 0
  IdleRetry = 0
  IdleCap = 0
  DamageMax = 0
SPECIFICATION Spec
SYMMETRY TileSymmetry
INVARIANTS
  TypeOK PanelConverges
PROPERTIES
  KeepsFrameContract SettledRepaintsFast RecoveryCleans
