SPECIFICATION DamageSpec
CONSTANTS
  Width = 3
  Height = 3
  DamageTile = 2
  Tiles = {0, 2}
  RegionLimits = {2}
  Changes <- MCChanges
  PenPoints <- MCPenPoints
  PenRadius = 0
  EraserRadius = 1
  MaxWork = 4
CHECK_DEADLOCK FALSE
INVARIANTS
  DeltaReproduces PixelsShown SettleRegionExact
