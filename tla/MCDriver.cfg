SPECIFICATION Spec

CONSTANTS
  Junk = Junk
  NoPath = NoPath
  NoFile = NoFile
  DefaultPath = "default"
  Generator <- MCGenerator
  Options <- MCOptions
  Disks <- MCDisks
  Variants = 2
  Cores = {1, 2}
  Skew <- MCSkew
  Width = 64
  Grain = 2
  Target = 4
  MaxGap = 2
  MaxTime = 12

INVARIANTS
  OneAllocation
  SourceIsNamed
  ReportAccountsForEvents
  SamplesAreTime
  CalibrationIsClose

PROPERTIES
  RowsKeepTheirFields
  ProgramEnds

CHECK_DEADLOCK FALSE
