SPECIFICATION Spec
CONSTANTS
  Warmups = 1
  Measured = 2
  Target = 5
  Probe = 1
  MaxIterations = 4
  Timeout = 2
  MaxU64 = 8
  Durations = {0, 1, 4}
  Receipts = {"declared", "none", "error"}
  MinimumSamples = 2
  RelativeDispersion = 100
  OutlierMultiplier = 0
  Threshold = 50
  Direction = "lower"
INVARIANT CalibrationIsTight
INVARIANT LedgerIsComplete
INVARIANT VerdictIsMeasured
CHECK_DEADLOCK FALSE
