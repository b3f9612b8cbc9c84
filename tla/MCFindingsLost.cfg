CONSTANTS
  NoRow = NoRow
  Audits = {a1}
  Keys = {k1}
  Detectors = {k1}
  detector <- OfItsOwn
  Silenced = {}
  Inline = {}
  MaxFaults = 0
SPECIFICATION Spec
INVARIANT SuppressionSurvives
