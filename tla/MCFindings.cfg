CONSTANTS
  NoRow = NoRow
  Audits = {a1, a2}
  Keys = {k1, k2}
  Detectors = {k1, k2}
  detector <- OfItsOwn
  Silenced = {k1, k2}
  Inline = {k1}
  MaxFaults = 1
SPECIFICATION Spec
SYMMETRY Symmetry
INVARIANTS
  TypeOK
  EvidenceOfOneAudit
  SuppressedIsExplained
  RulesHold
PROPERTY SuppressionIsRespected
