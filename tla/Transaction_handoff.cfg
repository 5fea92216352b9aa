SPECIFICATION Spec
CONSTANTS
  root = root
  cut = cut
  Bytes = {root, cut}
  Surfaced = {root}
  Stripped <- MCStripped
  Pkgs = {p1, p2}
  Others = {link}
  Versions = {v0}
  MaxTxs = 2
SYMMETRY PkgSymmetry
CHECK_DEADLOCK FALSE
INVARIANTS HandoffIsReviewed PackageCodeWasScanned QuarantineKeepsEvidence
PROPERTY ImplementsInstallGate
