SPECIFICATION MCSpec
CONSTANTS
  p1 = p1
  p2 = p2
  p3 = p3
  Processes = {p1, p2, p3}
  Namespace <- MCNamespace
  Pids = {1, 2}
  Crates = {c}
  MaxEdits = 1
  Sources = {"s1", "s2"}
  Toolchains <- MCToolchains
  NoToolchain = NoToolchain
  NoPin = NoPin
  MaxChanges = 2
SYMMETRY MCSymmetry
INVARIANT LiveDirsStay
INVARIANT HomesAreLocked
INVARIANT EngineIsCommitted
INVARIANT PinIsCoherent
INVARIANT PinnedIsAccepted
PROPERTY SweepsAreComplete
CHECK_DEADLOCK FALSE
