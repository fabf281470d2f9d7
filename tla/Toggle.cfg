SPECIFICATION Spec
CONSTANTS
  Keyboards = {k1, k2, k3}
  LockStates = {"none", "caps"}
  NoLocks = "none"
SYMMETRY MCSymmetry
INVARIANTS
  TogglesAgree
  TogglesHeard
