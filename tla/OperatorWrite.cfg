SPECIFICATION Spec
CONSTANTS
  confirm = confirm
  burn = burn
  panic = panic
  Attempts = {a1, a2, a3, a4}
  Keys = {k1}
  Bodies = {confirm, burn}
  Writes <- Persisted
  MaxLapses = 1
  MaxFaults = 1
  None = None
SYMMETRY AttemptSymmetry
INVARIANTS OneEffectPerLease OneAnswerPerLease AcceptedIsDurable PendingHasHolder
CHECK_DEADLOCK FALSE
