SPECIFICATION Spec
CONSTANTS
  a = a
  b = b
  c = c
  p = p
  q = q
  Handlers = {a, b, c}
  Processes = {p, q}
  ProcessOf <- Split
  Backends = {"sqlite", "postgres"}
  Nonces = {m, n}
  Challenges = {s, t}
  Keys = {k, l}
  NoOne = none
  MaxRequests = 3
  MaxFaults = 1
SYMMETRY Interchange
INVARIANTS EvidenceFirst ChainsVerify NonceSpentByOneRow KeyPerChallenge
CHECK_DEADLOCK FALSE
