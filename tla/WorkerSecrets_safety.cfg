SPECIFICATION Spec
CONSTANTS
  p1 = p1
  p2 = p2
  v1 = v1
  v2 = v2
  NumPools = 2
  Process = {p1, p2}
  Value = {v1, v2}
  Absent = Absent
  MaxEdits = 2
  MaxFaults = 1
INVARIANTS
  TypeOK
  CreatedSecretsExist
  UpdatedSecretsMatch
PROPERTIES
  SecretsKeptWithoutFaults
SYMMETRY Symmetry
