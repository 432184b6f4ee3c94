SPECIFICATION Spec
CONSTANTS
  Owner = {o1}
  Digest = {d1, d2}
  Timer = {t}
  Request = {}
  Conarium = conarium
  MaxRows = 5
INVARIANTS StaysServable
