SPECIFICATION FairSpec
CONSTANTS
  Owner = {o1, o2}
  Digest = {d1, d2}
  Timer = {t}
  Request = {u}
  Conarium = conarium
  MaxRows = 6
INVARIANTS PublishedStays InclusionVerifies SubmittedOnce ProofsPointBack ServedConfirmedOnce
PROPERTIES PassesEnd
