SPECIFICATION Spec
CONSTANTS
  Attempt = {a1, a2}
  Thread = {t1, t2}
  UserChange = UserChange
  Overlap = FALSE
  MaxHistory = 3
  MaxResults = 2
  MaxApprovals = 2
SYMMETRY Symmetry
PROPERTY LandsOnApprovedBase
