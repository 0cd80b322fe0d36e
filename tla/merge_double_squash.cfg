SPECIFICATION Spec
CONSTANTS
  Attempt = {a1}
  Thread = {t1, t2}
  UserChange = UserChange
  Overlap = FALSE
  MaxHistory = 3
  MaxResults = 1
  MaxApprovals = 1
PROPERTY BranchOnlyGrows
