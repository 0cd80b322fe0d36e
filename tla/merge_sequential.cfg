SPECIFICATION Spec
CONSTANTS
  Attempt = {a1, a2}
  Thread = {t1}
  UserChange = UserChange
  Overlap = FALSE
  MaxHistory = 3
  MaxResults = 3
  MaxApprovals = 2
SYMMETRY Symmetry
INVARIANTS TypeOK RecordedMergeStays OnlyApprovedLands DecisionsAgree LandsOnce
PROPERTY ImplementsMergeGate
