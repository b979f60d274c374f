CONSTANTS
  MaxCalls = 3
  MaxSetups = 2
  MaxQueue = 3
SPECIFICATION Spec
INVARIANT TypeOK
PROPERTY ReportingResumes CheckFollowsReport
