CONSTANTS
  DriverName = "ovsdpdk"
  OtherDriver = "other"
  Key = {k1, k2}
  Data = {d1, d2}
  UID = {u1, u2}
  Steps = 3
  MaxChanges = 3
  NoObject = NoObject
SPECIFICATION FairSpec
INVARIANT StatusTypeOK
INVARIANT StatusInv
INVARIANT ReplacementUntouched
PROPERTY OtherEntriesSurvive
PROPERTY DoneMeansRecorded
PROPERTY ImplementsRecordedStatus
PROPERTY UpdateEnds
CHECK_DEADLOCK FALSE
