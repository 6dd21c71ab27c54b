SPECIFICATION FairSpec
CONSTANTS
  r1 = r1
  r2 = r2
  r3 = r3
  r4 = r4
  r5 = r5
  k1 = k1
  NoKey = NoKey
  LongKey = LongKey
  None = None
  Conflict = Conflict
  Failed = Failed
  Absent = Absent
  Pending = Pending
  Requests <- MCRequests
  Keys <- MCKeys
  KeyOf <- MCKeyOf
  Faults <- AllFaults
INVARIANT KeysSound
PROPERTIES ResponseStable Answered OnceSpec
CHECK_DEADLOCK FALSE
