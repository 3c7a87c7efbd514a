\* The columns that an instance finds when it serves.
SPECIFICATION Spec
CONSTANTS
  i1 = i1
  i2 = i2
  Free = Free
  Instances = {i1, i2}
  Attempts = 1
  ShutdownTimeout = 1
  DrainTime = 3
  WriteTimeout = 2
  PopTime = 1
  FlushTime = 1
  BatchSize = 2
  MaxQueue = 1
  MaxStops = 1
  MaxFaults = 1
INVARIANT RecordsFit
