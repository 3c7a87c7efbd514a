\* Two API instances on a Redis counter that is past minIDOffset, or one
\* instance on a fresh Redis: NextID implements a source of unique IDs.
SPECIFICATION Spec
CONSTANTS
  i1 = i1
  i2 = i2
  t1 = t1
  t2 = t2
  u1 = u1
  Free = Free
  Pending = Pending
  Failed = Failed
  Instances <- MCInstances
  Threads <- MCThreads
  Home <- MCHome
  Deployments <- MCSafeDeployments
  Base = 3
  RangeSize = 2
  MinIDOffset = 4
  MaxCalls = 2
  MaxFaults = 1
INVARIANTS TypeOK LeasesDisjoint IssuedCodesDecode NoShortCode
PROPERTIES NoIdDropped CallsReturn ImplementsSource
