\* Both instances of docker-compose.yml allocate for the first time on a fresh Redis.
SPECIFICATION Spec
CONSTANTS
  i1 = i1
  i2 = i2
  t1 = t1
  t2 = t2
  u1 = u1
  Free = Free
  Pending = Pending
  Failed = Failed
  Instances <- MCInstances
  Threads <- MCThreads
  Home <- MCHome
  Deployments <- MCComposeDeployments
  Base = 3
  RangeSize = 2
  MinIDOffset = 4
  MaxCalls = 2
  MaxFaults = 1

PROPERTIES ImplementsSource
