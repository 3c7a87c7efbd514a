\* Redirects, two workers, faults and crashes.
SPECIFICATION Spec
CONSTANTS
  a = a
  b = b
  h1 = h1
  h2 = h2
  w1 = w1
  w2 = w2
  NoCode = NoCode
  Unlocked = Unlocked
  Codes = {a, b}
  Handlers = {h1, h2}
  Workers = {w1, w2}
  Home <- MCHome
  Stopping = {w2}
  BatchSize = 2
  MaxQueueLen = 1
  MaxClicks = 3
  MaxFaults = 1
INVARIANTS TypeOK LiveBalance NoneDropped WrittenAtMostOnce QueueBound StoppedIsEmpty
PROPERTIES BatchIsFlushed
CHECK_DEADLOCK FALSE
