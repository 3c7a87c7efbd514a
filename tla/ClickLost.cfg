\* Two workers flush the same codes; nothing else goes wrong.
SPECIFICATION Spec
CONSTANTS
  a = a
  b = b
  h1 = h1
  h2 = h2
  w1 = w1
  w2 = w2
  NoCode = NoCode
  Unlocked = Unlocked
  Codes = {a, b}
  Handlers = {h1, h2}
  Workers = {w1, w2}
  Home <- MCHome
  Stopping = {w2}
  BatchSize = 2
  MaxQueueLen = 2
  MaxClicks = 4
  MaxFaults = 0
INVARIANTS DecrementedWereFlushed
CHECK_DEADLOCK FALSE
