\* Every way of reading the number of clicks while a worker flushes them.
SPECIFICATION LSpec
CONSTANTS
  a = a
  h1 = h1
  w1 = w1
  w2 = w2
  o1 = o1
  NoCode = NoCode
  Unlocked = Unlocked
  NoAnswer = NoAnswer
  Codes = {a}
  Handlers = {h1}
  Workers = {w1, w2}
  Home <- MCHome
  Stopping = {}
  BatchSize = 2
  MaxQueueLen = 2
  MaxClicks = 2
  MaxFaults = 1
  Readers = {o1}
  Owned = {a}
  Breakdowns = {"devices"}
INVARIANTS NeverOverReports AnalyticsWithinWindow
PROPERTIES MissesOnlyFlushed AnalyticsReturns
