CONSTANTS
  g1 = g1
  g2 = g2
  f1 = f1
  f2 = f2
  Goroutines <- TwoGoroutines
  Flushers <- TwoFlushers
  Capacity = 2
  MaxSpans = 4
SPECIFICATION FairSpec
INVARIANTS
  TypeOK
  SingleWorker
  FlushMeansExported
  NoStrandedSpan
PROPERTIES
  EverySpanExported
  FlushReturns
